---------------------------- MODULE AttestedReceipts ----------------------------
(***************************************************************************)
(* How a request comes to hold a session and a receipt to cite it: the     *)
(* admission, forwarding and receipt code of src/aggregator/service/       *)
(* (forward.rs, receipts.rs) over InMemorySessionStore and                 *)
(* InMemoryReceiptStore, with concurrent requests, audit reads and time.   *)
(*                                                                         *)
(* A request verifies its upstream, acquires one session lease per         *)
(* verified channel, is admitted, forwards, selects the session that       *)
(* served, and after the response publishes a receipt citing it.  A        *)
(* verifier event is abstracted to the channels it verified; the verifier  *)
(* itself is VerifierCache.  One action is one critical section of a       *)
(* store, or one decision between two of them.                             *)
(***************************************************************************)
EXTENDS SealedSession, ReceiptStore

CONSTANTS
    Event,               \* verifier events: [channels, multi]
    ReverifyAttempts,    \* CHANNEL_BINDING_REVERIFY_ATTEMPTS
    MaxTime              \* bound on the clock

ASSUME ServiceConstants ==
    /\ Event \subseteq [channels : SUBSET Fingerprint, multi : BOOLEAN]
    /\ \A e \in Event : IsFiniteSet(e.channels)
    /\ ReverifyAttempts \in Nat
    /\ MaxTime \in Nat

VARIABLES
    clock,       \* wall clock, seconds
    index,       \* the session index
    receipts,    \* the receipt store
    pc,          \* per request: where it stands
    req          \* per request: its locals

vars == <<clock, index, receipts, pc, req>>

\* multi     - the event's upstream has several instances (is_multi_instance)
\* now       - the clock read before acquisition
\* todo      - channels of the event not acquired yet
\* leases    - the sessions the request holds leases on
\* admitted  - admitted_at
\* attempts  - reverifications so far
\* deadline  - expires_at of the receipt being stored
NoRequest ==
    [ multi |-> FALSE, now |-> 0, todo |-> {}, leases |-> {}, admitted |-> 0,
      attempts |-> 0, deadline |-> 0 ]

Init ==
    /\ clock = 0
    /\ index = EmptyIndex
    /\ receipts = EmptyStore
    /\ pc = [p \in Holder |-> "idle"]
    /\ req = [p \in Holder |-> NoRequest]

Goes(p, from, to) == pc[p] = from /\ pc' = [pc EXCEPT ![p] = to]

\* The request ends, or its future is dropped: its leases go with its locals.
Returns(p, from, ix) ==
    /\ Goes(p, from, "idle")
    /\ index' = Release(ix, p)
    /\ req' = [req EXCEPT ![p] = NoRequest]

\* issue_upstream_refusal_receipt: the refusal becomes a receipt of its own,
\* which cites no session.
Refuses(p, from) ==
    /\ Goes(p, from, "responding")
    /\ index' = Release(index, p)
    /\ req' = [req EXCEPT ![p].leases = {}, ![p].admitted = clock]

-----------------------------------------------------------------------------
(* recorded_upstream_event *)

Start(p) ==
    /\ Goes(p, "idle", "verifying")
    /\ UNCHANGED <<clock, index, receipts, req>>

\* The verifier answers with event e; admit_upstream reads the clock.
Verified(p, e) ==
    /\ Goes(p, "verifying", "acquiring")
    /\ req' = [req EXCEPT ![p] = [@ EXCEPT !.multi = e.multi, !.now = clock,
                                           !.todo = e.channels]]
    /\ UNCHANGED <<clock, index, receipts>>

\* The fail-closed gate.
Refused(p) ==
    /\ Refuses(p, "verifying")
    /\ UNCHANGED <<clock, receipts>>

-----------------------------------------------------------------------------
(* record_attested_upstream_session: current_or_seal for each channel *)

Evicted(p) == EvictLapsed(index, req[p].now)
Hit(p, fp) == HasCurrent(Evicted(p), fp, req[p].now)

Leases(p, fp, id) ==
    req' = [req EXCEPT ![p].todo = @ \ {fp}, ![p].leases = @ \cup {id}]

AcquireCurrent(p, fp) ==
    /\ pc[p] = "acquiring"
    /\ fp \in req[p].todo
    /\ Sealable(fp, req[p].now)
    /\ Hit(p, fp)
    /\ index' = Acquire(Evicted(p), p, fp, AskedRetention(req[p].now))
    /\ Leases(p, fp, Evicted(p).by_fingerprint[fp])
    /\ UNCHANGED <<clock, receipts, pc>>

\* Seal, insert, lease and evict under one index lock.
AcquireSealed(p, fp, b) ==
    LET id == Sealed(fp, b, req[p].now) IN
    /\ pc[p] = "acquiring"
    /\ fp \in req[p].todo
    /\ Sealable(fp, req[p].now)
    /\ ~Hit(p, fp)
    /\ b \in EvidenceOf[fp]
    /\ index' = EvictLapsed(
                    Lease(Insert(Evicted(p), fp, id, AskedRetention(req[p].now)), p, id),
                    req[p].now)
    /\ Leases(p, fp, id)
    /\ UNCHANGED <<clock, receipts, pc>>

\* The upstream's keyset has expired: the store is not asked.
KeysetExpired(p, fp) ==
    /\ fp \in req[p].todo
    /\ ~Sealable(fp, req[p].now)
    /\ Returns(p, "acquiring", index)
    /\ UNCHANGED <<clock, receipts>>

\* The document cannot be sealed, after the lookup evicted.
SealFails(p, fp) ==
    /\ fp \in req[p].todo
    /\ Sealable(fp, req[p].now)
    /\ ~Hit(p, fp)
    /\ Returns(p, "acquiring", Evicted(p))
    /\ UNCHANGED <<clock, receipts>>

-----------------------------------------------------------------------------
(* admit_upstream *)

InWindow(id, at) == id.established_at <= at /\ at < id.expires_at
NoWindow(id, at) == TRUE
Admissible(id, at) == InWindow(id, at)

\* `keep` are the sessions the client's pins allow: all of them without pins.
\* The leases on the others are dropped.
Admit(p, keep) ==
    /\ req[p].todo = {}
    /\ keep \subseteq req[p].leases
    /\ keep = {} => req[p].leases = {}
    /\ \A id \in keep : Admissible(id, clock)
    /\ Goes(p, "acquiring", "forwarding")
    /\ index' = ReleaseSome(index, p, req[p].leases \ keep)
    /\ req' = [req EXCEPT ![p].leases = keep, ![p].admitted = clock]
    /\ UNCHANGED <<clock, receipts>>

\* The client's pins allow none of them: refused like a failed verification.
NotPinned(p) ==
    /\ req[p].todo = {}
    /\ Refuses(p, "acquiring")
    /\ UNCHANGED <<clock, receipts>>

\* A session outside its window, or an early response already committed to a
\* keyset that has expired.  Also how list_current_sessions ends, which
\* acquires the sessions of a cached event and forwards nothing.
AdmitFails(p) ==
    /\ req[p].todo = {}
    /\ Returns(p, "acquiring", index)
    /\ UNCHANGED <<clock, receipts>>

-----------------------------------------------------------------------------
(* forward_with_binding_reverify and select *)

\* The response names the session that served; the siblings are released.
Respond(p, served) ==
    /\ served \subseteq req[p].leases
    /\ \/ ~req[p].multi /\ req[p].leases = {} /\ served = {}
       \/ \E id \in req[p].leases : served = {id}
    /\ Goes(p, "forwarding", "responding")
    /\ index' = ReleaseSome(index, p, req[p].leases \ served)
    /\ req' = [req EXCEPT ![p].leases = served]
    /\ UNCHANGED <<clock, receipts>>

\* A withheld error response of a multi-instance upstream names no instance:
\* nothing is cited.
Withheld(p) ==
    /\ req[p].multi
    /\ Goes(p, "forwarding", "responding")
    /\ index' = Release(index, p)
    /\ req' = [req EXCEPT ![p].leases = {}]
    /\ UNCHANGED <<clock, receipts>>

\* Channel binding mismatch: drop the admission and verify again.
MayReverify(p) == req[p].attempts < ReverifyAttempts
Mismatch(p) ==
    /\ MayReverify(p)
    /\ Goes(p, "forwarding", "verifying")
    /\ index' = Release(index, p)
    /\ req' = [req EXCEPT ![p] = [NoRequest EXCEPT !.attempts = req[p].attempts + 1]]
    /\ UNCHANGED <<clock, receipts>>

\* A last mismatch, any other upstream error, or a response from an instance
\* that was not admitted.
ForwardFails(p) ==
    /\ Returns(p, "forwarding", index)
    /\ UNCHANGED <<clock, receipts>>

\* The client goes away while the request waits, or the response is an error
\* that gets no receipt.
Abandon(p) ==
    /\ \E from \in {"verifying", "forwarding", "responding"} : Returns(p, from, index)
    /\ UNCHANGED <<clock, receipts>>

-----------------------------------------------------------------------------
(* store_receipt *)

\* One deadline for both: retain the cited session first ...
Retain(p) ==
    LET refused == \E id \in req[p].leases : ~OwnsLease(index, p, id) IN
    /\ Goes(p, "responding", IF refused THEN "refused" ELSE "retained")
    /\ index' = IF refused \/ req[p].leases = {}
                THEN index
                ELSE Extend(index, CHOOSE id \in req[p].leases : TRUE, clock + ReceiptTtl)
    /\ req' = [req EXCEPT ![p].deadline = clock + ReceiptTtl]
    /\ UNCHANGED <<clock, receipts>>

\* ... then publish the receipt; the lease goes when store_receipt returns.
StoredReceipt(p, chat) ==
    [ chat |-> chat, cites |-> req[p].leases, served_at |-> req[p].admitted,
      expires_at |-> req[p].deadline ]
Publish(p, r, chat) ==
    /\ receipts' = PutReceipt(receipts, r, StoredReceipt(p, chat),
                              req[p].deadline - ReceiptTtl)
    /\ Returns(p, "retained", index)
    /\ UNCHANGED clock

-----------------------------------------------------------------------------
(* Reads, and time *)

GetSession ==
    /\ index' = EvictLapsed(index, clock)
    /\ UNCHANGED <<clock, receipts, pc, req>>

GetReceipt(r) ==
    /\ receipts' = AfterGet(receipts, r, clock)
    /\ UNCHANGED <<clock, index, pc, req>>

GetByChat(c) ==
    /\ receipts' = AfterChatGet(receipts, c, clock)
    /\ UNCHANGED <<clock, index, pc, req>>

Tick ==
    /\ clock < MaxTime
    /\ clock' = clock + 1
    /\ UNCHANGED <<index, receipts, pc, req>>

Request(p) ==
    \/ Start(p) \/ \E e \in Event : Verified(p, e)
    \/ Refused(p)
    \/ \E fp \in Fingerprint : AcquireCurrent(p, fp)
    \/ \E fp \in Fingerprint, b \in Bundle : AcquireSealed(p, fp, b)
    \/ \E fp \in Fingerprint : KeysetExpired(p, fp) \/ SealFails(p, fp)
    \/ \E keep \in SUBSET req[p].leases : Admit(p, keep)
    \/ NotPinned(p) \/ AdmitFails(p)
    \/ \E served \in SUBSET req[p].leases : Respond(p, served)
    \/ Withheld(p) \/ Mismatch(p) \/ ForwardFails(p) \/ Abandon(p)
    \/ Retain(p)
    \/ \E r \in Receipt, chat \in {{}} \cup {{c} : c \in Chat} : Publish(p, r, chat)

Next ==
    \/ \E p \in Holder : Request(p)
    \/ GetSession
    \/ \E r \in Receipt : GetReceipt(r)
    \/ \E c \in Chat : GetByChat(c)
    \/ Tick

Spec == Init /\ [][Next]_vars

-----------------------------------------------------------------------------
(* Properties *)

RequestState ==
    {"idle", "verifying", "acquiring", "forwarding", "responding", "retained", "refused"}

ReceiptType ==
    [chat : SUBSET Chat, cites : SUBSET SessionId, served_at : Nat, expires_at : Nat]

RequestType ==
    [ multi : BOOLEAN, now : Nat, todo : SUBSET Fingerprint, leases : SUBSET SessionId,
      admitted : Nat, attempts : 0..ReverifyAttempts, deadline : Nat ]

ReceiptsType ==
    /\ DOMAIN receipts.by_receipt \subseteq Receipt
    /\ receipts.by_receipt \in [DOMAIN receipts.by_receipt -> ReceiptType]
    /\ DOMAIN receipts.by_chat \subseteq Chat
    /\ receipts.by_chat \in [DOMAIN receipts.by_chat -> Receipt]
    /\ receipts.by_expiry \subseteq Nat \X Receipt

\* Both stores and the requests' locals keep their types.
TypeOK ==
    /\ clock \in 0..MaxTime
    /\ IndexType(index)
    /\ ReceiptsType
    /\ pc \in [Holder -> RequestState]
    /\ req \in [Holder -> RequestType]

\* A session outlives every receipt that cites it: while a receipt is live, the
\* session it cites is stored with its evidence and retained to the receipt's
\* expiry, whatever evictions, extensions and re-seals came in between.
CitedSessionRetained ==
    \A r \in DOMAIN receipts.by_receipt :
        LET receipt == receipts.by_receipt[r] IN
        clock < receipt.expires_at =>
            \A id \in receipt.cites :
                /\ Fetchable(index, id)
                /\ index.by_id[id].retention_until >= receipt.expires_at

\* A lease keeps its session in the store from acquisition to publication, so
\* store_receipt never fails to retain the session it is about to cite.
LeasesHonoured ==
    \A p \in Holder :
        /\ pc[p] # "refused"
        /\ \A id \in req[p].leases : OwnsLease(index, p, id)

\* No lease leaks: an entry is held only by requests that still own a lease on
\* it, whichever way the others ended.
NoLeaseLeak ==
    \A id \in DOMAIN index.by_id :
        \A p \in index.by_id[id].holders : id \in req[p].leases

\* A receipt cites at most one session, one that was valid when the request
\* was admitted, although the lookup that found it used an earlier clock.
CitesValidSession ==
    \A r \in DOMAIN receipts.by_receipt :
        LET receipt == receipts.by_receipt[r] IN
        /\ \A id \in receipt.cites : InWindow(id, receipt.served_at)
        /\ \A i, j \in receipt.cites : i = j

\* The receipt store's three maps agree through puts, reads that expire,
\* evictions, reused chat ids and colliding receipt ids.
ReceiptIndexesAgree == StoreExact(receipts)

\* A receipt leaves the store only once it has expired: neither an eviction on
\* a write nor a read of another receipt takes a live one.
NoEarlyExpiry ==
    [][\A r \in DOMAIN receipts.by_receipt :
          r \in DOMAIN receipts'.by_receipt \/ receipts.by_receipt[r].expires_at <= clock]_vars

\* A chat id keeps answering while the receipt it names is stored: removing an
\* older receipt of the chat leaves the newer one's mapping alone.
ChatMappingSurvives ==
    [][\A c \in DOMAIN receipts.by_chat :
          LET r == receipts.by_chat[c] IN
          \/ c \in DOMAIN receipts'.by_chat
          \/ r \notin DOMAIN receipts'.by_receipt
          \/ c \notin receipts'.by_receipt[r].chat]_vars

\* The session index's maps agree through the service's use of it.
IndexConsistent == HintsExact(index) /\ CitersExact(index) /\ EntriesSound(index)

=============================================================================
