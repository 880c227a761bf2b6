------------------------- MODULE AttestedReceiptsProofs -------------------------
(***************************************************************************)
(* Every receipt's session is retained: the proof for AttestedReceipts.    *)
(*                                                                         *)
(* CitedSessionRetained is not inductive: an eviction pass must be known   *)
(* to spare what a receipt cites, and store_receipt to have extended it    *)
(* before the receipt appears.  IInv adds what makes it so: the index is   *)
(* well formed, requests' clock snapshots lie in the past, entries are     *)
(* held exactly by the requests that own a lease on them, and a request    *)
(* about to publish holds one session, retained to its deadline.           *)
(***************************************************************************)
EXTENDS AttestedReceipts, SessionIndexProofs

PastSnapshots == \A p \in Holder : req[p].now <= clock

LeasesExact ==
    \A p \in Holder : \A id \in SessionId :
        id \in req[p].leases <=> OwnsLease(index, p, id)

HoldsNoneYet ==
    \A p \in Holder : pc[p] \in {"idle", "verifying"} => req[p].leases = {}

OneServed ==
    \A p \in Holder : pc[p] \in {"responding", "retained"} =>
        \A i, j \in req[p].leases : i = j

AdmittedInWindow ==
    \A p \in Holder : pc[p] \in {"forwarding", "responding", "retained"} =>
        \A id \in req[p].leases : InWindow(id, req[p].admitted)

RetainedFirst ==
    \A p \in Holder :
        /\ pc[p] # "refused"
        /\ pc[p] = "retained" =>
              \A id \in req[p].leases :
                  index.by_id[id].retention_until >= req[p].deadline

IInv ==
    /\ TypeOK
    /\ WellFormed(index)
    /\ PastSnapshots
    /\ LeasesExact
    /\ HoldsNoneYet
    /\ OneServed
    /\ AdmittedInWindow
    /\ RetainedFirst
    /\ CitedSessionRetained
    /\ CitesValidSession

-----------------------------------------------------------------------------
(* What a critical section does to the index, as far as requests care: it  *)
(* may evict what is unheld and lapsed at `now`, gives h leases on `add`,   *)
(* and drops those h had on `drop`.                                         *)

HoldersIn(ix, i) == IF i \in DOMAIN ix.by_id THEN ix.by_id[i].holders ELSE {}

Effect(ix, e, now, h, add, drop) ==
    /\ WellFormed(e)
    /\ \A i \in DOMAIN ix.by_id :
          ix.by_id[i].holders # {} \/ ix.by_id[i].retention_until > now =>
             /\ i \in DOMAIN e.by_id
             /\ e.by_id[i].retention_until >= ix.by_id[i].retention_until
    /\ add \subseteq DOMAIN e.by_id
    /\ \A i \in DOMAIN e.by_id :
          e.by_id[i].holders = (HoldersIn(ix, i) \cup (IF i \in add THEN {h} ELSE {}))
                                  \ (IF i \in drop THEN {h} ELSE {})

\* Leaving the index alone.
LEMMA NoEffect ==
    ASSUME NEW ix, WellFormed(ix), NEW h
    PROVE  Effect(ix, ix, 0, h, {}, {})
<1>1. \A i \in DOMAIN ix.by_id : ix.by_id[i].retention_until \in Nat
  BY DEF WellFormed, IndexType, Entry
<1> QED BY <1>1 DEF Effect, HoldersIn

\* An audit read evicts and nothing else.
LEMMA EvictEffect ==
    ASSUME NEW ix, WellFormed(ix), NEW now \in Nat, NEW h
    PROVE  Effect(ix, EvictLapsed(ix, now), now, h, {}, {})
<1>1. \A i \in DOMAIN ix.by_id : ix.by_id[i].retention_until \in Nat
  BY DEF WellFormed, IndexType, Entry
<1> QED BY <1>1, EvictWellFormed, EvictEntries DEF Effect, HoldersIn

\* Dropping leases.
LEMMA ReleaseEffect ==
    ASSUME NEW ix, WellFormed(ix), NEW h, NEW S
    PROVE  Effect(ix, ReleaseSome(ix, h, S), 0, h, {}, S)
<1> DEFINE e == ReleaseSome(ix, h, S)
<1>1. \A i \in DOMAIN ix.by_id : ix.by_id[i].retention_until \in Nat
  BY DEF WellFormed, IndexType, Entry
<1>2. /\ WellFormed(e)
      /\ DOMAIN e.by_id = DOMAIN ix.by_id
      /\ \A i \in DOMAIN ix.by_id :
            /\ e.by_id[i].retention_until = ix.by_id[i].retention_until
            /\ i \in S => e.by_id[i].holders = ix.by_id[i].holders \ {h}
            /\ i \notin S => e.by_id[i].holders = ix.by_id[i].holders
  BY ReleaseWellFormed
<1> HIDE DEF e
<1> QED BY <1>1, <1>2 DEF Effect, HoldersIn, e

\* Extending one session.
LEMMA ExtendEffect ==
    ASSUME NEW ix, WellFormed(ix), NEW id \in DOMAIN ix.by_id, NEW deadline \in Nat, NEW h
    PROVE  /\ Effect(ix, Extend(ix, id, deadline), 0, h, {}, {})
           /\ Extend(ix, id, deadline).by_id[id].retention_until >= deadline
<1> DEFINE e == Extend(ix, id, deadline)
<1>1. /\ WellFormed(e)
      /\ DOMAIN e.by_id = DOMAIN ix.by_id
      /\ e.by_id[id].retention_until >= deadline
      /\ \A i \in DOMAIN ix.by_id :
            /\ e.by_id[i].retention_until >= ix.by_id[i].retention_until
            /\ e.by_id[i].holders = ix.by_id[i].holders
  BY ExtendWellFormed
<1> HIDE DEF e
<1> QED BY <1>1 DEF Effect, HoldersIn, e

\* current(): evict, lease and extend the channel's session.
LEMMA AcquireEffect ==
    ASSUME NEW ix, WellFormed(ix), NEW now \in Nat, NEW h \in Holder,
           NEW fp, NEW retention \in Nat,
           HasCurrent(EvictLapsed(ix, now), fp, now)
    PROVE  LET v == EvictLapsed(ix, now) IN
           Effect(ix, Acquire(v, h, fp, retention), now, h, {v.by_fingerprint[fp]}, {})
<1> DEFINE v == EvictLapsed(ix, now)
           id == v.by_fingerprint[fp]
           l == Lease(v, h, id)
           e == Extend(l, id, retention)
<1>1. WellFormed(v) /\ id \in DOMAIN v.by_id
  BY EvictWellFormed DEF HasCurrent
<1>2. /\ DOMAIN v.by_id \subseteq DOMAIN ix.by_id
      /\ \A i \in DOMAIN v.by_id : v.by_id[i] = ix.by_id[i]
      /\ \A i \in DOMAIN ix.by_id :
            ix.by_id[i].holders # {} \/ ix.by_id[i].retention_until > now
               => i \in DOMAIN v.by_id
  BY EvictEntries
<1>3. \A i \in DOMAIN v.by_id : v.by_id[i].retention_until \in Nat
  BY <1>1 DEF WellFormed, IndexType, Entry
<1> HIDE DEF v, id
<1>4. /\ WellFormed(l)
      /\ DOMAIN l.by_id = DOMAIN v.by_id
      /\ \A i \in DOMAIN v.by_id :
            /\ l.by_id[i].retention_until = v.by_id[i].retention_until
            /\ i = id => l.by_id[i].holders = v.by_id[i].holders \cup {h}
            /\ i # id => l.by_id[i].holders = v.by_id[i].holders
  BY <1>1, LeaseWellFormed
<1> HIDE DEF l
<1>5. /\ WellFormed(e)
      /\ DOMAIN e.by_id = DOMAIN l.by_id
      /\ \A i \in DOMAIN l.by_id :
            /\ e.by_id[i].retention_until >= l.by_id[i].retention_until
            /\ e.by_id[i].holders = l.by_id[i].holders
  BY <1>1, <1>4, ExtendWellFormed
<1>6. Acquire(v, h, fp, retention) = e
  BY DEF Acquire, e, l, id
<1> HIDE DEF e
<1>7. Effect(ix, e, now, h, {id}, {})
  BY <1>1, <1>2, <1>3, <1>4, <1>5 DEF Effect, HoldersIn
<1> QED BY <1>6, <1>7 DEF v, id

\* current_or_seal without a current session: evict, insert, lease, evict.
LEMMA SealEffect ==
    ASSUME NEW ix, WellFormed(ix), NEW now \in Nat, NEW h \in Holder,
           NEW fp \in Fingerprint, NEW id \in SessionId, NEW retention \in Nat,
           DocOf[fp] = id.doc
    PROVE  Effect(ix,
                  EvictLapsed(
                      Lease(Insert(EvictLapsed(ix, now), fp, id, retention), h, id), now),
                  now, h, {id}, {})
<1> DEFINE v == EvictLapsed(ix, now)
           n == Insert(v, fp, id, retention)
           l == Lease(n, h, id)
           e == EvictLapsed(l, now)
<1>1. WellFormed(v)
  BY EvictWellFormed
<1>2. /\ DOMAIN v.by_id \subseteq DOMAIN ix.by_id
      /\ \A i \in DOMAIN v.by_id : v.by_id[i] = ix.by_id[i]
      /\ \A i \in DOMAIN ix.by_id :
            ix.by_id[i].holders # {} \/ ix.by_id[i].retention_until > now
               => i \in DOMAIN v.by_id
  BY EvictEntries
<1> HIDE DEF v
<1>3. /\ WellFormed(n)
      /\ DOMAIN n.by_id = DOMAIN v.by_id \cup {id}
      /\ \A i \in DOMAIN v.by_id : i # id => n.by_id[i] = v.by_id[i]
      /\ id \in DOMAIN v.by_id =>
            /\ n.by_id[id].retention_until >= v.by_id[id].retention_until
            /\ n.by_id[id].holders = v.by_id[id].holders
      /\ id \notin DOMAIN v.by_id => n.by_id[id].holders = {}
  <2>1. id \notin DOMAIN v.by_id => n.by_id[id].holders = {}
    BY DEF Insert, Put, TokenOf
  <2> HIDE DEF n
  <2>2. WellFormed(n)
    BY <1>1, InsertWellFormed DEF n
  <2> QED BY <1>1, <2>1, <2>2, InsertEntries DEF n
<1> HIDE DEF n
<1>4. /\ WellFormed(l)
      /\ DOMAIN l.by_id = DOMAIN n.by_id
      /\ \A i \in DOMAIN n.by_id :
            /\ l.by_id[i].retention_until = n.by_id[i].retention_until
            /\ i = id => l.by_id[i].holders = n.by_id[i].holders \cup {h}
            /\ i # id => l.by_id[i].holders = n.by_id[i].holders
  BY <1>3, LeaseWellFormed
<1>5. \A i \in DOMAIN l.by_id : l.by_id[i].retention_until \in Nat
  BY <1>4 DEF WellFormed, IndexType, Entry
<1>6. \A i \in DOMAIN v.by_id : v.by_id[i].retention_until \in Nat
  BY <1>1 DEF WellFormed, IndexType, Entry
<1> HIDE DEF l
<1>7. /\ WellFormed(e)
      /\ DOMAIN e.by_id \subseteq DOMAIN l.by_id
      /\ \A i \in DOMAIN e.by_id : e.by_id[i] = l.by_id[i]
      /\ \A i \in DOMAIN l.by_id :
            l.by_id[i].holders # {} \/ l.by_id[i].retention_until > now
               => i \in DOMAIN e.by_id
  BY <1>4, EvictWellFormed, EvictEntries
<1> HIDE DEF e
<1>8. id \in DOMAIN e.by_id
  BY <1>3, <1>4, <1>7
<1>9. \A i \in DOMAIN ix.by_id :
         ix.by_id[i].holders # {} \/ ix.by_id[i].retention_until > now =>
            /\ i \in DOMAIN e.by_id
            /\ e.by_id[i].retention_until >= ix.by_id[i].retention_until
  <2> SUFFICES ASSUME NEW i \in DOMAIN ix.by_id,
                      ix.by_id[i].holders # {} \/ ix.by_id[i].retention_until > now
               PROVE  /\ i \in DOMAIN e.by_id
                      /\ e.by_id[i].retention_until >= ix.by_id[i].retention_until
    OBVIOUS
  <2>1. i \in DOMAIN v.by_id /\ v.by_id[i] = ix.by_id[i]
    BY <1>2
  <2>2. /\ l.by_id[i].retention_until >= v.by_id[i].retention_until
        /\ v.by_id[i].holders \subseteq l.by_id[i].holders
        /\ i \in DOMAIN l.by_id
    BY <2>1, <1>3, <1>4, <1>6
  <2>3. l.by_id[i].holders # {} \/ l.by_id[i].retention_until > now
    BY <2>1, <2>2, <1>5, <1>6
  <2> QED BY <2>1, <2>2, <2>3, <1>7
<1>10. \A i \in DOMAIN e.by_id :
          e.by_id[i].holders = HoldersIn(ix, i) \cup (IF i \in {id} THEN {h} ELSE {})
  <2> SUFFICES ASSUME NEW i \in DOMAIN e.by_id
               PROVE  e.by_id[i].holders =
                         HoldersIn(ix, i) \cup (IF i \in {id} THEN {h} ELSE {})
    OBVIOUS
  <2>1. /\ i = id => e.by_id[i].holders = n.by_id[i].holders \cup {h}
        /\ i # id => e.by_id[i].holders = n.by_id[i].holders
    BY <1>4, <1>7
  <2>2. CASE i \in DOMAIN v.by_id
    BY <2>1, <2>2, <1>2, <1>3 DEF HoldersIn
  <2>3. CASE i \notin DOMAIN v.by_id
    BY <2>1, <2>3, <1>2, <1>3, <1>4, <1>7 DEF HoldersIn
  <2> QED BY <2>2, <2>3
<1> QED BY <1>7, <1>8, <1>9, <1>10 DEF Effect, e, l, n, v

-----------------------------------------------------------------------------
(* From the effect on the index to the invariant *)

\* A stored session of a well-formed index has its bundle.
LEMMA StoredIsFetchable ==
    ASSUME NEW ix, WellFormed(ix), NEW id \in DOMAIN ix.by_id
    PROVE  Fetchable(ix, id)
BY DEF WellFormed, CitersExact, Fetchable

\* Leases stay exact when locals change as the index does.
LEMMA LeasesStep ==
    ASSUME IInv, NEW p \in Holder, NEW now \in Nat,
           NEW add \in SUBSET SessionId, NEW drop,
           Effect(index, index', now, p, add, drop),
           \A q \in Holder : q # p => req'[q].leases = req[q].leases,
           \A i \in SessionId :
              i \in req'[p].leases <=> (i \in req[p].leases \/ i \in add) /\ i \notin drop
    PROVE  LeasesExact'
<1> USE DEF OwnsLease
<1>1. \A q \in Holder : \A i \in SessionId : i \in req[q].leases <=> OwnsLease(index, q, i)
  BY DEF IInv, LeasesExact
<1>2. \A i \in DOMAIN index.by_id : index.by_id[i].holders # {} => i \in DOMAIN index'.by_id
  BY DEF Effect
<1>3. add \subseteq DOMAIN index'.by_id
  BY DEF Effect
<1>4. \A i \in DOMAIN index'.by_id : \A q :
         q \in index'.by_id[i].holders <=>
            /\ (i \in DOMAIN index.by_id /\ q \in index.by_id[i].holders) \/ (q = p /\ i \in add)
            /\ ~(q = p /\ i \in drop)
  BY DEF Effect, HoldersIn
<1> SUFFICES ASSUME NEW q \in Holder, NEW i \in SessionId
             PROVE  i \in req'[q].leases <=> OwnsLease(index', q, i)
  BY DEF LeasesExact
<1>5. CASE q = p
  BY <1>1, <1>2, <1>3, <1>4, <1>5
<1>6. CASE q # p
  BY <1>1, <1>2, <1>4, <1>6
<1> QED BY <1>5, <1>6

\* Held sessions keep their deadlines.
LEMMA HeldKept ==
    ASSUME IInv, NEW p, NEW now \in Nat, NEW add, NEW drop,
           Effect(index, index', now, p, add, drop),
           NEW q \in Holder, NEW id \in req[q].leases
    PROVE  /\ id \in DOMAIN index.by_id
           /\ id \in DOMAIN index'.by_id
           /\ index.by_id[id].retention_until \in Nat
           /\ index'.by_id[id].retention_until \in Nat
           /\ index'.by_id[id].retention_until >= index.by_id[id].retention_until
<1>1. id \in SessionId
  BY DEF IInv, TypeOK, RequestType
<1>2. id \in DOMAIN index.by_id /\ index.by_id[id].holders # {}
  BY <1>1 DEF IInv, LeasesExact, OwnsLease
<1>3. /\ id \in DOMAIN index'.by_id
      /\ index'.by_id[id].retention_until >= index.by_id[id].retention_until
  BY <1>2 DEF Effect
<1>4. index.by_id[id].retention_until \in Nat
  BY <1>2 DEF IInv, WellFormed, IndexType, Entry
<1>5. index'.by_id[id].retention_until \in Nat
  BY <1>3 DEF Effect, WellFormed, IndexType, Entry
<1> QED BY <1>2, <1>3, <1>4, <1>5

\* What live receipts cite survives an eviction pass at any past time.
LEMMA CitedStep ==
    ASSUME IInv, NEW p, NEW now \in Nat, now <= clock, NEW add, NEW drop,
           Effect(index, index', now, p, add, drop),
           UNCHANGED <<clock, receipts>>
    PROVE  CitedSessionRetained'
<1> SUFFICES ASSUME NEW r \in DOMAIN receipts.by_receipt,
                    clock < receipts.by_receipt[r].expires_at,
                    NEW id \in receipts.by_receipt[r].cites
             PROVE  /\ Fetchable(index', id)
                    /\ index'.by_id[id].retention_until >= receipts.by_receipt[r].expires_at
  BY DEF CitedSessionRetained
<1>1. /\ id \in DOMAIN index.by_id
      /\ index.by_id[id].retention_until >= receipts.by_receipt[r].expires_at
  BY DEF IInv, CitedSessionRetained, Fetchable
<1>2. /\ clock \in Nat /\ receipts.by_receipt[r].expires_at \in Nat
  BY DEF IInv, TypeOK, ReceiptsType, ReceiptType
<1>3. index.by_id[id].retention_until \in Nat
  BY <1>1 DEF IInv, WellFormed, IndexType, Entry
<1>4. index.by_id[id].retention_until > now
  BY <1>1, <1>2, <1>3
<1>5. /\ id \in DOMAIN index'.by_id
      /\ index'.by_id[id].retention_until >= index.by_id[id].retention_until
  BY <1>1, <1>4 DEF Effect
<1>6. index'.by_id[id].retention_until \in Nat
  BY <1>5 DEF Effect, WellFormed, IndexType, Entry
<1>7. WellFormed(index')
  BY DEF Effect
<1> QED BY <1>1, <1>2, <1>3, <1>5, <1>6, <1>7, StoredIsFetchable

\* A step of request p to `to` that has an effect on the index and leaves p in
\* a consistent state.
Settles(p, now, add, drop, to) ==
    /\ now \in Nat /\ now <= clock
    /\ add \subseteq SessionId
    /\ Effect(index, index', now, p, add, drop)
    /\ req' \in [Holder -> RequestType]
    /\ \A q \in Holder : q # p => req'[q] = req[q]
    /\ req'[p].now <= clock
    /\ \A i \in SessionId :
          i \in req'[p].leases <=> (i \in req[p].leases \/ i \in add) /\ i \notin drop
    /\ to \in RequestState /\ to # "refused"
    /\ pc' = [pc EXCEPT ![p] = to]
    /\ to \in {"idle", "verifying"} => req'[p].leases = {}
    /\ to = "retained" => \A id \in req'[p].leases :
          index'.by_id[id].retention_until >= req'[p].deadline
    /\ to \in {"responding", "retained"} => \A i, j \in req'[p].leases : i = j
    /\ to \in {"forwarding", "responding", "retained"} =>
          \A id \in req'[p].leases : InWindow(id, req'[p].admitted)

\* Such a step preserves the invariant when the receipts are as they should be.
LEMMA RequestStep ==
    ASSUME IInv, NEW p \in Holder, NEW now, NEW add, NEW drop, NEW to,
           Settles(p, now, add, drop, to),
           UNCHANGED clock, ReceiptsType', CitedSessionRetained', CitesValidSession'
    PROVE  IInv'
<1> USE DEF Settles
<1>1. WellFormed(index') /\ IndexType(index')
  BY DEF Effect, WellFormed
<1>2. /\ pc' \in [Holder -> RequestState]
      /\ pc'[p] = to
      /\ \A q \in Holder : q # p => pc'[q] = pc[q]
  BY DEF IInv, TypeOK
<1>3. TypeOK'
  BY <1>1, <1>2 DEF IInv, TypeOK
<1>4. PastSnapshots'
  BY DEF IInv, PastSnapshots
<1>5. LeasesExact'
  BY LeasesStep
<1>6. HoldsNoneYet'
  BY <1>2 DEF IInv, HoldsNoneYet
<1>7. OneServed'
  BY <1>2 DEF IInv, OneServed
<1>8. AdmittedInWindow'
  BY <1>2 DEF IInv, AdmittedInWindow
<1>9. RetainedFirst'
  <2> SUFFICES ASSUME NEW q \in Holder
               PROVE  /\ pc'[q] # "refused"
                      /\ pc'[q] = "retained" =>
                            \A id \in req'[q].leases :
                               index'.by_id[id].retention_until >= req'[q].deadline
    BY DEF RetainedFirst
  <2>1. CASE q = p
    BY <2>1, <1>2
  <2>2. CASE q # p
    <3>1. pc'[q] = pc[q] /\ req'[q] = req[q]
      BY <2>2, <1>2
    <3>2. pc[q] # "refused"
      BY DEF IInv, RetainedFirst
    <3>3. ASSUME pc[q] = "retained", NEW id \in req[q].leases
          PROVE  index'.by_id[id].retention_until >= req[q].deadline
      <4>1. index.by_id[id].retention_until >= req[q].deadline
        BY <3>3 DEF IInv, RetainedFirst
      <4>2. req[q].deadline \in Nat
        BY DEF IInv, TypeOK, RequestType
      <4> QED BY <4>1, <4>2, <3>3, HeldKept
    <3> QED BY <3>1, <3>2, <3>3
  <2> QED BY <2>1, <2>2
<1> QED BY <1>1, <1>3, <1>4, <1>5, <1>7, <1>8, <1>9, <1>6 DEF IInv

\* The same when the step leaves the receipts alone.
LEMMA QuietStep ==
    ASSUME IInv, NEW p \in Holder, NEW now, NEW add, NEW drop, NEW to,
           Settles(p, now, add, drop, to),
           UNCHANGED <<clock, receipts>>
    PROVE  IInv'
<1>1. ReceiptsType'
  BY DEF IInv, TypeOK, ReceiptsType
<1>2. CitedSessionRetained'
  BY CitedStep DEF Settles
<1>3. CitesValidSession'
  BY DEF IInv, CitesValidSession
<1> QED BY <1>1, <1>2, <1>3, RequestStep

\* A request that ends drops every lease, perhaps after an eviction pass.
LEMMA ReturnStep ==
    ASSUME IInv, NEW p \in Holder, NEW from, NEW ix, NEW now \in Nat, now <= clock,
           Returns(p, from, ix), UNCHANGED <<clock, receipts>>,
           Effect(index, Release(ix, p), now, p, {}, DOMAIN index.by_id)
    PROVE  IInv'
<1>1. Effect(index, index', now, p, {}, DOMAIN index.by_id)
  BY DEF Returns
<1>2. /\ req' \in [Holder -> RequestType]
      /\ req'[p] = NoRequest
      /\ \A q \in Holder : q # p => req'[q] = req[q]
  BY ServiceConstants DEF IInv, TypeOK, Returns, NoRequest, RequestType
<1>3. req'[p].now = 0 /\ req'[p].leases = {}
  BY <1>2 DEF NoRequest
<1>4. \A i \in SessionId : i \in req[p].leases => i \in DOMAIN index.by_id
  BY DEF IInv, LeasesExact, OwnsLease
<1>5. pc' = [pc EXCEPT ![p] = "idle"] /\ "idle" \in RequestState
  BY DEF Returns, Goes, RequestState
<1>6. clock \in Nat /\ 0 <= clock
  BY DEF IInv, TypeOK
<1>7. Settles(p, now, {}, DOMAIN index.by_id, "idle")
  BY <1>1, <1>2, <1>3, <1>4, <1>5, <1>6 DEF Settles
<1> QED BY <1>7, QuietStep

\* The usual end, without an eviction pass.
LEMMA PlainReturnStep ==
    ASSUME IInv, NEW p \in Holder, NEW from, Returns(p, from, index),
           UNCHANGED <<clock, receipts>>
    PROVE  IInv'
<1>1. Effect(index, Release(index, p), 0, p, {}, DOMAIN index.by_id)
  BY ReleaseEffect DEF IInv, Release
<1>2. 0 \in Nat /\ 0 <= clock
  BY DEF IInv, TypeOK
<1> QED BY <1>1, <1>2, ReturnStep

\* A refusal drops every lease too.
LEMMA RefusesStep ==
    ASSUME IInv, NEW p \in Holder, NEW from, Refuses(p, from),
           UNCHANGED <<clock, receipts>>
    PROVE  IInv'
<1>1. Effect(index, index', 0, p, {}, DOMAIN index.by_id)
  BY ReleaseEffect DEF IInv, Refuses, Release
<1>2. clock \in Nat /\ 0 <= clock
  BY DEF IInv, TypeOK
<1>3. /\ req' \in [Holder -> RequestType]
      /\ req'[p].leases = {} /\ req'[p].now = req[p].now
      /\ \A q \in Holder : q # p => req'[q] = req[q]
  BY <1>2 DEF IInv, TypeOK, Refuses, RequestType
<1>4. \A i \in SessionId : i \in req[p].leases => i \in DOMAIN index.by_id
  BY DEF IInv, LeasesExact, OwnsLease
<1>5. pc' = [pc EXCEPT ![p] = "responding"] /\ req[p].now <= clock
  BY DEF Refuses, Goes, IInv, PastSnapshots
<1>6. Settles(p, 0, {}, DOMAIN index.by_id, "responding")
  BY <1>1, <1>2, <1>3, <1>4, <1>5 DEF Settles, RequestState
<1> QED BY <1>6, QuietStep

-----------------------------------------------------------------------------
(* One lemma per action *)

\* The clock is a natural number, and so is every snapshot of it.
LEMMA Clocks ==
    ASSUME IInv
    PROVE  /\ clock \in Nat /\ 0 <= clock
           /\ \A p \in Holder : req[p].now \in Nat /\ req[p].now <= clock
BY DEF IInv, TypeOK, RequestType, PastSnapshots

LEMMA StartStep ==
    ASSUME IInv, NEW p \in Holder, Start(p)
    PROVE  IInv'
<1>1. Effect(index, index', 0, p, {}, {})
  BY NoEffect DEF IInv, Start
<1>2. /\ req' = req /\ req \in [Holder -> RequestType]
      /\ pc' = [pc EXCEPT ![p] = "verifying"] /\ req[p].leases = {}
  BY DEF Start, Goes, IInv, TypeOK, HoldsNoneYet
<1>3. Settles(p, 0, {}, {}, "verifying")
  BY <1>1, <1>2, Clocks DEF Settles, RequestState
<1> QED BY <1>3, QuietStep DEF Start

LEMMA VerifiedStep ==
    ASSUME IInv, NEW p \in Holder, NEW e \in Event, Verified(p, e)
    PROVE  IInv'
<1>1. Effect(index, index', 0, p, {}, {})
  BY NoEffect DEF IInv, Verified
<1>2. e.multi \in BOOLEAN /\ e.channels \subseteq Fingerprint
  BY ServiceConstants
<1>3. /\ req' \in [Holder -> RequestType]
      /\ req'[p].leases = req[p].leases /\ req'[p].now = clock
      /\ \A q \in Holder : q # p => req'[q] = req[q]
  BY <1>2, Clocks DEF IInv, TypeOK, Verified, RequestType
<1>4. pc' = [pc EXCEPT ![p] = "acquiring"]
  BY DEF Verified, Goes
<1>5. Settles(p, 0, {}, {}, "acquiring")
  BY <1>1, <1>3, <1>4, Clocks DEF Settles, RequestState
<1> QED BY <1>5, QuietStep DEF Verified

LEMMA SealFailsStep ==
    ASSUME IInv, NEW p \in Holder, NEW fp, SealFails(p, fp)
    PROVE  IInv'
<1> DEFINE v == EvictLapsed(index, req[p].now)
<1>1. /\ WellFormed(v)
      /\ DOMAIN v.by_id \subseteq DOMAIN index.by_id
      /\ \A i \in DOMAIN v.by_id : v.by_id[i] = index.by_id[i]
      /\ \A i \in DOMAIN index.by_id :
            index.by_id[i].holders # {} \/ index.by_id[i].retention_until > req[p].now
               => i \in DOMAIN v.by_id
  BY Clocks, EvictEntries, EvictWellFormed DEF IInv
<1>2. \A i \in DOMAIN v.by_id : v.by_id[i].retention_until \in Nat
  BY <1>1 DEF WellFormed, IndexType, Entry
<1>3. Returns(p, "acquiring", v) /\ UNCHANGED <<clock, receipts>>
  BY DEF SealFails, Evicted
<1> HIDE DEF v
<1> DEFINE e == Release(v, p)
<1>4. /\ WellFormed(e)
      /\ DOMAIN e.by_id = DOMAIN v.by_id
      /\ \A i \in DOMAIN v.by_id :
            /\ e.by_id[i].retention_until = v.by_id[i].retention_until
            /\ e.by_id[i].holders = v.by_id[i].holders \ {p}
  BY <1>1, ReleaseWellFormed DEF Release
<1> HIDE DEF e
<1>5. Effect(index, e, req[p].now, p, {}, DOMAIN index.by_id)
  BY <1>1, <1>2, <1>4 DEF Effect, HoldersIn
<1> QED BY <1>3, <1>5, Clocks, ReturnStep DEF e

\* Either acquisition: p gains a lease on id and the channel is done.
LEMMA LeasedStep ==
    ASSUME IInv, NEW p \in Holder, NEW fp, NEW id \in SessionId,
           pc[p] = "acquiring",
           Effect(index, index', req[p].now, p, {id}, {}),
           Leases(p, fp, id),
           UNCHANGED <<clock, receipts, pc>>
    PROVE  IInv'
<1>1. /\ req' \in [Holder -> RequestType]
      /\ req'[p].leases = req[p].leases \cup {id} /\ req'[p].now = req[p].now
      /\ \A q \in Holder : q # p => req'[q] = req[q]
  BY DEF IInv, TypeOK, Leases, RequestType
<1>2. pc' = [pc EXCEPT ![p] = "acquiring"]
  BY DEF IInv, TypeOK
<1>3. Settles(p, req[p].now, {id}, {}, "acquiring")
  BY <1>1, <1>2, Clocks DEF Settles, RequestState
<1> QED BY <1>3, QuietStep

LEMMA AcquireCurrentStep ==
    ASSUME IInv, NEW p \in Holder, NEW fp \in Fingerprint, AcquireCurrent(p, fp)
    PROVE  IInv'
<1> DEFINE v == EvictLapsed(index, req[p].now)
           id == v.by_fingerprint[fp]
<1>1. HasCurrent(v, fp, req[p].now)
  BY DEF AcquireCurrent, Hit, Evicted
<1>2. AskedRetention(req[p].now) \in Nat
  BY Clocks, SealConstants DEF AskedRetention
<1>3. Effect(index, index', req[p].now, p, {id}, {})
  BY <1>1, <1>2, Clocks, AcquireEffect DEF IInv, AcquireCurrent, Evicted
<1>4. id \in SessionId
  BY <1>1, Clocks, EvictWellFormed DEF IInv, HasCurrent, WellFormed, IndexType
<1>5. Leases(p, fp, id) /\ pc[p] = "acquiring" /\ UNCHANGED <<clock, receipts, pc>>
  BY DEF AcquireCurrent, Evicted
<1> QED BY <1>3, <1>4, <1>5, LeasedStep

LEMMA AcquireSealedStep ==
    ASSUME IInv, NEW p \in Holder, NEW fp \in Fingerprint, NEW b \in Bundle,
           AcquireSealed(p, fp, b)
    PROVE  IInv'
<1> DEFINE id == Sealed(fp, b, req[p].now)
<1>1. AskedRetention(req[p].now) \in Nat
  BY Clocks, SealConstants DEF AskedRetention
<1>2. id \in SessionId /\ DocOf[fp] = id.doc
  BY Clocks, SealConstants, DocOfType DEF Sealed, SessionId, ExpiresAt
<1> HIDE DEF id
<1>3. Effect(index, index', req[p].now, p, {id}, {})
  BY <1>1, <1>2, Clocks, SealEffect DEF IInv, AcquireSealed, Evicted, id
<1>4. Leases(p, fp, id) /\ pc[p] = "acquiring" /\ UNCHANGED <<clock, receipts, pc>>
  BY DEF AcquireSealed, id
<1> QED BY <1>2, <1>3, <1>4, LeasedStep

LEMMA AdmitStep ==
    ASSUME IInv, NEW p \in Holder, NEW keep \in SUBSET req[p].leases, Admit(p, keep)
    PROVE  IInv'
<1>1. Effect(index, index', 0, p, {}, req[p].leases \ keep)
  BY ReleaseEffect DEF IInv, Admit
<1>2. /\ req' \in [Holder -> RequestType]
      /\ req'[p].leases = keep /\ req'[p].now = req[p].now /\ req'[p].admitted = clock
      /\ \A q \in Holder : q # p => req'[q] = req[q]
  BY Clocks DEF IInv, TypeOK, Admit, RequestType
<1>3. pc' = [pc EXCEPT ![p] = "forwarding"]
  BY DEF Admit, Goes
<1>4. \A id \in keep : InWindow(id, clock)
  BY DEF Admit, Admissible
<1>5. Settles(p, 0, {}, req[p].leases \ keep, "forwarding")
  BY <1>1, <1>2, <1>3, <1>4, Clocks DEF Settles, RequestState
<1> QED BY <1>5, QuietStep DEF Admit

LEMMA RespondStep ==
    ASSUME IInv, NEW p \in Holder, NEW served \in SUBSET req[p].leases,
           Respond(p, served)
    PROVE  IInv'
<1>1. Effect(index, index', 0, p, {}, req[p].leases \ served)
  BY ReleaseEffect DEF IInv, Respond
<1>2. /\ req' \in [Holder -> RequestType]
      /\ req'[p].leases = served /\ req'[p].now = req[p].now
      /\ req'[p].admitted = req[p].admitted
      /\ \A q \in Holder : q # p => req'[q] = req[q]
  BY DEF IInv, TypeOK, Respond, RequestType
<1>3. pc[p] = "forwarding" /\ pc' = [pc EXCEPT ![p] = "responding"]
  BY DEF Respond, Goes
<1>4. \A id \in served : InWindow(id, req[p].admitted)
  BY <1>3 DEF IInv, AdmittedInWindow
<1>5. \A i, j \in served : i = j
  BY DEF Respond
<1>6. Settles(p, 0, {}, req[p].leases \ served, "responding")
  BY <1>1, <1>2, <1>3, <1>4, <1>5, Clocks DEF Settles, RequestState
<1> QED BY <1>6, QuietStep DEF Respond

LEMMA WithheldStep ==
    ASSUME IInv, NEW p \in Holder, Withheld(p)
    PROVE  IInv'
<1>1. Effect(index, index', 0, p, {}, DOMAIN index.by_id)
  BY ReleaseEffect DEF IInv, Withheld, Release
<1>2. /\ req' \in [Holder -> RequestType]
      /\ req'[p].leases = {} /\ req'[p].now = req[p].now
      /\ \A q \in Holder : q # p => req'[q] = req[q]
  BY DEF IInv, TypeOK, Withheld, RequestType
<1>3. \A i \in SessionId : i \in req[p].leases => i \in DOMAIN index.by_id
  BY DEF IInv, LeasesExact, OwnsLease
<1>4. pc' = [pc EXCEPT ![p] = "responding"]
  BY DEF Withheld, Goes
<1>5. Settles(p, 0, {}, DOMAIN index.by_id, "responding")
  BY <1>1, <1>2, <1>3, <1>4, Clocks DEF Settles, RequestState
<1> QED BY <1>5, QuietStep DEF Withheld

LEMMA MismatchStep ==
    ASSUME IInv, NEW p \in Holder, Mismatch(p)
    PROVE  IInv'
<1>1. Effect(index, index', 0, p, {}, DOMAIN index.by_id)
  BY ReleaseEffect DEF IInv, Mismatch, Release
<1>2. req[p].attempts + 1 \in 0..ReverifyAttempts
  BY ServiceConstants DEF IInv, TypeOK, RequestType, Mismatch, MayReverify
<1>3. /\ req' \in [Holder -> RequestType]
      /\ req'[p].leases = {} /\ req'[p].now = 0
      /\ \A q \in Holder : q # p => req'[q] = req[q]
  BY <1>2 DEF IInv, TypeOK, Mismatch, RequestType, NoRequest
<1>4. \A i \in SessionId : i \in req[p].leases => i \in DOMAIN index.by_id
  BY DEF IInv, LeasesExact, OwnsLease
<1>5. pc' = [pc EXCEPT ![p] = "verifying"]
  BY DEF Mismatch, Goes
<1>6. Settles(p, 0, {}, DOMAIN index.by_id, "verifying")
  BY <1>1, <1>3, <1>4, <1>5, Clocks DEF Settles, RequestState
<1> QED BY <1>6, QuietStep DEF Mismatch

\* The lease protects the session, so the extension is never refused.
LEMMA RetainStep ==
    ASSUME IInv, NEW p \in Holder, Retain(p)
    PROVE  IInv'
<1> DEFINE deadline == clock + ReceiptTtl
           L == req[p].leases
<1>1. deadline \in Nat
  BY Clocks, SealConstants
<1>2. pc[p] = "responding" /\ \A id \in L : OwnsLease(index, p, id)
  BY DEF Retain, Goes, IInv, LeasesExact, TypeOK, RequestType
<1>3. \A i, j \in L : i = j
  BY <1>2 DEF IInv, OneServed
<1>4. pc' = [pc EXCEPT ![p] = "retained"]
  BY <1>2 DEF Retain, Goes
<1>5. /\ req' \in [Holder -> RequestType]
      /\ req'[p].leases = L /\ req'[p].now = req[p].now
      /\ req'[p].deadline = deadline /\ req'[p].admitted = req[p].admitted
      /\ \A q \in Holder : q # p => req'[q] = req[q]
  BY <1>1 DEF IInv, TypeOK, Retain, RequestType
<1>6. \A id \in L : InWindow(id, req[p].admitted)
  BY <1>2 DEF IInv, AdmittedInWindow
<1>7. /\ Effect(index, index', 0, p, {}, {})
      /\ \A id \in L : index'.by_id[id].retention_until >= deadline
  <2>1. CASE L = {}
    BY <2>1, NoEffect DEF Retain, IInv
  <2>2. CASE L # {}
    <3> DEFINE id == CHOOSE i \in L : TRUE
    <3>1. id \in L /\ L = {id}
      BY <2>2, <1>3
    <3>2. id \in DOMAIN index.by_id
      BY <3>1, <1>2 DEF OwnsLease
    <3>3. index' = Extend(index, id, deadline)
      BY <2>2, <1>2 DEF Retain
    <3> HIDE DEF id, deadline, L
    <3>4. /\ Effect(index, index', 0, p, {}, {})
          /\ index'.by_id[id].retention_until >= deadline
      BY <3>2, <3>3, <1>1, ExtendEffect DEF IInv
    <3> QED BY <3>1, <3>4
  <2> QED BY <2>1, <2>2
<1>8. Settles(p, 0, {}, {}, "retained")
  BY <1>3, <1>4, <1>5, <1>6, <1>7, Clocks DEF Settles, RequestState
<1> QED BY <1>8, QuietStep DEF Retain

-----------------------------------------------------------------------------
(* The receipt store *)

\* e is st with some receipts, mappings and hints removed.
Shrinks(st, e) ==
    /\ DOMAIN e.by_receipt \subseteq DOMAIN st.by_receipt
    /\ e.by_receipt = [r \in DOMAIN e.by_receipt |-> st.by_receipt[r]]
    /\ DOMAIN e.by_chat \subseteq DOMAIN st.by_chat
    /\ e.by_chat = [c \in DOMAIN e.by_chat |-> st.by_chat[c]]
    /\ e.by_expiry \subseteq st.by_expiry

LEMMA RemoveShrinks ==
    ASSUME NEW st, NEW r, r \in DOMAIN st.by_receipt
    PROVE  Shrinks(st, RemoveReceipt(st, r))
BY DEF RemoveReceipt, Shrinks, Without

LEMMA EvictExpiredShrinks ==
    ASSUME NEW st, NEW now
    PROVE  Shrinks(st, EvictExpired(st, now))
BY DEF EvictExpired, Shrinks, Without

\* A put stores the new receipt and otherwise only removes.
LEMMA PutReceiptEntries ==
    ASSUME NEW r, NEW entry, NEW now, ReceiptsType
    PROVE  LET st == receipts
               e == PutReceipt(st, r, entry, now) IN
           /\ DOMAIN e.by_receipt \subseteq DOMAIN st.by_receipt \cup {r}
           /\ e.by_receipt = [s \in DOMAIN e.by_receipt |->
                                 IF s = r THEN entry ELSE st.by_receipt[s]]
           /\ DOMAIN e.by_chat \subseteq DOMAIN st.by_chat \cup entry.chat
           /\ e.by_chat = [c \in DOMAIN e.by_chat |->
                              IF c \in entry.chat THEN r ELSE st.by_chat[c]]
           /\ e.by_expiry \subseteq st.by_expiry \cup {<<entry.expires_at, r>>}
<1> DEFINE v == EvictExpired(receipts, now)
           old == RemoveReceipt(v, r)
           e == InsertReceipt(v, r, entry)
<1>1. Shrinks(receipts, v)
  BY EvictExpiredShrinks
<1> HIDE DEF v
<1>2. /\ DOMAIN old.by_receipt \subseteq DOMAIN v.by_receipt
      /\ \A s \in DOMAIN old.by_receipt : old.by_receipt[s] = v.by_receipt[s]
      /\ DOMAIN old.by_chat \subseteq DOMAIN v.by_chat
      /\ \A c \in DOMAIN old.by_chat : old.by_chat[c] = v.by_chat[c]
      /\ old.by_expiry \subseteq v.by_expiry
  <2>1. CASE r \in DOMAIN v.by_receipt
    <3>1. Shrinks(v, old)
      BY <2>1, RemoveShrinks
    <3> HIDE DEF old
    <3> QED BY <3>1 DEF Shrinks
  <2>2. CASE r \notin DOMAIN v.by_receipt
    BY <2>2 DEF RemoveReceipt
  <2> QED BY <2>1, <2>2
<1> HIDE DEF old
<1>3. e = [ by_receipt |-> Put(old.by_receipt, r, entry),
            by_chat    |-> [c \in DOMAIN old.by_chat \cup entry.chat |->
                               IF c \in entry.chat THEN r ELSE old.by_chat[c]],
            by_expiry  |-> old.by_expiry \cup {<<entry.expires_at, r>>} ]
  BY DEF InsertReceipt, old
<1>4. /\ DOMAIN e.by_receipt \subseteq DOMAIN receipts.by_receipt \cup {r}
      /\ e.by_receipt = [s \in DOMAIN e.by_receipt |->
                            IF s = r THEN entry ELSE receipts.by_receipt[s]]
  BY <1>1, <1>2, <1>3 DEF Put, Shrinks
<1>5. /\ DOMAIN e.by_chat \subseteq DOMAIN receipts.by_chat \cup entry.chat
      /\ e.by_chat = [c \in DOMAIN e.by_chat |->
                         IF c \in entry.chat THEN r ELSE receipts.by_chat[c]]
  BY <1>1, <1>2, <1>3 DEF Shrinks
<1>6. e.by_expiry \subseteq receipts.by_expiry \cup {<<entry.expires_at, r>>}
  BY <1>1, <1>2, <1>3 DEF Shrinks
<1> QED BY <1>4, <1>5, <1>6 DEF PutReceipt, v

\* Removing receipts while the rest stands still preserves the invariant.
LEMMA ShrinkStep ==
    ASSUME IInv, Shrinks(receipts, receipts'), UNCHANGED <<clock, index, pc, req>>
    PROVE  IInv'
<1>1. ReceiptsType'
  BY DEF IInv, TypeOK, ReceiptsType, Shrinks
<1>2. \A r \in DOMAIN receipts'.by_receipt :
         /\ r \in DOMAIN receipts.by_receipt
         /\ receipts'.by_receipt[r] = receipts.by_receipt[r]
  BY DEF Shrinks
<1>3. TypeOK'
  BY <1>1 DEF IInv, TypeOK
<1>4. CitedSessionRetained'
  BY <1>2 DEF IInv, CitedSessionRetained
<1>5. CitesValidSession'
  BY <1>2 DEF IInv, CitesValidSession
<1>6. /\ WellFormed(index)' /\ PastSnapshots' /\ LeasesExact' /\ HoldsNoneYet'
      /\ OneServed' /\ AdmittedInWindow' /\ RetainedFirst'
  BY DEF IInv, PastSnapshots, LeasesExact, HoldsNoneYet, OneServed, AdmittedInWindow,
         RetainedFirst
<1> QED BY <1>3, <1>4, <1>5, <1>6 DEF IInv

LEMMA GetReceiptStep ==
    ASSUME IInv, NEW r, receipts' = AfterGet(receipts, r, clock),
           UNCHANGED <<clock, index, pc, req>>
    PROVE  IInv'
<1>1. receipts.by_receipt = [x \in DOMAIN receipts.by_receipt |-> receipts.by_receipt[x]]
  BY DEF IInv, TypeOK, ReceiptsType
<1>2. receipts.by_chat = [x \in DOMAIN receipts.by_chat |-> receipts.by_chat[x]]
  BY DEF IInv, TypeOK, ReceiptsType
<1>3. Shrinks(receipts, receipts)
  BY <1>1, <1>2 DEF Shrinks
<1>4. Shrinks(receipts, receipts')
  BY <1>3, RemoveShrinks DEF AfterGet
<1> QED BY <1>4, ShrinkStep

LEMMA GetByChatStep ==
    ASSUME IInv, NEW c \in Chat, GetByChat(c)
    PROVE  IInv'
<1>1. CASE c \in DOMAIN receipts.by_chat
  BY <1>1, GetReceiptStep DEF GetByChat, AfterChatGet
<1>2. CASE c \notin DOMAIN receipts.by_chat
  <2>1. UNCHANGED vars
    BY <1>2 DEF GetByChat, AfterChatGet, vars
  <2> QED BY <2>1 DEF vars, IInv, TypeOK, ReceiptsType, PastSnapshots, LeasesExact,
             HoldsNoneYet, OneServed, AdmittedInWindow, RetainedFirst,
             CitedSessionRetained, CitesValidSession
<1> QED BY <1>1, <1>2

\* The published receipt cites a session already retained to its deadline.
LEMMA PublishStep ==
    ASSUME IInv, NEW p \in Holder, NEW r \in Receipt, NEW chat \in SUBSET Chat,
           Publish(p, r, chat)
    PROVE  IInv'
<1> DEFINE entry == StoredReceipt(p, chat)
           now == req[p].deadline - ReceiptTtl
<1>1. /\ entry \in ReceiptType
      /\ entry.cites = req[p].leases /\ entry.expires_at = req[p].deadline
      /\ entry.served_at = req[p].admitted /\ entry.chat = chat
  BY DEF StoredReceipt, ReceiptType, IInv, TypeOK, RequestType
<1> HIDE DEF entry, now
<1>2. receipts' = PutReceipt(receipts, r, entry, now) /\ ReceiptsType
  BY DEF Publish, IInv, TypeOK, entry, now
<1>3. /\ DOMAIN receipts'.by_receipt \subseteq DOMAIN receipts.by_receipt \cup {r}
      /\ receipts'.by_receipt = [s \in DOMAIN receipts'.by_receipt |->
                                    IF s = r THEN entry ELSE receipts.by_receipt[s]]
      /\ DOMAIN receipts'.by_chat \subseteq DOMAIN receipts.by_chat \cup chat
      /\ receipts'.by_chat = [c \in DOMAIN receipts'.by_chat |->
                                 IF c \in chat THEN r ELSE receipts.by_chat[c]]
      /\ receipts'.by_expiry \subseteq
            receipts.by_expiry \cup {<<entry.expires_at, r>>}
  BY <1>1, <1>2, PutReceiptEntries
<1>4. ReceiptsType'
  <2>1. entry.expires_at \in Nat
    BY <1>1 DEF ReceiptType
  <2>2. /\ DOMAIN receipts'.by_receipt \subseteq Receipt
        /\ receipts'.by_receipt \in [DOMAIN receipts'.by_receipt -> ReceiptType]
    BY <1>1, <1>2, <1>3 DEF ReceiptsType
  <2>3. /\ DOMAIN receipts'.by_chat \subseteq Chat
        /\ receipts'.by_chat \in [DOMAIN receipts'.by_chat -> Receipt]
    BY <1>2, <1>3 DEF ReceiptsType
  <2>4. receipts'.by_expiry \subseteq Nat \X Receipt
    BY <1>2, <1>3, <2>1 DEF ReceiptsType
  <2> QED BY <2>2, <2>3, <2>4 DEF ReceiptsType
<1>5. \A s \in DOMAIN receipts'.by_receipt :
         /\ s = r => receipts'.by_receipt[s] = entry
         /\ s # r => /\ s \in DOMAIN receipts.by_receipt
                     /\ receipts'.by_receipt[s] = receipts.by_receipt[s]
  BY <1>3
<1>6. /\ pc[p] = "retained" /\ pc' = [pc EXCEPT ![p] = "idle"]
      /\ index' = ReleaseSome(index, p, DOMAIN index.by_id)
      /\ req' = [req EXCEPT ![p] = NoRequest]
      /\ clock' = clock
  BY DEF Publish, Returns, Goes, Release
<1>7. Effect(index, index', 0, p, {}, DOMAIN index.by_id)
  BY <1>6, ReleaseEffect DEF IInv
<1>wf. /\ WellFormed(index') /\ DOMAIN index'.by_id = DOMAIN index.by_id
       /\ \A id \in DOMAIN index.by_id :
             index'.by_id[id].retention_until = index.by_id[id].retention_until
  <2>1. WellFormed(index)
    BY DEF IInv
  <2> QED BY <2>1, <1>6, ReleaseWellFormed
<1>8. CitesValidSession'
  <2>1. /\ \A id \in entry.cites : InWindow(id, entry.served_at)
        /\ \A i, j \in entry.cites : i = j
    BY <1>1, <1>6 DEF IInv, OneServed, AdmittedInWindow
  <2> QED BY <2>1, <1>5 DEF IInv, CitesValidSession
<1>9. CitedSessionRetained'
  <2>1. ASSUME NEW s \in DOMAIN receipts'.by_receipt, s # r,
               clock < receipts.by_receipt[s].expires_at,
               NEW id \in receipts.by_receipt[s].cites
        PROVE  /\ Fetchable(index', id)
               /\ index'.by_id[id].retention_until >= receipts.by_receipt[s].expires_at
    <3>1. s \in DOMAIN receipts.by_receipt
      BY <2>1, <1>5
    <3>2. /\ id \in DOMAIN index.by_id
          /\ index.by_id[id].retention_until >= receipts.by_receipt[s].expires_at
      BY <3>1, <2>1 DEF IInv, CitedSessionRetained, Fetchable
    <3> QED BY <3>2, <1>wf, StoredIsFetchable
  <2>2. ASSUME NEW id \in entry.cites
        PROVE  /\ Fetchable(index', id)
               /\ index'.by_id[id].retention_until >= entry.expires_at
    <3>1. id \in req[p].leases /\ id \in SessionId
      BY <1>1 DEF IInv, TypeOK, RequestType
    <3>2. /\ id \in DOMAIN index.by_id
          /\ index.by_id[id].retention_until >= entry.expires_at
      BY <3>1, <1>1, <1>6 DEF IInv, LeasesExact, OwnsLease, RetainedFirst
    <3> QED BY <3>2, <1>wf, StoredIsFetchable
  <2> QED BY <2>1, <2>2, <1>5, <1>6 DEF CitedSessionRetained
<1>10. /\ req' \in [Holder -> RequestType]
       /\ req'[p] = NoRequest
       /\ \A q \in Holder : q # p => req'[q] = req[q]
  BY <1>6, ServiceConstants DEF IInv, TypeOK, NoRequest, RequestType
<1>11. req'[p].now = 0 /\ req'[p].leases = {}
  BY <1>10 DEF NoRequest
<1>12. \A i \in SessionId : i \in req[p].leases => i \in DOMAIN index.by_id
  BY DEF IInv, LeasesExact, OwnsLease
<1>13. Settles(p, 0, {}, DOMAIN index.by_id, "idle")
  BY <1>6, <1>7, <1>10, <1>11, <1>12, Clocks DEF Settles, RequestState
<1> QED BY <1>4, <1>6, <1>8, <1>9, <1>13, RequestStep

LEMMA GetSessionStep ==
    ASSUME IInv, GetSession
    PROVE  IInv'
<1> DEFINE e == EvictLapsed(index, clock)
<1>1. index' = e /\ UNCHANGED <<clock, receipts, pc, req>>
  BY DEF GetSession
<1>2. \A p : Effect(index, index', clock, p, {}, {})
  BY <1>1, Clocks, EvictEffect DEF IInv
<1> HIDE DEF e
<1>3. WellFormed(index') /\ IndexType(index')
  BY <1>2 DEF Effect, WellFormed
<1>4. TypeOK'
  BY <1>1, <1>3 DEF IInv, TypeOK, ReceiptsType
<1>5. PastSnapshots' /\ HoldsNoneYet' /\ OneServed' /\ AdmittedInWindow' /\ CitesValidSession'
  BY <1>1 DEF IInv, PastSnapshots, HoldsNoneYet, OneServed, AdmittedInWindow,
              CitesValidSession
<1>6. LeasesExact'
  <2>1. CASE Holder = {}
    BY <2>1 DEF LeasesExact
  <2>2. CASE Holder # {}
    BY <2>2, <1>1, <1>2, Clocks, LeasesStep
  <2> QED BY <2>1, <2>2
<1>7. CitedSessionRetained'
  BY <1>1, <1>2, Clocks, CitedStep
<1>8. RetainedFirst'
  <2> SUFFICES ASSUME NEW p \in Holder, pc[p] = "retained", NEW id \in req[p].leases
               PROVE  index'.by_id[id].retention_until >= req[p].deadline
    BY <1>1 DEF RetainedFirst, IInv
  <2>1. index.by_id[id].retention_until >= req[p].deadline
    BY DEF IInv, RetainedFirst
  <2>2. req[p].deadline \in Nat
    BY DEF IInv, TypeOK, RequestType
  <2> QED BY <2>1, <2>2, <1>2, Clocks, HeldKept
<1> QED BY <1>3, <1>4, <1>5, <1>6, <1>7, <1>8 DEF IInv

LEMMA TickStep ==
    ASSUME IInv, Tick
    PROVE  IInv'
<1>1. /\ clock \in Nat /\ clock' = clock + 1 /\ clock' \in 0..MaxTime
      /\ UNCHANGED <<index, receipts, pc, req>>
  BY ServiceConstants DEF Tick, IInv, TypeOK
<1>2. TypeOK'
  BY <1>1 DEF IInv, TypeOK, ReceiptsType
<1>3. PastSnapshots'
  BY <1>1, Clocks DEF PastSnapshots
<1>4. CitedSessionRetained'
  BY <1>1 DEF IInv, CitedSessionRetained, TypeOK, ReceiptsType, ReceiptType
<1>5. /\ WellFormed(index)' /\ LeasesExact' /\ HoldsNoneYet' /\ OneServed'
      /\ AdmittedInWindow' /\ RetainedFirst' /\ CitesValidSession'
  BY <1>1 DEF IInv, LeasesExact, HoldsNoneYet, OneServed, AdmittedInWindow,
              RetainedFirst, CitesValidSession
<1> QED BY <1>1, <1>2, <1>3, <1>4, <1>5 DEF IInv

-----------------------------------------------------------------------------
(* The theorems *)

LEMMA InitIInv == Init => IInv
<1> SUFFICES ASSUME Init PROVE IInv
  OBVIOUS
<1>1. index = EmptyIndex /\ DOMAIN index.by_id = {} /\ DOMAIN index.bundles = {}
      /\ DOMAIN index.by_fingerprint = {} /\ index.by_retention = {}
  BY DEF Init, EmptyIndex, EmptyMap
<1>2. IndexType(index)
  BY <1>1, FS_EmptySet DEF IndexType, EmptyIndex, EmptyMap
<1>3. WellFormed(index)
  BY <1>1, <1>2 DEF WellFormed, HintsExact, CitersExact, EntriesSound
<1>4. DOMAIN receipts.by_receipt = {} /\ ReceiptsType
  BY DEF Init, EmptyStore, EmptyMap, ReceiptsType
<1>5. /\ pc \in [Holder -> RequestState] /\ req \in [Holder -> RequestType]
      /\ \A p \in Holder : /\ pc[p] = "idle"
                           /\ req[p].leases = {} /\ req[p].now = 0
  <2>1. 0 \in 0..ReverifyAttempts
    BY ServiceConstants
  <2>2. NoRequest \in RequestType /\ NoRequest.leases = {} /\ NoRequest.now = 0
    BY <2>1 DEF NoRequest, RequestType
  <2>3. pc \in [Holder -> RequestState] /\ \A p \in Holder : pc[p] = "idle"
    BY DEF Init, RequestState
  <2>4. req \in [Holder -> RequestType] /\ \A p \in Holder : req[p] = NoRequest
    BY <2>2 DEF Init
  <2> QED BY <2>2, <2>3, <2>4
<1>6. clock = 0 /\ clock \in 0..MaxTime
  BY ServiceConstants DEF Init
<1>7. TypeOK
  BY <1>2, <1>4, <1>5, <1>6 DEF TypeOK
<1>8. PastSnapshots /\ HoldsNoneYet /\ OneServed /\ AdmittedInWindow /\ RetainedFirst
  BY <1>5, <1>6 DEF PastSnapshots, HoldsNoneYet, OneServed, AdmittedInWindow, RetainedFirst
<1>9. LeasesExact
  BY <1>1, <1>5 DEF LeasesExact, OwnsLease
<1>10. CitedSessionRetained /\ CitesValidSession
  BY <1>4 DEF CitedSessionRetained, CitesValidSession
<1> QED BY <1>3, <1>7, <1>8, <1>9, <1>10 DEF IInv

LEMMA NextIInv == IInv /\ [Next]_vars => IInv'
<1> SUFFICES ASSUME IInv, [Next]_vars PROVE IInv'
  OBVIOUS
<1>1. ASSUME NEW p \in Holder, Request(p) PROVE IInv'
  <2>1. CASE Start(p)
    BY <2>1, StartStep
  <2>2. ASSUME NEW e \in Event, Verified(p, e) PROVE IInv'
    BY <2>2, VerifiedStep
  <2>3. CASE Refused(p)
    BY <2>3, RefusesStep DEF Refused
  <2>4. ASSUME NEW fp \in Fingerprint, AcquireCurrent(p, fp) PROVE IInv'
    BY <2>4, AcquireCurrentStep
  <2>5. ASSUME NEW fp \in Fingerprint, NEW b \in Bundle, AcquireSealed(p, fp, b) PROVE IInv'
    BY <2>5, AcquireSealedStep
  <2>6. ASSUME NEW fp \in Fingerprint, KeysetExpired(p, fp) PROVE IInv'
    BY <2>6, PlainReturnStep DEF KeysetExpired
  <2>7. ASSUME NEW fp \in Fingerprint, SealFails(p, fp) PROVE IInv'
    BY <2>7, SealFailsStep
  <2>8. ASSUME NEW keep \in SUBSET req[p].leases, Admit(p, keep) PROVE IInv'
    BY <2>8, AdmitStep
  <2>9. CASE AdmitFails(p)
    BY <2>9, PlainReturnStep DEF AdmitFails
  <2>10. CASE NotPinned(p)
    BY <2>10, RefusesStep DEF NotPinned
  <2>11. ASSUME NEW served \in SUBSET req[p].leases, Respond(p, served) PROVE IInv'
    BY <2>11, RespondStep
  <2>12. CASE Withheld(p)
    BY <2>12, WithheldStep
  <2>13. CASE Mismatch(p)
    BY <2>13, MismatchStep
  <2>14. CASE ForwardFails(p)
    BY <2>14, PlainReturnStep DEF ForwardFails
  <2>15. CASE Abandon(p)
    BY <2>15, PlainReturnStep DEF Abandon
  <2>16. CASE Retain(p)
    BY <2>16, RetainStep
  <2>17. ASSUME NEW r \in Receipt, NEW chat \in {{}} \cup {{c} : c \in Chat},
                Publish(p, r, chat)
         PROVE  IInv'
    BY <2>17, PublishStep
  <2> QED BY <1>1, <2>1, <2>2, <2>3, <2>4, <2>5, <2>6, <2>7, <2>8, <2>9, <2>10, <2>11, <2>12,
             <2>13, <2>14, <2>15, <2>16, <2>17 DEF Request
<1>2. CASE GetSession
  BY <1>2, GetSessionStep
<1>3. ASSUME NEW r \in Receipt, GetReceipt(r) PROVE IInv'
  BY <1>3, GetReceiptStep DEF GetReceipt
<1>4. ASSUME NEW c \in Chat, GetByChat(c) PROVE IInv'
  BY <1>4, GetByChatStep
<1>5. CASE Tick
  BY <1>5, TickStep
<1>6. CASE UNCHANGED vars
  BY <1>6 DEF vars, IInv, TypeOK, ReceiptsType, PastSnapshots, LeasesExact, HoldsNoneYet,
              OneServed, AdmittedInWindow, RetainedFirst, CitedSessionRetained,
              CitesValidSession
<1> QED BY <1>1, <1>2, <1>3, <1>4, <1>5, <1>6 DEF Next

\* The inductive invariant holds of every behaviour.
THEOREM Invariant == Spec => []IInv
BY InitIInv, NextIInv, PTL DEF Spec

\* Types of both stores and of every request's locals, for any number of
\* requests, channels, receipts and reverifications.
THEOREM TypeCorrect == Spec => []TypeOK
<1>1. IInv => TypeOK
  BY DEF IInv
<1> QED BY <1>1, Invariant, PTL

\* store_receipt's contract: while a receipt is live, the session it cites is
\* in the store with its evidence, retained to the receipt's expiry.
THEOREM ReceiptsAreBacked == Spec => []CitedSessionRetained
<1>1. IInv => CitedSessionRetained
  BY DEF IInv
<1> QED BY <1>1, Invariant, PTL

\* A lease is honoured from acquisition to publication: extend_retention never
\* refuses the session a request is about to cite.
THEOREM LeasesAreHonoured == Spec => []LeasesHonoured
<1>1. IInv => LeasesHonoured
  BY DEF IInv, TypeOK, RequestType, LeasesExact, RetainedFirst, LeasesHonoured
<1> QED BY <1>1, Invariant, PTL

\* No lease outlives the request that took it, so every entry becomes evictable.
THEOREM LeasesDoNotLeak == Spec => []NoLeaseLeak
<1>1. IInv => NoLeaseLeak
  <2> SUFFICES ASSUME IInv, NEW id \in DOMAIN index.by_id,
                      NEW p \in index.by_id[id].holders
               PROVE  id \in req[p].leases
    BY DEF NoLeaseLeak
  <2>1. id \in SessionId /\ p \in Holder
    BY DEF IInv, WellFormed, IndexType, Entry
  <2> QED BY <2>1 DEF IInv, LeasesExact, OwnsLease
<1> QED BY <1>1, Invariant, PTL

\* A receipt cites at most one session, valid when the request was admitted.
THEOREM CitationsAreValid == Spec => []CitesValidSession
<1>1. IInv => CitesValidSession
  BY DEF IInv
<1> QED BY <1>1, Invariant, PTL

\* The index's hints, evidence counts and channel mappings stay exact.
THEOREM IndexStaysConsistent == Spec => []IndexConsistent
<1>1. IInv => IndexConsistent
  BY DEF IInv, WellFormed, IndexConsistent
<1> QED BY <1>1, Invariant, PTL

=============================================================================
