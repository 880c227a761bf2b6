-------------------------- MODULE ReceiptStoreProofs --------------------------
(***************************************************************************)
(* The receipt store as the service uses it: its maps agree, no live       *)
(* receipt is lost, and a newer chat mapping survives an older receipt,    *)
(* for any receipt and chat ids and any number of requests.                *)
(***************************************************************************)
EXTENDS AttestedReceiptsProofs

\* Receipts expire at natural times.
Timed(st) == \A r \in DOMAIN st.by_receipt : st.by_receipt[r].expires_at \in Nat

\* The hints of an exact store, both ways.
LEMMA Hints ==
    ASSUME NEW st, StoreExact(st)
    PROVE  /\ \A h \in st.by_expiry : \E s \in DOMAIN st.by_receipt :
                 h = <<st.by_receipt[s].expires_at, s>>
           /\ \A s \in DOMAIN st.by_receipt : <<st.by_receipt[s].expires_at, s>> \in st.by_expiry
BY DEF StoreExact

\* Its chat mappings, and the converse: hints and mappings make a store exact.
LEMMA Mappings ==
    ASSUME NEW st, StoreExact(st)
    PROVE  \A c \in DOMAIN st.by_chat :
              /\ st.by_chat[c] \in DOMAIN st.by_receipt
              /\ c \in st.by_receipt[st.by_chat[c]].chat
BY DEF StoreExact

LEMMA Exact ==
    ASSUME NEW st,
           st.by_expiry = {<<st.by_receipt[s].expires_at, s>> : s \in DOMAIN st.by_receipt},
           \A c \in DOMAIN st.by_chat :
              /\ st.by_chat[c] \in DOMAIN st.by_receipt
              /\ c \in st.by_receipt[st.by_chat[c]].chat
    PROVE  StoreExact(st)
BY DEF StoreExact

\* Removing a receipt takes its hint, and its chat's mapping if it is still its own.
LEMMA RemoveExact ==
    ASSUME NEW st, NEW r, StoreExact(st), Timed(st)
    PROVE  StoreExact(RemoveReceipt(st, r)) /\ Timed(RemoveReceipt(st, r))
<1>1. CASE r \notin DOMAIN st.by_receipt
  BY <1>1 DEF RemoveReceipt
<1>2. CASE r \in DOMAIN st.by_receipt
  <2> DEFINE e == RemoveReceipt(st, r)
  <2>1. /\ e.by_receipt = [s \in DOMAIN st.by_receipt \ {r} |-> st.by_receipt[s]]
        /\ e.by_chat = [c \in DOMAIN st.by_chat \ ChatsOf(st, {r}) |-> st.by_chat[c]]
        /\ e.by_expiry = st.by_expiry \ {<<st.by_receipt[r].expires_at, r>>}
    BY <1>2 DEF RemoveReceipt, Without
  <2> HIDE DEF e
  <2>2. e.by_expiry = {<<e.by_receipt[s].expires_at, s>> : s \in DOMAIN e.by_receipt}
    <3>1. \A h \in e.by_expiry : \E s \in DOMAIN e.by_receipt :
             h = <<e.by_receipt[s].expires_at, s>>
      BY <2>1, Hints
    <3>2. \A s \in DOMAIN e.by_receipt : <<e.by_receipt[s].expires_at, s>> \in e.by_expiry
      <4> SUFFICES ASSUME NEW s \in DOMAIN e.by_receipt
                   PROVE  <<e.by_receipt[s].expires_at, s>> \in e.by_expiry
        OBVIOUS
      <4>1. s # r /\ <<st.by_receipt[s].expires_at, s>> \in st.by_expiry
        BY <2>1, Hints
      <4>2. <<st.by_receipt[s].expires_at, s>> # <<st.by_receipt[r].expires_at, r>>
        BY <4>1
      <4> QED
        BY <2>1, <4>1, <4>2
    <3> QED
      BY <3>1, <3>2
  <2>3. \A c \in DOMAIN e.by_chat : e.by_chat[c] = st.by_chat[c] /\ st.by_chat[c] # r
    BY <2>1, Mappings DEF ChatsOf
  <2>4. \A c \in DOMAIN e.by_chat :
           /\ e.by_chat[c] \in DOMAIN e.by_receipt
           /\ c \in e.by_receipt[e.by_chat[c]].chat
    <3> SUFFICES ASSUME NEW c \in DOMAIN e.by_chat
                 PROVE  /\ e.by_chat[c] \in DOMAIN e.by_receipt
                        /\ c \in e.by_receipt[e.by_chat[c]].chat
      OBVIOUS
    <3> DEFINE s == st.by_chat[c]
    <3>1. s \in DOMAIN st.by_receipt /\ c \in st.by_receipt[s].chat /\ s # r /\ e.by_chat[c] = s
      BY <2>1, <2>3, Mappings
    <3>2. s \in DOMAIN e.by_receipt /\ e.by_receipt[s] = st.by_receipt[s]
      BY <2>1, <3>1
    <3> QED
      BY <3>1, <3>2
  <2>5. StoreExact(e) /\ Timed(e)
    BY <2>1, <2>2, <2>4, Exact DEF Timed
  <2> QED
    BY <2>5 DEF e
<1> QED
  BY <1>1, <1>2

\* An eviction takes exactly the receipts that expired, by their hints.
LEMMA EvictExact ==
    ASSUME NEW st, NEW now \in Int, StoreExact(st), Timed(st)
    PROVE  LET e == EvictExpired(st, now) IN
           /\ StoreExact(e) /\ Timed(e)
           /\ \A r \in DOMAIN st.by_receipt :
                 r \in DOMAIN e.by_receipt <=> st.by_receipt[r].expires_at > now
           /\ \A r \in DOMAIN e.by_receipt : e.by_receipt[r] = st.by_receipt[r]
           /\ \A c \in DOMAIN st.by_chat :
                 /\ st.by_chat[c] \in DOMAIN e.by_receipt => c \in DOMAIN e.by_chat
                 /\ c \in DOMAIN e.by_chat => e.by_chat[c] = st.by_chat[c]
<1> DEFINE gone == {r \in DOMAIN st.by_receipt :
                       \E h \in st.by_expiry : h[1] <= now /\ h[2] = r}
           e == EvictExpired(st, now)
<1>1. \A r \in DOMAIN st.by_receipt : r \in gone <=> st.by_receipt[r].expires_at <= now
  <2> SUFFICES ASSUME NEW r \in DOMAIN st.by_receipt
               PROVE  r \in gone <=> st.by_receipt[r].expires_at <= now
    OBVIOUS
  <2>1. ASSUME NEW h \in st.by_expiry, h[1] <= now, h[2] = r
        PROVE  st.by_receipt[r].expires_at <= now
    <3>1. PICK s \in DOMAIN st.by_receipt : h = <<st.by_receipt[s].expires_at, s>>
      BY Hints
    <3> QED
      BY <2>1, <3>1
  <2>2. <<st.by_receipt[r].expires_at, r>> \in st.by_expiry
    BY Hints
  <2> QED
    BY <2>1, <2>2
<1>2. /\ e.by_receipt = [s \in DOMAIN st.by_receipt \ gone |-> st.by_receipt[s]]
      /\ e.by_chat = [c \in DOMAIN st.by_chat \ ChatsOf(st, gone) |-> st.by_chat[c]]
      /\ e.by_expiry = {h \in st.by_expiry : h[1] > now}
  BY DEF EvictExpired, Without
<1> HIDE DEF gone, e
<1>3. \A r \in DOMAIN st.by_receipt : r \in gone <=> ~(st.by_receipt[r].expires_at > now)
  BY <1>1 DEF Timed
<1>4. \A c \in DOMAIN st.by_chat : c \in ChatsOf(st, gone) <=> st.by_chat[c] \in gone
  BY DEF StoreExact, ChatsOf
<1>5. e.by_expiry = {<<e.by_receipt[s].expires_at, s>> : s \in DOMAIN e.by_receipt}
  <2>1. \A h \in e.by_expiry : \E s \in DOMAIN e.by_receipt :
           h = <<e.by_receipt[s].expires_at, s>>
    <3> SUFFICES ASSUME NEW h \in e.by_expiry
                 PROVE  \E s \in DOMAIN e.by_receipt : h = <<e.by_receipt[s].expires_at, s>>
      OBVIOUS
    <3>1. PICK s \in DOMAIN st.by_receipt : h = <<st.by_receipt[s].expires_at, s>>
      BY <1>2, Hints
    <3>2. s \in DOMAIN e.by_receipt
      BY <1>2, <1>3, <3>1
    <3> QED
      BY <1>2, <3>1, <3>2
  <2>2. \A s \in DOMAIN e.by_receipt : <<e.by_receipt[s].expires_at, s>> \in e.by_expiry
    <3> SUFFICES ASSUME NEW s \in DOMAIN e.by_receipt
                 PROVE  <<e.by_receipt[s].expires_at, s>> \in e.by_expiry
      OBVIOUS
    <3>1. st.by_receipt[s].expires_at > now /\ e.by_receipt[s] = st.by_receipt[s]
      BY <1>2, <1>3
    <3>2. <<st.by_receipt[s].expires_at, s>> \in st.by_expiry
      BY <1>2, Hints
    <3> QED
      BY <1>2, <3>1, <3>2
  <2> QED
    BY <2>1, <2>2
<1>6. StoreExact(e) /\ Timed(e)
  <2>1. \A c \in DOMAIN e.by_chat :
           /\ e.by_chat[c] \in DOMAIN e.by_receipt
           /\ c \in e.by_receipt[e.by_chat[c]].chat
    BY <1>2, <1>4, Mappings
  <2> QED
    BY <1>2, <1>5, <2>1, Exact DEF Timed
<1>7. /\ \A r \in DOMAIN st.by_receipt :
            r \in DOMAIN e.by_receipt <=> st.by_receipt[r].expires_at > now
      /\ \A r \in DOMAIN e.by_receipt : e.by_receipt[r] = st.by_receipt[r]
      /\ \A c \in DOMAIN st.by_chat :
            /\ st.by_chat[c] \in DOMAIN e.by_receipt => c \in DOMAIN e.by_chat
            /\ c \in DOMAIN e.by_chat => e.by_chat[c] = st.by_chat[c]
  BY <1>2, <1>3, <1>4
<1> QED
  BY <1>6, <1>7 DEF e

\* An insert leaves the other receipts, and all chats but its own, as they were.
LEMMA InsertExact ==
    ASSUME NEW st, NEW r, NEW entry, StoreExact(st), Timed(st), entry.expires_at \in Nat
    PROVE  LET e == InsertReceipt(st, r, entry) IN
           /\ StoreExact(e) /\ Timed(e)
           /\ DOMAIN e.by_receipt = DOMAIN st.by_receipt \cup {r}
           /\ e.by_receipt[r] = entry
           /\ \A c \in entry.chat : c \in DOMAIN e.by_chat
           /\ \A c \in DOMAIN st.by_chat : st.by_chat[c] # r => c \in DOMAIN e.by_chat
<1> DEFINE old == RemoveReceipt(st, r)
           e == InsertReceipt(st, r, entry)
<1>1. StoreExact(old) /\ Timed(old)
  BY RemoveExact
<1>2. /\ DOMAIN old.by_receipt = DOMAIN st.by_receipt \ {r}
      /\ \A c \in DOMAIN st.by_chat : st.by_chat[c] # r => c \in DOMAIN old.by_chat
  BY DEF RemoveReceipt, Without, ChatsOf
<1>3. /\ e.by_receipt = [s \in DOMAIN old.by_receipt \cup {r} |->
                            IF s = r THEN entry ELSE old.by_receipt[s]]
      /\ e.by_chat = [c \in DOMAIN old.by_chat \cup entry.chat |->
                         IF c \in entry.chat THEN r ELSE old.by_chat[c]]
      /\ e.by_expiry = old.by_expiry \cup {<<entry.expires_at, r>>}
  BY DEF InsertReceipt, Put
<1> HIDE DEF old, e
<1>4. e.by_expiry = {<<e.by_receipt[s].expires_at, s>> : s \in DOMAIN e.by_receipt}
  <2>1. \A h \in e.by_expiry : \E s \in DOMAIN e.by_receipt :
           h = <<e.by_receipt[s].expires_at, s>>
    BY <1>1, <1>2, <1>3, Hints
  <2>2. \A s \in DOMAIN e.by_receipt : <<e.by_receipt[s].expires_at, s>> \in e.by_expiry
    BY <1>1, <1>2, <1>3, Hints
  <2> QED
    BY <2>1, <2>2
<1>5. StoreExact(e) /\ Timed(e)
  <2>1. \A c \in DOMAIN e.by_chat :
           /\ e.by_chat[c] \in DOMAIN e.by_receipt
           /\ c \in e.by_receipt[e.by_chat[c]].chat
    BY <1>1, <1>2, <1>3, Mappings
  <2> QED
    BY <1>1, <1>2, <1>3, <1>4, <2>1, Exact DEF Timed
<1> QED
  BY <1>2, <1>3, <1>5 DEF e

\* A read removes at most the receipt it finds expired.
LEMMA GetExact ==
    ASSUME NEW st, NEW r, NEW now \in Int, StoreExact(st), Timed(st)
    PROVE  LET e == AfterGet(st, r, now) IN
           /\ StoreExact(e) /\ Timed(e)
           /\ \A s \in DOMAIN st.by_receipt :
                 s \in DOMAIN e.by_receipt \/ st.by_receipt[s].expires_at <= now
           /\ \A c \in DOMAIN st.by_chat :
                 c \in DOMAIN e.by_chat \/ st.by_chat[c] \notin DOMAIN e.by_receipt
<1>1. CASE r \in DOMAIN st.by_receipt /\ Expired(st, r, now)
  <2>1. AfterGet(st, r, now) = RemoveReceipt(st, r)
    BY <1>1 DEF AfterGet
  <2>2. /\ DOMAIN RemoveReceipt(st, r).by_receipt = DOMAIN st.by_receipt \ {r}
        /\ \A c \in DOMAIN st.by_chat :
              st.by_chat[c] # r => c \in DOMAIN RemoveReceipt(st, r).by_chat
    BY <1>1 DEF RemoveReceipt, Without, ChatsOf
  <2>3. st.by_receipt[r].expires_at <= now
    BY <1>1 DEF Expired, Timed
  <2> QED
    BY <2>1, <2>2, <2>3, RemoveExact
<1>2. CASE ~(r \in DOMAIN st.by_receipt /\ Expired(st, r, now))
  BY <1>2 DEF AfterGet, StoreExact
<1> QED
  BY <1>1, <1>2

-----------------------------------------------------------------------------
(* The service. *)

\* store_receipt computes a receipt's deadline from a clock it has read.
DeadlinesSet == \A p \in Holder : req[p].deadline <= clock + ReceiptTtl

RInv == IInv /\ StoreExact(receipts) /\ DeadlinesSet

\* What a step of p does to the deadlines: it keeps, clears or sets p's own.
Sets(p) ==
    /\ \A q \in Holder \ {p} : req'[q] = req[q]
    /\ req'[p].deadline \in {0, req[p].deadline, clock + ReceiptTtl}

\* Only Retain sets a deadline.
LEMMA RequestSets == ASSUME IInv, NEW p \in Holder, Request(p) PROVE Sets(p)
<1>0. req \in [Holder -> RequestType]
  BY DEF IInv, TypeOK
<1>1. ASSUME req' = [req EXCEPT ![p] = NoRequest] PROVE Sets(p)
  BY <1>0, <1>1 DEF Sets, NoRequest
<1>2. CASE \/ AdmitFails(p) \/ ForwardFails(p) \/ Abandon(p)
           \/ \E fp \in Fingerprint : KeysetExpired(p, fp) \/ SealFails(p, fp)
           \/ \E r \in Receipt, chat \in {{}} \cup {{c} : c \in Chat} : Publish(p, r, chat)
  BY <1>1, <1>2 DEF AdmitFails, ForwardFails, Abandon, KeysetExpired, SealFails, Publish, Returns
<1>3. CASE Start(p)
  BY <1>3 DEF Start, Sets
<1>4. ASSUME NEW e \in Event, Verified(p, e) PROVE Sets(p)
  BY <1>0, <1>4 DEF Verified, Sets, RequestType
<1>5. CASE Refused(p) \/ NotPinned(p)
  <2>1. req' = [req EXCEPT ![p].leases = {}, ![p].admitted = clock]
    BY <1>5 DEF Refused, NotPinned, Refuses
  <2> QED
    BY <1>0, <2>1 DEF Sets, RequestType
<1>6. ASSUME NEW fp, NEW id, Leases(p, fp, id) PROVE Sets(p)
  BY <1>0, <1>6 DEF Leases, Sets, RequestType
<1>7. ASSUME NEW fp \in Fingerprint, AcquireCurrent(p, fp) PROVE Sets(p)
  BY <1>6, <1>7 DEF AcquireCurrent
<1>8. ASSUME NEW fp \in Fingerprint, NEW b \in Bundle, AcquireSealed(p, fp, b) PROVE Sets(p)
  BY <1>6, <1>8 DEF AcquireSealed
<1>9. ASSUME NEW keep \in SUBSET req[p].leases, Admit(p, keep) PROVE Sets(p)
  BY <1>0, <1>9 DEF Admit, Sets, RequestType
<1>10. ASSUME NEW served \in SUBSET req[p].leases, Respond(p, served) PROVE Sets(p)
  BY <1>0, <1>10 DEF Respond, Sets, RequestType
<1>11. CASE Withheld(p)
  BY <1>0, <1>11 DEF Withheld, Sets, RequestType
<1>12. CASE Mismatch(p)
  BY <1>0, <1>12 DEF Mismatch, NoRequest, Sets
<1>13. CASE Retain(p)
  BY <1>0, <1>13 DEF Retain, Sets, RequestType
<1> QED
  BY <1>2, <1>3, <1>4, <1>5, <1>7, <1>8, <1>9, <1>10, <1>11, <1>12, <1>13 DEF Request

LEMMA DeadlinesNext == ASSUME IInv, DeadlinesSet, [Next]_vars PROVE DeadlinesSet'
<1>0. clock \in Nat /\ ReceiptTtl \in Nat /\ req \in [Holder -> RequestType]
  BY SealConstants, ServiceConstants DEF IInv, TypeOK
<1>1. ASSUME NEW p \in Holder, Request(p) PROVE DeadlinesSet'
  <2>1. clock' = clock
    BY <1>1 DEF Request, Start, Verified, Refused, AcquireCurrent, AcquireSealed, KeysetExpired,
                SealFails, Admit, NotPinned, AdmitFails, Respond, Withheld, Mismatch,
                ForwardFails, Abandon, Retain, Publish
  <2> QED
    BY <1>0, <1>1, <2>1, RequestSets DEF Sets, DeadlinesSet, RequestType
<1>2. ASSUME req' = req, clock' \in {clock, clock + 1} PROVE DeadlinesSet'
  BY <1>0, <1>2 DEF DeadlinesSet, RequestType
<1> QED
  BY <1>1, <1>2 DEF Next, GetSession, GetReceipt, GetByChat, Tick, vars

\* What the three operations that touch the store leave of it.
Serves(st, e) ==
    /\ StoreExact(e)
    /\ \A r \in DOMAIN st.by_receipt :
          r \in DOMAIN e.by_receipt \/ st.by_receipt[r].expires_at <= clock
    /\ \A c \in DOMAIN st.by_chat :
          \/ c \in DOMAIN e.by_chat
          \/ st.by_chat[c] \notin DOMAIN e.by_receipt
          \/ c \notin e.by_receipt[st.by_chat[c]].chat

\* Every step keeps the maps in agreement, live receipts and their mappings.
LEMMA StoreNext == ASSUME RInv, [Next]_vars PROVE Serves(receipts, receipts')
<1>0. /\ clock \in Nat /\ ReceiptTtl \in Nat /\ req \in [Holder -> RequestType]
      /\ StoreExact(receipts) /\ Timed(receipts)
  BY SealConstants, ServiceConstants
  DEF RInv, IInv, TypeOK, ReceiptsType, ReceiptType, Timed
<1>1. ASSUME NEW p \in Holder, NEW r \in Receipt, NEW chat \in SUBSET Chat, Publish(p, r, chat)
      PROVE  Serves(receipts, receipts')
  <2> DEFINE now == req[p].deadline - ReceiptTtl
             entry == StoredReceipt(p, chat)
             v == EvictExpired(receipts, now)
  <2>1. now \in Int /\ now <= clock /\ entry.expires_at \in Nat
    BY <1>0 DEF RInv, DeadlinesSet, RequestType, StoredReceipt
  <2>2. receipts' = InsertReceipt(v, r, entry)
    BY <1>1 DEF Publish, PutReceipt
  <2> HIDE DEF now, entry
  <2>3. /\ StoreExact(v) /\ Timed(v)
        /\ \A s \in DOMAIN receipts.by_receipt :
              s \in DOMAIN v.by_receipt <=> receipts.by_receipt[s].expires_at > now
        /\ \A s \in DOMAIN v.by_receipt : v.by_receipt[s] = receipts.by_receipt[s]
        /\ \A c \in DOMAIN receipts.by_chat :
              /\ receipts.by_chat[c] \in DOMAIN v.by_receipt => c \in DOMAIN v.by_chat
              /\ c \in DOMAIN v.by_chat => v.by_chat[c] = receipts.by_chat[c]
    BY <1>0, <2>1, EvictExact
  <2> HIDE DEF v
  <2>4. /\ StoreExact(receipts')
        /\ DOMAIN receipts'.by_receipt = DOMAIN v.by_receipt \cup {r}
        /\ receipts'.by_receipt[r] = entry
        /\ \A c \in entry.chat : c \in DOMAIN receipts'.by_chat
        /\ \A c \in DOMAIN v.by_chat : v.by_chat[c] # r => c \in DOMAIN receipts'.by_chat
    BY <2>1, <2>2, <2>3, InsertExact
  <2>5. \A s \in DOMAIN receipts.by_receipt :
           s \in DOMAIN receipts'.by_receipt \/ receipts.by_receipt[s].expires_at <= clock
    BY <1>0, <2>1, <2>3, <2>4 DEF Timed
  <2>6. ASSUME NEW c \in DOMAIN receipts.by_chat
        PROVE  \/ c \in DOMAIN receipts'.by_chat
               \/ receipts.by_chat[c] \notin DOMAIN receipts'.by_receipt
               \/ c \notin receipts'.by_receipt[receipts.by_chat[c]].chat
    BY <2>3, <2>4
  <2> QED
    BY <2>4, <2>5, <2>6 DEF Serves
<1>2. ASSUME NEW r, receipts' = AfterGet(receipts, r, clock) PROVE Serves(receipts, receipts')
  BY <1>0, <1>2, GetExact DEF Serves
<1>3. ASSUME receipts' = receipts PROVE Serves(receipts, receipts')
  BY <1>0, <1>3, Mappings DEF Serves
<1>4. ASSUME NEW c \in Chat, GetByChat(c) PROVE Serves(receipts, receipts')
  BY <1>2, <1>3, <1>4 DEF GetByChat, AfterChatGet
<1>5. ASSUME NEW r \in Receipt, GetReceipt(r) PROVE Serves(receipts, receipts')
  BY <1>2, <1>5 DEF GetReceipt
<1>6. ASSUME NEW p \in Holder, Request(p) PROVE Serves(receipts, receipts')
  <2>1. CASE \E r \in Receipt, chat \in {{}} \cup {{c} : c \in Chat} : Publish(p, r, chat)
    <3>1. \A chat \in {{}} \cup {{c} : c \in Chat} : chat \in SUBSET Chat
      OBVIOUS
    <3> QED
      BY <1>1, <2>1, <3>1
  <2>2. CASE ~\E r \in Receipt, chat \in {{}} \cup {{c} : c \in Chat} : Publish(p, r, chat)
    BY <1>3, <1>6, <2>2
    DEF Request, Start, Verified, Refused, AcquireCurrent, AcquireSealed, KeysetExpired,
        SealFails, Admit, NotPinned, AdmitFails, Respond, Withheld, Mismatch, ForwardFails,
        Abandon, Retain
  <2> QED
    BY <2>1, <2>2
<1> QED
  BY <1>3, <1>4, <1>5, <1>6 DEF Next, GetSession, Tick, vars

\* The invariant of the service with an exact receipt store.
LEMMA StoreInvariant == Spec => []RInv
<1>1. Init => StoreExact(receipts) /\ DeadlinesSet
  BY SealConstants DEF Init, StoreExact, EmptyStore, EmptyMap, DeadlinesSet, NoRequest
<1>2. RInv /\ [Next]_vars => StoreExact(receipts)' /\ DeadlinesSet'
  BY StoreNext, DeadlinesNext DEF RInv, Serves
<1>3. IInv /\ StoreExact(receipts) /\ DeadlinesSet <=> RInv
  BY DEF RInv
<1> QED
  BY <1>1, <1>2, <1>3, Invariant, PTL DEF Spec

\* insert_with_deadline, evict_expired and the reads keep by_receipt, by_chat and
\* by_expiry in agreement.
THEOREM ReceiptMapsAgree == Spec => []ReceiptIndexesAgree
<1>1. RInv => ReceiptIndexesAgree
  BY DEF RInv, ReceiptIndexesAgree
<1> QED
  BY <1>1, StoreInvariant, PTL

\* A receipt is gone only when it has expired.
THEOREM LiveReceiptsStay == Spec => NoEarlyExpiry
<1>1. RInv /\ [Next]_vars =>
         [\A r \in DOMAIN receipts.by_receipt :
             r \in DOMAIN receipts'.by_receipt \/ receipts.by_receipt[r].expires_at <= clock]_vars
  BY StoreNext DEF Serves
<1> QED
  BY <1>1, StoreInvariant, PTL DEF Spec, NoEarlyExpiry

\* remove_receipt drops a chat's mapping only with the receipt the mapping names.
THEOREM MappingsStay == Spec => ChatMappingSurvives
<1>1. RInv /\ [Next]_vars =>
         [\A c \in DOMAIN receipts.by_chat :
             LET r == receipts.by_chat[c] IN
             \/ c \in DOMAIN receipts'.by_chat
             \/ r \notin DOMAIN receipts'.by_receipt
             \/ c \notin receipts'.by_receipt[r].chat]_vars
  BY StoreNext DEF Serves
<1> QED
  BY <1>1, StoreInvariant, PTL DEF Spec, ChatMappingSurvives

=============================================================================
