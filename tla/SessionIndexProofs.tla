--------------------------- MODULE SessionIndexProofs ---------------------------
(***************************************************************************)
(* What every method of SessionIndex preserves, for any index and any      *)
(* values of the constants.  These lemmas carry the proofs about the       *)
(* stores and the services that use an index.                              *)
(***************************************************************************)
EXTENDS SessionIndex, FiniteSetTheorems, TLAPS

\* A well-formed index: typed, one exact hint per session, exact bundle counts.
WellFormed(ix) ==
    IndexType(ix) /\ HintsExact(ix) /\ CitersExact(ix) /\ EntriesSound(ix)

\* Entries that keep their channel and do not lose retention stay sound.
LEMMA SoundKept ==
    ASSUME NEW ix, NEW e, IndexType(ix), EntriesSound(ix),
           DOMAIN e.by_id \subseteq DOMAIN ix.by_id,
           \A i \in DOMAIN e.by_id :
              /\ e.by_id[i].fingerprint = ix.by_id[i].fingerprint
              /\ e.by_id[i].retention_until \in Nat
              /\ e.by_id[i].retention_until >= ix.by_id[i].retention_until,
           DOMAIN e.by_fingerprint \subseteq DOMAIN ix.by_fingerprint,
           \A fp \in DOMAIN e.by_fingerprint : e.by_fingerprint[fp] = ix.by_fingerprint[fp]
    PROVE  EntriesSound(e)
<1>1. \A i \in DOMAIN ix.by_id : i.expires_at \in Nat /\ ix.by_id[i].retention_until \in Nat
  BY DEF IndexType, SessionId, Entry
<1> QED BY <1>1 DEF EntriesSound

-----------------------------------------------------------------------------
(* Counting the citers of a bundle *)

\* The sessions of a finite set that cite b are finitely many.
LEMMA CitersType ==
    ASSUME NEW S, IsFiniteSet(S), NEW b
    PROVE  /\ CitersWithin(S, b) \in Nat
           /\ IsFiniteSet({id \in S : id.bundle = b})
BY FS_Subset, FS_CardinalityType DEF CitersWithin

\* A bundle's count is zero exactly when no session cites it.
LEMMA CitersZero ==
    ASSUME NEW S, IsFiniteSet(S), NEW b
    PROVE  CitersWithin(S, b) = 0 <=> \A id \in S : id.bundle # b
BY CitersType, FS_EmptySet DEF CitersWithin

\* Removing sessions removes their citations: evict_lapsed's `citers -= 1`.
LEMMA CitersMinus ==
    ASSUME NEW S, IsFiniteSet(S), NEW T \in SUBSET S, NEW b
    PROVE  CitersWithin(S \ T, b) = CitersWithin(S, b) - CitersWithin(T, b)
<1> DEFINE A == {id \in S : id.bundle = b}
           B == {id \in T : id.bundle = b}
<1>1. IsFiniteSet(A) /\ IsFiniteSet(T)
  BY CitersType, FS_Subset
<1>2. IsFiniteSet(B)
  BY <1>1, CitersType
<1>3. {id \in S \ T : id.bundle = b} = A \ B
  OBVIOUS
<1>4. A \cap B = B
  OBVIOUS
<1>5. Cardinality(A \ B) = Cardinality(A) - Cardinality(A \cap B)
  BY <1>1, <1>2, FS_Difference
<1> QED
  BY <1>3, <1>4, <1>5 DEF CitersWithin

\* Adding a new session adds one citation: insert's `citers += 1`.
LEMMA CitersPlus ==
    ASSUME NEW S, IsFiniteSet(S), NEW x, x \notin S, NEW b
    PROVE  CitersWithin(S \cup {x}, b) =
              IF x.bundle = b THEN CitersWithin(S, b) + 1 ELSE CitersWithin(S, b)
<1> DEFINE A == {id \in S : id.bundle = b}
<1>1. IsFiniteSet(A) /\ x \notin A
  BY CitersType
<1>2. CASE x.bundle = b
  <2>1. {id \in S \cup {x} : id.bundle = b} = A \cup {x}
    BY <1>2
  <2> QED BY <2>1, <1>1, <1>2, FS_AddElement DEF CitersWithin
<1>3. CASE x.bundle # b
  <2>1. {id \in S \cup {x} : id.bundle = b} = A
    BY <1>3
  <2> QED BY <2>1, <1>3 DEF CitersWithin
<1> QED BY <1>2, <1>3

-----------------------------------------------------------------------------
(* evict_lapsed *)

\* An eviction pass removes the sessions that are unheld and past their
\* deadline, and no others.
LEMMA EvictableExact ==
    ASSUME NEW ix, WellFormed(ix), NEW now \in Nat
    PROVE  Evictable(ix, now) = {id \in DOMAIN ix.by_id :
              ix.by_id[id].holders = {} /\ ix.by_id[id].retention_until <= now}
<1>1. \A id \in DOMAIN ix.by_id :
         (\E h \in ix.by_retention : h[1] <= now /\ h[2] = id)
            <=> ix.by_id[id].retention_until <= now
  <2> TAKE id \in DOMAIN ix.by_id
  <2>1. \A h \in ix.by_retention : h[2] = id => h[1] = ix.by_id[id].retention_until
    BY DEF WellFormed, HintsExact
  <2>2. <<ix.by_id[id].retention_until, id>> \in ix.by_retention
    BY DEF WellFormed, HintsExact
  <2> QED BY <2>1, <2>2
<1> QED BY <1>1 DEF Evictable, Held

\* What is left of an index keeps its entries as they were.
LEMMA EvictEntries ==
    ASSUME NEW ix, WellFormed(ix), NEW now \in Nat
    PROVE  /\ DOMAIN EvictLapsed(ix, now).by_id = DOMAIN ix.by_id \ Evictable(ix, now)
           /\ \A id \in DOMAIN EvictLapsed(ix, now).by_id :
                 EvictLapsed(ix, now).by_id[id] = ix.by_id[id]
           /\ \A id \in DOMAIN ix.by_id :
                 ix.by_id[id].holders # {} \/ ix.by_id[id].retention_until > now
                    => id \in DOMAIN EvictLapsed(ix, now).by_id
<1>1. \A id \in DOMAIN ix.by_id :
         ix.by_id[id].holders # {} \/ ix.by_id[id].retention_until > now
            => id \notin Evictable(ix, now)
  <2>1. \A id \in DOMAIN ix.by_id : ix.by_id[id].retention_until \in Nat
    BY DEF WellFormed, IndexType, Entry
  <2> QED BY <2>1, EvictableExact
<1> QED BY <1>1 DEF EvictLapsed, Without

\* evict_lapsed keeps an index well formed.
LEMMA EvictWellFormed ==
    ASSUME NEW ix, WellFormed(ix), NEW now \in Nat
    PROVE  WellFormed(EvictLapsed(ix, now))
<1> DEFINE gone == Evictable(ix, now)
           e == EvictLapsed(ix, now)
           left(b) == ix.bundles[b].citers - CitersWithin(gone, b)
<1>1. IndexType(ix) /\ HintsExact(ix) /\ CitersExact(ix) /\ EntriesSound(ix)
  BY DEF WellFormed
<1>2. gone \in SUBSET DOMAIN ix.by_id /\ IsFiniteSet(DOMAIN ix.by_id)
  BY <1>1 DEF Evictable, IndexType
<1>3. \A b \in DOMAIN ix.bundles :
         left(b) = CitersWithin(DOMAIN ix.by_id \ gone, b) /\ left(b) \in Nat
  <2> TAKE b \in DOMAIN ix.bundles
  <2>1. CitersWithin(DOMAIN ix.by_id \ gone, b)
           = CitersWithin(DOMAIN ix.by_id, b) - CitersWithin(gone, b)
    BY <1>2, CitersMinus
  <2>2. IsFiniteSet(DOMAIN ix.by_id \ gone)
    BY <1>2, FS_Subset
  <2>3. CitersWithin(DOMAIN ix.by_id \ gone, b) \in Nat
    BY <2>2, CitersType
  <2>4. ix.bundles[b].citers = CitersWithin(DOMAIN ix.by_id, b)
    BY <1>1 DEF CitersExact
  <2> QED BY <2>1, <2>3, <2>4
<1>4. e.bundles = [b \in {c \in DOMAIN ix.bundles : left(c) # 0} |->
                      [citers |-> left(b), persisted |-> ix.bundles[b].persisted]]
  BY DEF EvictLapsed, BundlesAfter
<1>5. DOMAIN e.by_id = DOMAIN ix.by_id \ gone
  BY EvictEntries
<1>6. CitersExact(e)
  <2>1. DOMAIN e.bundles = {id.bundle : id \in DOMAIN e.by_id}
    <3>1. \A b \in DOMAIN ix.bundles :
             left(b) # 0 <=> \E id \in DOMAIN e.by_id : id.bundle = b
      <4>1. IsFiniteSet(DOMAIN ix.by_id \ gone)
        BY <1>2, FS_Subset
      <4> QED BY <1>3, <1>5, <4>1, CitersZero
    <3>2. \A id \in DOMAIN e.by_id : id.bundle \in DOMAIN ix.bundles
      BY <1>1, <1>5 DEF CitersExact
    <3> QED BY <3>1, <3>2, <1>4
  <2>2. \A b \in DOMAIN e.bundles : e.bundles[b].citers = left(b)
    BY <1>1, <1>4 DEF IndexType
  <2> QED BY <2>1, <2>2, <1>3, <1>4, <1>5 DEF CitersExact
<1>7. HintsExact(e)
  <2>1. e.by_retention = HintsAfter(ix, now)
    BY DEF EvictLapsed
  <2>2. \A id \in DOMAIN ix.by_id :
           id \in DOMAIN e.by_id <=>
              Held(ix, id) \/ ix.by_id[id].retention_until > now
    <3>1. \A id \in DOMAIN ix.by_id : ix.by_id[id].retention_until \in Nat
      BY <1>1 DEF IndexType, Entry
    <3> QED BY <3>1, <1>5, EvictableExact DEF Held
  <2>3. \A h \in e.by_retention :
           \E id \in DOMAIN e.by_id : h = <<e.by_id[id].retention_until, id>>
    BY <2>1, <2>2, <1>1, EvictEntries DEF HintsAfter, HintsExact
  <2>4. \A id \in DOMAIN e.by_id : <<e.by_id[id].retention_until, id>> \in e.by_retention
    <3>1. \A id \in DOMAIN e.by_id :
             <<ix.by_id[id].retention_until, id>> \in ix.by_retention
      BY <1>1, <1>5 DEF HintsExact
    <3> QED BY <3>1, <2>1, <2>2, <1>5, EvictEntries DEF HintsAfter
  <2> QED BY <2>3, <2>4 DEF HintsExact
<1>8. IndexType(e)
  <2>1. e = [ by_id |-> e.by_id, by_fingerprint |-> e.by_fingerprint,
              by_retention |-> e.by_retention, bundles |-> e.bundles ]
    BY DEF EvictLapsed
  <2>2. /\ DOMAIN e.by_id \subseteq SessionId /\ IsFiniteSet(DOMAIN e.by_id)
        /\ e.by_id \in [DOMAIN e.by_id -> Entry]
    BY <1>1, <1>2, <1>5, FS_Subset DEF IndexType, EvictLapsed, Without
  <2>3. /\ DOMAIN e.by_fingerprint \subseteq Fingerprint
        /\ e.by_fingerprint \in [DOMAIN e.by_fingerprint -> SessionId]
    BY <1>1 DEF IndexType, EvictLapsed, Without
  <2>4. e.by_retention \subseteq Nat \X SessionId
    BY <1>1 DEF IndexType, EvictLapsed, HintsAfter
  <2>5. /\ DOMAIN e.bundles \subseteq Bundle
        /\ e.bundles \in [DOMAIN e.bundles -> [citers : Nat, persisted : BOOLEAN]]
    BY <1>1, <1>3, <1>4 DEF IndexType
  <2> QED BY <2>1, <2>2, <2>3, <2>4, <2>5 DEF IndexType
<1>9. EntriesSound(e)
  <2>1. \A i \in DOMAIN e.by_id :
           e.by_id[i] = ix.by_id[i] /\ ix.by_id[i].retention_until \in Nat
    BY <1>1, EvictEntries DEF IndexType, Entry
  <2>2. /\ DOMAIN e.by_fingerprint \subseteq DOMAIN ix.by_fingerprint
        /\ \A fp \in DOMAIN e.by_fingerprint :
              e.by_fingerprint[fp] = ix.by_fingerprint[fp]
    BY DEF EvictLapsed, Without
  <2> HIDE DEF e
  <2> QED BY <2>1, <2>2, <1>1, <1>5, SoundKept
<1> QED BY <1>6, <1>7, <1>8, <1>9 DEF WellFormed

-----------------------------------------------------------------------------
(* insert *)

\* The entry an insert writes: the caller's fingerprint, the latest deadline,
\* and the leases the id already had.
LEMMA InsertEntries ==
    ASSUME NEW ix, WellFormed(ix), NEW fp \in Fingerprint, NEW id \in SessionId,
           NEW retention \in Nat
    PROVE  LET e == Insert(ix, fp, id, retention) IN
           /\ DOMAIN e.by_id = DOMAIN ix.by_id \cup {id}
           /\ \A i \in DOMAIN ix.by_id : i # id => e.by_id[i] = ix.by_id[i]
           /\ e.by_id[id] \in Entry
           /\ e.by_id[id].fingerprint = fp
           /\ e.by_id[id].retention_until >= retention
           /\ e.by_id[id].retention_until >= id.expires_at
           /\ id \in DOMAIN ix.by_id =>
                 /\ e.by_id[id].retention_until >= ix.by_id[id].retention_until
                 /\ e.by_id[id].holders = ix.by_id[id].holders
<1> DEFINE until == InsertedRetention(ix, id, retention)
<1>1. id.expires_at \in Nat
  BY DEF SessionId
<1>2. id \in DOMAIN ix.by_id => /\ ix.by_id[id].retention_until \in Nat
                                /\ ix.by_id[id].holders \in SUBSET Holder
  BY DEF WellFormed, IndexType, Entry
<1>3. /\ until \in Nat /\ until >= retention /\ until >= id.expires_at
      /\ id \in DOMAIN ix.by_id => until >= ix.by_id[id].retention_until
  BY <1>1, <1>2 DEF InsertedRetention, Later
<1> HIDE DEF until
<1>4. Insert(ix, fp, id, retention).by_id =
         Put(ix.by_id, id,
             [ fingerprint |-> fp, retention_until |-> until,
               holders |-> IF id \in DOMAIN ix.by_id THEN ix.by_id[id].holders ELSE {} ])
  BY DEF Insert, TokenOf, until
<1> QED BY <1>2, <1>3, <1>4 DEF Put, Entry

\* insert keeps an index well formed: a known id moves its hint, a new id adds
\* a hint and a citation.
LEMMA InsertWellFormed ==
    ASSUME NEW ix, WellFormed(ix), NEW fp \in Fingerprint, NEW id \in SessionId,
           NEW retention \in Nat, DocOf[fp] = id.doc
    PROVE  WellFormed(Insert(ix, fp, id, retention))
<1> DEFINE e == Insert(ix, fp, id, retention)
           until == InsertedRetention(ix, id, retention)
<1>1. IndexType(ix) /\ HintsExact(ix) /\ CitersExact(ix) /\ EntriesSound(ix)
  BY DEF WellFormed
<1>2. /\ DOMAIN e.by_id = DOMAIN ix.by_id \cup {id}
      /\ \A i \in DOMAIN ix.by_id : i # id => e.by_id[i] = ix.by_id[i]
      /\ e.by_id[id] \in Entry
  BY InsertEntries
<1>3. e.by_id[id].retention_until = until
  BY DEF Insert, Put
<1>4. e.by_retention = DropHint(ix.by_retention, ix, id) \cup {<<until, id>>}
  BY DEF Insert
<1>5. HintsExact(e)
  <2>1. \A h \in ix.by_retention : \E i \in DOMAIN ix.by_id :
           h = <<ix.by_id[i].retention_until, i>>
    BY <1>1 DEF HintsExact
  <2>2. \A i \in DOMAIN ix.by_id : <<ix.by_id[i].retention_until, i>> \in ix.by_retention
    BY <1>1 DEF HintsExact
  <2>3. \A h \in e.by_retention :
           \E i \in DOMAIN e.by_id : h = <<e.by_id[i].retention_until, i>>
    BY <2>1, <1>2, <1>3, <1>4 DEF DropHint
  <2>4. \A i \in DOMAIN e.by_id : <<e.by_id[i].retention_until, i>> \in e.by_retention
    <3> TAKE i \in DOMAIN e.by_id
    <3>1. CASE i = id
      BY <3>1, <1>3, <1>4
    <3>2. CASE i # id
      BY <3>2, <2>2, <1>2, <1>4 DEF DropHint
    <3> QED BY <3>1, <3>2
  <2> QED BY <2>3, <2>4 DEF HintsExact
<1>6. /\ e.by_id \in [DOMAIN e.by_id -> Entry]
      /\ DOMAIN e.by_id \subseteq SessionId
      /\ IsFiniteSet(DOMAIN e.by_id)
  <2>1. e.by_id = [i \in DOMAIN e.by_id |-> e.by_id[i]]
    BY DEF Insert, Put
  <2>2. \A i \in DOMAIN e.by_id : e.by_id[i] \in Entry
    BY <1>1, <1>2 DEF IndexType
  <2>3. IsFiniteSet(DOMAIN e.by_id)
    <3>1. IsFiniteSet(DOMAIN ix.by_id)
      BY <1>1 DEF IndexType
    <3> QED BY <3>1, <1>2, FS_AddElement
  <2>4. DOMAIN e.by_id \subseteq SessionId
    BY <1>1, <1>2 DEF IndexType
  <2> HIDE DEF e
  <2> QED BY <2>1, <2>2, <2>3, <2>4
<1> DEFINE BundleType == [citers : Nat, persisted : BOOLEAN]
<1>8. CitersExact(e) /\ DOMAIN e.bundles \subseteq Bundle
                     /\ e.bundles \in [DOMAIN e.bundles -> BundleType]
  <2>1. CASE id \in DOMAIN ix.by_id
    <3>1. e.bundles = ix.bundles /\ DOMAIN e.by_id = DOMAIN ix.by_id
      BY <2>1, <1>2 DEF Insert
    <3> QED BY <3>1, <1>1 DEF CitersExact, IndexType
  <2>2. CASE id \notin DOMAIN ix.by_id
    <3> DEFINE b0 == id.bundle
    <3>1. e.bundles = CiteBundle(ix.bundles, b0)
      BY <2>2 DEF Insert
    <3>2. b0 \in Bundle /\ IsFiniteSet(DOMAIN ix.by_id)
      BY <1>1 DEF IndexType, SessionId
    <3>3. \A b : CitersWithin(DOMAIN e.by_id, b) =
             IF b0 = b THEN CitersWithin(DOMAIN ix.by_id, b) + 1
                       ELSE CitersWithin(DOMAIN ix.by_id, b)
      BY <2>2, <1>2, <3>2, CitersPlus
    <3>4. b0 \notin DOMAIN ix.bundles => CitersWithin(DOMAIN ix.by_id, b0) = 0
      BY <1>1, <3>2, CitersZero DEF CitersExact
    <3>5. DOMAIN e.bundles = DOMAIN ix.bundles \cup {b0}
      BY <3>1 DEF CiteBundle, Put
    <3>6. DOMAIN e.bundles = {i.bundle : i \in DOMAIN e.by_id}
      BY <3>5, <1>1, <1>2 DEF CitersExact
    <3>7. \A b \in DOMAIN e.bundles : e.bundles[b] \in BundleType
      BY <3>1, <3>5, <1>1 DEF CiteBundle, Put, IndexType
    <3>8. \A b \in DOMAIN e.bundles :
             e.bundles[b].citers = CitersWithin(DOMAIN e.by_id, b)
      <4> TAKE b \in DOMAIN e.bundles
      <4>1. CASE b = b0 /\ b0 \in DOMAIN ix.bundles
        <5>1. e.bundles[b].citers = ix.bundles[b].citers + 1
          BY <4>1, <3>1 DEF CiteBundle, Put
        <5> QED BY <5>1, <4>1, <3>3, <1>1 DEF CitersExact
      <4>2. CASE b = b0 /\ b0 \notin DOMAIN ix.bundles
        <5>1. e.bundles[b].citers = 1
          BY <4>2, <3>1 DEF CiteBundle, Put
        <5> QED BY <5>1, <4>2, <3>3, <3>4
      <4>3. CASE b # b0
        <5>1. e.bundles[b] = ix.bundles[b] /\ b \in DOMAIN ix.bundles
          BY <4>3, <3>1, <3>5 DEF CiteBundle, Put
        <5> QED BY <5>1, <4>3, <3>3, <1>1 DEF CitersExact
      <4> QED BY <4>1, <4>2, <4>3
    <3>9. e.bundles = [b \in DOMAIN e.bundles |-> e.bundles[b]]
      BY <3>1 DEF CiteBundle, Put
    <3> QED BY <3>2, <3>5, <3>6, <3>7, <3>8, <3>9, <1>1 DEF CitersExact, IndexType
  <2> QED BY <2>1, <2>2
<1>9. IndexType(e)
  <2>1. e = [ by_id |-> e.by_id, by_fingerprint |-> e.by_fingerprint,
              by_retention |-> e.by_retention, bundles |-> e.bundles ]
    BY DEF Insert
  <2>2. /\ DOMAIN e.by_fingerprint \subseteq Fingerprint
        /\ e.by_fingerprint \in [DOMAIN e.by_fingerprint -> SessionId]
    BY <1>1 DEF IndexType, Insert, Put
  <2>3. e.by_retention \subseteq Nat \X SessionId
    <3>1. until \in Nat
      BY <1>2, <1>3 DEF Entry
    <3> QED BY <3>1, <1>1, <1>4 DEF IndexType, DropHint
  <2> QED BY <2>1, <2>2, <2>3, <1>6, <1>8 DEF IndexType
<1>10. EntriesSound(e)
  <2>1. e.by_id[id].fingerprint = fp
    BY DEF Insert, Put
  <2>2. until >= id.expires_at
    <3>1. id.expires_at \in Nat
      BY DEF SessionId
    <3>2. id \in DOMAIN ix.by_id => ix.by_id[id].retention_until \in Nat
      BY <1>1 DEF IndexType, Entry
    <3> QED BY <3>1, <3>2 DEF InsertedRetention, Later
  <2>3. \A i \in DOMAIN e.by_id : /\ e.by_id[i].retention_until >= i.expires_at
                                  /\ DocOf[e.by_id[i].fingerprint] = i.doc
    BY <2>1, <2>2, <1>1, <1>2, <1>3 DEF EntriesSound
  <2>4. \A f \in DOMAIN e.by_fingerprint : e.by_fingerprint[f].doc = DocOf[f]
    BY <1>1 DEF EntriesSound, Insert, Put
  <2> QED BY <2>3, <2>4 DEF EntriesSound
<1> QED BY <1>5, <1>8, <1>9, <1>10 DEF WellFormed

-----------------------------------------------------------------------------
(* lease, extend, mark_persisted *)

\* lease() adds a holder to one entry and changes nothing else.
LEMMA LeaseWellFormed ==
    ASSUME NEW ix, WellFormed(ix), NEW h \in Holder, NEW id \in DOMAIN ix.by_id
    PROVE  LET e == Lease(ix, h, id) IN
           /\ WellFormed(e)
           /\ DOMAIN e.by_id = DOMAIN ix.by_id
           /\ e.by_fingerprint = ix.by_fingerprint
           /\ \A i \in DOMAIN ix.by_id :
                 /\ e.by_id[i].retention_until = ix.by_id[i].retention_until
                 /\ e.by_id[i].fingerprint = ix.by_id[i].fingerprint
                 /\ i = id => e.by_id[i].holders = ix.by_id[i].holders \cup {h}
                 /\ i # id => e.by_id[i].holders = ix.by_id[i].holders
<1> DEFINE e == Lease(ix, h, id)
<1>1. IndexType(ix) /\ HintsExact(ix) /\ CitersExact(ix) /\ EntriesSound(ix)
  BY DEF WellFormed
<1>2. /\ e = [ by_id |-> e.by_id, by_fingerprint |-> e.by_fingerprint,
               by_retention |-> e.by_retention, bundles |-> e.bundles ]
      /\ e.by_fingerprint = ix.by_fingerprint
      /\ e.by_retention = ix.by_retention
      /\ e.bundles = ix.bundles
      /\ e.by_id = Put(ix.by_id, id, HeldBy(ix.by_id[id], ix.by_id[id].holders \cup {h}))
  BY <1>1 DEF Lease, WithEntries
<1> HIDE DEF e
<1>3. /\ DOMAIN e.by_id = DOMAIN ix.by_id
      /\ \A i \in DOMAIN ix.by_id : ix.by_id[i] \in Entry /\ e.by_id[i] \in Entry
      /\ e.by_id = [i \in DOMAIN ix.by_id |-> e.by_id[i]]
  BY <1>1, <1>2 DEF IndexType, Put, HeldBy, Entry
<1>4. \A i \in DOMAIN ix.by_id :
         /\ e.by_id[i].retention_until = ix.by_id[i].retention_until
         /\ e.by_id[i].fingerprint = ix.by_id[i].fingerprint
         /\ i = id => e.by_id[i].holders = ix.by_id[i].holders \cup {h}
         /\ i # id => e.by_id[i].holders = ix.by_id[i].holders
  BY <1>2 DEF Put, HeldBy
<1>5. IndexType(e)
  BY <1>1, <1>2, <1>3 DEF IndexType
<1>6. HintsExact(e) /\ CitersExact(e)
  <2>1. CitersExact(e)
    BY <1>1, <1>2, <1>3 DEF CitersExact
  <2>2. \A i \in DOMAIN e.by_id :
           <<e.by_id[i].retention_until, i>> = <<ix.by_id[i].retention_until, i>>
    BY <1>3, <1>4
  <2>3. {<<e.by_id[i].retention_until, i>> : i \in DOMAIN e.by_id}
           = {<<ix.by_id[i].retention_until, i>> : i \in DOMAIN ix.by_id}
    BY <2>2, <1>3
  <2> QED BY <2>1, <2>3, <1>1, <1>2 DEF HintsExact
<1>7. EntriesSound(e)
  <2>1. \A i \in DOMAIN ix.by_id : ix.by_id[i].retention_until \in Nat
    BY <1>1 DEF IndexType, Entry
  <2>2. \A i \in DOMAIN e.by_id :
           /\ e.by_id[i].fingerprint = ix.by_id[i].fingerprint
           /\ e.by_id[i].retention_until \in Nat
           /\ e.by_id[i].retention_until >= ix.by_id[i].retention_until
    BY <2>1, <1>3, <1>4
  <2>3. DOMAIN e.by_id \subseteq DOMAIN ix.by_id /\ e.by_fingerprint = ix.by_fingerprint
    BY <1>2, <1>3
  <2> QED BY <2>2, <2>3, <1>1, SoundKept
<1> QED BY <1>2, <1>3, <1>4, <1>5, <1>6, <1>7 DEF WellFormed, e

\* Dropping leases removes one holder from some entries and changes nothing else.
LEMMA ReleaseWellFormed ==
    ASSUME NEW ix, WellFormed(ix), NEW h, NEW S
    PROVE  LET e == ReleaseSome(ix, h, S) IN
           /\ WellFormed(e)
           /\ DOMAIN e.by_id = DOMAIN ix.by_id
           /\ e.by_fingerprint = ix.by_fingerprint
           /\ \A i \in DOMAIN ix.by_id :
                 /\ e.by_id[i].retention_until = ix.by_id[i].retention_until
                 /\ e.by_id[i].fingerprint = ix.by_id[i].fingerprint
                 /\ i \in S => e.by_id[i].holders = ix.by_id[i].holders \ {h}
                 /\ i \notin S => e.by_id[i].holders = ix.by_id[i].holders
<1> DEFINE e == ReleaseSome(ix, h, S)
<1>1. IndexType(ix) /\ HintsExact(ix) /\ CitersExact(ix) /\ EntriesSound(ix)
  BY DEF WellFormed
<1>2. /\ e = [ by_id |-> e.by_id, by_fingerprint |-> e.by_fingerprint,
               by_retention |-> e.by_retention, bundles |-> e.bundles ]
      /\ e.by_fingerprint = ix.by_fingerprint
      /\ e.by_retention = ix.by_retention
      /\ e.bundles = ix.bundles
      /\ e.by_id = [id \in DOMAIN ix.by_id |->
                      IF id \in S THEN HeldBy(ix.by_id[id], ix.by_id[id].holders \ {h})
                                  ELSE ix.by_id[id]]
  BY <1>1 DEF ReleaseSome, WithEntries
<1> HIDE DEF e
<1>3. /\ DOMAIN e.by_id = DOMAIN ix.by_id
      /\ \A i \in DOMAIN ix.by_id : ix.by_id[i] \in Entry /\ e.by_id[i] \in Entry
  BY <1>1, <1>2 DEF IndexType, HeldBy, Entry
<1>4. \A i \in DOMAIN ix.by_id :
         /\ e.by_id[i].retention_until = ix.by_id[i].retention_until
         /\ e.by_id[i].fingerprint = ix.by_id[i].fingerprint
         /\ i \in S => e.by_id[i].holders = ix.by_id[i].holders \ {h}
         /\ i \notin S => e.by_id[i].holders = ix.by_id[i].holders
  BY <1>2 DEF HeldBy
<1>5. IndexType(e)
  BY <1>1, <1>2, <1>3 DEF IndexType
<1>6. HintsExact(e) /\ CitersExact(e)
  <2>1. CitersExact(e)
    BY <1>1, <1>2, <1>3 DEF CitersExact
  <2>2. \A i \in DOMAIN e.by_id :
           <<e.by_id[i].retention_until, i>> = <<ix.by_id[i].retention_until, i>>
    BY <1>3, <1>4
  <2>3. {<<e.by_id[i].retention_until, i>> : i \in DOMAIN e.by_id}
           = {<<ix.by_id[i].retention_until, i>> : i \in DOMAIN ix.by_id}
    BY <2>2, <1>3
  <2> QED BY <2>1, <2>3, <1>1, <1>2 DEF HintsExact
<1>7. EntriesSound(e)
  <2>1. \A i \in DOMAIN ix.by_id : ix.by_id[i].retention_until \in Nat
    BY <1>1 DEF IndexType, Entry
  <2>2. \A i \in DOMAIN e.by_id :
           /\ e.by_id[i].fingerprint = ix.by_id[i].fingerprint
           /\ e.by_id[i].retention_until \in Nat
           /\ e.by_id[i].retention_until >= ix.by_id[i].retention_until
    BY <2>1, <1>3, <1>4
  <2>3. DOMAIN e.by_id \subseteq DOMAIN ix.by_id /\ e.by_fingerprint = ix.by_fingerprint
    BY <1>2, <1>3
  <2> QED BY <2>2, <2>3, <1>1, SoundKept
<1> QED BY <1>2, <1>3, <1>4, <1>5, <1>6, <1>7 DEF WellFormed, e

\* extend() only ever raises the deadline of one entry, and moves its hint.
LEMMA ExtendWellFormed ==
    ASSUME NEW ix, WellFormed(ix), NEW id \in DOMAIN ix.by_id, NEW deadline \in Nat
    PROVE  LET e == Extend(ix, id, deadline) IN
           /\ WellFormed(e)
           /\ DOMAIN e.by_id = DOMAIN ix.by_id
           /\ e.by_fingerprint = ix.by_fingerprint
           /\ e.by_id[id].retention_until >= deadline
           /\ \A i \in DOMAIN ix.by_id :
                 /\ e.by_id[i].retention_until >= ix.by_id[i].retention_until
                 /\ e.by_id[i].fingerprint = ix.by_id[i].fingerprint
                 /\ e.by_id[i].holders = ix.by_id[i].holders
<1> DEFINE e == Extend(ix, id, deadline)
           old == ix.by_id[id].retention_until
<1>1. IndexType(ix) /\ HintsExact(ix) /\ CitersExact(ix) /\ EntriesSound(ix)
  BY DEF WellFormed
<1>2. \A i \in DOMAIN ix.by_id : /\ ix.by_id[i] \in Entry
                                 /\ ix.by_id[i].retention_until \in Nat
  BY <1>1 DEF IndexType, Entry
<1>3. CASE ~(deadline > old)
  <2>1. e = ix
    BY <1>3 DEF Extend
  <2> QED BY <2>1, <1>2, <1>3
<1>4. CASE deadline > old
  <2>1. /\ e = [ by_id |-> e.by_id, by_fingerprint |-> e.by_fingerprint,
                 by_retention |-> e.by_retention, bundles |-> e.bundles ]
        /\ e.by_fingerprint = ix.by_fingerprint
        /\ e.by_retention = (ix.by_retention \ {<<old, id>>}) \cup {<<deadline, id>>}
        /\ e.bundles = ix.bundles
        /\ e.by_id = Put(ix.by_id, id, Until(ix.by_id[id], deadline))
    BY <1>1, <1>4 DEF Extend, WithEntries
  <2> HIDE DEF e
  <2>2. DOMAIN e.by_id = DOMAIN ix.by_id
    BY <2>1 DEF Put
  <2>3. \A i \in DOMAIN ix.by_id :
           /\ e.by_id[i].fingerprint = ix.by_id[i].fingerprint
           /\ e.by_id[i].holders = ix.by_id[i].holders
           /\ e.by_id[i].retention_until =
                 IF i = id THEN deadline ELSE ix.by_id[i].retention_until
    BY <2>1 DEF Put, Until
  <2>4. e.by_id \in [DOMAIN e.by_id -> Entry]
    BY <2>1, <2>2, <1>2 DEF Put, Until, Entry
  <2>5. IndexType(e)
    <3>1. e.by_retention \subseteq Nat \X SessionId
      BY <2>1, <1>1 DEF IndexType
    <3> QED BY <3>1, <2>1, <2>2, <2>4, <1>1 DEF IndexType
  <2>6. CitersExact(e)
    BY <2>1, <2>2, <1>1 DEF CitersExact
  <2>7. HintsExact(e)
    <3>1. \A i \in DOMAIN e.by_id :
             <<e.by_id[i].retention_until, i>> \in e.by_retention
      BY <2>1, <2>2, <2>3, <1>1 DEF HintsExact
    <3>2. \A g \in e.by_retention :
             \E i \in DOMAIN e.by_id : g = <<e.by_id[i].retention_until, i>>
      BY <2>1, <2>2, <2>3, <1>1 DEF HintsExact
    <3> QED BY <3>1, <3>2 DEF HintsExact
  <2>8. EntriesSound(e)
    <3>1. \A i \in DOMAIN e.by_id :
             /\ e.by_id[i].retention_until \in Nat
             /\ e.by_id[i].retention_until >= ix.by_id[i].retention_until
      BY <2>2, <2>3, <1>2, <1>4
    <3> QED BY <3>1, <2>1, <2>2, <2>3, <1>1, SoundKept
  <2> QED BY <2>1, <2>2, <2>3, <2>5, <2>6, <2>7, <2>8, <1>2, <1>4 DEF WellFormed, e
<1> QED BY <1>3, <1>4

\* mark_persisted touches nothing but the persisted flags.
LEMMA MarkWellFormed ==
    ASSUME NEW ix, WellFormed(ix), NEW S
    PROVE  LET e == MarkPersisted(ix, S) IN
           /\ WellFormed(e)
           /\ e.by_id = ix.by_id
           /\ e.by_fingerprint = ix.by_fingerprint
           /\ DOMAIN e.bundles = DOMAIN ix.bundles
           /\ \A b \in DOMAIN ix.bundles :
                 e.bundles[b].persisted = (ix.bundles[b].persisted \/ b \in S)
<1> DEFINE e == MarkPersisted(ix, S)
<1>1. IndexType(ix) /\ HintsExact(ix) /\ CitersExact(ix) /\ EntriesSound(ix)
  BY DEF WellFormed
<1>2. /\ e = [ by_id |-> e.by_id, by_fingerprint |-> e.by_fingerprint,
               by_retention |-> e.by_retention, bundles |-> e.bundles ]
      /\ e.by_id = ix.by_id /\ e.by_fingerprint = ix.by_fingerprint
      /\ e.by_retention = ix.by_retention
      /\ e.bundles = [b \in DOMAIN ix.bundles |->
                        [ citers |-> ix.bundles[b].citers,
                          persisted |-> ix.bundles[b].persisted \/ b \in S ]]
  BY <1>1 DEF MarkPersisted, WithBundles
<1> HIDE DEF e
<1>3. /\ DOMAIN e.bundles = DOMAIN ix.bundles
      /\ \A b \in DOMAIN ix.bundles :
            /\ e.bundles[b].citers = ix.bundles[b].citers
            /\ e.bundles[b].persisted = (ix.bundles[b].persisted \/ b \in S)
  BY <1>2
<1>4. e.bundles \in [DOMAIN e.bundles -> [citers : Nat, persisted : BOOLEAN]]
  BY <1>1, <1>2 DEF IndexType
<1>5. IndexType(e)
  BY <1>1, <1>2, <1>3, <1>4 DEF IndexType
<1>6. HintsExact(e) /\ CitersExact(e) /\ EntriesSound(e)
  BY <1>1, <1>2, <1>3 DEF HintsExact, CitersExact, EntriesSound
<1> QED BY <1>2, <1>3, <1>5, <1>6 DEF WellFormed, e

=============================================================================
