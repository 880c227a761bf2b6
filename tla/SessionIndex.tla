------------------------------ MODULE SessionIndex ------------------------------
(***************************************************************************)
(* The in-memory session index behind both session stores: struct          *)
(* SessionIndex of src/aggregator/session_store.rs, one operator per       *)
(* method.  An index is a record                                           *)
(*                                                                         *)
(*   by_id          : session id -> entry                                  *)
(*   by_fingerprint : fingerprint -> id of the channel's current session   *)
(*   by_retention   : the eviction hints, pairs <<deadline, id>>           *)
(*   bundles        : evidence digest -> [citers, persisted]               *)
(*                                                                         *)
(* A session id is the hash of the session document, so an id IS the       *)
(* document here: the verified material (doc), its evidence bundle and the *)
(* validity window.  SHA-256 is taken to be injective.  A fingerprint      *)
(* covers more than the document does (the verification round, the         *)
(* reviewed-profile schema), so several fingerprints may have one document *)
(* material: DocOf.                                                        *)
(*                                                                         *)
(* An entry's Arc<()> token is modelled by the set of holders of a clone   *)
(* of it: strong_count > 1 is holders # {}, and Arc::ptr_eq of a lease and *)
(* an entry is membership of the lease's holder.                           *)
(***************************************************************************)
EXTENDS Maps, FiniteSets

CONSTANTS
    Fingerprint,   \* local channel keys
    Doc,           \* verified channel material sealed into a document
    DocOf,         \* the material each fingerprint is computed over
    Bundle,        \* evidence bundles, by digest
    Holder         \* owners of a session lease

ASSUME DocOfType == DocOf \in [Fingerprint -> Doc]

SessionId ==
    [doc : Doc, bundle : Bundle, established_at : Nat, expires_at : Nat]

Entry ==
    [fingerprint : Fingerprint, retention_until : Nat, holders : SUBSET Holder]

EmptyIndex ==
    [ by_id |-> EmptyMap, by_fingerprint |-> EmptyMap,
      by_retention |-> {}, bundles |-> EmptyMap ]

-----------------------------------------------------------------------------
(* insert *)

\* The deadline an inserted session is kept to: never below its own expiry,
\* and never below the deadline the id already has.
InsertedRetention(ix, id, retention) ==
    LET asked == Later(retention, id.expires_at) IN
    IF id \in DOMAIN ix.by_id
    THEN Later(ix.by_id[id].retention_until, asked)
    ELSE asked

\* A new id adds one citer to its bundle, creating the bundle unpersisted.
CiteUncounted(bundles, b) ==
    Put(bundles, b, IF b \in DOMAIN bundles THEN bundles[b]
                    ELSE [citers |-> 0, persisted |-> FALSE])
CiteBundle(bundles, b) ==
    Put(bundles, b,
        IF b \in DOMAIN bundles
        THEN [citers |-> bundles[b].citers + 1, persisted |-> bundles[b].persisted]
        ELSE [citers |-> 1, persisted |-> FALSE])

DropHint(hints, ix, id) ==
    IF id \in DOMAIN ix.by_id
    THEN hints \ {<<ix.by_id[id].retention_until, id>>}
    ELSE hints

\* An id that is already there keeps its token, and so its leases.
FreshToken(ix, id) == {}
TokenOf(ix, id) == IF id \in DOMAIN ix.by_id THEN ix.by_id[id].holders ELSE {}

Insert(ix, fp, id, retention) ==
    LET known == id \in DOMAIN ix.by_id
        until == InsertedRetention(ix, id, retention)
    IN  [ by_id |-> Put(ix.by_id, id,
                        [ fingerprint     |-> fp,
                          retention_until |-> until,
                          holders         |-> TokenOf(ix, id) ]),
          by_fingerprint |-> Put(ix.by_fingerprint, fp, id),
          by_retention   |-> DropHint(ix.by_retention, ix, id) \cup {<<until, id>>},
          bundles        |-> IF known THEN ix.bundles
                                      ELSE CiteBundle(ix.bundles, id.bundle) ]

-----------------------------------------------------------------------------
(* evict_lapsed *)

\* A lease on the entry is outstanding: Arc::strong_count(&e.token) > 1.
HeldIgnored(ix, id) == FALSE
Held(ix, id) == ix.by_id[id].holders # {}

\* The ids an eviction pass at `now` removes.  A due id with an outstanding
\* lease goes back into its bucket.
Evictable(ix, now) ==
    {id \in DOMAIN ix.by_id :
        /\ ~Held(ix, id)
        /\ \E h \in ix.by_retention : h[1] <= now /\ h[2] = id}

CitersWithin(S, b) == Cardinality({id \in S : id.bundle = b})

\* Bundles lose one citer per evicted session and are dropped at zero.
BundlesAfter(bundles, gone) ==
    LET left(b) == bundles[b].citers - CitersWithin(gone, b) IN
    [b \in {c \in DOMAIN bundles : left(c) # 0} |->
        [citers |-> left(b), persisted |-> bundles[b].persisted]]

\* Only the fingerprint the entry records loses its mapping, and only while
\* that mapping still names the evicted id.
StaleFingerprints(ix, gone) ==
    {fp \in DOMAIN ix.by_fingerprint :
        /\ ix.by_fingerprint[fp] \in gone
        /\ ix.by_id[ix.by_fingerprint[fp]].fingerprint = fp}

\* Every due hint goes except those of held sessions.
HeldUnhinted(ix, now) == {h \in ix.by_retention : h[1] > now}
HintsAfter(ix, now) ==
    {h \in ix.by_retention :
        h[1] > now \/ (h[2] \in DOMAIN ix.by_id /\ Held(ix, h[2]))}

EvictLapsed(ix, now) ==
    LET gone == Evictable(ix, now) IN
    [ by_id          |-> Without(ix.by_id, gone),
      by_fingerprint |-> Without(ix.by_fingerprint, StaleFingerprints(ix, gone)),
      by_retention   |-> HintsAfter(ix, now),
      bundles        |-> BundlesAfter(ix.bundles, gone) ]

-----------------------------------------------------------------------------
(* lease, extend, current, get *)

\* The entry with another deadline, or other holders.
Until(entry, deadline) ==
    [ fingerprint |-> entry.fingerprint, retention_until |-> deadline,
      holders |-> entry.holders ]
HeldBy(entry, holders) ==
    [ fingerprint |-> entry.fingerprint, retention_until |-> entry.retention_until,
      holders |-> holders ]

\* The index with other entries and hints, or other bundles.
WithEntries(ix, entries, hints) ==
    [ by_id |-> entries, by_fingerprint |-> ix.by_fingerprint,
      by_retention |-> hints, bundles |-> ix.bundles ]
WithBundles(ix, bundles) ==
    [ by_id |-> ix.by_id, by_fingerprint |-> ix.by_fingerprint,
      by_retention |-> ix.by_retention, bundles |-> bundles ]

Lease(ix, h, id) ==
    WithEntries(ix,
        Put(ix.by_id, id, HeldBy(ix.by_id[id], ix.by_id[id].holders \cup {h})),
        ix.by_retention)

\* Dropping leases of h drops their clones of the tokens of the entries S.
ReleaseNone(ix, h, S) == ix
ReleaseSome(ix, h, S) ==
    WithEntries(ix,
        [id \in DOMAIN ix.by_id |->
            IF id \in S THEN HeldBy(ix.by_id[id], ix.by_id[id].holders \ {h})
                        ELSE ix.by_id[id]],
        ix.by_retention)
Release(ix, h) == ReleaseSome(ix, h, DOMAIN ix.by_id)

\* "session lease does not belong to this store" otherwise.
OwnsLease(ix, h, id) == id \in DOMAIN ix.by_id /\ h \in ix.by_id[id].holders

ExtendAlways(ix, id, deadline) ==
    WithEntries(ix, Put(ix.by_id, id, Until(ix.by_id[id], deadline)),
        (ix.by_retention \ {<<ix.by_id[id].retention_until, id>>}) \cup {<<deadline, id>>})
Extend(ix, id, deadline) ==
    LET old == ix.by_id[id].retention_until IN
    IF deadline > old
    THEN WithEntries(ix,
            Put(ix.by_id, id, Until(ix.by_id[id], deadline)),
            (ix.by_retention \ {<<old, id>>}) \cup {<<deadline, id>>})
    ELSE ix

\* The channel's session, when it is still valid at the caller's snapshot.
Usable(id, now) == now < id.expires_at

HasCurrent(ix, fp, now) ==
    /\ fp \in DOMAIN ix.by_fingerprint
    /\ ix.by_fingerprint[fp] \in DOMAIN ix.by_id
    /\ Usable(ix.by_fingerprint[fp], now)

\* current(): after the eviction pass, lease the channel's session and extend it.
Acquire(ix, h, fp, retention) ==
    LET id == ix.by_fingerprint[fp] IN Extend(Lease(ix, h, id), id, retention)

\* rebuild(): a stored document is served only with its bundle.
Fetchable(ix, id) == id \in DOMAIN ix.by_id /\ id.bundle \in DOMAIN ix.bundles

MarkPersisted(ix, S) ==
    WithBundles(ix,
        [b \in DOMAIN ix.bundles |->
            [ citers |-> ix.bundles[b].citers,
              persisted |-> ix.bundles[b].persisted \/ b \in S ]])

-----------------------------------------------------------------------------
(* What a well-formed index satisfies. *)

IndexType(ix) ==
    /\ ix = [ by_id |-> ix.by_id, by_fingerprint |-> ix.by_fingerprint,
              by_retention |-> ix.by_retention, bundles |-> ix.bundles ]
    /\ DOMAIN ix.by_id \subseteq SessionId
    /\ IsFiniteSet(DOMAIN ix.by_id)
    /\ ix.by_id \in [DOMAIN ix.by_id -> Entry]
    /\ DOMAIN ix.by_fingerprint \subseteq Fingerprint
    /\ ix.by_fingerprint \in [DOMAIN ix.by_fingerprint -> SessionId]
    /\ ix.by_retention \subseteq Nat \X SessionId
    /\ DOMAIN ix.bundles \subseteq Bundle
    /\ ix.bundles \in [DOMAIN ix.bundles -> [citers : Nat, persisted : BOOLEAN]]

\* Exactly one hint per stored session, at its current deadline.
HintsExact(ix) ==
    ix.by_retention = {<<ix.by_id[id].retention_until, id>> : id \in DOMAIN ix.by_id}

\* A bundle is kept exactly while stored sessions cite it, and counts them.
CitersExact(ix) ==
    /\ DOMAIN ix.bundles = {id.bundle : id \in DOMAIN ix.by_id}
    /\ \A b \in DOMAIN ix.bundles :
          ix.bundles[b].citers = CitersWithin(DOMAIN ix.by_id, b)

\* A stored session is retained at least to its own expiry, and the channel a
\* fingerprint names is one of its own material.
EntriesSound(ix) ==
    /\ \A id \in DOMAIN ix.by_id :
          /\ ix.by_id[id].retention_until >= id.expires_at
          /\ DocOf[ix.by_id[id].fingerprint] = id.doc
    /\ \A fp \in DOMAIN ix.by_fingerprint :
          ix.by_fingerprint[fp].doc = DocOf[fp]

=============================================================================
