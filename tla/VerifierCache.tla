----------------------------- MODULE VerifierCache -----------------------------
(***************************************************************************)
(* The verifier cache of src/aci/verifier/external.rs and the two that use *)
(* it: requests, which verify, forward over the verified channel and       *)
(* reverify on a binding mismatch (src/aggregator/service/forward.rs), and *)
(* the background refresh of one upstream                                  *)
(* (src/aggregator/upstream_config/mod.rs).                                *)
(*                                                                         *)
(* The upstream rotates its channel key: `live` numbers the keys it has    *)
(* had, and a verification learns the one that is live when it looks.      *)
(* Cache reads, the removal that may follow one, and cache writes are      *)
(* separate critical sections; verifications are serialised by             *)
(* verify_lock.                                                            *)
(***************************************************************************)
EXTENDS Maps, Integers, FiniteSets

CONSTANTS
    Key,               \* cache keys: models, or one for a router
    Request,           \* concurrent requests
    Refresher,         \* the background refresh task
    Free,              \* verify_lock is not held
    CacheTtl,          \* cache_ttl_seconds
    Period,            \* verification_refresh_seconds
    ReverifyAttempts,  \* CHANNEL_BINDING_REVERIFY_ATTEMPTS
    MaxRotations,      \* bound on the upstream's key rotations
    MaxTime            \* bound on the clock

ASSUME CacheConstants ==
    /\ CacheTtl \in Nat
    /\ Period \in Nat \ {0}
    /\ ReverifyAttempts \in Nat
    /\ MaxRotations \in Nat
    /\ MaxTime \in Nat
    /\ Refresher \notin Request
    /\ Free \notin Request \cup {Refresher}
    /\ Key # {}

VARIABLES
    clock,        \* seconds
    live,         \* the upstream's current channel key
    last_live,    \* for the keys it had: when each was last live
    cache,        \* Key -> [binding, started, expires_at]
    lock,         \* holder of verify_lock
    pc,           \* per process: where it stands
    loc,          \* per process: its locals
    target        \* the refresher's per-target state

vars == <<clock, live, last_live, cache, lock, pc, loc, target>>

Process == Request \cup {Refresher}

\* key      - the cache key asked for
\* peek     - list_current_sessions: a cached event or nothing
\* started  - when the running verification started
\* binding  - the channel key of the event held
\* attempts - reverifications so far
\* first    - the upstream's key at the first mismatch
NoLocals(k) ==
    [ key |-> k, peek |-> FALSE, started |-> 0, binding |-> 0, attempts |-> 0,
      first |-> 0 ]
Unused == NoLocals(CHOOSE k \in Key : TRUE)

Init ==
    /\ clock = 0
    /\ live = 0
    /\ last_live = EmptyMap
    /\ cache = EmptyMap
    /\ lock = Free
    /\ pc = [p \in Process |-> "idle"]
    /\ loc = [p \in Process |-> Unused]
    /\ target = [k \in Key |-> [not_before |-> 0, last_start |-> -1]]

Goes(p, from, to) == pc[p] = from /\ pc' = [pc EXCEPT ![p] = to]
Ends(p) == pc' = [pc EXCEPT ![p] = "idle"] /\ loc' = [loc EXCEPT ![p] = Unused]

\* The guard of verify_lock is dropped on every return.
LocksLeak(p) == lock
LockAfter(p) == IF lock = p THEN Free ELSE lock

-----------------------------------------------------------------------------
(* ExternalProviderVerifier::cached *)

Usable(k) == k \in DOMAIN cache /\ clock < cache[k].expires_at
Expired(k) == k \in DOMAIN cache /\ clock >= cache[k].expires_at

Ask(p, k, peek) ==
    /\ Goes(p, "idle", "lookup")
    /\ loc' = [loc EXCEPT ![p] = [NoLocals(k) EXCEPT !.peek = peek]]
    /\ UNCHANGED <<clock, live, last_live, cache, lock, target>>

\* A usable entry: verify returns it, before the lock or under it.
Hit(p) ==
    LET k == loc[p].key IN
    /\ pc[p] \in {"lookup", "relookup"}
    /\ Usable(k)
    /\ lock' = LockAfter(p)
    /\ IF loc[p].peek
       THEN Ends(p)
       ELSE /\ pc' = [pc EXCEPT ![p] = "forwarding"]
            /\ loc' = [loc EXCEPT ![p].binding = cache[k].binding]
    /\ UNCHANGED <<clock, live, last_live, cache, target>>

\* No entry before the lock: wait for it, or give up when only peeking.
MissesBefore(p) ==
    IF loc[p].peek
    THEN Ends(p)
    ELSE pc' = [pc EXCEPT ![p] = "queued"] /\ UNCHANGED loc

\* No entry under the lock: start to verify.
Starts(p) ==
    /\ pc' = [pc EXCEPT ![p] = "running"]
    /\ loc' = [loc EXCEPT ![p].started = clock]

Miss(p) ==
    /\ loc[p].key \notin DOMAIN cache
    /\ \/ pc[p] = "lookup" /\ MissesBefore(p)
       \/ pc[p] = "relookup" /\ Starts(p)
    /\ UNCHANGED <<clock, live, last_live, cache, lock, target>>

\* An expired entry was read: it is removed under the write lock, by then
\* perhaps another entry.
FindExpired(p) ==
    /\ Expired(loc[p].key)
    /\ \/ Goes(p, "lookup", "removing")
       \/ Goes(p, "relookup", "reremoving")
    /\ UNCHANGED <<clock, live, last_live, cache, lock, loc, target>>

RemoveExpired(p) ==
    /\ \/ pc[p] = "removing" /\ MissesBefore(p)
       \/ pc[p] = "reremoving" /\ Starts(p)
    /\ cache' = Without(cache, {loc[p].key})
    /\ UNCHANGED <<clock, live, last_live, lock, target>>

-----------------------------------------------------------------------------
(* ExternalProviderVerifier::verify, refresh and verify_uncached *)

AnyLock == TRUE
LockFree == lock = Free

\* verify looks again under the lock; refresh does not.
TakeLock(p) ==
    /\ LockFree
    /\ lock' = p
    /\ pc[p] = "queued"
    /\ IF p = Refresher
       THEN Starts(p)
       ELSE pc' = [pc EXCEPT ![p] = "relookup"] /\ UNCHANGED loc
    /\ UNCHANGED <<clock, live, last_live, cache, target>>

\* The bridge fetches evidence: it binds the key that is live now.
Observe(p) ==
    /\ Goes(p, "running", "finishing")
    /\ loc' = [loc EXCEPT ![p].binding = live]
    /\ UNCHANGED <<clock, live, last_live, cache, lock, target>>

\* maybe_cache_event
ExpiresLate(p) == clock + CacheTtl
ExpiresAt(p) == loc[p].started + CacheTtl
Cached(p) ==
    IF CacheTtl = 0
    THEN cache
    ELSE Put(cache, loc[p].key,
             [ binding |-> loc[p].binding, started |-> loc[p].started,
               expires_at |-> ExpiresAt(p) ])

\* refresh_upstream after a success ...
Paced(k) == [target EXCEPT ![k].not_before = target[k].last_start + Period]
\* ... and after a failure, which keeps a valid entry and waits for its end.
Backed(k) ==
    IF Usable(k) THEN [target EXCEPT ![k].not_before = cache[k].expires_at] ELSE Paced(k)

Finish(p) ==
    /\ pc[p] = "finishing"
    /\ cache' = Cached(p)
    /\ lock' = LockAfter(p)
    /\ IF p = Refresher
       THEN Ends(p) /\ target' = Paced(loc[p].key)
       ELSE pc' = [pc EXCEPT ![p] = "forwarding"] /\ UNCHANGED <<loc, target>>
    /\ UNCHANGED <<clock, live, last_live>>

\* A timeout, a failed process or a refused result: nothing is cached.  The
\* request is refused, or served without a verified channel.
Fail(p) ==
    /\ pc[p] \in {"running", "finishing"}
    /\ lock' = LockAfter(p)
    /\ Ends(p)
    /\ target' = IF p = Refresher THEN Backed(loc[p].key) ELSE target
    /\ UNCHANGED <<clock, live, last_live, cache>>

-----------------------------------------------------------------------------
(* forward_with_binding_reverify *)

\* The pinned client reaches the key the event names, or fails otherwise.
Served(p) ==
    /\ pc[p] = "forwarding"
    /\ loc[p].binding = live
    /\ Ends(p)
    /\ UNCHANGED <<clock, live, last_live, cache, lock, target>>

AnyAttempt(p) == TRUE
OneAttempt(p) == loc[p].attempts < ReverifyAttempts - 1
MayReverify(p) == loc[p].attempts < ReverifyAttempts

\* refresh_upstream_event: invalidate, then verify, which consults the cache.
Mismatch(p) ==
    /\ loc[p].binding # live
    /\ MayReverify(p)
    /\ Goes(p, "forwarding", "lookup")
    /\ cache' = Without(cache, {loc[p].key})
    /\ loc' = [loc EXCEPT ![p].attempts = @ + 1,
                          ![p].first = IF loc[p].attempts = 0 THEN live ELSE @]
    /\ UNCHANGED <<clock, live, last_live, lock, target>>

\* invalidate_upstream_event on a terminal mismatch.
GiveUp(p) ==
    /\ pc[p] = "forwarding"
    /\ loc[p].binding # live
    /\ ~MayReverify(p)
    /\ Ends(p)
    /\ cache' = Without(cache, {loc[p].key})
    /\ UNCHANGED <<clock, live, last_live, lock, target>>

\* Any other upstream error, or a client that goes away while the request
\* waits: the lock's guard and the verifier process go with the future.
Abandon(p) ==
    /\ pc[p] \in {"queued", "running", "finishing", "forwarding"}
    /\ lock' = LockAfter(p)
    /\ Ends(p)
    /\ UNCHANGED <<clock, live, last_live, cache, target>>

-----------------------------------------------------------------------------
(* refresh_upstream: the scheduling loop of one upstream's targets *)

Lead == IF CacheTtl > Period THEN CacheTtl - Period ELSE 0

\* Never attempted, warm (earliest expiry first), cold (oldest attempt first).
Priority(k) ==
    CASE target[k].last_start < 0 -> <<0, 0>>
      [] target[k].last_start >= 0 /\ Usable(k) -> <<1, cache[k].expires_at>>
      [] OTHER -> <<2, target[k].last_start>>
Due(k) ==
    IF target[k].last_start >= 0 /\ Usable(k)
    THEN Later(cache[k].expires_at - Lead, target[k].not_before)
    ELSE target[k].not_before
Before(a, b) == a[1] < b[1] \/ (a[1] = b[1] /\ a[2] < b[2])
Selected(k) ==
    /\ Due(k) <= clock
    /\ \A j \in Key : Due(j) <= clock => ~Before(Priority(j), Priority(k))

\* A permit is granted and the targets are selected again.  Equal priorities
\* go by position in the code, by any choice here.
Refresh(k) ==
    /\ Selected(k)
    /\ Goes(Refresher, "idle", "queued")
    /\ loc' = [loc EXCEPT ![Refresher] = NoLocals(k)]
    /\ target' = [target EXCEPT ![k].last_start = clock]
    /\ UNCHANGED <<clock, live, last_live, cache, lock>>

-----------------------------------------------------------------------------
(* The upstream, and time *)

Rotate ==
    /\ live < MaxRotations
    /\ live' = live + 1
    /\ last_live' = Put(last_live, live, clock)
    /\ UNCHANGED <<clock, cache, lock, pc, loc, target>>

Tick ==
    /\ clock < MaxTime
    /\ clock' = clock + 1
    /\ UNCHANGED <<live, last_live, cache, lock, pc, loc, target>>

Verifies(p) == TakeLock(p) \/ Observe(p) \/ Finish(p) \/ Fail(p)
Proceeds(p) ==
    \/ Hit(p) \/ Miss(p) \/ FindExpired(p) \/ RemoveExpired(p)
    \/ Verifies(p)
    \/ Served(p) \/ Mismatch(p) \/ GiveUp(p)

Next ==
    \/ \E p \in Request :
          \/ \E k \in Key, peek \in BOOLEAN : Ask(p, k, peek)
          \/ Proceeds(p) \/ Abandon(p)
    \/ \E k \in Key : Refresh(k)
    \/ Verifies(Refresher)
    \/ Rotate \/ Tick

Spec == Init /\ [][Next]_vars

\* Verifications and forwards time out and the runtime polls every task, so a
\* process proceeds; the lock is handed over in FIFO order, so no waiter is
\* passed over for ever.  Rotation, time, arrivals and refreshes are not fair.
FairSpec ==
    /\ Spec
    /\ \A p \in Request : WF_vars(Proceeds(p)) /\ SF_vars(TakeLock(p))
    /\ WF_vars(Verifies(Refresher))

-----------------------------------------------------------------------------
(* Properties *)

\* Trust in a channel key lapses with the cache: the key of an entry was live
\* no earlier than CacheTtl before the entry expires, however long its
\* verification took to finish.
LastLive(b) == IF b = live THEN clock ELSE last_live[b]
TrustBounded ==
    \A k \in DOMAIN cache : cache[k].expires_at <= LastLive(cache[k].binding) + CacheTtl

\* A verification never overwrites one that started after it.
NewerVerificationWins ==
    [][\A k \in DOMAIN cache \cap DOMAIN cache' : cache[k].started <= cache'[k].started]_vars

\* Two reverifications are enough for a rotation: the last event a request
\* forwards with is at least as new as the key that refused its first, although
\* a verification in flight may put an older one back in the cache.
RotationSurvived ==
    \A p \in Request :
        pc[p] = "forwarding" /\ ~MayReverify(p) => loc[p].binding >= loc[p].first

\* Every request is answered: verify_lock is given back on every path.
RequestsEnd == \A p \in Request : pc[p] # "idle" ~> pc[p] = "idle"

=============================================================================
