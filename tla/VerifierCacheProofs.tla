------------------------- MODULE VerifierCacheProofs -------------------------
(***************************************************************************)
(* For any number of requests and keys, and any lifetimes: trust in a      *)
(* cached key lapses on time, no older verification overwrites a newer one *)
(* and a rotation is survived.                                             *)
(***************************************************************************)
EXTENDS VerifierCache, TLAPS

Locals ==
    [ key : Key, peek : BOOLEAN, started : Nat, binding : Nat, attempts : Nat, first : Nat ]
Entries == [ binding : Nat, started : Nat, expires_at : Nat ]

State ==
    { "idle", "lookup", "removing", "queued", "relookup", "reremoving", "running", "finishing",
      "forwarding" }

Placed == pc \in [Process -> State] /\ loc \in [Process -> Locals]

Typed ==
    /\ clock \in Nat /\ live \in Nat
    /\ DOMAIN last_live = 0..(live - 1)
    /\ \A b \in 0..(live - 1) : last_live[b] \in Nat
    /\ DOMAIN cache \subseteq Key
    /\ \A k \in DOMAIN cache : cache[k] \in Entries
    /\ Placed

\* verify_lock is held exactly between taking it and the return.
Holding == {"relookup", "reremoving", "running", "finishing"}
Exclusive == \A p \in Process : pc[p] \in Holding <=> lock = p

\* A verification that started at s and learned key b: b was live then or later.
Learned(s, b) == s <= clock /\ b <= live /\ s <= LastLive(b)

\* Entries expire a lifetime after their verification started, and none is newer
\* than the verification that is running.
Dated ==
    /\ \A k \in DOMAIN cache :
          /\ cache[k].expires_at = cache[k].started + CacheTtl
          /\ Learned(cache[k].started, cache[k].binding)
    /\ \A p \in Process : pc[p] \in {"running", "finishing"} =>
          /\ loc[p].started <= clock
          /\ \A k \in DOMAIN cache : cache[k].started <= loc[p].started
    /\ \A p \in Process : pc[p] = "finishing" => Learned(loc[p].started, loc[p].binding)

\* h is verifying and has learned a key older than the one that refused p.
Outdated(h, p) == pc[h] = "finishing" /\ loc[h].binding < loc[p].first

\* After its first mismatch a request can meet an outdated event only from the one
\* verification that was in flight then, and after its second not at all.
Reverifies(p) ==
    /\ loc[p].attempts <= ReverifyAttempts
    /\ loc[p].first <= live
    /\ loc[p].attempts = 0 => loc[p].first = 0
    /\ pc[p] = "finishing" => loc[p].binding >= loc[p].first
    /\ \A h \in Process : Outdated(h, p) =>
          loc[p].attempts < 2 /\ loc[p].key \notin DOMAIN cache /\ pc[p] # "forwarding"
    /\ loc[p].attempts >= 2 =>
          /\ loc[p].key \in DOMAIN cache => cache[loc[p].key].binding >= loc[p].first
          /\ pc[p] = "forwarding" => loc[p].binding >= loc[p].first
Recent == \A p \in Request : Reverifies(p)

IInv == Typed /\ Exclusive /\ Dated /\ Recent

-----------------------------------------------------------------------------
\* The locals a process starts from.
LEMMA FreshLocals ==
    /\ Unused \in Locals /\ Unused.attempts = 0 /\ Unused.first = 0
    /\ \A k \in Key, peek \in BOOLEAN :
          LET fresh == [NoLocals(k) EXCEPT !.peek = peek] IN
          fresh \in Locals /\ fresh.attempts = 0 /\ fresh.first = 0
    /\ \A k \in Key : NoLocals(k) \in Locals /\ NoLocals(k).attempts = 0 /\ NoLocals(k).first = 0
BY CacheConstants DEF Unused, NoLocals, Locals

-----------------------------------------------------------------------------
(* What the steps that neither learn a key nor store an entry do.           *)

Others(p) == \A h \in Process \ {p} : pc'[h] = pc[h] /\ loc'[h] = loc[h]
Same(p) ==
    /\ loc'[p].key = loc[p].key /\ loc'[p].attempts = loc[p].attempts
    /\ loc'[p].first = loc[p].first
CacheShrinks ==
    DOMAIN cache' \subseteq DOMAIN cache /\ \A k \in DOMAIN cache' : cache'[k] = cache[k]

\* p comes or goes, starts to verify, waits, or is served from the cache.
Quiet(p) ==
    /\ UNCHANGED <<clock, live, last_live>>
    /\ CacheShrinks
    /\ Placed'
    /\ Others(p)
    /\ \/ /\ pc'[p] \in {"idle", "lookup", "queued"}
          /\ loc'[p].attempts = 0 /\ loc'[p].first = 0
       \/ pc'[p] = "running" /\ loc'[p].started = clock /\ Same(p)
       \/ pc'[p] \in {"removing", "queued", "relookup", "reremoving"} /\ loc'[p] = loc[p]
       \/ /\ pc'[p] = "forwarding" /\ Same(p) /\ loc[p].key \in DOMAIN cache
          /\ loc'[p].binding = cache[loc[p].key].binding

\* The ends of a future, of a missed lookup, and the start of a verification.
LEMMA EndsFacts ==
    ASSUME Typed, NEW p \in Process, Ends(p)
    PROVE  /\ Placed' /\ Others(p)
           /\ pc'[p] = "idle" /\ loc'[p].attempts = 0 /\ loc'[p].first = 0
BY FreshLocals DEF Typed, Placed, State, Ends, Others

LEMMA StartsFacts ==
    ASSUME Typed, NEW p \in Process, Starts(p)
    PROVE  /\ Placed' /\ Others(p)
           /\ pc'[p] = "running" /\ loc'[p].started = clock /\ Same(p)
BY DEF Typed, Placed, State, Starts, Others, Same, Locals

LEMMA WaitsFacts ==
    ASSUME Typed, NEW p \in Process, NEW s \in State, pc' = [pc EXCEPT ![p] = s], loc' = loc
    PROVE  Placed' /\ Others(p) /\ pc'[p] = s /\ loc'[p] = loc[p]
BY DEF Typed, Placed, Others

LEMMA MissesFacts ==
    ASSUME Typed, NEW p \in Process, MissesBefore(p)
    PROVE  /\ Placed' /\ Others(p)
           /\ \/ pc'[p] = "idle" /\ loc'[p].attempts = 0 /\ loc'[p].first = 0
              \/ pc'[p] = "queued" /\ loc'[p] = loc[p]
<1>1. CASE loc[p].peek
    BY <1>1, EndsFacts DEF MissesBefore
<1>2. CASE ~loc[p].peek
    BY <1>2, WaitsFacts DEF MissesBefore, State
<1> QED
    BY <1>1, <1>2

\* Lookups, the lock, and every way to end are quiet.
LEMMA QuietSteps ==
    ASSUME Typed, NEW p \in Process,
           \/ Hit(p) \/ Miss(p) \/ FindExpired(p) \/ RemoveExpired(p) \/ TakeLock(p)
           \/ Fail(p) \/ Served(p) \/ GiveUp(p) \/ Abandon(p)
    PROVE  Quiet(p)
<1>1. CASE Hit(p)
  <2>1. CASE loc[p].peek
    BY <1>1, <2>1, EndsFacts DEF Hit, Quiet, CacheShrinks
  <2>2. CASE ~loc[p].peek
    <3>1. loc[p].key \in DOMAIN cache /\ cache[loc[p].key].binding \in Nat
      BY <1>1 DEF Hit, Usable, Typed, Entries
    <3> DEFINE b == cache[loc[p].key].binding
    <3>2. /\ pc' = [pc EXCEPT ![p] = "forwarding"] /\ loc' = [loc EXCEPT ![p].binding = b]
          /\ UNCHANGED <<clock, live, last_live, cache>>
      BY <1>1, <2>2 DEF Hit
    <3> HIDE DEF b
    <3>3. Placed' /\ Others(p) /\ Same(p) /\ pc'[p] = "forwarding" /\ loc'[p].binding = b
      BY <3>1, <3>2 DEF b, Typed, Placed, State, Others, Same, Locals
    <3> QED
      BY <3>1, <3>2, <3>3 DEF b, Quiet, CacheShrinks
  <2> QED
    BY <2>1, <2>2
<1>2. CASE Miss(p)
  BY <1>2, MissesFacts, StartsFacts DEF Miss, Quiet, CacheShrinks
<1>3. CASE FindExpired(p)
  BY <1>3, WaitsFacts DEF FindExpired, Goes, State, Quiet, CacheShrinks
<1>4. CASE RemoveExpired(p)
  BY <1>4, MissesFacts, StartsFacts DEF RemoveExpired, Without, Quiet, CacheShrinks
<1>5. CASE TakeLock(p)
  BY <1>5, WaitsFacts, StartsFacts DEF TakeLock, State, Quiet, CacheShrinks
<1>6. CASE Fail(p)
  BY <1>6, EndsFacts DEF Fail, Quiet, CacheShrinks
<1>7. CASE Served(p)
  BY <1>7, EndsFacts DEF Served, Quiet, CacheShrinks
<1>8. CASE GiveUp(p)
  BY <1>8, EndsFacts DEF GiveUp, Without, Quiet, CacheShrinks
<1>9. CASE Abandon(p)
  BY <1>9, EndsFacts DEF Abandon, Quiet, CacheShrinks
<1> QED
  BY <1>1, <1>2, <1>3, <1>4, <1>5, <1>6, <1>7, <1>8, <1>9

\* So are the arrivals of requests and refreshes.
LEMMA QuietArrivals ==
    ASSUME Typed
    PROVE  /\ \A p \in Request, k \in Key, peek \in BOOLEAN : Ask(p, k, peek) => Quiet(p)
           /\ \A k \in Key : Refresh(k) => Quiet(Refresher)
<1>1. ASSUME NEW p \in Request, NEW k \in Key, NEW peek \in BOOLEAN, Ask(p, k, peek)
      PROVE  Quiet(p)
  <2> DEFINE fresh == [NoLocals(k) EXCEPT !.peek = peek]
  <2>1. fresh \in Locals /\ fresh.attempts = 0 /\ fresh.first = 0
    BY FreshLocals
  <2>2. /\ pc' = [pc EXCEPT ![p] = "lookup"] /\ loc' = [loc EXCEPT ![p] = fresh]
        /\ UNCHANGED <<clock, live, last_live, cache>>
    BY <1>1 DEF Ask, Goes
  <2> HIDE DEF fresh
  <2> QED
    BY <2>1, <2>2 DEF Process, Typed, Placed, State, Quiet, CacheShrinks, Others
<1>2. ASSUME NEW k \in Key, Refresh(k) PROVE Quiet(Refresher)
  <2>1. NoLocals(k) \in Locals /\ NoLocals(k).attempts = 0 /\ NoLocals(k).first = 0
    BY FreshLocals
  <2>2. /\ pc' = [pc EXCEPT ![Refresher] = "queued"]
        /\ loc' = [loc EXCEPT ![Refresher] = NoLocals(k)]
        /\ UNCHANGED <<clock, live, last_live, cache>>
    BY <1>2 DEF Refresh, Goes
  <2> QED
    BY <2>1, <2>2 DEF Process, Typed, Placed, State, Quiet, CacheShrinks, Others
<1> QED
  BY <1>1, <1>2

\* Every step gives verify_lock back exactly when it leaves the critical section.
LEMMA ExclusiveNext ==
    ASSUME Typed, Exclusive, [Next]_vars PROVE Exclusive'
<1>1. ASSUME NEW p \in Process, Hit(p) PROVE Exclusive'
    BY <1>1, CacheConstants
    DEF Typed, Placed, State, Exclusive, Holding, Process,
        Hit, Usable, LockAfter, Ends
<1>2. ASSUME NEW p \in Process, Miss(p) PROVE Exclusive'
    BY <1>2, CacheConstants
    DEF Typed, Placed, State, Exclusive, Holding, Process,
        Miss, MissesBefore, Starts, Ends
<1>3. ASSUME NEW p \in Process, FindExpired(p) PROVE Exclusive'
    BY <1>3, CacheConstants
    DEF Typed, Placed, State, Exclusive, Holding, Process,
        FindExpired, Goes
<1>4. ASSUME NEW p \in Process, RemoveExpired(p) PROVE Exclusive'
    BY <1>4, CacheConstants
    DEF Typed, Placed, State, Exclusive, Holding, Process,
        RemoveExpired, MissesBefore, Starts, Ends, Without
<1>5. ASSUME NEW p \in Process, TakeLock(p) PROVE Exclusive'
    BY <1>5, CacheConstants
    DEF Typed, Placed, State, Exclusive, Holding, Process,
        TakeLock, LockFree, Starts
<1>6. ASSUME NEW p \in Process, Observe(p) PROVE Exclusive'
    BY <1>6, CacheConstants
    DEF Typed, Placed, State, Exclusive, Holding, Process,
        Observe, Goes
<1>7. ASSUME NEW p \in Process, Finish(p) PROVE Exclusive'
    BY <1>7, CacheConstants
    DEF Typed, Placed, State, Exclusive, Holding, Process,
        Finish, Cached, ExpiresAt, Put, LockAfter, Ends
<1>8. ASSUME NEW p \in Process, Fail(p) PROVE Exclusive'
    BY <1>8, CacheConstants
    DEF Typed, Placed, State, Exclusive, Holding, Process,
        Fail, LockAfter, Ends
<1>9. ASSUME NEW p \in Process, Served(p) PROVE Exclusive'
    BY <1>9, CacheConstants
    DEF Typed, Placed, State, Exclusive, Holding, Process,
        Served, Ends
<1>10. ASSUME NEW p \in Process, Mismatch(p) PROVE Exclusive'
    BY <1>10, CacheConstants
    DEF Typed, Placed, State, Exclusive, Holding, Process,
        Mismatch, MayReverify, Goes, Without
<1>11. ASSUME NEW p \in Process, GiveUp(p) PROVE Exclusive'
    BY <1>11, CacheConstants
    DEF Typed, Placed, State, Exclusive, Holding, Process,
        GiveUp, Ends, Without
<1>12. ASSUME NEW p \in Process, Abandon(p) PROVE Exclusive'
    BY <1>12, CacheConstants
    DEF Typed, Placed, State, Exclusive, Holding, Process,
        Abandon, LockAfter, Ends
<1>13. ASSUME NEW p \in Request, NEW k \in Key, NEW peek \in BOOLEAN, Ask(p, k, peek)
      PROVE Exclusive'
    BY <1>13, CacheConstants
    DEF Typed, Placed, State, Exclusive, Holding, Process,
        Ask, Goes
<1>14. ASSUME NEW k \in Key, Refresh(k) PROVE Exclusive'
    BY <1>14, CacheConstants
    DEF Typed, Placed, State, Exclusive, Holding, Process,
        Refresh, Goes
<1>15. CASE Rotate
    BY <1>15, CacheConstants
    DEF Typed, Placed, State, Exclusive, Holding, Process,
        Rotate, Put
<1>16. CASE Tick
    BY <1>16, CacheConstants
    DEF Typed, Placed, State, Exclusive, Holding, Process,
        Tick
<1>17. CASE UNCHANGED vars
    BY <1>17, CacheConstants
    DEF Typed, Placed, State, Exclusive, Holding, Process,
        vars
<1> QED
    BY <1>1, <1>2, <1>3, <1>4, <1>5, <1>6, <1>7, <1>8, <1>9,
       <1>10, <1>11, <1>12, <1>13, <1>14, <1>15, <1>16, <1>17
    DEF Next, Proceeds, Verifies, Process

-----------------------------------------------------------------------------
(* The steps that are not quiet: a verification learns its key, stores its  *)
(* result, and a mismatch invalidates.                                      *)

\* Observe changes the binding of p alone.
LEMMA ObserveFacts ==
    ASSUME Typed, NEW p \in Process, Observe(p)
    PROVE  /\ Placed' /\ Others(p) /\ Same(p)
           /\ pc[p] = "running" /\ pc'[p] = "finishing"
           /\ loc'[p].binding = live /\ loc'[p].started = loc[p].started
           /\ UNCHANGED <<clock, live, last_live, cache>>
BY DEF Observe, Goes, Typed, Placed, State, Others, Same, Locals

\* Finish stores p's result, or nothing with the cache disabled.
LEMMA FinishFacts ==
    ASSUME Typed, NEW p \in Process, Finish(p)
    PROVE  /\ Placed' /\ Others(p) /\ UNCHANGED <<clock, live, last_live>>
           /\ pc[p] = "finishing"
           /\ \/ /\ pc'[p] = "idle" /\ loc'[p].attempts = 0 /\ loc'[p].first = 0
                 /\ p = Refresher
              \/ pc'[p] = "forwarding" /\ loc'[p] = loc[p]
           /\ DOMAIN cache' \subseteq DOMAIN cache \cup {loc[p].key}
           /\ \A k \in DOMAIN cache' :
                 \/ k \in DOMAIN cache /\ cache'[k] = cache[k]
                 \/ /\ k = loc[p].key /\ cache'[k] \in Entries
                    /\ cache'[k].binding = loc[p].binding
                    /\ cache'[k].started = loc[p].started
                    /\ cache'[k].expires_at = loc[p].started + CacheTtl
<1>1. pc[p] = "finishing" /\ cache' = Cached(p) /\ UNCHANGED <<clock, live, last_live>>
  BY DEF Finish
<1>2. /\ Placed' /\ Others(p)
      /\ \/ pc'[p] = "idle" /\ loc'[p].attempts = 0 /\ loc'[p].first = 0 /\ p = Refresher
         \/ pc'[p] = "forwarding" /\ loc'[p] = loc[p]
  BY EndsFacts, WaitsFacts DEF Finish, State
<1>3. [ binding |-> loc[p].binding, started |-> loc[p].started,
        expires_at |-> loc[p].started + CacheTtl ] \in Entries
  BY CacheConstants DEF Typed, Placed, Locals, Entries
<1>4. CASE CacheTtl = 0
  BY <1>1, <1>2, <1>4 DEF Cached
<1>5. CASE CacheTtl # 0
  BY <1>1, <1>2, <1>3, <1>5 DEF Cached, ExpiresAt, Put
<1> QED
  BY <1>4, <1>5

\* Mismatch drops the entry of p's key and counts the attempt.
LEMMA MismatchFacts ==
    ASSUME Typed, NEW p \in Process, Mismatch(p)
    PROVE  /\ Placed' /\ Others(p) /\ CacheShrinks /\ UNCHANGED <<clock, live, last_live>>
           /\ pc[p] = "forwarding" /\ pc'[p] = "lookup"
           /\ loc[p].key \notin DOMAIN cache' /\ loc'[p].key = loc[p].key
           /\ loc[p].attempts < ReverifyAttempts
           /\ loc'[p].attempts = loc[p].attempts + 1
           /\ loc'[p].first = IF loc[p].attempts = 0 THEN live ELSE loc[p].first
<1> DEFINE f == IF loc[p].attempts = 0 THEN live ELSE loc[p].first
<1>1. f \in Nat /\ loc[p].attempts + 1 \in Nat
  BY DEF Typed, Placed, Locals
<1>2. loc' = [loc EXCEPT ![p] = [[loc[p] EXCEPT !.attempts = loc[p].attempts + 1]
                                            EXCEPT !.first = f]]
  BY DEF Mismatch, Typed, Placed, Locals
<1>3. /\ pc' = [pc EXCEPT ![p] = "lookup"] /\ pc[p] = "forwarding"
      /\ UNCHANGED <<clock, live, last_live>> /\ loc[p].attempts < ReverifyAttempts
      /\ CacheShrinks /\ loc[p].key \notin DOMAIN cache'
  BY DEF Mismatch, Goes, MayReverify, Without, CacheShrinks
<1> HIDE DEF f
<1>4. /\ Placed' /\ Others(p) /\ loc'[p].key = loc[p].key
      /\ loc'[p].attempts = loc[p].attempts + 1 /\ loc'[p].first = f /\ pc'[p] = "lookup"
  BY <1>1, <1>2, <1>3 DEF Typed, Placed, State, Locals, Others
<1> QED
  BY <1>3, <1>4 DEF f

-----------------------------------------------------------------------------
(* The invariants step by step. *)

\* Every step keeps the types.
LEMMA TypedNext == ASSUME Typed, [Next]_vars PROVE Typed'
<1>1. ASSUME NEW p \in Process, Quiet(p) PROVE Typed'
  BY <1>1 DEF Typed, Quiet, CacheShrinks
<1>2. ASSUME NEW p \in Process, Observe(p) PROVE Typed'
  BY <1>2, ObserveFacts DEF Typed
<1>3. ASSUME NEW p \in Process, Finish(p) PROVE Typed'
  <2>1. loc[p].key \in Key
    BY DEF Typed, Placed, Locals
  <2> QED
    BY <1>3, <2>1, FinishFacts DEF Typed
<1>4. ASSUME NEW p \in Process, Mismatch(p) PROVE Typed'
  BY <1>4, MismatchFacts DEF Typed, CacheShrinks
<1>5. CASE Rotate
  BY <1>5 DEF Rotate, Put, Typed, Placed
<1>6. CASE Tick
  BY <1>6 DEF Tick, Typed, Placed
<1>7. CASE UNCHANGED vars
  BY <1>7 DEF vars, Typed, Placed
<1> QED
  BY <1>1, <1>2, <1>3, <1>4, <1>5, <1>6, <1>7, QuietSteps, QuietArrivals
  DEF Next, Proceeds, Verifies, Process

\* Every step keeps the dates of entries and of running verifications in order:
\* a verification starts after all that is cached, and nobody stores beside it.
LEMMA DatedNext == ASSUME Typed, Exclusive, Dated, [Next]_vars PROVE Dated'
<1>1. ASSUME NEW p \in Process, Quiet(p) PROVE Dated'
  <2>1. /\ UNCHANGED <<clock, live, last_live>> /\ CacheShrinks
        /\ \A s, b : Learned(s, b)' <=> Learned(s, b)
    BY <1>1 DEF Quiet, Learned, LastLive
  <2>2. \A h \in Process : pc'[h] \in {"running", "finishing"} =>
           \/ pc[h] = pc'[h] /\ loc'[h] = loc[h]
           \/ pc'[h] = "running" /\ loc'[h].started = clock
    BY <1>1 DEF Quiet, Others
  <2>3. clock \in Nat /\ \A k \in DOMAIN cache : cache[k].started <= clock
    BY DEF Typed, Dated, Learned
  <2> QED
    BY <2>1, <2>2, <2>3 DEF CacheShrinks, Dated
<1>2. ASSUME NEW p \in Process, Observe(p) PROVE Dated'
  BY <1>2, ObserveFacts DEF Typed, Others, Dated, Learned, LastLive
<1>3. ASSUME NEW p \in Process, Finish(p) PROVE Dated'
  <2>1. \A h \in Process \ {p} : pc'[h] \notin {"running", "finishing"}
    BY <1>3, FinishFacts DEF Exclusive, Holding, Others
  <2>2. pc'[p] \notin {"running", "finishing"}
    BY <1>3, FinishFacts
  <2>3. Learned(loc[p].started, loc[p].binding)
    BY <1>3, FinishFacts DEF Dated
  <2> QED
    BY <1>3, <2>1, <2>2, <2>3, FinishFacts DEF Dated, Learned, LastLive
<1>4. ASSUME NEW p \in Process, Mismatch(p) PROVE Dated'
  BY <1>4, MismatchFacts DEF CacheShrinks, Others, Dated, Learned, LastLive
<1>5. CASE Rotate
  <2>1. \A s \in Nat, b \in Nat : Learned(s, b) => Learned(s, b)'
    BY <1>5 DEF Rotate, Put, Typed, Learned, LastLive
  <2>2. UNCHANGED <<clock, cache, pc, loc>>
    BY <1>5 DEF Rotate
  <2>3. /\ \A k \in DOMAIN cache : cache[k].started \in Nat /\ cache[k].binding \in Nat
        /\ \A p \in Process : loc[p].started \in Nat /\ loc[p].binding \in Nat
    BY DEF Typed, Placed, Entries, Locals
  <2> QED
    BY <2>1, <2>2, <2>3 DEF Dated
<1>6. CASE Tick
  <2>1. \A s \in Nat, b \in Nat : Learned(s, b) => Learned(s, b)'
    BY <1>6 DEF Tick, Typed, Learned, LastLive
  <2>2. UNCHANGED <<cache, pc, loc>> /\ clock' = clock + 1
    BY <1>6 DEF Tick
  <2>3. /\ \A k \in DOMAIN cache : cache[k].started \in Nat /\ cache[k].binding \in Nat
        /\ \A p \in Process : loc[p].started \in Nat /\ loc[p].binding \in Nat
        /\ clock \in Nat
    BY DEF Typed, Placed, Entries, Locals
  <2> QED
    BY <2>1, <2>2, <2>3 DEF Dated
<1>7. CASE UNCHANGED vars
  BY <1>7 DEF vars, Dated, Learned, LastLive
<1> QED
  BY <1>1, <1>2, <1>3, <1>4, <1>5, <1>6, <1>7, QuietSteps, QuietArrivals
  DEF Next, Proceeds, Verifies, Process

\* Every step keeps what a request may still meet after a mismatch.
LEMMA RecentNext == ASSUME Typed, Exclusive, Recent, [Next]_vars PROVE Recent'
<1>0. /\ live \in Nat /\ \A p \in Process : loc[p] \in Locals
      /\ \A k \in DOMAIN cache : cache[k].binding \in Nat
  BY DEF Typed, Placed, Entries
<1>1. ASSUME NEW p \in Process, Quiet(p), NEW q \in Request PROVE Reverifies(q)'
  <2>0. q \in Process /\ Reverifies(q)
    BY DEF Recent, Process
  <2>1. \A h \in Process : Outdated(h, q)' => h # p
    BY <1>1 DEF Quiet, Outdated
  <2>2. CASE q # p
    BY <1>0, <1>1, <2>0, <2>1, <2>2 DEF Quiet, CacheShrinks, Others, Reverifies, Outdated
  <2>3. CASE q = p
    <3>1. /\ CacheShrinks /\ live' = live /\ loc[q] \in Locals /\ pc'[q] # "finishing"
          /\ \A h \in Process \ {q} : loc[h] \in Locals /\ pc'[h] = pc[h] /\ loc'[h] = loc[h]
      BY <1>0, <1>1, <2>0, <2>3 DEF Quiet, Others
    <3>2. CASE loc'[q].attempts = 0 /\ loc'[q].first = 0
      BY <1>0, <2>1, <2>3, <3>1, <3>2, CacheConstants DEF Reverifies, Outdated, Locals
    <3>3. CASE Same(q) /\ pc'[q] # "forwarding"
      <4>1. \A h \in Process : Outdated(h, q)' => Outdated(h, q)
        BY <2>1, <2>3, <3>1, <3>3 DEF Same, Outdated
      <4> QED
        BY <2>0, <3>1, <3>3, <4>1 DEF CacheShrinks, Same, Reverifies
    <3>4. CASE /\ Same(q) /\ loc[q].key \in DOMAIN cache
               /\ loc'[q].binding = cache[loc[q].key].binding
      <4>1. \A h \in Process : Outdated(h, q)' => Outdated(h, q)
        BY <2>1, <2>3, <3>1, <3>4 DEF Same, Outdated
      <4> QED
        BY <2>0, <3>1, <3>4, <4>1 DEF CacheShrinks, Same, Reverifies
    <3> QED
      BY <1>1, <2>3, <3>2, <3>3, <3>4 DEF Quiet, Same
  <2> QED
    BY <2>2, <2>3
<1>2. ASSUME NEW p \in Process, Observe(p), NEW q \in Request PROVE Reverifies(q)'
  <2>0. q \in Process /\ Reverifies(q)
    BY DEF Recent, Process
  <2>1. \A h \in Process : Outdated(h, q)' => h # p
    BY <1>0, <1>2, <2>0, ObserveFacts DEF Others, Same, Reverifies, Outdated, Locals
  <2>2. CASE q # p
    BY <1>0, <1>2, <2>0, <2>1, <2>2, ObserveFacts DEF Others, Reverifies, Outdated
  <2>3. CASE q = p
    BY <1>0, <1>2, <2>0, <2>1, <2>3, ObserveFacts
    DEF Others, Same, Reverifies, Outdated, Locals
  <2> QED
    BY <2>2, <2>3
<1>3. ASSUME NEW p \in Process, Finish(p), NEW q \in Request PROVE Reverifies(q)'
  <2>0. q \in Process /\ Reverifies(q)
    BY DEF Recent, Process
  <2>1. \A h \in Process : ~Outdated(h, q)'
    BY <1>3, FinishFacts DEF Exclusive, Holding, Others, Outdated
  <2>2. CASE q # p
    <3>1. loc'[q] = loc[q] /\ pc'[q] = pc[q]
      BY <2>0, <2>2, <1>3, FinishFacts DEF Others
    <3>2. ASSUME loc[q].attempts >= 2 PROVE loc[p].binding >= loc[q].first
      BY <1>0, <1>3, <2>0, <3>2, FinishFacts DEF Reverifies, Outdated, Locals
    <3>3. loc[q].attempts >= 2 => \A k \in DOMAIN cache' : k = loc[q].key =>
             cache'[k].binding >= loc[q].first
      BY <1>3, <2>0, <3>2, FinishFacts DEF Reverifies
    <3> QED
      BY <1>3, <2>0, <2>1, <3>1, <3>3, FinishFacts DEF Reverifies
  <2>3. CASE q = p
    <3>1. pc'[q] = "forwarding" /\ loc'[q] = loc[q] /\ loc[q].binding >= loc[q].first
      BY <1>3, <2>0, <2>3, FinishFacts, CacheConstants DEF Reverifies
    <3>2. loc[q].attempts >= 2 => \A k \in DOMAIN cache' : k = loc[q].key =>
             cache'[k].binding >= loc[q].first
      BY <1>3, <2>0, <2>3, <3>1, FinishFacts DEF Reverifies
    <3> QED
      BY <1>3, <2>0, <2>1, <3>1, <3>2, FinishFacts DEF Reverifies
  <2> QED
    BY <2>2, <2>3
<1>4. ASSUME NEW p \in Process, Mismatch(p), NEW q \in Request PROVE Reverifies(q)'
  <2>0. q \in Process /\ Reverifies(q)
    BY DEF Recent, Process
  <2>2. CASE q # p
    BY <1>0, <1>4, <2>0, <2>2, MismatchFacts
    DEF CacheShrinks, Others, Reverifies, Outdated
  <2>3. CASE q = p
    <3>1. \A h \in Process : ~Outdated(h, q)
      BY <1>4, <2>0, <2>3, MismatchFacts DEF Reverifies
    <3>2. loc[p].attempts # 0 => \A h \in Process : ~Outdated(h, q)'
      BY <1>4, <2>3, <3>1, MismatchFacts DEF Others, Outdated
    <3> QED
      BY <1>0, <1>4, <2>0, <2>3, <3>2, CacheConstants, MismatchFacts DEF Reverifies, Locals
  <2> QED
    BY <2>2, <2>3
<1>5. ASSUME Rotate \/ Tick \/ UNCHANGED vars, NEW q \in Request PROVE Reverifies(q)'
  <2>1. /\ UNCHANGED <<cache, pc, loc>> /\ live' \in Nat /\ live' >= live
    BY <1>0, <1>5 DEF Rotate, Tick, vars
  <2>2. q \in Process /\ Reverifies(q)
    BY DEF Recent, Process
  <2> QED
    BY <1>0, <2>1, <2>2 DEF Reverifies, Outdated, Locals
<1> QED
  <2> SUFFICES ASSUME NEW q \in Request PROVE Reverifies(q)'
    BY DEF Recent
  <2> QED
    BY <1>1, <1>2, <1>3, <1>4, <1>5, QuietSteps, QuietArrivals
    DEF Next, Proceeds, Verifies, Process

\* The four invariants hold from the start and every step keeps them.
THEOREM Invariant == Spec => []IInv
<1>1. Init => IInv
  <2> SUFFICES ASSUME Init PROVE IInv
    OBVIOUS
  <2>1. Typed /\ Exclusive
    BY CacheConstants, FreshLocals
    DEF Init, Typed, Placed, State, Exclusive, Holding, EmptyMap, Process
  <2>2. Dated
    BY DEF Init, Dated, EmptyMap
  <2>3. Recent
    BY CacheConstants, FreshLocals DEF Init, Recent, Reverifies, Outdated, Process, EmptyMap, Locals
  <2> QED
    BY <2>1, <2>2, <2>3 DEF IInv
<1>2. IInv /\ [Next]_vars => IInv'
  BY TypedNext, ExclusiveNext, DatedNext, RecentNext DEF IInv
<1> QED
  BY <1>1, <1>2, PTL DEF Spec

\* maybe_cache_event dates an entry from the start of its verification, so the
\* trust in a key lapses within the lifetime after the key was last live.
THEOREM TrustLapses == Spec => []TrustBounded
<1>1. IInv => TrustBounded
  <2> SUFFICES ASSUME IInv, NEW k \in DOMAIN cache
               PROVE  cache[k].expires_at <= LastLive(cache[k].binding) + CacheTtl
    BY DEF TrustBounded
  <2>1. LastLive(cache[k].binding) \in Nat /\ cache[k].started \in Nat
    BY DEF IInv, Typed, Entries, Dated, Learned, LastLive
  <2> QED
    BY <2>1, CacheConstants DEF IInv, Dated, Learned
<1> QED
  BY <1>1, Invariant, PTL

\* verify_lock serialises verifications, so none stores its result over that of
\* one that started later.
THEOREM NewerStays == Spec => NewerVerificationWins
<1> DEFINE Step == \A k \in DOMAIN cache \cap DOMAIN cache' : cache[k].started <= cache'[k].started
<1>1. ASSUME IInv, [Next]_vars PROVE Step
  <2>0. Typed /\ Dated /\ \A k \in DOMAIN cache : cache[k].started \in Nat
    BY <1>1 DEF IInv, Typed, Entries
  <2>1. ASSUME NEW p \in Process, Quiet(p) PROVE Step
    BY <2>0, <2>1 DEF Quiet, CacheShrinks
  <2>2. ASSUME NEW p \in Process, Observe(p) PROVE Step
    BY <2>0, <2>2 DEF Observe
  <2>3. ASSUME NEW p \in Process, Finish(p) PROVE Step
    BY <2>0, <2>3, FinishFacts DEF Dated
  <2>4. ASSUME NEW p \in Process, Mismatch(p) PROVE Step
    BY <2>0, <2>4, MismatchFacts DEF CacheShrinks
  <2>5. Rotate \/ Tick \/ UNCHANGED vars => Step
    BY <2>0 DEF Rotate, Tick, vars
  <2> HIDE DEF Step
  <2> QED
    BY <1>1, <2>0, <2>1, <2>2, <2>3, <2>4, <2>5, QuietSteps, QuietArrivals
    DEF Next, Proceeds, Verifies, Process
<1>2. IInv /\ [Next]_vars => [Step]_vars
  BY <1>1
<1> QED
  BY <1>2, Invariant, PTL DEF Spec, NewerVerificationWins

\* forward_with_binding_reverify: for every number of reverifications but one,
\* the last event a request forwards with is at least as new as the key that
\* refused its first.
THEOREM RotationsAreSurvived ==
    ASSUME ReverifyAttempts # 1
    PROVE  Spec => []RotationSurvived
<1>1. IInv => RotationSurvived
  <2> SUFFICES ASSUME IInv, NEW p \in Request, pc[p] = "forwarding", ~MayReverify(p)
               PROVE  loc[p].binding >= loc[p].first
    BY DEF RotationSurvived
  <2>1. Reverifies(p) /\ loc[p] \in Locals
    BY DEF IInv, Recent, Typed, Placed, Process
  <2> QED
    BY <2>1, CacheConstants DEF Reverifies, MayReverify, Locals
<1> QED
  BY <1>1, Invariant, PTL

=============================================================================
