--------------------------- MODULE JsonlSessionStore ---------------------------
(***************************************************************************)
(* JsonlSessionStore of src/aggregator/session_store.rs: an append-only    *)
(* log and the in-memory index, each behind its own mutex, used by         *)
(* concurrent requests, audit reads and the periodic compaction, across    *)
(* crashes and restarts (src/main.rs opens and compacts the log before it  *)
(* serves).                                                                *)
(*                                                                         *)
(* One action is one critical section of the index mutex, or one file      *)
(* operation under the writer mutex; between two of them every other       *)
(* thread may run.  `clock` is the wall clock in seconds, assumed          *)
(* monotone; a request works with the snapshot of it that it took first.   *)
(***************************************************************************)
EXTENDS SealedSession, Sequences

CONSTANTS
    MaxSeq,        \* u64::MAX of the log's sequence numbers (bound)
    MaxLog,        \* bound on the log failed writes may add to
    MaxTime,       \* bound on the clock
    MaxCrashes,    \* bound on the crashes
    Compactor,     \* the compaction task
    Free           \* the writer mutex is not held

ASSUME StoreConstants ==
    /\ MaxSeq \in Nat
    /\ MaxLog \in Nat
    /\ MaxTime \in Nat
    /\ MaxCrashes \in Nat
    /\ Compactor \notin Holder
    /\ Free \notin Holder \cup {Compactor}

VARIABLES
    clock,             \* wall clock, seconds
    crashes,           \* crashes so far
    phase,             \* "down", "opened" (replayed, not serving), "serving"
    index,             \* the SessionIndex
    log,               \* the lines of the log file
    torn_tail,         \* the last line has no newline
    synced,            \* lines the last fsync made durable
    writer,            \* holder of the writer mutex
    next_seq,          \* LogWriter.next_seq
    needs_separator,   \* LogWriter.needs_separator
    pc,                \* per request: where current_or_seal stands
    req,               \* per request: its inputs and locals
    compaction         \* the compaction task: state, snapshot time, lines

file == <<log, torn_tail, synced>>
logWriter == <<writer, next_seq, needs_separator>>
vars == <<clock, crashes, phase, index, file, logWriter, pc, req, compaction>>

-----------------------------------------------------------------------------
(* Log records *)

EvidenceLine(seq, b) == [type |-> "evidence", seq |-> seq, bundle |-> b]

SessionLine(seq, fp, id, retention) ==
    [ type |-> "session", seq |-> seq, fingerprint |-> fp, id |-> id,
      retention_until |-> retention ]

\* A line that does not parse: a fragment, or two records run together.
Garbage == [type |-> "garbage"]

\* replay_session finds the bundle among those read before line i.
BundleReadBefore(lines, i, b) ==
    \E j \in 1..(i - 1) : lines[j].type = "evidence" /\ lines[j].bundle = b

\* The lines of a log that open() at `now` inserts into the index.
LapsedLoaded(lines, now) ==
    {i \in DOMAIN lines :
        /\ lines[i].type = "session"
        /\ BundleReadBefore(lines, i, lines[i].id.bundle)}
Replayable(lines, now) ==
    {i \in DOMAIN lines :
        /\ lines[i].type = "session"
        /\ lines[i].retention_until > now
        /\ BundleReadBefore(lines, i, lines[i].id.bundle)}

Greatest(S) == CHOOSE x \in S : \A y \in S : x >= y

\* How long a replayed session is kept: the latest deadline any line gives it.
ReplayedUntil(lines, now) ==
    LET live == Replayable(lines, now) IN
    [id \in {lines[i].id : i \in live} |->
        Greatest({id.expires_at} \cup
                 {lines[i].retention_until : i \in {j \in live : lines[j].id = id}})]

\* The index open() builds: the inserts of the replayable lines in order, so
\* the last line of a fingerprint names its session and the last line of an id
\* its fingerprint, and every bundle that got in counts as persisted.
Replay(lines, now) ==
    LET live == Replayable(lines, now)
        until == ReplayedUntil(lines, now)
        ids  == DOMAIN until
        LinesOf(id)  == {i \in live : lines[i].id = id}
        LinesFor(fp) == {i \in live : lines[i].fingerprint = fp}
    IN  [ by_id |-> [id \in ids |->
              [ fingerprint     |-> lines[Greatest(LinesOf(id))].fingerprint,
                retention_until |-> until[id],
                holders         |-> {} ]],
          by_fingerprint |-> [fp \in {lines[i].fingerprint : i \in live} |->
              lines[Greatest(LinesFor(fp))].id],
          by_retention |-> {<<until[id], id>> : id \in ids},
          bundles |-> [b \in {id.bundle : id \in ids} |->
              [citers |-> CitersWithin(ids, b), persisted |-> TRUE]] ]

\* Orders of a finite set's elements.
Orders(S) ==
    {s \in [1..Cardinality(S) -> S] : \A i, j \in DOMAIN s : s[i] = s[j] => i = j}

NewestFirst(s) ==
    \A i, j \in DOMAIN s : i < j => s[i].established_at >= s[j].established_at
OldestFirst(s) ==
    \A i, j \in DOMAIN s : i < j => s[i].established_at <= s[j].established_at

\* The sessions in an order compaction may write: ids break ties, and an id's
\* place among equals is arbitrary.
SessionOrders(ix) == {s \in Orders(DOMAIN ix.by_id) : OldestFirst(s)}

\* The rewritten log: every bundle, in map order, then every session.
CompactedLog(ix, bs, ss) ==
    [i \in 1..(Len(bs) + Len(ss)) |->
        IF i <= Len(bs)
        THEN EvidenceLine(i - 1, bs[i])
        ELSE LET id == ss[i - Len(bs)] IN
             SessionLine(i - 1, ix.by_id[id].fingerprint, id,
                         ix.by_id[id].retention_until)]

CompactedLogs(ix) ==
    {CompactedLog(ix, bs, ss) :
        bs \in Orders(DOMAIN ix.bundles), ss \in SessionOrders(ix)}

-----------------------------------------------------------------------------
(* Writing to the log file *)

\* The log after `text` reaches it, behind a separating newline if `sep`.
\* Without one, an unterminated last line swallows the first line written.
Written(sep, text) ==
    IF torn_tail /\ ~sep /\ text # <<>>
    THEN SubSeq(log, 1, Len(log) - 1) \o <<Garbage>> \o Tail(text)
    ELSE log \o text

\* What a failed write_all may leave: nothing, whole lines, whole lines and a
\* fragment of the next, or whole lines and the next without its newline.
PartialWrites(sep, text) ==
    LET whole(k) == SubSeq(text, 1, k) IN
    {<<log, torn_tail>>}
        \cup {<<Written(sep, whole(k)), torn_tail /\ ~sep /\ k = 0>> :
                 k \in 0..(Len(text) - 1)}
        \cup {<<Written(sep, Append(whole(k), Garbage)), TRUE>> :
                 k \in 0..(Len(text) - 1)}
        \cup {<<Written(sep, whole(k + 1)), TRUE>> : k \in 0..(Len(text) - 1)}

-----------------------------------------------------------------------------
(* State *)

\* What an idle thread's locals are set to.
NoSession ==
    [ doc |-> DocOf[CHOOSE fp \in Fingerprint : TRUE],
      bundle |-> CHOOSE b \in Bundle : TRUE,
      established_at |-> 0, expires_at |-> 0 ]
NoRequest ==
    [ fingerprint |-> CHOOSE fp \in Fingerprint : TRUE, now |-> 0,
      id |-> NoSession, persisted |-> FALSE ]
NoCompaction == [state |-> "idle", now |-> 0, lines |-> <<>>]

Init ==
    /\ clock = 0
    /\ crashes = 0
    /\ phase = "down"
    /\ index = EmptyIndex
    /\ log = <<>>
    /\ torn_tail = FALSE
    /\ synced = 0
    /\ writer = Free
    /\ next_seq = 0
    /\ needs_separator = FALSE
    /\ pc = [p \in Holder |-> "idle"]
    /\ req = [p \in Holder |-> NoRequest]
    /\ compaction = NoCompaction

\* A request goes on from `from` to `to`, in a serving process.
Step(p, from, to) ==
    /\ phase = "serving"
    /\ pc[p] = from
    /\ pc' = [pc EXCEPT ![p] = to]
    /\ UNCHANGED <<clock, crashes, phase, compaction>>

\* The writer guard is dropped.
KeepsWriter == UNCHANGED writer
GivesBack == writer' = Free

\* A request's thread is done: it drops its locals.
Done(p) == req' = [req EXCEPT ![p] = NoRequest]

-----------------------------------------------------------------------------
(* current_or_seal *)

\* seal_attested_session: an upstream keyset that has expired stops the request
\* before it reaches the store.
Begin(p, fp) ==
    /\ Step(p, "idle", "lookup")
    /\ Sealable(fp, clock)
    /\ req' = [req EXCEPT ![p] = [NoRequest EXCEPT !.fingerprint = fp, !.now = clock]]
    /\ UNCHANGED <<index, file, logWriter>>

\* current() under the index lock, at the request's snapshot of the clock.
Evicted(p) == EvictLapsed(index, req[p].now)
Hit(p) == HasCurrent(Evicted(p), req[p].fingerprint, req[p].now)
LeaseCurrent(p) ==
    /\ index' = Acquire(Evicted(p), p, req[p].fingerprint, AskedRetention(req[p].now))
    /\ req' = [req EXCEPT ![p].id = Evicted(p).by_fingerprint[req[p].fingerprint]]

LookupHit(p) ==
    /\ Step(p, "lookup", "leased")
    /\ Hit(p)
    /\ LeaseCurrent(p)
    /\ UNCHANGED <<file, logWriter>>

LookupMiss(p) ==
    /\ Step(p, "lookup", "waiting")
    /\ ~Hit(p)
    /\ index' = Evicted(p)
    /\ UNCHANGED <<file, logWriter, req>>

\* The second current(), behind the writer lock: another caller sealed it.
SealsAnyway(p) == FALSE
HitAgain(p) == Hit(p)
RecheckHit(p) ==
    /\ Step(p, "waiting", "leased")
    /\ writer = Free
    /\ HitAgain(p)
    /\ LeaseCurrent(p)
    /\ UNCHANGED <<file, logWriter>>

\* No current session: take the writer lock and seal a document with bundle b.
Seal(p, b) ==
    /\ Step(p, "waiting", "sealed")
    /\ writer = Free
    /\ ~HitAgain(p)
    /\ b \in EvidenceOf[req[p].fingerprint]
    /\ index' = Evicted(p)
    /\ writer' = p
    /\ req' = [req EXCEPT ![p].id = Sealed(req[p].fingerprint, b, req[p].now)]
    /\ UNCHANGED <<file, next_seq, needs_separator>>

\* seal() or SplitSession::new fails (no complete evidence bundle).
SealFails(p) ==
    /\ Step(p, "waiting", "idle")
    /\ writer = Free
    /\ ~HitAgain(p)
    /\ index' = Evicted(p)
    /\ Done(p)
    /\ UNCHANGED <<file, logWriter>>

-----------------------------------------------------------------------------
(* append *)

\* bundle_persisted, under the index lock, which is then released.
BundlePersisted(ix, b) == b \in DOMAIN ix.bundles /\ ix.bundles[b].persisted

\* Records this append needs sequence numbers for, and whether they have
\* successors.
RecordCount(persisted) == IF persisted THEN 1 ELSE 2
SeqAvailable(persisted) == next_seq + RecordCount(persisted) <= MaxSeq

CheckBundle(p) ==
    /\ Step(p, "sealed", "writing")
    /\ SeqAvailable(BundlePersisted(index, req[p].id.bundle))
    /\ req' = [req EXCEPT ![p].persisted = BundlePersisted(index, req[p].id.bundle)]
    /\ UNCHANGED <<index, file, logWriter>>

\* "session log sequence number overflowed": nothing is written.
SeqOverflow(p) ==
    /\ Step(p, "sealed", "idle")
    /\ ~SeqAvailable(BundlePersisted(index, req[p].id.bundle))
    /\ GivesBack
    /\ Done(p)
    /\ UNCHANGED <<index, file, next_seq, needs_separator>>

\* The bundle's record first, unless the log has it, then the session's.
AppendText(p) ==
    LET id == req[p].id
        retention == Later(AskedRetention(req[p].now), id.expires_at)
    IN  IF req[p].persisted
        THEN <<SessionLine(next_seq, req[p].fingerprint, id, retention)>>
        ELSE <<EvidenceLine(next_seq, id.bundle),
               SessionLine(next_seq + 1, req[p].fingerprint, id, retention)>>

WriteLog(p) ==
    /\ Step(p, "writing", "written")
    /\ log' = Written(needs_separator, AppendText(p))
    /\ torn_tail' = FALSE
    /\ next_seq' = next_seq + RecordCount(req[p].persisted)
    /\ needs_separator' = FALSE
    /\ UNCHANGED <<index, synced, writer, req>>

\* The write fails part way; the request fails and the lock is released.
ForgetsTail == UNCHANGED needs_separator
MarksTail == needs_separator' = TRUE
WriteFails(p) ==
    /\ Step(p, "writing", "idle")
    /\ Len(log) < MaxLog
    /\ \E left \in PartialWrites(needs_separator, AppendText(p)) :
          log' = left[1] /\ torn_tail' = left[2]
    /\ MarksTail
    /\ GivesBack
    /\ Done(p)
    /\ UNCHANGED <<index, synced, next_seq>>

\* Insert, mark the bundle persisted, lease and evict under one index lock;
\* then the writer lock goes.
Indexed(p) ==
    LET id == req[p].id
        retention == Later(AskedRetention(req[p].now), id.expires_at)
    IN  EvictLapsed(
            Lease(MarkPersisted(Insert(index, req[p].fingerprint, id, retention),
                                {id.bundle}),
                  p, id),
            req[p].now)
IndexAppend(p) ==
    /\ Step(p, "written", "leased")
    /\ index' = Indexed(p)
    /\ GivesBack
    /\ UNCHANGED <<file, next_seq, needs_separator, req>>

-----------------------------------------------------------------------------
(* Leases and audit reads *)

\* extend_retention, to a receipt deadline taken from the clock now.
ExtendRetention(p) ==
    /\ Step(p, "leased", IF OwnsLease(index, p, req[p].id) THEN "leased" ELSE "refused")
    /\ index' = IF OwnsLease(index, p, req[p].id)
                THEN Extend(index, req[p].id, clock + ReceiptTtl) ELSE index
    /\ UNCHANGED <<file, logWriter, req>>

DropLease(p) ==
    /\ Step(p, "leased", "idle")
    /\ index' = Release(index, p)
    /\ Done(p)
    /\ UNCHANGED <<file, logWriter>>

\* get_session: an audit read, which evicts first.
GetSession ==
    /\ phase = "serving"
    /\ index' = EvictLapsed(index, clock)
    /\ UNCHANGED <<clock, crashes, phase, file, logWriter, pc, req, compaction>>

-----------------------------------------------------------------------------
(* compact *)

CompactBegin ==
    /\ phase = "serving"
    /\ compaction.state = "idle"
    /\ compaction' = [compaction EXCEPT !.state = "waiting", !.now = clock]
    /\ UNCHANGED <<clock, crashes, phase, index, file, logWriter, pc, req>>

\* Writer lock, then the snapshot under the index lock.
Unlocked == UNCHANGED writer
LockedOut == writer' = Compactor
CompactSnapshot ==
    /\ compaction.state = "waiting"
    /\ writer = Free
    /\ LET ix == EvictLapsed(index, compaction.now) IN
          /\ index' = ix
          /\ \E lines \in CompactedLogs(ix) :
                compaction' = [compaction EXCEPT !.state = "writing", !.lines = lines]
    /\ LockedOut
    /\ UNCHANGED <<clock, crashes, phase, file, next_seq, needs_separator, pc, req>>

\* The synced temporary file replaces the log. The code does not sync the
\* directory; that the rename survives a crash is assumed of the file system.
Installed(lines, ix) ==
    /\ log' = lines
    /\ torn_tail' = FALSE
    /\ synced' = Len(lines)
    /\ index' = MarkPersisted(ix, DOMAIN ix.bundles)
    /\ next_seq' = Len(lines)
    /\ needs_separator' = FALSE

CompactInstall ==
    /\ compaction.state = "writing"
    /\ Installed(compaction.lines, index)
    /\ GivesBack
    /\ compaction' = NoCompaction
    /\ UNCHANGED <<clock, crashes, phase, pc, req>>

\* The temporary file cannot be written, synced, opened or renamed.
CompactFails ==
    /\ compaction.state = "writing"
    /\ GivesBack
    /\ compaction' = NoCompaction
    /\ UNCHANGED <<clock, crashes, phase, index, file, next_seq, needs_separator, pc, req>>

-----------------------------------------------------------------------------
(* Crash and restart *)

\* The process and its memory go.  Lines written since the last fsync may go
\* too, from the end, the first lost one perhaps only in part.
Crash ==
    /\ phase # "down"
    /\ crashes < MaxCrashes
    /\ crashes' = crashes + 1
    /\ phase' = "down"
    /\ \E keep \in synced..Len(log) :
          \/ /\ keep = Len(log)
             /\ UNCHANGED <<log, torn_tail>>
          \/ /\ keep < Len(log)
             /\ \/ log' = SubSeq(log, 1, keep) /\ torn_tail' = FALSE
                \/ log' = Append(SubSeq(log, 1, keep), Garbage) /\ torn_tail' = TRUE
    /\ index' = EmptyIndex
    /\ writer' = Free
    /\ pc' = [p \in Holder |-> "idle"]
    /\ req' = [p \in Holder |-> NoRequest]
    /\ compaction' = NoCompaction
    /\ UNCHANGED <<clock, synced, next_seq, needs_separator>>

\* The sequence number after the highest one replayed.
SeqAfter(lines) ==
    Greatest({0} \cup {lines[i].seq + 1 : i \in {j \in DOMAIN lines : lines[j].type # "garbage"}})

Open ==
    /\ phase = "down"
    /\ phase' = "opened"
    /\ index' = Replay(log, clock)
    /\ next_seq' = SeqAfter(log)
    /\ needs_separator' = FALSE
    /\ UNCHANGED <<clock, crashes, file, writer, pc, req, compaction>>

\* main.rs compacts the log before it serves, and exits when that fails.
StartupCompact ==
    /\ phase = "opened"
    /\ phase' = "serving"
    /\ LET ix == EvictLapsed(index, clock) IN
          \E lines \in CompactedLogs(ix) : Installed(lines, ix)
    /\ UNCHANGED <<clock, crashes, writer, pc, req, compaction>>

Tick ==
    /\ clock < MaxTime
    /\ clock' = clock + 1
    /\ UNCHANGED <<crashes, phase, index, file, logWriter, pc, req, compaction>>

Request(p) ==
    \/ \E fp \in Fingerprint : Begin(p, fp)
    \/ LookupHit(p) \/ LookupMiss(p) \/ RecheckHit(p)
    \/ \E b \in Bundle : Seal(p, b)
    \/ SealFails(p)
    \/ CheckBundle(p) \/ SeqOverflow(p)
    \/ WriteLog(p) \/ WriteFails(p) \/ IndexAppend(p)
    \/ ExtendRetention(p) \/ DropLease(p)

Compact == CompactBegin \/ CompactSnapshot \/ CompactInstall \/ CompactFails

Next ==
    \/ \E p \in Holder : Request(p)
    \/ GetSession
    \/ Compact
    \/ Crash \/ Open \/ StartupCompact
    \/ Tick

\* Whoever holds the writer lock is running code, not waiting for anyone. This
\* is weak fairness of the steps under the lock, with the states that enable
\* them written out.
WriterSteps(p) ==
    CheckBundle(p) \/ SeqOverflow(p) \/ WriteLog(p) \/ WriteFails(p) \/ IndexAppend(p)
AtWork(p) == pc[p] \in {"sealed", "writing", "written"}
Fairness ==
    /\ \A p \in Holder : []<>~AtWork(p) \/ []<><<WriterSteps(p)>>_vars
    /\ []<>(compaction.state # "writing") \/ []<><<CompactInstall \/ CompactFails>>_vars

Spec == Init /\ [][Next]_vars
FairSpec == Spec /\ Fairness

-----------------------------------------------------------------------------
(* Properties *)

\* The redundant parts of SessionIndex agree after every insert, extension,
\* eviction, replay and compaction: one eviction hint per session, at its
\* deadline; one citation per session in its bundle's count (so the usize
\* never underflows); retention never below validity.
IndexConsistent == HintsExact(index) /\ CitersExact(index) /\ EntriesSound(index)

\* A lease keeps its session in the store whoever evicts meanwhile, so
\* extend_retention never answers "session lease does not belong to this store".
LeasesHonoured ==
    \A p \in Holder :
        /\ pc[p] # "refused"
        /\ pc[p] = "leased" => OwnsLease(index, p, req[p].id)

\* Every session record in the log follows the evidence record it cites,
\* whatever was appended, half written, compacted away or lost in a crash:
\* replay never meets a session without its bundle.
LogSelfContained ==
    \A i \in DOMAIN log :
        log[i].type = "session" => BundleReadBefore(log, i, log[i].id.bundle)

\* The log holds every session the index serves, so a restart forgets a
\* session only when its logged retention lapsed.
LogCoversIndex ==
    phase = "serving" =>
        \A id \in DOMAIN index.by_id :
            \E i \in DOMAIN log : log[i].type = "session" /\ log[i].id = id

\* A restart now would list, for a channel whose current session is valid, a
\* session no older: compact writes oldest first and replay lets the last win.
ReplayKeepsNewest ==
    phase = "serving" =>
        \A fp \in DOMAIN index.by_fingerprint :
            LET id == index.by_fingerprint[fp]
                replayed == Replay(log, clock).by_fingerprint
            IN  HasCurrent(index, fp, clock) /\ index.by_id[id].fingerprint = fp =>
                   /\ fp \in DOMAIN replayed
                   /\ replayed[fp].established_at >= id.established_at

\* Requests for one channel that hold leases on valid sessions hold the same
\* one: concurrent callers seal a channel's session once.
OneValidSession ==
    \A p, q \in Holder :
        /\ pc[p] = "leased" /\ pc[q] = "leased"
        /\ req[p].fingerprint = req[q].fingerprint
        /\ Usable(req[p].id, clock) /\ Usable(req[q].id, clock)
        => req[p].id = req[q].id

\* The writer mutex is always given back: on success, on a failed seal, write
\* or compaction, and on sequence overflow.
WriterReleased == (writer # Free) ~> (writer = Free)

=============================================================================
