----------------------- MODULE UpstreamConfiguration -----------------------
(***************************************************************************)
(* The running configuration of upstreams: how an admin PUT or a pull      *)
(* replaces it in the file and in memory, how the background refresh       *)
(* follows it, and what becomes of a request that is prepared, verified    *)
(* and forwarded while it changes.  Every use of the dynamic backend and   *)
(* verifier reads the configuration afresh.                                *)
(*                                                                         *)
(* A configuration maps the names of its upstreams to where they are and   *)
(* whether they are attested; each serves one route.  Upstreams are        *)
(* OpenAI-compatible ones, whose verified binding is a TLS key at an       *)
(* origin, and there is no verifier for an upstream that is not attested   *)
(* (verifier mode none).  Time is left out: a refresh falls due, a poll is *)
(* made, whenever it may.                                                  *)
(***************************************************************************)
EXTENDS Naturals, Sequences, FiniteSets

CONSTANTS Config,           \* the configurations in play, each valid
          Upstream,         \* names
          Admin,            \* concurrent PUT handlers
          Puller,           \* the pull task
          Request,
          Free,             \* nobody holds update_lock
          Concurrency,      \* permits of the refresh semaphore
          ReverifyAttempts,
          MaxChanges,       \* PUTs and changes at the control API
          MaxFaults         \* failed updates and restarts

ASSUME PermitsExist == Concurrency \in Nat \ {0}
ASSUME FreeIsNobody == Free \notin Admin \union {Puller}
ASSUME UpstreamsNamed == \A c \in Config : DOMAIN c \subseteq Upstream

VARIABLES control,     \* what the control API would answer to a pull
          file,        \* the configuration file
          memory,      \* `state`: the installed configuration
          lock,        \* holder of update_lock
          updates,     \* per updater: where its replacement is, and its configuration
          unseen,      \* `reload` has a change the supervisor has not marked as seen
          supervisor,  \* position of run_verification_refresh
          current,     \* the refresh tasks hold the installed verifier
          tasks,       \* per upstream: position of its refresh_upstream
          queue,       \* tasks waiting for a permit, in order
          permits,     \* permits left
          requests,
          spent        \* how much of each bound is used up

vars == <<control, file, memory, lock, updates, unseen, supervisor, current, tasks,
          queue, permits, requests, spent>>

installed == <<file, memory, lock>>
refreshing == <<unseen, supervisor, current, tasks, queue, permits>>

Updater == Admin \union {Puller}
Attested(config) == {u \in DOMAIN config : config[u].tee}

Spend(what, max) == spent[what] < max /\ spent' = [spent EXCEPT ![what] = @ + 1]

-----------------------------------------------------------------------------
(* UpstreamConfigManager.  `replace_inner` runs under update_lock.          *)

Idle == [pc |-> "idle"]

\* admin_put_upstreams, once the body has parsed and validated.
Put(a) ==
    /\ updates[a].pc = "idle"
    /\ Spend("changes", MaxChanges)
    /\ \E c \in Config : updates' = [updates EXCEPT ![a] = [pc |-> "locking", config |-> c]]
    /\ UNCHANGED <<control, installed, refreshing, requests>>

\* The operator changes what the control API serves.
ControlChanges ==
    /\ Spend("changes", MaxChanges)
    /\ control' \in Config \ {control}
    /\ UNCHANGED <<installed, updates, refreshing, requests>>

\* refresh: the whole response is read before anything is locked.
Pull ==
    /\ updates[Puller].pc = "idle"
    /\ updates' = [updates EXCEPT ![Puller] = [pc |-> "locking", config |-> control]]
    /\ UNCHANGED <<control, installed, refreshing, requests, spent>>

\* replace_if_changed skips what is installed already; replace does not.
Unchanged(u) == u = Puller /\ updates[u].config = memory

TakeUnlocked(u) ==
    /\ updates[u].pc = "locking"
    /\ ~Unchanged(u)
    /\ updates' = [updates EXCEPT ![u].pc = "writing"]
    /\ lock' = u
    /\ UNCHANGED <<control, file, memory, refreshing, requests, spent>>

TakeLock(u) ==
    /\ updates[u].pc = "locking"
    /\ lock = Free
    /\ ~Unchanged(u)
    /\ lock' = u
    /\ updates' = [updates EXCEPT ![u].pc = "writing"]
    /\ UNCHANGED <<control, file, memory, refreshing, requests, spent>>

SkipUnchanged(u) ==
    /\ updates[u].pc = "locking"
    /\ lock = Free
    /\ Unchanged(u)
    /\ updates' = [updates EXCEPT ![u] = Idle]
    /\ UNCHANGED <<control, installed, refreshing, requests, spent>>

\* build_state or write_config_file fails. Whatever the temporary file holds,
\* the next write replaces it.
UpdateFails(u) ==
    /\ updates[u].pc = "writing"
    /\ Spend("faults", MaxFaults)
    /\ updates' = [updates EXCEPT ![u] = Idle]
    /\ lock' = Free
    /\ UNCHANGED <<control, file, memory, refreshing, requests>>

\* The rename of write_config_file.
WriteFile(u) ==
    /\ updates[u].pc = "writing"
    /\ file' = updates[u].config
    /\ updates' = [updates EXCEPT ![u].pc = "installing"]
    /\ UNCHANGED <<control, memory, lock, refreshing, requests, spent>>

\* install_state: the state is a new one, with verifiers of its own, even if the
\* configuration is the same.
Install(u) ==
    /\ updates[u].pc = "installing"
    /\ memory' = updates[u].config
    /\ current' = FALSE
    /\ updates' = [updates EXCEPT ![u].pc = "notifying"]
    /\ UNCHANGED <<control, file, lock, unseen, supervisor, tasks, queue, permits, requests, spent>>

Notify(u) ==
    /\ updates[u].pc = "notifying"
    /\ unseen' = TRUE
    /\ lock' = Free
    /\ updates' = [updates EXCEPT ![u] = Idle]
    /\ UNCHANGED <<control, file, memory, supervisor, current, tasks, queue, permits, requests, spent>>

-----------------------------------------------------------------------------
(* run_verification_refresh and refresh_upstream.                           *)

NoTasks == [u \in Upstream |-> "none"]

MarkSeen ==
    /\ supervisor = "top"
    /\ unseen' = FALSE
    /\ supervisor' = "reading"
    /\ UNCHANGED <<control, installed, updates, current, tasks, queue, permits, requests, spent>>

SpawnThenMark ==
    \/ /\ supervisor = "reading"
       /\ tasks' = [u \in Upstream |-> IF u \in Attested(memory) THEN "waiting" ELSE "none"]
       /\ current' = TRUE
       /\ supervisor' = "spawned"
       /\ UNCHANGED <<control, installed, updates, unseen, queue, permits, requests, spent>>
    \/ /\ supervisor = "spawned"
       /\ unseen' = FALSE
       /\ supervisor' = "watching"
       /\ UNCHANGED <<control, installed, updates, current, tasks, queue, permits, requests, spent>>

\* One task per upstream that has a verifier.
SpawnTasks ==
    /\ supervisor = "reading"
    /\ tasks' = [u \in Upstream |-> IF u \in Attested(memory) THEN "waiting" ELSE "none"]
    /\ current' = TRUE
    /\ supervisor' = "watching"
    /\ UNCHANGED <<control, installed, updates, unseen, queue, permits, requests, spent>>

\* changed() fires; the tasks are aborted and joined. An aborted task drops its
\* permit, or its place in the queue.
Reload ==
    /\ supervisor = "watching"
    /\ unseen
    /\ unseen' = FALSE
    /\ tasks' = NoTasks
    /\ queue' = <<>>
    /\ permits' = permits + Cardinality({u \in Upstream : tasks[u] \in {"granted", "refreshing"}})
    /\ supervisor' = "top"
    /\ UNCHANGED <<control, installed, updates, current, requests, spent>>

\* A target is due: the task asks for a permit.
Due(u) ==
    /\ tasks[u] = "waiting"
    /\ tasks' = [tasks EXCEPT ![u] = "queued"]
    /\ queue' = Append(queue, u)
    /\ UNCHANGED <<control, installed, updates, unseen, supervisor, current, permits, requests, spent>>

Grant(u) ==
    /\ permits > 0
    /\ queue # <<>> /\ Head(queue) = u
    /\ tasks' = [tasks EXCEPT ![u] = "granted"]
    /\ queue' = Tail(queue)
    /\ permits' = permits - 1
    /\ UNCHANGED <<control, installed, updates, unseen, supervisor, current, requests, spent>>

\* The second look finds nothing due any more: a request has filled the cache.
NothingDue(u) ==
    /\ tasks[u] = "granted"
    /\ tasks' = [tasks EXCEPT ![u] = "waiting"]
    /\ permits' = permits + 1
    /\ UNCHANGED <<control, installed, updates, unseen, supervisor, current, queue, requests, spent>>

Refresh(u) ==
    /\ tasks[u] = "granted"
    /\ tasks' = [tasks EXCEPT ![u] = "refreshing"]
    /\ UNCHANGED <<control, installed, updates, unseen, supervisor, current, queue, permits, requests, spent>>

\* Verified or not, the task lets go of its permit and paces itself.
Refreshed(u) ==
    /\ tasks[u] = "refreshing"
    /\ tasks' = [tasks EXCEPT ![u] = "waiting"]
    /\ permits' = permits + 1
    /\ UNCHANGED <<control, installed, updates, unseen, supervisor, current, queue, requests, spent>>

-----------------------------------------------------------------------------
(* A request: prepare, recorded_upstream_event, forward_with_binding_reverify. *)

Resting == [pc |-> "resting"]
Goto(r, position) == requests' = [requests EXCEPT ![r] = position]
Keep == UNCHANGED <<control, installed, updates, refreshing, spent>>

\* prepare, and the eligibility check of a request that requires an attested
\* upstream. An unknown route or an ineligible one is refused there.
Prepare(r) ==
    /\ requests[r].pc = "resting"
    /\ \E u \in DOMAIN memory, required \in BOOLEAN :
         /\ required => memory[u].tee
         /\ Goto(r, [pc |-> "verifying", upstream |-> u, origin |-> memory[u].origin,
                     required |-> required, reverified |-> 0])
    /\ Keep

\* RoutingUpstreamVerifier.verifier_for: the configuration now installed must
\* still have the upstream that was prepared, at the same origin.
VerifierFor(q) == q.upstream \in Attested(memory) /\ memory[q.upstream].origin = q.origin

\* verify reads the installed verifier and then works on its own.
StartVerifying(r) ==
    /\ requests[r].pc = "verifying"
    /\ VerifierFor(requests[r])
    /\ requests' = [requests EXCEPT ![r].pc = "awaiting"]
    /\ Keep

Verified(r) ==
    /\ requests[r].pc = "awaiting"
    /\ Goto(r, [requests[r] EXCEPT !.pc = "verified"])
    /\ Keep

\* A failed verification, no verifier, or no binding: refused if verification is
\* required, otherwise the request goes on without a binding.
NotVerified(r) ==
    /\ \/ requests[r].pc = "awaiting"
       \/ requests[r].pc = "verifying" /\ ~VerifierFor(requests[r])
    /\ Goto(r, IF requests[r].required THEN Resting ELSE [requests[r] EXCEPT !.pc = "unverified"])
    /\ Keep

\* route_from_prepared: the route is looked up again, by the prepared name.
Routed(q) == q.upstream \in DOMAIN memory

AnyOrigin(q, backend) == TRUE

\* client_for_event: the bindings must be of the backend's own origin.
BindingFits(q, backend) == q.pc = "verified" => q.origin = backend.origin

\* forward_verified_prepared of the backend now installed for the route. The
\* answer comes over a connection to that backend, pinned if there is a binding.
Forward(r) ==
    LET q == requests[r] IN
    /\ q.pc \in {"verified", "unverified"}
    /\ Goto(r, IF Routed(q) /\ BindingFits(q, memory[q.upstream])
               THEN [pc |-> "connected", upstream |-> q.upstream, origin |-> q.origin,
                     required |-> q.required, reverified |-> q.reverified,
                     pinned |-> q.pc = "verified", backend |-> memory[q.upstream]]
               ELSE Resting)
    /\ Keep

\* An answer, an error, or the last mismatch.
Answered(r) ==
    /\ requests[r].pc = "connected"
    /\ Goto(r, Resting)
    /\ Keep

\* ChannelBindingMismatch: the prepared request is verified again, as prepared.
Mismatch(r) ==
    LET q == requests[r] IN
    /\ q.pc = "connected"
    /\ q.pinned
    /\ q.reverified < ReverifyAttempts
    /\ Goto(r, [pc |-> "verifying", upstream |-> q.upstream, origin |-> q.origin,
                required |-> q.required, reverified |-> q.reverified + 1])
    /\ Keep

-----------------------------------------------------------------------------
\* load: the process starts with what the file holds and all tasks afresh.
Started(config) ==
    /\ memory' = config
    /\ lock' = Free
    /\ updates' = [u \in Updater |-> Idle]
    /\ unseen' = FALSE
    /\ supervisor' = "top"
    /\ current' = FALSE
    /\ tasks' = NoTasks
    /\ queue' = <<>>
    /\ permits' = Concurrency
    /\ requests' = [r \in Request |-> Resting]

\* The process dies at any point and is started again.
Restart ==
    /\ Spend("faults", MaxFaults)
    /\ Started(file)
    /\ UNCHANGED <<control, file>>

Init ==
    /\ control \in Config
    /\ file \in Config
    /\ memory = file
    /\ lock = Free
    /\ updates = [u \in Updater |-> Idle]
    /\ unseen = FALSE
    /\ supervisor = "top"
    /\ current = FALSE
    /\ tasks = NoTasks
    /\ queue = <<>>
    /\ permits = Concurrency
    /\ requests = [r \in Request |-> Resting]
    /\ spent = [what \in {"changes", "faults"} |-> 0]

Update(u) ==
    \/ TakeLock(u) \/ SkipUnchanged(u) \/ UpdateFails(u)
    \/ WriteFile(u) \/ Install(u) \/ Notify(u)

Supervise == MarkSeen \/ SpawnTasks \/ Reload

Task(u) == Due(u) \/ Grant(u) \/ NothingDue(u) \/ Refresh(u) \/ Refreshed(u)

Serve(r) ==
    \/ Prepare(r) \/ StartVerifying(r) \/ Verified(r) \/ NotVerified(r)
    \/ Forward(r) \/ Answered(r) \/ Mismatch(r)

Next ==
    \/ \E a \in Admin : Put(a)
    \/ ControlChanges
    \/ Pull
    \/ \E u \in Updater : Update(u)
    \/ Supervise
    \/ \E u \in Upstream : Task(u)
    \/ \E r \in Request : Serve(r)
    \/ Restart

Spec == Init /\ [][Next]_vars

\* A replacement is synchronous code, the runtime polls every task, a period
\* elapses, the semaphore is handed over in order and a verification has a
\* timeout. Nothing is assumed of requests, pulls and PUTs.
Fairness ==
    /\ \A u \in Updater : WF_vars(Update(u))
    /\ WF_vars(Supervise)
    /\ \A u \in Upstream : WF_vars(Task(u))

FairSpec == Spec /\ Fairness

-----------------------------------------------------------------------------
\* With no replacement under way the file holds what is installed: a restart
\* comes back to the configuration that was serving, a refused or failed update
\* has touched neither, and two updates never leave one's file with the other's
\* state.
RestartKeepsConfig == lock = Free => file = memory

\* A request is answered over a connection that was verified for it. If it
\* requires an attested upstream, or if its receipt will cite a verified
\* binding, the connection is pinned to the verified key and leads to the
\* origin that was prepared and verified, whatever was installed in between.
VerifiedChannelKept ==
    \A r \in Request : requests[r].pc = "connected" =>
        /\ requests[r].required => requests[r].pinned
        /\ requests[r].pinned => requests[r].backend.origin = requests[r].origin

\* Every attested upstream of the installed configuration gets its turn at the
\* refresh again and again, with the verifier that requests use: a reload loses
\* neither the change nor a permit.
RefreshesGoOn ==
    \A u \in Upstream : []<>(u \in Attested(memory) => current /\ tasks[u] = "granted")

=============================================================================
