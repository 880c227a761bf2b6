----------------------------- MODULE AgentLinks -----------------------------
(***************************************************************************)
(* How the desktop application takes over a coding agent's configuration   *)
(* and gives it back.  A link is spread over five places that no file      *)
(* system updates together: the agent's token file, its config, a          *)
(* companion file with the model choice, the parked credentials and the    *)
(* connection record.  Every transaction runs under the apply lock, one    *)
(* durable write at a time; any write may fail, the process may die        *)
(* between two of them, and the user edits the agent's files at will.      *)
(*                                                                         *)
(* The fields of an agent are reduced to one of each kind the code tells   *)
(* apart:                                                                  *)
(*   "route"     a routing setting, written with the Local API address;    *)
(*   "key"       a sensitive setting, made absent and parked;              *)
(*   "provider"  a structured provider definition, kept but deactivated;   *)
(*   "choice"    the default model in the companion file.                  *)
(***************************************************************************)
EXTENDS Naturals, Sequences

CONSTANTS
    Profiles,    \* the sets of fields an agent may have
    NoRecord,    \* no entry for the agent in the store
    MaxFaults,   \* failed writes and crashes
    MaxEdits,    \* the user's edits of the agent's files
    MaxMoves,    \* changes of the Local API address
    MaxUpsets    \* all of these together

ASSUME BoundsAreNaturals ==
    MaxFaults \in Nat /\ MaxEdits \in Nat /\ MaxMoves \in Nat /\ MaxUpsets \in Nat

VARIABLES
    disk,      \* what survives: config, exists, secret, token, record
    target,    \* the Local API address in the settings file
    session,   \* "off", "verifying" or "protected"
    published, \* the Local API accepts the agent's token
    proc,      \* the transaction: todo, rescue, store, tx
    hist,      \* history: mine, edited, lost, ended
    spent      \* how much of each bound is used

vars == <<disk, target, session, published, proc, hist, spent>>

Absent == <<"absent", 0>>
Parked == <<"parked", 0>>
User(n) == <<"user", n>>
Ours(e) == <<"ours", e>>

Fields == DOMAIN disk.config
MainFields == Fields \ {"choice"}
Endpoints == 1..(MaxMoves + 1)

\* What a connection writes into a field.
Projected(f, e) == CASE f = "key" -> Absent [] f = "choice" -> Ours(0) [] OTHER -> Ours(e)

\* A provider definition without its credential.
Inactive(value) == <<"idle", value[2]>>

-----------------------------------------------------------------------------
(* The connection record.                                                   *)

Holds(r, f) == disk.config[f] = r.owned[f].value
OwnedMain(r) == DOMAIN r.owned \ {"choice"}
Restored(r) == r.suspended /\ DOMAIN r.owned \subseteq {"provider"}
Disconnected(r) == r.disabled /\ ~r.cleanup /\ Restored(r)

\* Projector::status: the agent may use the Local API.
Authorized ==
    LET r == disk.record IN
    /\ r # NoRecord
    /\ ~Disconnected(r) /\ ~(r.suspended /\ ~r.cleanup) /\ ~r.disabled
    /\ \A f \in OwnedMain(r) : Holds(r, f)
    /\ disk.token

NoTx == [next |-> NoRecord, prior |-> NoRecord, before |-> <<>>, existed |-> FALSE,
         held |-> Absent, old |-> Absent, doc |-> Absent, rotated |-> FALSE,
         parked |-> FALSE, wrote |-> FALSE, chose |-> FALSE, broken |-> FALSE]
Idle == [todo |-> <<>>, rescue |-> <<>>, kind |-> "", store |-> NoRecord, tx |-> NoTx]

\* A transaction that has nothing left to do is over.
Settled(p) == IF p.todo = <<>> THEN Idle ELSE p
Proceed(p) == Settled([p EXCEPT !.todo = Tail(@)])

-----------------------------------------------------------------------------
(* connect: the steps, and what undoes them.                                *)

ConnectSteps == <<"issue", "park", "pend", "write", "choose", "commit">>
SuspendSteps == <<"revoke", "mark", "unchoose", "restore", "release", "forget">>
CleanupSteps == <<"suspend", "revoke", "drop">>
UndoSteps == <<"undo_choice", "undo_config", "undo_secret", "undo_token", "unpend">>

InSteps(s, steps) == \E i \in DOMAIN steps : steps[i] = s

RecordsOwnValue(r, f) ==
    [value |-> Projected(f, target),
     previous |-> IF f = "key" /\ disk.config[f] # Absent THEN Parked ELSE disk.config[f]]

\* project: what the record remembers of a field. A field that still holds what
\* an earlier connection wrote keeps that connection's `previous`.
OwnedField(r, f) ==
    LET ours == r # NoRecord /\ f \in DOMAIN r.owned /\ Holds(r, f) IN
    [value |-> Projected(f, target),
     previous |-> IF ours THEN r.owned[f].previous
                  ELSE IF f = "key" /\ disk.config[f] # Absent THEN Parked
                  ELSE disk.config[f]]

\* A disconnect in progress, or a provider of the user's under our name.
ConnectRefused(r) ==
    \/ r # NoRecord /\ (r.cleanup \/ (r.disabled /\ ~Disconnected(r)))
    \/ /\ "provider" \in Fields /\ disk.config["provider"] # Absent
       /\ ~(r # NoRecord /\ "provider" \in DOMAIN r.owned /\ Holds(r, "provider"))

ConnectTx(r) ==
    [NoTx EXCEPT
        !.next = [owned |-> [f \in Fields |-> OwnedField(r, f)], target |-> target,
                  suspended |-> FALSE, disabled |-> FALSE, cleanup |-> FALSE, attention |-> FALSE],
        !.prior = r,
        !.before = disk.config,
        !.existed = disk.exists,
        !.held = IF "key" \in Fields THEN disk.config["key"] ELSE Absent]

\* The compensations a failed connection owes, latest first.
Rollback(tx) ==
    SelectSeq(UndoSteps, LAMBDA s : \/ s = "unpend"
                                    \/ s = "undo_choice" /\ tx.chose
                                    \/ s = "undo_config" /\ tx.wrote
                                    \/ s = "undo_secret" /\ tx.parked
                                    \/ s = "undo_token" /\ tx.rotated)

\* The record that announces a connection: never authorized, to be cleaned up.
Pending(tx) == [tx.next EXCEPT !.suspended = TRUE, !.cleanup = TRUE, !.disabled = TRUE]

\* Where the transaction goes when its step fails. A record whose save failed is
\* in memory all the same; rollback carries on past a failed compensation and
\* remembers it.
AfterFailure(p) ==
    LET step == Head(p.todo) IN
    Settled(CASE InSteps(step, ConnectSteps) ->
                     [p EXCEPT !.todo = Rollback(p.tx) \o p.rescue, !.rescue = <<>>,
                               !.store = CASE step = "pend"   -> Pending(p.tx)
                                           [] step = "commit" -> p.tx.next
                                           [] OTHER           -> @]
              [] InSteps(step, UndoSteps) ->
                     [p EXCEPT !.todo = Tail(@), !.tx.broken = TRUE,
                               !.store = IF step = "unpend" THEN p.tx.prior ELSE @]
              [] OTHER -> [p EXCEPT !.todo = p.rescue, !.rescue = <<>>])

\* An edit computed from a refused state ends the transaction; only reconcile
\* records that the agent needs attention.
AfterRefusal(p) ==
    Settled([p EXCEPT !.todo = (IF p.kind = "reconcile" THEN <<"attend">> ELSE <<>>) \o p.rescue,
                      !.rescue = <<>>])

PrepareConnect ==
    /\ proc' = IF ConnectRefused(proc.store) THEN AfterRefusal(proc)
               ELSE [proc EXCEPT !.todo = ConnectSteps \o Tail(@), !.tx = ConnectTx(proc.store)]
    /\ UNCHANGED disk

\* A fresh token on every new connection; a live link keeps the one it has.
Issue ==
    /\ disk' = [disk EXCEPT !.token = TRUE]
    /\ proc' = [Proceed(proc) EXCEPT
                    !.tx.rotated = proc.store = NoRecord \/ proc.store.suspended]

Park ==
    LET parks == "key" \in Fields /\ proc.tx.held # Absent IN
    /\ disk' = [disk EXCEPT !.secret = IF parks THEN proc.tx.held ELSE @]
    /\ proc' = [Proceed(proc) EXCEPT !.tx.parked = parks, !.tx.old = disk.secret]

\* save_store: the record becomes `r`, on disk and in the transaction.
Save(r) ==
    /\ disk' = [disk EXCEPT !.record = r]
    /\ proc' = Settled([proc EXCEPT !.todo = Tail(@), !.store = r])

PendActive == Save(proc.tx.next)

\* Recovery is durable before either file changes.
Pend == Save(Pending(proc.tx))

\* The config with the given fields replaced.
With(value) == [f \in Fields |-> IF f \in DOMAIN value THEN value[f] ELSE disk.config[f]]

\* write_atomic with the text the edit was computed from.
Write ==
    LET tx == proc.tx
        after == With([f \in MainFields |-> tx.next.owned[f].value])
        unchanged == disk.exists = tx.existed /\ \A f \in MainFields : disk.config[f] = tx.before[f]
        changes == \E f \in Fields : tx.before[f] # tx.next.owned[f].value IN
    IF ~changes THEN proc' = Proceed(proc) /\ UNCHANGED disk
    ELSE IF ~unchanged THEN proc' = AfterFailure(proc) /\ UNCHANGED disk
    ELSE /\ disk' = [disk EXCEPT !.config = after, !.exists = TRUE]
         /\ proc' = [Proceed(proc) EXCEPT !.tx.wrote = TRUE]

\* selection::commit, which makes the same check of the companion file.
Choose ==
    LET tx == proc.tx IN
    IF "choice" \notin Fields \/ tx.before["choice"] = Projected("choice", target)
    THEN proc' = Proceed(proc) /\ UNCHANGED disk
    ELSE IF disk.config["choice"] # tx.before["choice"]
    THEN proc' = AfterFailure(proc) /\ UNCHANGED disk
    ELSE /\ disk' = [disk EXCEPT !.config["choice"] = Projected("choice", target)]
         /\ proc' = [Proceed(proc) EXCEPT !.tx.chose = TRUE]

Commit == Save(proc.tx.next)

UndoChoice ==
    IF disk.config["choice"] # Projected("choice", target)
    THEN proc' = AfterFailure(proc) /\ UNCHANGED disk
    ELSE /\ disk' = [disk EXCEPT !.config["choice"] = proc.tx.before["choice"]]
         /\ proc' = Proceed(proc)

UndoConfig ==
    /\ disk' = [disk EXCEPT !.config = With([f \in MainFields |-> proc.tx.before[f]]),
                            !.exists = proc.tx.existed]
    /\ proc' = Proceed(proc)

UndoSecret ==
    /\ disk' = [disk EXCEPT !.secret = proc.tx.old]
    /\ proc' = Proceed(proc)

\* The earlier record comes back only when everything else did.
Unpend ==
    IF proc.tx.broken THEN proc' = Proceed(proc) /\ UNCHANGED disk
    ELSE Save(proc.tx.prior)

-----------------------------------------------------------------------------
(* suspend, cleanup and disconnect.                                         *)

PrepareSuspend ==
    /\ proc' = IF proc.store = NoRecord \/ (proc.store # NoRecord /\ Restored(proc.store))
               THEN Proceed(proc)
               ELSE [proc EXCEPT !.todo = SuspendSteps \o Tail(@)]
    /\ UNCHANGED disk

Revoke ==
    /\ disk' = [disk EXCEPT !.token = FALSE]
    /\ proc' = Proceed(proc)

Mark == Save([proc.store EXCEPT !.suspended = TRUE])

\* The value a field goes back to; a parked one comes from the secret store.
Previous(r, f) == IF r.owned[f].previous = Parked THEN disk.secret ELSE r.owned[f].previous

Unchoose ==
    LET r == proc.store IN
    /\ disk' = IF "choice" \in DOMAIN r.owned /\ Holds(r, "choice")
               THEN [disk EXCEPT !.config["choice"] = Previous(r, "choice")] ELSE disk
    /\ proc' = Proceed(proc)

\* A credential we removed is missing, and the routing around it was edited.
Ambiguous(r) ==
    /\ \E f \in OwnedMain(r) : f = "route" /\ ~Holds(r, f)
    /\ \E f \in OwnedMain(r) : f = "key" /\ r.owned[f].previous # Absent
                               /\ disk.config[f] = Absent

\* restore: only a field that still holds what we wrote goes back.
RestoredValue(r, f) ==
    CASE ~Holds(r, f)   -> disk.config[f]
      [] f = "provider" -> Inactive(disk.config[f])
      [] OTHER          -> Previous(r, f)

Restore ==
    LET r == proc.store
        after == With([f \in OwnedMain(r) |-> RestoredValue(r, f)]) IN
    IF ~disk.exists THEN proc' = Proceed(proc) /\ UNCHANGED disk
    ELSE IF Ambiguous(r) THEN proc' = AfterFailure(proc) /\ UNCHANGED disk
    ELSE /\ disk' = [disk EXCEPT !.config = after]
         /\ proc' = [Proceed(proc) EXCEPT
                        !.tx.doc = IF "provider" \in Fields THEN after["provider"] ELSE Absent]

\* The parked credentials the record names are consumed.
Release ==
    LET r == proc.store IN
    /\ disk' = [disk EXCEPT !.secret =
                   IF "key" \in DOMAIN r.owned /\ r.owned["key"].previous = Parked
                   THEN Absent ELSE @]
    /\ proc' = Proceed(proc)

\* Only provider definitions stay in the record.
Forget ==
    LET r == proc.store
        kept == DOMAIN r.owned \cap {"provider"} IN
    Save([r EXCEPT !.owned = [f \in kept |->
             IF proc.tx.doc = Inactive(r.owned[f].value)
             THEN [r.owned[f] EXCEPT !.value = proc.tx.doc] ELSE r.owned[f]]])

DropKeepsPending ==
    LET r == proc.store IN
    IF r = NoRecord \/ (r # NoRecord /\ OwnedMain(r) = {}) THEN Save(NoRecord)
    ELSE Save([r EXCEPT !.disabled = TRUE, !.attention = FALSE])

Drop ==
    LET r == proc.store IN
    IF r = NoRecord \/ (r # NoRecord /\ OwnedMain(r) = {}) THEN Save(NoRecord)
    ELSE Save([r EXCEPT !.disabled = TRUE, !.cleanup = FALSE, !.attention = FALSE])

Tombstone == Save([proc.store EXCEPT !.disabled = TRUE, !.cleanup = TRUE])

\* apply without a catalog: the wish to connect outlives the session.
Intend ==
    Save([owned |-> IF proc.store = NoRecord THEN <<>> ELSE proc.store.owned, target |-> 0,
          suspended |-> TRUE, disabled |-> FALSE, cleanup |-> FALSE, attention |-> FALSE])

Attend ==
    IF proc.store = NoRecord THEN Save(NoRecord)
    ELSE Save([proc.store EXCEPT !.attention = TRUE])

-----------------------------------------------------------------------------
(* reconcile and retarget choose among them.                                *)

ReconcilesDisconnected(r, catalog, usable, refreshed) ==
    CASE r = NoRecord -> <<>>
      [] r.cleanup -> CleanupSteps
      [] ~catalog \/ ~usable \/ (~r.suspended /\ ~Authorized) -> <<"suspend">>
      [] r.suspended /\ ~r.attention -> <<"suspend", "connect">>
      [] ~r.suspended /\ (refreshed \/ r.target # target) -> <<"connect">>
      [] OTHER -> <<>>

\* `usable`: the agent is installed and its status has no error. `refreshed`: a
\* new catalog revision, or a choice not made yet.
ReconcileSteps(r, catalog, usable, refreshed) ==
    CASE r = NoRecord \/ (r # NoRecord /\ Disconnected(r)) -> <<>>
      [] r.cleanup -> CleanupSteps
      [] ~catalog \/ ~usable \/ (~r.suspended /\ ~Authorized) -> <<"suspend">>
      [] r.suspended /\ ~r.attention -> <<"suspend", "connect">>
      [] ~r.suspended /\ (refreshed \/ r.target # target) -> <<"connect">>
      [] OTHER -> <<>>

\* A link that drifted while protected is suspended until the user reconnects;
\* an agent that is not usable is suspended without that mark.
Drifted(r, catalog, usable) ==
    /\ r # NoRecord /\ catalog /\ usable
    /\ ~Disconnected(r) /\ ~r.cleanup /\ ~r.suspended /\ ~Authorized

Begin(kind, steps, rescue, r) ==
    proc' = Settled([Idle EXCEPT !.todo = steps, !.rescue = rescue, !.kind = kind, !.store = r])

ReconcileWith(catalog, usable, refreshed, then, rescue) ==
    LET r == disk.record IN
    Begin("reconcile", ReconcileSteps(r, catalog, usable, refreshed) \o then, rescue,
          IF Drifted(r, catalog, usable) THEN [r EXCEPT !.attention = TRUE] ELSE r)

\* reconcile(None): every link is restored.
RestoreAll(then) == ReconcileWith(FALSE, TRUE, FALSE, then, <<>>)

\* scan, and publish_agent_tokens: tokens are published while a session lasts.
Publish ==
    /\ published' = (session # "off" /\ Authorized)
    /\ proc' = Proceed(proc)
    /\ UNCHANGED disk

-----------------------------------------------------------------------------
(* The controller's operations: each takes the agents lock.                 *)

Free == proc.todo = <<>>
Spend(what) ==
    /\ spent.faults + spent.edits + spent.moves < MaxUpsets
    /\ spent' = [spent EXCEPT ![what] = @ + 1]

\* reconcile_agents, every few seconds and on each change of state.
Reconcile ==
    /\ Free
    /\ \E usable, refreshed \in BOOLEAN :
          IF session = "verifying" THEN Begin("reconcile", <<"publish">>, <<>>, disk.record)
          ELSE ReconcileWith(session = "protected", usable, refreshed, <<"publish">>, <<"publish">>)
    /\ UNCHANGED <<disk, target, session, published, hist, spent>>

ApplyConnect ==
    /\ Free
    /\ Begin("apply", (IF session = "protected" THEN <<"connect">> ELSE <<"suspend", "intend">>)
                          \o <<"publish">>, <<>>, disk.record)
    /\ hist' = [hist EXCEPT !.ended = "no"]
    /\ UNCHANGED <<disk, target, session, published, spent>>

\* apply_agent(disconnect) and disconnect_all_agents: the Local API forgets the
\* token before anything else.
Disconnect ==
    /\ Free
    /\ disk.record # NoRecord
    /\ published' = FALSE
    /\ Begin("disconnect", <<"revoke", "tombstone">> \o CleanupSteps \o <<"publish">>, <<>>, disk.record)
    /\ hist' = [hist EXCEPT !.ended = "asked"]
    /\ UNCHANGED <<disk, target, session, spent>>

StartSession ==
    /\ session = "off"
    /\ session' = "verifying"
    /\ UNCHANGED <<disk, target, published, proc, hist, spent>>

Verified ==
    /\ session = "verifying"
    /\ session' = "protected"
    /\ UNCHANGED <<disk, target, published, proc, hist, spent>>

ProtectionLost ==
    /\ session = "protected"
    /\ session' = "verifying"
    /\ UNCHANGED <<disk, target, published, proc, hist, spent>>

\* stop_verifier at the end of the user's session.
StopSession ==
    /\ Free
    /\ session # "off"
    /\ session' = "off"
    /\ published' = FALSE
    /\ RestoreAll(<<>>)
    /\ UNCHANGED <<disk, target, hist, spent>>

\* apply_local_api: live links follow the address, and are projected again even
\* when it could not be bound; without a verified catalog they are restored
\* first, and the address moves only if all of them were.
ChangeAddress ==
    /\ Free
    /\ spent.moves < MaxMoves
    /\ session' = IF session = "off" THEN "off" ELSE "verifying"
    /\ \/ /\ session # "off"
          /\ target' \in {target, target + 1}
          /\ LET r == disk.record IN
             IF r = NoRecord \/ (r # NoRecord /\ (r.suspended \/ r.cleanup \/ Disconnected(r)))
             THEN UNCHANGED proc
             ELSE Begin("retarget", <<"connect">>, <<"suspend">>, r)
          /\ UNCHANGED published
       \/ /\ published' = FALSE
          /\ RestoreAll(<<"move">>)
          /\ UNCHANGED target
    /\ Spend("moves")
    /\ UNCHANGED <<disk, hist>>

-----------------------------------------------------------------------------
(* One step of the transaction, a failed step, a crash, the user.           *)

Perform(step) ==
    CASE step = "connect"     -> PrepareConnect
      [] step = "issue"       -> Issue
      [] step = "park"        -> Park
      [] step = "pend"        -> Pend
      [] step = "write"       -> Write
      [] step = "choose"      -> Choose
      [] step = "commit"      -> Commit
      [] step = "undo_choice" -> UndoChoice
      [] step = "undo_config" -> UndoConfig
      [] step = "undo_secret" -> UndoSecret
      [] step = "undo_token"  -> Revoke
      [] step = "unpend"      -> Unpend
      [] step = "suspend"     -> PrepareSuspend
      [] step = "revoke"      -> Revoke
      [] step = "mark"        -> Mark
      [] step = "unchoose"    -> Unchoose
      [] step = "restore"     -> Restore
      [] step = "release"     -> Release
      [] step = "forget"      -> Forget
      [] step = "drop"        -> Drop
      [] step = "tombstone"   -> Tombstone
      [] step = "intend"      -> Intend
      [] step = "attend"      -> Attend

\* History: which edits are newer than the projection, what a rollback
\* destroyed, how far a disconnect came.
Remember(step) ==
    hist' = [hist EXCEPT
        !.edited = CASE step = "write" /\ proc'.tx.wrote  -> @ \ MainFields
                     [] step = "choose" /\ proc'.tx.chose -> @ \ {"choice"}
                     [] step = "undo_choice"              -> @ \union {"choice"}
                     [] OTHER                             -> @,
        !.lost = CASE step = "undo_config" -> @ \union (hist.edited \cap MainFields)
                   [] step = "undo_secret" /\ proc.tx.broken -> @ \union {"key"}
                   [] OTHER -> @,
        !.ended = CASE step = "revoke" /\ proc.kind = "disconnect" /\ @ = "asked" -> "revoked"
                    [] step = "tombstone" -> "tombstoned"
                    [] OTHER -> @]

Step ==
    /\ ~Free
    /\ Head(proc.todo) \notin {"publish", "move"}
    /\ Perform(Head(proc.todo))
    /\ Remember(Head(proc.todo))
    /\ UNCHANGED <<target, session, published, spent>>

PublishStep ==
    /\ ~Free
    /\ Head(proc.todo) = "publish"
    /\ Publish
    /\ UNCHANGED <<target, session, hist, spent>>

\* rebind_local_api, once every agent has its own configuration back.
MoveStep ==
    /\ ~Free
    /\ Head(proc.todo) = "move"
    /\ target' = target + 1
    /\ proc' = Proceed(proc)
    /\ UNCHANGED <<disk, session, published, hist, spent>>

\* The steps that touch the disk or the secret store for this agent, and the
\* binding of a new address.
Fallible ==
    {"move", "issue", "pend", "write", "commit", "undo_choice", "undo_config", "undo_secret", "undo_token",
     "unpend", "revoke", "mark", "restore", "forget", "drop", "tombstone", "intend", "attend"}
    \union (IF "choice" \in Fields THEN {"choose", "unchoose"} ELSE {})
    \union (IF "key" \in Fields THEN {"park", "release"} ELSE {})

\* A write fails. The token's removal may have happened all the same.
StepFails ==
    /\ ~Free
    /\ spent.faults < MaxFaults
    /\ LET step == Head(proc.todo)
           rotates == step = "issue" /\ (proc.store = NoRecord \/ proc.store.suspended) IN
       /\ step \in Fallible
       /\ ~(step = "unpend" /\ proc.tx.broken)
       /\ \E kept \in {disk.token} \union
                      (IF rotates \/ step \in {"revoke", "undo_token"} THEN {FALSE} ELSE {}) :
             disk' = [disk EXCEPT !.token = kept]
    /\ proc' = AfterFailure(proc)
    /\ Spend("faults")
    /\ UNCHANGED <<target, session, published, hist>>

\* The process dies; the next one starts by restoring what it finds.
Crash ==
    /\ spent.faults < MaxFaults
    /\ session' = "off"
    /\ published' = FALSE
    /\ RestoreAll(<<>>)
    /\ Spend("faults")
    /\ UNCHANGED <<disk, target, hist>>

\* The user, or the agent itself, sets a field.
UserEdits(f) ==
    /\ spent.edits < MaxEdits
    /\ f = "choice" \/ disk.exists
    /\ disk' = [disk EXCEPT !.config[f] = User(2)]
    /\ hist' = [hist EXCEPT !.mine[f] = User(2), !.edited = @ \union {f}, !.lost = @ \ {f}]
    /\ Spend("edits")
    /\ UNCHANGED <<target, session, published, proc>>

\* The user deletes the config: nothing is promised of its fields any more.
UserDeletes ==
    /\ spent.edits < MaxEdits
    /\ disk.exists
    /\ disk' = [disk EXCEPT !.config = With([f \in MainFields |-> Absent]), !.exists = FALSE]
    /\ hist' = [hist EXCEPT !.edited = @ \union MainFields, !.lost = @ \union MainFields]
    /\ Spend("edits")
    /\ UNCHANGED <<target, session, published, proc>>

-----------------------------------------------------------------------------

InitialConfigs ==
    {c \in UNION {[F -> {Absent, User(1)}] : F \in Profiles} :
        "provider" \in DOMAIN c => c["provider"] = Absent}

Init ==
    /\ \E c \in InitialConfigs :
          /\ disk = [config |-> c, exists |-> TRUE, secret |-> Absent, token |-> FALSE,
                     record |-> NoRecord]
          /\ hist = [mine |-> c, edited |-> {}, lost |-> {}, ended |-> "no"]
    /\ target = 1
    /\ session = "off"
    /\ published = FALSE
    /\ proc = Idle
    /\ spent = [faults |-> 0, edits |-> 0, moves |-> 0]

Next ==
    \/ Reconcile \/ ApplyConnect \/ Disconnect
    \/ StartSession \/ Verified \/ ProtectionLost \/ StopSession \/ ChangeAddress
    \/ Step \/ PublishStep \/ MoveStep \/ StepFails \/ Crash
    \/ \E f \in Fields : UserEdits(f)
    \/ UserDeletes

Spec == Init /\ [][Next]_vars

\* A transaction runs on to its end (weak fairness of its steps), and the interval
\* task keeps calling reconcile_agents whenever it finds the lock free (strong
\* fairness); the states that enable them are written out.
FairSpec ==
    /\ Spec
    /\ []<>Free \/ []<><<Step \/ PublishStep \/ MoveStep>>_vars
    /\ \/ <>[]~(Free /\ session # "verifying")
       \/ []<><<Reconcile /\ session # "verifying">>_vars

-----------------------------------------------------------------------------
(* Properties.                                                              *)

\* What a cleanup would leave in a field, from what is on disk now.
GivenBack(f) ==
    LET r == disk.record IN
    IF r # NoRecord /\ f \in DOMAIN r.owned /\ Holds(r, f) THEN Previous(r, f) ELSE disk.config[f]

\* The values an earlier address was written with.
Stale == {<<tag, e>> : tag \in {"ours", "idle"}, e \in Endpoints \ {target}}

\* A provider definition of ours may stay, deactivated.
BelongsTo(f, value) ==
    value = hist.mine[f] \/ (f = "provider" /\ hist.mine[f] = Absent /\ value[1] \in {"ours", "idle"})

\* Whatever failed, at every moment the user's own setting is either in the
\* agent's file or reachable through the record and the parked credentials
\* (connect, suspend, rollback). Set aside are an interrupted address change,
\* what a rollback wrote over or the user deleted, and a credential whose
\* rollback failed in turn: one failure alone never costs a setting.
OriginalKept ==
    \A f \in Fields :
        \/ BelongsTo(f, GivenBack(f)) \/ GivenBack(f) \in Stale
        \/ f \in hist.lost /\ (spent.edits > 0 \/ spent.faults > 1)

\* The same without the allowance for addresses and rollbacks: what connect
\* wrote lands together or is rolled back together (connect's contract).
OriginalAlwaysKept ==
    proc.todo = <<>> => \A f \in Fields : BelongsTo(f, GivenBack(f))

\* Once a disconnect's tombstone is saved, neither a crash, a reconcile nor a
\* change of address authorizes the agent until the user connects it again
\* (disconnect, cleanup, reconcile).
EndedStaysEnded == hist.ended = "tombstoned" => ~Authorized /\ ~published

\* The same from the moment the token is deleted, even if the tombstone save
\* fails (disconnect's contract).
RevokedStaysEnded == hist.ended \in {"revoked", "tombstoned"} => ~Authorized

\* An agent is authorized only by a connection that finished: every file holds
\* what the record says, unless the user changed it since (connect, status).
AuthorizedIsWhole ==
    Authorized => \A f \in DOMAIN disk.record.owned : Holds(disk.record, f) \/ f \in hist.edited

\* A pending cleanup is retried until it is finished, or until only the user
\* can tell which credential belongs there (reconcile, cleanup).
CleanupEnds ==
    LET pending == disk.record # NoRecord /\ disk.record.cleanup
        refused == disk.record # NoRecord /\ Ambiguous(disk.record) IN
    <>[](session # "verifying") => (pending ~> (~pending \/ refused))

=============================================================================
