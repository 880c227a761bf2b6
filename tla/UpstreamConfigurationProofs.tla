-------------------- MODULE UpstreamConfigurationProofs --------------------
(***************************************************************************)
(* For any configurations, updaters and requests: the file and the         *)
(* installed state stay together, and a verified request keeps its channel.*)
(***************************************************************************)
EXTENDS UpstreamConfiguration, TLAPS

Busy == {"writing", "installing", "notifying"}

Updates == [pc : {"idle"}] \union [pc : {"locking"} \union Busy, config : Config]

\* Whoever is past TakeLock holds the lock; between the write of the file and the
\* installation the file is ahead by exactly the holder's configuration.
Replacing ==
    /\ control \in Config /\ file \in Config /\ memory \in Config
    /\ updates \in [Updater -> Updates]
    /\ \A u \in Updater : updates[u].pc \in Busy <=> lock = u
    /\ \A u \in Updater : updates[u].pc = "installing" => file = updates[u].config
    /\ (\A u \in Updater : updates[u].pc # "installing") => file = memory

\* The initial state has nothing under way and the file installed.
LEMMA ReplacingInit == Init => Replacing
<1> SUFFICES ASSUME Init PROVE Replacing
    OBVIOUS
<1>1. /\ updates = [u \in Updater |-> [pc |-> "idle"]] /\ lock = Free
      /\ control \in Config /\ file \in Config /\ memory = file
    BY DEF Init, Idle
<1> QED
    BY <1>1, FreeIsNobody DEF Replacing, Updates, Busy, Updater

\* Every step of every task keeps file, state, lock and positions in agreement.
LEMMA ReplacingNext == Replacing /\ [Next]_vars => Replacing'
<1> SUFFICES ASSUME Replacing, [Next]_vars PROVE Replacing'
    OBVIOUS
<1> USE DEF Replacing, Updates, Busy
<1>1. ASSUME NEW a \in Admin, Put(a) PROVE Replacing'
    BY <1>1 DEF Put, installed, Updater
<1>2. CASE Pull
    BY <1>2 DEF Pull, installed, Updater
<1>3. ASSUME NEW u \in Updater, TakeLock(u) PROVE Replacing'
    BY <1>3, FreeIsNobody DEF TakeLock, Updater
<1>4. ASSUME NEW u \in Updater, SkipUnchanged(u) PROVE Replacing'
    BY <1>4 DEF SkipUnchanged, Idle, installed
<1>5. ASSUME NEW u \in Updater, UpdateFails(u) PROVE Replacing'
    BY <1>5, FreeIsNobody DEF UpdateFails, Idle, Updater
<1>6. ASSUME NEW u \in Updater, WriteFile(u) PROVE Replacing'
    BY <1>6 DEF WriteFile
<1>7. ASSUME NEW u \in Updater, Install(u) PROVE Replacing'
    BY <1>7 DEF Install
<1>8. ASSUME NEW u \in Updater, Notify(u) PROVE Replacing'
    BY <1>8, FreeIsNobody DEF Notify, Idle, Updater
<1>9. CASE UNCHANGED <<control, updates, installed>>
    BY <1>9 DEF installed
<1>10. CASE Restart
    BY <1>10, FreeIsNobody DEF Restart, Started, Idle, Updater
<1>11. Supervise => UNCHANGED <<control, updates, installed>>
    BY DEF Supervise, MarkSeen, SpawnTasks, Reload
<1>12. ASSUME NEW u \in Upstream, Task(u) PROVE UNCHANGED <<control, updates, installed>>
    BY <1>12 DEF Task, Due, Grant, NothingDue, Refresh, Refreshed
<1>13. ASSUME NEW r \in Request, Serve(r) PROVE UNCHANGED <<control, updates, installed>>
    BY <1>13 DEF Serve, Prepare, StartVerifying, Verified, NotVerified, Forward, Answered,
                 Mismatch, Keep
<1>14. CASE ControlChanges
    BY <1>14 DEF ControlChanges, installed
<1>15. UNCHANGED vars => UNCHANGED <<control, updates, installed>>
    BY DEF vars, installed
<1> QED
    BY <1>1, <1>2, <1>3, <1>4, <1>5, <1>6, <1>7, <1>8, <1>9, <1>10, <1>11, <1>12, <1>13,
       <1>14, <1>15 DEF Next, Update

\* replace_inner: with update_lock free, a restart would come back to the
\* installed configuration, however many PUTs and pulls race, fail or die.
THEOREM FileMatchesState == Spec => []RestartKeepsConfig
<1>1. Replacing => RestartKeepsConfig
    BY FreeIsNobody DEF Replacing, RestartKeepsConfig, Busy, Updater
<1> QED
    BY <1>1, ReplacingInit, ReplacingNext, PTL DEF Spec

-----------------------------------------------------------------------------
Origins == {c[u].origin : c \in Config, u \in Upstream}
Backends == {c[u] : c \in Config, u \in Upstream}

Underway ==
    [pc : {"verifying", "awaiting", "verified", "unverified"}, upstream : Upstream,
     origin : Origins, required : BOOLEAN, reverified : Nat]
Connected ==
    [pc : {"connected"}, upstream : Upstream, origin : Origins, required : BOOLEAN,
     reverified : Nat, pinned : BOOLEAN, backend : Backends]

\* A request without a verification goes on only if it requires none.
Serving ==
    /\ requests \in [Request -> [pc : {"resting"}] \union Underway \union Connected]
    /\ \A r \in Request : requests[r].pc = "unverified" => ~requests[r].required
    /\ VerifiedChannelKept

\* A step of one request keeps the channel of each, whatever is installed.
LEMMA ServingNext == Serving /\ memory \in Config /\ [Next]_vars => Serving'
<1> SUFFICES ASSUME Serving, memory \in Config, [Next]_vars PROVE Serving'
    OBVIOUS
<1> USE DEF Serving, VerifiedChannelKept, Underway, Connected
<1>1. ASSUME NEW u \in DOMAIN memory
      PROVE u \in Upstream /\ memory[u] \in Backends /\ memory[u].origin \in Origins
    BY <1>1, UpstreamsNamed DEF Backends, Origins
<1>2. ASSUME NEW r \in Request, Prepare(r) PROVE Serving'
    BY <1>1, <1>2 DEF Prepare, Goto
<1>3. ASSUME NEW r \in Request, StartVerifying(r) PROVE Serving'
    BY <1>3 DEF StartVerifying
<1>4. ASSUME NEW r \in Request, Verified(r) PROVE Serving'
    BY <1>4 DEF Verified, Goto
<1>5. ASSUME NEW r \in Request, NotVerified(r) PROVE Serving'
    BY <1>5 DEF NotVerified, Goto, Resting
<1>6. ASSUME NEW r \in Request, Forward(r) PROVE Serving'
    BY <1>1, <1>6 DEF Forward, Goto, Resting, Routed, BindingFits
<1>7. ASSUME NEW r \in Request, Answered(r) PROVE Serving'
    BY <1>7 DEF Answered, Goto, Resting
<1>8. ASSUME NEW r \in Request, Mismatch(r) PROVE Serving'
    BY <1>8 DEF Mismatch, Goto
<1>9. CASE Restart
    BY <1>9 DEF Restart, Started, Resting
<1>10. CASE UNCHANGED requests
    BY <1>10
<1>11. ASSUME NEW a \in Admin, Put(a) PROVE UNCHANGED requests
    BY <1>11 DEF Put
<1>12. ASSUME NEW u \in Updater, Update(u) PROVE UNCHANGED requests
    BY <1>12 DEF Update, TakeLock, SkipUnchanged, UpdateFails, WriteFile, Install, Notify
<1>13. ASSUME NEW u \in Upstream, Task(u) PROVE UNCHANGED requests
    BY <1>13 DEF Task, Due, Grant, NothingDue, Refresh, Refreshed
<1>14. ControlChanges \/ Pull \/ Supervise \/ UNCHANGED vars => UNCHANGED requests
    BY DEF ControlChanges, Pull, Supervise, MarkSeen, SpawnTasks, Reload, vars
<1> QED
    BY <1>2, <1>3, <1>4, <1>5, <1>6, <1>7, <1>8, <1>9, <1>10, <1>11, <1>12, <1>13, <1>14
       DEF Next, Serve

\* prepare, recorded_upstream_event and client_for_event each read the
\* configuration afresh; a pinned connection still leads where the request was
\* verified, and one that requires verification is pinned.
THEOREM ChannelKept == Spec => []VerifiedChannelKept
<1>1. Init => Serving
    BY DEF Init, Serving, VerifiedChannelKept, Resting
<1>2. Replacing => memory \in Config
    BY DEF Replacing
<1>3. Serving => VerifiedChannelKept
    BY DEF Serving
<1> QED
    BY <1>1, <1>2, <1>3, ServingNext, ReplacingInit, ReplacingNext, PTL DEF Spec

=============================================================================
