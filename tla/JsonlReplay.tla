------------------------------ MODULE JsonlReplay ------------------------------
(***************************************************************************)
(* open()'s replay loop, line by line, as a fold over the log: the         *)
(* reference for the closed form Replay of JsonlSessionStore.              *)
(***************************************************************************)
EXTENDS JsonlSessionStore, SequencesExt

\* One turn of the loop.  `bundles` is the map of the evidence read so far.
\* A garbage line is skipped, as a line serde cannot parse is.
ReplayLine(acc, line, now) ==
    CASE line.type = "evidence" ->
            [acc EXCEPT !.bundles = @ \cup {line.bundle}]
      [] /\ line.type = "session"
         /\ line.retention_until > now
         /\ line.id.bundle \in acc.bundles ->
            [acc EXCEPT !.index =
                Insert(@, line.fingerprint, line.id, line.retention_until)]
      [] OTHER -> acc

ReplayLoop(lines, now) ==
    LET end == FoldLeft(LAMBDA acc, line : ReplayLine(acc, line, now),
                        [bundles |-> {}, index |-> EmptyIndex], lines)
    IN  MarkPersisted(end.index, DOMAIN end.index.bundles)

\* Replaying a log line by line, at any time, builds the index Replay gives:
\* the last line of a fingerprint and of an id wins, deadlines are the latest,
\* and each session cites its bundle once however often its id is logged.
ReplayIsLoop == \A t \in 0..MaxTime : Replay(log, t) = ReplayLoop(log, t)

=============================================================================
