----------------------------- MODULE RequestOutcome -----------------------------
(***************************************************************************)
(* One request's accounting: the completion handler of                     *)
(* src/middleware/completion.rs around the failover walk, its Meter, the   *)
(* early 200 it may commit while the walk is still waiting, and the stream *)
(* meter of src/middleware/sse.rs that takes over once a stream is served. *)
(*                                                                         *)
(* reports holds the usage rows in the order they are sent.  A row says    *)
(* what it is (role): one for an attempt, the request's outcome, or a late *)
(* failure found after the outcome was sent.  Control drops a row whose    *)
(* request, attempt and status it has seen.                                *)
(***************************************************************************)
EXTENDS FailoverWalk, FiniteSets

VARIABLES
    e2ee,         \* input: the response is to be encrypted
    mode,         \* who is in charge: handler, early body, stream; or how it ended
    settled,      \* the stream meter has reported
    reports       \* the rows sent

handlerVars == <<e2ee, mode, settled, reports>>
vars == <<walkVars, handlerVars>>

Init ==
    /\ WalkInit
    /\ e2ee \in BOOLEAN
    /\ mode = "handler"
    /\ settled = FALSE
    /\ reports = <<>>

\* The meter is armed before the walk is first polled.
Waiting == mode \in {"handler", "early"}

-----------------------------------------------------------------------------
(* Rows *)

Row(role, attempt, status, route) ==
    [role |-> role, attempt |-> attempt, status |-> status, route |-> route]

AttemptRows(attempts) ==
    [i \in DOMAIN attempts |-> Row("attempt", i - 1, attempts[i].status, attempts[i].route)]

Outcome(attempt, status, route) == <<Row("outcome", attempt, status, route)>>

\* The summary of a chain nobody served, only where it is the service's failure.
Summary(attempt, status) ==
    IF status >= 500 THEN Outcome(attempt, status, NoRoute) ELSE <<>>

\* Drop for Meter: the client left while the walk was waiting.
DropRows ==
    AttemptRows(abandoned)
        \o Outcome(IF in_flight = Nowhere THEN Len(abandoned) ELSE in_flight.attempt,
                   499, in_flight.route)

\* Where the outcome's row goes: after the attempts that failed before it.
OutcomeIndex(r) == Len(r.failed)

\* A buffered 200 may still carry a failed operation: 502.
Statuses(r) == IF r.answer = "ok" THEN {200, 502} ELSE {ReportedStatus(r.answer)}

\* The Forwarded arm sends the outcome before the attempts, but for a 200 whose
\* body is malformed.
BufferedRows(r) ==
    LET ServedAs(s) == Outcome(OutcomeIndex(r), s, r.route) IN
    {ServedAs(s) \o AttemptRows(r.failed) : s \in Statuses(r)}
        \union (IF r.answer = "ok" THEN {AttemptRows(r.failed) \o ServedAs(502)} ELSE {})

\* The failures.  A chain nobody served has its summary after its attempts; an
\* internal error left none.
FailureRows(r) ==
    CASE r.kind = "upstream_error" ->
            AttemptRows(r.failed)
                \o Outcome(OutcomeIndex(r), ReportedStatus(r.answer), r.route)
      [] r.kind = "all_failed" -> AttemptRows(r.failed) \o Summary(OutcomeIndex(r), r.status)
      [] OTHER -> Summary(0, r.status)

ResultRows(r) == IF r.kind = "forwarded" THEN BufferedRows(r) ELSE {FailureRows(r)}

\* No arm leaves the meter armed for its drop: each reports the outcome, hands it
\* to the stream meter, or disarms where nothing is reported.
SilentStaysArmed(r) == r.kind = "all_failed" /\ r.status < 500
StaysArmed(r) == FALSE

-----------------------------------------------------------------------------
(* The handler *)

\* The candidate waited on has not itself failed in this request.
WaitingOnCleanCandidate ==
    IF in_flight = Nowhere THEN abandoned = <<>>
    ELSE \A i \in DOMAIN abandoned : abandoned[i].route # in_flight.route

\* The keep-alive interval passed: 200 and the current keyset go out now, and
\* the walk continues inside the response body.
EarlyCommit ==
    /\ mode = "handler"
    /\ pc \in Awaits
    /\ stream /\ ~e2ee /\ ~aci
    /\ WaitingOnCleanCandidate
    /\ mode' = "early"
    /\ header' = keyset
    /\ lapsed' \in BOOLEAN
    /\ UNCHANGED <<walkInputs, pc, pass, index, failed, retained, worst, replayed, overdue,
                   journal, keyset, result, outcomes, e2ee, settled, reports>>

\* The walk returned an answer or a failure, in the handler or in an early body.
HandleResult ==
    /\ Waiting
    /\ pc = "finished"
    /\ result.kind # "stream"
    /\ \E rows \in ResultRows(result) :
          reports' = reports \o rows \o (IF StaysArmed(result) THEN DropRows ELSE <<>>)
    /\ mode' = "ended"
    /\ UNCHANGED <<walkVars, e2ee, settled>>

\* It returned a stream.  One to be encrypted has to be SSE: another content type
\* is refused, and the meter disarmed.
HandleStream ==
    /\ Waiting
    /\ pc = "finished"
    /\ result.kind = "stream"
    /\ reports' = reports \o AttemptRows(result.failed)
    /\ \/ mode' = "streaming"
       \/ e2ee /\ mode' = "refused"
    /\ UNCHANGED <<walkVars, e2ee, settled>>

\* The connection closes during an await; the future, and the meter, are dropped.
Disconnect ==
    /\ Waiting
    /\ pc \in Awaits
    /\ reports' = reports \o DropRows
    /\ mode' = "ended"
    /\ IF pc \in Trying THEN Ended("left") ELSE UNCHANGED outcomes
    /\ UNCHANGED <<walkInputs, pc, pass, index, failed, retained, worst, replayed, overdue,
                   journal, keysets, result, e2ee, settled>>

-----------------------------------------------------------------------------
(* The stream meter *)

Settle(status) ==
    /\ settled' = TRUE
    /\ reports' = IF settled THEN reports
                  ELSE reports \o Outcome(OutcomeIndex(result), status, result.route)

\* The upstream's stream ends: complete, truncated or in error, or timed out.
StreamEnds ==
    /\ mode = "streaming"
    /\ ~settled
    /\ \E status \in {200, 502, 504} : Settle(status)
    /\ UNCHANGED <<walkVars, e2ee, mode>>

\* The finalizer fails while the stream runs, and the meter's drop says so ...
FinalizerAborts ==
    /\ mode = "streaming"
    /\ ~settled
    /\ Settle(502)
    /\ mode' = "ended"
    /\ UNCHANGED <<walkVars, e2ee>>

\* ... or after it settled, and the body reports it: an early response reads
\* the attempt it serves from the journal, the other has it from the result.
LateAtFirst == Row("late", 0, 502, NoRoute)
LateRow ==
    IF header # NoKeyset THEN Row("late", in_flight.attempt, 502, in_flight.route)
    ELSE Row("late", OutcomeIndex(result), 502, result.route)

FinalizerFailsLate ==
    /\ mode = "streaming"
    /\ settled
    /\ reports' = Append(reports, LateRow)
    /\ mode' = "ended"
    /\ UNCHANGED <<walkVars, e2ee, settled>>

\* The body is dropped: at its end, or because the client went away.
BodyDropped ==
    /\ mode = "streaming"
    /\ Settle(499)
    /\ mode' = "ended"
    /\ UNCHANGED <<walkVars, e2ee>>

Next ==
    \/ Waiting /\ (WalkNext \/ Elapse \/ Renew \/ Lapse) /\ UNCHANGED handlerVars
    \/ EarlyCommit \/ HandleResult \/ HandleStream \/ Disconnect
    \/ StreamEnds \/ FinalizerAborts \/ FinalizerFailsLate \/ BodyDropped

Spec == Init /\ [][Next]_vars

-----------------------------------------------------------------------------
(* Properties *)

AnswerEnds == AllAnswers
CapacityEnds == {a \in AllAnswers : IsCapacity(a)}

ClientAtFault == result.kind \in {"all_failed", "err"} /\ result.status < 500

\* The rows of a request number its attempts 0, 1, 2, ... without gap or repeat,
\* and exactly one of them, the highest, is its outcome; there is none where the
\* failure is the client's own or its stream was refused. No interleaving of the
\* walk's return, the meter's drop, the stream meter and the finalizer reports a
\* request twice, forgets one or reuses a number. (Control drops a row whose
\* number and status it has seen; the order rows are sent in is not promised.)
OneOutcome ==
    LET rows == SelectSeq(reports, LAMBDA r : r.role # "late")
        finals == {i \in DOMAIN rows : rows[i].role = "outcome"} IN
    /\ {rows[i].attempt : i \in DOMAIN rows} = 0..(Len(rows) - 1)
    /\ Cardinality(finals) <= 1
    /\ \A i \in finals : rows[i].attempt = Len(rows) - 1
    /\ mode = "ended" => (finals = {} <=> ClientAtFault)
    /\ mode = "refused" => finals = {}

\* Every attempt that reached, or should have reached, an upstream has one row
\* under its route, and no route is charged for more than it was tried: also when
\* the answer relayed is an earlier candidate's, and when the client left mid-walk.
\* A refused stream's own attempt has none (completion.rs disarms the meter).
AttemptsAccounted ==
    mode \in {"ended", "refused"} /\ result.kind # "err" =>
        \A route \in Range(Chain) :
            Cardinality({i \in DOMAIN reports :
                            reports[i].route = route /\ reports[i].role # "late"})
            = Cardinality({i \in DOMAIN outcomes :
                              /\ Chain[outcomes[i].position] = route
                              /\ outcomes[i].end # "skipped"
                              /\ mode = "refused" => i # Len(outcomes)})

\* An upstream's answer is relayed rather than replaced by a synthesized failure:
\* nobody answered when the walk says so, unless it gave up on an expired keyset.
AnswerRelayed ==
    result.kind = "all_failed" =>
        \/ HeaderExpired
        \/ \A i \in DOMAIN outcomes : outcomes[i].end \notin AnswerEnds

\* A client is told that capacity is short only after every candidate was tried
\* and the delayed second pass was made, or the walk's time for it ran out; also
\* where the signal arrived under a status that is not retried for its own sake.
CapacityRetried ==
    result.kind \in {"forwarded", "upstream_error"} /\ IsCapacity(result.answer) =>
        /\ replayed \/ overdue
        /\ {outcomes[i].position : i \in DOMAIN outcomes} = DOMAIN Chain

\* The second pass repeats the attempts that met a capacity signal and no other,
\* each once: a twin of the same route that failed hard is not retried.
OnlyCapacityReplayed ==
    \A i, j \in DOMAIN outcomes :
        i < j /\ outcomes[i].position = outcomes[j].position =>
            /\ outcomes[i].end \in CapacityEnds
            /\ \A k \in DOMAIN outcomes :
                  k \notin {i, j} => outcomes[k].position # outcomes[i].position

\* A stream served under early headers gets a receipt under the keyset those
\* headers named, whatever renewals happened while it was waited for.
HeaderKeysetCited ==
    header # NoKeyset /\ result.kind = "stream" => result.keyset = header

\* A finalizer failure reported late follows the outcome and is filed under the
\* same attempt and route, though an early response reads them from the journal.
LateFailureAttributed ==
    \A j \in DOMAIN reports :
        reports[j].role = "late" =>
            \E i \in 1..(j - 1) :
                /\ reports[i].role = "outcome"
                /\ reports[j].attempt = reports[i].attempt
                /\ reports[j].route = reports[i].route

===============================================================================
