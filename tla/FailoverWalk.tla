------------------------------ MODULE FailoverWalk ------------------------------
(***************************************************************************)
(* forward_chat_completion_for_middleware of                               *)
(* src/aggregator/service/middleware.rs: one request walks its ordered     *)
(* candidates until one commits, holds back the latest answer it failed    *)
(* over, and may walk once more over the candidates that were at capacity. *)
(*                                                                         *)
(* The walk runs in one task.  It can be cancelled, or its caller's timer  *)
(* can fire, only where it awaits (Awaits); the steps between two awaits   *)
(* are separate actions that nothing interrupts.  Verification, admission  *)
(* and reverification appear by their outcomes (AttestedReceipts,          *)
(* VerifierCache).                                                         *)
(***************************************************************************)
EXTENDS Integers, SequencesExt

CONSTANTS
    Chain,        \* the candidates: a sequence of route ids, repeats allowed
    NoRoute,      \* no route
    Answer,       \* the kinds of answers upstreams give, some of AllAnswers
    MaxRenewals   \* bound on keyset renewals

\* busy        429
\* unpaid      429 that declares this gateway's account exhausted
\* busy_fault  501 with the capacity marker in its body
\* fault       503
\* image_input 500 that blames an image URL of the request
\* rejected    400
AllAnswers == {"ok", "busy", "unpaid", "busy_fault", "fault", "image_input", "rejected"}

ASSUME WalkConstants ==
    /\ Chain # <<>>
    /\ NoRoute \notin Range(Chain)
    /\ Answer \subseteq AllAnswers
    /\ MaxRenewals \in Nat

VARIABLES
    stream,       \* input: the request streams
    aci,          \* input: it carries an ACI constraint
    pc,           \* where the walk stands
    current,      \* the candidates of this pass, as positions in Chain
    index,        \* the one being tried
    capacity,     \* indices into current that signalled capacity this pass
    failed,       \* failed_attempts
    retained,     \* the answer held back, if any
    worst,        \* aggregated_err: its priority and client status
    replayed,     \* capacity_retry_done
    overdue,      \* CAPACITY_RETRY_MAX_ELAPSED has passed
    in_flight,    \* journal: the candidate being waited on
    abandoned,    \* journal: the mirror of failed_attempts
    header,       \* journal: the keyset named in early headers, if any
    lapsed,       \* that keyset is past its not_after
    keyset,       \* the service's current keyset
    result,       \* what the walk returned
    outcomes      \* how every attempt ended, in order (history)

walkInputs == <<stream, aci>>
journal == <<in_flight, abandoned>>
pass == <<current, capacity>>
keysets == <<header, lapsed, keyset>>
walkVars ==
    <<walkInputs, pc, pass, index, failed, retained, worst, replayed, overdue, journal,
      keysets, result, outcomes>>

NoKeyset == -1
Nowhere == [route |-> NoRoute, attempt |-> 0]
Unfinished == [kind |-> "none"]

WalkInit ==
    /\ stream \in BOOLEAN
    /\ aci \in BOOLEAN
    /\ pc = "starting"
    /\ current = [i \in DOMAIN Chain |-> i]
    /\ index = 1
    /\ capacity = <<>>
    /\ failed = <<>>
    /\ retained = <<>>
    /\ worst = [priority |-> -1, status |-> 404]
    /\ replayed = FALSE
    /\ overdue = FALSE
    /\ in_flight = Nowhere
    /\ abandoned = <<>>
    /\ header = NoKeyset
    /\ lapsed = FALSE
    /\ keyset = 0
    /\ result = Unfinished
    /\ outcomes = <<>>

Awaits == {"verifying", "forwarding", "reading", "pausing"}
Trying == {"verifying", "forwarding", "reading"}

-----------------------------------------------------------------------------
(* What an answer means *)

HttpStatus(a) ==
    CASE a = "ok" -> 200 [] a \in {"busy", "unpaid"} -> 429 [] a = "busy_fault" -> 501
      [] a = "fault" -> 503 [] a = "image_input" -> 500 [] OTHER -> 400

\* recorded_attempt_status: the row of an attempt that was failed over.
RecordedStatus(a) == IF a = "unpaid" THEN 402 ELSE HttpStatus(a)

\* reported_status: the row of the committed one, after normalisation.
ReportedStatus(a) ==
    CASE a = "busy_fault" -> 429 [] a = "image_input" -> 400 [] OTHER -> RecordedStatus(a)

IsCapacity(a) == a \in {"busy", "unpaid", "busy_fault"}
ByStatusOnly(a) == a \in {"busy", "unpaid", "fault"}
ShouldFailOver(a) == IsCapacity(a) \/ a = "fault"

-----------------------------------------------------------------------------
(* The ends of one attempt *)

Route == Chain[current[index]]

\* set_in_flight: the attempt's row will follow those recorded so far.
AttemptsSoFar == Len(failed)
SetInFlight == in_flight' = [route |-> Route, attempt |-> AttemptsSoFar]

Ended(how) == outcomes' = Append(outcomes, [position |-> current[index], end |-> how])

MoveOn ==
    /\ index' = index + 1
    /\ pc' = IF index = Len(current) THEN "exhausted" ELSE "starting"

\* upgrade_err keeps the latest of the most informative failures.
UpgradeErr(priority, status) ==
    worst' = IF priority >= worst.priority
             THEN [priority |-> priority, status |-> status] ELSE worst

\* Recorded in the local list and mirrored into the journal.
Abandon(status) ==
    LET attempt == [route |-> Route, status |-> status] IN
    /\ failed' = Append(failed, attempt)
    /\ abandoned' = Append(abandoned, attempt)

\* A candidate that failed without an answer to hold back ...
FailsWith(status, priority, clientStatus) ==
    /\ Abandon(status)
    /\ UpgradeErr(priority, clientStatus)
    /\ Ended("failed")
    /\ MoveOn
    /\ UNCHANGED <<walkInputs, pass, retained, replayed, overdue, keysets, result>>

\* ... and one that was passed over and is not charged for it.
Skips(priority, clientStatus) ==
    /\ UpgradeErr(priority, clientStatus)
    /\ Ended("skipped")
    /\ MoveOn
    /\ UNCHANGED <<walkInputs, pass, failed, retained, replayed, overdue, abandoned, keysets,
                   result>>

Returns(r) ==
    /\ pc' = "finished"
    /\ result' = r
    /\ UNCHANGED <<walkInputs, pass, index, failed, retained, worst, replayed, overdue,
                   journal, keysets>>

AllFailed(status) == [kind |-> "all_failed", status |-> status, failed |-> failed]

\* An internal error leaves the walk without its attempts.
Aborts(status) == Returns([kind |-> "err", status |-> status])

-----------------------------------------------------------------------------
(* One candidate: prepare, verify, admit, forward, read the answer *)

PrepareFails ==
    /\ pc = "starting"
    /\ SetInFlight
    /\ \/ FailsWith(502, 1, 404)
       \/ FailsWith(502, 2, 502)

Ineligible ==
    /\ pc = "starting"
    /\ aci
    /\ SetInFlight
    /\ Skips(0, 503)

Prepared ==
    /\ pc = "starting"
    /\ SetInFlight
    /\ pc' = "verifying"
    /\ UNCHANGED <<walkInputs, pass, index, failed, retained, worst, replayed, overdue,
                   abandoned, keysets, result, outcomes>>

VerificationRefused ==
    /\ pc = "verifying"
    /\ FailsWith(502, 3, 503)
    /\ UNCHANGED in_flight

\* admit_upstream refuses a keyset named in headers that has since expired.
HeaderExpired == header # NoKeyset /\ lapsed

AdmissionExpired ==
    /\ pc \in {"verifying", "forwarding"}
    /\ HeaderExpired
    /\ Returns(AllFailed(503))
    /\ Ended("skipped")

SessionNotAccepted ==
    /\ pc = "verifying"
    /\ aci
    /\ Skips(0, 412)
    /\ UNCHANGED in_flight

Admitted ==
    /\ pc = "verifying"
    /\ ~HeaderExpired
    /\ pc' = "forwarding"
    /\ UNCHANGED <<walkInputs, pass, index, failed, retained, worst, replayed, overdue,
                   journal, keysets, result, outcomes>>

\* The recorded status, priority and client status of a forward without answer:
\* transport or mismatch, timeout; a refresh that could not verify, could not
\* admit, or admitted none of the sessions the request pins.
ForwardFailures ==
    {<<502, 2, 502>>, <<504, 2, 504>>, <<502, 3, 503>>, <<502, 2, 500>>}
        \union (IF aci THEN {<<502, 3, 412>>} ELSE {})

ForwardFails ==
    /\ pc = "forwarding"
    /\ \E f \in ForwardFailures : FailsWith(f[1], f[2], f[3])
    /\ UNCHANGED in_flight

\* The route cannot carry this request: nothing was sent, nothing is recorded.
CannotCarry ==
    /\ pc = "forwarding"
    /\ Skips(2, 400)
    /\ UNCHANGED in_flight

WalkAborts ==
    /\ pc \in {"verifying", "forwarding"}
    /\ \E status \in {500, 502} : Aborts(status)
    /\ Ended("aborted")

\* A streaming non-200 has its body collected before it is judged.
AnsweredNotOk ==
    /\ pc = "forwarding"
    /\ stream
    /\ pc' = "reading"
    /\ UNCHANGED <<walkInputs, pass, index, failed, retained, worst, replayed, overdue,
                   journal, keysets, result, outcomes>>

BodyTooLarge ==
    /\ pc = "reading"
    /\ FailsWith(502, 2, 502)
    /\ UNCHANGED in_flight

Judged(a) ==
    /\ a \in Answer
    /\ pc = IF stream /\ a # "ok" THEN "reading" ELSE "forwarding"

RetryEligible == ~replayed /\ ~overdue

LastMayRetry(a) == (IsCapacity(a) \/ capacity # <<>>) /\ RetryEligible

HeldBack(a) == (index < Len(current) \/ LastMayRetry(a)) /\ ShouldFailOver(a)

FailOver(a) ==
    /\ Judged(a)
    /\ HeldBack(a)
    /\ capacity' = IF IsCapacity(a) THEN Append(capacity, index) ELSE capacity
    /\ retained' = <<[answer |-> a, route |-> Route, slot |-> Len(failed) + 1]>>
    /\ Abandon(RecordedStatus(a))
    /\ Ended(a)
    /\ MoveOn
    /\ UNCHANGED <<walkInputs, current, worst, replayed, overdue, in_flight, keysets, result>>

\* The keyset a streamed receipt cites: the one early headers named, if any.
CurrentKeyset == keyset
CitedKeyset == IF header # NoKeyset THEN header ELSE keyset

Relays(a, route, attempts) ==
    Returns([kind |-> CASE ~stream -> "forwarded" [] a = "ok" -> "stream"
                        [] OTHER -> "upstream_error",
             answer |-> a, route |-> route, failed |-> attempts, keyset |-> CitedKeyset])

Commit(a) ==
    /\ Judged(a)
    /\ ~HeldBack(a)
    /\ Relays(a, Route, failed)
    /\ Ended(a)

-----------------------------------------------------------------------------
(* The end of a pass *)

MayReplay == capacity # <<>> /\ RetryEligible

\* Nothing is in flight during the pause before the second pass.
Pause ==
    /\ pc = "exhausted"
    /\ MayReplay
    /\ replayed' = TRUE
    /\ in_flight' = Nowhere
    /\ pc' = "pausing"
    /\ UNCHANGED <<walkInputs, pass, index, failed, retained, worst, overdue, abandoned,
                   keysets, result, outcomes>>

ReplayByRoute ==
    LET routes == {Chain[current[i]] : i \in Range(capacity)}
        Signalled(p) == Chain[p] \in routes
    IN SelectSeq(current, Signalled)

\* Exactly the attempts that met a capacity signal, by index: ids may repeat.
ReplaySet == [i \in DOMAIN capacity |-> current[capacity[i]]]

\* The next pass starts with no capacity signal; retained and failed carry over.
Replays(signals, answer) ==
    /\ pc = "pausing"
    /\ current' = ReplaySet
    /\ capacity' = signals
    /\ retained' = answer
    /\ index' = 1
    /\ pc' = "starting"
    /\ UNCHANGED <<walkInputs, failed, worst, replayed, overdue, journal, keysets, result,
                   outcomes>>

ResumeAfresh == Replays(<<>>, <<>>)
Resume == Replays(<<>>, retained)

AllButLast(r) == Front(failed)

\* The answer held back is relayed; its own entry leaves the attempts.
OtherAttempts(r) == RemoveAt(failed, r.slot)

CommitRetained ==
    /\ pc = "exhausted"
    /\ ~MayReplay
    /\ retained # <<>>
    /\ LET r == retained[1] IN
       \/ Relays(r.answer, r.route, OtherAttempts(r))
       \/ ~stream /\ Aborts(502)
    /\ UNCHANGED outcomes

NobodyAnswered ==
    /\ pc = "exhausted"
    /\ ~MayReplay
    /\ retained = <<>>
    /\ Returns(AllFailed(worst.status))
    /\ UNCHANGED outcomes

WalkNext ==
    \/ PrepareFails \/ Ineligible \/ Prepared
    \/ VerificationRefused \/ AdmissionExpired \/ SessionNotAccepted \/ Admitted
    \/ ForwardFails \/ CannotCarry \/ WalkAborts
    \/ AnsweredNotOk \/ BodyTooLarge
    \/ \E a \in AllAnswers : FailOver(a) \/ Commit(a)
    \/ Pause \/ Resume \/ CommitRetained \/ NobodyAnswered

-----------------------------------------------------------------------------
(* What happens around the walk *)

Elapse ==
    /\ ~overdue
    /\ overdue' = TRUE
    /\ UNCHANGED <<walkInputs, pc, pass, index, failed, retained, worst, replayed, journal,
                   keysets, result, outcomes>>

Renew ==
    /\ keyset < MaxRenewals
    /\ keyset' = keyset + 1
    /\ UNCHANGED <<walkInputs, pc, pass, index, failed, retained, worst, replayed, overdue,
                   journal, header, lapsed, result, outcomes>>

\* The clock passes the not_after of the keyset the headers named.
Lapse ==
    /\ header # NoKeyset
    /\ ~lapsed
    /\ lapsed' = TRUE
    /\ UNCHANGED <<walkInputs, pc, pass, index, failed, retained, worst, replayed, overdue,
                   journal, header, keyset, result, outcomes>>
===============================================================================
