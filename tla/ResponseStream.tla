--------------------------- MODULE ResponseStream ---------------------------
(***************************************************************************)
(* One streamed response, from the provider's bytes to the client's parser *)
(* and to the receipt.  In direct mode the finalizer reads the provider.   *)
(* In middleware mode the bytes first pass the drafting stream, the event  *)
(* reader with its transforms, the meter and the keep-alive.  In early     *)
(* mode the headers are already out while the forward is awaited.  A chunk *)
(* is one byte class of SseFraming: every way to cut the stream into       *)
(* chunks is a behaviour.                                                  *)
(***************************************************************************)
EXTENDS SseFraming

CONSTANTS
    Modes,        \* the modes explored, of "direct", "middleware", "early"
    MaxChunks     \* bound on the bytes a provider sends

VARIABLES
    route,        \* mode, client protocol, conversion and E2EE of this response, and
                  \* whether what the provider says adds up to an answer
    phase,        \* "committed", "awaiting", "streaming", "ended", "tailed", "flushed", "done"
    sent,         \* bytes the provider has sent
    provider,     \* what it sent, as a client of its own would read it
    reader,       \* SseEventReader of the transforms
    bridge,       \* ChatStream of a cross-format route
    draft,        \* the drafting stream has published its draft to the journal
    meter,        \* MeterStream: held line, framing observer, error seen, outcome
    observer,     \* the finalizer's SseFramingObserver
    transformer,  \* the finalizer's E2eeSseTransformer
    broken,       \* the stream feeding the finalizer failed
    tail,         \* what the finalizer appended: "none", "success", "error"
    client,       \* what the client's parser makes of the wire
    result        \* "none", "signed", "unsigned", "sign_error", "e2ee_error", "dropped"

upstream == <<provider, reader, bridge, draft>>
finalizer == <<observer, transformer, broken, tail>>
vars == <<route, phase, sent, upstream, meter, finalizer, client, result>>

Routes == {r \in [mode : Modes, protocol : {"chat", "messages", "responses"},
                  conversion : {"none", "stateless", "chat_bridge"}, e2ee : BOOLEAN,
                  usable : BOOLEAN] :
             /\ r.mode = "direct" => r.conversion = "none"
             /\ r.conversion = "stateless" => r.protocol = "chat"
             /\ r.conversion = "chat_bridge" => r.protocol # "chat"
             /\ r.e2ee => r.protocol = "chat" /\ r.mode # "early"
             /\ ~r.usable => r.conversion = "chat_bridge"}

\* The text a provider of this route may send. An encrypted stream is CRLF or
\* LF framed; a lone CR is left to the streams in the clear.
Bytes(r) == {"data", "done", "error", "field", "comment", "half", "huge", "LF", "CR"}
            \union (IF r.conversion = "chat_bridge" THEN {"final"} ELSE {})
            \union (IF r.protocol = "responses" THEN {"maxseq"} ELSE {})

Sendable(byte) == route.e2ee /\ provider.p.cr => byte = "LF"

-----------------------------------------------------------------------------
(* Transforms: SseTransformStream applied to one event.                     *)

NewBridge == [made |-> FALSE, started |-> FALSE, finish |-> FALSE, error |-> FALSE, terminated |-> FALSE]

Event(kind) == Framed(<<"field", kind>>)

\* ChatStream::finish: the terminal; or an error, the upstream's or for a stream
\* without a choice or with tool calls nobody could make.
FinishBridge(b) ==
    [ok     |-> b.terminated \/ b.started,
     bridge |-> [b EXCEPT !.terminated = b.started],
     out    |-> IF b.terminated \/ ~b.started THEN <<>>
                ELSE Event(IF b.error \/ ~route.usable THEN "error" ELSE "done")]

ChatEvent(c, payload) ==
    LET b == [c EXCEPT !.made = TRUE] IN
    CASE payload = "done"                    -> FinishBridge(b)
      [] payload = "none" \/ b.terminated    -> [ok |-> TRUE, bridge |-> b, out |-> <<>>]
      [] payload = "junk"                    -> [ok |-> FALSE, bridge |-> b, out |-> <<>>]
      [] OTHER ->
           [ok     |-> TRUE,
            bridge |-> [b EXCEPT !.started = TRUE, !.finish = @ \/ payload = "final",
                                 !.error = @ \/ payload = "error"],
            out    |-> IF payload \in Content \/ ~b.started THEN Event("data") ELSE <<>>]

\* StreamTransform::apply, then the sanitizer, which re-frames every event.
Apply(b, lines) ==
    LET payload == Payload(lines) IN
    CASE route.conversion = "none" -> [ok |-> TRUE, bridge |-> b, out |-> Framed(lines)]
      [] route.conversion = "stateless" ->
           [ok |-> payload # "junk", bridge |-> b,
            out |-> IF payload \in {"none", "junk"} THEN <<>> ELSE Framed(<<payload>>)]
      [] OTHER -> ChatEvent(b, payload)

ApplyAll(b, events) ==
    IF events = <<>> THEN [ok |-> TRUE, bridge |-> b, out |-> <<>>] ELSE Apply(b, Head(events))

\* StreamTransform::end_of_stream, on a clean end only.
EndOfStream(b) ==
    IF ~b.made \/ b.terminated THEN [ok |-> TRUE, bridge |-> b, out |-> <<>>]
    ELSE IF ~b.finish /\ ~b.error THEN [ok |-> FALSE, bridge |-> b, out |-> <<>>]
    ELSE FinishBridge(b)

-----------------------------------------------------------------------------
(* Meter: emits complete lines, and judges the stream when it ends.         *)

NewMeter == [buf |-> <<>>, framing |-> NewObserver, error |-> FALSE, outcome |-> "none"]

LastLF(bytes) ==
    LET ends == {i \in 1..Len(bytes) : bytes[i] = "LF"} IN
    IF ends = {} THEN 0 ELSE CHOOSE i \in ends : \A j \in ends : j <= i

\* detect_outcome on every complete line of the run.
HasErrorLine(bytes) ==
    \E i \in DOMAIN bytes :
        /\ bytes[i] = "error"
        /\ i = 1 \/ bytes[i - 1] = "LF"
        /\ i = Len(bytes) \/ bytes[i + 1] = "LF"

\* process (and flush, when the stream ended): the meter, and what it lets through.
Metered(bytes, flush) ==
    LET all == meter.buf \o bytes
        cut == IF flush THEN Len(all) ELSE LastLF(all)
        out == SubSeq(all, 1, cut) IN
    [out |-> out,
     meter |-> [meter EXCEPT !.buf = SubSeq(all, cut + 1, Len(all)),
                             !.framing = ObserveAll(@, bytes),
                             !.error = @ \/ HasErrorLine(out)]]

\* protocol_outcome.
OutcomeOfFraming(m, clean) ==
    IF m.framing.terminal \/ (clean /\ AtBoundary(m.framing.p)) THEN "completed" ELSE "failed"
Outcome(m, clean) ==
    IF m.error \/ m.framing.error THEN "failed"
    ELSE IF m.framing.terminal \/ (clean /\ AtBoundary(m.framing.p) /\ ~m.framing.failed)
    THEN "completed" ELSE "failed"

\* settle: once.
Settle(m, outcome) ==
    IF m.outcome = "none" /\ route.mode # "direct" THEN [m EXCEPT !.outcome = outcome] ELSE m

-----------------------------------------------------------------------------
(* Finalizer: poll_finalizing_stream.                                       *)

\* What a chunk becomes on the wire, with the transformer's state and verdict.
Encrypted(bytes) ==
    IF route.e2ee THEN PushChunk(transformer, bytes) ELSE [transformer EXCEPT !.out = bytes]

\* The wire takes what t returned.
EmitWire(t) ==
    /\ transformer' = [t EXCEPT !.out = <<>>]
    /\ client' = IF t.ok THEN ReceiveAll(client, t.out) ELSE client
    /\ result' = IF t.ok THEN result ELSE "e2ee_error"

\* Poll a chunk that the meter (now m) let through; `ending` says whether the
\* stream ends behind it, cleanly or not. An encryption failure ends the body
\* there, and the meter is dropped with it.
Poll(bytes, m, ending) ==
    \E t \in {Encrypted(bytes)} :
    /\ EmitWire(t)
    /\ observer' = ObserveAll(observer, bytes)
    /\ broken' = (broken \/ (t.ok /\ ending = "broken"))
    /\ phase' = CASE ~t.ok -> "done" [] ending = "no" -> "streaming" [] OTHER -> "ended"
    /\ meter' = CASE ~t.ok          -> Settle(m, "failed")
                  [] ending = "no"  -> m
                  [] OTHER          -> Settle(m, Outcome(m, ending = "clean"))
    /\ UNCHANGED <<route, tail>>

\* take_synthesized_tail and the bytes of sse_protocol.
ErrorEvent ==
    IF route.protocol = "chat"
    THEN <<"LF", "LF", "error", "LF", "LF", "done", "LF", "LF">>
    ELSE <<"LF", "LF", "field", "LF", "error", "LF", "LF">>

TailAnywhere ==
    IF observer.terminal \/ observer.error \/ (~broken /\ route.protocol # "chat")
    THEN "none" ELSE IF broken THEN "error" ELSE "success"
TailIgnoresFailure ==
    IF observer.terminal \/ observer.error \/ observer.failed
       \/ ~AtBoundary(observer.p) \/ route.protocol # "chat"
    THEN "none" ELSE "success"
TailOnFailureOnly ==
    IF observer.terminal \/ observer.error \/ observer.failed
       \/ ~AtBoundary(observer.p) \/ ~broken
    THEN "none" ELSE "error"
SynthesizedTail ==
    IF \/ observer.terminal \/ observer.error
       \/ ~AtBoundary(observer.p) \/ observer.failed
       \/ ~broken /\ route.protocol # "chat"
       \/ broken /\ route.protocol = "responses" /\ observer.maxseq
    THEN "none" ELSE IF broken THEN "error" ELSE "success"

TailBytes(kind) ==
    CASE kind = "none" -> <<>> [] kind = "success" -> <<"done", "LF", "LF">>
      [] OTHER -> ErrorEvent

AppendTail ==
    /\ phase = "ended"
    /\ \E t \in {Encrypted(TailBytes(SynthesizedTail))} :
          EmitWire(t) /\ phase' = IF t.ok THEN "tailed" ELSE "done"
    /\ tail' = SynthesizedTail
    /\ UNCHANGED <<route, sent, upstream, meter, observer, broken>>

\* Only a stream that ended whole, on an event boundary, is finished.
FinishAnyway == ~broken
MayFinish == ~broken /\ ~observer.failed /\ AtBoundary(observer.p)

FlushTransformer ==
    /\ phase = "tailed"
    /\ \E t \in {IF route.e2ee /\ MayFinish THEN FinishTransformer(transformer) ELSE transformer} :
          EmitWire(t) /\ phase' = IF t.ok THEN "flushed" ELSE "done"
    /\ UNCHANGED <<route, sent, upstream, meter, observer, broken, tail>>

\* finalize_receipt: the middleware takes its draft from the journal and signs
\* nothing without one. Signing or storing may fail.
Sign ==
    /\ phase = "flushed"
    /\ phase' = "done"
    /\ \/ (route.mode = "direct" \/ draft) /\ result' \in {"signed", "sign_error"}
       \/ route.mode # "direct" /\ ~draft /\ result' = "unsigned"
    /\ UNCHANGED <<route, sent, upstream, meter, finalizer, client>>

-----------------------------------------------------------------------------
(* The provider, the keep-alive timer and the client.                       *)

\* The next chunk of the body, through every stage that is ready.
ProviderSends(byte) ==
    /\ phase = "streaming" /\ sent < MaxChunks
    /\ byte \in Bytes(route) /\ Sendable(byte)
    /\ sent' = sent + 1
    /\ provider' = Receive(provider, byte)
    /\ UNCHANGED draft
    /\ IF route.mode = "direct"
       THEN UNCHANGED <<reader, bridge>> /\ Poll(<<byte>>, meter, "no")
       ELSE \E a \in {ApplyAll(bridge, ReaderEvents(reader, byte))} :
            \E m \in {Metered(a.out, FALSE)} :
              /\ reader' = FeedReader(reader, byte)
              /\ bridge' = a.bridge
              /\ Poll(m.out, m.meter, IF byte = "huge" \/ ~a.ok THEN "broken" ELSE "no")

\* The body ends: the draft is published, the reader flushes its residual event,
\* a bridge closes what it left open.
ProviderEnds ==
    /\ phase = "streaming"
    /\ UNCHANGED <<sent, provider>>
    /\ IF route.mode = "direct"
       THEN UNCHANGED <<reader, bridge, draft>> /\ Poll(<<>>, meter, "clean")
       ELSE \E a \in {ApplyAll(bridge, ReaderFinish(reader))} :
            \E e \in {IF a.ok THEN EndOfStream(a.bridge) ELSE a} :
            \E m \in {Metered(IF a.ok THEN a.out \o e.out ELSE <<>>, e.ok)} :
              /\ draft' = TRUE
              /\ reader' = NewReader
              /\ bridge' = e.bridge
              /\ Poll(m.out, m.meter, IF e.ok THEN "clean" ELSE "broken")

\* The body fails: a transport error, the read deadline, or a draft that cannot be
\* published at its end. The error is passed on without a draft, and a held line
\* is dropped.
ProviderFails ==
    /\ phase = "streaming"
    /\ UNCHANGED <<sent, upstream>>
    /\ Poll(<<>>, [meter EXCEPT !.buf = <<>>], "broken")

KeepAliveComment == <<"comment", "LF", "LF">>

\* The first byte of an early response, and then the keep-alive, which fires
\* while every stage below it is pending.
Heartbeat ==
    /\ phase \in {"committed", "awaiting", "streaming"} /\ route.mode # "direct"
    /\ \E t \in {Encrypted(KeepAliveComment)} :
          /\ EmitWire(t)
          /\ phase' = CASE ~t.ok -> "done" [] phase = "committed" -> "awaiting" [] OTHER -> phase
          /\ meter' = IF t.ok THEN meter ELSE Settle(meter, "failed")
    /\ observer' = ObserveAll(observer, KeepAliveComment)
    /\ UNCHANGED <<route, sent, upstream, broken, tail>>

\* The forward awaited by an early response resolves.
ForwardAnswers ==
    /\ phase = "awaiting"
    /\ phase' = "streaming"
    /\ UNCHANGED <<route, sent, upstream, meter, finalizer, client, result>>

ForwardFails ==
    /\ phase = "awaiting"
    /\ UNCHANGED <<sent, upstream>>
    /\ Poll(ErrorEvent, Settle(meter, "failed"), "clean")

\* The client goes away and the chain is dropped.
DropsUnsettled ==
    /\ phase # "done"
    /\ phase' = "done"
    /\ result' = "dropped"
    /\ UNCHANGED <<route, sent, upstream, meter, finalizer, client>>
ClientDrops ==
    /\ phase # "done"
    /\ phase' = "done"
    /\ result' = "dropped"
    /\ meter' = Settle(meter, "closed")
    /\ UNCHANGED <<route, sent, upstream, finalizer, client>>

Init ==
    /\ route \in Routes
    /\ phase = IF route.mode = "early" THEN "committed" ELSE "streaming"
    /\ sent = 0
    /\ provider = NewReceiver /\ reader = NewReader /\ bridge = NewBridge /\ draft = FALSE
    /\ meter = NewMeter
    /\ observer = NewObserver /\ transformer = NewTransformer
    /\ broken = FALSE /\ tail = "none"
    /\ client = NewReceiver
    /\ result = "none"

Next ==
    \/ \E byte \in DataKinds \union Terminators
                   \union {"field", "comment", "half", "huge"} : ProviderSends(byte)
    \/ ProviderEnds \/ ProviderFails
    \/ Heartbeat
    \/ ForwardAnswers \/ ForwardFails
    \/ AppendTail \/ FlushTransformer \/ Sign
    \/ ClientDrops

Spec == Init /\ [][Next]_vars

-----------------------------------------------------------------------------
(* Properties.                                                              *)

\* The body was read to its end and nothing cut it short on the gateway's side.
Finished == result \in {"signed", "unsigned", "sign_error"}

Saw(c, kind) == \E i \in DOMAIN c.events : c.events[i] = kind

\* A synthesized tail (streaming.rs take_synthesized_tail) lands where the
\* client's own parser is between two events, and only on a client that has been
\* told neither a terminal nor an error; it is appended at most once.
TailAtBoundary ==
    [][tail' # tail =>
         /\ AtBoundary(client.p) /\ ~Saw(client, "done") /\ ~Saw(client, "error")
         /\ tail = "none"]_vars

\* What the client is owed: the events the provider completed and, from a stream
\* that passed the event reader and ended cleanly, the one it left open.
Owed == IF route.mode = "direct" \/ broken THEN provider.events
        ELSE ReceiveAll(provider, <<"LF", "LF", "LF">>).events

TailEvents == ReceiveAll(NewReceiver, TailBytes(tail)).events

\* An encrypted stream cut between the CR and the LF of one terminator: the
\* transformer waits for the LF, the observer does not.
Torn == route.e2ee /\ provider.p.cr

\* A same-format stream reaches the client event for event: no heartbeat, no
\* re-framing, no encryption pass and no flush at the end splits, merges, drops or
\* invents one, whatever the chunking. Left out: an early response, which may
\* carry an error event of the gateway's own; an encrypted stream cut inside a
\* CR LF (Torn); and an encrypted direct stream that stops inside an event after
\* its terminal, where the observer no longer reads.
RelayedExactly ==
    Finished /\ ~Torn /\ route.conversion = "none" /\ route.mode # "early"
        /\ ~(route.e2ee /\ route.mode = "direct" /\ ~AtBoundary(provider.p)
                 /\ (observer.terminal \/ observer.error))
    => client.events = Owed \o TailEvents

\* The usage report and the body tell one story (sse.rs protocol_outcome, "agrees
\* with what the finalizer does to the body"): a success terminator is added only
\* to a stream metered as completed, an error only to one metered as failed, and
\* no stream metered as completed showed the client an error. Left out of the
\* first part: an error line that shares its event with another data line, which
\* is no error to a reader of events but is one to the meter's reader of lines.
MeterAgrees ==
    Finished /\ route.mode # "direct" =>
        /\ tail = "success" =>
             meter.outcome = "completed" \/ (meter.error /\ ~meter.framing.error)
        /\ tail = "error" => meter.outcome = "failed"
        /\ Saw(client, "error") => meter.outcome = "failed"

\* A stream that broke before the provider's terminal never reads as a complete
\* response: a terminal the client gets from it comes with an error. A bridge that
\* already knows its finish reason does not close the stream on a failure.
TruncationVisible ==
    Finished /\ broken /\ ~Saw(provider, "done") /\ Saw(client, "done") => Saw(client, "error")

\* A chat client that reads a whole stream always finds out how it ended, unless
\* the stream stops inside an event or could not be observed.
ChatEndsTold ==
    Finished /\ ~Torn /\ route.protocol = "chat" /\ AtBoundary(observer.p) /\ ~observer.failed
    => Saw(client, "done") \/ Saw(client, "error")

\* Whichever way a body behind the middleware is over (a clean end, an error, a
\* refused event, an encryption failure, a client that left), it is metered
\* before its last bytes go out, and is booked as abandoned only if the client
\* really left (MeterStream settle and drop).
EveryEndMetered ==
    route.mode # "direct" =>
        /\ phase \in {"ended", "tailed", "flushed", "done"} => meter.outcome # "none"
        /\ meter.outcome = "closed" => result = "dropped"

\* A broken stream that is read to its end is signed too (the comment on
\* finalize_receipt in poll_finalizing_stream).
BrokenStreamSigned == Finished /\ broken => result # "unsigned"

=============================================================================
