----------------------------- MODULE SseFraming -----------------------------
(***************************************************************************)
(* How the gateway cuts a byte stream into server-sent events.  A chunk is *)
(* reduced to what the readers tell apart:                                 *)
(*   "LF", "CR"       the two terminator bytes;                            *)
(*   "data"           a whole `data:` line holding a JSON chunk with ids;  *)
(*   "final"          such a line whose chunk declares a finish reason;    *)
(*   "maxseq"         such a line numbered u64::MAX;                       *)
(*   "done"           the line that is the protocol's terminal;            *)
(*   "error"          a `data:` line holding an in-band error;             *)
(*   "field"          another field line (`event:`, `id:`);                *)
(*   "comment"        a `:` line;                                          *)
(*   "half"           half of a data line: two of them make "data";        *)
(*   "huge"           text that runs past the 16 MiB reassembly cap;       *)
(*   "junk"           a data line whose payload is not JSON.               *)
(* An open line is summarised the same way, with "" for an empty one.      *)
(***************************************************************************)
EXTENDS Naturals, Sequences

\* The member of a singleton. Reading a state through one makes TLC compute it
\* once, not at each use.
The(S) == CHOOSE x \in S : TRUE

Terminators == {"LF", "CR"}
Content == {"data", "final", "maxseq"}
DataKinds == Content \union {"done", "error", "junk"}

\* The open line after `text` is appended to it.
AddText(line, text) ==
    CASE line = ""                         -> IF text = "huge" THEN "junk" ELSE text
      [] line = "half" /\ text = "half"    -> "data"
      [] line \in {"comment", "field"}     -> line
      [] OTHER                             -> "junk"

\* What a terminated line is: half a JSON payload does not parse.
Kind(line) == IF line = "half" THEN "junk" ELSE line

\* The payload of an event's `data:` lines so far. Two JSON documents joined by
\* a newline are not one.
AddData(event, kind) == IF event = "none" THEN kind ELSE "junk"

-----------------------------------------------------------------------------
(* The line discipline of the WHATWG parser, which SseFramingObserver       *)
(* follows: LF, CRLF and a lone CR end a line, a blank line dispatches.     *)

EmptyParser == [line |-> "", event |-> "none", mid |-> FALSE, cr |-> FALSE]

EndLine(p, byte) ==
    LET kind == Kind(p.line) IN
    [line  |-> "",
     event |-> CASE kind = ""           -> "none"
                 [] kind \in DataKinds  -> AddData(p.event, kind)
                 [] OTHER               -> p.event,
     mid   |-> kind # "" /\ (p.mid \/ kind # "comment"),
     cr    |-> byte = "CR"]

\* One byte of the observer's loop, before it looks at the event.
Feed(p, byte) ==
    IF p.cr /\ byte = "LF" THEN [p EXCEPT !.cr = FALSE]
    ELSE IF byte \in Terminators THEN EndLine(p, byte)
    ELSE [p EXCEPT !.line = AddText(@, byte), !.cr = FALSE]

\* The event that byte dispatches, if any.
Dispatched(p, byte) ==
    IF byte \in Terminators /\ p.line = "" /\ ~(p.cr /\ byte = "LF") THEN p.event ELSE "none"

AtBoundary(p) == p.line = "" /\ ~p.mid

-----------------------------------------------------------------------------
(* SseFramingObserver.                                                      *)

NewObserver == [p |-> EmptyParser, terminal |-> FALSE, error |-> FALSE, ids |-> FALSE,
                maxseq |-> FALSE, failed |-> FALSE]

\* Nothing left to learn: it stops reading.
Done(o) == o.failed \/ (o.ids /\ (o.terminal \/ o.error))

Observe(o, byte) ==
    IF Done(o) THEN o
    ELSE IF byte = "huge"
    THEN [o EXCEPT !.failed = TRUE, !.p.line = "", !.p.event = "none", !.p.cr = FALSE]
    ELSE LET event == Dispatched(o.p, byte) IN
         [p        |-> Feed(o.p, byte),
          terminal |-> o.terminal \/ event = "done",
          error    |-> o.error \/ event = "error",
          ids      |-> o.ids \/ event \in Content,
          maxseq   |-> o.maxseq \/ event = "maxseq",
          failed   |-> FALSE]

RECURSIVE ObserveAll(_, _)
ObserveAll(o, bytes) ==
    IF bytes = <<>> THEN o
    ELSE The({ObserveAll(n, Tail(bytes)) : n \in {Observe(o, Head(bytes))}})

-----------------------------------------------------------------------------
(* The reader at the other end of the wire, and the provider's own view of  *)
(* what it sent: the events dispatched, in order.                           *)

NewReceiver == [p |-> EmptyParser, events |-> <<>>]

Receive(c, byte) ==
    LET event == Dispatched(c.p, byte) IN
    [p |-> Feed(c.p, byte),
     events |-> IF event = "none" THEN c.events ELSE Append(c.events, event)]

RECURSIVE ReceiveAll(_, _)
ReceiveAll(c, bytes) ==
    IF bytes = <<>> THEN c
    ELSE The({ReceiveAll(n, Tail(bytes)) : n \in {Receive(c, Head(bytes))}})

-----------------------------------------------------------------------------
(* SseEventReader: cuts the provider's bytes into whole events, each a      *)
(* sequence of lines, comments included.                                    *)

NewReader == [lines |-> <<>>, line |-> "", cr |-> FALSE]

FeedReader(r, byte) ==
    IF r.cr /\ byte = "LF" THEN [r EXCEPT !.cr = FALSE]
    ELSE IF byte \notin Terminators THEN [r EXCEPT !.line = AddText(@, byte), !.cr = FALSE]
    ELSE IF r.line = "" THEN [NewReader EXCEPT !.cr = (byte = "CR")]
    ELSE [lines |-> Append(r.lines, Kind(r.line)), line |-> "", cr |-> byte = "CR"]

\* The events that byte completes: none, or the pending one.
ReaderEvents(r, byte) ==
    IF byte \in Terminators /\ r.line = "" /\ r.lines # <<>> /\ ~(r.cr /\ byte = "LF")
    THEN <<r.lines>> ELSE <<>>

\* The residual a clean end of stream still dispatches.
ReaderFinish(r) ==
    LET rest == IF r.line = "" THEN r.lines ELSE Append(r.lines, Kind(r.line)) IN
    IF rest = <<>> THEN <<>> ELSE <<rest>>

\* framed_event: every line terminated, and the blank line that dispatches it.
Framed(lines) ==
    [i \in 1..(2 * Len(lines)) |-> IF i % 2 = 1 THEN lines[(i + 1) \div 2] ELSE "LF"] \o <<"LF">>

\* The payload parse_event reads out of an event's lines.
Payload(lines) ==
    LET data == SelectSeq(lines, LAMBDA l : l \in DataKinds) IN
    CASE data = <<>> -> "none" [] Len(data) = 1 -> Head(data) [] OTHER -> "junk"

-----------------------------------------------------------------------------
(* E2eeSseTransformer: its own line reader, which splits on LF alone and    *)
(* drops one CR before it.  An event that is not JSON cannot be encrypted.  *)

NewTransformer == [lines |-> <<>>, line |-> "", cr |-> FALSE, out |-> <<>>, ok |-> TRUE]

DispatchEncrypted(t) ==
    LET payload == Payload(t.lines)
        others == SelectSeq(t.lines, LAMBDA l : l \notin DataKinds) IN
    CASE t.lines = <<>>   -> t
      [] payload = "none" -> [t EXCEPT !.lines = <<>>, !.out = @ \o Framed(t.lines)]
      [] payload = "junk" -> [t EXCEPT !.lines = <<>>, !.ok = FALSE]
      [] OTHER            -> [t EXCEPT !.lines = <<>>,
                                       !.out = @ \o Framed(Append(others, payload))]

TransformLine(t) ==
    LET s == [t EXCEPT !.line = "", !.cr = FALSE] IN
    IF t.line = "" THEN DispatchEncrypted(s)
    ELSE [s EXCEPT !.lines = Append(@, Kind(t.line))]

TransformByte(t, byte) ==
    IF ~t.ok THEN t
    ELSE IF byte = "LF" THEN TransformLine(t)
    ELSE IF byte = "CR" THEN [t EXCEPT !.cr = TRUE]
    ELSE [t EXCEPT !.line = IF t.cr THEN "junk" ELSE AddText(@, byte), !.cr = FALSE]

\* push_chunk and finish, with the bytes they return in `out`.
RECURSIVE TransformAll(_, _)
TransformAll(t, bytes) ==
    IF bytes = <<>> THEN t
    ELSE The({TransformAll(n, Tail(bytes)) : n \in {TransformByte(t, Head(bytes))}})

PushChunk(t, bytes) == TransformAll([t EXCEPT !.out = <<>>], bytes)

FinishTransformer(t) ==
    LET s == [t EXCEPT !.out = <<>>] IN
    DispatchEncrypted(IF s.line # "" \/ s.cr THEN TransformLine(s) ELSE s)

=============================================================================
