---------------------------- MODULE StreamFraming ----------------------------
(***************************************************************************)
(* A streamed response is cut into delivery units: server-sent events      *)
(* (src/typescript/src/sse.ts), JSON lines and JSON text sequences         *)
(* (openapi32-sequential-response.ts).  The bytes arrive in chunks that    *)
(* respect nothing, the connection may be cut, and a unit is bounded.      *)
(*                                                                         *)
(* A byte is [at, sort]: its place in the stream, so that a value says     *)
(* where it came from, and what the framing sees of it.                    *)
(***************************************************************************)
EXTENDS Naturals, Sequences, FiniteSets, SequencesExt

CONSTANT Streams           \* what servers send, and the delivery unit's limit

ASSUME FramingAssumption ==
    Streams \subseteq [framing : {"sse", "lines", "sequence"},
                       sorts : Seq({"data", "id", "comment", "value", "junk", "CR", "LF", "RS"}),
                       limit : Nat \ {0}]

VARIABLES stream, arrived, \* the stream and how much of it was read
          buffer,          \* what no delivery unit has taken yet
          event,           \* the event or the items so far
          units,           \* what was emitted
          fate             \* open, closed, failed, cut

framingVars == <<stream, arrived, buffer, event, units, fate>>

Bytes(s) == [p \in 1 .. Len(s.sorts) |-> [at |-> p, sort |-> s.sorts[p]]]
Is(b, p, sort) == b[p].sort = sort
WithoutLast(line, sort) ==
    IF line # <<>> /\ Is(line, Len(line), sort) THEN Front(line) ELSE line

(***************************************************************************)
(* Lines.  A CR at the end of what has arrived may be half of a CRLF.      *)
(***************************************************************************)
(* Mutant: such a CR ends its line at once.                                 *)
EagerEnds(b, atEnd) ==
    {p \in DOMAIN b : \/ Is(b, p, "LF")
                      \/ Is(b, p, "CR") /\ ~(p < Len(b) /\ Is(b, p + 1, "LF"))}

LineEnds(b, atEnd) ==
    {p \in DOMAIN b : \/ Is(b, p, "LF")
                      \/ Is(b, p, "CR") /\ IF p = Len(b) THEN atEnd ELSE ~Is(b, p + 1, "LF")}

FeedEnds(b) == {p \in DOMAIN b : Is(b, p, "LF")}
RecordEnds(b) == {p \in DOMAIN b : p < Len(b) /\ Is(b, p + 1, "RS")}

(***************************************************************************)
(* Server-sent events.                                                     *)
(***************************************************************************)
FreshEvent == [data |-> <<>>, id |-> <<>>, bytes |-> 0, units |-> <<>>, failed |-> FALSE]

Dispatched(e) ==
    [e EXCEPT !.data = <<>>, !.bytes = 0,
              !.units = IF e.data = <<>> THEN @ ELSE Append(@, [data |-> e.data, id |-> e.id])]

ProcessLine(limit, e, line) ==
    LET counted == [e EXCEPT !.bytes = @ + Len(line) + 1]
    IN IF e.failed THEN e
       ELSE IF counted.bytes > limit THEN [e EXCEPT !.failed = TRUE]
       ELSE IF line = <<>> THEN Dispatched(counted)
       ELSE CASE Is(line, 1, "data") -> [counted EXCEPT !.data = Append(@, line)]
              [] Is(line, 1, "id") -> [counted EXCEPT !.id = line]
              [] OTHER -> counted

Line(piece) == WithoutLast(IF Is(piece, Len(piece), "LF") THEN Front(piece) ELSE piece, "CR")

(***************************************************************************)
(* JSON items: one value, with white space around it.                      *)
(***************************************************************************)
JSONItem(item) == \E v \in DOMAIN item : /\ Is(item, v, "value")
                                         /\ \A p \in DOMAIN item \ {v} : item[p].sort \in {"CR", "LF"}

EmitItem(limit, e, item) ==
    IF e.failed \/ Len(item) > limit \/ ~JSONItem(item) THEN [e EXCEPT !.failed = TRUE]
    ELSE [e EXCEPT !.units = Append(@, item)]

JSONLine(piece) == WithoutLast(WithoutLast(piece, "LF"), "CR")
JSONRecord(limit, e, piece) ==
    IF Is(piece, 1, "RS") THEN EmitItem(limit, e, WithoutLast(WithoutLast(Tail(piece), "LF"), "CR"))
    ELSE [e EXCEPT !.failed = TRUE]

(***************************************************************************)
(* One round of a reader: it takes each piece that the buffer completes,   *)
(* one after the other, and leaves what begins at from.                    *)
(***************************************************************************)
Complete(s, b, atEnd) ==
    CASE s.framing = "sse" -> LineEnds(b, atEnd)
      [] s.framing = "lines" -> FeedEnds(b)
      [] s.framing = "sequence" -> RecordEnds(b)

Take(s, e, piece) ==
    CASE s.framing = "sse" -> ProcessLine(s.limit, e, Line(piece))
      [] s.framing = "lines" -> EmitItem(s.limit, e, JSONLine(piece))
      [] s.framing = "sequence" -> JSONRecord(s.limit, e, piece)

TakeUpTo(s, d, b, k) == [event |-> Take(s, d.event, SubSeq(b, d.from, k)), from |-> k + 1]

Drain(s, e, b, atEnd) ==
    LET drained[k \in 0 .. Len(b)] ==
            IF k = 0 THEN [event |-> e, from |-> 1]
            ELSE IF k \in Complete(s, b, atEnd) THEN TakeUpTo(s, drained[k - 1], b, k) ELSE drained[k - 1]
    IN drained[Len(b)]

Rest(b, drained) == SubSeq(b, drained.from, Len(b))

(* An unfinished item that can only grow too long, or begins wrongly.       *)
Hopeless(s, rest) ==
    \/ s.framing = "lines" /\ Len(rest) > s.limit + 1
    \/ s.framing = "sequence" /\ Len(rest) > s.limit + 3
    \/ s.framing = "sequence" /\ rest # <<>> /\ ~Is(rest, 1, "RS")

Opens(s) == /\ stream = s
            /\ arrived = 0 /\ buffer = <<>> /\ units = <<>> /\ event = FreshEvent /\ fate = "open"
FramingInit == \E s \in Streams : Opens(s)

Arrive ==
    /\ fate = "open" /\ arrived < Len(stream.sorts)
    /\ \E upTo \in arrived + 1 .. Len(stream.sorts) :
          LET b == buffer \o SubSeq(Bytes(stream), arrived + 1, upTo)
              drained == Drain(stream, event, b, FALSE)
          IN /\ arrived' = upTo
             /\ event' = drained.event /\ units' = drained.event.units /\ buffer' = Rest(b, drained)
             /\ fate' = IF drained.event.failed \/ Hopeless(stream, Rest(b, drained)) THEN "failed" ELSE "open"
    /\ UNCHANGED stream

(* What the end completes; an event without its blank line is discarded, an *)
(* item without its terminator is an item.                                  *)
EndOfStream ==
    /\ fate = "open" /\ arrived = Len(stream.sorts)
    /\ LET drained == Drain(stream, event, buffer, TRUE)
           rest == Rest(buffer, drained)
           e == IF rest = <<>> THEN drained.event ELSE Take(stream, drained.event, rest)
       IN /\ event' = e /\ units' = e.units /\ buffer' = <<>>
          /\ fate' = IF e.failed THEN "failed" ELSE "closed"
    /\ UNCHANGED <<stream, arrived>>

(* The connection is cut or the invocation is cancelled: nothing pending is *)
(* flushed.                                                                 *)
CutOff == /\ fate = "open"
          /\ fate' = "cut" /\ buffer' = <<>>
          /\ UNCHANGED <<stream, arrived, event, units>>

FramingDone == fate # "open" /\ UNCHANGED framingVars

FramingNext == Arrive \/ EndOfStream \/ CutOff \/ FramingDone

FramingSpec == FramingInit /\ [][FramingNext]_framingVars

(***************************************************************************)
(* What a stream says, read as a whole by its grammar.                     *)
(***************************************************************************)
Breaks(b) == {p \in DOMAIN b : b[p].sort \in {"CR", "LF"}
                               /\ ~(Is(b, p, "CR") /\ p < Len(b) /\ Is(b, p + 1, "LF"))}
LineOf(b, p) == {q \in DOMAIN b : q < p /\ b[q].sort \notin {"CR", "LF"}
                                  /\ \A r \in Breaks(b) : r < p => r < q}
BlankBreaks(b) == {p \in Breaks(b) : LineOf(b, p) = {}}
StartsWith(b, p, sort) == \E q \in LineOf(b, p) : Is(b, q, sort) /\ \A r \in LineOf(b, p) : q <= r

(* The events of a stream whose every event is within the limit: at each    *)
(* blank line with data since the last one, that data in its order and the  *)
(* last identifier.                                                         *)
DataBefore(b, p) == {q \in Breaks(b) : /\ q < p /\ StartsWith(b, q, "data")
                                       /\ \A r \in BlankBreaks(b) : r < p => r < q}
LastId(b, p) == {q \in Breaks(b) : /\ q < p /\ StartsWith(b, q, "id")
                                   /\ ~\E r \in Breaks(b) : q < r /\ r < p /\ StartsWith(b, r, "id")}
EventAt(b, p) == [data |-> DataBefore(b, p), id |-> LastId(b, p)]
Events(b) == {EventAt(b, p) : p \in {r \in BlankBreaks(b) : DataBefore(b, r) # {}}}

BreakAfter(b, line) ==
    CHOOSE p \in Breaks(b) : line[Len(line)].at < p /\ \A q \in Breaks(b) : line[Len(line)].at < q => p <= q
AsEvent(b, u) == [data |-> {BreakAfter(b, u.data[k]) : k \in DOMAIN u.data},
                  id |-> IF u.id = <<>> THEN {} ELSE {BreakAfter(b, u.id)}]

InOrder(lines) == \A i, j \in DOMAIN lines : i < j => lines[i][1].at < lines[j][1].at
AllBefore(lines, others) == \A i \in DOMAIN lines, j \in DOMAIN others : lines[i][1].at < others[j][1].at

Values(b) == {p \in DOMAIN b : Is(b, p, "value")}
ValueAt(item) == item[CHOOSE p \in DOMAIN item : Is(item, p, "value")].at

(***************************************************************************)
(* Properties.                                                             *)
(***************************************************************************)

(* Wherever the chunks fall, what is emitted is what the stream's grammar   *)
(* says: each event once, in order and with all its data in order, none     *)
(* from an event that was cut; and a JSON stream that closes gave every     *)
(* value (sse.ts drainLines, openapi32-sequential-response.ts).             *)
EventsAreTheGrammars(b) ==
    /\ \A k \in DOMAIN units : AsEvent(b, units[k]) \in Events(b) /\ InOrder(units[k].data)
    /\ \A j, k \in DOMAIN units : j < k => AllBefore(units[j].data, units[k].data)
    /\ fate = "closed" => \A e \in Events(b) : \E k \in DOMAIN units : AsEvent(b, units[k]) = e

ItemsAreTheValues(b) ==
    /\ \A j, k \in DOMAIN units : j < k => ValueAt(units[j]) < ValueAt(units[k])
    /\ \A k \in DOMAIN units : \A v \in Values(b) : v < ValueAt(units[k]) => \E j \in DOMAIN units : ValueAt(units[j]) = v
    /\ fate = "closed" => /\ Values(b) = {ValueAt(units[k]) : k \in DOMAIN units}
                          /\ \A p \in DOMAIN b : ~Is(b, p, "junk")

ChunksDoNotMatter ==
    IF stream.framing = "sse" THEN EventsAreTheGrammars(Bytes(stream)) ELSE ItemsAreTheValues(Bytes(stream))
=============================================================================
