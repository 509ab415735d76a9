----------------------------- MODULE MultipartStream -----------------------------
(***************************************************************************)
(* A response of positional multipart items read as it arrives             *)
(* (src/typescript/src/openapi32-sequential-response.ts streamMultipart,   *)
(* MultipartByteReader).  The bytes are those the reading tells apart:     *)
(* "cr", "lf", "-", " ", ":", "b" (the boundary), "x" (any other) and "!"  *)
(* (one that makes its part undecodable, whatever the coding, the charset  *)
(* or the media type that says so).  A reader holds the bytes pending and  *)
(* the chunks to come.  The limit is that of a delivered unit; the one on  *)
(* a part's headers is the preamble's too.                                 *)
(***************************************************************************)
EXTENDS Naturals, Sequences, FiniteSets, SequencesExt

EOL == <<"cr", "lf">>
Marker == <<"-", "-", "b">>
Between == EOL \o Marker

(***************************************************************************)
(* The reader.  A read is [ok, bytes, reader].                             *)
(***************************************************************************)
Reader(chunks) == [pending |-> <<>>, rest |-> chunks]
ReadMore(reader) == [pending |-> reader.pending \o Head(reader.rest), rest |-> Tail(reader.rest)]

IndexOf(bytes, delimiter) ==
    LET at == {i \in 1..(Len(bytes) - Len(delimiter) + 1) :
                  SubSeq(bytes, i, i + Len(delimiter) - 1) = delimiter}
    IN IF at = {} THEN 0 ELSE CHOOSE i \in at : \A j \in at : i <= j

ReadFails(reader) == [ok |-> FALSE, bytes |-> <<>>, reader |-> reader]
Got(bytes, reader) == [ok |-> TRUE, bytes |-> bytes, reader |-> reader]

(* Mutant: what is pending is released whole when no delimiter is in it.    *)
RetainNothing(pending, delimiter) == 0

(* What may be the beginning of a delimiter stays pending.                  *)
Retain(pending, delimiter) ==
    IF Len(pending) < Len(delimiter) - 1 THEN Len(pending) ELSE Len(delimiter) - 1

RECURSIVE ReadUntil(_, _, _, _)
ReadUntil(reader, delimiter, limit, taken) ==
    LET found == IndexOf(reader.pending, delimiter)
        cut == IF found > 0 THEN found - 1 ELSE Len(reader.pending) - Retain(reader.pending, delimiter)
        bytes == taken \o SubSeq(reader.pending, 1, cut)
        after == IF found > 0 THEN cut + Len(delimiter) ELSE cut
        left == [reader EXCEPT !.pending = SubSeq(@, after + 1, Len(@))]
    IN IF Len(bytes) > limit THEN ReadFails(reader)
       ELSE IF found > 0 THEN Got(bytes, left)
       ELSE IF left.rest = <<>> THEN ReadFails(left)
       ELSE ReadUntil(ReadMore(left), delimiter, limit, bytes)

RECURSIVE ReadByte(_)
ReadByte(reader) ==
    IF reader.pending # <<>>
    THEN Got(<<Head(reader.pending)>>, [reader EXCEPT !.pending = Tail(@)])
    ELSE IF reader.rest = <<>> THEN ReadFails(reader) ELSE ReadByte(ReadMore(reader))

(***************************************************************************)
(* What follows a delimiter: "--" closes; blanks and a line's end open the *)
(* next part.                                                              *)
(***************************************************************************)
RECURSIVE Blanks(_)
Blanks(reader) ==
    LET one == ReadByte(reader)
    IN IF one.ok /\ one.bytes = <<" ">> THEN Blanks(one.reader) ELSE one

Ending(is, reader) == [is |-> is, reader |-> reader]
BoundaryEnding(reader) ==
    LET first == ReadByte(reader)
        open == Blanks(reader)
        second == ReadByte((IF first.bytes = <<"-">> THEN first ELSE open).reader)
    IN IF first.ok /\ first.bytes = <<"-">>
       THEN Ending(IF second.ok /\ second.bytes = <<"-">> THEN "close" ELSE "invalid", second.reader)
       ELSE Ending(IF open.ok /\ open.bytes = <<"cr">> /\ second.ok /\ second.bytes = <<"lf">>
                   THEN "part" ELSE "invalid", second.reader)

(***************************************************************************)
(* The parts.  media is [item, prefix, items]: names of schemas, item ""   *)
(* when the media type has no itemSchema.                                  *)
(***************************************************************************)
RECURSIVE Lines(_)
Lines(bytes) ==
    LET end == IndexOf(bytes, EOL)
    IN IF end = 0 THEN <<bytes>>
       ELSE <<SubSeq(bytes, 1, end - 1)>> \o Lines(SubSeq(bytes, end + 2, Len(bytes)))

WellFormedHeaders(bytes) == \A line \in Range(Lines(bytes)) : IndexOf(line, <<":">>) > 1

PositionalItemSchema(media, index) ==
    IF media.item # "" THEN media.item
    ELSE IF index <= Len(media.prefix) THEN media.prefix[index] ELSE media.items

Decodable(body) == ~Contains(body, "!")

Outcome(is, items) == [is |-> is, items |-> items]

RECURSIVE Parts(_, _, _, _)
Parts(reader, media, limit, items) ==
    LET headers == ReadUntil(reader, EOL \o EOL, limit.headers, <<>>)
        body == ReadUntil(headers.reader, Between, limit.unit, <<>>)
        item == [value |-> body.bytes, schema |-> PositionalItemSchema(media, Len(items) + 1)]
        ending == BoundaryEnding(body.reader)
    IN IF ~headers.ok THEN Outcome("failed", items)
       ELSE IF ~WellFormedHeaders(headers.bytes) THEN Outcome("failed", items)
       ELSE IF ~body.ok THEN Outcome("failed", items)
       ELSE IF ~Decodable(body.bytes) THEN Outcome("failed", items)
       ELSE CASE ending.is = "close" -> Outcome("closed", Append(items, item))
              [] ending.is = "invalid" -> Outcome("failed", Append(items, item))
              [] ending.is = "part" -> Parts(ending.reader, media, limit, Append(items, item))

StreamMultipart(chunks, media, limit) ==
    LET preamble == ReadUntil(Reader(chunks), Marker, limit.headers, <<>>)
        ending == BoundaryEnding(preamble.reader)
    IN IF ~preamble.ok THEN Outcome("failed", <<>>)
       ELSE CASE ending.is = "close" -> Outcome("closed", <<>>)
              [] ending.is = "invalid" -> Outcome("failed", <<>>)
              [] ending.is = "part" -> Parts(ending.reader, media, limit, <<>>)

(***************************************************************************)
(* A sender's stream: parts are [headers, body], with a header at least.   *)
(***************************************************************************)
Sender(preamble, parts, padding) ==
    LET written(p) == padding \o EOL \o p.headers \o EOL \o EOL \o p.body \o Between
    IN preamble \o Marker \o FlattenSeq([i \in DOMAIN parts |-> written(parts[i])]) \o <<"-", "-">>

(* The cut of a sequence at a set of places.                                *)
Chunks(bytes, cuts) ==
    LET ends == SetToSortSeq(cuts \cup {Len(bytes)}, <)
    IN [i \in DOMAIN ends |-> SubSeq(bytes, IF i = 1 THEN 1 ELSE ends[i - 1] + 1, ends[i])]

(***************************************************************************)
(* However the network cuts the response, the same items come out, and the *)
(* same end: those the sender wrote, each under the schema of its position *)
(* and none past the unit limit; an undecodable or oversized part ends the *)
(* stream after the items before it; and of a stream cut short every item  *)
(* whose delimiter arrived is delivered before the failure                 *)
(* (openapi32-sequential-response.ts streamMultipart and                   *)
(* MultipartByteReader.readUntil).                                         *)
(***************************************************************************)
PartsAreTheSenders(preamble, parts, padding, media, limit, cuts, last) ==
    LET bytes == Sender(preamble, parts, padding)
        whole == StreamMultipart(Chunks(bytes, cuts \ {0}), media, limit)
        arrived == SubSeq(bytes, 1, last)
        short == StreamMultipart(Chunks(arrived, cuts \cap 1..last), media, limit)
        good == SelectInSeq(parts, LAMBDA p : ~Decodable(p.body) \/ Len(p.body) > limit.unit)
        expected == IF good = 0 THEN parts ELSE SubSeq(parts, 1, good - 1)
        items == [i \in DOMAIN expected |-> [value |-> expected[i].body, schema |-> PositionalItemSchema(media, i)]]
        complete(i) == Len(Sender(preamble, SubSeq(parts, 1, i), padding)) - 2 <= last
    IN /\ whole = Outcome(IF good = 0 THEN "closed" ELSE "failed", items)
       /\ last < Len(bytes) =>
             /\ short.is = "failed" /\ IsPrefix(short.items, items)
             /\ \A i \in DOMAIN items : i <= Len(short.items) <=> complete(i)
=============================================================================
