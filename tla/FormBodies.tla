------------------------------- MODULE FormBodies -------------------------------
(***************************************************************************)
(* One property of a form request body (src/typescript/src/media.ts,       *)
(* openapi32-media.ts, resolved-media.ts, resolved-declaration.ts): is its *)
(* declaration admitted, does it need a propertyMedia choice, and which    *)
(* parts or units does a value become.  Properties are carried one by one; *)
(* a property with an explicit style is ParameterStyles' affair.           *)
(*                                                                         *)
(* A property is [kind, array, nullable, required, media]: its resolved    *)
(* type (or its items' type, when it is an array) is text, number, object, *)
(* binary (format: binary), encoded (an artifact-encoded string), any (no  *)
(* type), union (a choice that does not collapse), array (nested) or never *)
(* (no instance; never an array of it); media is its Encoding contentType: *)
(* none, json, text, octets, or many when that names no single type.  A     *)
(* value is [is, items] with is null, str, oct (a canonical Base64         *)
(* string), num, obj or array.                                             *)
(***************************************************************************)
EXTENDS Naturals, Sequences

CONSTANT FormCases        \* [lane, version, property, chosen, value]

NoType == "none"
Typed == {"json", "text", "octets"}

ASSUME FormAssumption ==
    \A c \in FormCases :
        /\ c.lane \in {"multipart", "urlencoded"} /\ c.version \in {"3.0", "3.1", "3.2"}
        /\ c.property \in
              [kind : {"text", "number", "object", "binary", "encoded", "any", "union", "array", "never"},
               array : BOOLEAN, nullable : BOOLEAN, required : BOOLEAN, media : Typed \cup {NoType, "many"}]
        /\ c.property.kind = "never" => c.property.array = FALSE
        /\ c.chosen \in Typed \cup {NoType}
        /\ c.value.items \in Seq({c.value.items[i] : i \in DOMAIN c.value.items})

VARIABLE forming          \* the case that is sent; none in another use of the module

Old(version) == version = "3.0"
Strings == {"str", "oct"}

(***************************************************************************)
(* Which properties need a choice, and which declarations are admitted.    *)
(***************************************************************************)
(* The type the tables of the edition give a value of the kind.             *)
DefaultMedia(kind, version) ==
    CASE kind \in {"text", "number", "array"} -> "text"
      [] kind = "binary" /\ ~Old(version) -> "text"
      [] kind = "encoded" \/ (kind = "binary" /\ Old(version)) -> "octets"
      [] kind = "object" -> "json"
      [] OTHER -> NoType

(* An array in one urlencoded field: its items' type must write a whole.    *)
ArrayNeedsChoice(p, version) ==
    p.array /\ (p.kind = "any" \/ DefaultMedia(p.kind, version) \in {"text", "octets"})

ChoiceRequired(lane, version, p) ==
    \/ lane = "multipart" /\ Old(version) /\ p.kind = "any"
    \/ p.media = "many"
    \/ lane = "urlencoded" /\ p.media = NoType /\ ArrayNeedsChoice(p, version)

(* Typeless parts cross the boundary as Base64, and binary ones on 3.0.     *)
RawPart(lane, version, p) ==
    lane = "multipart" /\ (p.kind = "any" \/ (p.kind = "binary" /\ Old(version)))

Writable(kind, media, version) ==
    \/ media = "json"
    \/ media = "text" /\ kind \in {"text", "number", "binary", "encoded"}
    \/ media = "octets" /\ (kind = "encoded" \/ (kind = "binary" /\ Old(version)))

ContentAdmitted(kind, media, version) ==
    Writable(kind, IF media = NoType THEN DefaultMedia(kind, version) ELSE media, version)

AdmittedPart(version, p) ==
    /\ ~(p.array /\ p.kind = "array")
    /\ RawPart("multipart", version, p) \/ ContentAdmitted(p.kind, p.media, version)

AdmittedUnit(version, p) ==
    /\ p.array \/ ~(Old(version) /\ p.kind = "binary")
    /\ \/ ArrayNeedsChoice(p, version) /\ p.media = NoType
       \/ p.array /\ (p.media = "json" \/ (p.media = NoType /\ p.kind = "object"))
       \/ ~p.array /\ ContentAdmitted(p.kind, p.media, version)

(* OpenAPI 3.2 plans a form without looking at its properties.              *)
Admitted(lane, version, p) ==
    \/ version = "3.2" \/ p.kind = "never" \/ p.media = "many"
    \/ IF lane = "multipart" THEN AdmittedPart(version, p) ELSE AdmittedUnit(version, p)

(***************************************************************************)
(* The parts.                                                              *)
(***************************************************************************)
RefusedForm == [refused |-> TRUE, parts |-> <<>>]
Sent(parts) == [refused |-> FALSE, parts |-> parts]
As(lane, v) == [as |-> lane, of |-> v]

(* Mutant: a null never needs the declaration's leave to be left out.       *)
Omitted(lane, p, value) == value.is = "null" /\ ~p.required

(* A null stands for an absent field where the declaration admits it.       *)
Elided(lane, p, value) ==
    value.is = "null" /\ (p.nullable \/ (p.kind = "any" /\ lane = "multipart")) /\ ~p.required

Scalar(kind, v) == (kind = "number" /\ v.is = "num") \/ (kind \in {"text", "binary", "encoded"} /\ v.is \in Strings)

(* A part: the declaration decides first, then the content type.            *)
PartBody(p, media, v) ==
    LET content == IF media # NoType THEN media ELSE IF v.is \in {"obj", "array"} THEN "json" ELSE "text"
    IN CASE p.kind = "encoded" -> IF v.is \in Strings THEN <<As("verbatim", v)>> ELSE <<>>
         [] p.kind \in {"binary", "any"} -> IF v.is = "oct" THEN <<As("octets", v)>> ELSE <<>>
         [] OTHER -> IF content = "json" THEN <<As("json", v)>>
                     ELSE IF Scalar(p.kind, v) THEN <<As("text", v)>> ELSE <<>>

Multipart(p, media, value) ==
    LET values == IF p.array THEN value.items ELSE <<value>>
        part(i) == PartBody(p, media, values[i])
    IN CASE Elided("multipart", p, value) -> Sent(<<>>)
         [] ~Elided("multipart", p, value) /\ p.array /\ value.is # "array" -> RefusedForm
         [] ~Elided("multipart", p, value) /\ (p.array => value.is = "array") ->
               IF \E i \in DOMAIN values : part(i) = <<>> THEN RefusedForm
               ELSE Sent([i \in DOMAIN values |-> part(i)[1]])

UnitBody(p, version, media, v) ==
    CASE p.kind = "encoded" /\ ~p.array -> IF v.is \in Strings THEN <<As("verbatim", v)>> ELSE <<>>
      [] p.kind # "encoded" \/ p.array ->
            IF media = "json" THEN <<As("json", v)>>
            ELSE IF /\ media = "text"
                    /\ \/ version = "3.2" /\ ~p.array /\ Scalar(p.kind, v)
                       \/ version # "3.2" /\ v.is \in Strings \cup {"num", "null"}
                 THEN <<As("text", v)>> ELSE <<>>

URLEncoded(p, version, media, value) ==
    LET selected == IF media # NoType THEN media ELSE DefaultMedia(p.kind, version)
        unit == UnitBody(p, version, selected, value)
        null == p.nullable /\ value.is = "null"
    IN IF Elided("urlencoded", p, value) THEN Sent(<<>>)
       ELSE IF null \/ p.kind = "never" THEN RefusedForm
       ELSE IF p.kind = "any" /\ ~p.array /\ version = "3.2"
       THEN IF value.is = "oct" THEN Sent(<<As("octets", value)>>) ELSE RefusedForm
       ELSE IF \/ media = NoType /\ (ArrayNeedsChoice(p, version) \/ p.kind = "any")
               \/ unit = <<>>
       THEN RefusedForm ELSE Sent(unit)

(* chosen: the consumer's propertyMedia, none when there is none.           *)
BuildRequestBody(lane, version, p, chosen, value) ==
    LET needed == ChoiceRequired(lane, version, p)
        media == IF needed THEN chosen ELSE p.media
    IN IF needed /\ chosen = NoType THEN RefusedForm
       ELSE IF lane = "multipart" THEN Multipart(p, media, value) ELSE URLEncoded(p, version, media, value)

(***************************************************************************)
(* What is sent is the value: one part per element of a declared array and *)
(* one for anything else, octets only from Base64, text only from scalars, *)
(* nothing only for a null the declaration lets be absent.  And planning   *)
(* and building agree: a property that planning admitted, with the choices *)
(* it asked for, carries every value its declaration describes, but the    *)
(* plain strings that a binary part of 3.1 and 3.2 takes for Base64        *)
(* (media.ts validateRevision3Multipart, validateRevision3URLEncoded,      *)
(* buildRevision3URLEncodedBody; openapi32-media.ts                        *)
(* buildOpenAPI32MultipartBody).                                           *)
(***************************************************************************)
(* From 3.1 on a format or an encoding restricts no string, so a binary     *)
(* string is any string (media.ts 1636-1640); a value without a type is     *)
(* Base64 in every edition.                                                  *)
Describes(p, version, v) ==
    CASE p.kind = "text" -> v.is \in Strings
      [] p.kind = "number" -> v.is = "num"
      [] p.kind = "object" -> v.is = "obj"
      [] p.kind = "array" -> v.is = "array"
      [] p.kind \in {"binary", "encoded"} -> v.is = "oct" \/ (~Old(version) /\ v.is = "str")
      [] p.kind = "any" -> v.is = "oct"
      [] OTHER -> FALSE

Fits(p, version, value) ==
    IF p.array THEN value.is = "array" /\ \A i \in DOMAIN value.items : Describes(p, version, value.items[i])
    ELSE Describes(p, version, value)

(* The parts of a value.                                                     *)
Elements(lane, p, value) == IF p.array /\ lane = "multipart" THEN value.items ELSE <<value>>

(* A described string in a binary part, which the builder wants in Base64.   *)
TakenForBase64(lane, p, value) ==
    lane = "multipart" /\ p.kind = "binary"
    /\ LET values == Elements(lane, p, value) IN \E i \in DOMAIN values : values[i].is # "oct"

(* 3.2 admits without looking; any choice must be one that can be written.  *)
Sound(lane, version, p, media) ==
    IF lane = "urlencoded"
    THEN IF p.kind = "any" /\ ~p.array THEN version = "3.2" \/ media = "json"
         ELSE IF p.array THEN media = "json" \/ (media = NoType /\ p.kind = "object")
         ELSE ContentAdmitted(p.kind, media, version) /\ ~(p.kind = "binary" /\ Old(version))
    ELSE p.kind \in {"binary", "any"} \/ media = "json"
         \/ (IF media = NoType THEN p.kind # "union" ELSE p.kind \notin {"object", "union", "array"})

FormsCarryTheirValues(lane, version, p, chosen, value) ==
    LET built == BuildRequestBody(lane, version, p, chosen, value)
        needed == ChoiceRequired(lane, version, p)
        values == Elements(lane, p, value)
    IN Admitted(lane, version, p) =>
       /\ ~built.refused /\ built.parts = <<>> =>
             \/ values = <<>>
             \/ value.is = "null" /\ ~p.required /\ (p.nullable \/ p.kind = "any")
       /\ ~built.refused /\ built.parts # <<>> =>
             /\ [i \in DOMAIN built.parts |-> built.parts[i].of] = values
             /\ \A i \in DOMAIN built.parts : LET part == built.parts[i] IN
                   /\ part.as = "octets" => part.of.is = "oct"
                   /\ part.as = "verbatim" => part.of.is \in Strings
                   /\ part.as = "text" => part.of.is \in Strings \cup {"num", "null"}
       /\ needed /\ chosen = NoType => built.refused
       /\ /\ Fits(p, version, value) /\ (needed => chosen # NoType)
          /\ Sound(lane, version, p, IF needed THEN chosen ELSE p.media)
          => (built.refused <=> TakenForBase64(lane, p, value))
       /\ version # "3.2" /\ ~needed => Sound(lane, version, p, p.media) \/ p.kind = "never"

(* Each property of a form reads back as it was given, or the form is       *)
(* refused (media.ts, openapi32-media.ts).                                  *)
FormsReadBack ==
    \A c \in forming : FormsCarryTheirValues(c.lane, c.version, c.property, c.chosen, c.value)

(* "Under 3.1 `format` has no content-encoding force, so `format: binary`   *)
(* there is still a string declaration": a property that planning admitted  *)
(* carries every value its declaration describes.  A plain string in a      *)
(* binary part of 3.1 and 3.2 is refused (openapi32-media.ts partBody).     *)
DescribedIsCarried ==
    \A c \in forming :
        LET needed == ChoiceRequired(c.lane, c.version, c.property)
            media == IF needed THEN c.chosen ELSE c.property.media
        IN /\ Admitted(c.lane, c.version, c.property) /\ Sound(c.lane, c.version, c.property, media)
           /\ Fits(c.property, c.version, c.value) /\ (needed => c.chosen # NoType)
           => ~BuildRequestBody(c.lane, c.version, c.property, c.chosen, c.value).refused

FormInit == \E c \in FormCases : forming = {c}
FormSpec == FormInit /\ [][UNCHANGED forming]_forming
=============================================================================
