--------------------------- MODULE Swagger20Parameters ---------------------------
(***************************************************************************)
(* Parameters of a Swagger 2.0 operation                                   *)
(* (src/typescript/src/swagger20-parameters.ts): which declarations are in *)
(* force, and the contributions a supplied value becomes on the wire.      *)
(*                                                                         *)
(* A declaration is [name, in, required, type, items, format, empty]: type *)
(* and items are JSON types (items "" unless type is array), format is a   *)
(* collectionFormat, empty is "unset", "yes" or "no" (allowEmptyValue).    *)
(* A text is a sequence of characters; a value is [is, text, items] with   *)
(* is string, number, boolean, null, array or object.  A number, a boolean *)
(* and null have the text the caller's converter gives them, and the text  *)
(* of a file is canonical Base64.                                          *)
(***************************************************************************)
EXTENDS Naturals, Sequences, FiniteSets, SequencesExt

CONSTANTS Characters,       \* what texts are made of
          SwaggerInputs     \* the declarations of operations, and what their callers supply

VARIABLE supplying          \* one of them, as a set

(* What a caller supplies is the members of objects: one value for each     *)
(* location and name.                                                       *)
ASSUME SwaggerInputAssumption ==
    \A c \in SwaggerInputs : \A s \in c.supplied :
        /\ \A t \in c.supplied : <<s.in, s.name>> = <<t.in, t.name>> => s = t
        /\ s.value.text \in Seq(Characters)
        /\ Len(s.value.items) \in Nat /\ DOMAIN s.value.items = 1 .. Len(s.value.items)
        /\ \A i \in DOMAIN s.value.items : s.value.items[i].text \in Seq(Characters)

WireLocations == {"path", "query", "header", "formData"}
Delimiter == [csv |-> ",", ssv |-> " ", tsv |-> "tab", pipes |-> "|"]

(***************************************************************************)
(* The declarations in force.  Lower is the name without regard to case;   *)
(* token and owned are what HTTP says of a header's name.                  *)
(***************************************************************************)
Lower(name) == IF name = "A" THEN "a" ELSE name
FieldName(name) == name # "no token"
OwnedField(name) == name = "host"

ParameterIdentity(p) == <<p.in, p.name>>
Repeats(scope) == \E p, q \in scope : p # q /\ ParameterIdentity(p) = ParameterIdentity(q)

ValidArray(p) ==
    /\ p.items \in {"string", "number", "boolean"}
    /\ p.format \in DOMAIN Delimiter \/ (p.format = "multi" /\ p.in \in {"query", "formData"})

ValidDeclaration(p) ==
    /\ p.in = "path" => p.required
    /\ p.in # "body" =>
          /\ p.type \in {"string", "number", "boolean", "array"} \/ (p.type = "file" /\ p.in = "formData")
          /\ p.empty # "unset" => p.in \in {"query", "formData"}
          /\ IF p.type = "array" THEN ValidArray(p) ELSE p.format = ""
          /\ p.in = "header" => FieldName(p.name) /\ ~OwnedField(p.name)

(* An optional header that could not be sent is left out of the surface.    *)
Unsendable(p) == p.in = "header" /\ ~p.required /\ ~FieldName(p.name)

(* pathNames: the expressions of the path template.                         *)
EffectiveParameters(pathScope, scope, pathNames) ==
    LET overridden == {ParameterIdentity(p) : p \in scope}
        declared == {p \in pathScope : ParameterIdentity(p) \notin overridden} \cup scope
        effective == {p \in declared : ValidDeclaration(p) \/ ~Unsendable(p)}
        in(location) == {p \in effective : p.in = location}
    IN IF \/ Repeats(pathScope) \/ Repeats(scope)
          \/ \E p \in effective : ~ValidDeclaration(p)
          \/ \E p, q \in in("header") : p.name # q.name /\ Lower(p.name) = Lower(q.name)
          \/ Cardinality(in("body")) > 1
          \/ in("body") # {} /\ in("formData") # {}
          \/ {p.name : p \in in("path")} # pathNames
       THEN [refused |-> TRUE, all |-> {}]
       ELSE [refused |-> FALSE, all |-> effective]

(***************************************************************************)
(* One value.                                                              *)
(***************************************************************************)
Unwritten == [refused |-> TRUE, needs |-> "", wire |-> <<>>]
Awaits(point) == [refused |-> TRUE, needs |-> point, wire |-> <<>>]
Written(wire) == [refused |-> FALSE, needs |-> "", wire |-> wire]
Contribution(p, present, text) == [name |-> p.name, present |-> present, text |-> text]

Scalars == {"string", "number", "boolean"}
Convertible(type, v, converter) ==
    v.is \in {"null", type} \cap (IF converter THEN Scalars \cup {"null"} ELSE {"string"})

(* The texts of an accepted value, one for a scalar.                        *)
Conforms(p, value, converter) ==
    IF p.type = "array"
    THEN value.is = "array" /\ \A i \in DOMAIN value.items : Convertible(p.items, value.items[i], converter)
    ELSE Convertible(p.type, value, converter)
Texts(p, value) ==
    IF p.type = "array" THEN [i \in DOMAIN value.items |-> value.items[i].text] ELSE <<value.text>>

JoinedTexts(texts, delimiter) ==
    LET joined[k \in 0 .. Len(texts)] ==
            IF k = 0 THEN <<>>
            ELSE IF k = 1 THEN texts[1] ELSE joined[k - 1] \o (<<delimiter>> \o texts[k])
    IN joined[Len(texts)]

IsEmptyValue(p, texts) ==
    \/ p.type = "array" /\ texts = <<>> /\ p.in \in {"query", "formData"}
    \/ p.type # "array" /\ texts = <<<<>>>>

(* form: the caller's emptyValueForm, "" when there is none.                *)
EmptyContribution(p, form) ==
    IF p.empty # "yes" THEN Unwritten
    ELSE IF form = "" THEN Awaits("emptyValueForm")
    ELSE Written(<<Contribution(p, form = "empty", <<>>)>>)

(* Mutant: the structural delimiter is looked for in the first member only. *)
AmbiguousFirst(texts, delimiter) == texts # <<>> /\ Contains(texts[1], delimiter)

Ambiguous(texts, delimiter) == \E i \in DOMAIN texts : Contains(texts[i], delimiter)

SerializeParameter(p, value, converter, form) ==
    LET texts == Texts(p, value)
    IN IF p.type = "file" THEN IF value.is = "string" THEN Written(<<Contribution(p, TRUE, value.text)>>) ELSE Unwritten
       ELSE IF ~Conforms(p, value, converter) THEN Unwritten
       ELSE IF IsEmptyValue(p, texts) THEN EmptyContribution(p, form)
       ELSE IF p.type # "array" THEN Written(<<Contribution(p, TRUE, texts[1])>>)
       ELSE IF p.format = "multi" THEN Written([i \in DOMAIN texts |-> Contribution(p, TRUE, texts[i])])
       ELSE IF Ambiguous(texts, Delimiter[p.format]) THEN Unwritten
       ELSE Written(<<Contribution(p, TRUE, JoinedTexts(texts, Delimiter[p.format]))>>)

(***************************************************************************)
(* The whole input: supplied is a set of [in, name, value], one for each   *)
(* member of the caller's location-separated input.                        *)
(***************************************************************************)
RouteSwagger(all, supplied, converter, form) ==
    LET named == {p \in all : p.in \in WireLocations}
        given(p) == {s \in supplied : <<s.in, s.name>> = ParameterIdentity(p)}
        written(p) == SerializeParameter(p, (CHOOSE s \in given(p) : TRUE).value, converter, form)
        sent == {p \in named : given(p) # {}}
    IN IF \/ \E s \in supplied : \A p \in named : <<s.in, s.name>> # ParameterIdentity(p)
          \/ \E p \in named : p.required /\ given(p) = {}
          \/ \E p \in sent : written(p).refused
       THEN [refused |-> TRUE, sent |-> {}]
       ELSE [refused |-> FALSE, sent |-> {[parameter |-> p, wire |-> written(p).wire] : p \in sent}]

(***************************************************************************)
(* What a server reads from the contributions of a declared parameter.     *)
(***************************************************************************)
SplitText(text, delimiter) ==
    LET fields[k \in 0 .. Len(text)] ==
            IF k = 0 THEN <<<<>>>>
            ELSE IF text[k] = delimiter THEN Append(fields[k - 1], <<>>)
            ELSE Append(Front(fields[k - 1]), Append(Last(fields[k - 1]), text[k]))
    IN fields[Len(text)]

ReadBack(p, wire) ==
    IF p.type = "array" /\ p.format # "multi" THEN SplitText(wire[1].text, Delimiter[p.format])
    ELSE [i \in DOMAIN wire |-> wire[i].text]

(***************************************************************************)
(* A server that knows the declarations reads exactly the values the       *)
(* caller supplied (an array of one empty text and an empty array are the  *)
(* one pair it cannot tell apart), each at the declaration in force for    *)
(* its location and name, and never takes an empty array for an absent     *)
(* parameter (swagger20-parameters.ts effectiveSwagger20Parameters,        *)
(* routeSwagger20Input, serializeParameter).                               *)
(***************************************************************************)
ServerReadsTheInput(pathScope, scope, pathNames, supplied, converter, form) ==
    LET parameters == EffectiveParameters(pathScope, scope, pathNames)
        routed == RouteSwagger(parameters.all, supplied, converter, form)
    IN ~parameters.refused /\ ~routed.refused =>
       /\ {ParameterIdentity(c.parameter) : c \in routed.sent} = {<<s.in, s.name>> : s \in supplied}
       /\ \A c \in routed.sent, s \in supplied :
             ParameterIdentity(c.parameter) = <<s.in, s.name>> =>
                LET p == c.parameter
                    texts == Texts(p, s.value)
                IN /\ p \in scope \/ \A q \in scope : ParameterIdentity(q) # ParameterIdentity(p)
                   /\ c.wire # <<>>
                   /\ \/ ReadBack(p, c.wire) = texts
                      \/ ReadBack(p, c.wire) = <<<<>>>> /\ p.type = "array" /\ texts = <<>>
       /\ \A c, d \in routed.sent : c # d =>
             \/ c.parameter.in # d.parameter.in
             \/ Lower(c.parameter.name) # Lower(d.parameter.name)
             \/ c.parameter.in # "header"

(* A server that reads by the declarations reads what was supplied.         *)
SwaggerParametersReadBack ==
    \A c \in supplying : ServerReadsTheInput(c.pathScope, c.scope, c.pathNames, c.supplied, c.converter, c.form)

SupplyInit == \E c \in SwaggerInputs : supplying = {c}
SupplySpec == SupplyInit /\ [][UNCHANGED supplying]_supplying
=============================================================================
