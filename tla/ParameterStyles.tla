--------------------------- MODULE ParameterStyles ---------------------------
(***************************************************************************)
(* How a parameter's value becomes part of a request                       *)
(* (src/typescript/src/params.ts, openapi32-parameters.ts): the styles'    *)
(* expansions, what is escaped, and what is refused because it could not   *)
(* be told from the style's own separators.                                *)
(*                                                                         *)
(* A word is a sequence of characters, a token a character that is escaped *)
(* or not, the wire a sequence of tokens.  A case is a declaration         *)
(* [in, style, explode, allowReserved, v32, strict] and a value            *)
(* [kind, words]: one word, an array's words, or an object's names and     *)
(* words in turn.  strict is the routed lane, whose values are prepared.   *)
(***************************************************************************)
EXTENDS Naturals, Sequences, FiniteSets, SequencesExt

Lit(c) == [char |-> c, escaped |-> FALSE]
Enc(c) == [char |-> c, escaped |-> TRUE]

Name == <<"n">>                                   \* the parameter's own name
Unreserved == {"n", "a", "."}
Protected == {"&", "=", "#", "[", "]"}            \* escaped even where reserved characters pass
CookieOctets == Unreserved \cup {"=", "#", "|", "&", "[", "]"}

Pairs(value) == [i \in 1 .. Len(value.words) \div 2 |-> <<value.words[2 * i - 1], value.words[2 * i]>>]
HasNothing(value) == value.kind # "primitive" /\ value.words = <<>>
Members(value) == ToSet(value.words)

(***************************************************************************)
(* The table of styles.                                                    *)
(***************************************************************************)
Styles(p) ==
    CASE p.in = "path" -> {"simple", "label", "matrix"}
      [] p.in = "header" -> {"simple"}
      [] p.in = "cookie" -> {"form"} \cup (IF p.v32 THEN {"cookie"} ELSE {})
      [] OTHER -> {"form", "spaceDelimited", "pipeDelimited", "deepObject"}

Delimited == {"spaceDelimited", "pipeDelimited"}
Declared32(p) == IF p.v32 /\ p.style = "deepObject" THEN [p EXCEPT !.explode = TRUE] ELSE p

(* kind is what the schema declares.                                        *)
ValidStyle(p, kind) ==
    /\ p.style \in Styles(p)
    /\ p.style \in Delimited => ~p.explode /\ kind # "primitive"
    /\ p.style = "deepObject" => p.explode /\ kind = "object"

(***************************************************************************)
(* Preparation: undefined values and structural delimiters.                *)
(***************************************************************************)
StyleDelimiters(style) ==
    CASE style = "spaceDelimited" -> {" "}
      [] style = "pipeDelimited" -> {"|"}
      [] style = "deepObject" -> {"[", "]", "=", "&"}
      [] OTHER -> {}

(* Mutant: delimiters are looked for in an array's words only.              *)
RefusedInArrays(p, value) ==
    \/ HasNothing(value) /\ p.style \in Delimited \cup {"deepObject"}
    \/ value.kind = "array" /\ \E w \in Members(value) : ToSet(w) \cap StyleDelimiters(p.style) # {}

RefusedValue(p, value) ==
    \/ HasNothing(value) /\ p.style \in Delimited \cup {"deepObject"}
    \/ \E w \in Members(value) : ToSet(w) \cap StyleDelimiters(p.style) # {}

Prepared(p, value) ==
    IF p.strict /\ HasNothing(value) THEN [kind |-> "primitive", words |-> <<<<>>>>]
    ELSE IF p.style \in Delimited /\ value.kind = "object" THEN [kind |-> "array", words |-> value.words]
    ELSE value

(***************************************************************************)
(* Expansion into units of tokens.                                         *)
(***************************************************************************)
Escape(word, passes) == [i \in DOMAIN word |-> [char |-> word[i], escaped |-> word[i] \notin Unreserved \cup passes]]

Reserved == {",", ";"}        \* of the reserved characters, those that may pass
Everything == {",", ";", " ", "|"} \cup Protected
Passes(p) ==
    CASE p.in = "header" -> Everything
      [] p.style = "cookie" -> Everything
      [] p.in = "query" /\ p.allowReserved -> Reserved
      [] OTHER -> {}

Joined(pieces, sep) ==
    FoldLeftDomain(LAMBDA acc, i : acc \o (IF i = 1 THEN <<>> ELSE sep) \o pieces[i], <<>>, pieces)

Words(p, value) == [i \in DOMAIN value.words |-> Escape(value.words[i], Passes(p))]
Assigned(p, value) == [i \in DOMAIN Pairs(value) |->
                          Joined([k \in 1..2 |-> Escape(Pairs(value)[i][k], Passes(p))], <<Lit("=")>>)]
Flat(p, value) == Joined(Words(p, value), <<Lit(",")>>)

Simple(p, value) ==
    <<IF value.kind = "object" /\ p.explode THEN Joined(Assigned(p, value), <<Lit(",")>>) ELSE Flat(p, value)>>

Label(p, value) ==
    LET dot == <<Lit(".")>>
    IN <<dot \o (IF ~p.explode \/ value.kind = "primitive" THEN Flat(p, value)
                 ELSE Joined(IF value.kind = "object" THEN Assigned(p, value) ELSE Words(p, value), dot))>>

Matrix(p, value) ==
    LET named(t) == <<Lit(";")>> \o Escape(Name, {}) \o <<Lit("=")>> \o t
    IN <<CASE value = [kind |-> "primitive", words |-> <<<<>>>>] -> <<Lit(";")>> \o Escape(Name, {})
           [] p.explode /\ value.kind = "array" -> FlattenSeq([i \in DOMAIN value.words |-> named(Words(p, value)[i])])
           [] p.explode /\ value.kind = "object" ->
                 FlattenSeq([i \in DOMAIN Assigned(p, value) |-> <<Lit(";")>> \o Assigned(p, value)[i]])
           [] OTHER -> named(Flat(p, value))>>

Form(p, value) ==
    LET named(t) == Escape(Name, {}) \o <<Lit("=")>> \o t
    IN CASE p.explode /\ value.kind = "array" /\ ~HasNothing(value) -> [i \in DOMAIN value.words |-> named(Words(p, value)[i])]
         [] p.explode /\ value.kind = "object" /\ ~HasNothing(value) -> Assigned(p, value)
         [] OTHER -> <<named(Flat(p, value))>>

Delimit(p, value) ==
    LET sep == <<Enc(IF p.style = "pipeDelimited" THEN "|" ELSE " ")>>
    IN <<Escape(Name, {}) \o <<Lit("=")>> \o Joined(Words(p, value), sep)>>

DeepObject(p, value) ==
    [i \in DOMAIN Pairs(value) |->
        Escape(Name, {}) \o <<Enc("[")>> \o Escape(Pairs(value)[i][1], {}) \o <<Enc("]"), Lit("=")>>
        \o Escape(Pairs(value)[i][2], Passes(p))]

Expanded(p, value) ==
    CASE p.style = "simple" -> Simple(p, value)
      [] p.style = "label" -> Label(p, value)
      [] p.style = "matrix" -> Matrix(p, value)
      [] p.style \in {"form", "cookie"} -> Form(p, value)
      [] p.style \in Delimited -> Delimit(p, value)
      [] p.style = "deepObject" -> DeepObject(p, value)

(***************************************************************************)
(* One populated parameter: the units it adds to its location, or a        *)
(* refusal.                                                                *)
(***************************************************************************)
CookieUnit(unit) == \A i \in DOMAIN unit : unit[i].escaped \/ unit[i].char \in CookieOctets
HeaderValue(unit) == unit = <<>> \/ (unit[1].char # " " /\ unit[Len(unit)].char # " ")

(* The separator of an array is a comma, which no cookie value may hold; the *)
(* routed lane refuses a second cookie pair.                                *)
RefusedUnits(p, units) ==
    \/ p.in = "cookie" /\ \E i \in DOMAIN units : ~CookieUnit(units[i])
    \/ p.in = "header" /\ ~HeaderValue(units[1])
    \/ p.strict /\ p.in = "cookie" /\ p.style # "cookie" /\ Len(units) > 1

Serialize(declared, value) ==
    LET p == Declared32(declared)
        units == Expanded(p, Prepared(p, value))
    IN IF p.strict /\ RefusedValue(p, value) THEN [refused |-> TRUE]
       ELSE IF RefusedUnits(p, units) THEN [refused |-> TRUE]
       ELSE [refused |-> FALSE, units |-> units]

(***************************************************************************)
(* What a server reads: the location is split at the separators that are   *)
(* not escaped, and the pieces are unescaped.                              *)
(***************************************************************************)
Split(tokens, sep) ==
    LET cuts == SetToSortSeq({i \in DOMAIN tokens : tokens[i] = sep}, <)
        bound(k) == IF k = 0 THEN 0 ELSE IF k > Len(cuts) THEN Len(tokens) + 1 ELSE cuts[k]
    IN [k \in 1 .. Len(cuts) + 1 |-> SubSeq(tokens, bound(k - 1) + 1, bound(k) - 1)]
Plain(tokens) == [i \in DOMAIN tokens |-> tokens[i].char]
Read(tokens, sep) == LET pieces == Split(tokens, sep) IN [k \in DOMAIN pieces |-> Plain(pieces[k])]
List(tokens, kind, sep) == IF kind = "primitive" THEN <<Plain(tokens)>> ELSE Read(tokens, sep)
ReadPairs(pieces) == FlattenSeq([k \in DOMAIN pieces |-> Read(pieces[k], Lit("="))])
AfterEquals(unit) == SubSeq(unit, Len(Split(unit, Lit("="))[1]) + 2, Len(unit))
BeforeFragment(tokens) == Split(tokens, Lit("#"))[1]

Component(p, units) ==       \* the units as the location carries them
    IF p.in = "query" THEN Split(BeforeFragment(Joined(units, <<Lit("&")>>)), Lit("&"))
    ELSE IF p.in = "cookie" THEN Split(Joined(units, <<Lit(";")>>), Lit(";"))
    ELSE units

ReadValue(p, kind, units) ==
    LET unit == units[1]
        exploded == p.explode /\ kind # "primitive"
    IN CASE p.style = "simple" ->
              IF exploded /\ kind = "object" THEN ReadPairs(Split(unit, Lit(","))) ELSE List(unit, kind, Lit(","))
         [] p.style = "label" ->
              IF exploded /\ kind = "object" THEN ReadPairs(Split(Tail(unit), Lit(".")))
              ELSE List(Tail(unit), kind, Lit(IF exploded THEN "." ELSE ","))
         [] p.style = "matrix" ->
              LET pieces == Split(Tail(unit), Lit(";"))
              IN IF exploded /\ kind = "object" THEN ReadPairs(pieces)
                 ELSE IF exploded THEN [k \in DOMAIN pieces |-> Plain(AfterEquals(pieces[k]))]
                 ELSE List(AfterEquals(unit), kind, Lit(","))
         [] p.style = "deepObject" ->
              FlattenSeq([k \in DOMAIN units |->
                  LET before == Split(units[k], Lit("="))[1]
                  IN <<Plain(SubSeq(before, Len(Name) + 2, Len(before) - 1)), Plain(AfterEquals(units[k]))>>])
         [] p.style \in Delimited -> Read(AfterEquals(unit), Enc(IF p.style = "pipeDelimited" THEN "|" ELSE " "))
         [] exploded /\ kind = "object" ->
              FlattenSeq([k \in DOMAIN units |-> <<Plain(Split(units[k], Lit("="))[1]), Plain(AfterEquals(units[k]))>>])
         [] exploded -> [k \in DOMAIN units |-> Plain(AfterEquals(units[k]))]
         [] OTHER -> List(AfterEquals(unit), kind, Lit(","))

(* What the styles' own tables cannot tell apart: a dot in an exploded      *)
(* label, a comma where commas pass, anything in a header, an equals sign   *)
(* in a name of a style that escapes nothing; and delimiters on the lane    *)
(* that does not prepare its values.                                        *)
Indistinct(p, value) ==
    \/ p.style = "label" /\ p.explode /\ \E w \in Members(value) : "." \in ToSet(w)
    \/ value.kind # "primitive" /\ Passes(p) # {} /\ ~(p.in = "query" /\ p.explode) /\ \E w \in Members(value) : "," \in ToSet(w)
    \/ value.kind # "primitive" /\ p.in = "header" /\ \E w \in Members(value) : "=" \in ToSet(w)
    \/ p.style = "cookie" /\ value.kind = "object" /\ \E i \in DOMAIN Pairs(value) : "=" \in ToSet(Pairs(value)[i][1])
    \/ ~p.strict /\ p.style \in Delimited \cup {"deepObject"}

(* What is put on the wire is read back as the value supplied: no character *)
(* of a value is taken for a separator of its style, of the query, of the   *)
(* cookie header or of the URL (params.ts routeParameter,                   *)
(* prepareStrictParameterStyleValue, rfc3986Escape).                        *)
WireMeansTheValue(declared, value) ==
    LET p == Declared32(declared)
        sent == Serialize(declared, value)
    IN ValidStyle(p, value.kind) /\ ~sent.refused /\ ~HasNothing(value) /\ ~Indistinct(p, value)
       => ReadValue(p, value.kind, Component(p, sent.units)) = value.words
=============================================================================
