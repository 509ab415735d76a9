--------------------------- MODULE AcceptanceFloor ---------------------------
(***************************************************************************)
(* The acceptance floor (src/typescript/src/acceptance-floor.ts): before   *)
(* references are resolved, a document's defects are found and each is     *)
(* charged to the smallest unit that owns it: a media alternative, a       *)
(* response, an operation, and only at last the whole source.              *)
(*                                                                         *)
(* Positions are nodes.  Schemas is a function from schema positions to    *)
(* what is there; a target is one HTTP-method member.                      *)
(***************************************************************************)
EXTENDS Naturals, Sequences, FiniteSets, SequencesExt

CONSTANT FloorCases   \* the sources judged

VARIABLE judging      \* the source being judged, as a set

NoRef == "no-ref"
Unresolved == "unresolved"   \* an internal reference that names nothing
Stopped == "stopped"         \* one whose pointer runs into another reference

Positions(s) == DOMAIN s.schemas
Sub(s, n) == s.schemas[n].sub
Follows(s, n) == Sub(s, n) \cup ({s.schemas[n].ref} \cap Positions(s))

(* A document is finite, what is below a schema is a schema of it, and a    *)
(* parameter that is no object is broken.                                   *)
ASSUME FloorAssumption ==
    \A s \in FloorCases :
        /\ IsFiniteSet(Positions(s))
        /\ \A n \in Positions(s) : Sub(s, n) \subseteq Positions(s)
        /\ \A t \in s.targets : \A p \in t.params : p.kind = "defective" => p.broken

(* The least set that holds `from` and, with a position, what is next to it. *)
Closed(next, from) ==
    {n \in DOMAIN next : \A all \in SUBSET DOMAIN next :
                            from \subseteq all /\ (\A m \in all : next[m] \subseteq all) => n \in all}

(***************************************************************************)
(* Detection.  Schemas are visited below the components and below what the *)
(* targets declare in line, without following references.                  *)
(***************************************************************************)
Declared(t) == {p.schema : p \in {q \in t.params : q.kind = "inline"}} \cup {m.schema : m \in t.media}
               \cup UNION {{m.schema : m \in r.media} : r \in t.responses}
SchemaRoots(s) == s.components \cup UNION {Declared(t) : t \in {u \in s.targets : u.object}}
Detected(s) == {n \in Closed([m \in Positions(s) |-> Sub(s, m)], SchemaRoots(s) \cap Positions(s)) : s.schemas[n].defective}

(***************************************************************************)
(* The defects in the closure of one schema: a stack of positions, each    *)
(* walked once, through sub-schemas and resolved internal references.      *)
(***************************************************************************)
SchemaClosure(s, root) ==
    LET walk[todo \in Seq(Positions(s)) \X SUBSET Positions(s)] ==
            IF todo[1] = <<>> THEN todo[2]
            ELSE IF Head(todo[1]) \in todo[2] THEN walk[<<Tail(todo[1]), todo[2]>>]
            ELSE walk[<<SetToSeq(Follows(s, Head(todo[1]))) \o Tail(todo[1]), todo[2] \cup {Head(todo[1])}>>]
    IN walk[<<<<root>>, {}>>]

ClosureDefects(s, root) == {n \in SchemaClosure(s, root) : n \in Detected(s) \/ s.schemas[n].ref = Unresolved}

Defective(s, declared) == declared.broken \/ (declared.schema \in Positions(s) /\ ClosureDefects(s, declared.schema) # {})

(***************************************************************************)
(* The ladder.                                                             *)
(***************************************************************************)
ParamClimbs(s, p) ==
    CASE p.kind = "defective" -> TRUE
      [] p.kind = "ref" -> p.schema = Unresolved
      [] OTHER -> Defective(s, p)

(* A defective alternative is excluded; when the body is required and none  *)
(* is left, the target is.                                                  *)
InvalidAlternatives(s, t) == {m \in t.media : Defective(s, m)}

SuccessKey(t, r) == r.key \in {"200", "2XX"} \/ (r.key = "default" /\ \A q \in t.responses : q.key # "2XX")

(* What is noted at the operation and excludes nothing.                     *)
Projections(s, t) ==
    {r \in t.responses : \/ r.broken
                         \/ SuccessKey(t, r) /\ \E m \in r.media : Defective(s, m)}

(* Mutant: a response climbs like a parameter.                              *)
StrictDisposition(s, t) ==
    IF ~t.object \/ t.badPath \/ (\E p \in t.params : ParamClimbs(s, p)) \/ Projections(s, t) # {} THEN "invalid"
    ELSE IF t.required /\ t.media # {} /\ InvalidAlternatives(s, t) = t.media THEN "excluded-request-media"
    ELSE "represented"

Disposition(s, t) ==
    IF ~t.object \/ t.badPath \/ \E p \in t.params : ParamClimbs(s, p) THEN "invalid"
    ELSE IF t.required /\ t.media # {} /\ InvalidAlternatives(s, t) = t.media THEN "excluded-request-media"
    ELSE "represented"

(* The whole source is refused only when no target could be formed.         *)
Refusal(s) ==
    CASE s.paths \in {"ref", "not-an-object"} -> TRUE
      [] s.paths = "absent" -> s.line = "3.0" \/ ~s.otherRoots
      [] OTHER -> s.targets = {} /\ s.destroyed /\ s.externalItems = 0

(***************************************************************************)
(* The floor keeps a defect where it can be avoided: a target is refused   *)
(* when, and only when, every request to it would have to use something    *)
(* defective; a defect in a response or in one of several alternatives     *)
(* never costs the target; and a source that declares a target is loaded   *)
(* (acceptance-floor.ts computeAcceptanceFloor).                           *)
(***************************************************************************)
Touches(s, root) ==          \* by reachability
    \E n \in Closed([m \in Positions(s) |-> Follows(s, m)], {root}) :
        n \in Detected(s) \/ s.schemas[n].ref = Unresolved
Usable(s, d) == ~d.broken /\ (d.schema \in Positions(s) => ~Touches(s, d.schema))

DefectsStayConfined(s) ==
    /\ s.paths = "object" /\ s.targets # {} => ~Refusal(s)
    /\ \A t \in s.targets :
          LET callable == /\ t.object /\ ~t.badPath
                          /\ \A p \in t.params : IF p.kind = "ref" THEN p.schema # Unresolved ELSE Usable(s, p)
              body == t.media = {} \/ ~t.required \/ \E m \in t.media : Usable(s, m)
          IN Disposition(s, t) = IF ~callable THEN "invalid"
                                 ELSE IF ~body THEN "excluded-request-media" ELSE "represented"

(* A defect refuses what it reaches, and nothing else.                      *)
DefectsAreConfined == \A s \in judging : DefectsStayConfined(s)

FloorInit == \E s \in FloorCases : judging = {s}
FloorSpec == FloorInit /\ [][UNCHANGED judging]_judging
=============================================================================
