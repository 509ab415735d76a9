----------------------------- MODULE MediaSelection -----------------------------
(***************************************************************************)
(* Which of a content map's declarations carries a body                    *)
(* (src/typescript/src/media.ts, openapi32-media.ts, invoke.ts): the       *)
(* carriage family of each request declaration, the election of one by a   *)
(* configured concrete media type, and the declaration that governs the    *)
(* Content-Type of a response.                                             *)
(*                                                                         *)
(* A key is [spelling, type, sub, params, schema]: spellings differ, a     *)
(* type or sub of "*" is a range, type "" a key that does not parse.  The  *)
(* schema is "omitted", "empty", "items" (itemSchema alone), "object",     *)
(* "dynamic", "complex" (combinatorial), "string", "binary", "encoded" or  *)
(* "array"; a concrete type is [type, sub, params].                        *)
(***************************************************************************)
EXTENDS Naturals, FiniteSets, FiniteSetsExt

CONSTANT MediaCases       \* [content, version, concrete]

(* A key of type "*" is a range, and event-stream is text/event-stream.     *)
ASSUME MediaAssumption ==
    \A c \in MediaCases :
        /\ IsFiniteSet(c.content)
        /\ \A k \in c.content : /\ k.params \in [DOMAIN k.params -> STRING] /\ IsFiniteSet(DOMAIN k.params)
                                /\ k.type = "*" => k.sub = "*"
        /\ c.concrete.sub = "event-stream" => c.concrete.type = "text"

VARIABLE selecting        \* the case that is decided; none in another use of the module

Ranged(m) == m.sub = "*"
Specificity(m) == IF m.type = "*" THEN 0 ELSE IF Ranged(m) THEN 1 ELSE 2
Identity(m) == <<m.type, m.sub, m.params>>

(* Mutant: of two spellings of one media type both stay alternatives.       *)
NoneColliding(content) == {}

(* Two keys of one map that denote one media type: neither can be chosen.   *)
Colliding(content) ==
    {k \in content : k.type # "" /\ \E l \in content : l # k /\ Identity(l) = Identity(k)}

Subset(declared, actual) ==
    \A n \in DOMAIN declared : n \in DOMAIN actual /\ declared[n] = actual[n]
Covers(m, concrete) ==
    /\ m.type \in {"*", concrete.type} /\ m.sub \in {"*", concrete.sub}
    /\ Subset(m.params, concrete.params)

(***************************************************************************)
(* Carriage.                                                               *)
(***************************************************************************)
IsJSON(base) == base.sub \in {"json", "x+json"}
CharacterData(base) == base.type = "text" \/ base.sub \in {"xml", "x+xml", "x+json"}
AssertsNothing(schema) == schema \in {"omitted", "empty", "items"}
IsString(schema) == schema \in {"string", "binary", "encoded"}
RawBoundary(schema, version, omittedOn30) ==
    \/ AssertsNothing(schema) /\ (version # "3.0" \/ omittedOn30)
    \/ schema = "binary" /\ version = "3.0"

CarriageFamily(base, schema, version, omittedOn30) ==
    CASE IsJSON(base) -> "json"
      [] base.type = "multipart" /\ base.sub = "form-data" -> "multipart"
      [] base.type = "application" /\ base.sub = "x-www-form-urlencoded" -> "urlencoded"
      [] OTHER -> IF RawBoundary(schema, version, omittedOn30) THEN "raw"
                  ELSE IF schema = "encoded" \/ (CharacterData(base) /\ IsString(schema)) THEN "text"
                  ELSE ""

(* The lanes OpenAPI 3.2 adds, before the ones above.                       *)
Family(base, schema, version, omittedOn30) ==
    IF version # "3.2" THEN CarriageFamily(base, schema, version, omittedOn30)
    ELSE CASE base.sub = "event-stream" -> ""
           [] base.sub \in {"jsonl", "json-seq"} -> "sequential"
           [] base.type = "multipart" -> "multipart"
           [] schema = "items" /\ base.type # "multipart" /\ base.sub \notin {"event-stream", "jsonl", "json-seq"} -> ""
           [] OTHER -> CarriageFamily(base, schema, version, omittedOn30)

(* Whether the schema has one flattened surface: an object's fields.        *)
FlatObject(schema) == schema \in {"omitted", "items", "object", "dynamic"}
NoSchema(schema) == schema \in {"omitted", "items"}
Positional(schema, version) == version = "3.2" /\ schema \in {"items", "array"}

(* What buildBodyPlan throws on.                                            *)
Unbuildable(family, ranged, schema, version, wholeJSON) ==
    \/ schema = "complex" /\ ~(wholeJSON /\ ~ranged /\ family = "json")
    \/ /\ ~ranged
       /\ \/ family \in {"multipart", "urlencoded"} /\ (NoSchema(schema) \/ ~FlatObject(schema))
             /\ ~(family = "multipart" /\ Positional(schema, version))
          \/ family = "text" /\ schema \in {"object", "dynamic"}

MembersOf(range) ==
    {m \in {[type |-> "application", sub |-> s] : s \in {"json", "jsonl", "json-seq", "x-www-form-urlencoded"}}
           \cup {[type |-> "multipart", sub |-> "form-data"], [type |-> "text", sub |-> "plain"]} :
        range.type \in {"*", m.type}}
    \cup {[type |-> IF range.type = "*" THEN "application" ELSE range.type, sub |-> s] :
             s \in {"x+json", "x-representative"}}

RangeFamilies(range, version) ==
    {f \in {Family(m, range.schema, version, FALSE) : m \in MembersOf(range)} \ {""} :
        ~Unbuildable(f, FALSE, range.schema, version, FALSE)}

CandidateFamily(key, version) ==
    IF Ranged(key) THEN IF RangeFamilies(key, version) = {} THEN "" ELSE "range"
    ELSE Family(key, key.schema, version, TRUE)

Whole(key, family) == key.schema = "dynamic" \/ (key.schema = "complex" /\ family = "json")
Synthetic(key, family) ==
    \/ NoSchema(key.schema) /\ family \notin {"multipart", "urlencoded"}
    \/ family \in {"text", "raw", "sequential"}
    \/ ~FlatObject(key.schema) /\ ~Whole(key, family)

BodyPlan(key, family, unsupported) ==
    [key |-> key, family |-> family, unsupported |-> unsupported,
     synthetic |-> Synthetic(key, family), whole |-> Whole(key, family) /\ ~unsupported]

UsableKeys(content) == {k \in content \ Colliding(content) : k.type # ""}

(* inventory: a declaration without carriage is kept, so that it is ranked. *)
PlanRequestBodies(content, version, inventory) ==
    LET usable == {k \in UsableKeys(content) : inventory \/ CandidateFamily(k, version) # ""}
        failing == {k \in usable : \/ CandidateFamily(k, version) = "" /\ k.schema = "complex"
                                   \/ Unbuildable(CandidateFamily(k, version), Ranged(k), k.schema, version, TRUE)}
        planned(k) == BodyPlan(k, CandidateFamily(k, version), CandidateFamily(k, version) = "")
        kept == {planned(k) : k \in usable \ failing}
        inventoried == {BodyPlan(k, "", TRUE) : k \in failing}
    IN IF \/ usable = {}
          \/ inventory /\ \E k \in failing : k.schema = "complex"
          \/ ~inventory /\ kept = {}
       THEN [refused |-> TRUE, plans |-> {}]
       ELSE [refused |-> FALSE, plans |-> kept \cup (IF inventory THEN inventoried ELSE {})]

Supported(planned) == {p \in planned.plans : ~p.unsupported}

(***************************************************************************)
(* Election by a configured concrete media type.                           *)
(***************************************************************************)
MostSpecific(keys) ==
    LET top == {k \in keys : \A l \in keys : Specificity(l) <= Specificity(k)}
    IN {k \in top : \A l \in top : Cardinality(DOMAIN l.params) <= Cardinality(DOMAIN k.params)}

ConfigureRequestMedia(plans, concrete, version) ==
    LET winners == MostSpecific({p.key : p \in {q \in plans : Covers(q.key, concrete)}})
        winner == {p \in plans : p.key \in winners}
        family(p) == IF Ranged(p.key) THEN Family(concrete, p.key.schema, version, FALSE) ELSE p.family
    IN IF Cardinality(winners) # 1 THEN {}
       ELSE {[p EXCEPT !.family = family(p)] : p \in
                {q \in winner : /\ ~q.unsupported /\ family(q) # ""
                                /\ ~Ranged(q.key) \/ ~Unbuildable(family(q), FALSE, q.key.schema, version, FALSE)}}

(***************************************************************************)
(* Responses.                                                              *)
(***************************************************************************)
SuccessMediaTypes(content) ==
    {k \in UsableKeys(content) : Ranged(k) \/ "q" \notin DOMAIN k.params}

GoverningResponseMedia(content, actual) ==
    IF \E k \in content : k.type = "" THEN {}
    ELSE LET best == MostSpecific({k \in UsableKeys(content) : Covers(k, actual)})
         IN IF Cardinality(best) = 1 THEN best ELSE {}

StreamingCapable(content) ==
    \E k \in SuccessMediaTypes(content) : k.sub = "event-stream" \/ (Ranged(k) /\ k.type \in {"*", "text"})

(***************************************************************************)
(* A declaration that planning kept can be chosen by its own media type    *)
(* and by nothing that another declaration names more closely; the gate    *)
(* before dispatch and the run elect the same one; a form is never one     *)
(* whole value and text and octets always are; what a client advertises it *)
(* can decode, and what streams was declared to (media.ts                  *)
(* planRequestBodies, configureRequestMedia, successMediaTypes,            *)
(* governingResponseMediaMatch, isStreamingCapable).                       *)
(***************************************************************************)
Concrete(key) == [type |-> key.type, sub |-> key.sub, params |-> key.params]

EveryDeclarationIsReachable(content, version, concrete) ==
    LET planned == PlanRequestBodies(content, version, TRUE)
        elected == ConfigureRequestMedia(planned.plans, concrete, version)
        governing == GoverningResponseMedia(content, concrete)
    IN /\ \A p \in Supported(planned) : ~Ranged(p.key) =>
             ConfigureRequestMedia(planned.plans, Concrete(p.key), version) = {p}
       /\ \A p \in elected :
             /\ Covers(p.key, concrete)
             /\ \A k \in UsableKeys(content) \ {p.key} : Covers(k, concrete) =>
                   \/ Specificity(k) < Specificity(p.key)
                   \/ /\ Specificity(k) = Specificity(p.key)
                      /\ Cardinality(DOMAIN k.params) < Cardinality(DOMAIN p.key.params)
             /\ ConfigureRequestMedia(Supported(planned), concrete, version) = elected
             /\ p.family \in {"text", "raw"} => p.synthetic
             /\ p.family \in {"multipart", "urlencoded"} /\ ~Positional(p.key.schema, version) => ~p.synthetic
       /\ \A k \in SuccessMediaTypes(content) : ~Ranged(k) /\ (\A l \in content : l.type # "") =>
             GoverningResponseMedia(content, Concrete(k)) = {k}
       /\ \A k \in governing : concrete.sub = "event-stream" /\ ("q" \notin DOMAIN k.params) => StreamingCapable(content)

(* Every usable declaration is selected by some media type, its own         *)
(* (media.ts, resolved-media.ts).                                           *)
DeclarationsAreReachable ==
    \A c \in selecting : EveryDeclarationIsReachable(c.content, c.version, c.concrete)

MediaInit == \E c \in MediaCases : selecting = {c}
MediaSpec == MediaInit /\ [][UNCHANGED selecting]_selecting

(***************************************************************************)
(* The inventory only adds declarations: one that planning supports stays  *)
(* supported when the ones without carriage are kept for ranking (media.ts *)
(* planRequestBodies, "Preserves all concrete supported request            *)
(* candidates without binding-spec preference").                           *)
(***************************************************************************)
InventoryKeepsTheSupported(content, version) ==
    Supported(PlanRequestBodies(content, version, FALSE)) \subseteq Supported(PlanRequestBodies(content, version, TRUE))
=============================================================================
