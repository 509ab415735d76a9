------------------------------ MODULE RefSiblings -------------------------------
(***************************************************************************)
(* Which `$ref` members are references                                     *)
(* (src/typescript/src/ref-siblings.ts): every one is hidden when a        *)
(* resource is read, and shown again only where the vocabularies put a     *)
(* reference.  What a retrieved fragment holds is learnt from the          *)
(* references into it, so resources are prepared again as hints arrive.    *)
(*                                                                         *)
(* A document is a set of nodes [resource, parent, as, target, anchored,   *)
(* modern]: as says what its parent holds it as (applied, through an       *)
(* applicator of a schema; schema, parameter or opaque, in an object of    *)
(* OpenAPI; data), target is the node its `$ref` names ("" for none), by   *)
(* an anchor or by a pointer, and modern that it has a `$schema` of its    *)
(* own.  edition says what each resource is: 3.0, 3.1 or fragment.  The    *)
(* children of a node with a target are the siblings of its `$ref`.        *)
(***************************************************************************)
EXTENDS Naturals, Sequences, FiniteSets, SequencesExt

CONSTANT RefDocuments

VARIABLES refDocument,         \* the document and the edition that was loaded
          marks                \* what the normalizer has shown, dropped and noted

refVars == <<refDocument, marks>>

HeldAs(d, n, held) == {m \in DOMAIN d.nodes : d.nodes[m].parent = n /\ d.nodes[m].as \in held}
ResourceRoot(d, resource) == CHOOSE n \in DOMAIN d.nodes : d.nodes[n].parent = "" /\ d.nodes[n].resource = resource
Semantics(d, resource) ==
    LET edition == IF d.edition[resource] = "fragment" THEN d.edition["entry"] ELSE d.edition[resource]
    IN IF edition = "3.0" THEN "ignore" ELSE "compose"

Anything == {"applied", "schema", "parameter", "opaque", "data"}

Hint(d, n, kind) == [node |-> d.nodes[n].target, kind |-> kind, anchored |-> d.nodes[n].anchored]
Drop(st, nodes) == [st EXCEPT !.dropped = @ \cup nodes]

RECURSIVE NormalizeSchema(_, _, _, _), Dropped(_, _, _)

Dropped(d, n, st) == n # "" /\ (n \in st.dropped \/ Dropped(d, d.nodes[n].parent, st))

Expose(d, n, kind, st) ==
    LET read == [st EXCEPT !.read = @ \cup {<<n, kind>>}]
    IN IF d.nodes[n].target = "" THEN read
       ELSE [read EXCEPT !.shown = @ \cup {n}, !.hints = @ \cup {Hint(d, n, kind)}]

NormalizeSchema(d, n, inherited, st) ==
    LET semantics == IF d.nodes[n].modern THEN "compose" ELSE inherited
        exposed == Expose(d, n, "schema", st)
        next(s, m) == NormalizeSchema(d, m, semantics, s)
        siblings == HeldAs(d, n, Anything)
    IN IF <<n, "schema">> \in st.read \/ Dropped(d, n, st) THEN st
       ELSE IF d.nodes[n].target # "" /\ semantics = "ignore" THEN Drop(exposed, siblings)
       ELSE FoldLeft(next, exposed, SetToSeq(HeldAs(d, n, {"applied"})))

(* A Reference Object keeps none of its structural siblings.                *)
WalkReferenceOrObject(d, n, kind, semantics, st) ==
    IF kind = "schema" THEN NormalizeSchema(d, n, semantics, st)
    ELSE IF d.nodes[n].target # ""
    THEN Drop(Expose(d, n, kind, st), HeldAs(d, n, Anything))
    ELSE FoldLeft(LAMBDA s, m : NormalizeSchema(d, m, semantics, s), Expose(d, n, kind, st),
                  SetToSeq(IF kind = "parameter" THEN HeldAs(d, n, {"schema"}) ELSE {}))

NormalizeOpenAPIDocument(d, resource, st) ==
    LET members == HeldAs(d, ResourceRoot(d, resource), {"schema", "parameter", "opaque"})
    IN FoldLeft(LAMBDA s, m : WalkReferenceOrObject(d, m, d.nodes[m].as, Semantics(d, resource), s),
                st, SetToSeq(members))

(***************************************************************************)
(* The hints a resource has, until none is left that can be found.         *)
(***************************************************************************)
RECURSIVE SchemaNormalizationRoot(_, _), NormalizeTargets(_, _, _, _)

SchemaNormalizationRoot(d, n) ==
    IF d.nodes[n].as = "applied" THEN SchemaNormalizationRoot(d, d.nodes[n].parent) ELSE n

(* An anchor is hidden as well, until its schema is normalized.             *)
Found(d, hint, st) ==
    ~Dropped(d, hint.node, st) /\ (hint.anchored => <<hint.node, "schema">> \in st.read)

(* A plain name in a retrieved fragment makes its root a schema.            *)
AnchorRetry(d, resource, hint, st) ==
    IF /\ ~Found(d, hint, st) /\ hint.kind = "schema" /\ hint.anchored
       /\ Semantics(d, resource) = "compose"
    THEN NormalizeSchema(d, ResourceRoot(d, resource), "compose", st)
    ELSE st

(* Mutant: a hint is known by the fragment it names only.                   *)
HintByFragment(hint) == hint.node

HintId(hint) == <<hint.kind, hint.node>>

NormalizeTargets(d, resource, processed, st) ==
    LET fresh == {h \in st.hints : d.nodes[h.node].resource = resource /\ HintId(h) \notin processed}
        tried == FoldLeft(LAMBDA s, h : AnchorRetry(d, resource, h, s), st, SetToSeq(fresh))
        found == {h \in fresh : Found(d, h, tried)}
    IN IF found = {} THEN [st |-> tried, processed |-> processed]
       ELSE LET h == CHOOSE one \in found : TRUE
                start == IF h.kind = "schema" THEN SchemaNormalizationRoot(d, h.node) ELSE h.node
            IN NormalizeTargets(d, resource, processed \cup {HintId(h)},
                                WalkReferenceOrObject(d, start, h.kind, Semantics(d, resource), tried))

(* A resource as it is read: on its own, and with the hints so far.         *)
Normalize(d, resource, st) ==
    LET own == IF d.edition[resource] = "fragment" THEN st ELSE NormalizeOpenAPIDocument(d, resource, st)
    IN [NormalizeTargets(d, resource, {}, own).st EXCEPT !.loaded = @ \cup {resource}]

PrepareTarget(d, resource, st) ==
    LET done == NormalizeTargets(d, resource, st.processed[resource], st)
    IN [done.st EXCEPT !.processed[resource] = done.processed]

(***************************************************************************)
(* The walk of the dereferencer, in any order: what is composed, and a     *)
(* reference of it that is followed.                                       *)
(***************************************************************************)
RECURSIVE ComposedNodes(_, _, _)
ComposedNodes(d, st, from) ==
    LET more == {m \in DOMAIN d.nodes :
                    /\ ~Dropped(d, m, st)
                    /\ \/ d.nodes[m].parent \in from
                       \/ \E n \in from : n \in st.followed /\ d.nodes[n].target = m}
    IN IF more \subseteq from THEN from ELSE ComposedNodes(d, st, from \cup more)

Pending(d, st) == {n \in ComposedNodes(d, st, {ResourceRoot(d, "entry")}) : n \in st.shown \ st.followed}

Hidden(d) == [shown |-> {}, dropped |-> {}, read |-> {}, hints |-> {}, loaded |-> {}, followed |-> {},
              processed |-> [r \in DOMAIN d.edition |-> {}], failed |-> FALSE]

RefInit == /\ refDocument \in RefDocuments
           /\ marks = Normalize(refDocument, "entry", Hidden(refDocument))

ResolveReference(n) ==
    LET d == refDocument
        resource == d.nodes[d.nodes[n].target].resource
        read == IF resource \in marks.loaded THEN marks ELSE Normalize(d, resource, marks)
        prepared == PrepareTarget(d, resource, read)
    IN /\ ~marks.failed
       /\ marks' = [prepared EXCEPT !.followed = @ \cup {n},
                                    !.failed = ~Found(d, [node |-> d.nodes[n].target, kind |-> "any",
                                                          anchored |-> d.nodes[n].anchored], prepared)]
       /\ UNCHANGED refDocument

RefDone == /\ marks.failed \/ Pending(refDocument, marks) = {}
           /\ UNCHANGED refVars

RefNext == (\E n \in Pending(refDocument, marks) : ResolveReference(n)) \/ RefDone

(***************************************************************************)
(* What is a reference, by position alone: the least reading of the        *)
(* document that the vocabularies and the references themselves give.      *)
(***************************************************************************)
RECURSIVE KeepsSiblings(_, _)
KeepsSiblings(d, n) ==
    \/ d.nodes[n].modern
    \/ Semantics(d, d.nodes[n].resource) = "compose"
    \/ d.nodes[n].as = "applied" /\ KeepsSiblings(d, d.nodes[n].parent)

ReadThen(d, n, kind) ==
    LET isRef == d.nodes[n].target # ""
        fields == CASE kind = "schema" /\ (isRef => KeepsSiblings(d, n)) -> HeldAs(d, n, {"applied"})
                    [] kind = "parameter" /\ ~isRef -> HeldAs(d, n, {"schema"})
                    [] OTHER -> {}
        owner == IF kind = "schema" /\ d.nodes[n].as = "applied" THEN {d.nodes[n].parent} ELSE {}
    IN {<<m, "schema">> : m \in fields \cup owner} \cup (IF isRef THEN {<<d.nodes[n].target, kind>>} ELSE {})

RECURSIVE ReadPositions(_, _)
ReadPositions(d, read) ==
    LET more == UNION {ReadThen(d, p[1], p[2]) : p \in read}
    IN IF more \subseteq read THEN read ELSE ReadPositions(d, read \cup more)

Structural(d) ==
    {<<m, d.nodes[m].as>> : m \in {n \in DOMAIN d.nodes :
        /\ d.nodes[n].parent # "" /\ d.nodes[n].as \in {"schema", "parameter", "opaque"}
        /\ d.nodes[d.nodes[n].parent].parent = "" /\ d.edition[d.nodes[n].resource] # "fragment"}}

(***************************************************************************)
(* In whatever order references are followed and resources arrive, a       *)
(* `$ref` is shown only where it is a reference, and at the end every      *)
(* reference of what is composed was shown and followed: one in data stays *)
(* data, and one learnt of late is not left behind (ref-siblings.ts        *)
(* normalize, prepareTarget, normalizeTargets).  A pointer always finds    *)
(* its node.                                                               *)
(***************************************************************************)
ReferencesByPosition ==
    LET d == refDocument
        references == {p[1] : p \in {q \in ReadPositions(d, Structural(d)) : d.nodes[q[1]].target # ""}}
        composed == ComposedNodes(d, marks, {ResourceRoot(d, "entry")})
    IN /\ marks.shown \subseteq references
       /\ marks.failed => \E n \in marks.followed : d.nodes[n].anchored
       /\ ~marks.failed /\ Pending(d, marks) = {} => composed \cap references \subseteq marks.followed
================================================================================
