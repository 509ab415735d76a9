-------------------------------- MODULE CutPoints --------------------------------
(***************************************************************************)
(* How the possibly cyclic schema of an operation becomes a tree with      *)
(* $defs (src/typescript/src/util.ts componentSchemaNames,                 *)
(* assignCutPointNames, decycleSchema).                                    *)
(*                                                                         *)
(* A graph maps a node, a number, to its members: a function from keys to  *)
(* nodes.  Key "1" is the element of an array.  A name is the sequence of  *)
(* the words an underscore joins.  A declaration is [node, name, document, *)
(* pointer]: a document is a number, 0 when it is the artifact itself and  *)
(* 1 when its address is empty, and documents and pointers are in order.   *)
(* The copies the walk shares are not modelled: they are equal.            *)
(***************************************************************************)
EXTENDS Naturals, Sequences, FiniteSets, SequencesExt, TLC

Artifact == 0
Nameless == 1
LapLimit == 8

(***************************************************************************)
(* The node's own name: the artifact's and the other documents' components *)
(* in the order they were loaded, then what a reference addressed.         *)
(***************************************************************************)
CanonicalIdentity(d) == <<IF d.document = Artifact THEN Nameless ELSE d.document, d.pointer>>
Precedes(d, e) ==
    \/ CanonicalIdentity(d)[1] < CanonicalIdentity(e)[1]
    \/ CanonicalIdentity(d)[1] = CanonicalIdentity(e)[1] /\ CanonicalIdentity(d)[2] < CanonicalIdentity(e)[2]

ComponentNames(components, addressed) ==
    LET declared == {components[i].node : i \in DOMAIN components}
        first(n) == components[CHOOSE i \in DOMAIN components :
                        /\ components[i].node = n
                        /\ \A j \in 1..(i - 1) : components[j].node # n]
        named == {a \in addressed : a.node \notin declared /\ a.name # <<>>}
        least(n) == CHOOSE a \in named : a.node = n /\ \A b \in named : b.node = n => ~Precedes(b, a)
    IN [n \in declared \cup {a.node : a \in named} |-> IF n \in declared THEN first(n) ELSE least(n)]

(***************************************************************************)
(* A document's name relative to the artifact's.  An address is [opaque,   *)
(* relative, scheme, host, path], the path without its extension.          *)
(***************************************************************************)
SameOrigin(a, b) ==
    /\ ~a.opaque /\ a.host = b.host
    /\ a.scheme = b.scheme \/ "" \in {a.scheme, b.scheme}

RelativeDocumentName(base, target) ==
    LET directory == Front(base.path)
    IN IF target.opaque \/ target.relative THEN target.path
       ELSE IF SameOrigin(base, target)
       THEN IF IsStrictPrefix(directory, target.path)
            THEN SubSeq(target.path, Len(directory) + 1, Len(target.path))
            ELSE target.path
       ELSE IF target.host = "" THEN target.path ELSE <<target.host>> \o target.path

(***************************************************************************)
(* One name for every cut point.                                           *)
(***************************************************************************)
Qualifiable(d) == d.document \notin {Artifact, Nameless}

(* Mutant: the numeric suffix is not tried against the names taken.         *)
FreshOnce(stem, taken) == IF stem \notin taken THEN stem ELSE Append(stem, "2")

Fresh(stem, taken) ==
    LET tried == [k \in 2..(Cardinality(taken) + 2) |-> Append(stem, ToString(k))]
    IN IF stem \notin taken THEN stem
       ELSE tried[CHOOSE k \in DOMAIN tried : tried[k] \notin taken /\ \A j \in 2..(k - 1) : tried[j] \in taken]

(* The artifact's own first, then by identity; equals keep their places.    *)
NamingOrder(claims) ==
    LET rank(i) == IF claims[i].document = Artifact THEN 0 ELSE 1
        before(i, j) == \/ rank(i) < rank(j)
                        \/ rank(i) = rank(j) /\ Precedes(claims[i], claims[j])
                        \/ /\ rank(i) = rank(j) /\ i < j
                           /\ ~Precedes(claims[j], claims[i])
    IN SetToSortSeq(DOMAIN claims, before)

(* places: the address of each document; base: the artifact's own.          *)
AssignNames(claims, base, places) ==
    LET order == NamingOrder(claims)
        rivals(i) == {j \in DOMAIN claims : claims[j].name = claims[i].name}
        position(i) == CHOOSE k \in DOMAIN order : order[k] = i
        asWritten == {i \in DOMAIN claims :
            \/ rivals(i) = {i}
            \/ ~Qualifiable(claims[i]) /\ \A j \in rivals(i) \ {i} :
                  Qualifiable(claims[j]) \/ position(i) < position(j)}
        stem(i) == IF Qualifiable(claims[i])
                   THEN RelativeDocumentName(base, places[claims[i].document]) \o claims[i].name
                   ELSE claims[i].name
        written == [i \in asWritten |-> claims[i].name]
        step(names, i) == (i :> Fresh(stem(i), {names[j] : j \in DOMAIN names})) @@ names
    IN FoldLeft(step, written, SelectSeq(order, LAMBDA i : i \notin asWritten))

(***************************************************************************)
(* The walk.                                                               *)
(***************************************************************************)
IsArray(g, n) == "1" \in DOMAIN g[n]

ChildPos(pos, key) ==
    CASE key = "1" -> IF pos = "schemaArray" THEN "schema" ELSE pos
      [] key # "1" /\ pos = "data" -> "data"
      [] key # "1" /\ pos \in {"schemaMap", "schemaArray"} -> "schema"
      [] key # "1" /\ pos = "schema" ->
            CASE key \in {"items", "not"} -> "schema"
              [] key \in {"properties", "$defs"} -> "schemaMap"
              [] key \in {"oneOf", "allOf"} -> "schemaArray"
              [] OTHER -> "data"

Kids(g, n) == {g[n][k] : k \in DOMAIN g[n]}
RECURSIVE From(_, _)
From(g, set) ==
    LET more == set \cup UNION {Kids(g, n) : n \in set}
    IN IF more = set THEN set ELSE From(g, more)

(* The nodes that reach themselves; of a knot of them that has named ones,  *)
(* the named ones only.                                                     *)
Cyclic(g, root, named) ==
    LET reached == From(g, {root})
        after(n) == From(g, Kids(g, n))
        knot(n) == {m \in reached : m \in after(n) /\ n \in after(m)}
    IN {n \in reached : n \in after(n) /\ (n \in named \/ knot(n) \cap named = {})}

(* What copying a node at a position hoists; a walk once refused goes no    *)
(* further.                                                                *)
Walked(refused, hoisted) == [refused |-> refused, hoisted |-> hoisted]
Onward(walked, Walk(_), set) ==
    LET step(x, so) == IF so.refused THEN so
                       ELSE LET more == Walk(x) IN Walked(more.refused, so.hoisted \cup more.hoisted)
    IN FoldSet(step, walked, set)

RECURSIVE Copy(_, _, _, _, _)
Copy(g, cyclic, n, pos, walk) ==
    LET again == n \in walk.stack
        within == [stack |-> walk.stack \cup {n}, laps |-> [walk.laps EXCEPT ![n] = IF again THEN @ + 1 ELSE @]]
        child(k) == Copy(g, cyclic, g[n][k], ChildPos(pos, k), within)
    IN IF pos = "schema" /\ ~IsArray(g, n) /\ (again \/ n \in cyclic) THEN Walked(FALSE, {n})
       ELSE IF within.laps[n] > LapLimit THEN Walked(TRUE, {})
       ELSE Onward(Walked(FALSE, {}), child, DOMAIN g[n])

CopyMembers(g, cyclic, n) ==
    LET child(k) == Copy(g, cyclic, g[n][k], ChildPos("schema", k),
                         [stack |-> {n}, laps |-> [m \in DOMAIN g |-> 0]])
    IN Onward(Walked(FALSE, {}), child, DOMAIN g[n])

(* The definitions that are written: each may hoist others.                 *)
RECURSIVE Materialize(_, _, _)
Materialize(g, cyclic, walked) ==
    LET definition(n) == CopyMembers(g, cyclic, n)
        next == Onward(walked, definition, walked.hoisted)
    IN IF next.refused \/ next = walked THEN next ELSE Materialize(g, cyclic, next)

(* The key of every cut point: its own name, or one from its shape.         *)
CutNames(g, cyclic, hoisted, names, digest, base, places) ==
    LET declared == SetToSeq({n \in cyclic : n \in DOMAIN names})
        assigned == AssignNames([i \in DOMAIN declared |-> names[declared[i]]], base, places)
        known == [n \in Range(declared) |-> assigned[CHOOSE i \in DOMAIN declared : declared[i] = n]]
        step(given, n) == (n :> Fresh(<<"cycle", digest[n]>>, {given[m] : m \in DOMAIN given})) @@ given
    IN FoldLeft(step, known, SetToSeq((cyclic \cup hoisted) \ Range(declared)))

Keyed(g, cyclic, walked, names, digest, base, places) ==
    [refused |-> walked.refused, hoisted |-> walked.hoisted,
     key |-> CutNames(g, cyclic, walked.hoisted, names, digest, base, places)]

Decycled(g, root, cyclic, names, digest, base, places) ==
    Keyed(g, cyclic, Materialize(g, cyclic, CopyMembers(g, cyclic, root)), names, digest, base, places)

DecycleSchema(g, root, names, digest, base, places) ==
    Decycled(g, root, Cyclic(g, root, DOMAIN names), names, digest, base, places)

(***************************************************************************)
(* A cycle the tree cannot express never crosses a schema position.        *)
(***************************************************************************)
Cuts(g, place) == place[2] = "schema" /\ ~IsArray(g, place[1])
Steps(g, place) == {<<g[place[1]][k], ChildPos(place[2], k)>> : k \in DOMAIN g[place[1]]}

(* The places reached from some, through none that is cut if uncut.         *)
RECURSIVE PlacesFrom(_, _, _)
PlacesFrom(g, set, uncut) ==
    LET next == UNION {Steps(g, p) : p \in set}
        more == set \cup {p \in next : ~uncut \/ ~Cuts(g, p)}
    IN IF more = set THEN set ELSE PlacesFrom(g, more, uncut)

Inexpressible(g, root) ==
    \E p \in PlacesFrom(g, {<<root, "schema">>}, FALSE) :
        ~Cuts(g, p) /\ p \in PlacesFrom(g, {q \in Steps(g, p) : ~Cuts(g, q)}, TRUE)

(***************************************************************************)
(* Every $ref of the tree finds the definition of the node it stands for:  *)
(* no two cut points share a key, whatever names their documents give      *)
(* them; where the artifact's own component is in a contest, an artifact's *)
(* own keeps the name; the keys do not depend on the order in which the    *)
(* walk met the cut points; and a schema is refused exactly when one of    *)
(* its cycles never crosses a schema position (util.ts decycleSchema and   *)
(* the convention above canonicalComponentIdentity).                       *)
(***************************************************************************)
NamesStay(names, claims, base, places, key) ==
    LET assigned == AssignNames([i \in DOMAIN claims |-> names[claims[i]]], base, places)
    IN (\A m, n \in Range(claims) : m # n => CanonicalIdentity(names[m]) # CanonicalIdentity(names[n])
                                            \/ names[m].document # names[n].document)
       => \A i \in DOMAIN claims : assigned[i] = key[claims[i]]

TreeIsSound(g, root, names, base, places, tree) ==
    LET claims == {n \in DOMAIN tree.key : n \in DOMAIN names}
        own == {n \in claims : names[n].document = Artifact}
    IN /\ \A m, n \in DOMAIN tree.key : m # n => tree.key[m] # tree.key[n]
       /\ tree.hoisted \subseteq DOMAIN tree.key
       /\ \A n \in own : \E m \in own : names[m].name = names[n].name /\ tree.key[m] = names[n].name
       /\ NamesStay(names, Reverse(SetToSeq(claims)), base, places, tree.key)
       /\ tree.refused <=> Inexpressible(g, root)

DefinitionsAreFound(g, root, names, digest, base, places) ==
    TreeIsSound(g, root, names, base, places, DecycleSchema(g, root, names, digest, base, places))
=============================================================================
