----------------------------- MODULE Dereference -----------------------------
(***************************************************************************)
(* The resolution of references in one document                            *)
(* (src/typescript/src/internal/deref.ts): a depth-first walk that         *)
(* rewrites the tree in place, retrieves each external resource once and   *)
(* only when something composed points into it, and closes cycles by       *)
(* remembering what every node resolves to.                                *)
(*                                                                         *)
(* A document is a set of nodes: each belongs to a resource, is an object  *)
(* with children or a reference with a target, and may itself be           *)
(* defective.  Sibling members of a reference are left out.                *)
(***************************************************************************)
EXTENDS Naturals, Sequences, FiniteSets, SequencesExt

Entry == "entry"           \* the resource that is loaded
Dangling == "dangling"     \* a fragment of the same resource that names nothing
Nowhere == "nowhere"       \* a fragment of another resource that names nothing

Nodes(d) == DOMAIN d.nodes
IsRef(d, n) == d.nodes[n].target # ""
Target(d, n) == d.nodes[n].target
Children(d, n) == IF IsRef(d, n) THEN <<>> ELSE d.nodes[n].children
EntryNodes(d) == {n \in Nodes(d) : d.nodes[n].resource = Entry}

(***************************************************************************)
(* The walk.  done says what a node resolved to, slot what its place in    *)
(* its parent now holds.                                                   *)
(***************************************************************************)
WalkStart(d) == [done |-> [n \in Nodes(d) |-> ""], slot |-> [n \in Nodes(d) |-> n],
                 fetched |-> {}, failed |-> FALSE, out |-> ""]

Failed(st) == [st EXCEPT !.failed = TRUE]
Result(st, n, v) == [st EXCEPT !.done[n] = v, !.out = v]

(* The resource a reference points into, retrieved on first use.            *)
Retrieve(d, allowed, n, st) ==
    LET resource == IF Target(d, n) = Nowhere THEN d.nodes[n].elsewhere ELSE d.nodes[Target(d, n)].resource
    IN IF resource \in st.fetched \cup {Entry, d.nodes[n].resource} THEN st
       ELSE IF resource \in allowed THEN [st EXCEPT !.fetched = @ \cup {resource}]
       ELSE Failed(st)

RECURSIVE WalkNode(_, _, _, _)

(* Mutant: a reference is marked as visited, and not replaced by what it    *)
(* resolved to.                                                             *)
MarkedReference(d, policy, n, start) ==
    LET reserved == Result(start, n, n) IN
    IF Target(d, n) = Dangling
    THEN IF policy.tolerant THEN reserved ELSE Failed(reserved)
    ELSE LET found == Retrieve(d, policy.allowed, n, reserved) IN
         IF found.failed \/ Target(d, n) = Nowhere THEN Failed(found)
         ELSE WalkNode(d, policy, Target(d, n), found)

WalkReference(d, policy, n, start) ==
    LET reserved == Result(start, n, n) IN
    IF Target(d, n) = Dangling
    THEN IF policy.tolerant THEN reserved ELSE Failed(reserved)
    ELSE LET found == Retrieve(d, policy.allowed, n, reserved) IN
         IF found.failed \/ Target(d, n) = Nowhere THEN Failed(found)
         ELSE LET walked == WalkNode(d, policy, Target(d, n), found)
              IN Result(walked, n, walked.out)

WalkChildren(d, policy, n, start) ==
    LET child(st, c) == IF st.failed THEN st
                        ELSE LET walked == WalkNode(d, policy, c, st)
                             IN [walked EXCEPT !.slot[c] = walked.out]
    IN Result(FoldLeft(child, Result(start, n, n), Children(d, n)), n, n)

WalkNode(d, policy, n, st) ==
    IF st.failed THEN st
    ELSE IF st.done[n] # "" THEN [st EXCEPT !.out = st.done[n]]
    ELSE IF IsRef(d, n) THEN WalkReference(d, policy, n, st)
    ELSE WalkChildren(d, policy, n, st)

(* policy: the resources that may be retrieved, and whether a reference     *)
(* within a resource may name nothing.  The root holds the entry's nodes    *)
(* that are no other node's child.                                          *)
Tops(d) == SetToSortSeq({n \in EntryNodes(d) : \A m \in Nodes(d) : ~Contains(d.nodes[m].children, n)},
                        LAMBDA a, b : d.nodes[a].rank < d.nodes[b].rank)

Resolve(d, policy) ==
    LET top(st, n) == IF st.failed THEN st
                      ELSE LET walked == WalkNode(d, policy, n, st)
                           IN [walked EXCEPT !.slot[n] = walked.out]
    IN FoldLeft(top, WalkStart(d), Tops(d))

(***************************************************************************)
(* What the result must be, by reachability.                               *)
(***************************************************************************)
Points(d, n) == ToSet(Children(d, n)) \cup (IF IsRef(d, n) THEN {Target(d, n)} \cap Nodes(d) ELSE {})
(* What next leads to from some nodes.                                       *)
Reached(d, next(_), from) ==
    FoldLeft(LAMBDA found, i : found \cup UNION {next(n) : n \in found}, from,
             [i \in 1..Cardinality(Nodes(d)) |-> i])
Composed(d) == Reached(d, LAMBDA n : Points(d, n), EntryNodes(d))
LeadsBack(d, n) == n \in Reached(d, LAMBDA m : Points(d, m), Points(d, n))

PointsOutside(d, n) == IsRef(d, n) /\ Target(d, n) # Dangling
                       /\ (Target(d, n) = Nowhere \/ d.nodes[Target(d, n)].resource # d.nodes[n].resource)
Wanted(d) == {IF Target(d, n) = Nowhere THEN d.nodes[n].elsewhere ELSE d.nodes[Target(d, n)].resource :
                 n \in {m \in Composed(d) : PointsOutside(d, m)}} \ {Entry}

MustFail(d, policy) ==
    \/ ~(Wanted(d) \subseteq policy.allowed)
    \/ \E n \in Composed(d) : Target(d, n) = Nowhere
    \/ ~policy.tolerant /\ \E n \in Composed(d) : Target(d, n) = Dangling

(* What a reference denotes: the object, or the dangling reference, its     *)
(* chain ends in, none when the chain is a circle.                          *)
Follows1(d, n) == IF IsRef(d, n) THEN {Target(d, n)} \cap Nodes(d) ELSE {}
Chain(d, n) == Reached(d, LAMBDA m : Follows1(d, m), {n})
Denoted(d, n) == {m \in Chain(d, n) : Follows1(d, m) = {}}

(* A reference that another refers to, below what it refers to itself.      *)
SelfLeading(d, n) == IsRef(d, n) /\ LeadsBack(d, n) /\ \E m \in Composed(d) : IsRef(d, m) /\ Target(d, m) = n

Spots(d) == ToSet(Tops(d)) \cup UNION {ToSet(Children(d, n)) : n \in Composed(d)}

(* The walk fails exactly when something composed cannot be resolved,       *)
(* retrieves exactly the resources that are composed, and every place of    *)
(* the document holds what its reference denotes, though it has siblings    *)
(* and cycles; in its stead, one that leads through a reference that is     *)
(* itself referred to and leads back to itself, may hold that reference     *)
(* (deref.ts walkAsync, resolveExternal).                                   *)
ResolvesExactly(d, policy) ==
    LET st == Resolve(d, policy) IN
    IF MustFail(d, policy) THEN st.failed
    ELSE /\ ~st.failed
         /\ st.fetched = Wanted(d)
         /\ \A c \in Spots(d) :
               \/ st.slot[c] \in Denoted(d, c)
               \/ st.slot[c] \in Chain(d, c) /\ (Denoted(d, c) = {} \/ SelfLeading(d, st.slot[c]))

(* "Downstream code always sees direct values, never a {"$ref": ...}        *)
(* indirection": no place that denotes an object holds a reference to it.   *)
(* One does that is walked while its own target is (util.ts                 *)
(* loadOpenAPIDocument, deref.ts walkAsync).                                *)
SeesDirectValues(d, policy) ==
    LET st == Resolve(d, policy) IN
    ~st.failed => \A c \in Spots(d) : Denoted(d, c) # {} => st.slot[c] \in Denoted(d, c)
=============================================================================
