---------------------------- MODULE ResourceGraph ----------------------------
(***************************************************************************)
(* Resource transactions and the snapshots they publish                    *)
(* (rust/client/src/graph.rs, DocumentBuilder). Resources live behind Arcs *)
(* that several transactions and snapshots may share: "heap" holds what    *)
(* each Arc points to, and an address is its index. The incremental        *)
(* admission counters and the identity index are carried along.            *)
(*                                                                         *)
(* A source file is a record [openapi, self, size, nodes, refs]: whether   *)
(* it declares an edition, its $self, its size, its pointers and, for      *)
(* those that are Reference Objects, where they lead and (in an OpenAPI    *)
(* file) what kind stands there. A URI or pointer is one unit of metadata  *)
(* bytes. Snapshots are never dropped: a fork retains its seed, so that a  *)
(* drop could not unshare anything.                                        *)
(***************************************************************************)
EXTENDS Integers, FiniteSetsExt, SequencesExt

CONSTANTS Builders,   \* transactions, each of them owned by one thread
          Inputs,     \* ResourceInput: [file, retrieval, aliases, roots]
          Layouts,    \* ResourceLayout: sets of [pointer, kind]
          KeyOf,      \* identity_key, on the URIs in use
          Root,       \* the empty pointer
          MaxResources, MaxBytes, MaxIdentities, MaxLayouts, MaxMetadata,
          MaxHeap, MaxDocs,  \* bounds of the model: Arcs made, snapshots
          Absent

VARIABLES heap,      \* what each Arc points to
          docs,      \* the published snapshots
          builders   \* the open transactions, by owner

graphVars == <<heap, docs, builders>>

Keys == {KeyOf[u] : u \in DOMAIN KeyOf}

\* URIs are identities, limits and sizes are natural numbers, what comes in is finite.
ASSUME GraphAssumption ==
  /\ Absent \notin Nat \cup DOMAIN KeyOf
  /\ {MaxResources, MaxBytes, MaxIdentities, MaxLayouts, MaxMetadata} \subseteq Nat
  /\ \A l \in Layouts : IsFiniteSet(l)
  /\ \A i \in Inputs :
       /\ i.file.size \in Nat /\ i.file.self \in DOMAIN KeyOf \cup {Absent}
       /\ i.retrieval \in DOMAIN KeyOf \cup {Absent} /\ i.aliases \in Seq(DOMAIN KeyOf)
       /\ IsFiniteSet(i.roots)

GraphInit == heap = <<>> /\ docs = <<>> /\ builders = [b \in {} |-> Absent]

-----------------------------------------------------------------------------
(* Resources, identities and what they cost *)

Has(x) == IF x = Absent THEN 0 ELSE 1

Claims(r) == {KeyOf[u] : u \in (ToSet(r.aliases) \cup {r.file.self}) \ {Absent}}

Based(r) == IF r.file.self # Absent \/ r.retrieval # Absent THEN 1 ELSE 0

Nothing == [identities |-> 0, layouts |-> 0, bytes |-> 0]

Plus(a, b) == [identities |-> a.identities + b.identities,
               layouts |-> a.layouts + b.layouts, bytes |-> a.bytes + b.bytes]

Within(m) == /\ m.identities <= MaxIdentities
             /\ m.layouts <= MaxLayouts
             /\ m.bytes <= MaxMetadata

\* Resource::metadata, counted when the resource is committed.
Metadata(r) ==
  [identities |-> Len(r.aliases) + 2 * Has(r.file.self),
   layouts |-> Cardinality(r.roots),
   bytes |-> Len(r.aliases) + Has(r.retrieval) + Based(r) + Has(r.file.self)
             + Cardinality(r.roots)]

\* metadata_input and what admit_parsed adds to it, before anything is built.
Usage(i) ==
  LET names == Len(i.aliases) + Has(i.retrieval)
      roots == Cardinality(i.roots)
  IN  Plus([identities |-> names, layouts |-> roots, bytes |-> names + roots],
           [identities |-> 2 * Has(i.file.self), layouts |-> 0,
            bytes |-> Has(i.retrieval) + Based(i) + Has(i.file.self)])

Deref(arcs) == {heap[a] : a \in ToSet(arcs)}

OneKindEach(roots) == \A r, s \in roots : r.pointer = s.pointer => r = s

\* stage_aliases: none of the keys belongs to another resource.
Free(names, keys, id) == \A k \in keys : names[k] \in {Absent, id}

NamedAs(names, keys, id) == [k \in Keys |-> IF k \in keys THEN id ELSE names[k]]

-----------------------------------------------------------------------------
(* What a snapshot means: contexts and the needs it reports *)

\* Protocol positions known from the start: an OpenAPI file's own references and
\* the roots of layouts. An entry is <<resource id, pointer, kind>>.
Given(resources) ==
  UNION {{<<r.id, p, r.file.refs[p].kind>> : p \in IF r.file.openapi THEN DOMAIN r.file.refs ELSE {}}
         \cup {<<r.id, s.pointer, s.kind>> : s \in r.roots} : r \in resources}

\* The references at known positions, with the kind that is known.
Uses(resources, contexts) ==
  UNION {{[by |-> r.id, at |-> c[2], kind |-> c[3], to |-> r.file.refs[c[2]].to,
           key |-> KeyOf[r.file.refs[c[2]].uri]] :
            c \in {x \in contexts : x[1] = r.id /\ x[2] \in DOMAIN r.file.refs}} : r \in resources}

\* A reference to the root of an untyped file gives that root its kind.
Infer(resources, names, contexts) ==
  contexts \cup
  UNION {{<<t.id, Root, u.kind>> :
            t \in {x \in resources : ~x.file.openapi /\ u.to = Root /\ names[u.key] = x.id}} :
         u \in Uses(resources, contexts)}

\* Graph::new: the closure of that inference.
Contexts(resources, names) ==
  LET after[n \in 0..Cardinality(resources)] ==
        IF n = 0 THEN Given(resources) ELSE Infer(resources, names, after[n - 1])
  IN  after[Cardinality(resources)]

Consistent(contexts) ==
  \A c, e \in contexts : c[1] = e[1] /\ c[2] = e[2] => c = e

\* Graph::target: bytes at an identity nobody has, or a layout for a pointer into
\* an untyped file.
Needs(resources, names) ==
  LET contexts == Contexts(resources, names)
      uses == Uses(resources, contexts)
  IN  {[need |-> "Bytes", source |-> u.by, at |-> u.at, key |-> u.key, target |-> Absent,
        pointer |-> u.to, kind |-> u.kind] : u \in {x \in uses : names[x.key] = Absent}}
      \cup
      UNION {{[need |-> "Layout", source |-> u.by, at |-> u.at, key |-> Absent, target |-> t.id,
               pointer |-> u.to, kind |-> u.kind] :
                t \in {x \in resources :
                         /\ names[u.key] = x.id /\ ~x.file.openapi /\ u.to \in x.file.nodes
                         /\ \A e \in contexts : e[1] # x.id \/ e[2] # u.to}} :
             u \in uses}

NeedsOf(d) == Needs(Deref(docs[d].arcs), docs[d].names)

-----------------------------------------------------------------------------
(* Transactions *)

Live(b) == b \in DOMAIN builders

Becomes(b, g) ==
  builders' = [c \in DOMAIN builders \cup {b} |-> IF c = b THEN g ELSE builders[c]]

Open(b, arcs, names, bytes, meta, seed, answered) ==
  /\ ~Live(b)
  /\ Becomes(b, [arcs |-> arcs, names |-> names, bytes |-> bytes, meta |-> meta,
                 seed |-> seed, answered |-> answered])
  /\ UNCHANGED <<heap, docs>>

New(b) == Open(b, <<>>, [k \in Keys |-> Absent], 0, Nothing, Absent, {})

\* from_document: the Arcs are cloned, not what they point to.
FromDocument(b) ==
  \E d \in DOMAIN docs :
    Open(b, docs[d].arcs, docs[d].names, docs[d].bytes, docs[d].meta, d, docs[d].answered)

\* Whether an Arc has another owner than this transaction.
Shared(b, a) == \/ \E d \in DOMAIN docs : a \in ToSet(docs[d].arcs)
                \/ \E c \in DOMAIN builders \ {b} : a \in ToSet(builders[c].arcs)

\* A new Arc holds r.
Fresh == Len(heap) + 1
Allocate(b, r, next) == /\ Len(heap) < MaxHeap
                        /\ heap' = Append(heap, r)
                        /\ Becomes(b, next)

Overwrite(b, i, r, next) == /\ heap' = [heap EXCEPT ![builders[b].arcs[i]] = r]
                            /\ Becomes(b, next)

\* Arc::make_mut. Slip: Arcs are looked for in other transactions only.
CopyUnlessPublished(b, i, r, next) ==
  IF \E c \in DOMAIN builders \ {b} : builders[b].arcs[i] \in ToSet(builders[c].arcs)
  THEN Allocate(b, r, [next EXCEPT !.arcs[i] = Fresh]) ELSE Overwrite(b, i, r, next)
MakeMut(b, i, r, next) ==
  IF Shared(b, builders[b].arcs[i])
  THEN Allocate(b, r, [next EXCEPT !.arcs[i] = Fresh]) ELSE Overwrite(b, i, r, next)

\* What a call leaves that refuses or is cancelled.
RefuseResource(b, keys, id) == UNCHANGED <<heap, builders>>

At(b, i) == heap[builders[b].arcs[i]]

\* The resource already retrieved from the same identity.
Known(b, input) ==
  {i \in DOMAIN builders[b].arcs :
     /\ input.retrieval # Absent /\ At(b, i).retrieval # Absent
     /\ KeyOf[At(b, i).retrieval] = KeyOf[input.retrieval]
     /\ builders[b].names[KeyOf[input.retrieval]] = At(b, i).id}

\* add_with_cancellation, for a known resource: only its new aliases are added.
AddAgain(b, input, answered, cancelled) ==
  \E i \in Known(b, input) :
    LET r == At(b, i)
        new == ToSet(input.aliases) \ ToSet(r.aliases)
        keys == {KeyOf[u] : u \in new}
        meta == Plus(builders[b].meta, [identities |-> Cardinality(new), layouts |-> 0,
                                        bytes |-> Cardinality(new)])
        next == [builders[b] EXCEPT !.names = NamedAs(@, keys, r.id), !.meta = meta,
                                    !.answered = @ \cup answered]
    IN  IF /\ ~cancelled
           /\ r.file = input.file
           /\ input.roots \in {{}, r.roots}
           /\ Within(meta) /\ Free(builders[b].names, keys, r.id)
        THEN IF new = {}
             THEN Becomes(b, next) /\ UNCHANGED heap
             ELSE MakeMut(b, i, [r EXCEPT !.aliases = @ \o SetToSeq(new)], next)
        ELSE RefuseResource(b, keys, r.id)

\* The same for a new one, through the parser and admit_parsed.
AddNew(b, input, answered, cancelled) ==
  LET r == [id |-> 1 + Max({h.id : h \in ToSet(heap)} \cup {0}),
            file |-> input.file, retrieval |-> input.retrieval,
            aliases |-> input.aliases \o IF input.retrieval = Absent THEN <<>> ELSE <<input.retrieval>>,
            roots |-> input.roots]
      bytes == builders[b].bytes + input.file.size
      next == [builders[b] EXCEPT
                 !.arcs = Append(@, Fresh), !.names = NamedAs(@, Claims(r), r.id),
                 !.bytes = bytes, !.meta = Plus(@, Metadata(r)), !.answered = @ \cup answered]
  IN  /\ Known(b, input) = {}
      /\ IF /\ ~cancelled
            /\ Within(Plus(builders[b].meta, Usage(input)))
            /\ Len(builders[b].arcs) < MaxResources
            /\ bytes <= MaxBytes
            /\ {s.pointer : s \in r.roots} \subseteq r.file.nodes
            /\ OneKindEach(r.roots)
            /\ Free(builders[b].names, Claims(r), r.id)
         THEN Allocate(b, r, next)
         ELSE RefuseResource(b, Claims(r), r.id)

Add(b, input, answered) ==
  /\ Live(b)
  /\ \E cancelled \in BOOLEAN :
       AddAgain(b, input, answered, cancelled) \/ AddNew(b, input, answered, cancelled)
  /\ UNCHANGED docs

\* enrich_layout: always a new Arc, whoever shares the old one.
Enrich(b, id, layout, answered, cancelled) ==
  \E i \in DOMAIN builders[b].arcs :
    LET r == At(b, i)
        new == layout \ r.roots
        meta == Plus(builders[b].meta, [identities |-> 0, layouts |-> Cardinality(new),
                                        bytes |-> Cardinality(new)])
    IN  /\ r.id = id
        /\ IF /\ ~cancelled
              /\ OneKindEach(layout \cup r.roots)
              /\ Within(meta)
              /\ {s.pointer : s \in new} \subseteq r.file.nodes
           THEN Allocate(b, [r EXCEPT !.roots = @ \cup new],
                         [builders[b] EXCEPT !.arcs[i] = Fresh, !.meta = meta,
                                             !.answered = @ \cup answered])
           ELSE RefuseResource(b, {}, id)

EnrichLayout(b) ==
  /\ Live(b)
  /\ \E r \in Deref(builders[b].arcs), layout \in Layouts, cancelled \in BOOLEAN :
       Enrich(b, r.id, layout, {}, cancelled)
  /\ UNCHANGED docs

\* check_need: only the needs of the snapshot this transaction was forked from.
OwnNeeds(b, need) == {n \in NeedsOf(builders[b].seed) : n.need = need}

\* supply: the input must claim the identity that was asked for. Slip: it must
\* claim one.
MeetsAny(input, need) == input.retrieval # Absent
Meets(input, need) ==
  need.key \in {KeyOf[u] : u \in (ToSet(input.aliases) \cup {input.retrieval}) \ {Absent}}

Supply(b) ==
  /\ Live(b) /\ builders[b].seed # Absent
  /\ \E need \in OwnNeeds(b, "Bytes"), input \in Inputs :
       Meets(input, need) /\ Add(b, input, {need})

\* apply_layout: some root gives the needed pointer the needed kind.
ApplyLayout(b) ==
  /\ Live(b) /\ builders[b].seed # Absent
  /\ \E need \in OwnNeeds(b, "Layout"), layout \in Layouts :
       /\ [pointer |-> need.pointer, kind |-> need.kind] \in layout
       /\ Enrich(b, need.target, layout, {need}, FALSE)
  /\ UNCHANGED docs

\* build() moves the resources into a snapshot, or refuses; the transaction is
\* gone either way. Schema indexing and the document index may refuse as well.
Build(b) ==
  /\ Live(b)
  /\ builders' = [c \in DOMAIN builders \ {b} |-> builders[c]]
  /\ UNCHANGED heap
  /\ LET g == builders[b]
     IN  \/ /\ g.arcs # <<>> /\ Len(docs) < MaxDocs
            /\ Consistent(Contexts(Deref(g.arcs), g.names))
            /\ docs' = Append(docs, [arcs |-> g.arcs, names |-> g.names, bytes |-> g.bytes,
                                     meta |-> g.meta, answered |-> g.answered])
         \/ UNCHANGED docs

AddInput(b) == \E input \in Inputs : Add(b, input, {})

GraphNext == \E b \in Builders : \/ New(b) \/ FromDocument(b)
                                 \/ AddInput(b) \/ EnrichLayout(b)
                                 \/ Supply(b) \/ ApplyLayout(b)
                                 \/ Build(b)

GraphSpec == GraphInit /\ [][GraphNext]_graphVars

-----------------------------------------------------------------------------
(* Properties *)

Graphs == ToSet(docs) \cup {builders[b] : b \in DOMAIN builders}

\* Addresses point into the heap, no transaction holds a resource twice, and every
\* limit of GraphLimits holds of every resource set.
GraphTypeOK ==
  \A g \in Graphs :
    /\ ToSet(g.arcs) \subseteq DOMAIN heap
    /\ \A i, j \in DOMAIN g.arcs : heap[g.arcs[i]].id = heap[g.arcs[j]].id => i = j
    /\ Len(g.arcs) <= MaxResources
    /\ g.bytes <= MaxBytes
    /\ Within(g.meta)

Held(g) == [i \in DOMAIN g.arcs |-> heap[g.arcs[i]]]

Tally(sizes) ==
  LET upTo[n \in 0..Len(sizes)] == IF n = 0 THEN 0 ELSE upTo[n - 1] + sizes[n]
  IN  upTo[Len(sizes)]

\* A recount of what is admitted.
Bytes(held) == Tally([i \in DOMAIN held |-> held[i].file.size])
Recount(held) ==
  [identities |-> Tally([i \in DOMAIN held |-> Metadata(held[i]).identities]),
   layouts |-> Tally([i \in DOMAIN held |-> Metadata(held[i]).layouts]),
   bytes |-> Tally([i \in DOMAIN held |-> Metadata(held[i]).bytes])]

\* The counters and the identity index, maintained by differences over additions,
\* refusals, cancellations and forks, are what a recount of the resources gives;
\* in particular no identity belongs to two of them.
AdmissionExact ==
  \A g \in Graphs :
    /\ g.bytes = Bytes(Held(g)) /\ g.meta = Recount(Held(g))
    /\ \A k \in Keys : {r \in Deref(g.arcs) : k \in Claims(r)} =
                       {r \in Deref(g.arcs) : r.id = g.names[k]}

\* A need that was answered is never reported again, by the next snapshot or by
\* any that is forked from it.
NeedsAreAnswered == \A d \in DOMAIN docs : docs[d].answered \cap NeedsOf(d) = {}

Value(r) == [id |-> r.id, file |-> r.file, retrieval |-> r.retrieval,
             aliases |-> ToSet(r.aliases), roots |-> r.roots]
Values(g) == {Value(r) : r \in Deref(g.arcs)}

Sets == INSTANCE ResourceSets WITH
          open <- [b \in DOMAIN builders |-> Values(builders[b])],
          published <- [d \in DOMAIN docs |-> Values(docs[d])]

\* However Arcs are shared and copied, transactions and snapshots behave as
\* values: published ones never change, and open ones only grow by their own calls.
ImplementsResourceSets == Sets!Spec

\* Every admitted resource fits the limits and stands on what it needs (graph.rs,
\* Transaction and Snapshot).
GraphIsSound == GraphTypeOK /\ AdmissionExact /\ NeedsAreAnswered
=============================================================================
