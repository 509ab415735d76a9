---------------------------- MODULE ResourceSets ----------------------------
(***************************************************************************)
(* What resource transactions promise (rust/client/GRAPH.md), with every   *)
(* set of resources a value of its own: a transaction only ever adds to    *)
(* its resources, publishing hands its value over, and nothing that        *)
(* happens to one transaction is seen by another or by a published         *)
(* snapshot.                                                               *)
(***************************************************************************)
EXTENDS Sequences

CONSTANT Builders

VARIABLES open,        \* the resources of each open transaction
          published    \* the snapshots' resources, in the order of publication

vars == <<open, published>>

Init == open = [b \in {} |-> {}] /\ published = <<>>

Becomes(b, resources) ==
  open' = [c \in DOMAIN open \cup {b} |-> IF c = b THEN resources ELSE open[c]]

\* A transaction starts empty or from a snapshot.
Begin(b) == /\ b \notin DOMAIN open
            /\ \/ Becomes(b, {})
               \/ \E d \in DOMAIN published : Becomes(b, published[d])
            /\ UNCHANGED published

\* The same source with at least the identities and roots it had.
Extends(s, r) == /\ s.id = r.id /\ s.file = r.file /\ s.retrieval = r.retrieval
                 /\ r.aliases \subseteq s.aliases
                 /\ r.roots \subseteq s.roots

Edit(b) == /\ b \in DOMAIN open \cap DOMAIN open'
           /\ Becomes(b, open'[b])
           /\ \A r \in open[b] : \E s \in open'[b] : Extends(s, r)
           /\ UNCHANGED published

\* build() consumes the transaction whether it publishes or refuses.
End(b) == /\ b \in DOMAIN open
          /\ open' = [c \in DOMAIN open \ {b} |-> open[c]]
          /\ published' = Append(published, open[b]) \/ UNCHANGED published

Next == \E b \in Builders : Begin(b) \/ Edit(b) \/ End(b)

Spec == Init /\ [][Next]_vars
=============================================================================
