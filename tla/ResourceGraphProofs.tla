------------------------- MODULE ResourceGraphProofs -------------------------
(***************************************************************************)
(* Resource transactions, for every set of inputs, every limit, any number *)
(* of transactions and snapshots: the counters and the identity index are  *)
(* what a recount gives, an answered need stays answered, and the shared   *)
(* Arcs behave as values (ResourceSets).                                   *)
(*                                                                         *)
(* A graph is judged by the list of resources it holds; a step replaces    *)
(* one entry of that list, or appends one, and leaves alone every address  *)
(* that another graph holds.                                               *)
(***************************************************************************)
EXTENDS ResourceGraph, SequenceTheorems, FiniteSetTheorems, WellFoundedInduction, TLAPS

-----------------------------------------------------------------------------
(* Induction and sums *)

\* Sets of naturals stand for predicates: one that is closed under the successor
\* is all of Nat.
LEMMA EveryNatural ==
  ASSUME NEW S, 0 \in S, \A n \in Nat : n \in S => n + 1 \in S
  PROVE  Nat \subseteq S
<1> DEFINE rest == Nat \ S
<1>1. SUFFICES ASSUME rest # {} PROVE FALSE
  OBVIOUS
<1>2. PICK first \in rest : \A n \in rest : <<n, first>> \notin OpToRel(<, Nat)
  BY <1>1, NatLessThanWellFounded, WFMin
<1>3. \A n \in rest : ~(n < first)
  BY <1>2 DEF OpToRel
<1>4. first - 1 \in Nat /\ first - 1 \notin rest
  BY <1>3
<1>. QED
  BY <1>4

\* The recursive function in Tally exists.
LEMMA TallyUnfolds ==
  ASSUME NEW sizes, Len(sizes) \in Nat
  PROVE  \E upTo : /\ upTo[0] = 0
                   /\ \A n \in 1..Len(sizes) : upTo[n] = upTo[n - 1] + sizes[n]
                   /\ Tally(sizes) = upTo[Len(sizes)]
<1> DEFINE From(f, m) == [n \in 0..m |-> IF n = 0 THEN 0 ELSE f[n - 1] + sizes[n]]
           upTo == CHOOSE f : f = From(f, Len(sizes))
           defined == {m \in Nat : \E f : f = From(f, m)}
<1>1. Nat \subseteq defined
  <2>1. 0 \in defined
    <3>1. [n \in 0..0 |-> 0] = From([n \in 0..0 |-> 0], 0)
      OBVIOUS
    <3>. QED
      BY <3>1
  <2>2. ASSUME NEW m \in Nat, m \in defined PROVE m + 1 \in defined
    <3>1. PICK f : f = From(f, m)
      BY <2>2
    <3> DEFINE g == [n \in 0..(m + 1) |-> IF n = m + 1 THEN f[m] + sizes[m + 1] ELSE f[n]]
    <3>2. \A n \in 0..m : f[n] = IF n = 0 THEN 0 ELSE f[n - 1] + sizes[n]
      BY <3>1
    <3>3. \A n \in 0..(m + 1) : g[n] = IF n = 0 THEN 0 ELSE g[n - 1] + sizes[n]
      <4>1. \A n \in 0..m : g[n] = f[n]
        OBVIOUS
      <4>2. g[m + 1] = f[m] + sizes[m + 1] /\ (m + 1) - 1 = m /\ m \in 0..m
        OBVIOUS
      <4>3. \A n \in 0..m : n # 0 => n - 1 \in 0..m
        OBVIOUS
      <4>4. \A n \in 0..(m + 1) : n \in 0..m \/ n = m + 1
        OBVIOUS
      <4> HIDE DEF g
      <4>. QED
        BY <3>2, <4>1, <4>2, <4>3, <4>4
    <3>4. g = From(g, m + 1)
      BY <3>3
    <3> HIDE DEF g
    <3>. QED
      BY <3>4
  <2> HIDE DEF defined
  <2>. QED
    BY <2>1, <2>2, EveryNatural
<1>2. upTo = From(upTo, Len(sizes))
  <2>1. \E f : f = From(f, Len(sizes))
    BY <1>1
  <2>. QED
    BY <2>1
<1>3. \A n \in 0..Len(sizes) : upTo[n] = IF n = 0 THEN 0 ELSE upTo[n - 1] + sizes[n]
  BY <1>2
<1>4. Tally(sizes) = upTo[Len(sizes)]
  BY DEF Tally
<1> HIDE DEF upTo
<1>. QED
  BY <1>3, <1>4

\* Two lists that differ by d in one place.
LEMMA TallyChanges ==
  ASSUME NEW s \in Seq(Int), NEW t \in Seq(Int), Len(s) = Len(t), NEW i \in 1..Len(s), NEW d \in Int,
         t[i] = s[i] + d, \A j \in 1..Len(s) : j # i => t[j] = s[j]
  PROVE  Tally(s) \in Int /\ Tally(t) = Tally(s) + d
<1>1. Len(s) \in Nat /\ \A j \in 1..Len(s) : s[j] \in Int
  BY LenProperties, ElementOfSeq
<1>2. PICK f : /\ f[0] = 0 /\ \A n \in 1..Len(s) : f[n] = f[n - 1] + s[n]
               /\ Tally(s) = f[Len(s)]
  BY <1>1, TallyUnfolds
<1>3. PICK g : /\ g[0] = 0 /\ \A n \in 1..Len(s) : g[n] = g[n - 1] + t[n]
               /\ Tally(t) = g[Len(s)]
  BY <1>1, TallyUnfolds
<1> DEFINE good == {n \in Nat : n <= Len(s) =>
                      f[n] \in Int /\ g[n] = IF n < i THEN f[n] ELSE f[n] + d}
<1>4. 0 \in good
  BY <1>2, <1>3
<1>5. ASSUME NEW n \in Nat, n \in good PROVE n + 1 \in good
  <2>1. SUFFICES ASSUME n + 1 <= Len(s)
                 PROVE  f[n + 1] \in Int /\ g[n + 1] = IF n + 1 < i THEN f[n + 1] ELSE f[n + 1] + d
    OBVIOUS
  <2>2. n + 1 \in 1..Len(s) /\ f[n] \in Int /\ g[n] = IF n < i THEN f[n] ELSE f[n] + d
    BY <1>1, <1>5, <2>1
  <2>3. f[n + 1] = f[n] + s[n + 1] /\ g[n + 1] = g[n] + t[n + 1] /\ s[n + 1] \in Int
    BY <1>1, <1>2, <1>3, <2>2
  <2>4. n + 1 < i => n < i /\ t[n + 1] = s[n + 1]
    BY <2>2
  <2>5. n + 1 = i => n < i /\ t[n + 1] = s[n + 1] + d
    OBVIOUS
  <2>6. n + 1 > i => ~(n < i) /\ t[n + 1] = s[n + 1]
    BY <2>2
  <2>7. f[n + 1] \in Int /\ i \in Nat
    BY <2>2, <2>3, SMTT(30)
  <2>8. CASE n + 1 < i
    BY <2>2, <2>3, <2>4, <2>7, <2>8, SMTT(30)
  <2>9. CASE n + 1 = i
    BY <2>2, <2>3, <2>5, <2>7, <2>9, SMTT(30)
  <2>10. CASE n + 1 > i
    BY <2>2, <2>3, <2>6, <2>7, <2>10, SMTT(30)
  <2>. QED
    BY <2>7, <2>8, <2>9, <2>10, SMTT(30)
<1> HIDE DEF good
<1>6. Nat \subseteq good
  BY <1>4, <1>5, EveryNatural
<1>7. Len(s) \in good
  BY <1>1, <1>6
<1>. QED
  BY <1>1, <1>2, <1>3, <1>7 DEF good

\* A list with one more number.
LEMMA TallyAppends ==
  ASSUME NEW s \in Seq(Int), NEW t \in Seq(Int), Len(t) = Len(s) + 1,
         \A j \in 1..Len(s) : t[j] = s[j]
  PROVE  Tally(s) \in Int /\ Tally(t) = Tally(s) + t[Len(t)]
<1>1. Len(s) \in Nat /\ Len(t) \in Nat /\ \A j \in 1..Len(s) : s[j] \in Int
  BY LenProperties, ElementOfSeq
<1>2. PICK f : /\ f[0] = 0 /\ \A n \in 1..Len(s) : f[n] = f[n - 1] + s[n]
               /\ Tally(s) = f[Len(s)]
  BY <1>1, TallyUnfolds
<1>3. PICK g : /\ g[0] = 0 /\ \A n \in 1..Len(t) : g[n] = g[n - 1] + t[n]
               /\ Tally(t) = g[Len(t)]
  BY <1>1, TallyUnfolds
<1> DEFINE good == {n \in Nat : n <= Len(s) => f[n] \in Int /\ g[n] = f[n]}
<1>4. 0 \in good
  BY <1>2, <1>3
<1>5. ASSUME NEW n \in Nat, n \in good PROVE n + 1 \in good
  <2>1. SUFFICES ASSUME n + 1 <= Len(s) PROVE f[n + 1] \in Int /\ g[n + 1] = f[n + 1]
    OBVIOUS
  <2>2. n + 1 \in 1..Len(s) /\ n + 1 \in 1..Len(t) /\ f[n] \in Int /\ g[n] = f[n]
    BY <1>1, <1>5, <2>1
  <2>3. f[n + 1] = f[n] + s[n + 1] /\ g[n + 1] = g[n] + t[n + 1] /\ s[n + 1] \in Int
    BY <1>1, <1>2, <1>3, <2>2
  <2>. QED
    BY <2>2, <2>3
<1> HIDE DEF good
<1>6. Nat \subseteq good
  BY <1>4, <1>5, EveryNatural
<1>7. Len(s) \in good /\ Len(t) \in 1..Len(t) /\ Len(t) - 1 = Len(s)
  BY <1>1, <1>6
<1>. QED
  BY <1>1, <1>2, <1>3, <1>7 DEF good

-----------------------------------------------------------------------------
(* Resources and recounts *)

Uris == DOMAIN KeyOf
Roots == (UNION {i.roots : i \in Inputs}) \cup (UNION Layouts)
Resource == [id : Nat, file : {i.file : i \in Inputs}, retrieval : Uris \cup {Absent},
             aliases : Seq(Uris), roots : {r \in SUBSET Roots : IsFiniteSet(r)}]
Counts == [identities : Int, layouts : Int, bytes : Int]

LEMMA MetadataCounts == \A r \in Resource : Metadata(r) \in Counts /\ r.file.size \in Int
<1> SUFFICES ASSUME NEW r \in Resource PROVE Metadata(r) \in Counts /\ r.file.size \in Int
  OBVIOUS
<1>1. r.aliases \in Seq(Uris) /\ IsFiniteSet(r.roots) /\ r.file \in {i.file : i \in Inputs}
  BY DEF Resource
<1>2. Len(r.aliases) \in Int /\ Cardinality(r.roots) \in Int
  BY <1>1, LenProperties, FS_CardinalityType
<1>3. Has(r.file.self) \in Int /\ Has(r.retrieval) \in Int /\ Based(r) \in Int
  BY DEF Has, Based
<1>. QED
  BY <1>1, <1>2, <1>3, GraphAssumption, SMTT(30) DEF Metadata, Counts

\* The columns that are summed.
LEMMA Columns ==
  ASSUME NEW list \in Seq(Resource)
  PROVE  LET file == [i \in DOMAIN list |-> list[i].file.size]
             identities == [i \in DOMAIN list |-> Metadata(list[i]).identities]
             layouts == [i \in DOMAIN list |-> Metadata(list[i]).layouts]
             bytes == [i \in DOMAIN list |-> Metadata(list[i]).bytes]
         IN  /\ {file, identities, layouts, bytes} \subseteq Seq(Int)
             /\ \A c \in {file, identities, layouts, bytes} : Len(c) = Len(list)
             /\ Bytes(list) = Tally(file)
             /\ Recount(list) = [identities |-> Tally(identities), layouts |-> Tally(layouts),
                                 bytes |-> Tally(bytes)]
<1>1. DOMAIN list = 1..Len(list) /\ Len(list) \in Nat /\ \A i \in 1..Len(list) : list[i] \in Resource
  BY LenProperties, ElementOfSeq
<1>2. \A i \in 1..Len(list) : /\ list[i].file.size \in Int /\ Metadata(list[i]).identities \in Int
                              /\ Metadata(list[i]).layouts \in Int /\ Metadata(list[i]).bytes \in Int
  BY <1>1, MetadataCounts DEF Counts
<1>. QED
  BY <1>1, <1>2 DEF Bytes, Recount

LEMMA RecountReplaced ==
  ASSUME NEW list \in Seq(Resource), NEW new \in Seq(Resource), Len(new) = Len(list),
         NEW i \in 1..Len(list), \A j \in 1..Len(list) : j # i => new[j] = list[j],
         NEW delta \in Counts, new[i].file = list[i].file,
         Metadata(new[i]) = Plus(Metadata(list[i]), delta)
  PROVE  Bytes(new) = Bytes(list) /\ Recount(new) = Plus(Recount(list), delta)
<1> DEFINE file(l) == [j \in DOMAIN l |-> l[j].file.size]
           identities(l) == [j \in DOMAIN l |-> Metadata(l[j]).identities]
           layouts(l) == [j \in DOMAIN l |-> Metadata(l[j]).layouts]
           bytes(l) == [j \in DOMAIN l |-> Metadata(l[j]).bytes]
<1>1. /\ DOMAIN list = 1..Len(list) /\ DOMAIN new = 1..Len(list)
      /\ list[i] \in Resource
  BY LenProperties, ElementOfSeq
<1>2. Metadata(list[i]) \in Counts /\ list[i].file.size \in Int
  BY <1>1, MetadataCounts
<1>3. /\ Metadata(new[i]).identities = Metadata(list[i]).identities + delta.identities
      /\ Metadata(new[i]).layouts = Metadata(list[i]).layouts + delta.layouts
      /\ Metadata(new[i]).bytes = Metadata(list[i]).bytes + delta.bytes
  BY DEF Plus
<1>4. /\ {file(list), identities(list), layouts(list), bytes(list)} \subseteq Seq(Int)
      /\ \A c \in {file(list), identities(list), layouts(list), bytes(list)} : Len(c) = Len(list)
      /\ Bytes(list) = Tally(file(list))
      /\ Recount(list) = [identities |-> Tally(identities(list)), layouts |-> Tally(layouts(list)),
                          bytes |-> Tally(bytes(list))]
  BY Columns
<1>5. /\ {file(new), identities(new), layouts(new), bytes(new)} \subseteq Seq(Int)
      /\ \A c \in {file(new), identities(new), layouts(new), bytes(new)} : Len(c) = Len(list)
      /\ Bytes(new) = Tally(file(new))
      /\ Recount(new) = [identities |-> Tally(identities(new)), layouts |-> Tally(layouts(new)),
                         bytes |-> Tally(bytes(new))]
  BY Columns
<1>6. /\ file(new)[i] = file(list)[i] + 0
      /\ identities(new)[i] = identities(list)[i] + delta.identities
      /\ layouts(new)[i] = layouts(list)[i] + delta.layouts
      /\ bytes(new)[i] = bytes(list)[i] + delta.bytes
  BY <1>1, <1>2, <1>3
<1>7. \A j \in 1..Len(list) : j # i =>
        /\ file(new)[j] = file(list)[j] /\ identities(new)[j] = identities(list)[j]
        /\ layouts(new)[j] = layouts(list)[j] /\ bytes(new)[j] = bytes(list)[j]
  BY <1>1
<1>8. delta.identities \in Int /\ delta.layouts \in Int /\ delta.bytes \in Int /\ 0 \in Int
  BY DEF Counts
<1> HIDE DEF file, identities, layouts, bytes
<1>9. Tally(file(list)) \in Int /\ Tally(file(new)) = Tally(file(list)) + 0
  <2>1. file(list) \in Seq(Int) /\ file(new) \in Seq(Int) /\ i \in 1..Len(file(list))
    BY <1>4, <1>5
  <2>2. Len(file(list)) = Len(file(new)) /\ Len(file(list)) = Len(list)
    BY <1>4, <1>5
  <2>3. \A j \in 1..Len(file(list)) : j # i => file(new)[j] = file(list)[j]
    BY <1>7, <2>2
  <2>4. file(new)[i] = file(list)[i] + 0
    BY <1>6
  <2>5. 0 \in Int
    BY <1>8
  <2>. QED
    BY <2>1, <2>2, <2>3, <2>4, <2>5, TallyChanges
<1>10. Tally(identities(list)) \in Int /\ Tally(identities(new)) = Tally(identities(list)) + delta.identities
  <2>1. identities(list) \in Seq(Int) /\ identities(new) \in Seq(Int) /\ i \in 1..Len(identities(list))
    BY <1>4, <1>5
  <2>2. Len(identities(list)) = Len(identities(new)) /\ Len(identities(list)) = Len(list)
    BY <1>4, <1>5
  <2>3. \A j \in 1..Len(identities(list)) : j # i => identities(new)[j] = identities(list)[j]
    BY <1>7, <2>2
  <2>4. identities(new)[i] = identities(list)[i] + delta.identities
    BY <1>6
  <2>5. delta.identities \in Int
    BY <1>8
  <2>. QED
    BY <2>1, <2>2, <2>3, <2>4, <2>5, TallyChanges
<1>11. Tally(layouts(list)) \in Int /\ Tally(layouts(new)) = Tally(layouts(list)) + delta.layouts
  <2>1. layouts(list) \in Seq(Int) /\ layouts(new) \in Seq(Int) /\ i \in 1..Len(layouts(list))
    BY <1>4, <1>5
  <2>2. Len(layouts(list)) = Len(layouts(new)) /\ Len(layouts(list)) = Len(list)
    BY <1>4, <1>5
  <2>3. \A j \in 1..Len(layouts(list)) : j # i => layouts(new)[j] = layouts(list)[j]
    BY <1>7, <2>2
  <2>4. layouts(new)[i] = layouts(list)[i] + delta.layouts
    BY <1>6
  <2>5. delta.layouts \in Int
    BY <1>8
  <2>. QED
    BY <2>1, <2>2, <2>3, <2>4, <2>5, TallyChanges
<1>12. Tally(bytes(list)) \in Int /\ Tally(bytes(new)) = Tally(bytes(list)) + delta.bytes
  <2>1. bytes(list) \in Seq(Int) /\ bytes(new) \in Seq(Int) /\ i \in 1..Len(bytes(list))
    BY <1>4, <1>5
  <2>2. Len(bytes(list)) = Len(bytes(new)) /\ Len(bytes(list)) = Len(list)
    BY <1>4, <1>5
  <2>3. \A j \in 1..Len(bytes(list)) : j # i => bytes(new)[j] = bytes(list)[j]
    BY <1>7, <2>2
  <2>4. bytes(new)[i] = bytes(list)[i] + delta.bytes
    BY <1>6
  <2>5. delta.bytes \in Int
    BY <1>8
  <2>. QED
    BY <2>1, <2>2, <2>3, <2>4, <2>5, TallyChanges
<1>. QED
  BY <1>4, <1>5, <1>9, <1>10, <1>11, <1>12 DEF Plus

LEMMA RecountAppended ==
  ASSUME NEW list \in Seq(Resource), NEW new \in Seq(Resource), Len(new) = Len(list) + 1,
         \A j \in 1..Len(list) : new[j] = list[j]
  PROVE  /\ Bytes(new) = Bytes(list) + new[Len(new)].file.size
         /\ Recount(new) = Plus(Recount(list), Metadata(new[Len(new)]))
<1> DEFINE file(l) == [j \in DOMAIN l |-> l[j].file.size]
           identities(l) == [j \in DOMAIN l |-> Metadata(l[j]).identities]
           layouts(l) == [j \in DOMAIN l |-> Metadata(l[j]).layouts]
           bytes(l) == [j \in DOMAIN l |-> Metadata(l[j]).bytes]
           last == Len(new)
<1>1. DOMAIN list = 1..Len(list) /\ DOMAIN new = 1..Len(new) /\ last \in 1..Len(new) /\ Len(list) \in Nat
  BY LenProperties
<1>2. /\ {file(list), identities(list), layouts(list), bytes(list)} \subseteq Seq(Int)
      /\ \A c \in {file(list), identities(list), layouts(list), bytes(list)} : Len(c) = Len(list)
      /\ Bytes(list) = Tally(file(list))
      /\ Recount(list) = [identities |-> Tally(identities(list)), layouts |-> Tally(layouts(list)),
                          bytes |-> Tally(bytes(list))]
  BY Columns
<1>3. /\ {file(new), identities(new), layouts(new), bytes(new)} \subseteq Seq(Int)
      /\ \A c \in {file(new), identities(new), layouts(new), bytes(new)} : Len(c) = last
      /\ Bytes(new) = Tally(file(new))
      /\ Recount(new) = [identities |-> Tally(identities(new)), layouts |-> Tally(layouts(new)),
                         bytes |-> Tally(bytes(new))]
  BY Columns
<1>4. /\ file(new)[last] = new[last].file.size
      /\ identities(new)[last] = Metadata(new[last]).identities
      /\ layouts(new)[last] = Metadata(new[last]).layouts
      /\ bytes(new)[last] = Metadata(new[last]).bytes
  BY <1>1
<1>5. \A j \in 1..Len(list) :
        /\ file(new)[j] = file(list)[j] /\ identities(new)[j] = identities(list)[j]
        /\ layouts(new)[j] = layouts(list)[j] /\ bytes(new)[j] = bytes(list)[j]
  BY <1>1
<1> HIDE DEF file, identities, layouts, bytes, last
<1>6. last = Len(list) + 1
  BY DEF last
<1>7. Tally(file(new)) = Tally(file(list)) + file(new)[last]
  <2>1. file(list) \in Seq(Int) /\ file(new) \in Seq(Int)
    BY <1>2, <1>3
  <2>2. Len(file(list)) = Len(list) /\ Len(file(new)) = last
    BY <1>2, <1>3
  <2>3. \A j \in 1..Len(file(list)) : file(new)[j] = file(list)[j]
    BY <1>5, <2>2
  <2>. QED
    BY <1>6, <2>1, <2>2, <2>3, TallyAppends
<1>8. Tally(identities(new)) = Tally(identities(list)) + identities(new)[last]
  <2>1. identities(list) \in Seq(Int) /\ identities(new) \in Seq(Int)
    BY <1>2, <1>3
  <2>2. Len(identities(list)) = Len(list) /\ Len(identities(new)) = last
    BY <1>2, <1>3
  <2>3. \A j \in 1..Len(identities(list)) : identities(new)[j] = identities(list)[j]
    BY <1>5, <2>2
  <2>. QED
    BY <1>6, <2>1, <2>2, <2>3, TallyAppends
<1>9. Tally(layouts(new)) = Tally(layouts(list)) + layouts(new)[last]
  <2>1. layouts(list) \in Seq(Int) /\ layouts(new) \in Seq(Int)
    BY <1>2, <1>3
  <2>2. Len(layouts(list)) = Len(list) /\ Len(layouts(new)) = last
    BY <1>2, <1>3
  <2>3. \A j \in 1..Len(layouts(list)) : layouts(new)[j] = layouts(list)[j]
    BY <1>5, <2>2
  <2>. QED
    BY <1>6, <2>1, <2>2, <2>3, TallyAppends
<1>10. Tally(bytes(new)) = Tally(bytes(list)) + bytes(new)[last]
  <2>1. bytes(list) \in Seq(Int) /\ bytes(new) \in Seq(Int)
    BY <1>2, <1>3
  <2>2. Len(bytes(list)) = Len(list) /\ Len(bytes(new)) = last
    BY <1>2, <1>3
  <2>3. \A j \in 1..Len(bytes(list)) : bytes(new)[j] = bytes(list)[j]
    BY <1>5, <2>2
  <2>. QED
    BY <1>6, <2>1, <2>2, <2>3, TallyAppends
<1>. QED
  BY <1>2, <1>3, <1>4, <1>7, <1>8, <1>9, <1>10 DEF Plus, last
-----------------------------------------------------------------------------
(* The inductive invariant *)

HeldBy(h, g) == [i \in DOMAIN g.arcs |-> h[g.arcs[i]]]

\* A need stays answered: its identity has a resource, or its pointer has its kind.
Settled(need, list, names) ==
  \/ need.need = "Bytes" /\ need.key \in Keys /\ names[need.key] # Absent
  \/ /\ need.need = "Layout"
     /\ \E i \in DOMAIN list : /\ list[i].id = need.target
                               /\ [pointer |-> need.pointer, kind |-> need.kind] \in list[i].roots

Distinct(list) == \A i, j \in DOMAIN list : list[i].id = list[j].id => i = j

\* A named identity belongs to the resource that claims it, and only claimed ones are named.
Indexed(list, names) ==
  /\ names \in [Keys -> Nat \cup {Absent}]
  /\ \A k \in Keys : names[k] = Absent \/ \E i \in DOMAIN list : list[i].id = names[k]
  /\ \A k \in Keys, i \in DOMAIN list : k \in Claims(list[i]) <=> list[i].id = names[k]

\* The graph g stands on the list of its resources.
ListOK(list, g) ==
  /\ list \in Seq(Resource) /\ Distinct(list) /\ Indexed(list, g.names)
  /\ Len(list) <= MaxResources /\ g.bytes <= MaxBytes /\ Within(g.meta)
  /\ g.bytes = Bytes(list) /\ g.meta = Recount(list)
  /\ \A need \in g.answered : Settled(need, list, g.names)

GraphOK(h, g) == g.arcs \in Seq(DOMAIN h) /\ ListOK(HeldBy(h, g), g)

Transaction(g) == DOMAIN g = {"arcs", "names", "bytes", "meta", "seed", "answered"}

GraphInv ==
  /\ heap \in Seq(Resource)
  /\ docs \in Seq(ToSet(docs)) /\ \A d \in DOMAIN docs : GraphOK(heap, docs[d])
  /\ \A b \in DOMAIN builders : GraphOK(heap, builders[b]) /\ Transaction(builders[b])

-----------------------------------------------------------------------------
(* Lists of resources *)

LEMMA IsASequence == ASSUME NEW S, NEW n \in Nat, NEW f \in [1..n -> S] PROVE f \in Seq(S)
<1>. QED
  OBVIOUS

LEMMA HeldIsAList ==
  ASSUME NEW h, NEW g, g.arcs \in Seq(DOMAIN h)
  PROVE  /\ DOMAIN g.arcs = 1..Len(g.arcs) /\ Len(g.arcs) \in Nat
         /\ Len(HeldBy(h, g)) = Len(g.arcs) /\ DOMAIN HeldBy(h, g) = 1..Len(g.arcs)
         /\ \A i \in 1..Len(g.arcs) : g.arcs[i] \in DOMAIN h /\ HeldBy(h, g)[i] = h[g.arcs[i]]
<1>1. DOMAIN g.arcs = 1..Len(g.arcs) /\ Len(g.arcs) \in Nat
  BY LenProperties
<1>2. \A i \in 1..Len(g.arcs) : g.arcs[i] \in DOMAIN h
  BY ElementOfSeq
<1>. QED
  BY <1>1, <1>2 DEF HeldBy

\* The identities a resource claims are keys.
LEMMA ClaimsAreKeys == \A r \in Resource : Claims(r) \subseteq Keys
<1> SUFFICES ASSUME NEW r \in Resource PROVE Claims(r) \subseteq Keys
  OBVIOUS
<1>1. r.aliases \in Seq(Uris) /\ r.file.self \in Uris \cup {Absent}
  BY GraphAssumption DEF Resource, Uris
<1>2. ToSet(r.aliases) \subseteq Uris
  BY <1>1, ElementOfSeq, LenProperties DEF ToSet
<1>. QED
  BY <1>1, <1>2 DEF Claims, Keys, Uris

\* One resource gains identities or roots.
LEMMA ReplaceOK ==
  ASSUME NEW list, NEW g, ListOK(list, g), NEW i \in 1..Len(list), NEW r \in Resource,
         r.id = list[i].id, r.file = list[i].file, list[i].roots \subseteq r.roots,
         NEW keys \in SUBSET Keys, Claims(r) = Claims(list[i]) \cup keys,
         Free(g.names, keys, r.id),
         NEW delta \in Counts, Metadata(r) = Plus(Metadata(list[i]), delta),
         NEW next, next.names = NamedAs(g.names, keys, r.id), next.bytes = g.bytes,
         next.meta = Plus(g.meta, delta), Within(next.meta),
         \A need \in next.answered :
           need \in g.answered \/ Settled(need, [list EXCEPT ![i] = r], next.names)
  PROVE  ListOK([list EXCEPT ![i] = r], next)
<1> DEFINE new == [list EXCEPT ![i] = r]
<1>1. /\ list \in Seq(Resource) /\ DOMAIN list = 1..Len(list) /\ Len(list) \in Nat
      /\ \A j \in 1..Len(list) : list[j] \in Resource
  BY LenProperties, ElementOfSeq DEF ListOK
<1>2. /\ new \in Seq(Resource) /\ Len(new) = Len(list) /\ DOMAIN new = 1..Len(list)
      /\ new[i] = r /\ \A j \in 1..Len(list) : j # i => new[j] = list[j]
  BY <1>1, ExceptSeq
<1> HIDE DEF new
<1>3. \A j \in 1..Len(list) : /\ new[j].id = list[j].id /\ list[j].roots \subseteq new[j].roots
                              /\ new[j].id \in Nat
  BY <1>1, <1>2 DEF Resource
<1>4. Distinct(new)
  BY <1>1, <1>2, <1>3 DEF Distinct, ListOK
<1>5. /\ g.names \in [Keys -> Nat \cup {Absent}]
      /\ \A k \in Keys : next.names[k] = IF k \in keys THEN r.id ELSE g.names[k]
  BY DEF ListOK, Indexed, NamedAs
<1>6. Indexed(new, next.names)
  <2>1. next.names \in [Keys -> Nat \cup {Absent}]
    BY <1>2, <1>3, <1>5 DEF NamedAs
  <2>2. \A k \in Keys : next.names[k] = Absent \/ \E j \in DOMAIN new : new[j].id = next.names[k]
    BY <1>1, <1>2, <1>3, <1>5 DEF ListOK, Indexed
  <2>3. ASSUME NEW k \in Keys, NEW j \in DOMAIN new
        PROVE  k \in Claims(new[j]) <=> new[j].id = next.names[k]
    <3>1. k \in Claims(list[j]) <=> list[j].id = g.names[k]
      BY <1>1, <1>2, <2>3 DEF ListOK, Indexed
    <3>2. CASE j = i
      BY <1>2, <1>3, <1>5, <3>1, <3>2
    <3>3. CASE j # i
      <4>1. new[j] = list[j] /\ list[j].id # r.id /\ list[j].id \in Nat
        BY <1>1, <1>2, <1>3, <3>3 DEF Distinct, ListOK
      <4>2. k \in keys => g.names[k] \in {Absent, r.id} /\ Absent \notin Nat
        BY GraphAssumption DEF Free
      <4>. QED
        BY <1>5, <3>1, <4>1, <4>2
    <3>. QED
      BY <3>2, <3>3
  <2>. QED
    BY <2>1, <2>2, <2>3 DEF Indexed
<1>7. Bytes(new) = Bytes(list) /\ Recount(new) = Plus(Recount(list), delta)
  BY <1>1, <1>2, RecountReplaced
<1>8. ASSUME NEW need \in next.answered PROVE Settled(need, new, next.names)
  <2>1. SUFFICES ASSUME Settled(need, list, g.names) PROVE Settled(need, new, next.names)
    BY DEF ListOK, new
  <2>2. CASE need.need = "Bytes"
    BY <1>3, <1>5, <2>1, <2>2, GraphAssumption DEF Settled
  <2>3. CASE need.need = "Layout"
    BY <1>1, <1>2, <1>3, <2>1, <2>3 DEF Settled
  <2>. QED
    BY <2>1, <2>2, <2>3 DEF Settled
<1>. QED
  BY <1>2, <1>4, <1>6, <1>7, <1>8 DEF ListOK, new
\* A resource with a new id joins.
LEMMA AppendOK ==
  ASSUME NEW list, NEW g, ListOK(list, g), NEW r \in Resource,
         \A j \in 1..Len(list) : list[j].id < r.id,
         Free(g.names, Claims(r), r.id), Len(list) < MaxResources,
         NEW next, next.names = NamedAs(g.names, Claims(r), r.id),
         next.bytes = g.bytes + r.file.size, next.bytes <= MaxBytes,
         next.meta = Plus(g.meta, Metadata(r)), Within(next.meta),
         \A need \in next.answered :
           need \in g.answered \/ Settled(need, Append(list, r), next.names)
  PROVE  ListOK(Append(list, r), next)
<1> DEFINE new == Append(list, r)
           last == Len(list) + 1
<1>1. /\ list \in Seq(Resource) /\ DOMAIN list = 1..Len(list) /\ Len(list) \in Nat
      /\ \A j \in 1..Len(list) : list[j] \in Resource
  BY LenProperties, ElementOfSeq DEF ListOK
<1>2. /\ new \in Seq(Resource) /\ Len(new) = last /\ DOMAIN new = 1..last
      /\ new[last] = r /\ \A j \in 1..Len(list) : new[j] = list[j]
  BY <1>1, AppendProperties
<1>3. /\ last \in 1..last /\ \A j \in 1..Len(list) : j \in 1..last
      /\ \A j \in 1..last : j = last \/ j \in 1..Len(list)
  BY <1>1
<1> HIDE DEF new, last
<1>4. r.id \in Nat /\ \A j \in 1..Len(list) : list[j].id \in Nat /\ list[j].id # r.id
  BY <1>1 DEF Resource
<1>5. Distinct(new)
  BY <1>1, <1>2, <1>3, <1>4 DEF Distinct, ListOK
<1>6. /\ g.names \in [Keys -> Nat \cup {Absent}]
      /\ \A k \in Keys : /\ next.names[k] = IF k \in Claims(r) THEN r.id ELSE g.names[k]
                         /\ g.names[k] = Absent \/ \E j \in 1..Len(list) : list[j].id = g.names[k]
                         /\ \A j \in 1..Len(list) : k \in Claims(list[j]) <=> list[j].id = g.names[k]
  BY <1>1 DEF ListOK, Indexed, NamedAs
<1>7. \A k \in Keys : g.names[k] # r.id
  BY <1>4, <1>6, GraphAssumption
<1>8. \A k \in Claims(r) : k \in Keys /\ g.names[k] = Absent
  BY <1>7, ClaimsAreKeys DEF Free
<1>9. Indexed(new, next.names)
  <2>1. next.names \in [Keys -> Nat \cup {Absent}]
    BY <1>4, <1>6 DEF NamedAs
  <2>2. \A k \in Keys : next.names[k] = Absent \/ \E j \in DOMAIN new : new[j].id = next.names[k]
    BY <1>2, <1>3, <1>6
  <2>3. ASSUME NEW k \in Keys, NEW j \in DOMAIN new
        PROVE  k \in Claims(new[j]) <=> new[j].id = next.names[k]
    <3>1. CASE j = last
      BY <1>2, <1>6, <1>7, <3>1
    <3>2. CASE j \in 1..Len(list)
      BY <1>2, <1>4, <1>6, <1>8, <3>2, GraphAssumption
    <3>. QED
      BY <1>2, <1>3, <3>1, <3>2
  <2>. QED
    BY <2>1, <2>2, <2>3 DEF Indexed
<1>10. Bytes(new) = Bytes(list) + r.file.size /\ Recount(new) = Plus(Recount(list), Metadata(r))
  BY <1>1, <1>2, RecountAppended DEF last
<1>11. Len(new) <= MaxResources
  BY <1>1, <1>2, GraphAssumption DEF last
<1>12. ASSUME NEW need \in next.answered PROVE Settled(need, new, next.names)
  <2>1. SUFFICES ASSUME Settled(need, list, g.names) PROVE Settled(need, new, next.names)
    BY DEF ListOK, new
  <2>2. CASE need.need = "Bytes"
    BY <1>4, <1>6, <2>1, <2>2, GraphAssumption DEF Settled
  <2>3. CASE need.need = "Layout"
    BY <1>1, <1>2, <1>3, <2>1, <2>3 DEF Settled
  <2>. QED
    BY <2>1, <2>2, <2>3 DEF Settled
<1>. QED
  BY <1>2, <1>5, <1>9, <1>10, <1>11, <1>12 DEF ListOK, new

-----------------------------------------------------------------------------
(* What the builder computes *)

\* A resource's own count is what was reserved for its input.
LEMMA UsageIsMetadata ==
  ASSUME NEW i \in Inputs, NEW r, r.file = i.file, r.retrieval = i.retrieval, r.roots = i.roots,
         r.aliases = i.aliases \o IF i.retrieval = Absent THEN <<>> ELSE <<i.retrieval>>
  PROVE  Usage(i) = Metadata(r)
<1>1. i.aliases \in Seq(Uris) /\ i.retrieval \in Uris \cup {Absent} /\ IsFiniteSet(i.roots)
  BY GraphAssumption DEF Uris
<1>2. Len(i.aliases) \in Nat /\ Cardinality(i.roots) \in Nat
  BY <1>1, LenProperties, FS_CardinalityType
<1>3. Len(r.aliases) = Len(i.aliases) + Has(i.retrieval)
  BY <1>1 DEF Has
<1>4. Has(i.retrieval) \in Nat /\ Has(i.file.self) \in Nat /\ Based(i) \in Nat
  BY DEF Has, Based
<1>5. Based(r) = Based(i)
  BY DEF Based
<1>6. /\ Usage(i) = [identities |-> Len(i.aliases) + Has(i.retrieval) + 2 * Has(i.file.self),
                     layouts |-> Cardinality(i.roots) + 0,
                     bytes |-> Len(i.aliases) + Has(i.retrieval) + Cardinality(i.roots)
                               + (Has(i.retrieval) + Based(i) + Has(i.file.self))]
      /\ Metadata(r) = [identities |-> Len(r.aliases) + 2 * Has(i.file.self),
                        layouts |-> Cardinality(i.roots),
                        bytes |-> Len(r.aliases) + Has(i.retrieval) + Based(i)
                                  + Has(i.file.self) + Cardinality(i.roots)]
  BY <1>5 DEF Usage, Metadata, Plus
<1>. QED
  BY <1>2, <1>3, <1>4, <1>6, SMTT(30)

\* The next id is larger than every id in use.
LEMMA NextId ==
  ASSUME heap \in Seq(Resource)
  PROVE  LET highest == Max({h.id : h \in ToSet(heap)} \cup {0})
         IN  highest \in Nat /\ \A a \in DOMAIN heap : heap[a].id <= highest
<1>1. DOMAIN heap = 1..Len(heap) /\ Len(heap) \in Nat /\ \A a \in 1..Len(heap) : heap[a].id \in Nat
  <2>1. \A a \in 1..Len(heap) : heap[a] \in Resource
    BY ElementOfSeq
  <2>. QED
    BY <2>1, LenProperties DEF Resource
<1> DEFINE ids == {h.id : h \in ToSet(heap)} \cup {0}
           Bound(n) == \E m \in ids : \A a \in 1..n : heap[a].id <= m
           good == {n \in Nat : n <= Len(heap) => Bound(n)}
<1>2. ids \subseteq Nat /\ 0 \in ids /\ \A a \in 1..Len(heap) : heap[a].id \in ids
  BY <1>1 DEF ToSet
<1>3. \A m \in ids : m = 0 \/ \E a \in 1..Len(heap) : heap[a].id = m
  BY <1>1 DEF ToSet
<1> HIDE DEF ids
<1>4. 0 \in good
  BY <1>2
<1>5. ASSUME NEW n \in Nat, n \in good PROVE n + 1 \in good
  <2>1. SUFFICES ASSUME n + 1 <= Len(heap) PROVE Bound(n + 1)
    OBVIOUS
  <2>2. PICK m \in ids : \A a \in 1..n : heap[a].id <= m
    BY <1>1, <1>5, <2>1
  <2>3. heap[n + 1].id \in ids /\ heap[n + 1].id \in Nat /\ m \in Nat
    BY <1>1, <1>2, <2>1
  <2>4. CASE heap[n + 1].id <= m
    BY <2>2, <2>4
  <2>5. CASE m < heap[n + 1].id
    <3>1. \A a \in 1..(n + 1) : heap[a].id <= heap[n + 1].id
      BY <1>1, <2>1, <2>2, <2>3, <2>5
    <3>. QED
      BY <2>3, <3>1
  <2>. QED
    BY <2>3, <2>4, <2>5
<1> HIDE DEF good
<1>6. Nat \subseteq good
  BY <1>4, <1>5, EveryNatural
<1>7. PICK m \in ids : \A a \in 1..Len(heap) : heap[a].id <= m
  <2>1. Len(heap) \in good
    BY <1>1, <1>6
  <2>. QED
    BY <1>1, <2>1 DEF good
<1>8. \A x \in ids : m >= x
  BY <1>2, <1>3, <1>7
<1>9. Max(ids) \in ids /\ \A x \in ids : Max(ids) >= x
  BY <1>8 DEF Max
<1>. QED
  BY <1>1, <1>2, <1>9 DEF ids

\* The aliases that are added are as many as were counted.
LEMMA AliasesAdded ==
  ASSUME NEW a \in Seq(Uris), NEW b \in Seq(Uris)
  PROVE  LET new == ToSet(b) \ ToSet(a)
         IN  /\ a \o SetToSeq(new) \in Seq(Uris)
             /\ Len(a \o SetToSeq(new)) = Len(a) + Cardinality(new) /\ Cardinality(new) \in Nat
             /\ ToSet(a \o SetToSeq(new)) = ToSet(a) \cup new
             /\ new = {} => a \o SetToSeq(new) = a
<1> DEFINE new == ToSet(b) \ ToSet(a)
           size == Cardinality(new)
<1>1. /\ DOMAIN b = 1..Len(b) /\ Len(b) \in Nat /\ \A i \in 1..Len(b) : b[i] \in Uris
      /\ DOMAIN a = 1..Len(a) /\ Len(a) \in Nat /\ \A i \in 1..Len(a) : a[i] \in Uris
  BY LenProperties, ElementOfSeq
<1>2. ToSet(b) \subseteq Uris /\ IsFiniteSet(ToSet(b))
  <2>1. IsFiniteSet(1..Len(b))
    <3>1. 1 \in Int /\ Len(b) \in Int
      BY <1>1
    <3>. QED
      BY <3>1, FS_Interval
  <2>2. b \in Surjection(1..Len(b), ToSet(b))
    BY <1>1, LenProperties DEF ToSet, Surjection
  <2>3. IsFiniteSet(ToSet(b))
    BY <2>1, <2>2, FS_Surjection
  <2>. QED
    BY <1>1, <2>3 DEF ToSet
<1>3. IsFiniteSet(new) /\ new \subseteq Uris
  BY <1>2, FS_Subset
<1>4. size \in Nat /\ ExistsBijection(1..size, new)
  BY <1>3, FS_CardinalityType
<1> DEFINE s == SetToSeq(new)
<1>5. s \in Injection(1..size, new)
  <2>1. \E f \in [1..size -> new] : IsInjective(f)
    BY <1>4 DEF ExistsBijection, Bijection, Injection
  <2>. QED
    BY <2>1 DEF SetToSeq, Injection
<1>6. s \in [1..size -> new] /\ \A x \in new : \E i \in 1..size : s[i] = x
  <2>1. Cardinality(1..size) = size
    <3>1. 1 \in Int /\ size \in Int
      BY <1>4
    <3>. QED
      BY <1>4, <3>1, FS_Interval
  <2>2. s \in Surjection(1..size, new)
    BY <1>3, <1>5, <2>1, FS_Injection
  <2>. QED
    BY <2>2 DEF Surjection
<1> HIDE DEF s
<1>7. s \in Seq(Uris) /\ Len(s) = size
  <2>1. s \in [1..size -> Uris]
    BY <1>3, <1>6
  <2> HIDE DEF size
  <2>. QED
    BY <1>4, <2>1
<1>8. /\ a \o s \in Seq(Uris) /\ Len(a \o s) = Len(a) + size
      /\ \A i \in 1..(Len(a) + size) :
           (a \o s)[i] = IF i <= Len(a) THEN a[i] ELSE s[i - Len(a)]
  BY <1>7, ConcatProperties
<1>9. DOMAIN (a \o s) = 1..(Len(a) + size)
  BY <1>8, LenProperties
<1>10. ToSet(a \o s) = ToSet(a) \cup new
  <2>1. ASSUME NEW i \in 1..(Len(a) + size) PROVE (a \o s)[i] \in ToSet(a) \cup new
    <3>1. CASE i <= Len(a)
      BY <1>1, <1>8, <3>1 DEF ToSet
    <3>2. CASE i > Len(a)
      <4>1. i - Len(a) \in 1..size /\ (a \o s)[i] = s[i - Len(a)]
        BY <1>1, <1>4, <1>8, <3>2
      <4>. QED
        BY <1>6, <4>1
    <3>3. i <= Len(a) \/ i > Len(a)
      BY <1>1
    <3>. QED
      BY <3>1, <3>2, <3>3
  <2>2. ASSUME NEW x \in ToSet(a) PROVE x \in ToSet(a \o s)
    <3>1. PICK i \in 1..Len(a) : x = a[i]
      BY <1>1 DEF ToSet
    <3>2. i \in 1..(Len(a) + size) /\ (a \o s)[i] = x
      BY <1>1, <1>4, <1>8, <3>1
    <3>. QED
      BY <1>9, <3>2 DEF ToSet
  <2>3. ASSUME NEW x \in new PROVE x \in ToSet(a \o s)
    <3>1. PICK i \in 1..size : x = s[i]
      BY <1>6
    <3>2. Len(a) + i \in 1..(Len(a) + size) /\ ~(Len(a) + i <= Len(a)) /\ (Len(a) + i) - Len(a) = i
      BY <1>1, <1>4
    <3>3. (a \o s)[Len(a) + i] = x
      BY <1>8, <3>1, <3>2
    <3>. QED
      BY <1>9, <3>2, <3>3 DEF ToSet
  <2>4. \A x \in ToSet(a \o s) : x \in ToSet(a) \cup new
    BY <1>9, <2>1 DEF ToSet
  <2> HIDE DEF new
  <2>. QED
    BY <2>2, <2>3, <2>4
<1>11. new = {} => a \o s = a
  <2>1. SUFFICES ASSUME new = {} PROVE a \o s = a
    OBVIOUS
  <2>2. size = 0
    BY <2>1, FS_EmptySet
  <2>. QED
    BY <1>7, <2>2, EmptySeq, ConcatEmptySeq
<1>. QED
  BY <1>4, <1>8, <1>10, <1>11 DEF s
-----------------------------------------------------------------------------
(* One edit of one transaction *)

\* b's graph becomes next: it stands on its resources, each of them a grown version of
\* one it had, and what others hold is as it was.
Edited(b, next) ==
  /\ Live(b) /\ docs' = docs
  /\ Becomes(b, next) /\ Transaction(next) /\ GraphOK(heap', next)
  /\ heap' \in Seq(Resource) /\ DOMAIN heap \subseteq DOMAIN heap'
  /\ \A a \in DOMAIN heap : Shared(b, a) => heap'[a] = heap[a]
  /\ \A i \in DOMAIN builders[b].arcs : \E j \in DOMAIN next.arcs :
       Sets!Extends(Value(HeldBy(heap', next)[j]), Value(HeldBy(heap, builders[b])[i]))

Extended(b) == \E next : Edited(b, next)

LEMMA ExtendsItself == ASSUME NEW r PROVE Sets!Extends(Value(r), Value(r))
<1>. QED
  BY DEF Sets!Extends

\* A graph keeps standing on addresses that are left alone.
LEMMA Undisturbed ==
  ASSUME NEW h, NEW new, NEW g, GraphOK(h, g), DOMAIN h \subseteq DOMAIN new,
         \A a \in ToSet(g.arcs) : new[a] = h[a]
  PROVE  GraphOK(new, g) /\ HeldBy(new, g) = HeldBy(h, g)
<1>1. g.arcs \in Seq(DOMAIN h) /\ DOMAIN g.arcs = 1..Len(g.arcs) /\ Len(g.arcs) \in Nat
  BY LenProperties DEF GraphOK
<1>2. \A i \in DOMAIN g.arcs : new[g.arcs[i]] = h[g.arcs[i]]
  BY <1>1 DEF ToSet
<1>3. HeldBy(new, g) = HeldBy(h, g)
  BY <1>2 DEF HeldBy
<1>4. g.arcs \in Seq(DOMAIN new)
  <2>1. \A i \in 1..Len(g.arcs) : g.arcs[i] \in DOMAIN new
    BY <1>1, ElementOfSeq
  <2>2. g.arcs \in [1..Len(g.arcs) -> DOMAIN new]
    BY <1>1, <2>1, LenProperties
  <2>. QED
    BY <1>1, <2>2
<1>. QED
  BY <1>3, <1>4 DEF GraphOK

\* A heap with one more resource.
LEMMA Allocated ==
  ASSUME heap \in Seq(Resource), NEW r \in Resource, heap' = Append(heap, r)
  PROVE  /\ heap' \in Seq(Resource) /\ DOMAIN heap = 1..Len(heap) /\ Len(heap) \in Nat
         /\ DOMAIN heap' = 1..Fresh /\ Fresh \notin DOMAIN heap /\ Fresh \in DOMAIN heap'
         /\ DOMAIN heap \subseteq DOMAIN heap'
         /\ heap'[Fresh] = r /\ \A a \in DOMAIN heap : heap'[a] = heap[a]
<1>1. DOMAIN heap = 1..Len(heap) /\ Len(heap) \in Nat
  BY LenProperties
<1>2. /\ heap' \in Seq(Resource) /\ Len(heap') = Fresh /\ heap'[Fresh] = r
      /\ \A a \in 1..Len(heap) : heap'[a] = heap[a]
  BY AppendProperties DEF Fresh
<1>3. DOMAIN heap' = 1..Fresh
  BY <1>2, LenProperties
<1>. QED
  BY <1>1, <1>2, <1>3 DEF Fresh

\* A resource is replaced by a copy of its own.
LEMMA Copied ==
  ASSUME GraphInv, NEW b, Live(b), docs' = docs, NEW i \in DOMAIN builders[b].arcs,
         NEW r \in Resource, heap' = Append(heap, r),
         NEW next, Becomes(b, next), Transaction(next),
         next.arcs = [builders[b].arcs EXCEPT ![i] = Fresh],
         ListOK([HeldBy(heap, builders[b]) EXCEPT ![i] = r], next),
         Sets!Extends(Value(r), Value(HeldBy(heap, builders[b])[i]))
  PROVE  Edited(b, next)
<1> DEFINE arcs == builders[b].arcs
           list == HeldBy(heap, builders[b])
<1>1. heap \in Seq(Resource) /\ arcs \in Seq(DOMAIN heap)
  BY DEF GraphInv, GraphOK, Live
<1>2. /\ DOMAIN arcs = 1..Len(arcs) /\ Len(arcs) \in Nat
      /\ DOMAIN list = 1..Len(arcs)
      /\ \A j \in 1..Len(arcs) : arcs[j] \in DOMAIN heap /\ list[j] = heap[arcs[j]]
  BY <1>1, HeldIsAList
<1>3. /\ heap' \in Seq(Resource)
      /\ Fresh \notin DOMAIN heap /\ Fresh \in DOMAIN heap' /\ DOMAIN heap \subseteq DOMAIN heap'
      /\ heap'[Fresh] = r /\ \A a \in DOMAIN heap : heap'[a] = heap[a]
  BY <1>1, Allocated
<1>4. /\ DOMAIN next.arcs = 1..Len(arcs)
      /\ \A j \in 1..Len(arcs) : next.arcs[j] = IF j = i THEN Fresh ELSE arcs[j]
  BY <1>1, <1>2
<1>5. next.arcs \in Seq(DOMAIN heap')
  <2>1. next.arcs \in [1..Len(arcs) -> DOMAIN heap']
    BY <1>2, <1>3, <1>4
  <2>. QED
    BY <1>2, <2>1, IsASequence, Zenon
<1>6. HeldBy(heap', next) = [list EXCEPT ![i] = r]
  BY <1>2, <1>3, <1>4 DEF HeldBy
<1>7. ASSUME NEW j \in DOMAIN arcs
      PROVE  Sets!Extends(Value(HeldBy(heap', next)[j]), Value(list[j]))
  BY <1>2, <1>6, ExtendsItself
<1>. QED
  BY <1>2, <1>3, <1>4, <1>5, <1>6, <1>7 DEF Edited, GraphOK

\* A resource nobody else holds is changed in place.
LEMMA ChangedInPlace ==
  ASSUME GraphInv, NEW b, Live(b), docs' = docs, NEW i \in DOMAIN builders[b].arcs,
         ~Shared(b, builders[b].arcs[i]),
         NEW r \in Resource, heap' = [heap EXCEPT ![builders[b].arcs[i]] = r],
         NEW next, Becomes(b, next), Transaction(next), next.arcs = builders[b].arcs,
         ListOK([HeldBy(heap, builders[b]) EXCEPT ![i] = r], next),
         Sets!Extends(Value(r), Value(HeldBy(heap, builders[b])[i]))
  PROVE  Edited(b, next)
<1> DEFINE arcs == builders[b].arcs
           list == HeldBy(heap, builders[b])
<1>1. heap \in Seq(Resource) /\ arcs \in Seq(DOMAIN heap) /\ Distinct(list)
  BY DEF GraphInv, GraphOK, ListOK, Live
<1>2. /\ DOMAIN arcs = 1..Len(arcs) /\ Len(arcs) \in Nat
      /\ DOMAIN list = 1..Len(arcs)
      /\ \A j \in 1..Len(arcs) : arcs[j] \in DOMAIN heap /\ list[j] = heap[arcs[j]]
  BY <1>1, HeldIsAList
<1>3. DOMAIN heap = 1..Len(heap) /\ arcs[i] \in DOMAIN heap
  BY <1>1, <1>2, LenProperties
<1>4. /\ heap' \in Seq(Resource) /\ Len(heap') = Len(heap)
      /\ \A a \in 1..Len(heap) : heap'[a] = IF a = arcs[i] THEN r ELSE heap[a]
  BY <1>1, <1>3, ExceptSeq
<1>5. DOMAIN heap' = DOMAIN heap
  BY <1>3, <1>4, LenProperties
<1>6. \A j \in 1..Len(arcs) : j # i => arcs[j] # arcs[i]
  BY <1>1, <1>2, SMTT(30) DEF Distinct
<1>7. HeldBy(heap', next) = [list EXCEPT ![i] = r]
  <2>1. \A j \in 1..Len(arcs) : heap'[arcs[j]] = IF j = i THEN r ELSE list[j]
    BY <1>2, <1>3, <1>4, <1>6
  <2> HIDE DEF list
  <2>. QED
    BY <1>2, <2>1, ZenonT(30) DEF HeldBy
<1>8. ASSUME NEW j \in DOMAIN arcs
      PROVE  Sets!Extends(Value(HeldBy(heap', next)[j]), Value(list[j]))
  BY <1>2, <1>7, ExtendsItself
<1>9. \A a \in DOMAIN heap : Shared(b, a) => heap'[a] = heap[a]
  BY <1>3, <1>4
<1>. QED
  BY <1>1, <1>4, <1>5, <1>7, <1>8, <1>9 DEF Edited, GraphOK
-----------------------------------------------------------------------------
(* The calls that edit *)

\* The list a transaction holds.
LEMMA LiveList ==
  ASSUME GraphInv, NEW b, Live(b)
  PROVE  LET list == HeldBy(heap, builders[b])
         IN  /\ ListOK(list, builders[b]) /\ Transaction(builders[b])
             /\ DOMAIN builders[b].arcs = 1..Len(list) /\ Len(list) = Len(builders[b].arcs)
             /\ \A i \in 1..Len(list) : list[i] = At(b, i) /\ list[i] \in Resource
<1> DEFINE list == HeldBy(heap, builders[b])
<1>1. /\ builders[b].arcs \in Seq(DOMAIN heap) /\ ListOK(list, builders[b])
      /\ Transaction(builders[b])
  BY DEF GraphInv, GraphOK, Live
<1>2. /\ DOMAIN builders[b].arcs = 1..Len(list) /\ Len(list) = Len(builders[b].arcs)
      /\ \A i \in 1..Len(list) : list[i] = At(b, i)
  BY <1>1, HeldIsAList DEF At
<1>3. \A i \in 1..Len(list) : list[i] \in Resource
  BY <1>1, ElementOfSeq DEF ListOK
<1>. QED
  BY <1>1, <1>2, <1>3

LEMMA MakeMutEdits ==
  ASSUME GraphInv, NEW b, Live(b), docs' = docs, NEW i \in DOMAIN builders[b].arcs,
         NEW r \in Resource, NEW next, MakeMut(b, i, r, next), Transaction(next),
         next.arcs = builders[b].arcs,
         ListOK([HeldBy(heap, builders[b]) EXCEPT ![i] = r], next),
         Sets!Extends(Value(r), Value(HeldBy(heap, builders[b])[i]))
  PROVE  Extended(b)
<1>1. CASE Shared(b, builders[b].arcs[i])
  <2> DEFINE copy == [next EXCEPT !.arcs[i] = Fresh]
  <2>1. heap' = Append(heap, r) /\ Becomes(b, copy)
    BY <1>1 DEF MakeMut, Allocate
  <2>2. /\ Transaction(copy) /\ copy.arcs = [builders[b].arcs EXCEPT ![i] = Fresh]
        /\ copy.names = next.names /\ copy.bytes = next.bytes /\ copy.meta = next.meta
        /\ copy.answered = next.answered
    BY DEF Transaction
  <2> HIDE DEF copy
  <2>3. ListOK([HeldBy(heap, builders[b]) EXCEPT ![i] = r], copy)
    BY <2>2 DEF ListOK
  <2>4. Edited(b, copy)
    BY <2>1, <2>2, <2>3, Copied
  <2>. QED
    BY <2>4 DEF Extended
<1>2. CASE ~Shared(b, builders[b].arcs[i])
  <2>1. heap' = [heap EXCEPT ![builders[b].arcs[i]] = r] /\ Becomes(b, next)
    BY <1>2 DEF MakeMut, Overwrite
  <2>2. Edited(b, next)
    BY <1>2, <2>1, ChangedInPlace
  <2>. QED
    BY <2>2 DEF Extended
<1>. QED
  BY <1>1, <1>2

\* The needs a call says it answers are about identities its input has.
AreAnswered(answered, input) ==
  \A need \in answered : need.need = "Bytes" /\ Meets(input, need)

LEMMA AddAgainEdits ==
  ASSUME GraphInv, NEW b, Live(b), docs' = docs, NEW input \in Inputs, NEW answered,
         AreAnswered(answered, input), NEW cancelled,
         AddAgain(b, input, answered, cancelled)
  PROVE  Extended(b) \/ UNCHANGED graphVars
<1> DEFINE g == builders[b]
           list == HeldBy(heap, g)
<1>1. /\ ListOK(list, g) /\ Transaction(g) /\ DOMAIN g.arcs = 1..Len(list)
      /\ \A j \in 1..Len(list) : list[j] = At(b, j) /\ list[j] \in Resource
  BY LiveList
<1> DEFINE Added(i) == ToSet(input.aliases) \ ToSet(At(b, i).aliases)
           Gained(i) == {KeyOf[u] : u \in Added(i)}
           Delta(i) == [identities |-> Cardinality(Added(i)), layouts |-> 0,
                        bytes |-> Cardinality(Added(i))]
           Grown(i) == [At(b, i) EXCEPT !.aliases = @ \o SetToSeq(Added(i))]
           Next(i) == [g EXCEPT !.names = NamedAs(@, Gained(i), At(b, i).id),
                                !.meta = Plus(g.meta, Delta(i)), !.answered = @ \cup answered]
<1>2. PICK i \in Known(b, input) :
        IF /\ ~cancelled /\ At(b, i).file = input.file /\ input.roots \in {{}, At(b, i).roots}
           /\ Within(Plus(g.meta, Delta(i))) /\ Free(g.names, Gained(i), At(b, i).id)
        THEN IF Added(i) = {} THEN Becomes(b, Next(i)) /\ UNCHANGED heap
             ELSE MakeMut(b, i, Grown(i), Next(i))
        ELSE RefuseResource(b, Gained(i), At(b, i).id)
  BY DEF AddAgain
<1> DEFINE r == At(b, i)
           grown == Grown(i)
           next == Next(i)
           keys == Gained(i)
           delta == Delta(i)
<1>3. /\ i \in 1..Len(list) /\ i \in DOMAIN g.arcs /\ list[i] = r /\ r \in Resource
      /\ input.retrieval # Absent /\ g.names[KeyOf[input.retrieval]] = r.id
  BY <1>1, <1>2 DEF Known
<1>4. /\ r.aliases \in Seq(Uris) /\ input.aliases \in Seq(Uris) /\ input.retrieval \in Uris
      /\ r.file.self \in Uris \cup {Absent} /\ r.id \in Nat
  BY <1>3, GraphAssumption DEF Resource, Uris
<1>5. /\ r.aliases \o SetToSeq(Added(i)) \in Seq(Uris)
      /\ Len(r.aliases \o SetToSeq(Added(i))) = Len(r.aliases) + Cardinality(Added(i))
      /\ Cardinality(Added(i)) \in Nat
      /\ ToSet(r.aliases \o SetToSeq(Added(i))) = ToSet(r.aliases) \cup Added(i)
      /\ Added(i) = {} => r.aliases \o SetToSeq(Added(i)) = r.aliases
  BY <1>4, AliasesAdded
<1>6. ToSet(input.aliases) \subseteq Uris /\ ToSet(r.aliases) \subseteq Uris /\ Absent \notin Uris
  BY <1>4, ElementOfSeq, LenProperties, GraphAssumption DEF ToSet, Uris
<1>7. /\ grown \in Resource /\ grown.id = r.id /\ grown.file = r.file /\ grown.roots = r.roots
      /\ grown.retrieval = r.retrieval /\ grown.aliases = r.aliases \o SetToSeq(Added(i))
      /\ Added(i) = {} => grown = r
  BY <1>3, <1>5 DEF Resource
<1> HIDE DEF Grown
<1>8. Claims(grown) = Claims(r) \cup keys
  BY <1>4, <1>5, <1>6, <1>7 DEF Claims
<1>9. Metadata(grown) = Plus(Metadata(r), delta) /\ delta \in Counts
  <2>1. /\ Len(grown.aliases) = Len(r.aliases) + Cardinality(Added(i)) /\ Based(grown) = Based(r)
        /\ Len(r.aliases) \in Nat /\ Cardinality(Added(i)) \in Nat
    BY <1>4, <1>5, <1>7, LenProperties DEF Based
  <2>2. Cardinality(r.roots) \in Nat /\ Has(r.file.self) \in Nat /\ Has(r.retrieval) \in Nat
        /\ Based(r) \in Nat
    BY <1>3, FS_CardinalityType DEF Resource, Has, Based
  <2> DEFINE n == Cardinality(Added(i))
             a == Len(r.aliases)
             h == Has(r.file.self)
             t == Has(r.retrieval)
             d == Based(r)
             c == Cardinality(r.roots)
  <2>3. n \in Nat /\ a \in Nat /\ h \in Nat /\ t \in Nat /\ d \in Nat /\ c \in Nat
    BY <2>1, <2>2
  <2>4. Metadata(grown) = [identities |-> (a + n) + 2 * h, layouts |-> c,
                           bytes |-> (a + n) + t + d + h + c]
    BY <1>7, <2>1 DEF Metadata
  <2>5. Plus(Metadata(r), delta) = [identities |-> (a + 2 * h) + n, layouts |-> c + 0,
                                    bytes |-> (a + t + d + h + c) + n]
    BY DEF Metadata, Plus
  <2>6. delta \in Counts
    BY <2>3 DEF Counts
  <2> HIDE DEF n, a, h, t, d, c
  <2>7. /\ (a + n) + 2 * h = (a + 2 * h) + n /\ c = c + 0
        /\ (a + n) + t + d + h + c = (a + t + d + h + c) + n
    BY <2>3
  <2>. QED
    BY <2>4, <2>5, <2>6, <2>7
<1>10. /\ Transaction(next) /\ next.arcs = g.arcs /\ next.bytes = g.bytes
       /\ next.names = NamedAs(g.names, keys, grown.id) /\ next.meta = Plus(g.meta, delta)
       /\ next.answered = g.answered \cup answered
  BY <1>1, <1>7 DEF Transaction
<1>11. keys \subseteq Keys
  BY <1>6 DEF Keys, Uris
<1>12. ASSUME NEW need \in answered, NEW other
       PROVE  Settled(need, other, next.names)
  <2>1. PICK u \in ToSet(input.aliases) \cup {input.retrieval} : need.key = KeyOf[u]
    BY DEF AreAnswered, Meets
  <2>2. u \in Uris /\ need.key \in Keys /\ need.need = "Bytes"
    BY <1>4, <1>6, <2>1 DEF Keys, Uris, AreAnswered
  <2>3. next.names[need.key] = r.id
    <3>1. next.names[need.key] = IF need.key \in keys THEN r.id ELSE g.names[need.key]
      BY <1>7, <1>10, <2>2 DEF NamedAs
    <3>2. CASE u = input.retrieval
      BY <1>3, <2>1, <3>1, <3>2
    <3>3. CASE u \in Added(i)
      BY <2>1, <3>1, <3>3
    <3>4. CASE u \in ToSet(r.aliases)
      <4>1. need.key \in Claims(r)
        BY <1>6, <2>1, <3>4 DEF Claims
      <4>2. r.id = g.names[need.key]
        BY <1>1, <1>3, <2>2, <4>1 DEF ListOK, Indexed
      <4>. QED
        BY <3>1, <4>2
    <3>. QED
      BY <2>1, <3>2, <3>3, <3>4
  <2>. QED
    BY <1>4, <2>2, <2>3, GraphAssumption DEF Settled
<1>13. Sets!Extends(Value(grown), Value(r))
  BY <1>5, <1>7 DEF Sets!Extends, Value
<1> HIDE DEF Added, Gained, Delta, Next
<1>14. CASE Within(Plus(g.meta, delta)) /\ Free(g.names, keys, r.id)
  <2>1. ListOK([list EXCEPT ![i] = grown], next)
    <3>1. \A need \in next.answered :
            need \in g.answered \/ Settled(need, [list EXCEPT ![i] = grown], next.names)
      BY <1>10, <1>12
    <3>2. /\ i \in 1..Len(list) /\ grown.id = list[i].id /\ grown.file = list[i].file
          /\ list[i].roots \subseteq grown.roots
          /\ Claims(grown) = Claims(list[i]) \cup keys
          /\ Metadata(grown) = Plus(Metadata(list[i]), delta)
          /\ Free(g.names, keys, grown.id) /\ Within(next.meta)
      BY <1>3, <1>7, <1>8, <1>9, <1>10, <1>14
    <3> HIDE DEF list, grown, next, keys, delta
    <3>. QED
      BY <1>1, <1>7, <1>9, <1>10, <1>11, <3>1, <3>2, ReplaceOK, ZenonT(30)
  <2>2. CASE MakeMut(b, i, grown, next)
    BY <1>3, <1>7, <1>10, <1>13, <2>1, <2>2, MakeMutEdits
  <2>3. CASE Added(i) = {} /\ Becomes(b, next) /\ UNCHANGED heap
    <3>1. [list EXCEPT ![i] = grown] = list
      BY <1>3, <1>7, <2>3 DEF HeldBy
    <3>2. HeldBy(heap', next) = list /\ next.arcs \in Seq(DOMAIN heap')
      BY <1>10, <2>3 DEF HeldBy, GraphInv, GraphOK, Live
    <3>3. Edited(b, next)
      BY <1>10, <2>1, <2>3, <3>1, <3>2, ExtendsItself DEF Edited, GraphOK, GraphInv
    <3>. QED
      BY <3>3 DEF Extended
  <2>4. CASE RefuseResource(b, keys, r.id)
    BY <2>4 DEF RefuseResource, graphVars
  <2>. QED
    BY <1>2, <2>2, <2>3, <2>4
<1>15. CASE RefuseResource(b, keys, r.id)
  BY <1>15 DEF RefuseResource, graphVars
<1>. QED
  BY <1>2, <1>14, <1>15
LEMMA AddNewEdits ==
  ASSUME GraphInv, NEW b, Live(b), docs' = docs, NEW input \in Inputs, NEW answered,
         AreAnswered(answered, input), NEW cancelled,
         AddNew(b, input, answered, cancelled)
  PROVE  Extended(b) \/ UNCHANGED graphVars
<1> DEFINE g == builders[b]
           list == HeldBy(heap, g)
           highest == Max({h.id : h \in ToSet(heap)} \cup {0})
           named == IF input.retrieval = Absent THEN <<>> ELSE <<input.retrieval>>
           r == [id |-> 1 + highest, file |-> input.file, retrieval |-> input.retrieval,
                 aliases |-> input.aliases \o named, roots |-> input.roots]
           next == [g EXCEPT !.arcs = Append(@, Fresh), !.names = NamedAs(@, Claims(r), r.id),
                             !.bytes = g.bytes + input.file.size, !.meta = Plus(@, Metadata(r)),
                             !.answered = @ \cup answered]
<1>1. /\ ListOK(list, g) /\ Transaction(g) /\ DOMAIN g.arcs = 1..Len(list)
      /\ Len(list) = Len(g.arcs)
      /\ \A j \in 1..Len(list) : list[j] = At(b, j) /\ list[j] \in Resource
  BY LiveList
<1>2. \/ /\ Within(Plus(g.meta, Usage(input))) /\ Len(g.arcs) < MaxResources
         /\ g.bytes + input.file.size <= MaxBytes
         /\ Free(g.names, Claims(r), r.id) /\ Allocate(b, r, next)
      \/ RefuseResource(b, Claims(r), r.id)
  BY DEF AddNew
<1>3. heap \in Seq(Resource) /\ g.arcs \in Seq(DOMAIN heap)
  BY DEF GraphInv, GraphOK, Live
<1>4. highest \in Nat /\ \A a \in DOMAIN heap : heap[a].id <= highest
  BY <1>3, NextId
<1>5. \A a \in DOMAIN heap : heap[a].id < 1 + highest
  <2>1. \A a \in DOMAIN heap : heap[a].id \in Nat
    <3>1. \A a \in 1..Len(heap) : heap[a] \in Resource
      BY <1>3, ElementOfSeq
    <3>. QED
      BY <1>3, <3>1, LenProperties DEF Resource
  <2> HIDE DEF highest
  <2>. QED
    BY <1>4, <2>1
<1>6. /\ input.aliases \in Seq(Uris) /\ input.retrieval \in Uris \cup {Absent}
      /\ input.file.self \in Uris \cup {Absent} /\ IsFiniteSet(input.roots) /\ Absent \notin Uris
      /\ input.roots \subseteq Roots
  BY GraphAssumption DEF Uris, Roots
<1>7. /\ input.aliases \o named \in Seq(Uris)
      /\ (ToSet(input.aliases) \cup {input.retrieval}) \ {Absent} \subseteq ToSet(input.aliases \o named)
  <2>1. named \in Seq(Uris) /\ (input.retrieval # Absent => Len(named) = 1 /\ named[1] = input.retrieval)
    BY <1>6
  <2> HIDE DEF named
  <2>2. /\ input.aliases \o named \in Seq(Uris)
        /\ Len(input.aliases \o named) = Len(input.aliases) + Len(named)
        /\ \A i \in 1..(Len(input.aliases) + Len(named)) :
             (input.aliases \o named)[i] = IF i <= Len(input.aliases) THEN input.aliases[i]
                                           ELSE named[i - Len(input.aliases)]
    BY <1>6, <2>1, ConcatProperties
  <2>3. /\ Len(input.aliases) \in Nat /\ DOMAIN input.aliases = 1..Len(input.aliases)
        /\ Len(named) \in Nat
        /\ DOMAIN (input.aliases \o named) = 1..(Len(input.aliases) + Len(named))
    BY <1>6, <2>1, <2>2, LenProperties
  <2>4. ASSUME NEW u \in ToSet(input.aliases) PROVE u \in ToSet(input.aliases \o named)
    <3>1. PICK i \in 1..Len(input.aliases) : u = input.aliases[i]
      BY <2>3 DEF ToSet
    <3>2. i \in 1..(Len(input.aliases) + Len(named)) /\ (input.aliases \o named)[i] = u
      BY <2>2, <2>3, <3>1
    <3>. QED
      BY <2>3, <3>2 DEF ToSet
  <2>5. ASSUME input.retrieval # Absent PROVE input.retrieval \in ToSet(input.aliases \o named)
    <3>1. /\ Len(input.aliases) + 1 \in 1..(Len(input.aliases) + Len(named))
          /\ (input.aliases \o named)[Len(input.aliases) + 1] = input.retrieval
      BY <2>1, <2>2, <2>3, <2>5
    <3>. QED
      BY <2>3, <3>1 DEF ToSet
  <2>. QED
    BY <2>2, <2>4, <2>5
<1>8. /\ r \in Resource /\ r.file = input.file /\ r.retrieval = input.retrieval
      /\ r.roots = input.roots /\ r.aliases = input.aliases \o named /\ r.id = 1 + highest
  <2>1. 1 + highest \in Nat
    BY <1>4
  <2> HIDE DEF highest, named
  <2>. QED
    BY <1>6, <1>7, <2>1 DEF Resource
<1>9. Usage(input) = Metadata(r)
  BY <1>8, UsageIsMetadata
<1> HIDE DEF r, highest, named
<1>10. /\ Transaction(next) /\ next.arcs = Append(g.arcs, Fresh)
       /\ next.names = NamedAs(g.names, Claims(r), r.id)
       /\ next.bytes = g.bytes + r.file.size /\ next.meta = Plus(g.meta, Metadata(r))
       /\ next.answered = g.answered \cup answered
  BY <1>1, <1>8 DEF Transaction
<1> HIDE DEF next
<1>11. \A j \in 1..Len(list) : list[j].id < r.id
  <2>1. \A j \in 1..Len(list) : g.arcs[j] \in DOMAIN heap
    BY <1>1, <1>3, ElementOfSeq
  <2>. QED
    BY <1>1, <1>5, <1>8, <2>1 DEF At
<1>12. ASSUME NEW need \in answered, NEW other
       PROVE  Settled(need, other, next.names)
  <2>1. PICK u \in (ToSet(input.aliases) \cup {input.retrieval}) \ {Absent} : need.key = KeyOf[u]
    BY DEF AreAnswered, Meets
  <2>2. need.key \in Claims(r) /\ need.need = "Bytes"
    BY <1>6, <1>7, <1>8, <2>1 DEF Claims, AreAnswered
  <2>3. need.key \in Keys /\ next.names[need.key] = r.id /\ r.id \in Nat
    BY <1>8, <1>10, <2>2, ClaimsAreKeys DEF NamedAs, Resource
  <2>. QED
    BY <2>2, <2>3, GraphAssumption DEF Settled
<1>13. CASE /\ Within(Plus(g.meta, Usage(input))) /\ Len(g.arcs) < MaxResources
            /\ g.bytes + input.file.size <= MaxBytes
            /\ Free(g.names, Claims(r), r.id) /\ Allocate(b, r, next)
  <2>1. /\ Within(next.meta) /\ next.bytes <= MaxBytes /\ Len(list) < MaxResources
        /\ \A need \in next.answered :
             need \in g.answered \/ Settled(need, Append(list, r), next.names)
    BY <1>1, <1>8, <1>9, <1>10, <1>12, <1>13
  <2>2. ListOK(Append(list, r), next)
    <3> HIDE DEF list, g
    <3>. QED
      BY <1>1, <1>8, <1>10, <1>11, <1>13, <2>1, AppendOK
  <2>3. heap' = Append(heap, r) /\ Becomes(b, next)
    BY <1>13 DEF Allocate
  <2>4. /\ heap' \in Seq(Resource) /\ DOMAIN heap \subseteq DOMAIN heap' /\ Fresh \in DOMAIN heap'
        /\ heap'[Fresh] = r /\ \A a \in DOMAIN heap : heap'[a] = heap[a]
    BY <1>3, <1>8, <2>3, Allocated
  <2>5. \A j \in 1..Len(g.arcs) : g.arcs[j] \in DOMAIN heap /\ list[j] = heap[g.arcs[j]]
    BY <1>3, HeldIsAList
  <2>6. Len(g.arcs) \in Nat /\ DOMAIN g.arcs = 1..Len(g.arcs) /\ g.arcs \in Seq(DOMAIN heap')
    <3>1. Len(g.arcs) \in Nat /\ DOMAIN g.arcs = 1..Len(g.arcs)
      BY <1>3, LenProperties
    <3>2. g.arcs \in [1..Len(g.arcs) -> DOMAIN heap']
      BY <1>3, <2>4, <2>5, LenProperties
    <3>. QED
      BY <3>1, <3>2, IsASequence, Zenon
  <2>7. /\ next.arcs \in Seq(DOMAIN heap') /\ DOMAIN next.arcs = 1..(Len(g.arcs) + 1)
        /\ \A j \in 1..Len(g.arcs) : next.arcs[j] = g.arcs[j]
        /\ next.arcs[Len(g.arcs) + 1] = Fresh
    BY <1>10, <2>4, <2>6, AppendProperties, LenProperties
  <2>8. DOMAIN Append(list, r) = 1..(Len(g.arcs) + 1)
        /\ Append(list, r) = [j \in DOMAIN Append(list, r) |-> Append(list, r)[j]]
        /\ \A j \in 1..Len(g.arcs) : Append(list, r)[j] = list[j]
        /\ Append(list, r)[Len(g.arcs) + 1] = r
    <3>1. list \in Seq(Resource)
      BY <1>1 DEF ListOK
    <3> HIDE DEF list
    <3>2. Append(list, r) \in Seq(Resource) /\ Len(Append(list, r)) = Len(g.arcs) + 1
      BY <1>1, <1>8, <3>1, AppendProperties
    <3>3. Append(list, r) \in [1..(Len(g.arcs) + 1) -> Resource]
      BY <3>2, LenProperties
    <3>4. \A j \in 1..Len(list) : Append(list, r)[j] = list[j]
      BY <1>8, <3>1, AppendProperties
    <3>5. Append(list, r)[Len(list) + 1] = r
      BY <1>8, <3>1, AppendProperties
    <3>. QED
      BY <1>1, <3>3, <3>4, <3>5
  <2>9. \A j \in 1..(Len(g.arcs) + 1) : j = Len(g.arcs) + 1 \/ j \in 1..Len(g.arcs)
    BY <2>6
  <2>10. \A j \in 1..(Len(g.arcs) + 1) : heap'[next.arcs[j]] = Append(list, r)[j]
    <3>1. ASSUME NEW j \in 1..Len(g.arcs) PROVE heap'[next.arcs[j]] = Append(list, r)[j]
      <4>1. heap'[g.arcs[j]] = heap[g.arcs[j]] /\ heap[g.arcs[j]] = list[j]
        BY <2>4, <2>5
      <4>2. next.arcs[j] = g.arcs[j] /\ Append(list, r)[j] = list[j]
        BY <2>7, <2>8
      <4>. QED
        BY <4>1, <4>2
    <3>2. heap'[next.arcs[Len(g.arcs) + 1]] = Append(list, r)[Len(g.arcs) + 1]
      BY <2>4, <2>7, <2>8
    <3>. QED
      BY <2>9, <3>1, <3>2
  <2>11. HeldBy(heap', next) = Append(list, r)
    BY <2>7, <2>8, <2>10 DEF HeldBy
  <2>12. \A j \in DOMAIN g.arcs : j \in DOMAIN next.arcs /\ HeldBy(heap', next)[j] = list[j]
    BY <2>6, <2>7, <2>8, <2>11
  <2>13. \A j \in DOMAIN g.arcs : \E k \in DOMAIN next.arcs :
           Sets!Extends(Value(HeldBy(heap', next)[k]), Value(list[j]))
    BY <2>12, ExtendsItself
  <2>. QED
    BY <1>10, <2>2, <2>3, <2>4, <2>7, <2>11, <2>13 DEF Edited, Extended, GraphOK
<1>14. CASE RefuseResource(b, Claims(r), r.id)
  BY <1>14 DEF RefuseResource, graphVars
<1>. QED
  BY <1>2, <1>13, <1>14 DEF next, r, highest, named

\* The needs a layout answers are about pointers it gives their kind.
AreGiven(answered, id, layout) ==
  \A need \in answered : /\ need.need = "Layout" /\ need.target = id
                         /\ [pointer |-> need.pointer, kind |-> need.kind] \in layout

LEMMA EnrichEdits ==
  ASSUME GraphInv, NEW b, Live(b), docs' = docs, NEW id, NEW layout \in Layouts, NEW answered,
         AreGiven(answered, id, layout), NEW cancelled, Enrich(b, id, layout, answered, cancelled)
  PROVE  Extended(b) \/ UNCHANGED graphVars
<1> DEFINE g == builders[b]
           list == HeldBy(heap, g)
           Added(i) == layout \ At(b, i).roots
           Delta(i) == [identities |-> 0, layouts |-> Cardinality(Added(i)),
                        bytes |-> Cardinality(Added(i))]
           Grown(i) == [At(b, i) EXCEPT !.roots = @ \cup Added(i)]
           Next(i) == [g EXCEPT !.arcs[i] = Fresh, !.meta = Plus(g.meta, Delta(i)),
                                !.answered = @ \cup answered]
<1>1. /\ ListOK(list, g) /\ Transaction(g) /\ DOMAIN g.arcs = 1..Len(list)
      /\ \A j \in 1..Len(list) : list[j] = At(b, j) /\ list[j] \in Resource
  BY LiveList
<1>2. PICK i \in DOMAIN g.arcs :
        /\ At(b, i).id = id
        /\ \/ Within(Plus(g.meta, Delta(i))) /\ Allocate(b, Grown(i), Next(i))
           \/ RefuseResource(b, {}, id)
  BY DEF Enrich
<1> DEFINE r == At(b, i)
           new == Added(i)
           delta == Delta(i)
           grown == Grown(i)
           next == Next(i)
<1>3. i \in 1..Len(list) /\ list[i] = r /\ r \in Resource
  BY <1>1
<1>4. /\ IsFiniteSet(r.roots) /\ IsFiniteSet(new) /\ new \subseteq Roots /\ r.roots \subseteq Roots
      /\ r.roots \cap new = {} /\ layout \subseteq r.roots \cup new
  <2>1. IsFiniteSet(layout) /\ layout \subseteq Roots
    <3>1. IsFiniteSet(layout)
      BY GraphAssumption
    <3>2. layout \subseteq UNION Layouts
      OBVIOUS
    <3>. QED
      BY <3>1, <3>2 DEF Roots
  <2>2. IsFiniteSet(r.roots) /\ r.roots \subseteq Roots
    BY <1>3 DEF Resource
  <2>3. IsFiniteSet(new)
    BY <2>1, FS_Subset
  <2>. QED
    BY <2>1, <2>2, <2>3
<1>5. /\ IsFiniteSet(r.roots \cup new) /\ Cardinality(r.roots) \in Nat /\ Cardinality(new) \in Nat
      /\ Cardinality(r.roots \cup new) = Cardinality(r.roots) + Cardinality(new)
  <2>1. Cardinality(r.roots \cap new) = 0
    BY <1>4, FS_EmptySet
  <2>2. Cardinality(r.roots) \in Nat /\ Cardinality(new) \in Nat
    BY <1>4, FS_CardinalityType
  <2>3. /\ IsFiniteSet(r.roots \cup new)
        /\ Cardinality(r.roots \cup new)
           = Cardinality(r.roots) + Cardinality(new) - Cardinality(r.roots \cap new)
    BY <1>4, FS_Union
  <2> HIDE DEF r, new
  <2>. QED
    BY <2>1, <2>2, <2>3
<1>6. /\ grown \in Resource /\ grown.id = r.id /\ grown.file = r.file /\ grown.aliases = r.aliases
      /\ grown.retrieval = r.retrieval /\ grown.roots = r.roots \cup new
  <2> HIDE DEF new, Added
  <2>. QED
    BY <1>3, <1>4, <1>5 DEF Resource, new
<1> HIDE DEF Grown
<1>7. Claims(grown) = Claims(r) \cup {}
  BY <1>6 DEF Claims
<1>8. Metadata(grown) = Plus(Metadata(r), delta) /\ delta \in Counts
  <2>1. /\ Len(r.aliases) \in Nat /\ Has(r.file.self) \in Nat /\ Has(r.retrieval) \in Nat
        /\ Based(r) \in Nat
    BY <1>3, LenProperties DEF Resource, Has, Based
  <2> DEFINE a == Len(r.aliases)
             h == Has(r.file.self)
             t == Has(r.retrieval)
             d == Based(r)
             c == Cardinality(r.roots)
             n == Cardinality(new)
  <2>2. n \in Nat /\ a \in Nat /\ h \in Nat /\ t \in Nat /\ d \in Nat /\ c \in Nat
    BY <1>5, <2>1
  <2>3. Metadata(grown) = [identities |-> a + 2 * h, layouts |-> c + n,
                           bytes |-> a + t + d + h + (c + n)]
    BY <1>5, <1>6 DEF Metadata, Based
  <2>4. Plus(Metadata(r), delta) = [identities |-> (a + 2 * h) + 0, layouts |-> c + n,
                                    bytes |-> (a + t + d + h + c) + n]
    BY DEF Metadata, Plus
  <2>5. delta \in Counts
    BY <2>2 DEF Counts
  <2> HIDE DEF n, a, h, t, d, c
  <2>6. (a + 2 * h) + 0 = a + 2 * h /\ a + t + d + h + (c + n) = (a + t + d + h + c) + n
    BY <2>2
  <2>. QED
    BY <2>3, <2>4, <2>5, <2>6
<1>9. /\ Transaction(next) /\ next.arcs = [g.arcs EXCEPT ![i] = Fresh] /\ next.bytes = g.bytes
      /\ next.names = g.names /\ next.meta = Plus(g.meta, delta)
      /\ next.answered = g.answered \cup answered
  BY <1>1 DEF Transaction
<1> HIDE DEF Next, Added, Delta
<1>10. g.names = NamedAs(g.names, {}, grown.id) /\ Free(g.names, {}, grown.id)
  <2>1. g.names \in [Keys -> Nat \cup {Absent}]
    BY <1>1 DEF ListOK, Indexed
  <2> HIDE DEF g
  <2>. QED
    BY <2>1 DEF NamedAs, Free
<1>11. ASSUME NEW need \in answered
       PROVE  Settled(need, [list EXCEPT ![i] = grown], next.names)
  <2>1. i \in DOMAIN [list EXCEPT ![i] = grown] /\ [list EXCEPT ![i] = grown][i] = grown
    BY <1>2 DEF HeldBy
  <2>2. /\ need.need = "Layout" /\ need.target = grown.id
        /\ [pointer |-> need.pointer, kind |-> need.kind] \in grown.roots
    BY <1>2, <1>4, <1>6 DEF AreGiven
  <2> HIDE DEF list, grown, next
  <2>. QED
    BY <2>1, <2>2 DEF Settled
<1>12. Sets!Extends(Value(grown), Value(r))
  BY <1>6 DEF Sets!Extends, Value
<1>13. CASE Within(Plus(g.meta, delta)) /\ Allocate(b, grown, next)
  <2>1. ListOK([list EXCEPT ![i] = grown], next)
    <3>1. \A need \in next.answered :
            need \in g.answered \/ Settled(need, [list EXCEPT ![i] = grown], next.names)
      BY <1>9, <1>11
    <3>2. /\ grown.id = list[i].id /\ grown.file = list[i].file
          /\ list[i].roots \subseteq grown.roots /\ {} \in SUBSET Keys
          /\ Claims(grown) = Claims(list[i]) \cup {}
          /\ Metadata(grown) = Plus(Metadata(list[i]), delta)
          /\ next.names = NamedAs(g.names, {}, grown.id) /\ Within(next.meta)
      BY <1>3, <1>6, <1>7, <1>8, <1>9, <1>10, <1>13
    <3> DEFINE keys == {}
    <3>3. keys \in SUBSET Keys /\ Claims(grown) = Claims(list[i]) \cup keys
      BY <3>2
    <3>4. next.names = NamedAs(g.names, keys, grown.id) /\ Free(g.names, keys, grown.id)
      BY <1>10, <3>2
    <3>5. /\ ListOK(list, g) /\ i \in 1..Len(list) /\ grown \in Resource /\ delta \in Counts
          /\ next.bytes = g.bytes /\ next.meta = Plus(g.meta, delta)
      BY <1>1, <1>3, <1>6, <1>8, <1>9
    <3> HIDE DEF list, grown, next, delta, keys, g
    <3>. QED
      BY <3>1, <3>2, <3>3, <3>4, <3>5, ReplaceOK
  <2>2. heap' = Append(heap, grown) /\ Becomes(b, next)
    BY <1>13 DEF Allocate
  <2>3. Edited(b, next)
    BY <1>3, <1>6, <1>9, <1>12, <2>1, <2>2, Copied
  <2>. QED
    BY <2>3 DEF Extended
<1>14. CASE RefuseResource(b, {}, id)
  BY <1>14 DEF RefuseResource, graphVars
<1>. QED
  BY <1>2, <1>13, <1>14
-----------------------------------------------------------------------------
(* The invariant *)

\* A transaction's edit leaves every other graph alone.
LEMMA EditedKeeps ==
  ASSUME GraphInv, NEW b, NEW next, Edited(b, next)
  PROVE  /\ GraphInv'
         /\ \A d \in DOMAIN docs : HeldBy(heap', docs[d]) = HeldBy(heap, docs[d])
         /\ \A c \in DOMAIN builders \ {b} :
              HeldBy(heap', builders[c]) = HeldBy(heap, builders[c])
<1>1. /\ docs' = docs /\ DOMAIN builders' = DOMAIN builders /\ b \in DOMAIN builders
      /\ builders'[b] = next /\ \A c \in DOMAIN builders \ {b} : builders'[c] = builders[c]
  BY DEF Edited, Becomes, Live
<1>2. /\ Transaction(next) /\ GraphOK(heap', next) /\ heap' \in Seq(Resource)
      /\ DOMAIN heap \subseteq DOMAIN heap'
      /\ \A a \in DOMAIN heap : Shared(b, a) => heap'[a] = heap[a]
  BY DEF Edited
<1>3. ASSUME NEW g, GraphOK(heap, g) PROVE ToSet(g.arcs) \subseteq DOMAIN heap
  <2>1. g.arcs \in Seq(DOMAIN heap)
    BY <1>3 DEF GraphOK
  <2>. QED
    BY <2>1, ElementOfSeq, LenProperties DEF ToSet
<1>4. ASSUME NEW d \in DOMAIN docs
      PROVE  GraphOK(heap', docs[d]) /\ HeldBy(heap', docs[d]) = HeldBy(heap, docs[d])
  <2>1. GraphOK(heap, docs[d])
    BY DEF GraphInv
  <2>2. \A a \in ToSet(docs[d].arcs) : heap'[a] = heap[a]
    BY <1>2, <1>3, <2>1 DEF Shared
  <2>. QED
    BY <1>2, <2>1, <2>2, Undisturbed
<1>5. ASSUME NEW c \in DOMAIN builders \ {b}
      PROVE  GraphOK(heap', builders[c]) /\ HeldBy(heap', builders[c]) = HeldBy(heap, builders[c])
  <2>1. GraphOK(heap, builders[c])
    BY DEF GraphInv
  <2>2. \A a \in ToSet(builders[c].arcs) : heap'[a] = heap[a]
    BY <1>2, <1>3, <2>1 DEF Shared
  <2>. QED
    BY <1>2, <2>1, <2>2, Undisturbed
<1>6. \A c \in DOMAIN builders' : GraphOK(heap', builders'[c]) /\ Transaction(builders'[c])
  BY <1>1, <1>2, <1>5 DEF GraphInv
<1>7. /\ docs' \in Seq(ToSet(docs')) /\ \A d \in DOMAIN docs' : GraphOK(heap', docs'[d])
  BY <1>1, <1>4 DEF GraphInv
<1>. QED
  BY <1>2, <1>4, <1>5, <1>6, <1>7 DEF GraphInv

\* A transaction starts from nothing or from what a snapshot has.
LEMMA OpenKeeps ==
  ASSUME GraphInv, NEW b, NEW arcs, NEW names, NEW bytes, NEW meta, NEW seed, NEW answered,
         Open(b, arcs, names, bytes, meta, seed, answered),
         GraphOK(heap, [arcs |-> arcs, names |-> names, bytes |-> bytes, meta |-> meta,
                        seed |-> seed, answered |-> answered])
  PROVE  GraphInv'
<1> DEFINE g == [arcs |-> arcs, names |-> names, bytes |-> bytes, meta |-> meta,
                 seed |-> seed, answered |-> answered]
<1>1. /\ UNCHANGED <<heap, docs>> /\ b \notin DOMAIN builders
      /\ DOMAIN builders' = DOMAIN builders \cup {b}
      /\ builders'[b] = g /\ \A c \in DOMAIN builders : builders'[c] = builders[c]
  BY DEF Open, Becomes, Live
<1>2. Transaction(g)
  BY DEF Transaction
<1> HIDE DEF g
<1>3. \A c \in DOMAIN builders' : GraphOK(heap', builders'[c]) /\ Transaction(builders'[c])
  BY <1>1, <1>2 DEF GraphInv, g
<1>. QED
  BY <1>1, <1>3 DEF GraphInv

LEMMA NothingIsSound ==
  ASSUME heap \in Seq(Resource)
  PROVE  GraphOK(heap, [arcs |-> <<>>, names |-> [k \in Keys |-> Absent], bytes |-> 0,
                        meta |-> Nothing, seed |-> Absent, answered |-> {}])
<1> DEFINE g == [arcs |-> <<>>, names |-> [k \in Keys |-> Absent], bytes |-> 0,
                 meta |-> Nothing, seed |-> Absent, answered |-> {}]
           list == HeldBy(heap, g)
<1>1. g.arcs \in Seq(DOMAIN heap)
  OBVIOUS
<1>2. list \in Seq(Resource) /\ Len(list) = 0 /\ DOMAIN list = {}
  BY DEF HeldBy
<1>3. Bytes(list) = 0 /\ Recount(list) = Nothing
  <2>1. \A column : Len(column) = 0 => Tally(column) = 0
    BY TallyUnfolds
  <2> HIDE DEF list
  <2>2. /\ Bytes(list) = Tally([i \in DOMAIN list |-> list[i].file.size])
        /\ Len([i \in DOMAIN list |-> list[i].file.size]) = 0
    BY <1>2, Columns DEF Bytes
  <2>. QED
    BY <1>2, <2>1, Columns DEF Nothing
<1>4. Within(Nothing) /\ 0 <= MaxBytes /\ 0 <= MaxResources
  BY GraphAssumption DEF Within, Nothing
<1>5. Indexed(list, g.names) /\ Distinct(list)
  BY <1>2 DEF Indexed, Distinct
<1> HIDE DEF list
<1>6. ListOK(list, g)
  BY <1>2, <1>3, <1>4, <1>5 DEF ListOK
<1>. QED
  BY <1>1, <1>6 DEF GraphOK, list

LEMMA AppendKeepsSeq ==
  ASSUME NEW s, s \in Seq(ToSet(s)), NEW x
  PROVE  /\ Append(s, x) \in Seq(ToSet(Append(s, x))) /\ DOMAIN s = 1..Len(s) /\ Len(s) \in Nat
         /\ DOMAIN Append(s, x) = 1..(Len(s) + 1)
         /\ \A i \in 1..Len(s) : Append(s, x)[i] = s[i]
         /\ Append(s, x)[Len(s) + 1] = x
<1> DEFINE S == ToSet(s) \cup {x}
           t == Append(s, x)
<1>1. DOMAIN s = 1..Len(s) /\ Len(s) \in Nat /\ s \in [1..Len(s) -> ToSet(s)]
  BY LenProperties
<1>2. s \in Seq(S)
  <2>1. s \in [1..Len(s) -> S]
    BY <1>1
  <2>. QED
    BY <1>1, <2>1, IsASequence, Zenon
<1>3. x \in S
  OBVIOUS
<1> HIDE DEF S
<1>4. /\ t \in Seq(S) /\ Len(t) = Len(s) + 1
      /\ \A i \in 1..Len(s) : t[i] = s[i]
      /\ t[Len(s) + 1] = x
  BY <1>2, <1>3, AppendProperties
<1>5. DOMAIN t = 1..(Len(s) + 1) /\ t \in [1..(Len(s) + 1) -> S]
  BY <1>4, LenProperties
<1> HIDE DEF t
<1>6. t \in [1..(Len(s) + 1) -> ToSet(t)]
  BY <1>5 DEF ToSet
<1>7. t \in Seq(ToSet(t))
  BY <1>1, <1>6, IsASequence
<1>. QED
  BY <1>1, <1>4, <1>5, <1>7 DEF t

\* A published snapshot has what its transaction had.
LEMMA BuildKeeps ==
  ASSUME GraphInv, NEW b, Build(b)
  PROVE  GraphInv'
<1> DEFINE g == builders[b]
           d == [arcs |-> g.arcs, names |-> g.names, bytes |-> g.bytes, meta |-> g.meta,
                 answered |-> g.answered]
<1>1. /\ b \in DOMAIN builders /\ UNCHANGED heap
      /\ DOMAIN builders' = DOMAIN builders \ {b}
      /\ \A c \in DOMAIN builders \ {b} : builders'[c] = builders[c]
      /\ docs' = Append(docs, d) \/ docs' = docs
  BY DEF Build, Live
<1>2. GraphOK(heap, d)
  BY <1>1 DEF GraphInv, GraphOK, ListOK, HeldBy
<1> HIDE DEF d
<1>3. \A c \in DOMAIN builders' : GraphOK(heap', builders'[c]) /\ Transaction(builders'[c])
  BY <1>1 DEF GraphInv
<1>4. CASE docs' = Append(docs, d)
  <2>1. docs \in Seq(ToSet(docs)) /\ \A e \in DOMAIN docs : GraphOK(heap, docs[e])
    BY DEF GraphInv
  <2>2. /\ docs' \in Seq(ToSet(docs')) /\ DOMAIN docs = 1..Len(docs) /\ Len(docs) \in Nat
        /\ DOMAIN docs' = 1..(Len(docs) + 1)
        /\ \A i \in 1..Len(docs) : docs'[i] = docs[i]
        /\ docs'[Len(docs) + 1] = d
    BY <1>4, <2>1, AppendKeepsSeq
  <2>3. \A i \in 1..(Len(docs) + 1) : i = Len(docs) + 1 \/ i \in 1..Len(docs)
    BY <2>2
  <2>4. \A e \in DOMAIN docs' : GraphOK(heap', docs'[e])
    BY <1>1, <1>2, <2>1, <2>2, <2>3
  <2>. QED
    BY <1>1, <1>3, <2>2, <2>4 DEF GraphInv
<1>5. CASE docs' = docs
  BY <1>1, <1>3, <1>5 DEF GraphInv
<1>. QED
  BY <1>1, <1>4, <1>5

\* The five kinds of step.
LEMMA Steps ==
  ASSUME GraphInv, GraphNext
  PROVE  \/ UNCHANGED graphVars
         \/ \E b \in Builders : New(b) \/ FromDocument(b) \/ Extended(b) \/ Build(b)
<1>1. PICK b \in Builders : \/ New(b) \/ FromDocument(b) \/ AddInput(b) \/ EnrichLayout(b)
                            \/ Supply(b) \/ ApplyLayout(b) \/ Build(b)
  BY DEF GraphNext
<1>2. ASSUME NEW input \in Inputs, NEW answered, AreAnswered(answered, input),
             Add(b, input, answered)
      PROVE  Extended(b) \/ UNCHANGED graphVars
  <2>1. Live(b) /\ docs' = docs
    BY <1>2 DEF Add
  <2>2. PICK cancelled \in BOOLEAN :
          AddAgain(b, input, answered, cancelled) \/ AddNew(b, input, answered, cancelled)
    BY <1>2 DEF Add
  <2>3. CASE AddAgain(b, input, answered, cancelled)
    BY <1>2, <2>1, <2>3, AddAgainEdits
  <2>4. CASE AddNew(b, input, answered, cancelled)
    BY <1>2, <2>1, <2>4, AddNewEdits
  <2>. QED
    BY <2>2, <2>3, <2>4
<1>3. CASE AddInput(b)
  <2>1. PICK input \in Inputs : Add(b, input, {})
    BY <1>3 DEF AddInput
  <2>2. AreAnswered({}, input)
    BY DEF AreAnswered
  <2>. QED
    BY <1>2, <2>1, <2>2
<1>4. CASE EnrichLayout(b)
  <2>1. Live(b) /\ docs' = docs
    BY <1>4 DEF EnrichLayout
  <2>2. PICK r \in Deref(builders[b].arcs), layout \in Layouts, cancelled \in BOOLEAN :
          Enrich(b, r.id, layout, {}, cancelled)
    BY <1>4 DEF EnrichLayout
  <2>3. AreGiven({}, r.id, layout)
    BY DEF AreGiven
  <2>. QED
    BY <2>1, <2>2, <2>3, EnrichEdits
<1>5. CASE Supply(b)
  <2>1. PICK need \in OwnNeeds(b, "Bytes"), input \in Inputs :
          Meets(input, need) /\ Add(b, input, {need})
    BY <1>5 DEF Supply
  <2>2. AreAnswered({need}, input)
    BY <2>1 DEF AreAnswered, OwnNeeds
  <2>. QED
    BY <1>2, <2>1, <2>2
<1>6. CASE ApplyLayout(b)
  <2>1. Live(b) /\ docs' = docs
    BY <1>6 DEF ApplyLayout
  <2>2. PICK need \in OwnNeeds(b, "Layout"), layout \in Layouts :
          /\ [pointer |-> need.pointer, kind |-> need.kind] \in layout
          /\ Enrich(b, need.target, layout, {need}, FALSE)
    BY <1>6 DEF ApplyLayout
  <2>3. AreGiven({need}, need.target, layout)
    BY <2>2 DEF AreGiven, OwnNeeds
  <2>. QED
    BY <2>1, <2>2, <2>3, EnrichEdits
<1>. QED
  BY <1>1, <1>3, <1>4, <1>5, <1>6

\* Every graph stands on its own resources, whatever is shared.
THEOREM GraphInvariant == GraphSpec => []GraphInv
<1>1. GraphInit => GraphInv
  <2>1. \A S : <<>> \in Seq(S)
    OBVIOUS
  <2>. QED
    BY <2>1 DEF GraphInit, GraphInv
<1>2. GraphInv /\ [GraphNext]_graphVars => GraphInv'
  <2> SUFFICES ASSUME GraphInv, [GraphNext]_graphVars PROVE GraphInv'
    OBVIOUS
  <2>1. CASE UNCHANGED graphVars
    <3>1. heap' = heap /\ docs' = docs /\ builders' = builders
      BY <2>1 DEF graphVars
    <3>. QED
      BY <3>1 DEF GraphInv
  <2>2. ASSUME NEW b \in Builders, New(b) PROVE GraphInv'
    <3>1. heap \in Seq(Resource)
      BY DEF GraphInv
    <3>. QED
      BY <2>2, <3>1, NothingIsSound, OpenKeeps DEF New
  <2>3. ASSUME NEW b \in Builders, FromDocument(b) PROVE GraphInv'
    <3>1. PICK d \in DOMAIN docs :
            Open(b, docs[d].arcs, docs[d].names, docs[d].bytes, docs[d].meta, d, docs[d].answered)
      BY <2>3 DEF FromDocument
    <3>2. GraphOK(heap, docs[d])
      BY DEF GraphInv
    <3>3. GraphOK(heap, [arcs |-> docs[d].arcs, names |-> docs[d].names, bytes |-> docs[d].bytes,
                         meta |-> docs[d].meta, seed |-> d, answered |-> docs[d].answered])
      BY <3>2 DEF GraphOK, ListOK, HeldBy
    <3>. QED
      BY <3>1, <3>3, OpenKeeps
  <2>4. ASSUME NEW b \in Builders, Extended(b) PROVE GraphInv'
    BY <2>4, EditedKeeps DEF Extended
  <2>5. ASSUME NEW b \in Builders, Build(b) PROVE GraphInv'
    BY <2>5, BuildKeeps
  <2>6. CASE GraphNext
    BY <2>1, <2>2, <2>3, <2>4, <2>5, <2>6, Steps
  <2>. QED
    BY <2>1, <2>6
<1>. QED
  BY <1>1, <1>2, PTL DEF GraphSpec
-----------------------------------------------------------------------------
(* What the invariant says of resources and needs *)

\* The recursive function in Contexts exists, and only ever adds.
LEMMA GivenIsKept ==
  ASSUME NEW resources, NEW names, Cardinality(resources) \in Nat
  PROVE  Given(resources) \subseteq Contexts(resources, names)
<1> DEFINE size == Cardinality(resources)
           From(f, m) == [n \in 0..m |-> IF n = 0 THEN Given(resources)
                                         ELSE Infer(resources, names, f[n - 1])]
           after == CHOOSE f : f = From(f, size)
           defined == {m \in Nat : \E f : f = From(f, m)}
<1>1. Nat \subseteq defined
  <2>1. 0 \in defined
    <3>1. [n \in 0..0 |-> Given(resources)] = From([n \in 0..0 |-> Given(resources)], 0)
      OBVIOUS
    <3>. QED
      BY <3>1
  <2>2. ASSUME NEW m \in Nat, m \in defined PROVE m + 1 \in defined
    <3>1. PICK f : f = From(f, m)
      BY <2>2
    <3> DEFINE g == [n \in 0..(m + 1) |-> IF n = m + 1 THEN Infer(resources, names, f[m]) ELSE f[n]]
    <3>2. \A n \in 0..m : f[n] = IF n = 0 THEN Given(resources)
                                 ELSE Infer(resources, names, f[n - 1])
      BY <3>1
    <3>3. \A n \in 0..(m + 1) : g[n] = IF n = 0 THEN Given(resources)
                                       ELSE Infer(resources, names, g[n - 1])
      <4>1. \A n \in 0..m : g[n] = f[n]
        OBVIOUS
      <4>2. g[m + 1] = Infer(resources, names, f[m]) /\ (m + 1) - 1 = m /\ m \in 0..m
        OBVIOUS
      <4>3. \A n \in 0..m : n # 0 => n - 1 \in 0..m
        OBVIOUS
      <4>4. \A n \in 0..(m + 1) : n \in 0..m \/ n = m + 1
        OBVIOUS
      <4> HIDE DEF g
      <4>. QED
        BY <3>2, <4>1, <4>2, <4>3, <4>4
    <3>4. g = From(g, m + 1)
      BY <3>3
    <3> HIDE DEF g
    <3>. QED
      BY <3>4
  <2> HIDE DEF defined
  <2>. QED
    BY <2>1, <2>2, EveryNatural
<1>2. after = From(after, size)
  <2>1. \E f : f = From(f, size)
    BY <1>1
  <2>. QED
    BY <2>1
<1>3. Contexts(resources, names) = after[size]
  BY DEF Contexts
<1>4. \A n \in 0..size : after[n] = IF n = 0 THEN Given(resources)
                                    ELSE Infer(resources, names, after[n - 1])
  BY <1>2
<1> HIDE DEF after
<1> DEFINE good == {n \in Nat : n <= size => Given(resources) \subseteq after[n]}
<1>5. 0 \in good
  BY <1>4
<1>6. ASSUME NEW n \in Nat, n \in good PROVE n + 1 \in good
  <2>1. SUFFICES ASSUME n + 1 <= size PROVE Given(resources) \subseteq after[n + 1]
    OBVIOUS
  <2>2. n + 1 \in 0..size /\ n + 1 # 0 /\ (n + 1) - 1 = n /\ Given(resources) \subseteq after[n]
    BY <1>6, <2>1
  <2>3. after[n + 1] = Infer(resources, names, after[n])
    BY <1>4, <2>2
  <2>. QED
    BY <2>2, <2>3 DEF Infer
<1> HIDE DEF good
<1>7. size \in good
  BY <1>5, <1>6, EveryNatural
<1>. QED
  BY <1>3, <1>7 DEF good

\* The resources of a graph are those of its list, and finitely many.
LEMMA HeldResources ==
  ASSUME NEW g, g.arcs \in Seq(DOMAIN heap)
  PROVE  /\ Held(g) = HeldBy(heap, g)
         /\ Deref(g.arcs) = {Held(g)[i] : i \in DOMAIN g.arcs}
         /\ DOMAIN Held(g) = DOMAIN g.arcs
         /\ Cardinality(Deref(g.arcs)) \in Nat
<1> DEFINE list == Held(g)
           n == Len(g.arcs)
<1>1. DOMAIN g.arcs = 1..n /\ n \in Nat
  BY LenProperties
<1>2. list = HeldBy(heap, g) /\ DOMAIN list = 1..n
  BY <1>1 DEF Held, HeldBy
<1>3. Deref(g.arcs) = {list[i] : i \in DOMAIN g.arcs}
  BY DEF Deref, ToSet, Held
<1>4. list \in Surjection(1..n, Deref(g.arcs))
  BY <1>1, <1>2, <1>3 DEF Surjection, Held
<1>5. IsFiniteSet(1..n)
  <2>1. 1 \in Int /\ n \in Int
    BY <1>1
  <2>. QED
    BY <2>1, FS_Interval
<1>6. IsFiniteSet(Deref(g.arcs))
  BY <1>4, <1>5, FS_Surjection
<1>. QED
  BY <1>1, <1>2, <1>3, <1>6, FS_CardinalityType

\* A settled need is not reported.
LEMMA SettledIsNotNeeded ==
  ASSUME NEW g, GraphOK(heap, g)
  PROVE  g.answered \cap Needs(Deref(g.arcs), g.names) = {}
<1> DEFINE resources == Deref(g.arcs)
           names == g.names
           list == Held(g)
           contexts == Contexts(resources, names)
           uses == Uses(resources, contexts)
<1>1. /\ list = HeldBy(heap, g) /\ resources = {list[i] : i \in DOMAIN list}
      /\ Cardinality(resources) \in Nat
  BY HeldResources DEF GraphOK
<1>2. SUFFICES ASSUME NEW need \in g.answered, need \in Needs(resources, names) PROVE FALSE
  OBVIOUS
<1>3. Settled(need, list, names)
  BY <1>1 DEF GraphOK, ListOK
<1>4. Given(resources) \subseteq contexts
  BY <1>1, GivenIsKept
<1> HIDE DEF contexts, uses, list
<1>5. \/ \E u \in uses : /\ names[u.key] = Absent
                         /\ need = [need |-> "Bytes", source |-> u.by, at |-> u.at, key |-> u.key,
                                    target |-> Absent, pointer |-> u.to, kind |-> u.kind]
      \/ \E u \in uses, t \in resources :
           /\ \A e \in contexts : e[1] # t.id \/ e[2] # u.to
           /\ need = [need |-> "Layout", source |-> u.by, at |-> u.at, key |-> Absent,
                      target |-> t.id, pointer |-> u.to, kind |-> u.kind]
  BY <1>2 DEF Needs, contexts, uses
<1>6. CASE \E u \in uses : /\ names[u.key] = Absent
                           /\ need = [need |-> "Bytes", source |-> u.by, at |-> u.at,
                                      key |-> u.key, target |-> Absent, pointer |-> u.to,
                                      kind |-> u.kind]
  BY <1>3, <1>6 DEF Settled
<1>7. CASE \E u \in uses, t \in resources :
             /\ \A e \in contexts : e[1] # t.id \/ e[2] # u.to
             /\ need = [need |-> "Layout", source |-> u.by, at |-> u.at, key |-> Absent,
                        target |-> t.id, pointer |-> u.to, kind |-> u.kind]
  <2>1. PICK u \in uses, t \in resources :
          /\ \A e \in contexts : e[1] # t.id \/ e[2] # u.to
          /\ need.need = "Layout" /\ need.target = t.id /\ need.pointer = u.to
    BY <1>7
  <2>2. PICK i \in DOMAIN list : /\ list[i].id = t.id
                                 /\ [pointer |-> u.to, kind |-> need.kind] \in list[i].roots
    BY <1>3, <2>1 DEF Settled
  <2> DEFINE s == [pointer |-> u.to, kind |-> need.kind]
  <2>3. list[i] \in resources /\ s \in list[i].roots
    BY <1>1, <2>2
  <2>4. <<list[i].id, s.pointer, s.kind>> \in Given(resources)
    BY <2>3 DEF Given
  <2>5. <<t.id, u.to, need.kind>> \in contexts
    BY <1>4, <2>2, <2>4
  <2>. QED
    BY <2>1, <2>5
<1>. QED
  BY <1>5, <1>6, <1>7

LEMMA InvIsSound == GraphInv => GraphIsSound
<1> SUFFICES ASSUME GraphInv PROVE GraphIsSound
  OBVIOUS
<1>1. \A g \in Graphs : GraphOK(heap, g)
  BY DEF Graphs, GraphInv, ToSet
<1>2. ASSUME NEW g \in Graphs
      PROVE  LET list == HeldBy(heap, g)
             IN  /\ ListOK(list, g) /\ Held(g) = list
                 /\ Deref(g.arcs) = {list[i] : i \in DOMAIN list}
                 /\ DOMAIN list = DOMAIN g.arcs /\ Len(list) = Len(g.arcs)
                 /\ ToSet(g.arcs) \subseteq DOMAIN heap
                 /\ \A i \in DOMAIN g.arcs : list[i] = heap[g.arcs[i]]
  <2>1. g.arcs \in Seq(DOMAIN heap) /\ ListOK(HeldBy(heap, g), g)
    BY <1>1 DEF GraphOK
  <2>2. ToSet(g.arcs) \subseteq DOMAIN heap
    BY <2>1, ElementOfSeq, LenProperties DEF ToSet
  <2>3. /\ DOMAIN g.arcs = 1..Len(g.arcs) /\ Len(HeldBy(heap, g)) = Len(g.arcs)
        /\ DOMAIN HeldBy(heap, g) = 1..Len(g.arcs)
        /\ \A i \in 1..Len(g.arcs) : HeldBy(heap, g)[i] = heap[g.arcs[i]]
    BY <2>1, HeldIsAList
  <2>4. /\ Held(g) = HeldBy(heap, g)
        /\ Deref(g.arcs) = {Held(g)[i] : i \in DOMAIN g.arcs}
    BY <2>1, HeldResources
  <2>. QED
    BY <2>1, <2>2, <2>3, <2>4
<1>3. GraphTypeOK
  BY <1>2 DEF GraphTypeOK, ListOK, Distinct
<1>4. AdmissionExact
  <2>1. SUFFICES ASSUME NEW g \in Graphs
                 PROVE  /\ g.bytes = Bytes(Held(g)) /\ g.meta = Recount(Held(g))
                        /\ \A k \in Keys : {r \in Deref(g.arcs) : k \in Claims(r)} =
                                           {r \in Deref(g.arcs) : r.id = g.names[k]}
    BY DEF AdmissionExact
  <2>2. ASSUME NEW k \in Keys, NEW r \in Deref(g.arcs)
        PROVE  k \in Claims(r) <=> r.id = g.names[k]
    <3>1. ListOK(HeldBy(heap, g), g) /\ Deref(g.arcs) = {HeldBy(heap, g)[i] : i \in DOMAIN HeldBy(heap, g)}
      BY <1>2
    <3>2. PICK i \in DOMAIN HeldBy(heap, g) : r = HeldBy(heap, g)[i]
      BY <3>1
    <3>. QED
      BY <3>1, <3>2 DEF ListOK, Indexed
  <2>. QED
    BY <1>2, <2>2 DEF ListOK
<1>5. NeedsAreAnswered
  <2>1. \A d \in DOMAIN docs : GraphOK(heap, docs[d])
    BY DEF GraphInv
  <2>. QED
    BY <2>1, SettledIsNotNeeded DEF NeedsAreAnswered, NeedsOf
<1>. QED
  BY <1>3, <1>4, <1>5 DEF GraphIsSound

\* Counters and the identity index are what a recount of the resources gives, whatever
\* was added, refused, cancelled or forked; no limit is exceeded, and a need that was
\* answered is never reported again (graph.rs, Transaction and Snapshot).
THEOREM GraphTheorem == GraphSpec => []GraphIsSound
<1>. QED
  BY GraphInvariant, InvIsSound, PTL

-----------------------------------------------------------------------------
(* Transactions and snapshots behave as values *)

ValuesIn(h, g) == {Value(r) : r \in {h[a] : a \in ToSet(g.arcs)}}

LEMMA ValuesOfList ==
  ASSUME NEW h, NEW g
  PROVE  ValuesIn(h, g) = {Value(HeldBy(h, g)[i]) : i \in DOMAIN g.arcs}
<1>. QED
  BY DEF ValuesIn, HeldBy, ToSet

\* The abstract variables, before and after a step.
LEMMA Abstraction ==
  /\ [b \in DOMAIN builders |-> Values(builders[b])]
     = [b \in DOMAIN builders |-> ValuesIn(heap, builders[b])]
  /\ [d \in DOMAIN docs |-> Values(docs[d])] = [d \in DOMAIN docs |-> ValuesIn(heap, docs[d])]
  /\ [b \in DOMAIN builders |-> Values(builders[b])]'
     = [b \in DOMAIN builders' |-> ValuesIn(heap', builders'[b])]
  /\ [d \in DOMAIN docs |-> Values(docs[d])]'
     = [d \in DOMAIN docs' |-> ValuesIn(heap', docs'[d])]
<1>. QED
  BY DEF Values, Deref, ValuesIn
LEMMA OpenMaps ==
  ASSUME GraphInv, NEW b \in Builders, New(b) \/ FromDocument(b)
  PROVE  Sets!Begin(b)
<1>1. \E arcs, names, bytes, meta, seed, answered :
        /\ Open(b, arcs, names, bytes, meta, seed, answered)
        /\ arcs = <<>> \/ \E d \in DOMAIN docs : arcs = docs[d].arcs
  BY DEF New, FromDocument
<1>2. PICK g : /\ UNCHANGED <<heap, docs>> /\ ~Live(b) /\ Becomes(b, g)
               /\ g.arcs = <<>> \/ \E d \in DOMAIN docs : g.arcs = docs[d].arcs
  BY <1>1 DEF Open
<1>3. /\ b \notin DOMAIN builders /\ DOMAIN builders' = DOMAIN builders \cup {b}
      /\ builders'[b] = g /\ \A c \in DOMAIN builders : builders'[c] = builders[c]
  BY <1>2 DEF Becomes, Live
<1>4. \A c \in DOMAIN builders : ValuesIn(heap', builders'[c]) = ValuesIn(heap, builders[c])
  BY <1>2, <1>3
<1>5. \/ ValuesIn(heap', builders'[b]) = {}
      \/ \E d \in DOMAIN docs : ValuesIn(heap', builders'[b]) = ValuesIn(heap, docs[d])
  BY <1>2, <1>3 DEF ValuesIn, ToSet
<1>6. [d \in DOMAIN docs' |-> ValuesIn(heap', docs'[d])] = [d \in DOMAIN docs |-> ValuesIn(heap, docs[d])]
  BY <1>2
<1> DEFINE open == [c \in DOMAIN builders |-> ValuesIn(heap, builders[c])]
           after == [c \in DOMAIN builders' |-> ValuesIn(heap', builders'[c])]
           published == [d \in DOMAIN docs |-> ValuesIn(heap, docs[d])]
<1>7. /\ b \notin DOMAIN open
      /\ after = [c \in DOMAIN open \cup {b} |->
                   IF c = b THEN ValuesIn(heap', builders'[b]) ELSE open[c]]
  BY <1>3, <1>4
<1>8. \/ after = [c \in DOMAIN open \cup {b} |-> IF c = b THEN {} ELSE open[c]]
      \/ \E d \in DOMAIN published :
           after = [c \in DOMAIN open \cup {b} |-> IF c = b THEN published[d] ELSE open[c]]
  <2>1. CASE ValuesIn(heap', builders'[b]) = {}
    BY <1>7, <2>1
  <2>2. CASE \E d \in DOMAIN docs : ValuesIn(heap', builders'[b]) = ValuesIn(heap, docs[d])
    <3>1. PICK d \in DOMAIN docs : ValuesIn(heap', builders'[b]) = ValuesIn(heap, docs[d])
      BY <2>2
    <3>2. d \in DOMAIN published /\ ValuesIn(heap', builders'[b]) = published[d]
      BY <3>1
    <3>. QED
      BY <1>7, <3>2
  <2>. QED
    BY <1>5, <2>1, <2>2
<1>. QED
  BY <1>6, <1>7, <1>8, Abstraction DEF Sets!Begin, Sets!Becomes

LEMMA EditMaps ==
  ASSUME GraphInv, NEW b \in Builders, NEW next, Edited(b, next)
  PROVE  Sets!Edit(b)
<1>1. /\ docs' = docs /\ DOMAIN builders' = DOMAIN builders /\ b \in DOMAIN builders
      /\ builders'[b] = next /\ \A c \in DOMAIN builders \ {b} : builders'[c] = builders[c]
  BY DEF Edited, Becomes, Live
<1>2. \A d \in DOMAIN docs : ValuesIn(heap', docs[d]) = ValuesIn(heap, docs[d])
  BY EditedKeeps, ValuesOfList
<1>3. \A c \in DOMAIN builders \ {b} : ValuesIn(heap', builders'[c]) = ValuesIn(heap, builders[c])
  BY <1>1, EditedKeeps, ValuesOfList
<1>4. \A r \in ValuesIn(heap, builders[b]) : \E s \in ValuesIn(heap', builders'[b]) :
        Sets!Extends(s, r)
  BY <1>1, ValuesOfList DEF Edited
<1>5. [d \in DOMAIN docs' |-> ValuesIn(heap', docs'[d])] = [d \in DOMAIN docs |-> ValuesIn(heap, docs[d])]
  BY <1>1, <1>2
<1>. QED
  BY <1>1, <1>3, <1>4, <1>5, Abstraction DEF Sets!Edit, Sets!Becomes

LEMMA BuildMaps ==
  ASSUME GraphInv, NEW b \in Builders, Build(b)
  PROVE  Sets!End(b)
<1> DEFINE g == builders[b]
           d == [arcs |-> g.arcs, names |-> g.names, bytes |-> g.bytes, meta |-> g.meta,
                 answered |-> g.answered]
           published == [e \in DOMAIN docs |-> ValuesIn(heap, docs[e])]
           after == [e \in DOMAIN docs' |-> ValuesIn(heap', docs'[e])]
<1>1. /\ b \in DOMAIN builders /\ heap' = heap
      /\ builders' = [c \in DOMAIN builders \ {b} |-> builders[c]]
      /\ docs' = Append(docs, d) \/ docs' = docs
  BY DEF Build, Live
<1>2. ValuesIn(heap, d) = ValuesIn(heap, g)
  BY DEF ValuesIn
<1> HIDE DEF d
<1>3. after = Append(published, ValuesIn(heap, g)) \/ after = published
  <2>1. CASE docs' = docs
    BY <1>1, <2>1
  <2>2. CASE docs' = Append(docs, d)
    <3>1. docs \in Seq(ToSet(docs))
      BY DEF GraphInv
    <3>2. /\ DOMAIN docs = 1..Len(docs) /\ Len(docs) \in Nat
          /\ DOMAIN docs' = 1..(Len(docs) + 1)
          /\ \A i \in 1..Len(docs) : docs'[i] = docs[i]
          /\ docs'[Len(docs) + 1] = d
      BY <2>2, <3>1, AppendKeepsSeq
    <3> DEFINE n == Len(docs)
               S == {ValuesIn(heap, docs[e]) : e \in DOMAIN docs} \cup {ValuesIn(heap, g)}
    <3>3. /\ n \in Nat /\ published \in [1..n -> S] /\ ValuesIn(heap, g) \in S
          /\ \A i \in 1..n : published[i] = ValuesIn(heap, docs[i])
      BY <3>2
    <3>4. \A i \in 1..(n + 1) : i = n + 1 \/ i \in 1..n
      BY <3>2
    <3>5. /\ after \in [1..(n + 1) -> S] /\ after[n + 1] = ValuesIn(heap, g)
          /\ \A i \in 1..n : after[i] = ValuesIn(heap, docs[i])
      BY <1>1, <1>2, <3>2, <3>3, <3>4
    <3> HIDE DEF S, n, published, after
    <3>6. published \in Seq(S) /\ Len(published) = n
      BY <3>3
    <3>7. after \in Seq(S) /\ Len(after) = n + 1
      BY <3>3, <3>5
    <3>8. /\ Append(published, ValuesIn(heap, g)) \in Seq(S)
          /\ Len(Append(published, ValuesIn(heap, g))) = n + 1
          /\ \A i \in 1..n : Append(published, ValuesIn(heap, g))[i] = published[i]
          /\ Append(published, ValuesIn(heap, g))[n + 1] = ValuesIn(heap, g)
      BY <3>3, <3>6, AppendProperties
    <3>9. \A i \in 1..(n + 1) : after[i] = Append(published, ValuesIn(heap, g))[i]
      BY <3>3, <3>4, <3>5, <3>8
    <3>. QED
      BY <3>7, <3>8, <3>9, SeqEqual
  <2>. QED
    BY <1>1, <2>1, <2>2
<1>4. [c \in DOMAIN builders' |-> ValuesIn(heap', builders'[c])]
      = [c \in DOMAIN builders \ {b} |-> ValuesIn(heap, builders[c])]
  BY <1>1
<1>. QED
  BY <1>1, <1>3, <1>4, Abstraction DEF Sets!End

\* However Arcs are shared and copied (make_mut, Arc clones, forks), a published snapshot
\* never changes and an open transaction changes only by its own calls, which only add:
\* the Arcs implement ResourceSets.
THEOREM GraphSetsTheorem == GraphSpec => ImplementsResourceSets
<1>1. GraphInit => Sets!Init
  <2>1. GraphInit => [d \in DOMAIN docs |-> Values(docs[d])] = <<>>
    BY DEF GraphInit
  <2>2. GraphInit => [b \in DOMAIN builders |-> Values(builders[b])] = [b \in {} |-> {}]
    BY DEF GraphInit
  <2>. QED
    BY <2>1, <2>2 DEF Sets!Init
<1>2. GraphInv /\ [GraphNext]_graphVars => [Sets!Next]_Sets!vars
  <2> SUFFICES ASSUME GraphInv, [GraphNext]_graphVars PROVE [Sets!Next]_Sets!vars
    OBVIOUS
  <2>1. CASE UNCHANGED graphVars
    <3>1. heap' = heap /\ docs' = docs /\ builders' = builders
      BY <2>1 DEF graphVars
    <3>. QED
      BY <3>1, Abstraction DEF Sets!vars
  <2>2. ASSUME NEW b \in Builders, New(b) \/ FromDocument(b) \/ Extended(b) \/ Build(b)
        PROVE  Sets!Next
    <3>1. CASE New(b) \/ FromDocument(b)
      BY <3>1, OpenMaps DEF Sets!Next
    <3>2. CASE Extended(b)
      BY <3>2, EditMaps DEF Sets!Next, Extended
    <3>3. CASE Build(b)
      BY <3>3, BuildMaps DEF Sets!Next
    <3>. QED
      BY <2>2, <3>1, <3>2, <3>3
  <2>3. CASE GraphNext
    BY <2>1, <2>2, <2>3, Steps
  <2>. QED
    BY <2>1, <2>3
<1>. QED
  BY <1>1, <1>2, GraphInvariant, PTL DEF GraphSpec, ImplementsResourceSets, Sets!Spec
=============================================================================
