-------------------------- MODULE InvocationProofs --------------------------
(***************************************************************************)
(* What PreparedRequest::invoke_with_replay guarantees for every host,     *)
(* every answer of its callback and every length of a header section:      *)
(* the outcome is honest, and a cancellation is reported.                  *)
(*                                                                         *)
(* Sets of naturals stand for the predicates of an induction: the one that *)
(* is closed under the successor is all of Nat.                            *)
(***************************************************************************)
EXTENDS Invocation, SequenceTheorems, FiniteSetTheorems, WellFoundedInduction, TLAPS

\* Induction, from the least number a set leaves out.
LEMMA EveryNatural ==
  ASSUME NEW S, 0 \in S, \A n \in Nat : n \in S => n + 1 \in S
  PROVE  Nat \subseteq S
<1> DEFINE rest == Nat \ S
<1>1. SUFFICES ASSUME rest # {} PROVE FALSE
  OBVIOUS
<1>2. PICK least \in rest : \A n \in rest : <<n, least>> \notin OpToRel(<, Nat)
  BY <1>1, NatLessThanWellFounded, WFMin
<1>3. \A n \in rest : ~(n < least)
  BY <1>2 DEF OpToRel
<1>4. least - 1 \in Nat /\ least - 1 \notin rest
  BY <1>3
<1>. QED
  BY <1>4

\* A set of naturals has a least element.
LEMMA LeastNatural ==
  ASSUME NEW S \in SUBSET Nat, S # {}
  PROVE  \E i \in S : \A j \in S : i <= j
<1>1. PICK least \in S : \A n \in S : <<n, least>> \notin OpToRel(<, Nat)
  BY NatLessThanWellFounded, WFMin
<1>2. \A j \in S : ~(j < least)
  BY <1>1 DEF OpToRel
<1>. QED
  BY <1>2

-----------------------------------------------------------------------------
(* The operators *)

\* The checks are made in order: the answer is the code of one that failed, or
\* None when they all passed.
LEMMA FirstBadIsFound ==
  ASSUME NEW n \in Nat, NEW checks, DOMAIN checks = 1..n
  PROVE  \/ FirstBad(checks) = None /\ \A i \in 1..n : ~checks[i].bad
         \/ \E i \in 1..n : checks[i].bad /\ FirstBad(checks) = checks[i].code
<1> DEFINE bad == {i \in DOMAIN checks : checks[i].bad}
           first == CHOOSE i \in bad : \A j \in bad : i <= j
<1>1. CASE bad = {}
  BY <1>1 DEF FirstBad
<1>2. CASE bad # {}
  <2>1. bad \in SUBSET Nat
    OBVIOUS
  <2>2. \E i \in bad : \A j \in bad : i <= j
    BY <1>2, <2>1, LeastNatural
  <2>3. first \in bad
    BY <2>2
  <2>4. FirstBad(checks) = checks[first].code
    BY <1>2 DEF FirstBad
  <2>. QED
    BY <2>3, <2>4
<1>. QED
  BY <1>1, <1>2

\* What is known after n entries: those retained and those counted are all of
\* them, and while none was omitted they are the ones retained.
Accounted(acc, headers, n) ==
  /\ acc \in [kept : Seq(Range(headers)), bytes : Nat, omitted : Nat]
  /\ Len(acc.kept) + acc.omitted = n
  /\ Len(acc.kept) <= MaxHeaders /\ acc.bytes <= MaxHeaderBytes
  /\ acc.omitted = 0 => \A i \in 1..n : acc.kept[i] = headers[i]

LEMMA EntryTaken ==
  ASSUME NEW A, NEW acc \in [kept : A, bytes : Nat, omitted : Nat], NEW k \in A, NEW b \in Nat
  PROVE  [acc EXCEPT !.kept = k, !.bytes = b] \in [kept : A, bytes : Nat, omitted : Nat]
OBVIOUS

LEMMA KeepAccounts ==
  ASSUME NEW headers, HeaderList(headers), NEW n \in Nat, n + 1 \in 1..Len(headers),
         NEW acc, Accounted(acc, headers, n)
  PROVE  Accounted(Keep(acc, headers[n + 1]), headers, n + 1)
<1> DEFINE h == headers[n + 1]
<1>1. h \in Range(headers) /\ h.size \in Nat
  BY DEF HeaderList, Range
<1>2. /\ acc \in [kept : Seq(Range(headers)), bytes : Nat, omitted : Nat]
      /\ acc.kept \in Seq(Range(headers)) /\ acc.bytes \in Nat /\ acc.omitted \in Nat
      /\ MaxHeaders \in Nat /\ MaxHeaderBytes \in Nat
  BY InvokeAssumption DEF Accounted
<1> HIDE DEF h
<1>3. CASE Full(acc) \/ acc.bytes + h.size > MaxHeaderBytes
  <2>1. Keep(acc, h) = [acc EXCEPT !.omitted = acc.omitted + 1]
    BY <1>3 DEF Keep
  <2>. QED
    BY <1>2, <2>1 DEF Accounted, h
<1>4. CASE ~(Full(acc) \/ acc.bytes + h.size > MaxHeaderBytes)
  <2> DEFINE new == [acc EXCEPT !.kept = Append(acc.kept, h), !.bytes = acc.bytes + h.size]
             kept == Append(acc.kept, h)
  <2>1. Keep(acc, h) = new
    BY <1>4 DEF Keep
  <2>2. /\ kept \in Seq(Range(headers)) /\ Len(kept) = Len(acc.kept) + 1
        /\ \A i \in 1..Len(acc.kept) : kept[i] = acc.kept[i]
        /\ kept[Len(acc.kept) + 1] = h /\ Len(acc.kept) \in Nat
    BY <1>1, <1>2, AppendProperties, LenProperties
  <2>3. new.kept = kept /\ new.bytes = acc.bytes + h.size /\ new.omitted = acc.omitted
    BY <1>2
  <2>4. new \in [kept : Seq(Range(headers)), bytes : Nat, omitted : Nat]
    <3>1. acc.bytes + h.size \in Nat
      BY <1>1, <1>2
    <3>. QED
      BY <1>2, <2>2, <3>1, EntryTaken
  <2>5. Len(new.kept) <= MaxHeaders /\ new.bytes <= MaxHeaderBytes
    BY <1>1, <1>2, <1>4, <2>2, <2>3 DEF Full
  <2>6. Len(new.kept) + new.omitted = n + 1
    BY <1>2, <2>2, <2>3 DEF Accounted
  <2>7. new.omitted = 0 => \A i \in 1..(n + 1) : new.kept[i] = headers[i]
    BY <1>2, <2>2, <2>3 DEF Accounted, h
  <2>. QED
    BY <2>1, <2>4, <2>5, <2>6, <2>7 DEF Accounted, h
<1>. QED
  BY <1>3, <1>4 DEF h

\* Retained is the last of the accounts that Keep makes one after the other.
LEMMA RetainedUnfolds ==
  ASSUME NEW headers, HeaderList(headers)
  PROVE  \E after : /\ after[0] = [kept |-> <<>>, bytes |-> 0, omitted |-> 0]
                    /\ \A n \in 1..Len(headers) : after[n] = Keep(after[n - 1], headers[n])
                    /\ Retained(headers) = after[Len(headers)]
<1> DEFINE start == [kept |-> <<>>, bytes |-> 0, omitted |-> 0]
           From(f, m) == [n \in 0..m |-> IF n = 0 THEN start ELSE Keep(f[n - 1], headers[n])]
           after == CHOOSE f : f = From(f, Len(headers))
           defined == {m \in Nat : \E f : f = From(f, m)}
<1>1. Len(headers) \in Nat
  BY LenProperties DEF HeaderList
<1>2. Nat \subseteq defined
  <2>1. 0 \in defined
    <3>1. [n \in 0..0 |-> start] = From([n \in 0..0 |-> start], 0)
      OBVIOUS
    <3>. QED
      BY <3>1
  <2>2. ASSUME NEW m \in Nat, m \in defined PROVE m + 1 \in defined
    <3>1. PICK f : f = From(f, m)
      BY <2>2
    <3> DEFINE g == [n \in 0..(m + 1) |-> IF n = m + 1 THEN Keep(f[m], headers[m + 1]) ELSE f[n]]
    <3>2. \A n \in 0..m : f[n] = IF n = 0 THEN start ELSE Keep(f[n - 1], headers[n])
      BY <3>1
    <3>3. \A n \in 0..(m + 1) : g[n] = IF n = 0 THEN start ELSE Keep(g[n - 1], headers[n])
      BY <3>2
    <3>4. g = From(g, m + 1)
      BY <3>3
    <3> HIDE DEF g
    <3>. QED
      BY <3>4
  <2>. QED
    BY <2>1, <2>2, EveryNatural
<1>3. after = From(after, Len(headers))
  <2>1. \E f : f = From(f, Len(headers))
    BY <1>1, <1>2
  <2>. QED
    BY <2>1
<1>4. \A n \in 0..Len(headers) : after[n] = IF n = 0 THEN start ELSE Keep(after[n - 1], headers[n])
  BY <1>3
<1>5. Retained(headers) = after[Len(headers)]
  BY DEF Retained
<1> HIDE DEF after
<1>6. after[0] = start /\ \A n \in 1..Len(headers) : after[n] = Keep(after[n - 1], headers[n])
  BY <1>1, <1>4
<1>. QED
  BY <1>5, <1>6

\* What is retained of a response's headers, and what is counted, is all of them.
LEMMA RetainedAccounts ==
  ASSUME NEW headers, HeaderList(headers)
  PROVE  Accounted(Retained(headers), headers, Len(headers))
<1>1. Len(headers) \in Nat
  BY LenProperties DEF HeaderList
<1>2. PICK after : /\ after[0] = [kept |-> <<>>, bytes |-> 0, omitted |-> 0]
                   /\ \A n \in 1..Len(headers) : after[n] = Keep(after[n - 1], headers[n])
                   /\ Retained(headers) = after[Len(headers)]
  BY RetainedUnfolds
<1> DEFINE good == {n \in Nat : n <= Len(headers) => Accounted(after[n], headers, n)}
<1>3. 0 \in good
  <2>1. <<>> \in Seq(Range(headers)) /\ Len(<<>>) = 0 /\ MaxHeaders \in Nat /\ MaxHeaderBytes \in Nat
    BY InvokeAssumption
  <2>2. Accounted([kept |-> <<>>, bytes |-> 0, omitted |-> 0], headers, 0)
    BY <2>1 DEF Accounted
  <2>. QED
    BY <1>2, <2>2
<1>4. ASSUME NEW n \in Nat, n \in good PROVE n + 1 \in good
  <2>1. SUFFICES ASSUME n + 1 <= Len(headers) PROVE Accounted(after[n + 1], headers, n + 1)
    OBVIOUS
  <2>2. Accounted(after[n], headers, n)
    BY <1>1, <1>4, <2>1
  <2>3. n + 1 \in 1..Len(headers)
    BY <1>1, <2>1
  <2>4. after[n + 1] = Keep(after[n], headers[n + 1])
    BY <1>2, <2>3
  <2>. QED
    BY <2>2, <2>3, <2>4, KeepAccounts
<1>5. Len(headers) \in good
  BY <1>1, <1>3, <1>4, EveryNatural
<1>. QED
  BY <1>1, <1>2, <1>5

\* A header section without an omission was retained as it came.
LEMMA WholeHeaders ==
  ASSUME NEW headers, HeaderList(headers)
  PROVE  LET r == Retained(headers)
         IN  /\ r.kept \in Seq(Range(headers)) /\ Len(r.kept) <= MaxHeaders
             /\ Len(r.kept) + r.omitted = Len(headers) /\ r.omitted \in Nat
             /\ r.omitted = 0 => r.kept = headers
<1> DEFINE r == Retained(headers)
<1>1. Accounted(r, headers, Len(headers)) /\ headers \in Seq(Range(headers))
  BY RetainedAccounts DEF HeaderList
<1>2. /\ r.kept \in Seq(Range(headers)) /\ r.omitted \in Nat /\ Len(r.kept) <= MaxHeaders
      /\ Len(r.kept) + r.omitted = Len(headers)
  BY <1>1 DEF Accounted
<1>3. r.omitted = 0 => \A i \in 1..Len(headers) : r.kept[i] = headers[i]
  BY <1>1 DEF Accounted
<1>4. r.omitted = 0 => Len(r.kept) = Len(headers)
  BY <1>2, LenProperties
<1> HIDE DEF r
<1>5. r.omitted = 0 => r.kept = headers
  BY <1>1, <1>2, <1>3, <1>4, SeqEqual
<1>. QED
  BY <1>2, <1>5 DEF r

\* Each sum is the one before it and one more size.
LEMMA SumsUnfold ==
  ASSUME NEW sizes \in Seq(Nat)
  PROVE  /\ Sums(sizes)[0] = 0
         /\ \A n \in 1..Len(sizes) : Sums(sizes)[n] = Sums(sizes)[n - 1] + sizes[n]
<1> DEFINE From(f, m) == [n \in 0..m |-> IF n = 0 THEN 0 ELSE f[n - 1] + sizes[n]]
           upTo == CHOOSE f : f = From(f, Len(sizes))
           defined == {m \in Nat : \E f : f = From(f, m)}
<1>1. Len(sizes) \in Nat
  BY LenProperties
<1>2. Nat \subseteq defined
  <2>1. 0 \in defined
    <3>1. [n \in 0..0 |-> 0] = From([n \in 0..0 |-> 0], 0)
      OBVIOUS
    <3>. QED
      BY <3>1
  <2>2. ASSUME NEW m \in Nat, m \in defined PROVE m + 1 \in defined
    <3>1. PICK f : f = From(f, m)
      BY <2>2
    <3> DEFINE g == [n \in 0..(m + 1) |-> IF n = m + 1 THEN f[m] + sizes[m + 1] ELSE f[n]]
    <3>2. \A n \in 0..m : f[n] = IF n = 0 THEN 0 ELSE f[n - 1] + sizes[n]
      BY <3>1
    <3>3. \A n \in 0..(m + 1) : g[n] = IF n = 0 THEN 0 ELSE g[n - 1] + sizes[n]
      BY <3>2
    <3>4. g = From(g, m + 1)
      BY <3>3
    <3> HIDE DEF g
    <3>. QED
      BY <3>4, SMTT(30)
  <2>. QED
    BY <2>1, <2>2, EveryNatural
<1>3. upTo = From(upTo, Len(sizes))
  <2>1. \E f : f = From(f, Len(sizes))
    BY <1>1, <1>2
  <2>. QED
    BY <2>1
<1>4. \A n \in 0..Len(sizes) : upTo[n] = IF n = 0 THEN 0 ELSE upTo[n - 1] + sizes[n]
  BY <1>3
<1>5. Sums(sizes) = upTo
  BY DEF Sums
<1> HIDE DEF upTo
<1>. QED
  BY <1>1, <1>4, <1>5

\* Sums are naturals, and they grow.
LEMMA SumsGrow ==
  ASSUME NEW sizes \in Seq(Nat)
  PROVE  /\ \A n \in 0..Len(sizes) : Sums(sizes)[n] \in Nat
         /\ \A m, n \in 0..Len(sizes) : m <= n => Sums(sizes)[m] <= Sums(sizes)[n]
<1> DEFINE sum == Sums(sizes)
           good == {n \in Nat : n <= Len(sizes) =>
                      sum[n] \in Nat /\ \A m \in 0..n : sum[m] \in Nat /\ sum[m] <= sum[n]}
<1>1. Len(sizes) \in Nat /\ \A n \in 1..Len(sizes) : sizes[n] \in Nat
  BY LenProperties, ElementOfSeq
<1>2. sum[0] = 0 /\ \A n \in 1..Len(sizes) : sum[n] = sum[n - 1] + sizes[n]
  BY SumsUnfold
<1> HIDE DEF sum
<1>3. 0 \in good
  BY <1>2
<1>4. ASSUME NEW n \in Nat, n \in good PROVE n + 1 \in good
  <2>1. SUFFICES ASSUME n + 1 <= Len(sizes)
                 PROVE  sum[n + 1] \in Nat /\ \A m \in 0..(n + 1) : sum[m] \in Nat /\ sum[m] <= sum[n + 1]
    OBVIOUS
  <2>2. n + 1 \in 1..Len(sizes)
    BY <1>1, <2>1
  <2>3. sum[n] \in Nat /\ \A m \in 0..n : sum[m] \in Nat /\ sum[m] <= sum[n]
    BY <1>1, <1>4, <2>1
  <2>4. sum[n + 1] = sum[n] + sizes[n + 1] /\ sizes[n + 1] \in Nat
    BY <1>1, <1>2, <2>2
  <2>5. \A m \in 0..(n + 1) : m \in 0..n \/ m = n + 1
    OBVIOUS
  <2>. QED
    BY <2>3, <2>4, <2>5
<1> HIDE DEF good
<1>5. Nat \subseteq good
  BY <1>3, <1>4, EveryNatural
<1>6. \A n \in 0..Len(sizes) : n \in Nat /\ n \in good
  BY <1>1, <1>5
<1>. QED
  BY <1>1, <1>6 DEF sum, good

\* What begins a header section is one too, entry for entry.
LEMMA Beginning ==
  ASSUME NEW headers, HeaderList(headers), NEW n \in 0..Len(headers)
  PROVE  LET first == SubSeq(headers, 1, n)
         IN  /\ HeaderList(first) /\ Len(first) = n
             /\ \A i \in 1..n : first[i] = headers[i]
<1> DEFINE first == SubSeq(headers, 1, n)
<1>1. /\ headers \in Seq(Range(headers)) /\ Len(headers) \in Nat /\ n \in Int /\ 1 \in Int
      /\ \A i \in 1..n : headers[i] \in Range(headers)
  BY LenProperties, ElementOfSeq DEF HeaderList
<1>2. first \in Seq(Range(headers)) /\ Len(first) = n /\ \A i \in 1..n : first[i] = headers[i]
  BY <1>1, SubSeqProperties
<1>3. DOMAIN first = 1..n
  BY <1>2, LenProperties
<1>4. \A i \in 1..n : headers[i] \in Range(first)
  BY <1>2, <1>3 DEF Range
<1>5. first \in Seq(Range(first))
  BY <1>1, <1>4, SubSeqProperties
<1> HIDE DEF first
<1>6. \A i \in 1..n : headers[i].size \in Nat
  BY <1>1, LenProperties DEF HeaderList
<1>7. HeaderList(first)
  BY <1>2, <1>3, <1>5, <1>6 DEF HeaderList
<1>. QED
  BY <1>2, <1>7 DEF first

LEMMA SizesAreNatural ==
  ASSUME NEW headers, HeaderList(headers)
  PROVE  /\ Sizes(headers) \in Seq(Nat) /\ Len(Sizes(headers)) = Len(headers)
         /\ \A i \in 1..Len(headers) : Sizes(headers)[i] = headers[i].size
<1>1. DOMAIN headers = 1..Len(headers) /\ Len(headers) \in Nat
  BY LenProperties DEF HeaderList
<1>. QED
  BY <1>1 DEF HeaderList, Sizes

\* A transport that hands over what fits loses nothing more.
LEMMA FittingIsWhole ==
  ASSUME NEW headers, HeaderList(headers), NEW n \in 0..Len(headers),
         n <= MaxHeaders, Sums(Sizes(headers))[n] <= MaxHeaderBytes
  PROVE  LET first == SubSeq(headers, 1, n)
         IN  /\ HeaderList(first) /\ Len(first) = n
             /\ Retained(first).omitted = 0 /\ Retained(first).kept = first
<1> DEFINE first == SubSeq(headers, 1, n)
           sum == Sums(Sizes(headers))
<1>1. HeaderList(first) /\ Len(first) = n /\ \A i \in 1..n : first[i] = headers[i]
  BY Beginning
<1>2. Len(headers) \in Nat
  BY LenProperties DEF HeaderList
<1>3. /\ sum[0] = 0 /\ \A i \in 1..Len(headers) : sum[i] = sum[i - 1] + headers[i].size
      /\ \A i \in 0..Len(headers) : sum[i] \in Nat
      /\ \A i, j \in 0..Len(headers) : i <= j => sum[i] <= sum[j]
  BY SizesAreNatural, SumsUnfold, SumsGrow
<1> HIDE DEF first, sum
<1>4. PICK after : /\ after[0] = [kept |-> <<>>, bytes |-> 0, omitted |-> 0]
                   /\ \A i \in 1..n : after[i] = Keep(after[i - 1], first[i])
                   /\ Retained(first) = after[n]
  BY <1>1, RetainedUnfolds
<1> DEFINE good == {i \in Nat : i <= n => /\ Accounted(after[i], first, i)
                                          /\ after[i].omitted = 0 /\ after[i].bytes = sum[i]}
<1>5. 0 \in good
  <2>1. <<>> \in Seq(Range(first)) /\ Len(<<>>) = 0 /\ MaxHeaders \in Nat /\ MaxHeaderBytes \in Nat
    BY InvokeAssumption
  <2>2. Accounted([kept |-> <<>>, bytes |-> 0, omitted |-> 0], first, 0)
    BY <2>1 DEF Accounted
  <2>. QED
    BY <1>3, <1>4, <2>2
<1>6. ASSUME NEW i \in Nat, i \in good PROVE i + 1 \in good
  <2>1. SUFFICES ASSUME i + 1 <= n
                 PROVE  /\ Accounted(after[i + 1], first, i + 1)
                        /\ after[i + 1].omitted = 0 /\ after[i + 1].bytes = sum[i + 1]
    OBVIOUS
  <2>2. i + 1 \in 1..n /\ i + 1 \in 1..Len(headers) /\ i \in 0..Len(headers) /\ n \in 0..Len(headers)
    BY <1>2, <2>1
  <2>3. Accounted(after[i], first, i) /\ after[i].omitted = 0 /\ after[i].bytes = sum[i]
    BY <1>6, <2>1, <2>2
  <2>4. after[i + 1] = Keep(after[i], first[i + 1])
    BY <1>4, <2>2
  <2>5. sum[i + 1] = sum[i] + first[i + 1].size /\ sum[i + 1] <= sum[n]
    BY <1>1, <1>2, <1>3, <2>1, <2>2
  <2>6. Accounted(after[i + 1], first, i + 1)
    BY <1>1, <2>2, <2>3, <2>4, KeepAccounts
  <2>7. ~(Full(after[i]) \/ after[i].bytes + first[i + 1].size > MaxHeaderBytes)
    <3>1. after[i].kept \in Seq(Range(first)) /\ Len(after[i].kept) + after[i].omitted = i
      BY <2>3 DEF Accounted
    <3>2. Len(after[i].kept) = i
      BY <2>3, <3>1, LenProperties
    <3>. QED
      BY <1>2, <1>3, <2>1, <2>2, <2>3, <2>5, <3>2, InvokeAssumption DEF Full, sum
  <2>8. after[i + 1] = [after[i] EXCEPT !.kept = Append(after[i].kept, first[i + 1]),
                                        !.bytes = after[i].bytes + first[i + 1].size]
    BY <2>4, <2>7 DEF Keep
  <2>9. after[i] \in [kept : Seq(Range(first)), bytes : Nat, omitted : Nat]
    BY <2>3 DEF Accounted
  <2>10. after[i + 1].omitted = 0 /\ after[i + 1].bytes = sum[i + 1]
    BY <2>3, <2>5, <2>8, <2>9
  <2>. QED
    BY <2>6, <2>10
<1> HIDE DEF good
<1>7. Nat \subseteq good
  BY <1>5, <1>6, EveryNatural
<1>8. Retained(first).omitted = 0
  BY <1>2, <1>4, <1>7 DEF good
<1>. QED
  BY <1>1, <1>8, WholeHeaders DEF first

\* The response on record is the host's, with its headers retained and its body
\* cut at the bound.
LEMMA ReceivedKeeps ==
  ASSUME NEW input, HostResponse(input)
  PROVE  LET r == Received(input)
         IN  /\ r.input.headers = Retained(input.headers).kept
             /\ r.omitted = Retained(input.headers).omitted
             /\ r.validation = Validation(input, Retained(input.headers).kept)
             /\ r.input.bytes \in 0..MaxBody
             /\ r.input.bytes < input.bytes => r.input.bodyState = "Truncated"
             /\ r.input.bodyState = "Complete" =>
                  input.bodyState = "Complete" /\ r.input.bytes = input.bytes
             /\ r.input.status = input.status /\ r.input.opaque = input.opaque
             /\ r.input.json = input.json /\ r.input.provenance = input.provenance
             /\ r.input.delivery = input.delivery
<1> DEFINE kept == Retained(input.headers).kept
           cut == Cut(input)
           new == [cut EXCEPT !.headers = kept]
<1>1. Received(input) = [input |-> new, validation |-> Validation(input, kept),
                         omitted |-> Retained(input.headers).omitted]
  BY DEF Received
<1>2. input.bytes \in Nat /\ MaxBody \in Nat
  BY InvokeAssumption DEF HostResponse
<1>3. CASE input.bytes > MaxBody
  <2>1. cut = [input EXCEPT !.bytes = MaxBody, !.bodyState = "Truncated"]
    BY <1>3 DEF Cut
  <2>2. /\ DOMAIN cut = DOMAIN input /\ cut.bytes = MaxBody /\ cut.bodyState = "Truncated"
        /\ cut.status = input.status /\ cut.opaque = input.opaque /\ cut.json = input.json
        /\ cut.provenance = input.provenance /\ cut.delivery = input.delivery
    BY <2>1 DEF HostResponse
  <2> HIDE DEF cut, kept
  <2>3. /\ new.headers = kept /\ new.bytes = MaxBody /\ new.bodyState = "Truncated"
        /\ new.status = input.status /\ new.opaque = input.opaque /\ new.json = input.json
        /\ new.provenance = input.provenance /\ new.delivery = input.delivery
    BY <2>2 DEF HostResponse
  <2> HIDE DEF new
  <2>. QED
    BY <1>1, <1>2, <2>3 DEF kept
<1>4. CASE ~(input.bytes > MaxBody)
  <2>1. cut = input
    BY <1>4 DEF Cut
  <2> HIDE DEF kept
  <2>. QED
    BY <1>1, <1>2, <1>4, <2>1 DEF HostResponse, kept
<1>. QED
  BY <1>3, <1>4

\* A body within the bound is not touched.
LEMMA ReceivedWithin ==
  ASSUME NEW input, HostResponse(input), input.bytes <= MaxBody
  PROVE  LET r == Received(input)
         IN  /\ r.input.bytes = input.bytes /\ r.input.bodyState = input.bodyState
             /\ r.input.headers = Retained(input.headers).kept
             /\ r.input.delivery = input.delivery
             /\ r.omitted = Retained(input.headers).omitted
<1> DEFINE kept == Retained(input.headers).kept
<1>1. Cut(input) = input
  BY InvokeAssumption DEF Cut, HostResponse
<1>2. Received(input) = [input |-> [input EXCEPT !.headers = kept], validation |-> Validation(input, kept),
                         omitted |-> Retained(input.headers).omitted]
  BY <1>1 DEF Received
<1> HIDE DEF kept
<1>. QED
  BY <1>2 DEF HostResponse, kept

\* An admitted request may be replayed only with permission; a refusal has a code
\* of its own.
LEMMA RefusalHasCode ==
  ASSUME NEW r
  PROVE  \/ Refusal(r) = None /\ ~ReplayRefused
         \/ Refusal(r) \in Codes \ {"Cancelled"}
<1> DEFINE checks == <<
             [bad |-> ~host.noRedirects, code |-> "Redirects"],
             [bad |-> ~host.noAmbientAuth, code |-> "AmbientAuth"],
             [bad |-> ~host.exactTargets, code |-> "ExactTargets"],
             [bad |-> ~host.encodedDots /\ r.dots, code |-> "EncodedDotSegment"],
             [bad |-> \E h \in r.headers : h.name \in host.forbidden, code |-> "ForbiddenHeader"],
             [bad |-> \E h \in r.headers : ~h.valid, code |-> "InvalidHeader"],
             [bad |-> ReplayRefused, code |-> "Replay"]>>
<1>1. Refusal(r) = FirstBad(checks)
  BY DEF Refusal
<1>2. DOMAIN checks = 1..7 /\ checks[7].bad = ReplayRefused
  OBVIOUS
<1>4. \A i \in 1..7 : checks[i].code \in Codes \ {"Cancelled"}
  <2>1. \A i \in 1..7 : i = 1 \/ i = 2 \/ i = 3 \/ i = 4 \/ i = 5 \/ i = 6 \/ i = 7
    OBVIOUS
  <2>. QED
    BY <2>1 DEF Codes
<1> HIDE DEF checks
<1>3. \/ FirstBad(checks) = None /\ \A i \in 1..7 : ~checks[i].bad
      \/ \E i \in 1..7 : checks[i].bad /\ FirstBad(checks) = checks[i].code
  BY <1>2, FirstBadIsFound
<1>. QED
  BY <1>1, <1>2, <1>3, <1>4

-----------------------------------------------------------------------------
(* The invariant *)

\* The two kinds of outcome, with what the token said at the end.
Declined(code, c) ==
  [dispatch |-> "NotDispatched", upload |-> "NotStarted", response |-> None,
   error |-> code, cancelled |-> c, assurance |-> None]
Concluded(a, c) ==
  LET response == IF a.response = None THEN None ELSE Received(a.response)
  IN  [dispatch |-> "Dispatched", upload |-> a.upload, response |-> response,
       error |-> Error(a, response), cancelled |-> c, assurance |-> Assurance]

Untried == entered = 0 /\ answer = None
Tried == entered = 1 /\ answer \in Answers(request)

\* What stands at each step, and how an outcome came to be.
CallOK ==
  /\ token \in BOOLEAN /\ step \in Steps
  /\ entered = 1 => host.noRetries \/ replay = "AllowHostManaged"
  /\ step \in {"ready", "admit", "refused"} => Untried /\ outcome = None
  /\ step = "refused" => token
  /\ step \in {"entered", "gone"} => entered = 1 /\ answer = None /\ outcome = None
  /\ step = "answered" => Tried /\ outcome = None
  /\ step = "done" =>
       \/ Untried /\ \E code, c : /\ outcome = Declined(code, c) /\ c \in BOOLEAN
                                    /\ code \notin {None, "value"} /\ (code = "Cancelled" => c)
       \/ Tried /\ \E c \in BOOLEAN : outcome = Concluded(answer, c)

InvokeInv == CallOK /\ request \in Requests /\ host \in Hosts

LEMMA InitCall == ASSUME NEW r, Start(r) PROVE CallOK
<1>1. token = FALSE /\ step = "ready" /\ entered = 0 /\ answer = None /\ outcome = None
  BY DEF Start
<1>2. token \in BOOLEAN
  BY <1>1
<1>. QED
  BY <1>1, <1>2 DEF CallOK, Steps, Untried

LEMMA StepCall == CallOK /\ [InvokeNext]_invokeVars => CallOK' /\ UNCHANGED callVars
<1> SUFFICES ASSUME CallOK, [InvokeNext]_invokeVars PROVE CallOK' /\ UNCHANGED callVars
  OBVIOUS
<1>1. token \in BOOLEAN /\ step \in Steps
  BY DEF CallOK
<1>2. CASE AdapterRefuse
  <2>1. PICK code \in AdapterRefusals \cup {c \in {"Cancelled"} : token} : outcome' = Declined(code, token)
    BY <1>2 DEF AdapterRefuse, NotDispatched, Declined
  <2>2. code \notin {None, "value"} /\ (code = "Cancelled" => token)
    <3>1. code \in AdapterRefusals \/ (code = "Cancelled" /\ token)
      BY <2>1
    <3>2. "Cancelled" \notin {None, "value"}
      BY InvokeAssumption DEF Codes
    <3>3. AdapterRefusals \cap {None, "Cancelled", "value"} = {}
      BY InvokeAssumption
    <3>. QED
      BY <3>1, <3>2, <3>3
  <2>3. step = "ready" /\ step' = "done" /\ UNCHANGED <<callVars, token, entered, answer>>
    BY <1>2 DEF AdapterRefuse
  <2>. QED
    BY <1>1, <2>1, <2>2, <2>3 DEF CallOK, Steps, Untried, callVars
<1>3. CASE CheckToken
  BY <1>1, <1>3 DEF CheckToken, CallOK, Steps, Untried, callVars
<1>4. CASE Enter
  <2>1. Refusal(request) = None /\ ~ReplayRefused
    BY <1>4, RefusalHasCode, InvokeAssumption DEF Enter, Codes
  <2>. QED
    BY <1>1, <1>4, <2>1 DEF Enter, ReplayRefused, CallOK, Steps, Untried, callVars
<1>5. CASE Refuse
  <2>1. PICK code : /\ outcome' = Declined(code, token) /\ code \notin {None, "value"}
                    /\ (code = "Cancelled" => token)
    <3>1. CASE step = "admit"
      <4>1. Refusal(request) \notin {None, "Cancelled", "value"}
        BY <1>5, <3>1, RefusalHasCode, InvokeAssumption DEF Refuse, Codes
      <4>2. outcome' = Declined(Refusal(request), token)
        BY <1>5, <3>1 DEF Refuse, NotDispatched, Declined
      <4>. QED
        BY <4>1, <4>2
    <3>2. CASE step = "refused"
      <4>1. token /\ outcome' = Declined("Cancelled", token)
        BY <1>5, <3>2 DEF Refuse, NotDispatched, Declined, CallOK
      <4>2. "Cancelled" \notin {None, "value"}
        BY InvokeAssumption DEF Codes
      <4>. QED
        BY <4>1, <4>2
    <3>. QED
      BY <1>5, <3>1, <3>2 DEF Refuse
  <2>2. /\ step \in {"admit", "refused"} /\ step' = "done"
        /\ UNCHANGED <<callVars, token, entered, answer>>
    BY <1>5 DEF Refuse
  <2>. QED
    BY <1>1, <2>1, <2>2 DEF CallOK, Steps, Untried, callVars
<1>6. CASE Answer
  BY <1>1, <1>6 DEF Answer, CallOK, Steps, Tried, callVars
<1>7. CASE Finish
  <2>1. /\ step = "answered" /\ step' = "done" /\ UNCHANGED <<callVars, token, entered, answer>>
        /\ outcome' = Concluded(answer, token)
    BY <1>7 DEF Finish, Concluded
  <2>2. Concluded(answer, token)' = Concluded(answer, token)
    BY <2>1 DEF Concluded, Assurance, callVars
  <2>. QED
    BY <1>1, <2>1, <2>2 DEF CallOK, Steps, Tried, callVars
<1>8. CASE Cancel \/ Drop \/ UNCHANGED invokeVars
  <2>1. UNCHANGED <<callVars, entered, answer, outcome>> /\ token' \in BOOLEAN /\ (token => token')
    BY <1>1, <1>8 DEF Cancel, Drop, invokeVars, callVars
  <2>2. step' = step \/ (step = "entered" /\ step' = "gone")
    BY <1>8 DEF Cancel, Drop, invokeVars
  <2>3. \A c \in BOOLEAN : Concluded(answer, c)' = Concluded(answer, c)
    BY <2>1 DEF Concluded, Assurance, callVars
  <2>. QED
    BY <1>1, <2>1, <2>2, <2>3 DEF CallOK, Steps, Tried, Untried, callVars
<1>. QED
  BY <1>2, <1>3, <1>4, <1>5, <1>6, <1>7, <1>8 DEF InvokeNext

-----------------------------------------------------------------------------
(* What callers rely on *)

\* The host's answer is a response of its type, or none.
LEMMA AnswerIsTyped ==
  ASSUME InvokeInv, Tried, answer.response # None
  PROVE  HostResponse(answer.response) /\ HeaderList(answer.response.headers)
BY InvokeAssumption DEF InvokeInv, Tried, HostResponse

\* The outcome of a call that was not made.
LEMMA DeclinedIsEmpty ==
  ASSUME NEW code, NEW c, outcome = Declined(code, c)
  PROVE  /\ outcome.dispatch = "NotDispatched" /\ outcome.upload = "NotStarted"
         /\ outcome.response = None /\ outcome.error = code /\ outcome.cancelled = c
         /\ outcome.assurance = None
BY DEF Declined

\* The outcome of one that was.
LEMMA ConcludedIsAnswer ==
  ASSUME NEW c, outcome = Concluded(answer, c)
  PROVE  /\ outcome.dispatch = "Dispatched" /\ outcome.cancelled = c
         /\ outcome.assurance = Assurance /\ outcome.error = Error(answer, outcome.response)
         /\ outcome.response = IF answer.response = None THEN None ELSE Received(answer.response)
BY DEF Concluded

LEMMA HonestDispatch == InvokeInv => TypeOK /\ DispatchIsEvidence /\ ReplayIsDeclared /\ NothingLostSilently
<1> SUFFICES ASSUME InvokeInv PROVE TypeOK /\ DispatchIsEvidence /\ ReplayIsDeclared /\ NothingLostSilently
  OBVIOUS
<1>1. CallOK /\ request \in Requests /\ host \in Hosts /\ host.noRetries \in BOOLEAN
  BY InvokeAssumption DEF InvokeInv
<1>2. /\ token \in BOOLEAN /\ step \in Steps /\ entered \in 0..1
      /\ answer \in Answers(request) \cup {None}
      /\ entered = 1 => host.noRetries \/ replay = "AllowHostManaged"
  BY <1>1 DEF CallOK, Steps, Tried, Untried
<1>3. CASE outcome = None
  BY <1>1, <1>2, <1>3 DEF TypeOK, DispatchIsEvidence, ReplayIsDeclared, NothingLostSilently
<1>4. CASE outcome # None
  <2>1. \/ Untried /\ \E code, c : /\ outcome = Declined(code, c) /\ c \in BOOLEAN
                                   /\ code \notin {None, "value"} /\ (code = "Cancelled" => c)
        \/ Tried /\ \E c \in BOOLEAN : outcome = Concluded(answer, c)
    BY <1>1, <1>4 DEF CallOK, Steps
  <2>2. CASE Untried /\ \E code, c : /\ outcome = Declined(code, c) /\ c \in BOOLEAN
                                     /\ code \notin {None, "value"} /\ (code = "Cancelled" => c)
    <3>1. /\ entered = 0 /\ answer = None /\ outcome.dispatch = "NotDispatched"
          /\ outcome.upload = "NotStarted" /\ outcome.response = None /\ outcome.assurance = None
          /\ outcome.error # None /\ outcome.cancelled \in BOOLEAN
          /\ outcome.error = "Cancelled" => outcome.cancelled
      BY <2>2, DeclinedIsEmpty DEF Untried
    <3>. QED
      BY <1>1, <1>2, <3>1 DEF TypeOK, DispatchIsEvidence, ReplayIsDeclared, NothingLostSilently
  <2>3. CASE Tried /\ \E c \in BOOLEAN : outcome = Concluded(answer, c)
    <3>1. /\ entered = 1 /\ outcome.dispatch = "Dispatched" /\ outcome.cancelled \in BOOLEAN
          /\ outcome.assurance = Assurance
          /\ outcome.response = IF answer.response = None THEN None ELSE Received(answer.response)
      BY <2>3, ConcludedIsAnswer DEF Tried
    <3>2. ASSUME outcome.response # None
          PROVE  /\ outcome.response.input.bytes \in 0..MaxBody
                 /\ Len(outcome.response.input.headers) <= MaxHeaders
                 /\ Len(outcome.response.input.headers) + outcome.response.omitted
                      = Len(answer.response.headers)
                 /\ outcome.response.input.bytes < answer.response.bytes =>
                      outcome.response.input.bodyState = "Truncated"
      <4>1. answer.response # None /\ outcome.response = Received(answer.response)
        BY <3>1, <3>2
      <4>2. HostResponse(answer.response) /\ HeaderList(answer.response.headers)
        BY <2>3, <4>1, AnswerIsTyped
      <4>. QED
        BY <4>1, <4>2, ReceivedKeeps, WholeHeaders
    <3>3. Assurance = "NoReplayDeclared" <=> host.noRetries
      BY <1>1 DEF Assurance
    <3>. QED
      BY <1>1, <1>2, <3>1, <3>2, <3>3 DEF TypeOK, DispatchIsEvidence, ReplayIsDeclared, NothingLostSilently
  <2>. QED
    BY <2>1, <2>2, <2>3
<1>. QED
  BY <1>3, <1>4

\* A decoded value stands on a response that passed every check of decode().
LEMMA DecodedIsWhole ==
  ASSUME NEW received, received.validation # "value", Decode(received) = "value"
  PROVE  LET input == received.input
             types == Named(input.headers, "content-type")
         IN  /\ received.validation = None
             /\ input.delivery # "Incomplete" /\ ~(received.omitted > 0)
             /\ input.bodyState = "Complete" /\ input.bytes # 0 /\ input.json
             /\ Cardinality(types) = 1 /\ \A i \in types : input.headers[i].value = "json"
             /\ input.provenance \in Codings =>
                  \A i \in Named(input.headers, "content-encoding") : input.headers[i].value = "identity"
<1> DEFINE input == received.input
           value(i) == input.headers[i].value
           types == Named(input.headers, "content-type")
           codings == Named(input.headers, "content-encoding")
           checks == <<
             [bad |-> received.validation # None, code |-> received.validation],
             [bad |-> input.delivery = "Incomplete" \/ received.omitted > 0, code |-> "IncompleteHeaders"],
             [bad |-> input.bodyState # "Complete", code |-> "IncompleteBody"],
             [bad |-> input.bytes = 0, code |-> "EmptyBody"],
             [bad |-> Cardinality(types) # 1 \/ \E i \in types : value(i) = "garbage", code |-> "InvalidMedia"],
             [bad |-> \E i \in types : value(i) # "json", code |-> "UnsupportedMedia"],
             [bad |-> input.provenance \in Codings /\ \E i \in codings : value(i) # "identity",
              code |-> "UnsupportedCoding"],
             [bad |-> ~input.json, code |-> "InvalidJson"]>>
<1>1. Decode(received) = IF FirstBad(checks) = None THEN "value" ELSE FirstBad(checks)
  BY DEF Decode
<1>2. DOMAIN checks = 1..8
  OBVIOUS
<1>3. (checks[1].bad <=> received.validation # None) /\ checks[1].code = received.validation
  OBVIOUS
<1>4. \A i \in 2..8 : checks[i].code \in Codes
  <2>1. \A i \in 2..8 : i = 2 \/ i = 3 \/ i = 4 \/ i = 5 \/ i = 6 \/ i = 7 \/ i = 8
    OBVIOUS
  <2>2. /\ checks[2].code \in Codes /\ checks[3].code \in Codes /\ checks[4].code \in Codes
        /\ checks[5].code \in Codes /\ checks[6].code \in Codes /\ checks[7].code \in Codes
        /\ checks[8].code \in Codes
    BY DEF Codes
  <2>. QED
    BY <2>1, <2>2
<1>5. /\ (checks[2].bad <=> (input.delivery = "Incomplete" \/ received.omitted > 0))
      /\ (checks[3].bad <=> input.bodyState # "Complete")
      /\ (checks[4].bad <=> input.bytes = 0)
      /\ (checks[5].bad <=> (Cardinality(types) # 1 \/ \E i \in types : value(i) = "garbage"))
      /\ (checks[6].bad <=> \E i \in types : value(i) # "json")
      /\ (checks[7].bad <=> (input.provenance \in Codings /\ \E i \in codings : value(i) # "identity"))
      /\ (checks[8].bad <=> ~input.json)
  OBVIOUS
<1> HIDE DEF checks
<1>6. \/ FirstBad(checks) = None /\ \A i \in 1..8 : ~checks[i].bad
      \/ \E i \in 1..8 : checks[i].bad /\ FirstBad(checks) = checks[i].code
  BY <1>2, FirstBadIsFound
<1>7. \A i \in 1..8 : ~checks[i].bad
  <2>1. SUFFICES ASSUME NEW i \in 1..8, checks[i].bad, FirstBad(checks) = checks[i].code PROVE FALSE
    BY <1>6
  <2>2. FirstBad(checks) \notin {None, "value"}
    <3>1. CASE i = 1
      BY <1>3, <2>1, <3>1
    <3>2. CASE i # 1
      BY <1>4, <2>1, <3>2, InvokeAssumption DEF Codes
    <3>. QED
      BY <3>1, <3>2
  <2>. QED
    BY <1>1, <2>2
<1>8. /\ ~checks[1].bad /\ ~checks[2].bad /\ ~checks[3].bad /\ ~checks[4].bad
      /\ ~checks[5].bad /\ ~checks[6].bad /\ ~checks[7].bad /\ ~checks[8].bad
  BY <1>7
<1>. QED
  BY <1>3, <1>5, <1>8

\* A 2xx success is an undisturbed exchange whose body decodes.
LEMMA SuccessIsClean ==
  ASSUME NEW o, o.error # "value", Received2xx(o) = "value"
  PROVE  /\ o.error = None /\ ~o.cancelled /\ o.dispatch = "Dispatched" /\ o.response # None
         /\ o.response.input.status \in 200..299 /\ Decode(o.response) = "value"
<1> DEFINE checks == <<
             [bad |-> o.error # None, code |-> o.error],
             [bad |-> o.cancelled, code |-> "Cancelled"],
             [bad |-> o.dispatch # "Dispatched" \/ o.response = None, code |-> "InvalidHostEvidence"],
             [bad |-> o.response # None /\ o.response.input.status \notin 200..299, code |-> "HttpStatus"]>>
<1>1. Received2xx(o) = IF FirstBad(checks) = None THEN BodyJson(o) ELSE FirstBad(checks)
  BY DEF Received2xx
<1>2. DOMAIN checks = 1..4 /\ checks[1].code = o.error
  OBVIOUS
<1>3. checks[2].code \in Codes /\ checks[3].code \in Codes /\ checks[4].code \in Codes
  BY DEF Codes
<1>4. /\ (checks[1].bad <=> o.error # None)
      /\ checks[2].bad = o.cancelled
      /\ (checks[3].bad <=> (o.dispatch # "Dispatched" \/ o.response = None))
      /\ (checks[4].bad <=> (o.response # None /\ o.response.input.status \notin 200..299))
  OBVIOUS
<1> HIDE DEF checks
<1>5. \/ FirstBad(checks) = None /\ \A i \in 1..4 : ~checks[i].bad
      \/ \E i \in 1..4 : checks[i].bad /\ FirstBad(checks) = checks[i].code
  BY <1>2, FirstBadIsFound
<1>6. FirstBad(checks) = None /\ \A i \in 1..4 : ~checks[i].bad
  <2>1. SUFFICES ASSUME NEW i \in 1..4, checks[i].bad, FirstBad(checks) = checks[i].code PROVE FALSE
    BY <1>5
  <2>2. FirstBad(checks) \notin {None, "value"}
    <3>1. CASE i = 1
      BY <1>2, <1>4, <2>1, <3>1
    <3>2. CASE i \in {2, 3, 4}
      BY <1>3, <2>1, <3>2, InvokeAssumption DEF Codes
    <3>. QED
      BY <3>1, <3>2
  <2>. QED
    BY <1>1, <2>2
<1>7. ~checks[1].bad /\ ~checks[2].bad /\ ~checks[3].bad /\ ~checks[4].bad
  BY <1>6
<1>8. o.response # None
  BY <1>4, <1>7
<1>9. Decode(o.response) = "value"
  BY <1>1, <1>6, <1>8 DEF BodyJson
<1>. QED
  BY <1>4, <1>7, <1>8, <1>9

LEMMA HonestSuccess == InvokeInv => SuccessIsWhole
<1> SUFFICES ASSUME InvokeInv, outcome # None, Received2xx(outcome) = "value"
             PROVE  LET input == answer.response
                        named(n) == {i \in DOMAIN input.headers : input.headers[i].name = n}
                    IN  /\ entered = 1 /\ ~answer.failed /\ ~outcome.cancelled
                        /\ input.status \in 200..299 /\ ~input.opaque
                        /\ input.bodyState = "Complete" /\ input.bytes \in 1..MaxBody /\ input.json
                        /\ input.delivery # "Incomplete"
                        /\ \A i \in DOMAIN input.headers : input.headers[i].valid
                        /\ \E i \in named("content-type") :
                             /\ named("content-type") = {i}
                             /\ input.headers[i].value = "json"
                        /\ input.provenance \in Codings =>
                             \A i \in named("content-encoding") : input.headers[i].value = "identity"
  BY DEF SuccessIsWhole
<1> DEFINE input == answer.response
           on == outcome.response
           kept == Retained(input.headers).kept
           types == Named(input.headers, "content-type")
<1>1. \/ Untried /\ \E code, c : /\ outcome = Declined(code, c) /\ c \in BOOLEAN
                                 /\ code \notin {None, "value"} /\ (code = "Cancelled" => c)
      \/ Tried /\ \E c \in BOOLEAN : outcome = Concluded(answer, c)
  BY DEF InvokeInv, CallOK, Steps
<1>2. outcome.error # "value"
  <2>1. ASSUME NEW code, NEW c, outcome = Declined(code, c), code # "value" PROVE outcome.error # "value"
    BY <2>1, DeclinedIsEmpty
  <2>2. ASSUME NEW c, outcome = Concluded(answer, c) PROVE outcome.error # "value"
    <3>1. outcome.error = Error(answer, on) /\ on = IF input = None THEN None ELSE Received(input)
      BY <2>2, ConcludedIsAnswer
    <3>2. input # None => Received(input).validation = Validation(input, kept)
      BY DEF Received
    <3>. QED
      BY <3>1, <3>2, InvokeAssumption DEF Error, Validation
  <2>. QED
    BY <1>1, <2>1, <2>2
<1>3. /\ outcome.error = None /\ ~outcome.cancelled /\ outcome.dispatch = "Dispatched" /\ on # None
      /\ on.input.status \in 200..299 /\ Decode(on) = "value"
  BY <1>2, SuccessIsClean
<1>4. PICK c \in BOOLEAN : Tried /\ outcome = Concluded(answer, c)
  BY <1>1, <1>3, DeclinedIsEmpty
<1>5. /\ on = Received(input) /\ input # None /\ entered = 1 /\ Error(answer, on) = None
  BY <1>3, <1>4, ConcludedIsAnswer DEF Tried
<1>6. /\ HostResponse(input) /\ HeaderList(input.headers) /\ answer.failed \in BOOLEAN
  BY <1>4, <1>5, AnswerIsTyped, InvokeAssumption DEF InvokeInv, Tried
<1>7. /\ ~answer.failed /\ on.validation = None
  BY <1>3, <1>5, <1>6, InvokeAssumption DEF Error, Codes
<1>8. /\ on.input.headers = kept /\ on.omitted = Retained(input.headers).omitted
      /\ on.validation = Validation(input, kept) /\ on.input.bytes \in 0..MaxBody
      /\ on.input.bodyState = "Complete" => input.bodyState = "Complete" /\ on.input.bytes = input.bytes
      /\ on.input.status = input.status /\ on.input.json = input.json
      /\ on.input.provenance = input.provenance /\ on.input.delivery = input.delivery
  BY <1>5, <1>6, ReceivedKeeps
<1>9. /\ on.input.delivery # "Incomplete" /\ ~(on.omitted > 0)
      /\ on.input.bodyState = "Complete" /\ on.input.bytes # 0 /\ on.input.json
      /\ Cardinality(Named(on.input.headers, "content-type")) = 1
      /\ \A i \in Named(on.input.headers, "content-type") : on.input.headers[i].value = "json"
      /\ on.input.provenance \in Codings =>
           \A i \in Named(on.input.headers, "content-encoding") : on.input.headers[i].value = "identity"
  <2>1. on.validation # "value"
    BY <1>7, InvokeAssumption
  <2>. QED
    BY <1>3, <2>1, DecodedIsWhole
<1>10. kept = input.headers
  BY <1>6, <1>8, <1>9, WholeHeaders
<1>11. ~input.opaque /\ \A i \in DOMAIN input.headers : input.headers[i].valid
  BY <1>7, <1>8, <1>10, InvokeAssumption DEF Validation, Codes
<1>12. \E i \in types : types = {i}
  <2>1. types \subseteq 1..Len(input.headers) /\ Len(input.headers) \in Nat
    BY <1>6, LenProperties DEF Named, HeaderList
  <2>2. IsFiniteSet(types)
    <3>1. 1 \in Int /\ Len(input.headers) \in Int
      BY <2>1
    <3>2. IsFiniteSet(1..Len(input.headers))
      BY <3>1, FS_Interval
    <3>. QED
      BY <2>1, <3>2, FS_Subset
  <2>3. Cardinality(types) = 1
    BY <1>8, <1>9, <1>10
  <2>. QED
    BY <2>2, <2>3, FS_Singleton
<1>13. /\ input.status \in 200..299 /\ input.bodyState = "Complete" /\ input.bytes \in 1..MaxBody
       /\ input.json /\ input.delivery # "Incomplete"
  BY <1>3, <1>8, <1>9
<1>14. /\ \A i \in types : input.headers[i].value = "json"
       /\ input.provenance \in Codings =>
            \A i \in Named(input.headers, "content-encoding") : input.headers[i].value = "identity"
  BY <1>8, <1>9, <1>10
<1>. QED
  BY <1>3, <1>5, <1>7, <1>11, <1>12, <1>13, <1>14 DEF Named

LEMMA InvokeInvariance == InvokeSpec => []InvokeInv
<1>1. InvokeInit => InvokeInv
  BY InitCall DEF InvokeInit, InvokeInv, Start
<1>2. InvokeInv /\ [InvokeNext]_invokeVars => InvokeInv'
  BY StepCall DEF InvokeInv, callVars
<1>. QED
  BY <1>1, <1>2, PTL DEF InvokeSpec

\* Whatever the host declares and its callback answers, the outcome of an
\* invocation says what was dispatched and under which replay declaration, loses
\* no header and no byte silently, and calls nothing a JSON success that is not
\* whole (transport.rs, invoke_with_replay and received_2xx_json_exact).
THEOREM OutcomeTheorem == InvokeSpec => []OutcomeIsHonest
<1>1. InvokeInv => OutcomeIsHonest
  BY HonestDispatch, HonestSuccess DEF OutcomeIsHonest
<1>. QED
  BY <1>1, InvokeInvariance, PTL

\* A token that is cancelled before there is an outcome stays cancelled, and the
\* outcome reads it last (transport.rs, Outcome::was_cancelled).
THEOREM CancellationTheorem == InvokeSpec => CancellationIsReported
<1> DEFINE Noticed == token /\ (outcome = None \/ outcome.cancelled)
<1>1. InvokeInv /\ Noticed /\ [InvokeNext]_invokeVars => Noticed'
  <2> SUFFICES ASSUME InvokeInv, Noticed, [InvokeNext]_invokeVars PROVE Noticed'
    OBVIOUS
  <2>1. CASE AdapterRefuse \/ Refuse
    <3>1. PICK code : outcome' = NotDispatched(code)
      BY <2>1 DEF AdapterRefuse, Refuse
    <3>2. token'
      BY <2>1 DEF AdapterRefuse, Refuse
    <3>. QED
      BY <3>1, <3>2 DEF NotDispatched
  <2>2. CASE Finish
    BY <2>2 DEF Finish
  <2>3. CASE CheckToken \/ Enter \/ Answer \/ Cancel \/ Drop \/ UNCHANGED invokeVars
    BY <2>3 DEF CheckToken, Enter, Answer, Cancel, Drop, invokeVars
  <2>. QED
    BY <2>1, <2>2, <2>3 DEF InvokeNext
<1>2. token /\ outcome = None => Noticed
  OBVIOUS
<1>3. Noticed => (outcome # None => outcome.cancelled)
  OBVIOUS
<1> HIDE DEF Noticed
<1>. QED
  BY <1>1, <1>2, <1>3, InvokeInvariance, PTL DEF InvokeSpec, CancellationIsReported
=============================================================================
