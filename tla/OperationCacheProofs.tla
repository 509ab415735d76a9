------------------------ MODULE OperationCacheProofs ------------------------
(***************************************************************************)
(* Proofs about OperationCache for any number of calls and operations.     *)
(*                                                                         *)
(* Agreement is not inductive: two answers are the same because each came  *)
(* out of the one cell of their operation. IInv follows a result from the  *)
(* work of the call that built it, through the cell of the operation and   *)
(* the cell of the Compiled, to the calls that return it.                  *)
(***************************************************************************)
EXTENDS OperationCache, FiniteSetTheorems, TLAPS

Opened == {"open", "peek", "declare", "settle", "settling"}

\* A call that has begun has an operation, and its slot is decided before it
\* compiles.
Begun ==
  \A t \in Calls :
    /\ ~In(t, "idle") => op[t] \in Operations
    /\ pc[t] \in {"compile", "recheck", "publish", "publishing"} \cup Opened \/ Answered(t) =>
         cacheSlot[op[t]] # Empty

\* What a call has worked out is a Compiled of its own, a refusal that depends on
\* the operation, or its own cancellation, which it never publishes.
WorkIsOwn ==
  \A t \in Calls : pc[t] \in {"recheck", "publish", "publishing"} =>
    /\ result[t] \in {IF op[t] \in Broken THEN Refused ELSE Built(t), Cancelled}
    /\ result[t] = Cancelled => token[t] /\ In(t, "recheck")

\* A Compiled of operation o: what a call of o built, and that o allows.
IsCompiled(o, r) ==
  /\ o \notin Broken
  /\ \E u \in Calls : r = Built(u) /\ op[u] = o /\ ~In(u, "idle")

\* The cell of an operation holds a Compiled of it, or its refusal.
CellsSound ==
  \A o \in Operations : compiled[o] # Empty =>
    \/ o \in Broken /\ compiled[o] = Refused
    \/ IsCompiled(o, compiled[o])

\* A call that opens declarations holds a Compiled, the cached one if any is.
OpenedSound ==
  \A t \in Calls : pc[t] \in Opened =>
    /\ IsCompiled(op[t], result[t])
    /\ op[t] \in Slots => compiled[op[t]] = result[t]

\* What the declarations of operation o are: a refusal or somebody's work.
IsDeclared(o, r) ==
  IF o \in Undeclared THEN r = Refused ELSE \E v \in Calls : r = Built(v)

\* The cell of a Compiled holds the declarations of its operation.
DeclarationsSound ==
  \A u \in Calls : request[u] # Empty => ~In(u, "idle") /\ IsDeclared(op[u], request[u])

\* An answer is what the operation allows, and for a cached operation it is what
\* its cells hold.
AnswersSound ==
  \A t \in Calls : Answered(t) =>
    /\ IF op[t] \in Broken THEN result[t] = Refused ELSE IsDeclared(op[t], result[t])
    /\ op[t] \in Slots =>
         /\ compiled[op[t]] # Empty
         /\ op[t] \notin Broken => request[compiled[op[t]].by] = result[t]

\* One call at most is inside the initialization of a cell, which is not written.
InsideAlone ==
  /\ \A t \in Calls : pc[t] \in {"grant", "deny"} =>
       cacheSlot[op[t]] = Empty /\ InSlot(op[t]) = {t}
  /\ \A t \in Calls : In(t, "publishing") =>
       /\ compiled[op[t]] = Empty /\ InCompiled(op[t]) = {t}
       /\ op[t] \in Slots
  /\ \A t \in Calls : In(t, "settling") =>
       request[result[t].by] = Empty /\ InRequest(result[t].by) = {t}

IInv == /\ CacheTypeOK /\ CacheAccounted /\ CancellationStaysPrivate
        /\ Begun /\ WorkIsOwn /\ CellsSound /\ OpenedSound /\ DeclarationsSound
        /\ AnswersSound /\ InsideAlone

USE DEF In, To, Give, ReturnWith, Opened, Step, cells

-----------------------------------------------------------------------------

\* The kinds of result, and Empty, are different things.
LEMMA Results ==
  /\ Empty \notin Result /\ Empty \notin BOOLEAN
  /\ Refused # Cancelled /\ Refused.kind # "built"
  /\ Refused \in Result /\ Cancelled \in Result
  /\ \A t \in Calls : /\ Built(t) \in Result \ {Refused, Cancelled}
                     /\ Built(t).by = t /\ Built(t).kind = "built"
BY CacheAssumption DEF Result, Built, Refused, Cancelled

\* What a cell's value or a call's own work lets the call do next.
LEMMA Delivery ==
  ASSUME NEW o, NEW t, NEW r, (o \in Broken /\ r = Refused) \/ IsCompiled(o, r), Deliver(t, r)
  PROVE  /\ result' = [result EXCEPT ![t] = r] /\ r \in Result /\ r # Cancelled
         /\ \/ o \in Broken /\ r = Refused /\ To(t, "returned")
            \/ IsCompiled(o, r) /\ To(t, "open")
BY Results DEF Deliver, IsCompiled

\* A step that grants no slot and writes none of these cells leaves the account.
LEMMA AccountKept ==
  ASSUME CacheAccounted, UNCHANGED <<cached, cacheSlot, compiled, op>>,
         \A u \in Calls : In(u, "grant")' <=> In(u, "grant")
  PROVE  CacheAccounted'
<1>1. Slots' = Slots
  BY DEF Slots
<1>2. Granted' = Granted
  BY <1>1 DEF Granted
<1>. QED
  BY <1>1, <1>2 DEF CacheAccounted

LEMMA CacheInitIInv == CacheInit => IInv
<1> SUFFICES ASSUME CacheInit PROVE IInv
  OBVIOUS
<1>1. CacheTypeOK
  BY CacheAssumption DEF CacheInit, CacheTypeOK
<1>2. CacheAccounted
  <2>1. Granted = {}
    BY Results DEF CacheInit, Granted, Slots
  <2>. QED
    BY <2>1, FS_EmptySet DEF CacheInit, CacheAccounted
<1>3. CancellationStaysPrivate /\ Begun /\ WorkIsOwn /\ AnswersSound
  BY Results DEF CacheInit, CancellationStaysPrivate, Begun, WorkIsOwn, AnswersSound, Answered
<1>4. CellsSound /\ OpenedSound /\ DeclarationsSound /\ InsideAlone
  BY DEF CacheInit, CellsSound, OpenedSound, DeclarationsSound, InsideAlone
<1>. QED
  BY <1>1, <1>2, <1>3, <1>4 DEF IInv

\* Every step of a call keeps the invariant. Most steps touch no cell; those that do
\* are described first by what they put there, then taken through the conjuncts.
LEMMA StepIInv == IInv /\ [CacheNext]_cacheVars => IInv'
<1> SUFFICES ASSUME IInv, [CacheNext]_cacheVars PROVE IInv'
  OBVIOUS
<1> USE DEF IInv
<1>1. ASSUME NEW t \in Calls, CancelCall(t) PROVE IInv'
  <2>1. (CacheTypeOK /\ CacheAccounted /\ CancellationStaysPrivate)'
    <3>1. (CacheTypeOK /\ CancellationStaysPrivate)'
      BY <1>1, Results DEF CancelCall, CacheTypeOK, CancellationStaysPrivate
    <3>2. \A u \in Calls : In(u, "grant")' <=> In(u, "grant")
      BY <1>1 DEF CancelCall, CacheTypeOK
    <3>3. UNCHANGED <<cached, cacheSlot, compiled>> /\ UNCHANGED op
      BY <1>1 DEF CancelCall
    <3>. QED
      BY <3>1, <3>2, <3>3, AccountKept
  <2>2. (Begun /\ WorkIsOwn)'
    BY <1>1, Results DEF CancelCall, CacheTypeOK, Begun, Answered, WorkIsOwn
  <2>3. (CellsSound /\ DeclarationsSound)'
    BY <1>1 DEF CancelCall, CacheTypeOK, CellsSound, IsCompiled, DeclarationsSound, IsDeclared
  <2>4. (OpenedSound /\ AnswersSound)'
    BY <1>1, Results DEF CancelCall, CacheTypeOK, OpenedSound, IsCompiled,
       AnswersSound, Answered, IsDeclared, Slots
  <2>5. InsideAlone'
    BY <1>1, Results DEF CancelCall, CacheTypeOK, InsideAlone, InSlot, InCompiled, InRequest, Slots
  <2>. QED
    BY <2>1, <2>2, <2>3, <2>4, <2>5
<1>2. ASSUME NEW t \in Calls, NEW o \in Operations, Begin(t, o) PROVE IInv'
  <2>1. (CacheTypeOK /\ CacheAccounted /\ CancellationStaysPrivate)'
    BY <1>2, Results DEF Begin, CacheTypeOK, CacheAccounted, Granted, Slots, CancellationStaysPrivate
  <2>2. (Begun /\ WorkIsOwn)'
    BY <1>2, Results DEF Begin, CacheTypeOK, Begun, Answered, WorkIsOwn
  <2>3. (CellsSound /\ DeclarationsSound)'
    BY <1>2 DEF Begin, CacheTypeOK, CellsSound, IsCompiled, DeclarationsSound, IsDeclared
  <2>4. (OpenedSound /\ AnswersSound)'
    BY <1>2, Results DEF Begin, CacheTypeOK, OpenedSound, IsCompiled,
       AnswersSound, Answered, IsDeclared, Slots
  <2>5. InsideAlone'
    BY <1>2, Results DEF Begin, CacheTypeOK, InsideAlone, InSlot, InCompiled, InRequest, Slots
  <2>. QED
    BY <2>1, <2>2, <2>3, <2>4, <2>5
<1>3. ASSUME NEW t \in Calls, Check(t) PROVE IInv'
  <2>1. (CacheTypeOK /\ CacheAccounted /\ CancellationStaysPrivate)'
    <3>1. (CacheTypeOK /\ CancellationStaysPrivate)'
      BY <1>3, Results DEF Check, CacheTypeOK, CancellationStaysPrivate
    <3>2. \A u \in Calls : In(u, "grant")' <=> In(u, "grant")
      BY <1>3 DEF Check, CacheTypeOK
    <3>3. UNCHANGED <<cached, cacheSlot, compiled>> /\ UNCHANGED op
      BY <1>3 DEF Check
    <3>. QED
      BY <3>1, <3>2, <3>3, AccountKept
  <2>2. (Begun /\ WorkIsOwn)'
    BY <1>3, Results DEF Check, CacheTypeOK, Begun, Answered, WorkIsOwn
  <2>3. (CellsSound /\ DeclarationsSound)'
    BY <1>3 DEF Check, CacheTypeOK, CellsSound, IsCompiled, DeclarationsSound, IsDeclared
  <2>4. (OpenedSound /\ AnswersSound)'
    BY <1>3, Results DEF Check, CacheTypeOK, OpenedSound, IsCompiled,
       AnswersSound, Answered, IsDeclared, Slots
  <2>5. InsideAlone'
    BY <1>3, Results DEF Check, CacheTypeOK, InsideAlone, InSlot, InCompiled, InRequest, Slots
  <2>. QED
    BY <2>1, <2>2, <2>3, <2>4, <2>5
<1>4. ASSUME NEW t \in Calls, Lookup(t) PROVE IInv'
  <2>a. op[t] \in Operations /\ In(t, "lookup") /\ UNCHANGED <<cells, token, op>>
    BY <1>4 DEF Lookup, Begun
  <2>b. \/ To(t, "reserve") /\ result' = result
        \/ /\ compiled[op[t]] # Empty /\ compiled[op[t]] \in Result \ {Cancelled}
           /\ result' = [result EXCEPT ![t] = compiled[op[t]]]
           /\ \/ op[t] \in Broken /\ compiled[op[t]] = Refused /\ To(t, "returned")
              \/ IsCompiled(op[t], compiled[op[t]]) /\ To(t, "open")
    BY <1>4, <2>a, Delivery DEF Lookup, CellsSound
  <2>c. op[t] \in Slots \/ To(t, "reserve")
    BY <2>a, <2>b DEF CacheAccounted
  <2>d. op[t] \in Slots => cacheSlot[op[t]] # Empty
    <3>1. TRUE # Empty
      BY Results
    <3>. QED
      BY <3>1, Zenon DEF Slots
  <2>1. CacheTypeOK'
    BY <2>a, <2>b, <2>c, <2>d, Results DEF CacheTypeOK
  <2>2. CacheAccounted'
    <3>1. \A u \in Calls : In(u, "grant")' <=> In(u, "grant")
      BY <2>a, <2>b, <2>c, <2>d, Results DEF CacheTypeOK
    <3>. QED
      BY <2>a, <2>b, <2>c, <2>d, Results, <3>1, AccountKept
  <2>3. CancellationStaysPrivate'
    BY <2>a, <2>b, <2>c, <2>d, Results DEF CacheTypeOK, CancellationStaysPrivate
  <2>4. Begun'
    BY <2>a, <2>b, <2>c, <2>d, Results DEF CacheTypeOK, Begun, Answered, Slots
  <2>5. WorkIsOwn'
    BY <2>a, <2>b, <2>c, <2>d, Results DEF CacheTypeOK, WorkIsOwn
  <2>6. CellsSound'
    BY <2>a, <2>b, <2>c, <2>d, Results DEF CacheTypeOK, CellsSound, IsCompiled
  <2>7. OpenedSound'
    BY <2>a, <2>b, <2>c, <2>d, Results DEF CacheTypeOK, OpenedSound, IsCompiled, Slots
  <2>8. DeclarationsSound'
    BY <2>a, <2>b, <2>c, <2>d, Results DEF CacheTypeOK, DeclarationsSound, IsDeclared
  <2>9. AnswersSound'
    BY <2>a, <2>b, <2>c, <2>d, Results DEF CacheTypeOK, AnswersSound, Answered, IsDeclared, Slots
  <2>10. InsideAlone'
    BY <2>a, <2>b, <2>c, <2>d, Results DEF CacheTypeOK, InsideAlone, InSlot, InCompiled, InRequest, Slots
  <2>. QED
    BY <2>1, <2>2, <2>3, <2>4, <2>5, <2>6, <2>7, <2>8, <2>9, <2>10
<1>5. ASSUME NEW t \in Calls, Reserve(t) PROVE IInv'
  <2>a. /\ op[t] \in Operations /\ In(t, "reserve")
        /\ UNCHANGED <<cacheSlot, compiled, request, token, op, result>>
    BY <1>5 DEF Reserve, Begun
  <2>b. \/ cacheSlot[op[t]] # Empty /\ cached' = cached /\ To(t, "compile")
        \/ /\ cacheSlot[op[t]] = Empty /\ InSlot(op[t]) = {}
           /\ \/ cached < CachedOperations /\ cached' = cached + 1 /\ To(t, "grant")
              \/ cached' = cached /\ To(t, "deny")
    BY <1>5 DEF Reserve, Decide, DecideAgain, Room
  <2>c. TRUE # Empty /\ FALSE # Empty
    BY Results
  <2>1. CacheTypeOK'
    <3>1. cached' \in 0..CachedOperations
      BY <2>b, CacheAssumption DEF CacheTypeOK
    <3>. QED
      BY <2>a, <2>b, <3>1 DEF CacheTypeOK
  <2>2. CacheAccounted'
    <3>1. CASE cached' = cached /\ (To(t, "compile") \/ To(t, "deny"))
      <4>1. \A u \in Calls : In(u, "grant")' <=> In(u, "grant")
        BY <2>a, <3>1 DEF CacheTypeOK
      <4>. QED
        BY <2>a, <3>1, <4>1 DEF CacheAccounted, Granted, Slots
    <3>2. CASE /\ cacheSlot[op[t]] = Empty /\ InSlot(op[t]) = {}
               /\ cached' = cached + 1 /\ To(t, "grant")
      <4>1. Granted' = Granted \cup {op[t]}
        <5>1. \A u \in Calls : In(u, "grant")' <=> In(u, "grant") \/ u = t
          BY <2>a, <3>2 DEF CacheTypeOK
        <5>. QED
          BY <2>a, <5>1 DEF Granted, Slots
      <4>2. op[t] \notin Granted
        BY <2>a, <2>c, <3>2 DEF Granted, Slots, InSlot
      <4>3. IsFiniteSet(Granted)
        BY CacheAssumption, FS_Subset DEF Granted
      <4>4. Cardinality(Granted') = Cardinality(Granted) + 1
        BY <4>1, <4>2, <4>3, FS_AddElement
      <4>. QED
        BY <2>a, <3>2, <4>4 DEF CacheAccounted, Slots
    <3>. QED
      BY <2>b, <3>1, <3>2
  <2>3. CancellationStaysPrivate'
    BY <2>a, <2>b, <2>c, Results
       DEF CacheTypeOK, CancellationStaysPrivate
  <2>4. Begun'
    BY <2>a, <2>b, <2>c, Results
       DEF CacheTypeOK, Begun, Answered, Slots
  <2>5. WorkIsOwn'
    BY <2>a, <2>b, <2>c, Results
       DEF CacheTypeOK, WorkIsOwn
  <2>6. CellsSound'
    BY <2>a, <2>b, <2>c, Results
       DEF CacheTypeOK, CellsSound, IsCompiled
  <2>7. OpenedSound'
    BY <2>a, <2>b, <2>c, Results
       DEF CacheTypeOK, OpenedSound, IsCompiled, Slots
  <2>8. DeclarationsSound'
    BY <2>a, <2>b, <2>c, Results
       DEF CacheTypeOK, DeclarationsSound, IsDeclared
  <2>9. AnswersSound'
    BY <2>a, <2>b, <2>c, Results
       DEF CacheTypeOK, AnswersSound, Answered, IsDeclared, Slots
  <2>10. InsideAlone'
    BY <2>a, <2>b, <2>c, Results
       DEF CacheTypeOK, InsideAlone, InSlot, InCompiled, InRequest, Slots
  <2>. QED
    BY <2>1, <2>2, <2>3, <2>4, <2>5, <2>6, <2>7, <2>8, <2>9, <2>10
<1>14. ASSUME NEW t \in Calls, Decided(t) PROVE IInv'
  <2>a. /\ op[t] \in Operations /\ pc[t] \in {"grant", "deny"} /\ To(t, "compile")
        /\ UNCHANGED <<cached, compiled, request, token, op, result>>
        /\ cacheSlot[op[t]] = Empty /\ InSlot(op[t]) = {t}
    BY <1>14 DEF Decided, Begun, InsideAlone
  <2>b. \/ In(t, "grant") /\ cacheSlot' = [cacheSlot EXCEPT ![op[t]] = TRUE]
        \/ In(t, "deny") /\ cacheSlot' = [cacheSlot EXCEPT ![op[t]] = FALSE]
    <3>1. cacheSlot' = [cacheSlot EXCEPT ![op[t]] = (pc[t] = "grant")]
      BY <1>14 DEF Decided
    <3>2. CASE In(t, "grant")
      <4>1. (pc[t] = "grant") = TRUE
        BY <3>2
      <4>. QED
        BY <3>1, <3>2, <4>1, Zenon
    <3>3. CASE In(t, "deny")
      <4>1. (pc[t] = "grant") = FALSE
        BY <3>3
      <4>. QED
        BY <3>1, <3>3, <4>1, Zenon
    <3>. QED
      BY <2>a, <3>2, <3>3
  <2>c. /\ TRUE # Empty /\ FALSE # Empty /\ cacheSlot'[op[t]] # Empty
        /\ op[t] \notin Slots /\ compiled[op[t]] = Empty
    <3>1. TRUE # Empty /\ FALSE # Empty
      BY Results
    <3>2. op[t] \notin Slots
      BY <2>a, <3>1, Zenon DEF Slots
    <3>. QED
      BY <2>a, <2>b, <3>1, <3>2 DEF CacheTypeOK, CacheAccounted
  <2>d. \A u \in Calls : op[u] = op[t] =>
          pc[u] \notin {"compile", "recheck", "publish", "publishing"} \cup Opened /\ ~Answered(u)
    BY <2>a DEF Begun
  <2>e. \A o \in Operations \ {op[t]} : o \in Slots' <=> o \in Slots
    BY <2>b DEF CacheTypeOK, Slots
  <2>1. CacheTypeOK'
    <3>1. cacheSlot' \in [Operations -> BOOLEAN \cup {Empty}]
      BY <2>a, <2>b DEF CacheTypeOK
    <3>. QED
      BY <2>a, <3>1 DEF CacheTypeOK
  <2>2. CacheAccounted'
    <3>1. \A u \in Calls : In(u, "grant")' <=> In(u, "grant") /\ u # t
      BY <2>a DEF CacheTypeOK
    <3>2. op[t] \in Slots' <=> In(t, "grant")
      BY <2>a, <2>b DEF CacheTypeOK, Slots
    <3>3. \A u \in Calls \ {t} : In(u, "grant") => op[u] # op[t]
      BY <2>a DEF InSlot
    <3>4. \A o \in Operations : o \in Granted' <=> o \in Granted
      BY <2>a, <2>c, <2>e, <3>1, <3>2, <3>3 DEF Granted
    <3>5. Granted' = Granted
      BY <3>4 DEF Granted
    <3>. QED
      BY <2>a, <2>c, <2>e, <3>5 DEF CacheAccounted
  <2>3. CancellationStaysPrivate'
    BY <2>a, <2>b, <2>c, <2>d, Results
       DEF CacheTypeOK, CancellationStaysPrivate
  <2>4. Begun'
    BY <2>a, <2>b, <2>c, <2>d, Results
       DEF CacheTypeOK, Begun, Answered, Slots
  <2>5. WorkIsOwn'
    BY <2>a, <2>b, <2>c, <2>d, Results
       DEF CacheTypeOK, WorkIsOwn
  <2>6. CellsSound'
    BY <2>a, <2>b, <2>c, <2>d, Results
       DEF CacheTypeOK, CellsSound, IsCompiled
  <2>7. OpenedSound'
    BY <2>a, <2>d, <2>e DEF CacheTypeOK, OpenedSound, IsCompiled, Begun
  <2>8. DeclarationsSound'
    BY <2>a, <2>b, <2>c, <2>d, Results
       DEF CacheTypeOK, DeclarationsSound, IsDeclared
  <2>9. AnswersSound'
    BY <2>a, <2>d, <2>e DEF CacheTypeOK, AnswersSound, Answered, IsDeclared, Begun
  <2>10. InsideAlone'
    BY <2>a, <2>b, <2>d, <2>e, Results
       DEF CacheTypeOK, Begun, InsideAlone, InSlot, InCompiled, InRequest
  <2>. QED
    BY <2>1, <2>2, <2>3, <2>4, <2>5, <2>6, <2>7, <2>8, <2>9, <2>10
<1>6. ASSUME NEW t \in Calls, Compile(t) PROVE IInv'
  <2>a. /\ op[t] \in Operations /\ In(t, "compile") /\ To(t, "recheck")
        /\ UNCHANGED <<cells, token, op>>
    BY <1>6 DEF Compile, Begun
  <2>b. PICK r \in {IF op[t] \in Broken THEN Refused ELSE Built(t), Cancelled} :
          (r = Cancelled => token[t]) /\ result' = [result EXCEPT ![t] = r]
    BY <1>6, Results DEF Compile, Worked
  <2>1. CacheTypeOK'
    BY <2>a, <2>b, Results DEF CacheTypeOK
  <2>2. CacheAccounted'
    <3>1. \A u \in Calls : In(u, "grant")' <=> In(u, "grant")
      BY <2>a, <2>b, Results DEF CacheTypeOK
    <3>. QED
      BY <2>a, <2>b, Results, <3>1, AccountKept
  <2>3. CancellationStaysPrivate'
    BY <2>a, <2>b, Results DEF CacheTypeOK, CancellationStaysPrivate
  <2>4. Begun'
    BY <2>a, <2>b, Results DEF CacheTypeOK, Begun, Answered, Slots
  <2>5. WorkIsOwn'
    BY <2>a, <2>b, Results DEF CacheTypeOK, WorkIsOwn
  <2>6. CellsSound'
    BY <2>a, <2>b, Results DEF CacheTypeOK, CellsSound, IsCompiled
  <2>7. OpenedSound'
    BY <2>a, <2>b, Results DEF CacheTypeOK, OpenedSound, IsCompiled, Slots
  <2>8. DeclarationsSound'
    BY <2>a, <2>b, Results DEF CacheTypeOK, DeclarationsSound, IsDeclared
  <2>9. AnswersSound'
    BY <2>a, <2>b, Results DEF CacheTypeOK, AnswersSound, Answered, IsDeclared, Slots
  <2>10. InsideAlone'
    BY <2>a, <2>b, Results DEF CacheTypeOK, InsideAlone, InSlot, InCompiled, InRequest, Slots
  <2>. QED
    BY <2>1, <2>2, <2>3, <2>4, <2>5, <2>6, <2>7, <2>8, <2>9, <2>10
<1>7. ASSUME NEW t \in Calls, Recheck(t) PROVE IInv'
  <2>1. (CacheTypeOK /\ CacheAccounted /\ CancellationStaysPrivate)'
    <3>1. (CacheTypeOK /\ CancellationStaysPrivate)'
      BY <1>7, Results DEF Recheck, CacheTypeOK, CancellationStaysPrivate
    <3>2. \A u \in Calls : In(u, "grant")' <=> In(u, "grant")
      BY <1>7 DEF Recheck, CacheTypeOK
    <3>3. UNCHANGED <<cached, cacheSlot, compiled>> /\ UNCHANGED op
      BY <1>7 DEF Recheck
    <3>. QED
      BY <3>1, <3>2, <3>3, AccountKept
  <2>2. (Begun /\ WorkIsOwn)'
    BY <1>7, Results DEF Recheck, CacheTypeOK, Begun, Answered, WorkIsOwn
  <2>3. (CellsSound /\ DeclarationsSound)'
    BY <1>7 DEF Recheck, CacheTypeOK, CellsSound, IsCompiled, DeclarationsSound, IsDeclared
  <2>4. (OpenedSound /\ AnswersSound)'
    BY <1>7, Results DEF Recheck, CacheTypeOK, OpenedSound, IsCompiled,
       AnswersSound, Answered, IsDeclared, Slots
  <2>5. InsideAlone'
    BY <1>7, Results DEF Recheck, CacheTypeOK, InsideAlone, InSlot, InCompiled, InRequest, Slots
  <2>. QED
    BY <2>1, <2>2, <2>3, <2>4, <2>5
<1>8. ASSUME NEW t \in Calls, Publish(t) PROVE IInv'
  <2>a. op[t] \in Operations /\ In(t, "publish") /\ UNCHANGED <<cells, token, op>>
    BY <1>8 DEF Publish, Begun
  <2>b. (op[t] \in Broken /\ result[t] = Refused) \/ IsCompiled(op[t], result[t])
    BY <2>a, Results DEF WorkIsOwn, IsCompiled
  <2> DEFINE enters == /\ op[t] \in Slots /\ compiled[op[t]] = Empty
                       /\ InCompiled(op[t]) = {}
                       /\ To(t, "publishing") /\ result' = result
             gets(r) == /\ (op[t] \in Broken /\ r = Refused) \/ IsCompiled(op[t], r)
                        /\ Deliver(t, r)
                        /\ op[t] \in Slots => compiled[op[t]] = r
             given(r) == /\ result' = [result EXCEPT ![t] = r]
                         /\ op[t] \in Slots => compiled[op[t]] = r
                         /\ \/ op[t] \in Broken /\ r = Refused /\ To(t, "returned")
                            \/ IsCompiled(op[t], r) /\ To(t, "open")
  <2>c. enters \/ \E r : gets(r)
    BY <1>8, <2>a, <2>b, Results DEF Publish, CellsSound, IsCompiled, Slots, WorkIsOwn
  <2>d. enters \/ \E r \in Result \ {Cancelled} : given(r)
    <3>1. ASSUME NEW r, gets(r) PROVE r \in Result \ {Cancelled} /\ given(r)
      BY <3>1, Delivery
    <3> HIDE DEF enters, gets, given
    <3>. QED
      BY <2>c, <3>1
  <2>e. cacheSlot[op[t]] # Empty
    BY <2>a DEF Begun
  <2>1. CacheTypeOK'
    BY <2>a, <2>d, <2>e, Results
       DEF CacheTypeOK
  <2>2. CacheAccounted'
    <3>1. \A u \in Calls : In(u, "grant")' <=> In(u, "grant")
      BY <2>a, <2>d, <2>e, Results DEF CacheTypeOK
    <3>. QED
      BY <2>a, <2>d, <2>e, Results, <3>1, AccountKept
  <2>3. CancellationStaysPrivate'
    BY <2>a, <2>d, <2>e, Results
       DEF CacheTypeOK, CancellationStaysPrivate
  <2>4. Begun'
    BY <2>a, <2>d, <2>e, Results
       DEF CacheTypeOK, Begun, Answered, Slots
  <2>5. WorkIsOwn'
    BY <2>a, <2>d, <2>e, Results
       DEF CacheTypeOK, WorkIsOwn
  <2>6. CellsSound'
    BY <2>a, <2>d, <2>e, Results
       DEF CacheTypeOK, CellsSound, IsCompiled
  <2>7. OpenedSound'
    BY <2>a, <2>d, <2>e, Results
       DEF CacheTypeOK, OpenedSound, IsCompiled, Slots
  <2>8. DeclarationsSound'
    BY <2>a, <2>d, <2>e, Results
       DEF CacheTypeOK, DeclarationsSound, IsDeclared
  <2>9. AnswersSound'
    BY <2>a, <2>d, <2>e, Results
       DEF CacheTypeOK, AnswersSound, Answered, IsDeclared, Slots
  <2>10. InsideAlone'
    BY <2>a, <2>d, <2>e, Results
       DEF CacheTypeOK, InsideAlone, InSlot, InCompiled, InRequest, Slots
  <2>. QED
    BY <2>1, <2>2, <2>3, <2>4, <2>5, <2>6, <2>7, <2>8, <2>9, <2>10
<1>15. ASSUME NEW t \in Calls, Published(t) PROVE IInv'
  <2>a. /\ op[t] \in Operations /\ In(t, "publishing") /\ op[t] \in Slots
        /\ compiled[op[t]] = Empty /\ InCompiled(op[t]) = {t}
        /\ compiled' = [compiled EXCEPT ![op[t]] = result[t]]
        /\ UNCHANGED <<cached, cacheSlot, request, token, op>>
    BY <1>15 DEF Published, Begun, InsideAlone
  <2>b. (op[t] \in Broken /\ result[t] = Refused) \/ IsCompiled(op[t], result[t])
    BY <2>a, Results DEF WorkIsOwn, IsCompiled
  <2>d. PICK r \in Result \ {Cancelled} :
          /\ r = result[t] /\ result' = [result EXCEPT ![t] = r]
          /\ \/ op[t] \in Broken /\ r = Refused /\ To(t, "returned")
             \/ IsCompiled(op[t], r) /\ To(t, "open")
    <3>1. Deliver(t, result[t])
      BY <1>15 DEF Published
    <3>. QED
      <4>1. /\ result' = [result EXCEPT ![t] = result[t]]
            /\ result[t] \in Result /\ result[t] # Cancelled
            /\ \/ op[t] \in Broken /\ result[t] = Refused /\ To(t, "returned")
               \/ IsCompiled(op[t], result[t]) /\ To(t, "open")
        BY <2>b, <3>1, Delivery
      <4>. QED
        BY <4>1
  <2>e. cacheSlot[op[t]] # Empty
    BY <2>a DEF Begun
  <2>1. CacheTypeOK'
    BY <2>a, <2>d, <2>e, Results
       DEF CacheTypeOK
  <2>2. CacheAccounted'
    <3>1. \A u \in Calls : In(u, "grant")' <=> In(u, "grant")
      BY <2>a, <2>d DEF CacheTypeOK
    <3>2. Granted' = Granted
      BY <2>a, <3>1 DEF Granted, Slots
    <3>. QED
      BY <2>a, <3>2 DEF CacheTypeOK, CacheAccounted, Slots
  <2>3. CancellationStaysPrivate'
    BY <2>a, <2>d, <2>e, Results
       DEF CacheTypeOK, CancellationStaysPrivate
  <2>4. Begun'
    BY <2>a, <2>d, <2>e, Results
       DEF CacheTypeOK, Begun, Answered, Slots
  <2>5. WorkIsOwn'
    BY <2>a, <2>d, <2>e, Results
       DEF CacheTypeOK, WorkIsOwn
  <2>6. CellsSound'
    BY <2>a, <2>d, <2>e, Results
       DEF CacheTypeOK, CellsSound, IsCompiled
  <2>7. OpenedSound'
    BY <2>a, <2>d, <2>e, Results
       DEF CacheTypeOK, OpenedSound, IsCompiled, Slots
  <2>8. DeclarationsSound'
    BY <2>a, <2>d, <2>e, Results
       DEF CacheTypeOK, DeclarationsSound, IsDeclared
  <2>9. AnswersSound'
    BY <2>a, <2>d, <2>e, Results
       DEF CacheTypeOK, AnswersSound, Answered, IsDeclared, Slots
  <2>10. InsideAlone'
    BY <2>a, <2>d, <2>e, Results
       DEF CacheTypeOK, InsideAlone, InSlot, InCompiled, InRequest, Slots
  <2>. QED
    BY <2>1, <2>2, <2>3, <2>4, <2>5, <2>6, <2>7, <2>8, <2>9, <2>10
<1>9. ASSUME NEW t \in Calls, Open(t) PROVE IInv'
  <2>1. (CacheTypeOK /\ CacheAccounted /\ CancellationStaysPrivate)'
    <3>1. (CacheTypeOK /\ CancellationStaysPrivate)'
      BY <1>9, Results DEF Open, CacheTypeOK, CancellationStaysPrivate
    <3>2. \A u \in Calls : In(u, "grant")' <=> In(u, "grant")
      BY <1>9 DEF Open, CacheTypeOK
    <3>3. UNCHANGED <<cached, cacheSlot, compiled>> /\ UNCHANGED op
      BY <1>9 DEF Open
    <3>. QED
      BY <3>1, <3>2, <3>3, AccountKept
  <2>2. (Begun /\ WorkIsOwn)'
    BY <1>9, Results DEF Open, CacheTypeOK, Begun, Answered, WorkIsOwn
  <2>3. (CellsSound /\ DeclarationsSound)'
    BY <1>9 DEF Open, CacheTypeOK, CellsSound, IsCompiled, DeclarationsSound, IsDeclared
  <2>4. (OpenedSound /\ AnswersSound)'
    BY <1>9, Results DEF Open, CacheTypeOK, OpenedSound, IsCompiled,
       AnswersSound, Answered, IsDeclared, Slots
  <2>5. InsideAlone'
    BY <1>9, Results DEF Open, CacheTypeOK, InsideAlone, InSlot, InCompiled, InRequest, Slots
  <2>. QED
    BY <2>1, <2>2, <2>3, <2>4, <2>5
<1>10. ASSUME NEW t \in Calls, Peek(t) PROVE IInv'
  <2>a. PICK u \in Calls : result[t] = Built(u) /\ op[u] = op[t] /\ ~In(u, "idle")
    BY <1>10, Results DEF Peek, OpenedSound, IsCompiled
  <2>b. /\ op[t] \in Operations \ Broken /\ pc[t] \in Opened /\ Cell(t) = request[u]
        /\ op[t] \in Slots => compiled[op[t]] = Built(u)
    BY <1>10, <2>a, Results DEF Peek, Begun, Cell, OpenedSound, IsCompiled
  <2>c. /\ UNCHANGED <<cells, token, op>>
        /\ \/ To(t, "declare") /\ result' = result
           \/ /\ request[u] # Empty /\ To(t, "returned")
              /\ result' = [result EXCEPT ![t] = request[u]]
    BY <1>10, <2>b DEF Peek
  <2>1. CacheTypeOK'
    BY <2>a, <2>b, <2>c, Results DEF CacheTypeOK
  <2>2. CacheAccounted'
    <3>1. \A v \in Calls : In(v, "grant")' <=> In(v, "grant")
      BY <2>a, <2>b, <2>c, Results DEF CacheTypeOK
    <3>. QED
      BY <2>a, <2>b, <2>c, Results, <3>1, AccountKept
  <2>3. CancellationStaysPrivate'
    BY <2>a, <2>b, <2>c, Results DEF CacheTypeOK, CancellationStaysPrivate
  <2>4. Begun'
    BY <2>a, <2>b, <2>c, Results DEF CacheTypeOK, Begun, Answered, Slots
  <2>5. WorkIsOwn'
    BY <2>a, <2>b, <2>c, Results DEF CacheTypeOK, WorkIsOwn
  <2>6. CellsSound'
    BY <2>a, <2>b, <2>c, Results DEF CacheTypeOK, CellsSound, IsCompiled
  <2>7. OpenedSound'
    BY <2>a, <2>b, <2>c, Results DEF CacheTypeOK, OpenedSound, IsCompiled, Slots
  <2>8. DeclarationsSound'
    BY <2>a, <2>b, <2>c, Results DEF CacheTypeOK, DeclarationsSound, IsDeclared
  <2>9. AnswersSound'
    BY <2>a, <2>b, <2>c, Results
       DEF CacheTypeOK, Begun, CacheAccounted, DeclarationsSound, AnswersSound, Answered, IsDeclared, Slots
  <2>10. InsideAlone'
    BY <2>a, <2>b, <2>c, Results DEF CacheTypeOK, InsideAlone, InSlot, InCompiled, InRequest, Slots
  <2>. QED
    BY <2>1, <2>2, <2>3, <2>4, <2>5, <2>6, <2>7, <2>8, <2>9, <2>10
<1>11. ASSUME NEW t \in Calls, Declare(t) PROVE IInv'
  <2>1. (CacheTypeOK /\ CacheAccounted /\ CancellationStaysPrivate)'
    <3>1. (CacheTypeOK /\ CancellationStaysPrivate)'
      BY <1>11, Results DEF Declare, CacheTypeOK, CancellationStaysPrivate
    <3>2. \A u \in Calls : In(u, "grant")' <=> In(u, "grant")
      BY <1>11 DEF Declare, CacheTypeOK
    <3>3. UNCHANGED <<cached, cacheSlot, compiled>> /\ UNCHANGED op
      BY <1>11 DEF Declare
    <3>. QED
      BY <3>1, <3>2, <3>3, AccountKept
  <2>2. (Begun /\ WorkIsOwn)'
    BY <1>11, Results DEF Declare, CacheTypeOK, Begun, Answered, WorkIsOwn
  <2>3. (CellsSound /\ DeclarationsSound)'
    BY <1>11 DEF Declare, CacheTypeOK, CellsSound, IsCompiled, DeclarationsSound, IsDeclared
  <2>4. (OpenedSound /\ AnswersSound)'
    BY <1>11, Results DEF Declare, CacheTypeOK, OpenedSound, IsCompiled,
       AnswersSound, Answered, IsDeclared, Slots
  <2>5. InsideAlone'
    BY <1>11, Results DEF Declare, CacheTypeOK, InsideAlone, InSlot, InCompiled, InRequest, Slots
  <2>. QED
    BY <2>1, <2>2, <2>3, <2>4, <2>5
<1>12. ASSUME NEW t \in Calls, Settle(t) PROVE IInv'
  <2>a. PICK u \in Calls : result[t] = Built(u) /\ op[u] = op[t] /\ ~In(u, "idle")
    BY <1>12, Results DEF Settle, OpenedSound, IsCompiled
  <2>b. /\ op[t] \in Operations \ Broken /\ In(t, "settle") /\ Cell(t) = request[u]
        /\ op[t] \in Slots => compiled[op[t]] = Built(u)
    BY <1>12, <2>a, Results DEF Settle, Begun, Cell, OpenedSound, IsCompiled
  <2>c. /\ UNCHANGED <<cells, token, op>>
        /\ \/ /\ request[u] = Empty /\ InRequest(u) = {} /\ To(t, "settling")
              /\ result' = result
           \/ /\ request[u] # Empty /\ To(t, "returned")
              /\ result' = [result EXCEPT ![t] = request[u]]
    BY <1>12, <2>a, <2>b, Results DEF Settle
  <2>1. CacheTypeOK'
    BY <2>a, <2>b, <2>c, Results
       DEF CacheTypeOK
  <2>2. CacheAccounted'
    <3>1. \A v \in Calls : In(v, "grant")' <=> In(v, "grant")
      BY <2>a, <2>b, <2>c, Results DEF CacheTypeOK
    <3>. QED
      BY <2>a, <2>b, <2>c, Results, <3>1, AccountKept
  <2>3. CancellationStaysPrivate'
    BY <2>a, <2>b, <2>c, Results
       DEF CacheTypeOK, CancellationStaysPrivate
  <2>4. Begun'
    BY <2>a, <2>b, <2>c, Results
       DEF CacheTypeOK, Begun, Answered, Slots
  <2>5. WorkIsOwn'
    BY <2>a, <2>b, <2>c, Results
       DEF CacheTypeOK, WorkIsOwn
  <2>6. CellsSound'
    BY <2>a, <2>b, <2>c, Results
       DEF CacheTypeOK, CellsSound, IsCompiled
  <2>7. OpenedSound'
    BY <2>a, <2>b, <2>c, Results
       DEF CacheTypeOK, OpenedSound, IsCompiled, Slots
  <2>8. DeclarationsSound'
    BY <2>a, <2>b, <2>c, Results
       DEF CacheTypeOK, DeclarationsSound, IsDeclared
  <2>9. AnswersSound'
    BY <2>a, <2>b, <2>c, Results
       DEF CacheTypeOK, Begun, CacheAccounted, DeclarationsSound, AnswersSound, Answered, IsDeclared, Slots
  <2>10. InsideAlone'
    BY <2>a, <2>b, <2>c, Results
       DEF CacheTypeOK, InsideAlone, InSlot, InCompiled, InRequest, Slots
  <2>. QED
    BY <2>1, <2>2, <2>3, <2>4, <2>5, <2>6, <2>7, <2>8, <2>9, <2>10
<1>16. ASSUME NEW t \in Calls, Settled(t) PROVE IInv'
  <2>a. PICK u \in Calls : result[t] = Built(u) /\ op[u] = op[t] /\ ~In(u, "idle")
    BY <1>16, Results DEF Settled, OpenedSound, IsCompiled
  <2>b. /\ op[t] \in Operations \ Broken /\ In(t, "settling")
        /\ request[u] = Empty /\ InRequest(u) = {t}
        /\ op[t] \in Slots => compiled[op[t]] = Built(u)
    BY <1>16, <2>a, Results DEF Settled, Begun, OpenedSound, IsCompiled, InsideAlone
  <2>c. PICK r \in Result \ {Cancelled} :
          /\ IsDeclared(op[t], r)
          /\ request' = [request EXCEPT ![u] = r]
          /\ To(t, "returned") /\ result' = [result EXCEPT ![t] = r]
          /\ UNCHANGED <<cached, cacheSlot, compiled, token, op>>
    BY <1>16, <2>a, <2>b, Results DEF Settled, IsDeclared
  <2>1. CacheTypeOK'
    BY <2>a, <2>b, <2>c, Results
       DEF CacheTypeOK
  <2>2. CacheAccounted'
    <3>1. \A v \in Calls : In(v, "grant")' <=> In(v, "grant")
      BY <2>a, <2>b, <2>c, Results DEF CacheTypeOK
    <3>. QED
      BY <2>a, <2>b, <2>c, Results, <3>1, AccountKept
  <2>3. CancellationStaysPrivate'
    BY <2>a, <2>b, <2>c, Results
       DEF CacheTypeOK, CancellationStaysPrivate
  <2>4. Begun'
    BY <2>a, <2>b, <2>c, Results
       DEF CacheTypeOK, Begun, Answered, Slots
  <2>5. WorkIsOwn'
    BY <2>a, <2>b, <2>c, Results
       DEF CacheTypeOK, WorkIsOwn
  <2>6. CellsSound'
    BY <2>a, <2>b, <2>c, Results
       DEF CacheTypeOK, CellsSound, IsCompiled
  <2>7. OpenedSound'
    BY <2>a, <2>b, <2>c, Results
       DEF CacheTypeOK, OpenedSound, IsCompiled, Slots
  <2>8. DeclarationsSound'
    BY <2>a, <2>b, <2>c, Results
       DEF CacheTypeOK, DeclarationsSound, IsDeclared
  <2>9. AnswersSound'
    BY <2>a, <2>b, <2>c, Results
       DEF CacheTypeOK, Begun, CacheAccounted, AnswersSound, Answered, IsDeclared, Slots
  <2>10. InsideAlone'
    BY <2>a, <2>b, <2>c, Results
       DEF CacheTypeOK, InsideAlone, InSlot, InCompiled, InRequest, Slots
  <2>. QED
    BY <2>1, <2>2, <2>3, <2>4, <2>5, <2>6, <2>7, <2>8, <2>9, <2>10
<1>13. CASE UNCHANGED cacheVars
  <2>1. (CacheTypeOK /\ CacheAccounted /\ CancellationStaysPrivate /\ InsideAlone)'
    BY <1>13 DEF cacheVars, CacheTypeOK, CacheAccounted, Granted, Slots,
       CancellationStaysPrivate, InsideAlone, InSlot, InCompiled, InRequest
  <2>2. (Begun /\ WorkIsOwn /\ CellsSound /\ OpenedSound /\ DeclarationsSound /\ AnswersSound)'
    BY <1>13 DEF cacheVars, Begun, WorkIsOwn, CellsSound, IsCompiled, OpenedSound,
       DeclarationsSound, IsDeclared, AnswersSound, Answered, Slots
  <2>. QED
    BY <2>1, <2>2
<1>. QED
  BY <1>1, <1>2, <1>3, <1>4, <1>5, <1>6, <1>7, <1>8, <1>9, <1>10, <1>11, <1>12, <1>13,
     <1>14, <1>15, <1>16
     DEF CacheNext, Runs

LEMMA Invariance == CacheSafety => []IInv
<1>. QED
  BY CacheInitIInv, StepIInv, PTL DEF CacheSafety

-----------------------------------------------------------------------------

\* Every cell and call holds what the code can put there; the counter keeps to
\* Limits::cached_operations.
THEOREM TypeCorrect == CacheSafety => []CacheTypeOK
<1>1. IInv => CacheTypeOK
  BY DEF IInv
<1>. QED
  BY <1>1, Invariance, PTL

\* The counter is the number of slots granted, in every interleaving of the calls.
THEOREM SlotsAreCounted == CacheSafety => []CacheAccounted
<1>1. IInv => CacheAccounted
  BY DEF IInv
<1>. QED
  BY <1>1, Invariance, PTL

\* A cancellation is never cached and never given to a call that was not cancelled.
THEOREM CancellationIsPrivate == CacheSafety => []CancellationStaysPrivate
<1>1. IInv => CancellationStaysPrivate
  BY DEF IInv
<1>. QED
  BY <1>1, Invariance, PTL

\* Calls of one operation agree: on its fate always, on the Arc when it is cached.
THEOREM CallsAgree == CacheSafety => []Agreement
<1>1. IInv => Agreement
  <2> SUFFICES ASSUME IInv, NEW t \in Calls, NEW u \in Calls,
                      Answered(t), Answered(u), op[t] = op[u]
               PROVE  /\ result[t].kind = result[u].kind
                      /\ op[t] \in Slots => result[t] = result[u]
    BY DEF Agreement
  <2>1. CASE op[t] \in Broken
    BY <2>1 DEF IInv, AnswersSound
  <2>2. CASE op[t] \notin Broken
    <3>1. IsDeclared(op[t], result[t]) /\ IsDeclared(op[t], result[u])
      BY <2>2 DEF IInv, AnswersSound
    <3>2. result[t].kind = result[u].kind
      BY <3>1, Results DEF IsDeclared
    <3>3. op[t] \in Slots => result[t] = result[u]
      BY <2>2 DEF IInv, AnswersSound
    <3>. QED
      BY <3>2, <3>3
  <2>. QED
    BY <2>1, <2>2
<1>. QED
  BY <1>1, Invariance, PTL

\* A decided slot, a published result and a Compiled's declarations stay as they are.
THEOREM CellsAreWrittenOnce == CacheSafety => PublishedStays
<1> DEFINE kept == /\ \A o \in Operations : compiled[o] # Empty => compiled'[o] = compiled[o]
                   /\ \A o \in Operations : cacheSlot[o] # Empty => cacheSlot'[o] = cacheSlot[o]
                   /\ \A t \in Calls : request[t] # Empty => request'[t] = request[t]
<1>1. IInv /\ [CacheNext]_cacheVars => [kept]_cells
  <2> SUFFICES ASSUME IInv, [CacheNext]_cacheVars PROVE kept \/ UNCHANGED cells
    OBVIOUS
  <2> USE DEF IInv, CacheTypeOK
  <2>1. ASSUME NEW t \in Calls, Decided(t) PROVE kept
    BY <2>1 DEF Decided, InsideAlone
  <2>2. ASSUME NEW t \in Calls, Published(t) PROVE kept
    BY <2>2 DEF Published, InsideAlone
  <2>3. ASSUME NEW t \in Calls, Settled(t) PROVE kept
    BY <2>3 DEF Settled, InsideAlone
  <2>4. ASSUME NEW t \in Calls,
               \/ CancelCall(t) \/ Check(t) \/ Lookup(t) \/ Compile(t) \/ Recheck(t)
               \/ Open(t) \/ Peek(t) \/ Declare(t) \/ \E o \in Operations : Begin(t, o)
        PROVE  UNCHANGED cells
    BY <2>4 DEF CancelCall, Check, Lookup, Compile, Recheck, Open, Peek, Declare, Begin
  <2>6. ASSUME NEW t \in Calls, Reserve(t) \/ Publish(t) \/ Settle(t)
        PROVE  kept
    BY <2>6 DEF Reserve, Publish, Settle
  <2>5. CASE UNCHANGED cacheVars
    BY <2>5 DEF cacheVars
  <2>. QED
    BY <2>1, <2>2, <2>3, <2>4, <2>5, <2>6 DEF CacheNext, Runs
<1>. QED
  BY <1>1, Invariance, PTL DEF CacheSafety, PublishedStays

\* The cells of a Document stay safe under any number of racing calls (prepare.rs,
\* compiled and request_declarations).
THEOREM CacheStaysSafe == CacheSafety => []CacheIsSafe
<1>1. CacheTypeOK /\ CacheAccounted /\ CancellationStaysPrivate /\ Agreement => CacheIsSafe
  BY DEF CacheIsSafe
<1>. QED
  BY <1>1, TypeCorrect, SlotsAreCounted, CancellationIsPrivate, CallsAgree, PTL
=============================================================================
