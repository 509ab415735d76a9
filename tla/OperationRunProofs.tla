------------------------- MODULE OperationRunProofs -------------------------
(***************************************************************************)
(* Proofs about the invocation session, the run on it and the facade over  *)
(* both, for every set of operations, any number of writes, emits and      *)
(* reads, buffers of every size and every bound.                           *)
(*                                                                         *)
(* The session (HandleInv): delivery is sound, what ended stays ended, and *)
(* the outputs implement the abstract stream.                              *)
(*                                                                         *)
(* The run: NothingSentAfterTheEnd follows from what ties the signal to    *)
(* the state of the session (Signalled).  RefusalsTouchNothing is not      *)
(* inductive: it needs to know that nothing was sent or produced before    *)
(* the exchange (Untouched), that a run refused anything is over           *)
(* (Refused), and that no input is asked for before the preflight has      *)
(* passed (Unread).  RunInv adds how far the run is to HandleInv, and      *)
(* CallInv where the facade stands to RunInv.                              *)
(***************************************************************************)
EXTENDS ClientCall, SequenceTheorems, FiniteSetTheorems, TLAPS

(* The session: what ended has closed its inputs, aborted its signal,       *)
(* settled its header and, if it failed, kept the error.                    *)
SessionOK ==
    /\ state \in {"open", "closed", "errored"}
    /\ terminal \in TerminalErrors \cup {NoError}
    /\ aborted \in BOOLEAN /\ trailer \in BOOLEAN
    /\ header \in {"unset", "binding", "empty"}
    /\ state # "open" => inClosed /\ aborted /\ header # "unset"
    /\ state = "errored" => terminal # NoError

(* The inputs: types, buffers and delivery.                                 *)
InputOK ==
    /\ inBuf \in Seq(Writes) /\ parkedWrites \in Seq(Writes) /\ pulled \in Seq(Writes)
    /\ inClosed \in BOOLEAN /\ readParked \in BOOLEAN
    /\ write \in [Writes -> Statuses({"validating"})]
    /\ readEnd \in {"none", "value", "done"} \cup TerminalErrors
    /\ readParked => inBuf = <<>> /\ ~inClosed
    /\ parkedWrites # <<>> => Len(inBuf) = InCapacity /\ ~inClosed
    /\ Len(inBuf) <= InCapacity
    /\ Distinct(pulled \o inBuf \o parkedWrites)
    /\ Elements(pulled \o inBuf) = {m \in Writes : write[m] = "accepted"}
    /\ Elements(parkedWrites) = {m \in Writes : write[m] = "parked"}

(* The outputs: types, buffers and delivery; emits are called in order, and *)
(* the end is seen of an empty queue.                                       *)
OutputOK ==
    /\ outQ \in Seq(Emits) /\ parkedEmits \in Seq(Emits) /\ received \in Seq(Emits)
    /\ claimed \in BOOLEAN /\ parkedReads \in Nat
    /\ emit \in [Emits -> Statuses({})]
    /\ outEnd \in {"none", "closed", "errored"}
    /\ parkedReads > 0 => outQ = <<>> /\ state = "open"
    /\ parkedEmits # <<>> => Len(outQ) = OutCapacity /\ state = "open"
    /\ Len(outQ) <= OutCapacity
    /\ Increasing(received \o outQ \o parkedEmits)
    /\ Elements(received \o outQ) = {n \in Emits : emit[n] = "accepted"}
    /\ Elements(parkedEmits) = {n \in Emits : emit[n] = "parked"}
    /\ \A k, n \in Emits : k < n /\ emit[n] # "idle" => emit[k] # "idle"
    /\ outEnd # "none" => outEnd = state /\ outQ = <<>>

(* How far single() is: what it has read, and whether it waits.             *)
Reading(read) ==
    /\ Len(received) \in read..(read + 1)
    /\ outEnd # "none" => Len(received) = read
    /\ parkedReads > 0 => parkedReads = 1 /\ Len(received) = read

SingleOK ==
    /\ single \in {"unused", "first", "second", "value", "ERR_EXPECTED_SINGLE"}
                    \cup TerminalErrors
    /\ ~claimed => received = <<>> /\ parkedReads = 0 /\ outEnd = "none" /\ single = "unused"
    /\ single = "first" => Reading(0)
    /\ single = "second" => Reading(1)
    /\ single = "value" => state = "closed" /\ outQ = <<>> /\ Len(received) = 1

HandleInv == SessionOK /\ InputOK /\ OutputOK /\ SingleOK

-----------------------------------------------------------------------------
(* Queues.                                                                 *)

(* One that joins the second queue joins the two.                           *)
LEMMA AppendToQueue ==
    ASSUME NEW S, NEW s \in Seq(S), NEW t \in Seq(S), NEW x \in S
    PROVE  s \o Append(t, x) = Append(s \o t, x)
  <1>1. Append(t, x) = t \o <<x>> /\ Append(s \o t, x) = (s \o t) \o <<x>>
    BY AppendIsConcat, ConcatProperties
  <1>2. <<x>> \in Seq(S)
    OBVIOUS
  <1>3. QED
    BY <1>1, <1>2, ConcatAssociative

(* Taking the head of a queue moves the boundary and nothing else.          *)
LEMMA HeadMovesOver ==
    ASSUME NEW S, NEW s \in Seq(S), NEW t \in Seq(S), t # <<>>
    PROVE  Append(s, Head(t)) \o Tail(t) = s \o t
  <1>1. /\ Head(t) \in S /\ Tail(t) \in Seq(S) /\ <<Head(t)>> \in Seq(S)
        /\ t = <<Head(t)>> \o Tail(t)
    BY HeadTailProperties, ConcatProperties
  <1>2. Append(s, Head(t)) = s \o <<Head(t)>>
    BY <1>1, AppendIsConcat
  <1>3. (s \o <<Head(t)>>) \o Tail(t) = s \o (<<Head(t)>> \o Tail(t))
    BY <1>1, ConcatAssociative
  <1>4. QED
    BY <1>1, <1>2, <1>3

(* The same when the first that waits behind the queue takes the place.     *)
LEMMA HeadAdmitsWaiter ==
    ASSUME NEW S, NEW s \in Seq(S), NEW t \in Seq(S), NEW x \in S, t # <<>>
    PROVE  Append(s, Head(t)) \o Append(Tail(t), x) = Append(s \o t, x)
  <1>1. Head(t) \in S /\ Tail(t) \in Seq(S)
    BY HeadTailProperties
  <1>2. Append(s, Head(t)) \in Seq(S)
    BY <1>1, AppendProperties
  <1>3. Append(s, Head(t)) \o Append(Tail(t), x) = Append(Append(s, Head(t)) \o Tail(t), x)
    BY <1>1, <1>2, AppendToQueue
  <1>4. QED
    BY <1>3, HeadMovesOver

(* What a queue holds, by place and by operation.                           *)
LEMMA ElementsByIndex ==
    ASSUME NEW S, NEW s \in Seq(S)
    PROVE  /\ \A e : e \in Elements(s) <=> \E i \in 1..Len(s) : e = s[i]
           /\ Elements(s) \subseteq S
  BY LenProperties DEF Elements

LEMMA ElementsOfNothing == Elements(<<>>) = {}
  BY DEF Elements

LEMMA ElementsOfAppend ==
    ASSUME NEW S, NEW s \in Seq(S), NEW x \in S
    PROVE  Elements(Append(s, x)) = Elements(s) \cup {x}
  <1>1. Append(s, x) \in Seq(S) /\ Len(Append(s, x)) = Len(s) + 1 /\ Len(s) \in Nat
    BY AppendProperties, LenProperties
  <1>2. \A i \in 1..Len(s) + 1 : Append(s, x)[i] = IF i <= Len(s) THEN s[i] ELSE x
    BY AppendProperties
  <1>3. ASSUME NEW e PROVE e \in Elements(Append(s, x)) <=> e \in Elements(s) \cup {x}
    <2>1. e \in Elements(s) <=> \E i \in 1..Len(s) : e = s[i]
      BY ElementsByIndex
    <2>2. e \in Elements(Append(s, x)) <=> \E i \in 1..Len(s) + 1 : e = Append(s, x)[i]
      BY ElementsByIndex, <1>1
    <2>3. Append(s, x)[Len(s) + 1] = x /\ \A i \in 1..Len(s) : Append(s, x)[i] = s[i]
      BY <1>1, <1>2
    <2>4. \A i \in 1..Len(s) + 1 : i \in 1..Len(s) \/ i = Len(s) + 1
      BY <1>1
    <2>5. QED
      BY <1>1, <2>1, <2>2, <2>3, <2>4
  <1>4. QED
    BY <1>3

LEMMA ElementsOfConcat ==
    ASSUME NEW S, NEW s \in Seq(S), NEW t \in Seq(S)
    PROVE  Elements(s \o t) = Elements(s) \cup Elements(t)
  <1>1. /\ s \o t \in Seq(S) /\ Len(s \o t) = Len(s) + Len(t)
        /\ Len(s) \in Nat /\ Len(t) \in Nat
    BY ConcatProperties, LenProperties
  <1>2. \A i \in 1..Len(s) : (s \o t)[i] = s[i]
    BY <1>1, ConcatProperties
  <1>3. \A i \in 1..Len(t) : (s \o t)[Len(s) + i] = t[i]
    BY <1>1, ConcatProperties
  <1>4. \A i \in 1..Len(s) + Len(t) : i \notin 1..Len(s) => i - Len(s) \in 1..Len(t)
    BY <1>1
  <1>5. \A i \in 1..Len(s) + Len(t) : (s \o t)[i] \in Elements(s) \cup Elements(t)
    BY ElementsByIndex, <1>1, <1>2, <1>3, <1>4
  <1>6. ASSUME NEW e \in Elements(s) PROVE e \in Elements(s \o t)
    <2>1. PICK i \in 1..Len(s) : e = s[i]
      BY ElementsByIndex
    <2>2. i \in 1..Len(s \o t) /\ (s \o t)[i] = e
      BY <1>1, <1>2, <2>1
    <2>3. QED
      BY ElementsByIndex, <1>1, <2>2
  <1>7. ASSUME NEW e \in Elements(t) PROVE e \in Elements(s \o t)
    <2>1. PICK i \in 1..Len(t) : e = t[i]
      BY ElementsByIndex
    <2>2. Len(s) + i \in 1..Len(s \o t)
      BY <1>1
    <2>3. QED
      BY ElementsByIndex, <1>1, <1>3, <2>1, <2>2
  <1>8. ASSUME NEW e \in Elements(s \o t) PROVE e \in Elements(s) \cup Elements(t)
    <2>1. PICK i \in 1..Len(s \o t) : e = (s \o t)[i]
      BY ElementsByIndex, <1>1
    <2>2. QED
      BY <1>1, <1>5, <2>1
  <1>9. QED
    BY <1>6, <1>7, <1>8

LEMMA ElementsOfTail ==
    ASSUME NEW S, NEW t \in Seq(S), t # <<>>, Distinct(t)
    PROVE  Head(t) \in Elements(t) /\ Elements(Tail(t)) = Elements(t) \ {Head(t)}
  <1>1. /\ Tail(t) \in Seq(S) /\ Len(Tail(t)) = Len(t) - 1 /\ Len(t) \in Nat
        /\ \A i \in 1..Len(Tail(t)) : Tail(t)[i] = t[i + 1]
    BY HeadTailProperties, LenProperties
  <1>2. Head(t) = t[1] /\ Len(t) >= 1
    BY EmptySeq, <1>1
  <1>3. \A i \in 1..Len(t) : i = 1 \/ t[i] = Tail(t)[i - 1]
    BY <1>1, <1>2
  <1>4. ASSUME NEW e \in Elements(t) PROVE e \in {Head(t)} \cup Elements(Tail(t))
    <2>1. PICK i \in 1..Len(t) : e = t[i]
      BY ElementsByIndex
    <2>2. i # 1 => i - 1 \in 1..Len(Tail(t))
      BY <1>1
    <2>3. QED
      BY ElementsByIndex, <1>1, <1>2, <1>3, <2>1, <2>2
  <1>5. ASSUME NEW e \in Elements(Tail(t)) PROVE e \in Elements(t) /\ e # Head(t)
    <2>1. PICK i \in 1..Len(Tail(t)) : e = Tail(t)[i]
      BY ElementsByIndex, <1>1, ZenonT(30)
    <2>2. i + 1 \in 1..Len(t) /\ e = t[i + 1] /\ i + 1 # 1 /\ 1 \in 1..Len(t)
      BY <1>1, <1>2, <2>1
    <2>3. t[i + 1] # t[1]
      BY <2>2, LenProperties DEF Distinct
    <2>4. QED
      BY ElementsByIndex, <1>2, <2>2, <2>3
  <1>6. Head(t) \in Elements(t)
    BY ElementsByIndex, <1>1, <1>2
  <1>7. QED
    BY <1>4, <1>5, <1>6

(* Forgetting those that wait behind a queue keeps the order of the rest.   *)
LEMMA OrderWithoutWaiters ==
    ASSUME NEW S, NEW s \in Seq(S), NEW t \in Seq(S)
    PROVE  /\ s \o <<>> = s
           /\ Distinct(s \o t) => Distinct(s)
           /\ S \subseteq Nat /\ Increasing(s \o t) => Increasing(s)
  <1>1. ASSUME NEW i \in 1..Len(s) PROVE i \in 1..Len(s \o t) /\ (s \o t)[i] = s[i]
    BY ConcatProperties
  <1>2. Distinct(s \o t) => Distinct(s)
    BY <1>1, ConcatProperties DEF Distinct
  <1>3. ASSUME S \subseteq Nat, Increasing(s \o t), NEW i \in DOMAIN s, NEW j \in DOMAIN s, i < j
        PROVE  s[i] < s[j]
    <2>1. i \in 1..Len(s) /\ j \in 1..Len(s)
      BY <1>3, LenProperties
    <2>2. i \in DOMAIN (s \o t) /\ j \in DOMAIN (s \o t)
      BY <1>1, <2>1, ConcatProperties, LenProperties
    <2>3. (s \o t)[i] < (s \o t)[j]
      BY <1>3, <2>2 DEF Increasing
    <2>4. QED
      BY <1>1, <2>1, <2>3
  <1>4. QED
    BY <1>2, <1>3, ConcatEmptySeq DEF Increasing

(* Those that wait are in order too.                                        *)
LEMMA OrderOfWaiters ==
    ASSUME NEW S, NEW s \in Seq(S), NEW t \in Seq(S)
    PROVE  /\ Distinct(s \o t) => Distinct(t)
           /\ S \subseteq Nat /\ Increasing(s \o t) => Distinct(t)
  <1>1. ASSUME NEW i \in 1..Len(t) PROVE Len(s) + i \in DOMAIN (s \o t) /\ (s \o t)[Len(s) + i] = t[i]
    BY ConcatProperties, LenProperties
  <1>2. DOMAIN t = 1..Len(t) /\ Len(s) \in Nat /\ Len(t) \in Nat
    BY LenProperties
  <1>3. Distinct(s \o t) => Distinct(t)
    <2>1. ASSUME Distinct(s \o t), NEW i \in 1..Len(t), NEW j \in 1..Len(t), i # j
          PROVE  t[i] # t[j]
      <3>1. Len(s) + i # Len(s) + j
        BY <1>2, <2>1
      <3>2. QED
        BY <1>1, <2>1, <3>1 DEF Distinct
    <2>2. QED
      BY <1>2, <2>1 DEF Distinct
  <1>4. S \subseteq Nat /\ Increasing(s \o t) => Distinct(t)
    <2>1. ASSUME S \subseteq Nat, Increasing(s \o t), NEW i \in 1..Len(t), NEW j \in 1..Len(t), i < j
          PROVE  t[i] < t[j]
      <3>1. Len(s) + i < Len(s) + j
        BY <1>2, <2>1
      <3>2. QED
        BY <1>1, <2>1, <3>1 DEF Increasing
    <2>2. ASSUME S \subseteq Nat, Increasing(s \o t), NEW i \in 1..Len(t), NEW j \in 1..Len(t), i # j
          PROVE  t[i] # t[j]
      <3>1. t[i] \in Nat /\ t[j] \in Nat
        BY <2>2, ElementOfSeq
      <3>2. i < j \/ j < i
        BY <2>2
      <3>3. QED
        BY <2>1, <2>2, <3>1, <3>2
    <2>3. QED
      BY <1>2, <2>2 DEF Distinct
  <1>5. QED
    BY <1>3, <1>4

(* One that is not there yet joins at the end.                              *)
LEMMA OrderWithNewcomer ==
    ASSUME NEW S, NEW s \in Seq(S), NEW x \in S
    PROVE  /\ x \notin Elements(s) /\ Distinct(s) => Distinct(Append(s, x))
           /\ S \subseteq Nat /\ Increasing(s) /\ (\A y \in Elements(s) : y < x)
                => Increasing(Append(s, x))
  BY DEF Distinct, Increasing, Elements

-----------------------------------------------------------------------------
(* The end of an invocation.                                               *)

LEMMA NamesOfErrors ==
    /\ NoError \notin TerminalErrors
    /\ \A e \in TerminalErrors \cup FlowErrors :
         e \notin {"idle", "validating", "parked", "accepted", "unused", "first", "second", "value",
                 "done"}
  BY HandleAssumption DEF NoError, TerminalErrors, AbortErrors, FlowErrors

(* What is rejected was parked, and what was accepted stays accepted.       *)
LEMMA Rejected ==
    ASSUME NEW S, NEW O, NEW f \in [S -> Statuses(O)], NEW e \in TerminalErrors \cup FlowErrors
    PROVE  /\ RejectParked(f, e) \in [S -> Statuses(O)]
           /\ \A k \in S : /\ RejectParked(f, e)[k] # "parked"
                           /\ RejectParked(f, e)[k] = "accepted" <=> f[k] = "accepted"
                           /\ RejectParked(f, e)[k] = "idle" <=> f[k] = "idle"
  BY NamesOfErrors DEF RejectParked, Statuses

(* The session and the outputs when the invocation ends.                    *)
LEMMA TerminateOutputs ==
    ASSUME HandleInv, state = "open",
           NEW st \in {"closed", "errored"}, NEW error, NEW pe \in TerminalErrors \cup FlowErrors,
           error \in TerminalErrors \cup {NoError}, st = "errored" => error # NoError,
           Terminate(st, error, pe)
    PROVE  SessionOK' /\ OutputOK'
  <1> USE DEF HandleInv
  <1>1. SessionOK'
    BY DEF SessionOK, Terminate, SettledHeader
  <1>2. /\ emit' \in [Emits -> Statuses({})]
        /\ \A n \in Emits : /\ emit'[n] # "parked"
                            /\ emit'[n] = "accepted" <=> emit[n] = "accepted"
                            /\ emit'[n] = "idle" <=> emit[n] = "idle"
    BY Rejected DEF OutputOK, Terminate
  <1>3. Increasing(received \o outQ) /\ received \o outQ \o <<>> = received \o outQ
    <2>1. received \o outQ \in Seq(Emits) /\ parkedEmits \in Seq(Emits) /\ Emits \subseteq Nat
      BY ConcatProperties DEF OutputOK, Emits
    <2>2. QED
      BY <2>1, OrderWithoutWaiters DEF OutputOK
  <1>4. Elements(<<>>) = {}
    BY DEF Elements
  <1>5. QED
    BY <1>1, <1>2, <1>3, <1>4 DEF OutputOK, Terminate

LEMMA TerminateInputs ==
    ASSUME HandleInv, NEW st \in {"closed", "errored"}, NEW error, NEW pe,
           st = "errored" => error \in TerminalErrors,
           Terminate(st, error, pe),
           write' \in [Writes -> Statuses({"validating"})],
           \A m \in Writes : write'[m] # "parked" /\ (write'[m] = "accepted" <=> write[m] = "accepted")
    PROVE  InputOK'
  <1>1. Distinct(pulled \o inBuf) /\ pulled \o inBuf \o <<>> = pulled \o inBuf
    BY OrderWithoutWaiters, ConcatProperties DEF HandleInv, InputOK
  <1>2. Elements(<<>>) = {}
    BY DEF Elements
  <1>3. {m \in Writes : write'[m] = "accepted"} = {m \in Writes : write[m] = "accepted"}
    OBVIOUS
  <1>4. {m \in Writes : write'[m] = "parked"} = {}
    OBVIOUS
  <1>5. readEnd' \in {"none", "value", "done"} \cup TerminalErrors
    BY DEF HandleInv, InputOK, Terminate
  <1>6. /\ inBuf' = inBuf /\ pulled' = pulled /\ parkedWrites' = <<>>
        /\ readParked' = FALSE /\ inClosed' = TRUE
    BY DEF Terminate
  <1>7. Distinct(pulled' \o inBuf' \o parkedWrites')
    BY <1>1, <1>6 DEF HandleInv, InputOK
  <1>8. Elements(pulled' \o inBuf') = {m \in Writes : write'[m] = "accepted"}
    BY <1>3, <1>6 DEF HandleInv, InputOK
  <1>9. Elements(parkedWrites') = {m \in Writes : write'[m] = "parked"}
    BY <1>2, <1>4, <1>6
  <1>10. /\ inBuf' \in Seq(Writes) /\ parkedWrites' \in Seq(Writes) /\ pulled' \in Seq(Writes)
         /\ Len(inBuf') <= InCapacity
    BY <1>6 DEF HandleInv, InputOK
  <1>11. QED
    BY <1>5, <1>6, <1>7, <1>8, <1>9, <1>10 DEF InputOK

LEMMA TerminateSingle ==
    ASSUME HandleInv, state = "open", NEW st \in {"closed", "errored"}, NEW error, NEW pe,
           Terminate(st, error, pe),
           single' = single \/ (claimed /\ single' = "ERR_EXPECTED_SINGLE")
    PROVE  SingleOK'
  <1>1. single' # "value"
    BY DEF HandleInv, SingleOK
  <1>2. QED
    BY <1>1 DEF HandleInv, SingleOK, OutputOK, Terminate, Reading

LEMMA FailureKeeps ==
    ASSUME HandleInv, state = "open", NEW error \in TerminalErrors,
           Terminate("errored", error, error), write' = RejectParked(write, error),
           single' = single \/ (claimed /\ single' = "ERR_EXPECTED_SINGLE")
    PROVE  HandleInv'
  <1>1. /\ write' \in [Writes -> Statuses({"validating"})]
        /\ \A m \in Writes : write'[m] # "parked" /\ (write'[m] = "accepted" <=> write[m] = "accepted")
    BY Rejected DEF HandleInv, InputOK
  <1>2. SessionOK' /\ OutputOK'
    BY TerminateOutputs, NamesOfErrors
  <1>3. InputOK'
    BY <1>1, TerminateInputs
  <1>4. SingleOK'
    BY TerminateSingle
  <1>5. QED
    BY <1>2, <1>3, <1>4 DEF HandleInv

LEMMA FireErrorKeeps ==
    ASSUME HandleInv, NEW error \in TerminalErrors, FireError(error)
    PROVE  HandleInv'
  <1>1. CASE state = "open"
    <2>1. Terminate("errored", error, error) /\ write' = RejectParked(write, error) /\ single' = single
      BY <1>1 DEF FireError, Fail
    <2>2. single' = single \/ (claimed /\ single' = "ERR_EXPECTED_SINGLE")
      BY <2>1
    <2>3. QED
      BY <1>1, <2>1, <2>2, FailureKeeps
  <1>2. CASE state # "open"
    BY <1>2 DEF FireError, handleVars, session, inputSide, outputSide, HandleInv, SessionOK, InputOK,
                OutputOK, SingleOK, Reading
  <1>3. QED
    BY <1>1, <1>2

LEMMA CloseOutputKeeps ==
    ASSUME HandleInv, CloseOutput
    PROVE  HandleInv'
  <1>1. CASE state = "open"
    <2>1. /\ Terminate("closed", NoError, "ERR_INVOCATION_CLOSED")
          /\ write' = RejectParked(write, "ERR_INVOCATION_CLOSED") /\ single' = single
      BY <1>1 DEF CloseOutput
    <2>2. /\ write' \in [Writes -> Statuses({"validating"})]
          /\ \A m \in Writes : write'[m] # "parked" /\ (write'[m] = "accepted" <=> write[m] = "accepted")
      BY <2>1, Rejected DEF HandleInv, InputOK, FlowErrors
    <2>3. SessionOK' /\ OutputOK'
      BY <1>1, <2>1, TerminateOutputs DEF FlowErrors
    <2>4. InputOK'
      BY <2>1, <2>2, TerminateInputs
    <2>5. SingleOK'
      <3>1. single' = single \/ (claimed /\ single' = "ERR_EXPECTED_SINGLE")
        BY <2>1
      <3>2. QED
        BY <1>1, <2>1, <3>1, TerminateSingle
    <2>6. QED
      BY <2>3, <2>4, <2>5 DEF HandleInv
  <1>2. CASE state # "open"
    BY <1>2 DEF CloseOutput, handleVars, session, inputSide, outputSide, HandleInv, SessionOK, InputOK,
                OutputOK, SingleOK, Reading
  <1>3. QED
    BY <1>1, <1>2

-----------------------------------------------------------------------------
(* The sides a step does not touch.                                        *)

LEMMA SameInputs == InputOK /\ UNCHANGED inputSide => InputOK'
  BY DEF InputOK, inputSide

LEMMA SameOutputs ==
    OutputOK /\ SingleOK /\ UNCHANGED <<outputSide, state>> => OutputOK' /\ SingleOK'
  BY DEF OutputOK, SingleOK, Reading, outputSide

LEMMA SameSession == SessionOK /\ UNCHANGED <<session, inClosed>> => SessionOK'
  BY DEF SessionOK, session

-----------------------------------------------------------------------------
(* The inputs.                                                             *)

(* A write is neither queued nor waiting before it is accepted or parked.   *)
LEMMA NotYetQueued ==
    ASSUME InputOK, NEW m \in Writes, write[m] \notin {"accepted", "parked"}
    PROVE  m \notin Elements(pulled \o inBuf \o parkedWrites)
  <1>1. m \notin Elements(pulled \o inBuf) /\ m \notin Elements(parkedWrites)
    BY DEF InputOK
  <1>2. pulled \o inBuf \in Seq(Writes) /\ parkedWrites \in Seq(Writes)
    BY ConcatProperties DEF InputOK
  <1>3. Elements(pulled \o inBuf \o parkedWrites) = Elements(pulled \o inBuf) \cup Elements(parkedWrites)
    BY <1>2, ElementsOfConcat, ZenonT(30)
  <1>4. QED
    BY <1>1, <1>3

(* A write that is refused, or handed to the hook, changes no queue.        *)
LEMMA WriteStatusKeeps ==
    ASSUME InputOK, NEW m \in Writes, write[m] \notin {"accepted", "parked"},
           NEW v \in Statuses({"validating"}) \ {"accepted", "parked"},
           write' = [write EXCEPT ![m] = v],
           UNCHANGED <<inBuf, inClosed, readParked, parkedWrites, pulled, readEnd>>
    PROVE  InputOK'
  <1>1. write' \in [Writes -> Statuses({"validating"})]
    BY DEF InputOK
  <1>2. /\ {k \in Writes : write'[k] = "accepted"} = {k \in Writes : write[k] = "accepted"}
        /\ {k \in Writes : write'[k] = "parked"} = {k \in Writes : write[k] = "parked"}
    BY DEF InputOK
  <1>3. QED
    BY <1>1, <1>2 DEF InputOK

LEMMA EnqueueKeeps ==
    ASSUME InputOK, ~inClosed, NEW m \in Writes, write[m] \notin {"accepted", "parked"},
           Enqueue(m), UNCHANGED inClosed
    PROVE  InputOK'
  <1> DEFINE all == pulled \o inBuf \o parkedWrites
  <1>1. /\ all \in Seq(Writes) /\ Distinct(all) /\ m \notin Elements(all)
        /\ inBuf \in Seq(Writes) /\ pulled \in Seq(Writes) /\ parkedWrites \in Seq(Writes)
        /\ pulled \o inBuf \in Seq(Writes)
    BY NotYetQueued, ConcatProperties DEF InputOK
  <1>2. Distinct(Append(all, m)) /\ Append(all, m) \in Seq(Writes)
    BY <1>1, OrderWithNewcomer, AppendProperties
  <1>3. Len(inBuf) \in Nat /\ InCapacity \in Nat \ {0} /\ Len(<<>>) = 0 /\ <<>> \in Seq(Writes)
    BY <1>1, HandleAssumption, LenProperties, EmptySeq
  <1>4. Elements(<<>>) = {}
    BY DEF Elements
  <1>5. CASE readParked
    <2>1. inBuf = <<>> /\ parkedWrites = <<>>
      BY <1>3, <1>5 DEF InputOK
    <2>2. /\ readParked' = FALSE /\ readEnd' = "value" /\ pulled' = Append(pulled, m)
          /\ write' = [write EXCEPT ![m] = "accepted"]
          /\ inBuf' = <<>> /\ parkedWrites' = <<>>
      BY <1>5, <2>1 DEF Enqueue
    <2>3. /\ pulled' \o inBuf' = Append(pulled, m) /\ pulled' \o inBuf' \o parkedWrites' = Append(all, m)
          /\ pulled \o inBuf = pulled /\ pulled' \in Seq(Writes)
      BY <1>1, <2>1, <2>2, ConcatEmptySeq, AppendProperties
    <2>4. Elements(pulled' \o inBuf') = Elements(pulled \o inBuf) \cup {m}
      BY <1>1, <2>3, ElementsOfAppend
    <2>5. /\ write' \in [Writes -> Statuses({"validating"})]
          /\ {k \in Writes : write'[k] = "accepted"} = {k \in Writes : write[k] = "accepted"} \cup {m}
          /\ {k \in Writes : write'[k] = "parked"} = {k \in Writes : write[k] = "parked"}
      BY <2>2 DEF InputOK, Statuses
    <2>6. QED
      BY <1>2, <1>3, <1>4, <2>1, <2>2, <2>3, <2>4, <2>5 DEF InputOK
  <1>6. CASE ~readParked /\ Len(inBuf) < InCapacity
    <2>1. parkedWrites = <<>>
      BY <1>3, <1>6 DEF InputOK
    <2>2. /\ inBuf' = Append(inBuf, m) /\ write' = [write EXCEPT ![m] = "accepted"]
          /\ UNCHANGED <<readParked, readEnd, pulled>> /\ parkedWrites' = <<>>
      BY <1>3, <1>6, <2>1 DEF Enqueue
    <2>3. /\ pulled' \o inBuf' = Append(pulled \o inBuf, m)
          /\ pulled' \o inBuf' \o parkedWrites' = Append(all, m)
          /\ inBuf' \in Seq(Writes) /\ Len(inBuf') = Len(inBuf) + 1
      BY <1>1, <2>1, <2>2, ConcatEmptySeq, AppendProperties, AppendToQueue
    <2>4. Elements(pulled' \o inBuf') = Elements(pulled \o inBuf) \cup {m}
      <3>1. Elements(Append(pulled \o inBuf, m)) = Elements(pulled \o inBuf) \cup {m}
        BY <1>1, ElementsOfAppend
      <3>2. QED
        BY <2>3, <3>1
    <2>5. /\ write' \in [Writes -> Statuses({"validating"})]
          /\ {k \in Writes : write'[k] = "accepted"} = {k \in Writes : write[k] = "accepted"} \cup {m}
          /\ {k \in Writes : write'[k] = "parked"} = {k \in Writes : write[k] = "parked"}
      BY <2>2 DEF InputOK, Statuses
    <2>6. Len(inBuf') <= InCapacity
      BY <1>3, <1>6, <2>3
    <2>7. QED
      BY <1>2, <1>4, <1>6, <2>1, <2>2, <2>3, <2>4, <2>5, <2>6 DEF InputOK
  <1>7. CASE ~readParked /\ Len(inBuf) >= InCapacity
    <2>1. /\ parkedWrites' = Append(parkedWrites, m) /\ write' = [write EXCEPT ![m] = "parked"]
          /\ UNCHANGED <<inBuf, readParked, readEnd, pulled>>
      BY <1>3, <1>7 DEF Enqueue
    <2>2. /\ pulled' \o inBuf' \o parkedWrites' = Append(all, m)
          /\ parkedWrites' \in Seq(Writes)
      BY <1>1, <2>1, AppendProperties, AppendToQueue
    <2>3. Elements(parkedWrites') = Elements(parkedWrites) \cup {m}
      BY <1>1, <2>1, ElementsOfAppend
    <2>4. /\ write' \in [Writes -> Statuses({"validating"})]
          /\ {k \in Writes : write'[k] = "accepted"} = {k \in Writes : write[k] = "accepted"}
          /\ {k \in Writes : write'[k] = "parked"} = {k \in Writes : write[k] = "parked"} \cup {m}
      BY <2>1 DEF InputOK, Statuses
    <2>5. Len(inBuf) = InCapacity
      BY <1>3, <1>7 DEF InputOK
    <2>6. QED
      BY <1>2, <1>7, <2>1, <2>2, <2>3, <2>4, <2>5 DEF InputOK
  <1>8. QED
    BY <1>3, <1>5, <1>6, <1>7

(* A pull hands out the oldest input and admits the write that waits        *)
(* longest.                                                                 *)
LEMMA BindingReadKeeps ==
    ASSUME SessionOK, InputOK, BindingRead
    PROVE  InputOK'
  <1> DEFINE all == pulled \o inBuf \o parkedWrites
  <1>1. /\ inBuf \in Seq(Writes) /\ pulled \in Seq(Writes) /\ parkedWrites \in Seq(Writes)
        /\ pulled \o inBuf \in Seq(Writes) /\ Distinct(all)
        /\ inClosed' = inClosed
    BY ConcatProperties DEF InputOK, BindingRead
  <1>2. CASE state # "errored" /\ inBuf # <<>> /\ parkedWrites = <<>>
    <2>1. /\ readEnd' = "value" /\ pulled' = Append(pulled, Head(inBuf)) /\ inBuf' = Tail(inBuf)
          /\ UNCHANGED <<parkedWrites, write, readParked>>
      BY <1>2 DEF BindingRead
    <2>2. /\ Tail(inBuf) \in Seq(Writes) /\ Len(Tail(inBuf)) = Len(inBuf) - 1 /\ Head(inBuf) \in Writes
          /\ Len(inBuf) \in Nat /\ InCapacity \in Nat
      BY <1>1, <1>2, HeadTailProperties, LenProperties, HandleAssumption
    <2>3. pulled' \o inBuf' = pulled \o inBuf /\ pulled' \in Seq(Writes)
      BY <1>1, <1>2, <2>1, <2>2, HeadMovesOver, AppendProperties
    <2>4. ~readParked
      BY <1>2 DEF InputOK
    <2>5. Len(inBuf') <= InCapacity
      <3>1. Len(inBuf) <= InCapacity
        BY DEF InputOK
      <3>2. QED
        BY <2>1, <2>2, <3>1
    <2>6. QED
      BY <1>1, <1>2, <2>1, <2>2, <2>3, <2>4, <2>5 DEF InputOK
  <1>3. CASE state # "errored" /\ inBuf # <<>> /\ parkedWrites # <<>>
    <2>0. PICK next \in Writes : next = Head(parkedWrites)
      BY <1>1, <1>3, HeadTailProperties
    <2>1. /\ readEnd' = "value" /\ pulled' = Append(pulled, Head(inBuf))
          /\ inBuf' = Append(Tail(inBuf), next) /\ parkedWrites' = Tail(parkedWrites)
          /\ write' = [write EXCEPT ![next] = "accepted"] /\ readParked' = readParked
      BY <1>3, <2>0 DEF BindingRead
    <2>2. /\ Tail(inBuf) \in Seq(Writes) /\ Len(Tail(inBuf)) = Len(inBuf) - 1 /\ Head(inBuf) \in Writes
          /\ Tail(parkedWrites) \in Seq(Writes)
          /\ Len(inBuf) \in Nat /\ InCapacity \in Nat
      BY <1>1, <1>3, HeadTailProperties, LenProperties, HandleAssumption
    <2>3. /\ inBuf' \in Seq(Writes) /\ Len(inBuf') = Len(inBuf) /\ pulled' \in Seq(Writes)
      BY <1>1, <2>1, <2>2, AppendProperties
    <2>4. /\ pulled' \o inBuf' = Append(pulled \o inBuf, next)
          /\ pulled' \o inBuf' \o parkedWrites' = all
      <3>1. Append(pulled, Head(inBuf)) \o Append(Tail(inBuf), next) = Append(pulled \o inBuf, next)
        BY <1>1, <1>3, <2>0, HeadAdmitsWaiter
      <3>2. Append(pulled \o inBuf, next) \o Tail(parkedWrites) = all
        BY <1>1, <1>3, <2>0, HeadMovesOver
      <3>3. QED
        BY <2>1, <3>1, <3>2
    <2>5. Elements(pulled' \o inBuf') = Elements(pulled \o inBuf) \cup {next}
      <3>1. Elements(Append(pulled \o inBuf, next)) = Elements(pulled \o inBuf) \cup {next}
        <4>1. \A s \in Seq(Writes) : Elements(Append(s, next)) = Elements(s) \cup {next}
          BY <2>0, ElementsOfAppend
        <4>2. QED
          BY <1>1, <4>1
      <3>2. QED
        BY <2>4, <3>1
    <2>6. next \in Elements(parkedWrites) /\ Elements(parkedWrites') = Elements(parkedWrites) \ {next}
      BY <1>1, <1>3, <2>0, <2>1, OrderOfWaiters, ElementsOfTail
    <2>7. /\ write' \in [Writes -> Statuses({"validating"})]
          /\ {k \in Writes : write'[k] = "accepted"} = {k \in Writes : write[k] = "accepted"} \cup {next}
          /\ {k \in Writes : write'[k] = "parked"} = {k \in Writes : write[k] = "parked"} \ {next}
      BY <2>1, <2>2 DEF InputOK, Statuses
    <2>8. ~readParked /\ ~inClosed /\ Len(inBuf) = InCapacity
      BY <1>3 DEF InputOK
    <2>9. QED
      BY <1>1, <2>1, <2>2, <2>3, <2>4, <2>5, <2>6, <2>7, <2>8 DEF InputOK
  <1>4. CASE state = "errored" \/ inBuf = <<>>
    <2>1. /\ readEnd' \in {"none", "value", "done"} \cup TerminalErrors
          /\ UNCHANGED <<inBuf, parkedWrites, write, pulled>>
          /\ readParked' \in BOOLEAN
          /\ readParked' => inBuf = <<>> /\ ~inClosed
      <3>1. /\ state = "errored" => terminal \in TerminalErrors
            /\ readEnd \in {"none", "value", "done"} \cup TerminalErrors
            /\ readParked \in BOOLEAN /\ inClosed \in BOOLEAN /\ (readParked => inBuf = <<>> /\ ~inClosed)
        BY DEF SessionOK, InputOK
      <3>2. CASE state = "errored"
        BY <1>4, <3>1, <3>2 DEF BindingRead
      <3>3. CASE state # "errored" /\ inBuf = <<>> /\ inClosed
        BY <1>4, <3>1, <3>3 DEF BindingRead
      <3>4. CASE state # "errored" /\ inBuf = <<>> /\ ~inClosed
        BY <1>4, <3>1, <3>4 DEF BindingRead
      <3>5. QED
        BY <1>4, <3>2, <3>3, <3>4
    <2>2. QED
      BY <1>1, <2>1 DEF InputOK
  <1>5. QED
    BY <1>2, <1>3, <1>4

LEMMA CloseKeeps ==
    ASSUME HandleInv, Close
    PROVE  HandleInv'
  <1>1. /\ write' \in [Writes -> Statuses({"validating"})]
        /\ \A m \in Writes : write'[m] # "parked" /\ (write'[m] = "accepted" <=> write[m] = "accepted")
    BY Rejected DEF Close, HandleInv, InputOK, FlowErrors
  <1>2. Distinct(pulled \o inBuf) /\ pulled \o inBuf \o <<>> = pulled \o inBuf
    BY OrderWithoutWaiters, ConcatProperties DEF HandleInv, InputOK
  <1>3. /\ inBuf' = inBuf /\ pulled' = pulled /\ parkedWrites' = <<>> /\ readParked' = FALSE /\ inClosed' = TRUE
        /\ readEnd' \in {"none", "value", "done"} \cup TerminalErrors
    BY DEF Close, HandleInv, InputOK
  <1>4. /\ {m \in Writes : write'[m] = "accepted"} = {m \in Writes : write[m] = "accepted"}
        /\ {m \in Writes : write'[m] = "parked"} = {}
    BY <1>1
  <1>5. /\ pulled' \o inBuf' \o parkedWrites' = pulled \o inBuf
        /\ pulled' \o inBuf' = pulled \o inBuf
        /\ <<>> \in Seq(Writes)
    BY <1>2, <1>3
  <1>6. InputOK'
    BY <1>1, <1>2, <1>3, <1>4, <1>5, ElementsOfNothing DEF HandleInv, InputOK
  <1>7. SessionOK'
    BY <1>3 DEF Close, HandleInv, SessionOK, session
  <1>8. QED
    BY <1>6, <1>7, SameOutputs DEF Close, HandleInv, session

LEMMA WriteKeeps ==
    ASSUME HandleInv, NEW m \in Writes, Write(m) \/ Validated(m)
    PROVE  HandleInv'
  <1>1. UNCHANGED <<session, outputSide, inClosed>> /\ write[m] \in {"idle", "validating"}
    BY DEF Write, Validated
  <1>2. WriteRefusal \in Statuses({"validating"}) \ {"accepted", "parked"}
    <2>1. WriteRefusal \in TerminalErrors \cup FlowErrors
      BY DEF HandleInv, SessionOK, WriteRefusal, Ended, FlowErrors
    <2>2. QED
      BY <2>1, NamesOfErrors DEF Statuses
  <1>3. CASE RefuseWrite(m)
    <2>1. /\ write' = [write EXCEPT ![m] = WriteRefusal]
          /\ UNCHANGED <<inBuf, inClosed, readParked, parkedWrites, pulled, readEnd>>
      BY <1>1, <1>3 DEF RefuseWrite
    <2>2. QED
      BY <1>1, <1>2, <2>1, WriteStatusKeeps, SameSession, SameOutputs DEF HandleInv, session
  <1>4. CASE ~inClosed /\ Enqueue(m)
    BY <1>1, <1>4, EnqueueKeeps, SameSession, SameOutputs DEF HandleInv, session
  <1>5. CASE /\ write' = [write EXCEPT ![m] = "validating"]
             /\ UNCHANGED <<inBuf, inClosed, readParked, parkedWrites, pulled, readEnd>>
    <2>1. "validating" \in Statuses({"validating"}) \ {"accepted", "parked"}
      BY DEF Statuses
    <2>2. QED
      BY <1>1, <1>5, <2>1, WriteStatusKeeps, SameSession, SameOutputs DEF HandleInv, session
  <1>6. QED
    BY <1>3, <1>4, <1>5 DEF Write, Validated, Unwritable

(* A hook that objects ends an open invocation and rejects its own write.   *)
LEMMA InvalidKeeps ==
    ASSUME HandleInv, NEW m \in Writes, Invalid(m)
    PROVE  HandleInv'
  <1> DEFINE w == [write EXCEPT ![m] = "ERR_VALIDATION"]
  <1>1. write[m] = "validating" /\ "ERR_VALIDATION" \in TerminalErrors
    BY DEF Invalid, TerminalErrors
  <1>2. "ERR_VALIDATION" \in Statuses({"validating"}) \ {"accepted", "parked"}
    BY <1>1, NamesOfErrors DEF Statuses
  <1>3. CASE state = "open"
    <2>1. /\ Terminate("errored", "ERR_VALIDATION", "ERR_VALIDATION")
          /\ write' = RejectParked(w, "ERR_VALIDATION") /\ single' = single
      BY <1>3 DEF Invalid, Fail
    <2>2. /\ w \in [Writes -> Statuses({"validating"})]
          /\ \A k \in Writes : w[k] = "accepted" <=> write[k] = "accepted"
      BY <1>1, <1>2 DEF HandleInv, InputOK
    <2>3. /\ write' \in [Writes -> Statuses({"validating"})]
          /\ \A k \in Writes : write'[k] # "parked" /\ (write'[k] = "accepted" <=> write[k] = "accepted")
      <3>1. /\ RejectParked(w, "ERR_VALIDATION") \in [Writes -> Statuses({"validating"})]
            /\ \A k \in Writes : /\ RejectParked(w, "ERR_VALIDATION")[k] # "parked"
                                 /\ RejectParked(w, "ERR_VALIDATION")[k] = "accepted" <=> w[k] = "accepted"
        BY <1>1, <2>2, Rejected, ZenonT(30)
      <3>2. QED
        BY <2>1, <2>2, <3>1
    <2>4. SessionOK' /\ OutputOK'
      BY <1>1, <1>3, <2>1, TerminateOutputs, NamesOfErrors
    <2>5. InputOK'
      BY <1>1, <2>1, <2>3, TerminateInputs
    <2>6. SingleOK'
      BY <1>3, <2>1, TerminateSingle
    <2>7. QED
      BY <2>4, <2>5, <2>6 DEF HandleInv
  <1>4. CASE state # "open"
    <2>1. /\ write' = w
          /\ UNCHANGED <<inBuf, inClosed, readParked, parkedWrites, pulled, readEnd, session, outputSide>>
      BY <1>4 DEF Invalid
    <2>2. QED
      BY <1>1, <1>2, <2>1, WriteStatusKeeps, SameSession, SameOutputs DEF HandleInv, session
  <1>5. QED
    BY <1>3, <1>4

-----------------------------------------------------------------------------
(* The outputs.                                                            *)

(* A read drains the queue in order, admits the emit that waits longest,    *)
(* and sees the end only of an empty queue.                                 *)
LEMMA ReadNextKeeps ==
    ASSUME SessionOK, OutputOK, ReadNext, UNCHANGED <<claimed, state>>
    PROVE  OutputOK'
  <1> DEFINE all == received \o outQ \o parkedEmits
  <1>1. /\ outQ \in Seq(Emits) /\ received \in Seq(Emits) /\ parkedEmits \in Seq(Emits)
        /\ received \o outQ \in Seq(Emits) /\ Increasing(all)
        /\ state' = state /\ claimed' = claimed
    BY ConcatProperties DEF OutputOK
  <1>2. CASE outQ # <<>> /\ parkedEmits = <<>>
    <2>1. /\ received' = Append(received, Head(outQ)) /\ outQ' = Tail(outQ)
          /\ UNCHANGED <<parkedEmits, emit, parkedReads, outEnd>>
      BY <1>2 DEF ReadNext
    <2>2. /\ Tail(outQ) \in Seq(Emits) /\ Len(Tail(outQ)) = Len(outQ) - 1 /\ Head(outQ) \in Emits
          /\ Len(outQ) \in Nat /\ OutCapacity \in Nat
      BY <1>1, <1>2, HeadTailProperties, LenProperties, HandleAssumption
    <2>3. received' \o outQ' = received \o outQ /\ received' \in Seq(Emits)
      BY <1>1, <1>2, <2>1, <2>2, HeadMovesOver, AppendProperties
    <2>4. ~(parkedReads > 0) /\ outEnd = "none"
      BY <1>2 DEF OutputOK
    <2>5. Len(outQ') <= OutCapacity
      <3>1. Len(outQ) <= OutCapacity
        BY DEF OutputOK
      <3>2. QED
        BY <2>1, <2>2, <3>1
    <2>6. QED
      BY <1>1, <1>2, <2>1, <2>2, <2>3, <2>4, <2>5 DEF OutputOK
  <1>3. CASE outQ # <<>> /\ parkedEmits # <<>>
    <2>0. PICK next \in Emits : next = Head(parkedEmits)
      BY <1>1, <1>3, HeadTailProperties
    <2>1. /\ received' = Append(received, Head(outQ)) /\ outQ' = Append(Tail(outQ), next)
          /\ parkedEmits' = Tail(parkedEmits) /\ emit' = [emit EXCEPT ![next] = "accepted"]
          /\ UNCHANGED <<parkedReads, outEnd>>
      BY <1>3, <2>0 DEF ReadNext
    <2>2. /\ Tail(outQ) \in Seq(Emits) /\ Len(Tail(outQ)) = Len(outQ) - 1 /\ Head(outQ) \in Emits
          /\ Tail(parkedEmits) \in Seq(Emits)
          /\ Len(outQ) \in Nat /\ OutCapacity \in Nat
      BY <1>1, <1>3, HeadTailProperties, LenProperties, HandleAssumption
    <2>3. outQ' \in Seq(Emits) /\ Len(outQ') = Len(outQ) /\ received' \in Seq(Emits)
      BY <1>1, <2>0, <2>1, <2>2, AppendProperties
    <2>4. /\ received' \o outQ' = Append(received \o outQ, next)
          /\ received' \o outQ' \o parkedEmits' = all
      <3>1. Append(received, Head(outQ)) \o Append(Tail(outQ), next) = Append(received \o outQ, next)
        BY <1>1, <1>3, <2>0, HeadAdmitsWaiter
      <3>2. Append(received \o outQ, next) \o Tail(parkedEmits) = all
        BY <1>1, <1>3, <2>0, HeadMovesOver
      <3>3. QED
        BY <2>1, <3>1, <3>2
    <2>5. Elements(received' \o outQ') = Elements(received \o outQ) \cup {next}
      <3>1. \A s \in Seq(Emits) : Elements(Append(s, next)) = Elements(s) \cup {next}
        BY <2>0, ElementsOfAppend
      <3>2. QED
        BY <1>1, <2>4, <3>1
    <2>6. next \in Elements(parkedEmits) /\ Elements(parkedEmits') = Elements(parkedEmits) \ {next}
      <3>1. Distinct(parkedEmits)
        <4>1. Emits \subseteq Nat
          BY DEF Emits
        <4>2. QED
          BY <1>1, <4>1, OrderOfWaiters
      <3>2. QED
        BY <1>1, <1>3, <2>0, <2>1, <3>1, ElementsOfTail
    <2>7. /\ emit' \in [Emits -> Statuses({})]
          /\ {k \in Emits : emit'[k] = "accepted"} = {k \in Emits : emit[k] = "accepted"} \cup {next}
          /\ {k \in Emits : emit'[k] = "parked"} = {k \in Emits : emit[k] = "parked"} \ {next}
      BY <2>0, <2>1 DEF OutputOK, Statuses
    <2>8. emit[next] # "idle" /\ \A k \in Emits : emit'[k] = "idle" <=> emit[k] = "idle"
      BY <2>0, <2>1, <2>6 DEF OutputOK
    <2>9. ~(parkedReads > 0) /\ outEnd = "none" /\ Len(outQ) = OutCapacity /\ state = "open"
      BY <1>3 DEF OutputOK
    <2>10. QED
      BY <1>1, <2>1, <2>2, <2>3, <2>4, <2>5, <2>6, <2>7, <2>8, <2>9 DEF OutputOK
  <1>4. CASE outQ = <<>> /\ state # "open"
    BY <1>1, <1>4 DEF ReadNext, OutputOK, SessionOK
  <1>5. CASE outQ = <<>> /\ state = "open"
    BY <1>1, <1>5 DEF ReadNext, OutputOK
  <1>6. QED
    BY <1>2, <1>3, <1>4, <1>5

LEMMA PullKeeps ==
    ASSUME HandleInv, Pull
    PROVE  HandleInv'
  <1>1. /\ ReadNext /\ UNCHANGED <<session, inputSide, claimed, single>>
        /\ claimed /\ single = "unused"
    BY DEF Pull
  <1>2. OutputOK'
    BY <1>1, ReadNextKeeps DEF HandleInv, session
  <1>3. SessionOK' /\ InputOK'
    BY <1>1, SameSession, SameInputs DEF HandleInv, inputSide
  <1>4. SingleOK'
    BY <1>1 DEF HandleInv, SingleOK
  <1>5. QED
    BY <1>2, <1>3, <1>4 DEF HandleInv

(* What a read may do to the progress of single().                          *)
LEMMA ReadingOn ==
    ASSUME OutputOK, NEW read \in {0, 1}, ReadNext, Len(received) = read,
           outEnd = "none", parkedReads = 0
    PROVE  Reading(read)'
  <1>1. CASE outQ # <<>>
    <2>1. /\ received' = Append(received, Head(outQ)) /\ outEnd' = "none" /\ parkedReads' = 0
      BY <1>1 DEF ReadNext
    <2>2. Len(received') = Len(received) + 1
      <3>1. Head(outQ) \in Emits /\ received \in Seq(Emits)
        BY <1>1, HeadTailProperties DEF OutputOK
      <3>2. QED
        BY <2>1, <3>1, AppendProperties
    <2>3. QED
      BY <2>1, <2>2 DEF Reading
  <1>2. CASE outQ = <<>>
    BY <1>2 DEF ReadNext, Reading
  <1>3. QED
    BY <1>1, <1>2

LEMMA SingleReadKeeps ==
    ASSUME HandleInv, SingleRead
    PROVE  HandleInv'
  <1>1. /\ ReadNext /\ UNCHANGED <<session, inputSide, claimed, single>>
        /\ outEnd = "none" /\ parkedReads = 0
        /\ (single = "first" /\ Len(received) = 0) \/ (single = "second" /\ Len(received) = 1)
    <2>1. Len(<<>>) = 0
      OBVIOUS
    <2>2. QED
      BY <2>1 DEF SingleRead
  <1>2. claimed
    BY <1>1 DEF HandleInv, SingleOK
  <1>3. OutputOK'
    BY <1>1, ReadNextKeeps DEF HandleInv, session
  <1>4. SessionOK' /\ InputOK'
    BY <1>1, SameSession, SameInputs DEF HandleInv, inputSide
  <1>5. (single = "first" => Reading(0)') /\ (single = "second" => Reading(1)')
    BY <1>1, ReadingOn DEF HandleInv
  <1>6. SingleOK'
    BY <1>1, <1>2, <1>5 DEF HandleInv, SingleOK
  <1>7. QED
    BY <1>3, <1>4, <1>6 DEF HandleInv

LEMMA ClaimKeeps ==
    ASSUME HandleInv, Claim
    PROVE  HandleInv'
  <1>1. /\ received = <<>> /\ parkedReads = 0 /\ outEnd = "none" /\ Len(<<>>) = 0
        /\ claimed' = TRUE /\ single' \in {"unused", "first"}
        /\ UNCHANGED <<session, inputSide, outQ, parkedReads, parkedEmits, emit, received, outEnd>>
    BY EmptySeq DEF HandleInv, SingleOK, Claim
  <1>2. SessionOK' /\ InputOK'
    BY <1>1, SameSession, SameInputs DEF HandleInv, inputSide
  <1>3. OutputOK'
    BY <1>1 DEF HandleInv, OutputOK, session
  <1>4. SingleOK'
    BY <1>1 DEF SingleOK, Reading
  <1>5. QED
    BY <1>2, <1>3, <1>4 DEF HandleInv

LEMMA SingleFirstKeeps ==
    ASSUME HandleInv, SingleFirst
    PROVE  HandleInv'
  <1>1. /\ UNCHANGED <<session, inputSide, outQ, claimed, parkedReads, parkedEmits, emit, received, outEnd>>
        /\ single = "first" /\ parkedReads = 0
    BY DEF SingleFirst
  <1>2. claimed /\ Reading(0)
    BY <1>1 DEF HandleInv, SingleOK
  <1>3. SessionOK' /\ InputOK' /\ OutputOK'
    BY <1>1, SameSession, SameInputs DEF HandleInv, inputSide, OutputOK, session
  <1>4. received # <<>> => Len(received) = 1 /\ outEnd = "none"
    <2>1. Len(received) \in {0, 1} /\ (outEnd # "none" => Len(received) = 0)
      BY <1>2 DEF Reading
    <2>2. Len(received) = 0 <=> received = <<>>
      BY EmptySeq DEF HandleInv, OutputOK
    <2>3. QED
      BY <2>1, <2>2
  <1>5. outEnd = "errored" => terminal \in TerminalErrors
    BY DEF HandleInv, OutputOK, SessionOK
  <1>6. ASSUME received # <<>>, single' = "second"
        PROVE  SingleOK'
    BY <1>1, <1>2, <1>4, <1>6 DEF SingleOK, Reading
  <1>7. ASSUME single' \in TerminalErrors \cup {"ERR_EXPECTED_SINGLE"}
        PROVE  SingleOK'
    <2>1. single' \notin {"first", "second", "value"}
      BY <1>7, NamesOfErrors
    <2>2. QED
      BY <1>1, <1>2, <1>7, <2>1 DEF SingleOK
  <1>8. SingleOK'
    BY <1>5, <1>6, <1>7 DEF SingleFirst
  <1>9. QED
    BY <1>3, <1>8 DEF HandleInv

(* single() yields its value only once it has seen the good end behind it.  *)
LEMMA SingleSecondKeeps ==
    ASSUME HandleInv, SingleSecond
    PROVE  HandleInv'
  <1>1. single = "second" /\ parkedReads = 0 /\ claimed /\ Reading(1)
    BY DEF HandleInv, SingleOK, SingleSecond
  <1>2. CASE state = "open" /\ Fail("ERR_CANCELLED", write, "ERR_EXPECTED_SINGLE")
    BY <1>1, <1>2, FailureKeeps DEF Fail, TerminalErrors, AbortErrors
  <1>3. CASE /\ UNCHANGED <<session, inputSide, outQ, claimed, parkedReads, parkedEmits, emit, received, outEnd>>
             /\ \/ single' = "ERR_EXPECTED_SINGLE"
                \/ outEnd # "none" /\ single' = IF outEnd = "closed" THEN "value" ELSE terminal
    <2>1. SessionOK' /\ InputOK' /\ OutputOK'
      BY <1>3, SameSession, SameInputs DEF HandleInv, inputSide, OutputOK, session
    <2>2. outEnd # "none" => Len(received) = 1 /\ outEnd = state /\ outQ = <<>>
      BY <1>1 DEF Reading, HandleInv, OutputOK
    <2>3. outEnd = "errored" => terminal \in TerminalErrors
      BY DEF HandleInv, OutputOK, SessionOK
    <2>4. ASSUME outEnd = "closed", single' = "value"
          PROVE  SingleOK'
      BY <1>1, <1>3, <2>2, <2>4 DEF SingleOK, session
    <2>5. ASSUME single' \in TerminalErrors \cup {"ERR_EXPECTED_SINGLE"}
          PROVE  SingleOK'
      <3>1. single' \notin {"first", "second", "value"}
        BY <2>5, NamesOfErrors
      <3>2. QED
        BY <1>1, <1>3, <2>5, <3>1 DEF SingleOK
    <2>6. outEnd \in {"none", "closed", "errored"}
      BY DEF HandleInv, OutputOK
    <2>7. SingleOK'
      BY <1>3, <2>3, <2>4, <2>5, <2>6
    <2>8. QED
      BY <2>1, <2>7 DEF HandleInv
  <1>4. QED
    BY <1>2, <1>3 DEF SingleSecond

(* An emit goes behind everything emitted before it: only earlier calls     *)
(* have a place.                                                            *)
LEMMA EmitsComeInOrder ==
    ASSUME OutputOK, NEW n \in Emits, emit[n] = "idle"
    PROVE  \A k \in Elements(received \o outQ \o parkedEmits) : k < n
  <1>1. /\ received \o outQ \in Seq(Emits) /\ parkedEmits \in Seq(Emits)
    BY ConcatProperties DEF OutputOK
  <1>2. Elements(received \o outQ \o parkedEmits) = Elements(received \o outQ) \cup Elements(parkedEmits)
    BY <1>1, ElementsOfConcat, ZenonT(30)
  <1>3. ASSUME NEW k \in Elements(received \o outQ \o parkedEmits)
        PROVE  k < n
    <2>1. k \in Emits /\ emit[k] \in {"accepted", "parked"}
      BY <1>2 DEF OutputOK
    <2>2. ~(n < k) /\ k # n
      BY <2>1 DEF OutputOK
    <2>3. QED
      BY <2>1, <2>2 DEF Emits
  <1>4. QED
    BY <1>3

LEMMA EmitKeepsOutputs ==
    ASSUME SessionOK, OutputOK, NEW n \in Emits, EmitOutput(n)
    PROVE  OutputOK'
  <1> DEFINE all == received \o outQ \o parkedEmits
  <1>1. /\ outQ \in Seq(Emits) /\ received \in Seq(Emits) /\ parkedEmits \in Seq(Emits)
        /\ received \o outQ \in Seq(Emits) /\ all \in Seq(Emits) /\ Increasing(all)
        /\ state' = state /\ claimed' = claimed /\ outEnd' = outEnd
        /\ emit[n] = "idle" /\ \A k \in 1..(n - 1) : emit[k] # "idle"
    BY ConcatProperties DEF OutputOK, EmitOutput
  <1>2. Increasing(Append(all, n)) /\ n \notin Elements(received \o outQ)
    <2>1. Emits \subseteq Nat
      BY DEF Emits
    <2>2. n \notin Elements(received \o outQ)
      BY <1>1 DEF OutputOK
    <2>3. QED
      BY <1>1, <2>1, <2>2, EmitsComeInOrder, OrderWithNewcomer
  <1>3. ASSUME NEW v, emit' = [emit EXCEPT ![n] = v], v \in Statuses({}) \ {"idle"}
        PROVE  /\ emit' \in [Emits -> Statuses({})]
               /\ \A k \in Emits : k # n => emit'[k] = emit[k]
               /\ emit'[n] = v
               /\ \A j, k \in Emits : j < k /\ emit'[k] # "idle" => emit'[j] # "idle"
    <2>1. /\ emit' \in [Emits -> Statuses({})] /\ emit'[n] = v
          /\ \A k \in Emits : k # n => emit'[k] = emit[k]
      BY <1>3 DEF OutputOK
    <2>2. \A k \in Emits : k < n => k \in 1..(n - 1)
      BY DEF Emits
    <2>3. ASSUME NEW j \in Emits, NEW k \in Emits, j < k, emit'[k] # "idle"
          PROVE  emit'[j] # "idle"
      <3>1. CASE k = n
        BY <1>1, <1>3, <2>1, <2>2, <2>3, <3>1
      <3>2. CASE k # n
        BY <1>3, <2>1, <2>3, <3>2 DEF OutputOK
      <3>3. QED
        BY <3>1, <3>2
    <2>4. QED
      BY <2>1, <2>3
  <1>4. Len(outQ) \in Nat /\ OutCapacity \in Nat \ {0} /\ Len(<<>>) = 0
    BY <1>1, LenProperties, HandleAssumption
  <1>5. CASE state # "open"
    <2>1. /\ emit' = [emit EXCEPT ![n] = Ended]
          /\ UNCHANGED <<outQ, parkedReads, parkedEmits, received>>
      BY <1>5 DEF EmitOutput
    <2>2. Ended \in Statuses({}) \ {"idle", "accepted", "parked"}
      <3>1. Ended \in TerminalErrors \cup FlowErrors
        BY DEF SessionOK, Ended, FlowErrors
      <3>2. QED
        BY <3>1, NamesOfErrors DEF Statuses
    <2>3. /\ emit' \in [Emits -> Statuses({})]
          /\ {k \in Emits : emit'[k] = "accepted"} = {k \in Emits : emit[k] = "accepted"}
          /\ {k \in Emits : emit'[k] = "parked"} = {k \in Emits : emit[k] = "parked"}
          /\ \A j, k \in Emits : j < k /\ emit'[k] # "idle" => emit'[j] # "idle"
      BY <1>1, <1>3, <2>1, <2>2
    <2>4. QED
      BY <1>1, <2>1, <2>3 DEF OutputOK
  <1>6. CASE state = "open" /\ parkedReads > 0
    <2>1. outQ = <<>> /\ parkedEmits = <<>> /\ outEnd = "none"
      BY <1>4, <1>6 DEF OutputOK
    <2>2. /\ parkedReads' = parkedReads - 1 /\ received' = Append(received, n)
          /\ emit' = [emit EXCEPT ![n] = "accepted"] /\ outQ' = <<>> /\ parkedEmits' = <<>>
      BY <1>4, <1>6, <2>1 DEF EmitOutput
    <2>3. /\ received' \o outQ' = Append(received, n) /\ received' \o outQ' \o parkedEmits' = Append(all, n)
          /\ received \o outQ = received /\ received' \in Seq(Emits)
      BY <1>1, <2>1, <2>2, ConcatEmptySeq, AppendProperties
    <2>4. Elements(received' \o outQ') = Elements(received \o outQ) \cup {n}
      BY <1>1, <2>3, ElementsOfAppend
    <2>5. /\ emit' \in [Emits -> Statuses({})]
          /\ {k \in Emits : emit'[k] = "accepted"} = {k \in Emits : emit[k] = "accepted"} \cup {n}
          /\ {k \in Emits : emit'[k] = "parked"} = {k \in Emits : emit[k] = "parked"}
          /\ \A j, k \in Emits : j < k /\ emit'[k] # "idle" => emit'[j] # "idle"
      <3>1. "accepted" \in Statuses({}) \ {"idle"}
        BY DEF Statuses
      <3>2. QED
        BY <1>1, <1>3, <2>2, <3>1
    <2>6. parkedReads' \in Nat
      BY <1>6, <2>2 DEF OutputOK
    <2>7. QED
      BY <1>1, <1>2, <1>6, <2>1, <2>2, <2>3, <2>4, <2>5, <2>6 DEF OutputOK
  <1>7. CASE state = "open" /\ parkedReads = 0 /\ Len(outQ) < OutCapacity
    <2>1. parkedEmits = <<>> /\ outEnd = "none"
      BY <1>4, <1>7 DEF OutputOK
    <2>2. /\ outQ' = Append(outQ, n) /\ emit' = [emit EXCEPT ![n] = "accepted"]
          /\ parkedReads' = 0 /\ received' = received /\ parkedEmits' = <<>>
      BY <1>4, <1>7, <2>1 DEF EmitOutput
    <2>3. /\ received' \o outQ' = Append(received \o outQ, n)
          /\ received' \o outQ' \o parkedEmits' = Append(all, n)
          /\ outQ' \in Seq(Emits) /\ Len(outQ') = Len(outQ) + 1
      BY <1>1, <2>1, <2>2, ConcatEmptySeq, AppendProperties, AppendToQueue
    <2>4. Elements(received' \o outQ') = Elements(received \o outQ) \cup {n}
      <3>1. \A s \in Seq(Emits) : Elements(Append(s, n)) = Elements(s) \cup {n}
        BY ElementsOfAppend
      <3>2. QED
        BY <1>1, <2>3, <3>1
    <2>5. /\ emit' \in [Emits -> Statuses({})]
          /\ {k \in Emits : emit'[k] = "accepted"} = {k \in Emits : emit[k] = "accepted"} \cup {n}
          /\ {k \in Emits : emit'[k] = "parked"} = {k \in Emits : emit[k] = "parked"}
          /\ \A j, k \in Emits : j < k /\ emit'[k] # "idle" => emit'[j] # "idle"
      <3>1. "accepted" \in Statuses({}) \ {"idle"}
        BY DEF Statuses
      <3>2. QED
        BY <1>1, <1>3, <2>2, <3>1
    <2>6. Len(outQ') <= OutCapacity
      BY <1>4, <1>7, <2>3
    <2>7. QED
      BY <1>1, <1>2, <1>7, <2>1, <2>2, <2>3, <2>4, <2>5, <2>6 DEF OutputOK
  <1>8. CASE state = "open" /\ parkedReads = 0 /\ Len(outQ) >= OutCapacity
    <2>1. /\ parkedEmits' = Append(parkedEmits, n) /\ emit' = [emit EXCEPT ![n] = "parked"]
          /\ UNCHANGED <<outQ, parkedReads, received>>
      BY <1>4, <1>8 DEF EmitOutput
    <2>2. received' \o outQ' \o parkedEmits' = Append(all, n) /\ parkedEmits' \in Seq(Emits)
      BY <1>1, <2>1, AppendProperties, AppendToQueue
    <2>3. Elements(parkedEmits') = Elements(parkedEmits) \cup {n}
      BY <1>1, <2>1, ElementsOfAppend
    <2>4. /\ emit' \in [Emits -> Statuses({})]
          /\ {k \in Emits : emit'[k] = "accepted"} = {k \in Emits : emit[k] = "accepted"}
          /\ {k \in Emits : emit'[k] = "parked"} = {k \in Emits : emit[k] = "parked"} \cup {n}
          /\ \A j, k \in Emits : j < k /\ emit'[k] # "idle" => emit'[j] # "idle"
      <3>1. "parked" \in Statuses({}) \ {"idle"}
        BY DEF Statuses
      <3>2. QED
        BY <1>1, <1>3, <2>1, <3>1
    <2>5. Len(outQ) = OutCapacity
      BY <1>4, <1>8 DEF OutputOK
    <2>6. QED
      BY <1>1, <1>2, <1>8, <2>1, <2>2, <2>3, <2>4, <2>5 DEF OutputOK
  <1>9. QED
    BY <1>4, <1>5, <1>6, <1>7, <1>8 DEF OutputOK

LEMMA EmitKeeps ==
    ASSUME HandleInv, NEW n \in Emits, EmitOutput(n)
    PROVE  HandleInv'
  <1>1. /\ UNCHANGED <<state, terminal, aborted, trailer, inputSide, claimed, outEnd, single>>
        /\ header' = IF state = "open" THEN SettledHeader ELSE header
    BY DEF EmitOutput
  <1>2. SessionOK'
    BY <1>1 DEF HandleInv, SessionOK, SettledHeader, inputSide
  <1>3. InputOK' /\ OutputOK'
    BY <1>1, SameInputs, EmitKeepsOutputs DEF HandleInv
  <1>4. CASE parkedReads > 0 /\ state = "open"
    <2>1. outEnd = "none" /\ received \in Seq(Emits) /\ parkedReads \in Nat
      BY <1>4 DEF HandleInv, OutputOK
    <2>2. parkedReads' = parkedReads - 1 /\ received' = Append(received, n)
      BY <1>4 DEF EmitOutput, HandleInv, OutputOK
    <2>3. Len(received') = Len(received) + 1 /\ Len(received) \in Nat
      BY <2>1, <2>2, AppendProperties, LenProperties
    <2>4. single # "value" /\ claimed
      BY <1>4 DEF HandleInv, SingleOK
    <2>5. SingleOK'
      BY <1>1, <1>4, <2>1, <2>2, <2>3, <2>4 DEF HandleInv, SingleOK, Reading
    <2>6. QED
      BY <1>2, <1>3, <2>5 DEF HandleInv
  <1>5. CASE ~(parkedReads > 0 /\ state = "open")
    <2>1. received' = received /\ parkedReads' = parkedReads
      BY <1>5 DEF EmitOutput
    <2>2. single = "value" => outQ' = outQ
      BY <1>5 DEF EmitOutput, HandleInv, SingleOK
    <2>3. SingleOK'
      BY <1>1, <2>1, <2>2 DEF HandleInv, SingleOK, Reading
    <2>4. QED
      BY <1>2, <1>3, <2>3 DEF HandleInv
  <1>6. QED
    BY <1>4, <1>5

-----------------------------------------------------------------------------
(* The invariant.                                                          *)

LEMMA HandleStart == HandleInit => HandleInv
  <1> SUFFICES ASSUME HandleInit PROVE HandleInv
    OBVIOUS
  <1>1. /\ inBuf = <<>> /\ parkedWrites = <<>> /\ pulled = <<>>
        /\ outQ = <<>> /\ parkedEmits = <<>> /\ received = <<>>
        /\ <<>> \o <<>> = <<>> /\ Len(<<>>) = 0 /\ Elements(<<>>) = {}
    BY DEF HandleInit, Elements
  <1>2. Distinct(<<>>) /\ Increasing(<<>>)
    BY DEF Distinct, Increasing
  <1>3. InCapacity \in Nat /\ OutCapacity \in Nat
    BY HandleAssumption
  <1>4. SessionOK
    BY NamesOfErrors DEF HandleInit, SessionOK, TerminalErrors, AbortErrors
  <1>5. InputOK
    <2>1. /\ write \in [Writes -> Statuses({"validating"})]
          /\ \A m \in Writes : write[m] = "idle"
      BY DEF HandleInit, Statuses
    <2>2. {m \in Writes : write[m] = "accepted"} = {} /\ {m \in Writes : write[m] = "parked"} = {}
      BY <2>1
    <2>3. inClosed \in BOOLEAN /\ readParked = FALSE /\ readEnd = "none"
      BY DEF HandleInit
    <2>6. inBuf \in Seq(Writes) /\ parkedWrites \in Seq(Writes) /\ pulled \in Seq(Writes)
      BY <1>1
    <2>7. Len(inBuf) <= InCapacity /\ ~(parkedWrites # <<>>) /\ ~readParked
      BY <1>1, <1>3, <2>3
    <2>4. Distinct(pulled \o inBuf \o parkedWrites) /\ Elements(pulled \o inBuf) = {}
          /\ Elements(parkedWrites) = {} /\ Len(inBuf) = 0
      BY <1>1, <1>2
    <2>5. QED
      BY <2>1, <2>2, <2>3, <2>4, <2>6, <2>7 DEF InputOK
  <1>6. OutputOK
    <2>1. /\ emit \in [Emits -> Statuses({})]
          /\ \A n \in Emits : emit[n] = "idle"
      BY DEF HandleInit, Statuses
    <2>2. {n \in Emits : emit[n] = "accepted"} = {} /\ {n \in Emits : emit[n] = "parked"} = {}
      BY <2>1
    <2>3. claimed = FALSE /\ parkedReads = 0 /\ outEnd = "none"
      BY DEF HandleInit
    <2>6. outQ \in Seq(Emits) /\ parkedEmits \in Seq(Emits) /\ received \in Seq(Emits)
      BY <1>1
    <2>7. Len(outQ) <= OutCapacity /\ ~(parkedEmits # <<>>) /\ ~(parkedReads > 0)
      BY <1>1, <1>3, <2>3
    <2>4. Increasing(received \o outQ \o parkedEmits) /\ Elements(received \o outQ) = {}
          /\ Elements(parkedEmits) = {} /\ Len(outQ) = 0
      BY <1>1, <1>2
    <2>5. QED
      BY <2>1, <2>2, <2>3, <2>4, <2>6, <2>7 DEF OutputOK
  <1>7. SingleOK
    BY DEF HandleInit, SingleOK
  <1>8. QED
    BY <1>4, <1>5, <1>6, <1>7 DEF HandleInv

LEMMA HandleStep == HandleInv /\ [HandleNext]_handleVars => HandleInv'
  <1> SUFFICES ASSUME HandleInv, [HandleNext]_handleVars PROVE HandleInv'
    OBVIOUS
  <1>1. ASSUME NEW m \in Writes, Write(m) \/ Validated(m) \/ Invalid(m) PROVE HandleInv'
    BY <1>1, WriteKeeps, InvalidKeeps
  <1>2. CASE Close
    BY <1>2, CloseKeeps
  <1>3. ASSUME CancelSession PROVE HandleInv'
    BY <1>3, FailureKeeps DEF CancelSession, Fail, TerminalErrors, AbortErrors
  <1>4. CASE ExternalAbort
    BY <1>4, FireErrorKeeps DEF ExternalAbort, TerminalErrors
  <1>5. CASE Claim
    BY <1>5, ClaimKeeps
  <1>6. CASE Pull
    BY <1>6, PullKeeps
  <1>7. CASE Abandon
    BY <1>3, <1>7 DEF Abandon
  <1>8. CASE SingleRead
    BY <1>8, SingleReadKeeps
  <1>9. CASE SingleFirst \/ SingleSecond
    BY <1>9, SingleFirstKeeps, SingleSecondKeeps
  <1>10. CASE BindingRead
    <2>1. UNCHANGED <<session, outputSide, inClosed>>
      BY <1>10 DEF BindingRead
    <2>2. QED
      BY <1>10, <2>1, BindingReadKeeps, SameSession, SameOutputs DEF HandleInv, session
  <1>11. CASE SetHeader \/ SetTrailer
    <2>1. UNCHANGED <<state, terminal, aborted, inputSide, outputSide>>
      BY <1>11 DEF SetHeader, SetTrailer
    <2>2. SessionOK'
      BY <1>11, <2>1 DEF SetHeader, SetTrailer, HandleInv, SessionOK, inputSide
    <2>3. QED
      BY <2>1, <2>2, SameInputs, SameOutputs DEF HandleInv
  <1>12. CASE CloseOutput
    BY <1>12, CloseOutputKeeps
  <1>13. ASSUME NEW n \in Emits, EmitOutput(n) PROVE HandleInv'
    BY <1>13, EmitKeeps
  <1>14. ASSUME NEW e \in BindingErrors, FireError(e) PROVE HandleInv'
    BY <1>14, FireErrorKeeps DEF TerminalErrors
  <1>15. CASE UNCHANGED handleVars
    BY <1>15, SameSession, SameInputs, SameOutputs DEF HandleInv, handleVars, session, inputSide
  <1>16. QED
    BY <1>1, <1>2, <1>3, <1>4, <1>5, <1>6, <1>7, <1>8, <1>9, <1>10, <1>11, <1>12, <1>13, <1>14, <1>15
       DEF HandleNext, CallerNext, ConsumerNext, BindingNext

(* A good value of single() is the only one the binding got accepted: it is *)
(* all the consumer has, and nothing is queued.                             *)
LEMMA ValueIsTheOnlyOne ==
    ASSUME OutputOK, SingleOK, single = "value"
    PROVE  SingleIsExact
  <1>1. state = "closed" /\ outQ = <<>> /\ Len(received) = 1 /\ received \in Seq(Emits)
    BY DEF OutputOK, SingleOK
  <1>2. received \o outQ = received
    BY <1>1, ConcatEmptySeq
  <1>3. Elements(received) = {received[1]}
    BY <1>1, LenProperties DEF Elements
  <1>4. {n \in Emits : emit[n] = "accepted"} = {received[1]}
    BY <1>2, <1>3 DEF OutputOK
  <1>5. Cardinality({received[1]}) = 1
    BY FS_Singleton
  <1>6. QED
    BY <1>1, <1>4, <1>5 DEF SingleIsExact

LEMMA InvariantSuffices == HandleInv => DeliveryIsSound
  <1> SUFFICES ASSUME HandleInv PROVE DeliveryIsSound
    OBVIOUS
  <1>1. HandleTypeOK
    BY DEF HandleInv, SessionOK, InputOK, OutputOK, SingleOK, HandleTypeOK
  <1>2. BuffersSound
    BY DEF HandleInv, SessionOK, InputOK, OutputOK, BuffersSound
  <1>3. LosslessInOrder
    BY DEF HandleInv, InputOK, OutputOK, LosslessInOrder
  <1>4. SingleIsExact
    BY ValueIsTheOnlyOne DEF HandleInv, SingleIsExact
  <1>5. QED
    BY <1>1, <1>2, <1>3, <1>4 DEF DeliveryIsSound

(* Whatever the caller, the consumer and the binding do, and whenever the   *)
(* invocation ends: nobody waits on a buffer that could serve him or on an  *)
(* invocation that ended, what was accepted is delivered or still queued,   *)
(* once and in order, and a value of single() is the only one there was     *)
(* (invocation.ts, InvocationImpl).                                         *)
THEOREM DeliveryTheorem == HandleSpec => []DeliveryIsSound
  <1>1. HandleSpec => []HandleInv
    BY HandleStart, HandleStep, PTL DEF HandleSpec
  <1>2. QED
    BY <1>1, InvariantSuffices, PTL

-----------------------------------------------------------------------------
(* The end, and the abstract stream.                                       *)

(* A read of the outputs hands over at most the next accepted value.        *)
LEMMA ReadTransfers ==
    ASSUME OutputOK, ReadNext, UNCHANGED state
    PROVE  Stream!Next \/ UNCHANGED Stream!vars
  <1> DEFINE sent == received \o outQ
  <1>1. /\ outQ \in Seq(Emits) /\ received \in Seq(Emits) /\ parkedEmits \in Seq(Emits)
        /\ sent \in Seq(Emits) /\ state' = state
    BY ConcatProperties DEF OutputOK
  <1>2. CASE outQ # <<>>
    <2>1. received' = Append(received, Head(outQ)) /\ outEnd' = outEnd
      BY <1>2 DEF ReadNext
    <2>2. /\ Len(received) \in Nat /\ Len(outQ) \in Nat \ {0} /\ Len(sent) = Len(received) + Len(outQ)
          /\ Head(outQ) = outQ[1] /\ Head(outQ) \in Emits
      BY <1>1, <1>2, LenProperties, EmptySeq, ConcatProperties, HeadTailProperties
    <2>3. Len(received) < Len(sent) /\ sent[Len(received) + 1] = Head(outQ)
      BY <1>1, <2>2, ConcatProperties
    <2>4. CASE parkedEmits = <<>>
      <3>1. received' \o outQ' = sent
        BY <1>1, <1>2, <2>1, <2>4, HeadMovesOver DEF ReadNext
      <3>2. QED
        BY <1>1, <2>1, <2>3, <3>1 DEF Stream!Next, Stream!Transfer
    <2>5. CASE parkedEmits # <<>>
      <3>0. PICK next \in Emits : next = Head(parkedEmits)
        BY <1>1, <2>5, HeadTailProperties
      <3>1. received' \o outQ' = Append(sent, next)
        <4>1. outQ' = Append(Tail(outQ), next)
          BY <1>2, <2>5, <3>0 DEF ReadNext
        <4>2. Append(received, Head(outQ)) \o Append(Tail(outQ), next) = Append(sent, next)
          BY <1>1, <1>2, <3>0, HeadAdmitsWaiter
        <4>3. QED
          BY <2>1, <4>1, <4>2
      <3>2. state = "open"
        BY <2>5 DEF OutputOK
      <3>3. /\ Len(Append(sent, next)) = Len(sent) + 1
            /\ Append(sent, next)[Len(received) + 1] = sent[Len(received) + 1]
        BY <1>1, <2>2, AppendProperties
      <3>4. Len(received) < Len(Append(sent, next)) /\ Append(sent, next)[Len(received) + 1] = Head(outQ)
        BY <2>2, <2>3, <3>3
      <3>5. QED
        BY <1>1, <2>1, <3>0, <3>1, <3>2, <3>4 DEF Stream!Next, Stream!Transfer
    <2>6. QED
      BY <2>4, <2>5
  <1>3. CASE outQ = <<>> /\ state # "open"
    <2>1. outEnd' = state /\ received' = received /\ outQ' = outQ /\ received \o outQ = received
      BY <1>1, <1>3, ConcatEmptySeq DEF ReadNext
    <2>2. QED
      BY <1>1, <1>3, <2>1 DEF Stream!Next, Stream!SeeEnd
  <1>4. CASE outQ = <<>> /\ state = "open"
    BY <1>1, <1>4 DEF ReadNext, Stream!vars
  <1>5. QED
    BY <1>2, <1>3, <1>4

(* An emit is handed over, queued, left waiting or refused.                 *)
LEMMA EmitTransfers ==
    ASSUME OutputOK, NEW n \in Emits, EmitOutput(n)
    PROVE  Stream!Next \/ UNCHANGED Stream!vars
  <1>1. /\ outQ \in Seq(Emits) /\ received \in Seq(Emits) /\ parkedReads \in Nat
        /\ state' = state /\ outEnd' = outEnd
    BY DEF OutputOK, EmitOutput
  <1>2. CASE state = "open" /\ parkedReads > 0
    <2>1. received \o outQ = received /\ outQ = <<>> /\ outQ' = <<>> /\ received' = Append(received, n)
      BY <1>1, <1>2, ConcatEmptySeq DEF EmitOutput, OutputOK
    <2>2. /\ received' \o outQ' = Append(received \o outQ, n)
      BY <1>1, <2>1, ConcatEmptySeq, AppendProperties
    <2>3. /\ Len(received) < Len(Append(received, n)) /\ Append(received, n)[Len(received) + 1] = n
      BY <1>1, AppendProperties, LenProperties
    <2>4. QED
      BY <1>1, <1>2, <2>1, <2>2, <2>3 DEF Stream!Next, Stream!Transfer
  <1>3. CASE state = "open" /\ parkedReads = 0 /\ outQ' = Append(outQ, n) /\ received' = received
    <2>1. received' \o outQ' = Append(received \o outQ, n)
      BY <1>1, <1>3, AppendToQueue
    <2>2. QED
      BY <1>1, <1>3, <2>1 DEF Stream!Next, Stream!Transfer
  <1>4. CASE UNCHANGED <<outQ, received>>
    BY <1>1, <1>4 DEF Stream!vars
  <1>5. QED
    BY <1>1, <1>2, <1>3, <1>4 DEF EmitOutput

LEMMA TerminateEnds ==
    ASSUME OutputOK, state = "open", NEW st \in {"closed", "errored"}, NEW error, NEW pe,
           Terminate(st, error, pe)
    PROVE  Stream!Next
  <1>1. /\ state' = st /\ received' = received /\ outQ' = outQ
        /\ outEnd' = IF parkedReads > 0 THEN st ELSE outEnd
    BY DEF Terminate
  <1>2. parkedReads > 0 => received = received \o outQ
    BY ConcatEmptySeq DEF OutputOK
  <1>3. QED
    BY <1>1, <1>2 DEF Stream!Next, Stream!End, Stream!Ends

LEMMA StreamStep ==
    ASSUME HandleInv, [HandleNext]_handleVars
    PROVE  Stream!Next \/ UNCHANGED Stream!vars
  <1>1. CASE UNCHANGED <<received, outQ, state, outEnd>>
    BY <1>1 DEF Stream!vars
  <1>2. ASSUME state = "open", NEW error, NEW w, NEW s, Fail(error, w, s)
        PROVE  Stream!Next
    BY <1>2, TerminateEnds DEF Fail, HandleInv
  <1>3. ASSUME NEW error, FireError(error) PROVE Stream!Next \/ UNCHANGED Stream!vars
    BY <1>1, <1>2, <1>3 DEF FireError, handleVars, session, outputSide
  <1>4. CASE CloseOutput
    BY <1>1, <1>4, TerminateEnds DEF CloseOutput, handleVars, session, outputSide, HandleInv
  <1>5. ASSUME NEW m \in Writes, Write(m) \/ Validated(m) \/ Invalid(m)
        PROVE  Stream!Next \/ UNCHANGED Stream!vars
    <2>1. CASE Write(m) \/ Validated(m)
      BY <1>1, <2>1 DEF Write, Validated, session, outputSide
    <2>2. CASE Invalid(m)
      BY <1>1, <1>2, <2>2 DEF Invalid, session, outputSide
    <2>3. QED
      BY <1>5, <2>1, <2>2
  <1>6. CASE Close \/ Claim \/ SingleFirst \/ BindingRead \/ SetHeader \/ SetTrailer
    BY <1>1, <1>6 DEF Close, Claim, SingleFirst, BindingRead, SetHeader, SetTrailer, session, outputSide
  <1>7. CASE CancelSession \/ Abandon
    BY <1>2, <1>7 DEF CancelSession, Abandon
  <1>8. CASE ExternalAbort
    BY <1>3, <1>8 DEF ExternalAbort
  <1>9. CASE Pull \/ SingleRead
    BY <1>9, ReadTransfers DEF Pull, SingleRead, HandleInv, session
  <1>10. CASE SingleSecond
    BY <1>1, <1>2, <1>10 DEF SingleSecond, session
  <1>11. ASSUME NEW n \in Emits, EmitOutput(n) PROVE Stream!Next \/ UNCHANGED Stream!vars
    BY <1>11, EmitTransfers DEF HandleInv
  <1>12. CASE UNCHANGED handleVars
    BY <1>1, <1>12 DEF handleVars, session, outputSide
  <1>13. QED
    BY <1>3, <1>4, <1>5, <1>6, <1>7, <1>8, <1>9, <1>10, <1>11, <1>12
       DEF HandleNext, CallerNext, ConsumerNext, BindingNext

(* What an ended invocation keeps.                                          *)
Kept == /\ UNCHANGED <<state, terminal, header, trailer>>
        /\ received' \o outQ' = received \o outQ
        /\ pulled' \o inBuf' = pulled \o inBuf

(* Nobody waits on an ended invocation, so a late read moves what is queued *)
(* and admits nothing.                                                      *)
LEMMA LateReads ==
    ASSUME HandleInv, state # "open"
    PROVE  /\ ReadNext => received' \o outQ' = received \o outQ
           /\ BindingRead => pulled' \o inBuf' = pulled \o inBuf
  <1>1. /\ parkedEmits = <<>> /\ parkedWrites = <<>>
        /\ outQ \in Seq(Emits) /\ received \in Seq(Emits)
        /\ inBuf \in Seq(Writes) /\ pulled \in Seq(Writes)
    BY DEF HandleInv, SessionOK, InputOK, OutputOK
  <1>2. ASSUME ReadNext PROVE received' \o outQ' = received \o outQ
    <2>1. CASE outQ # <<>>
      <3>1. received' = Append(received, Head(outQ)) /\ outQ' = Tail(outQ)
        BY <1>1, <1>2, <2>1 DEF ReadNext
      <3>2. QED
        BY <1>1, <2>1, <3>1, HeadMovesOver
    <2>2. CASE outQ = <<>>
      BY <1>2, <2>2 DEF ReadNext
    <2>3. QED
      BY <2>1, <2>2
  <1>3. ASSUME BindingRead PROVE pulled' \o inBuf' = pulled \o inBuf
    <2>1. CASE state # "errored" /\ inBuf # <<>>
      <3>1. pulled' = Append(pulled, Head(inBuf)) /\ inBuf' = Tail(inBuf)
        BY <1>1, <1>3, <2>1 DEF BindingRead
      <3>2. QED
        BY <1>1, <2>1, <3>1, HeadMovesOver
    <2>2. CASE state = "errored" \/ inBuf = <<>>
      BY <1>3, <2>2 DEF BindingRead
    <2>3. QED
      BY <2>1, <2>2
  <1>4. QED
    BY <1>2, <1>3

LEMMA EndedStep ==
    ASSUME HandleInv, [HandleNext]_handleVars, state # "open"
    PROVE  Kept
  <1>1. inClosed /\ header # "unset" /\ Unwritable
    BY DEF HandleInv, SessionOK, Unwritable
  <1>2. CASE UNCHANGED <<session, received, outQ, pulled, inBuf>>
    BY <1>2 DEF Kept, session
  <1>3. ASSUME NEW error, FireError(error) PROVE Kept
    BY <1>2, <1>3 DEF FireError, handleVars, inputSide, outputSide
  <1>4. ASSUME NEW m \in Writes, Write(m) \/ Validated(m) \/ Invalid(m) PROVE Kept
    BY <1>1, <1>2, <1>4 DEF Write, Validated, Invalid, RefuseWrite, outputSide
  <1>5. CASE Close \/ CancelSession \/ Abandon \/ SetHeader \/ SetTrailer
    BY <1>1, <1>5 DEF Close, CancelSession, Abandon, SetHeader, SetTrailer
  <1>6. CASE ExternalAbort
    BY <1>3, <1>6 DEF ExternalAbort
  <1>7. CASE Claim \/ SingleFirst
    BY <1>2, <1>7 DEF Claim, SingleFirst, inputSide
  <1>8. CASE Pull \/ SingleRead
    BY <1>8, LateReads DEF Pull, SingleRead, Kept, session, inputSide
  <1>9. CASE SingleSecond
    BY <1>2, <1>9 DEF SingleSecond, inputSide
  <1>10. CASE BindingRead
    BY <1>10, LateReads DEF BindingRead, Kept, session, outputSide
  <1>11. CASE CloseOutput
    BY <1>2, <1>11 DEF CloseOutput, handleVars, inputSide, outputSide
  <1>12. ASSUME NEW n \in Emits, EmitOutput(n) PROVE Kept
    BY <1>12 DEF EmitOutput, Kept, inputSide
  <1>13. CASE UNCHANGED handleVars
    BY <1>2, <1>13 DEF handleVars, inputSide, outputSide
  <1>14. QED
    BY <1>3, <1>4, <1>5, <1>6, <1>7, <1>8, <1>9, <1>10, <1>11, <1>12, <1>13
       DEF HandleNext, CallerNext, ConsumerNext, BindingNext

(* Every step of the session is a step of the abstract stream or none, and  *)
(* once the invocation ended no late call, abort or validation changes how, *)
(* nor what was accepted in either direction (invocation.ts, fireError,     *)
(* closeOutput, readNext, emitOutput).                                      *)
THEOREM StreamTheorem == HandleSpec => StreamEndsOnce
  <1>1. HandleInit => Stream!Init
    BY DEF HandleInit, Stream!Init
  <1>2. HandleInv /\ [HandleNext]_handleVars => [Stream!Next]_(Stream!vars)
    BY StreamStep
  <1>3. HandleInv /\ [HandleNext]_handleVars => [state # "open" => Kept]_handleVars
    BY EndedStep
  <1>4. HandleSpec => []HandleInv
    BY HandleStart, HandleStep, PTL DEF HandleSpec
  <1>5. HandleSpec => Stream!Spec
    BY <1>1, <1>2, <1>4, PTL DEF HandleSpec, Stream!Spec
  <1>6. HandleSpec => TerminalIsSticky
    <2>1. HandleSpec => [][state # "open" => Kept]_handleVars
      BY <1>3, <1>4, PTL DEF HandleSpec
    <2>2. QED
      BY <2>1 DEF TerminalIsSticky, Kept
  <1>7. QED
    BY <1>5, <1>6 DEF StreamEndsOnce, ImplementsStream

-----------------------------------------------------------------------------
(* What no step takes back, for the proofs of the programs that run over a  *)
(* session.                                                                 *)

(* Only the end of the invocation rejects an emit or a pull of the inputs.  *)
SettledOK ==
    /\ \A n \in Emits : emit[n] \notin {"idle", "parked", "accepted"} => state # "open"
    /\ readEnd \in TerminalErrors => state # "open"

Moves ==
    /\ \A n \in Emits : emit[n] = "accepted" => emit'[n] = "accepted"
    /\ state # "open" => UNCHANGED <<state, terminal>>
    /\ readEnd # "none" => readEnd' # "none"
    /\ readParked /\ ~readParked' => readEnd' # "none"
    /\ outEnd # "none" => UNCHANGED outEnd

(* The effect of an end, by an error or by closeOutput.                     *)
LEMMA TerminateMoves ==
    ASSUME HandleInv, state = "open", NEW st \in {"closed", "errored"}, NEW error,
           NEW pe \in TerminalErrors \cup FlowErrors,
           st = "errored" => error \in TerminalErrors, Terminate(st, error, pe)
    PROVE  Moves /\ (SettledOK => SettledOK')
  <1>1. outEnd = "none"
    BY DEF HandleInv, OutputOK
  <1>2. \A n \in Emits : emit'[n] = IF emit[n] = "parked" THEN pe ELSE emit[n]
    BY DEF Terminate, RejectParked, HandleInv, OutputOK
  <1>3. "none" \notin TerminalErrors
    BY NamesOfErrors DEF NoError
  <1>4. state' # "open" /\ readEnd' = IF readParked THEN (IF st = "errored" THEN error ELSE "done") ELSE readEnd
    BY DEF Terminate
  <1>5. QED
    BY <1>1, <1>2, <1>3, <1>4 DEF Moves, SettledOK

(* The effect of a read of the outputs.                                     *)
LEMMA ReadNextMoves ==
    ASSUME HandleInv, ReadNext, outEnd = "none", UNCHANGED <<session, inputSide>>
    PROVE  Moves /\ (SettledOK => SettledOK')
  <1>1. \/ emit' = emit
        \/ \E k \in Emits : emit' = [emit EXCEPT ![k] = "accepted"]
    <2>1. parkedEmits # <<>> => Head(parkedEmits) \in Emits
      BY HeadTailProperties DEF HandleInv, OutputOK
    <2>2. QED
      BY <2>1 DEF ReadNext
  <1>2. emit \in [Emits -> Statuses({})]
    BY DEF HandleInv, OutputOK
  <1>3. \A n \in Emits : emit'[n] = emit[n] \/ emit'[n] = "accepted"
    BY <1>1, <1>2
  <1>4. UNCHANGED <<state, terminal, readEnd, readParked>>
    BY DEF session, inputSide
  <1>5. QED
    BY <1>3, <1>4 DEF Moves, SettledOK

LEMMA EmitMoves ==
    ASSUME HandleInv, NEW n \in Emits, EmitOutput(n)
    PROVE  Moves /\ (SettledOK => SettledOK')
  <1>1. /\ UNCHANGED <<state, terminal, readEnd, readParked, outEnd>>
        /\ emit[n] = "idle" /\ emit \in [Emits -> Statuses({})]
    BY DEF EmitOutput, inputSide, HandleInv, OutputOK
  <1>2. \E v : emit' = [emit EXCEPT ![n] = v] /\ (state = "open" => v \in {"accepted", "parked"})
    BY DEF EmitOutput
  <1>3. /\ \A k \in Emits : k # n => emit'[k] = emit[k]
        /\ state = "open" => emit'[n] \in {"accepted", "parked"}
    BY <1>1, <1>2
  <1>4. QED
    BY <1>1, <1>3 DEF Moves, SettledOK

LEMMA BindingReadMoves ==
    ASSUME HandleInv, BindingRead
    PROVE  /\ Moves /\ (SettledOK => SettledOK')
           /\ readParked' \/ readEnd' # "none"
  <1>1. UNCHANGED <<state, terminal, emit, outEnd>> /\ ~readParked
    BY DEF BindingRead, session, outputSide
  <1>2. state = "errored" => terminal # "none"
    BY DEF HandleInv, SessionOK, NoError
  <1>3. state = "open" => readEnd' = readEnd \/ readEnd' \in {"value", "done"}
    BY <1>1 DEF BindingRead
  <1>6. "value" \notin TerminalErrors /\ "done" \notin TerminalErrors
    BY NamesOfErrors
  <1>4. readEnd' # "none" \/ (readParked' /\ readEnd' = readEnd)
    BY <1>1, <1>2 DEF BindingRead
  <1>5. QED
    BY <1>1, <1>3, <1>4, <1>6 DEF Moves, SettledOK

(* Writes and the end of the inputs touch no output and no end.             *)
LEMMA InputMoves ==
    ASSUME HandleInv, UNCHANGED <<session, outputSide>>,
           \/ readEnd' = readEnd /\ readParked' = readParked
           \/ readEnd' \in {"value", "done"}
           \/ readEnd' = readEnd /\ ~readParked
    PROVE  Moves /\ (SettledOK => SettledOK')
  <1>1. UNCHANGED <<state, terminal, emit, outEnd>>
    BY DEF session, outputSide
  <1>2. "value" \notin TerminalErrors /\ "done" \notin TerminalErrors
    BY NamesOfErrors
  <1>3. QED
    BY <1>1, <1>2 DEF Moves, SettledOK

LEMMA HandleMoves ==
    ASSUME HandleInv, [HandleNext]_handleVars
    PROVE  Moves /\ (SettledOK => SettledOK')
  <1> DEFINE Good == Moves /\ (SettledOK => SettledOK')
  <1>1. ASSUME UNCHANGED <<state, terminal, readEnd, readParked, outEnd, emit>> PROVE Good
    BY <1>1 DEF Moves, SettledOK
  <1>2. ASSUME state = "open", NEW error \in TerminalErrors, NEW w, NEW s, Fail(error, w, s) PROVE Good
    BY <1>2, TerminateMoves DEF Fail
  <1>3. ASSUME NEW error \in TerminalErrors, FireError(error) PROVE Good
    <2>1. CASE state = "open"
      BY <1>2, <1>3, <2>1 DEF FireError
    <2>2. CASE state # "open"
      BY <1>1, <1>3, <2>2 DEF FireError, handleVars, session, inputSide, outputSide
    <2>3. QED
      BY <2>1, <2>2
  <1>4. CASE CloseOutput
    <2>1. CASE state = "open"
      <3>1. Terminate("closed", NoError, "ERR_INVOCATION_CLOSED") /\ "ERR_INVOCATION_CLOSED" \in FlowErrors
        BY <1>4, <2>1 DEF CloseOutput, FlowErrors
      <3>2. QED
        BY <2>1, <3>1, TerminateMoves
    <2>2. CASE state # "open"
      BY <1>1, <1>4, <2>2 DEF CloseOutput, handleVars, session, inputSide, outputSide
    <2>3. QED
      BY <2>1, <2>2
  <1>5. ASSUME NEW m \in Writes, Write(m) \/ Validated(m) \/ Invalid(m) PROVE Good
    <2>1. CASE Write(m) \/ Validated(m)
      BY <2>1, InputMoves DEF Write, Validated, RefuseWrite, Enqueue
    <2>2. CASE Invalid(m)
      <3>1. CASE state = "open"
        BY <1>2, <2>2, <3>1 DEF Invalid, TerminalErrors
      <3>2. CASE state # "open"
        BY <1>1, <2>2, <3>2 DEF Invalid, session, outputSide
      <3>3. QED
        BY <3>1, <3>2
    <2>3. QED
      BY <1>5, <2>1, <2>2
  <1>6. CASE Close
    <2>1. /\ UNCHANGED <<session, outputSide>>
          /\ readEnd' = IF readParked THEN "done" ELSE readEnd
      BY <1>6 DEF Close
    <2>2. QED
      BY <2>1, InputMoves
  <1>7. ASSUME CancelSession PROVE Good
    BY <1>2, <1>7 DEF CancelSession, TerminalErrors, AbortErrors
  <1>8. CASE ExternalAbort
    BY <1>3, <1>8 DEF ExternalAbort, TerminalErrors
  <1>9. CASE Claim \/ SingleFirst \/ SetHeader \/ SetTrailer
    BY <1>1, <1>9 DEF Claim, SingleFirst, SetHeader, SetTrailer, session, inputSide, outputSide
  <1>10. CASE Pull \/ SingleRead
    BY <1>10, ReadNextMoves DEF Pull, SingleRead
  <1>11. CASE Abandon
    BY <1>7, <1>11 DEF Abandon
  <1>12. CASE SingleSecond
    <2>1. CASE state = "open" /\ Fail("ERR_CANCELLED", write, "ERR_EXPECTED_SINGLE")
      BY <1>2, <2>1 DEF TerminalErrors, AbortErrors
    <2>2. CASE UNCHANGED <<session, inputSide, outEnd, emit>>
      BY <1>1, <2>2 DEF session, inputSide
    <2>3. QED
      BY <1>12, <2>1, <2>2 DEF SingleSecond
  <1>13. CASE BindingRead
    BY <1>13, BindingReadMoves
  <1>14. ASSUME NEW n \in Emits, EmitOutput(n) PROVE Good
    BY <1>14, EmitMoves
  <1>15. ASSUME NEW e \in BindingErrors, FireError(e) PROVE Good
    BY <1>3, <1>15 DEF TerminalErrors
  <1>16. CASE UNCHANGED handleVars
    BY <1>1, <1>16 DEF handleVars, session, inputSide, outputSide
  <1>17. QED
    BY <1>4, <1>5, <1>6, <1>7, <1>8, <1>9, <1>10, <1>11, <1>12, <1>13, <1>14, <1>15, <1>16
       DEF HandleNext, CallerNext, ConsumerNext, BindingNext

(* Only a closed input side rejects a write, and no accepted write is taken *)
(* back.                                                                    *)
WritesSettled ==
    \A m \in Writes : write[m] \notin {"idle", "validating", "parked", "accepted"} => inClosed

WritesKept == \A m \in Writes : write[m] = "accepted" => write'[m] = "accepted"

LEMMA EndOfWrites ==
    ASSUME HandleInv, NEW w \in [Writes -> Statuses({"validating"})], NEW e \in TerminalErrors \cup FlowErrors,
           \A m \in Writes : write[m] = "accepted" => w[m] = "accepted",
           write' = RejectParked(w, e), inClosed'
    PROVE  WritesKept /\ WritesSettled'
  <1>1. \A m \in Writes : write'[m] = "accepted" <=> w[m] = "accepted"
    BY Rejected
  <1>2. QED
    BY <1>1 DEF WritesKept, WritesSettled

LEMMA WritesMove ==
    ASSUME HandleInv, [HandleNext]_handleVars
    PROVE  WritesKept /\ (WritesSettled => WritesSettled')
  <1> DEFINE Good == WritesKept /\ (WritesSettled => WritesSettled')
  <1>1. /\ write \in [Writes -> Statuses({"validating"})]
        /\ state # "open" => inClosed
    BY DEF HandleInv, SessionOK, InputOK
  <1>2. ASSUME UNCHANGED <<write, inClosed>> PROVE Good
    BY <1>2 DEF WritesKept, WritesSettled
  <1>3. ASSUME NEW e \in TerminalErrors, NEW s, Fail(e, write, s) PROVE Good
    BY <1>1, <1>3, EndOfWrites DEF Fail, Terminate
  <1>4. ASSUME NEW e \in TerminalErrors, FireError(e) PROVE Good
    BY <1>2, <1>3, <1>4 DEF FireError, handleVars, inputSide
  <1>5. CASE CloseOutput
    BY <1>1, <1>2, <1>5, EndOfWrites DEF CloseOutput, Terminate, FlowErrors, handleVars, inputSide
  <1>6. ASSUME NEW m \in Writes, write[m] # "accepted", NEW v, write' = [write EXCEPT ![m] = v],
               v \in {"validating", "parked", "accepted"} \/ inClosed, inClosed' = inClosed
        PROVE  Good
    BY <1>1, <1>6 DEF WritesKept, WritesSettled
  <1>7. ASSUME NEW m \in Writes, Write(m) \/ Validated(m) PROVE Good
    <2>1. write[m] # "accepted" /\ inClosed' = inClosed
      BY <1>7 DEF Write, Validated
    <2>2. CASE Enqueue(m)
      BY <1>6, <2>1, <2>2 DEF Enqueue
    <2>3. CASE Unwritable /\ RefuseWrite(m)
      BY <1>1, <1>6, <2>1, <2>3 DEF Unwritable, RefuseWrite
    <2>4. CASE write' = [write EXCEPT ![m] = "validating"]
      BY <1>6, <2>1, <2>4
    <2>5. QED
      BY <1>7, <2>2, <2>3, <2>4 DEF Write, Validated
  <1>8. ASSUME NEW m \in Writes, Invalid(m) PROVE Good
    <2>1. write[m] = "validating" /\ "ERR_VALIDATION" \in TerminalErrors
      BY <1>8 DEF Invalid, TerminalErrors
    <2>2. CASE state = "open"
      <3>1. PICK w : w = [write EXCEPT ![m] = "ERR_VALIDATION"]
        OBVIOUS
      <3>2. write' = RejectParked(w, "ERR_VALIDATION") /\ inClosed'
        BY <1>8, <2>2, <3>1 DEF Invalid, Fail, Terminate
      <3>3. /\ w \in [Writes -> Statuses({"validating"})]
            /\ \A k \in Writes : write[k] = "accepted" => w[k] = "accepted"
        BY <1>1, <2>1, <3>1 DEF Statuses
      <3>4. QED
        BY <2>1, <3>2, <3>3, EndOfWrites
    <2>3. CASE state # "open"
      BY <1>1, <1>6, <1>8, <2>1, <2>3 DEF Invalid
    <2>4. QED
      BY <2>2, <2>3
  <1>9. CASE Close
    BY <1>1, <1>9, EndOfWrites DEF Close, FlowErrors
  <1>10. CASE Claim \/ Pull \/ SingleRead \/ SingleFirst \/ SetHeader \/ SetTrailer
    BY <1>2, <1>10 DEF Claim, Pull, SingleRead, SingleFirst, SetHeader, SetTrailer, inputSide
  <1>11. CASE CancelSession \/ Abandon
    BY <1>3, <1>11 DEF CancelSession, Abandon, TerminalErrors, AbortErrors
  <1>12. CASE SingleSecond
    BY <1>2, <1>3, <1>12 DEF SingleSecond, TerminalErrors, AbortErrors, inputSide
  <1>13. CASE ExternalAbort
    BY <1>4, <1>13 DEF ExternalAbort, TerminalErrors
  <1>14. CASE BindingRead
    <2>1. inClosed' = inClosed
      BY <1>14 DEF BindingRead
    <2>2. parkedWrites # <<>> => Head(parkedWrites) \in Elements(parkedWrites)
      BY EmptySeq, LenProperties DEF HandleInv, InputOK, Elements
    <2>3. \A m \in Elements(parkedWrites) : m \in Writes /\ write[m] = "parked"
      BY DEF HandleInv, InputOK
    <2>4. write' = write \/ \E m \in Writes : write[m] = "parked" /\ write' = [write EXCEPT ![m] = "accepted"]
      BY <1>14, <2>2, <2>3 DEF BindingRead
    <2>5. QED
      BY <1>2, <1>6, <2>1, <2>4
  <1>15. ASSUME NEW n \in Emits, EmitOutput(n) PROVE Good
    BY <1>2, <1>15 DEF EmitOutput, inputSide
  <1>16. ASSUME NEW e \in BindingErrors, FireError(e) PROVE Good
    BY <1>4, <1>16 DEF TerminalErrors
  <1>17. CASE UNCHANGED handleVars
    BY <1>2, <1>17 DEF handleVars, inputSide
  <1>18. QED
    BY <1>5, <1>7, <1>8, <1>9, <1>10, <1>11, <1>12, <1>13, <1>14, <1>15, <1>16, <1>17
       DEF HandleNext, CallerNext, ConsumerNext, BindingNext

-----------------------------------------------------------------------------
(* The run and the facade *)

\* The signal aborts with whatever ends the session, and with nothing else.
Signalled == aborted \in BOOLEAN /\ (aborted <=> state # "open")

\* Before the exchange nothing is sent and nothing is produced.
BeforeExchange == {"start", "read", "reading", "got", "plan", "body", "assemble",
                   "transport", "secure"}
Untouched == /\ dispatched \in Nat
             /\ pc \in BeforeExchange =>
                  dispatched = 0 /\ received = <<>> /\ outQ = <<>>

\* A refusal is the run's last act, and a request for context its first too.
Refused == /\ terminal \in Refusals =>
                pc = "done" /\ dispatched = 0 /\ received = <<>> /\ outQ = <<>>
           /\ terminal = "CONTEXT_REQUIRED" => pulled = <<>> /\ ~ready

\* Input is taken, and waited for, only when the preflight has passed.
Unread == /\ pc = "start" => ~ready
          /\ pc \in BeforeExchange \ {"start"} => ready
          /\ ~ready => pulled = <<>> /\ ~readParked

RefusalInv == Untouched /\ Refused /\ Unread /\ op \in OperationType

USE DEF Go, FailWith, BodyAwaits, BeforeExchange

-----------------------------------------------------------------------------
(* What the session's operations may do to what the proofs are about.      *)

\* What ends the session aborts its signal; it takes and gives nothing.
LEMMA TerminateEffect ==
  ASSUME NEW st, NEW e, NEW p, st # "open", Terminate(st, e, p)
  PROVE  /\ terminal' = e
         /\ readParked' => readParked
         /\ UNCHANGED <<pulled, outQ, received>>
         /\ Signalled'
BY DEF Terminate, Signalled

\* An error ends the session or finds it ended; it takes and gives nothing.
LEMMA FireErrorEffect ==
  ASSUME NEW e, FireError(e)
  PROVE  /\ terminal' = terminal \/ terminal' = e
         /\ readParked' => readParked
         /\ UNCHANGED <<pulled, outQ, received>>
         /\ Signalled => Signalled'
BY TerminateEffect DEF FireError, Fail, handleVars, session, inputSide, outputSide, Signalled

\* The end of the outputs is no error, and takes and gives nothing.
LEMMA CloseOutputEffect ==
  ASSUME CloseOutput
  PROVE  /\ terminal' = terminal \/ terminal' = NoError
         /\ readParked' => readParked
         /\ UNCHANGED <<pulled, outQ, received>>
         /\ Signalled => Signalled'
BY DEF CloseOutput, Terminate, handleVars, session, inputSide, outputSide,
       Signalled

\* The end of the inputs takes and gives nothing.
LEMMA CloseInputEffect ==
  ASSUME CloseInput
  PROVE  /\ readParked' => readParked
         /\ UNCHANGED <<state, aborted, terminal, pulled, outQ, received>>
BY DEF CloseInput, Close, handleVars, session, inputSide, outputSide

\* Whatever the caller and the consumer do, they refuse nothing, give no HTTP
\* evidence, produce nothing, and feed a run only what it waits for.
UserEffect ==
  /\ terminal' = terminal \/ terminal' \notin Refusals \cup {"ERR_HTTP"}
  /\ outQ = <<>> => outQ' = <<>> /\ received' = received
  /\ readParked' => readParked
  /\ pulled' = pulled \/ readParked
  /\ Signalled => Signalled'

LEMMA CallerEffect == CallerNext => UserEffect
<1> USE DEF UserEffect, handleVars, session, inputSide, outputSide
<1>1. ASSUME NEW m \in Writes, Write(m) PROVE UserEffect
  BY <1>1 DEF Write, Enqueue, RefuseWrite, Signalled
<1>2. ASSUME NEW m \in Writes, Validated(m) PROVE UserEffect
  BY <1>2 DEF Validated, Enqueue, RefuseWrite, Signalled
<1>3. ASSUME NEW m \in Writes, Invalid(m) PROVE UserEffect
  BY <1>3, TerminateEffect DEF Fail, Invalid, Refusals, Signalled
<1>4. ASSUME Close PROVE UserEffect
  BY <1>4 DEF Close, Signalled
<1>5. ASSUME CancelSession PROVE UserEffect
  BY <1>5, TerminateEffect DEF Fail, CancelSession, Refusals, Signalled
<1>6. ASSUME ExternalAbort PROVE UserEffect
  BY <1>6, FireErrorEffect DEF ExternalAbort, AbortErrors, Refusals
<1>. QED
  BY <1>1, <1>2, <1>3, <1>4, <1>5, <1>6 DEF CallerNext

LEMMA ConsumerEffect == ConsumerNext => UserEffect
<1> USE DEF UserEffect, handleVars, session, inputSide, outputSide
<1>1. ASSUME Claim PROVE UserEffect
  BY <1>1 DEF Claim, Signalled
<1>2. ASSUME Pull PROVE UserEffect
  BY <1>2 DEF Pull, ReadNext, Signalled
<1>3. ASSUME Abandon PROVE UserEffect
  BY <1>3, TerminateEffect DEF Fail, Abandon, CancelSession, Refusals, Signalled
<1>4. ASSUME SingleRead PROVE UserEffect
  BY <1>4 DEF SingleRead, ReadNext, Signalled
<1>5. ASSUME SingleFirst PROVE UserEffect
  BY <1>5 DEF SingleFirst, Signalled
<1>6. ASSUME SingleSecond PROVE UserEffect
  <2>1. CASE Fail("ERR_CANCELLED", write, "ERR_EXPECTED_SINGLE")
    BY <2>1, TerminateEffect DEF Fail, Refusals, Signalled
  <2>2. CASE UNCHANGED <<session, inputSide, outQ, received>>
    BY <2>2 DEF Signalled
  <2>. QED
    BY <1>6, <2>1, <2>2 DEF SingleSecond
<1>. QED
  BY <1>1, <1>2, <1>3, <1>4, <1>5, <1>6 DEF ConsumerNext

-----------------------------------------------------------------------------
(* Every step of the client is a step of the run or leaves it alone.       *)

\* The client writes, closes, reads and cancels as any caller and consumer, and
\* what it observes of a run does not change the run.
LEMMA ClientRuns == [ClientNext]_allVars => [RunNext]_vars
<1> SUFFICES ASSUME [ClientNext]_allVars PROVE RunNext \/ UNCHANGED vars
  OBVIOUS
<1>1. CASE Begin \/ Started \/ Race \/ AwaitEnd \/ Caught \/ Collected
  BY <1>1 DEF Begin, Started, Race, AwaitEnd, Caught, Collected
<1>2. CASE Send
  <2>1. 1 \in Writes
    BY HandleAssumption, ClientAssumption DEF Writes
  <2>. QED
    BY <1>2, <2>1 DEF Send, RunNext, UserStep, CallerNext, vars
<1>3. CASE Sent
  BY <1>3 DEF Sent, CloseInput, RunNext, UserStep, CallerNext, vars
<1>4. CASE Stream2xx
  BY <1>4 DEF Stream2xx, RunNext, UserStep, CallerNext, ConsumerNext, vars
<1>5. CASE Collect
  BY <1>5 DEF Collect, RunNext, UserStep, ConsumerNext
<1>6. CASE ApplicationStep
  BY <1>6 DEF ApplicationStep, RunNext, UserStep, CallerNext, ConsumerNext
<1>7. CASE RunStep
  BY <1>7 DEF RunStep, QuietStep, Observed, Unobserved, StopsAfterRedirects,
              Classified, RunNext, OwnStep, PeerStep
<1>8. CASE UNCHANGED allVars
  BY <1>8 DEF allVars
<1>. QED
  BY <1>1, <1>2, <1>3, <1>4, <1>5, <1>6, <1>7, <1>8 DEF ClientNext, ClientStep

-----------------------------------------------------------------------------
(* Nothing is sent after the end.                                          *)

\* Only the transport aborts and only the session ends, and each does both.
LEMMA StepSignalled == Signalled /\ [RunNext]_vars => Signalled'
<1> SUFFICES ASSUME Signalled, [RunNext]_vars PROVE Signalled'
  OBVIOUS
<1> USE DEF handleVars, session, inputSide, outputSide
<1>1. CASE UserStep
  BY <1>1, CallerEffect, ConsumerEffect DEF UserStep, UserEffect
<1>2. CASE Preflight \/ TakeInput
  BY <1>2, FireErrorEffect, CloseInputEffect DEF Preflight, TakeInput, Signalled
<1>3. CASE ReadFirst
  BY <1>3 DEF ReadFirst, BindingRead, Signalled
<1>4. CASE DecodeBody \/ Chunk
  BY <1>4, FireErrorEffect DEF DecodeBody, Chunk, PeerSpeaks, EmitOutput, Signalled
<1>5. CASE Headers
  BY <1>5, TerminateEffect DEF Fail, Headers, SetHeader, Signalled
<1>6. CASE Complete
  BY <1>6, CloseOutputEffect DEF Complete
<1>7. CASE Plan \/ TryCandidate \/ Assemble \/ ChooseTransport \/ SecurityHandler
  BY <1>7, FireErrorEffect
     DEF Plan, TryCandidate, Assemble, ChooseTransport, SecurityHandler, Signalled
<1>8. CASE NoResponse \/ FollowRedirect \/ Buffer \/ FailureBody
  BY <1>8, FireErrorEffect DEF NoResponse, FollowRedirect, Buffer, FailureBody, Signalled
<1>11. CASE Peek
  BY <1>11, FireErrorEffect DEF Peek, Signalled
<1>12. CASE Classify
  <2>1. CASE UNCHANGED handleVars
    BY <2>1 DEF Signalled
  <2>2. CASE FireError("ERR_RUNTIME") \/ FireError("ERR_HTTP")
    BY <2>2, FireErrorEffect
  <2>. QED
    BY <1>12, <2>1, <2>2 DEF Classify
<1>9. CASE InputArrives \/ Dispatch \/ AbortInFlight \/ AbortedBody \/ Response \/ Emitted
  BY <1>9 DEF InputArrives, Dispatch, AbortInFlight, AbortedBody, Response, Emitted,
              Signalled
<1>10. CASE UNCHANGED vars
  BY <1>10 DEF vars, Signalled
<1>. QED
  BY <1>1, <1>2, <1>3, <1>4, <1>5, <1>6, <1>7, <1>8, <1>9, <1>10,
     <1>11, <1>12 DEF RunNext, OwnStep, PeerStep

\* Requests are counted one at a time, and only while no signal has aborted.
LEMMA StepCounts ==
  ASSUME dispatched \in Nat, [RunNext]_vars
  PROVE  \/ dispatched' = dispatched
         \/ dispatched' = dispatched + 1 /\ ~aborted
<1>1. CASE UserStep
  BY <1>1 DEF UserStep, runVars
<1>2. CASE Dispatch \/ FollowRedirect
  BY <1>2 DEF Dispatch, FollowRedirect
<1>3. CASE OwnStep /\ ~Dispatch
  BY <1>3 DEF OwnStep, Preflight, ReadFirst, InputArrives, TakeInput, Plan,
              TryCandidate, Assemble, ChooseTransport, SecurityHandler,
              AbortInFlight, AbortedBody, Headers, Classify, Complete, DecodeBody, Emitted
<1>4. CASE PeerStep /\ ~FollowRedirect
  BY <1>4 DEF PeerStep, NoResponse, Response, Buffer, Peek, FailureBody, Chunk
<1>5. CASE UNCHANGED vars
  BY <1>5 DEF vars, runVars
<1>. QED
  BY <1>1, <1>2, <1>3, <1>4, <1>5 DEF RunNext

\* A cancelled or failed invocation sends nothing more (invoke.ts, runBinding and
\* dispatchWithSafeRedirects; host-transport.ts): a session that has ended sees no further dispatch, however
\* the client, the application and the peer go on.
THEOREM EndedRunsAreSilent == ClientSpec => NothingSentAfterTheEnd
<1> DEFINE Silent == Signalled /\ dispatched \in Nat
<1>1. ClientInit => Silent
  <2> SUFFICES ASSUME ClientInit PROVE Silent
    OBVIOUS
  <2>1. dispatched = 0 /\ HandleInit
    BY DEF ClientInit, RunInit
  <2>2. Signalled
    BY <2>1 DEF HandleInit, Signalled
  <2>. QED
    BY <2>1, <2>2
<1>2. Silent /\ [ClientNext]_allVars => Silent'
  <2> SUFFICES ASSUME Silent, [RunNext]_vars PROVE Silent'
    BY ClientRuns
  <2>. QED
    BY StepSignalled, StepCounts
<1>3. Silent /\ [ClientNext]_allVars => [dispatched' > dispatched => state = "open"]_vars
  <2> SUFFICES ASSUME Silent, [RunNext]_vars, dispatched' > dispatched PROVE state = "open"
    BY ClientRuns
  <2>. QED
    BY StepCounts DEF Signalled
<1>. QED
  BY <1>1, <1>2, <1>3, PTL DEF ClientSpec, NothingSentAfterTheEnd

-----------------------------------------------------------------------------
(* Refusals touch nothing.                                                 *)

LEMMA InitRefusal == ClientInit => RefusalInv
<1> SUFFICES ASSUME ClientInit PROVE RefusalInv
  OBVIOUS
<1>1. /\ HandleInit /\ pc = "start" /\ ready = FALSE /\ dispatched = 0
  BY DEF ClientInit, RunInit
<1>2. /\ received = <<>> /\ outQ = <<>> /\ pulled = <<>> /\ readParked = FALSE
      /\ terminal \in AbortErrors \cup {NoError}
  BY <1>1 DEF HandleInit
<1>3. op \in OperationType
  BY RunAssumption DEF ClientInit, RunInit
<1>. QED
  BY <1>1, <1>2, <1>3 DEF RefusalInv, Untouched, Refused, Unread, AbortErrors, NoError, Refusals

\* Under the preflight's gates and the choices of a plan only a refusal or a step
\* on is possible; what happens later cannot be taken for a refusal.
LEMMA StepRefusal == RefusalInv /\ [RunNext]_vars => RefusalInv'
<1> SUFFICES ASSUME RefusalInv, [RunNext]_vars PROVE RefusalInv'
  OBVIOUS
<1> USE DEF RefusalInv, Untouched, Refused, Unread, Refusals, handleVars, session,
            inputSide, outputSide, runVars
<1>1. CASE UserStep
  <2>1. UserEffect /\ UNCHANGED runVars
    BY <1>1, CallerEffect, ConsumerEffect DEF UserStep
  <2>. QED
    BY <2>1 DEF UserEffect
<1>2. CASE Preflight
  <2>1. CASE UNCHANGED ready
    BY <1>2, <2>1, FireErrorEffect DEF Preflight
  <2>2. CASE ready' = TRUE
    BY <1>2, <2>2, CloseInputEffect DEF Preflight
  <2>. QED
    BY <1>2, <2>1, <2>2 DEF Preflight
<1>3. CASE ReadFirst
  BY <1>3 DEF ReadFirst, BindingRead
<1>4. CASE TakeInput
  BY <1>4, CloseInputEffect DEF TakeInput
<1>5. CASE Plan \/ TryCandidate \/ Assemble \/ ChooseTransport \/ SecurityHandler
  BY <1>5, FireErrorEffect
     DEF Plan, TryCandidate, Assemble, ChooseTransport, SecurityHandler
<1>6. CASE NoResponse \/ FollowRedirect \/ Buffer \/ FailureBody
  BY <1>6, FireErrorEffect DEF NoResponse, FollowRedirect, Buffer, FailureBody, PeerSpeaks
<1>7. CASE Peek
  <2>1. op' \in OperationType
    BY <1>7 DEF Peek, OperationType
  <2>. QED
    BY <1>7, <2>1, FireErrorEffect DEF Peek, PeerSpeaks
<1>8. CASE Classify
  <2>1. UNCHANGED <<op, ready, dispatched>> /\ pc = "classify"
    BY <1>8 DEF Classify
  <2>2. CASE UNCHANGED handleVars /\ pc' \in {"failureBody", "complete", "decode", "chunk"}
    BY <2>1, <2>2
  <2>3. CASE pc' = "done" /\ (FireError("ERR_RUNTIME") \/ FireError("ERR_HTTP"))
    BY <2>1, <2>3, FireErrorEffect
  <2>4. op.kind \in {"head", "empty", "unary", "stream"}
    BY DEF OperationType
  <2>. QED
    BY <1>8, <2>2, <2>3, <2>4 DEF Classify
<1>9. CASE Headers
  BY <1>9, TerminateEffect DEF Headers, SetHeader, Fail
<1>10. CASE DecodeBody \/ Chunk
  BY <1>10, FireErrorEffect DEF DecodeBody, Chunk, PeerSpeaks, EmitOutput
<1>11. CASE Complete
  BY <1>11, CloseOutputEffect DEF Complete, NoError
<1>12. CASE InputArrives \/ Dispatch \/ AbortInFlight \/ AbortedBody \/ Response \/ Emitted
  BY <1>12 DEF InputArrives, Dispatch, AbortInFlight, AbortedBody, Response, Emitted
<1>13. CASE UNCHANGED vars
  BY <1>13 DEF vars
<1>. QED
  BY <1>1, <1>2, <1>3, <1>4, <1>5, <1>6, <1>7, <1>8, <1>9, <1>10, <1>11, <1>12,
     <1>13 DEF RunNext, OwnStep, PeerStep

\* "ERR_REFUSED is the binding-invoker contract's never-dispatched guarantee": a
\* refused call has sent and produced nothing, and one that asks for context has
\* not taken its input, so that it can be made again (invoke.ts, runBinding).
THEOREM RefusalsAreClean == ClientSpec => []RefusalsTouchNothing
<1>1. RefusalInv /\ [ClientNext]_allVars => RefusalInv'
  BY ClientRuns, StepRefusal
<1>2. RefusalInv => RefusalsTouchNothing
  <2>1. <<>> \o <<>> = <<>>
    OBVIOUS
  <2>. QED
    BY <2>1 DEF RefusalInv, Refused, Unread, RefusalsTouchNothing
<1>. QED
  BY InitRefusal, <1>1, <1>2, PTL DEF ClientSpec

-----------------------------------------------------------------------------
(* A run is a binding: each of its steps is one of its session's, so the   *)
(* session's invariant holds under every run.                              *)

\* What none but an emit, a header or the good end does to a session.
Quiet == /\ \A n \in Emits : emit'[n] = "idle" <=> emit[n] = "idle"
         /\ state' = "closed" => state = "closed"
         /\ state' = "open" => header' = header

LEMMA FailQuiet ==
  ASSUME HandleInv, NEW e \in TerminalErrors, NEW w, NEW s, Fail(e, w, s)
  PROVE  Quiet /\ state' = "errored"
<1>1. emit' = RejectParked(emit, e) /\ state' = "errored"
  BY DEF Fail, Terminate
<1>2. \A n \in Emits : emit'[n] = "idle" <=> emit[n] = "idle"
  BY <1>1, Rejected DEF HandleInv, OutputOK
<1>. QED
  BY <1>1, <1>2 DEF Quiet

LEMMA FireErrorQuiet ==
  ASSUME HandleInv, NEW e \in TerminalErrors, FireError(e)
  PROVE  Quiet /\ state' # "open"
BY FailQuiet DEF FireError, Quiet, handleVars, session, outputSide

LEMMA StillQuiet == UNCHANGED <<state, header, emit>> => Quiet
BY DEF Quiet

\* A pull may accept a waiting emit, which was called before.
LEMMA ReadNextQuiet ==
  ASSUME HandleInv, ReadNext, UNCHANGED session
  PROVE  Quiet
<1>1. \/ emit' = emit
      \/ \E k \in Emits : emit[k] = "parked" /\ emit' = [emit EXCEPT ![k] = "accepted"]
  <2>1. parkedEmits # <<>> => Head(parkedEmits) \in Elements(parkedEmits)
    BY EmptySeq, LenProperties DEF HandleInv, OutputOK, Elements
  <2>2. \A k \in Elements(parkedEmits) : k \in Emits /\ emit[k] = "parked"
    BY DEF HandleInv, OutputOK
  <2>. QED
    BY <2>1, <2>2 DEF ReadNext
<1>2. emit \in [Emits -> Statuses({})]
  BY DEF HandleInv, OutputOK
<1>3. \A n \in Emits : emit'[n] = "idle" <=> emit[n] = "idle"
  BY <1>1, <1>2
<1>. QED
  BY <1>3 DEF Quiet, session

LEMMA UserQuiet ==
  ASSUME HandleInv, CallerNext \/ ConsumerNext
  PROVE  Quiet
<1>1. ASSUME CancelSession PROVE Quiet
  BY <1>1, FailQuiet DEF CancelSession, TerminalErrors, AbortErrors
<1>2. ASSUME NEW m \in Writes, Write(m) \/ Validated(m) \/ Invalid(m) PROVE Quiet
  <2>1. CASE Write(m) \/ Validated(m)
    BY <2>1, StillQuiet DEF Write, Validated, session, outputSide
  <2>2. CASE Invalid(m)
    BY <2>2, StillQuiet, FailQuiet DEF Invalid, TerminalErrors, session, outputSide
  <2>. QED
    BY <1>2, <2>1, <2>2
<1>3. CASE Close \/ Claim \/ SingleFirst
  BY <1>3, StillQuiet DEF Close, Claim, SingleFirst, session, outputSide
<1>4. CASE ExternalAbort
  BY <1>4, FireErrorQuiet DEF ExternalAbort, TerminalErrors
<1>5. CASE Pull \/ SingleRead
  BY <1>5, ReadNextQuiet DEF Pull, SingleRead
<1>6. CASE Abandon
  BY <1>1, <1>6 DEF Abandon
<1>7. CASE SingleSecond
  BY <1>7, StillQuiet, FailQuiet DEF SingleSecond, TerminalErrors, AbortErrors, session
<1>. QED
  BY <1>1, <1>2, <1>3, <1>4, <1>5, <1>6, <1>7 DEF CallerNext, ConsumerNext

LEMMA CloseInputQuiet == CloseInput => Quiet
BY StillQuiet DEF CloseInput, Close, handleVars, session, outputSide

LEMMA RunErrorsAreErrors == RunErrors \subseteq TerminalErrors
BY RunAssumption DEF TerminalErrors

\* An output is emitted by an open call of the session's emitOutput.
LEMMA RunIsHandle ==
  ASSUME [RunNext]_vars, item \in 0..MaxEmits, pc = "decode" => item = 0
  PROVE  [HandleNext]_handleVars
<1>1. ASSUME NEW e \in RunErrors, FireError(e) PROVE [HandleNext]_handleVars
  BY <1>1, RunAssumption DEF HandleNext, BindingNext
<1>2. CASE UserStep
  BY <1>2 DEF UserStep, HandleNext
<1>3. ASSUME CloseInput PROVE [HandleNext]_handleVars
  BY <1>3 DEF CloseInput, HandleNext, CallerNext
<1>4. CASE UNCHANGED handleVars
  BY <1>4
<1>5. CASE Preflight
  <2>1. \A i \in DOMAIN Gates : Gates[i].code \in RunErrors
    BY DEF Gates, RunErrors, Refusals
  <2>. QED
    BY <1>1, <1>3, <1>5, <2>1 DEF Preflight
<1>6. CASE ReadFirst
  BY <1>6 DEF ReadFirst, HandleNext, BindingNext
<1>7. CASE TakeInput
  BY <1>3, <1>7 DEF TakeInput
<1>8. CASE Plan \/ TryCandidate \/ Assemble \/ ChooseTransport \/ SecurityHandler
  BY <1>1, <1>8 DEF Plan, TryCandidate, Assemble, ChooseTransport, SecurityHandler, RunErrors, Refusals
<1>9. CASE NoResponse \/ FollowRedirect \/ Buffer \/ FailureBody \/ Peek
  BY <1>1, <1>9 DEF NoResponse, FollowRedirect, Buffer, FailureBody, Peek, RunErrors
<1>10. CASE Classify
  <2>1. CASE UNCHANGED handleVars
    BY <2>1
  <2>2. CASE FireError("ERR_RUNTIME") \/ FireError("ERR_HTTP")
    BY <1>1, <2>2 DEF RunErrors
  <2>. QED
    BY <1>10, <2>1, <2>2 DEF Classify
<1>11. CASE Headers
  <2>1. CASE state = "open" /\ Fail("ERR_PROTOCOL", write, single)
    BY <1>1, <2>1 DEF FireError, RunErrors
  <2>. QED
    BY <1>11, <2>1 DEF Headers, HandleNext, BindingNext
<1>12. CASE Complete
  BY <1>12 DEF Complete, HandleNext, BindingNext
<1>13. CASE DecodeBody \/ Chunk
  <2>1. CASE EmitOutput(item + 1) /\ item + 1 \in Emits
    BY <2>1 DEF HandleNext, BindingNext
  <2>2. (DecodeBody => item = 0) /\ MaxEmits \in Nat \ {0}
    BY RunAssumption, HandleAssumption DEF DecodeBody
  <2>3. item + 1 \in Emits \/ ~(item < MaxEmits)
    BY <2>2 DEF Emits
  <2>. QED
    BY <1>1, <1>13, <2>1, <2>2, <2>3 DEF DecodeBody, Chunk, RunErrors
<1>14. CASE InputArrives \/ Dispatch \/ AbortInFlight \/ AbortedBody \/ Response \/ Emitted
  BY <1>14 DEF InputArrives, Dispatch, AbortInFlight, AbortedBody, Response, Emitted
<1>15. CASE UNCHANGED vars
  BY <1>15 DEF vars
<1>. QED
  BY <1>2, <1>5, <1>6, <1>7, <1>8, <1>9, <1>10, <1>11, <1>12, <1>13, <1>14, <1>15
     DEF RunNext, OwnStep, PeerStep

-----------------------------------------------------------------------------
(* Outputs are evidence, and a run that is over has ended its invocation.  *)

\* How far a run is: nothing is emitted before the body is decoded, and the
\* header is free until the response's is set.
HeaderFree == BeforeExchange \cup {"flight", "buffer", "headers"}
Early == HeaderFree \cup {"peek", "classify", "failureBody", "decode"}

\* A response answers a request, and only a success has outputs.
ProgressOK ==
    /\ dispatched \in Nat /\ (pc \in BeforeExchange => dispatched = 0)
    /\ pc \in Early => item = 0
    /\ pc = "flight" => dispatched > 0 \/ state # "open"
    /\ pc \notin BeforeExchange \cup {"flight", "done"} => dispatched > 0
    /\ item > 0 => verdict = "success" /\ dispatched > 0
    /\ dispatched <= (IF op.redirect = "follow" THEN MaxHops ELSE 1)
    /\ pc \in {"decode", "chunk", "emit", "complete"} => verdict = "success"
    /\ pc = "decode" => op.kind = "unary"
    /\ pc = "chunk" => op.kind = "stream"
    /\ pc = "emit" => item > 0 /\ (op.kind = "stream" \/ (op.kind = "unary" /\ item = 1))
    /\ pc = "peek" => op.kind = "stream"

\* The outputs of a completed response.
Whole == /\ verdict = "success"
         /\ op.kind = "unary" => item = 1
         /\ op.kind \in {"head", "empty"} => item = 0
         /\ \A n \in Emits : n <= item => emit[n] = "accepted"

\* Outputs are emitted one after the other.
EmitsOK ==
    /\ \A n \in Emits : emit[n] = "idle" <=> n > item
    /\ \A n \in Emits : n < item => emit[n] = "accepted"
    /\ pc = "chunk" => \A n \in Emits : n <= item => emit[n] = "accepted"
    /\ pc = "complete" => Whole

\* What ends with the invocation, and what the run waits for while it is open.
EndOK ==
    /\ pc = "done" => state # "open"
    /\ state = "closed" => pc = "done" /\ Whole
    /\ pc \in HeaderFree /\ state = "open" => header = "unset"
    /\ pc = "reading" /\ ~readParked => readEnd # "none"
    /\ pc = "got" => readEnd # "none"

RunInv == /\ HandleInv /\ SettledOK /\ Signalled
          /\ RunTypeOK /\ op \in OperationType
          /\ ProgressOK /\ EmitsOK /\ EndOK

\* Each step of a run moves it on as far as its answers and its outputs allow.
LEMMA StepProgress ==
  ASSUME RunInv, Moves, [RunNext]_vars
  PROVE  RunTypeOK' /\ op' \in OperationType /\ ProgressOK'
<1> DEFINE Good == RunTypeOK' /\ op' \in OperationType /\ ProgressOK'
<1> USE DEF HeaderFree, Early
<1>1. /\ RunTypeOK /\ op \in OperationType /\ ProgressOK /\ Signalled
      /\ state # "open" => state' # "open"
      /\ MaxHops \in Nat \ {0} /\ MaxEmits \in Nat \ {0}
  BY RunAssumption, HandleAssumption DEF RunInv, Moves
<1>2. op.kind \in {"head", "empty", "unary", "stream"}
  BY <1>1 DEF OperationType
<1>3. ASSUME UNCHANGED runVars PROVE Good
  BY <1>1, <1>3 DEF RunTypeOK, ProgressOK, runVars
<1>4. ASSUME pc \in BeforeExchange, pc' \in BeforeExchange \cup {"done"}, candidate' \in Nat, handler' \in Nat,
             ready' \in BOOLEAN, UNCHANGED <<op, dispatched, verdict, item>>
      PROVE  Good
  BY <1>1, <1>4 DEF RunTypeOK, ProgressOK
<1>5. ASSUME pc \notin BeforeExchange, pc' = "done",
             UNCHANGED <<op, ready, candidate, handler, dispatched, item>>,
             \/ verdict' = verdict
             \/ verdict' \in {"none", "success", "failure"} /\ pc = "classify"
      PROVE  Good
  BY <1>1, <1>5 DEF RunTypeOK, ProgressOK
<1>6. CASE Preflight \/ ReadFirst \/ InputArrives \/ TakeInput \/ Plan \/ TryCandidate \/ Assemble
             \/ ChooseTransport \/ SecurityHandler
  <2>1. candidate \in Nat /\ handler \in Nat /\ ready \in BOOLEAN
    BY <1>1 DEF RunTypeOK
  <2>2. CASE Preflight \/ ReadFirst \/ InputArrives \/ TakeInput
    BY <1>4, <2>1, <2>2 DEF Preflight, ReadFirst, InputArrives, TakeInput
  <2>3. CASE Plan \/ TryCandidate \/ Assemble \/ ChooseTransport \/ SecurityHandler
    BY <1>4, <2>1, <2>3 DEF Plan, TryCandidate, Assemble, ChooseTransport, SecurityHandler
  <2>. QED
    BY <1>6, <2>2, <2>3
<1>7. CASE Dispatch
  <2>1. aborted => state' # "open"
    BY <1>1 DEF Signalled
  <2>. QED
    BY <1>1, <1>7, <2>1 DEF Dispatch, RunTypeOK, ProgressOK
<1>8. CASE AbortInFlight \/ NoResponse \/ AbortedBody
  BY <1>5, <1>8 DEF AbortInFlight, NoResponse, AbortedBody
<1>9. CASE FollowRedirect
  <2>1. CASE dispatched < MaxHops
    BY <1>1, <1>9, <2>1 DEF FollowRedirect, RunTypeOK, ProgressOK
  <2>2. CASE ~(dispatched < MaxHops)
    BY <1>5, <1>9, <2>2 DEF FollowRedirect
  <2>. QED
    BY <2>1, <2>2
<1>10. CASE Response
  <2>1. dispatched > 0
    BY <1>1, <1>10 DEF Response, Signalled, ProgressOK
  <2>. QED
    BY <1>1, <1>2, <1>10, <2>1 DEF Response, RunTypeOK, ProgressOK
<1>11. CASE Buffer
  BY <1>1, <1>5, <1>11 DEF Buffer, PeerSpeaks, RunTypeOK, ProgressOK
<1>12. CASE Headers
  BY <1>1, <1>5, <1>12 DEF Headers, RunTypeOK, ProgressOK
<1>13. CASE Peek
  <2>1. CASE pc' = "done"
    BY <1>5, <1>13, <2>1 DEF Peek, PeerSpeaks
  <2>2. CASE pc' = "classify"
    <3>1. op' \in OperationType /\ op'.redirect = op.redirect
      BY <1>1, <1>13, <2>2 DEF Peek, OperationType
    <3>. QED
      BY <1>1, <1>13, <2>2, <3>1 DEF Peek, PeerSpeaks, RunTypeOK, ProgressOK
  <2>. QED
    BY <1>13, <2>1, <2>2 DEF Peek
<1>14. CASE Classify
  <2>1. UNCHANGED <<op, ready, candidate, handler, dispatched, item>> /\ pc = "classify"
    BY <1>14 DEF Classify
  <2>2. CASE pc' = "done" /\ (verdict' = verdict \/ verdict' = "failure")
    BY <1>5, <2>1, <2>2
  <2>3. CASE pc' = "failureBody" /\ verdict' = "failure"
    BY <1>1, <2>1, <2>3 DEF RunTypeOK, ProgressOK
  <2>4. CASE /\ verdict' = "success"
             /\ \/ op.kind \in {"head", "empty"} /\ pc' = "complete"
                \/ op.kind = "unary" /\ pc' = "decode"
                \/ op.kind = "stream" /\ pc' = "chunk"
    BY <1>1, <2>1, <2>4 DEF RunTypeOK, ProgressOK
  <2>. QED
    BY <1>2, <1>14, <2>2, <2>3, <2>4 DEF Classify
<1>15. CASE FailureBody \/ Complete
  BY <1>5, <1>15 DEF FailureBody, Complete, PeerSpeaks
<1>16. CASE DecodeBody
  BY <1>1, <1>5, <1>16 DEF DecodeBody, RunTypeOK, ProgressOK
<1>17. CASE Chunk
  BY <1>1, <1>5, <1>17 DEF Chunk, PeerSpeaks, RunTypeOK, ProgressOK
<1>18. CASE Emitted
  BY <1>1, <1>5, <1>18 DEF Emitted, RunTypeOK, ProgressOK
<1>19. CASE UserStep \/ UNCHANGED vars
  BY <1>3, <1>19 DEF UserStep, vars
<1>. QED
  BY <1>6, <1>7, <1>8, <1>9, <1>10, <1>11, <1>12, <1>13, <1>14, <1>15, <1>16, <1>17, <1>18, <1>19
     DEF RunNext, OwnStep, PeerStep

\* What an emit does to the emits and to the end.
LEMMA EmitEffect ==
  ASSUME HandleInv, NEW n \in Emits, EmitOutput(n)
  PROVE  /\ emit'[n] # "idle" /\ \A k \in Emits : k # n => emit'[k] = emit[k]
         /\ state' = state
<1>1. emit \in [Emits -> Statuses({})] /\ state' = state
  BY DEF HandleInv, OutputOK, EmitOutput
<1>2. Ended # "idle"
  <2>1. Ended \in TerminalErrors \cup FlowErrors
    BY DEF HandleInv, SessionOK, Ended, FlowErrors
  <2>. QED
    BY <2>1, NamesOfErrors
<1>3. \E v : v # "idle" /\ emit' = [emit EXCEPT ![n] = v]
  BY <1>2 DEF EmitOutput
<1>. QED
  BY <1>1, <1>3

\* The completion of a response stays complete.
LEMMA WholeStays ==
  ASSUME Whole, Moves, UNCHANGED <<op, item, verdict>>
  PROVE  Whole'
BY DEF Whole, Moves

LEMMA StepEmits ==
  ASSUME RunInv, Moves, [RunNext]_vars
  PROVE  EmitsOK'
<1>1. /\ EmitsOK /\ ProgressOK /\ HandleInv /\ RunTypeOK /\ op \in OperationType
      /\ MaxEmits \in Nat \ {0} /\ Emits = 1..MaxEmits
  BY RunAssumption, HandleAssumption DEF RunInv, Emits
<1>2. ASSUME Quiet, item' = item,
             pc' = "chunk" => \A n \in Emits : n <= item => emit[n] = "accepted",
             pc' = "complete" => Whole'
      PROVE  EmitsOK'
  BY <1>1, <1>2 DEF EmitsOK, Quiet, Moves
<1>3. ASSUME NEW e \in RunErrors, FireError(e) PROVE Quiet
  BY <1>1, <1>3, FireErrorQuiet, RunErrorsAreErrors
<1>4. UNCHANGED handleVars => Quiet
  BY StillQuiet DEF handleVars, session, outputSide
<1>5. CASE UserStep \/ UNCHANGED vars
  <2>1. Quiet /\ UNCHANGED <<pc, op, item, verdict>>
    BY <1>1, <1>4, <1>5, UserQuiet DEF UserStep, vars, runVars
  <2>2. pc' = "complete" => Whole'
    BY <1>1, <2>1, WholeStays DEF EmitsOK
  <2>3. pc' = "chunk" => \A n \in Emits : n <= item => emit[n] = "accepted"
    BY <1>1, <2>1 DEF EmitsOK
  <2>. QED
    BY <1>2, <2>1, <2>2, <2>3
<1>6. CASE Preflight
  <2>1. \A i \in DOMAIN Gates : Gates[i].code \in RunErrors
    BY DEF Gates, RunErrors, Refusals
  <2>. QED
    BY <1>2, <1>3, <1>4, <1>6, <2>1, CloseInputQuiet DEF Preflight
<1>7. CASE ReadFirst
  BY <1>2, <1>7, StillQuiet DEF ReadFirst, BindingRead, session, outputSide
<1>8. CASE TakeInput
  BY <1>2, <1>4, <1>8, CloseInputQuiet DEF TakeInput
<1>9. CASE Plan \/ TryCandidate \/ Assemble \/ ChooseTransport \/ SecurityHandler
  BY <1>2, <1>3, <1>4, <1>9
     DEF Plan, TryCandidate, Assemble, ChooseTransport, SecurityHandler, RunErrors, Refusals
<1>10. CASE NoResponse \/ FollowRedirect \/ Buffer \/ FailureBody \/ Peek
  BY <1>2, <1>3, <1>4, <1>10
     DEF NoResponse, FollowRedirect, Buffer, FailureBody, Peek, PeerSpeaks, RunErrors
<1>11. CASE InputArrives \/ Dispatch \/ AbortInFlight \/ AbortedBody \/ Response
  BY <1>2, <1>4, <1>11 DEF InputArrives, Dispatch, AbortInFlight, AbortedBody, Response
<1>12. CASE Headers
  <2>1. CASE state = "open" /\ Fail("ERR_PROTOCOL", write, single)
    BY <1>2, <1>3, <1>12, <2>1 DEF FireError, RunErrors, Headers
  <2>2. CASE SetHeader
    BY <1>1, <1>12, <2>2 DEF Headers, SetHeader, EmitsOK, outputSide
  <2>3. CASE UNCHANGED handleVars /\ pc' = "done"
    BY <1>2, <1>4, <1>12, <2>3 DEF Headers
  <2>. QED
    BY <1>12, <2>1, <2>2, <2>3 DEF Headers
<1>13. CASE Classify
  <2>1. /\ item = 0 /\ UNCHANGED <<op, item>>
        /\ \A n \in Emits : ~(n <= item)
    BY <1>1, <1>13 DEF Classify, ProgressOK, Early
  <2>2. op.kind \in {"head", "empty", "unary", "stream"}
    BY <1>1 DEF OperationType
  <2>3. CASE pc' = "done" /\ (FireError("ERR_RUNTIME") \/ FireError("ERR_HTTP"))
    BY <1>2, <1>3, <2>1, <2>3 DEF RunErrors
  <2>4. CASE pc' = "failureBody" /\ UNCHANGED handleVars
    BY <1>2, <1>4, <2>1, <2>4
  <2>5. CASE /\ verdict' = "success" /\ UNCHANGED handleVars
             /\ \/ op.kind \in {"head", "empty"} /\ pc' = "complete"
                \/ op.kind = "unary" /\ pc' = "decode"
                \/ op.kind = "stream" /\ pc' = "chunk"
    <3>1. pc' = "complete" => Whole'
      BY <2>1, <2>5 DEF Whole
    <3>. QED
      BY <1>2, <1>4, <2>1, <2>5, <3>1
  <2>. QED
    BY <1>13, <2>2, <2>3, <2>4, <2>5 DEF Classify
<1>14. CASE Complete
  <2>1. /\ item' = item /\ pc' = "done"
        /\ emit' = emit \/ emit' = RejectParked(emit, "ERR_INVOCATION_CLOSED")
    BY <1>14 DEF Complete, CloseOutput, Terminate, handleVars, outputSide
  <2>2. \A n \in Emits : emit'[n] = "idle" <=> emit[n] = "idle"
    <3>1. emit \in [Emits -> Statuses({})] /\ "ERR_INVOCATION_CLOSED" \in TerminalErrors \cup FlowErrors
      BY <1>1 DEF HandleInv, OutputOK, FlowErrors
    <3>2. \A n \in Emits : RejectParked(emit, "ERR_INVOCATION_CLOSED")[n] = "idle" <=> emit[n] = "idle"
      BY <3>1, Rejected
    <3>. QED
      BY <2>1, <3>2
  <2>. QED
    BY <1>1, <2>1, <2>2 DEF EmitsOK, Moves
<1>15. ASSUME EmitOutput(item + 1), item + 1 \in Emits, item' = item + 1, pc' = "emit",
              \A n \in Emits : n <= item => emit[n] = "accepted"
       PROVE  EmitsOK'
  <2>1. emit'[item + 1] # "idle" /\ \A k \in Emits : k # item + 1 => emit'[k] = emit[k]
    BY <1>1, <1>15, EmitEffect
  <2>2. item \in Nat /\ Emits \subseteq Nat
    BY <1>1 DEF RunTypeOK
  <2>. QED
    BY <1>1, <1>15, <2>1, <2>2 DEF EmitsOK
<1>16. CASE DecodeBody
  <2>1. item = 0 /\ 1 \in Emits
    BY <1>1, <1>16 DEF DecodeBody, ProgressOK, Early
  <2>2. \A n \in Emits : ~(n <= item)
    BY <1>1, <2>1
  <2>. QED
    BY <1>2, <1>3, <1>15, <1>16, <2>1, <2>2 DEF DecodeBody, RunErrors
<1>17. CASE Chunk
  <2>1. /\ \A n \in Emits : n <= item => emit[n] = "accepted"
        /\ op.kind = "stream" /\ verdict = "success" /\ UNCHANGED <<op, verdict>>
    BY <1>1, <1>17 DEF Chunk, PeerSpeaks, EmitsOK, ProgressOK
  <2>2. CASE item < MaxEmits /\ item' = item + 1 /\ EmitOutput(item + 1) /\ pc' = "emit"
    <3>1. item + 1 \in Emits
      BY <1>1, <2>2 DEF RunTypeOK
    <3>. QED
      BY <1>15, <2>1, <2>2, <3>1
  <2>3. CASE pc' = "complete" /\ UNCHANGED <<handleVars, item>>
    <3>1. Whole
      BY <2>1 DEF Whole
    <3>2. Whole'
      BY <2>1, <2>3, <3>1, WholeStays
    <3>. QED
      BY <1>2, <1>4, <2>1, <2>3, <3>2
  <2>4. CASE /\ \E e \in {"ERR_STREAM_ERROR", "ERR_RESPONSE_ERROR"} : FireError(e)
             /\ pc' = "done" /\ item' = item
    BY <1>2, <1>3, <2>4 DEF RunErrors
  <2>. QED
    BY <1>17, <2>2, <2>3, <2>4 DEF Chunk
<1>18. CASE Emitted
  <2>1. UNCHANGED handleVars /\ UNCHANGED <<op, item, verdict>> /\ pc = "emit"
    BY <1>18 DEF Emitted
  <2>2. CASE emit[item] = "accepted"
    <3>1. \A n \in Emits : n <= item => emit[n] = "accepted"
      BY <1>1, <2>2 DEF EmitsOK, RunTypeOK
    <3>2. Whole
      BY <1>1, <2>1, <3>1 DEF ProgressOK, Whole
    <3>3. Whole'
      BY <2>1, <3>2, WholeStays
    <3>. QED
      BY <1>2, <1>4, <2>1, <3>1, <3>3
  <2>3. CASE emit[item] # "accepted" /\ pc' = "done"
    BY <1>2, <1>4, <2>1, <2>3
  <2>. QED
    BY <1>18, <2>2, <2>3 DEF Emitted
<1>. QED
  BY <1>5, <1>6, <1>7, <1>8, <1>9, <1>10, <1>11, <1>12, <1>13, <1>14, <1>16, <1>17, <1>18
     DEF RunNext, OwnStep, PeerStep

\* A run is over only with its invocation: whatever it stops for has ended it.
LEMMA StepEnd ==
  ASSUME RunInv, Moves, [RunNext]_vars
  PROVE  EndOK'
<1> USE DEF HeaderFree
<1>1. /\ EmitsOK /\ ProgressOK /\ EndOK /\ HandleInv /\ SettledOK /\ Signalled /\ RunTypeOK
      /\ MaxEmits \in Nat \ {0} /\ Emits = 1..MaxEmits
      /\ aborted => state # "open"
  BY RunAssumption, HandleAssumption DEF RunInv, Emits, Signalled
\* A quiet step of a run that is not over.
<1>2. ASSUME Quiet, pc # "done",
             pc' = "done" => state' # "open",
             pc' \in HeaderFree => pc \in HeaderFree,
             pc' = "reading" => readParked' \/ readEnd' # "none",
             pc' = "got" => readEnd' # "none"
      PROVE  EndOK'
  BY <1>1, <1>2 DEF EndOK, Quiet, Moves
<1>3. ASSUME NEW e \in RunErrors, FireError(e) PROVE Quiet /\ state' # "open"
  BY <1>1, <1>3, FireErrorQuiet, RunErrorsAreErrors
<1>4. UNCHANGED handleVars => Quiet /\ UNCHANGED <<state, aborted, header, readParked, readEnd>>
  BY StillQuiet DEF handleVars, session, inputSide, outputSide
<1>5. CASE UserStep \/ UNCHANGED vars
  <2>1. Quiet /\ UNCHANGED <<pc, op, item, verdict>>
    BY <1>1, <1>4, <1>5, UserQuiet DEF UserStep, vars, runVars
  <2>2. state' = "closed" => pc' = "done" /\ Whole'
    BY <1>1, <2>1, WholeStays DEF EndOK, Quiet
  <2>. QED
    BY <1>1, <2>1, <2>2 DEF EndOK, Quiet, Moves
<1>6. CASE Preflight
  <2>1. \A i \in DOMAIN Gates : Gates[i].code \in RunErrors
    BY DEF Gates, RunErrors, Refusals
  <2>. QED
    BY <1>2, <1>3, <1>4, <1>6, <2>1, CloseInputQuiet DEF Preflight
<1>7. CASE ReadFirst
  BY <1>1, <1>2, <1>7, StillQuiet, BindingReadMoves DEF ReadFirst, BindingRead, session, outputSide
<1>8. CASE InputArrives
  BY <1>1, <1>2, <1>4, <1>8 DEF InputArrives, EndOK
<1>9. CASE TakeInput
  <2>1. CASE readEnd \in {"value", "done"}
    BY <1>2, <1>9, <2>1, CloseInputQuiet DEF TakeInput
  <2>2. CASE readEnd \notin {"value", "done"}
    <3>1. readEnd \in TerminalErrors
      BY <1>1, <1>9, <2>2 DEF TakeInput, EndOK, HandleInv, InputOK
    <3>. QED
      BY <1>1, <1>2, <1>4, <1>9, <2>2, <3>1 DEF TakeInput, SettledOK
  <2>. QED
    BY <2>1, <2>2
<1>10. CASE Plan \/ TryCandidate \/ Assemble \/ ChooseTransport \/ SecurityHandler
  BY <1>2, <1>3, <1>4, <1>10
     DEF Plan, TryCandidate, Assemble, ChooseTransport, SecurityHandler, RunErrors, Refusals
<1>11. CASE NoResponse \/ FollowRedirect \/ Buffer \/ FailureBody \/ Peek
  BY <1>2, <1>3, <1>4, <1>11
     DEF NoResponse, FollowRedirect, Buffer, FailureBody, Peek, PeerSpeaks, RunErrors
<1>12. CASE Dispatch \/ Response
  BY <1>2, <1>4, <1>12 DEF Dispatch, Response
<1>13. CASE AbortInFlight \/ AbortedBody
  BY <1>1, <1>2, <1>4, <1>13 DEF AbortInFlight, AbortedBody
<1>14. CASE Headers
  <2>1. CASE state = "open" /\ Fail("ERR_PROTOCOL", write, single)
    BY <1>2, <1>3, <1>14, <2>1 DEF FireError, RunErrors, Headers
  <2>2. CASE SetHeader /\ pc' \in {"peek", "classify"}
    BY <1>1, <1>14, <2>2 DEF Headers, SetHeader, EndOK
  <2>3. CASE UNCHANGED handleVars /\ pc' = "done" /\ header # "unset"
    <3>1. state # "open"
      BY <1>1, <1>14, <2>3 DEF Headers, EndOK
    <3>. QED
      BY <1>2, <1>4, <1>14, <2>3, <3>1 DEF Headers
  <2>. QED
    BY <1>14, <2>1, <2>2, <2>3 DEF Headers
<1>15. CASE Classify
  <2>1. pc = "classify"
    BY <1>15 DEF Classify
  <2>2. CASE pc' = "done" /\ (FireError("ERR_RUNTIME") \/ FireError("ERR_HTTP"))
    BY <1>2, <1>3, <2>1, <2>2 DEF RunErrors
  <2>3. CASE pc' \in {"failureBody", "complete", "decode", "chunk"} /\ UNCHANGED handleVars
    BY <1>2, <1>4, <2>1, <2>3
  <2>4. op.kind \in {"head", "empty", "unary", "stream"}
    BY DEF RunInv, OperationType
  <2>. QED
    BY <1>15, <2>2, <2>3, <2>4 DEF Classify
<1>16. CASE Complete
  <2>1. state' # "open" /\ pc' = "done" /\ Whole /\ UNCHANGED <<op, item, verdict>>
    BY <1>1, <1>4, <1>16 DEF Complete, CloseOutput, Terminate, EmitsOK
  <2>2. Whole'
    BY <2>1, WholeStays
  <2>. QED
    BY <2>1, <2>2 DEF EndOK
<1>17. ASSUME EmitOutput(item + 1), item + 1 \in Emits, pc \in {"decode", "chunk"}, pc' = "emit"
       PROVE  EndOK'
  <2>1. state' = state
    BY <1>1, <1>17, EmitEffect
  <2>. QED
    BY <1>1, <1>17, <2>1 DEF EndOK
<1>18. CASE DecodeBody
  <2>1. item = 0 /\ 1 \in Emits
    BY <1>1, <1>18 DEF DecodeBody, ProgressOK, Early
  <2>. QED
    BY <1>2, <1>3, <1>17, <1>18, <2>1 DEF DecodeBody, RunErrors
<1>19. CASE Chunk
  <2>1. item < MaxEmits => item + 1 \in Emits
    BY <1>1 DEF RunTypeOK
  <2>. QED
    BY <1>2, <1>3, <1>4, <1>17, <1>19, <2>1 DEF Chunk, PeerSpeaks, RunErrors
<1>20. CASE Emitted
  <2>1. UNCHANGED handleVars /\ pc = "emit" /\ emit[item] # "parked"
    BY <1>20 DEF Emitted
  <2>2. item \in Emits /\ emit[item] # "idle"
    BY <1>1, <2>1 DEF EmitsOK, ProgressOK, RunTypeOK
  <2>3. emit[item] # "accepted" => state # "open"
    BY <1>1, <2>1, <2>2 DEF SettledOK
  <2>. QED
    BY <1>2, <1>4, <1>20, <2>1, <2>3 DEF Emitted
<1>. QED
  BY <1>5, <1>6, <1>7, <1>8, <1>9, <1>10, <1>11, <1>12, <1>13, <1>14, <1>15, <1>16, <1>18, <1>19, <1>20
     DEF RunNext, OwnStep, PeerStep

LEMMA InitRun == ClientInit => RunInv
<1> SUFFICES ASSUME ClientInit PROVE RunInv
  OBVIOUS
<1>1. /\ HandleInit /\ pc = "start" /\ ready = FALSE /\ candidate = 1 /\ handler = 1
      /\ dispatched = 0 /\ verdict = "none" /\ item = 0 /\ op \in OperationType
  BY RunAssumption DEF ClientInit, RunInit
<1>2. HandleInv
  BY <1>1, HandleStart
<1>3. /\ \A n \in Emits : emit[n] = "idle"
      /\ readEnd = "none" /\ readParked = FALSE
      /\ state # "closed" /\ (state = "open" => header = "unset")
  BY <1>1 DEF HandleInit
<1>4. SettledOK
  BY <1>3, NamesOfErrors DEF SettledOK, NoError
<1>5. Signalled
  BY <1>1 DEF HandleInit, Signalled
<1>6. MaxEmits \in Nat /\ MaxHops \in Nat \ {0} /\ \A n \in Emits : n > 0 /\ ~(n < 0)
  BY HandleAssumption, RunAssumption DEF Emits
<1>7. RunTypeOK /\ ProgressOK
  <2>1. RunTypeOK
    <3>1. pc = "start" /\ ready \in BOOLEAN /\ verdict = "none"
      BY <1>1
    <3>2. candidate \in Nat /\ handler \in Nat /\ dispatched \in Nat
      BY <1>1
    <3>3. item \in 0..MaxEmits
      BY <1>1, <1>6
    <3>. QED
      BY <3>1, <3>2, <3>3 DEF RunTypeOK
  <2>2. 0 <= (IF op.redirect = "follow" THEN MaxHops ELSE 1)
    BY <1>6
  <2>. QED
    BY <1>1, <2>1, <2>2 DEF ProgressOK
<1>8. EmitsOK /\ EndOK
  BY <1>1, <1>3, <1>6 DEF EmitsOK, EndOK
<1>. QED
  BY <1>1, <1>2, <1>4, <1>5, <1>7, <1>8 DEF RunInv

LEMMA StepRun == RunInv /\ [RunNext]_vars => RunInv' /\ Moves /\ [HandleNext]_handleVars
<1> SUFFICES ASSUME RunInv, [RunNext]_vars PROVE RunInv' /\ Moves /\ [HandleNext]_handleVars
  OBVIOUS
<1>1. [HandleNext]_handleVars
  BY RunIsHandle DEF RunInv, RunTypeOK, ProgressOK, Early
<1>2. HandleInv' /\ Moves /\ SettledOK'
  BY <1>1, HandleStep, HandleMoves DEF RunInv
<1>3. Signalled'
  BY StepSignalled DEF RunInv
<1>. QED
  BY <1>1, <1>2, <1>3, StepProgress, StepEmits, StepEnd DEF RunInv

\* An accepted emit is one the run made, so an output is a success's.
LEMMA AcceptedWasEmitted ==
  ASSUME RunInv, NEW n \in Emits, emit[n] \in {"accepted", "parked"}
  PROVE  n \in 1..item /\ item \in Nat
<1>1. ~(n > item) /\ item \in Nat /\ n \in Nat \ {0}
  BY DEF RunInv, EmitsOK, RunTypeOK, Emits
<1>. QED
  BY <1>1

\* As many outputs as the run emitted, if all were accepted and they are few.
LEMMA OutputsOfFew ==
  ASSUME RunInv, \A n \in Emits : n <= item => emit[n] = "accepted"
  PROVE  /\ item = 0 => received \o outQ = <<>>
         /\ item = 1 => Len(received \o outQ) = 1
<1> DEFINE outs == received \o outQ
<1>1. /\ outs \in Seq(Emits) /\ parkedEmits \in Seq(Emits) /\ Emits \subseteq Nat
      /\ Increasing(outs \o parkedEmits)
      /\ Elements(outs) = {n \in Emits : emit[n] = "accepted"}
  BY ConcatProperties DEF RunInv, HandleInv, OutputOK, Emits
<1>2. Increasing(outs)
  BY <1>1, OrderWithoutWaiters
<1>3. Elements(outs) \subseteq 1..item
  BY <1>1, AcceptedWasEmitted
<1>4. Len(outs) \in Nat /\ DOMAIN outs = 1..Len(outs)
  BY <1>1, LenProperties
<1>5. \A i \in 1..Len(outs) : outs[i] \in 1..item
  BY <1>3, <1>4 DEF Elements
<1>6. ASSUME item = 0 PROVE outs = <<>>
  <2>1. Len(outs) = 0
    BY <1>4, <1>5, <1>6
  <2>. QED
    BY <1>1, <2>1, EmptySeq
<1>7. ASSUME item = 1 PROVE Len(outs) = 1
  <2>1. \A i \in 1..Len(outs) : outs[i] = 1
    BY <1>5, <1>7
  <2>2. ~(Len(outs) > 1)
    <3>1. SUFFICES ASSUME Len(outs) > 1 PROVE FALSE
      OBVIOUS
    <3>2. 1 \in DOMAIN outs /\ 2 \in DOMAIN outs /\ outs[1] = 1 /\ outs[2] = 1
      BY <1>4, <2>1, <3>1
    <3>3. outs[1] < outs[2]
      BY <1>2, <3>2 DEF Increasing
    <3>. QED
      BY <3>2, <3>3
  <2>3. Len(outs) # 0
    <3>1. 1 \in Emits
      BY RunAssumption, HandleAssumption DEF Emits
    <3>2. 1 \in Elements(outs)
      BY <1>1, <1>7, <3>1
    <3>. QED
      BY <1>4, <3>2 DEF Elements
  <2>. QED
    BY <1>4, <2>2, <2>3
<1>. QED
  BY <1>6, <1>7

LEMMA RunInvariantSuffices == RunInv => RunIsAccounted
<1> SUFFICES ASSUME RunInv PROVE RunIsAccounted
  OBVIOUS
<1>1. RunTypeOK /\ ProgressOK /\ EmitsOK /\ EndOK
  BY DEF RunInv
<1>2. 1..item \subseteq Emits
  BY <1>1, HandleAssumption DEF RunTypeOK, Emits
<1>3. received \o outQ # <<>> => verdict = "success" /\ dispatched > 0
  <2>1. SUFFICES ASSUME received \o outQ # <<>> PROVE item > 0
    BY <1>1 DEF ProgressOK
  <2>2. /\ received \o outQ \in Seq(Emits)
        /\ Elements(received \o outQ) = {n \in Emits : emit[n] = "accepted"}
    BY ConcatProperties DEF RunInv, HandleInv, OutputOK
  <2>3. 1 \in DOMAIN (received \o outQ)
    BY <2>1, <2>2, EmptySeq, LenProperties
  <2>4. PICK n \in Emits : emit[n] = "accepted"
    BY <2>2, <2>3 DEF Elements
  <2>. QED
    BY <2>4, AcceptedWasEmitted
<1>4. ASSUME state = "closed"
      PROVE  /\ verdict = "success" /\ pc = "done"
             /\ op.kind = "unary" => Len(received \o outQ) = 1
             /\ op.kind \in {"head", "empty"} => received \o outQ = <<>>
             /\ \A n \in 1..item : emit[n] = "accepted"
  <2>1. pc = "done" /\ Whole
    BY <1>1, <1>4 DEF EndOK
  <2>2. \A n \in Emits : n <= item => emit[n] = "accepted"
    BY <2>1 DEF Whole
  <2>3. \A n \in 1..item : emit[n] = "accepted"
    BY <1>2, <2>2
  <2>. QED
    BY <2>1, <2>2, <2>3, OutputsOfFew DEF Whole
<1>5. Cardinality({n \in Emits : emit[n] = "parked"}) <= 1
  <2>1. \A n \in Emits : emit[n] = "parked" => n = item
    <3>1. ASSUME NEW n \in Emits, emit[n] = "parked" PROVE n = item
      <4>1. n \in 1..item /\ item \in Nat
        BY <3>1, AcceptedWasEmitted
      <4>2. ~(n < item)
        BY <1>1, <3>1 DEF EmitsOK
      <4>. QED
        BY <4>1, <4>2
    <3>. QED
      BY <3>1
  <2>2. {n \in Emits : emit[n] = "parked"} = {} \/ {n \in Emits : emit[n] = "parked"} = {item}
    BY <2>1
  <2>3. Cardinality({}) = 0 /\ Cardinality({item}) = 1
    BY FS_EmptySet, FS_Singleton
  <2>. QED
    BY <2>2, <2>3
<1>6. pc = "done" => state # "open"
  BY <1>1 DEF EndOK
<1>7. dispatched <= (IF op.redirect = "follow" THEN MaxHops ELSE 1)
  BY <1>1 DEF ProgressOK
<1>. QED
  BY <1>1, <1>3, <1>4, <1>5, <1>6, <1>7 DEF RunIsAccounted, OutputsAreEvidence, RunEndsInvocation

\* The consumer of a run sees outputs only of a response classified as a success,
\* the invocation ends well only behind the outputs its kind of response has, and
\* a run that is over has ended its invocation (invoke.ts, runBinding).
THEOREM RunsAreAccounted == ClientSpec => []RunIsAccounted
<1>1. RunInv /\ [ClientNext]_allVars => RunInv'
  BY ClientRuns, StepRun
<1>. QED
  BY InitRun, <1>1, RunInvariantSuffices, PTL DEF ClientSpec

-----------------------------------------------------------------------------
(* What a call gives back is evidence, and it leaves no run behind.        *)

\* The run whose input has not been accepted has not gone past its reading, and
\* its writer is not refused while it is open.
Unfed == /\ pc \in {"start", "read", "reading", "got", "done"}
         /\ inBuf = <<>> /\ parkedWrites = <<>> /\ readEnd \notin {"value", "done"}
         /\ state # "closed" /\ (state = "open" => ~inClosed)
         /\ terminal # "ERR_HTTP"

ServedOK ==
    /\ WritesSettled
    /\ ask.supplied => op.input
    /\ ask.supplied /\ callPc \in {"new", "starting", "sending", "sent"} /\ write[1] # "accepted" => Unfed

\* What the observed exchange says of the run.
ExchangeOK ==
    /\ exchange \in {"pending", "rejected", "2xx", "non2xx"}
    /\ exchange \in {"2xx", "non2xx"} => status = exchange
    /\ status # "none" => dispatched > 0 /\ pc \notin BeforeExchange \cup {"flight"}
    /\ exchange = "rejected" => pc = "done"
    /\ terminal = "ERR_HTTP" => pc = "done"

\* Where the client stands, and what it knows there.
CallOK ==
    /\ callPc \in {"new", "refused"} => pc = "start"
    /\ callPc = "caught" => /\ state # "open"
                            /\ HasEvidence => exchange \notin {"2xx", "rejected"}
    /\ callPc = "streaming" => status = "2xx"
    /\ callPc = "awaitEnd" => status = "non2xx"
    /\ result # "none" => callPc = "settled"
    /\ result = "success" => outEnd = "closed" /\ Len(received) <= 1
    /\ result = "failure" => status = "non2xx" /\ state # "open"
    /\ result = "stream" => status = "2xx"
    /\ result = "error" => state # "open"

CallInv == RunInv /\ ServedOK /\ ExchangeOK /\ CallOK

\* A run goes through its exchange once, is over once, and ends with an HTTP
\* failure only when it is over.
LEMMA RunGoesOn ==
  ASSUME [RunNext]_vars, op.kind \in {"head", "empty", "unary", "stream"},
         terminal = "ERR_HTTP" => pc = "done"
  PROVE  /\ pc \notin BeforeExchange \cup {"flight"} => pc' \notin BeforeExchange \cup {"flight"}
         /\ pc = "done" => pc' = "done"
         /\ terminal' = "ERR_HTTP" => pc' = "done"
<1> DEFINE Good == /\ pc \notin BeforeExchange \cup {"flight"} => pc' \notin BeforeExchange \cup {"flight"}
                   /\ pc = "done" => pc' = "done"
                   /\ terminal' = "ERR_HTTP" => pc' = "done"
<1>1. ASSUME NEW e, FireError(e), pc' = "done" PROVE Good
  BY <1>1
<1>2. UNCHANGED handleVars => terminal' = terminal
  BY DEF handleVars, session
<1>3. CloseInput => terminal' = terminal
  BY CloseInputEffect
<1>4. CASE UserStep \/ UNCHANGED vars
  <2>1. pc' = pc
    BY <1>4 DEF UserStep, vars, runVars
  <2>2. terminal' = terminal \/ terminal' # "ERR_HTTP"
    BY <1>2, <1>4, CallerEffect, ConsumerEffect DEF UserStep, UserEffect, vars
  <2>. QED
    BY <2>1, <2>2
<1>5. CASE Preflight \/ TakeInput
  BY <1>1, <1>2, <1>3, <1>5 DEF Preflight, TakeInput
<1>6. CASE ReadFirst
  BY <1>6 DEF ReadFirst, BindingRead, session
<1>7. CASE Plan \/ TryCandidate \/ Assemble \/ ChooseTransport \/ SecurityHandler
  <2>1. pc \in BeforeExchange /\ pc # "done"
    BY <1>7 DEF Plan, TryCandidate, Assemble, ChooseTransport, SecurityHandler
  <2>2. pc' = "done" \/ UNCHANGED handleVars
    BY <1>7 DEF Plan, TryCandidate, Assemble, ChooseTransport, SecurityHandler
  <2>. QED
    BY <1>2, <2>1, <2>2
<1>8. CASE NoResponse \/ FollowRedirect \/ Buffer \/ FailureBody \/ Peek
  <2>1. pc' = "done" \/ UNCHANGED handleVars
    BY <1>8 DEF NoResponse, FollowRedirect, Buffer, FailureBody, Peek
  <2>2. /\ pc # "done"
        /\ pc' \in BeforeExchange \cup {"flight"} => pc = "flight"
    BY <1>8 DEF NoResponse, FollowRedirect, Buffer, FailureBody, Peek, PeerSpeaks
  <2>. QED
    BY <1>2, <2>1, <2>2
<1>9. CASE InputArrives \/ Dispatch \/ AbortInFlight \/ AbortedBody \/ Response \/ Emitted
  BY <1>2, <1>9 DEF InputArrives, Dispatch, AbortInFlight, AbortedBody, Response, Emitted
<1>10. CASE Headers
  <2>1. CASE pc' = "done"
    BY <2>1
  <2>2. CASE SetHeader /\ pc' \in {"peek", "classify"}
    BY <1>10, <2>2 DEF Headers, SetHeader
  <2>. QED
    BY <1>10, <2>1, <2>2 DEF Headers
<1>11. CASE Classify
  <2>1. pc = "classify"
    BY <1>11 DEF Classify
  <2>2. CASE pc' = "done"
    BY <2>2
  <2>3. CASE pc' \in {"failureBody", "complete", "decode", "chunk"} /\ UNCHANGED handleVars
    BY <1>2, <2>1, <2>3
  <2>. QED
    BY <1>11, <2>2, <2>3 DEF Classify
<1>12. CASE Complete
  BY <1>12 DEF Complete
<1>13. CASE DecodeBody \/ Chunk
  <2>1. pc # "done" /\ pc' \notin BeforeExchange \cup {"flight"}
    BY <1>13 DEF DecodeBody, Chunk, PeerSpeaks
  <2>2. pc' = "done" \/ terminal' = terminal
    BY <1>2, <1>13 DEF DecodeBody, Chunk, EmitOutput
  <2>. QED
    BY <2>1, <2>2
<1>. QED
  BY <1>4, <1>5, <1>6, <1>7, <1>8, <1>9, <1>10, <1>11, <1>12, <1>13
     DEF RunNext, OwnStep, PeerStep

\* The client's own steps leave the run's program alone.
LEMMA ClientLeavesRun == ClientStep \/ ApplicationStep => UNCHANGED runVars
BY DEF ClientStep, ApplicationStep, Begin, Started, Send, Sent, Race, AwaitEnd, Caught, Stream2xx,
       Collect, Collected, vars, clientVars

LEMMA StepExchange ==
  ASSUME CallInv, RunInv', [ClientNext]_allVars
  PROVE  ExchangeOK'
<1>1. /\ ExchangeOK /\ ProgressOK /\ RunTypeOK /\ ProgressOK' /\ RunTypeOK'
      /\ op.kind \in {"head", "empty", "unary", "stream"} /\ [RunNext]_vars
  BY ClientRuns DEF CallInv, RunInv, OperationType
<1>2. /\ pc \notin BeforeExchange \cup {"flight"} => pc' \notin BeforeExchange \cup {"flight"}
      /\ pc = "done" => pc' = "done"
      /\ terminal' = "ERR_HTTP" => pc' = "done"
  BY <1>1, RunGoesOn DEF ExchangeOK
<1>3. dispatched > 0 => dispatched' > 0
  BY <1>1, StepCounts DEF RunTypeOK
<1>4. CASE UNCHANGED <<status, exchange>>
  BY <1>1, <1>2, <1>3, <1>4 DEF ExchangeOK
<1>5. CASE Observed
  <2>1. pc = "flight" /\ pc' \in {"headers", "buffer"}
    BY <1>5 DEF Observed, Response
  <2>2. dispatched' > 0
    BY <1>1, <2>1 DEF ProgressOK
  <2>3. exchange = "pending"
    BY <1>1, <2>1 DEF ExchangeOK
  <2>. QED
    BY <1>2, <1>5, <2>1, <2>2, <2>3 DEF Observed, ExchangeOK
<1>6. CASE Unobserved
  <2>1. pc = "flight" /\ pc' = "done" /\ status' = status /\ exchange' \in {"rejected", "pending"}
    BY <1>6 DEF Unobserved, NoResponse, AbortInFlight
  <2>. QED
    BY <1>1, <1>2, <2>1 DEF ExchangeOK
<1>7. RunStep => \/ UNCHANGED <<status, exchange>> \/ Observed \/ Unobserved
  BY DEF RunStep, QuietStep, StopsAfterRedirects, Classified
<1>8. ClientStep \/ ApplicationStep => UNCHANGED <<status, exchange>>
  BY DEF ClientStep, ApplicationStep, Begin, Started, Send, Sent, Race, AwaitEnd, Caught, Stream2xx,
         Collect, Collected, clientVars
<1>. QED
  BY <1>4, <1>5, <1>6, <1>7, <1>8 DEF ClientNext, allVars, clientVars

\* An error that is no HTTP evidence leaves an unfed run unfed.
LEMMA UnfedFails ==
  ASSUME Unfed, NEW e \in TerminalErrors \ {"ERR_HTTP"}, FireError(e),
         pc' \in {"start", "read", "reading", "got", "done"}
  PROVE  Unfed'
<1>1. e \notin {"value", "done"}
  BY NamesOfErrors
<1>2. CASE state = "open"
  BY <1>1, <1>2 DEF FireError, Fail, Terminate, Unfed
<1>3. CASE state # "open"
  BY <1>3 DEF FireError, handleVars, session, inputSide, Unfed
<1>. QED
  BY <1>2, <1>3

\* The one write of the client is accepted at once, or refused because the
\* invocation has ended.
LEMMA UnfedWrites ==
  ASSUME Unfed, HandleInv, 1 \in Writes, Write(1), pc' = pc, write'[1] # "accepted"
  PROVE  Unfed'
<1>1. ~Enqueue(1)
  <2>1. Len(inBuf) = 0 /\ InCapacity \in Nat \ {0}
    BY HandleAssumption DEF Unfed
  <2>2. write \in [Writes -> Statuses({"validating"})]
    BY DEF HandleInv, InputOK
  <2>. QED
    BY <2>1, <2>2 DEF Enqueue
<1>2. UNCHANGED <<session, inBuf, parkedWrites, readEnd, inClosed>>
  BY <1>1 DEF Write, RefuseWrite
<1>. QED
  BY <1>2 DEF Unfed, session

LEMMA UnfedRuns ==
  ASSUME Unfed, HandleInv, op.input, [RunNext]_vars, RunStep
  PROVE  Unfed'
<1>1. UNCHANGED handleVars => UNCHANGED <<inBuf, parkedWrites, readEnd, state, inClosed, terminal>>
  BY DEF handleVars, session, inputSide
<1>2. CASE Preflight
  <2>1. \A i \in DOMAIN Gates : Gates[i].code \in RunErrors \ {"ERR_HTTP"}
    BY DEF Gates, RunErrors, Refusals
  <2>2. CASE \E i \in DOMAIN Gates : FireError(Gates[i].code) /\ pc' = "done"
    BY <2>1, <2>2, UnfedFails, RunErrorsAreErrors
  <2>3. CASE UNCHANGED handleVars /\ pc' = "read"
    BY <1>1, <2>3 DEF Unfed
  <2>. QED
    BY <1>2, <2>2, <2>3 DEF Preflight
<1>3. CASE ReadFirst
  <2>1. terminal \notin {"value", "done"}
    BY NamesOfErrors DEF HandleInv, SessionOK, NoError
  <2>2. /\ UNCHANGED <<state, terminal, inClosed, inBuf, parkedWrites>>
        /\ readEnd' = readEnd \/ readEnd' = terminal
        /\ pc' \in {"reading", "got"}
    BY <1>3 DEF ReadFirst, BindingRead, Unfed, session, HandleInv, SessionOK
  <2>. QED
    BY <2>1, <2>2 DEF Unfed
<1>4. CASE InputArrives \/ TakeInput
  <2>1. pc' \in {"got", "done"} /\ UNCHANGED handleVars
    BY <1>4 DEF InputArrives, TakeInput, Unfed
  <2>. QED
    BY <1>1, <2>1 DEF Unfed
<1>5. Preflight \/ ReadFirst \/ InputArrives \/ TakeInput
  <2>1. ~(Plan \/ TryCandidate \/ Assemble \/ ChooseTransport \/ SecurityHandler \/ Dispatch)
    BY DEF Unfed, Plan, TryCandidate, Assemble, ChooseTransport, SecurityHandler, Dispatch
  <2>2. ~(AbortInFlight \/ NoResponse \/ FollowRedirect \/ Response)
    BY DEF Unfed, AbortInFlight, NoResponse, FollowRedirect, Response
  <2>3. ~(AbortedBody \/ Headers \/ Classify \/ Complete \/ DecodeBody \/ Emitted)
    BY DEF Unfed, AbortedBody, Headers, Classify, Complete, DecodeBody, Emitted
  <2>4. ~(Buffer \/ Peek \/ FailureBody \/ Chunk)
    BY DEF Unfed, Buffer, Peek, FailureBody, Chunk, PeerSpeaks
  <2>. QED
    BY <2>1, <2>2, <2>3, <2>4 DEF RunStep, QuietStep, Observed, Unobserved, StopsAfterRedirects, Classified
<1>. QED
  BY <1>2, <1>3, <1>4, <1>5

LEMMA InputIsKept ==
  ASSUME op \in OperationType, [RunNext]_vars
  PROVE  op'.input = op.input
<1>1. CASE Peek
  BY <1>1 DEF Peek, OperationType
<1>2. CASE OwnStep
  BY <1>2 DEF OwnStep, Preflight, ReadFirst, InputArrives, TakeInput, Plan, TryCandidate, Assemble,
              ChooseTransport, SecurityHandler, Dispatch, AbortInFlight, AbortedBody, Headers,
              Classify, Complete, DecodeBody, Emitted
<1>3. CASE PeerStep /\ ~Peek
  BY <1>3 DEF PeerStep, NoResponse, FollowRedirect, Response, Buffer, FailureBody, Chunk
<1>4. CASE UserStep \/ UNCHANGED vars
  BY <1>4 DEF UserStep, vars, runVars
<1>. QED
  BY <1>1, <1>2, <1>3, <1>4 DEF RunNext

LEMMA StepServed ==
  ASSUME CallInv, [ClientNext]_allVars
  PROVE  ServedOK'
<1> DEFINE Before == {"new", "starting", "sending", "sent"}
<1>1. [RunNext]_vars /\ HandleInv /\ ServedOK /\ op \in OperationType
  BY ClientRuns DEF CallInv, RunInv
<1>2. WritesKept /\ WritesSettled'
  BY <1>1, StepRun, WritesMove DEF CallInv, ServedOK
<1>3. ask' = ask
  BY DEF ClientNext, RunStep, ClientStep, ApplicationStep, Begin, Started, Send, Sent, Race, AwaitEnd,
         Caught, Stream2xx, Collect, Collected, allVars, clientVars
<1>4. ask'.supplied => op'.input
  BY <1>1, <1>3, InputIsKept DEF ServedOK
<1>5. ASSUME ask.supplied, callPc' \in Before, write'[1] # "accepted" PROVE Unfed'
  <2>1. 1 \in Writes
    BY HandleAssumption, ClientAssumption DEF Writes
  <2>2. write[1] # "accepted"
    BY <1>2, <1>5, <2>1 DEF WritesKept
  <2>3. callPc \in Before
    BY <1>5 DEF ClientNext, RunStep, ClientStep, ApplicationStep, Begin, Started, Send, Sent, Race, AwaitEnd,
                Caught, Stream2xx, Collect, Collected, allVars, clientVars, Awaits, GoOn, Settle
  <2>4. Unfed /\ op.input
    BY <1>1, <1>5, <2>2, <2>3 DEF ServedOK
  <2>5. CASE RunStep
    BY <1>1, <2>4, <2>5, UnfedRuns
  <2>6. CASE UNCHANGED vars
    BY <2>4, <2>6 DEF Unfed, vars, runVars, handleVars, session, inputSide
  <2>7. CASE Send
    <3>1. Write(1) /\ pc' = pc
      BY <1>5, <2>7 DEF Send, runVars
    <3>. QED
      BY <1>1, <1>5, <2>1, <2>4, <3>1, UnfedWrites
  <2>8. CASE ApplicationStep
    <3>1. result # "stream"
      BY <2>3 DEF CallInv, CallOK
    <3>2. (\E e \in AbortErrors : FireError(e)) /\ pc' = pc
      BY <2>8, <3>1 DEF ApplicationStep, ExternalAbort, runVars
    <3>3. AbortErrors \subseteq TerminalErrors \ {"ERR_HTTP"}
      BY DEF AbortErrors, TerminalErrors
    <3>4. pc' \in {"start", "read", "reading", "got", "done"}
      BY <2>4, <3>2 DEF Unfed
    <3>. QED
      BY <2>4, <3>2, <3>3, <3>4, UnfedFails
  <2>9. ClientStep => Send \/ UNCHANGED vars
    BY <1>5, <2>3 DEF ClientStep, Begin, Started, Sent, Race, AwaitEnd, Caught, Stream2xx, Collect, Collected,
                      Awaits, GoOn, Settle
  <2>. QED
    BY <2>5, <2>6, <2>7, <2>8, <2>9 DEF ClientNext, allVars
<1>. QED
  BY <1>2, <1>3, <1>4, <1>5 DEF ServedOK

\* A consumer that has seen the end has all there is.
LEMMA EndKeepsReceived ==
  ASSUME HandleInv, HandleInv', [HandleNext]_handleVars, Moves, outEnd # "none"
  PROVE  UNCHANGED <<outEnd, received>>
<1>1. outEnd' = outEnd /\ state # "open" /\ outQ = <<>> /\ outQ' = <<>>
  BY DEF Moves, HandleInv, SessionOK, OutputOK
<1>2. received' \o outQ' = received \o outQ
  BY <1>1, EndedStep DEF Kept
<1>3. received \in Seq(Emits) /\ received' \in Seq(Emits)
  BY DEF HandleInv, OutputOK
<1>. QED
  BY <1>1, <1>2, <1>3, ConcatEmptySeq

\* What the client knows stays true while the run and the application go on.
LEMMA CallWaits ==
  ASSUME CallInv, RunInv', Moves, [HandleNext]_handleVars, callPc' = callPc, result' = result,
         status # "none" => status' = status,
         callPc \in {"new", "refused"} => pc' = pc,
         terminal = "ERR_HTTP" => exchange' = exchange
  PROVE  CallOK'
<1>1. /\ CallOK /\ ExchangeOK
      /\ state # "open" => state' # "open" /\ terminal' = terminal
      /\ outEnd # "none" => UNCHANGED <<outEnd, received>>
  BY EndKeepsReceived DEF CallInv, RunInv, Moves
<1>2. callPc' = "caught" => state' # "open" /\ (HasEvidence' => exchange' \notin {"2xx", "rejected"})
  BY <1>1 DEF CallOK, HasEvidence
<1>3. result' = "success" => outEnd' = "closed" /\ Len(received') <= 1
  BY <1>1 DEF CallOK
<1>. QED
  BY <1>1, <1>2, <1>3 DEF CallOK

LEMMA StepCall ==
  ASSUME CallInv, RunInv', ServedOK', ExchangeOK', [ClientNext]_allVars
  PROVE  CallOK'
<1>1. CallOK /\ ExchangeOK /\ ServedOK /\ RunInv /\ [RunNext]_vars
  BY ClientRuns DEF CallInv
<1>2. Moves /\ [HandleNext]_handleVars
  BY <1>1, StepRun
<1>3. /\ HandleInv /\ EndOK
      /\ terminal \in TerminalErrors \cup {NoError}
      /\ outEnd # "none" => outEnd = state
      /\ outEnd \in {"none", "closed", "errored"}
  BY <1>1 DEF RunInv, HandleInv, SessionOK, OutputOK
<1>4. CASE UNCHANGED allVars
  BY <1>1, <1>2, <1>4, CallWaits DEF allVars, vars, clientVars, runVars
<1>5. CASE RunStep
  <2>1. Observed \/ Unobserved => pc = "flight"
    BY DEF Observed, Response, Unobserved, NoResponse, AbortInFlight
  <2>2. Observed \/ Unobserved \/ UNCHANGED <<status, exchange>>
    BY <1>5 DEF RunStep, QuietStep, StopsAfterRedirects, Classified
  <2>3. callPc' = callPc /\ result' = result /\ callPc \notin {"new", "refused"}
    BY <1>5 DEF RunStep, RunStarted
  <2>4. /\ status # "none" => status' = status
        /\ terminal = "ERR_HTTP" => exchange' = exchange
    BY <1>1, <2>1, <2>2 DEF ExchangeOK
  <2>. QED
    BY <1>2, <2>3, <2>4, CallWaits
<1>6. CASE ApplicationStep \/ Collect
  BY <1>2, <1>6, CallWaits DEF ApplicationStep, Collect, clientVars, runVars
<1>7. CASE Begin
  BY <1>1, <1>7 DEF Begin, CallOK, Awaits, GoOn, vars, runVars, handleVars, session, outputSide
<1>8. CASE Started
  <2>1. /\ UNCHANGED <<state, outEnd, received, status>>
        /\ \/ callPc' = "sending" /\ result' = result
           \/ callPc' = "settled" /\ result' = "error" /\ state = "errored"
    BY <1>8 DEF Started, Awaits, GoOn, Settle, vars, handleVars, session, outputSide
  <2>2. result # "success" /\ result # "failure" /\ result # "stream" /\ result # "error"
    BY <1>1, <1>8 DEF Started, Awaits, CallOK
  <2>. QED
    BY <1>1, <1>8, <2>1, <2>2 DEF CallOK, Started, Awaits
<1>9. CASE Send
  <2>1. callPc' = "sent" /\ result' = result /\ result = "none"
    BY <1>1, <1>9 DEF Send, Awaits, GoOn, CallOK
  <2>. QED
    BY <2>1 DEF CallOK
<1>10. CASE Sent
  <2>1. result' = result /\ result = "none"
    BY <1>1, <1>10 DEF Sent, Awaits, GoOn, CallOK
  <2>2. CASE callPc' = "racing"
    BY <2>1, <2>2 DEF CallOK
  <2>3. CASE /\ ask.supplied /\ write[1] \in TerminalErrors \cup FlowErrors
             /\ callPc' = "caught" /\ UNCHANGED handleVars
    <3>1. 1 \in Writes
      BY HandleAssumption, ClientAssumption DEF Writes
    <3>2. write[1] \notin {"idle", "validating", "parked", "accepted"}
      BY <2>3, NamesOfErrors
    <3>3. Unfed /\ inClosed
      BY <1>1, <1>10, <2>3, <3>1, <3>2 DEF ServedOK, WritesSettled, Sent, Awaits
    <3>4. state # "open" /\ terminal # "ERR_HTTP"
      BY <3>3 DEF Unfed
    <3>5. state' = state /\ terminal' = terminal
      BY <2>3 DEF handleVars, session
    <3>. QED
      BY <2>1, <2>3, <3>4, <3>5 DEF CallOK, HasEvidence
  <2>. QED
    BY <1>10, <2>2, <2>3 DEF Sent, GoOn
<1>11. CASE Race
  <2>1. result = "none" /\ UNCHANGED <<state, terminal, status, exchange>>
    BY <1>1, <1>11 DEF Race, Awaits, CallOK, vars, handleVars, session
  <2>2. CASE exchange = "2xx" /\ GoOn("streaming")
    BY <1>1, <2>1, <2>2 DEF GoOn, CallOK, ExchangeOK
  <2>3. CASE exchange = "non2xx" /\ GoOn("awaitEnd")
    BY <1>1, <2>1, <2>3 DEF GoOn, CallOK, ExchangeOK
  <2>4. CASE exchange = "rejected" /\ Settle("error")
    BY <1>1, <1>3, <2>1, <2>4 DEF Settle, CallOK, ExchangeOK, EndOK
  <2>5. CASE exchange = "pending" /\ state # "open" /\ GoOn("caught")
    BY <2>1, <2>5 DEF GoOn, CallOK
  <2>. QED
    BY <1>11, <2>2, <2>3, <2>4, <2>5 DEF Race
<1>12. CASE AwaitEnd
  <2>1. /\ result = "none" /\ UNCHANGED <<state, terminal, status, exchange>>
        /\ state # "open" /\ status = "non2xx"
    BY <1>1, <1>12 DEF AwaitEnd, Awaits, CallOK, vars, handleVars, session
  <2>2. \/ callPc' = "settled" /\ result' = "failure"
        \/ callPc' = "caught" /\ result' = result /\ ~HasEvidence
    BY <1>12 DEF AwaitEnd, Settle, GoOn
  <2>. QED
    BY <2>1, <2>2 DEF CallOK, HasEvidence
<1>13. CASE Caught
  <2>1. /\ state # "open" /\ UNCHANGED <<state, status, exchange>>
        /\ HasEvidence => exchange \notin {"2xx", "rejected"}
    BY <1>1, <1>13 DEF Caught, Awaits, CallOK, vars, handleVars, session
  <2>2. callPc' = "settled" /\ (result' = "error" \/ (result' = "failure" /\ exchange = "non2xx"))
    BY <1>1, <1>13, <2>1 DEF Caught, Settle, ExchangeOK
  <2>3. exchange = "non2xx" => status = "non2xx"
    BY <1>1 DEF ExchangeOK
  <2>. QED
    BY <2>1, <2>2, <2>3 DEF CallOK
<1>14. CASE Stream2xx
  <2>1. result = "none" /\ status = "2xx" /\ status' = status
    BY <1>1, <1>14 DEF Stream2xx, Awaits, CallOK
  <2>2. CASE Settle("stream")
    BY <2>1, <2>2 DEF Settle, CallOK
  <2>3. CASE GoOn("collecting")
    BY <2>1, <2>3 DEF GoOn, CallOK
  <2>4. CASE (IF state = "open" THEN CancelSession ELSE UNCHANGED handleVars) /\ Settle("error")
    <3>1. CancelSession => state' = "errored"
      BY DEF CancelSession, Fail, Terminate
    <3>2. state' # "open"
      BY <2>4, <3>1 DEF handleVars, session
    <3>. QED
      BY <2>1, <2>4, <3>2 DEF Settle, CallOK
  <2>. QED
    BY <1>14, <2>2, <2>3, <2>4 DEF Stream2xx
<1>15. CASE Collected
  <2>1. result = "none" /\ UNCHANGED <<state, outEnd, received>> /\ outEnd # "none"
    BY <1>1, <1>15 DEF Collected, Awaits, CallOK, vars, handleVars, session, outputSide
  <2>2. /\ callPc' = "settled"
        /\ \/ result' = "success" /\ outEnd = "closed" /\ Len(received) <= 1
           \/ result' = "error"
    BY <1>15 DEF Collected, Settle
  <2>3. state # "open"
    BY <1>3, <2>1
  <2>. QED
    BY <2>1, <2>2, <2>3 DEF CallOK
<1>. QED
  BY <1>4, <1>5, <1>6, <1>7, <1>8, <1>9, <1>10, <1>11, <1>12, <1>13, <1>14, <1>15
     DEF ClientNext, ClientStep

LEMMA InitCall == ClientInit => CallInv
<1> SUFFICES ASSUME ClientInit PROVE CallInv
  OBVIOUS
<1>1. RunInv
  BY InitRun
<1>2. /\ pc = "start" /\ dispatched = 0 /\ (ask.supplied => op.input)
      /\ callPc = "new" /\ status = "none" /\ exchange = "pending" /\ result = "none"
  BY DEF ClientInit, RunInit
<1>3. HandleInit
  BY DEF ClientInit, RunInit
<1>4. /\ inBuf = <<>> /\ parkedWrites = <<>> /\ readEnd = "none"
      /\ \A m \in Writes : write[m] = "idle"
  BY <1>3 DEF HandleInit
<1>5. state # "closed" /\ (state = "open" => ~inClosed)
  BY <1>3 DEF HandleInit
<1>6. terminal # "ERR_HTTP"
  BY <1>3 DEF HandleInit, NoError, AbortErrors
<1>7. ServedOK
  BY <1>2, <1>4, <1>5, <1>6 DEF ServedOK, WritesSettled, Unfed
<1>8. ExchangeOK
  BY <1>2, <1>6 DEF ExchangeOK
<1>9. CallOK
  BY <1>2 DEF CallOK
<1>. QED
  BY <1>1, <1>7, <1>8, <1>9 DEF CallInv

LEMMA CallInvariantSuffices == CallInv => CallIsAccounted
<1> SUFFICES ASSUME CallInv PROVE CallIsAccounted
  OBVIOUS
<1>1. CallOK /\ ExchangeOK /\ RunInv /\ RunIsAccounted
  BY RunInvariantSuffices DEF CallInv
<1>2. ASSUME result = "success"
      PROVE  /\ state = "closed" /\ verdict = "success" /\ Len(received) <= 1 /\ outQ = <<>>
             /\ op.kind = "unary" => Len(received) = 1
  <2>1. outEnd = "closed" /\ Len(received) <= 1
    BY <1>1, <1>2 DEF CallOK
  <2>2. state = "closed" /\ outQ = <<>> /\ received \in Seq(Emits)
    BY <1>1, <2>1 DEF RunInv, HandleInv, OutputOK
  <2>3. received \o outQ = received
    BY <2>2, ConcatEmptySeq
  <2>. QED
    BY <1>1, <2>1, <2>2, <2>3 DEF RunIsAccounted, OutputsAreEvidence
<1>3. result = "failure" => status = "non2xx" /\ dispatched > 0 /\ state # "open"
  BY <1>1 DEF CallOK, ExchangeOK
<1>4. callPc = "refused" => pc = "start" /\ dispatched = 0
  BY <1>1 DEF CallOK, RunInv, ProgressOK, BeforeExchange
<1>. QED
  BY <1>1, <1>2, <1>3, <1>4 DEF CallIsAccounted, ResultIsEvidence, NoOrphanRun, CallOK

LEMMA StepCallInv == CallInv /\ [ClientNext]_allVars => CallInv'
<1> SUFFICES ASSUME CallInv, [ClientNext]_allVars PROVE CallInv'
  OBVIOUS
<1>1. RunInv'
  BY ClientRuns, StepRun DEF CallInv
<1>2. ServedOK' /\ ExchangeOK'
  BY <1>1, StepServed, StepExchange
<1>. QED
  BY <1>1, <1>2, StepCall DEF CallInv

\* A value that call() returns is the one output of a run that ended well, a
\* failure value is an unsuccessful response of a run that has ended, and an
\* error leaves no run behind: CallIsAccounted holds of every call or stream of
\* the client (client.ts, callResolved and streamResolved).
THEOREM CallsAreAccounted == ClientSpec => []CallIsAccounted
BY InitCall, StepCallInv, CallInvariantSuffices, PTL DEF ClientSpec
=============================================================================
