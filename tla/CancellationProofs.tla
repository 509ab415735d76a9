------------------------- MODULE CancellationProofs -------------------------
(***************************************************************************)
(* Proofs about Cancellation for any number of waits, threads and tasks.   *)
(*                                                                         *)
(* NoLostWake is not inductive: it needs to know what holds of a sleeping  *)
(* wait at the moment the flag is stored. IInv adds that: before the flag  *)
(* no thread has taken anything (Quiet), every sleeping wait is in the     *)
(* list (RegistrationsExact) and its slot holds its latest waker (Armed).  *)
(***************************************************************************)
EXTENDS Cancellation, TLAPS

\* Nothing has been taken by a thread that has not reached the list, and no
\* thread is past the flag before the flag is set.
Quiet ==
  /\ \A c \in Cancellers : cpc[c] \in {"idle", "take"} => drained[c] = {}
  /\ ~cancelled => \A c \in Cancellers : Thread(c, "idle")

\* Before the flag, the slot of a wait that has swapped holds its latest waker.
Armed ==
  \A w \in Waits : wpc[w] \in {"drop", "check", "pending"} /\ ~cancelled =>
    slot[w] = task[w]

\* A wait that may sleep has been polled, one that leaves has seen the flag,
\* and a thread visits waits.
Sound ==
  /\ \A w \in Waits : At(w, "leave") => cancelled
  /\ \A w \in Waits : wpc[w] \in Polling \cup {"register", "admit"} => task[w] \in Wakers
  /\ \A c \in Cancellers : cpc[c] \in {"slot", "wake", "inside"} => current[c] \in Waits

\* A mutex is held only inside its critical section.
LocksHeld ==
  \A w \in Waits : /\ listLock = w => At(w, "admit")
                   /\ slotLock[w] = w => At(w, "swap")

IInv == TypeOK /\ Quiet /\ Armed /\ Sound /\ LocksHeld /\ RegistrationsExact /\ NoLostWake

\* The values of the two program counters and of the shared helpers.
USE DEF WaitStep, CancelStep, Finished, Polling, At, Go, Thread, Proceed,
        waitVars, cancelVars, Stored, Retained

-----------------------------------------------------------------------------

LEMMA InitIInv == Init => IInv
<1> SUFFICES ASSUME Init PROVE IInv
  OBVIOUS
<1>1. TypeOK
  BY DEF Init, TypeOK
<1>2. Quiet /\ Armed /\ Sound
  BY DEF Init, Quiet, Armed, Sound
<1>3. LocksHeld
  BY ActorAssumption DEF Init, LocksHeld
<1>4. RegistrationsExact /\ NoLostWake
  BY DEF Init, RegistrationsExact, NoLostWake
<1>. QED
  BY <1>1, <1>2, <1>3, <1>4 DEF IInv

\* Every step of a thread or of a wait keeps the invariant. Under each action
\* the conjuncts whose variables it changes are proved; the last step, NoLostWake,
\* follows the debt to a sleeping wait from the list to the waker in flight.
LEMMA StepIInv == IInv /\ [Next]_vars => IInv'
<1> SUFFICES ASSUME IInv, [Next]_vars PROVE IInv'
  OBVIOUS
<1> USE DEF IInv
<1>1. ASSUME NEW c \in Cancellers, Cancel(c) PROVE IInv'
  <2>1. (TypeOK /\ Sound)'
    BY <1>1 DEF Cancel, TypeOK, Sound
  <2>2. (Quiet /\ Armed)'
    BY <1>1 DEF Cancel, TypeOK, Sound, Quiet, Armed
  <2>3. (LocksHeld /\ RegistrationsExact)'
    BY <1>1, ActorAssumption DEF Cancel, TypeOK, Quiet, LocksHeld, RegistrationsExact
  <2>4. NoLostWake'
    BY <1>1, ActorAssumption
       DEF Cancel, TypeOK, Sound, Quiet, Armed, RegistrationsExact, NoLostWake, Owes
  <2>. QED
    BY <2>1, <2>2, <2>3, <2>4
<1>2. ASSUME NEW c \in Cancellers, TakeList(c) PROVE IInv'
  <2>1. (TypeOK /\ Sound)'
    BY <1>2 DEF TakeList, TypeOK, Sound
  <2>2. (Quiet /\ Armed)'
    BY <1>2 DEF TakeList, TypeOK, Sound, Quiet, Armed
  <2>3. (LocksHeld /\ RegistrationsExact)'
    BY <1>2, ActorAssumption DEF TakeList, TypeOK, Quiet, LocksHeld, RegistrationsExact
  <2>4. NoLostWake'
    BY <1>2, ActorAssumption
       DEF TakeList, TypeOK, Sound, Quiet, Armed, RegistrationsExact, NoLostWake, Owes
  <2>. QED
    BY <2>1, <2>2, <2>3, <2>4
<1>3. ASSUME NEW c \in Cancellers, NEW v \in Waits, Upgrade(c, v) PROVE IInv'
  <2>1. (TypeOK /\ Sound)'
    BY <1>3 DEF Upgrade, TypeOK, Sound
  <2>2. (Quiet /\ Armed)'
    BY <1>3 DEF Upgrade, TypeOK, Sound, Quiet, Armed
  <2>3. (LocksHeld /\ RegistrationsExact)'
    BY <1>3, ActorAssumption DEF Upgrade, TypeOK, Quiet, LocksHeld, RegistrationsExact
  <2>4. NoLostWake'
    BY <1>3, ActorAssumption
       DEF Upgrade, TypeOK, Sound, Quiet, Armed, RegistrationsExact, NoLostWake, Owes
  <2>. QED
    BY <2>1, <2>2, <2>3, <2>4
<1>4. ASSUME NEW c \in Cancellers, TakeWaker(c) PROVE IInv'
  <2>1. (TypeOK /\ Sound)'
    BY <1>4 DEF TakeWaker, TypeOK, Sound
  <2>2. (Quiet /\ Armed)'
    BY <1>4 DEF TakeWaker, TypeOK, Sound, Quiet, Armed
  <2>3. (LocksHeld /\ RegistrationsExact)'
    BY <1>4, ActorAssumption DEF TakeWaker, TypeOK, Quiet, LocksHeld, RegistrationsExact
  <2>4. NoLostWake'
    BY <1>4, ActorAssumption
       DEF TakeWaker, TypeOK, Sound, Quiet, Armed, RegistrationsExact, NoLostWake, Owes
  <2>. QED
    BY <2>1, <2>2, <2>3, <2>4
<1>5. ASSUME NEW c \in Cancellers, Wake(c) PROVE IInv'
  <2>1. (TypeOK /\ Sound)'
    BY <1>5 DEF Wake, TypeOK, Sound
  <2>2. (Quiet /\ Armed)'
    BY <1>5 DEF Wake, TypeOK, Sound, Quiet, Armed
  <2>3. (LocksHeld /\ RegistrationsExact)'
    BY <1>5, ActorAssumption DEF Wake, TypeOK, Quiet, LocksHeld, RegistrationsExact
  <2>4. NoLostWake'
    <3> SUFFICES ASSUME NEW w \in Waits, At(w, "pending"), cancelled
                 PROVE  notified'[w] \/ \E d \in Cancellers : Owes(d, w)'
      BY <1>5 DEF NoLostWake, Wake
    <3>1. notified' = [v \in Waits |-> notified[v] \/ task[v] = inflight[c]]
      BY <1>5 DEF Wake
    <3>2. CASE notified[w] \/ task[w] = inflight[c]
      BY <3>1, <3>2
    <3>3. CASE ~notified[w] /\ task[w] # inflight[c]
      <4>1. PICK d \in Cancellers : Owes(d, w)
        BY <3>3 DEF NoLostWake
      <4>2. Owes(d, w)'
        BY <1>5, <3>3, <4>1 DEF Wake, Owes, TypeOK
      <4>. QED
        BY <4>2
    <3>. QED
      BY <3>2, <3>3
  <2>. QED
    BY <2>1, <2>2, <2>3, <2>4
<1>6. ASSUME NEW c \in Cancellers, Woken(c) PROVE IInv'
  <2>1. (TypeOK /\ Sound)'
    BY <1>6 DEF Woken, TypeOK, Sound
  <2>2. (Quiet /\ Armed)'
    BY <1>6 DEF Woken, TypeOK, Sound, Quiet, Armed
  <2>3. (LocksHeld /\ RegistrationsExact)'
    BY <1>6, ActorAssumption DEF Woken, TypeOK, Quiet, LocksHeld, RegistrationsExact
  <2>4. NoLostWake'
    BY <1>6, ActorAssumption
       DEF Woken, TypeOK, Sound, Quiet, Armed, RegistrationsExact, NoLostWake, Owes
  <2>. QED
    BY <2>1, <2>2, <2>3, <2>4
<1>7. ASSUME NEW c \in Cancellers, Return(c) PROVE IInv'
  <2>1. (TypeOK /\ Sound)'
    BY <1>7 DEF Return, TypeOK, Sound
  <2>2. (Quiet /\ Armed)'
    BY <1>7 DEF Return, TypeOK, Sound, Quiet, Armed
  <2>3. (LocksHeld /\ RegistrationsExact)'
    BY <1>7, ActorAssumption DEF Return, TypeOK, Quiet, LocksHeld, RegistrationsExact
  <2>4. NoLostWake'
    BY <1>7, ActorAssumption
       DEF Return, TypeOK, Sound, Quiet, Armed, RegistrationsExact, NoLostWake, Owes
  <2>. QED
    BY <2>1, <2>2, <2>3, <2>4
<1>8. ASSUME NEW v \in Waits, NEW k \in Wakers, Enter(v, k) PROVE IInv'
  <2>1. (TypeOK /\ Sound)'
    BY <1>8 DEF Enter, TypeOK, Sound
  <2>2. (Quiet /\ Armed)'
    BY <1>8 DEF Enter, TypeOK, Sound, Quiet, Armed
  <2>3. (LocksHeld /\ RegistrationsExact)'
    BY <1>8, ActorAssumption DEF Enter, TypeOK, Quiet, LocksHeld, RegistrationsExact
  <2>4. NoLostWake'
    BY <1>8, ActorAssumption
       DEF Enter, TypeOK, Sound, Quiet, Armed, RegistrationsExact, NoLostWake, Owes
  <2>. QED
    BY <2>1, <2>2, <2>3, <2>4
<1>9. ASSUME NEW v \in Waits, LockList(v) PROVE IInv'
  <2>1. (TypeOK /\ Sound)'
    BY <1>9 DEF LockList, TypeOK, Sound
  <2>2. (Quiet /\ Armed)'
    BY <1>9 DEF LockList, TypeOK, Sound, Quiet, Armed
  <2>3. (LocksHeld /\ RegistrationsExact)'
    BY <1>9, ActorAssumption DEF LockList, TypeOK, Quiet, LocksHeld, RegistrationsExact
  <2>4. NoLostWake'
    BY <1>9, ActorAssumption
       DEF LockList, TypeOK, Sound, Quiet, Armed, RegistrationsExact, NoLostWake, Owes
  <2>. QED
    BY <2>1, <2>2, <2>3, <2>4
<1>10. ASSUME NEW v \in Waits, Admit(v) PROVE IInv'
  <2>1. (TypeOK /\ Sound)'
    BY <1>10 DEF Admit, TypeOK, Sound
  <2>2. (Quiet /\ Armed)'
    BY <1>10 DEF Admit, TypeOK, Sound, Quiet, Armed
  <2>3. (LocksHeld /\ RegistrationsExact)'
    BY <1>10, ActorAssumption DEF Admit, TypeOK, Quiet, LocksHeld, RegistrationsExact
  <2>4. NoLostWake'
    BY <1>10, ActorAssumption
       DEF Admit, TypeOK, Sound, Quiet, Armed, RegistrationsExact, NoLostWake, Owes
  <2>. QED
    BY <2>1, <2>2, <2>3, <2>4
<1>11. ASSUME NEW v \in Waits, NEW k \in Wakers, Poll(v, k) PROVE IInv'
  <2>1. (TypeOK /\ Sound)'
    BY <1>11 DEF Poll, TypeOK, Sound
  <2>2. (Quiet /\ Armed)'
    BY <1>11 DEF Poll, TypeOK, Sound, Quiet, Armed
  <2>3. (LocksHeld /\ RegistrationsExact)'
    BY <1>11, ActorAssumption DEF Poll, TypeOK, Quiet, LocksHeld, RegistrationsExact
  <2>4. NoLostWake'
    BY <1>11, ActorAssumption
       DEF Poll, TypeOK, Sound, Quiet, Armed, RegistrationsExact, NoLostWake, Owes
  <2>. QED
    BY <2>1, <2>2, <2>3, <2>4
<1>12. ASSUME NEW v \in Waits, LockSlot(v) PROVE IInv'
  <2>1. (TypeOK /\ Sound)'
    BY <1>12 DEF LockSlot, TypeOK, Sound
  <2>2. (Quiet /\ Armed)'
    BY <1>12 DEF LockSlot, TypeOK, Sound, Quiet, Armed
  <2>3. (LocksHeld /\ RegistrationsExact)'
    BY <1>12, ActorAssumption DEF LockSlot, TypeOK, Quiet, LocksHeld, RegistrationsExact
  <2>4. NoLostWake'
    BY <1>12, ActorAssumption
       DEF LockSlot, TypeOK, Sound, Quiet, Armed, RegistrationsExact, NoLostWake, Owes
  <2>. QED
    BY <2>1, <2>2, <2>3, <2>4
<1>13. ASSUME NEW v \in Waits, SwapWaker(v) PROVE IInv'
  <2>1. (TypeOK /\ Sound)'
    BY <1>13 DEF SwapWaker, TypeOK, Sound
  <2>2. (Quiet /\ Armed)'
    BY <1>13 DEF SwapWaker, TypeOK, Sound, Quiet, Armed
  <2>3. (LocksHeld /\ RegistrationsExact)'
    BY <1>13, ActorAssumption DEF SwapWaker, TypeOK, Quiet, LocksHeld, RegistrationsExact
  <2>4. NoLostWake'
    BY <1>13, ActorAssumption
       DEF SwapWaker, TypeOK, Sound, Quiet, Armed, RegistrationsExact, NoLostWake, Owes
  <2>. QED
    BY <2>1, <2>2, <2>3, <2>4
<1>14. ASSUME NEW v \in Waits, DropPrevious(v) PROVE IInv'
  <2>1. (TypeOK /\ Sound)'
    BY <1>14 DEF DropPrevious, TypeOK, Sound
  <2>2. (Quiet /\ Armed)'
    BY <1>14 DEF DropPrevious, TypeOK, Sound, Quiet, Armed
  <2>3. (LocksHeld /\ RegistrationsExact)'
    BY <1>14, ActorAssumption DEF DropPrevious, TypeOK, Quiet, LocksHeld, RegistrationsExact
  <2>4. NoLostWake'
    BY <1>14, ActorAssumption
       DEF DropPrevious, TypeOK, Sound, Quiet, Armed, RegistrationsExact, NoLostWake, Owes
  <2>. QED
    BY <2>1, <2>2, <2>3, <2>4
<1>15. ASSUME NEW v \in Waits, CheckFlag(v) PROVE IInv'
  <2>1. (TypeOK /\ Sound)'
    BY <1>15 DEF CheckFlag, TypeOK, Sound
  <2>2. (Quiet /\ Armed)'
    BY <1>15 DEF CheckFlag, TypeOK, Sound, Quiet, Armed
  <2>3. (LocksHeld /\ RegistrationsExact)'
    BY <1>15, ActorAssumption DEF CheckFlag, TypeOK, Quiet, LocksHeld, RegistrationsExact
  <2>4. NoLostWake'
    BY <1>15, ActorAssumption
       DEF CheckFlag, TypeOK, Sound, Quiet, Armed, RegistrationsExact, NoLostWake, Owes
  <2>. QED
    BY <2>1, <2>2, <2>3, <2>4
<1>16. ASSUME NEW v \in Waits, Abandon(v) PROVE IInv'
  <2>1. (TypeOK /\ Sound)'
    BY <1>16 DEF Abandon, TypeOK, Sound
  <2>2. (Quiet /\ Armed)'
    BY <1>16 DEF Abandon, TypeOK, Sound, Quiet, Armed
  <2>3. (LocksHeld /\ RegistrationsExact)'
    BY <1>16, ActorAssumption DEF Abandon, TypeOK, Quiet, LocksHeld, RegistrationsExact
  <2>4. NoLostWake'
    BY <1>16, ActorAssumption
       DEF Abandon, TypeOK, Sound, Quiet, Armed, RegistrationsExact, NoLostWake, Owes
  <2>. QED
    BY <2>1, <2>2, <2>3, <2>4
<1>17. ASSUME NEW v \in Waits, Unregister(v) PROVE IInv'
  <2>1. (TypeOK /\ Sound)'
    BY <1>17 DEF Unregister, TypeOK, Sound
  <2>2. (Quiet /\ Armed)'
    BY <1>17 DEF Unregister, TypeOK, Sound, Quiet, Armed
  <2>3. (LocksHeld /\ RegistrationsExact)'
    BY <1>17, ActorAssumption DEF Unregister, TypeOK, Quiet, LocksHeld, RegistrationsExact
  <2>4. NoLostWake'
    BY <1>17, ActorAssumption
       DEF Unregister, TypeOK, Sound, Quiet, Armed, RegistrationsExact, NoLostWake, Owes
  <2>. QED
    BY <2>1, <2>2, <2>3, <2>4
<1>18. CASE UNCHANGED vars
  BY <1>18 DEF vars, TypeOK, Sound, Quiet, Armed, LocksHeld, RegistrationsExact,
     NoLostWake, Owes
<1>. QED
  BY <1>1, <1>2, <1>3, <1>4, <1>5, <1>6, <1>7, <1>8, <1>9, <1>10, <1>11, <1>12,
     <1>13, <1>14, <1>15, <1>16, <1>17, <1>18
     DEF Next, CancelRuns, WaitRuns

-----------------------------------------------------------------------------

LEMMA Invariance == Safety => []IInv
<1>. QED
  BY InitIInv, StepIInv, PTL DEF Safety

\* Every value stays one the structs can hold, and no mutex is kept from one
\* step to the next by a thread in cancel().
THEOREM TypeCorrect == Safety => []TypeOK
<1>1. IInv => TypeOK
  BY DEF IInv
<1>. QED
  BY <1>1, Invariance, PTL

\* No wake-up is lost, whatever tasks poll the waits and however many cancel()
\* calls overlap.
THEOREM WakeUpsAreKept == Safety => []NoLostWake
<1>1. IInv => NoLostWake
  BY DEF IInv
<1>. QED
  BY <1>1, Invariance, PTL

\* Ending one wait removes its own registration and no other.
THEOREM RegistrationsAreExact == Safety => []RegistrationsExact
<1>1. IInv => RegistrationsExact
  BY DEF IInv
<1>. QED
  BY <1>1, Invariance, PTL

\* Host code runs with no lock held by its caller.
THEOREM HostCodeUnlocked == Safety => []NoLockInHostCode
<1>1. IInv => NoLockInHostCode
  <2> SUFFICES ASSUME IInv PROVE NoLockInHostCode
    OBVIOUS
  <2>1. ASSUME NEW c \in Cancellers, NEW w \in Waits
        PROVE  listLock # c /\ slotLock[w] # c
    BY ActorAssumption DEF IInv, TypeOK
  <2>2. ASSUME NEW c \in Cancellers PROVE listLock # c
    BY ActorAssumption DEF IInv, TypeOK
  <2>3. ASSUME NEW v \in Waits, wpc[v] \in {"clone", "drop"} PROVE listLock # v
    BY <2>3 DEF IInv, LocksHeld
  <2>4. ASSUME NEW v \in Waits, NEW w \in Waits, wpc[v] \in {"clone", "drop"}
        PROVE  slotLock[w] # v
    BY <2>4, ActorAssumption DEF IInv, TypeOK, LocksHeld
  <2>. QED
    BY <2>1, <2>2, <2>3, <2>4, Zenon DEF NoLockInHostCode
<1>. QED
  BY <1>1, Invariance, PTL

-----------------------------------------------------------------------------
(* Refinement: the safety part of CancelSignal. *)

LEMMA SignalInitially == Init => Signal!SignalInit
BY DEF Init, Signal!SignalInit, Seen

\* The steps of a wait that its owner can see; every other step stutters.
LEMMA SignalStep ==
  IInv /\ IInv' /\ [Next]_vars => [Signal!SignalNext]_(Signal!signalVars)
<1> SUFFICES ASSUME IInv, IInv', [Next]_vars
             PROVE  [Signal!SignalNext]_(Signal!signalVars)
  OBVIOUS
<1> DEFINE seen == [w \in Waits |-> Seen(w)]
<1> USE DEF Signal!SignalNext, Signal!signalVars
<1>0. ASSUME NEW w \in Waits, NEW s \in {"register", "abandon", "done", "dropped"}, Go(w, s)
      PROVE  /\ s = "done" => seen' = [seen EXCEPT ![w] = "released"]
             /\ s = "dropped" => seen' = [seen EXCEPT ![w] = "abandoned"]
             /\ s \in {"register", "abandon"} => seen' = [seen EXCEPT ![w] = "waiting"]
  <2>1. wpc \in [Waits -> WaitStep] /\ wpc' = [wpc EXCEPT ![w] = s]
    BY <1>0 DEF IInv, TypeOK
  <2>2. \A v \in Waits \ {w} : Seen(v)' = Seen(v)
    BY <2>1 DEF Seen
  <2>3. wpc'[w] = s
    BY <2>1
  <2>4. /\ s = "done" => Seen(w)' = "released"
        /\ s = "dropped" => Seen(w)' = "abandoned"
        /\ s \in {"register", "abandon"} => Seen(w)' = "waiting"
    BY <2>3 DEF Seen
  <2>. QED
    BY <2>2, <2>4, <1>0
<1>1. ASSUME NEW c \in Cancellers, Cancel(c) PROVE Signal!Signal
  BY <1>1 DEF Cancel, Signal!Signal, Seen
<1>2. ASSUME NEW w \in Waits, NEW k \in Wakers, Enter(w, k)
      PROVE  Signal!Start(w) \/ Signal!Release(w)
  <2>1. seen[w] = "idle" /\ cancelled' = cancelled /\ cancelled \in BOOLEAN
    BY <1>2 DEF Enter, Seen, IInv, TypeOK
  <2>2. CASE cancelled
    <3>1. Go(w, "done")
      BY <1>2, <2>2 DEF Enter
    <3>2. seen' = [seen EXCEPT ![w] = "released"]
      BY <3>1, <1>0
    <3>. QED
      BY <2>1, <2>2, <3>2 DEF Signal!Release, Signal!Move
  <2>3. CASE ~cancelled
    <3>1. Go(w, "register")
      BY <1>2, <2>3 DEF Enter
    <3>2. seen' = [seen EXCEPT ![w] = "waiting"]
      BY <3>1, <1>0
    <3>. QED
      BY <2>1, <3>2 DEF Signal!Start, Signal!Move
  <2>. QED
    BY <2>1, <2>2, <2>3
<1>3. ASSUME NEW w \in Waits, Abandon(w) PROVE Signal!Abandon(w) \/ UNCHANGED <<cancelled, seen>>
  <2>1. CASE At(w, "new") /\ Go(w, "dropped")
    <3>1. seen[w] = "idle" /\ seen' = [seen EXCEPT ![w] = "abandoned"]
      BY <2>1, <1>0 DEF Seen
    <3>. QED
      BY <1>3, <3>1 DEF Abandon, Signal!Abandon, Signal!Move
  <2>2. CASE At(w, "pending") /\ Go(w, "abandon")
    <3>1. seen' = [seen EXCEPT ![w] = "waiting"] /\ seen[w] = "waiting"
      BY <2>2, <1>0 DEF Seen
    <3>2. seen' = seen
      BY <3>1
    <3>. QED
      BY <1>3, <3>2 DEF Abandon
  <2>. QED
    BY <1>3, <2>1, <2>2 DEF Abandon
<1>4. ASSUME NEW w \in Waits, Unregister(w)
      PROVE  Signal!Release(w) \/ Signal!Abandon(w)
  <2>1. CASE At(w, "leave") /\ Go(w, "done")
    <3>1. seen[w] = "waiting" /\ seen' = [seen EXCEPT ![w] = "released"] /\ cancelled
      BY <2>1, <1>0 DEF Seen, IInv, Sound
    <3>. QED
      BY <1>4, <3>1 DEF Unregister, Signal!Release, Signal!Move
  <2>2. CASE At(w, "abandon") /\ Go(w, "dropped")
    <3>1. seen[w] = "waiting" /\ seen' = [seen EXCEPT ![w] = "abandoned"]
      BY <2>2, <1>0 DEF Seen
    <3>. QED
      BY <1>4, <3>1 DEF Unregister, Signal!Abandon, Signal!Move
  <2>. QED
    BY <1>4, <2>1, <2>2 DEF Unregister
<1>5. ASSUME NEW w \in Waits,
             LockList(w) \/ Admit(w) \/ LockSlot(w) \/ SwapWaker(w) \/ DropPrevious(w)
               \/ CheckFlag(w) \/ \E k \in Wakers : Poll(w, k)
      PROVE  cancelled' = cancelled /\ seen' = seen
  BY <1>5 DEF IInv, TypeOK, LockList, Admit, LockSlot, SwapWaker, DropPrevious, CheckFlag, Poll, Seen
<1>6. ASSUME NEW c \in Cancellers, CancelRuns(c)
      PROVE  cancelled' = cancelled /\ seen' = seen
  BY <1>6 DEF IInv, TypeOK, CancelRuns, TakeList, Upgrade, TakeWaker, Wake, Woken, Return, Seen
<1>7. CASE UNCHANGED vars
  BY <1>7 DEF vars, Seen
<1>. QED
  BY <1>1, <1>2, <1>3, <1>4, <1>5, <1>6, <1>7 DEF Next, WaitRuns

\* For its owner a wait finishes only because the token was cancelled; a
\* finished or abandoned wait never starts again.
THEOREM RefinesSignal == Safety => ImplementsSignalSafety
<1>. QED
  BY SignalInitially, SignalStep, Invariance, PTL
     DEF Safety, ImplementsSignalSafety, Signal!SignalSafety

\* The token is safe between any two steps of any number of waits, threads and
\* wakers (cancellation.rs, cancel and cancelled).
THEOREM TokenStaysSafe == Safety => []TokenIsSafe
<1>1. TypeOK /\ NoLostWake /\ RegistrationsExact /\ NoLockInHostCode => TokenIsSafe
  BY DEF TokenIsSafe
<1>. QED
  BY <1>1, TypeCorrect, WakeUpsAreKept, RegistrationsAreExact, HostCodeUnlocked, PTL
=============================================================================
