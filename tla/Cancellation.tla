---------------------------- MODULE Cancellation ----------------------------
(***************************************************************************)
(* rust/client/src/cancellation.rs: a token shared by clones, the threads  *)
(* that call cancel() and the futures returned by cancelled(), interleaved *)
(* at every lock, atomic access and call into a waker.                     *)
(*                                                                         *)
(* The mutexes order the flag's Release store before its Acquire load      *)
(* wherever the protocol depends on it (the slot's and the list's critical *)
(* sections), so the flag is one sequentially consistent variable.         *)
(*                                                                         *)
(* A waker is the task it wakes. A wait records in `task` the waker of its *)
(* latest poll: only waking that one leads to another poll.                *)
(***************************************************************************)
EXTENDS FiniteSets

CONSTANTS Waits,         \* futures returned by cancelled()
          Cancellers,    \* threads that call cancel()
          Wakers,        \* tasks a wait may be polled from
          Inline,        \* the wakers that poll their task inside wake()
          None           \* no holder, no waker, no wait

ASSUME ActorAssumption ==
  /\ Waits \cap Cancellers = {}
  /\ Inline \subseteq Wakers
  /\ None \notin Waits \cup Cancellers \cup Wakers

VARIABLES
  cancelled,   \* State.cancelled
  waiters,     \* State.waiters: the waits whose registration is in the list
  listLock,    \* holder of the State.waiters mutex
  slot,        \* Waiter.0: the stored waker of each wait
  slotLock,    \* holder of each Waiter.0 mutex
  task,        \* the waker each wait was last polled with
  notified,    \* that waker was woken since that poll began
  wpc,         \* where each wait is in cancelled()
  cpc,         \* where each thread is in cancel()
  drained,     \* the taken list a thread has still to visit
  current,     \* the wait whose Arc a thread holds
  inflight     \* the waker a thread took from that wait's slot

waitVars == <<listLock, slotLock, slot, task, wpc>>
cancelVars == <<cpc, drained, current, inflight>>
vars == <<cancelled, waiters, listLock, slot, slotLock, task, notified, wpc,
          cpc, drained, current, inflight>>

WaitStep == {"new", "register", "admit", "clone", "swap", "drop", "check",
             "pending", "leave", "abandon", "done", "dropped"}
CancelStep == {"idle", "take", "drain", "slot", "wake", "inside", "returned"}

Finished == {"done", "dropped"}
\* The steps of a wait whose registration is held by its poll_fn.
Polling == {"clone", "swap", "drop", "check", "pending"}

At(w, step) == wpc[w] = step
Go(w, step) == wpc' = [wpc EXCEPT ![w] = step]
Thread(c, step) == cpc[c] = step
Proceed(c, step) == cpc' = [cpc EXCEPT ![c] = step]

Init ==
  /\ cancelled = FALSE
  /\ waiters = {}
  /\ listLock = None
  /\ slot = [w \in Waits |-> None]
  /\ slotLock = [w \in Waits |-> None]
  /\ task = [w \in Waits |-> None]
  /\ notified = [w \in Waits |-> FALSE]
  /\ wpc = [w \in Waits |-> "new"]
  /\ cpc = [c \in Cancellers |-> "idle"]
  /\ drained = [c \in Cancellers |-> {}]
  /\ current = [c \in Cancellers |-> None]
  /\ inflight = [c \in Cancellers |-> None]

-----------------------------------------------------------------------------
(* cancel() *)

\* The flag is stored before any lock is taken.
Cancel(c) ==
  /\ Thread(c, "idle")
  /\ cancelled' = TRUE
  /\ Proceed(c, "take")
  /\ UNCHANGED <<waiters, waitVars, notified, drained, current, inflight>>

\* mem::take of the list; the guard lives for this statement only.
TakeList(c) ==
  /\ Thread(c, "take")
  /\ listLock = None
  /\ drained' = [drained EXCEPT ![c] = waiters]
  /\ waiters' = {}
  /\ Proceed(c, "drain")
  /\ UNCHANGED <<cancelled, waitVars, notified, current, inflight>>

\* The next Weak of the taken list: a wait that is gone is passed over.
Upgrade(c, w) ==
  /\ Thread(c, "drain")
  /\ w \in drained[c]
  /\ drained' = [drained EXCEPT ![c] = @ \ {w}]
  /\ IF wpc[w] \in Finished
     THEN UNCHANGED <<cpc, current>>
     ELSE Proceed(c, "slot") /\ current' = [current EXCEPT ![c] = w]
  /\ UNCHANGED <<cancelled, waiters, waitVars, notified, inflight>>

\* The waker is taken under the slot's lock, which is released at once.
TakeWaker(c) ==
  /\ Thread(c, "slot")
  /\ slotLock[current[c]] = None
  /\ inflight' = [inflight EXCEPT ![c] = slot[current[c]]]
  /\ slot' = [slot EXCEPT ![current[c]] = None]
  /\ Proceed(c, IF slot[current[c]] = None THEN "drain" ELSE "wake")
  /\ UNCHANGED <<cancelled, waiters, listLock, slotLock, task, notified, wpc,
                 drained, current>>

\* waker.wake() enters code of the host.
Wake(c) ==
  /\ Thread(c, "wake")
  /\ notified' = [w \in Waits |-> notified[w] \/ task[w] = inflight[c]]
  /\ Proceed(c, "inside")
  /\ UNCHANGED <<cancelled, waiters, waitVars, drained, current, inflight>>

\* wake() returns: an inline waker only after the poll it started has ended.
Woken(c) ==
  /\ Thread(c, "inside")
  /\ inflight[c] \in Inline =>
       \/ wpc[current[c]] \in Finished
       \/ task[current[c]] # inflight[c]
  /\ inflight' = [inflight EXCEPT ![c] = None]
  /\ Proceed(c, "drain")
  /\ UNCHANGED <<cancelled, waiters, waitVars, notified, drained, current>>

Return(c) ==
  /\ Thread(c, "drain")
  /\ drained[c] = {}
  /\ Proceed(c, "returned")
  /\ UNCHANGED <<cancelled, waiters, waitVars, notified, drained, current, inflight>>

-----------------------------------------------------------------------------
(* cancelled() *)

\* The first poll: the fast path, else a Registration is made.
Enter(w, k) ==
  /\ At(w, "new")
  /\ Go(w, IF cancelled THEN "done" ELSE "register")
  /\ task' = [task EXCEPT ![w] = k]
  /\ UNCHANGED <<cancelled, waiters, listLock, slot, slotLock, notified, cancelVars>>

LockList(w) ==
  /\ At(w, "register")
  /\ listLock = None
  /\ listLock' = w
  /\ Go(w, "admit")
  /\ UNCHANGED <<cancelled, waiters, slot, slotLock, task, notified, cancelVars>>

\* Under the list's lock: give up if cancelled meanwhile, else register. The
\* guard is dropped before the Registration is.
Admit(w) ==
  /\ At(w, "admit")
  /\ listLock' = None
  /\ IF cancelled
     THEN Go(w, "leave") /\ UNCHANGED waiters
     ELSE Go(w, "clone") /\ waiters' = waiters \cup {w}
  /\ UNCHANGED <<cancelled, slot, slotLock, task, notified, cancelVars>>

\* A later poll, from whichever task now owns the future.
Poll(w, k) ==
  /\ At(w, "pending")
  /\ task' = [task EXCEPT ![w] = k]
  /\ notified' = [notified EXCEPT ![w] = FALSE]
  /\ Go(w, "clone")
  /\ UNCHANGED <<cancelled, waiters, listLock, slot, slotLock, cancelVars>>

\* cx.waker().clone() has run host code and the slot's lock is taken.
LockSlot(w) ==
  /\ At(w, "clone")
  /\ slotLock[w] = None
  /\ slotLock' = [slotLock EXCEPT ![w] = w]
  /\ Go(w, "swap")
  /\ UNCHANGED <<cancelled, waiters, listLock, slot, task, notified, cancelVars>>

\* What the slot holds after a poll: the stored waker if it wakes the task that
\* polls (the same task here), else the incoming one.
KeepsFirstWaker(w) == IF slot[w] = None THEN task[w] ELSE slot[w]
Stored(w) == task[w]

\* Slip: the flag is not read again once the waker is stored.
SleepsUnchecked(w) ==
  /\ At(w, "swap")
  /\ slot' = [slot EXCEPT ![w] = Stored(w)]
  /\ slotLock' = [slotLock EXCEPT ![w] = None]
  /\ Go(w, "pending")
  /\ UNCHANGED <<cancelled, waiters, listLock, task, notified, cancelVars>>

\* Unless the stored waker wakes the same task it is replaced; the previous
\* one is dropped after the lock is released.
SwapWaker(w) ==
  /\ At(w, "swap")
  /\ slot' = [slot EXCEPT ![w] = Stored(w)]
  /\ slotLock' = [slotLock EXCEPT ![w] = None]
  /\ Go(w, IF slot[w] \in {None, task[w]} THEN "check" ELSE "drop")
  /\ UNCHANGED <<cancelled, waiters, listLock, task, notified, cancelVars>>

\* drop(previous) runs host code.
DropPrevious(w) ==
  /\ At(w, "drop")
  /\ Go(w, "check")
  /\ UNCHANGED <<cancelled, waiters, listLock, slot, slotLock, task, notified, cancelVars>>

\* Registered before checking.
CheckFlag(w) ==
  /\ At(w, "check")
  /\ Go(w, IF cancelled THEN "leave" ELSE "pending")
  /\ UNCHANGED <<cancelled, waiters, listLock, slot, slotLock, task, notified, cancelVars>>

\* The owner drops the future between polls.
Abandon(w) ==
  /\ \/ At(w, "new") /\ Go(w, "dropped")
     \/ At(w, "pending") /\ Go(w, "abandon")
  /\ UNCHANGED <<cancelled, waiters, listLock, slot, slotLock, task, notified, cancelVars>>

\* Registration::drop retains the registrations of the others.
Retained(w) == waiters \ {w}

Unregister(w) ==
  /\ \/ At(w, "leave") /\ Go(w, "done")
     \/ At(w, "abandon") /\ Go(w, "dropped")
  /\ listLock = None
  /\ waiters' = Retained(w)
  /\ UNCHANGED <<cancelled, listLock, slot, slotLock, task, notified, cancelVars>>

-----------------------------------------------------------------------------

\* What a thread does by itself once cancel() is called, a wait once polled.
CancelRuns(c) == TakeList(c) \/ TakeWaker(c) \/ Wake(c) \/ Woken(c) \/ Return(c)
                   \/ \E w \in Waits : Upgrade(c, w)
WaitRuns(w) == LockList(w) \/ Admit(w) \/ LockSlot(w) \/ SwapWaker(w)
                 \/ DropPrevious(w) \/ CheckFlag(w) \/ Unregister(w)

Next == \/ \E c \in Cancellers : Cancel(c) \/ CancelRuns(c)
        \/ \E w \in Waits : WaitRuns(w) \/ Abandon(w)
        \/ \E w \in Waits, k \in Wakers : Enter(w, k) \/ Poll(w, k)

Safety == Init /\ [][Next]_vars

\* The executor's contract: a task that was woken is polled again. Nothing
\* else makes a pending wait run, and no host has to call cancel().
Repoll(w) == notified[w] /\ \E k \in Wakers : Poll(w, k)

Fairness == /\ \A c \in Cancellers : WF_vars(CancelRuns(c))
            /\ \A w \in Waits : WF_vars(WaitRuns(w)) /\ WF_vars(Repoll(w))

Spec == Safety /\ Fairness

-----------------------------------------------------------------------------
(* Properties *)

\* Every variable holds what the structs of cancellation.rs can hold; a mutex is
\* held from one step to the next by a wait only, a slot's by its own wait.
TypeOK ==
  /\ cancelled \in BOOLEAN
  /\ waiters \subseteq Waits
  /\ listLock \in Waits \cup {None}
  /\ slot \in [Waits -> Wakers \cup {None}]
  /\ \A w \in Waits : slotLock[w] \in {w, None}
  /\ DOMAIN slotLock = Waits
  /\ task \in [Waits -> Wakers \cup {None}]
  /\ notified \in [Waits -> BOOLEAN]
  /\ wpc \in [Waits -> WaitStep]
  /\ cpc \in [Cancellers -> CancelStep]
  /\ drained \in [Cancellers -> SUBSET Waits]
  /\ current \in [Cancellers -> Waits \cup {None}]
  /\ inflight \in [Cancellers -> Wakers \cup {None}]

\* Thread c has still to wake the task that polled w last.
Owes(c, w) ==
  \/ Thread(c, "take") /\ w \in waiters /\ slot[w] = task[w]
  \/ w \in drained[c] /\ slot[w] = task[w]
  \/ Thread(c, "slot") /\ current[c] = w /\ slot[w] = task[w]
  \/ Thread(c, "wake") /\ current[c] = w /\ inflight[c] = task[w]

\* No wake-up is lost: when the token is cancelled, a wait that went to sleep
\* has been woken through its latest waker, or a cancel() under way will do so
\* (cancellation.rs, "Register before checking").
NoLostWake ==
  \A w \in Waits : At(w, "pending") /\ cancelled =>
    notified[w] \/ \E c \in Cancellers : Owes(c, w)

\* Dropping or finishing one wait removes its own registration and leaves every
\* other one: until the signal, the list holds exactly the waits inside poll_fn
\* and those whose drop has not run yet; a finished wait is never in it.
RegistrationsExact ==
  /\ \A w \in Waits : wpc[w] \in Polling \cup {"abandon"} /\ ~cancelled => w \in waiters
  /\ \A w \in waiters : wpc[w] \in Polling \cup {"leave", "abandon"}

\* Host code (wake, clone and drop of a waker) runs while its caller holds
\* neither kind of lock (cancellation.rs, "never call it while holding a lock").
NoLockInHostCode ==
  LET Holds(a) == listLock = a \/ \E w \in Waits : slotLock[w] = a
  IN  /\ \A c \in Cancellers : Thread(c, "inside") => ~Holds(c)
      /\ \A w \in Waits : wpc[w] \in {"clone", "drop"} => ~Holds(w)

\* A call of cancel() returns, even when the wakers it calls run their tasks
\* before they return.
CancelReturns == \A c \in Cancellers : Thread(c, "take") ~> Thread(c, "returned")

-----------------------------------------------------------------------------
(* What the protocol promises *)

Seen(w) == CASE At(w, "new") -> "idle"
             [] At(w, "done") -> "released"
             [] At(w, "dropped") -> "abandoned"
             [] OTHER -> "waiting"

Signal == INSTANCE CancelSignal
            WITH signalled <- cancelled, phase <- [w \in Waits |-> Seen(w)]

\* A wait finishes only because the token was cancelled, always because of it,
\* and cancelling never abandons or restarts a wait.
ImplementsSignal == Signal!SignalSpec
ImplementsSignalSafety == Signal!SignalSafety

\* What holds of the token between any two steps: a cancelled wait is woken, the
\* list is the live registrations, and host code runs without a lock
\* (cancellation.rs, cancel and cancelled).
TokenIsSafe == TypeOK /\ NoLostWake /\ RegistrationsExact /\ NoLockInHostCode

\* What the token promises over time: it is a one-way signal, and cancel() returns.
SignalIsKept == ImplementsSignal /\ CancelReturns
=============================================================================
