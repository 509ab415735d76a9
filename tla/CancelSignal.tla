---------------------------- MODULE CancelSignal ----------------------------
(***************************************************************************)
(* What rust/client/src/cancellation.rs promises to a host, without its    *)
(* locks, wakers and registrations: a one-way signal, and waits that       *)
(* finish only because of the signal and always because of it.             *)
(***************************************************************************)
CONSTANT Waits                       \* the futures returned by cancelled()

VARIABLES signalled,                 \* cancellation has been requested
          phase                      \* what the owner of each wait sees

signalVars == <<signalled, phase>>

Phase == {"idle", "waiting", "released", "abandoned"}

SignalInit == /\ signalled = FALSE
              /\ phase = [w \in Waits |-> "idle"]

Move(w, from, to) == /\ phase[w] = from
                     /\ phase' = [phase EXCEPT ![w] = to]

\* cancel(): repeated calls are harmless.
Signal == /\ signalled' = TRUE
          /\ UNCHANGED phase

\* The wait is polled for the first time and the signal is not there yet.
Start(w) == /\ Move(w, "idle", "waiting")
            /\ UNCHANGED signalled

\* The wait finishes, now or at its first poll, because of the signal.
Release(w) == /\ signalled
              /\ Move(w, "waiting", "released") \/ Move(w, "idle", "released")
              /\ UNCHANGED signalled

\* The owner drops the future.
Abandon(w) == /\ Move(w, "waiting", "abandoned") \/ Move(w, "idle", "abandoned")
              /\ UNCHANGED signalled

SignalNext == Signal \/ \E w \in Waits : Start(w) \/ Release(w) \/ Abandon(w)

\* A wait that has started is released once the signal is there.
Serve(w) == phase[w] = "waiting" /\ Release(w)

SignalSafety == SignalInit /\ [][SignalNext]_signalVars
SignalSpec == SignalSafety /\ \A w \in Waits : WF_signalVars(Serve(w))
=============================================================================
