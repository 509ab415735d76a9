---------------------------- MODULE MCRustThreads ----------------------------
(* The two parts of the Rust client whose state is shared between threads, the *)
(* cancellation token and the cells of a document's operations. They do not    *)
(* meet (a call of the cache has a token of its own), so a behaviour is about  *)
(* one of them and the other keeps its initial state.                          *)
(*                                                                             *)
(* Two waits, two concurrent cancel() calls and two tasks: enough for one      *)
(* wait to move between tasks while the other is woken, for the list to be     *)
(* taken by either call, and for a registration to be dropped among others.    *)
(*                                                                             *)
(* Three calls, an operation that compiles (o1), one that does not (o2) and    *)
(* one whose declarations do not (o3), one cached at most: calls race for one  *)
(* cell or for the last slot while another is stopped anywhere; t1 is never    *)
(* stopped. The calls of a behaviour are about o1 and o2, or all about o3.     *)
EXTENDS Cancellation, OperationCache, TLC

CONSTANTS w1, w2, c1, c2, k1, k2, o1, o2, o3, t1, t2, t3
MCWaits == {w1, w2}
MCCancellers == {c1, c2}
MCWakers == {k1, k2}
\* k1 hands its task to a queue, k2 polls it before wake() returns.
MCInline == {k2}

MCOperations == {o1, o2, o3}
MCCalls == {t1, t2, t3}
MCBroken == {o2}
MCUndeclared == {o3}
MCPrompt == {t1}

VARIABLE topic   \* "token", or the operations the calls of the cache are about

Token == {"token"}

threadVars == <<vars, cacheVars, topic>>

ThreadInit == topic \in {Token, {o1, o2}, {o3}} /\ Init /\ CacheInit

TokenNext == topic = Token /\ Next /\ UNCHANGED <<cacheVars, topic>>
CellsNext == /\ topic # Token /\ CacheNext /\ UNCHANGED <<vars, topic>>
             /\ \A t \in Calls : op'[t] \in topic \cup {Empty}

\* The fairness of Cancellation!Spec and of CacheSpec, each in its behaviours.
TokenSteps(A) == topic = Token /\ A /\ UNCHANGED <<cacheVars, topic>>
CellsSteps(A) == topic # Token /\ A /\ UNCHANGED <<vars, topic>>
ThreadSpec ==
  /\ ThreadInit /\ [][TokenNext \/ CellsNext]_threadVars
  /\ \A c \in Cancellers : WF_threadVars(TokenSteps(CancelRuns(c)))
  /\ \A w \in Waits : /\ WF_threadVars(TokenSteps(WaitRuns(w)))
                      /\ WF_threadVars(TokenSteps(Repoll(w)))
  /\ \A t \in Prompt : WF_threadVars(CellsSteps(Runs(t)))
=============================================================================
