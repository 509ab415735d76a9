--------------------------- MODULE OperationCache ---------------------------
(***************************************************************************)
(* The compiled descriptors a Document keeps (rust/client/src/prepare.rs,  *)
(* compiled() and request_declarations(); the cells are in document.rs).   *)
(* Calls from any number of threads share the cells of an operation; each  *)
(* call has a cancellation token of its own.                               *)
(*                                                                         *)
(* A Compiled is identified by the call that built it, and owns one cell   *)
(* for its request declarations.                                           *)
(*                                                                         *)
(* A cell is a OnceLock: get_or_init and set of a cell that is not written *)
(* enter its initialization, where every other call that writes the cell   *)
(* waits; get never waits. Who is inside is read off the calls' pc.        *)
(***************************************************************************)
EXTENDS Integers, FiniteSets

CONSTANTS Operations,        \* the records of one document
          Calls,             \* calls of compiled() + request_declarations()
          CachedOperations,  \* Limits.cached_operations
          Broken,            \* operations whose parameters do not compile
          Undeclared,        \* operations whose body or responses do not
          Prompt,            \* calls whose thread is never descheduled for ever
          Empty              \* what a cell holds before it is written

VARIABLES
  cached,      \* Store.cached
  cacheSlot,   \* Record.cache_slot: Empty or what get_or_init decided
  compiled,    \* Record.compiled: Empty or a published result
  request,     \* Compiled.request of the Compiled each call built
  token,       \* whether the token of each call is cancelled
  pc,          \* where each call is
  op,          \* its operation
  result       \* what it computed or was given last

cacheVars == <<cached, cacheSlot, compiled, request, token, pc, op, result>>

Step == {"idle", "check", "lookup", "reserve", "grant", "deny", "compile",
         "recheck", "publish", "publishing", "open", "peek", "declare", "settle",
         "settling", "returned"}

\* Results: a Compiled or its declarations (built by a call), a refusal that
\* depends on the document alone, or the caller's own cancellation.
Built(t) == [kind |-> "built", by |-> t]
Refused == [kind |-> "refused", by |-> Empty]
Cancelled == [kind |-> "cancelled", by |-> Empty]
Result == {Built(t) : t \in Calls} \cup {Refused, Cancelled}

ASSUME CacheAssumption ==
  /\ IsFiniteSet(Operations)
  /\ CachedOperations \in Nat
  /\ Broken \subseteq Operations /\ Undeclared \subseteq Operations
  /\ Prompt \subseteq Calls
  /\ Empty \notin Operations \cup Calls
  /\ Empty \notin Result /\ Empty \notin BOOLEAN

CacheInit ==
  /\ cached = 0
  /\ cacheSlot = [o \in Operations |-> Empty]
  /\ compiled = [o \in Operations |-> Empty]
  /\ request = [t \in Calls |-> Empty]
  /\ token = [t \in Calls |-> FALSE]
  /\ pc = [t \in Calls |-> "idle"]
  /\ op = [t \in Calls |-> Empty]
  /\ result = [t \in Calls |-> Empty]

In(t, step) == pc[t] = step
To(t, step) == pc' = [pc EXCEPT ![t] = step]
Give(t, r) == result' = [result EXCEPT ![t] = r]
ReturnWith(t, r) == To(t, "returned") /\ Give(t, r)

cells == <<cached, cacheSlot, compiled, request>>

\* Host code cancels the token of a call, before it or while it runs.
CancelCall(t) == /\ ~token[t] /\ ~In(t, "returned")
             /\ token' = [token EXCEPT ![t] = TRUE]
             /\ UNCHANGED <<cells, pc, op, result>>

Begin(t, o) == /\ In(t, "idle")
               /\ op' = [op EXCEPT ![t] = o]
               /\ To(t, "check")
               /\ UNCHANGED <<cells, token, result>>

-----------------------------------------------------------------------------
(* compiled() *)

Check(t) ==
  /\ In(t, "check")
  /\ IF token[t] THEN ReturnWith(t, Cancelled) ELSE To(t, "lookup") /\ UNCHANGED result
  /\ UNCHANGED <<cells, token, op>>

\* A Compiled goes on to its request declarations, an error is returned.
Deliver(t, r) == Give(t, r) /\ To(t, IF r.kind = "built" THEN "open" ELSE "returned")

Lookup(t) ==
  /\ In(t, "lookup")
  /\ IF compiled[op[t]] # Empty
     THEN Deliver(t, compiled[op[t]])
     ELSE To(t, "reserve") /\ UNCHANGED result
  /\ UNCHANGED <<cells, token, op>>

\* try_update of the counter: room for one more cached operation.
Room == cached < CachedOperations

\* The calls inside the initialization of an operation's slot, which have updated
\* the counter and have only the cell to write.
InSlot(o) == {u \in Calls : pc[u] \in {"grant", "deny"} /\ op[u] = o}

\* cache_slot.get_or_init: a decided slot is read at once, an undecided one is
\* entered if nobody is inside.
DecideAgain(t) ==
  /\ cached' = IF Room THEN cached + 1 ELSE cached
  /\ To(t, IF Room THEN "grant" ELSE "deny")
Decide(t) ==
  IF cacheSlot[op[t]] # Empty
  THEN To(t, "compile") /\ UNCHANGED cached
  ELSE InSlot(op[t]) = {} /\ DecideAgain(t)

\* Slip: compiling inside the slot's initialization, where the other calls of
\* the operation wait for it.
CompilesInSlot(t) ==
  /\ In(t, "reserve")
  /\ \A u \in Calls : In(u, "compile") => op[u] # op[t]
  /\ Decide(t)
  /\ UNCHANGED <<cacheSlot, compiled, request, token, op, result>>
Reserve(t) ==
  /\ In(t, "reserve")
  /\ Decide(t)
  /\ UNCHANGED <<cacheSlot, compiled, request, token, op, result>>

\* The initialization ends: the slot is written and its waiters go on.
Decided(t) ==
  /\ pc[t] \in {"grant", "deny"}
  /\ cacheSlot' = [cacheSlot EXCEPT ![op[t]] = In(t, "grant")]
  /\ To(t, "compile")
  /\ UNCHANGED <<cached, compiled, request, token, op, result>>

\* The work outside any lock. A token cancelled at one of its checkpoints
\* ends it with Cancelled; after the last checkpoint it does not.
Worked(t, bad) == {IF op[t] \in bad THEN Refused ELSE Built(t)}
                    \cup {r \in {Cancelled} : token[t]}

Compile(t) ==
  /\ In(t, "compile")
  /\ \E r \in Worked(t, Broken) : Give(t, r)
  /\ To(t, "recheck")
  /\ UNCHANGED <<cells, token, op>>

Recheck(t) ==
  /\ In(t, "recheck")
  /\ IF token[t] THEN ReturnWith(t, Cancelled) ELSE To(t, "publish") /\ UNCHANGED result
  /\ UNCHANGED <<cells, token, op>>

\* The calls inside the set of an operation's compiled cell.
InCompiled(o) == {u \in Calls : In(u, "publishing") /\ op[u] = o}

\* Only a cacheable result is set. set returns at once from a written cell, whose
\* value is what this call gets, and enters an empty one if nobody is inside.
Publish(t) ==
  /\ In(t, "publish")
  /\ IF cacheSlot[op[t]] # TRUE \/ result[t] = Cancelled
     THEN Deliver(t, result[t])
     ELSE IF compiled[op[t]] # Empty
     THEN Deliver(t, compiled[op[t]])
     ELSE InCompiled(op[t]) = {} /\ To(t, "publishing") /\ UNCHANGED result
  /\ UNCHANGED <<cells, token, op>>

\* set returns, and the call gets what it has set.
Published(t) ==
  /\ In(t, "publishing")
  /\ compiled' = [compiled EXCEPT ![op[t]] = result[t]]
  /\ Deliver(t, result[t])
  /\ UNCHANGED <<cached, cacheSlot, request, token, op>>

-----------------------------------------------------------------------------
(* request_declarations() of the Compiled in result[t] *)

Cell(t) == request[result[t].by]

Open(t) ==
  /\ In(t, "open")
  /\ IF token[t] THEN ReturnWith(t, Cancelled) ELSE To(t, "peek") /\ UNCHANGED result
  /\ UNCHANGED <<cells, token, op>>

Peek(t) ==
  /\ In(t, "peek")
  /\ IF Cell(t) # Empty THEN ReturnWith(t, Cell(t)) ELSE To(t, "declare") /\ UNCHANGED result
  /\ UNCHANGED <<cells, token, op>>

\* The declarations are computed and the token is checked again.
Declare(t) ==
  /\ In(t, "declare")
  /\ IF token[t] THEN ReturnWith(t, Cancelled) ELSE To(t, "settle") /\ UNCHANGED result
  /\ UNCHANGED <<cells, token, op>>

\* The calls inside the set of the request cell of the Compiled that v built.
InRequest(v) == {u \in Calls : In(u, "settling") /\ result[u].by = v}

\* set and get as in Publish: a written cell's value is what is returned.
Settle(t) ==
  /\ In(t, "settle")
  /\ IF Cell(t) # Empty
     THEN ReturnWith(t, Cell(t))
     ELSE InRequest(result[t].by) = {} /\ To(t, "settling") /\ UNCHANGED result
  /\ UNCHANGED <<cells, token, op>>

Settled(t) ==
  /\ In(t, "settling")
  /\ LET own == IF op[t] \in Undeclared THEN Refused ELSE Built(t)
     IN  request' = [request EXCEPT ![result[t].by] = own] /\ ReturnWith(t, own)
  /\ UNCHANGED <<cached, cacheSlot, compiled, token, op>>

-----------------------------------------------------------------------------

Runs(t) == Check(t) \/ Lookup(t) \/ Reserve(t) \/ Decided(t) \/ Compile(t)
             \/ Recheck(t) \/ Publish(t) \/ Published(t) \/ Open(t) \/ Peek(t)
             \/ Declare(t) \/ Settle(t) \/ Settled(t)

CacheNext == \E t \in Calls : CancelCall(t) \/ Runs(t) \/ \E o \in Operations : Begin(t, o)

CacheSafety == CacheInit /\ [][CacheNext]_cacheVars

\* Only the prompt calls are scheduled for ever: any other may stop anywhere.
CacheSpec == CacheSafety /\ \A t \in Prompt : WF_cacheVars(Runs(t))

-----------------------------------------------------------------------------
(* Properties *)

\* Every cell and call holds what the code can put there; the counter never
\* passes Limits.cached_operations.
CacheTypeOK ==
  /\ cached \in 0..CachedOperations
  /\ cacheSlot \in [Operations -> BOOLEAN \cup {Empty}]
  /\ compiled \in [Operations -> Result \cup {Empty}]
  /\ request \in [Calls -> Result \cup {Empty}]
  /\ token \in [Calls -> BOOLEAN]
  /\ pc \in [Calls -> Step]
  /\ op \in [Calls -> Operations \cup {Empty}]
  /\ result \in [Calls -> Result \cup {Empty}]

Slots == {o \in Operations : cacheSlot[o] = TRUE}

\* The operations a slot is granted to, one still inside its initialization too.
Granted == {o \in Operations :
              o \in Slots \/ \E u \in Calls : In(u, "grant") /\ op[u] = o}

\* The counter is the number of slots granted, whatever calls race for them or
\* are cancelled after they got one, and only a slot's operation is published.
CacheAccounted ==
  /\ cached = Cardinality(Granted)
  /\ \A o \in Operations : compiled[o] # Empty => o \in Slots

\* No call caches its cancellation for another one: nothing published is
\* Cancelled, and only the owner of a cancelled token gets that answer.
CancellationStaysPrivate ==
  /\ \A o \in Operations : compiled[o] # Cancelled
  /\ \A t \in Calls : request[t] # Cancelled
  /\ \A t \in Calls : In(t, "returned") /\ result[t] = Cancelled => token[t]

Answered(t) == In(t, "returned") /\ result[t] # Cancelled

\* Two uncancelled calls of an operation agree: on success or refusal whether
\* or not it is cached, and on the very same Arc when it is.
Agreement ==
  \A t, u \in Calls :
    Answered(t) /\ Answered(u) /\ op[t] = op[u] =>
      /\ result[t].kind = result[u].kind
      /\ op[t] \in Slots => result[t] = result[u]

\* What was published or decided once is never replaced.
PublishedStays ==
  [][/\ \A o \in Operations : compiled[o] # Empty => compiled'[o] = compiled[o]
     /\ \A o \in Operations : cacheSlot[o] # Empty => cacheSlot'[o] = cacheSlot[o]
     /\ \A t \in Calls : request[t] # Empty => request'[t] = request[t]]_cells

\* Call t stands at a cell that another call is in the middle of writing.
Behind(t) == \/ In(t, "reserve") /\ InSlot(op[t]) # {}
             \/ In(t, "publish") /\ InCompiled(op[t]) # {}
             \/ In(t, "settle") /\ InRequest(result[t].by) # {}

\* A call whose own thread runs returns, wherever the other calls have stopped,
\* unless one of them stopped for ever between the counter's update and the write
\* of the slot, or inside set: compiling and declaring are outside ("another
\* caller's work must neither delay this caller's cancellation nor ...").
PromptReturns ==
  \A t \in Prompt : <>[]Behind(t) \/ (In(t, "check") ~> In(t, "returned"))

\* Whatever is racing for the cells of a Document, the cache counts its slots,
\* keeps cancellations out and answers the calls of an operation alike
\* (prepare.rs, compiled and request_declarations).
CacheIsSafe == CacheTypeOK /\ CacheAccounted /\ CancellationStaysPrivate /\ Agreement

\* The cells are written once, and no call waits for the work of another.
CacheIsPrompt == PublishedStays /\ PromptReturns
=============================================================================
