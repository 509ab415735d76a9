-------------------------- MODULE InvocationHandle --------------------------
(***************************************************************************)
(* The invocation session of the TypeScript client                         *)
(* (src/typescript/src/internal/invocation.ts): one object with two faces, *)
(* the caller's Invocation and the binding's BindingHandle, over a bounded *)
(* buffer in each direction.  JavaScript runs every method to its first    *)
(* await without interruption, so a method is one action; what it awaits   *)
(* (the validation hook, a full buffer, an empty buffer) splits it.        *)
(* A promise is modelled by its status: "parked" until something settles   *)
(* it, then "accepted" or the error it rejects with.                       *)
(***************************************************************************)
EXTENDS Naturals, Sequences, FiniteSets

CONSTANTS MaxWrites,       \* bound: caller writes
          MaxEmits,        \* bound: binding emits
          MaxReads,        \* bound: next() calls outstanding at once
          InCapacity,      \* INPUT_BUFFER_CAPACITY
          OutCapacity,     \* OUTPUT_BUFFER_CAPACITY
          Validates,       \* whether a validateInput hook is installed
          BindingErrors    \* the errors a binding may end with, none of them
                           \* the name of a status

ASSUME HandleAssumption ==
    /\ MaxWrites \in Nat /\ MaxEmits \in Nat /\ MaxReads \in Nat
    /\ InCapacity \in Nat \ {0} /\ OutCapacity \in Nat \ {0}
    /\ Validates \in BOOLEAN
    /\ BindingErrors \subseteq STRING
    /\ BindingErrors \cap {"none", "idle", "validating", "parked", "accepted",
                         "unused", "first", "second", "value", "done"} = {}

Writes == 1..MaxWrites
Emits == 1..MaxEmits

VARIABLES state, terminal, aborted, header, trailer,
          inBuf, inClosed, readParked, parkedWrites, write, pulled, readEnd,
          outQ, claimed, parkedReads, parkedEmits, emit, received, outEnd,
          single

session == <<state, terminal, aborted, header, trailer>>
inputSide == <<inBuf, inClosed, readParked, parkedWrites, write, pulled, readEnd>>
outputSide == <<outQ, claimed, parkedReads, parkedEmits, emit, received, outEnd,
                single>>
handleVars == <<session, inputSide, outputSide>>

NoError == "none"
AbortErrors == {"ERR_CANCELLED", "ERR_TIMEOUT"}
TerminalErrors == AbortErrors \cup {"ERR_VALIDATION"} \cup BindingErrors
FlowErrors == {"ERR_INPUT_CLOSED", "ERR_INVOCATION_CLOSED"}

(* What a call made too late rejects with: the terminal error if there is   *)
(* one, else the news that the invocation is closed.                        *)
Ended == IF terminal # NoError THEN terminal ELSE "ERR_INVOCATION_CLOSED"

Unwritable == state # "open" \/ inClosed
WriteRefusal == IF state # "open" THEN Ended ELSE "ERR_INPUT_CLOSED"

SettledHeader == IF header = "unset" THEN "empty" ELSE header

(* An external signal that was already aborted ends the invocation in its   *)
(* constructor; otherwise the invocation starts open.                       *)
HandleInit ==
    /\ \/ state = "open" /\ terminal = NoError /\ aborted = FALSE
          /\ header = "unset" /\ inClosed = FALSE
       \/ state = "errored" /\ terminal \in AbortErrors /\ aborted = TRUE
          /\ header = "empty" /\ inClosed = TRUE
    /\ trailer = FALSE
    /\ inBuf = <<>> /\ readParked = FALSE /\ parkedWrites = <<>>
    /\ write = [m \in Writes |-> "idle"] /\ pulled = <<>> /\ readEnd = "none"
    /\ outQ = <<>> /\ claimed = FALSE /\ parkedReads = 0 /\ parkedEmits = <<>>
    /\ emit = [n \in Emits |-> "idle"] /\ received = <<>> /\ outEnd = "none"
    /\ single = "unused"

(***************************************************************************)
(* Terminal transitions.  Everything parked is settled before the signal   *)
(* aborts.  `open` promises of the status function f reject with e.        *)
(***************************************************************************)
RejectParked(f, e) == [k \in DOMAIN f |-> IF f[k] = "parked" THEN e ELSE f[k]]

(* Mutant: an ended invocation drops what it had queued.                    *)
DroppingTerminate(st, error, parkedError) ==
    /\ state' = st /\ terminal' = error /\ aborted' = TRUE
    /\ header' = SettledHeader
    /\ inClosed' = TRUE
    /\ readParked' = FALSE
    /\ readEnd' = IF readParked THEN (IF st = "errored" THEN error ELSE "done")
                  ELSE readEnd
    /\ parkedWrites' = <<>>
    /\ parkedReads' = 0
    /\ outEnd' = IF parkedReads > 0 THEN st ELSE outEnd
    /\ parkedEmits' = <<>>
    /\ emit' = RejectParked(emit, parkedError)
    /\ outQ' = <<>>
    /\ UNCHANGED <<trailer, inBuf, pulled, claimed, received>>

Terminate(st, error, parkedError) ==
    /\ state' = st /\ terminal' = error /\ aborted' = TRUE
    /\ header' = SettledHeader
    /\ inClosed' = TRUE
    /\ readParked' = FALSE
    /\ readEnd' = IF readParked THEN (IF st = "errored" THEN error ELSE "done")
                  ELSE readEnd
    /\ parkedWrites' = <<>>
    /\ parkedReads' = 0
    /\ outEnd' = IF parkedReads > 0 THEN st ELSE outEnd
    /\ parkedEmits' = <<>>
    /\ emit' = RejectParked(emit, parkedError)
    /\ UNCHANGED <<trailer, inBuf, pulled, outQ, claimed, received>>

(* fireError on an open invocation; w is the write status to settle from,   *)
(* s the progress of single().                                              *)
Fail(error, w, s) == /\ Terminate("errored", error, error)
                     /\ write' = RejectParked(w, error)
                     /\ single' = s

FireError(error) == IF state = "open" THEN Fail(error, write, single)
                    ELSE UNCHANGED handleVars

CloseOutput == IF state = "open"
               THEN /\ Terminate("closed", NoError, "ERR_INVOCATION_CLOSED")
                    /\ write' = RejectParked(write, "ERR_INVOCATION_CLOSED")
                    /\ UNCHANGED single
               ELSE UNCHANGED handleVars

(***************************************************************************)
(* The caller: write, close, cancel, an aborted external signal.           *)
(***************************************************************************)
Enqueue(m) ==
    \/ /\ readParked                                \* hand over to the reader
       /\ readParked' = FALSE /\ readEnd' = "value"
       /\ pulled' = Append(pulled, m)
       /\ write' = [write EXCEPT ![m] = "accepted"]
       /\ UNCHANGED <<inBuf, parkedWrites>>
    \/ /\ ~readParked /\ Len(inBuf) < InCapacity
       /\ inBuf' = Append(inBuf, m)
       /\ write' = [write EXCEPT ![m] = "accepted"]
       /\ UNCHANGED <<readParked, readEnd, pulled, parkedWrites>>
    \/ /\ ~readParked /\ Len(inBuf) >= InCapacity
       /\ parkedWrites' = Append(parkedWrites, m)
       /\ write' = [write EXCEPT ![m] = "parked"]
       /\ UNCHANGED <<inBuf, readParked, readEnd, pulled>>

RefuseWrite(m) ==
    /\ write' = [write EXCEPT ![m] = WriteRefusal]
    /\ UNCHANGED <<inBuf, readParked, readEnd, pulled, parkedWrites>>

Write(m) ==
    /\ write[m] = "idle" /\ \A k \in 1..(m - 1) : write[k] # "idle"
    /\ \/ Unwritable /\ RefuseWrite(m)
       \/ /\ ~Unwritable /\ Validates
          /\ write' = [write EXCEPT ![m] = "validating"]
          /\ UNCHANGED <<inBuf, readParked, readEnd, pulled, parkedWrites>>
       \/ ~Unwritable /\ ~Validates /\ Enqueue(m)
    /\ UNCHANGED <<session, outputSide, inClosed>>

(* The hook's promise resolves with no error: the state is read again.      *)
Validated(m) ==
    /\ write[m] = "validating"
    /\ IF Unwritable THEN RefuseWrite(m) ELSE Enqueue(m)
    /\ UNCHANGED <<session, outputSide, inClosed>>

(* The hook resolves with an error: the invocation fails with it if it is   *)
(* still open, and the write rejects with it in any case.                   *)
Invalid(m) ==
    /\ write[m] = "validating"
    /\ LET w == [write EXCEPT ![m] = "ERR_VALIDATION"]
       IN  IF state = "open" THEN Fail("ERR_VALIDATION", w, single)
           ELSE /\ write' = w
                /\ UNCHANGED <<session, outputSide, inBuf, inClosed, readParked,
                               parkedWrites, pulled, readEnd>>

Close ==
    /\ ~inClosed
    /\ inClosed' = TRUE
    /\ readParked' = FALSE
    /\ readEnd' = IF readParked THEN "done" ELSE readEnd
    /\ parkedWrites' = <<>>
    /\ write' = RejectParked(write, "ERR_INPUT_CLOSED")
    /\ UNCHANGED <<session, outputSide, inBuf, pulled>>

CancelSession == state = "open" /\ Fail("ERR_CANCELLED", write, single)

ExternalAbort == /\ ~aborted                        \* the listener is removed by the abort
                 /\ \E e \in AbortErrors : FireError(e)

(***************************************************************************)
(* The consumer of the outputs.                                            *)
(***************************************************************************)
Claim == /\ ~claimed
         /\ claimed' = TRUE
         /\ single' \in {"unused", "first"}
         /\ UNCHANGED <<session, inputSide, outQ, parkedReads, parkedEmits, emit,
                        received, outEnd>>

(* Mutant: a pull frees a slot and leaves the waiting producer waiting.     *)
ForgetfulReadNext ==
    \/ /\ outQ # <<>>
       /\ received' = Append(received, Head(outQ))
       /\ outQ' = Tail(outQ)
       /\ UNCHANGED <<parkedReads, parkedEmits, emit, outEnd>>
    \/ /\ outQ = <<>> /\ state # "open"
       /\ outEnd' = state
       /\ UNCHANGED <<outQ, parkedReads, parkedEmits, emit, received>>
    \/ /\ outQ = <<>> /\ state = "open"
       /\ parkedReads' = parkedReads + 1
       /\ UNCHANGED <<outQ, parkedEmits, emit, received, outEnd>>

(* Mutant: the terminal error is thrown before the queue is drained.        *)
HastyReadNext ==
    \/ /\ state = "errored"
       /\ outEnd' = state
       /\ UNCHANGED <<outQ, parkedReads, parkedEmits, emit, received>>
    \/ state # "errored" /\ ForgetfulReadNext

(* readNext: the queue is drained before the state is looked at.            *)
ReadNext ==
    \/ /\ outQ # <<>>
       /\ received' = Append(received, Head(outQ))
       /\ IF parkedEmits = <<>>
          THEN /\ outQ' = Tail(outQ)
               /\ UNCHANGED <<parkedEmits, emit>>
          ELSE /\ outQ' = Append(Tail(outQ), Head(parkedEmits))
               /\ parkedEmits' = Tail(parkedEmits)
               /\ emit' = [emit EXCEPT ![Head(parkedEmits)] = "accepted"]
       /\ UNCHANGED <<parkedReads, outEnd>>
    \/ /\ outQ = <<>> /\ state # "open"
       /\ outEnd' = state
       /\ UNCHANGED <<outQ, parkedReads, parkedEmits, emit, received>>
    \/ /\ outQ = <<>> /\ state = "open"
       /\ parkedReads' = parkedReads + 1
       /\ UNCHANGED <<outQ, parkedEmits, emit, received, outEnd>>

Pull == /\ claimed /\ single = "unused"
        /\ outEnd = "none" /\ parkedReads < MaxReads
        /\ ReadNext
        /\ UNCHANGED <<session, inputSide, claimed, single>>

(* Leaving the iteration early calls the iterator's return().               *)
Abandon == /\ claimed /\ single = "unused" /\ outEnd = "none"
           /\ CancelSession

(* single(): one value, then a second read that must find the end.          *)
SingleRead ==
    /\ \/ single = "first" /\ received = <<>>
       \/ single = "second" /\ Len(received) = 1
    /\ outEnd = "none" /\ parkedReads = 0
    /\ ReadNext
    /\ UNCHANGED <<session, inputSide, claimed, single>>

SingleFirst ==
    /\ single = "first" /\ parkedReads = 0
    /\ \/ received # <<>> /\ single' = "second"
       \/ outEnd = "closed" /\ single' = "ERR_EXPECTED_SINGLE"
       \/ outEnd = "errored" /\ single' = terminal
    /\ UNCHANGED <<session, inputSide, outQ, claimed, parkedReads, parkedEmits,
                   emit, received, outEnd>>

SingleSecond ==
    /\ single = "second" /\ parkedReads = 0
    /\ \/ /\ Len(received) = 2                      \* too many: return() cancels
          /\ IF state = "open" THEN Fail("ERR_CANCELLED", write, "ERR_EXPECTED_SINGLE")
             ELSE /\ single' = "ERR_EXPECTED_SINGLE"
                  /\ UNCHANGED <<session, inputSide, outQ, claimed, parkedReads,
                                 parkedEmits, emit, received, outEnd>>
       \/ /\ outEnd # "none"
          /\ single' = IF outEnd = "closed" THEN "value" ELSE terminal
          /\ UNCHANGED <<session, inputSide, outQ, claimed, parkedReads,
                         parkedEmits, emit, received, outEnd>>

(***************************************************************************)
(* The binding: inputs(), emitOutput, metadata.  A second concurrent read  *)
(* rejects without touching the session, and is no action.                 *)
(***************************************************************************)
BindingRead ==
    /\ ~readParked
    /\ \/ /\ state = "errored"
          /\ readEnd' = terminal
          /\ UNCHANGED <<inBuf, readParked, parkedWrites, write, pulled>>
       \/ /\ state # "errored" /\ inBuf # <<>>
          /\ readEnd' = "value"
          /\ pulled' = Append(pulled, Head(inBuf))
          /\ IF parkedWrites = <<>>
             THEN /\ inBuf' = Tail(inBuf)
                  /\ UNCHANGED <<parkedWrites, write>>
             ELSE /\ inBuf' = Append(Tail(inBuf), Head(parkedWrites))
                  /\ parkedWrites' = Tail(parkedWrites)
                  /\ write' = [write EXCEPT ![Head(parkedWrites)] = "accepted"]
          /\ UNCHANGED readParked
       \/ /\ state # "errored" /\ inBuf = <<>> /\ inClosed
          /\ readEnd' = "done"
          /\ UNCHANGED <<inBuf, readParked, parkedWrites, write, pulled>>
       \/ /\ state # "errored" /\ inBuf = <<>> /\ ~inClosed
          /\ readParked' = TRUE
          /\ UNCHANGED <<inBuf, parkedWrites, write, pulled, readEnd>>
    /\ UNCHANGED <<session, outputSide, inClosed>>

EmitOutput(n) ==
    /\ emit[n] = "idle" /\ \A k \in 1..(n - 1) : emit[k] # "idle"
    /\ header' = IF state = "open" THEN SettledHeader ELSE header
    /\ \/ /\ state # "open"
          /\ emit' = [emit EXCEPT ![n] = Ended]
          /\ UNCHANGED <<outQ, parkedReads, parkedEmits, received>>
       \/ /\ state = "open" /\ parkedReads > 0      \* hand over to the consumer
          /\ parkedReads' = parkedReads - 1
          /\ received' = Append(received, n)
          /\ emit' = [emit EXCEPT ![n] = "accepted"]
          /\ UNCHANGED <<outQ, parkedEmits>>
       \/ /\ state = "open" /\ parkedReads = 0 /\ Len(outQ) < OutCapacity
          /\ outQ' = Append(outQ, n)
          /\ emit' = [emit EXCEPT ![n] = "accepted"]
          /\ UNCHANGED <<parkedReads, parkedEmits, received>>
       \/ /\ state = "open" /\ parkedReads = 0 /\ Len(outQ) >= OutCapacity
          /\ parkedEmits' = Append(parkedEmits, n)
          /\ emit' = [emit EXCEPT ![n] = "parked"]
          /\ UNCHANGED <<outQ, parkedReads, received>>
    /\ UNCHANGED <<state, terminal, aborted, trailer, inputSide, claimed, outEnd,
                   single>>

(* setHeader throws once the header is settled; setTrailer is dropped once  *)
(* the invocation ended.                                                    *)
SetHeader == /\ header = "unset"
             /\ header' = "binding"
             /\ UNCHANGED <<state, terminal, aborted, trailer, inputSide, outputSide>>

SetTrailer == /\ state = "open"
              /\ trailer' = TRUE
              /\ UNCHANGED <<state, terminal, aborted, header, inputSide, outputSide>>

(***************************************************************************)
(* A binding that may do anything its face allows.                         *)
(***************************************************************************)
CallerNext == \/ \E m \in Writes : Write(m) \/ Validated(m) \/ Invalid(m)
              \/ Close \/ CancelSession \/ ExternalAbort

ConsumerNext == Claim \/ Pull \/ Abandon \/ SingleRead \/ SingleFirst \/ SingleSecond

BindingNext == \/ BindingRead \/ SetHeader \/ SetTrailer \/ CloseOutput
               \/ \E n \in Emits : EmitOutput(n)
               \/ \E e \in BindingErrors : FireError(e)

HandleNext == CallerNext \/ ConsumerNext \/ BindingNext

(* A consumer that claimed the outputs keeps pulling until it sees the end; *)
(* a validation hook answers; and somebody ends the invocation.             *)
HandleFairness == /\ WF_handleVars(Pull)
                  /\ WF_handleVars(SingleRead \/ SingleFirst \/ SingleSecond)
                  /\ \A m \in Writes : WF_handleVars(Validated(m) \/ Invalid(m))

HandleSpec == HandleInit /\ [][HandleNext]_handleVars /\ HandleFairness

(***************************************************************************)
(* Properties.                                                             *)
(***************************************************************************)
Statuses(others) == {"idle", "parked", "accepted"} \cup others
                      \cup TerminalErrors \cup FlowErrors

(* The types of the session's fields (invocation.ts:486-508).              *)
HandleTypeOK ==
    /\ state \in {"open", "closed", "errored"}
    /\ terminal \in TerminalErrors \cup {NoError}
    /\ aborted \in BOOLEAN /\ trailer \in BOOLEAN
    /\ header \in {"unset", "binding", "empty"}
    /\ inBuf \in Seq(Writes) /\ parkedWrites \in Seq(Writes)
    /\ pulled \in Seq(Writes)
    /\ inClosed \in BOOLEAN /\ readParked \in BOOLEAN
    /\ write \in [Writes -> Statuses({"validating"})]
    /\ readEnd \in {"none", "value", "done"} \cup TerminalErrors
    /\ outQ \in Seq(Emits) /\ parkedEmits \in Seq(Emits)
    /\ received \in Seq(Emits)
    /\ claimed \in BOOLEAN /\ parkedReads \in Nat
    /\ emit \in [Emits -> Statuses({})]
    /\ outEnd \in {"none", "closed", "errored"}
    /\ single \in {"unused", "first", "second", "value", "ERR_EXPECTED_SINGLE"}
                    \cup TerminalErrors

(* The class comment's invariant: a consumer waits only on an empty buffer, *)
(* a producer only behind a full one, and neither waits on an invocation    *)
(* that has ended or an input side that has closed: nobody is stranded.     *)
BuffersSound ==
    /\ parkedReads > 0 => outQ = <<>> /\ state = "open"
    /\ parkedEmits # <<>> => Len(outQ) = OutCapacity /\ state = "open"
    /\ readParked => inBuf = <<>> /\ ~inClosed
    /\ parkedWrites # <<>> => Len(inBuf) = InCapacity /\ ~inClosed
    /\ state # "open" => inClosed /\ aborted
    /\ Len(outQ) <= OutCapacity /\ Len(inBuf) <= InCapacity

Elements(s) == {s[i] : i \in DOMAIN s}
Increasing(s) == \A i, j \in DOMAIN s : i < j => s[i] < s[j]
Distinct(s) == \A i, j \in DOMAIN s : i # j => s[i] # s[j]

(* "Delivery is always lossless, in-order, exactly-once": what the consumer *)
(* has, then the queue, then the waiting emits are the emits in call order, *)
(* and an emit that resolved is in one of the first two for ever, whatever  *)
(* ends the invocation.  The same of accepted writes while the invocation   *)
(* is open.                                                                 *)
LosslessInOrder ==
    /\ Increasing(received \o outQ \o parkedEmits)
    /\ Elements(received \o outQ) = {n \in Emits : emit[n] = "accepted"}
    /\ Elements(parkedEmits) = {n \in Emits : emit[n] = "parked"}
    /\ Distinct(pulled \o inBuf \o parkedWrites)
    /\ Elements(pulled \o inBuf) = {m \in Writes : write[m] = "accepted"}
    /\ Elements(parkedWrites) = {m \in Writes : write[m] = "parked"}

(* single() yields a value only of an invocation that ended well having     *)
(* accepted exactly one output; a failure after the first output is not     *)
(* taken for success.                                                       *)
SingleIsExact ==
    single = "value" => /\ state = "closed"
                        /\ Cardinality({n \in Emits : emit[n] = "accepted"}) = 1

(* "Terminal is sticky and single": no later call, abort or late validation *)
(* changes how the invocation ended, its header, or what was accepted.      *)
TerminalIsSticky ==
    [][state # "open" => /\ UNCHANGED <<state, terminal, header, trailer>>
                         /\ received' \o outQ' = received \o outQ
                         /\ pulled' \o inBuf' = pulled \o inBuf]_handleVars

(* An emit that parks is settled if the consumer keeps pulling, and a       *)
(* consumer that keeps pulling sees the end of an ended invocation.         *)
NobodyWaitsForEver ==
    /\ \A n \in Emits : (emit[n] = "parked" /\ claimed /\ single = "unused")
                           ~> emit[n] # "parked"
    /\ (state # "open" /\ claimed /\ single = "unused") ~> outEnd # "none"

(* The outputs implement the abstract stream.                               *)
Stream == INSTANCE OutputStream WITH
            Values <- Emits, sent <- received \o outQ, got <- received,
            end <- state, seen <- outEnd
ImplementsStream == Stream!Spec

(* The outputs are a stream with one end, and nothing that ends an          *)
(* invocation is ever taken back (invocation.ts, fireError, closeOutput).   *)
StreamEndsOnce == ImplementsStream /\ TerminalIsSticky

(* What a consumer gets is what the binding emitted, in order and in full,  *)
(* by iteration as by single(), within the bounds of the buffers            *)
(* (invocation.ts, InvocationImpl).                                         *)
DeliveryIsSound == HandleTypeOK /\ BuffersSound /\ LosslessInOrder /\ SingleIsExact
=============================================================================
