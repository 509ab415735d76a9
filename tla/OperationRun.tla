---------------------------- MODULE OperationRun ----------------------------
(***************************************************************************)
(* One HTTP operation over an invocation (runBinding and what it calls,    *)
(* src/typescript/src/invoke.ts): the refusals decided before any input is *)
(* read, the reading of the one input, the planning of the request, the    *)
(* dispatch with its redirects, and the completion from the response.  The *)
(* run is the binding of InvocationHandle; the caller and the consumer act *)
(* between any two of its awaits.                                          *)
(***************************************************************************)
EXTENDS InvocationHandle

CONSTANTS Operations,      \* the operations to run, see OperationType
          MaxHops          \* dispatches of one redirect chain (10 in the code)

VARIABLES op,              \* the operation and what its declarations say
          pc,              \* the await at which the run stands
          ready,           \* onReady was called: preflight passed
          candidate,       \* the request media candidate being tried
          handler,         \* the security handler being awaited
          dispatched,      \* requests handed to the transport
          verdict,         \* the classification: "none", "success", "failure"
          item             \* emits so far

runVars == <<op, pc, ready, candidate, handler, dispatched, verdict, item>>
vars == <<handleVars, runVars>>

(***************************************************************************)
(* The refusals known without input, in the order the code decides them.   *)
(***************************************************************************)
Gates == <<
  [gate |-> "reference",      code |-> "ERR_INVALID_REF"],
  [gate |-> "noPaths",        code |-> "ERR_REFUSED"],
  [gate |-> "noPath",         code |-> "ERR_REF_NOT_FOUND"],
  [gate |-> "noMethod",       code |-> "ERR_REF_NOT_FOUND"],
  [gate |-> "connect",        code |-> "ERR_REFUSED"],
  [gate |-> "parameterShape", code |-> "ERR_REFUSED"],
  [gate |-> "fieldName",      code |-> "ERR_REFUSED"],
  [gate |-> "equivalentPath", code |-> "ERR_REFUSED"],
  [gate |-> "delimiter",      code |-> "ERR_REFUSED"],
  [gate |-> "ownership",      code |-> "ERR_REFUSED"],
  [gate |-> "schemeUndefined", code |-> "ERR_REFUSED"],
  [gate |-> "unflattenable",  code |-> "ERR_REFUSED"],
  [gate |-> "style",          code |-> "ERR_REFUSED"],
  [gate |-> "unaddressable",  code |-> "ERR_REFUSED"],
  [gate |-> "server",         code |-> "CONTEXT_REQUIRED"],
  [gate |-> "serverInvalid",  code |-> "ERR_REFUSED"],
  [gate |-> "credentialClash", code |-> "ERR_REFUSED"],
  [gate |-> "securityChoice", code |-> "ERR_REFUSED"],
  [gate |-> "credentials",    code |-> "CONTEXT_REQUIRED"],
  [gate |-> "bodyPlan",       code |-> "ERR_REFUSED"],
  [gate |-> "bodyCarriage",   code |-> "ERR_REFUSED"],
  [gate |-> "requestMedia",   code |-> "CONTEXT_REQUIRED"],
  [gate |-> "propertyMedia",  code |-> "CONTEXT_REQUIRED"],
  [gate |-> "propertyChoice", code |-> "ERR_REFUSED"]>>

GateNames == {Gates[i].gate : i \in DOMAIN Gates}

(* The gates of a required body are asked of no other operation.            *)
BodyGates == {"bodyPlan", "bodyCarriage", "requestMedia", "propertyMedia",
              "propertyChoice"}

OperationType ==
  [defects : SUBSET GateNames,
   input : BOOLEAN,                \* it has parameters or a body
   bodyRequired : BOOLEAN,
   candidates : Nat \ {0},         \* request media candidates, or the one of no body
   handlers : Nat,                 \* custom handlers of the selected security
   lane : {"fetch", "host"},       \* the transport that sends the method
   redirect : {"manual", "follow"},
   kind : {"head", "empty", "unary", "stream"}]   \* of its responses

Refusals == {"ERR_REFUSED", "ERR_INVALID_REF", "ERR_REF_NOT_FOUND",
             "CONTEXT_REQUIRED"}

(* The errors a run ends with; one output at least can be emitted.          *)
RunErrors == Refusals \cup {"ERR_RUNTIME", "ERR_CONNECT_FAILED", "ERR_PROTOCOL", "ERR_HTTP",
                           "ERR_RESPONSE_ERROR", "ERR_STREAM_ERROR"}

ASSUME RunAssumption == /\ MaxHops \in Nat \ {0} /\ MaxEmits # 0
                        /\ Operations \subseteq OperationType
                        /\ RunErrors \subseteq BindingErrors

DefectsOf(o) == o.defects \ (IF o.bodyRequired THEN {} ELSE BodyGates)
FailsAt(o, i) == /\ Gates[i].gate \in DefectsOf(o)
                 /\ \A j \in 1..(i - 1) : Gates[j].gate \notin DefectsOf(o)

RunInit == /\ HandleInit
           /\ op \in Operations
           /\ pc = "start" /\ ready = FALSE
           /\ candidate = 1 /\ handler = 1
           /\ dispatched = 0 /\ verdict = "none" /\ item = 0

Go(next) == pc' = next

(* A run that throws rejects; whoever started it calls fireError, which     *)
(* does nothing if the invocation has ended.                                *)
FailWith(code) == FireError(code) /\ Go("done")

(* closeInput is close, which does nothing on a closed input side.          *)
CloseInput == IF inClosed THEN UNCHANGED handleVars ELSE Close

(***************************************************************************)
(* Before the request.                                                     *)
(***************************************************************************)
Preflight ==
    /\ pc = "start"
    /\ \/ \E i \in DOMAIN Gates : /\ FailsAt(op, i)
                                  /\ FailWith(Gates[i].code)
                                  /\ UNCHANGED ready
       \/ /\ DefectsOf(op) = {}
          /\ ready' = TRUE
          /\ IF op.input THEN UNCHANGED handleVars /\ Go("read")
             ELSE CloseInput /\ Go("plan")
    /\ UNCHANGED <<op, candidate, handler, dispatched, verdict, item>>

(* readFirst: the loop over inputs() returns at its first value; a terminal *)
(* that comes meanwhile makes it throw.                                     *)
ReadFirst ==
    /\ pc = "read"
    /\ BindingRead
    /\ Go(IF readParked' THEN "reading" ELSE "got")
    /\ UNCHANGED <<op, ready, candidate, handler, dispatched, verdict, item>>

InputArrives ==
    /\ pc = "reading" /\ ~readParked
    /\ Go("got")
    /\ UNCHANGED <<handleVars, op, ready, candidate, handler, dispatched, verdict,
                   item>>

TakeInput ==
    /\ pc = "got"
    /\ IF readEnd \in {"value", "done"}
       THEN CloseInput /\ Go("plan")
       ELSE UNCHANGED handleVars /\ Go("done")
    /\ UNCHANGED <<op, ready, candidate, handler, dispatched, verdict, item>>

(* Routing refusals.  Without a value a required body cannot be sent.       *)
Plan ==
    /\ pc = "plan"
    /\ \/ FailWith("ERR_REFUSED")
       \/ /\ ~(op.bodyRequired /\ pulled = <<>>)
          /\ UNCHANGED handleVars /\ Go("body")
    /\ UNCHANGED <<op, ready, candidate, handler, dispatched, verdict, item>>

(* Each candidate is routed and built; the first that can carry the input   *)
(* wins, a missing path parameter ends the search.                          *)
TryCandidate ==
    /\ pc = "body"
    /\ \/ Go("assemble") /\ UNCHANGED <<handleVars, candidate>>
       \/ /\ candidate < op.candidates
          /\ candidate' = candidate + 1
          /\ UNCHANGED <<handleVars, pc>>
       \/ FailWith("ERR_REFUSED") /\ UNCHANGED candidate
    /\ UNCHANGED <<op, ready, handler, dispatched, verdict, item>>

(* Credentials may collide with what the input populated, the completed URL *)
(* may be of no HTTP scheme (a throw), and the request content codings may  *)
(* refuse.                                                                  *)
Assemble ==
    /\ pc = "assemble"
    /\ \/ FailWith("ERR_REFUSED")
       \/ FailWith("ERR_RUNTIME")
       \/ Go("transport") /\ UNCHANGED handleVars
    /\ UNCHANGED <<op, ready, candidate, handler, dispatched, verdict, item>>

ChooseTransport ==
    /\ pc = "transport"
    /\ \/ op.lane = "host" /\ FailWith("ERR_REFUSED")    \* no host sends this method
       \/ Go("secure") /\ UNCHANGED handleVars
    /\ UNCHANGED <<op, ready, candidate, handler, dispatched, verdict, item>>

SecurityHandler ==
    /\ pc = "secure" /\ handler <= op.handlers
    /\ \/ FailWith("ERR_REFUSED") /\ UNCHANGED handler
       \/ handler' = handler + 1 /\ UNCHANGED <<handleVars, pc>>
    /\ UNCHANGED <<op, ready, candidate, dispatched, verdict, item>>

(***************************************************************************)
(* The exchange.  Both transports reject at once, sending nothing, when    *)
(* the signal has aborted, and reject when it aborts before the response.  *)
(***************************************************************************)
(* Mutant: the transport is called without a look at the signal.            *)
BlindDispatch ==
    /\ pc = "secure" /\ handler > op.handlers
    /\ dispatched' = dispatched + 1
    /\ Go("flight")
    /\ UNCHANGED <<handleVars, op, ready, candidate, handler, verdict, item>>

Dispatch ==
    /\ pc = "secure" /\ handler > op.handlers
    /\ dispatched' = IF aborted THEN dispatched ELSE dispatched + 1
    /\ Go("flight")
    /\ UNCHANGED <<handleVars, op, ready, candidate, handler, verdict, item>>

AbortInFlight ==
    /\ pc = "flight" /\ aborted
    /\ Go("done")
    /\ UNCHANGED <<handleVars, op, ready, candidate, handler, dispatched, verdict,
                   item>>

NoResponse ==
    /\ pc = "flight" /\ ~aborted
    /\ FailWith("ERR_CONNECT_FAILED")
    /\ UNCHANGED <<op, ready, candidate, handler, dispatched, verdict, item>>

(* Mutant: too many redirects are reported as a refusal.                    *)
RefusedRedirect ==
    /\ pc = "flight" /\ ~aborted /\ op.redirect = "follow"
    /\ IF dispatched < MaxHops
       THEN dispatched' = dispatched + 1 /\ UNCHANGED <<handleVars, pc>>
       ELSE FailWith("ERR_REFUSED") /\ UNCHANGED dispatched
    /\ UNCHANGED <<op, ready, candidate, handler, verdict, item>>

(* A redirect that keeps the method is followed; the eleventh dispatch is   *)
(* not made.                                                                *)
FollowRedirect ==
    /\ pc = "flight" /\ ~aborted /\ op.redirect = "follow"
    /\ IF dispatched < MaxHops
       THEN dispatched' = dispatched + 1 /\ UNCHANGED <<handleVars, pc>>
       ELSE FailWith("ERR_CONNECT_FAILED") /\ UNCHANGED dispatched
    /\ UNCHANGED <<op, ready, candidate, handler, verdict, item>>

Response ==
    /\ pc = "flight" /\ ~aborted
    /\ Go(IF op.kind \in {"stream", "head"} THEN "headers" ELSE "buffer")
    /\ UNCHANGED <<handleVars, op, ready, candidate, handler, dispatched, verdict,
                   item>>

(***************************************************************************)
(* Reading the body.  The fetch body fails when the signal aborts.  The    *)
(* host transport stopped listening to the signal when the header section  *)
(* arrived: its body goes on until the peer sends or ends.                 *)
(***************************************************************************)
BodyAwaits == {"buffer", "peek", "failureBody", "chunk"}

(* Mutant: only a buffered body listens to the signal.                      *)
DeafBody ==
    /\ pc = "buffer" /\ aborted /\ op.lane = "fetch"
    /\ Go("done")
    /\ UNCHANGED <<handleVars, op, ready, candidate, handler, dispatched, verdict,
                   item>>

AbortedBody ==
    /\ pc \in BodyAwaits /\ aborted /\ op.lane = "fetch"
    /\ Go("done")
    /\ UNCHANGED <<handleVars, op, ready, candidate, handler, dispatched, verdict,
                   item>>

PeerSpeaks(p) == pc = p /\ (aborted => op.lane = "host")

(* governOpenAPIResponse: the whole body within the delivery bound, decoded *)
(* and matched with its declaration.                                        *)
Buffer ==
    /\ PeerSpeaks("buffer")
    /\ \/ \E e \in {"ERR_PROTOCOL", "ERR_RESPONSE_ERROR"} : FailWith(e)
       \/ Go("headers") /\ UNCHANGED handleVars
    /\ UNCHANGED <<op, ready, candidate, handler, dispatched, verdict, item>>

(* Mutant: a missing required header ends the run without ending the        *)
(* invocation.                                                              *)
SilentHeaders ==
    /\ pc = "headers"
    /\ \/ header # "unset" /\ Go("done") /\ UNCHANGED handleVars
       \/ /\ SetHeader
          /\ Go(IF op.kind = "stream" THEN "peek" ELSE "classify")
       \/ header = "unset" /\ Go("done") /\ UNCHANGED handleVars
    /\ UNCHANGED <<op, ready, candidate, handler, dispatched, verdict, item>>

(* setHeader throws if the invocation ended meanwhile.  A declared response *)
(* header may be missing.                                                   *)
Headers ==
    /\ pc = "headers"
    /\ \/ header # "unset" /\ Go("done") /\ UNCHANGED handleVars
       \/ /\ SetHeader
          /\ Go(IF op.kind = "stream" THEN "peek" ELSE "classify")
       \/ /\ header = "unset" /\ state = "open"
          /\ Fail("ERR_PROTOCOL", write, single) /\ Go("done")
    /\ UNCHANGED <<op, ready, candidate, handler, dispatched, verdict, item>>

(* peekResponseBody: the first octet, or an empty body, or a failed read.   *)
Peek ==
    /\ PeerSpeaks("peek")
    /\ \/ FailWith("ERR_RESPONSE_ERROR") /\ UNCHANGED op
       \/ /\ \/ UNCHANGED op
             \/ op' = [op EXCEPT !.kind = "empty"]
          /\ Go("classify") /\ UNCHANGED handleVars
    /\ UNCHANGED <<ready, candidate, handler, dispatched, verdict, item>>

(* The classification hooks decide, or throw.  ERR_HTTP stands for the      *)
(* ERR_EXECUTION_FAILED that carries the HTTP response as its evidence.     *)
Classify ==
    /\ pc = "classify"
    /\ \/ FailWith("ERR_RUNTIME") /\ UNCHANGED verdict
       \/ /\ verdict' = "failure"
          /\ IF op.kind = "stream" THEN Go("failureBody") /\ UNCHANGED handleVars
             ELSE FailWith("ERR_HTTP")
       \/ /\ verdict' = "success"
          /\ CASE op.kind \in {"head", "empty"} -> Go("complete")
               [] op.kind = "unary" -> Go("decode")
               [] op.kind = "stream" -> Go("chunk")
          /\ UNCHANGED handleVars
    /\ UNCHANGED <<op, ready, candidate, handler, dispatched, item>>

(* A failure keeps its bytes as evidence; an unreadable body is reported    *)
(* instead of the status.                                                   *)
FailureBody ==
    /\ PeerSpeaks("failureBody")
    /\ \E e \in {"ERR_HTTP", "ERR_RESPONSE_ERROR"} : FailWith(e)
    /\ UNCHANGED <<op, ready, candidate, handler, dispatched, verdict, item>>

(* The trailing metadata, then the end of the output side.                  *)
Complete ==
    /\ pc = "complete"
    /\ CloseOutput /\ Go("done")
    /\ UNCHANGED <<op, ready, candidate, handler, dispatched, verdict, item>>

(* The unary output is matched with its declaration, decoded (a hook may    *)
(* throw) and emitted.                                                      *)
DecodeBody ==
    /\ pc = "decode"
    /\ \/ \E e \in {"ERR_PROTOCOL", "ERR_RESPONSE_ERROR"} : FailWith(e) /\ UNCHANGED item
       \/ /\ item' = item + 1
          /\ EmitOutput(item + 1) /\ Go("emit")
    /\ UNCHANGED <<op, ready, candidate, handler, dispatched, verdict>>

(* One read of a stream: an item, its end, a failed read, an item too large *)
(* or malformed, or octets that complete no item (no change).               *)
Chunk ==
    /\ PeerSpeaks("chunk")
    /\ \/ /\ item < MaxEmits
          /\ item' = item + 1
          /\ EmitOutput(item + 1) /\ Go("emit")
       \/ /\ Go("complete") /\ UNCHANGED <<handleVars, item>>
       \/ /\ \E e \in {"ERR_STREAM_ERROR", "ERR_RESPONSE_ERROR"} : FailWith(e)
          /\ UNCHANGED item
    /\ UNCHANGED <<op, ready, candidate, handler, dispatched, verdict>>

Emitted ==
    /\ pc = "emit" /\ emit[item] # "parked"
    /\ IF emit[item] = "accepted"
       THEN Go(IF op.kind = "unary" THEN "complete" ELSE "chunk")
       ELSE Go("done")                               \* it rejected: stop emitting
    /\ UNCHANGED <<handleVars, op, ready, candidate, handler, dispatched, verdict,
                   item>>

-----------------------------------------------------------------------------
OwnStep == \/ Preflight \/ ReadFirst \/ InputArrives \/ TakeInput \/ Plan
           \/ TryCandidate \/ Assemble \/ ChooseTransport \/ SecurityHandler
           \/ Dispatch \/ AbortInFlight \/ AbortedBody \/ Headers \/ Classify
           \/ Complete \/ DecodeBody \/ Emitted

PeerStep == \/ NoResponse \/ FollowRedirect \/ Response
            \/ Buffer \/ Peek \/ FailureBody \/ Chunk

UserStep == (CallerNext \/ ConsumerNext) /\ UNCHANGED runVars

RunNext == OwnStep \/ PeerStep \/ UserStep

(* The run's own continuations are scheduled, user hooks answer, and a      *)
(* consumer keeps pulling.  Nothing is assumed of the peer or the caller.   *)
RunFairness == /\ WF_vars(OwnStep)
               /\ WF_vars(Pull /\ UNCHANGED runVars)

RunSpec == RunInit /\ [][RunNext]_vars /\ RunFairness

(***************************************************************************)
(* Properties.                                                             *)
(***************************************************************************)
(* The types of the run's own state (invoke.ts, runBinding).                *)
RunTypeOK ==
    /\ pc \in {"start", "read", "reading", "got", "plan", "body", "assemble",
               "transport", "secure", "flight", "headers", "classify", "complete",
               "decode", "emit", "done"} \cup BodyAwaits
    /\ ready \in BOOLEAN /\ candidate \in Nat /\ handler \in Nat
    /\ dispatched \in Nat /\ item \in 0..MaxEmits
    /\ verdict \in {"none", "success", "failure"}

(* "ERR_REFUSED is the binding-invoker contract's never-dispatched          *)
(* guarantee", and a CONTEXT_REQUIRED is raised before any input is taken,  *)
(* so that the caller may answer it and try again.                          *)
RefusalsTouchNothing ==
    /\ terminal \in Refusals => dispatched = 0 /\ received \o outQ = <<>>
    /\ terminal = "CONTEXT_REQUIRED" => pulled = <<>> /\ ~ready
    /\ pulled # <<>> => ready

(* The consumer sees outputs only of a response classified as a success,    *)
(* and the invocation ends well only after all the outputs its kind of      *)
(* response has; a unary completion has exactly one.                        *)
OutputsAreEvidence ==
    /\ received \o outQ # <<>> => verdict = "success" /\ dispatched > 0
    /\ state = "closed" =>
         /\ verdict = "success" /\ pc = "done"
         /\ op.kind = "unary" => Len(received \o outQ) = 1
         /\ op.kind \in {"head", "empty"} => received \o outQ = <<>>
         /\ \A n \in 1..item : emit[n] = "accepted"

(* A run never ends without ending its invocation, it emits one output at a *)
(* time, and it dispatches at most MaxHops requests - one unless redirects  *)
(* are followed.                                                            *)
RunEndsInvocation ==
    /\ pc = "done" => state # "open"
    /\ Cardinality({n \in Emits : emit[n] = "parked"}) <= 1
    /\ dispatched <= (IF op.redirect = "follow" THEN MaxHops ELSE 1)

(* A cancelled or failed invocation sends nothing more.                     *)
NothingSentAfterTheEnd ==
    [][dispatched' > dispatched => state = "open"]_vars

(* A run leaves nothing open and no output that its response does not       *)
(* justify (invoke.ts, runBinding).                                         *)
RunIsAccounted == RunTypeOK /\ OutputsAreEvidence /\ RunEndsInvocation
=============================================================================
