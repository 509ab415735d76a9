----------------------------- MODULE ClientCall -----------------------------
(***************************************************************************)
(* OpenAPIClient.call and OpenAPIClient.stream over one operation run      *)
(* (src/typescript/src/client.ts): the client starts the run, writes the   *)
(* one input, waits for whichever comes first of the observed HTTP         *)
(* exchange and the end of the invocation, and turns what it sees into a   *)
(* result, a failure value or an error.  The observed fetch tells the      *)
(* client of the exchange while the run goes on reading the response.      *)
(***************************************************************************)
EXTENDS OperationRun

CONSTANT Asked             \* what may be asked of the client

ASSUME ClientAssumption ==
    /\ MaxWrites # 0
    /\ Asked \subseteq
         [mode : {"call", "stream"},
          supplied : BOOLEAN,       \* a parameter or a body is given
          hooks : BOOLEAN,          \* a classification hook is installed
          badLocation : BOOLEAN]    \* a redirect may name no usable URL

VARIABLES ask,             \* the request
          callPc,          \* the await at which the client stands
          status,          \* the class of the final response's status
          exchange,        \* the observed exchange's promise
          result           \* what the call gave back

clientVars == <<ask, callPc, status, exchange, result>>
allVars == <<vars, clientVars>>

ClientInit == /\ RunInit
              /\ ask \in Asked
              /\ ask.supplied => op.input
              /\ callPc = "new" /\ status = "none"
              /\ exchange = "pending" /\ result = "none"

Awaits(p) == callPc = p
Settle(r) == callPc' = "settled" /\ result' = r
GoOn(p) == callPc' = p /\ UNCHANGED result

(***************************************************************************)
(* The run, with what the observed transport makes of its exchange.        *)
(***************************************************************************)
RunStarted == callPc \notin {"new", "refused"}

(* A response is observed unless it looks like a hop of a followed chain:   *)
(* a redirect whose Location is no URL is final for the run, and taken for  *)
(* a hop by the observer.                                                   *)
Observed ==
    /\ Response
    /\ \/ status' \in {"2xx", "non2xx"} /\ exchange' = status'
       \/ /\ op.redirect = "follow" /\ ask.badLocation
          /\ status' = "non2xx" /\ UNCHANGED exchange

(* A transport error rejects the exchange, unless an onError middleware     *)
(* replaced it by an error of its own.                                      *)
Unobserved == /\ NoResponse \/ AbortInFlight
              /\ exchange' \in {"rejected", "pending"}
              /\ UNCHANGED status

StopsAfterRedirects == /\ FollowRedirect
                       /\ UNCHANGED <<status, exchange>>

(* Without a hook the status decides.                                       *)
Classified ==
    /\ Classify
    /\ ask.hooks \/ verdict' = (IF status = "2xx" THEN "success" ELSE "failure")
    /\ UNCHANGED <<status, exchange>>

QuietStep ==
    /\ \/ Preflight \/ ReadFirst \/ InputArrives \/ TakeInput \/ Plan
       \/ TryCandidate \/ Assemble \/ ChooseTransport \/ SecurityHandler
       \/ Dispatch \/ AbortedBody \/ Headers \/ Complete \/ DecodeBody \/ Emitted
       \/ Buffer \/ Peek \/ FailureBody \/ Chunk
    /\ UNCHANGED <<status, exchange>>

RunStep == /\ RunStarted
           /\ QuietStep \/ Observed \/ Unobserved \/ StopsAfterRedirects \/ Classified
           /\ UNCHANGED <<ask, callPc, result>>

(***************************************************************************)
(* The client up to its result.                                            *)
(***************************************************************************)
HasEvidence == terminal = "ERR_HTTP"

(* The arguments are checked, the operation resolved and the run prepared   *)
(* before the run is started.                                               *)
Begin == /\ Awaits("new")
         /\ GoOn("refused") \/ GoOn("starting")
         /\ UNCHANGED <<vars, ask, status, exchange>>

Started == /\ Awaits("starting")
           /\ \/ ready /\ GoOn("sending")
              \/ ~ready /\ state = "errored" /\ Settle("error")
           /\ UNCHANGED <<vars, ask, status, exchange>>

Send == /\ Awaits("sending")
        /\ IF ask.supplied THEN Write(1) ELSE UNCHANGED handleVars
        /\ GoOn("sent")
        /\ UNCHANGED <<runVars, ask, status, exchange>>

Sent == /\ Awaits("sent")
        /\ \/ /\ ~ask.supplied \/ write[1] = "accepted"
              /\ CloseInput /\ GoOn("racing")
           \/ /\ ask.supplied /\ write[1] \in TerminalErrors \cup FlowErrors
              /\ GoOn("caught") /\ UNCHANGED handleVars
        /\ UNCHANGED <<runVars, ask, status, exchange>>

(* Mutant: only the exchange is awaited, and not the end of the run.        *)
PatientRace ==
    /\ Awaits("racing")
    /\ \/ exchange = "2xx" /\ GoOn("streaming")
       \/ exchange = "non2xx" /\ GoOn("awaitEnd")
       \/ exchange = "rejected" /\ Settle("error")
    /\ UNCHANGED <<vars, ask, status, exchange>>

(* Promise.race: an exchange settles before the end of its invocation.      *)
Race ==
    /\ Awaits("racing")
    /\ \/ exchange = "2xx" /\ GoOn("streaming")
       \/ exchange = "non2xx" /\ GoOn("awaitEnd")
       \/ exchange = "rejected" /\ Settle("error")
       \/ exchange = "pending" /\ state # "open" /\ GoOn("caught")
    /\ UNCHANGED <<vars, ask, status, exchange>>

(* An unsuccessful response is returned once the run has ended.             *)
AwaitEnd == /\ Awaits("awaitEnd") /\ state # "open"
            /\ IF state = "closed" \/ HasEvidence THEN Settle("failure")
               ELSE GoOn("caught")
            /\ UNCHANGED <<vars, ask, status, exchange>>

(* The catch of the whole call: an error with HTTP evidence is a failure    *)
(* value, for which the observed response is awaited.                       *)
Caught ==
    /\ Awaits("caught")
    /\ \/ ~HasEvidence /\ Settle("error")
       \/ HasEvidence /\ exchange # "pending" /\ Settle("failure")
    /\ UNCHANGED <<vars, ask, status, exchange>>

(* Mutant: an event stream is refused and left running.                     *)
ForgottenStream ==
    /\ Awaits("streaming")
    /\ \/ ask.mode = "stream" /\ Settle("stream") /\ UNCHANGED handleVars
       \/ /\ ask.mode = "call"
          /\ Claim /\ single' = "unused" /\ GoOn("collecting")
       \/ /\ ask.mode = "call" /\ op.kind = "stream"
          /\ Settle("error") /\ UNCHANGED handleVars
    /\ UNCHANGED <<runVars, ask, status, exchange>>

(* stream() returns here; call() refuses an event stream and reads any      *)
(* other response to its end.                                               *)
Stream2xx ==
    /\ Awaits("streaming")
    /\ \/ /\ ask.mode = "stream" /\ Settle("stream") /\ UNCHANGED handleVars
       \/ /\ ask.mode = "call" /\ op.kind # "stream"
          /\ Claim /\ single' = "unused" /\ GoOn("collecting")
       \/ /\ ask.mode = "call" /\ op.kind = "stream"     \* sequential media
          /\ Claim /\ single' = "unused" /\ GoOn("collecting")
       \/ /\ ask.mode = "call" /\ op.kind = "stream"     \* text/event-stream
          /\ IF state = "open" THEN CancelSession ELSE UNCHANGED handleVars
          /\ Settle("error")
    /\ UNCHANGED <<runVars, ask, status, exchange>>

Collect == /\ Awaits("collecting")
           /\ Pull
           /\ UNCHANGED <<runVars, clientVars>>

Collected == /\ Awaits("collecting") /\ outEnd # "none"
             /\ Settle(IF outEnd = "closed" /\ Len(received) <= 1 THEN "success"
                       ELSE "error")
             /\ UNCHANGED <<vars, ask, status, exchange>>

ClientStep == \/ Begin \/ Started \/ Send \/ Sent \/ Race \/ AwaitEnd \/ Caught
              \/ Stream2xx \/ Collect \/ Collected

(* The application: an aborted signal at any time; a returned stream is     *)
(* iterated, abandoned or cancelled.                                        *)
ApplicationStep ==
    /\ \/ RunStarted /\ ExternalAbort
       \/ result = "stream" /\ (Pull \/ Abandon \/ CancelSession)
       \/ result = "stream" /\ Claim /\ single' = "unused"
    /\ UNCHANGED <<runVars, clientVars>>

ClientNext == RunStep \/ ClientStep \/ ApplicationStep

(* The continuations of the client and of the run are scheduled; nothing is *)
(* assumed of the peer or of the application.                               *)
ClientSpec == /\ ClientInit /\ [][ClientNext]_allVars
              /\ WF_allVars(ClientStep)
              /\ WF_allVars(RunStep /\ OwnStep)

(***************************************************************************)
(* Properties.                                                             *)
(***************************************************************************)
(* A value returned by call() is the one output of an invocation that ended *)
(* well, and a failure value is given only for an unsuccessful response.    *)
ResultIsEvidence ==
    /\ result = "success" => /\ state = "closed" /\ verdict = "success"
                             /\ Len(received) <= 1 /\ outQ = <<>>
                             /\ op.kind = "unary" => Len(received) = 1
    /\ result = "failure" => status = "non2xx" /\ dispatched > 0 /\ state # "open"
    /\ result = "stream" => status = "2xx"

(* An error never leaves a run behind: nothing is dispatched, read or       *)
(* emitted after the call has thrown.                                       *)
NoOrphanRun == /\ result = "error" => state # "open"
               /\ callPc = "refused" => pc = "start" /\ dispatched = 0

(* What a call gives back, value or error, is all there is of its run       *)
(* (client.ts, callResolved and streamResolved).                            *)
CallIsAccounted == ResultIsEvidence /\ NoOrphanRun

(* Once its run has ended a call settles (callResolved, streamResolved).    *)
CallSettles == (pc = "done") ~> Awaits("settled")

(* "On abort, tear down underlying work" (BindingHandle.signal): once the   *)
(* signal has aborted, a started run over fetch comes to its end, whatever  *)
(* the peer does.  It is false of the host transport, whose body outlives   *)
(* the abort.                                                               *)
TornDown == (RunStarted /\ aborted /\ op.lane = "fetch") ~> pc = "done"
=============================================================================
