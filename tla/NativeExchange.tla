--------------------------- MODULE NativeExchange ---------------------------
(***************************************************************************)
(* The native transport (rust/reqwest/src/lib.rs): send() and execute() up *)
(* to the invocation, and the exchange its callback runs: two waits that   *)
(* select on cancellation first, against a server that answers, stalls or  *)
(* breaks off and a deadline.                                              *)
(*                                                                         *)
(* Every poll of a select is two steps, a look at the token and a look at  *)
(* the backend, so that cancellation may come between them.                *)
(***************************************************************************)
EXTENDS Invocation

CONSTANT Replies   \* what a server may send: a head, chunks and an end

VARIABLES phase,    \* where execute() or exchange() is
          looked,   \* the cancelled branch of this poll was pending
          wire,     \* whether the backend began to serialize the request
          reply,    \* the server's reply, None before its head arrived
          taken,    \* chunks taken from it
          kept,     \* bytes.len()
          expired   \* the deadline has passed

exchangeVars == <<phase, looked, wire, reply, taken, kept, expired>>
nativeVars == <<request, host, replay, token, step, entered, answer, outcome,
                phase, looked, wire, reply, taken, kept, expired>>

Phases == {"prepare", "check", "admit", "convert", "invoke", "request", "body", "ended"}

Init == /\ InvokeInit
        /\ replay = "RequireNoReplay"
        /\ phase \in {"prepare", "check"}   \* send() or advanced::execute()
        /\ looked = FALSE
        /\ wire = FALSE
        /\ reply = None
        /\ taken = 0
        /\ kept = 0
        /\ expired = FALSE

-----------------------------------------------------------------------------
(* send() and execute(), up to invoke *)

\* A refusal before the invocation, the request untouched.
Refused(code) == /\ AdapterRefuse
                 /\ outcome' = NotDispatched(code)
                 /\ UNCHANGED exchangeVars

Passed(next) == /\ step = "ready"
                /\ phase' = next
                /\ UNCHANGED <<invokeVars, looked, wire, reply, taken, kept, expired>>

Prepare == /\ phase = "prepare"
           /\ Refused("Preparation") \/ Passed("check")

Check == /\ phase = "check"
         /\ IF token THEN Refused("Cancelled") ELSE Passed("admit")

AdmitProfile == /\ phase = "admit"
                /\ IF Refusal(request) = None THEN Passed("convert") ELSE Refused(Refusal(request))

\* backend_request: whether the native stack would spell the target otherwise.
\* Slip: the request is dispatched without the invocation's own admission.
ConvertEnters == /\ phase = "convert" /\ step = "ready"
                 /\ phase' = "invoke" /\ step' = "entered" /\ entered' = 1
                 /\ UNCHANGED <<callVars, token, answer, outcome, looked, wire, reply, taken,
                                kept, expired>>
Convert == /\ phase = "convert"
           /\ IF request.normal THEN Passed("invoke") ELSE Refused("HostCapability")

Invoke == /\ phase \in {"invoke", "ended"}
          /\ CheckToken \/ Enter \/ Refuse \/ Finish
          /\ UNCHANGED exchangeVars

-----------------------------------------------------------------------------
(* exchange() *)

\* Its result resolves the callback's future.
End(result) == /\ step = "entered"
               /\ answer' = result
               /\ step' = "answered"
               /\ phase' = "ended"
               /\ UNCHANGED <<callVars, token, entered, outcome, looked, wire, reply, taken, expired>>

NoResponse(upload) == [response |-> None, upload |-> upload, failed |-> TRUE]

Uploads == {"NotStarted", "Unknown"}
BodyStates == {"Complete", "Truncated", "Failed"}

\* collect_headers stops at the first entry past a bound.
Admissible(headers) ==
  {n \in 0..Len(headers) :
     /\ n <= MaxHeaders
     /\ Sums(Sizes(headers))[n] <= MaxHeaderBytes}
Collected(headers) == SubSeq(headers, 1, CHOOSE n \in Admissible(headers) :
                                           \A m \in Admissible(headers) : m <= n)

Response(r, bytes, body, failed) ==
  [response |->
     [status |-> r.status, opaque |-> FALSE, headers |-> Collected(r.headers),
      bytes |-> bytes, bodyState |-> body, json |-> r.json, provenance |-> "Wire",
      fidelity |-> "HostProcessed",
      delivery |-> IF Collected(r.headers) = r.headers THEN "Complete" ELSE "Incomplete"],
   upload |-> "Unknown", failed |-> failed]

Results == {NoResponse(upload) : upload \in Uploads} \cup
           {Response(r, bytes, body, failed) :
              r \in Replies, bytes \in 0..MaxBody, body \in BodyStates, failed \in BOOLEAN}

\* The callback is this exchange; sizes of chunks and headers count.
ASSUME NativeAssumption ==
  /\ None \notin Replies
  /\ \A r \in Replies : r.chunks \in Seq(Nat) /\ HeaderList(r.headers)
  /\ \A q \in Requests : Results \subseteq Answers(q)

\* The first check of exchange(), before the backend has the request.
Begin == /\ phase = "invoke" /\ step = "entered"
         /\ IF token
            THEN End(NoResponse("NotStarted")) /\ UNCHANGED kept
            ELSE /\ phase' = "request"
                 /\ UNCHANGED <<invokeVars, looked, wire, reply, taken, kept, expired>>

\* What a wait for the head reports when it ends without one. Slip: as before it.
InterruptedUnsent == NoResponse("NotStarted")
Interrupted == NoResponse("Unknown")

\* The biased first branch of both selects.
Look ==
  /\ phase \in {"request", "body"} /\ ~looked /\ step = "entered"
  /\ IF token
     THEN /\ End(IF phase = "request" THEN Interrupted ELSE Response(reply, kept, "Failed", TRUE))
          /\ UNCHANGED kept
     ELSE looked' = TRUE /\ UNCHANGED <<invokeVars, phase, wire, reply, taken, kept, expired>>

Taking(p) == phase = p /\ looked /\ step = "entered"

TakeHead == /\ Taking("request")
            /\ reply # None
            /\ phase' = "body" /\ looked' = FALSE
            /\ UNCHANGED <<invokeVars, wire, reply, taken, kept, expired>>

\* The backend's error: the deadline, or the connection (external, at any time).
TakeFailure == /\ Taking("request")
               /\ End(Interrupted)
               /\ UNCHANGED kept
TakeTimeout == expired /\ TakeFailure

\* What is left of the body bound.
Available == MaxBody - kept

Fits(chunk) == chunk <= Available

TakeChunk ==
  /\ Taking("body")
  /\ taken < Len(reply.chunks)
  /\ LET chunk == reply.chunks[taken + 1]
     IN  IF Fits(chunk)
         THEN /\ kept' = kept + chunk /\ taken' = taken + 1 /\ looked' = FALSE
              /\ UNCHANGED <<invokeVars, phase, wire, reply, expired>>
         ELSE End(Response(reply, kept + Available, "Truncated", FALSE)) /\ kept' = kept + Available

AtEnd(end) == Taking("body") /\ taken = Len(reply.chunks) /\ reply.end = end

TakeEnd == AtEnd("eof") /\ End(Response(reply, kept, "Complete", FALSE)) /\ UNCHANGED kept

TakeError == /\ AtEnd("error") \/ (Taking("body") /\ expired)
             /\ End(Response(reply, kept, "Failed", TRUE))
             /\ UNCHANGED kept

\* Nothing is ready: the future returns Pending and is polled again.
Pend == /\ (Taking("request") /\ reply = None) \/ AtEnd("stall")
        /\ ~expired
        /\ looked' = FALSE
        /\ UNCHANGED <<invokeVars, phase, wire, reply, taken, kept, expired>>

-----------------------------------------------------------------------------
(* Around it: the backend's connection, the server, the timer, the caller *)

Serialize == /\ phase = "request" /\ ~wire
             /\ wire' = TRUE
             /\ UNCHANGED <<invokeVars, phase, looked, reply, taken, kept, expired>>

Reply == /\ phase = "request" /\ wire /\ reply = None
         /\ \E r \in Replies : reply' = r
         /\ UNCHANGED <<invokeVars, phase, looked, wire, taken, kept, expired>>

Expire == /\ phase \in {"request", "body"} /\ ~expired
          /\ expired' = TRUE
          /\ UNCHANGED <<invokeVars, phase, looked, wire, reply, taken, kept>>

Caller == (Cancel \/ Drop) /\ UNCHANGED exchangeVars

-----------------------------------------------------------------------------

\* The steps of the future itself, whenever it is polled.
Polled == \/ Prepare \/ Check \/ AdmitProfile \/ Convert \/ Invoke
          \/ Begin \/ Look \/ TakeHead \/ TakeTimeout \/ TakeChunk \/ TakeEnd \/ TakeError \/ Pend

Next == Polled \/ TakeFailure \/ Serialize \/ Reply \/ Expire \/ Caller

\* The executor polls the future whenever it is woken, and a cancelled token
\* wakes it (Cancellation). Neither the server nor the deadline has to act: a
\* client may be built with any timeout.
Spec == Init /\ [][Next]_nativeVars /\ WF_nativeVars(Polled)

-----------------------------------------------------------------------------
(* Properties *)

\* The exchange's own variables; it never holds more than ResponseAdmission allows.
NativeTypeOK ==
  /\ phase \in Phases
  /\ {looked, wire, expired} \subseteq BOOLEAN
  /\ reply \in Replies \cup {None}
  /\ kept \in 0..MaxBody
  /\ reply # None => taken \in 0..Len(reply.chunks)

\* An outcome that says the upload was not started is true for good: no byte of
\* the request was, or can still be, serialized.
UploadIsHonest ==
  (outcome # None /\ outcome.upload = "NotStarted") => (~wire /\ phase # "request")

Total == Sums(reply.chunks)[Len(reply.chunks)]

\* The body state is what happened on the wire: Complete is all of a body that
\* ended, Truncated the bound's worth of a longer one, and a Failed body comes
\* with a diagnostic.
BodyIsEvidence ==
  outcome # None /\ outcome.response # None =>
    LET input == outcome.response.input
    IN  /\ input.bodyState = "Complete" => reply.end = "eof" /\ input.bytes = Total
        /\ input.bodyState = "Truncated" => Total > MaxBody /\ input.bytes = MaxBody
        /\ input.bodyState = "Failed" => outcome.error # None /\ input.bytes <= Total
        /\ outcome.response.omitted = 0
        /\ Len(input.headers) < Len(reply.headers) => input.delivery = "Incomplete"

\* execute() is one invocation: what it adds refuses before the callback or
\* happens inside it.
ImplementsInvocation == InvokeSpec

\* Cancelling ends the local wait, although neither the server nor the deadline
\* ever ends it.
CancelEndsCall == (token /\ step = "entered") ~> (step \in {"done", "gone"})

\* What the outcome says of the upload and of the body is what the peer did
\* (native transport, execute).
NativeIsHonest == NativeTypeOK /\ UploadIsHonest /\ BodyIsEvidence

\* The exchange is an invocation, and cancelling ends it.
NativeIsCancellable == ImplementsInvocation /\ CancelEndsCall
=============================================================================
