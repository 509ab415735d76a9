--------------------------- MODULE TransportProofs ---------------------------
(***************************************************************************)
(* The native transport and the redirects a caller follows over it.        *)
(*                                                                         *)
(* For every server and every length of what it sends, execute() is an     *)
(* invocation, so that its outcome is honest and reports a cancellation,   *)
(* and what the outcome says of the upload and the body is what happened   *)
(* on the wire.                                                            *)
(*                                                                         *)
(* What follow_redirect guarantees over a chain of any length, for every   *)
(* prepared request, host and server: the invariants of RedirectChain are  *)
(* inductive together. That no credential is echoed into a query takes     *)
(* servers that name nothing they were not told: ServerForgets.            *)
(*                                                                         *)
(* What the streamed bytes of a response say: the same delivery units for  *)
(* every stream, limit and division into chunks. The inductive invariant   *)
(* compares a reader of chunks with one that has the whole stream.         *)
(***************************************************************************)
EXTENDS NativeExchange, RedirectChain, StreamFraming, InvocationProofs

\* What exchange() may report: no response, or the reply with as much of its
\* body as the body state tells.
Evidence(a) ==
  \/ \E u \in Uploads : a = NoResponse(u) /\ (u = "NotStarted" => ~wire)
  \/ \E b \in 0..MaxBody, s \in BodyStates, f \in BOOLEAN :
       /\ a = Response(reply, b, s, f) /\ reply \in Replies
       /\ s = "Complete" => reply.end = "eof" /\ b = Total
       /\ s = "Truncated" => Total > MaxBody /\ b = MaxBody
       /\ s = "Failed" => f /\ b <= Total

Early == {"prepare", "check", "admit", "convert"}

\* The variables of the exchange against the step of the invocation around it;
\* what was kept of a body is the sum of the chunks that were taken.
NativeInv ==
  /\ InvokeInv /\ NativeTypeOK
  /\ phase \in Early \cup {"invoke"} => ~wire /\ reply = None /\ taken = 0 /\ kept = 0
  /\ phase \in Early => step \in {"ready", "done"}
  /\ phase = "invoke" => step # "answered"
  /\ phase = "request" => step \in {"entered", "gone"} /\ taken = 0 /\ kept = 0
  /\ phase = "body" => step \in {"entered", "gone"} /\ reply # None /\ kept = Sums(reply.chunks)[taken]
  /\ phase = "ended" => step \in {"answered", "done"} /\ entered = 1 /\ Evidence(answer)
  /\ step = "done" /\ phase # "ended" => entered = 0

LEMMA InitNative == Init => NativeInv
<1> SUFFICES ASSUME Init PROVE NativeInv
  OBVIOUS
<1>1. InvokeInv
  BY InitCall DEF Init, InvokeInit, InvokeInv, Start
<1>2. step = "ready" /\ phase \in {"prepare", "check"}
  BY DEF Init, InvokeInit, Start
<1>3. ~wire /\ looked = FALSE /\ expired = FALSE /\ wire = FALSE /\ reply = None /\ taken = 0 /\ kept = 0
  BY DEF Init
<1>4. NativeTypeOK
  <2>1. {looked, wire, expired} \subseteq BOOLEAN
    BY <1>3
  <2>. QED
    BY <1>2, <1>3, <2>1, InvokeAssumption DEF NativeTypeOK, Phases
<1>. QED
  BY <1>1, <1>2, <1>3, <1>4 DEF NativeInv, Early

-----------------------------------------------------------------------------
(* The sums of a body *)

\* A taken chunk adds up, and no part of a body is more than all of it.
LEMMA BodySums ==
  ASSUME NativeInv, reply # None
  PROVE  /\ reply \in Replies /\ Len(reply.chunks) \in Nat /\ taken \in 0..Len(reply.chunks)
         /\ \A n \in 1..Len(reply.chunks) :
              /\ reply.chunks[n] \in Nat
              /\ Sums(reply.chunks)[n] = Sums(reply.chunks)[n - 1] + reply.chunks[n]
         /\ \A n \in 0..Len(reply.chunks) : /\ Sums(reply.chunks)[n] \in Nat
                                            /\ Sums(reply.chunks)[n] <= Total
         /\ Sums(reply.chunks)[0] = 0
<1>1. reply \in Replies /\ reply.chunks \in Seq(Nat) /\ taken \in 0..Len(reply.chunks)
  BY NativeAssumption DEF NativeInv, NativeTypeOK
<1>2. Len(reply.chunks) \in Nat /\ \A n \in 1..Len(reply.chunks) : reply.chunks[n] \in Nat
  BY <1>1, LenProperties, ElementOfSeq
<1>3. Len(reply.chunks) \in 0..Len(reply.chunks)
  BY <1>2
<1>. QED
  BY <1>1, <1>2, <1>3, SumsUnfold, SumsGrow, SMTT(30) DEF Total

-----------------------------------------------------------------------------
(* Each step *)

\* The callback's future resolves with evidence of what happened.
LEMMA EndStep ==
  ASSUME NativeInv, NEW result, Evidence(result), End(result), kept' \in 0..MaxBody
  PROVE  Answer /\ NativeInv'
<1>1. result \in Results
  BY DEF Evidence, Results
<1>2. request \in Requests
  BY DEF NativeInv, InvokeInv
<1>3. Answer
  BY <1>1, <1>2, NativeAssumption DEF End, Answer
<1>4. InvokeInv'
  BY <1>3, StepCall DEF NativeInv, InvokeInv, InvokeNext, callVars
<1>5. /\ step = "entered" /\ step' = "answered" /\ phase' = "ended" /\ answer' = result
      /\ UNCHANGED <<looked, wire, reply, taken, expired>>
  BY DEF End
<1>6. NativeTypeOK'
  BY <1>5 DEF NativeInv, NativeTypeOK, Phases
<1>7. Evidence(answer)'
  BY <1>5 DEF Evidence, Total
<1>8. entered' = 1
  BY <1>5 DEF End, NativeInv, InvokeInv, CallOK
<1>. QED
  BY <1>3, <1>4, <1>5, <1>6, <1>7, <1>8 DEF NativeInv, Early

\* A step of the exchange that leaves the invocation alone.
LEMMA InnerStep ==
  ASSUME NativeInv, UNCHANGED invokeVars, NativeTypeOK',
         phase' \in Early \cup {"invoke"} => ~wire' /\ reply' = None /\ taken' = 0 /\ kept' = 0,
         phase' \in Early => step \in {"ready", "done"},
         phase' = "invoke" => step # "answered",
         phase' = "request" => step \in {"entered", "gone"} /\ taken' = 0 /\ kept' = 0,
         phase' = "body" => /\ step \in {"entered", "gone"} /\ reply' # None
                            /\ kept' = Sums(reply'.chunks)[taken'],
         phase' = "ended" <=> phase = "ended",
         phase = "ended" => UNCHANGED <<wire, reply>>
  PROVE  NativeInv'
<1>1. InvokeInv'
  <2>1. CallOK' /\ UNCHANGED callVars
    BY StepCall DEF NativeInv, InvokeInv
  <2>. QED
    BY <2>1 DEF NativeInv, InvokeInv, callVars
<1>2. step' = step /\ answer' = answer /\ entered' = entered
  BY DEF invokeVars
<1>3. phase' = "ended" => step \in {"answered", "done"} /\ entered = 1 /\ Evidence(answer)'
  BY <1>2 DEF NativeInv, Evidence, Total
<1>. QED
  BY <1>1, <1>2, <1>3 DEF NativeInv

\* The steps before and around the callback.
LEMMA OuterStep ==
  ASSUME NativeInv, Prepare \/ Check \/ AdmitProfile \/ Convert \/ Invoke \/ Caller
  PROVE  [InvokeNext]_invokeVars /\ NativeInv'
<1>1. CASE AdapterRefuse /\ phase \in Early /\ UNCHANGED exchangeVars
  <2>1. InvokeNext /\ InvokeInv'
    BY <1>1, StepCall DEF NativeInv, InvokeInv, InvokeNext, callVars
  <2>2. step = "ready" /\ step' = "done" /\ UNCHANGED <<phase, looked, wire, reply, taken, kept, expired>>
    BY <1>1 DEF AdapterRefuse, exchangeVars
  <2>3. entered' = 0
    BY <1>1 DEF AdapterRefuse, NativeInv, InvokeInv, CallOK, Untried
  <2>4. NativeTypeOK'
    BY <2>2 DEF NativeInv, NativeTypeOK
  <2>. QED
    BY <1>1, <2>1, <2>2, <2>3, <2>4 DEF NativeInv, Early
<1>2. CASE /\ step = "ready" /\ phase \in Early /\ phase' \in Early \cup {"invoke"}
           /\ UNCHANGED <<invokeVars, looked, wire, reply, taken, kept, expired>>
  <2>1. NativeTypeOK'
    BY <1>2 DEF NativeInv, NativeTypeOK, Early, Phases
  <2>. QED
    BY <1>2, <2>1, InnerStep DEF NativeInv, Early
<1>3. CASE Invoke \/ Caller
  <2>1. InvokeNext /\ InvokeInv'
    BY <1>3, StepCall DEF NativeInv, InvokeInv, InvokeNext, Invoke, Caller, callVars
  <2>2. UNCHANGED <<phase, looked, wire, reply, taken, kept, expired>>
    BY <1>3 DEF Invoke, Caller, exchangeVars
  <2>3. NativeTypeOK'
    BY <2>2 DEF NativeInv, NativeTypeOK
  <2>4. CASE CheckToken \/ Enter
    <3>1. phase = "invoke" /\ step \in {"ready", "admit"} /\ step' \in {"refused", "admit", "entered"}
      BY <1>3, <2>4 DEF Invoke, Caller, CheckToken, Enter, Cancel, Drop, NativeInv
    <3>. QED
      BY <2>1, <2>2, <2>3, <3>1 DEF NativeInv, Early
  <2>5. CASE Refuse
    <3>1. phase = "invoke" /\ step' = "done" /\ entered' = 0
      BY <1>3, <2>5 DEF Invoke, Caller, Refuse, Cancel, Drop, NativeInv, InvokeInv, CallOK, Untried
    <3>. QED
      BY <2>1, <2>2, <2>3, <3>1 DEF NativeInv, Early
  <2>6. CASE Finish
    <3>1. phase = "ended" /\ step' = "done" /\ answer' = answer /\ entered' = entered
      BY <1>3, <2>6 DEF Invoke, Caller, Finish, Cancel, Drop, NativeInv
    <3>2. Evidence(answer)'
      BY <2>2, <3>1 DEF NativeInv, Evidence, Total
    <3>. QED
      BY <2>1, <2>2, <2>3, <3>1, <3>2 DEF NativeInv, Early
  <2>7. CASE Cancel \/ Drop
    <3>1. UNCHANGED <<entered, answer>> /\ (step' = step \/ (step = "entered" /\ step' = "gone"))
      BY <2>7 DEF Cancel, Drop
    <3>2. phase = "ended" => Evidence(answer)'
      BY <2>2, <3>1 DEF NativeInv, Evidence, Total
    <3>. QED
      BY <2>1, <2>2, <2>3, <3>1, <3>2 DEF NativeInv, Early
  <2>. QED
    BY <1>3, <2>4, <2>5, <2>6, <2>7 DEF Invoke, Caller
<1>4. \A code : Refused(code) => AdapterRefuse /\ UNCHANGED exchangeVars
  BY DEF Refused
<1>5. \A next : Passed(next) => /\ step = "ready" /\ phase' = next
                               /\ UNCHANGED <<invokeVars, looked, wire, reply, taken, kept, expired>>
  BY DEF Passed
<1>. QED
  BY <1>1, <1>2, <1>3, <1>4, <1>5 DEF Prepare, Check, AdmitProfile, Convert, Early, InvokeNext

\* What exchange() ends with, in each of its places.
LEMMA Ending ==
  ASSUME NativeInv, Begin \/ Look \/ TakeFailure \/ TakeChunk \/ TakeEnd \/ TakeError
  PROVE  \/ \E result : Evidence(result) /\ End(result) /\ kept' \in 0..MaxBody
         \/ Begin /\ phase' = "request" /\ UNCHANGED <<invokeVars, looked, wire, reply, taken, kept, expired>>
         \/ Look /\ looked' = TRUE /\ UNCHANGED <<invokeVars, phase, wire, reply, taken, kept, expired>>
         \/ /\ TakeChunk /\ taken < Len(reply.chunks) /\ Fits(reply.chunks[taken + 1])
            /\ kept' = kept + reply.chunks[taken + 1] /\ taken' = taken + 1 /\ looked' = FALSE
            /\ UNCHANGED <<invokeVars, phase, wire, reply, expired>>
<1>1. kept \in 0..MaxBody /\ MaxBody \in Nat
  BY InvokeAssumption DEF NativeInv, NativeTypeOK
<1>2. CASE Begin
  <2>1. CASE token
    <3>1. End(NoResponse("NotStarted")) /\ kept' = kept /\ ~wire
      BY <1>2, <2>1 DEF Begin, NativeInv
    <3>2. Evidence(NoResponse("NotStarted"))
      BY <3>1 DEF Evidence, Uploads
    <3>. QED
      BY <1>1, <3>1, <3>2
  <2>. QED
    BY <1>2, <2>1 DEF Begin
<1>3. Evidence(NoResponse("Unknown"))
  BY DEF Evidence, Uploads
<1>4. CASE TakeFailure
  BY <1>1, <1>3, <1>4 DEF TakeFailure, Interrupted
<1>5. phase = "body" => /\ reply # None /\ reply \in Replies /\ kept = Sums(reply.chunks)[taken]
                        /\ taken \in 0..Len(reply.chunks) /\ kept <= Total /\ Total \in Nat
                        /\ Len(reply.chunks) \in Nat
  <2>1. SUFFICES ASSUME phase = "body"
                 PROVE  /\ reply # None /\ reply \in Replies /\ kept = Sums(reply.chunks)[taken]
                        /\ taken \in 0..Len(reply.chunks) /\ kept <= Total /\ Total \in Nat
                        /\ Len(reply.chunks) \in Nat
    OBVIOUS
  <2>2. reply # None /\ kept = Sums(reply.chunks)[taken]
    BY <2>1 DEF NativeInv
  <2>3. Len(reply.chunks) \in 0..Len(reply.chunks)
    BY <2>2, BodySums
  <2>. QED
    BY <2>2, <2>3, BodySums DEF Total
<1>6. phase = "body" => Evidence(Response(reply, kept, "Failed", TRUE))
  BY <1>1, <1>5 DEF Evidence, BodyStates
<1>7. CASE Look
  <2>1. CASE token
    <3>1. /\ phase \in {"request", "body"} /\ kept' = kept
          /\ End(IF phase = "request" THEN Interrupted ELSE Response(reply, kept, "Failed", TRUE))
      BY <1>7, <2>1 DEF Look
    <3>. QED
      BY <1>1, <1>3, <1>6, <3>1 DEF Interrupted
  <2>. QED
    BY <1>7, <2>1 DEF Look
<1>8. CASE TakeEnd
  <2>1. /\ phase = "body" /\ taken = Len(reply.chunks) /\ reply.end = "eof" /\ kept' = kept
        /\ End(Response(reply, kept, "Complete", FALSE))
    BY <1>8 DEF TakeEnd, AtEnd, Taking
  <2>2. kept = Total
    BY <1>5, <2>1 DEF Total
  <2>3. Evidence(Response(reply, kept, "Complete", FALSE))
    BY <1>1, <1>5, <2>1, <2>2 DEF Evidence, BodyStates
  <2>. QED
    BY <1>1, <2>1, <2>3
<1>9. CASE TakeError
  BY <1>1, <1>6, <1>9 DEF TakeError, AtEnd, Taking
<1>10. CASE TakeChunk
  <2> DEFINE chunk == reply.chunks[taken + 1]
  <2>1. phase = "body" /\ taken < Len(reply.chunks)
    BY <1>10 DEF TakeChunk, Taking
  <2>2. CASE Fits(chunk)
    BY <1>10, <2>1, <2>2 DEF TakeChunk
  <2>3. CASE ~Fits(chunk)
    <3>1. PICK b : /\ b = kept + Available
                   /\ End(Response(reply, b, "Truncated", FALSE)) /\ kept' = b
      BY <1>10, <2>3 DEF TakeChunk
    <3>2. taken + 1 \in 1..Len(reply.chunks) /\ taken + 1 \in 0..Len(reply.chunks) /\ (taken + 1) - 1 = taken
      BY <1>5, <2>1
    <3>3. Sums(reply.chunks)[taken + 1] = kept + chunk /\ kept + chunk <= Total /\ chunk \in Nat
      BY <1>5, <2>1, <3>2, BodySums
    <3>4. b = MaxBody /\ Total > MaxBody /\ b \in 0..MaxBody /\ reply \in Replies
      BY <1>1, <1>5, <2>1, <2>3, <3>1, <3>3 DEF Fits, Available
    <3>5. Evidence(Response(reply, b, "Truncated", FALSE))
      <4>1. "Truncated" \in BodyStates /\ FALSE \in BOOLEAN
        BY DEF BodyStates
      <4>. QED
        BY <3>4, <4>1 DEF Evidence
    <3>. QED
      BY <3>1, <3>4, <3>5
  <2>. QED
    BY <2>2, <2>3
<1>. QED
  BY <1>2, <1>4, <1>7, <1>8, <1>9, <1>10

LEMMA ExchangeStep ==
  ASSUME NativeInv, Begin \/ Look \/ TakeFailure \/ TakeChunk \/ TakeEnd \/ TakeError
  PROVE  [InvokeNext]_invokeVars /\ NativeInv'
<1>1. CASE \E result : Evidence(result) /\ End(result) /\ kept' \in 0..MaxBody
  BY <1>1, EndStep DEF InvokeNext
<1>2. CASE Begin /\ phase' = "request" /\ UNCHANGED <<invokeVars, looked, wire, reply, taken, kept, expired>>
  <2>1. phase = "invoke" /\ step = "entered"
    BY <1>2 DEF Begin
  <2>2. NativeTypeOK'
    BY <1>2 DEF NativeInv, NativeTypeOK, Phases
  <2>. QED
    BY <1>2, <2>1, <2>2, InnerStep DEF NativeInv, Early
<1>3. CASE Look /\ looked' = TRUE /\ UNCHANGED <<invokeVars, phase, wire, reply, taken, kept, expired>>
  <2>1. phase \in {"request", "body"}
    BY <1>3 DEF Look
  <2>2. NativeTypeOK'
    BY <1>3 DEF NativeInv, NativeTypeOK, Phases
  <2>. QED
    BY <1>3, <2>1, <2>2, InnerStep DEF NativeInv, Early
<1>4. CASE /\ TakeChunk /\ taken < Len(reply.chunks) /\ Fits(reply.chunks[taken + 1])
           /\ kept' = kept + reply.chunks[taken + 1] /\ taken' = taken + 1 /\ looked' = FALSE
           /\ UNCHANGED <<invokeVars, phase, wire, reply, expired>>
  <2> DEFINE chunk == reply.chunks[taken + 1]
  <2>1. phase = "body" /\ step = "entered"
    BY <1>4 DEF TakeChunk, Taking
  <2>2. reply # None /\ kept = Sums(reply.chunks)[taken]
    BY <2>1 DEF NativeInv
  <2>3. taken + 1 \in 1..Len(reply.chunks) /\ (taken + 1) - 1 = taken /\ taken' \in 0..Len(reply.chunks)
    BY <1>4, <2>2, BodySums
  <2>4. kept' = Sums(reply.chunks)[taken'] /\ chunk \in Nat
    BY <1>4, <2>2, <2>3, BodySums
  <2>5. kept' \in 0..MaxBody
    BY <1>4, <2>4, InvokeAssumption DEF Fits, Available, NativeInv, NativeTypeOK
  <2>6. NativeTypeOK'
    BY <1>4, <2>3, <2>5 DEF NativeInv, NativeTypeOK
  <2>. QED
    BY <1>4, <2>1, <2>2, <2>4, <2>6, InnerStep DEF NativeInv, Early
<1>. QED
  BY <1>1, <1>2, <1>3, <1>4, Ending

LEMMA AroundStep ==
  ASSUME NativeInv, TakeHead \/ Pend \/ Serialize \/ Reply \/ Expire
  PROVE  [InvokeNext]_invokeVars /\ NativeInv'
<1>1. UNCHANGED invokeVars
  BY DEF TakeHead, Pend, Serialize, Reply, Expire
<1>2. CASE TakeHead
  <2>1. /\ phase = "request" /\ phase' = "body" /\ reply # None /\ reply' = reply
        /\ taken' = taken /\ kept' = kept /\ taken = 0 /\ kept = 0
    BY <1>2 DEF TakeHead, Taking, NativeInv
  <2>2. kept' = Sums(reply'.chunks)[taken']
    BY <2>1, BodySums
  <2>3. NativeTypeOK'
    BY <1>2 DEF TakeHead, NativeInv, NativeTypeOK, Phases
  <2>. QED
    BY <1>1, <2>1, <2>2, <2>3, InnerStep DEF NativeInv, Early
<1>3. CASE Reply
  <2>1. phase = "request" /\ phase' = "request" /\ UNCHANGED <<looked, wire, taken, kept, expired>>
    BY <1>3 DEF Reply
  <2>2. reply' \in Replies /\ taken = 0
    BY <1>3, <2>1 DEF Reply, NativeInv
  <2>3. Len(reply'.chunks) \in Nat
    BY <2>2, NativeAssumption, LenProperties
  <2>4. NativeTypeOK'
    BY <2>1, <2>2, <2>3 DEF NativeInv, NativeTypeOK
  <2>. QED
    BY <1>1, <2>1, <2>4, InnerStep DEF NativeInv, Early
<1>4. CASE Serialize
  <2>1. phase = "request" /\ phase' = "request" /\ UNCHANGED <<looked, reply, taken, kept, expired>> /\ wire' = TRUE
    BY <1>4 DEF Serialize
  <2>2. NativeTypeOK'
    BY <2>1 DEF NativeInv, NativeTypeOK
  <2>. QED
    BY <1>1, <2>1, <2>2, InnerStep DEF NativeInv, Early
<1>5. CASE Pend \/ Expire
  <2>1. /\ phase \in {"request", "body"} /\ UNCHANGED <<phase, wire, reply, taken, kept>>
        /\ looked' \in {looked, FALSE} /\ expired' \in {expired, TRUE}
    BY <1>5 DEF Pend, Expire, Taking, AtEnd
  <2>2. NativeTypeOK'
    BY <2>1 DEF NativeInv, NativeTypeOK
  <2>. QED
    BY <1>1, <2>1, <2>2, InnerStep DEF NativeInv, Early
<1>. QED
  BY <1>1, <1>2, <1>3, <1>4, <1>5

LEMMA NativeStep == NativeInv /\ [Next]_nativeVars => [InvokeNext]_invokeVars /\ NativeInv'
<1>1. ASSUME NativeInv, UNCHANGED nativeVars PROVE [InvokeNext]_invokeVars /\ NativeInv'
  <2>1. UNCHANGED <<invokeVars, phase, looked, wire, reply, taken, kept, expired>>
    BY <1>1 DEF nativeVars, invokeVars
  <2>2. NativeTypeOK'
    BY <1>1, <2>1 DEF NativeInv, NativeTypeOK
  <2>. QED
    BY <1>1, <2>1, <2>2, InnerStep DEF NativeInv
<1>. QED
  BY <1>1, OuterStep, ExchangeStep, AroundStep DEF Next, Polled, TakeTimeout

\* Where an outcome came from.
LEMMA OutcomeOrigin ==
  ASSUME NativeInv, outcome # None
  PROVE  \/ phase \in Early \cup {"invoke"} /\ outcome.response = None
         \/ /\ phase = "ended" /\ Tried /\ Evidence(answer)
            /\ outcome.upload = answer.upload /\ outcome.error = Error(answer, outcome.response)
            /\ outcome.response = IF answer.response = None THEN None ELSE Received(answer.response)
<1>1. /\ step = "done"
      /\ \/ Untried /\ \E code, c : outcome = Declined(code, c)
         \/ Tried /\ \E c \in BOOLEAN : outcome = Concluded(answer, c)
  BY DEF NativeInv, InvokeInv, CallOK, Steps
<1>2. phase \in Phases /\ phase \notin {"request", "body"}
  BY <1>1 DEF NativeInv, NativeTypeOK
<1>3. CASE Untried /\ \E code, c : outcome = Declined(code, c)
  <2>1. phase # "ended"
    BY <1>3 DEF Untried, NativeInv
  <2>. QED
    BY <1>2, <1>3, <2>1, DeclinedIsEmpty DEF Early, Phases
<1>4. CASE Tried /\ \E c \in BOOLEAN : outcome = Concluded(answer, c)
  <2>1. phase = "ended" /\ Evidence(answer)
    BY <1>1, <1>4 DEF Tried, NativeInv
  <2>2. outcome.upload = answer.upload
    BY <1>4 DEF Concluded
  <2>. QED
    BY <1>4, <2>1, <2>2, ConcludedIsAnswer
<1>. QED
  BY <1>1, <1>3, <1>4

LEMMA UploadInv == NativeInv => UploadIsHonest
<1> SUFFICES ASSUME NativeInv, outcome # None, outcome.upload = "NotStarted"
             PROVE  ~wire /\ phase # "request"
  BY DEF UploadIsHonest
<1>1. CASE phase \in Early \cup {"invoke"}
  BY <1>1 DEF NativeInv, Early
<1>2. CASE phase = "ended" /\ Evidence(answer) /\ outcome.upload = answer.upload
  BY <1>2 DEF Evidence, NoResponse, Response
<1>. QED
  BY <1>1, <1>2, OutcomeOrigin

\* A prefix of a header section is admissible, and the longest one is collected.
LEMMA CollectedFits ==
  ASSUME NEW headers, HeaderList(headers)
  PROVE  LET all == Collected(headers)
         IN  HeaderList(all) /\ Retained(all).omitted = 0 /\ Retained(all).kept = all
<1> DEFINE fits == Admissible(headers)
           last == CHOOSE n \in fits : \A m \in fits : m <= n
<1>1. Len(headers) \in Nat
  BY LenProperties DEF HeaderList
<1>2. 0 \in fits
  BY <1>1, SizesAreNatural, SumsUnfold, InvokeAssumption DEF Admissible
<1>3. \E n \in fits : \A m \in fits : m <= n
  <2> DEFINE above == {d \in 0..Len(headers) : Len(headers) - d \in fits}
  <2>1. above \in SUBSET Nat /\ above # {}
    BY <1>1, <1>2
  <2>2. PICK d \in above : \A e \in above : d <= e
    BY <2>1, LeastNatural
  <2>3. \A m \in fits : m \in 0..Len(headers) /\ Len(headers) - m \in above
    BY <1>1 DEF Admissible
  <2>4. Len(headers) - d \in fits /\ d \in Nat
    BY <1>1, <2>2
  <2>5. \A m \in fits : m <= Len(headers) - d
    <3>1. ASSUME NEW m \in fits PROVE m <= Len(headers) - d
      <4>1. m \in 0..Len(headers) /\ d <= Len(headers) - m
        BY <2>2, <2>3
      <4>. QED
        BY <1>1, <2>4, <4>1
    <3>. QED
      BY <3>1
  <2> HIDE DEF fits
  <2>. QED
    BY <2>4, <2>5
<1>4. last \in fits
  BY <1>3
<1>. QED
  BY <1>4, FittingIsWhole DEF Admissible, Collected

LEMMA BodyInv == NativeInv => BodyIsEvidence
<1> SUFFICES ASSUME NativeInv, outcome # None, outcome.response # None
             PROVE  LET input == outcome.response.input
                    IN  /\ input.bodyState = "Complete" => reply.end = "eof" /\ input.bytes = Total
                        /\ input.bodyState = "Truncated" => Total > MaxBody /\ input.bytes = MaxBody
                        /\ input.bodyState = "Failed" => outcome.error # None /\ input.bytes <= Total
                        /\ outcome.response.omitted = 0
                        /\ Len(input.headers) < Len(reply.headers) => input.delivery = "Incomplete"
  BY DEF BodyIsEvidence
<1> DEFINE given == answer.response
           on == outcome.response
           all == Collected(reply.headers)
<1>1. /\ given # None /\ on = Received(given) /\ Evidence(answer) /\ outcome.error = Error(answer, on)
  BY OutcomeOrigin
<1>2. PICK b \in 0..MaxBody, s \in BodyStates, f \in BOOLEAN :
        /\ answer = Response(reply, b, s, f) /\ reply \in Replies
        /\ s = "Complete" => reply.end = "eof" /\ b = Total
        /\ s = "Truncated" => Total > MaxBody /\ b = MaxBody
        /\ s = "Failed" => f /\ b <= Total
  BY <1>1 DEF Evidence, NoResponse
<1>3. /\ given.bytes = b /\ given.bodyState = s /\ given.headers = all /\ answer.failed = f
      /\ given.delivery = IF all = reply.headers THEN "Complete" ELSE "Incomplete"
      /\ DOMAIN given = {"status", "opaque", "headers", "bytes", "bodyState", "json",
                         "provenance", "fidelity", "delivery"}
  BY <1>2 DEF Response
<1>4. HeaderList(reply.headers)
  BY <1>2, NativeAssumption
<1>5. HeaderList(all) /\ Retained(all).omitted = 0 /\ Retained(all).kept = all
  BY <1>4, CollectedFits
<1>6. MaxBody \in Nat
  BY InvokeAssumption
<1> HIDE DEF given, all
<1>7. HostResponse(given) /\ given.bytes <= MaxBody
  BY <1>3, <1>5, <1>6 DEF HostResponse
<1>8. /\ on.input.bytes = b /\ on.input.bodyState = s /\ on.input.headers = all /\ on.omitted = 0
      /\ on.input.delivery = given.delivery
  BY <1>1, <1>3, <1>5, <1>7, ReceivedWithin
<1>9. f => outcome.error # None
  BY <1>1, <1>3, InvokeAssumption DEF Error, Codes
<1>10. Len(all) < Len(reply.headers) => given.delivery = "Incomplete"
  <2>1. Len(reply.headers) \in Nat
    BY <1>4, LenProperties DEF HeaderList
  <2>. QED
    BY <1>3, <2>1
<1>. QED
  BY <1>2, <1>8, <1>9, <1>10

LEMMA NativeInvariance == Spec => []NativeInv
BY InitNative, NativeStep, PTL DEF Spec

-----------------------------------------------------------------------------
(* What callers rely on *)

\* execute() is one invocation, step by step: what it adds refuses before the
\* callback or happens inside it.
THEOREM NativeInvokes == Spec => ImplementsInvocation
<1>1. Init => InvokeInit
  BY DEF Init
<1>. QED
  BY <1>1, NativeStep, NativeInvariance, PTL DEF Spec, InvokeSpec, ImplementsInvocation

\* What the peer did is what the outcome says: an upload that was not started never
\* will be; a Complete body is all of one that ended, a Truncated one the bound's
\* worth of a longer one, a Failed one has a diagnostic; no header is dropped
\* without a word (native transport, exchange and collect_headers).
THEOREM NativeTheorem == Spec => []NativeIsHonest
<1>1. NativeInv => NativeIsHonest
  BY UploadInv, BodyInv DEF NativeInv, NativeIsHonest
<1>. QED
  BY <1>1, NativeInvariance, PTL

\* So the native transport's outcome is honest evidence of the invocation, however
\* the exchange went.
THEOREM NativeOutcomeTheorem == Spec => []OutcomeIsHonest
BY NativeInvokes, OutcomeTheorem, PTL DEF ImplementsInvocation

\* It reports every cancellation that came before it.
THEOREM NativeCancellationTheorem == Spec => CancellationIsReported
BY NativeInvokes, CancellationTheorem, PTL DEF ImplementsInvocation

-----------------------------------------------------------------------------
(* Redirects *)

\* Each property at the place where another one's step needs it.
ChainInv == ChainTypeOK /\ StrippedForGood /\ AppliedOnce /\ NeverDowngraded /\ ContentStaysDropped

-----------------------------------------------------------------------------
(* What one redirect derives *)

\* The derived request keeps fields of the old one only; on another origin, or
\* when the old one was bare, it is bare.
LEMMA DerivedBare ==
  ASSUME NEW r, NEW location, NEW status,
         ~SameOrigin(r.origin, location.origin) \/ Bare(r)
  PROVE  Bare(Derived(r, location, status))
  BY DEF Derived, Bare, KeptHeaders, OtherPairs, Body, Count

\* Without a collision its own credential pairs are the only ones of their name.
LEMMA DerivedAppliedOnce ==
  ASSUME NEW r, NEW location, NEW status, ~Collides(r, location)
  PROVE  Names(Derived(r, location, status).query)
           \cap Names(Derived(r, location, status).credentials) = {}
  BY DEF Derived, Collides, Names

\* Content survives with its method; without it no field describes it.
LEMMA DerivedContent ==
  ASSUME NEW r, NEW location, NEW status
  PROVE  LET d == Derived(r, location, status)
         IN  /\ d.body => r.body /\ d.method = r.method
             /\ d.headers \subseteq r.headers
             /\ d.method \in {"GET", r.method}
             /\ r.body /\ ~d.body =>
                  d.method = "GET" /\ \A h \in d.headers : h.name # "content"
  BY DEF Derived, KeptHeaders, Body
-----------------------------------------------------------------------------
(* The invariant *)

\* A prepared request applied each credential once and has gone nowhere yet.
LEMMA InitChain == ChainInit => ChainInv
  <1> SUFFICES ASSUME ChainInit PROVE ChainInv
    OBVIOUS
  <1>1. request \in Requests /\ first = request /\ sent = {} /\ step = "ready"
    BY DEF ChainInit, Start
  <1>2. ChainTypeOK
    BY <1>1, RedirectAssumption DEF ChainTypeOK, Steps, Pairs
  <1>3. AppliedOnce
    BY <1>1, RedirectAssumption DEF AppliedOnce, Names
  <1>4. QED
    BY <1>1, <1>2, <1>3 DEF ChainInv, StrippedForGood, NeverDowngraded, ContentStaysDropped

\* No step of an invocation changes the request; entering the callback sends it,
\* once.
LEMMA HopChain == ChainInv /\ Hop => ChainInv'
  <1> SUFFICES ASSUME ChainInv, Hop PROVE ChainInv'
    OBVIOUS
  <1> USE DEF ChainInv
  <1>1. request' = request /\ first' = first
    BY DEF Hop, AdapterRefuse, Enter, CheckToken, Refuse, Answer, Finish, Cancel, Drop, callVars
  <1>2. CASE Enter /\ sent' = sent \cup {request}
    <2>1. step = "admit" /\ step' = "entered"
      BY <1>2 DEF Enter
    <2>2. ChainTypeOK'
      BY <1>1, <1>2, <2>1 DEF ChainTypeOK, Steps, Pairs
    <2>3. QED
      BY <1>1, <1>2, <2>2 DEF ChainTypeOK, StrippedForGood, AppliedOnce, NeverDowngraded,
         ContentStaysDropped
  <1>3. CASE /\ AdapterRefuse \/ CheckToken \/ Refuse \/ Answer \/ Finish \/ Cancel \/ Drop
             /\ sent' = sent
    <2>1. /\ step' \in Steps
          /\ step' \in {"ready", "admit"} => step \in {"ready", "admit"}
      BY <1>3 DEF ChainTypeOK, Steps, AdapterRefuse, CheckToken, Refuse, Answer, Finish, Cancel, Drop
    <2>2. ChainTypeOK'
      BY <1>1, <1>3, <2>1 DEF ChainTypeOK, Pairs
    <2>3. QED
      BY <1>1, <1>3, <2>2 DEF StrippedForGood, AppliedOnce, NeverDowngraded,
         ContentStaysDropped
  <1>4. QED
    BY <1>2, <1>3 DEF Hop

\* A followed redirect: one conjunct at a time.
LEMMA FollowChain == ChainInv /\ Follow => ChainInv'
  <1> SUFFICES ASSUME ChainInv, Follow PROVE ChainInv'
    OBVIOUS
  <1> DEFINE location == Location(outcome.response)
             status == outcome.response.input.status
  <1>1. /\ request' = Derived(request, location, status)
        /\ step' = "ready" /\ first' = first /\ sent' = sent
    BY DEF Follow
  <1>2. /\ request.redirects < MaxRedirects
        /\ ~Downgrade(request.origin, location.origin)
        /\ ~Collides(request, location)
        /\ Pairs(Derived(request, location, status)) <= MaxPairs
    BY DEF Follow, Redirects
  <1>3. /\ request'.redirects = request.redirects + 1
        /\ request'.origin = location.origin
    BY <1>1 DEF Derived, Count
  <1> HIDE DEF location, status
  <1>4. ChainTypeOK'
    <2>1. request'.redirects \in 0..MaxRedirects
      BY <1>2, <1>3, RedirectAssumption DEF ChainInv, ChainTypeOK
    <2>2. Pairs(request)' <= MaxPairs
      BY <1>1, <1>2 DEF Pairs
    <2>3. QED
      BY <1>1, <1>3, <2>1, <2>2 DEF ChainInv, ChainTypeOK, Steps
  <1>5. StrippedForGood'
    <2>1. CASE Bare(request) \/ ~SameOrigin(request.origin, location.origin)
      BY <1>1, <2>1, DerivedBare DEF StrippedForGood
    <2>2. CASE SameOrigin(request.origin, location.origin) /\ ~Bare(request)
      BY <1>1, <1>3, <2>2 DEF ChainInv, StrippedForGood, SameOrigin
    <2>3. QED
      BY <2>1, <2>2
  <1>6. AppliedOnce'
    BY <1>1, <1>2, DerivedAppliedOnce DEF AppliedOnce, Names
  <1>7. NeverDowngraded'
    BY <1>1, <1>2, <1>3 DEF ChainInv, NeverDowngraded, Downgrade
  <1>8. ContentStaysDropped'
    BY <1>1, DerivedContent DEF ChainInv, ContentStaysDropped
  <1>9. QED
    BY <1>4, <1>5, <1>6, <1>7, <1>8 DEF ChainInv

LEMMA ChainInvariance == ChainSpec => []ChainInv
  <1>1. ChainInv /\ [ChainNext]_chainVars => ChainInv'
    <2>1. ChainInv /\ UNCHANGED chainVars => ChainInv'
      BY DEF ChainInv, chainVars, ChainTypeOK, StrippedForGood, AppliedOnce, NeverDowngraded,
         ContentStaysDropped, Pairs, Bare, Names
    <2>2. QED
      BY <2>1, HopChain, FollowChain DEF ChainNext
  <1>2. QED
    BY InitChain, <1>1, PTL DEF ChainSpec

-----------------------------------------------------------------------------
(* What callers rely on *)

\* A chain keeps to Limits::redirects and Limits::target_bytes, and no two of the
\* requests it sends are equally far from the first.
THEOREM ChainIsBounded == ChainSpec => []ChainTypeOK
  BY ChainInvariance, PTL DEF ChainInv

\* Credentials removed by a redirect to another origin are gone for the rest of
\* the chain.
THEOREM CredentialsAreNotRestored == ChainSpec => []StrippedForGood
  BY ChainInvariance, PTL DEF ChainInv

\* A same-origin redirect never sends two values for one query credential.
THEOREM CredentialsAreAppliedOnce == ChainSpec => []AppliedOnce
  BY ChainInvariance, PTL DEF ChainInv

\* No chain of redirects leads from https to http.
THEOREM SecurityIsKept == ChainSpec => []NeverDowngraded
  BY ChainInvariance, PTL DEF ChainInv

\* A body is sent again only with its own method, and never reappears.
THEOREM ContentIsNotRestored == ChainSpec => []ContentStaysDropped
  BY ChainInvariance, PTL DEF ChainInv

\* A chain of redirects of any length is bounded, keeps its security and never
\* resends what it dropped (redirect.rs, follow_redirect).
THEOREM ChainStaysConfined == ChainSpec => []ChainIsConfined
  <1>1. ChainTypeOK /\ NeverDowngraded /\ ContentStaysDropped => ChainIsConfined
    BY DEF ChainIsConfined
  <1>2. QED
    BY <1>1, ChainIsBounded, SecurityIsKept, ContentIsNotRestored, PTL

-----------------------------------------------------------------------------
(* What servers echo *)

\* Each hop is a call, and no pair of the query is a credential of the prepared
\* request.
QueryInv ==
  /\ CallOK
  /\ first \in Requests
  /\ request.query \cap first.credentials = {}

LEMMA InitQuery == ChainInit => QueryInv
  <1> SUFFICES ASSUME ChainInit PROVE QueryInv
    OBVIOUS
  <1>1. PICK r \in Requests : Start(r) /\ first = r
    BY DEF ChainInit
  <1>2. CallOK
    BY <1>1, InitCall
  <1>3. request = r
    BY <1>1 DEF Start
  <1>4. request.query \cap first.credentials = {}
    BY <1>1, <1>3, RedirectAssumption
  <1> QED
    BY <1>1, <1>2, <1>4 DEF QueryInv

LEMMA HopQuery == QueryInv /\ Hop => QueryInv'
  <1> SUFFICES ASSUME QueryInv, Hop PROVE QueryInv'
    OBVIOUS
  <1>1. InvokeNext /\ first' = first
    BY DEF Hop, InvokeNext
  <1>2. CallOK' /\ UNCHANGED callVars
    BY <1>1, StepCall DEF QueryInv
  <1> QED
    BY <1>1, <1>2 DEF QueryInv, callVars

\* The Location that is followed is one of the server's answer.
LEMMA FollowedLocation ==
  ASSUME NEW public, CallOK, ServerForgets(public), Follow
  PROVE  Location(outcome.response).query \subseteq public \cup request.query \cup request.credentials
  <1> DEFINE response == outcome.response
             input == answer.response
  <1>1. /\ step = "done" /\ response # None /\ response.omitted = 0
        /\ Cardinality(Locations(response)) = 1 /\ Location(response).usable
    BY DEF Follow, Redirects
  <1>2. Tried /\ input # None /\ response = Received(input)
    <2>1. CASE \E code, c : outcome = Declined(code, c)
      BY <1>1, <2>1, DeclinedIsEmpty
    <2>2. CASE Tried /\ \E c \in BOOLEAN : outcome = Concluded(answer, c)
      BY <1>1, <2>2, ConcludedIsAnswer
    <2> QED
      BY <1>1, <2>1, <2>2 DEF CallOK
  <1>3. HostResponse(input) /\ HeaderList(input.headers)
    BY <1>1, <1>2 DEF Tried, ServerForgets, HostResponse
  <1>4. response.input.headers = input.headers
    BY <1>1, <1>2, <1>3, ReceivedKeeps, WholeHeaders
  <1>5. \E i : Named(input.headers, "location") = {i}
    <2>1. Named(input.headers, "location") \subseteq 1..Len(input.headers) /\ Len(input.headers) \in Int
      BY <1>3, LenProperties DEF Named, HeaderList
    <2>2. IsFiniteSet(Named(input.headers, "location"))
      <3>1. 1 \in Int /\ IsFiniteSet(1..Len(input.headers))
        BY <2>1, FS_Interval
      <3> QED
        BY <2>1, <3>1, FS_Subset
    <2> QED
      BY <1>1, <1>4, <2>2, FS_Singleton DEF Locations
  <1>6. PICK i \in Named(input.headers, "location") : Location(response) = input.headers[i].value
    BY <1>4, <1>5 DEF Location, Locations
  <1> HIDE DEF response
  <1> QED
    BY <1>1, <1>2, <1>6 DEF ServerForgets, Tried, response

LEMMA FollowQuery ==
  ASSUME NEW public, \A r \in Requests : public \cap r.credentials = {}
  PROVE  QueryInv /\ ServerForgets(public) /\ Follow => QueryInv'
  <1> SUFFICES ASSUME QueryInv, ServerForgets(public), Follow PROVE QueryInv'
    OBVIOUS
  <1> DEFINE location == Location(outcome.response)
  <1>1. location.query \subseteq public \cup request.query \cup request.credentials
    BY FollowedLocation DEF QueryInv
  <1>2. request'.query = location.query \ request.credentials /\ first' = first
    BY DEF Follow, Derived, OtherPairs
  <1>3. CallOK'
    <2>1. /\ token' \in BOOLEAN /\ step' = "ready" /\ entered' = 0
          /\ answer' = None /\ outcome' = None
      BY DEF QueryInv, CallOK, Follow
    <2> QED
      BY <2>1 DEF CallOK, Steps, Untried
  <1> HIDE DEF location
  <1> QED
    BY <1>1, <1>2, <1>3 DEF QueryInv

\* While no server learns of a credential but from the request itself, none
\* reaches another origin: not as a field, not as a pair applied at the end of
\* the query, not echoed into a Location, over any number of hops and of returns
\* (redirect.rs, follow_redirect and credential_target).
THEOREM CredentialsStayConfined ==
  ASSUME NEW public, \A r \in Requests : public \cap r.credentials = {}
  PROVE  ChainSpec /\ []ServerForgets(public) => []CredentialsAreConfined
  <1> DEFINE forgets == ServerForgets(public)
  <1>1. QueryInv /\ forgets /\ [ChainNext]_chainVars => QueryInv'
    <2>1. QueryInv /\ UNCHANGED chainVars => QueryInv'
      <3>1. SUFFICES ASSUME QueryInv, UNCHANGED chainVars PROVE QueryInv'
        OBVIOUS
      <3>2. UNCHANGED invokeVars
        BY <3>1 DEF chainVars, invokeVars
      <3>3. CallOK'
        BY <3>1, <3>2, StepCall DEF QueryInv
      <3> QED
        BY <3>1, <3>3 DEF QueryInv, chainVars
    <2> QED
      BY <2>1, HopQuery, FollowQuery DEF ChainNext
  <1>2. ChainInv /\ QueryInv => CredentialsAreConfined
    BY DEF ChainInv, QueryInv, CredentialsAreConfined, SecretsStayHome, StrippedForGood
  <1> HIDE DEF forgets
  <1>3. ChainSpec /\ []forgets => []CredentialsAreConfined
    BY <1>1, <1>2, InitQuery, ChainInvariance, PTL DEF ChainSpec
  <1> QED
    BY <1>3 DEF forgets

-----------------------------------------------------------------------------
(* Streams.  What is read chunk by chunk is what is read at once. *)
Sorts == {"data", "id", "comment", "value", "junk", "CR", "LF", "RS"}
Byte == [at : Nat, sort : Sorts]
Framed(s) == s \in [framing : {"sse", "lines", "sequence"}, sorts : Seq(Sorts), limit : Nat \ {0}]

LEMMA BytesAreTyped ==
  ASSUME NEW s, Framed(s)
  PROVE  /\ Bytes(s) \in Seq(Byte) /\ Len(Bytes(s)) = Len(s.sorts)
         /\ \A p \in 1 .. Len(s.sorts) : Bytes(s)[p].at = p /\ Bytes(s)[p].sort = s.sorts[p]
  <1>1. s.sorts \in Seq(Sorts) /\ Len(s.sorts) \in Nat /\ \A p \in 1 .. Len(s.sorts) : s.sorts[p] \in Sorts
    BY LenProperties, ElementOfSeq DEF Framed
  <1>2. \A p \in 1 .. Len(s.sorts) : Bytes(s)[p] = [at |-> p, sort |-> s.sorts[p]] /\ Bytes(s)[p] \in Byte
    BY <1>1 DEF Bytes, Byte
  <1>3. Bytes(s) = [p \in 1 .. Len(s.sorts) |-> Bytes(s)[p]]
    BY DEF Bytes
  <1> DEFINE b == Bytes(s)
             n == Len(s.sorts)
  <1>4. b \in Seq(Byte) /\ Len(b) = n
    <2>1. b = [p \in 1 .. n |-> b[p]] /\ n \in Nat /\ \A p \in 1 .. n : b[p] \in Byte
      BY <1>1, <1>2, <1>3
    <2> HIDE DEF b, n
    <2>. QED
      BY <2>1, IsASeq
  <1>5. ASSUME NEW p \in 1 .. Len(s.sorts) PROVE Bytes(s)[p].at = p /\ Bytes(s)[p].sort = s.sorts[p]
    <2> DEFINE byte == Bytes(s)[p]
    <2>1. byte = [at |-> p, sort |-> s.sorts[p]]
      BY <1>2
    <2> HIDE DEF byte
    <2>2. byte.at = p /\ byte.sort = s.sorts[p]
      BY <2>1
    <2>. QED
      BY <2>2 DEF byte
  <1>. QED
    BY <1>4, <1>5

\* A reader's state after k bytes of a buffer.
ReadNext(s, d, b, k, atEnd) == IF k \in Complete(s, b, atEnd) THEN TakeUpTo(s, d, b, k) ELSE d
Reads(f, s, e, b, atEnd) ==
  /\ f[0] = [event |-> e, from |-> 1]
  /\ \A k \in 1 .. Len(b) : f[k] = ReadNext(s, f[k - 1], b, k, atEnd)
  /\ Drain(s, e, b, atEnd) = f[Len(b)]

LEMMA DrainUnfolds ==
  ASSUME NEW s, NEW e, NEW b \in Seq(Byte), NEW atEnd
  PROVE  \E f : Reads(f, s, e, b, atEnd)
  <1> DEFINE none == [event |-> e, from |-> 1]
             After(g, k) == ReadNext(s, g, b, k, atEnd)
             From(f, m) == [k \in 0 .. m |-> IF k = 0 THEN none ELSE After(f[k - 1], k)]
             read == CHOOSE f : f = From(f, Len(b))
             defined == {m \in Nat : \E f : f = From(f, m)}
  <1>. Len(b) \in Nat
    BY LenProperties
  <1>0. Drain(s, e, b, atEnd) = read[Len(b)]
    BY DEF Drain, ReadNext
  <1> HIDE DEF After, none
  <1>2. Nat \subseteq defined
    <2>1. 0 \in defined
      <3>1. [k \in 0 .. 0 |-> none] = From([k \in 0 .. 0 |-> none], 0)
        OBVIOUS
      <3>. QED
        BY <3>1
    <2>2. ASSUME NEW m \in Nat, m \in defined PROVE m + 1 \in defined
      <3>1. PICK f : f = From(f, m)
        BY <2>2
      <3> DEFINE g == [k \in 0 .. (m + 1) |-> IF k = m + 1 THEN After(f[m], m + 1) ELSE f[k]]
      <3>2. \A k \in 0 .. m : f[k] = IF k = 0 THEN none ELSE After(f[k - 1], k)
        BY <3>1
      <3>3. \A k \in 0 .. (m + 1) : g[k] = IF k = 0 THEN none ELSE After(g[k - 1], k)
        BY <3>2
      <3>4. g = From(g, m + 1)
        BY <3>3
      <3> HIDE DEF g
      <3>. QED
        BY <3>4
    <2>. QED
      BY <2>1, <2>2, EveryNatural
  <1>3. read = From(read, Len(b))
    <2>1. \E f : f = From(f, Len(b))
      BY <1>2
    <2>. QED
      BY <2>1
  <1>4. \A k \in 0 .. Len(b) : read[k] = IF k = 0 THEN none ELSE After(read[k - 1], k)
    BY <1>3
  <1> HIDE DEF read
  <1>6. read[0] = none /\ \A k \in 1 .. Len(b) : read[k] = After(read[k - 1], k)
    BY <1>4
  <1>7. Reads(read, s, e, b, atEnd)
    BY <1>0, <1>6 DEF After, none, Reads
  <1>. QED
    BY <1>7

\* What is left begins behind the last piece that was taken.
Settled(f, k) == f[k].from \in 1 .. k + 1 /\ f[f[k].from - 1] = f[k]

LEMMA FromIsSettled ==
  ASSUME NEW s, NEW e, NEW b \in Seq(Byte), NEW atEnd, NEW f, Reads(f, s, e, b, atEnd)
  PROVE  \A k \in 0 .. Len(b) : Settled(f, k)
  <1> DEFINE n == Len(b)
             done == {k \in Nat : k <= n => Settled(f, k)}
  <1>1. n \in Nat
    BY LenProperties
  <1>2. 0 \in done
    BY DEF Reads, Settled
  <1>3. ASSUME NEW k \in Nat, k \in done PROVE k + 1 \in done
    <2>1. SUFFICES ASSUME k + 1 <= n PROVE Settled(f, k + 1)
      OBVIOUS
    <2>2. Settled(f, k)
      BY <1>1, <1>3, <2>1
    <2>3. f[k + 1] = ReadNext(s, f[k], b, k + 1, atEnd)
      <3>1. k + 1 \in 1 .. n /\ (k + 1) - 1 = k
        BY <1>1, <2>1
      <3>. QED
        BY <3>1 DEF Reads
    <2>4. CASE k + 1 \in Complete(s, b, atEnd)
      <3>1. f[k + 1].from = (k + 1) + 1
        BY <2>3, <2>4 DEF ReadNext, TakeUpTo
      <3>. QED
        BY <3>1 DEF Settled
    <2>5. CASE k + 1 \notin Complete(s, b, atEnd)
      <3>1. f[k + 1] = f[k]
        BY <2>3, <2>5 DEF ReadNext
      <3>. QED
        BY <2>2, <3>1 DEF Settled
    <2>. QED
      BY <2>4, <2>5
  <1>4. Nat \subseteq done
    <2> HIDE DEF done
    <2>. QED
      BY <1>2, <1>3, EveryNatural
  <1>. QED
    BY <1>1, <1>4

\* A buffer that is a part of the stream.
Part(b, whole, m) ==
  /\ m \in Nat /\ m + Len(b) <= Len(whole)
  /\ \A i \in 1 .. Len(b) : b[i] = whole[m + i]

\* The end of the stream is the end of the buffer.
EndsTogether(b, whole, m, atEnd) == atEnd \in BOOLEAN /\ (atEnd => m + Len(b) = Len(whole))

\* What it completes is complete in the stream; and what is complete in the stream,
\* but for the end of the buffer.
LEMMA CompleteAgrees ==
  ASSUME NEW s, Framed(s), NEW b \in Seq(Byte), NEW whole \in Seq(Byte), NEW m, Part(b, whole, m),
         NEW atEnd, EndsTogether(b, whole, m, atEnd), NEW p \in 1 .. Len(b)
  PROVE  /\ p \in Complete(s, b, atEnd) => m + p \in Complete(s, whole, TRUE)
         /\ p < Len(b) \/ atEnd => (p \in Complete(s, b, atEnd) <=> m + p \in Complete(s, whole, TRUE))
  <1>1. /\ Len(b) \in Nat /\ Len(whole) \in Nat /\ m \in Nat /\ m + Len(b) <= Len(whole)
        /\ DOMAIN b = 1 .. Len(b) /\ DOMAIN whole = 1 .. Len(whole)
    BY LenProperties DEF Part
  <1>0. p < Len(b) => b[p + 1] = whole[(m + p) + 1]
    <2>1. SUFFICES ASSUME p < Len(b) PROVE b[p + 1] = whole[(m + p) + 1]
      OBVIOUS
    <2>2. p + 1 \in 1 .. Len(b) /\ m + (p + 1) = (m + p) + 1
      BY <1>1, <2>1
    <2>3. b[p + 1] = whole[m + (p + 1)]
      BY <2>2 DEF Part
    <2>. QED
      BY <2>2, <2>3
  <1>2. p \in Nat /\ 1 <= p /\ p <= Len(b)
    BY <1>1
  <1>7. m + p \in 1 .. Len(whole) /\ b[p] = whole[m + p]
    <2>1. b[p] = whole[m + p]
      BY DEF Part
    <2>2. m + p \in 1 .. Len(whole)
      BY <1>1, <1>2
    <2>. QED
      BY <2>1, <2>2
  <1>8. p < Len(b) => m + p < Len(whole)
    BY <1>1, <1>2
  <1>9. p < Len(b) => p + 1 \in 1 .. Len(b)
    BY <1>1, <1>2
  <1>10. p # Len(b) => p < Len(b)
    <2> DEFINE l == Len(b)
    <2>1. l \in Nat
      BY <1>1
    <2> HIDE DEF l
    <2>2. p # l => p < l
      BY <2>1, <1>2 DEF l
    <2>. QED
      BY <2>2 DEF l
  <1>6. atEnd \in BOOLEAN /\ (atEnd /\ p = Len(b) => m + p = Len(whole))
    BY <1>1 DEF EndsTogether
  <1>3. CASE s.framing = "sse"
    BY <1>0, <1>1, <1>2, <1>6, <1>7, <1>8, <1>9, <1>10, <1>3 DEF Complete, LineEnds, Is
  <1>4. CASE s.framing = "lines"
    BY <1>0, <1>1, <1>2, <1>6, <1>7, <1>8, <1>9, <1>10, <1>4 DEF Complete, FeedEnds, Is
  <1>5. CASE s.framing = "sequence"
    BY <1>0, <1>1, <1>2, <1>6, <1>7, <1>8, <1>9, <1>10, <1>5 DEF Complete, RecordEnds, Is
  <1>. QED
    BY <1>3, <1>4, <1>5 DEF Framed

\* Places of a part, and where they are in the whole.
Within(i, j, b) == i \in Nat /\ 1 <= i /\ j \in Nat /\ j <= Len(b)
There(p, m, q) == q = p + m

PlacesOf(b, whole, m, i, j, from, to) ==
  /\ b \in Seq(Byte) /\ whole \in Seq(Byte) /\ Part(b, whole, m)
  /\ Within(i, j, b) /\ There(i, m, from) /\ There(j, m, to)
SamePiece(b, i, j, whole, from, to) == SubSeq(b, i, j) = SubSeq(whole, from, to)

LEMMA PartOfAPart ==
  ASSUME NEW b, NEW whole, NEW m, NEW i, NEW j, NEW from, NEW to, PlacesOf(b, whole, m, i, j, from, to)
  PROVE  SamePiece(b, i, j, whole, from, to)
  <1>. b \in Seq(Byte) /\ whole \in Seq(Byte) /\ Part(b, whole, m)
    BY DEF PlacesOf
  <1>0. i \in Nat /\ 1 <= i /\ j \in Nat /\ j <= Len(b) /\ from = i + m /\ to = m + j
    BY LenProperties DEF Part, PlacesOf, Within, There
  <1>1. Len(b) \in Nat /\ Len(whole) \in Nat /\ m \in Nat /\ m + Len(b) <= Len(whole)
    BY LenProperties DEF Part
  <1> DEFINE x == SubSeq(b, i, j)
             y == SubSeq(whole, i + m, m + j)
             l == IF i <= j THEN j - i + 1 ELSE 0
  <1>2. x \in Seq(Byte) /\ y \in Seq(Byte)
    BY <1>0, <1>1, SubSeqProperties
  <1>3. /\ Len(x) = l
        /\ \A k \in 1 .. l : x[k] = b[i + k - 1]
    BY <1>0, <1>1, SubSeqProperties
  <1>4. /\ Len(y) = l
        /\ \A k \in 1 .. l : y[k] = whole[(i + m) + k - 1]
    <2> DEFINE c == i + m
               d == m + j
    <2>1. c \in Nat /\ d \in Nat /\ 1 <= c /\ d <= Len(whole) /\ l = IF c <= d THEN d - c + 1 ELSE 0
      BY <1>0, <1>1
    <2> HIDE DEF c, d, l
    <2>2. Len(SubSeq(whole, c, d)) = l /\ \A k \in 1 .. l : SubSeq(whole, c, d)[k] = whole[c + k - 1]
      BY <1>1, <2>1, SubSeqProperties
    <2>. QED
      BY <2>2 DEF c, d
  <1>5. \A k \in 1 .. l : i + k - 1 \in 1 .. Len(b) /\ (i + m) + k - 1 = m + (i + k - 1)
    BY <1>0, <1>1
  <1> HIDE DEF x, y
  <1>6. ASSUME NEW k \in 1 .. l PROVE x[k] = y[k]
    <2> DEFINE q == i + k - 1
    <2>1. q \in 1 .. Len(b) /\ y[k] = whole[m + q] /\ x[k] = b[q]
      BY <1>3, <1>4, <1>5
    <2> HIDE DEF q
    <2>. QED
      BY <2>1 DEF Part
  <1>7. x = y
    BY <1>2, <1>3, <1>4, <1>6, SeqEqual
  <1>. QED
    BY <1>0, <1>7 DEF x, y, SamePiece

\* What a reader of a part has done, seen from the whole.
Moved(d, m) == [event |-> d.event, from |-> d.from + m]

\* A byte more, where the buffer and the stream agree on what is complete.
Alike(s, b, whole, m, p, atEnd) == p \in Complete(s, b, atEnd) <=> m + p \in Complete(s, whole, TRUE)
NextAgrees(s, d, b, whole, m, p, atEnd) ==
  ReadNext(s, Moved(d, m), whole, m + p, TRUE) = Moved(ReadNext(s, d, b, p, atEnd), m)

LEMMA ReadNextAgrees ==
  ASSUME NEW s, NEW b \in Seq(Byte), NEW whole \in Seq(Byte), NEW m, Part(b, whole, m), NEW atEnd,
         NEW p \in 1 .. Len(b), Alike(s, b, whole, m, p, atEnd), NEW d, d.from \in 1 .. p
  PROVE  NextAgrees(s, d, b, whole, m, p, atEnd)
  <1> DEFINE there == d.from + m
             new == ReadNext(s, d, b, p, atEnd)
             moved == ReadNext(s, Moved(d, m), whole, m + p, TRUE)
  <1>1. Len(b) \in Nat /\ m \in Nat /\ p \in Nat /\ p <= Len(b) /\ d.from \in Nat /\ 1 <= d.from
    BY LenProperties DEF Part
  <1>2. Moved(d, m).event = d.event /\ Moved(d, m).from = there
    BY DEF Moved
  <1>3. CASE p \in Complete(s, b, atEnd)
    <2> DEFINE piece == SubSeq(b, d.from, p)
    <2>1. SubSeq(whole, there, m + p) = piece
      <3>1. Within(d.from, p, b) /\ There(d.from, m, there) /\ There(p, m, m + p)
        BY <1>1 DEF Within, There
      <3>2. PlacesOf(b, whole, m, d.from, p, there, m + p)
        BY <3>1 DEF PlacesOf
      <3> HIDE DEF there
      <3>3. SamePiece(b, d.from, p, whole, there, m + p)
        BY <3>2, PartOfAPart
      <3>. QED
        BY <3>3 DEF SamePiece
    <2>2. new = [event |-> Take(s, d.event, piece), from |-> p + 1]
      BY <1>3 DEF ReadNext, TakeUpTo
    <2>3. moved = [event |-> Take(s, d.event, piece), from |-> (m + p) + 1]
      BY <1>2, <1>3, <2>1 DEF ReadNext, TakeUpTo, Alike
    <2>4. (m + p) + 1 = (p + 1) + m
      BY <1>1
    <2> HIDE DEF new, moved
    <2>5. Moved(new, m) = [event |-> Take(s, d.event, piece), from |-> (p + 1) + m]
      BY <2>2 DEF Moved
    <2>6. Moved(new, m) = moved
      BY <2>3, <2>4, <2>5
    <2>. QED
      BY <2>6 DEF new, moved, NextAgrees
  <1>4. CASE p \notin Complete(s, b, atEnd)
    BY <1>4 DEF ReadNext, Alike, NextAgrees
  <1>. QED
    BY <1>3, <1>4

\* All that is complete in b up to last is known to be.
Agreed(s, b, last, atEnd) == last = 0 \/ last < Len(b) \/ atEnd \/ last \in Complete(s, b, atEnd)

\* The readers of the part and of the whole have done the same.
InStep(w, f, m, k) == w[m + k] = Moved(f[k], m)

BothRead(s, b, whole, m, atEnd, e, w, f, last) ==
  /\ Framed(s) /\ b \in Seq(Byte) /\ whole \in Seq(Byte)
  /\ Part(b, whole, m) /\ EndsTogether(b, whole, m, atEnd)
  /\ Reads(w, s, FreshEvent, whole, TRUE) /\ Reads(f, s, e, b, atEnd) /\ InStep(w, f, m, 0)
  /\ last \in 0 .. Len(b) /\ Agreed(s, b, last, atEnd)

LEMMA ReadAgrees ==
  ASSUME NEW s, NEW b, NEW whole, NEW m, NEW atEnd, NEW e, NEW w, NEW f, NEW last,
         BothRead(s, b, whole, m, atEnd, e, w, f, last)
  PROVE  InStep(w, f, m, last)
  <1>. /\ Framed(s) /\ b \in Seq(Byte) /\ whole \in Seq(Byte)
       /\ Part(b, whole, m) /\ EndsTogether(b, whole, m, atEnd)
       /\ Reads(w, s, FreshEvent, whole, TRUE) /\ Reads(f, s, e, b, atEnd) /\ InStep(w, f, m, 0)
       /\ last \in 0 .. Len(b) /\ Agreed(s, b, last, atEnd)
    BY DEF BothRead
  <1> DEFINE agree == {k \in Nat : k <= last => InStep(w, f, m, k)}
  <1>1. Len(b) \in Nat /\ Len(whole) \in Nat /\ m \in Nat /\ last \in Nat /\ last <= Len(b) /\ m + Len(b) <= Len(whole)
    BY LenProperties DEF Part
  <1>2. 0 \in agree
    OBVIOUS
  <1>3. ASSUME NEW k \in Nat, k \in agree PROVE k + 1 \in agree
    <2>1. SUFFICES ASSUME k + 1 <= last PROVE InStep(w, f, m, k + 1)
      OBVIOUS
    <2> DEFINE p == k + 1
    <2>2. InStep(w, f, m, k)
      BY <1>1, <1>3, <2>1
    <2>3. /\ k \in 0 .. Len(b) /\ p \in 1 .. Len(b) /\ p - 1 = k
          /\ m + p \in 1 .. Len(whole) /\ (m + p) - 1 = m + k
      BY <1>1, <2>1
    <2>4. p <= last /\ last <= Len(b) /\ p # 0 /\ p \in Nat
      BY <1>1, <2>1
    <2>5. f[k].from \in 1 .. p
      BY <2>3, FromIsSettled DEF Settled
    <2> HIDE DEF p
    <2>6. Alike(s, b, whole, m, p, atEnd)
      <3>1. CASE p < Len(b) \/ atEnd
        BY <2>3, <3>1, CompleteAgrees DEF Alike
      <3>2. CASE ~(p < Len(b)) /\ ~atEnd
        <4>1. p = last /\ ~(last < Len(b)) /\ last # 0
          BY <1>1, <2>4, <3>2
        <4>2. p \in Complete(s, b, atEnd)
          BY <3>2, <4>1 DEF Agreed
        <4>. QED
          BY <2>3, <4>2, CompleteAgrees DEF Alike
      <3>. QED
        BY <3>1, <3>2
    <2>7. f[p] = ReadNext(s, f[k], b, p, atEnd)
      BY <2>3 DEF Reads
    <2>8. w[m + p] = ReadNext(s, w[m + k], whole, m + p, TRUE)
      BY <2>3 DEF Reads
    <2>9. NextAgrees(s, f[k], b, whole, m, p, atEnd)
      BY <2>3, <2>5, <2>6, ReadNextAgrees
    <2>10. InStep(w, f, m, p)
      BY <2>2, <2>7, <2>8, <2>9 DEF InStep, NextAgrees
    <2>. QED
      BY <2>10 DEF p
  <1>4. Nat \subseteq agree
    <2> HIDE DEF agree
    <2>. QED
      BY <1>2, <1>3, EveryNatural
  <1>. QED
    BY <1>1, <1>4

\* A buffer is left at a place where the stream read at once is settled, in the
\* same state.
At(w, e, m) == w[m] = [event |-> e, from |-> m + 1]

Drained(s, b, whole, m, atEnd, e, w, d) ==
  /\ Framed(s) /\ b \in Seq(Byte) /\ whole \in Seq(Byte)
  /\ Part(b, whole, m) /\ EndsTogether(b, whole, m, atEnd)
  /\ Reads(w, s, FreshEvent, whole, TRUE) /\ At(w, e, m) /\ d = Drain(s, e, b, atEnd)
AsTheWhole(b, whole, m, atEnd, w, d) ==
  /\ \E t \in m .. m + Len(b) : At(w, d.event, t) /\ Rest(b, d) = SubSeq(whole, t + 1, m + Len(b))
  /\ atEnd => w[Len(whole)].event = d.event /\ Rest(b, d) = SubSeq(whole, w[Len(whole)].from, Len(whole))

LEMMA DrainAgrees ==
  ASSUME NEW s, NEW b, NEW whole, NEW m, NEW atEnd, NEW e, NEW w, NEW d, Drained(s, b, whole, m, atEnd, e, w, d)
  PROVE  AsTheWhole(b, whole, m, atEnd, w, d)
  <1>. /\ Framed(s) /\ b \in Seq(Byte) /\ whole \in Seq(Byte)
       /\ Part(b, whole, m) /\ EndsTogether(b, whole, m, atEnd)
       /\ Reads(w, s, FreshEvent, whole, TRUE) /\ At(w, e, m) /\ d = Drain(s, e, b, atEnd)
    BY DEF Drained
  <1>1. PICK f : Reads(f, s, e, b, atEnd)
    BY DrainUnfolds
  <1>2. Len(b) \in Nat /\ Len(whole) \in Nat /\ m \in Nat /\ m + Len(b) <= Len(whole)
    BY LenProperties DEF Part
  <1>3. InStep(w, f, m, 0)
    <2>1. f[0] = [event |-> e, from |-> 1] /\ 1 + m = m + 1 /\ m + 0 = m
      BY <1>1, <1>2 DEF Reads
    <2>. QED
      BY <2>1 DEF At, Moved, InStep
  <1>4. d = f[Len(b)] /\ Len(b) \in 0 .. Len(b)
    BY <1>1, <1>2 DEF Reads
  <1>5. PICK last \in 0 .. Len(b) : Agreed(s, b, last, atEnd) /\ d = f[last]
    <2>1. CASE atEnd \/ Len(b) \in Complete(s, b, atEnd)
      BY <1>4, <2>1 DEF Agreed
    <2>2. CASE Len(b) \notin Complete(s, b, atEnd) /\ Len(b) # 0
      <3>1. Len(b) \in 1 .. Len(b) /\ Len(b) - 1 \in 0 .. Len(b) /\ Len(b) - 1 < Len(b)
        BY <1>2, <2>2
      <3>2. f[Len(b)] = f[Len(b) - 1]
        BY <1>1, <2>2, <3>1 DEF Reads, ReadNext
      <3>3. Agreed(s, b, Len(b) - 1, atEnd)
        BY <3>1 DEF Agreed
      <3>. QED
        BY <1>4, <3>1, <3>2, <3>3
    <2>3. CASE Len(b) = 0
      BY <1>4, <2>3 DEF Agreed
    <2>. QED
      BY <2>1, <2>2, <2>3
  <1>6. w[m + last] = Moved(d, m)
    <2>1. BothRead(s, b, whole, m, atEnd, e, w, f, last)
      BY <1>1, <1>3, <1>5 DEF BothRead
    <2>2. InStep(w, f, m, last)
      BY <2>1, ReadAgrees
    <2>. QED
      BY <1>5, <2>2 DEF InStep
  <1>7. d.from \in 1 .. last + 1
    BY <1>1, <1>5, FromIsSettled DEF Settled
  <1>8. last \in Nat /\ last <= Len(b) /\ d.from \in Nat /\ 1 <= d.from /\ d.from <= last + 1
    BY <1>2, <1>7
  <1>9. Rest(b, d) = SubSeq(whole, d.from + m, m + Len(b))
    <2> DEFINE from == d.from + m
               to == m + Len(b)
    <2>1. Within(d.from, Len(b), b) /\ There(d.from, m, from) /\ There(Len(b), m, to)
      BY <1>2, <1>8 DEF Within, There
    <2> HIDE DEF from, to
    <2>3. PlacesOf(b, whole, m, d.from, Len(b), from, to)
      BY <2>1 DEF PlacesOf
    <2>4. SamePiece(b, d.from, Len(b), whole, from, to)
      BY <2>3, PartOfAPart
    <2>2. SubSeq(b, d.from, Len(b)) = SubSeq(whole, from, to)
      BY <2>4 DEF SamePiece
    <2>. QED
      BY <2>2 DEF from, to, Rest
  <1>10. \E t \in m .. m + Len(b) : At(w, d.event, t) /\ Rest(b, d) = SubSeq(whole, t + 1, m + Len(b))
    <2> DEFINE t == (d.from + m) - 1
    <2>1. t \in m .. m + Len(b) /\ t + 1 = d.from + m /\ m + last \in 0 .. Len(whole)
      BY <1>2, <1>8
    <2>2. w[m + last].event = d.event /\ w[m + last].from = d.from + m
      BY <1>6 DEF Moved
    <2>3. w[t] = w[m + last]
      <3> DEFINE k == m + last
      <3> HIDE DEF k
      <3>1. Settled(w, k)
        BY <2>1, FromIsSettled DEF k
      <3>. QED
        BY <2>2, <3>1 DEF Settled, k
    <2>4. At(w, d.event, t)
      BY <1>6, <2>1, <2>3 DEF At, Moved
    <2> HIDE DEF t
    <2>. QED
      BY <1>9, <2>1, <2>4
  <1>11. ASSUME atEnd
         PROVE  w[Len(whole)].event = d.event /\ Rest(b, d) = SubSeq(whole, w[Len(whole)].from, Len(whole))
    <2>1. Agreed(s, b, Len(b), atEnd) /\ m + Len(b) = Len(whole)
      BY <1>11 DEF Agreed, EndsTogether
    <2>2. w[m + Len(b)] = Moved(d, m)
      <3>1. BothRead(s, b, whole, m, atEnd, e, w, f, Len(b))
        BY <1>1, <1>3, <1>4, <2>1 DEF BothRead
      <3>2. InStep(w, f, m, Len(b))
        BY <3>1, ReadAgrees
      <3>. QED
        BY <1>4, <3>2 DEF InStep
    <2>3. w[Len(whole)].event = d.event /\ w[Len(whole)].from = d.from + m
      BY <2>1, <2>2 DEF Moved
    <2>. QED
      BY <1>9, <2>1, <2>3
  <1>. QED
    BY <1>10, <1>11 DEF AsTheWhole

\* The stream read at once, and the event that its end leaves.
Reader(s) == CHOOSE w : Reads(w, s, FreshEvent, Bytes(s), TRUE)
Finally(s, d) == IF Rest(Bytes(s), d) = <<>> THEN d.event ELSE Take(s, d.event, Rest(Bytes(s), d))
Final(s) == Finally(s, Reader(s)[Len(Bytes(s))])

LEMMA ReaderReads ==
  ASSUME NEW s, Framed(s)
  PROVE  Reads(Reader(s), s, FreshEvent, Bytes(s), TRUE)
  <1>1. Bytes(s) \in Seq(Byte)
    BY BytesAreTyped
  <1>. QED
    BY <1>1, DrainUnfolds DEF Reader

\* What has arrived: a part of the stream was read as the whole is, the rest waits.
Waiting(m) == m \in 0 .. arrived /\ buffer = SubSeq(Bytes(stream), m + 1, arrived) /\ At(Reader(stream), event, m)

FramingInv ==
  /\ stream \in Streams /\ arrived \in 0 .. Len(Bytes(stream)) /\ units = event.units
  /\ fate = "open" => \E m \in Nat : Waiting(m)
  /\ \/ \E k \in 0 .. Len(Bytes(stream)) : event = Reader(stream)[k].event
     \/ event = Final(stream)
  /\ fate = "closed" => event = Final(stream) /\ ~event.failed

LEMMA StreamsAreFramed ==
  ASSUME NEW s \in Streams
  PROVE  Framed(s)
  BY FramingAssumption DEF Framed, Sorts

LEMMA FramingStarts ==
  FramingInit => FramingInv
  <1> SUFFICES ASSUME NEW s \in Streams, Opens(s) PROVE FramingInv
    BY DEF FramingInit
  <1> DEFINE w == Reader(s)
             whole == Bytes(s)
  <1>0. stream = s /\ arrived = 0 /\ buffer = <<>> /\ units = <<>> /\ event = FreshEvent /\ fate = "open"
    BY DEF Opens
  <1>1. Reads(w, s, FreshEvent, whole, TRUE) /\ whole \in Seq(Byte) /\ Len(whole) \in Nat
    BY StreamsAreFramed, ReaderReads, BytesAreTyped, LenProperties
  <1>2. w[0] = [event |-> FreshEvent, from |-> 1]
    BY <1>1 DEF Reads
  <1>3. SubSeq(whole, 0 + 1, 0) = <<>>
    BY <1>1, SubSeqProperties, EmptySeq
  <1>4. Waiting(0)
    BY <1>0, <1>2, <1>3 DEF Waiting, At
  <1>5. units = event.units
    BY <1>0 DEF FreshEvent
  <1>6. w[0].event = event /\ 0 \in 0 .. Len(whole)
    BY <1>0, <1>1, <1>2
  <1>. QED
    BY <1>0, <1>4, <1>5, <1>6 DEF FramingInv

\* What waits and what arrives are one part.
LEMMA ArrivalIsAPart ==
  ASSUME NEW whole \in Seq(Byte), NEW m \in Nat, NEW k \in Nat, NEW n \in Nat, m <= k, k <= n, n <= Len(whole)
  PROVE  /\ SubSeq(whole, m + 1, k) \o SubSeq(whole, k + 1, n) \in Seq(Byte)
         /\ Len(SubSeq(whole, m + 1, k) \o SubSeq(whole, k + 1, n)) = n - m
         /\ Part(SubSeq(whole, m + 1, k) \o SubSeq(whole, k + 1, n), whole, m)
  <1> DEFINE x == SubSeq(whole, m + 1, k)
             y == SubSeq(whole, k + 1, n)
             m1 == m + 1
             k1 == k + 1
  <1>0. Len(whole) \in Nat
    BY LenProperties
  <1>1. x \in Seq(Byte) /\ Len(x) = k - m /\ \A i \in 1 .. k - m : x[i] = whole[m + i]
    <2>1. m1 \in Nat /\ 1 <= m1 /\ k <= Len(whole) /\ (IF m1 <= k THEN k - m1 + 1 ELSE 0) = k - m
      BY <1>0
    <2>2. \A i \in 1 .. k - m : m1 + i - 1 = m + i
      OBVIOUS
    <2> HIDE DEF m1
    <2>3. SubSeq(whole, m1, k) \in Seq(Byte) /\ Len(SubSeq(whole, m1, k)) = k - m
          /\ \A i \in 1 .. k - m : SubSeq(whole, m1, k)[i] = whole[m1 + i - 1]
      BY <1>0, <2>1, SubSeqProperties
    <2>. QED
      BY <2>2, <2>3 DEF m1
  <1>2. y \in Seq(Byte) /\ Len(y) = n - k /\ \A i \in 1 .. n - k : y[i] = whole[k + i]
    <2>1. k1 \in Nat /\ 1 <= k1 /\ n <= Len(whole) /\ (IF k1 <= n THEN n - k1 + 1 ELSE 0) = n - k
      BY <1>0
    <2>2. \A i \in 1 .. n - k : k1 + i - 1 = k + i
      OBVIOUS
    <2> HIDE DEF k1
    <2>3. SubSeq(whole, k1, n) \in Seq(Byte) /\ Len(SubSeq(whole, k1, n)) = n - k
          /\ \A i \in 1 .. n - k : SubSeq(whole, k1, n)[i] = whole[k1 + i - 1]
      BY <1>0, <2>1, SubSeqProperties
    <2>. QED
      BY <2>2, <2>3 DEF k1
  <1> HIDE DEF x, y
  <1>3. /\ x \o y \in Seq(Byte) /\ Len(x \o y) = Len(x) + Len(y)
        /\ \A i \in 1 .. Len(x) + Len(y) : (x \o y)[i] = IF i <= Len(x) THEN x[i] ELSE y[i - Len(x)]
    BY <1>1, <1>2, ConcatProperties
  <1>4. Len(x \o y) = n - m
    BY <1>1, <1>2, <1>3
  <1>5. ASSUME NEW i \in 1 .. n - m PROVE (x \o y)[i] = whole[m + i]
    <2>1. CASE i <= k - m
      <3>1. i \in 1 .. k - m
        BY <2>1
      <3>. QED
        BY <1>1, <1>2, <1>3, <2>1, <3>1
    <2>2. CASE ~(i <= k - m)
      <3> DEFINE j == i - (k - m)
      <3>1. j \in 1 .. n - k /\ k + j = m + i
        BY <2>2
      <3>2. (x \o y)[i] = y[j]
        BY <1>1, <1>2, <1>3, <2>2
      <3> HIDE DEF j
      <3>. QED
        BY <1>2, <3>1, <3>2
    <2>. QED
      BY <2>1, <2>2
  <1>6. Part(x \o y, whole, m)
    BY <1>0, <1>4, <1>5 DEF Part
  <1>. QED
    BY <1>3, <1>4, <1>6 DEF x, y

LEMMA BytesArrive ==
  ASSUME FramingInv, Arrive
  PROVE  FramingInv'
  <1> DEFINE s == stream
             w == Reader(s)
             whole == Bytes(s)
  <1>1. PICK upTo \in arrived + 1 .. Len(s.sorts) :
          LET b == buffer \o SubSeq(Bytes(stream), arrived + 1, upTo)
              drained == Drain(stream, event, b, FALSE)
          IN /\ arrived' = upTo
             /\ event' = drained.event /\ units' = drained.event.units /\ buffer' = Rest(b, drained)
    BY DEF Arrive
  <1> DEFINE b == buffer \o SubSeq(whole, arrived + 1, upTo)
             d == Drain(s, event, b, FALSE)
  <1>2. stream' = s /\ arrived' = upTo /\ event' = d.event /\ units' = d.event.units /\ buffer' = Rest(b, d) /\ fate = "open"
        /\ fate' \in {"open", "failed"}
    BY <1>1 DEF Arrive
  <1>3. /\ s \in Streams /\ Framed(s) /\ Reads(w, s, FreshEvent, whole, TRUE) /\ whole \in Seq(Byte)
        /\ Len(whole) \in Nat /\ Len(s.sorts) = Len(whole) /\ arrived \in 0 .. Len(whole)
    BY StreamsAreFramed, ReaderReads, BytesAreTyped, LenProperties DEF FramingInv
  <1>4. PICK m \in Nat : Waiting(m)
    BY <1>2 DEF FramingInv
  <1>5. buffer = SubSeq(whole, m + 1, arrived) /\ At(w, event, m) /\ m <= arrived /\ arrived \in Nat
    BY <1>3, <1>4 DEF Waiting
  <1>6. upTo \in Nat /\ arrived <= upTo /\ upTo <= Len(whole) /\ upTo \in 0 .. Len(whole)
    BY <1>3
  <1>7. b \in Seq(Byte) /\ Len(b) = upTo - m /\ Part(b, whole, m)
    BY <1>3, <1>5, <1>6, ArrivalIsAPart
  <1>8. EndsTogether(b, whole, m, FALSE)
    BY DEF EndsTogether
  <1> HIDE DEF b, d, w, whole
  <1>9. m + Len(b) = upTo
    BY <1>6, <1>7
  <1>10. d = Drain(s, event, b, FALSE)
    BY DEF d
  <1>11. PICK t \in m .. m + Len(b) : At(w, d.event, t) /\ Rest(b, d) = SubSeq(whole, t + 1, m + Len(b))
    <2>1. Drained(s, b, whole, m, FALSE, event, w, d)
      BY <1>3, <1>5, <1>7, <1>8, <1>10 DEF Drained
    <2>2. AsTheWhole(b, whole, m, FALSE, w, d)
      BY <2>1, DrainAgrees
    <2>. QED
      BY <2>2 DEF AsTheWhole
  <1>12. t \in 0 .. upTo /\ t \in Nat /\ t \in 0 .. Len(whole)
    BY <1>6, <1>9
  <1>13. Waiting(t)'
    BY <1>2, <1>9, <1>11, <1>12 DEF Waiting, w, whole
  <1>14. w[t].event = d.event
    BY <1>11 DEF At
  <1>. QED
    BY <1>2, <1>3, <1>6, <1>12, <1>13, <1>14 DEF FramingInv, w, whole

LEMMA StreamEnds ==
  ASSUME FramingInv, EndOfStream
  PROVE  FramingInv'
  <1> DEFINE s == stream
             w == Reader(s)
             whole == Bytes(s)
             b == buffer
             d == Drain(s, event, b, TRUE)
             e == IF Rest(b, d) = <<>> THEN d.event ELSE Take(s, d.event, Rest(b, d))
  <1>2. /\ stream' = s /\ arrived' = arrived /\ event' = e /\ units' = e.units /\ fate = "open"
        /\ arrived = Len(s.sorts) /\ fate' = IF e.failed THEN "failed" ELSE "closed"
    BY DEF EndOfStream
  <1>3. /\ s \in Streams /\ Framed(s) /\ Reads(w, s, FreshEvent, whole, TRUE) /\ whole \in Seq(Byte)
        /\ Len(whole) \in Nat /\ Len(s.sorts) = Len(whole) /\ arrived \in 0 .. Len(whole)
    BY StreamsAreFramed, ReaderReads, BytesAreTyped, LenProperties DEF FramingInv
  <1>4. PICK m \in Nat : Waiting(m)
    BY <1>2 DEF FramingInv
  <1>5. buffer = SubSeq(whole, m + 1, arrived) /\ At(w, event, m) /\ m <= arrived /\ arrived \in Nat
    BY <1>3, <1>4 DEF Waiting
  <1>6. arrived = Len(whole)
    BY <1>2, <1>3
  <1>7. b \in Seq(Byte) /\ Len(b) = arrived - m /\ Part(b, whole, m)
    <2> DEFINE none == SubSeq(whole, arrived + 1, arrived)
               x == SubSeq(whole, m + 1, arrived)
    <2>1. x \o none \in Seq(Byte) /\ Len(x \o none) = arrived - m /\ Part(x \o none, whole, m)
      BY <1>3, <1>5, <1>6, ArrivalIsAPart
    <2>2. none = <<>>
      BY <1>3, <1>5, SubSeqProperties, EmptySeq
    <2>3. x \in Seq(Byte)
      <3>1. x \o <<>> \in Seq(Byte)
        BY <2>1, <2>2
      <3>2. m + 1 \in Nat /\ 1 <= m + 1 /\ arrived \in Nat /\ arrived <= Len(whole)
        BY <1>5, <1>6
      <3>. QED
        BY <1>3, <3>2, SubSeqProperties
    <2> HIDE DEF none, x
    <2>4. x \o none = x
      BY <2>2, <2>3, ConcatEmptySeq
    <2>. QED
      BY <1>5, <2>1, <2>4 DEF x
  <1>9. m + Len(b) = Len(whole)
    BY <1>5, <1>6, <1>7
  <1>8. EndsTogether(b, whole, m, TRUE)
    BY <1>9 DEF EndsTogether
  <1> HIDE DEF b, d, w, whole
  <1>10. d = Drain(s, event, b, TRUE)
    BY DEF d
  <1>11. w[Len(whole)].event = d.event /\ Rest(b, d) = SubSeq(whole, w[Len(whole)].from, Len(whole))
    <2>1. Drained(s, b, whole, m, TRUE, event, w, d)
      BY <1>3, <1>5, <1>7, <1>8, <1>10 DEF Drained
    <2>2. AsTheWhole(b, whole, m, TRUE, w, d)
      BY <2>1, DrainAgrees
    <2>. QED
      BY <2>2 DEF AsTheWhole
  <1>12. e = Final(s)
    BY <1>11 DEF Final, Finally, w, whole, Rest
  <1> HIDE DEF e
  <1>. QED
    BY <1>2, <1>3, <1>6, <1>12 DEF FramingInv, w, whole

LEMMA FramingGoesOn ==
  FramingInv /\ [FramingNext]_framingVars => FramingInv'
  <1> SUFFICES ASSUME FramingInv, [FramingNext]_framingVars PROVE FramingInv'
    OBVIOUS
  <1>1. CASE Arrive
    BY <1>1, BytesArrive
  <1>2. CASE EndOfStream
    BY <1>2, StreamEnds
  <1>3. CASE CutOff
    BY <1>3 DEF CutOff, FramingInv
  <1>4. CASE UNCHANGED framingVars
    BY <1>4 DEF framingVars, FramingInv, Waiting
  <1>. QED
    BY <1>1, <1>2, <1>3, <1>4 DEF FramingNext, FramingDone

(* Slices of the stream. *)
IsSlice(x, b, c, d) ==
  /\ c \in Nat /\ d \in Nat /\ 1 <= c /\ c <= d + 1 /\ d <= Len(b)
  /\ x \in Seq(Byte) /\ Len(x) = (d + 1) - c
  /\ \A i \in 1 .. Len(x) : x[i] = b[(c - 1) + i]

LEMMA SubSeqSlices ==
  ASSUME NEW b \in Seq(Byte), NEW c \in Nat, NEW d \in Nat, 1 <= c, c <= d + 1, d <= Len(b)
  PROVE  IsSlice(SubSeq(b, c, d), b, c, d)
  <1>1. /\ SubSeq(b, c, d) \in Seq(Byte) /\ Len(SubSeq(b, c, d)) = IF c <= d THEN d - c + 1 ELSE 0
        /\ \A i \in 1 .. Len(SubSeq(b, c, d)) : SubSeq(b, c, d)[i] = b[c + i - 1]
    BY SubSeqProperties, LenProperties
  <1> DEFINE x == SubSeq(b, c, d)
  <1> HIDE DEF x
  <1>2. Len(x) = (d + 1) - c
    BY <1>1 DEF x
  <1>3. \A i \in 1 .. Len(x) : c + i - 1 = (c - 1) + i
    BY <1>2
  <1>4. IsSlice(x, b, c, d)
    BY <1>1, <1>2, <1>3 DEF IsSlice, x
  <1>. QED
    BY <1>4 DEF x

LEMMA SliceEnds ==
  ASSUME NEW b \in Seq(Byte), NEW c, NEW d, NEW x, IsSlice(x, b, c, d)
  PROVE  /\ x = <<>> <=> ~(c <= d)
         /\ c <= d => x[1] = b[c] /\ x[Len(x)] = b[d] /\ Len(x) \in Nat \ {0}
  <1>1. x \in Seq(Byte) /\ Len(x) = (d + 1) - c /\ c \in Nat /\ d \in Nat /\ 1 <= c /\ c <= d + 1
    BY DEF IsSlice
  <1>2. x = <<>> <=> Len(x) = 0
    BY <1>1, EmptySeq
  <1>3. Len(x) = 0 <=> ~(c <= d)
    BY <1>1
  <1>4. ASSUME c <= d PROVE x[1] = b[c] /\ x[Len(x)] = b[d] /\ Len(x) \in Nat \ {0}
    <2>1. 1 \in 1 .. Len(x) /\ Len(x) \in 1 .. Len(x) /\ (c - 1) + 1 = c /\ (c - 1) + Len(x) = d
      BY <1>1, <1>4
    <2>2. x[1] = b[(c - 1) + 1] /\ x[Len(x)] = b[(c - 1) + Len(x)]
      BY <2>1 DEF IsSlice
    <2>. QED
      BY <2>1, <2>2
  <1>. QED
    BY <1>2, <1>3, <1>4

LEMMA FrontSlices ==
  ASSUME NEW b \in Seq(Byte), NEW c, NEW d, NEW x, IsSlice(x, b, c, d), c <= d
  PROVE  IsSlice(Front(x), b, c, d - 1)
  <1>1. /\ x \in Seq(Byte) /\ Len(x) = (d + 1) - c /\ c \in Nat /\ d \in Nat /\ 1 <= c /\ c <= d + 1 /\ d <= Len(b)
        /\ Len(b) \in Nat
    BY LenProperties DEF IsSlice
  <1>2. x # <<>>
    BY SliceEnds
  <1>3. /\ Front(x) \in Seq(Byte) /\ Len(Front(x)) = Len(x) - 1
        /\ \A i \in 1 .. Len(x) - 1 : Front(x)[i] = x[i]
    <2> DEFINE l == Len(x) - 1
    <2>1. Len(x) \in Nat /\ Len(x) # 0
      BY <1>1, <1>2, EmptySeq, LenProperties
    <2>5. l \in Nat /\ l <= Len(x)
      BY <2>1
    <2> HIDE DEF l
    <2>2. (IF 1 <= l THEN l - 1 + 1 ELSE 0) = l /\ \A i \in 1 .. l : 1 + i - 1 = i
      BY <2>5
    <2>3. SubSeq(x, 1, l) \in Seq(Byte) /\ Len(SubSeq(x, 1, l)) = l /\ \A i \in 1 .. l : SubSeq(x, 1, l)[i] = x[1 + i - 1]
      BY <1>1, <2>1, <2>2, <2>5, SubSeqProperties
    <2>4. Front(x) = SubSeq(x, 1, l)
      BY DEF Front, l
    <2>. QED
      BY <2>2, <2>3, <2>4, <2>5 DEF l
  <1> DEFINE y == Front(x)
  <1> HIDE DEF y
  <1>4. Len(y) = ((d - 1) + 1) - c /\ d - 1 \in Nat /\ c <= (d - 1) + 1 /\ d - 1 <= Len(b)
    BY <1>1, <1>3 DEF y
  <1>5. \A i \in 1 .. Len(y) : i \in 1 .. Len(x) /\ i \in 1 .. Len(x) - 1
    BY <1>1, <1>4
  <1>6. \A i \in 1 .. Len(y) : y[i] = b[(c - 1) + i]
    BY <1>3, <1>5 DEF y, IsSlice
  <1>7. IsSlice(y, b, c, d - 1)
    BY <1>1, <1>3, <1>4, <1>6 DEF IsSlice, y
  <1>. QED
    BY <1>7 DEF y

LEMMA TailSlices ==
  ASSUME NEW b \in Seq(Byte), NEW c, NEW d, NEW x, IsSlice(x, b, c, d), c <= d
  PROVE  IsSlice(Tail(x), b, c + 1, d)
  <1>1. /\ x \in Seq(Byte) /\ Len(x) = (d + 1) - c /\ c \in Nat /\ d \in Nat /\ 1 <= c /\ c <= d + 1 /\ d <= Len(b)
    BY DEF IsSlice
  <1>2. x # <<>>
    BY SliceEnds
  <1>3. /\ Tail(x) \in Seq(Byte) /\ Len(Tail(x)) = Len(x) - 1
        /\ \A i \in 1 .. Len(Tail(x)) : Tail(x)[i] = x[i + 1]
    BY <1>1, <1>2, HeadTailProperties
  <1> DEFINE y == Tail(x)
  <1> HIDE DEF y
  <1>4. Len(y) = (d + 1) - (c + 1) /\ c + 1 \in Nat /\ 1 <= c + 1 /\ c + 1 <= d + 1
    BY <1>1, <1>3 DEF y
  <1>5. \A i \in 1 .. Len(y) : i + 1 \in 1 .. Len(x) /\ (c - 1) + (i + 1) = ((c + 1) - 1) + i
    BY <1>1, <1>4
  <1>6. \A i \in 1 .. Len(y) : y[i] = b[((c + 1) - 1) + i]
    BY <1>3, <1>5 DEF y, IsSlice
  <1>7. IsSlice(y, b, c + 1, d)
    BY <1>1, <1>3, <1>4, <1>6 DEF IsSlice, y
  <1>. QED
    BY <1>7 DEF y

\* A slice, without the byte that ends it when it is of a sort.
LEMMA WithoutLastSlices ==
  ASSUME NEW b \in Seq(Byte), NEW c, NEW d, NEW x, IsSlice(x, b, c, d), NEW sort
  PROVE  \/ (c <= d => b[d].sort # sort) /\ IsSlice(WithoutLast(x, sort), b, c, d)
         \/ c <= d /\ b[d].sort = sort /\ IsSlice(WithoutLast(x, sort), b, c, d - 1)
  <1>1. CASE c <= d /\ b[d].sort = sort
    BY <1>1, SliceEnds, FrontSlices DEF WithoutLast, Is
  <1>2. CASE ~(c <= d)
    BY <1>2, SliceEnds DEF WithoutLast, Is
  <1>3. CASE c <= d /\ b[d].sort # sort
    BY <1>3, SliceEnds DEF WithoutLast, Is
  <1>. QED
    BY <1>1, <1>2, <1>3

(* JSON items. *)
LEMMA ItemHasItsValue ==
  ASSUME NEW s, Framed(s), NEW b, b = Bytes(s), NEW c, NEW d, NEW item, IsSlice(item, b, c, d), JSONItem(item)
  PROVE  /\ ValueAt(item) \in c .. d /\ b[ValueAt(item)].sort = "value"
         /\ \A q \in c .. d : q # ValueAt(item) => b[q].sort \in {"CR", "LF"}
  <1>0. b \in Seq(Byte) /\ Len(b) = Len(s.sorts) /\ \A p \in 1 .. Len(b) : b[p].at = p
    BY BytesAreTyped
  <1>1. /\ c \in Nat /\ d \in Nat /\ 1 <= c /\ c <= d + 1 /\ d <= Len(b)
        /\ item \in Seq(Byte) /\ Len(item) = (d + 1) - c /\ DOMAIN item = 1 .. Len(item) /\ Len(b) \in Nat
    BY <1>0, LenProperties DEF IsSlice
  <1>2. PICK v \in DOMAIN item : Is(item, v, "value") /\ \A p \in DOMAIN item \ {v} : item[p].sort \in {"CR", "LF"}
    BY DEF JSONItem
  <1>3. \A p \in DOMAIN item : Is(item, p, "value") => p = v
    BY <1>2 DEF Is
  <1>4. ValueAt(item) = item[v].at
    BY <1>2, <1>3 DEF ValueAt
  <1>5. (c - 1) + v \in 1 .. Len(b) /\ (c - 1) + v \in c .. d /\ v \in 1 .. Len(item)
    BY <1>1, <1>2
  <1>6. item[v] = b[(c - 1) + v]
    BY <1>5 DEF IsSlice
  <1>7. ValueAt(item) = (c - 1) + v /\ b[(c - 1) + v].sort = "value"
    BY <1>0, <1>2, <1>4, <1>5, <1>6 DEF Is
  <1>8. ASSUME NEW q \in c .. d, q # (c - 1) + v PROVE b[q].sort \in {"CR", "LF"}
    <2> DEFINE i == (q + 1) - c
    <2>1. i \in 1 .. Len(item) /\ (c - 1) + i = q /\ i # v
      BY <1>1, <1>5, <1>8
    <2> HIDE DEF i
    <2>2. item[i] = b[q] /\ item[i].sort \in {"CR", "LF"}
      BY <1>1, <1>2, <2>1 DEF IsSlice
    <2>. QED
      BY <2>2
  <1>. QED
    BY <1>5, <1>7, <1>8

JEvent == [data : {<<>>}, id : {<<>>}, bytes : Nat, units : Seq(Seq(Byte)), failed : BOOLEAN]
\* The items are the values before a place.
ValuesTo(b, us, f) ==
  /\ \A i, j \in 1 .. Len(us) : i < j => ValueAt(us[i]) < ValueAt(us[j])
  /\ \A i \in 1 .. Len(us) : ValueAt(us[i]) \in Values(b) /\ ValueAt(us[i]) < f
  /\ \A v \in Values(b) : v < f => \E i \in 1 .. Len(us) : ValueAt(us[i]) = v
NoJunk(b, f) == \A p \in 1 .. Len(b) : p < f => b[p].sort # "junk"
ItemsRead(b, e, f) ==
  /\ e \in JEvent /\ f \in Nat /\ 1 <= f
  /\ \E g \in Nat : ValuesTo(b, e.units, g)
  /\ ~e.failed => ValuesTo(b, e.units, f) /\ NoJunk(b, f)

\* A piece is an item, but for what ends or begins it.
Around(b, from, p, c, d) ==
  /\ from \in Nat /\ 1 <= from /\ from <= c /\ p \in Nat /\ d <= p /\ p <= Len(b)
  /\ \A q \in from .. p : q \notin c .. d => b[q].sort \in {"CR", "LF", "RS"}

LEMMA EmitReads ==
  ASSUME NEW s, Framed(s), NEW b, b = Bytes(s), NEW e, NEW from, ItemsRead(b, e, from),
         NEW item, NEW c, NEW d, IsSlice(item, b, c, d), NEW p, Around(b, from, p, c, d), NEW limit
  PROVE  ItemsRead(b, EmitItem(limit, e, item), p + 1)
  <1>0. b \in Seq(Byte) /\ \A q \in 1 .. Len(b) : b[q].at = q
    BY BytesAreTyped
  <1>1. /\ c \in Nat /\ d \in Nat /\ 1 <= c /\ c <= d + 1 /\ d <= p /\ item \in Seq(Byte) /\ Len(b) \in Nat
        /\ from \in Nat /\ 1 <= from /\ from <= c /\ p \in Nat /\ p <= Len(b) /\ DOMAIN b = 1 .. Len(b)
    BY <1>0, LenProperties DEF IsSlice, Around
  <1>2. e \in JEvent /\ e.units \in Seq(Seq(Byte)) /\ p + 1 \in Nat /\ 1 <= p + 1
    BY <1>1 DEF ItemsRead, JEvent
  <1> DEFINE e1 == EmitItem(limit, e, item)
             us == Append(e.units, item)
             n == Len(e.units)
             v == ValueAt(item)
  <1>3. CASE e.failed \/ Len(item) > limit \/ ~JSONItem(item)
    <2>1. e1 = [e EXCEPT !.failed = TRUE]
      BY <1>3 DEF EmitItem
    <2>2. e1 \in JEvent /\ e1.units = e.units /\ e1.failed = TRUE
      BY <1>2, <2>1 DEF JEvent
    <2> HIDE DEF e1
    <2>3. ItemsRead(b, e1, p + 1)
      BY <1>2, <2>2 DEF ItemsRead
    <2>. QED
      BY <2>3 DEF e1
  <1>4. CASE ~(e.failed \/ Len(item) > limit \/ ~JSONItem(item))
    <2>1. e1 = [e EXCEPT !.units = Append(@, item)]
      BY <1>4 DEF EmitItem
    <2>2. us \in Seq(Seq(Byte)) /\ Len(us) = n + 1 /\ us[n + 1] = item /\ \A i \in 1 .. n : us[i] = e.units[i]
      BY <1>1, <1>2, AppendProperties
    <2>3. n \in Nat
      BY <1>2, LenProperties
    <2>4. e1 \in JEvent /\ e1.units = us
      BY <1>2, <2>1, <2>2 DEF JEvent
    <2>5. ValuesTo(b, e.units, from) /\ NoJunk(b, from)
      BY <1>4 DEF ItemsRead
    <2>6. v \in c .. d /\ b[v].sort = "value" /\ \A q \in c .. d : q # v => b[q].sort \in {"CR", "LF"}
      BY <1>4, ItemHasItsValue
    <2> HIDE DEF e1, us, v, n
    <2>7. v \in from .. p /\ v \in 1 .. Len(b) /\ \A q \in from .. p : q # v => b[q].sort \in {"CR", "LF", "RS"}
      BY <1>1, <2>6 DEF Around
    <2>8. v \in Values(b) /\ v < p + 1
      BY <1>1, <2>6, <2>7 DEF Values, Is
    <2>9. \A u \in Values(b) : u < p + 1 => u < from \/ u = v
      BY <1>1, <2>7 DEF Values, Is
    <2>10. \A i \in 1 .. n : ValueAt(us[i]) \in Values(b) /\ ValueAt(us[i]) < from
      BY <2>2, <2>5 DEF ValuesTo, n
    <2>11. ValueAt(us[n + 1]) = v
      BY <2>2 DEF v
    <2>12. Values(b) \subseteq Nat
      BY <1>1 DEF Values
    <2>13. \A i \in 1 .. n : ValueAt(us[i]) < v /\ ValueAt(us[i]) < p + 1
      BY <1>1, <2>7, <2>10, <2>12
    <2>14. \A i \in 1 .. Len(us) : i \in 1 .. n \/ i = n + 1
      BY <2>2, <2>3
    <2>15. ASSUME NEW i \in 1 .. Len(us), NEW j \in 1 .. Len(us), i < j PROVE ValueAt(us[i]) < ValueAt(us[j])
      <3>1. i \in 1 .. n
        BY <2>2, <2>3, <2>15
      <3>2. CASE j = n + 1
        BY <2>11, <2>13, <3>1, <3>2
      <3>3. CASE j \in 1 .. n
        <4>1. ValueAt(e.units[i]) < ValueAt(e.units[j])
          BY <2>5, <2>15, <3>1, <3>3 DEF ValuesTo, n
        <4>. QED
          BY <2>2, <3>1, <3>3, <4>1
      <3>. QED
        BY <2>14, <3>2, <3>3
    <2>16. \A i \in 1 .. Len(us) : ValueAt(us[i]) \in Values(b) /\ ValueAt(us[i]) < p + 1
      BY <2>8, <2>10, <2>11, <2>13, <2>14
    <2>17. ASSUME NEW u \in Values(b), u < p + 1 PROVE \E i \in 1 .. Len(us) : ValueAt(us[i]) = u
      <3>1. CASE u = v
        <4>1. n + 1 \in 1 .. Len(us)
          BY <2>2, <2>3
        <4>. QED
          BY <2>11, <3>1, <4>1
      <3>2. CASE u < from
        <4>1. PICK i \in 1 .. n : ValueAt(e.units[i]) = u
          BY <2>5, <3>2 DEF ValuesTo, n
        <4>2. i \in 1 .. Len(us) /\ us[i] = e.units[i]
          BY <2>2, <2>3
        <4>. QED
          BY <4>1, <4>2
      <3>. QED
        BY <2>9, <2>17, <3>1, <3>2
    <2>18. ValuesTo(b, us, p + 1)
      BY <2>15, <2>16, <2>17 DEF ValuesTo
    <2>19. NoJunk(b, p + 1)
      <3>1. SUFFICES ASSUME NEW q \in 1 .. Len(b), q < p + 1 PROVE b[q].sort # "junk"
        BY DEF NoJunk
      <3>2. CASE q < from
        BY <2>5, <3>2 DEF NoJunk
      <3>3. CASE ~(q < from) /\ q # v
        <4>1. q \in from .. p
          BY <1>1, <3>1, <3>3
        <4>. QED
          BY <2>7, <3>3, <4>1
      <3>4. CASE q = v
        BY <2>6, <3>4
      <3>. QED
        BY <3>2, <3>3, <3>4
    <2>20. ItemsRead(b, e1, p + 1)
      BY <1>2, <2>4, <2>18, <2>19 DEF ItemsRead
    <2>. QED
      BY <2>20 DEF e1
  <1>. QED
    BY <1>3, <1>4

JSON(s) == Framed(s) /\ s.framing \in {"lines", "sequence"}

LEMMA TakeReads ==
  ASSUME NEW s, JSON(s), NEW b, b = Bytes(s), NEW e, NEW from, ItemsRead(b, e, from),
         NEW p \in Nat, from <= p, p <= Len(b)
  PROVE  ItemsRead(b, Take(s, e, SubSeq(b, from, p)), p + 1)
  <1> DEFINE piece == SubSeq(b, from, p)
  <1>0. Framed(s) /\ b \in Seq(Byte) /\ Len(b) \in Nat
    BY BytesAreTyped, LenProperties DEF JSON
  <1>1. from \in Nat /\ 1 <= from
    BY DEF ItemsRead
  <1>2. IsSlice(piece, b, from, p)
    <2>1. from <= p + 1
      BY <1>1
    <2>. QED
      BY <1>0, <1>1, <2>1, SubSeqSlices
  <1>3. piece[1] = b[from]
    BY <1>0, <1>2, SliceEnds
  <1> HIDE DEF piece
  <1> DEFINE Ended(x, c, d) == IsSlice(x, b, c, d) /\ Around(b, from, p, c, d)
  <1>4. ASSUME NEW x, NEW c, NEW d, Ended(x, c, d), NEW sort \in {"CR", "LF"}
        PROVE  \E t : Ended(WithoutLast(x, sort), c, t)
    <2>1. c \in Nat /\ d \in Nat /\ IsSlice(x, b, c, d) /\ Around(b, from, p, c, d)
      BY <1>4 DEF IsSlice
    <2>2. CASE IsSlice(WithoutLast(x, sort), b, c, d)
      BY <2>1, <2>2
    <2>3. CASE c <= d /\ b[d].sort = sort /\ IsSlice(WithoutLast(x, sort), b, c, d - 1)
      <3>1. \A q \in from .. p : q \notin c .. d - 1 => q \notin c .. d \/ q = d
        BY <1>1, <2>1
      <3>2. d - 1 <= p
        BY <2>1 DEF Around
      <3>3. b[d].sort \in {"CR", "LF", "RS"}
        BY <2>3
      <3>4. Around(b, from, p, c, d - 1)
        BY <2>1, <3>1, <3>2, <3>3 DEF Around
      <3>. QED
        BY <2>3, <3>4
    <2>. QED
      BY <1>0, <2>1, <2>2, <2>3, WithoutLastSlices
  <1>5. Ended(piece, from, p)
    BY <1>1, <1>2 DEF Around
  <1>6. ASSUME NEW x, NEW c, NEW d, Ended(x, c, d), NEW limit
        PROVE  ItemsRead(b, EmitItem(limit, e, x), p + 1)
    BY <1>0, <1>6, EmitReads
  <1>7. CASE s.framing = "lines"
    <2>1. PICK t : Ended(WithoutLast(piece, "LF"), from, t)
      BY <1>4, <1>5
    <2>2. PICK u : Ended(WithoutLast(WithoutLast(piece, "LF"), "CR"), from, u)
      BY <1>4, <2>1
    <2>3. Take(s, e, piece) = EmitItem(s.limit, e, WithoutLast(WithoutLast(piece, "LF"), "CR"))
      BY <1>7 DEF Take, JSONLine
    <2> HIDE DEF Ended
    <2>. QED
      BY <1>6, <2>2, <2>3 DEF piece
  <1>8. CASE s.framing = "sequence" /\ Is(piece, 1, "RS")
    <2>1. Ended(Tail(piece), from + 1, p)
      <3>1. IsSlice(Tail(piece), b, from + 1, p)
        BY <1>0, <1>2, TailSlices
      <3>2. \A q \in from .. p : q \notin from + 1 .. p => q = from
        BY <1>1
      <3>3. b[from].sort = "RS"
        BY <1>3, <1>8 DEF Is
      <3>. QED
        BY <1>1, <3>1, <3>2, <3>3 DEF Around
    <2>2. PICK t : Ended(WithoutLast(Tail(piece), "LF"), from + 1, t)
      BY <1>4, <2>1
    <2>3. PICK u : Ended(WithoutLast(WithoutLast(Tail(piece), "LF"), "CR"), from + 1, u)
      BY <1>4, <2>2
    <2>4. Take(s, e, piece) = EmitItem(s.limit, e, WithoutLast(WithoutLast(Tail(piece), "LF"), "CR"))
      BY <1>8 DEF Take, JSONRecord
    <2> HIDE DEF Ended
    <2>. QED
      BY <1>6, <2>3, <2>4 DEF piece
  <1>9. CASE s.framing = "sequence" /\ ~Is(piece, 1, "RS")
    <2>1. Take(s, e, piece) = [e EXCEPT !.failed = TRUE]
      BY <1>9 DEF Take, JSONRecord
    <2> DEFINE e1 == Take(s, e, piece)
    <2>2. e1 \in JEvent /\ e1.units = e.units /\ e1.failed = TRUE
      BY <2>1 DEF JEvent, ItemsRead
    <2> HIDE DEF e1
    <2>3. ItemsRead(b, e1, p + 1)
      BY <2>2 DEF ItemsRead
    <2>. QED
      BY <2>3 DEF e1, piece
  <1>. QED
    BY <1>7, <1>8, <1>9 DEF JSON

\* What every round keeps, the read keeps.
LEMMA ReadKeeps ==
  ASSUME NEW s, NEW e, NEW b \in Seq(Byte), NEW f, Reads(f, s, e, b, TRUE), NEW Kept,
         0 \in Kept,
         \A p \in 1 .. Len(b) : p - 1 \in Kept => p \in Kept
  PROVE  \A k \in 0 .. Len(b) : k \in Kept
  <1> DEFINE held == {k \in Nat : k <= Len(b) => k \in Kept}
  <1>1. Len(b) \in Nat
    BY LenProperties
  <1>2. 0 \in held
    OBVIOUS
  <1>3. ASSUME NEW k \in Nat, k \in held PROVE k + 1 \in held
    <2>1. SUFFICES ASSUME k + 1 <= Len(b) PROVE k + 1 \in Kept
      OBVIOUS
    <2>2. k \in Kept /\ k + 1 \in 1 .. Len(b) /\ (k + 1) - 1 = k
      BY <1>1, <1>3, <2>1
    <2>. QED
      BY <2>2
  <1>4. Nat \subseteq held
    <2> HIDE DEF held
    <2>. QED
      BY <1>2, <1>3, EveryNatural
  <1>. QED
    BY <1>1, <1>4

JSONAt(b, d) == ItemsRead(b, d.event, d.from)

LEMMA JSONReads ==
  ASSUME NEW s, JSON(s), NEW b, b = Bytes(s), NEW w, Reads(w, s, FreshEvent, b, TRUE)
  PROVE  \A k \in 0 .. Len(b) : JSONAt(b, w[k])
  <1>0. Framed(s) /\ b \in Seq(Byte) /\ Len(b) \in Nat
    BY BytesAreTyped, LenProperties DEF JSON
  <1> DEFINE Kept == {k \in 0 .. Len(b) : JSONAt(b, w[k])}
  <1>1. 0 \in Kept
    <2>1. w[0].event = FreshEvent /\ w[0].from = 1
      BY DEF Reads
    <2>2. FreshEvent \in JEvent /\ FreshEvent.units = <<>> /\ FreshEvent.failed = FALSE
      <3>1. <<>> \in Seq(Seq(Byte))
        OBVIOUS
      <3>. QED
        BY <3>1 DEF FreshEvent, JEvent
    <2>3. ValuesTo(b, <<>>, 1) /\ NoJunk(b, 1)
      BY <1>0 DEF ValuesTo, NoJunk, Values
    <2>. QED
      BY <1>0, <2>1, <2>2, <2>3 DEF JSONAt, ItemsRead
  <1>2. ASSUME NEW p \in 1 .. Len(b), p - 1 \in Kept PROVE p \in Kept
    <2>1. JSONAt(b, w[p - 1]) /\ p \in Nat /\ p <= Len(b) /\ p \in 0 .. Len(b) /\ p - 1 \in 0 .. Len(b)
      BY <1>0, <1>2
    <2>2. w[p] = ReadNext(s, w[p - 1], b, p, TRUE)
      BY DEF Reads
    <2> DEFINE d == w[p - 1]
    <2>3. d.from \in 1 .. (p - 1) + 1
      BY <1>0, <2>1, FromIsSettled DEF Settled
    <2>4. d.from <= p
      BY <2>1, <2>3
    <2>5. CASE p \in Complete(s, b, TRUE)
      <3> DEFINE e1 == Take(s, d.event, SubSeq(b, d.from, p))
      <3>1. ItemsRead(b, e1, p + 1)
        BY <2>1, <2>4, TakeReads DEF JSONAt
      <3>2. w[p] = [event |-> e1, from |-> p + 1]
        BY <2>2, <2>5 DEF ReadNext, TakeUpTo
      <3> HIDE DEF e1
      <3>3. JSONAt(b, w[p])
        BY <3>1, <3>2 DEF JSONAt
      <3>. QED
        BY <2>1, <3>3
    <2>6. CASE p \notin Complete(s, b, TRUE)
      BY <2>1, <2>2, <2>6 DEF ReadNext
    <2>. QED
      BY <2>5, <2>6
  <1> HIDE DEF Kept
  <1>3. \A k \in 0 .. Len(b) : k \in Kept
    BY <1>0, <1>1, <1>2, ReadKeeps
  <1>. QED
    BY <1>3 DEF Kept

LEMMA JSONEnds ==
  ASSUME NEW s, JSON(s), NEW b, b = Bytes(s)
  PROVE  ItemsRead(b, Final(s), Len(b) + 1)
  <1> DEFINE d == Reader(s)[Len(b)]
  <1>0. Framed(s) /\ b \in Seq(Byte) /\ Len(b) \in Nat /\ Reads(Reader(s), s, FreshEvent, b, TRUE)
    BY BytesAreTyped, LenProperties, ReaderReads DEF JSON
  <1>1. Len(b) \in 0 .. Len(b)
    BY <1>0
  <1>2. ItemsRead(b, d.event, d.from)
    BY <1>0, <1>1, JSONReads DEF JSONAt
  <1>3. d.from \in 1 .. Len(b) + 1
    BY <1>0, <1>1, FromIsSettled DEF Settled
  <1> HIDE DEF d
  <1>4. Rest(b, d) = SubSeq(b, d.from, Len(b))
    BY DEF Rest
  <1>5. d.from \in Nat /\ 1 <= d.from /\ d.from <= Len(b) + 1
    BY <1>0, <1>3
  <1>6. IsSlice(Rest(b, d), b, d.from, Len(b))
    BY <1>0, <1>4, <1>5, SubSeqSlices
  <1>7. Rest(b, d) = <<>> <=> ~(d.from <= Len(b))
    BY <1>0, <1>6, SliceEnds
  <1>8. CASE d.from <= Len(b)
    <2>1. Final(s) = Take(s, d.event, SubSeq(b, d.from, Len(b)))
      BY <1>4, <1>7, <1>8 DEF Final, Finally, d
    <2>2. ItemsRead(b, Take(s, d.event, SubSeq(b, d.from, Len(b))), Len(b) + 1)
      BY <1>0, <1>2, <1>8, TakeReads
    <2>. QED
      BY <2>1, <2>2
  <1>9. CASE ~(d.from <= Len(b))
    <2>1. Final(s) = d.event
      BY <1>7, <1>9 DEF Final, Finally, d
    <2>2. d.from = Len(b) + 1
      BY <1>0, <1>5, <1>9
    <2>. QED
      BY <1>2, <2>1, <2>2
  <1>. QED
    BY <1>8, <1>9

LEMMA ItemsAgree ==
  ASSUME FramingInv, JSON(stream)
  PROVE  ItemsAreTheValues(Bytes(stream))
  <1> DEFINE b == Bytes(stream)
  <1>0. b \in Seq(Byte) /\ Len(b) \in Nat /\ DOMAIN b = 1 .. Len(b) /\ Reads(Reader(stream), stream, FreshEvent, b, TRUE)
        /\ units = event.units
    BY BytesAreTyped, LenProperties, ReaderReads DEF JSON, FramingInv
  <1>1. \E f : ItemsRead(b, event, f)
    <2>1. CASE event = Final(stream)
      BY <2>1, JSONEnds
    <2>2. ASSUME NEW k \in 0 .. Len(b), event = Reader(stream)[k].event PROVE \E f : ItemsRead(b, event, f)
      <3>1. JSONAt(b, Reader(stream)[k])
        BY <1>0, JSONReads
      <3>. QED
        BY <2>2, <3>1 DEF JSONAt
    <2>. QED
      BY <2>1, <2>2 DEF FramingInv
  <1>2. event \in JEvent /\ \E g \in Nat : ValuesTo(b, event.units, g)
    BY <1>1 DEF ItemsRead
  <1>3. PICK g \in Nat : ValuesTo(b, units, g)
    BY <1>0, <1>2
  <1>4. units \in Seq(Seq(Byte)) /\ DOMAIN units = 1 .. Len(units)
    BY <1>0, <1>2, LenProperties DEF JEvent
  <1> HIDE DEF b
  <1>5. Values(b) \subseteq 1 .. Len(b)
    BY <1>0 DEF Values
  <1>6. ASSUME NEW k \in DOMAIN units, NEW v \in Values(b), v < ValueAt(units[k])
        PROVE  \E j \in DOMAIN units : ValueAt(units[j]) = v
    <2>1. v \in Nat /\ ValueAt(units[k]) \in Nat /\ ValueAt(units[k]) < g
      BY <1>0, <1>3, <1>4, <1>5 DEF ValuesTo
    <2>2. v < g
      BY <1>6, <2>1
    <2>. QED
      BY <1>3, <1>4, <2>2 DEF ValuesTo
  <1>7. ASSUME fate = "closed"
        PROVE  Values(b) = {ValueAt(units[k]) : k \in DOMAIN units} /\ \A p \in DOMAIN b : ~Is(b, p, "junk")
    <2>1. ItemsRead(b, event, Len(b) + 1) /\ ~event.failed
      BY <1>7, JSONEnds DEF FramingInv, b
    <2>2. ValuesTo(b, units, Len(b) + 1) /\ NoJunk(b, Len(b) + 1)
      BY <1>0, <2>1 DEF ItemsRead
    <2>3. \A p \in 1 .. Len(b) : p < Len(b) + 1
      BY <1>0
    <2>4. \A v \in Values(b) : \E k \in DOMAIN units : ValueAt(units[k]) = v
      BY <1>4, <1>5, <2>2, <2>3 DEF ValuesTo
    <2>5. \A k \in DOMAIN units : ValueAt(units[k]) \in Values(b)
      BY <1>4, <2>2 DEF ValuesTo
    <2>6. \A p \in DOMAIN b : ~Is(b, p, "junk")
      BY <1>0, <2>2, <2>3 DEF NoJunk, Is
    <2>. QED
      BY <2>4, <2>5, <2>6
  <1>8. \A j, k \in DOMAIN units : j < k => ValueAt(units[j]) < ValueAt(units[k])
    BY <1>3, <1>4 DEF ValuesTo
  <1>9. ItemsAreTheValues(b)
    BY <1>6, <1>7, <1>8 DEF ItemsAreTheValues
  <1>. QED
    BY <1>9 DEF b

(* Lines. *)
SSE(s) == Framed(s) /\ s.framing = "sse"

LEMMA BreaksAreLineEnds ==
  ASSUME NEW s, SSE(s), NEW b \in Seq(Byte)
  PROVE  Complete(s, b, TRUE) = Breaks(b)
  <1>1. DOMAIN b = 1 .. Len(b) /\ Len(b) \in Nat
    BY LenProperties
  <1>2. Complete(s, b, TRUE) = LineEnds(b, TRUE)
    BY DEF Complete, SSE
  <1>3. ASSUME NEW p \in 1 .. Len(b) PROVE p = Len(b) <=> ~(p < Len(b))
    <2> DEFINE l == Len(b)
    <2>1. l \in Nat /\ p \in 1 .. l
      BY <1>1
    <2> HIDE DEF l
    <2>2. (p = l => ~(p < l)) /\ (~(p < l) => p = l)
      BY <2>1
    <2>. QED
      BY <2>2 DEF l
  <1>. QED
    BY <1>1, <1>2, <1>3 DEF LineEnds, Breaks, Is

\* What the reader has left begins behind the last break.
BehindTheBreak(b, from, k) ==
  /\ from \in 1 .. k + 1
  /\ \A r \in Breaks(b) : r <= k => r < from
  /\ from = 1 \/ from - 1 \in Breaks(b)

LEMMA LinesBeginBehindBreaks ==
  ASSUME NEW s, SSE(s), NEW b, b = Bytes(s), NEW w, Reads(w, s, FreshEvent, b, TRUE)
  PROVE  \A k \in 0 .. Len(b) : BehindTheBreak(b, w[k].from, k)
  <1>0. Framed(s) /\ b \in Seq(Byte) /\ Len(b) \in Nat /\ Complete(s, b, TRUE) = Breaks(b)
    BY BytesAreTyped, LenProperties, BreaksAreLineEnds DEF SSE
  <1>1. Breaks(b) \subseteq 1 .. Len(b)
    BY <1>0, LenProperties DEF Breaks
  <1> DEFINE Kept == {k \in 0 .. Len(b) : BehindTheBreak(b, w[k].from, k)}
  <1>2. 0 \in Kept
    BY <1>0, <1>1 DEF BehindTheBreak, Reads
  <1>3. ASSUME NEW p \in 1 .. Len(b), p - 1 \in Kept PROVE p \in Kept
    <2>1. BehindTheBreak(b, w[p - 1].from, p - 1) /\ p \in Nat /\ p \in 0 .. Len(b) /\ (p - 1) + 1 = p
      BY <1>0, <1>3
    <2>2. w[p] = ReadNext(s, w[p - 1], b, p, TRUE)
      BY DEF Reads
    <2>3. \A r \in Breaks(b) : r \in Nat /\ (r <= p => r <= p - 1 \/ r = p)
      BY <1>1, <2>1
    <2>4. CASE p \in Breaks(b)
      <3>1. w[p].from = p + 1
        <4>1. w[p] = TakeUpTo(s, w[p - 1], b, p)
          BY <1>0, <2>2, <2>4 DEF ReadNext
        <4>. QED
          BY <4>1 DEF TakeUpTo
      <3>2. (p + 1) - 1 = p /\ p + 1 \in 1 .. p + 1 /\ \A r \in Breaks(b) : r <= p => r < p + 1
        BY <2>1, <2>3
      <3>3. BehindTheBreak(b, p + 1, p)
        BY <2>4, <3>2 DEF BehindTheBreak
      <3>. QED
        BY <2>1, <3>1, <3>3
    <2>5. CASE p \notin Breaks(b)
      <3>1. w[p] = w[p - 1]
        BY <1>0, <2>2, <2>5 DEF ReadNext
      <3> DEFINE from == w[p - 1].from
      <3>2. from \in 1 .. p /\ \A r \in Breaks(b) : r <= p - 1 => r < from
        BY <2>1 DEF BehindTheBreak
      <3>3. \A r \in Breaks(b) : r <= p => r < from
        BY <2>3, <2>5, <3>2
      <3>4. from \in 1 .. p + 1
        BY <2>1, <3>2
      <3>5. from = 1 \/ from - 1 \in Breaks(b)
        BY <2>1 DEF BehindTheBreak
      <3> HIDE DEF from
      <3>6. BehindTheBreak(b, from, p)
        BY <3>3, <3>4, <3>5 DEF BehindTheBreak
      <3>. QED
        BY <2>1, <3>1, <3>6 DEF from
    <2>. QED
      BY <2>4, <2>5
  <1> HIDE DEF Kept
  <1>4. \A k \in 0 .. Len(b) : k \in Kept
    BY <1>0, <1>2, <1>3, ReadKeeps
  <1>. QED
    BY <1>4 DEF Kept

\* A break, and where its line begins.
LineFrom(b, from, p) == p \in Breaks(b) /\ BehindTheBreak(b, from, p - 1)

LEMMA LineIsItsSlice ==
  ASSUME NEW b \in Seq(Byte), NEW p, NEW from, LineFrom(b, from, p)
  PROVE  \E l : IsSlice(Line(SubSeq(b, from, p)), b, from, l) /\ l < p /\ LineOf(b, p) = from .. l
  <1> DEFINE piece == SubSeq(b, from, p)
  <1>0. Len(b) \in Nat /\ DOMAIN b = 1 .. Len(b)
    BY LenProperties
  <1>1. p \in 1 .. Len(b) /\ p \in Breaks(b) /\ Breaks(b) \subseteq 1 .. Len(b)
    BY <1>0 DEF LineFrom, Breaks
  <1>2. from \in Nat /\ 1 <= from /\ from <= p
    BY <1>0, <1>1 DEF LineFrom, BehindTheBreak
  <1>3. \A r \in Breaks(b) : r < p => r < from
    <2>1. \A r \in Breaks(b) : r < p => r <= p - 1
      BY <1>1
    <2>. QED
      BY <2>1 DEF LineFrom, BehindTheBreak
  <1>4. from = 1 \/ (from - 1 \in Breaks(b) /\ from - 1 < p)
    BY <1>1, <1>2 DEF LineFrom, BehindTheBreak
  <1>5. IsSlice(piece, b, from, p)
    <2>1. p \in Nat /\ from <= p + 1 /\ p <= Len(b)
      BY <1>0, <1>1, <1>2
    <2>. QED
      BY <1>2, <2>1, SubSeqSlices
  <1>6. piece[Len(piece)] = b[p]
    BY <1>2, <1>5, SliceEnds
  <1> HIDE DEF piece
  <1>7. b[p].sort \in {"CR", "LF"} /\ \A q \in 1 .. Len(b) : b[q].sort = "LF" => q \in Breaks(b)
    BY <1>0, <1>1 DEF Breaks, Is
  <1>8. \A q \in 1 .. Len(b) : b[q].sort = "CR" /\ q \notin Breaks(b) => q < Len(b) /\ b[q + 1].sort = "LF"
    BY <1>0 DEF Breaks, Is
  <1>9. PICK l : /\ IsSlice(Line(piece), b, from, l) /\ l < p /\ l \in Nat
                 /\ \/ l = p - 1 /\ (b[p].sort = "LF" /\ from <= p - 1 => b[p - 1].sort # "CR")
                    \/ l = (p - 1) - 1 /\ b[p - 1].sort = "CR" /\ from <= p - 1
    <2>1. CASE b[p].sort = "LF"
      <3>1. IsSlice(Front(piece), b, from, p - 1) /\ Line(piece) = WithoutLast(Front(piece), "CR")
        BY <1>2, <1>5, <1>6, <2>1, FrontSlices DEF Line, Is
      <3>2. \/ (from <= p - 1 => b[p - 1].sort # "CR") /\ IsSlice(Line(piece), b, from, p - 1)
            \/ from <= p - 1 /\ b[p - 1].sort = "CR" /\ IsSlice(Line(piece), b, from, (p - 1) - 1)
        BY <3>1, WithoutLastSlices
      <3>3. p - 1 < p /\ (p - 1) - 1 < p
        BY <1>1
      <3>4. \A l : IsSlice(Line(piece), b, from, l) => l \in Nat
        BY DEF IsSlice
      <3>. QED
        BY <3>2, <3>3, <3>4
    <2>2. CASE b[p].sort # "LF"
      <3>1. b[p].sort = "CR" /\ Line(piece) = WithoutLast(piece, "CR")
        BY <1>6, <1>7, <2>2 DEF Line, Is
      <3>2. IsSlice(Line(piece), b, from, p - 1)
        BY <1>2, <1>5, <3>1, WithoutLastSlices
      <3>3. p - 1 < p /\ p - 1 \in Nat
        BY <1>1
      <3>. QED
        BY <2>2, <3>2, <3>3
    <2>. QED
      BY <2>1, <2>2
  <1>10. ASSUME NEW q \in from .. l PROVE q \in LineOf(b, p)
    <2>1. q \in Nat /\ q < p /\ from <= q /\ q <= l /\ q \in 1 .. Len(b) /\ q + 1 \in 1 .. Len(b)
      BY <1>0, <1>1, <1>2, <1>9
    <2>2. q \notin Breaks(b)
      BY <1>2, <1>3, <2>1
    <2>3. b[q].sort # "LF"
      BY <1>7, <2>1, <2>2
    <2>4. b[q].sort # "CR"
      <3>1. SUFFICES ASSUME b[q].sort = "CR" PROVE FALSE
        OBVIOUS
      <3>2. b[q + 1].sort = "LF"
        BY <1>8, <2>1, <2>2, <3>1
      <3>3. q + 1 \in Breaks(b)
        BY <1>7, <2>1, <3>2
      <3>4. q + 1 = p
        <4>1. ~(q + 1 < from)
          BY <1>2, <2>1
        <4>2. ~(q + 1 < p)
          BY <1>3, <3>3, <4>1
        <4>. QED
          BY <1>1, <2>1, <4>2
      <3>5. q = p - 1 /\ from <= p - 1 /\ l = p - 1
        BY <1>1, <1>9, <2>1, <3>4
      <3>. QED
        BY <1>1, <1>9, <3>1, <3>2, <3>4, <3>5
    <2>5. \A r \in Breaks(b) : r < p => r < q
      BY <1>1, <1>2, <1>3, <2>1
    <2>. QED
      BY <1>0, <2>1, <2>3, <2>4, <2>5 DEF LineOf
  <1>11. ASSUME NEW q \in LineOf(b, p) PROVE q \in from .. l
    <2>1. q \in 1 .. Len(b) /\ q < p /\ b[q].sort # "CR" /\ \A r \in Breaks(b) : r < p => r < q
      BY <1>0 DEF LineOf
    <2>2. from <= q
      <3>1. CASE from = 1
        BY <1>0, <2>1, <3>1
      <3>2. CASE from - 1 \in Breaks(b) /\ from - 1 < p
        <4>1. from - 1 < q
          BY <2>1, <3>2
        <4>. QED
          BY <1>2, <2>1, <4>1
      <3>. QED
        BY <1>4, <3>1, <3>2
    <2>3. q <= l
      <3>1. q <= p - 1
        BY <1>1, <2>1
      <3>2. CASE l = p - 1
        BY <3>1, <3>2
      <3>3. CASE l = (p - 1) - 1 /\ b[p - 1].sort = "CR"
        <4>1. q # p - 1
          BY <2>1, <3>3
        <4>. QED
          BY <1>1, <2>1, <3>1, <3>3, <4>1
      <3>. QED
        BY <1>9, <3>2, <3>3
    <2>. QED
      BY <1>2, <1>9, <2>1, <2>2, <2>3
  <1>12. LineOf(b, p) = from .. l
    BY <1>10, <1>11
  <1>. QED
    BY <1>9, <1>12 DEF piece

\* A line that ends at a break.
EndsAt(b, line, p) ==
  /\ p \in Breaks(b) /\ line \in Seq(Byte) /\ line # <<>>
  /\ line[1].at \in Nat /\ line[Len(line)].at \in Nat
  /\ line[1].at <= line[Len(line)].at /\ line[Len(line)].at < p
  /\ \A r \in Breaks(b) : r < p => r < line[1].at

\* What the grammar says of the line that ends at a break.
SaysOf(b, line, p) ==
  /\ line \in Seq(Byte)
  /\ line = <<>> <=> p \in BlankBreaks(b)
  /\ line # <<>> => EndsAt(b, line, p)
  /\ \A sort : StartsWith(b, p, sort) <=> line # <<>> /\ Is(line, 1, sort)

LEMMA LineIsSaid ==
  ASSUME NEW s, Framed(s), NEW b, b = Bytes(s), NEW p, NEW from, LineFrom(b, from, p)
  PROVE  SaysOf(b, Line(SubSeq(b, from, p)), p)
  <1> DEFINE line == Line(SubSeq(b, from, p))
  <1>0. b \in Seq(Byte) /\ Len(b) \in Nat /\ \A q \in 1 .. Len(b) : b[q].at = q
    BY BytesAreTyped, LenProperties
  <1>1. p \in Breaks(b) /\ Breaks(b) \subseteq 1 .. Len(b) /\ from \in 1 .. (p - 1) + 1
    BY <1>0, LenProperties DEF LineFrom, Breaks, BehindTheBreak
  <1>2. PICK l : IsSlice(line, b, from, l) /\ l < p /\ LineOf(b, p) = from .. l
    BY <1>0, LineIsItsSlice
  <1> HIDE DEF line
  <1>3. line \in Seq(Byte) /\ l \in Nat /\ l <= Len(b) /\ from \in Nat /\ 1 <= from
    BY <1>2 DEF IsSlice
  <1>4. (line = <<>> <=> ~(from <= l)) /\ (from <= l => line[1] = b[from] /\ line[Len(line)] = b[l])
    BY <1>0, <1>2, SliceEnds
  <1>5. LineOf(b, p) = {} <=> ~(from <= l)
    BY <1>2, <1>3
  <1>6. line = <<>> <=> p \in BlankBreaks(b)
    BY <1>1, <1>4, <1>5 DEF BlankBreaks
  <1>7. \A r \in Breaks(b) : r < p => r < from
    <2>1. \A r \in Breaks(b) : r < p => r <= p - 1
      BY <1>1
    <2>. QED
      BY <2>1 DEF LineFrom, BehindTheBreak
  <1>8. line # <<>> => EndsAt(b, line, p)
    <2>1. SUFFICES ASSUME from <= l PROVE EndsAt(b, line, p)
      BY <1>4
    <2>2. from \in 1 .. Len(b) /\ l \in 1 .. Len(b)
      BY <1>0, <1>3, <2>1
    <2>3. line[1].at = from /\ line[Len(line)].at = l
      BY <1>0, <1>4, <2>1, <2>2
    <2>. QED
      BY <1>1, <1>2, <1>3, <1>4, <1>7, <2>1, <2>3 DEF EndsAt
  <1>9. ASSUME NEW sort PROVE StartsWith(b, p, sort) <=> line # <<>> /\ Is(line, 1, sort)
    <2>1. CASE ~(from <= l)
      BY <1>4, <1>5, <2>1 DEF StartsWith
    <2>2. CASE from <= l
      <3>1. from \in LineOf(b, p) /\ \A r \in LineOf(b, p) : from <= r
        BY <1>2, <1>3, <2>2
      <3>2. \A q \in LineOf(b, p) : (\A r \in LineOf(b, p) : q <= r) => q = from
        BY <1>2, <1>3, <3>1
      <3>. QED
        BY <1>4, <2>2, <3>1, <3>2 DEF StartsWith, Is
    <2>. QED
      BY <2>1, <2>2
  <1>10. SaysOf(b, line, p)
    BY <1>3, <1>6, <1>8, <1>9 DEF SaysOf
  <1>. QED
    BY <1>10 DEF line

LEMMA BreakIsFound ==
  ASSUME NEW b \in Seq(Byte), NEW line, NEW p, EndsAt(b, line, p)
  PROVE  BreakAfter(b, line) = p
  <1> DEFINE z == line[Len(line)].at
             a == line[1].at
             First(q) == z < q /\ \A r \in Breaks(b) : z < r => q <= r
  <1>0. Breaks(b) \subseteq Nat
    BY LenProperties DEF Breaks
  <1>1. p \in Breaks(b) /\ z \in Nat /\ a \in Nat /\ a <= z /\ z < p /\ \A r \in Breaks(b) : r < p => r < a
    BY DEF EndsAt
  <1>2. BreakAfter(b, line) = CHOOSE q \in Breaks(b) : First(q)
    BY DEF BreakAfter
  <1> HIDE DEF z, a
  <1>3. First(p)
    <2>1. ASSUME NEW r \in Breaks(b), z < r PROVE p <= r
      <3>1. ~(r < a)
        BY <1>0, <1>1, <2>1
      <3>. QED
        BY <1>0, <1>1, <3>1
    <2>. QED
      BY <1>1, <2>1
  <1>4. \A q \in Breaks(b) : First(q) => q = p
    BY <1>0, <1>1, <1>3
  <1> HIDE DEF First
  <1>. QED
    BY <1>1, <1>2, <1>3, <1>4

(* Events. *)
Lines == Seq(Seq(Byte))
SEvent == [data : Lines, id : Seq(Byte), bytes : Nat, units : Seq([data : Lines, id : Seq(Byte)]), failed : BOOLEAN]

\* An event's data and its identifier are the grammar's, before a place.
HasData(b, data, p) ==
  /\ data \in Lines
  /\ \A i \in 1 .. Len(data) : \E q \in DataBefore(b, p) : EndsAt(b, data[i], q)
  /\ \A q \in DataBefore(b, p) : \E i \in 1 .. Len(data) : EndsAt(b, data[i], q)
  /\ \A i, j \in 1 .. Len(data) : i < j => data[i][1].at < data[j][1].at
HasId(b, id, p) ==
  /\ id \in Seq(Byte)
  /\ IF id = <<>> THEN LastId(b, p) = {} ELSE \E q \in Breaks(b) : EndsAt(b, id, q) /\ LastId(b, p) = {q}
Dispatches(b, u, p) == p \in BlankBreaks(b) /\ HasData(b, u.data, p) /\ HasId(b, u.id, p) /\ u.data # <<>>

UnitsSaid(b, us, p) ==
  /\ \A i \in 1 .. Len(us) : \E q \in BlankBreaks(b) : q < p /\ Dispatches(b, us[i], q)
  /\ \A i, j \in 1 .. Len(us) : i < j => AllBefore(us[i].data, us[j].data)
AllSaid(b, us, p) ==
  \A q \in BlankBreaks(b) : q < p /\ DataBefore(b, q) # {} => \E i \in 1 .. Len(us) : Dispatches(b, us[i], q)
EventsSaid(b, e, p) == e.units \in Seq([data : Lines, id : Seq(Byte)]) /\ UnitsSaid(b, e.units, p) /\ (e.failed \/ AllSaid(b, e.units, p))
Pending(b, e, p) == HasData(b, e.data, p) /\ HasId(b, e.id, p)
EventsRead(b, e, p) == e \in SEvent /\ EventsSaid(b, e, p) /\ (e.failed \/ Pending(b, e, p))

LEMMA BreaksAreNaturals ==
  ASSUME NEW b \in Seq(Byte)
  PROVE  Breaks(b) \subseteq Nat \ {0} /\ Breaks(b) \subseteq 1 .. Len(b) /\ BlankBreaks(b) \subseteq Breaks(b)
  BY LenProperties DEF Breaks, BlankBreaks

\* The next byte is not at a blank line's end.
LEMMA DataGoesOn ==
  ASSUME NEW b \in Seq(Byte), NEW p \in Nat, p \notin BlankBreaks(b)
  PROVE  /\ p \in Breaks(b) /\ StartsWith(b, p, "data") => DataBefore(b, p + 1) = DataBefore(b, p) \cup {p}
         /\ ~(p \in Breaks(b) /\ StartsWith(b, p, "data")) => DataBefore(b, p + 1) = DataBefore(b, p)
  <1>1. Breaks(b) \subseteq Nat /\ BlankBreaks(b) \subseteq Breaks(b)
    BY BreaksAreNaturals
  <1>2. \A q \in Breaks(b) : q < p + 1 <=> q < p \/ q = p
    BY <1>1
  <1>3. \A q : (\A r \in BlankBreaks(b) : r < p + 1 => r < q) <=> (\A r \in BlankBreaks(b) : r < p => r < q)
    BY <1>1, <1>2
  <1>4. \A q \in Breaks(b) : q \in DataBefore(b, p + 1) <=> q \in DataBefore(b, p) \/ (q = p /\ StartsWith(b, p, "data"))
    <2>1. SUFFICES ASSUME NEW q \in Breaks(b)
                   PROVE  q \in DataBefore(b, p + 1) <=> q \in DataBefore(b, p) \/ (q = p /\ StartsWith(b, p, "data"))
      OBVIOUS
    <2>2. CASE q = p
      <3>1. ~(p < p)
        OBVIOUS
      <3>. QED
        BY <1>2, <1>3, <2>1, <2>2, <3>1 DEF DataBefore
    <2>3. CASE q # p
      BY <1>2, <1>3, <2>1, <2>3 DEF DataBefore
    <2>. QED
      BY <2>2, <2>3
  <1>5. DataBefore(b, p + 1) \subseteq Breaks(b) /\ DataBefore(b, p) \subseteq Breaks(b)
    BY DEF DataBefore
  <1>. QED
    BY <1>4, <1>5

LEMMA BlankEndsData ==
  ASSUME NEW b \in Seq(Byte), NEW p \in BlankBreaks(b)
  PROVE  DataBefore(b, p + 1) = {}
  <1>1. p \in Nat /\ Breaks(b) \subseteq Nat
    BY BreaksAreNaturals
  <1>2. \A q \in DataBefore(b, p + 1) : q \in Nat /\ q < p + 1 /\ p < q
    <2>1. p < p + 1
      BY <1>1
    <2>. QED
      BY <1>1, <2>1 DEF DataBefore
  <1>3. \A q \in Nat : ~(q < p + 1 /\ p < q)
    BY <1>1
  <1>. QED
    BY <1>2, <1>3

LEMMA IdGoesOn ==
  ASSUME NEW b \in Seq(Byte), NEW p \in Nat
  PROVE  /\ p \in Breaks(b) /\ StartsWith(b, p, "id") => LastId(b, p + 1) = {p}
         /\ ~(p \in Breaks(b) /\ StartsWith(b, p, "id")) => LastId(b, p + 1) = LastId(b, p)
  <1>1. Breaks(b) \subseteq Nat
    BY BreaksAreNaturals
  <1>2. \A q \in Breaks(b) : (q < p + 1 <=> q < p \/ q = p) /\ q \in Nat
    BY <1>1
  <1>3. ASSUME p \in Breaks(b), StartsWith(b, p, "id") PROVE LastId(b, p + 1) = {p}
    <2>1. ASSUME NEW q \in LastId(b, p + 1) PROVE q = p
      <3>1. q \in Breaks(b) /\ q < p + 1 /\ ~\E r \in Breaks(b) : q < r /\ r < p + 1 /\ StartsWith(b, r, "id")
        BY DEF LastId
      <3>2. p < p + 1
        OBVIOUS
      <3>3. ~(q < p)
        BY <1>3, <3>1, <3>2
      <3>. QED
        BY <1>2, <3>1, <3>3
    <2>2. p \in LastId(b, p + 1)
      <3>1. \A r \in Breaks(b) : ~(p < r /\ r < p + 1)
        BY <1>1
      <3>2. p < p + 1
        OBVIOUS
      <3>. QED
        BY <1>3, <3>1, <3>2 DEF LastId
    <2>. QED
      BY <2>1, <2>2
  <1>4. ASSUME ~(p \in Breaks(b) /\ StartsWith(b, p, "id")) PROVE LastId(b, p + 1) = LastId(b, p)
    <2>1. \A q \in Breaks(b) : StartsWith(b, q, "id") => (q < p + 1 <=> q < p)
      BY <1>2, <1>4
    <2>. QED
      BY <2>1 DEF LastId
  <1>. QED
    BY <1>3, <1>4

\* Lines that end at different breaks are in their order.
LEMMA LinesInOrder ==
  ASSUME NEW b \in Seq(Byte), NEW x, NEW y, NEW p, NEW q, EndsAt(b, x, p), EndsAt(b, y, q), p < q
  PROVE  x[1].at < y[1].at
  <1>1. p \in Nat /\ x[1].at \in Nat /\ x[Len(x)].at \in Nat /\ y[1].at \in Nat
    BY BreaksAreNaturals DEF EndsAt
  <1>2. x[1].at <= x[Len(x)].at /\ x[Len(x)].at < p /\ p < y[1].at
    BY DEF EndsAt
  <1>. QED
    BY <1>1, <1>2

\* A unit's data is the event's: it is none when the grammar has none.
LEMMA NoDataIsNone ==
  ASSUME NEW b \in Seq(Byte), NEW data, NEW p, HasData(b, data, p)
  PROVE  data = <<>> <=> DataBefore(b, p) = {}
  <1>1. data \in Lines /\ Len(data) \in Nat /\ (data = <<>> <=> Len(data) = 0)
    BY LenProperties, EmptySeq DEF HasData, Lines
  <1>2. CASE data = <<>>
    BY <1>1, <1>2 DEF HasData
  <1>3. CASE data # <<>>
    <2>1. 1 \in 1 .. Len(data)
      BY <1>1, <1>3
    <2>. QED
      BY <1>3, <2>1 DEF HasData
  <1>. QED
    BY <1>2, <1>3

\* A unit stays said.
LEMMA UnitsStaySaid ==
  ASSUME NEW b \in Seq(Byte), NEW us, NEW p \in Nat, UnitsSaid(b, us, p)
  PROVE  UnitsSaid(b, us, p + 1)
  <1>1. \A q \in BlankBreaks(b) : q < p => q < p + 1
    BY BreaksAreNaturals
  <1>. QED
    BY <1>1 DEF UnitsSaid

LEMMA AllStaysSaid ==
  ASSUME NEW b \in Seq(Byte), NEW us, NEW p \in Nat, AllSaid(b, us, p), p \notin BlankBreaks(b) \/ DataBefore(b, p) = {}
  PROVE  AllSaid(b, us, p + 1)
  <1>1. \A q \in BlankBreaks(b) : q < p + 1 => q < p \/ q = p
    BY BreaksAreNaturals
  <1>. QED
    BY <1>1 DEF AllSaid

LEMMA DataStays ==
  ASSUME NEW b, NEW data, NEW p, NEW q, HasData(b, data, p), DataBefore(b, q) = DataBefore(b, p)
  PROVE  HasData(b, data, q)
  BY DEF HasData

LEMMA IdStays ==
  ASSUME NEW b, NEW id, NEW p, NEW q, HasId(b, id, p), LastId(b, q) = LastId(b, p)
  PROVE  HasId(b, id, q)
  BY DEF HasId

LEMMA DataGrows ==
  ASSUME NEW b \in Seq(Byte), NEW data, NEW p, HasData(b, data, p), NEW line, EndsAt(b, line, p),
         NEW n, DataBefore(b, n) = DataBefore(b, p) \cup {p}
  PROVE  HasData(b, Append(data, line), n)
  <1> DEFINE new == Append(data, line)
             l == Len(data)
  <1>1. data \in Lines /\ line \in Seq(Byte) /\ l \in Nat
    BY LenProperties DEF HasData, EndsAt, Lines
  <1>2. new \in Lines /\ Len(new) = l + 1 /\ new[l + 1] = line /\ \A i \in 1 .. l : new[i] = data[i]
    BY <1>1, AppendProperties DEF Lines
  <1> HIDE DEF new, l
  <1>3. \A i \in 1 .. Len(new) : i \in 1 .. l \/ i = l + 1
    BY <1>1, <1>2
  <1>4. \A i \in 1 .. l : i \in 1 .. Len(new)
    BY <1>1, <1>2
  <1>5. l + 1 \in 1 .. Len(new)
    BY <1>1, <1>2
  <1>6. \A q \in DataBefore(b, p) : q < p
    BY DEF DataBefore
  <1>7. \A i \in 1 .. l : \E q \in DataBefore(b, p) : EndsAt(b, data[i], q)
    BY DEF HasData, l
  <1>8. \A i \in 1 .. Len(new) : \E q \in DataBefore(b, n) : EndsAt(b, new[i], q)
    BY <1>2, <1>3, <1>7
  <1>9. ASSUME NEW q \in DataBefore(b, n) PROVE \E i \in 1 .. Len(new) : EndsAt(b, new[i], q)
    <2>1. CASE q = p
      BY <1>2, <1>5, <2>1
    <2>2. CASE q \in DataBefore(b, p)
      <3>1. PICK i \in 1 .. l : EndsAt(b, data[i], q)
        BY <2>2 DEF HasData, l
      <3>. QED
        BY <1>2, <1>4, <3>1
    <2>. QED
      BY <1>9, <2>1, <2>2
  <1>10. ASSUME NEW i \in 1 .. Len(new), NEW j \in 1 .. Len(new), i < j PROVE new[i][1].at < new[j][1].at
    <2>1. i \in 1 .. l
      BY <1>1, <1>2, <1>10
    <2>2. CASE j \in 1 .. l
      <3>1. data[i][1].at < data[j][1].at
        BY <1>10, <2>1, <2>2 DEF HasData, l
      <3>. QED
        BY <1>2, <2>1, <2>2, <3>1
    <2>3. CASE j = l + 1
      <3>1. PICK q \in DataBefore(b, p) : EndsAt(b, data[i], q)
        BY <1>7, <2>1
      <3>2. data[i][1].at < line[1].at
        BY <1>6, <3>1, LinesInOrder
      <3>. QED
        BY <1>2, <2>1, <2>3, <3>2
    <2>. QED
      BY <1>3, <2>2, <2>3
  <1>11. HasData(b, new, n)
    BY <1>2, <1>8, <1>9, <1>10 DEF HasData
  <1>. QED
    BY <1>11 DEF new

\* Units that are dispatched at different blank lines are in their order.
LEMMA UnitsInOrder ==
  ASSUME NEW b \in Seq(Byte), NEW u, NEW v, NEW p, NEW q, Dispatches(b, u, p), Dispatches(b, v, q), p < q
  PROVE  AllBefore(u.data, v.data)
  <1>1. u.data \in Lines /\ v.data \in Lines /\ DOMAIN u.data = 1 .. Len(u.data) /\ DOMAIN v.data = 1 .. Len(v.data)
    BY LenProperties DEF Dispatches, HasData, Lines
  <1>2. ASSUME NEW i \in 1 .. Len(u.data), NEW j \in 1 .. Len(v.data) PROVE u.data[i][1].at < v.data[j][1].at
    <2>1. PICK x \in DataBefore(b, p) : EndsAt(b, u.data[i], x)
      BY DEF Dispatches, HasData
    <2>2. PICK y \in DataBefore(b, q) : EndsAt(b, v.data[j], y)
      BY DEF Dispatches, HasData
    <2>3. p \in BlankBreaks(b)
      BY DEF Dispatches
    <2>4. x < p /\ p < y /\ x \in Nat /\ y \in Nat /\ p \in Nat
      BY <2>3, BreaksAreNaturals DEF DataBefore
    <2>5. x < y
      BY <2>4
    <2>. QED
      BY <2>1, <2>2, <2>5, LinesInOrder
  <1>. QED
    BY <1>1, <1>2 DEF AllBefore

LEMMA UnitIsDispatched ==
  ASSUME NEW b \in Seq(Byte), NEW us \in Seq([data : Lines, id : Seq(Byte)]), NEW p, UnitsSaid(b, us, p), AllSaid(b, us, p), p \in Nat,
         NEW u \in [data : Lines, id : Seq(Byte)], Dispatches(b, u, p)
  PROVE  UnitsSaid(b, Append(us, u), p + 1) /\ AllSaid(b, Append(us, u), p + 1)
  <1> DEFINE new == Append(us, u)
             l == Len(us)
  <1>1. l \in Nat /\ p \in BlankBreaks(b)
    BY LenProperties DEF Dispatches
  <1>2. Len(new) = l + 1 /\ new[l + 1] = u /\ \A i \in 1 .. l : new[i] = us[i]
    BY <1>1, AppendProperties
  <1>0. /\ \A i \in 1 .. l : \E q \in BlankBreaks(b) : q < p /\ Dispatches(b, us[i], q)
        /\ \A i, j \in 1 .. l : i < j => AllBefore(us[i].data, us[j].data)
        /\ \A q \in BlankBreaks(b) : q < p /\ DataBefore(b, q) # {} => \E i \in 1 .. l : Dispatches(b, us[i], q)
    BY DEF UnitsSaid, AllSaid
  <1> HIDE DEF new, l
  <1>3. \A i \in 1 .. Len(new) : i \in 1 .. l \/ i = l + 1
    BY <1>1, <1>2
  <1>4. (\A i \in 1 .. l : i \in 1 .. Len(new)) /\ l + 1 \in 1 .. Len(new)
    BY <1>1, <1>2
  <1>5. p < p + 1 /\ \A q \in BlankBreaks(b) : (q < p => q < p + 1) /\ (q < p + 1 => q < p \/ q = p)
    BY BreaksAreNaturals
  <1>6. ASSUME NEW i \in 1 .. Len(new) PROVE \E q \in BlankBreaks(b) : q < p + 1 /\ Dispatches(b, new[i], q)
    BY <1>0, <1>1, <1>2, <1>3, <1>5
  <1>7. ASSUME NEW i \in 1 .. Len(new), NEW j \in 1 .. Len(new), i < j PROVE AllBefore(new[i].data, new[j].data)
    <2>1. i \in 1 .. l
      BY <1>1, <1>2, <1>7
    <2>2. CASE j \in 1 .. l
      BY <1>0, <1>2, <1>7, <2>1, <2>2
    <2>3. CASE j = l + 1
      <3>1. PICK q \in BlankBreaks(b) : q < p /\ Dispatches(b, us[i], q)
        BY <1>0, <2>1
      <3>2. AllBefore(us[i].data, u.data)
        BY <3>1, UnitsInOrder
      <3>. QED
        BY <1>2, <2>1, <2>3, <3>2
    <2>. QED
      BY <1>3, <2>2, <2>3
  <1>8. ASSUME NEW q \in BlankBreaks(b), q < p + 1, DataBefore(b, q) # {} PROVE \E i \in 1 .. Len(new) : Dispatches(b, new[i], q)
    <2>1. CASE q = p
      BY <1>2, <1>4, <2>1
    <2>2. CASE q < p
      <3>1. PICK i \in 1 .. l : Dispatches(b, us[i], q)
        BY <1>0, <1>8, <2>2
      <3>. QED
        BY <1>2, <1>4, <3>1
    <2>. QED
      BY <1>5, <1>8, <2>1, <2>2
  <1>9. UnitsSaid(b, new, p + 1) /\ AllSaid(b, new, p + 1)
    BY <1>6, <1>7, <1>8 DEF UnitsSaid, AllSaid
  <1>. QED
    BY <1>9 DEF new

LEMMA CountedIsAnEvent ==
  ASSUME NEW e \in SEvent, NEW n \in Nat, NEW c, c = [e EXCEPT !.bytes = @ + n + 1]
  PROVE  c \in SEvent /\ c.data = e.data /\ c.id = e.id /\ c.units = e.units /\ c.failed = e.failed
  <1>1. e.bytes + n + 1 \in Nat
    BY DEF SEvent
  <1>. QED
    BY <1>1 DEF SEvent

\* One line more.
LEMMA LineIsRead ==
  ASSUME NEW b \in Seq(Byte), NEW p, p \in Breaks(b), NEW e, EventsRead(b, e, p), NEW line, SaysOf(b, line, p), NEW limit
  PROVE  EventsRead(b, ProcessLine(limit, e, line), p + 1)
  <1> DEFINE counted == [e EXCEPT !.bytes = @ + Len(line) + 1]
             e1 == ProcessLine(limit, e, line)
  <1>0. p \in Nat /\ e \in SEvent /\ line \in Seq(Byte) /\ Len(line) \in Nat
    BY BreaksAreNaturals, LenProperties DEF EventsRead, SaysOf
  <1>1. counted \in SEvent /\ counted.data = e.data /\ counted.id = e.id /\ counted.units = e.units /\ counted.failed = e.failed
    BY <1>0, CountedIsAnEvent
  <1>2. /\ e.units \in Seq([data : Lines, id : Seq(Byte)]) /\ UnitsSaid(b, e.units, p)
        /\ UnitsSaid(b, e.units, p + 1)
    BY <1>0, UnitsStaySaid DEF EventsRead, EventsSaid
  <1>3. ASSUME NEW x \in SEvent, x.failed = TRUE, x.units = e.units PROVE EventsRead(b, x, p + 1)
    BY <1>2, <1>3 DEF EventsRead, EventsSaid
  <1>4. CASE e.failed
    <2>1. e1 = e /\ e.failed = TRUE
      BY <1>0, <1>4 DEF ProcessLine, SEvent
    <2>. QED
      BY <1>0, <1>3, <2>1
  <1>5. CASE ~e.failed /\ counted.bytes > limit
    <2>1. e1 = [e EXCEPT !.failed = TRUE]
      BY <1>5 DEF ProcessLine
    <2>2. e1 \in SEvent /\ e1.failed = TRUE /\ e1.units = e.units
      BY <1>0, <2>1 DEF SEvent
    <2>. QED
      BY <1>3, <2>2
  <1> DEFINE Within1 == ~e.failed /\ ~(counted.bytes > limit)
  <1>6. ASSUME Within1 PROVE AllSaid(b, e.units, p) /\ HasData(b, e.data, p) /\ HasId(b, e.id, p)
    BY <1>6 DEF EventsRead, EventsSaid, Pending
  <1>7. CASE Within1 /\ line = <<>>
    <2>1. e1 = Dispatched(counted)
      BY <1>7 DEF ProcessLine
    <2>2. p \in BlankBreaks(b)
      BY <1>7 DEF SaysOf
    <2> DEFINE us == IF e.data = <<>> THEN e.units ELSE Append(e.units, [data |-> e.data, id |-> e.id])
    <2>3. us \in Seq([data : Lines, id : Seq(Byte)])
      <3>1. [data |-> e.data, id |-> e.id] \in [data : Lines, id : Seq(Byte)]
        BY <1>0 DEF SEvent
      <3>. QED
        BY <1>2, <3>1, AppendProperties
    <2>4. /\ e1.data = <<>> /\ e1.id = e.id /\ e1.units = us /\ e1.failed = e.failed /\ e1 \in SEvent
      <3>1. <<>> \in Lines
        BY DEF Lines
      <3> HIDE DEF counted
      <3>2. e1 = [counted EXCEPT !.data = <<>>, !.bytes = 0, !.units = us]
        BY <1>1, <2>1 DEF Dispatched, SEvent
      <3> HIDE DEF us, e1
      <3>. QED
        BY <1>1, <2>3, <3>1, <3>2 DEF SEvent
    <2>5. HasData(b, <<>>, p + 1)
      <3>1. DataBefore(b, p + 1) = {}
        BY <2>2, BlankEndsData
      <3>. QED
        BY <3>1 DEF HasData, Lines
    <2>6. HasId(b, e.id, p + 1)
      <3>1. ~StartsWith(b, p, "id")
        BY <1>7 DEF SaysOf
      <3>2. LastId(b, p + 1) = LastId(b, p)
        BY <1>0, <3>1, IdGoesOn
      <3>. QED
        BY <1>6, <1>7, <3>2, IdStays
    <2>7. UnitsSaid(b, us, p + 1) /\ AllSaid(b, us, p + 1)
      <3>1. CASE e.data = <<>>
        <4>1. DataBefore(b, p) = {}
          BY <1>6, <1>7, <3>1, NoDataIsNone
        <4>. QED
          BY <1>0, <1>2, <1>6, <1>7, <3>1, <4>1, AllStaysSaid
      <3>2. CASE e.data # <<>>
        <4> DEFINE u == [data |-> e.data, id |-> e.id]
        <4>1. u \in [data : Lines, id : Seq(Byte)]
          BY <1>0 DEF SEvent
        <4>2. Dispatches(b, u, p)
          BY <1>6, <1>7, <2>2, <3>2 DEF Dispatches
        <4> HIDE DEF u
        <4>3. UnitsSaid(b, Append(e.units, u), p + 1) /\ AllSaid(b, Append(e.units, u), p + 1)
          BY <1>0, <1>2, <1>6, <1>7, <4>1, <4>2, UnitIsDispatched
        <4>. QED
          BY <3>2, <4>3 DEF u
      <3>. QED
        BY <3>1, <3>2
    <2> HIDE DEF us, e1
    <2>8. EventsRead(b, e1, p + 1)
      BY <2>3, <2>4, <2>5, <2>6, <2>7 DEF EventsRead, EventsSaid, Pending
    <2>. QED
      BY <2>8 DEF e1
  <1>8. CASE Within1 /\ line # <<>>
    <2>1. p \notin BlankBreaks(b) /\ EndsAt(b, line, p)
      BY <1>8 DEF SaysOf
    <2>2. AllSaid(b, e.units, p + 1)
      BY <1>0, <1>6, <1>8, <2>1, AllStaysSaid
    <2>3. (StartsWith(b, p, "data") <=> Is(line, 1, "data")) /\ (StartsWith(b, p, "id") <=> Is(line, 1, "id"))
      BY <1>8 DEF SaysOf
    <2>4. CASE Is(line, 1, "data")
      <3>1. e1 = [counted EXCEPT !.data = Append(@, line)]
        <4>1. ~Is(line, 1, "id")
          BY <2>4 DEF Is
        <4>. QED
          BY <1>8, <2>4, <4>1 DEF ProcessLine
      <3>2. Append(e.data, line) \in Lines
        BY <1>0, AppendProperties DEF SEvent, Lines
      <3> HIDE DEF counted
      <3>3. e1 \in SEvent /\ e1.data = Append(e.data, line) /\ e1.id = e.id /\ e1.units = e.units
        BY <1>1, <3>1, <3>2 DEF SEvent
      <3>4. ~Is(line, 1, "id")
        BY <2>4 DEF Is
      <3>5. LastId(b, p + 1) = LastId(b, p)
        BY <1>0, <2>3, <3>4, IdGoesOn
      <3>6. DataBefore(b, p + 1) = DataBefore(b, p) \cup {p}
        BY <1>0, <2>1, <2>3, <2>4, DataGoesOn
      <3>7. HasData(b, Append(e.data, line), p + 1)
        BY <1>6, <1>8, <2>1, <3>6, DataGrows
      <3>8. HasId(b, e.id, p + 1)
        BY <1>6, <1>8, <3>5, IdStays
      <3> HIDE DEF e1
      <3>9. EventsRead(b, e1, p + 1)
        BY <1>2, <2>2, <3>3, <3>7, <3>8 DEF EventsRead, EventsSaid, Pending
      <3>. QED
        BY <3>9 DEF e1
    <2>5. CASE Is(line, 1, "id")
      <3>1. e1 = [counted EXCEPT !.id = line]
        <4>1. ~Is(line, 1, "data")
          BY <2>5 DEF Is
        <4>. QED
          BY <1>8, <2>5, <4>1 DEF ProcessLine
      <3> HIDE DEF counted
      <3>3. e1 \in SEvent /\ e1.data = e.data /\ e1.id = line /\ e1.units = e.units
        BY <1>0, <1>1, <3>1 DEF SEvent
      <3>4. ~Is(line, 1, "data")
        BY <2>5 DEF Is
      <3>5. LastId(b, p + 1) = {p}
        BY <1>0, <2>3, <2>5, IdGoesOn
      <3>6. DataBefore(b, p + 1) = DataBefore(b, p)
        BY <1>0, <2>1, <2>3, <3>4, DataGoesOn
      <3>7. HasData(b, e.data, p + 1)
        BY <1>6, <1>8, <3>6, DataStays
      <3>8. HasId(b, line, p + 1)
        BY <1>0, <1>8, <2>1, <3>5 DEF HasId
      <3> HIDE DEF e1
      <3>9. EventsRead(b, e1, p + 1)
        BY <1>2, <2>2, <3>3, <3>7, <3>8 DEF EventsRead, EventsSaid, Pending
      <3>. QED
        BY <3>9 DEF e1
    <2>6. CASE ~Is(line, 1, "data") /\ ~Is(line, 1, "id")
      <3>1. e1 = counted
        BY <1>8, <2>6 DEF ProcessLine
      <3>5. LastId(b, p + 1) = LastId(b, p)
        BY <1>0, <2>3, <2>6, IdGoesOn
      <3>6. DataBefore(b, p + 1) = DataBefore(b, p)
        BY <1>0, <2>1, <2>3, <2>6, DataGoesOn
      <3>7. HasData(b, e.data, p + 1)
        BY <1>6, <1>8, <3>6, DataStays
      <3>8. HasId(b, e.id, p + 1)
        BY <1>6, <1>8, <3>5, IdStays
      <3> HIDE DEF e1, counted
      <3>9. EventsRead(b, e1, p + 1)
        BY <1>1, <1>2, <2>2, <3>1, <3>7, <3>8 DEF EventsRead, EventsSaid, Pending
      <3>. QED
        BY <3>9 DEF e1
    <2>. QED
      BY <2>4, <2>5, <2>6
  <1>. QED
    BY <1>4, <1>5, <1>7, <1>8

LEMMA NoLineIsRead ==
  ASSUME NEW b \in Seq(Byte), NEW p \in Nat, p \notin Breaks(b), NEW e, EventsRead(b, e, p)
  PROVE  EventsRead(b, e, p + 1)
  <1>1. p \notin BlankBreaks(b)
    BY BreaksAreNaturals
  <1>2. DataBefore(b, p + 1) = DataBefore(b, p) /\ LastId(b, p + 1) = LastId(b, p)
    BY <1>1, DataGoesOn, IdGoesOn
  <1>3. UnitsSaid(b, e.units, p + 1)
    BY UnitsStaySaid DEF EventsRead, EventsSaid
  <1>4. CASE e.failed
    BY <1>3, <1>4 DEF EventsRead, EventsSaid
  <1>5. CASE ~e.failed
    <2>1. AllSaid(b, e.units, p) /\ HasData(b, e.data, p) /\ HasId(b, e.id, p)
      BY <1>5 DEF EventsRead, EventsSaid, Pending
    <2>2. AllSaid(b, e.units, p + 1) /\ HasData(b, e.data, p + 1) /\ HasId(b, e.id, p + 1)
      BY <1>1, <1>2, <2>1, AllStaysSaid, DataStays, IdStays
    <2>. QED
      BY <1>3, <2>2 DEF EventsRead, EventsSaid, Pending
  <1>. QED
    BY <1>4, <1>5

SSEAt(b, d, k) == EventsRead(b, d.event, k + 1)

LEMMA SSEReads ==
  ASSUME NEW s, SSE(s), NEW b, b = Bytes(s), NEW w, Reads(w, s, FreshEvent, b, TRUE)
  PROVE  \A k \in 0 .. Len(b) : SSEAt(b, w[k], k)
  <1>0. Framed(s) /\ s.framing = "sse" /\ b \in Seq(Byte) /\ Len(b) \in Nat /\ Complete(s, b, TRUE) = Breaks(b)
    BY BytesAreTyped, LenProperties, BreaksAreLineEnds DEF SSE
  <1> DEFINE Kept == {k \in 0 .. Len(b) : SSEAt(b, w[k], k)}
  <1>1. 0 \in Kept
    <2>1. w[0].event = FreshEvent
      BY DEF Reads
    <2>2. /\ FreshEvent \in SEvent /\ FreshEvent.units = <<>> /\ FreshEvent.failed = FALSE
          /\ FreshEvent.data = <<>> /\ FreshEvent.id = <<>>
      BY DEF FreshEvent, SEvent, Lines
    <2>3. \A q \in Breaks(b) : ~(q < 1)
      BY BreaksAreNaturals, <1>0
    <2>4. DataBefore(b, 1) = {} /\ LastId(b, 1) = {}
      BY <2>3 DEF DataBefore, LastId
    <2>5. HasData(b, <<>>, 1) /\ HasId(b, <<>>, 1)
      BY <2>4 DEF HasData, HasId, Lines
    <2>6. UnitsSaid(b, <<>>, 1) /\ AllSaid(b, <<>>, 1)
      <3>1. \A q \in BlankBreaks(b) : ~(q < 1)
        BY <1>0, <2>3, BreaksAreNaturals
      <3>. QED
        BY <3>1 DEF UnitsSaid, AllSaid
    <2>7. EventsRead(b, FreshEvent, 1)
      <3>1. <<>> \in Seq([data : Lines, id : Seq(Byte)])
        OBVIOUS
      <3>. QED
        BY <2>2, <2>5, <2>6, <3>1 DEF EventsRead, EventsSaid, Pending
    <2>8. 0 + 1 = 1 /\ 0 \in 0 .. Len(b)
      BY <1>0
    <2>. QED
      BY <2>1, <2>7, <2>8 DEF SSEAt
  <1>2. ASSUME NEW p \in 1 .. Len(b), p - 1 \in Kept PROVE p \in Kept
    <2>1. SSEAt(b, w[p - 1], p - 1) /\ p \in Nat /\ p \in 0 .. Len(b) /\ (p - 1) + 1 = p /\ p - 1 \in 0 .. Len(b)
      BY <1>0, <1>2
    <2>2. w[p] = ReadNext(s, w[p - 1], b, p, TRUE)
      BY DEF Reads
    <2> DEFINE d == w[p - 1]
    <2>3. EventsRead(b, d.event, p)
      BY <2>1 DEF SSEAt
    <2>4. BehindTheBreak(b, d.from, p - 1)
      BY <2>1, LinesBeginBehindBreaks
    <2>5. CASE p \in Breaks(b)
      <3> DEFINE line == Line(SubSeq(b, d.from, p))
      <3>1. LineFrom(b, d.from, p)
        BY <2>4, <2>5 DEF LineFrom
      <3>2. SaysOf(b, line, p)
        BY <1>0, <3>1, LineIsSaid
      <3>3. w[p] = TakeUpTo(s, d, b, p)
        BY <1>0, <2>2, <2>5 DEF ReadNext
      <3>4. w[p].event = ProcessLine(s.limit, d.event, line)
        BY <1>0, <3>3 DEF TakeUpTo, Take
      <3> HIDE DEF line, d
      <3>5. EventsRead(b, ProcessLine(s.limit, d.event, line), p + 1)
        BY <1>0, <2>3, <2>5, <3>2, LineIsRead
      <3>. QED
        BY <2>1, <3>4, <3>5 DEF SSEAt
    <2>6. CASE p \notin Breaks(b)
      <3>1. w[p] = d
        BY <1>0, <2>2, <2>6 DEF ReadNext
      <3> HIDE DEF d
      <3>2. EventsRead(b, d.event, p + 1)
        BY <1>0, <2>1, <2>3, <2>6, NoLineIsRead
      <3>. QED
        BY <2>1, <3>1, <3>2 DEF SSEAt
    <2>. QED
      BY <2>5, <2>6
  <1> HIDE DEF Kept
  <1>3. \A k \in 0 .. Len(b) : k \in Kept
    BY <1>0, <1>1, <1>2, ReadKeeps
  <1>. QED
    BY <1>3 DEF Kept

\* A line without an end dispatches nothing.
LEMMA SSEEnds ==
  ASSUME NEW s, SSE(s), NEW b, b = Bytes(s)
  PROVE  EventsSaid(b, Final(s), Len(b) + 1)
  <1> DEFINE d == Reader(s)[Len(b)]
             rest == Rest(b, d)
  <1>0. Framed(s) /\ s.framing = "sse" /\ b \in Seq(Byte) /\ Len(b) \in Nat /\ DOMAIN b = 1 .. Len(b)
        /\ Reads(Reader(s), s, FreshEvent, b, TRUE) /\ Len(b) \in 0 .. Len(b)
    <2>1. Framed(s) /\ s.framing = "sse" /\ b \in Seq(Byte)
      BY BytesAreTyped DEF SSE
    <2>2. Len(b) \in Nat /\ DOMAIN b = 1 .. Len(b) /\ Reads(Reader(s), s, FreshEvent, b, TRUE)
      BY <2>1, LenProperties, ReaderReads
    <2>3. Len(b) \in 0 .. Len(b)
      BY <2>2
    <2>. QED
      BY <2>1, <2>2, <2>3
  <1>1. EventsRead(b, d.event, Len(b) + 1)
    BY <1>0, SSEReads DEF SSEAt
  <1>2. BehindTheBreak(b, d.from, Len(b))
    BY <1>0, LinesBeginBehindBreaks
  <1>3. Final(s) = IF rest = <<>> THEN d.event ELSE Take(s, d.event, rest)
    BY DEF Final, Finally
  <1> HIDE DEF d
  <1>4. d.from \in Nat /\ 1 <= d.from /\ d.from <= Len(b) + 1
    BY <1>0, <1>2 DEF BehindTheBreak
  <1>5. IsSlice(rest, b, d.from, Len(b))
    BY <1>0, <1>4, SubSeqSlices DEF Rest
  <1> HIDE DEF rest
  <1>6. CASE rest = <<>>
    BY <1>1, <1>3, <1>6 DEF EventsRead
  <1>7. CASE rest # <<>>
    <2>1. d.from <= Len(b) /\ rest[Len(rest)] = b[Len(b)]
      BY <1>0, <1>5, <1>7, SliceEnds
    <2>2. Len(b) \in 1 .. Len(b)
      BY <1>0, <1>4, <2>1
    <2>3. Len(b) \notin Breaks(b)
      <3>1. SUFFICES ASSUME Len(b) \in Breaks(b) PROVE FALSE
        OBVIOUS
      <3>2. Len(b) < d.from
        BY <1>0, <1>2, <3>1 DEF BehindTheBreak
      <3>. QED
        BY <1>0, <1>4, <2>1, <3>2
    <2>4. b[Len(b)].sort # "CR" /\ b[Len(b)].sort # "LF"
      <3>1. ~(Len(b) < Len(b))
        BY <1>0
      <3>. QED
        BY <1>0, <2>2, <2>3, <3>1 DEF Breaks
    <2>5. Line(rest) = rest
      BY <2>1, <2>4 DEF Line, WithoutLast, Is
    <2> DEFINE e == d.event
               e1 == ProcessLine(s.limit, e, rest)
    <2>6. Final(s) = e1
      BY <1>0, <1>3, <1>7, <2>5 DEF Take
    <2>7. e \in SEvent /\ Len(rest) \in Nat /\ rest \in Seq(Byte)
      BY <1>1, <1>5, LenProperties DEF EventsRead, IsSlice
    <2>8. e1.units = e.units /\ (e.failed => e1.failed)
      <3> DEFINE counted == [e EXCEPT !.bytes = @ + Len(rest) + 1]
      <3> HIDE DEF e
      <3>0. counted \in SEvent /\ counted.units = e.units /\ counted.failed = e.failed
        BY <2>7, CountedIsAnEvent
      <3> DEFINE x == [e EXCEPT !.failed = TRUE]
                 y == [counted EXCEPT !.data = Append(@, rest)]
                 z == [counted EXCEPT !.id = rest]
      <3>1. e1 = e \/ e1 = x \/ (~e.failed /\ (e1 = counted \/ e1 = y \/ e1 = z))
        BY <1>7 DEF ProcessLine
      <3>2. x.units = e.units /\ x.failed = TRUE
        BY <2>7 DEF SEvent
      <3> HIDE DEF counted
      <3>3. y.units = counted.units /\ z.units = counted.units
        BY <3>0 DEF SEvent
      <3> HIDE DEF x, y, z, e1
      <3>. QED
        BY <3>0, <3>1, <3>2, <3>3
    <2> HIDE DEF e1, e
    <2>9. EventsSaid(b, e, Len(b) + 1)
      BY <1>1 DEF EventsRead, e
    <2>10. EventsSaid(b, e1, Len(b) + 1)
      BY <2>8, <2>9 DEF EventsSaid
    <2>. QED
      BY <2>6, <2>10 DEF e
  <1>. QED
    BY <1>6, <1>7

\* A dispatched unit is its event.
LEMMA UnitIsItsEvent ==
  ASSUME NEW b \in Seq(Byte), NEW u, NEW p, Dispatches(b, u, p)
  PROVE  AsEvent(b, u) = EventAt(b, p) /\ EventAt(b, p) \in Events(b) /\ InOrder(u.data)
  <1>1. u.data \in Lines /\ DOMAIN u.data = 1 .. Len(u.data) /\ p \in BlankBreaks(b)
        /\ HasData(b, u.data, p) /\ HasId(b, u.id, p) /\ u.data # <<>>
    BY LenProperties DEF Dispatches, HasData, Lines
  <1>2. {BreakAfter(b, u.data[k]) : k \in DOMAIN u.data} = DataBefore(b, p)
    <2>1. ASSUME NEW k \in 1 .. Len(u.data) PROVE BreakAfter(b, u.data[k]) \in DataBefore(b, p)
      <3>1. PICK q \in DataBefore(b, p) : EndsAt(b, u.data[k], q)
        BY <1>1 DEF HasData
      <3>. QED
        BY <3>1, BreakIsFound
    <2>2. ASSUME NEW q \in DataBefore(b, p) PROVE \E k \in 1 .. Len(u.data) : BreakAfter(b, u.data[k]) = q
      <3>1. PICK k \in 1 .. Len(u.data) : EndsAt(b, u.data[k], q)
        BY <1>1 DEF HasData
      <3>. QED
        BY <3>1, BreakIsFound
    <2>. QED
      BY <1>1, <2>1, <2>2
  <1>3. (IF u.id = <<>> THEN {} ELSE {BreakAfter(b, u.id)}) = LastId(b, p)
    <2>1. CASE u.id = <<>>
      BY <1>1, <2>1 DEF HasId
    <2>2. CASE u.id # <<>>
      <3>1. PICK q \in Breaks(b) : EndsAt(b, u.id, q) /\ LastId(b, p) = {q}
        BY <1>1, <2>2 DEF HasId
      <3>2. BreakAfter(b, u.id) = q
        BY <3>1, BreakIsFound
      <3>. QED
        BY <2>2, <3>1, <3>2
    <2>. QED
      BY <2>1, <2>2
  <1>4. AsEvent(b, u) = EventAt(b, p)
    BY <1>2, <1>3 DEF AsEvent, EventAt
  <1>5. DataBefore(b, p) # {}
    BY <1>1, NoDataIsNone
  <1>6. EventAt(b, p) \in Events(b)
    BY <1>1, <1>5 DEF Events
  <1>7. InOrder(u.data)
    BY <1>1 DEF InOrder, HasData
  <1>. QED
    BY <1>4, <1>6, <1>7

LEMMA EventsAgree ==
  ASSUME FramingInv, SSE(stream)
  PROVE  EventsAreTheGrammars(Bytes(stream))
  <1> DEFINE b == Bytes(stream)
  <1>0. b \in Seq(Byte) /\ Len(b) \in Nat /\ Reads(Reader(stream), stream, FreshEvent, b, TRUE) /\ units = event.units
    BY BytesAreTyped, LenProperties, ReaderReads DEF SSE, FramingInv
  <1>1. \E p : EventsSaid(b, event, p)
    <2>1. CASE event = Final(stream)
      BY <2>1, SSEEnds
    <2>2. ASSUME NEW k \in 0 .. Len(b), event = Reader(stream)[k].event PROVE \E p : EventsSaid(b, event, p)
      <3>1. SSEAt(b, Reader(stream)[k], k)
        BY <1>0, SSEReads
      <3>. QED
        BY <2>2, <3>1 DEF SSEAt, EventsRead
    <2>. QED
      BY <2>1, <2>2 DEF FramingInv
  <1>2. PICK p : EventsSaid(b, event, p)
    BY <1>1
  <1>3. units \in Seq([data : Lines, id : Seq(Byte)]) /\ DOMAIN units = 1 .. Len(units) /\ UnitsSaid(b, units, p)
    BY <1>0, <1>2, LenProperties DEF EventsSaid
  <1> HIDE DEF b
  <1>4. ASSUME NEW k \in DOMAIN units PROVE AsEvent(b, units[k]) \in Events(b) /\ InOrder(units[k].data)
    <2>1. PICK q \in BlankBreaks(b) : Dispatches(b, units[k], q)
      BY <1>3 DEF UnitsSaid
    <2>. QED
      BY <1>0, <2>1, UnitIsItsEvent
  <1>5. \A j, k \in DOMAIN units : j < k => AllBefore(units[j].data, units[k].data)
    BY <1>3 DEF UnitsSaid
  <1>6. ASSUME fate = "closed", NEW e \in Events(b) PROVE \E k \in DOMAIN units : AsEvent(b, units[k]) = e
    <2>1. EventsSaid(b, event, Len(b) + 1) /\ ~event.failed
      BY <1>6, SSEEnds DEF FramingInv, b
    <2>2. AllSaid(b, units, Len(b) + 1)
      BY <1>0, <2>1 DEF EventsSaid
    <2>3. PICK q \in BlankBreaks(b) : e = EventAt(b, q) /\ DataBefore(b, q) # {}
      BY <1>6 DEF Events
    <2>4. q < Len(b) + 1
      BY <1>0, <2>3, BreaksAreNaturals
    <2>5. PICK k \in 1 .. Len(units) : Dispatches(b, units[k], q)
      BY <2>2, <2>3, <2>4 DEF AllSaid
    <2>6. AsEvent(b, units[k]) = EventAt(b, q)
      BY <1>0, <2>5, UnitIsItsEvent
    <2>. QED
      BY <1>3, <2>3, <2>5, <2>6
  <1>7. EventsAreTheGrammars(b)
    BY <1>4, <1>5, <1>6 DEF EventsAreTheGrammars
  <1>. QED
    BY <1>7 DEF b

(* Wherever the chunks fall. *)
LEMMA FramingInvSuffices ==
  FramingInv => ChunksDoNotMatter
  <1> SUFFICES ASSUME FramingInv PROVE ChunksDoNotMatter
    OBVIOUS
  <1>1. Framed(stream)
    BY StreamsAreFramed DEF FramingInv
  <1>2. SSE(stream) \/ (stream.framing # "sse" /\ JSON(stream))
    BY <1>1 DEF SSE, JSON, Framed
  <1>. QED
    BY <1>2, EventsAgree, ItemsAgree DEF ChunksDoNotMatter, SSE

\* Wherever the chunks of a stream fall and the connection ends, what is emitted is what
\* the stream's grammar says, and a stream that closes gave all of it (sse.ts drainLines,
\* openapi32-sequential-response.ts).
THEOREM FramingTheorem == FramingSpec => []ChunksDoNotMatter
  <1>1. FramingSpec => []FramingInv
    BY FramingStarts, FramingGoesOn, PTL DEF FramingSpec
  <1>. QED
    BY <1>1, FramingInvSuffices, PTL
=============================================================================
