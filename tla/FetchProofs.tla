----------------------------- MODULE FetchProofs -----------------------------
(***************************************************************************)
(* The Fetch transport, for every host, every stream of chunks and every   *)
(* interleaving with the host's tasks: execute() is an invocation, what    *)
(* its outcome says of the body is what the host delivered, and its guard  *)
(* cleans up whichever way the call ends.                                  *)
(***************************************************************************)
EXTENDS FetchExchange, InvocationProofs

\* What exchange() may report: no response, or the head with as much of its body
\* as the body state tells.
Evidence(a) ==
  \/ \E u \in Uploads : a = NoResponse(u)
  \/ \E b \in 0..MaxBody, s \in BodyStates, f \in BOOLEAN :
       /\ a = Response(b, s, f) /\ head \in Heads /\ listed \in Enumerations(head.headers)
       /\ s = "Complete" => b = delivered /\ (head.body = "null" \/ Got("done"))
       /\ s = "Truncated" => delivered > MaxBody /\ b = MaxBody
       /\ s = "Failed" => f /\ b = delivered

Whole(a) == a.response # None /\ a.response.bodyState = "Complete"

Early == {"check", "admit", "preflight"}
Bodied == {"loop", "read", "pause", "yield"}
Running == {"head", "open"} \cup Bodied

\* The guard against the step of the invocation around it: there is none before
\* preflight() has one; it is live until the call is over.
EarlyInv == phase \in Early => \/ step = "ready" /\ controller = None
                               \/ step = "done" /\ controller \in {None, "aborted"}
InvokedInv == phase = "invoke" =>
  \/ step \in {"ready", "admit", "refused", "entered"} /\ controller = "live"
  \/ step = "done" /\ controller = "aborted"
RunningInv == phase \in Running =>
  \/ step = "entered" /\ controller = "live"
  \/ step = "gone" /\ controller = "aborted" /\ reader # "locked"

\* While the exchange runs, what was kept is what was delivered.
BodyInv ==
  /\ phase \in Early \cup {"invoke", "head", "open"} => kept = 0 /\ delivered = 0 /\ reader = None
  /\ phase \in {"open"} \cup Bodied => head \in Heads /\ listed \in Enumerations(head.headers)
  /\ phase \in Running => kept = delivered
  /\ phase \in {"head", "read", "yield"} => observed \in Results \cup {None}

EndedInv == phase = "ended" =>
  /\ step \in {"answered", "done"} /\ entered = 1 /\ Evidence(answer) /\ reader # "locked"
  /\ controller = IF Whole(answer) THEN "live" ELSE "aborted"

FetchInv ==
  /\ InvokeInv /\ FetchTypeOK /\ turns < YieldEvery
  /\ EarlyInv /\ InvokedInv /\ RunningInv /\ BodyInv /\ EndedInv
  /\ step = "done" /\ phase # "ended" => entered = 0

LEMMA InitFetch == Init => FetchInv
<1> SUFFICES ASSUME Init PROVE FetchInv
  OBVIOUS
<1>1. InvokeInv
  BY InitCall DEF Init, InvokeInit, InvokeInv, Start
<1>2. /\ step = "ready" /\ phase = "check" /\ controller = None /\ reader = None
      /\ head = None /\ kept = 0 /\ delivered = 0 /\ turns = 0
  BY DEF Init, InvokeInit, Start
<1>3. turns < YieldEvery /\ turns \in 0..YieldEvery /\ kept \in 0..MaxBody /\ delivered \in 0..(MaxBody + 1)
  BY <1>2, FetchAssumption, InvokeAssumption
<1>4. FetchTypeOK
  BY <1>2, <1>3 DEF FetchTypeOK
<1>. QED
  BY <1>1, <1>2, <1>3, <1>4
  DEF FetchInv, EarlyInv, InvokedInv, RunningInv, BodyInv, EndedInv, Early, Running, Bodied

-----------------------------------------------------------------------------
(* Each step *)

\* A step of the exchange that leaves the invocation alone.
LEMMA InnerStep ==
  ASSUME FetchInv, UNCHANGED invokeVars, FetchTypeOK', (turns < YieldEvery)',
         EarlyInv', InvokedInv', RunningInv', BodyInv',
         phase' = "ended" <=> phase = "ended",
         phase = "ended" => UNCHANGED <<observed, head, listed, delivered, controller, reader>>
  PROVE  FetchInv'
<1>1. InvokeInv'
  <2>1. CallOK' /\ UNCHANGED callVars
    BY StepCall DEF FetchInv, InvokeInv
  <2>. QED
    BY <2>1 DEF FetchInv, InvokeInv, callVars
<1>2. step' = step /\ answer' = answer /\ entered' = entered
  BY DEF invokeVars
<1>3. EndedInv'
  <2>1. SUFFICES ASSUME phase' = "ended"
                 PROVE  /\ step' \in {"answered", "done"} /\ entered' = 1 /\ Evidence(answer)'
                        /\ reader' # "locked" /\ controller' = (IF Whole(answer) THEN "live" ELSE "aborted")'
    BY DEF EndedInv
  <2>2. EndedInv /\ phase = "ended" /\ UNCHANGED <<observed, head, listed, delivered, controller, reader>>
    BY <2>1 DEF FetchInv
  <2>3. Evidence(answer)'
    BY <1>2, <2>2 DEF EndedInv, Evidence, Response, Got
  <2>. QED
    BY <1>2, <2>2, <2>3 DEF EndedInv, Whole
<1>. QED
  BY <1>1, <1>2, <1>3 DEF FetchInv

\* The callback's future resolves, after its guard was dropped.
LEMMA EndStep ==
  ASSUME FetchInv, NEW result, NEW abort \in BOOLEAN, End(result, abort), Evidence(answer)',
         abort <=> ~Whole(result), phase \in Running \cup {"invoke"},
         FetchTypeOK', turns' = turns
  PROVE  Answer /\ FetchInv'
<1>1. /\ step = "entered" /\ step' = "answered" /\ phase' = "ended" /\ answer' = result
      /\ Cleanup(abort) /\ entered' = entered
  BY DEF End
<1>2. result \in Reports
  <2>1. CASE \E u \in Uploads : result = NoResponse(u)
    BY <2>1 DEF Reports
  <2>2. CASE \E b \in 0..MaxBody, s \in BodyStates, f \in BOOLEAN :
               result = Response(b, s, f)' /\ head' \in Heads /\ listed' \in Enumerations(head'.headers)
    BY <2>2 DEF Reports, Response
  <2>. QED
    BY <1>1, <2>1, <2>2 DEF Evidence
<1>3. Answer
  <2>1. request \in Requests
    BY DEF FetchInv, InvokeInv
  <2>. QED
    BY <1>2, <2>1, FetchAssumption DEF End, Answer
<1>4. InvokeInv'
  BY <1>3, StepCall DEF FetchInv, InvokeInv, InvokeNext, callVars
<1>5. entered' = 1
  BY <1>1 DEF FetchInv, InvokeInv, CallOK
<1>6. controller = "live" /\ controller # None
  BY <1>1, FetchAssumption DEF FetchInv, InvokedInv, RunningInv
<1>7. controller' = (IF Whole(answer') THEN "live" ELSE "aborted") /\ reader' # "locked"
  BY <1>1, <1>6, FetchAssumption DEF Cleanup
<1>8. EndedInv'
  BY <1>1, <1>5, <1>7 DEF EndedInv, Whole
<1>9. turns' < YieldEvery
  BY DEF FetchInv
<1>. QED
  BY <1>1, <1>3, <1>4, <1>8, <1>9
  DEF FetchInv, EarlyInv, InvokedInv, RunningInv, BodyInv, Early, Running, Bodied

\* A refusal before the invocation: whatever guard there was is gone.
LEMMA RefusedStep ==
  ASSUME FetchInv, phase \in Early, AdapterRefuse, UNCHANGED <<loopVars, head, listed, kept, turns, delivered, reader>>,
         controller' \in {controller, "aborted"}
  PROVE  InvokeNext /\ FetchInv'
<1>1. InvokeNext /\ InvokeInv'
  BY StepCall DEF FetchInv, InvokeInv, InvokeNext, callVars
<1>2. step = "ready" /\ step' = "done" /\ phase' = phase /\ entered' = 0 /\ controller = None
  BY FetchAssumption DEF AdapterRefuse, loopVars, FetchInv, InvokeInv, CallOK, Untried, EarlyInv
<1>3. UNCHANGED <<phase, observed, head, listed, kept, turns, delivered, reader>>
  BY DEF loopVars
<1>4. FetchTypeOK' /\ turns' < YieldEvery
  BY <1>2, <1>3 DEF FetchInv, FetchTypeOK
<1>. QED
  BY <1>1, <1>2, <1>3, <1>4
  DEF FetchInv, EarlyInv, InvokedInv, RunningInv, BodyInv, EndedInv, Early, Running, Bodied

LEMMA OuterStep ==
  ASSUME FetchInv, Check \/ AdmitProfile \/ RefuseEarly \/ RefuseLate \/ Preflight
  PROVE  [InvokeNext]_invokeVars /\ FetchInv'
<1>1. \A code : Refused(code) =>
        /\ AdapterRefuse /\ UNCHANGED <<loopVars, head, listed, kept, turns, delivered, reader>>
        /\ controller' \in {controller, "aborted"}
  BY DEF Refused, hostVars
<1>2. CASE /\ phase \in Early /\ step = "ready" /\ phase' \in Early
           /\ UNCHANGED <<invokeVars, observed, buffered, hostVars, queued>>
  <2>1. UNCHANGED <<step, head, listed, kept, turns, delivered, controller, reader>> /\ controller = None
    BY <1>2 DEF hostVars, invokeVars, FetchInv, EarlyInv
  <2>2. FetchTypeOK' /\ turns' < YieldEvery
    BY <1>2, <2>1 DEF FetchInv, FetchTypeOK, Early
  <2>3. EarlyInv' /\ InvokedInv' /\ RunningInv' /\ BodyInv'
    BY <1>2, <2>1 DEF FetchInv, EarlyInv, InvokedInv, RunningInv, BodyInv, Early, Running, Bodied
  <2>. QED
    BY <1>2, <2>2, <2>3, InnerStep DEF Early
<1>3. \A next : Passed(next) => /\ step = "ready" /\ phase' = next
                               /\ UNCHANGED <<invokeVars, observed, buffered, hostVars, queued>>
  BY DEF Passed
<1>4. CASE Check \/ AdmitProfile
  BY <1>1, <1>2, <1>3, <1>4, RefusedStep DEF Check, AdmitProfile, Early
<1>5. CASE RefuseEarly
  BY <1>1, <1>5, RefusedStep DEF RefuseEarly, Early
<1>6. CASE RefuseLate
  BY <1>6, RefusedStep DEF RefuseLate, Early
<1>7. CASE Preflight
  <2>1. /\ phase = "preflight" /\ phase' = "invoke" /\ step = "ready" /\ controller' = "live"
        /\ UNCHANGED <<invokeVars, observed, head, listed, kept, turns, delivered, reader>>
    BY <1>7 DEF Preflight
  <2>2. FetchTypeOK' /\ turns' < YieldEvery
    BY <2>1 DEF FetchInv, FetchTypeOK
  <2>3. EarlyInv' /\ InvokedInv' /\ RunningInv' /\ BodyInv'
    BY <2>1 DEF FetchInv, EarlyInv, InvokedInv, RunningInv, BodyInv, Early, Running, Bodied, invokeVars
  <2>. QED
    BY <2>1, <2>2, <2>3, InnerStep
<1>. QED
  BY <1>4, <1>5, <1>6, <1>7

\* The invocation's own steps, and the caller's.
LEMMA InvocationStep ==
  ASSUME FetchInv, Invoke \/ RunQueued \/ CancelElsewhere \/ Abandon
  PROVE  InvokeNext /\ FetchInv'
<1>1. InvokeNext /\ InvokeInv'
  BY StepCall DEF FetchInv, InvokeInv, InvokeNext, Invoke, RunQueued, CancelElsewhere, Abandon, callVars
<1>2. UNCHANGED <<phase, observed, head, listed, kept, turns, delivered>>
  BY DEF Invoke, RunQueued, CancelElsewhere, Abandon, loopVars, hostVars
<1>3. \/ controller' = controller /\ reader' = reader
      \/ /\ controller' = (IF controller # None THEN "aborted" ELSE controller)
         /\ reader' = (IF reader # None THEN "released" ELSE reader)
  BY DEF Invoke, RunQueued, CancelElsewhere, Abandon, loopVars, hostVars, Cleanup
<1>4. FetchTypeOK' /\ turns' < YieldEvery
  BY <1>2, <1>3 DEF FetchInv, FetchTypeOK
<1>5. BodyInv'
  <2>1. phase \in Early \cup {"invoke", "head", "open"} => reader' = None
    BY <1>3 DEF FetchInv, BodyInv
  <2>2. Results' = Results
    BY <1>2 DEF Results
  <2>. QED
    BY <1>2, <2>1, <2>2 DEF FetchInv, BodyInv
<1>6. CASE Invoke /\ (CheckToken \/ Enter)
  <2>1. /\ phase = "invoke" /\ step \in {"ready", "admit"} /\ step' \in {"refused", "admit", "entered"}
        /\ controller' = controller
    BY <1>6 DEF Invoke, CheckToken, Enter, Refuse, Finish, FetchInv, EndedInv
  <2>. QED
    BY <1>1, <1>2, <1>4, <1>5, <2>1
    DEF FetchInv, EarlyInv, InvokedInv, RunningInv, EndedInv, Early, Running, Bodied
<1>7. CASE Invoke /\ Refuse
  <2>1. phase = "invoke" /\ step \in {"admit", "refused"} /\ step' = "done" /\ entered' = 0 /\ controller = "live"
    BY <1>7 DEF Invoke, Refuse, FetchInv, InvokeInv, CallOK, Untried, InvokedInv, EndedInv
  <2>2. controller' = "aborted"
    BY <1>7, <2>1, FetchAssumption DEF Invoke, Refuse, CheckToken, Enter, Finish, Cleanup
  <2>. QED
    BY <1>1, <1>2, <1>4, <1>5, <2>1, <2>2
    DEF FetchInv, EarlyInv, InvokedInv, RunningInv, EndedInv, Early, Running, Bodied
<1>8. CASE Invoke /\ Finish
  <2>1. /\ phase = "ended" /\ step' = "done" /\ answer' = answer /\ entered' = entered
        /\ UNCHANGED <<controller, reader>>
    BY <1>8 DEF Invoke, Finish, Refuse, CheckToken, Enter, FetchInv, InvokedInv
  <2>2. Evidence(answer)'
    BY <1>2, <2>1 DEF FetchInv, EndedInv, Evidence, Response, Got
  <2>. QED
    BY <1>1, <1>2, <1>4, <1>5, <2>1, <2>2
    DEF FetchInv, EarlyInv, InvokedInv, RunningInv, EndedInv, Early, Running, Bodied, Whole
<1>9. CASE RunQueued \/ CancelElsewhere
  <2>1. UNCHANGED <<step, entered, answer, controller, reader>>
    BY <1>9 DEF RunQueued, CancelElsewhere, Cancel, hostVars
  <2>2. phase = "ended" => Evidence(answer)'
    BY <1>2, <2>1 DEF FetchInv, EndedInv, Evidence, Response, Got
  <2>. QED
    BY <1>1, <1>2, <1>4, <1>5, <2>1, <2>2
    DEF FetchInv, EarlyInv, InvokedInv, RunningInv, EndedInv, Early, Running, Bodied, Whole
<1>10. CASE Abandon
  <2>1. /\ phase \in Running /\ step = "entered" /\ step' = "gone" /\ controller = "live"
    BY <1>10 DEF Abandon, Watching, Drop, FetchInv, RunningInv, Running, Bodied
  <2>2. controller' = "aborted" /\ reader' # "locked"
    BY <1>10, <2>1, FetchAssumption DEF Abandon, Cleanup
  <2>. QED
    BY <1>1, <1>2, <1>4, <1>5, <2>1, <2>2
    DEF FetchInv, EarlyInv, InvokedInv, RunningInv, EndedInv, Early, Running, Bodied
<1>. QED
  BY <1>1, <1>6, <1>7, <1>8, <1>9, <1>10 DEF Invoke

\* The guard's variables keep to their types however it is dropped.
LEMMA CleanupTyped ==
  ASSUME FetchInv, NEW abort \in BOOLEAN, Cleanup(abort)
  PROVE  controller' \in {None, "live", "aborted"} /\ reader' \in {None, "locked", "released"}
BY DEF Cleanup, FetchInv, FetchTypeOK

\* A wait or a read that fails: what was delivered so far is reported.
LEMMA FailedStep ==
  ASSUME FetchInv, FailedBody, phase \in {"open"} \cup Bodied,
         UNCHANGED <<head, listed, kept, turns, delivered>>
  PROVE  Answer /\ FetchInv'
<1> DEFINE result == Response(kept, "Failed", TRUE)
<1>1. End(result, TRUE) /\ Whole(result) = FALSE
  BY DEF FailedBody, Whole, Response, Report
<1>2. /\ kept = delivered /\ kept \in 0..MaxBody /\ head \in Heads /\ listed \in Enumerations(head.headers)
  BY DEF FetchInv, FetchTypeOK, BodyInv, Running
<1>3. Evidence(answer)'
  <2>1. answer' = Response(kept, "Failed", TRUE)' /\ "Failed" \in BodyStates /\ TRUE \in BOOLEAN
    BY <1>1 DEF End, Response, BodyStates
  <2>. QED
    BY <1>2, <2>1 DEF Evidence
<1>4. FetchTypeOK'
  <2>1. phase' = "ended" /\ Cleanup(TRUE)
    BY <1>1 DEF End
  <2>. QED
    BY <2>1, CleanupTyped DEF FetchInv, FetchTypeOK
<1> HIDE DEF result
<1>. QED
  BY <1>1, <1>3, <1>4, EndStep DEF Running

LEMMA ReportIsKnown ==
  ASSUME NEW h \in Heads, NEW list \in Enumerations(h.headers), NEW bytes \in 0..MaxBody,
         NEW state \in BodyStates, NEW failed \in BOOLEAN
  PROVE  Report(h, list, bytes, state, failed) \in Reports
BY DEF Reports

\* A body that is all there.
LEMMA CompleteStep ==
  ASSUME FetchInv, CompleteBody, phase \in {"open"} \cup Bodied,
         head.body = "null" \/ Got("done"),
         UNCHANGED <<observed, head, listed, kept, turns, delivered>>
  PROVE  Answer /\ FetchInv'
<1> DEFINE result == Response(kept, "Complete", FALSE)
<1>1. /\ kept = delivered /\ kept \in 0..MaxBody /\ head \in Heads /\ listed \in Enumerations(head.headers)
  BY DEF FetchInv, FetchTypeOK, BodyInv, Running
<1>2. End(result, FALSE) /\ Whole(result) = TRUE
  <2>1. result \in Reports /\ result.failed = FALSE
    <3>1. result = Report(head, listed, kept, "Complete", FALSE)
      BY DEF Response
    <3>2. Report(head, listed, kept, "Complete", FALSE) \in Reports
      <4>1. "Complete" \in BodyStates /\ FALSE \in BOOLEAN
        BY DEF BodyStates
      <4>. QED
        BY <1>1, <4>1, ReportIsKnown
    <3>3. Report(head, listed, kept, "Complete", FALSE).failed = FALSE
      BY DEF Report
    <3>. QED
      BY <3>1, <3>2, <3>3
  <2>2. result.response # None
    BY <2>1, FetchAssumption
  <2>. QED
    BY <2>2 DEF CompleteBody, Whole, Response, Report
<1>3. Evidence(answer)'
  <2>1. answer' = Response(kept, "Complete", FALSE)' /\ "Complete" \in BodyStates /\ FALSE \in BOOLEAN
    BY <1>2 DEF End, Response, BodyStates
  <2>2. Got("done")' <=> Got("done")
    BY DEF Got
  <2>. QED
    BY <1>1, <2>1, <2>2 DEF Evidence
<1>4. FetchTypeOK'
  <2>1. phase' = "ended" /\ Cleanup(FALSE)
    BY <1>2 DEF End
  <2>. QED
    BY <2>1, CleanupTyped DEF FetchInv, FetchTypeOK
<1> HIDE DEF result
<1>. QED
  BY <1>2, <1>3, <1>4, EndStep DEF Running

\* No response at all.
LEMMA NoResponseStep ==
  ASSUME FetchInv, NEW upload \in Uploads, End(NoResponse(upload), TRUE), phase \in {"invoke", "head"},
         UNCHANGED <<head, kept, turns, delivered>>
  PROVE  Answer /\ FetchInv'
<1>1. Whole(NoResponse(upload)) = FALSE
  BY DEF Whole, NoResponse
<1>2. Evidence(answer)'
  BY DEF End, Evidence, NoResponse
<1>3. FetchTypeOK'
  <2>1. phase' = "ended" /\ Cleanup(TRUE)
    BY DEF End
  <2>. QED
    BY <2>1, CleanupTyped DEF FetchInv, FetchTypeOK
<1>. QED
  BY <1>1, <1>2, <1>3, EndStep DEF Running

\* A chunk past the bound: what fits is kept.
LEMMA TruncatedStep ==
  ASSUME FetchInv, TakeChunk, ~Fits(observed.value)
  PROVE  Answer /\ FetchInv'
<1>1. /\ phase = "read" /\ Got("chunk") /\ kept' = Copied(observed.value)
      /\ delivered' = Capped(delivered + observed.value)
      /\ End(Response(Copied(observed.value), "Truncated", FALSE), TRUE)
      /\ UNCHANGED <<observed, buffered, head, listed, turns>>
  BY DEF TakeChunk, Awaiting
<1>2. observed.value \in Nat
  BY <1>1, FetchAssumption DEF Got, FetchInv, BodyInv, Results, Result
<1>3. /\ kept = delivered /\ kept \in 0..MaxBody /\ head \in Heads /\ listed \in Enumerations(head.headers)
  BY <1>1 DEF FetchInv, FetchTypeOK, BodyInv, Running, Bodied
<1>4. Copied(observed.value) = MaxBody /\ kept' = MaxBody /\ delivered' = MaxBody + 1 /\ MaxBody \in Nat
  BY <1>1, <1>2, <1>3, InvokeAssumption DEF Fits, Copied, Capped
<1> DEFINE result == Response(MaxBody, "Truncated", FALSE)
<1>5. End(result, TRUE) /\ Whole(result) = FALSE
  BY <1>1, <1>4 DEF Whole, Response, Report
<1>6. Evidence(answer)'
  <2>1. answer' = Response(MaxBody, "Truncated", FALSE)' /\ "Truncated" \in BodyStates /\ FALSE \in BOOLEAN
    BY <1>1, <1>5 DEF End, Response, BodyStates
  <2>2. MaxBody \in 0..MaxBody /\ delivered' > MaxBody
    BY <1>4
  <2>. QED
    BY <1>1, <1>3, <2>1, <2>2 DEF Evidence
<1>7. FetchTypeOK'
  <2>1. phase' = "ended" /\ Cleanup(TRUE)
    BY <1>5 DEF End
  <2>2. kept' \in 0..MaxBody /\ delivered' \in 0..(MaxBody + 1)
    BY <1>4
  <2>. QED
    BY <1>1, <2>1, <2>2, CleanupTyped DEF FetchInv, FetchTypeOK
<1> HIDE DEF result
<1>. QED
  BY <1>1, <1>5, <1>6, <1>7, EndStep DEF Running, Bodied

LEMMA ChunkStep ==
  ASSUME FetchInv, TakeChunk
  PROVE  [InvokeNext]_invokeVars /\ FetchInv'
<1>1. /\ phase = "read" /\ step = "entered" /\ Got("chunk") /\ kept' = Copied(observed.value)
      /\ delivered' = Capped(delivered + observed.value) /\ UNCHANGED <<observed, buffered, head, listed>>
  BY DEF TakeChunk, Awaiting
<1>2. CASE ~Fits(observed.value)
  BY <1>2, TruncatedStep DEF InvokeNext
<1>3. CASE Fits(observed.value)
  <2>1. /\ turns' = IF Count = YieldEvery THEN 0 ELSE Count
        /\ phase' = IF Count = YieldEvery THEN "pause" ELSE "loop"
        /\ UNCHANGED <<invokeVars, controller, reader, queued>>
    BY <1>3 DEF TakeChunk
  <2>2. observed.value \in Nat
    BY <1>1, FetchAssumption DEF Got, FetchInv, BodyInv, Results, Result
  <2>3. /\ kept = delivered /\ kept \in 0..MaxBody /\ head \in Heads /\ listed \in Enumerations(head.headers)
        /\ turns \in 0..YieldEvery /\ turns < YieldEvery /\ controller = "live"
    BY <1>1 DEF FetchInv, FetchTypeOK, BodyInv, RunningInv, Running, Bodied
  <2>4. kept' = kept + observed.value /\ kept' \in 0..MaxBody /\ delivered' = kept' /\ delivered' \in 0..(MaxBody + 1)
    BY <1>1, <1>3, <2>2, <2>3, InvokeAssumption DEF Fits, Copied, Capped
  <2>5. turns' \in 0..YieldEvery /\ turns' < YieldEvery
    BY <2>1, <2>3, FetchAssumption DEF Count
  <2>6. FetchTypeOK'
    BY <1>1, <2>1, <2>4, <2>5 DEF FetchInv, FetchTypeOK
  <2>7. step' = step
    BY <2>1 DEF invokeVars
  <2>8. EarlyInv' /\ InvokedInv' /\ RunningInv' /\ BodyInv'
    BY <1>1, <2>1, <2>3, <2>4, <2>7
    DEF EarlyInv, InvokedInv, RunningInv, BodyInv, Early, Running, Bodied
  <2>9. phase' # "ended"
    BY <2>1
  <2>. QED
    BY <1>1, <2>1, <2>5, <2>6, <2>8, <2>9, InnerStep
<1>. QED
  BY <1>2, <1>3

\* What a promise is settled with, or that a new one is watched.
LEMMA WatchStep ==
  ASSUME FetchInv, UNCHANGED <<invokeVars, head, listed, kept, turns, delivered, controller>>,
         step = "entered" /\ controller = "live",
         phase' \in Running, phase \in Running \cup {"invoke"},
         phase' \in Bodied => phase \in {"open"} \cup Bodied,
         phase' = "open" => phase = "open",
         phase' \in {"head", "read", "yield"} => observed' \in Results' \cup {None},
         reader' \in {None, "locked", "released"},
         phase' \in {"head", "open"} => phase \in {"invoke", phase'} /\ reader' = reader
  PROVE  FetchInv'
<1>1. FetchTypeOK' /\ (turns < YieldEvery)'
  BY DEF FetchInv, FetchTypeOK, Running, Bodied
<1>2. step' = step
  BY DEF invokeVars
<1>3. BodyInv'
  <2>1. phase' \in Early \cup {"invoke", "head", "open"} => kept = 0 /\ delivered = 0 /\ reader' = None
    BY DEF FetchInv, BodyInv, Early, Running, Bodied
  <2>2. phase' \in {"open"} \cup Bodied => head \in Heads /\ listed \in Enumerations(head.headers)
    BY DEF FetchInv, BodyInv
  <2>3. kept = delivered
    BY DEF FetchInv, BodyInv
  <2>. QED
    BY <2>1, <2>2, <2>3 DEF BodyInv
<1>4. EarlyInv' /\ InvokedInv' /\ RunningInv'
  BY <1>2 DEF EarlyInv, InvokedInv, RunningInv, Early, Running, Bodied
<1>5. phase' # "ended" /\ phase # "ended"
  BY DEF Running, Bodied
<1>. QED
  BY <1>1, <1>3, <1>4, <1>5, InnerStep

\* The rest of exchange().
LEMMA ExchangeStep ==
  ASSUME FetchInv, Begin \/ TakeHead \/ OpenBody \/ Read \/ Pause \/ TakeEnd \/ TakeFailure \/ Resume
  PROVE  [InvokeNext]_invokeVars /\ FetchInv'
<1>1. phase \in Running \cup {"invoke"} /\ step = "entered" => controller = "live"
  BY DEF FetchInv, RunningInv, InvokedInv
<1>2. Answer => InvokeNext
  BY DEF InvokeNext
<1>3. CASE Begin
  <2>1. phase = "invoke" /\ step = "entered" /\ UNCHANGED <<head, listed, kept, turns, delivered>>
    BY <1>3 DEF Begin
  <2>2. CASE End(NoResponse("NotStarted"), TRUE) \/ End(NoResponse("Unknown"), TRUE)
    BY <1>2, <2>1, <2>2, NoResponseStep DEF Uploads
  <2>3. CASE Watch("head", {FALSE}) /\ UNCHANGED <<invokeVars, controller, reader, queued>>
    <3>1. phase' = "head" /\ observed' = None
      BY <2>3 DEF Watch
    <3>2. reader \in {None, "locked", "released"}
      BY DEF FetchInv, FetchTypeOK
    <3>. QED
      BY <1>1, <2>1, <2>3, <3>1, <3>2, WatchStep DEF Running, Bodied
  <2>. QED
    BY <1>3, <2>2, <2>3 DEF Begin
<1>4. CASE TakeHead
  <2>1. phase = "head" /\ step = "entered" /\ UNCHANGED <<observed, buffered, kept, turns, delivered>>
    BY <1>4 DEF TakeHead, Awaiting
  <2>2. CASE End(NoResponse("Unknown"), TRUE) /\ UNCHANGED <<head, listed>>
    BY <1>2, <2>1, <2>2, NoResponseStep DEF Uploads
  <2>3. CASE /\ Got("head") /\ head' = observed.value
             /\ listed' \in Enumerations(observed.value.headers) /\ phase' = "open"
             /\ UNCHANGED <<invokeVars, controller, reader, queued>>
    <3>1. head' \in Heads
      BY <2>1, <2>3 DEF Got, FetchInv, BodyInv, Results, Result
    <3>2. FetchTypeOK' /\ (turns < YieldEvery)'
      BY <2>1, <2>3, <3>1 DEF FetchInv, FetchTypeOK
    <3>3. step' = step
      BY <2>3 DEF invokeVars
    <3>4. kept = 0 /\ delivered = 0 /\ reader = None
      BY <2>1 DEF FetchInv, BodyInv
    <3>5. EarlyInv' /\ InvokedInv' /\ RunningInv' /\ BodyInv'
      BY <1>1, <2>1, <2>3, <3>1, <3>3, <3>4
      DEF EarlyInv, InvokedInv, RunningInv, BodyInv, Early, Running, Bodied
    <3>. QED
      BY <2>1, <2>3, <3>2, <3>5, InnerStep
  <2>. QED
    BY <1>4, <2>2, <2>3 DEF TakeHead
<1>5. CASE OpenBody
  <2>1. /\ phase = "open" /\ step = "entered"
        /\ UNCHANGED <<observed, buffered, head, listed, kept, turns, delivered>>
    BY <1>5 DEF OpenBody
  <2>2. head.body \in {"null", "locked", "stream"}
    BY <2>1, FetchAssumption DEF FetchInv, BodyInv
  <2>3. CASE head.body = "null"
    BY <1>2, <1>5, <2>1, <2>3, CompleteStep DEF OpenBody
  <2>4. CASE head.body = "locked"
    BY <1>2, <1>5, <2>1, <2>4, FailedStep DEF OpenBody
  <2>5. CASE head.body = "stream"
    <3>1. reader' = "locked" /\ phase' = "loop" /\ UNCHANGED <<invokeVars, controller, queued>>
      BY <1>5, <2>5 DEF OpenBody
    <3>. QED
      BY <1>1, <2>1, <3>1, WatchStep DEF Running, Bodied
  <2>. QED
    BY <2>2, <2>3, <2>4, <2>5
<1>6. CASE Read \/ Pause
  <2>1. phase \in {"loop", "pause"} /\ step = "entered" /\ UNCHANGED <<head, listed, kept, turns, delivered>>
    BY <1>6 DEF Read, Pause
  <2>2. CASE FailedBody
    BY <1>2, <2>1, <2>2, FailedStep DEF Bodied
  <2>3. CASE (Watch("read", BOOLEAN) \/ Watch("yield", {FALSE})) /\ UNCHANGED <<invokeVars, controller, reader, queued>>
    <3>1. phase' \in {"read", "yield"} /\ observed' = None
      BY <2>3 DEF Watch
    <3>2. reader \in {None, "locked", "released"}
      BY DEF FetchInv, FetchTypeOK
    <3>. QED
      BY <1>1, <2>1, <2>3, <3>1, <3>2, WatchStep DEF Running, Bodied
  <2>. QED
    BY <1>6, <2>2, <2>3 DEF Read, Pause
<1>7. CASE TakeEnd
  <2>1. /\ phase = "read" /\ Got("done") /\ CompleteBody
        /\ UNCHANGED <<observed, buffered, head, listed, kept, turns, delivered>>
    BY <1>7 DEF TakeEnd, Awaiting
  <2>. QED
    BY <1>2, <2>1, CompleteStep DEF Bodied
<1>8. CASE TakeFailure
  <2>1. /\ phase \in {"read", "yield"} /\ FailedBody
        /\ UNCHANGED <<observed, buffered, head, listed, kept, turns, delivered>>
    BY <1>8 DEF TakeFailure, Awaiting
  <2>. QED
    BY <1>2, <2>1, FailedStep DEF Bodied
<1>9. CASE Resume
  <2>1. /\ phase = "yield" /\ step = "entered" /\ phase' = "loop"
        /\ UNCHANGED <<invokeVars, observed, buffered, hostVars, queued>>
    BY <1>9 DEF Resume, Awaiting
  <2>2. reader \in {None, "locked", "released"}
    BY DEF FetchInv, FetchTypeOK
  <2>. QED
    BY <1>1, <2>1, <2>2, WatchStep DEF Running, Bodied, hostVars
<1>. QED
  BY <1>3, <1>4, <1>5, <1>6, <1>7, <1>8, <1>9

\* The event loop settles what is watched, or queues a task.
LEMMA LoopStep ==
  ASSUME FetchInv, Settle \/ Deliver \/ Fire \/ Queue
  PROVE  [InvokeNext]_invokeVars /\ FetchInv'
<1>1. CASE Queue
  <2>1. UNCHANGED <<invokeVars, phase, observed, head, listed, kept, turns, delivered, controller, reader>>
    BY <1>1 DEF Queue, loopVars, hostVars
  <2>2. FetchTypeOK' /\ (turns < YieldEvery)'
    BY <2>1 DEF FetchInv, FetchTypeOK
  <2>3. Results' = Results /\ step' = step
    BY <2>1 DEF Results, invokeVars
  <2>4. EarlyInv' /\ InvokedInv' /\ RunningInv' /\ BodyInv'
    BY <2>1, <2>3 DEF FetchInv, EarlyInv, InvokedInv, RunningInv, BodyInv
  <2>. QED
    BY <2>1, <2>2, <2>4, InnerStep
<1>2. CASE Settle \/ Deliver \/ Fire
  <2>1. /\ phase \in {"head", "read", "yield"} /\ step = "entered" /\ observed' \in Results
        /\ UNCHANGED <<invokeVars, phase, hostVars>>
    BY <1>2 DEF Settle, Deliver, Fire, Idle, Watching, SettleWith
  <2>2. Results' = Results
    BY <2>1 DEF Results
  <2>3. reader \in {None, "locked", "released"} /\ controller = "live"
    BY <2>1 DEF FetchInv, FetchTypeOK, RunningInv, Running, Bodied
  <2>. QED
    BY <2>1, <2>2, <2>3, WatchStep DEF Running, Bodied, hostVars
<1>. QED
  BY <1>1, <1>2

LEMMA FetchStep == FetchInv /\ [Next]_fetchVars => [InvokeNext]_invokeVars /\ FetchInv'
<1>1. ASSUME FetchInv, UNCHANGED fetchVars PROVE [InvokeNext]_invokeVars /\ FetchInv'
  <2>1. UNCHANGED <<invokeVars, phase, observed, head, listed, kept, turns, delivered, controller, reader>>
    BY <1>1 DEF fetchVars, invokeVars
  <2>2. FetchTypeOK' /\ (turns < YieldEvery)'
    BY <1>1, <2>1 DEF FetchInv, FetchTypeOK
  <2>3. Results' = Results /\ step' = step
    BY <2>1 DEF Results, invokeVars
  <2>4. EarlyInv' /\ InvokedInv' /\ RunningInv' /\ BodyInv'
    BY <1>1, <2>1, <2>3 DEF FetchInv, EarlyInv, InvokedInv, RunningInv, BodyInv
  <2>. QED
    BY <1>1, <2>1, <2>2, <2>4, InnerStep
<1>. QED
  BY <1>1, OuterStep, InvocationStep, ChunkStep, ExchangeStep, LoopStep DEF Next, Runs

LEMMA FetchInvariance == Spec => []FetchInv
BY InitFetch, FetchStep, PTL DEF Spec

-----------------------------------------------------------------------------
(* What callers rely on *)

LEMMA OutcomeOrigin ==
  ASSUME FetchInv, outcome # None
  PROVE  \/ outcome.response = None
         \/ /\ phase = "ended" /\ Evidence(answer)
            /\ outcome.error = Error(answer, outcome.response)
            /\ outcome.response = IF answer.response = None THEN None ELSE Received(answer.response)
<1>1. /\ step = "done"
      /\ \/ Untried /\ \E code, c : outcome = Declined(code, c)
         \/ Tried /\ \E c \in BOOLEAN : outcome = Concluded(answer, c)
  BY DEF FetchInv, InvokeInv, CallOK, Steps
<1>2. CASE Untried /\ \E code, c : outcome = Declined(code, c)
  BY <1>2, DeclinedIsEmpty
<1>3. CASE Tried /\ \E c \in BOOLEAN : outcome = Concluded(answer, c)
  <2>1. phase = "ended" /\ Evidence(answer)
    BY <1>1, <1>3 DEF Tried, FetchInv, EndedInv
  <2>. QED
    BY <1>3, <2>1, ConcludedIsAnswer
<1>. QED
  BY <1>1, <1>2, <1>3

LEMMA GuardInv == FetchInv => GuardCleansUp
<1> SUFFICES ASSUME FetchInv PROVE GuardCleansUp
  OBVIOUS
<1>1. step \in Steps /\ (step = "gone" => entered = 1 /\ answer = None)
  BY DEF FetchInv, InvokeInv, CallOK
<1>2. CASE phase \in Early \cup {"invoke"}
  <2>1. /\ step \notin {"gone", "answered"} /\ (step # "done" => controller # "aborted")
        /\ step = "done" => controller \in {None, "aborted"} /\ entered = 0
        /\ reader = None
    BY <1>2, FetchAssumption DEF FetchInv, EarlyInv, InvokedInv, BodyInv, Early
  <2>2. step = "done" => answer = None
    BY <2>1 DEF FetchInv, InvokeInv, CallOK, Untried, Tried
  <2>. QED
    BY <2>1, <2>2, FetchAssumption DEF GuardCleansUp
<1>3. CASE phase \in Running
  BY <1>1, <1>3, FetchAssumption DEF FetchInv, RunningInv, GuardCleansUp
<1>4. CASE phase = "ended"
  <2>1. /\ (controller = IF Whole(answer) THEN "live" ELSE "aborted") /\ reader # "locked"
        /\ step \in {"answered", "done"} /\ Evidence(answer)
    BY <1>4 DEF FetchInv, EndedInv
  <2>2. answer # None
    <3>1. CASE \E u \in Uploads : answer = NoResponse(u)
      BY <3>1, FetchAssumption DEF Reports
    <3>2. CASE \E b \in 0..MaxBody, s \in BodyStates, f \in BOOLEAN :
                 answer = Response(b, s, f) /\ head \in Heads /\ listed \in Enumerations(head.headers)
      BY <3>2, FetchAssumption, ReportIsKnown DEF Response
    <3>. QED
      BY <2>1, <3>1, <3>2 DEF Evidence
  <2>. QED
    BY <2>1, <2>2 DEF GuardCleansUp, Whole
<1>. QED
  BY <1>2, <1>3, <1>4 DEF FetchInv, FetchTypeOK, Early, Running, Bodied

\* The longest beginning is enumerated whole, or said to be incomplete.
LEMMA EnumeratedFits ==
  ASSUME NEW headers, HeaderList(headers), NEW list \in Enumerations(headers)
  PROVE  /\ HeaderList(list.headers)
         /\ Retained(list.headers).omitted = 0 /\ Retained(list.headers).kept = list.headers
         /\ list.delivery \in {"Complete", "Incomplete"}
         /\ Len(list.headers) < Len(headers) => list.delivery = "Incomplete"
<1>1. Len(headers) \in Nat
  BY LenProperties DEF HeaderList
<1>2. PICK n \in Fitting(headers), d \in {"Complete", "Incomplete"} :
        list = [headers |-> SubSeq(headers, 1, n), delivery |-> d]
  BY DEF Enumerations
<1>3. n \in 0..Len(headers) /\ n <= MaxHeaders /\ Sums(Sizes(headers))[n] <= MaxHeaderBytes
  BY DEF Fitting
<1>4. /\ HeaderList(list.headers) /\ Len(list.headers) = n
      /\ Retained(list.headers).omitted = 0 /\ Retained(list.headers).kept = list.headers
  BY <1>2, <1>3, FittingIsWhole
<1>5. ASSUME n < Len(headers) PROVE d = "Incomplete"
  <2>1. n \in 0..(Len(headers) - 1)
    BY <1>1, <1>3, <1>5
  <2>2. list \notin {[headers |-> SubSeq(headers, 1, m), delivery |-> "Complete"] :
                       m \in 0..(Len(headers) - 1)}
    BY DEF Enumerations
  <2>. QED
    BY <1>2, <2>1, <2>2
<1>. QED
  BY <1>2, <1>4, <1>5

LEMMA HostBodyInv == FetchInv => HostBodyIsEvidence
<1> SUFFICES ASSUME FetchInv, outcome # None, outcome.response # None
             PROVE  LET input == outcome.response.input
                    IN  /\ input.bodyState = "Complete" =>
                             /\ input.bytes = delivered
                             /\ head.body = "null" \/ Got("done")
                        /\ input.bodyState = "Truncated" => (delivered > MaxBody /\ input.bytes = MaxBody)
                        /\ input.bodyState = "Failed" => (outcome.error # None /\ input.bytes = delivered)
                        /\ outcome.response.omitted = 0
                        /\ Len(input.headers) < Len(head.headers) => input.delivery = "Incomplete"
  BY DEF HostBodyIsEvidence
<1> DEFINE given == answer.response
           on == outcome.response
           all == listed.headers
<1>1. given # None /\ on = Received(given) /\ Evidence(answer) /\ outcome.error = Error(answer, on)
  BY OutcomeOrigin
<1>2. PICK b \in 0..MaxBody, s \in BodyStates, f \in BOOLEAN :
        /\ answer = Response(b, s, f) /\ head \in Heads /\ listed \in Enumerations(head.headers)
        /\ s = "Complete" => b = delivered /\ (head.body = "null" \/ Got("done"))
        /\ s = "Truncated" => delivered > MaxBody /\ b = MaxBody
        /\ s = "Failed" => f /\ b = delivered
  BY <1>1 DEF Evidence, NoResponse
<1>3. /\ given.bytes = b /\ given.bodyState = s /\ given.headers = all /\ answer.failed = f
      /\ given.delivery = listed.delivery
      /\ DOMAIN given = {"status", "opaque", "headers", "bytes", "bodyState", "json",
                         "provenance", "fidelity", "delivery"}
  BY <1>2 DEF Response, Report
<1>4. /\ HeaderList(all) /\ Retained(all).omitted = 0 /\ Retained(all).kept = all
      /\ Len(all) < Len(head.headers) => listed.delivery = "Incomplete"
  <2>1. HeaderList(head.headers)
    BY <1>2, FetchAssumption
  <2>. QED
    BY <1>2, <2>1, EnumeratedFits
<1>5. MaxBody \in Nat
  BY InvokeAssumption
<1> HIDE DEF given, all
<1>6. HostResponse(given) /\ given.bytes <= MaxBody
  BY <1>3, <1>4, <1>5 DEF HostResponse
<1>7. /\ on.input.bytes = b /\ on.input.bodyState = s /\ on.input.headers = all /\ on.omitted = 0
      /\ on.input.delivery = given.delivery
  BY <1>1, <1>3, <1>4, <1>6, ReceivedWithin
<1>8. f => outcome.error # None
  BY <1>1, <1>3, InvokeAssumption DEF Error, Codes
<1>. QED
  BY <1>2, <1>3, <1>4, <1>7, <1>8

\* execute() is one invocation, step by step: the head, the reads, the yields and
\* the host's tasks all happen inside the callback.
THEOREM FetchInvokes == Spec => ImplementsInvocation
<1>1. Init => InvokeInit
  BY DEF Init
<1>. QED
  BY <1>1, FetchStep, FetchInvariance, PTL DEF Spec, InvokeSpec, ImplementsInvocation

\* The outcome's body state is what the host delivered, and the guard releases the
\* reader and aborts exactly the requests whose body is not known to be complete,
\* whichever way the call ends (fetch transport, execute, exchange and Guard::drop).
THEOREM FetchTheorem == Spec => []FetchIsHonest
<1>1. FetchInv => FetchIsHonest
  BY GuardInv, HostBodyInv DEF FetchInv, FetchIsHonest
<1>. QED
  BY <1>1, FetchInvariance, PTL

\* So the Fetch transport's outcome is honest evidence of the invocation.
THEOREM FetchOutcomeTheorem == Spec => []OutcomeIsHonest
BY FetchInvokes, OutcomeTheorem, PTL DEF ImplementsInvocation

\* It reports every cancellation that came before it.
THEOREM FetchCancellationTheorem == Spec => CancellationIsReported
BY FetchInvokes, CancellationTheorem, PTL DEF ImplementsInvocation
=============================================================================
