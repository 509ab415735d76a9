---------------------------- MODULE FetchExchange ----------------------------
(***************************************************************************)
(* The Fetch transport (rust/fetch/src/platform.rs and host.js) on a       *)
(* single-threaded event loop: microtasks, which continue the Rust future, *)
(* run before any task of the host does, so that a body whose chunks are   *)
(* always ready keeps the host from running unless the loop yields.        *)
(*                                                                         *)
(* Rust code between two awaits is one step. Host promises settle late, or *)
(* never; a read may find its chunk buffered, in which case its promise    *)
(* settles in a microtask.                                                 *)
(***************************************************************************)
EXTENDS Invocation

CONSTANTS Heads,       \* responses: [status, opaque, headers, body, json]
          ChunkSizes,  \* of the chunks a stream may deliver
          YieldEvery   \* completed reads between two yields (32)

VARIABLES phase,       \* where execute() or exchange() is
          observed,    \* the watched promise: its wrapper's result, or None
          buffered,    \* the promise it watches settles in a microtask
          head,        \* the response, None before it arrived
          listed,      \* what enumerating its headers gave
          kept, turns, \* bytes.len() and the reads since the last yield
          delivered,   \* what the stream handed over, counted to MaxBody + 1
          controller,  \* the AbortController: None, "live" or "aborted"
          reader,      \* the body's reader: None, "locked" or "released"
          queued       \* a task of the host that will cancel is in its queue

hostVars == <<head, listed, kept, turns, delivered, controller, reader>>
loopVars == <<phase, observed, buffered>>
fetchVars == <<request, host, replay, token, step, entered, answer, outcome,
               phase, observed, buffered, head, listed, kept, turns, delivered,
               controller, reader, queued>>

Init == /\ InvokeInit
        /\ phase = "check"
        /\ observed = None /\ buffered = FALSE
        /\ head = None /\ listed = None
        /\ kept = 0 /\ turns = 0 /\ delivered = 0
        /\ controller = None /\ reader = None
        /\ queued = FALSE

-----------------------------------------------------------------------------
(* Cleanup *)

\* Guard::drop calls cleanup(): abort unless the body is complete, and release
\* the reader, whatever the other did.
Cleanup(abort) ==
  /\ controller' = IF controller # None /\ abort THEN "aborted" ELSE controller
  /\ reader' = IF reader # None THEN "released" ELSE reader

-----------------------------------------------------------------------------
(* execute() and preflight() *)

Refused(code) == /\ AdapterRefuse
                 /\ outcome' = NotDispatched(code)
                 /\ UNCHANGED <<loopVars, hostVars, queued>>

Passed(next) == /\ step = "ready"
                /\ phase' = next
                /\ UNCHANGED <<invokeVars, observed, buffered, hostVars, queued>>

Check == /\ phase = "check"
         /\ IF token THEN Refused("Cancelled") ELSE Passed("admit")

AdmitProfile == /\ phase = "admit"
                /\ IF Refusal(request) = None THEN Passed("preflight") ELSE Refused(Refusal(request))

\* The checks before there is a controller.
RefuseEarly ==
  /\ phase = "preflight" /\ step = "ready"
  /\ IF request.refused = "Method"
     THEN Refused("Method")
     ELSE Refused("Unavailable") \/ (token /\ Refused("Cancelled"))

\* The host's Request object is compared with what was asked for; a refusal drops
\* the guard.
RefuseLate ==
  /\ phase = "preflight" /\ request.refused # "Method"
  /\ AdapterRefuse
  /\ \E code \in {"Unavailable", "Cancelled", request.refused} \ {None} :
       /\ code = "Cancelled" => token
       /\ outcome' = NotDispatched(code)
  /\ controller' = "aborted"
  /\ UNCHANGED <<loopVars, head, listed, kept, turns, delivered, reader, queued>>

\* Slip: the request is dispatched without the invocation's own admission.
PreflightEnters == /\ phase = "preflight" /\ step = "ready"
                   /\ controller' = "live"
                   /\ phase' = "invoke" /\ step' = "entered" /\ entered' = 1
                   /\ UNCHANGED <<callVars, token, answer, outcome, observed, buffered, head,
                                  listed, kept, turns, delivered, reader, queued>>
Preflight == /\ phase = "preflight" /\ step = "ready"
             /\ request.refused = None
             /\ controller' = "live"
             /\ phase' = "invoke"
             /\ UNCHANGED <<invokeVars, observed, buffered, head, listed, kept, turns, delivered,
                            reader, queued>>

\* invoke_with_replay; a refusal drops the callback and the guard it owns.
Invoke == /\ phase \in {"invoke", "ended"}
          /\ \/ (CheckToken \/ Enter \/ Finish) /\ UNCHANGED <<controller, reader>>
             \/ Refuse /\ Cleanup(TRUE)
          /\ UNCHANGED <<loopVars, head, listed, kept, turns, delivered, queued>>

-----------------------------------------------------------------------------
(* exchange() *)

\* What enumerating the headers may give: whole entries within both bounds, and
\* the end only if it is seen; the host may fail, or the token be cancelled, before.
Fitting(headers) ==
  {n \in 0..Len(headers) :
     /\ n <= MaxHeaders
     /\ Sums(Sizes(headers))[n] <= MaxHeaderBytes}
Enumerations(headers) ==
  {[headers |-> SubSeq(headers, 1, n), delivery |-> d] :
     n \in Fitting(headers), d \in {"Complete", "Incomplete"}}
   \ {[headers |-> SubSeq(headers, 1, n), delivery |-> "Complete"] : n \in 0..(Len(headers) - 1)}

Report(h, list, bytes, state, failed) ==
  [response |->
     [status |-> h.status, opaque |-> h.opaque, headers |-> list.headers,
      bytes |-> bytes, bodyState |-> state, json |-> h.json,
      provenance |-> "HostDelivered", fidelity |-> "HostProcessed",
      delivery |-> list.delivery],
   upload |-> "Unknown", failed |-> failed]
Response(bytes, state, failed) == Report(head, listed, bytes, state, failed)

NoResponse(upload) == [response |-> None, upload |-> upload, failed |-> TRUE]

Uploads == {"NotStarted", "Unknown"}
BodyStates == {"Complete", "Truncated", "Failed"}

Reports == {NoResponse(upload) : upload \in Uploads} \cup
           UNION {{Report(h, list, bytes, state, failed) :
                     list \in Enumerations(h.headers), bytes \in 0..MaxBody,
                     state \in BodyStates, failed \in BOOLEAN} : h \in Heads}

\* The callback is this exchange; sizes of chunks and headers count.
ASSUME FetchAssumption ==
  /\ None \notin Heads \cup {"live", "aborted", "locked", "released"}
  /\ \A h \in Heads : HeaderList(h.headers) /\ h.body \in {"null", "locked", "stream"}
  /\ ChunkSizes \subseteq Nat /\ YieldEvery \in Nat \ {0}
  /\ None \notin Reports /\ \A a \in Reports : ~a.failed => a.response # None
  /\ \A q \in Requests : Reports \subseteq Answers(q)

\* The result resolves the callback's future, after the guard was dropped.
End(result, abort) ==
  /\ step = "entered"
  /\ answer' = result
  /\ step' = "answered" /\ phase' = "ended"
  /\ Cleanup(abort)
  /\ UNCHANGED <<callVars, token, entered, outcome, queued>>

\* Slip: a body that the host says is absent is aborted like an unread one.
FailedBody == End(Response(kept, "Failed", TRUE), TRUE)
CompleteAborts == End(Response(kept, "Complete", FALSE), TRUE)
CompleteBody == End(Response(kept, "Complete", FALSE), FALSE)

\* A new wrapper is watched. Buffered promises settle in a microtask.
Watch(next, soon) == /\ phase' = next
                     /\ observed' = None
                     /\ buffered' \in soon

\* The call of fetch, which may throw.
Begin ==
  /\ phase = "invoke" /\ step = "entered"
  /\ \/ token /\ End(NoResponse("NotStarted"), TRUE) /\ UNCHANGED <<observed, buffered>>
     \/ ~token /\ End(NoResponse("Unknown"), TRUE) /\ UNCHANGED <<observed, buffered>>
     \/ /\ ~token
        /\ Watch("head", {FALSE})
        /\ UNCHANGED <<invokeVars, controller, reader, queued>>
  /\ UNCHANGED <<head, listed, kept, turns, delivered>>

\* wait() polls the token first.
Got(kind) == observed # None /\ observed.kind = kind
Awaiting(p) == phase = p /\ step = "entered" /\ (token \/ observed # None)

\* The response, or the end of the wait for it.
TakeHead ==
  /\ Awaiting("head")
  /\ \/ /\ token \/ Got("rejected")
        /\ End(NoResponse("Unknown"), TRUE)
        /\ UNCHANGED <<head, listed>>
     \/ /\ ~token /\ Got("head")
        /\ head' = observed.value
        /\ listed' \in Enumerations(observed.value.headers)
        /\ phase' = "open"
        /\ UNCHANGED <<invokeVars, controller, reader, queued>>
  /\ UNCHANGED <<observed, buffered, kept, turns, delivered>>

\* body: absent, without a reader, or a stream.
OpenBody ==
  /\ phase = "open" /\ step = "entered"
  /\ CASE head.body = "null" -> CompleteBody
       [] head.body = "locked" -> FailedBody
       [] head.body = "stream" -> /\ reader' = "locked"
                                  /\ phase' = "loop"
                                  /\ UNCHANGED <<invokeVars, controller, queued>>
  /\ UNCHANGED <<observed, buffered, head, listed, kept, turns, delivered>>

\* The head of the body loop: read() may throw.
Read ==
  /\ phase = "loop" /\ step = "entered"
  /\ \/ FailedBody /\ UNCHANGED <<observed, buffered>>
     \/ /\ ~token
        /\ Watch("read", BOOLEAN)
        /\ UNCHANGED <<invokeVars, controller, reader, queued>>
  /\ UNCHANGED <<head, listed, kept, turns, delivered>>

Fits(chunk) == chunk <= MaxBody - kept

\* The reads since the last yield.
Count == turns + 1

\* A chunk is copied as far as it fits.
Copied(chunk) == kept + (IF Fits(chunk) THEN chunk ELSE MaxBody - kept)

Capped(n) == IF n > MaxBody THEN MaxBody + 1 ELSE n

TakeChunk ==
  /\ Awaiting("read") /\ ~token
  /\ Got("chunk")
  /\ kept' = Copied(observed.value)
  /\ delivered' = Capped(delivered + observed.value)
  /\ IF ~Fits(observed.value)
     THEN /\ End(Response(Copied(observed.value), "Truncated", FALSE), TRUE)
          /\ UNCHANGED turns
     ELSE /\ turns' = IF Count = YieldEvery THEN 0 ELSE Count
          /\ phase' = IF Count = YieldEvery THEN "pause" ELSE "loop"
          /\ UNCHANGED <<invokeVars, controller, reader, queued>>
  /\ UNCHANGED <<observed, buffered, head, listed>>

\* yield_task sets a timer, unless it fails.
Pause ==
  /\ phase = "pause" /\ step = "entered"
  /\ \/ FailedBody /\ UNCHANGED <<observed, buffered>>
     \/ /\ Watch("yield", {FALSE})
        /\ UNCHANGED <<invokeVars, controller, reader, queued>>
  /\ UNCHANGED <<head, listed, kept, turns, delivered>>

TakeEnd ==
  /\ Awaiting("read") /\ ~token
  /\ Got("done")
  /\ CompleteBody
  /\ UNCHANGED <<observed, buffered, head, listed, kept, turns, delivered>>

\* A rejected or malformed read, or the token seen by either wait.
TakeFailure ==
  /\ \/ Awaiting("read") /\ (token \/ Got("rejected"))
     \/ Awaiting("yield") /\ token
  /\ FailedBody
  /\ UNCHANGED <<observed, buffered, head, listed, kept, turns, delivered>>

Resume ==
  /\ Awaiting("yield") /\ ~token
  /\ phase' = "loop"
  /\ UNCHANGED <<invokeVars, observed, buffered, hostVars, queued>>

-----------------------------------------------------------------------------
(* The event loop and the host *)

Watching == phase \in {"head", "read", "yield"} /\ step = "entered"

\* What the wrapper can be settled with; stop() settles it for nobody.
Result(kind, values) == {[kind |-> kind, value |-> v] : v \in values}
Results == CASE phase = "head" -> Result("head", Heads) \cup Result("rejected", {None})
             [] phase = "read" -> Result("chunk", ChunkSizes)
                                    \cup Result("done", {None}) \cup Result("rejected", {None})
             [] phase = "yield" -> Result("fired", {None})

SettleWith(results) == /\ observed' \in results
                       /\ buffered' = FALSE
                       /\ UNCHANGED <<invokeVars, phase, hostVars, queued>>

Settle == Watching /\ observed = None /\ buffered /\ SettleWith(Results)

\* No microtask is left: the loop may run a task.
Idle == Watching /\ observed = None /\ ~buffered /\ ~token

\* Network and timer tasks.
Deliver == Idle /\ phase # "yield" /\ SettleWith(Results)
Fire == Idle /\ phase = "yield" /\ SettleWith(Results)

Queue == /\ ~queued /\ ~token /\ step = "entered"
         /\ queued' = TRUE
         /\ UNCHANGED <<invokeVars, loopVars, hostVars>>

RunQueued == /\ Idle /\ queued
             /\ Cancel
             /\ queued' = FALSE
             /\ UNCHANGED <<loopVars, hostVars>>

\* Code of the host that Rust calls, its microtasks and its other tasks may cancel too.
CancelElsewhere == Cancel /\ UNCHANGED <<loopVars, hostVars, queued>>

\* The owner drops the future at an await: its Wait and then the guard go.
Abandon == /\ Watching
           /\ Drop
           /\ Cleanup(TRUE)
           /\ UNCHANGED <<loopVars, head, listed, kept, turns, delivered, queued>>

-----------------------------------------------------------------------------

\* The Rust future and what settles in microtasks.
Runs == \/ Check \/ AdmitProfile \/ RefuseEarly \/ RefuseLate \/ Preflight \/ Invoke
        \/ Begin \/ TakeHead \/ OpenBody \/ Read \/ TakeChunk \/ Pause \/ TakeEnd
        \/ TakeFailure \/ Resume \/ Settle

Next == Runs \/ Deliver \/ Fire \/ Queue \/ RunQueued \/ CancelElsewhere \/ Abandon

\* "The embedding must continue running its event loop" (rust/fetch/README.md):
\* microtasks and timers run, and no task stays in its queue while the loop takes
\* others for ever. The network owes nothing.
Spec == /\ Init /\ [][Next]_fetchVars
        /\ WF_fetchVars(Runs) /\ WF_fetchVars(Fire)
        /\ SF_fetchVars(RunQueued)

-----------------------------------------------------------------------------
(* Properties *)

\* The exchange's own variables; it never holds more than ResponseAdmission allows.
FetchTypeOK ==
  /\ phase \in {"check", "admit", "preflight", "invoke", "head", "open", "loop", "read",
                "pause", "yield", "ended"}
  /\ head \in Heads \cup {None}
  /\ kept \in 0..MaxBody /\ delivered \in 0..(MaxBody + 1) /\ turns \in 0..YieldEvery
  /\ controller \in {None, "live", "aborted"} /\ reader \in {None, "locked", "released"}

\* Whichever way a call ends (refused before or by the invocation, answered, or
\* dropped at an await), its reader is released, and its request is aborted
\* exactly when the body is not known to be complete; never before.
GuardCleansUp ==
  LET over == step \in {"answered", "done", "gone"}
      complete == answer # None /\ answer.response # None /\ answer.response.bodyState = "Complete"
  IN  /\ over => reader # "locked"
      /\ controller = "aborted" => over
      /\ (over /\ controller # None) => (controller = "live" <=> complete)

\* The body state of an exchange that ended is what the host delivered: all of a
\* stream that ended, the bound's worth of a longer one, or a failure with a
\* diagnostic.
HostBodyIsEvidence ==
  phase = "ended" /\ outcome # None /\ outcome.response # None =>
    LET input == outcome.response.input
    IN  /\ input.bodyState = "Complete" =>
             /\ input.bytes = delivered
             /\ head.body = "null" \/ Got("done")
        /\ input.bodyState = "Truncated" => (delivered > MaxBody /\ input.bytes = MaxBody)
        /\ input.bodyState = "Failed" => (outcome.error # None /\ input.bytes = delivered)
        /\ outcome.response.omitted = 0
        /\ Len(input.headers) < Len(head.headers) => input.delivery = "Incomplete"

\* execute() is one invocation.
ImplementsInvocation == InvokeSpec

\* A task of the host that will cancel gets to run, and the call ends, even while a
\* stream delivers empty chunks without a pause ("a task yield after 32 completed
\* read iterations permits event-loop cancellation", rust/fetch/README.md).
CancelIsHeard == (queued /\ step = "entered") ~> (step \in {"done", "gone"})

\* What the outcome says of the body is what the host delivered, and what the guard
\* holds is released (fetch transport, execute).
FetchIsHonest == FetchTypeOK /\ GuardCleansUp /\ HostBodyIsEvidence

\* The exchange is an invocation, and a cancelling host task is heard.
FetchIsCancellable == ImplementsInvocation /\ CancelIsHeard
=============================================================================
