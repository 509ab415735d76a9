----------------------------- MODULE Invocation -----------------------------
(***************************************************************************)
(* One call of PreparedRequest::invoke_with_replay                         *)
(* (rust/client/src/transport.rs): admission, one entry of the host's      *)
(* callback, the bounds on what it answers, and the immutable outcome that *)
(* callers read afterwards. The token may be cancelled at any moment by    *)
(* another thread, and the caller may drop the future while it waits.      *)
(*                                                                         *)
(* Sizes are counted in units, text is what its reader makes of it.        *)
(***************************************************************************)
EXTENDS Integers, FiniteSets, SequencesExt

CONSTANTS Requests,     \* the requests that preparation may have produced
          Hosts,        \* HostCapabilities the caller may declare
          Answers(_),   \* what the callback may return for a request
          AdapterRefusals,  \* why a transport may refuse before it invokes
          MaxHeaders, MaxHeaderBytes, MaxBody,  \* its Limits
          None

Codings == {"Wire", "Unknown"}        \* provenance that may still be coded

\* A header section whose sizes count, and the response a host hands over.
HeaderList(headers) == /\ headers \in Seq(Range(headers))
                       /\ \A i \in DOMAIN headers : headers[i].size \in Nat
HostResponse(input) ==
  /\ DOMAIN input = {"status", "opaque", "headers", "bytes", "bodyState", "json",
                     "provenance", "fidelity", "delivery"}
  /\ input.bytes \in Nat /\ HeaderList(input.headers)

\* The codes of this module: refusals, failures, and what decoding refuses.
Codes == {"Redirects", "AmbientAuth", "ExactTargets", "EncodedDotSegment", "ForbiddenHeader",
          "InvalidHeader", "Replay", "Cancelled", "OpaqueRedirect", "TransportFailure",
          "InvalidHostEvidence", "HttpStatus", "IncompleteHeaders", "IncompleteBody", "EmptyBody",
          "InvalidMedia", "UnsupportedMedia", "UnsupportedCoding", "InvalidJson"}

\* None is no diagnostic, and a transport's own refusals name no cancellation.
ASSUME InvokeAssumption ==
  /\ {MaxHeaders, MaxHeaderBytes, MaxBody} \subseteq Nat
  /\ None \notin Codes \cup {"value"}
  /\ AdapterRefusals \cap {None, "Cancelled", "value"} = {}
  /\ \A h \in Hosts : h.noRetries \in BOOLEAN
  /\ \A r \in Requests : \A a \in Answers(r) :
       /\ a.failed \in BOOLEAN
       /\ a.response # None => HostResponse(a.response)

VARIABLES request,    \* the request being invoked
          host,       \* the caller's HostCapabilities
          replay,     \* its ReplayPolicy
          token,      \* whether the Cancellation is cancelled
          step,       \* where the call is
          entered,    \* how often its callback was entered
          answer,     \* the TransportResult, or None
          outcome     \* the Outcome, or None

callVars == <<request, host, replay>>
invokeVars == <<request, host, replay, token, step, entered, answer, outcome>>

Steps == {"ready", "admit", "refused", "entered", "answered", "done", "gone"}

Start(r) == /\ request = r
            /\ host \in Hosts
            /\ replay \in {"RequireNoReplay", "AllowHostManaged"}
            /\ token = FALSE
            /\ step = "ready"
            /\ entered = 0
            /\ answer = None
            /\ outcome = None

InvokeInit == \E r \in Requests : Start(r)

-----------------------------------------------------------------------------
(* Admission *)

\* The code of the first check that fails, None when all of them pass.
FirstBad(checks) ==
  LET bad == {i \in DOMAIN checks : checks[i].bad}
  IN  IF bad = {} THEN None ELSE checks[CHOOSE i \in bad : \A j \in bad : i <= j].code

\* HostCapabilities::admit_with_replay, after its check that the target has an
\* http(s) origin, which preparation and redirects have established.
ReplayRefused == ~host.noRetries /\ replay # "AllowHostManaged"

Refusal(r) == FirstBad(<<
  [bad |-> ~host.noRedirects, code |-> "Redirects"],
  [bad |-> ~host.noAmbientAuth, code |-> "AmbientAuth"],
  [bad |-> ~host.exactTargets, code |-> "ExactTargets"],
  [bad |-> ~host.encodedDots /\ r.dots, code |-> "EncodedDotSegment"],
  [bad |-> \E h \in r.headers : h.name \in host.forbidden, code |-> "ForbiddenHeader"],
  [bad |-> \E h \in r.headers : ~h.valid, code |-> "InvalidHeader"],
  [bad |-> ReplayRefused, code |-> "Replay"]>>)

Assurance == IF host.noRetries THEN "NoReplayDeclared" ELSE "HostManaged"

NotDispatched(code) ==
  [dispatch |-> "NotDispatched", upload |-> "NotStarted", response |-> None,
   error |-> code, cancelled |-> token, assurance |-> None]

\* A transport built on this crate refuses before it calls invoke, for a reason of
\* its own or because it saw the token cancelled.
AdapterRefuse == /\ step = "ready"
                 /\ \E code \in AdapterRefusals \cup {c \in {"Cancelled"} : token} :
                      outcome' = NotDispatched(code)
                 /\ step' = "done"
                 /\ UNCHANGED <<callVars, token, entered, answer>>

\* cancellation.check(), then the host's declaration.
CheckToken == /\ step = "ready"
              /\ step' = IF token THEN "refused" ELSE "admit"
              /\ UNCHANGED <<callVars, token, entered, answer, outcome>>

\* An admitted request enters the callback.
Enter == /\ step = "admit"
         /\ Refusal(request) = None
         /\ step' = "entered"
         /\ entered' = entered + 1
         /\ UNCHANGED <<callVars, token, answer, outcome>>

\* The outcome of a refusal reads the token once more.
Refuse == /\ \/ /\ step = "admit"
                /\ Refusal(request) # None
                /\ outcome' = NotDispatched(Refusal(request))
             \/ step = "refused" /\ outcome' = NotDispatched("Cancelled")
          /\ step' = "done"
          /\ UNCHANGED <<callVars, token, entered, answer>>

-----------------------------------------------------------------------------
(* Evidence *)

\* Whole entries are kept while both bounds allow; others are counted. Slip:
\* an entry past the byte bound is forgotten.
Full(acc) == Len(acc.kept) >= MaxHeaders
KeepSilently(acc, h) ==
  IF Full(acc) \/ acc.bytes + h.size > MaxHeaderBytes
  THEN acc
  ELSE [acc EXCEPT !.kept = Append(@, h), !.bytes = @ + h.size]
Keep(acc, h) ==
  IF Full(acc) \/ acc.bytes + h.size > MaxHeaderBytes
  THEN [acc EXCEPT !.omitted = @ + 1]
  ELSE [acc EXCEPT !.kept = Append(@, h), !.bytes = @ + h.size]

Retained(headers) ==
  LET after[n \in 0..Len(headers)] == IF n = 0 THEN [kept |-> <<>>, bytes |-> 0, omitted |-> 0]
                                      ELSE Keep(after[n - 1], headers[n])
  IN  after[Len(headers)]

\* What the first n of some sizes come to, for each n.
Sums(sizes) ==
  LET upTo[n \in 0..Len(sizes)] == IF n = 0 THEN 0 ELSE upTo[n - 1] + sizes[n]
  IN  upTo
Sizes(headers) == [i \in DOMAIN headers |-> headers[i].size]

\* What is wrong with the evidence itself.
Validation(input, kept) ==
  IF input.opaque THEN "OpaqueRedirect"
  ELSE IF \/ input.status \notin 100..599
          \/ \E i \in DOMAIN kept : ~kept[i].valid
          \/ input.fidelity = "ExactFields" /\ input.delivery = "Incomplete"
       THEN "InvalidHostEvidence"
       ELSE None

\* The body is cut at its bound, and says so.
Cut(input) ==
  IF input.bytes > MaxBody
  THEN [input EXCEPT !.bytes = MaxBody, !.bodyState = "Truncated"]
  ELSE input

Received(input) ==
  LET r == Retained(input.headers)
  IN  [input |-> [Cut(input) EXCEPT !.headers = r.kept],
       validation |-> Validation(input, r.kept),
       omitted |-> r.omitted]

\* The selected diagnostic: the host's failure, then the evidence's, then none
\* at all being there.
Error(result, response) ==
  IF result.failed THEN "TransportFailure"
  ELSE IF response = None THEN "InvalidHostEvidence"
  ELSE response.validation

\* The callback's future resolves.
Answer == /\ step = "entered"
          /\ \E a \in Answers(request) : answer' = a
          /\ step' = "answered"
          /\ UNCHANGED <<callVars, token, entered, outcome>>

\* The outcome: the token is read again, after everything else. Slip: what was
\* read at admission still counts.
FinishStale ==
  LET response == IF answer.response = None THEN None ELSE Received(answer.response)
  IN  /\ step = "answered"
      /\ outcome' = [dispatch |-> "Dispatched", upload |-> answer.upload,
                     response |-> response, error |-> Error(answer, response),
                     cancelled |-> FALSE, assurance |-> Assurance]
      /\ step' = "done"
      /\ UNCHANGED <<callVars, token, entered, answer>>
Finish ==
  LET response == IF answer.response = None THEN None ELSE Received(answer.response)
  IN  /\ step = "answered"
      /\ outcome' = [dispatch |-> "Dispatched", upload |-> answer.upload,
                     response |-> response, error |-> Error(answer, response),
                     cancelled |-> token, assurance |-> Assurance]
      /\ step' = "done"
      /\ UNCHANGED <<callVars, token, entered, answer>>

Cancel == /\ ~token
          /\ token' = TRUE
          /\ UNCHANGED <<callVars, step, entered, answer, outcome>>

\* The caller drops the future while the callback is pending: no outcome.
Drop == /\ step = "entered"
        /\ step' = "gone"
        /\ UNCHANGED <<callVars, token, entered, answer, outcome>>

InvokeNext == AdapterRefuse \/ CheckToken \/ Enter \/ Refuse \/ Answer \/ Finish \/ Cancel \/ Drop

\* A host that neither answers nor is dropped leaves the call pending for ever.
InvokeSpec == InvokeInit /\ [][InvokeNext]_invokeVars

-----------------------------------------------------------------------------
(* Reading the outcome *)

Named(headers, name) == {i \in DOMAIN headers : headers[i].name = name}

\* ReceivedResponse::decode: "value" stands for the parsed body.
Decode(received) ==
  LET input == received.input
      value(i) == input.headers[i].value
      types == Named(input.headers, "content-type")
      codings == Named(input.headers, "content-encoding")
      refused == FirstBad(<<
        [bad |-> received.validation # None, code |-> received.validation],
        [bad |-> input.delivery = "Incomplete" \/ received.omitted > 0, code |-> "IncompleteHeaders"],
        [bad |-> input.bodyState # "Complete", code |-> "IncompleteBody"],
        [bad |-> input.bytes = 0, code |-> "EmptyBody"],
        [bad |-> Cardinality(types) # 1 \/ \E i \in types : value(i) = "garbage", code |-> "InvalidMedia"],
        [bad |-> \E i \in types : value(i) # "json", code |-> "UnsupportedMedia"],
        [bad |-> input.provenance \in Codings /\ \E i \in codings : value(i) # "identity",
         code |-> "UnsupportedCoding"],
        [bad |-> ~input.json, code |-> "InvalidJson"]>>)
  IN  IF refused = None THEN "value" ELSE refused

\* Outcome::body_json and received_2xx_json_exact.
BodyJson(o) == IF o.response = None THEN "InvalidHostEvidence" ELSE Decode(o.response)
Received2xx(o) ==
  LET refused == FirstBad(<<
        [bad |-> o.error # None, code |-> o.error],
        [bad |-> o.cancelled, code |-> "Cancelled"],
        [bad |-> o.dispatch # "Dispatched" \/ o.response = None, code |-> "InvalidHostEvidence"],
        [bad |-> o.response # None /\ o.response.input.status \notin 200..299, code |-> "HttpStatus"]>>)
  IN  IF refused = None THEN BodyJson(o) ELSE refused

-----------------------------------------------------------------------------
(* Properties *)

\* Each variable holds what the code can put there; what is retained of a
\* response stays within ResponseAdmission.
TypeOK ==
  /\ request \in Requests /\ host \in Hosts
  /\ token \in BOOLEAN /\ step \in Steps /\ entered \in 0..1
  /\ answer \in Answers(request) \cup {None}
  /\ outcome # None =>
       /\ outcome.dispatch \in {"Dispatched", "NotDispatched"}
       /\ outcome.cancelled \in BOOLEAN
       /\ outcome.response # None =>
            /\ outcome.response.input.bytes \in 0..MaxBody
            /\ Len(outcome.response.input.headers) <= MaxHeaders

\* The outcome says Dispatched exactly when the callback was entered, and a
\* refused request left no trace: no upload, response or replay declaration.
DispatchIsEvidence ==
  outcome # None =>
    /\ outcome.dispatch = "Dispatched" <=> entered = 1
    /\ outcome.dispatch = "NotDispatched" =>
         /\ answer = None /\ outcome.response = None
         /\ outcome.upload = "NotStarted" /\ outcome.assurance = None
         /\ outcome.error # None
         /\ outcome.error = "Cancelled" => outcome.cancelled

\* The replay declaration on record is the host's own, and a host that may
\* replay was entered only with the caller's permission.
ReplayIsDeclared ==
  entered = 1 => /\ host.noRetries \/ replay = "AllowHostManaged"
                 /\ outcome # None =>
                      (outcome.assurance = "NoReplayDeclared" <=> host.noRetries)

\* Nothing the host supplied disappears unreported: every header is retained or
\* counted, every body that lost bytes is Truncated.
NothingLostSilently ==
  outcome # None /\ outcome.response # None =>
    /\ Len(outcome.response.input.headers) + outcome.response.omitted
         = Len(answer.response.headers)
    /\ outcome.response.input.bytes < answer.response.bytes =>
         outcome.response.input.bodyState = "Truncated"

\* A JSON success stands on all of the evidence as the host supplied it: a
\* dispatched, uncancelled, unfailed 2xx with every header and byte delivered,
\* one JSON media type and no undecoded coding.
SuccessIsWhole ==
  outcome # None /\ Received2xx(outcome) = "value" =>
    LET input == answer.response
        named(n) == {i \in DOMAIN input.headers : input.headers[i].name = n}
    IN  /\ entered = 1 /\ ~answer.failed /\ ~outcome.cancelled
        /\ input.status \in 200..299 /\ ~input.opaque
        /\ input.bodyState = "Complete" /\ input.bytes \in 1..MaxBody /\ input.json
        /\ input.delivery # "Incomplete"
        /\ \A i \in DOMAIN input.headers : input.headers[i].valid
        /\ \E i \in named("content-type") :
             /\ named("content-type") = {i}
             /\ input.headers[i].value = "json"
        /\ input.provenance \in Codings =>
             \A i \in named("content-encoding") : input.headers[i].value = "identity"

\* A token cancelled before the outcome exists is reported by it, however the
\* cancellation races with admission, the callback and its answer.
CancellationIsReported ==
  [](token /\ outcome = None => [](outcome # None => outcome.cancelled))

\* The outcome of an invocation is evidence of it: of what was dispatched, under
\* which replay declaration, and of all that was received (transport.rs, Outcome).
OutcomeIsHonest ==
  TypeOK /\ DispatchIsEvidence /\ ReplayIsDeclared /\ NothingLostSilently /\ SuccessIsWhole
=============================================================================
