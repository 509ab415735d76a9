---------------------------- MODULE MCInvocation ----------------------------
(* One invocation with every kind of callback, and with the one the fetch      *)
(* transport gives it. A behaviour is about one of them.                       *)
(*                                                                             *)
(* Any callback: every combination of host declarations, requests with and     *)
(* without what a host may refuse, answers on both sides of each bound and      *)
(* check. The fetch transport: requests that the profile, the host's Request   *)
(* object or nothing refuses; responses without a body, with a locked one and  *)
(* with streams of empty and non-empty chunks below, at and above the bound,   *)
(* for as long as they like.                                                   *)
EXTENDS FetchExchange, TLC

VARIABLE topic   \* "callback" or "fetch"

Line(n, v, s) == [name |-> n, value |-> v, valid |-> TRUE, size |-> s]
Bad(n) == [Line(n, "x", 1) EXCEPT !.valid = FALSE]
json == Line("content-type", "json", 1)

Asking(fields, refusals) == [dots : BOOLEAN, headers : fields, refused : refusals]
CallbackRequests == Asking({{}, {Line("accept", "json", 1)}, {Bad("accept")}}, {None})
FetchRequests == Asking({{}, {Line("sec-fetch-site", "json", 1)}}, {None, "Method", "ExactTargets"})
MCRequests == CallbackRequests \cup FetchRequests

CallbackHosts ==
  [noRedirects : BOOLEAN, noRetries : BOOLEAN, noAmbientAuth : BOOLEAN,
   exactTargets : BOOLEAN, encodedDots : BOOLEAN, forbidden : {{}, {"accept"}}]
FetchHost == [noRedirects |-> TRUE, noRetries |-> FALSE, noAmbientAuth |-> TRUE,
              exactTargets |-> TRUE, encodedDots |-> FALSE, forbidden |-> {"sec-fetch-site"}]
MCHosts == CallbackHosts \cup {FetchHost}

MCAdapterRefusals == {"Method", "HostCapability", "ExactTargets", "Unavailable",
                      "EncodedDotSegment", "ForbiddenHeader", "Replay"}

MCMaxHeaders == 2
MCMaxHeaderBytes == 3
MCMaxBody == 4
MCChunkSizes == {0, 1, 2, 5}
MCYieldEvery == 3

MCHeads == [status : {200}, opaque : {FALSE}, headers : {<<json>>, <<json, Line("date", "json", 3)>>},
            body : {"null", "locked", "stream"}, json : {TRUE}]

HeaderLists == {<<>>, <<json>>, <<json, json>>, <<Line("content-type", "text", 1)>>,
                <<json, Line("content-encoding", "gzip", 1)>>,
                <<[json EXCEPT !.size = 4], json>>, <<json, json, json>>,
                <<json, Bad("date")>>}

Inputs == [status : {0, 200, 404}, opaque : BOOLEAN, headers : HeaderLists,
           bytes : {0, 4, 5}, bodyState : {"Complete", "Failed"}, json : BOOLEAN,
           provenance : {"Wire", "HostDelivered"},
           fidelity : {"Unknown", "ExactFields"}, delivery : {"Unspecified", "Incomplete"}]

\* The kinds of answer do not depend on the request, which the first of the
\* variants below would otherwise multiply.
MCAnswers(r) ==
  LET plain == r.headers = {} /\ ~r.dots
  IN  [response : IF plain THEN Inputs \cup {None} ELSE {None},
       upload : {"Unknown"}, failed : BOOLEAN] \cup Reports

\* What the fetch transport adds keeps its initial state when the callback is another.
ExchangeInit == \/ topic = "callback" /\ Init /\ request \in CallbackRequests /\ host \in CallbackHosts
                \/ topic = "fetch" /\ Init /\ request \in FetchRequests /\ host = FetchHost

CallbackNext == topic = "callback" /\ InvokeNext /\ UNCHANGED <<loopVars, hostVars, queued, topic>>
FetchSteps(A) == topic = "fetch" /\ A /\ UNCHANGED topic

exchangeVars == <<fetchVars, topic>>

\* The fairness of FetchExchange!Spec in its behaviours, none in the others.
ExchangeSpec ==
  /\ ExchangeInit /\ [][CallbackNext \/ FetchSteps(Next)]_exchangeVars
  /\ WF_exchangeVars(FetchSteps(Runs)) /\ WF_exchangeVars(FetchSteps(Fire))
  /\ SF_exchangeVars(FetchSteps(RunQueued))
=============================================================================
