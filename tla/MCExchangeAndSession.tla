------------------------ MODULE MCExchangeAndSession ------------------------
(* The two ends of a call that wait for somebody else: the native transport of *)
(* the Rust client, for its server, and the session of the TypeScript client,  *)
(* for its consumer and its binding. They share nothing: a behaviour is about  *)
(* one of them and the other keeps its initial state.                          *)
(*                                                                             *)
(* Native: requests that the profile, the native URL stack or nothing refuses; *)
(* replies that end, break off or stall below, at and above the body and       *)
(* header bounds. Session: two writes, three emits, an output buffer of one so *)
(* that producers park.                                                        *)
EXTENDS NativeExchange, InvocationHandle, TLC

VARIABLE topic   \* "exchange" or "session"

Line(n, s) == [name |-> n, value |-> "json", valid |-> TRUE, size |-> s]

MCRequests == [dots : BOOLEAN, headers : {{}, {Line("host", 1)}}, normal : BOOLEAN]
Plain == [dots |-> FALSE, headers |-> {}, normal |-> TRUE]

MCHosts == {[noRedirects |-> TRUE, noRetries |-> TRUE, noAmbientAuth |-> TRUE,
             exactTargets |-> TRUE, encodedDots |-> FALSE, forbidden |-> {"host"}]}

MCAdapterRefusals == {"Preparation", "HostCapability", "EncodedDotSegment", "ForbiddenHeader"}

MCMaxHeaders == 2
MCMaxHeaderBytes == 3
MCMaxBody == 3

HeaderLists == {<<Line("content-type", 1)>>, <<Line("content-type", 1), Line("date", 3), Line("age", 1)>>}
ChunkLists == UNION {[1..n -> {1, 2}] : n \in 0..3}

MCReplies == [status : {200, 500}, headers : HeaderLists, chunks : ChunkLists,
              end : {"eof", "error", "stall"}, json : {TRUE}]

MCAnswers(r) == Results

EndsInit == \/ topic = "exchange" /\ Init /\ HandleInit /\ ~aborted
            \/ topic = "session" /\ Init /\ HandleInit /\ request = Plain /\ phase = "prepare"

ExchangeSteps(A) == topic = "exchange" /\ A /\ UNCHANGED <<handleVars, topic>>
SessionSteps(A) == topic = "session" /\ A /\ UNCHANGED <<nativeVars, topic>>

endVars == <<nativeVars, handleVars, topic>>

\* The fairness of NativeExchange!Spec and of HandleSpec, each in its behaviours.
EndsSpec ==
  /\ EndsInit /\ [][ExchangeSteps(Next) \/ SessionSteps(HandleNext)]_endVars
  /\ WF_endVars(ExchangeSteps(Polled))
  /\ WF_endVars(SessionSteps(Pull))
  /\ WF_endVars(SessionSteps(SingleRead \/ SingleFirst \/ SingleSecond))
  /\ \A m \in Writes : WF_endVars(SessionSteps(Validated(m) \/ Invalid(m)))
=============================================================================
