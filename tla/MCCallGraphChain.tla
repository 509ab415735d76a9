-------------------------- MODULE MCCallGraphChain --------------------------
(* A call of the TypeScript client, the resource graph of the Rust client and  *)
(* a chain of its redirects, which share nothing: a behaviour is about one of  *)
(* them and the others keep their initial state. The calls are those of        *)
(* MCClientCall.                                                               *)
(*                                                                             *)
(* The graph: an OpenAPI file that refers to an untyped file's root and into a *)
(* bundle, as that file does; a file whose $self claims another's identity;    *)
(* two spellings of one identity; two transactions.                            *)
(*                                                                             *)
(* The chain: a POST and a PUT from each scheme, with credentials in every     *)
(* place they can be; three origins (https, the same host over http, another   *)
(* https host); servers that answer a Location made of public pairs and of     *)
(* whatever pairs the request to them carried. Two redirects reach a third     *)
(* origin or return.                                                           *)
EXTENDS MCClientCall, ResourceGraph, RedirectChain, TLC

CONSTANTS b1, b2

VARIABLE topic   \* "call", "graph" or "chain"

MCBuilders == {b1, b2}

MCKeyOf == [main |-> "main", part |-> "part", PART |-> "part", bundle |-> "bundle"]
MCRoot == ""

Ref(uri, to, kind) == [uri |-> uri, to |-> to, kind |-> kind]

Main == [openapi |-> TRUE, self |-> Absent, size |-> 2, nodes |-> {"", "/a", "/b"},
         refs |-> [a \in {"/a", "/b"} |-> IF a = "/a" THEN Ref("part", "", "Parameter")
                                          ELSE Ref("bundle", "/x", "Parameter")]]
Claimer == [openapi |-> TRUE, self |-> "part", size |-> 1, nodes |-> {""},
            refs |-> [a \in {} |-> Absent]]
Part == [openapi |-> FALSE, self |-> Absent, size |-> 1, nodes |-> {""},
         refs |-> [a \in {""} |-> Ref("bundle", "/x", Absent)]]
Bundle == [openapi |-> FALSE, self |-> Absent, size |-> 1, nodes |-> {"", "/x"},
           refs |-> [a \in {} |-> Absent]]

Input(file, uri, aliases, roots) ==
  [file |-> file, retrieval |-> uri, aliases |-> aliases, roots |-> roots]

Parameter == [pointer |-> "/x", kind |-> "Parameter"]

MCInputs == {Input(Main, "main", <<>>, {}),
             Input(Claimer, Absent, <<"main">>, {}),
             Input(Part, "PART", <<>>, {}),
             Input(Bundle, "bundle", <<"part">>, {}),
             Input(Bundle, "bundle", <<>>, {Parameter})}

MCLayouts == {{Parameter}, {[Parameter EXCEPT !.kind = "Response"]},
              {[pointer |-> "", kind |-> "Response"]}}

MCMaxResources == 3
MCMaxBytes == 4
MCMaxIdentities == 4
MCMaxLayouts == 1
MCMaxMetadata == 9
MCMaxHeap == 3
MCMaxDocs == 2

Home == [host |-> "a", scheme |-> "https"]
Plain == [host |-> "a", scheme |-> "http"]
Other == [host |-> "b", scheme |-> "https"]
MCSecure == {Home, Other}

key == [name |-> "key", value |-> "secret"]
rotated == [name |-> "key", value |-> "other"]
page == [name |-> "page", value |-> "1"]

Field(n, s) == [name |-> n, sensitive |-> s, valid |-> TRUE]
Fields == {Field("authorization", FALSE), Field("cookie", FALSE), Field("token", TRUE),
           Field("content", FALSE), Field("accept", FALSE)}

MCChained ==
  {[origin |-> o, method |-> m, body |-> m = "POST", headers |-> Fields, query |-> {page},
    credentials |-> {key}, redirects |-> 0, dots |-> FALSE] :
     o \in {Home, Plain}, m \in {"POST", "PUT"}}

MCHosts == {[noRedirects |-> TRUE, noRetries |-> TRUE, noAmbientAuth |-> TRUE,
             exactTargets |-> TRUE, encodedDots |-> FALSE, forbidden |-> {}]}

MCAdapterRefusals == {"HostCapability"}

MCMaxHeaders == 2
MCMaxHeaderBytes == 2
MCMaxBody == 1
MCMaxRedirects == 2
MCMaxPairs == 3

Redirect(code, locations, delivery) ==
  [response |->
     [status |-> code, opaque |-> FALSE, bytes |-> 0, bodyState |-> "Complete",
      json |-> FALSE, provenance |-> "Wire", fidelity |-> "Unknown", delivery |-> delivery,
      headers |-> [i \in DOMAIN locations |->
                     [name |-> "location", value |-> locations[i], valid |-> TRUE, size |-> 1]]],
   upload |-> "Unknown", failed |-> FALSE]

Targets(r) ==
  [usable : {TRUE}, origin : {Home, Plain, Other}, query : SUBSET ({page, rotated} \cup r.query \cup r.credentials),
   dots : {FALSE}]
    \cup [usable : {TRUE}, origin : {Other}, query : {{}}, dots : {TRUE}]

unusable == [usable |-> FALSE, origin |-> Home, query |-> {}, dots |-> FALSE]

\* Redirects to every target, and one of each kind of answer that is none.
MCAnswers(r) ==
  {Redirect(code, <<target>>, "Complete") : code \in {302, 303, 307}, target \in Targets(r)}
    \cup {Redirect(200, <<>>, "Complete"), Redirect(302, <<>>, "Complete"),
          Redirect(302, <<unusable>>, "Complete"),
          Redirect(302, <<unusable>>, "Incomplete"),
          Redirect(302, <<unusable, unusable, unusable>>, "Complete"),
          Redirect(307, <<unusable, unusable>>, "Complete"),
          [response |-> None, upload |-> "Unknown", failed |-> TRUE]}

\* A call that stands still: one operation, one request.
Quiet == /\ op = Sound("empty", "manual", FALSE) /\ ~aborted
         /\ ask = [mode |-> "call", supplied |-> FALSE, hooks |-> FALSE, badLocation |-> FALSE]

\* A chain that stands still.
Still == request = [origin |-> Home, method |-> "PUT", body |-> FALSE, headers |-> Fields,
                    query |-> {page}, credentials |-> {key}, redirects |-> 0, dots |-> FALSE]
           /\ replay = "RequireNoReplay"

TopicInit == /\ ClientInit /\ GraphInit /\ ChainInit
             /\ \/ topic = "call" /\ Still
                \/ topic = "graph" /\ Quiet /\ Still
                \/ topic = "chain" /\ Quiet

CallSteps(A) == topic = "call" /\ A /\ UNCHANGED <<graphVars, chainVars, topic>>
GraphSteps(A) == topic = "graph" /\ A /\ UNCHANGED <<allVars, chainVars, topic>>
ChainSteps(A) == topic = "chain" /\ A /\ UNCHANGED <<allVars, graphVars, topic>>

topicVars == <<allVars, graphVars, chainVars, topic>>

\* The fairness of ClientSpec in its behaviours, none in the others.
TopicSpec ==
  /\ TopicInit
  /\ [][CallSteps(ClientNext) \/ GraphSteps(GraphNext) \/ ChainSteps(ChainNext)]_topicVars
  /\ WF_topicVars(CallSteps(ClientStep))
  /\ WF_topicVars(CallSteps(RunStep /\ OwnStep))
=============================================================================
