--------------------------- MODULE RedirectChain ----------------------------
(***************************************************************************)
(* A caller that invokes a prepared request and follows redirects          *)
(* (rust/client/src/transport/redirect.rs): each hop is an invocation of   *)
(* its own, derived from the previous request and its outcome.             *)
(*                                                                         *)
(* A query is a set of pairs: those of the target and, at its end, those   *)
(* preparation applied from credentials. Order and repetition of the other *)
(* pairs, and the path, are left out.                                      *)
(***************************************************************************)
EXTENDS Invocation

CONSTANTS Secure,         \* the https origins; any other is http
          MaxRedirects,   \* Limits.redirects
          MaxPairs        \* Limits.target_bytes, in query pairs

ASSUME RedirectAssumption ==
  /\ MaxRedirects \in Nat
  /\ MaxPairs \in Nat
  /\ \A r \in Requests :
       /\ r.redirects = 0
       /\ Cardinality(r.query) + Cardinality(r.credentials) <= MaxPairs
       /\ \A p \in r.query, q \in r.credentials : p.name # q.name

VARIABLES first,    \* the request that was prepared
          sent      \* the requests that entered the callback

chainVars == <<request, host, replay, token, step, entered, answer, outcome, first, sent>>

CarriesCredentials(h) == h.sensitive \/ h.name \in {"authorization", "cookie"}
Names(pairs) == {p.name : p \in pairs}

\* A bare request carries no field and no pair applied from a credential.
Bare(r) == r.credentials = {} /\ \A h \in r.headers : ~CarriesCredentials(h)

-----------------------------------------------------------------------------
(* follow_redirect *)

\* uri::origin: scheme, host and effective port, spelled one way.
SameOrigin(from, to) == from = to

\* 301 and 302 turn POST, 303 everything but HEAD, into GET without content.
WithoutContent(status, method) ==
  \/ status \in {301, 302} /\ method = "POST"
  \/ status = 303 /\ method # "HEAD"

\* credential_target: the pairs of the Location that the request did not apply
\* itself.
OtherPairs(r, location) == location.query \ r.credentials

\* Another value for the name of a credential pair.
Collides(r, location) ==
  SameOrigin(r.origin, location.origin) /\
    Names(OtherPairs(r, location)) \cap Names(r.credentials) # {}

\* Slip: fields that carry credentials are those marked sensitive.
KeptUnlessMarked(r, same, without) ==
  {h \in r.headers : ~(without /\ h.name = "content") /\ (same \/ ~h.sensitive)}
KeptHeaders(r, same, without) ==
  {h \in r.headers : ~(without /\ h.name = "content") /\ (same \/ ~CarriesCredentials(h))}

\* Slip: the method changes and the body stays.
BodyAfter(r, without) == r.body
Body(r, without) == r.body /\ ~without

Count(r) == r.redirects + 1

Derived(r, location, status) ==
  LET same == SameOrigin(r.origin, location.origin)
      without == WithoutContent(status, r.method)
  IN  [origin |-> location.origin,
       dots |-> location.dots,
       query |-> OtherPairs(r, location),
       credentials |-> IF same THEN r.credentials ELSE {},
       headers |-> KeptHeaders(r, same, without),
       method |-> IF without THEN "GET" ELSE r.method,
       body |-> Body(r, without),
       redirects |-> Count(r)]

Pairs(r) == Cardinality(r.query) + Cardinality(r.credentials)

Downgrade(from, to) == from \in Secure /\ to \notin Secure

Locations(response) == Named(response.input.headers, "location")
Location(response) == response.input.headers[CHOOSE i \in Locations(response) : TRUE].value

\* A server names in its Location what anybody may know and what the request to
\* it carried: no other server told it more.
ServerForgets(public) ==
  step \in {"answered", "done"} /\ entered = 1 /\ answer.response # None =>
    /\ HostResponse(answer.response)
    /\ \A i \in Named(answer.response.headers, "location") :
         LET location == answer.response.headers[i].value
         IN  location.usable => location.query \subseteq public \cup request.query \cup request.credentials

\* The outcomes a request is derived from. Any other is final (Ok(None): no
\* response, another status, no Location) or refused (Err).
Redirects(r, response) ==
  LET location == Location(response)
  IN  /\ response # None
      /\ ~response.input.opaque
      /\ response.input.status \in {301, 302, 303, 307, 308}
      /\ response.validation = None
      /\ response.input.delivery = "Complete" /\ response.omitted = 0
      /\ Cardinality(Locations(response)) = 1
      /\ location.usable
      /\ r.redirects < MaxRedirects
      /\ ~Downgrade(r.origin, location.origin)
      /\ ~Collides(r, location)
      /\ Pairs(Derived(r, location, response.input.status)) <= MaxPairs

-----------------------------------------------------------------------------

ChainInit == /\ \E r \in Requests : Start(r) /\ first = r
        /\ sent = {}

\* A step of the current invocation; entering its callback leaves a trace.
Hop == /\ \/ Enter /\ sent' = sent \cup {request}
          \/ /\ AdapterRefuse \/ CheckToken \/ Refuse \/ Answer \/ Finish \/ Cancel \/ Drop
             /\ UNCHANGED sent
       /\ UNCHANGED first

\* The caller follows the redirect in its outcome, with a token of its choice.
Follow ==
  /\ step = "done"
  /\ Redirects(request, outcome.response)
  /\ request' = Derived(request, Location(outcome.response),
                        outcome.response.input.status)
  /\ step' = "ready"
  /\ entered' = 0 /\ answer' = None /\ outcome' = None
  /\ token' \in {token, FALSE}
  /\ UNCHANGED <<host, replay, first, sent>>

ChainNext == Hop \/ Follow

ChainSpec == ChainInit /\ [][ChainNext]_chainVars

-----------------------------------------------------------------------------
(* Properties *)

\* The fields of PreparedRequest keep to the limits they were derived under, and
\* no two requests of a chain are the same number of redirects away from the
\* first: at most Limits::redirects + 1 of them are ever sent.
ChainTypeOK ==
  /\ step \in Steps
  /\ request.redirects \in 0..MaxRedirects
  /\ Pairs(request) <= MaxPairs
  /\ \A r \in sent : r.redirects \in 0..request.redirects
  /\ \A r \in sent : r.redirects = request.redirects => r = request /\ step \notin {"ready", "admit"}
  /\ \A q, r \in sent : q.redirects = r.redirects => q = r

\* No credential leaves the origin it was prepared for: not as a field, not at
\* the end of the query, not echoed into a Location by a server that got it
\* ("On another origin every credential the request carries is removed").
SecretsStayHome ==
  request.origin # first.origin =>
    /\ Bare(request)
    /\ request.query \cap first.credentials = {}

\* What was removed never comes back: once the chain has been on another origin
\* every later request is bare, also when it returns to the first origin.
StrippedForGood ==
  (\E r \in sent \cup {request} : r.origin # first.origin) => Bare(request)

\* On its own origin a credential pair is applied once: no other pair of the
\* query has its name, however often the server echoes it.
AppliedOnce == Names(request.query) \cap Names(request.credentials) = {}

\* A chain that has been on https never reaches http, over any number of hops.
NeverDowngraded == (\E r \in sent : r.origin \in Secure) => request.origin \in Secure

\* Content is sent again under its own method only; once it is dropped it stays
\* dropped, and the fields that described it are gone.
ContentStaysDropped ==
  /\ request.body => first.body /\ request.method = first.method
  /\ first.body /\ ~request.body =>
       request.method = "GET" /\ \A h \in request.headers : h.name # "content"
  /\ request.body => \A r \in sent : r.body

\* Over any number of hops credentials stay where they belong (redirect.rs,
\* follow_redirect and credential_target) ...
CredentialsAreConfined == SecretsStayHome /\ StrippedForGood /\ AppliedOnce

\* ... and the chain ends, keeps its security and never resends what it dropped.
ChainIsConfined == ChainTypeOK /\ NeverDowngraded /\ ContentStaysDropped
=============================================================================
