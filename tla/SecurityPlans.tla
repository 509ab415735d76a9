---------------------------- MODULE SecurityPlans ----------------------------
(***************************************************************************)
(* Which credentials one invocation puts on the wire.  A document declares *)
(* security as an OR of ANDs of schemes; preflight turns it into a         *)
(* challenge, a resolver over stored context answers the challenge with    *)
(* the least it needs, and the run selects one complete alternative        *)
(* (src/typescript/src/invoke.ts, internal/context.ts, security-wire.ts).  *)
(*                                                                         *)
(* Credentials are flat or named for a scheme.  A named value may have the *)
(* wrong form for its scheme (an object for a token, a string for Basic):  *)
(* whoever reads it passes over it, so that only a store tells such names  *)
(* apart ("misfit": entries of credentials, for API keys of apiKeys).      *)
(***************************************************************************)
EXTENDS Naturals, Sequences, FiniteSets

CONSTANTS Declarations,    \* what a document and an operation may declare
          Contexts,        \* what the caller may have at the start
          Stores           \* what the resolver's store may hold

Header(field) == <<"header", field>>
RawCookie == Header("cookie")
QueryString == <<"query", "*">>
ProcessorOwned == {Header(f) : f \in {"host", "content-length", "content-type", "accept"}}
Sensitive == {"apiKey", "bearer", "basic", "oauth2"}

ASSUME SecurityAssumption ==
    /\ \A d \in Declarations :
          /\ \A n \in DOMAIN d.schemes :
                /\ d.schemes[n].family \in Sensitive \cup {"digest", "invalid"}
                /\ d.schemes[n].flows \in Nat
          /\ d.security \in Seq(SUBSET STRING)
    /\ \A c \in Contexts \cup Stores :
          c.flat \subseteq {"bearerToken", "apiKey", "basic", "accessToken"}
    /\ \A s \in Stores : DOMAIN s = {"flat", "named", "misfit", "index"} /\ s.named \cap s.misfit = {}
    /\ \A c \in Contexts : DOMAIN c = {"flat", "named", "handled", "index", "hint"}

VARIABLES declaration, ctx, stored,
          phase,           \* start, challenged, ready, refused, sent
          challenge,       \* the alternatives last asked for
          answered,        \* the challenges the resolver has answered
          wire,            \* the schemes whose credentials were sent
          choice           \* the alternative they belong to; 0 when none

securityVars == <<declaration, ctx, stored, phase, challenge, answered, wire, choice>>

(***************************************************************************)
(* The declared alternatives and their plans.                              *)
(***************************************************************************)
Named(d, i) == d.security[i]
Undefined(d) == UNION {Named(d, i) : i \in DOMAIN d.security} \ DOMAIN d.schemes
ValidAlternative(d, i) == \A n \in Named(d, i) : n \in DOMAIN d.schemes /\ d.schemes[n].family # "invalid"

RequirementType(family) ==
    CASE family = "bearer" -> "auth.bearer"   [] family = "basic" -> "auth.basic"
      [] family = "apiKey" -> "auth.apiKey"   [] family = "oauth2" -> "auth.oauth2"
      [] OTHER -> "auth.other"

(* One requirement for each usable OAuth flow, a bare one when there is none. *)
Requirements(d, n) ==
    {[type |-> RequirementType(d.schemes[n].family), name |-> n, flow |-> f] :
        f \in IF d.schemes[n].flows = 0 THEN {0} ELSE 1..d.schemes[n].flows}

Expansions(d, i) ==
    LET all == UNION {Requirements(d, n) : n \in Named(d, i)}
    IN {needs \in SUBSET all : \A n \in Named(d, i) : Cardinality({r \in needs : r.name = n}) = 1}

(* TRACE must not carry a credential.                                       *)
SecurityPlans(d) ==
    UNION {{[index |-> i, needs |-> e] : e \in Expansions(d, i)} :
              i \in {k \in DOMAIN d.security :
                        /\ ValidAlternative(d, k)
                        /\ d.trace => \A n \in Named(d, k) : d.schemes[n].family \notin Sensitive}}

(***************************************************************************)
(* Where credentials go, and what they may meet there.                     *)
(***************************************************************************)
Placed(d, names) == {n \in names : d.schemes[n].family \in Sensitive}
Destination(d, n) == IF d.schemes[n].family = "apiKey" THEN d.schemes[n].at ELSE Header("authorization")

CredentialCollision(d, names, populated) ==
    LET placed == Placed(d, names)
        places == {Destination(d, n) : n \in placed}
        cookies == {p \in places \cup populated : p[1] = "cookie"}
    IN \/ \E m, n \in placed : m # n /\ Destination(d, m) = Destination(d, n)
       \/ places \cap (d.fixed \cup populated \cup ProcessorOwned) # {}
       \/ QueryString \in d.fixed \cup populated /\ \E p \in places : p[1] = "query"
       \/ RawCookie \in places \cup populated /\ cookies # {}
       \/ RawCookie \in places /\ \E p \in d.fixed : p[1] = "cookie"
       \/ RawCookie \in d.fixed /\ \E p \in places : p[1] = "cookie"

PlanNames(plan) == {r.name : r \in plan.needs}
Viable(d) == {plan \in SecurityPlans(d) : ~CredentialCollision(d, PlanNames(plan), {})}

Unset == 0        \* no configuration.security; alternatives count from 1
Configured(d, c) == IF c.index = Unset THEN Viable(d) ELSE {plan \in Viable(d) : plan.index = c.index}

(***************************************************************************)
(* What a context satisfies.                                               *)
(***************************************************************************)
Fields(type) ==
    CASE type = "auth.bearer" -> {"bearerToken"}
      [] type = "auth.apiKey" -> {"apiKey"}
      [] type = "auth.basic" -> {"basic"}
      [] type = "auth.oauth2" -> {"accessToken", "bearerToken"}
      [] OTHER -> {}

(* A flat credential counts when a single scheme of its type asks for it.   *)
Unambiguous(alternatives, r) ==
    Cardinality({q.name : q \in {p \in UNION alternatives : p.type = r.type}}) = 1

RequirementSatisfied(c, r, flatCounts) ==
    IF r.type = "config.value" THEN c.index \in r.enum
    ELSE /\ r.type # "auth.other"
         /\ r.name \in c.named \/ (flatCounts /\ Fields(r.type) \cap c.flat # {})

(* Mutant: any scheme of a plan will do.                                    *)
PartlySatisfied(c, plan) ==
    \E r \in plan.needs : r.name \in c.handled \/ RequirementSatisfied(c, r, TRUE)

PlanSatisfied(c, plan) ==
    \A r \in plan.needs : r.name \in c.handled \/ RequirementSatisfied(c, r, TRUE)

SatisfiedAlternatives(c, alternatives) ==
    {a \in alternatives : a # {} /\ \A r \in a : RequirementSatisfied(c, r, Unambiguous(alternatives, r))}

(* A named value is let through in place of the flat one, whatever its form. *)
Present(store) == store.named \cup store.misfit

(* The least of a stored context that an alternative declares.              *)
ScopeContext(store, a) ==
    [flat |-> {f \in store.flat : \E r \in a : r.type # "config.value" /\ r.name \notin Present(store)
                                               /\ f \in Fields(r.type)},
     named |-> {r.name : r \in {q \in a : q.type # "config.value"}} \cap store.named,
     index |-> IF \E r \in a : r.type = "config.value" THEN store.index ELSE Unset]

(* It is merged into what the caller has, which keeps its own named values. *)
Supplied(c, store, a) ==
    LET scoped == ScopeContext(store, a)
    IN [c EXCEPT !.flat = @ \cup scoped.flat, !.named = @ \cup scoped.named,
                 !.index = IF scoped.index = Unset THEN @ ELSE scoped.index]

(***************************************************************************)
(* The gates of a run, which preflight shares.                             *)
(***************************************************************************)
Indices(d, c) == {plan.index : plan \in Configured(d, c)}

RequiredContext(d, c) ==
    LET plans == Configured(d, c)
        alternatives == {plan.needs : plan \in plans}
    IN IF plans = {} THEN {}
       ELSE IF c.index = Unset /\ Cardinality(Indices(d, c)) > 1
            THEN {{[type |-> "config.value", name |-> "security", enum |-> Indices(d, c)]}}
       ELSE IF {} \in alternatives \/ \E plan \in plans : PlanSatisfied(c, plan) THEN {}
       ELSE alternatives

SelectionError(d, c) == IF Viable(d) = {} THEN d.security # <<>> ELSE Configured(d, c) = {}

Refused(d, c) == Undefined(d) # {} \/ SelectionError(d, c)

Selectable(d, c) == {plan \in Configured(d, c) : plan.needs = {} \/ PlanSatisfied(c, plan)}

SelectedPlan(d, c) ==
    CHOOSE plan \in Selectable(d, c) : \A q \in Selectable(d, c) : plan.index <= q.index

(* A named credential, or the flat one of the family, or a handler.         *)
Carried(d, c, names) == {n \in names : \/ n \in c.handled
                                       \/ n \in Placed(d, names) /\ \E r \in Requirements(d, n) :
                                                                       RequirementSatisfied(c, r, TRUE)}

(***************************************************************************)
(* The negotiation.                                                        *)
(***************************************************************************)
SecurityStarts(d, c, s) ==
    /\ declaration = d /\ ctx = c /\ stored = s
    /\ phase = "start" /\ challenge = {} /\ answered = {} /\ wire = {} /\ choice = 0
SecurityInit == \E d \in Declarations, c \in Contexts, s \in Stores : SecurityStarts(d, c, s)

Preflight ==
    /\ phase = "start"
    /\ IF Refused(declaration, ctx)
       THEN phase' = "refused" /\ UNCHANGED challenge
       ELSE /\ challenge' = RequiredContext(declaration, ctx)
            /\ phase' = IF challenge' = {} THEN "ready" ELSE "challenged"
    /\ UNCHANGED <<declaration, ctx, stored, answered, wire, choice>>

(* The resolver over a store answers what an entry satisfies in full.       *)
Answer ==
    /\ phase = "challenged"
    /\ \E a \in SatisfiedAlternatives(stored, challenge) : ctx' = Supplied(ctx, stored, a)
    /\ answered' = answered \cup {challenge}
    /\ phase' = "start"
    /\ UNCHANGED <<declaration, stored, challenge, wire, choice>>

(* The input may have populated optional parameters; cookie hints come from *)
(* the context.                                                             *)
Assemble ==
    /\ phase = "ready"
    /\ LET chosen == Selectable(declaration, ctx)
           names == IF chosen = {} THEN {} ELSE PlanNames(SelectedPlan(declaration, ctx))
       IN \E input \in SUBSET declaration.optional :
             LET populated == declaration.fixed \cup input
                 places == {Destination(declaration, n) : n \in Placed(declaration, names)} \cup populated
                 structured == \E p \in places : p[1] = "cookie"
                 refuses == \/ CredentialCollision(declaration, names, populated)
                            \/ ctx.hint = "raw" /\ (structured \/ RawCookie \in places)
                            \/ ctx.hint = "structured" /\ RawCookie \in places
             IN IF refuses
                THEN phase' = "refused" /\ UNCHANGED <<wire, choice>>
                ELSE /\ phase' = "sent"
                     /\ wire' = Carried(declaration, ctx, names)
                     /\ choice' = IF chosen = {} THEN 0 ELSE SelectedPlan(declaration, ctx).index
    /\ UNCHANGED <<declaration, ctx, stored, challenge, answered>>

SecurityDone == /\ \/ phase \in {"refused", "sent"}
                   \/ phase = "challenged" /\ SatisfiedAlternatives(stored, challenge) = {}
                /\ UNCHANGED securityVars

SecurityNext == Preflight \/ Answer \/ Assemble \/ SecurityDone

SecuritySpec == SecurityInit /\ [][SecurityNext]_securityVars

(***************************************************************************)
(* Properties.                                                             *)
(***************************************************************************)

(* A flat credential satisfies the requirement in the store, and a named     *)
(* value of the wrong form is let through in its place.                     *)
Shadowed(store, r) == /\ r.type \notin {"config.value", "auth.other"}
                      /\ r.name \in store.misfit
                      /\ Fields(r.type) \cap store.flat # {}

(* A challenge the resolver has answered is not raised again, but for one   *)
(* whose answer is shadowed; and such a one, if it offers nothing else and  *)
(* what the caller gets has no other value for it, is raised again (context.ts *)
(* scopeContext, which says that what satisfies a requirement has to be let *)
(* through; invoke.ts requiredContext).                                     *)
AnswersAreAccepted ==
    phase = "challenged" =>
        /\ challenge \in answered =>
               \E a \in challenge, r \in UNION challenge : r \in a /\ Shadowed(stored, r)
        /\ \A a \in SatisfiedAlternatives(stored, challenge) :
               LET c == Supplied(ctx, stored, a)
               IN IF \E r \in a : /\ Shadowed(stored, r) /\ r.name \notin c.named \cup c.handled
                                   /\ Fields(r.type) \cap c.flat = {}
                  THEN challenge = {a} => RequiredContext(declaration, c) = challenge
                  ELSE RequiredContext(declaration, c) # challenge

(* "A rule that says a value satisfies a requirement has to let that value   *)
(* through": a challenge the resolver has answered is not raised again.  It *)
(* is, and for ever, when a value of the wrong form shadows the one that    *)
(* satisfies it (context.ts scopeContext, requirementSatisfied).            *)
AnsweredIsSettled == phase = "challenged" => challenge \notin answered

(* What is sent is all of one authored alternative, the configured one if   *)
(* there is one, and the only usable one if there is not; nothing is sent   *)
(* without credentials unless the document says so (invoke.ts               *)
(* selectedSecurityPlan, requiredContext, securitySelectionError).          *)
OneAuthoredAlternative ==
    phase = "sent" =>
        IF declaration.security = <<>> THEN wire = {} /\ choice = 0
        ELSE /\ choice \in DOMAIN declaration.security
             /\ wire = declaration.security[choice]
             /\ \A n \in wire \ ctx.handled : declaration.schemes[n].family \in Sensitive
             /\ ctx.index # Unset => choice = ctx.index
             /\ ctx.index = Unset => \A plan \in Viable(declaration) : plan.index = choice

(* A challenge that is answered is settled, and what is sent is what was    *)
(* settled on (internal/context.ts, security-wire.ts, invoke.ts).           *)
SecurityIsSettled == AnswersAreAccepted /\ OneAuthoredAlternative
=============================================================================
