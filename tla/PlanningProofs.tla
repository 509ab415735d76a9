--------------------------- MODULE PlanningProofs ---------------------------
(***************************************************************************)
(* The decisions of the TypeScript client, for every document, caller and  *)
(* server.                                                                 *)
(*                                                                         *)
(* Loading: however the calls of one location race, what is prepared       *)
(* stands on a document that was read in full and not refused.  Swagger: a *)
(* call says what its document declares and its caller gave, the preflight *)
(* agrees with it, and its parameters are read back.  Security: the        *)
(* alternative that is sent is one the operation declares.  Media: the     *)
(* declaration that governs an answer is its own.  Routing, wire and       *)
(* forms: what a caller supplies is in its one place, survives its         *)
(* codings, and reads back as it was given.  Servers: the base of a call   *)
(* is a declared one, completed.  Floor: a defect refuses the operations   *)
(* that cannot avoid it and no other.                                      *)
(***************************************************************************)
EXTENDS DocumentLoading, SecurityPlans, Swagger20Preflight, MediaSelection, InputRouting,
        WireGovernance, FormBodies, ServerSelection, Swagger20Parameters,
        FiniteSetTheorems, SequenceTheorems, WellFoundedInduction, TLAPS

-----------------------------------------------------------------------------
(* Loading *)

\* A document and who loaded it; what an operation may be prepared from.
Loaded == [document : Documents, by : Calls]
Solid(d) == d.edition \in {"3.0", "3.2"} /\ (d.edition = "3.2" \/ ~Refusal(d.source))
Lazy(c) == got[c].document.edition = "3.2"

StandsOn(loaded) ==
  LET d == loaded.document IN
  \/ d.edition = "3.0" /\ ~Refusal(d.source) /\ Verdict(d) # "invalid"
  \/ d.edition = "3.2" /\ ~d.dangling /\ (d.external => loaded.by \in held)

LoadingTypes ==
  /\ request \in [Calls -> Requests]
  /\ stage \in [Calls -> {"idle", "retrieving", "composing", "resolving", "reaching", "settled"}]
  /\ outcome \in [Calls -> {"none", "prepared", "null", "failed", "refused"}]
  /\ got \in [Calls -> Loaded \cup {None}]
  /\ cache \in Loaded \cup {None}

\* What a call has at each stage of its own.
LoadingStages ==
  \A c \in Calls :
    /\ stage[c] # "settled" => outcome[c] = "none"
    /\ stage[c] \in {"idle", "retrieving"} => got[c] = None
    /\ stage[c] \in {"composing", "resolving", "reaching"} => got[c] # None
    /\ stage[c] \in {"resolving", "reaching"} => Lazy(c)
    /\ stage[c] = "retrieving" => request[c].lane = "location"
    /\ stage[c] \in {"retrieving", "composing"} /\ request[c].lane = "location" => ~request[c].cached

\* The requests' documents, the location's entry and the network.
LoadingNames == \A c \in Calls : got[c] # None => IsNamedBy(got[c], c)
LoadingEntry ==
  cache # None => got[cache.by] = cache /\ request[cache.by].lane # "content" /\ Solid(cache.document)
LoadingPrepared == \A c \in Calls : outcome[c] = "prepared" => got[c] # None /\ StandsOn(got[c])
LoadingNetwork ==
  \A c \in Calls : c \in network /\ request[c].cached =>
    /\ got[c] # None /\ request[c].lane = "location" /\ Lazy(c) /\ got[c].document.external
    /\ External(got[c].by)

LoadingInv ==
  LoadingTypes /\ LoadingStages /\ LoadingNames /\ LoadingEntry /\ LoadingPrepared /\ LoadingNetwork
  /\ network \subseteq Calls

LEMMA NoneIsNotLoaded == None \notin Loaded
  BY DEF None, Loaded

LEMMA InitLoading == LoadingInit => LoadingInv
  BY DEF LoadingInit, LoadingStarts, LoadingInv, LoadingTypes, LoadingStages, LoadingNames,
         LoadingEntry, LoadingPrepared, LoadingNetwork

\* Only a call that has nothing gets a document, so the others' names stay.
LEMMA NamesStay ==
  ASSUME LoadingInv, NEW c \in Calls, got[c] = None, request' = request,
         NEW loaded \in Loaded, got' = [got EXCEPT ![c] = loaded],
         IF request[c].lane # "location" THEN loaded = [document |-> request[c].embeds, by |-> c]
         ELSE got'[loaded.by] = loaded /\ request[loaded.by].lane # "content"
  PROVE  LoadingNames' /\ (cache' = cache => LoadingEntry')
  <1>1. \A e \in Calls : e # c => got'[e] = got[e]
    BY DEF LoadingInv, LoadingTypes
  <1>2. got'[c] = loaded
    BY DEF LoadingInv, LoadingTypes
  <1>3. \A e \in Calls : got[e] # None => got[e] \in Loaded /\ got[e].by \in Calls
    BY DEF LoadingInv, LoadingTypes, Loaded
  <1>4. LoadingNames'
    <2> SUFFICES ASSUME NEW e \in Calls, got'[e] # None PROVE IsNamedBy(got[e], e)'
      BY DEF LoadingNames
    <2>1. CASE e = c
      BY <2>1, <1>2 DEF IsNamedBy
    <2>2. CASE e # c
      <3>1. got[e] # None /\ got'[e] = got[e] /\ IsNamedBy(got[e], e)
        BY <2>2, <1>1 DEF LoadingInv, LoadingNames
      <3>2. request[e].lane = "location" => got'[got[e].by] = got[e]
        BY <3>1, <1>1, <1>3 DEF IsNamedBy
      <3>. QED
        BY <3>1, <3>2 DEF IsNamedBy
    <2>. QED
      BY <2>1, <2>2
  <1>5. ASSUME cache' = cache PROVE LoadingEntry'
    <2>1. CASE cache = None
      BY <2>1, <1>5 DEF LoadingEntry
    <2>2. CASE cache # None
      <3>1. cache.by \in Calls /\ got[cache.by] = cache
        BY <2>2 DEF LoadingInv, LoadingTypes, LoadingEntry, Loaded
      <3>2. cache.by # c
        BY <3>1, <2>2
      <3>. QED
        BY <3>1, <3>2, <1>1, <1>5 DEF LoadingEntry, LoadingInv
    <2>. QED
      BY <2>1, <2>2
  <1>. QED
    BY <1>4, <1>5

\* prepared() of a document whose source is not refused.
LEMMA PreparesStandsOn ==
  ASSUME LoadingInv, NEW c \in Calls, stage[c] # "settled", NEW loaded \in Loaded,
         Solid(loaded.document), Prepares(c, loaded)
  PROVE  \/ /\ loaded.document.edition = "3.2" /\ UNCHANGED outcome
            /\ stage' = [stage EXCEPT ![c] = "resolving"]
         \/ \E how \in {"prepared", "failed", "refused"} :
              /\ Settles(c, how)
              /\ how = "prepared" => StandsOn(loaded)
  BY DEF Prepares, PreparedAs, Solid, StandsOn

\* One step of a call.
LEMMA HitLoading ==
  ASSUME LoadingInv, NEW c \in Calls, Hit(c)
  PROVE  LoadingInv'
  <1>1. cache \in Loaded /\ cache # None /\ Solid(cache.document) /\ got[c] = None /\ stage[c] = "idle"
    BY DEF Hit, LoadingInv, LoadingTypes, LoadingEntry, LoadingStages
  <1>2. got' = [got EXCEPT ![c] = cache] /\ UNCHANGED <<request, cache, held, network>>
    BY DEF Hit
  <1>3. LoadingNames' /\ LoadingEntry'
    <2>1. got'[cache.by] = cache /\ request[cache.by].lane # "content" /\ request[c].lane = "location"
      BY <1>1, <1>2 DEF Hit, LoadingInv, LoadingTypes, LoadingEntry, Loaded
    <2>. QED
      BY <1>1, <1>2, <2>1, NamesStay
  <1>4. \A e \in Calls : IF e = c THEN got'[e] = cache ELSE got'[e] = got[e]
    BY <1>2 DEF LoadingInv, LoadingTypes
  <1>5. LoadingNetwork' /\ network' \subseteq Calls
    BY <1>1, <1>2, <1>4 DEF LoadingInv, LoadingNetwork, External, Lazy
  <1>6. \/ cache.document.edition = "3.2" /\ UNCHANGED outcome /\ stage' = [stage EXCEPT ![c] = "resolving"]
        \/ \E how \in {"prepared", "failed", "refused"} : Settles(c, how) /\ (how = "prepared" => StandsOn(cache))
    BY <1>1, PreparesStandsOn DEF Hit
  <1>7. LoadingTypes' /\ LoadingStages'
    BY <1>1, <1>2, <1>4, <1>6 DEF LoadingInv, LoadingTypes, LoadingStages, Settles, Lazy
  <1>8. LoadingPrepared'
    BY <1>1, <1>2, <1>4, <1>6 DEF LoadingInv, LoadingTypes, LoadingStages, LoadingPrepared, Settles, StandsOn
  <1>. QED
    BY <1>3, <1>5, <1>7, <1>8 DEF LoadingInv

LEMMA LoadsLoading ==
  ASSUME LoadingInv, NEW c \in Calls, NEW d \in Documents, Loads(c, d),
         stage[c] \in {"idle", "retrieving"},
         IF request[c].lane # "location" THEN d = request[c].embeds ELSE ~request[c].cached
  PROVE  LoadingInv'
  <1> DEFINE loaded == [document |-> d, by |-> c]
  <1>1. loaded \in Loaded /\ loaded # None /\ got[c] = None
    BY NoneIsNotLoaded DEF Loaded, LoadingInv, LoadingStages
  <1>2. /\ got' = [got EXCEPT ![c] = loaded] /\ stage' = [stage EXCEPT ![c] = "composing"]
        /\ UNCHANGED <<request, outcome, cache, held, network>>
    BY DEF Loads
  <1>3. LoadingNames' /\ LoadingEntry'
    <2>1. IF request[c].lane # "location" THEN loaded = [document |-> request[c].embeds, by |-> c]
          ELSE got'[loaded.by] = loaded /\ request[loaded.by].lane # "content"
      BY <1>2 DEF LoadingInv, LoadingTypes
    <2> HIDE DEF loaded
    <2>. QED
      BY <1>1, <1>2, <2>1, NamesStay
  <1> HIDE DEF loaded
  <1>4. \A e \in Calls : IF e = c THEN got'[e] = loaded ELSE got'[e] = got[e]
    BY <1>2 DEF LoadingInv, LoadingTypes
  <1>5. LoadingNetwork' /\ network' \subseteq Calls
    BY <1>1, <1>2, <1>4 DEF LoadingInv, LoadingNetwork, External, Lazy
  <1>6. LoadingTypes' /\ LoadingStages'
    BY <1>1, <1>2, <1>4 DEF LoadingInv, LoadingTypes, LoadingStages, Lazy
  <1>7. LoadingPrepared'
    BY <1>1, <1>2, <1>4 DEF LoadingInv, LoadingStages, LoadingPrepared, StandsOn
  <1>. QED
    BY <1>3, <1>5, <1>6, <1>7 DEF LoadingInv

\* Who composes what it got: the network it reaches is its own to reach.
LEMMA RetrievesIsAllowed ==
  ASSUME LoadingInv, NEW c \in Calls, NEW reached \in SUBSET Retrieves(c),
         got' = got, request' = request, network' = network \cup reached
  PROVE  LoadingNetwork' /\ network' \subseteq Calls
  BY DEF Retrieves, External, LoadingInv, LoadingNetwork, Lazy

LEMMA ComposeLoading ==
  ASSUME LoadingInv, NEW c \in Calls, Compose(c)
  PROVE  LoadingInv'
  <1>1. got[c] \in Loaded /\ got[c] # None /\ stage[c] = "composing"
    BY DEF Compose, LoadingInv, LoadingTypes, LoadingStages
  <1>2. UNCHANGED <<request, got, held>> /\ IsNamedBy(got[c], c)
    BY <1>1 DEF Compose, LoadingInv, LoadingNames
  <1>3. LoadingNetwork' /\ network' \subseteq Calls
    BY <1>2, RetrievesIsAllowed DEF Compose
  <1>4. Composes(c) /\ ~Gated(got[c].document) => Solid(got[c].document)
    BY <1>1, LoadingAssumption DEF Composes, Gated, Solid, Loaded
  <1>5. cache' \in Loaded \cup {None} /\ LoadingEntry'
    <2>1. CASE Composes(c) /\ ~Gated(got[c].document) /\ Cacheable(c)
      <3>1. cache' = got[c]
        BY <2>1 DEF Compose, CachedAfter
      <3>2. got[got[c].by] = got[c] /\ request[got[c].by].lane # "content"
        BY <1>2, <2>1 DEF IsNamedBy, Cacheable
      <3>. QED
        BY <1>1, <1>2, <1>4, <2>1, <3>1, <3>2 DEF LoadingEntry
    <2>2. CASE ~(Composes(c) /\ ~Gated(got[c].document) /\ Cacheable(c))
      BY <1>2, <2>2 DEF Compose, CachedAfter, LoadingInv, LoadingTypes, LoadingEntry
    <2>. QED
      BY <2>1, <2>2
  <1>6. LoadingNames'
    BY <1>2 DEF LoadingInv, LoadingNames, IsNamedBy
  <1>7. \/ got[c].document.edition = "3.2" /\ UNCHANGED outcome /\ stage' = [stage EXCEPT ![c] = "resolving"]
        \/ \E how \in {"prepared", "failed", "refused"} : Settles(c, how) /\ (how = "prepared" => StandsOn(got[c]))
    <2>1. CASE Composes(c) /\ ~Gated(got[c].document)
      BY <1>1, <1>4, <2>1, PreparesStandsOn DEF Compose
    <2>2. CASE ~(Composes(c) /\ ~Gated(got[c].document))
      BY <2>2 DEF Compose
    <2>. QED
      BY <2>1, <2>2
  <1>8. LoadingTypes' /\ LoadingStages'
    BY <1>1, <1>2, <1>5, <1>7 DEF LoadingInv, LoadingTypes, LoadingStages, Settles, Lazy
  <1>9. LoadingPrepared'
    BY <1>1, <1>2, <1>7 DEF LoadingInv, LoadingTypes, LoadingPrepared, Settles, StandsOn
  <1>. QED
    BY <1>3, <1>5, <1>6, <1>8, <1>9 DEF LoadingInv

\* A step that loads nothing, and settles without preparing anything.
LEMMA QuietLoading ==
  ASSUME LoadingInv, NEW c \in Calls,
         MissCached(c) \/ Miss(c) \/ LoadFails(c) \/ Reach(c) \/ ReachReturns(c) \/ ReachFails(c)
  PROVE  LoadingInv'
  <1>1. UNCHANGED <<request, got, cache>> /\ held \subseteq held'
    BY DEF MissCached, Miss, LoadFails, Reach, ReachReturns, ReachFails
  <1>2. LoadingNames' /\ LoadingEntry'
    BY <1>1 DEF LoadingInv, LoadingNames, LoadingEntry, IsNamedBy
  <1>3. LoadingTypes' /\ LoadingStages'
    BY <1>1 DEF MissCached, Miss, LoadFails, Reach, ReachReturns, ReachFails, Settles, LoadingInv,
                LoadingTypes, LoadingStages, Lazy
  <1>4. LoadingPrepared'
    BY <1>1 DEF MissCached, Miss, LoadFails, Reach, ReachReturns, ReachFails, Settles, LoadingInv,
                LoadingTypes, LoadingPrepared, StandsOn
  <1>5. LoadingNetwork' /\ network' \subseteq Calls
    <2>1. CASE LoadFails(c)
      BY <1>1, <2>1, RetrievesIsAllowed DEF LoadFails
    <2>2. CASE Reach(c)
      <3>1. got[c] \in Loaded /\ got[c] # None /\ Lazy(c) /\ IsNamedBy(got[c], c)
        BY <2>2 DEF Reach, LoadingInv, LoadingTypes, LoadingStages, LoadingNames
      <3>2. got[c].document.external /\ External(got[c].by)
        BY <2>2 DEF Reach, Missing32
      <3>3. request[c].cached => request[c].lane = "location"
        BY <3>1, <3>2 DEF IsNamedBy, External
      <3>. QED
        BY <1>1, <2>2, <3>1, <3>2, <3>3 DEF Reach, LoadingInv, LoadingNetwork, External, Lazy
    <2>3. CASE Miss(c)
      BY <1>1, <2>3 DEF Miss, LoadingInv, LoadingNetwork, External, Lazy
    <2>4. CASE MissCached(c) \/ ReachReturns(c) \/ ReachFails(c)
      BY <1>1, <2>4 DEF MissCached, ReachReturns, ReachFails, LoadingInv, LoadingNetwork, External, Lazy
    <2>. QED
      BY <2>1, <2>2, <2>3, <2>4
  <1>. QED
    BY <1>2, <1>3, <1>4, <1>5 DEF LoadingInv

\* A 3.2 document's target is prepared once its references are resolved.
LEMMA ResolveLoading ==
  ASSUME LoadingInv, NEW c \in Calls, ResolveTarget(c)
  PROVE  LoadingInv'
  <1>1. UNCHANGED <<request, got, cache, held, network>> /\ got[c] # None /\ Lazy(c)
    BY DEF ResolveTarget, LoadingInv, LoadingStages
  <1>2. \E how \in {"failed", "refused", "prepared"} : Settles(c, how) /\ (how = "prepared" => StandsOn(got[c]))
    BY <1>1 DEF ResolveTarget, Unresolvable, Missing32, StandsOn, Lazy
  <1>3. LoadingNames' /\ LoadingEntry' /\ LoadingNetwork' /\ network' \subseteq Calls
    BY <1>1 DEF LoadingInv, LoadingNames, LoadingEntry, LoadingNetwork, IsNamedBy, External, Lazy
  <1>4. LoadingTypes' /\ LoadingStages'
    BY <1>1, <1>2 DEF Settles, LoadingInv, LoadingTypes, LoadingStages, Lazy
  <1>5. LoadingPrepared'
    BY <1>1, <1>2 DEF Settles, LoadingInv, LoadingTypes, LoadingPrepared, StandsOn
  <1>. QED
    BY <1>3, <1>4, <1>5 DEF LoadingInv

LEMMA StepLoading == LoadingInv /\ [LoadingNext]_loadingVars => LoadingInv'
  <1> SUFFICES ASSUME LoadingInv, [LoadingNext]_loadingVars PROVE LoadingInv'
    OBVIOUS
  <1>1. CASE UNCHANGED loadingVars
    BY <1>1 DEF loadingVars, LoadingInv, LoadingTypes, LoadingStages, LoadingNames, LoadingEntry,
                LoadingPrepared, LoadingNetwork, StandsOn, IsNamedBy, External, Lazy
  <1>2. ASSUME NEW c \in Calls, Embed(c) PROVE LoadingInv'
    <2>1. request[c].embeds \in Documents
      BY LoadingAssumption DEF LoadingInv, LoadingTypes
    <2>. QED
      BY <1>2, <2>1, LoadsLoading DEF Embed
  <1>3. ASSUME NEW c \in Calls, Retrieved(c) PROVE LoadingInv'
    <2>1. stage[c] = "retrieving" /\ request[c].lane = "location" /\ ~request[c].cached
      BY <1>3 DEF Retrieved, LoadingInv, LoadingStages
    <2>. QED
      BY <1>3, <2>1, LoadsLoading DEF Retrieved
  <1>. QED
    BY <1>1, <1>2, <1>3, HitLoading, ComposeLoading, QuietLoading, ResolveLoading DEF LoadingNext, LoadingDone

\* Whatever the calls race for, a call works on the document its request names,
\* a prepared operation stands on one that was read in full, not refused, and
\* resolved, and a prepareCached call reaches the network for an entry's 3.2
\* document only, by leave of who loaded it (engine.ts load, prepared,
\* prepareCached; openapi32-artifact.ts resolveReference).
THEOREM LoadingTheorem == LoadingSpec => []PreparedStandsOnItsDocument
  <1>1. LoadingInv => PreparedStandsOnItsDocument
    BY DEF LoadingInv, LoadingNames, LoadingEntry, LoadingPrepared, LoadingNetwork, Solid, StandsOn, Lazy,
           PreparedStandsOnItsDocument
  <1>. QED
    BY InitLoading, StepLoading, <1>1, PTL DEF LoadingSpec

-----------------------------------------------------------------------------
(* A Swagger 2.0 call *)

\* A set of naturals has its least member.
LEMMA LeastOf ==
  ASSUME NEW S \in SUBSET Nat, S # {}
  PROVE  Min(S) \in S /\ \A y \in S : Min(S) <= y
  <1>1. PICK x \in S : \A y \in S : <<y, x>> \notin OpToRel(<, Nat)
    BY NatLessThanWellFounded, WFMin
  <1>2. \A y \in S : ~(y < x)
    BY <1>1 DEF OpToRel
  <1>3. \A y \in S : x <= y
    BY <1>2
  <1>. QED
    BY <1>3 DEF Min

SwaggerPoints == {"server", "security", "credentials", "requestMedia", "propertyMedia", "emptyValueForm"}
Verdicts20 == {Pass, Refusal20} \cup {Asks(p) : p \in SwaggerPoints}

\* That a scheme was chosen, so that its credentials can be spoken of.
ChoseAlternative(d, o) == o.alternative # 0 \/ Len(d.alternatives) = 1

\* What is still open when a point is asked for.
Open(d, o, p) ==
  CASE p = "server" -> o.server = ""
    [] p = "security" -> ~ChoseAlternative(d, o)
    [] p = "credentials" -> /\ ChoseAlternative(d, o)
                            /\ ~(d.alternatives[Selected20(d, o)] \subseteq o.credentials)
    [] p = "requestMedia" -> o.media = <<>>
    [] p = "propertyMedia" -> o.propertyMedia # TRUE
    [] p = "emptyValueForm" -> o.emptyValueForm # TRUE

\* What an answer settles, and later answers leave settled.
Closed20(d, o, p) ==
  CASE p = "server" -> o.server # ""
    [] p = "security" -> o.alternative # 0
    [] p = "credentials" -> /\ ChoseAlternative(d, o)
                            /\ d.alternatives[Selected20(d, o)] \subseteq o.credentials
    [] p = "requestMedia" -> o.media # <<>>
    [] p = "propertyMedia" -> o.propertyMedia
    [] p = "emptyValueForm" -> o.emptyValueForm

LEMMA AskedFor ==
  ASSUME NEW p, NEW q
  PROVE  /\ Asks(p) = Asks(q) => p = q
         /\ Asks(p) # Pass /\ Asks(p) # Refusal20 /\ Pass # Refusal20
  BY DEF Asks, Pass, Refusal20

LEMMA ServerAsks ==
  ASSUME NEW d, NEW o
  PROVE  /\ ServerRung(d, o) \in Verdicts20
         /\ \A p \in SwaggerPoints : ServerRung(d, o) = Asks(p) => Open(d, o, p)
  <1>1. ServerRung(d, o) \in {Pass, Refusal20} \/ (ServerRung(d, o) = Asks("server") /\ o.server = "")
    BY DEF ServerRung
  <1>. QED
    BY <1>1, AskedFor DEF Verdicts20, SwaggerPoints, Open

LEMMA SecurityAsks ==
  ASSUME NEW d, NEW o, d.alternatives \in Seq(SUBSET Nat), o.alternative \in Nat
  PROVE  /\ SecurityRung(d, o) \in Verdicts20
         /\ \A p \in SwaggerPoints : SecurityRung(d, o) = Asks(p) => Open(d, o, p)
  <1> DEFINE names == d.alternatives[Selected20(d, o)]
             failing == {n \in names : d.schemeAt[n] = "" \/ n \notin o.credentials \/ Collides20(d, names, n)}
  <1>1. CASE d.alternatives = <<>>
    BY <1>1 DEF SecurityRung, Verdicts20, Pass, Asks
  <1>2. CASE d.alternatives # <<>> /\ o.alternative = 0 /\ Len(d.alternatives) # 1
    BY <1>2 DEF SecurityRung, Verdicts20, Asks, SwaggerPoints, Open, ChoseAlternative
  <1>3. CASE d.alternatives # <<>> /\ ChoseAlternative(d, o)
    <2>1. CASE Selected20(d, o) > Len(d.alternatives)
      BY <1>3, <2>1 DEF SecurityRung, Verdicts20, Refusal20, Asks, ChoseAlternative
    <2>2. CASE ~(Selected20(d, o) > Len(d.alternatives))
      <3>1. names \in SUBSET Nat
        BY <2>2 DEF Selected20
      <3>2. CASE failing = {}
        BY <1>3, <2>2, <3>2 DEF SecurityRung, Verdicts20, Pass, Asks, ChoseAlternative
      <3>3. CASE failing # {}
        <4>1. Min(failing) \in names
          BY <3>1, <3>3, LeastOf
        <4>2. \/ SecurityRung(d, o) = Refusal20
              \/ SecurityRung(d, o) = Asks("credentials") /\ Min(failing) \notin o.credentials
          BY <1>3, <2>2, <3>3 DEF SecurityRung, ChoseAlternative
        <4> HIDE DEF failing
        <4>3. SecurityRung(d, o) = Asks("credentials") => Open(d, o, "credentials")
          BY <1>3, <4>1, <4>2, AskedFor DEF Open
        <4>. QED
          BY <4>2, <4>3, AskedFor DEF Verdicts20, SwaggerPoints
      <3>. QED
        BY <3>2, <3>3
    <2>. QED
      BY <2>1, <2>2
  <1>. QED
    BY <1>1, <1>2, <1>3 DEF ChoseAlternative

\* A rung passes, refuses, or asks for a point that is open.
Rung(d, o, rung) == rung \in {Pass, Refusal20} \/ \E p \in SwaggerPoints : rung = Asks(p) /\ Open(d, o, p)

LEMMA SelectionAsks ==
  ASSUME NEW d, NEW o
  PROVE  Rung(d, o, SelectMedia20(d, o))
  <1>1. SelectMedia20(d, o) \in {Pass, Refusal20} \/ (SelectMedia20(d, o) = Asks("requestMedia") /\ o.media = <<>>)
    BY DEF SelectMedia20
  <1>. QED
    BY <1>1 DEF Rung, SwaggerPoints, Open

LEMMA RouteAsks ==
  ASSUME NEW d, NEW i, NEW o
  PROVE  Rung(d, o, RouteRung(d, i, o))
  <1>1. \/ RouteRung(d, i, o) \in {Pass, Refusal20}
        \/ RouteRung(d, i, o) = Asks("emptyValueForm") /\ o.emptyValueForm # TRUE
    BY DEF RouteRung, Unless
  <1>. QED
    BY <1>1 DEF Rung, SwaggerPoints, Open

LEMMA EncodeAsks ==
  ASSUME NEW d, NEW i, NEW o
  PROVE  Rung(d, o, EncodeRung(d, i, o))
  <1>1. \/ EncodeRung(d, i, o) \in {Pass, Refusal20}
        \/ EncodeRung(d, i, o) = Asks("propertyMedia") /\ o.propertyMedia # TRUE
    BY DEF EncodeRung, Unless
  <1>. QED
    BY <1>1 DEF Rung, SwaggerPoints, Open

LEMMA DecideAsks ==
  ASSUME NEW d, NEW i, NEW o, d.alternatives \in Seq(SUBSET Nat), o.alternative \in Nat
  PROVE  Rung(d, o, Decide20(d, i, o))
  <1>1. Rung(d, o, ServerRung(d, o)) /\ Rung(d, o, SecurityRung(d, o))
    BY ServerAsks, SecurityAsks DEF Rung, Verdicts20
  <1>2. Rung(d, o, Pass) /\ Rung(d, o, Refusal20)
    BY DEF Rung
  <1>3. Rung(d, o, RequiredMediaRung(d, i, o)) /\ Rung(d, o, MediaRung(d, i, o))
    BY <1>2, SelectionAsks DEF RequiredMediaRung, MediaRung
  <1>4. Rung(d, o, CollisionRung(d, i, o)) /\ Rung(d, o, MethodRung(d, i, o))
    BY <1>2 DEF CollisionRung, MethodRung, Unless
  <1>. QED
    BY <1>1, <1>3, <1>4, RouteAsks, EncodeAsks DEF Decide20

-----------------------------------------------------------------------------

SwaggerTypes ==
  /\ swaggerCase \in SwaggerCases
  /\ DOMAIN choices = DOMAIN Nothing
  /\ choices.alternative \in {0} \cup DOMAIN swaggerCase.declared.alternatives
  /\ DOMAIN swagger = {"at", "point"}
  /\ swagger.at \in {"ready", "asked", "refused", "sent", "done"}
  /\ DOMAIN fetching = {"origin", "credentials", "hops"}
  /\ replied \subseteq SwaggerPoints

\* A point is asked for while it is open, and one that was answered is closed;
\* credentials are with the request as long as it never left its origin.
SwaggerInv ==
  /\ SwaggerTypes
  /\ swagger.at = "asked" => swagger.point \in SwaggerPoints /\ Open(swaggerCase.declared, choices, swagger.point)
  /\ \A p \in replied : Closed20(swaggerCase.declared, choices, p)
  /\ swagger.at \in {"ready", "asked"} => fetching.origin = "home"
  /\ fetching.credentials => fetching.origin = "home"
  /\ swagger.at = "done" => result.is = Received20(swaggerCase.declared, result.reply)

LEMMA InitSwagger == SwaggerInit => SwaggerInv
  <1> SUFFICES ASSUME SwaggerInit PROVE SwaggerInv
    OBVIOUS
  <1>1. /\ swaggerCase \in SwaggerCases /\ choices = Nothing /\ replied = {}
        /\ swagger = [at |-> "ready", point |-> ""]
        /\ fetching = [origin |-> "home", credentials |-> FALSE, hops |-> 0]
    BY DEF SwaggerInit, SwaggerStarts
  <1>2. choices.alternative = 0
    BY <1>1 DEF Nothing
  <1>3. swagger.at = "ready" /\ DOMAIN swagger = {"at", "point"}
    BY <1>1
  <1>4. fetching.origin = "home" /\ DOMAIN fetching = {"origin", "credentials", "hops"} /\ ~fetching.credentials
    BY <1>1
  <1>. QED
    BY <1>1, <1>2, <1>3, <1>4 DEF SwaggerInv, SwaggerTypes

LEMMA DeclaredTypes ==
  ASSUME SwaggerTypes
  PROVE  LET d == swaggerCase.declared
         IN  /\ d.alternatives \in Seq(SUBSET Nat)
             /\ d.consumes \in Seq(STRING \X STRING)
             /\ choices.alternative \in Nat
  BY SwaggerAssumption DEF SwaggerTypes

LEMMA AttemptSwagger == SwaggerInv /\ Attempt => SwaggerInv'
  <1> SUFFICES ASSUME SwaggerInv, Attempt PROVE SwaggerInv'
    OBVIOUS
  <1> DEFINE d == swaggerCase.declared
             decided == Decide20(d, swaggerCase.input, choices)
  <1>1. Rung(d, choices, decided)
    BY DeclaredTypes, DecideAsks DEF SwaggerInv
  <1>2. /\ swagger' = [at |-> IF decided.is = "pass" THEN "sent" ELSE decided.is, point |-> decided.point]
        /\ fetching' = [fetching EXCEPT !.credentials = decided.is = "pass" /\ Credentials20(d, choices) # {}]
        /\ swagger.at = "ready"
        /\ UNCHANGED <<swaggerCase, choices, replied, result>>
    BY DEF Attempt
  <1> HIDE DEF decided
  <1>3. /\ swagger'.at \in {"sent", "refused", "asked"} /\ DOMAIN swagger' = {"at", "point"}
        /\ swagger'.at = "asked" => swagger'.point \in SwaggerPoints /\ Open(d, choices, swagger'.point)
    <2>1. \/ decided.is \in {"pass", "refused"}
          \/ decided.is = "asked" /\ decided.point \in SwaggerPoints /\ Open(d, choices, decided.point)
      <3>1. Pass.is = "pass" /\ Refusal20.is = "refused"
        BY DEF Pass, Refusal20
      <3>2. ASSUME NEW p \in SwaggerPoints, decided = Asks(p), Open(d, choices, p)
            PROVE  decided.is = "asked" /\ decided.point \in SwaggerPoints /\ Open(d, choices, decided.point)
        <4>1. decided.is = "asked" /\ decided.point = p
          BY <3>2 DEF Asks
        <4>. QED
          BY <3>2, <4>1
      <3>. QED
        BY <1>1, <3>1, <3>2 DEF Rung
    <2>. QED
      BY <1>2, <2>1
  <1>4. DOMAIN fetching' = {"origin", "credentials", "hops"} /\ fetching'.origin = "home"
    BY <1>2 DEF SwaggerInv, SwaggerTypes
  <1>. QED
    BY <1>2, <1>3, <1>4 DEF SwaggerInv, SwaggerTypes

\* What an answer changes: one choice, which closes the point asked for, and
\* no other choice.
LEMMA ReplyChooses ==
  ASSUME SwaggerInv, Reply
  PROVE  LET d == swaggerCase.declared
             p == swagger.point
         IN  /\ DOMAIN choices' = DOMAIN Nothing
             /\ choices'.alternative \in {0} \cup DOMAIN d.alternatives
             /\ Closed20(d, choices', p)
             /\ p # "server" => choices'.server = choices.server
             /\ p # "security" => choices'.alternative = choices.alternative
             /\ p # "credentials" => choices'.credentials = choices.credentials
             /\ p # "requestMedia" => choices'.media = choices.media
             /\ p # "propertyMedia" => choices'.propertyMedia = choices.propertyMedia
             /\ p # "emptyValueForm" => choices'.emptyValueForm = choices.emptyValueForm
  <1> DEFINE d == swaggerCase.declared
             p == swagger.point
  <1>1. /\ p \in SwaggerPoints /\ Open(d, choices, p)
        /\ choices' \in Replies(d, p)
        /\ d.alternatives \in Seq(SUBSET Nat) /\ d.consumes \in Seq(STRING \X STRING)
        /\ DOMAIN choices = DOMAIN Nothing
        /\ choices.alternative \in {0} \cup DOMAIN d.alternatives
    BY DeclaredTypes DEF SwaggerInv, SwaggerTypes, Reply
  <1>2. DOMAIN Nothing = {"server", "alternative", "credentials", "media", "propertyMedia", "emptyValueForm", "converter"}
    BY DEF Nothing
  <1> HIDE DEF d, p
  <1>3. CASE p = "server"
    <2>1. PICK s \in {"url", "index"} : choices' = [choices EXCEPT !.server = s]
      BY <1>1, <1>3 DEF Replies
    <2>. QED
      BY <1>1, <1>2, <1>3, <2>1 DEF Closed20, d, p
  <1>4. CASE p = "security"
    <2>1. PICK k \in DOMAIN d.alternatives : choices' = [choices EXCEPT !.alternative = k]
      BY <1>1, <1>4 DEF Replies
    <2>2. k # 0
      BY <1>1
    <2>. QED
      BY <1>1, <1>2, <1>4, <2>1, <2>2 DEF Closed20, d, p
  <1>5. CASE p = "credentials"
    <2>1. choices' = [choices EXCEPT !.credentials = @ \cup d.alternatives[Selected20(d, choices)]]
      BY <1>1, <1>5 DEF Replies
    <2>2. choices'.credentials = choices.credentials \cup d.alternatives[Selected20(d, choices)]
      BY <1>1, <1>2, <2>1
    <2>3. choices'.alternative = choices.alternative
      BY <1>1, <1>2, <2>1
    <2>4. ChoseAlternative(d, choices)
      BY <1>1, <1>5 DEF Open
    <2>5. Closed20(d, choices', p)
      BY <1>5, <2>2, <2>3, <2>4 DEF Closed20, ChoseAlternative, Selected20
    <2>. QED
      BY <1>1, <1>2, <1>5, <2>1, <2>3, <2>5 DEF d, p
  <1>6. CASE p = "requestMedia"
    <2>1. PICK m : choices' = [choices EXCEPT !.media = m]
                   /\ m \in Representatives20(d.payload) \cup Entries(d.consumes)
      BY <1>1, <1>6 DEF Replies
    <2>2. m # <<>>
      <3>1. CASE m \in Representatives20(d.payload)
        BY <3>1 DEF Representatives20
      <3>2. CASE m \in Entries(d.consumes)
        BY <1>1, <3>2 DEF Entries
      <3>. QED
        BY <2>1, <3>1, <3>2
    <2>. QED
      BY <1>1, <1>2, <1>6, <2>1, <2>2 DEF Closed20, d, p
  <1>7. CASE p = "propertyMedia"
    <2>1. choices' = [choices EXCEPT !.propertyMedia = TRUE]
      BY <1>1, <1>7 DEF Replies
    <2>. QED
      BY <1>1, <1>2, <1>7, <2>1 DEF Closed20, d, p
  <1>8. CASE p = "emptyValueForm"
    <2>1. choices' = [choices EXCEPT !.emptyValueForm = TRUE]
      BY <1>1, <1>8 DEF Replies
    <2>. QED
      BY <1>1, <1>2, <1>8, <2>1 DEF Closed20, d, p
  <1>. QED
    BY <1>1, <1>3, <1>4, <1>5, <1>6, <1>7, <1>8 DEF SwaggerPoints

\* A closed point stays closed when another one is answered: no alternative is
\* chosen after credentials were given for one.
LEMMA ReplySwagger == SwaggerInv /\ Reply => SwaggerInv'
  <1> SUFFICES ASSUME SwaggerInv, Reply PROVE SwaggerInv'
    OBVIOUS
  <1> DEFINE d == swaggerCase.declared
  <1>1. /\ swagger.at = "asked" /\ swagger' = [at |-> "ready", point |-> ""]
        /\ replied' = replied \cup {swagger.point}
        /\ UNCHANGED <<swaggerCase, fetching, result>>
        /\ swagger.point \in SwaggerPoints /\ Open(d, choices, swagger.point)
    BY DEF Reply, SwaggerInv
  <1>2. ASSUME NEW q \in replied, q # swagger.point
        PROVE  Closed20(d, choices', q)
    <2>1. Closed20(d, choices, q) /\ q \in SwaggerPoints
      BY DEF SwaggerInv, SwaggerTypes
    <2>2. q = "credentials" => choices'.alternative = choices.alternative
      <3>1. q = "credentials" => ChoseAlternative(d, choices)
        BY <2>1 DEF Closed20
      <3>2. q = "credentials" => swagger.point # "security"
        BY <1>1, <3>1 DEF Open
      <3>. QED
        BY <3>2, ReplyChooses
    <2>3. CASE q = "credentials"
      BY <1>2, <2>1, <2>2, <2>3, ReplyChooses DEF Closed20, ChoseAlternative, Selected20
    <2>4. CASE q # "credentials"
      BY <1>2, <2>1, <2>4, ReplyChooses DEF Closed20, SwaggerPoints
    <2>. QED
      BY <2>3, <2>4
  <1>3. \A q \in replied' : Closed20(d, choices', q)
    BY <1>1, <1>2, ReplyChooses
  <1>4. SwaggerTypes'
    BY <1>1, ReplyChooses DEF SwaggerInv, SwaggerTypes
  <1>5. swagger'.at = "ready"
    BY <1>1
  <1>. QED
    BY <1>1, <1>3, <1>4, <1>5 DEF SwaggerInv

LEMMA AfterDispatch ==
  ASSUME SwaggerInv,
         \/ \E origin \in {"home", "away"} : FollowSwaggerRedirect(origin)
         \/ \E reply \in SwaggerReplies : ReceiveSwagger(reply)
  PROVE  SwaggerInv'
  <1>1. ASSUME NEW origin \in {"home", "away"}, FollowSwaggerRedirect(origin)
        PROVE  SwaggerInv'
    <2>1. /\ fetching' = [origin |-> origin, credentials |-> Kept20(fetching.origin, origin), hops |-> fetching.hops + 1]
          /\ swagger.at = "sent" /\ UNCHANGED <<swaggerCase, choices, replied, swagger, result>>
      BY <1>1 DEF FollowSwaggerRedirect
    <2>2. DOMAIN fetching' = {"origin", "credentials", "hops"} /\ (fetching'.credentials => fetching'.origin = "home")
      BY <2>1 DEF Kept20, SwaggerInv
    <2>. QED
      BY <2>1, <2>2 DEF SwaggerInv, SwaggerTypes
  <1>2. ASSUME NEW reply \in SwaggerReplies, ReceiveSwagger(reply)
        PROVE  SwaggerInv'
    <2>1. /\ swagger' = [at |-> "done", point |-> ""]
          /\ result' = [is |-> Received20(swaggerCase.declared, reply), reply |-> reply]
          /\ UNCHANGED <<swaggerCase, choices, replied, fetching>>
      BY <1>2 DEF ReceiveSwagger
    <2>2. swagger'.at = "done" /\ DOMAIN swagger' = {"at", "point"}
      BY <2>1
    <2>3. result'.is = Received20(swaggerCase.declared, result'.reply)
      BY <2>1
    <2>. QED
      BY <2>1, <2>2, <2>3 DEF SwaggerInv, SwaggerTypes
  <1>. QED
    BY <1>1, <1>2

\* What the class of a result says of the response.
LEMMA ReceivedIsTrue ==
  ASSUME NEW d, NEW reply
  PROVE  LET is == Received20(d, reply)
         IN  /\ is \in {"output", "nothing"} => Success(reply.status) /\ ~reply.defect
             /\ is = "output" =>
                  /\ ~reply.empty /\ reply.status # "204"
                  /\ \E k \in ResponseKey(d, reply.status) : BodyLane20(reply.media, d.responses[k]) # ""
             /\ is = "failure" => ~Success(reply.status)
  <1> DEFINE governs == ResponseKey(d, reply.status)
             key == CHOOSE k \in governs : TRUE
             failed == IF Success(reply.status) THEN "error" ELSE "failure"
  <1>1. CASE reply.defect \/ reply.status = "101" \/ (NoContent(reply.status) /\ ~reply.empty)
    BY <1>1 DEF Received20
  <1>2. CASE ~(reply.defect \/ reply.status = "101" \/ (NoContent(reply.status) /\ ~reply.empty))
    <2>1. CASE reply.empty
      BY <1>2, <2>1 DEF Received20
    <2>2. CASE ~reply.empty /\ governs = {}
      BY <1>2, <2>2 DEF Received20
    <2>3. CASE ~reply.empty /\ governs # {}
      <3>1. key \in governs
        BY <2>3
      <3>2. Received20(d, reply) =
              IF ~Decodes(d, key, reply) THEN IF d.responses[key] = "invalid" THEN failed ELSE "error"
              ELSE IF Success(reply.status) THEN "output" ELSE "failure"
        BY <1>2, <2>3 DEF Received20
      <3>3. Decodes(d, key, reply) => BodyLane20(reply.media, d.responses[key]) # ""
        BY DEF Decodes
      <3> HIDE DEF governs, key
      <3>4. CASE Decodes(d, key, reply)
        BY <1>2, <2>3, <3>1, <3>2, <3>3, <3>4 DEF NoContent, governs
      <3>5. CASE ~Decodes(d, key, reply)
        BY <3>2, <3>5
      <3>. QED
        BY <3>4, <3>5
    <2>. QED
      BY <2>1, <2>2, <2>3
  <1>. QED
    BY <1>1, <1>2

LEMMA StepSwagger == SwaggerInv /\ [SwaggerNext]_swaggerVars => SwaggerInv'
  <1> SUFFICES ASSUME SwaggerInv, [SwaggerNext]_swaggerVars PROVE SwaggerInv'
    OBVIOUS
  <1>1. CASE UNCHANGED swaggerVars
    BY <1>1 DEF swaggerVars, SwaggerInv, SwaggerTypes
  <1>. QED
    BY <1>1, AttemptSwagger, ReplySwagger, AfterDispatch DEF SwaggerNext, SwaggerDone

LEMMA SwaggerInvIsEnough == SwaggerInv => SwaggerCallIsTrue
  <1> SUFFICES ASSUME SwaggerInv PROVE SwaggerCallIsTrue
    OBVIOUS
  <1>1. AnswersAdvance
    <2> SUFFICES ASSUME swagger.at = "asked", swagger.point \in replied PROVE FALSE
      BY DEF AnswersAdvance
    <2>1. /\ swagger.point \in SwaggerPoints /\ Open(swaggerCase.declared, choices, swagger.point)
          /\ Closed20(swaggerCase.declared, choices, swagger.point)
      BY DEF SwaggerInv
    <2>. QED
      BY <2>1 DEF Open, Closed20, SwaggerPoints, ChoseAlternative
  <1>2. SwaggerOutcomeIsTrue
    BY ReceivedIsTrue DEF SwaggerOutcomeIsTrue, SwaggerInv
  <1>. QED
    BY <1>1, <1>2 DEF SwaggerCallIsTrue

\* A caller who answers is not asked the same again, credentials never reach
\* another origin, and a result is what the response was
\* (swagger20-execution.ts executeSwagger20, swagger20-context.ts).
THEOREM SwaggerCallTheorem == SwaggerSpec => []SwaggerCallIsTrue
  BY InitSwagger, StepSwagger, SwaggerInvIsEnough, PTL DEF SwaggerSpec

-----------------------------------------------------------------------------
(* What a Swagger 2.0 call is foreseen to need *)

\* The operations that are spoken of here.
ProperOperation(d) ==
  /\ d.alternatives \in Seq(SUBSET Nat)
  /\ d.payload.kind # "form" => d.payload.file = FALSE

\* What an answer that leaves one thing out has in common with the choices it
\* completes.
LEMMA AnswersComplete ==
  ASSUME NEW d, NEW o, NEW p, NEW n, NEW a \in Answers(d, o, p, n)
  PROVE  /\ p = "server" => a.server = o.server
         /\ o.alternative # 0 \/ p = "security" => a.alternative = o.alternative
         /\ a.alternative \in {o.alternative} \cup DOMAIN d.alternatives
         /\ o.media # <<>> \/ p = "requestMedia" => a.media = o.media
         /\ n \notin a.credentials
         /\ p = "propertyMedia" /\ ~o.propertyMedia => ~a.propertyMedia
  <1>1. PICK k \in AlternativesTried(d, o, p) : \E m \in MediaTried(d, o, p) : a = Completed(d, o, p, n, k, m)
    BY DEF Answers
  <1>2. PICK m \in MediaTried(d, o, p) : a = Completed(d, o, p, n, k, m)
    BY <1>1
  <1>3. /\ p = "server" => a.server = o.server
        /\ a.alternative = k /\ a.media = m
    BY <1>2 DEF Completed
  <1>4. n \notin a.credentials
    BY <1>2 DEF Completed
  <1>5. p = "propertyMedia" /\ ~o.propertyMedia => ~a.propertyMedia
    BY <1>2 DEF Completed
  <1>6. /\ o.alternative # 0 \/ p = "security" => k = o.alternative
        /\ k \in {o.alternative} \cup DOMAIN d.alternatives
    BY DEF AlternativesTried
  <1>7. o.media # <<>> \/ p = "requestMedia" => m = o.media
    BY DEF MediaTried
  <1>. QED
    BY <1>3, <1>4, <1>5, <1>6, <1>7

\* A call passes when every rung does, and asks what one of them asks.
LEMMA RungsDecide ==
  ASSUME NEW d, NEW i, NEW o
  PROVE  LET rungs == {ServerRung(d, o), SecurityRung(d, o), RequiredMediaRung(d, i, o), RouteRung(d, i, o),
                       CollisionRung(d, i, o), MethodRung(d, i, o), MediaRung(d, i, o), EncodeRung(d, i, o)}
         IN /\ Decide20(d, i, o).is = "pass" => \A rung \in rungs : rung.is = "pass"
            /\ Decide20(d, i, o) \in rungs
  BY DEF Decide20

\* The alternatives that can be used are among the declared ones.
LEMMA UsableAreDeclared ==
  ASSUME NEW d, d.alternatives \in Seq(SUBSET Nat)
  PROVE  LET usable == UsableAlternatives(d)
             n == Len(d.alternatives)
         IN /\ n \in Nat /\ DOMAIN d.alternatives = 1 .. n
            /\ usable \subseteq 1 .. n /\ Cardinality(usable) \in Nat
            /\ n <= 1 => ~(Cardinality(usable) > 1)
            /\ usable = 1 .. n /\ ~(Cardinality(usable) > 1) => n <= 1
            /\ usable # {} /\ ~(Cardinality(usable) > 1) => usable = {Min(usable)}
  <1> DEFINE usable == UsableAlternatives(d)
             n == Len(d.alternatives)
  <1>1. n \in Nat /\ DOMAIN d.alternatives = 1 .. n
    OBVIOUS
  <1>2. usable \subseteq 1 .. n
    BY <1>1 DEF UsableAlternatives
  <1> HIDE DEF usable, n
  <1>3. IsFiniteSet(1 .. n) /\ Cardinality(1 .. n) = n
    <2>1. n \in Int /\ 1 \in Int
      BY <1>1
    <2>. QED
      BY <1>1, <2>1, FS_Interval
  <1>4. IsFiniteSet(usable) /\ Cardinality(usable) <= n
    BY <1>2, <1>3, FS_Subset
  <1>5. Cardinality(usable) \in Nat
    BY <1>4, FS_CardinalityType
  <1>6. usable # {} /\ ~(Cardinality(usable) > 1) => usable = {Min(usable)}
    <2> SUFFICES ASSUME usable # {}, ~(Cardinality(usable) > 1) PROVE usable = {Min(usable)}
      OBVIOUS
    <2>1. Cardinality(usable) # 0
      BY <1>4, FS_EmptySet
    <2>2. Cardinality(usable) = 1
      BY <1>5, <2>1
    <2>3. PICK k : usable = {k}
      BY <1>4, <2>2, FS_Singleton
    <2>4. usable \in SUBSET Nat
      BY <1>1, <1>2
    <2>5. Min(usable) \in usable
      BY <2>4, LeastOf
    <2>. QED
      BY <2>3, <2>5
  <1>. QED
    BY <1>1, <1>2, <1>3, <1>4, <1>5, <1>6 DEF usable, n

\* What is foreseen of the server, the media, the files and the security is
\* needed: without it the call does not pass.
LEMMA ServerIsNeeded ==
  ASSUME NEW d, NEW i, NEW a, a.server = "", "server" \in Foreseen(d)
  PROVE  Decide20(d, i, a).is # "pass"
  <1>1. ServerRung(d, Nothing).is # "pass"
    BY DEF Foreseen
  <1>2. ServerRung(d, a).is = ServerRung(d, Nothing).is
    <2>1. Nothing.server = ""
      BY DEF Nothing
    <2>. QED
      BY <2>1 DEF ServerRung
  <1>. QED
    BY <1>1, <1>2, RungsDecide

LEMMA MediaIsNeeded ==
  ASSUME NEW d, NEW i, NEW a, a.media = <<>>, "requestMedia" \in Foreseen(d)
  PROVE  Decide20(d, i, a).is # "pass"
  <1>1. MediaForeseen(d)
    BY DEF Foreseen
  <1>2. SelectMedia20(d, a).is # "pass"
    BY <1>1 DEF MediaForeseen, UsableMedia, SelectMedia20, Refusal20, Asks
  <1>3. RequiredMediaRung(d, i, a).is # "pass"
    BY <1>1, <1>2 DEF MediaForeseen, RequiredMediaRung
  <1>. QED
    BY <1>3, RungsDecide

LEMMA PropertyMediaIsNeeded ==
  ASSUME NEW d, ProperOperation(d), NEW i, NEW a, ~a.propertyMedia, "propertyMedia" \in Foreseen(d)
  PROVE  Decide20(d, i, a).is # "pass"
  <1> SUFFICES ASSUME Decide20(d, i, a).is = "pass" PROVE FALSE
    OBVIOUS
  <1>1. d.payload.required /\ d.payload.file /\ d.payload.kind = "form"
    BY DEF Foreseen, ProperOperation
  <1>2. RequiredMediaRung(d, i, a).is = "pass" /\ RouteRung(d, i, a).is = "pass" /\ EncodeRung(d, i, a).is = "pass"
    BY RungsDecide
  <1>3. SelectMedia20(d, a).is = "pass"
    BY <1>1, <1>2 DEF RequiredMediaRung
  <1>4. RequestLane20(Elected20(d, a), d.payload) # ""
    <2>1. CASE a.media # <<>>
      BY <1>3, <2>1 DEF SelectMedia20, Elected20, Refusal20
    <2>2. CASE a.media = <<>>
      <3>1. PICK m : {e \in Entries(d.consumes) : UsableEntry(e, d.payload)} = {m} /\ ~IsRange(m)
        BY <1>3, <2>2 DEF SelectMedia20, Refusal20, Asks
      <3>2. Elected20(d, a) = m
        BY <2>2, <3>1 DEF Elected20
      <3>3. UsableEntry(m, d.payload)
        BY <3>1
      <3>. QED
        BY <3>1, <3>2, <3>3 DEF UsableEntry
    <2>. QED
      BY <2>1, <2>2
  <1>5. RequestLane20(Elected20(d, a), d.payload) = "multipart"
    BY <1>1, <1>4 DEF RequestLane20
  <1>6. i.body
    BY <1>1, <1>2 DEF RouteRung, Unless, Refusal20, Asks
  <1>. QED
    BY <1>1, <1>2, <1>5, <1>6 DEF EncodeRung, Asks

LEMMA SecurityIsNeeded ==
  ASSUME NEW d, ProperOperation(d), NEW i, NEW a, a.alternative = 0, "security" \in Foreseen(d)
  PROVE  Decide20(d, i, a).is # "pass"
  <1>1. SecurityForeseen(d)
    BY DEF Foreseen
  <1> DEFINE count == Len(d.alternatives)
  <1>2. count \in Nat /\ count > 1
    BY <1>1, UsableAreDeclared DEF SecurityForeseen, ProperOperation
  <1>3. d.alternatives = <<>> => count = 0
    OBVIOUS
  <1> HIDE DEF count
  <1>4. d.alternatives # <<>> /\ count # 1
    BY <1>2, <1>3
  <1>5. SecurityRung(d, a).is # "pass"
    BY <1>4 DEF SecurityRung, Asks, count
  <1>. QED
    BY <1>5, RungsDecide

\* And so is every scheme that is missing, whichever alternative is taken.
LEMMA SchemesAreNeeded ==
  ASSUME NEW d, ProperOperation(d), NEW i, NEW o, NEW auth, ~Preflight20(d, o, auth).failed,
         NEW n \in MissingSchemes(d, o, auth), NEW p, NEW a \in Answers(d, o, p, n)
  PROVE  Decide20(d, i, a).is # "pass"
  <1> DEFINE usable == UsableAlternatives(d)
             k == IF o.alternative # 0 THEN o.alternative ELSE Min(usable)
             count == Len(d.alternatives)
             names == d.alternatives[Selected20(d, a)]
             failing == {m \in names : d.schemeAt[m] = "" \/ m \notin a.credentials \/ Collides20(d, names, m)}
  <1>1. /\ usable # {} /\ n \in d.alternatives[k]
        /\ o.alternative = 0 => ~SecurityForeseen(d)
    BY DEF MissingSchemes
  <1>2. /\ count \in Nat /\ DOMAIN d.alternatives = 1 .. count
        /\ usable \subseteq 1 .. count
    BY UsableAreDeclared DEF ProperOperation
  <1>b. d.alternatives = <<>> => count = 0
    OBVIOUS
  <1> HIDE DEF usable, k, count
  <1>3. d.alternatives # <<>>
    <2>1. PICK j : j \in usable
      BY <1>1
    <2>2. j \in 1 .. count
      BY <1>2, <2>1
    <2>3. count # 0
      BY <1>2, <2>2
    <2>. QED
      BY <1>b, <2>3
  <1>4. o.alternative # 0 => o.alternative \in usable
    BY <1>3 DEF Preflight20, usable
  <1>5. o.alternative = 0 => usable = {k}
    BY <1>1, UsableAreDeclared DEF ProperOperation, SecurityForeseen, usable, k
  <1>6. k \in usable
    BY <1>4, <1>5 DEF k
  <1>7. /\ o.alternative # 0 => a.alternative = o.alternative
        /\ a.alternative \in {o.alternative} \cup DOMAIN d.alternatives
        /\ n \notin a.credentials
    BY AnswersComplete
  <1>a. a.alternative # 0 => a.alternative \in 1 .. count
    BY <1>2, <1>4, <1>7
  <1>8. CASE a.alternative = 0 /\ count # 1
    <2>1. SecurityRung(d, a).is # "pass"
      BY <1>3, <1>8 DEF SecurityRung, Asks, count
    <2>. QED
      BY <2>1, RungsDecide
  <1>9. CASE a.alternative # 0 \/ count = 1
    <2>1. Selected20(d, a) \in 1 .. count
      BY <1>2, <1>9, <1>a DEF Selected20
    <2>2. Selected20(d, a) = k \/ Selected20(d, a) \notin usable
      <3>1. CASE o.alternative # 0
        BY <1>7, <3>1 DEF Selected20, k
      <3>2. CASE o.alternative = 0
        BY <1>5, <3>2
      <3>. QED
        BY <3>1, <3>2
    <2>3. failing # {}
      <3>1. CASE Selected20(d, a) = k
        BY <1>1, <1>7, <3>1
      <3>2. CASE Selected20(d, a) \notin usable
        <4>1. \E m \in names : d.schemeAt[m] = "" \/ Collides20(d, names, m)
          BY <1>2, <2>1, <3>2 DEF usable, UsableAlternatives
        <4>. QED
          BY <4>1
      <3>. QED
        BY <2>2, <3>1, <3>2
    <2>4. SecurityRung(d, a).is # "pass"
      BY <1>2, <1>3, <1>9, <2>1, <2>3 DEF SecurityRung, Asks, Refusal20, count
    <2>. QED
      BY <2>4, RungsDecide
  <1>. QED
    BY <1>8, <1>9

\* A call that asks for what was not foreseen asks what preflight passes over.
LEMMA CallAsksNothingElse ==
  ASSUME NEW d, ProperOperation(d), NEW i, NEW o, NEW auth \in SUBSET o.credentials,
         ~Preflight20(d, o, auth).failed,
         Foreseen(d) \ Answered(o) = {}, MissingSchemes(d, o, auth) = {}, Decide20(d, i, o).is = "asked"
  PROVE  PassedOver(d, i, Decide20(d, i, o).point)
  <1> DEFINE asked == Decide20(d, i, o)
             usable == UsableAlternatives(d)
             n == Len(d.alternatives)
  <1>1. \A p : Asks(p).is = "asked" /\ Asks(p).point = p
    BY DEF Asks
  <1>2. Pass.is # "asked" /\ Refusal20.is # "asked"
    BY DEF Pass, Refusal20
  <1>3. n \in Nat /\ DOMAIN d.alternatives = 1 .. n /\ usable \subseteq 1 .. n
    BY UsableAreDeclared DEF ProperOperation
  <1>b. asked.is = "asked"
    OBVIOUS
  <1>c. d.alternatives = <<>> => n = 0
    OBVIOUS
  <1>h. MissingSchemes(d, o, o.credentials) = {}
    BY DEF MissingSchemes
  <1>d. /\ i.values = "empty" => PassedOver(d, i, "emptyValueForm")
        /\ d.schemes = <<>> => PassedOver(d, i, "server")
        /\ i.body /\ ~d.payload.required => PassedOver(d, i, "requestMedia") /\ PassedOver(d, i, "propertyMedia")
        /\ ~d.inherited /\ usable # DOMAIN d.alternatives => PassedOver(d, i, "security")
    BY DEF PassedOver
  <1>e. SUFFICES PassedOver(d, i, asked.point)
    OBVIOUS
  <1> HIDE DEF asked, usable, n
  <1>4. CASE asked = ServerRung(d, o)
    <2>1. o.server = "" /\ asked = Asks("server")
      BY <1>2, <1>4, <1>b DEF ServerRung
    <2>2. ServerRung(d, Nothing).is = "asked"
      <3>1. Nothing.server = ""
        BY DEF Nothing
      <3>. QED
        BY <1>1, <1>4, <2>1, <3>1, ZenonT(30) DEF ServerRung
    <2>3. "server" \notin Answered(o)
      BY <2>1 DEF Answered
    <2>4. "server" \notin Foreseen(d)
      BY <2>3
    <2>5. d.schemes = <<>>
      BY <2>2, <2>4 DEF Foreseen
    <2>. QED
      BY <1>1, <1>d, <2>1, <2>5
  <1>5. CASE asked = SecurityRung(d, o)
    <2> DEFINE names == d.alternatives[Selected20(d, o)]
               failing == {m \in names : d.schemeAt[m] = "" \/ m \notin o.credentials \/ Collides20(d, names, m)}
    <2>1. d.alternatives # <<>>
      BY <1>2, <1>5, <1>b DEF SecurityRung
    <2>2. CASE o.alternative = 0 /\ n # 1
      <3>1. asked = Asks("security")
        BY <1>5, <2>1, <2>2 DEF SecurityRung, n
      <3>2. "security" \notin Foreseen(d)
        BY <2>2 DEF Answered
      <3>3. ~SecurityForeseen(d)
        BY <3>2 DEF Foreseen
      <3>4. n > 1
        BY <1>3, <1>c, <2>1, <2>2
      <3>5. ~d.inherited /\ usable # DOMAIN d.alternatives
        BY <1>3, <3>3, <3>4, UsableAreDeclared DEF SecurityForeseen, ProperOperation, usable, n
      <3>. QED
        BY <1>1, <1>d, <3>1, <3>5
    <2>3. CASE o.alternative # 0 \/ n = 1
      <3>1. Selected20(d, o) \in usable /\ d.alternatives[Selected20(d, o)] \subseteq o.credentials
        <4>1. usable # {}
          BY <2>1 DEF Preflight20, Excluded20, usable
        <4>2. CASE o.alternative # 0
          <5>1. o.alternative \in usable
            BY <2>1, <4>2 DEF Preflight20, usable
          <5>2. d.alternatives[o.alternative] \ o.credentials = {}
            BY <1>h, <4>1, <4>2 DEF MissingSchemes, usable
          <5>. QED
            BY <4>2, <5>1, <5>2 DEF Selected20
        <4>3. CASE o.alternative = 0
          <5>1. n = 1 /\ usable = {1} /\ ~SecurityForeseen(d) /\ Min(usable) = 1
            <6>0. n = 1
              BY <2>3, <4>3
            <6>1. n = 1 /\ usable = {1}
              <7>1. \A j \in 1 .. n : j = 1
                BY <6>0
              <7>2. \A j \in usable : j = 1
                BY <1>3, <7>1
              <7>. QED
                BY <4>1, <6>0, <7>2
            <6>2. ~(Cardinality(usable) > 1)
              <7>1. n <= 1 => ~(Cardinality(usable) > 1)
                BY UsableAreDeclared DEF ProperOperation, usable, n
              <7>. QED
                BY <6>0, <7>1
            <6>3. usable = {Min(usable)}
              BY <4>1, <6>2, UsableAreDeclared DEF ProperOperation, usable
            <6>. QED
              BY <6>1, <6>2, <6>3 DEF SecurityForeseen, usable, n
          <5>2. d.alternatives[1] \ o.credentials = {}
            BY <1>h, <4>1, <4>3, <5>1 DEF MissingSchemes, usable
          <5>. QED
            BY <4>3, <5>1, <5>2 DEF Selected20
        <4>. QED
          BY <4>2, <4>3
      <3>2. failing # {} => Min(failing) \in o.credentials
        <4>a. d.alternatives \in Seq(SUBSET Nat) /\ Selected20(d, o) \in DOMAIN d.alternatives
          BY <1>3, <3>1 DEF ProperOperation
        <4>1. names \in SUBSET Nat
          BY <4>a
        <4>. QED
          BY <3>1, <4>1, LeastOf
      <3>3. SecurityRung(d, o) \in {Pass, Refusal20}
        BY <1>3, <2>1, <2>3, <3>1, <3>2 DEF SecurityRung, n
      <3>. QED
        BY <1>2, <1>5, <1>b, <3>3
    <2>. QED
      BY <2>2, <2>3
  <1>6. CASE asked = SelectMedia20(d, o) /\ (d.payload.required \/ i.body)
    <2>1. asked = Asks("requestMedia") /\ o.media = <<>>
      BY <1>2, <1>6, <1>b DEF SelectMedia20
    <2>2. d.payload.required => MediaForeseen(d)
      BY <1>1, <1>2, <1>6, <1>b DEF SelectMedia20, MediaForeseen, UsableMedia
    <2>a. "requestMedia" \notin Answered(o)
      BY <2>1 DEF Answered
    <2>3. "requestMedia" \notin Foreseen(d)
      BY <2>a
    <2>4. ~d.payload.required
      BY <2>2, <2>3 DEF Foreseen
    <2>. QED
      BY <1>1, <1>6, <1>d, <2>1, <2>4
  <1>7. CASE asked = EncodeRung(d, i, o)
    <2>1. asked = Asks("propertyMedia") /\ d.payload.file /\ ~o.propertyMedia /\ i.body
      BY <1>2, <1>7, <1>b DEF EncodeRung, Unless
    <2>a. "propertyMedia" \notin Answered(o)
      BY <2>1 DEF Answered
    <2>2. "propertyMedia" \notin Foreseen(d)
      BY <2>a
    <2>3. ~d.payload.required
      BY <2>1, <2>2 DEF Foreseen
    <2>. QED
      BY <1>1, <1>d, <2>1, <2>3
  <1>8. CASE asked = RouteRung(d, i, o)
    BY <1>1, <1>2, <1>8, <1>b, <1>d DEF RouteRung, Unless
  <1>9. /\ RequiredMediaRung(d, i, o) = Pass \/ (RequiredMediaRung(d, i, o) = SelectMedia20(d, o) /\ d.payload.required)
        /\ MediaRung(d, i, o) = Pass \/ (MediaRung(d, i, o) = SelectMedia20(d, o) /\ i.body)
        /\ CollisionRung(d, i, o) \in {Pass, Refusal20} /\ MethodRung(d, i, o) \in {Pass, Refusal20}
    BY DEF RequiredMediaRung, MediaRung, CollisionRung, MethodRung, Unless
  <1>. QED
    BY <1>2, <1>4, <1>5, <1>6, <1>7, <1>8, <1>9, <1>b, RungsDecide DEF asked

LEMMA SwaggerTypesAreEnough == SwaggerTypes => SwaggerPreflightAgrees
  <1> SUFFICES ASSUME SwaggerTypes PROVE SwaggerPreflightAgrees
    OBVIOUS
  <1> DEFINE d == swaggerCase.declared
             i == swaggerCase.input
             asked == Decide20(d, i, choices)
             Report(auth) == Preflight20(d, choices, auth)
  <1>a. swaggerCase \in SwaggerCases
    BY DEF SwaggerTypes
  <1>b. d.alternatives \in Seq(SUBSET Nat)
    BY <1>a, SwaggerAssumption
  <1>c. d.payload.kind # "form" => d.payload.file = FALSE
    BY <1>a, SwaggerAssumption
  <1>1. ProperOperation(d)
    BY <1>b, <1>c DEF ProperOperation
  <1>2. ASSUME NEW g \in Givings(choices.credentials)
        PROVE  LET auth == PreflightAuth(g.ofClient, g.ofCall)
               IN /\ auth \in SUBSET choices.credentials
                  /\ \A n \in choices.credentials :
                        n \notin auth => g.ofCall.given /\ n \in g.ofClient \ g.ofCall.schemes
    <2>1. /\ g.ofClient \in SUBSET choices.credentials
          /\ g.ofCall = NotGiven \/ (g.ofCall.given /\ g.ofCall.schemes \in SUBSET choices.credentials)
          /\ g.ofClient \cup g.ofCall.schemes = choices.credentials
      BY DEF Givings, CallAuth
    <2>2. NotGiven.given = FALSE /\ NotGiven.schemes = {}
      BY DEF NotGiven
    <2>. QED
      BY <2>1, <2>2 DEF PreflightAuth
  <1>3. \A auth : Report(auth).points = Foreseen(d) \ Answered(choices) /\ Report(auth).schemes = MissingSchemes(d, choices, auth)
    BY DEF Preflight20
  <1>4. ASSUME NEW p \in Foreseen(d) \ Answered(choices), NEW o \in Answers(d, choices, p, 0)
        PROVE  Decide20(d, i, o).is # "pass"
    <2>1. p \in {"server", "requestMedia", "propertyMedia", "security"}
      BY DEF Foreseen
    <2>2. /\ p = "server" => choices.server = ""
          /\ p = "requestMedia" => choices.media = <<>>
          /\ p = "propertyMedia" => ~choices.propertyMedia
          /\ p = "security" => choices.alternative = 0
      BY <2>1 DEF Answered
    <2>3. /\ p = "server" => o.server = choices.server
          /\ p = "requestMedia" => o.media = choices.media
          /\ p = "propertyMedia" /\ ~choices.propertyMedia => ~o.propertyMedia
          /\ p = "security" => o.alternative = choices.alternative
      BY AnswersComplete
    <2>4. CASE p = "server"
      <3>1. o.server = ""
        BY <2>2, <2>3, <2>4
      <3>. QED
        BY <2>4, <3>1, ServerIsNeeded
    <2>5. CASE p = "requestMedia"
      BY <2>2, <2>3, <2>5, MediaIsNeeded
    <2>6. CASE p = "propertyMedia"
      BY <1>1, <2>2, <2>3, <2>6, PropertyMediaIsNeeded
    <2>7. CASE p = "security"
      BY <1>1, <2>2, <2>3, <2>7, SecurityIsNeeded
    <2>. QED
      BY <2>1, <2>4, <2>5, <2>6, <2>7
  <1>5. ASSUME NEW auth, ~Report(auth).failed, NEW n \in MissingSchemes(d, choices, auth),
               NEW o \in Answers(d, choices, "", n)
        PROVE  Decide20(d, i, o).is # "pass"
    BY <1>1, <1>5, SchemesAreNeeded
  <1>6. ASSUME NEW auth \in SUBSET choices.credentials, ~Report(auth).failed, asked.is = "asked",
               Foreseen(d) \ Answered(choices) = {}, MissingSchemes(d, choices, auth) = {}
        PROVE  PassedOver(d, i, asked.point)
    <2> HIDE DEF d, i
    <2>. QED
      BY <1>1, <1>6, CallAsksNothingElse
  <1>7. ASSUME NEW g \in Givings(choices.credentials),
               ~Report(PreflightAuth(g.ofClient, g.ofCall)).failed
        PROVE  LET report == Report(PreflightAuth(g.ofClient, g.ofCall))
               IN /\ \A p \in report.points : \A o \in Answers(d, choices, p, 0) : Decide20(d, i, o).is # "pass"
                  /\ \A n \in report.schemes :
                        /\ n \in choices.credentials => g.ofCall.given /\ n \in g.ofClient \ g.ofCall.schemes
                        /\ \A o \in Answers(d, choices, "", n) : Decide20(d, i, o).is # "pass"
                  /\ report.points = {} /\ report.schemes = {} /\ asked.is = "asked" => PassedOver(d, i, asked.point)
    <2> DEFINE auth == PreflightAuth(g.ofClient, g.ofCall)
    <2>1. /\ auth \in SUBSET choices.credentials
          /\ \A n \in choices.credentials :
                n \notin auth => g.ofCall.given /\ n \in g.ofClient \ g.ofCall.schemes
      BY <1>2
    <2>2. ~Report(auth).failed
      BY <1>7
    <2> HIDE DEF d, i, asked, Report, auth
    <2>3. \A p \in Report(auth).points : \A o \in Answers(d, choices, p, 0) : Decide20(d, i, o).is # "pass"
      BY <1>3, <1>4
    <2>4. \A n \in Report(auth).schemes :
             /\ n \in choices.credentials => g.ofCall.given /\ n \in g.ofClient \ g.ofCall.schemes
             /\ \A o \in Answers(d, choices, "", n) : Decide20(d, i, o).is # "pass"
      <3> SUFFICES ASSUME NEW n \in Report(auth).schemes
                   PROVE  /\ n \in choices.credentials => g.ofCall.given /\ n \in g.ofClient \ g.ofCall.schemes
                          /\ \A o \in Answers(d, choices, "", n) : Decide20(d, i, o).is # "pass"
        OBVIOUS
      <3>1. n \in MissingSchemes(d, choices, auth)
        BY <1>3
      <3>2. n \notin auth
        BY <3>1 DEF MissingSchemes
      <3>3. \A o \in Answers(d, choices, "", n) : Decide20(d, i, o).is # "pass"
        BY <1>5, <2>2, <3>1
      <3>. QED
        BY <2>1, <3>2, <3>3
    <2>5. Report(auth).points = {} /\ Report(auth).schemes = {} /\ asked.is = "asked" => PassedOver(d, i, asked.point)
      BY <1>3, <1>6, <2>1, <2>2
    <2>. QED
      BY <2>3, <2>4, <2>5 DEF auth
  <1>. QED
    BY <1>7 DEF SwaggerPreflightAgrees

\* What preflight reports is needed, and still to be given unless the call's own
\* auth hides it; where it reports nothing the call asks for nothing but what
\* preflight passes over, however the credentials were given (client.ts preflightSwagger20,
\* swagger20-synthesis.ts analyzeSwagger20Operation).
THEOREM PreflightTheorem == SwaggerSpec => []SwaggerPreflightAgrees
  <1>1. SwaggerInv => SwaggerPreflightAgrees
    BY SwaggerTypesAreEnough DEF SwaggerInv
  <1>. QED
    BY <1>1, InitSwagger, StepSwagger, PTL DEF SwaggerSpec

-----------------------------------------------------------------------------
(* Security *)

\* A challenge some alternative of which the context satisfies.
Accepted(asked, c) ==
  \E a \in asked : \A r \in a :
    IF r.type = "config.value" THEN c.index # Unset
    ELSE r.name \in c.handled \/ RequirementSatisfied(c, r, TRUE)

\* What an answer leaves out: the store's flat credential, for a name whose own
\* value has the wrong form.
Unserved(store, c, r) ==
  Shadowed(store, r) /\ r.name \notin c.named \cup c.handled /\ Fields(r.type) \cap c.flat = {}

IsShadowed(asked) == \E a \in asked : \E r \in a : Shadowed(stored, r)

SecurityInv ==
  /\ declaration \in Declarations /\ stored \in Stores
  /\ DOMAIN ctx = {"flat", "named", "handled", "index", "hint"}
  /\ \A asked \in answered : Accepted(asked, ctx) \/ IsShadowed(asked)
  /\ phase = "challenged" => challenge = RequiredContext(declaration, ctx) /\ challenge # {}
  /\ phase = "ready" => ~Refused(declaration, ctx) /\ RequiredContext(declaration, ctx) = {}
  /\ OneAuthoredAlternative

LEMMA InitSecurity == SecurityInit => SecurityInv
  BY SecurityAssumption DEF SecurityInit, SecurityStarts, SecurityInv, OneAuthoredAlternative

\* A plan is of one declared alternative; it asks for all its schemes, and a
\* requirement is of the type of its scheme.
LEMMA PlanIsDeclared ==
  ASSUME NEW d \in Declarations, NEW plan \in SecurityPlans(d)
  PROVE  /\ plan.index \in DOMAIN d.security
         /\ PlanNames(plan) = Named(d, plan.index)
         /\ \A r \in plan.needs : r \in Requirements(d, r.name)
  <1>0. PICK i \in DOMAIN d.security : \E e \in Expansions(d, i) : plan = [index |-> i, needs |-> e]
    BY DEF SecurityPlans
  <1>1. PICK e \in Expansions(d, i) : plan = [index |-> i, needs |-> e]
    BY <1>0
  <1>2. /\ e \subseteq UNION {Requirements(d, n) : n \in Named(d, i)}
        /\ \A n \in Named(d, i) : Cardinality({r \in e : r.name = n}) = 1
    BY DEF Expansions
  <1>3. \A n : \A r \in Requirements(d, n) : r.name = n
    BY DEF Requirements
  <1>4. \A n \in Named(d, i) : \E r \in e : r.name = n
    <2> SUFFICES ASSUME NEW n \in Named(d, i), \A r \in e : r.name # n PROVE FALSE
      OBVIOUS
    <2>1. {r \in e : r.name = n} = {}
      OBVIOUS
    <2>. QED
      BY <1>2, <2>1, FS_EmptySet
  <1>5. \A r \in e : r.name \in Named(d, i) /\ r \in Requirements(d, r.name)
    BY <1>2, <1>3
  <1>6. PlanNames(plan) = {r.name : r \in e}
    BY <1>1 DEF PlanNames
  <1>. QED
    BY <1>1, <1>4, <1>5, <1>6

LEMMA ViableArePlans ==
  ASSUME NEW d, NEW c
  PROVE  /\ Configured(d, c) \subseteq Viable(d) /\ Viable(d) \subseteq SecurityPlans(d)
         /\ c.index = Unset => Configured(d, c) = Viable(d)
         /\ c.index # Unset => \A plan \in Configured(d, c) : plan.index = c.index
  BY DEF Configured, Viable

LEMMA IndicesAreFinite ==
  ASSUME NEW d \in Declarations, NEW c
  PROVE  /\ Indices(d, c) \subseteq DOMAIN d.security /\ Indices(d, c) \subseteq Nat \ {0}
         /\ IsFiniteSet(Indices(d, c)) /\ Cardinality(Indices(d, c)) \in Nat
  <1>1. d.security \in Seq(SUBSET STRING)
    BY SecurityAssumption
  <1>2. Indices(d, c) \subseteq DOMAIN d.security
    BY PlanIsDeclared, ViableArePlans DEF Indices
  <1>3. DOMAIN d.security = 1..Len(d.security) /\ Len(d.security) \in Nat
    BY <1>1
  <1>4. IsFiniteSet(Indices(d, c))
    <2>1. IsFiniteSet(1..Len(d.security))
      <3>1. 1 \in Int /\ Len(d.security) \in Int
        BY <1>3
      <3>. QED
        BY <3>1, FS_Interval
    <2>. QED
      BY <1>2, <1>3, <2>1, FS_Subset
  <1>. QED
    BY <1>2, <1>3, <1>4, FS_CardinalityType

\* What is asked for is not there yet.
LEMMA RequiredIsOpen ==
  ASSUME NEW d \in Declarations, NEW c
  PROVE  ~Accepted(RequiredContext(d, c), c)
  <1> SUFFICES ASSUME Accepted(RequiredContext(d, c), c) PROVE FALSE
    OBVIOUS
  <1> DEFINE plans == Configured(d, c)
             alternatives == {plan.needs : plan \in plans}
             index == [type |-> "config.value", name |-> "security", enum |-> Indices(d, c)]
  <1>1. PICK a \in RequiredContext(d, c) : \A r \in a :
            IF r.type = "config.value" THEN c.index # Unset
            ELSE r.name \in c.handled \/ RequirementSatisfied(c, r, TRUE)
    BY DEF Accepted
  <1>2. CASE c.index = Unset /\ Cardinality(Indices(d, c)) > 1 /\ plans # {}
    <2>1. a = {index}
      BY <1>1, <1>2 DEF RequiredContext
    <2>2. index \in a /\ index.type = "config.value"
      BY <2>1
    <2>. QED
      BY <1>1, <1>2, <2>2
  <1>3. CASE ~(c.index = Unset /\ Cardinality(Indices(d, c)) > 1 /\ plans # {})
    <2>1. /\ a \in alternatives
          /\ ~\E plan \in plans : PlanSatisfied(c, plan)
      BY <1>1, <1>3 DEF RequiredContext
    <2>2. PICK plan \in plans : a = plan.needs
      BY <2>1
    <2>3. \A r \in a : r \in Requirements(d, r.name)
      BY <2>2, PlanIsDeclared, ViableArePlans
    <2>4. \A r \in a : r.type # "config.value"
      BY <2>3 DEF Requirements, RequirementType
    <2>. QED
      BY <1>1, <2>1, <2>2, <2>4 DEF PlanSatisfied
  <1>. QED
    BY <1>2, <1>3

LEMMA PreflightSecurity == SecurityInv /\ Preflight => SecurityInv'
  <1> SUFFICES ASSUME SecurityInv, Preflight PROVE SecurityInv'
    OBVIOUS
  <1>1. UNCHANGED <<declaration, ctx, stored, answered, wire, choice>> /\ phase' \in {"refused", "ready", "challenged"}
    BY DEF Preflight
  <1>2. phase' = "challenged" => challenge' = RequiredContext(declaration, ctx) /\ challenge' # {}
    BY DEF Preflight
  <1>3. phase' = "ready" => ~Refused(declaration, ctx) /\ RequiredContext(declaration, ctx) = {}
    BY DEF Preflight
  <1>4. OneAuthoredAlternative'
    BY <1>1 DEF OneAuthoredAlternative
  <1>. QED
    BY <1>1, <1>2, <1>3, <1>4 DEF SecurityInv, IsShadowed

\* A satisfied requirement is let through to the context it was asked for, unless
\* it is shadowed, and what the context held it keeps.
Answerable(a, c, store) ==
    /\ DOMAIN c = {"flat", "named", "handled", "index", "hint"} /\ store.named \cap store.misfit = {}
    /\ \A r \in a : RequirementSatisfied(store, r, TRUE)
    /\ \A r \in a : r.type = "config.value" => Unset \notin r.enum

LetThrough(a, c, store, c2) ==
    /\ DOMAIN c2 = DOMAIN c /\ c2.handled = c.handled
    /\ c.flat \subseteq c2.flat /\ c.named \subseteq c2.named
    /\ c.index # Unset => c2.index # Unset
    /\ \A r \in a : IF r.type = "config.value" THEN c2.index # Unset
                    ELSE \/ r.name \in c2.handled \/ RequirementSatisfied(c2, r, TRUE)
                         \/ Unserved(store, c2, r)
    /\ (\A r \in a : r.type # "config.value") => c2.index = c.index

LEMMA AnswerIsLetThrough ==
  ASSUME NEW a, NEW c, NEW store, Answerable(a, c, store)
  PROVE  LetThrough(a, c, store, Supplied(c, store, a))
  <1> DEFINE c2 == Supplied(c, store, a)
  <1>0. /\ DOMAIN c = {"flat", "named", "handled", "index", "hint"} /\ store.named \cap store.misfit = {}
        /\ \A r \in a : RequirementSatisfied(store, r, TRUE)
        /\ \A r \in a : r.type = "config.value" => Unset \notin r.enum
    BY DEF Answerable
  <1> DEFINE scoped == ScopeContext(store, a)
  <1>1. /\ DOMAIN c2 = DOMAIN c /\ c2.handled = c.handled
        /\ c2.flat = c.flat \cup scoped.flat /\ c2.named = c.named \cup scoped.named
        /\ c2.index = IF scoped.index = Unset THEN c.index ELSE scoped.index
    BY <1>0 DEF Supplied
  <1>2. ASSUME NEW r \in a, r.type = "config.value"
        PROVE  c2.index # Unset
    <2>1. store.index \in r.enum /\ Unset \notin r.enum
      BY <1>0, <1>2 DEF RequirementSatisfied
    <2>2. scoped.index = store.index
      BY <1>2 DEF ScopeContext
    <2>. QED
      BY <1>1, <2>1, <2>2
  <1>3. ASSUME NEW r \in a, r.type # "config.value"
        PROVE  r.name \in c2.handled \/ RequirementSatisfied(c2, r, TRUE) \/ Unserved(store, c2, r)
    <2>1. /\ r.type # "auth.other"
          /\ r.name \in store.named \/ Fields(r.type) \cap store.flat # {}
      BY <1>0, <1>3 DEF RequirementSatisfied
    <2>2. CASE r.name \in store.named
      <3>1. r.name \in scoped.named
        BY <1>3, <2>2 DEF ScopeContext
      <3>. QED
        BY <1>1, <1>3, <2>1, <3>1 DEF RequirementSatisfied
    <2>3. CASE r.name \in store.misfit
      <3>1. Shadowed(store, r)
        BY <1>0, <1>3, <2>1, <2>3 DEF Shadowed
      <3>. QED
        BY <1>3, <2>1, <3>1 DEF Unserved, RequirementSatisfied
    <2>4. CASE r.name \notin Present(store)
      <3>1. PICK f \in Fields(r.type) : f \in store.flat
        BY <2>1, <2>4 DEF Present
      <3>2. f \in scoped.flat
        BY <1>3, <2>4, <3>1 DEF ScopeContext
      <3>. QED
        BY <1>1, <1>3, <2>1, <3>1, <3>2 DEF RequirementSatisfied
    <2>. QED
      BY <2>2, <2>3, <2>4 DEF Present
  <1>4. (\A r \in a : r.type # "config.value") => c2.index = c.index
    BY <1>1 DEF ScopeContext
  <1> HIDE DEF c2, scoped
  <1>5. c.index # Unset => c2.index # Unset
    BY <1>1
  <1>. QED
    BY <1>1, <1>2, <1>3, <1>4, <1>5 DEF LetThrough, c2

LEMMA AcceptedStays ==
  ASSUME NEW asked, NEW c, NEW c2, Accepted(asked, c),
         c2.handled = c.handled, c.flat \subseteq c2.flat, c.named \subseteq c2.named,
         c.index # Unset => c2.index # Unset
  PROVE  Accepted(asked, c2)
  BY DEF Accepted, RequirementSatisfied

\* The alternatives asked for never offer no configuration at all.
LEMMA AskedIndices ==
  ASSUME NEW d \in Declarations, NEW c, NEW a \in RequiredContext(d, c), NEW r \in a, r.type = "config.value"
  PROVE  Unset \notin r.enum
  <1> DEFINE index == [type |-> "config.value", name |-> "security", enum |-> Indices(d, c)]
  <1>1. a = {index} \/ \E plan \in Configured(d, c) : a = plan.needs
    BY DEF RequiredContext
  <1>2. CASE a = {index}
    <2>1. r.enum = Indices(d, c)
      BY <1>2
    <2>. QED
      BY <2>1, IndicesAreFinite DEF Unset
  <1>3. ASSUME NEW plan \in Configured(d, c), a = plan.needs
        PROVE  FALSE
    <2>1. r \in Requirements(d, r.name)
      BY <1>3, PlanIsDeclared, ViableArePlans
    <2>. QED
      BY <2>1 DEF Requirements, RequirementType
  <1>. QED
    BY <1>1, <1>2, <1>3

\* What an answer adds to the context that was asked.
LEMMA AnswerAdds ==
  ASSUME SecurityInv, phase = "challenged", NEW a \in SatisfiedAlternatives(stored, challenge)
  PROVE  LET c == Supplied(ctx, stored, a)
         IN /\ DOMAIN c = DOMAIN ctx /\ c.handled = ctx.handled
            /\ ctx.flat \subseteq c.flat /\ ctx.named \subseteq c.named
            /\ ctx.index # Unset => c.index # Unset
            /\ Accepted(challenge, c) \/ \E r \in a : Unserved(stored, c, r)
            /\ (\A r \in a : r.type # "config.value") => c.index = ctx.index
  <1> DEFINE c == Supplied(ctx, stored, a)
  <1>1. a \in challenge /\ \A r \in a : RequirementSatisfied(stored, r, TRUE)
    BY DEF SatisfiedAlternatives, RequirementSatisfied
  <1>2. \A r \in a : r.type = "config.value" => Unset \notin r.enum
    BY <1>1, AskedIndices DEF SecurityInv
  <1>3. DOMAIN ctx = {"flat", "named", "handled", "index", "hint"} /\ stored.named \cap stored.misfit = {}
    BY SecurityAssumption DEF SecurityInv
  <1>4. /\ DOMAIN c = DOMAIN ctx /\ c.handled = ctx.handled
        /\ ctx.flat \subseteq c.flat /\ ctx.named \subseteq c.named
        /\ ctx.index # Unset => c.index # Unset
        /\ \A r \in a : IF r.type = "config.value" THEN c.index # Unset
                        ELSE r.name \in c.handled \/ RequirementSatisfied(c, r, TRUE) \/ Unserved(stored, c, r)
        /\ (\A r \in a : r.type # "config.value") => c.index = ctx.index
    <2>1. Answerable(a, ctx, stored)
      BY <1>1, <1>2, <1>3 DEF Answerable
    <2>2. LetThrough(a, ctx, stored, c)
      BY <2>1, AnswerIsLetThrough
    <2>. QED
      BY <2>2 DEF LetThrough
  <1> HIDE DEF c
  <1>5. Accepted(challenge, c) \/ \E r \in a : Unserved(stored, c, r)
    BY <1>1, <1>4 DEF Accepted
  <1>. QED
    BY <1>4, <1>5 DEF c

LEMMA AnswerSecurity == SecurityInv /\ Answer => SecurityInv'
  <1> SUFFICES ASSUME SecurityInv, Answer PROVE SecurityInv'
    OBVIOUS
  <1>1. /\ phase = "challenged" /\ answered' = answered \cup {challenge} /\ phase' = "start"
        /\ UNCHANGED <<declaration, stored, challenge, wire, choice>>
    BY DEF Answer
  <1>2. PICK a \in SatisfiedAlternatives(stored, challenge) : ctx' = Supplied(ctx, stored, a)
    BY DEF Answer
  <1>3. /\ DOMAIN ctx' = DOMAIN ctx /\ ctx'.handled = ctx.handled
        /\ ctx.flat \subseteq ctx'.flat /\ ctx.named \subseteq ctx'.named
        /\ ctx.index # Unset => ctx'.index # Unset
        /\ Accepted(challenge, ctx') \/ \E r \in a : Unserved(stored, ctx', r)
    BY <1>1, <1>2, AnswerAdds
  <1>4. Accepted(challenge, ctx') \/ IsShadowed(challenge)
    BY <1>3 DEF IsShadowed, Unserved, SatisfiedAlternatives
  <1>5. \A asked \in answered' : Accepted(asked, ctx') \/ IsShadowed(asked)
    BY <1>1, <1>3, <1>4, AcceptedStays DEF SecurityInv
  <1>6. \A asked \in answered' : Accepted(asked, ctx') \/ IsShadowed(asked)'
    BY <1>1, <1>5 DEF IsShadowed
  <1>. QED
    BY <1>1, <1>3, <1>6 DEF SecurityInv, OneAuthoredAlternative

\* An answer that leaves its only alternative unserved changes nothing.
AsksOnly(d, c, a) == RequiredContext(d, c) = {a}
KeepsIndex(a, c, c2) == (\A q \in a : q.type # "config.value") => c2.index = c.index
LeavesUnserved(store, c2, a) == \E r \in a : Unserved(store, c2, r)

LEMMA UnservedIsAskedAgain ==
  ASSUME NEW d \in Declarations, NEW c, NEW c2, NEW store, NEW a,
         AsksOnly(d, c, a), LeavesUnserved(store, c2, a), KeepsIndex(a, c, c2)
  PROVE  AsksOnly(d, c2, a)
  <1> DEFINE plans == Configured(d, c)
             alternatives == {plan.needs : plan \in plans}
             index == [type |-> "config.value", name |-> "security", enum |-> Indices(d, c)]
  <1>0. PICK r \in a : Unserved(store, c2, r)
    BY DEF LeavesUnserved
  <1>1. r.type # "config.value" /\ ~RequirementSatisfied(c2, r, TRUE) /\ r.name \notin c2.handled
    BY <1>0 DEF Unserved, Shadowed, RequirementSatisfied
  <1>2. /\ ~(c.index = Unset /\ Cardinality(Indices(d, c)) > 1) /\ plans # {}
        /\ {} \notin alternatives /\ alternatives = {a}
    <2>1. RequiredContext(d, c) = {a} /\ a \in RequiredContext(d, c)
      BY DEF AsksOnly
    <2>2. plans # {}
      BY <2>1 DEF RequiredContext
    <2>3. ~(c.index = Unset /\ Cardinality(Indices(d, c)) > 1)
      <3>1. a # {index}
        BY <1>0, <1>1
      <3>. QED
        BY <2>1, <2>2, <3>1 DEF RequiredContext
    <2>. QED
      BY <2>1, <2>2, <2>3 DEF RequiredContext
  <1>3. \A q \in a : q.type # "config.value"
    <2>1. PICK plan \in plans : plan.needs = a
      BY <1>2
    <2>2. \A q \in a : q \in Requirements(d, q.name)
      BY <2>1, PlanIsDeclared, ViableArePlans
    <2>. QED
      BY <2>2 DEF Requirements, RequirementType
  <1>4. c2.index = c.index
    BY <1>3 DEF KeepsIndex
  <1>5. Configured(d, c2) = plans /\ Indices(d, c2) = Indices(d, c)
    BY <1>4 DEF Configured, Indices
  <1>6. ~\E plan \in plans : PlanSatisfied(c2, plan)
    BY <1>0, <1>1, <1>2 DEF PlanSatisfied
  <1>. QED
    BY <1>2, <1>4, <1>5, <1>6 DEF RequiredContext, AsksOnly

LEMMA SecurityInvAccepts == SecurityInv => AnswersAreAccepted
  <1> SUFFICES ASSUME SecurityInv, phase = "challenged" PROVE AnswersAreAccepted
    BY DEF AnswersAreAccepted
  <1>1. challenge = RequiredContext(declaration, ctx) /\ declaration \in Declarations
    BY DEF SecurityInv
  <1>2. challenge \in answered => \E a \in challenge, r \in UNION challenge : r \in a /\ Shadowed(stored, r)
    BY <1>1, RequiredIsOpen DEF SecurityInv, IsShadowed
  <1>3. ASSUME NEW a \in SatisfiedAlternatives(stored, challenge)
        PROVE  LET c == Supplied(ctx, stored, a)
               IN IF \E r \in a : Unserved(stored, c, r)
                  THEN challenge = {a} => RequiredContext(declaration, c) = challenge
                  ELSE RequiredContext(declaration, c) # challenge
    <2> DEFINE c == Supplied(ctx, stored, a)
    <2>1. /\ Accepted(challenge, c) \/ \E r \in a : Unserved(stored, c, r)
          /\ (\A r \in a : r.type # "config.value") => c.index = ctx.index
      BY AnswerAdds
    <2> HIDE DEF c
    <2>2. ASSUME NEW r \in a, Unserved(stored, c, r), challenge = {a}
          PROVE  RequiredContext(declaration, c) = challenge
      <3>1. AsksOnly(declaration, ctx, a)
        BY <1>1, <2>2 DEF AsksOnly
      <3>2. LeavesUnserved(stored, c, a) /\ KeepsIndex(a, ctx, c)
        BY <2>1, <2>2 DEF LeavesUnserved, KeepsIndex
      <3>3. AsksOnly(declaration, c, a)
        BY <1>1, <3>1, <3>2, UnservedIsAskedAgain
      <3>. QED
        BY <2>2, <3>3 DEF AsksOnly
    <2>3. Accepted(challenge, c) => RequiredContext(declaration, c) # challenge
      BY <1>1, RequiredIsOpen
    <2>. QED
      BY <2>1, <2>2, <2>3 DEF c
  <1>. QED
    BY <1>2, <1>3 DEF AnswersAreAccepted, Unserved

\* When nothing is refused or asked for, some plan can be selected unless the
\* document declares no security, and without a configured index all usable
\* plans are of one alternative.
LEMMA SomeSelectable ==
  ASSUME NEW d \in Declarations, NEW c, ~Refused(d, c), RequiredContext(d, c) = {}, d.security # <<>>
  PROVE  /\ Selectable(d, c) # {}
         /\ c.index = Unset => \A p, q \in Viable(d) : p.index = q.index
  <1> DEFINE plans == Configured(d, c)
             alternatives == {plan.needs : plan \in plans}
  <1>1. plans # {}
    BY DEF Refused, SelectionError
  <1>2. ~(c.index = Unset /\ Cardinality(Indices(d, c)) > 1)
    BY <1>1 DEF RequiredContext
  <1>3. {} \in alternatives \/ \E plan \in plans : PlanSatisfied(c, plan)
    <2>1. alternatives # {}
      BY <1>1
    <2>. QED
      BY <1>1, <1>2, <2>1 DEF RequiredContext
  <1>4. Selectable(d, c) # {}
    BY <1>3 DEF Selectable
  <1>5. ASSUME c.index = Unset
        PROVE  \A p, q \in Viable(d) : p.index = q.index
    <2>1. plans = Viable(d)
      BY <1>5, ViableArePlans
    <2>2. Indices(d, c) # {}
      BY <1>1 DEF Indices
    <2>3. Cardinality(Indices(d, c)) = 1
      BY <1>2, <1>5, <2>2, IndicesAreFinite, FS_EmptySet
    <2>4. \E i : Indices(d, c) = {i}
      BY <2>3, IndicesAreFinite, FS_Singleton
    <2>. QED
      BY <2>1, <2>4 DEF Indices
  <1>. QED
    BY <1>4, <1>5

LEMMA SelectedIsSelectable ==
  ASSUME NEW d \in Declarations, NEW c, Selectable(d, c) # {}
  PROVE  SelectedPlan(d, c) \in Selectable(d, c)
  <1> DEFINE found == {plan.index : plan \in Selectable(d, c)}
  <1>1. found \subseteq Nat
    BY IndicesAreFinite DEF Selectable, Indices
  <1>a. found # {}
    OBVIOUS
  <1> HIDE DEF found
  <1>2. Min(found) \in found /\ \A i \in found : Min(found) <= i
    BY <1>1, <1>a, LeastOf
  <1>3. \E plan \in Selectable(d, c) : \A q \in Selectable(d, c) : plan.index <= q.index
    BY <1>2 DEF found
  <1>. QED
    BY <1>3 DEF SelectedPlan

\* All schemes of a selected plan are carried, each by a handler or by a
\* credential of its own family.
LEMMA AllAreCarried ==
  ASSUME NEW d \in Declarations, NEW c, NEW plan \in Selectable(d, c)
  PROVE  /\ Carried(d, c, PlanNames(plan)) = PlanNames(plan)
         /\ \A n \in PlanNames(plan) \ c.handled : d.schemes[n].family \in Sensitive
  <1>1. plan \in SecurityPlans(d) /\ \A r \in plan.needs : r.name \in c.handled \/ RequirementSatisfied(c, r, TRUE)
    BY ViableArePlans DEF Selectable, PlanSatisfied
  <1>2. ASSUME NEW n \in PlanNames(plan), n \notin c.handled
        PROVE  /\ d.schemes[n].family \in Sensitive
               /\ \E r \in Requirements(d, n) : RequirementSatisfied(c, r, TRUE)
    <2>1. PICK r \in plan.needs : r.name = n
      BY DEF PlanNames
    <2>2. r \in Requirements(d, n) /\ RequirementSatisfied(c, r, TRUE)
      BY <1>1, <1>2, <2>1, PlanIsDeclared
    <2>3. r.type = RequirementType(d.schemes[n].family)
      BY <2>2 DEF Requirements
    <2>4. r.type # "auth.other"
      BY <2>2, <2>3 DEF RequirementSatisfied, RequirementType
    <2>5. d.schemes[n].family \in Sensitive
      BY <2>3, <2>4 DEF RequirementType, Sensitive
    <2>. QED
      BY <2>2, <2>5
  <1>. QED
    BY <1>2 DEF Carried, Placed

LEMMA AssembleSecurity == SecurityInv /\ Assemble => SecurityInv'
  <1> SUFFICES ASSUME SecurityInv, Assemble PROVE SecurityInv'
    OBVIOUS
  <1> DEFINE d == declaration
             chosen == Selectable(d, ctx)
             names == IF chosen = {} THEN {} ELSE PlanNames(SelectedPlan(d, ctx))
             plan == SelectedPlan(d, ctx)
  <1>1. /\ phase = "ready" /\ UNCHANGED <<declaration, ctx, stored, challenge, answered>>
        /\ \/ phase' = "refused"
           \/ /\ phase' = "sent"
              /\ wire' = Carried(d, ctx, names)
              /\ choice' = IF chosen = {} THEN 0 ELSE plan.index
    BY DEF Assemble
  <1>2. d \in Declarations /\ ~Refused(d, ctx) /\ RequiredContext(d, ctx) = {}
    BY <1>1 DEF SecurityInv
  <1>3. ASSUME phase' = "sent"
        PROVE  OneAuthoredAlternative'
    <2>1. CASE d.security = <<>>
      <3>1. SecurityPlans(d) = {}
        BY <1>2, <2>1, PlanIsDeclared
      <3>2. chosen = {}
        BY <3>1, ViableArePlans DEF Selectable
      <3>. QED
        BY <1>1, <1>3, <2>1, <3>2 DEF OneAuthoredAlternative, Carried
    <2>2. CASE d.security # <<>>
      <3>1. chosen # {} /\ (ctx.index = Unset => \A p, q \in Viable(d) : p.index = q.index)
        BY <1>2, <2>2, SomeSelectable
      <3>2. plan \in Selectable(d, ctx) /\ plan \in Configured(d, ctx)
        BY <1>2, <3>1, SelectedIsSelectable DEF Selectable
      <3>3. plan \in Viable(d) /\ plan \in SecurityPlans(d)
        BY <3>2, ViableArePlans
      <3>4. /\ plan.index \in DOMAIN d.security
            /\ PlanNames(plan) = d.security[plan.index]
        BY <1>2, <3>3, PlanIsDeclared DEF Named
      <3>5. /\ Carried(d, ctx, PlanNames(plan)) = PlanNames(plan)
            /\ \A n \in PlanNames(plan) \ ctx.handled : d.schemes[n].family \in Sensitive
        BY <1>2, <3>2, AllAreCarried
      <3> HIDE DEF plan
      <3>6. wire' = d.security[plan.index] /\ choice' = plan.index
        BY <1>1, <1>3, <3>1, <3>4, <3>5 DEF plan
      <3>7. ctx.index # Unset => plan.index = ctx.index
        BY <3>2, ViableArePlans
      <3>. QED
        BY <1>1, <2>2, <3>1, <3>3, <3>4, <3>5, <3>6, <3>7 DEF OneAuthoredAlternative
    <2>. QED
      BY <2>1, <2>2
  <1>4. OneAuthoredAlternative'
    BY <1>1, <1>3 DEF OneAuthoredAlternative
  <1>. QED
    BY <1>1, <1>4 DEF SecurityInv, IsShadowed

LEMMA StepSecurity == SecurityInv /\ [SecurityNext]_securityVars => SecurityInv'
  <1> SUFFICES ASSUME SecurityInv, [SecurityNext]_securityVars PROVE SecurityInv'
    OBVIOUS
  <1>1. CASE UNCHANGED securityVars
    BY <1>1 DEF securityVars, SecurityInv, OneAuthoredAlternative, IsShadowed
  <1>. QED
    BY <1>1, PreflightSecurity, AnswerSecurity, AssembleSecurity DEF SecurityNext, SecurityDone

\* A challenge that was answered is not raised again unless its answer was shadowed,
\* and what is sent is all of one authored alternative, the configured or the only
\* usable one
\* (internal/context.ts scopeContext, invoke.ts requiredContext,
\* selectedSecurityPlan, securitySelectionError).
THEOREM SecurityTheorem == SecuritySpec => []SecurityIsSettled
  <1>1. SecurityInv => SecurityIsSettled
    BY SecurityInvAccepts DEF SecurityInv, SecurityIsSettled
  <1>. QED
    BY InitSecurity, StepSecurity, <1>1, PTL DEF SecuritySpec

(***************************************************************************)
(* Media selection.  A key that covers a concrete type with the greatest   *)
(* specificity and, among those, the most parameters wins; two keys of one *)
(* type and the same parameters collide, so that a declaration's own media *)
(* type is covered by nothing closer than itself.                          *)
(***************************************************************************)

\* What the proofs use of a key.
WellTyped(k) ==
    k.params \in [DOMAIN k.params -> STRING] /\ IsFiniteSet(DOMAIN k.params) /\ (k.type = "*" => k.sub = "*")

LEMMA SpecificityIsNat == ASSUME NEW k PROVE Specificity(k) \in 0..2
  BY DEF Specificity

\* A concrete declaration is the only usable key that comes first for its own
\* media type.
LEMMA OwnTypeElects ==
  ASSUME NEW content, \A k \in content : WellTyped(k),
         NEW keys \in SUBSET UsableKeys(content), NEW own \in keys, ~Ranged(own),
         \A k \in keys : Covers(k, Concrete(own))
  PROVE  MostSpecific(keys) = {own}
  <1> DEFINE top == {k \in keys : \A l \in keys : Specificity(l) <= Specificity(k)}
  <1>1. WellTyped(own) /\ own \in UsableKeys(content) /\ own.type # "*"
    BY DEF UsableKeys, WellTyped, Ranged
  <1>2. Specificity(own) = 2
    BY <1>1 DEF Specificity, Ranged
  <1>3. own \in top
    BY <1>2, SpecificityIsNat
  <1>4. \A k \in top : Specificity(k) = 2
    BY <1>2, <1>3, SpecificityIsNat
  <1>5. ASSUME NEW k \in top
        PROVE  /\ k.type = own.type /\ k.sub = own.sub /\ Subset(k.params, own.params)
               /\ DOMAIN k.params \subseteq DOMAIN own.params
               /\ Cardinality(DOMAIN k.params) <= Cardinality(DOMAIN own.params)
               /\ Cardinality(DOMAIN k.params) = Cardinality(DOMAIN own.params) => k.params = own.params
    <2>1. k.type # "*" /\ k.sub # "*"
      BY <1>4, <1>5 DEF Specificity, Ranged
    <2>2. k.type = own.type /\ k.sub = own.sub /\ Subset(k.params, own.params)
      BY <1>5, <2>1 DEF Covers, Concrete
    <2>3. WellTyped(k)
      BY DEF UsableKeys
    <2>4. DOMAIN k.params \subseteq DOMAIN own.params
      BY <2>2 DEF Subset
    <2>5. /\ Cardinality(DOMAIN k.params) <= Cardinality(DOMAIN own.params)
          /\ Cardinality(DOMAIN k.params) = Cardinality(DOMAIN own.params) => DOMAIN k.params = DOMAIN own.params
      BY <1>1, <2>4, FS_Subset DEF WellTyped
    <2>6. ASSUME DOMAIN k.params = DOMAIN own.params PROVE k.params = own.params
      BY <1>1, <2>2, <2>3, <2>6 DEF Subset, WellTyped
    <2>. QED
      BY <2>2, <2>4, <2>5, <2>6
  <1>6. ASSUME NEW k \in top, Cardinality(DOMAIN k.params) = Cardinality(DOMAIN own.params)
        PROVE  k = own
    BY <1>1, <1>5, <1>6 DEF UsableKeys, Colliding, Identity
  <1>7. \A k \in top : Cardinality(DOMAIN k.params) \in Nat
    BY FS_CardinalityType DEF UsableKeys, WellTyped
  <1>8. MostSpecific(keys) = {k \in top : \A l \in top : Cardinality(DOMAIN l.params) <= Cardinality(DOMAIN k.params)}
    BY DEF MostSpecific
  <1> HIDE DEF top
  <1>9. own \in MostSpecific(keys)
    BY <1>3, <1>5, <1>8
  <1>10. ASSUME NEW k \in MostSpecific(keys) PROVE k = own
    BY <1>3, <1>5, <1>6, <1>7, <1>8
  <1>. QED
    BY <1>9, <1>10

\* A winner that is alone is closer than every other key, and wins alone among
\* fewer keys too.
LEMMA WinnerIsCloser ==
  ASSUME NEW keys, \A k \in keys : WellTyped(k), NEW own, MostSpecific(keys) = {own}
  PROVE  /\ own \in keys
         /\ \A k \in keys \ {own} :
               \/ Specificity(k) < Specificity(own)
               \/ /\ Specificity(k) = Specificity(own)
                  /\ Cardinality(DOMAIN k.params) < Cardinality(DOMAIN own.params)
         /\ \A fewer \in SUBSET keys : own \in fewer => MostSpecific(fewer) = {own}
  <1> DEFINE top == {k \in keys : \A l \in keys : Specificity(l) <= Specificity(k)}
             width(k) == Cardinality(DOMAIN k.params)
             Closer(k) == Specificity(k) < Specificity(own)
                          \/ (Specificity(k) = Specificity(own) /\ width(k) < width(own))
  <1>1. own \in top /\ \A l \in top : width(l) <= width(own)
    BY DEF MostSpecific
  <1>2. \A k \in keys : width(k) \in Nat
    BY FS_CardinalityType DEF WellTyped
  <1>3. \A k \in top : (\A l \in top : width(l) <= width(k)) => k = own
    BY DEF MostSpecific
  <1>4. ASSUME NEW k \in keys \ {own} PROVE Closer(k)
    <2>1. Specificity(k) <= Specificity(own)
      BY <1>1
    <2>2. CASE Specificity(k) = Specificity(own)
      <3>1. k \in top
        BY <1>1, <2>2
      <3>2. width(k) <= width(own) /\ k # own
        BY <1>1, <3>1
      <3>3. width(k) # width(own)
        BY <1>1, <1>3, <3>1, <3>2
      <3>. QED
        BY <1>1, <1>2, <2>2, <3>2, <3>3
    <2>. QED
      BY <2>1, <2>2, SpecificityIsNat
  <1>5. ASSUME NEW fewer \in SUBSET keys, own \in fewer PROVE MostSpecific(fewer) = {own}
    <2> DEFINE best == {k \in fewer : \A l \in fewer : Specificity(l) <= Specificity(k)}
    <2> HIDE DEF Closer
    <2>a. \A l \in keys : Specificity(l) <= Specificity(own)
      BY <1>1
    <2>1. own \in best
      BY <1>5, <2>a
    <2>2. MostSpecific(fewer) = {k \in best : \A l \in best : width(l) <= width(k)}
      BY DEF MostSpecific
    <2>3. ASSUME NEW k \in best PROVE k = own \/ width(k) < width(own)
      <3>1. Specificity(own) <= Specificity(k)
        BY <1>5
      <3>. QED
        BY <1>4, <3>1, SpecificityIsNat DEF Closer
    <2> HIDE DEF best, width
    <2>4. own \in MostSpecific(fewer)
      <3>1. \A l \in best : l \in keys
        BY DEF best
      <3>2. ASSUME NEW l \in best PROVE width(l) <= width(own)
        BY <1>1, <1>2, <2>3, <3>1, <3>2
      <3>. QED
        BY <2>1, <2>2, <3>2
    <2>5. ASSUME NEW k \in MostSpecific(fewer) PROVE k = own
      <3>1. k \in best /\ width(own) <= width(k)
        BY <2>1, <2>2
      <3>2. width(own) \in Nat /\ width(k) \in Nat
        BY <1>1, <1>2, <3>1 DEF best
      <3>. QED
        BY <2>3, <3>1, <3>2
    <2>. QED
      BY <2>4, <2>5
  <1>. QED
    BY <1>1, <1>4, <1>5 DEF Closer

\* The inventory keeps every usable key, once, and supports none that cannot be
\* built.
LEMMA InventoryIsComplete ==
  ASSUME NEW content, NEW version, ~PlanRequestBodies(content, version, TRUE).refused
  PROVE  LET plans == PlanRequestBodies(content, version, TRUE).plans
         IN /\ {p.key : p \in plans} = UsableKeys(content)
            /\ \A p, q \in plans : p.key = q.key => p = q
            /\ \A p \in plans : ~p.unsupported =>
                  /\ p = BodyPlan(p.key, CandidateFamily(p.key, version), FALSE)
                  /\ p.family # ""
                  /\ ~Unbuildable(p.family, Ranged(p.key), p.key.schema, version, TRUE)
  <1> DEFINE usable == {k \in UsableKeys(content) : TRUE \/ CandidateFamily(k, version) # ""}
             failing == {k \in usable : \/ CandidateFamily(k, version) = "" /\ k.schema = "complex"
                                        \/ Unbuildable(CandidateFamily(k, version), Ranged(k), k.schema, version, TRUE)}
             planned(k) == BodyPlan(k, CandidateFamily(k, version), CandidateFamily(k, version) = "")
             inventoried(k) == BodyPlan(k, "", TRUE)
             plans == PlanRequestBodies(content, version, TRUE).plans
  <1>1. plans = {planned(k) : k \in usable \ failing} \cup {inventoried(k) : k \in failing}
    BY DEF PlanRequestBodies
  <1>2. usable = UsableKeys(content) /\ failing \subseteq usable
    OBVIOUS
  <1>3. \A k \in usable : planned(k).key = k /\ inventoried(k).key = k
    BY DEF BodyPlan
  <1>4. \A k \in usable : /\ inventoried(k).unsupported
                          /\ planned(k).unsupported = (CandidateFamily(k, version) = "")
                          /\ planned(k).family = CandidateFamily(k, version)
    BY DEF BodyPlan
  <1>5. \A k \in usable \ failing : ~Unbuildable(CandidateFamily(k, version), Ranged(k), k.schema, version, TRUE)
    OBVIOUS
  <1>6. ASSUME NEW k \in usable, ~planned(k).unsupported
        PROVE  planned(k) = BodyPlan(k, CandidateFamily(k, version), FALSE)
    BY <1>4, <1>6
  <1> HIDE DEF plans, usable, failing, planned, inventoried
  <1>7. {p.key : p \in plans} = UsableKeys(content)
    BY <1>1, <1>2, <1>3
  <1>8. \A p, q \in plans : p.key = q.key => p = q
    BY <1>1, <1>2, <1>3
  <1>9. ASSUME NEW p \in plans, ~p.unsupported
        PROVE  \E k \in usable \ failing : p = planned(k)
    BY <1>1, <1>2, <1>4, <1>9
  <1>10. ASSUME NEW p \in plans, ~p.unsupported
         PROVE  /\ p = BodyPlan(p.key, CandidateFamily(p.key, version), FALSE)
                /\ p.family # ""
                /\ ~Unbuildable(p.family, Ranged(p.key), p.key.schema, version, TRUE)
    <2>1. PICK k \in usable \ failing : p = planned(k)
      BY <1>9, <1>10
    <2>2. p.key = k /\ p.family = CandidateFamily(k, version) /\ CandidateFamily(k, version) # ""
      BY <1>3, <1>4, <1>10, <2>1
    <2>. QED
      BY <1>5, <1>6, <1>10, <2>1, <2>2
  <1>. QED
    BY <1>7, <1>8, <1>10 DEF plans

\* The family a plan has when a concrete type elects it.
ElectedFamily(p, concrete, version) ==
    IF Ranged(p.key) THEN Family(concrete, p.key.schema, version, FALSE) ELSE p.family

\* The plans of the winning key that have carriage.
Electable(plans, concrete, version, own) ==
    {q \in plans : /\ q.key = own
                   /\ ~q.unsupported /\ ElectedFamily(q, concrete, version) # ""
                   /\ \/ ~Ranged(q.key)
                      \/ ~Unbuildable(ElectedFamily(q, concrete, version), FALSE, q.key.schema, version, FALSE)}
AsElected(p, concrete, version) == [p EXCEPT !.family = ElectedFamily(p, concrete, version)]
Covering(plans, concrete) == {p.key : p \in {q \in plans : Covers(q.key, concrete)}}

\* An election gives those.
LEMMA ElectionIsTheWinners ==
  ASSUME NEW plans, NEW concrete, NEW version, NEW own,
         MostSpecific(Covering(plans, concrete)) = {own}
  PROVE  /\ ConfigureRequestMedia(plans, concrete, version) =
               {AsElected(p, concrete, version) : p \in Electable(plans, concrete, version, own)}
  <1>1. Cardinality({own}) = 1
    BY FS_Singleton
  <1> DEFINE winners == MostSpecific({p.key : p \in {q \in plans : Covers(q.key, concrete)}})
             family(p) == IF Ranged(p.key) THEN Family(concrete, p.key.schema, version, FALSE) ELSE p.family
             winner == {p \in plans : p.key \in winners}
             elected == {q \in winner : /\ ~q.unsupported /\ family(q) # ""
                                        /\ ~Ranged(q.key) \/ ~Unbuildable(family(q), FALSE, q.key.schema, version, FALSE)}
  <1>2. winners = {own}
    BY DEF Covering
  <1>3. ConfigureRequestMedia(plans, concrete, version) = {[p EXCEPT !.family = family(p)] : p \in elected}
    BY <1>1, <1>2 DEF ConfigureRequestMedia
  <1>4. \A p : family(p) = ElectedFamily(p, concrete, version)
    BY DEF ElectedFamily
  <1>5. elected = Electable(plans, concrete, version, own)
    <2> HIDE DEF winners, family
    <2>. QED
      BY <1>2, <1>4 DEF Electable
  <1> HIDE DEF family, elected
  <1>. QED
    BY <1>3, <1>4, <1>5 DEF AsElected

\* A plan that is elected has the one winning key.
LEMMA ElectionHasAWinner ==
  ASSUME NEW plans, NEW concrete, NEW version, IsFiniteSet({p.key : p \in plans}),
         ConfigureRequestMedia(plans, concrete, version) # {}
  PROVE  \E own : MostSpecific(Covering(plans, concrete)) = {own}
  <1> DEFINE covering == {p.key : p \in {q \in plans : Covers(q.key, concrete)}}
  <1>1. Cardinality(MostSpecific(covering)) = 1
    BY DEF ConfigureRequestMedia
  <1>2. covering \subseteq {p.key : p \in plans}
    OBVIOUS
  <1> HIDE DEF covering
  <1>3. MostSpecific(covering) \subseteq {p.key : p \in plans}
    BY <1>2 DEF MostSpecific
  <1>4. IsFiniteSet(MostSpecific(covering))
    BY <1>3, FS_Subset
  <1>5. \E own : MostSpecific(covering) = {own}
    BY <1>1, <1>4, FS_Singleton
  <1>. QED
    BY <1>5 DEF covering, Covering

\* Text and octets are one whole value, and a form never is, whether the type
\* was declared or covered by a range.
LEMMA CarriageMatchesTheSurface ==
  ASSUME NEW key, NEW concrete, NEW version, NEW family,
         \/ /\ ~Ranged(key) /\ family = CandidateFamily(key, version)
            /\ ~Unbuildable(family, Ranged(key), key.schema, version, TRUE)
         \/ /\ Ranged(key) /\ family = Family(concrete, key.schema, version, FALSE)
            /\ ~Unbuildable(family, FALSE, key.schema, version, FALSE)
  PROVE  /\ family \in {"text", "raw"} => Synthetic(key, CandidateFamily(key, version))
         /\ family \in {"multipart", "urlencoded"} /\ ~Positional(key.schema, version)
               => ~Synthetic(key, CandidateFamily(key, version))
  <1>1. CASE ~Ranged(key)
    <2>a. Ranged(key) = FALSE
      BY <1>1 DEF Ranged
    <2>1. family = CandidateFamily(key, version) /\ ~Unbuildable(family, FALSE, key.schema, version, TRUE)
      BY <1>1, <2>a
    <2>2. ASSUME family \in {"text", "raw"} PROVE Synthetic(key, family)
      BY <2>2 DEF Synthetic
    <2>3. ASSUME family \in {"multipart", "urlencoded"}, ~Positional(key.schema, version)
          PROVE  ~Synthetic(key, family)
      <3>1. ~NoSchema(key.schema) /\ FlatObject(key.schema)
        BY <2>1, <2>3 DEF Unbuildable
      <3>. QED
        BY <2>3, <3>1 DEF Synthetic
    <2>. QED
      BY <2>1, <2>2, <2>3
  <1>2. CASE Ranged(key)
    <2>1. /\ family = Family(concrete, key.schema, version, FALSE)
          /\ ~Unbuildable(family, FALSE, key.schema, version, FALSE)
          /\ CandidateFamily(key, version) \in {"", "range"}
      BY <1>2 DEF CandidateFamily
    <2>2. ASSUME family \in {"text", "raw"} PROVE Synthetic(key, CandidateFamily(key, version))
      <3>1. key.schema \notin {"complex", "object", "dynamic"} \/ family = "raw"
        BY <2>1, <2>2 DEF Unbuildable
      <3>2. family = CarriageFamily(concrete, key.schema, version, FALSE)
        BY <2>1, <2>2 DEF Family
      <3>3. CASE family = "text"
        <4>1. key.schema \notin {"complex", "object", "dynamic"}
          BY <3>1, <3>3
        <4>2. IsString(key.schema)
          BY <3>2, <3>3 DEF CarriageFamily, IsString
        <4>. QED
          BY <4>2 DEF IsString, Synthetic, FlatObject, Whole
      <3>4. CASE family = "raw"
        <4>1. RawBoundary(key.schema, version, FALSE)
          BY <3>2, <3>4 DEF CarriageFamily
        <4>2. key.schema \in {"omitted", "empty", "items", "binary"}
          BY <4>1 DEF RawBoundary, AssertsNothing
        <4>. QED
          BY <2>1, <4>2 DEF Synthetic, FlatObject, Whole, NoSchema
      <3>. QED
        BY <2>2, <3>3, <3>4
    <2>3. ASSUME family \in {"multipart", "urlencoded"}, ~Positional(key.schema, version)
          PROVE  ~Synthetic(key, CandidateFamily(key, version))
      <3>1. ~NoSchema(key.schema) /\ FlatObject(key.schema)
        BY <2>1, <2>3 DEF Unbuildable
      <3>. QED
        BY <2>1, <3>1 DEF Synthetic
    <2>. QED
      BY <2>2, <2>3
  <1>. QED
    BY <1>1, <1>2

\* A supported declaration that is no range is elected by its own media type.
LEMMA SupportedElectsItself ==
  ASSUME NEW c \in MediaCases,
         NEW p \in Supported(PlanRequestBodies(c.content, c.version, TRUE)), ~Ranged(p.key)
  PROVE  ConfigureRequestMedia(PlanRequestBodies(c.content, c.version, TRUE).plans, Concrete(p.key), c.version) = {p}
  <1> DEFINE planned == PlanRequestBodies(c.content, c.version, TRUE)
             plans == planned.plans
             own == Concrete(p.key)
             covering == Covering(plans, own)
             chosen == Electable(plans, own, c.version, p.key)
  <1>1. p \in plans /\ ~p.unsupported
    BY DEF Supported
  <1>2. ~planned.refused
    BY <1>1 DEF PlanRequestBodies
  <1>3. /\ {q.key : q \in plans} = UsableKeys(c.content)
        /\ \A q, r \in plans : q.key = r.key => q = r
        /\ p = BodyPlan(p.key, CandidateFamily(p.key, c.version), FALSE) /\ p.family # ""
    BY <1>1, <1>2, InventoryIsComplete
  <1>4. \A k \in c.content : WellTyped(k)
    BY MediaAssumption DEF WellTyped
  <1> HIDE DEF planned, plans
  <1>5. covering \subseteq UsableKeys(c.content) /\ \A k \in covering : Covers(k, own)
    BY <1>3 DEF Covering
  <1>6. p.key \in covering
    BY <1>1 DEF Covering, Covers, Concrete, Subset
  <1>7. MostSpecific(covering) = {p.key}
    <2> HIDE DEF covering
    <2>. QED
      BY <1>4, <1>5, <1>6, OwnTypeElects
  <1>8. ConfigureRequestMedia(plans, own, c.version) = {AsElected(q, own, c.version) : q \in chosen}
    BY <1>7, ElectionIsTheWinners
  <1>9. ElectedFamily(p, own, c.version) = p.family
    BY DEF ElectedFamily
  <1>10. AsElected(p, own, c.version) = p
    <2>1. [p EXCEPT !.family = p.family] = p
      BY <1>3 DEF BodyPlan
    <2>. QED
      BY <1>9, <2>1 DEF AsElected
  <1>11. chosen = {p}
    BY <1>1, <1>3, <1>9 DEF Electable
  <1> HIDE DEF chosen, own
  <1>12. ConfigureRequestMedia(plans, own, c.version) = {p}
    BY <1>8, <1>10, <1>11
  <1>. QED
    BY <1>12 DEF plans, planned, own

\* A plan that a configured media type elects covers it, more closely than every
\* other usable key, and is elected among the supported plans too.
LEMMA ElectedIsTheClosest ==
  ASSUME NEW c \in MediaCases,
         NEW p \in ConfigureRequestMedia(PlanRequestBodies(c.content, c.version, TRUE).plans, c.concrete, c.version)
  PROVE  LET planned == PlanRequestBodies(c.content, c.version, TRUE)
             elected == ConfigureRequestMedia(planned.plans, c.concrete, c.version)
         IN /\ Covers(p.key, c.concrete)
            /\ \A k \in UsableKeys(c.content) \ {p.key} : Covers(k, c.concrete) =>
                  \/ Specificity(k) < Specificity(p.key)
                  \/ /\ Specificity(k) = Specificity(p.key)
                     /\ Cardinality(DOMAIN k.params) < Cardinality(DOMAIN p.key.params)
            /\ ConfigureRequestMedia(Supported(planned), c.concrete, c.version) = elected
            /\ p.family \in {"text", "raw"} => p.synthetic
            /\ p.family \in {"multipart", "urlencoded"} /\ ~Positional(p.key.schema, c.version) => ~p.synthetic
  <1> DEFINE planned == PlanRequestBodies(c.content, c.version, TRUE)
             plans == planned.plans
             supported == Supported(planned)
             concrete == c.concrete
             covering == Covering(plans, concrete)
  <1>1. plans # {} /\ ~planned.refused
    <2>1. ASSUME plans = {} PROVE FALSE
      <3> DEFINE none == {q \in plans : Covers(q.key, concrete)}
      <3>1. MostSpecific({q.key : q \in none}) = {}
        BY <2>1 DEF MostSpecific
      <3>2. Cardinality({}) # 1
        BY FS_EmptySet
      <3>3. ConfigureRequestMedia(plans, concrete, c.version) = {}
        BY <2>1, <3>1, <3>2 DEF ConfigureRequestMedia
      <3>. QED
        BY <3>3
    <2>. QED
      BY <2>1 DEF PlanRequestBodies
  <1>2. /\ {q.key : q \in plans} = UsableKeys(c.content)
        /\ \A q, r \in plans : q.key = r.key => q = r
        /\ \A q \in plans : ~q.unsupported =>
              /\ q = BodyPlan(q.key, CandidateFamily(q.key, c.version), FALSE)
              /\ q.family # ""
              /\ ~Unbuildable(q.family, Ranged(q.key), q.key.schema, c.version, TRUE)
    BY <1>1, InventoryIsComplete
  <1>3. supported = {q \in plans : ~q.unsupported}
    BY DEF Supported
  <1>4. IsFiniteSet(UsableKeys(c.content)) /\ \A k \in UsableKeys(c.content) : WellTyped(k)
    BY MediaAssumption, FS_Subset DEF UsableKeys, WellTyped
  <1>5. p \in ConfigureRequestMedia(plans, concrete, c.version)
    OBVIOUS
  <1> HIDE DEF planned, plans, supported, concrete, covering
  <1>6. PICK own : MostSpecific(covering) = {own}
    BY <1>2, <1>4, <1>5, ElectionHasAWinner, ZenonT(30) DEF covering
  <1>7. covering = {k \in UsableKeys(c.content) : Covers(k, concrete)}
    BY <1>2 DEF covering, Covering
  <1>8. /\ own \in covering
        /\ \A k \in covering \ {own} :
               \/ Specificity(k) < Specificity(own)
               \/ /\ Specificity(k) = Specificity(own)
                  /\ Cardinality(DOMAIN k.params) < Cardinality(DOMAIN own.params)
        /\ \A fewer \in SUBSET covering : own \in fewer => MostSpecific(fewer) = {own}
    BY <1>4, <1>6, <1>7, WinnerIsCloser
  <1> DEFINE chosen == Electable(plans, concrete, c.version, own)
  <1>9. ConfigureRequestMedia(plans, concrete, c.version) = {AsElected(q, concrete, c.version) : q \in chosen}
    BY <1>6, ElectionIsTheWinners DEF covering
  <1>10. PICK q \in chosen : p = AsElected(q, concrete, c.version)
    BY <1>5, <1>9
  <1>11. /\ q \in plans /\ q.key = own /\ ~q.unsupported
         /\ \/ ~Ranged(own)
            \/ ~Unbuildable(ElectedFamily(q, concrete, c.version), FALSE, own.schema, c.version, FALSE)
    BY <1>10 DEF Electable
  <1>12. q = BodyPlan(own, CandidateFamily(own, c.version), FALSE)
    BY <1>2, <1>11
  <1>13. /\ p.key = own /\ p.family = ElectedFamily(q, concrete, c.version)
         /\ p.synthetic = Synthetic(own, CandidateFamily(own, c.version))
    BY <1>10, <1>12 DEF AsElected, BodyPlan
  <1>14. ConfigureRequestMedia(supported, concrete, c.version) = ConfigureRequestMedia(plans, concrete, c.version)
    <2> DEFINE fewer == Covering(supported, concrete)
               chosen2 == Electable(supported, concrete, c.version, own)
    <2>1. fewer \subseteq covering
      BY <1>3 DEF covering, Covering
    <2>2. own \in fewer
      BY <1>3, <1>7, <1>8, <1>11 DEF Covering
    <2>3. MostSpecific(fewer) = {own}
      BY <1>8, <2>1, <2>2
    <2>4. ConfigureRequestMedia(supported, concrete, c.version) = {AsElected(r, concrete, c.version) : r \in chosen2}
      BY <2>3, ElectionIsTheWinners
    <2>5. chosen2 = chosen
      BY <1>3 DEF Electable
    <2>. QED
      BY <1>9, <2>4, <2>5
  <1>15. /\ p.family \in {"text", "raw"} => p.synthetic
         /\ p.family \in {"multipart", "urlencoded"} /\ ~Positional(own.schema, c.version) => ~p.synthetic
    <2>1. CASE ~Ranged(own)
      <3>1. p.family = q.family /\ q.family = CandidateFamily(own, c.version)
        BY <1>11, <1>12, <1>13, <2>1 DEF ElectedFamily, BodyPlan
      <3>2. ~Unbuildable(p.family, Ranged(own), own.schema, c.version, TRUE)
        BY <1>2, <1>11, <3>1
      <3>. QED
        BY <1>13, <2>1, <3>1, <3>2, CarriageMatchesTheSurface
    <2>2. CASE Ranged(own)
      <3>1. p.family = Family(concrete, own.schema, c.version, FALSE)
        BY <1>11, <1>13, <2>2 DEF ElectedFamily
      <3>2. ~Unbuildable(p.family, FALSE, own.schema, c.version, FALSE)
        BY <1>11, <1>13, <2>2
      <3>. QED
        BY <1>13, <2>2, <3>1, <3>2, CarriageMatchesTheSurface
    <2>. QED
      BY <2>1, <2>2
  <1>16. Covers(own, concrete)
    BY <1>7, <1>8
  <1>17. \A k \in UsableKeys(c.content) \ {own} : Covers(k, concrete) =>
            \/ Specificity(k) < Specificity(own)
            \/ /\ Specificity(k) = Specificity(own)
               /\ Cardinality(DOMAIN k.params) < Cardinality(DOMAIN own.params)
    BY <1>7, <1>8
  <1>. QED
    BY <1>13, <1>14, <1>15, <1>16, <1>17 DEF concrete, plans, planned, supported

\* The declaration of a response's own media type governs it.
LEMMA SuccessGovernsItself ==
  ASSUME NEW c \in MediaCases, NEW k \in SuccessMediaTypes(c.content), ~Ranged(k),
         \A l \in c.content : l.type # ""
  PROVE  GoverningResponseMedia(c.content, Concrete(k)) = {k}
  <1> DEFINE keys == {l \in UsableKeys(c.content) : Covers(l, Concrete(k))}
  <1>1. k \in keys
    BY DEF SuccessMediaTypes, Covers, Concrete, Subset
  <1>2. \A l \in c.content : WellTyped(l)
    BY MediaAssumption DEF WellTyped
  <1>3. keys \subseteq UsableKeys(c.content) /\ \A l \in keys : Covers(l, Concrete(k))
    OBVIOUS
  <1>4. MostSpecific(keys) = {k}
    <2> HIDE DEF keys
    <2>. QED
      BY <1>1, <1>2, <1>3, OwnTypeElects
  <1>5. Cardinality({k}) = 1
    BY FS_Singleton
  <1>. QED
    BY <1>4, <1>5 DEF GoverningResponseMedia

\* What an event stream is governed by was declared to stream.
LEMMA GoverningStreams ==
  ASSUME NEW c \in MediaCases, NEW k \in GoverningResponseMedia(c.content, c.concrete),
         c.concrete.sub = "event-stream", "q" \notin DOMAIN k.params
  PROVE  StreamingCapable(c.content)
  <1>1. k \in UsableKeys(c.content) /\ Covers(k, c.concrete)
    BY DEF GoverningResponseMedia, MostSpecific
  <1>2. k \in SuccessMediaTypes(c.content)
    BY <1>1 DEF SuccessMediaTypes
  <1>3. c.concrete.type = "text"
    BY MediaAssumption
  <1>4. k.sub = "event-stream" \/ (Ranged(k) /\ k.type \in {"*", "text"})
    BY <1>1, <1>3 DEF Covers, Ranged
  <1>. QED
    BY <1>2, <1>4 DEF StreamingCapable

\* Every case has the property that the run checks.
LEMMA CaseIsReachable ==
  ASSUME NEW c \in MediaCases PROVE EveryDeclarationIsReachable(c.content, c.version, c.concrete)
  <1> DEFINE planned == PlanRequestBodies(c.content, c.version, TRUE)
             elected == ConfigureRequestMedia(planned.plans, c.concrete, c.version)
  <1>1. \A p \in Supported(planned) : ~Ranged(p.key) =>
             ConfigureRequestMedia(planned.plans, Concrete(p.key), c.version) = {p}
    BY SupportedElectsItself
  <1>2. \A p \in elected :
             /\ Covers(p.key, c.concrete)
             /\ \A k \in UsableKeys(c.content) \ {p.key} : Covers(k, c.concrete) =>
                   \/ Specificity(k) < Specificity(p.key)
                   \/ /\ Specificity(k) = Specificity(p.key)
                      /\ Cardinality(DOMAIN k.params) < Cardinality(DOMAIN p.key.params)
             /\ ConfigureRequestMedia(Supported(planned), c.concrete, c.version) = elected
             /\ p.family \in {"text", "raw"} => p.synthetic
             /\ p.family \in {"multipart", "urlencoded"} /\ ~Positional(p.key.schema, c.version) => ~p.synthetic
    BY ElectedIsTheClosest
  <1>3. \A k \in SuccessMediaTypes(c.content) : ~Ranged(k) /\ (\A l \in c.content : l.type # "") =>
             GoverningResponseMedia(c.content, Concrete(k)) = {k}
    BY SuccessGovernsItself
  <1>4. \A k \in GoverningResponseMedia(c.content, c.concrete) :
             c.concrete.sub = "event-stream" /\ ("q" \notin DOMAIN k.params) => StreamingCapable(c.content)
    BY GoverningStreams
  <1>. QED
    BY <1>1, <1>2, <1>3, <1>4 DEF EveryDeclarationIsReachable

\* A declaration that planning kept is chosen by its own media type, and what
\* is chosen has the carriage of its kind (media.ts configureRequestMedia,
\* governingResponseMediaMatch).
THEOREM MediaTheorem == MediaSpec => []DeclarationsAreReachable
  <1>1. MediaInit => selecting \subseteq MediaCases
    BY DEF MediaInit
  <1>2. selecting \subseteq MediaCases /\ [UNCHANGED selecting]_selecting => (selecting \subseteq MediaCases)'
    OBVIOUS
  <1>3. selecting \subseteq MediaCases => DeclarationsAreReachable
    BY CaseIsReachable DEF DeclarationsAreReachable
  <1>. QED
    BY <1>1, <1>2, <1>3, PTL DEF MediaSpec

(***************************************************************************)
(* Input routing.  A field is the name it stands for or a suffixed one     *)
(* that nobody authored; a name that was suffixed is taken by an earlier   *)
(* declaration of the same name, so that it never reads as a field of its  *)
(* own.                                                                    *)
(***************************************************************************)

\* Induction, from the least number a set leaves out.
LEMMA EveryNatural ==
  ASSUME NEW S, 0 \in S, \A n \in Nat : n \in S => n + 1 \in S
  PROVE  Nat \subseteq S
  <1> DEFINE rest == Nat \ S
  <1>1. SUFFICES ASSUME rest # {} PROVE FALSE
    OBVIOUS
  <1>2. PICK least \in rest : \A n \in rest : <<n, least>> \notin OpToRel(<, Nat)
    BY <1>1, NatLessThanWellFounded, WFMin
  <1>3. \A n \in rest : ~(n < least)
    BY <1>2 DEF OpToRel
  <1>4. least - 1 \in Nat /\ least - 1 \notin rest
    BY <1>3
  <1>. QED
    BY <1>4

\* Two suffixes of one name give two fields.
LEMMA SuffixesDiffer ==
  ASSUME NEW n, IsName(n), NEW j \in Nat, NEW k \in Nat, Append(n, j) = Append(n, k)
  PROVE  j = k
  <1> DEFINE letters == {n[i] : i \in 1 .. Len(n)} \cup Nat
  <1>1. n \in Seq(letters)
    BY SeqDef DEF IsName
  <1>2. Append(n, j)[Len(n) + 1] = j /\ Append(n, k)[Len(n) + 1] = k
    BY <1>1, AppendProperties
  <1>. QED
    BY <1>2

\* There is always a suffix left.
LEMMA SuffixIsFree ==
  ASSUME NEW base, IsName(base), NEW used, IsFiniteSet(used), NEW bases, IsFiniteSet(bases)
  PROVE  /\ Suffix(base, used, bases) \in Nat
         /\ Append(base, Suffix(base, used, bases)) \notin used \cup bases
  <1> DEFINE bound == Cardinality(bases) + Cardinality(used) + 2
             tried == 2 .. bound
             taken == used \cup bases
             free == {k \in tried : Append(base, k) \notin taken}
             f == [k \in tried |-> Append(base, k)]
  <1>1. Cardinality(bases) \in Nat /\ Cardinality(used) \in Nat
    BY FS_CardinalityType
  <1>2. IsFiniteSet(taken) /\ Cardinality(taken) <= bound - 2
    <2>1. Cardinality(used \cap bases) \in Nat
      BY FS_Intersection, FS_CardinalityType
    <2>2. IsFiniteSet(taken) /\ Cardinality(taken) = Cardinality(used) + Cardinality(bases) - Cardinality(used \cap bases)
      BY FS_Union
    <2> HIDE DEF taken
    <2>. QED
      BY <1>1, <2>1, <2>2
  <1>3. IsFiniteSet(tried) /\ Cardinality(tried) = bound - 1
    <2>1. bound \in Int /\ 2 \in Int /\ bound >= 2
      BY <1>1
    <2> HIDE DEF bound
    <2>2. IsFiniteSet(2 .. bound) /\ Cardinality(2 .. bound) = IF 2 > bound THEN 0 ELSE bound - 2 + 1
      BY <2>1, FS_Interval
    <2>. QED
      BY <2>1, <2>2
  <1>4. free # {}
    <2>1. SUFFICES ASSUME free = {} PROVE FALSE
      OBVIOUS
    <2>2. f \in [tried -> taken]
      BY <2>1
    <2>3. Cardinality(taken) < Cardinality(tried)
      BY <1>1, <1>2, <1>3, FS_CardinalityType
    <2>4. PICK j \in tried, k \in tried : j # k /\ f[j] = f[k]
      <3> HIDE DEF f, tried, taken
      <3>. QED
        BY <1>2, <1>3, <2>2, <2>3, FS_PigeonHole
    <2>. QED
      BY <2>4, <1>1, SuffixesDiffer
  <1>5. free \in SUBSET Nat
    BY <1>1
  <1>6. Min(free) \in free /\ \A k \in free : Min(free) <= k
    <2> HIDE DEF free
    <2>. QED
      BY <1>4, <1>5, LeastOf
  <1>7. \E k \in tried : Append(base, k) \notin taken /\ \A j \in 2 .. k - 1 : Append(base, j) \in taken
    <2>1. ASSUME NEW j \in 2 .. Min(free) - 1 PROVE Append(base, j) \in taken
      <3>1. Min(free) \in Nat /\ j \in tried /\ j < Min(free)
        BY <1>1, <1>5, <1>6
      <3>2. j \notin free
        BY <1>6, <3>1
      <3>. QED
        BY <3>1, <3>2
    <2>. QED
      BY <1>6, <2>1
  <1>8. /\ Suffix(base, used, bases) \in tried
        /\ Append(base, Suffix(base, used, bases)) \notin taken
    BY <1>7 DEF Suffix
  <1>. QED
    BY <1>1, <1>8

\* The fields are given one after the other.
LEMMA FieldNamesUnfold ==
  ASSUME NEW slots, Len(slots) \in Nat, NEW bases, bases = {slots[i].base : i \in DOMAIN slots}
  PROVE  \E after : /\ after[0] = <<>>
                    /\ \A n \in 1 .. Len(slots) :
                          after[n] = Append(after[n - 1], NextField(slots[n].base, after[n - 1], bases))
                    /\ FieldNames(slots) = after[Len(slots)]
  <1> DEFINE Next(g, n) == Append(g, NextField(slots[n].base, g, bases))
             From(f, m) == [n \in 0 .. m |-> IF n = 0 THEN <<>> ELSE Next(f[n - 1], n)]
             after == CHOOSE f : f = From(f, Len(slots))
             defined == {m \in Nat : \E f : f = From(f, m)}
  <1>0. FieldNames(slots) = after[Len(slots)]
    BY DEF FieldNames
  <1> HIDE DEF Next
  <1>2. Nat \subseteq defined
    <2>1. 0 \in defined
      <3>1. [n \in 0 .. 0 |-> <<>>] = From([n \in 0 .. 0 |-> <<>>], 0)
        OBVIOUS
      <3>. QED
        BY <3>1
    <2>2. ASSUME NEW m \in Nat, m \in defined PROVE m + 1 \in defined
      <3>1. PICK f : f = From(f, m)
        BY <2>2
      <3> DEFINE g == [n \in 0 .. (m + 1) |-> IF n = m + 1 THEN Next(f[m], m + 1) ELSE f[n]]
      <3>2. \A n \in 0 .. m : f[n] = IF n = 0 THEN <<>> ELSE Next(f[n - 1], n)
        BY <3>1
      <3>3. \A n \in 0 .. (m + 1) : g[n] = IF n = 0 THEN <<>> ELSE Next(g[n - 1], n)
        BY <3>2
      <3>4. g = From(g, m + 1)
        BY <3>3
      <3> HIDE DEF g
      <3>. QED
        BY <3>4
    <2>. QED
      BY <2>1, <2>2, EveryNatural
  <1>3. after = From(after, Len(slots))
    <2>1. \E f : f = From(f, Len(slots))
      BY <1>2
    <2>. QED
      BY <2>1
  <1>4. \A n \in 0 .. Len(slots) : after[n] = IF n = 0 THEN <<>> ELSE Next(after[n - 1], n)
    BY <1>3
  <1> HIDE DEF after
  <1>6. after[0] = <<>> /\ \A n \in 1 .. Len(slots) : after[n] = Next(after[n - 1], n)
    BY <1>4
  <1>. QED
    BY <1>0, <1>6 DEF Next

\* The values of a finite table are finitely many.
LEMMA RangeIsFinite ==
  ASSUME NEW n \in Nat, NEW S, NEW f \in [1 .. n -> S] PROVE IsFiniteSet({f[i] : i \in 1 .. n})
  <1> DEFINE T == {f[i] : i \in 1 .. n}
  <1>1. f \in Surjection(1 .. n, T)
    BY DEF Surjection
  <1>2. IsFiniteSet(1 .. n)
    BY FS_Interval
  <1>. QED
    BY <1>1, <1>2, FS_Surjection

\* What a field may be.
Spellings(bases) == bases \cup {Append(b, k) : b \in bases, k \in Nat}

\* The first n fields: no two are one, and each is its base or a spelling nobody
\* authored, given because an earlier slot has the base.
GivenFields(fields, slots, bases, n) ==
  /\ fields \in Seq(Spellings(bases)) /\ Len(fields) = n
  /\ \A i, j \in 1 .. n : i # j => fields[i] # fields[j]
  /\ \A i \in 1 .. n : \/ fields[i] = slots[i].base
                       \/ fields[i] \notin bases /\ \E j \in 1 .. i - 1 : fields[j] = slots[i].base

\* One more.
LEMMA NextFieldIsGiven ==
  ASSUME NEW slots, NEW n \in Nat, NEW base, base = slots[n + 1].base,
         NEW bases, IsFiniteSet(bases), base \in bases, IsName(base),
         NEW fields, GivenFields(fields, slots, bases, n)
  PROVE  GivenFields(Append(fields, NextField(base, fields, bases)), slots, bases, n + 1)
  <1> DEFINE x == NextField(base, fields, bases)
             more == Append(fields, x)
             used == ToSet(fields)
  <1>1. fields \in Seq(Spellings(bases)) /\ Len(fields) = n /\ used = {fields[i] : i \in 1 .. n}
    BY LenProperties DEF GivenFields, ToSet
  <1>2. IsFiniteSet(used)
    <2>1. fields \in [1 .. n -> Spellings(bases)]
      BY <1>1, LenProperties
    <2>2. IsFiniteSet({fields[i] : i \in 1 .. n})
      BY <2>1, RangeIsFinite
    <2>. QED
      BY <1>1, <2>2
  <1>3. /\ x \in Spellings(bases) /\ x \notin used
        /\ x = base \/ (x \notin bases /\ base \in used)
    <2>1. CASE base \in used
      <3>1. x = Append(base, Suffix(base, used, bases))
        BY <2>1 DEF NextField
      <3>2. Suffix(base, used, bases) \in Nat /\ x \notin used \cup bases
        BY <1>2, <3>1, SuffixIsFree
      <3>3. x \in Spellings(bases)
        BY <3>1, <3>2 DEF Spellings
      <3>. QED
        BY <2>1, <3>2, <3>3
    <2>2. CASE base \notin used
      BY <2>2 DEF NextField, Spellings
    <2>. QED
      BY <2>1, <2>2
  <1> HIDE DEF x
  <1>4. /\ more \in Seq(Spellings(bases)) /\ Len(more) = n + 1
        /\ \A i \in 1 .. n : more[i] = fields[i]
        /\ more[n + 1] = x
    BY <1>1, <1>3, AppendProperties
  <1> HIDE DEF more, used
  <1>5. \A i, j \in 1 .. n + 1 : i # j => more[i] # more[j]
    <2>1. \A i \in 1 .. n : more[i] # x
      BY <1>1, <1>3, <1>4
    <2>2. \A i, j \in 1 .. n : i # j => more[i] # more[j]
      BY <1>4 DEF GivenFields
    <2>. QED
      BY <1>4, <2>1, <2>2
  <1>6. ASSUME NEW i \in 1 .. n + 1
        PROVE  \/ more[i] = slots[i].base
               \/ more[i] \notin bases /\ \E j \in 1 .. i - 1 : more[j] = slots[i].base
    <2>1. CASE i = n + 1
      BY <1>1, <1>3, <1>4, <2>1
    <2>2. CASE i \in 1 .. n
      <3>1. \/ fields[i] = slots[i].base
            \/ fields[i] \notin bases /\ \E j \in 1 .. i - 1 : fields[j] = slots[i].base
        BY <2>2 DEF GivenFields
      <3>2. \A j \in 1 .. i - 1 : more[j] = fields[j]
        BY <1>4, <2>2
      <3>. QED
        BY <1>4, <2>2, <3>1, <3>2
    <2>. QED
      BY <2>1, <2>2
  <1>. QED
    BY <1>4, <1>5, <1>6 DEF GivenFields, more, x

LEMMA FieldsAreGiven ==
  ASSUME NEW slots, Len(slots) \in Nat, DOMAIN slots = 1 .. Len(slots), \A i \in DOMAIN slots : IsName(slots[i].base)
  PROVE  GivenFields(FieldNames(slots), slots, {slots[i].base : i \in DOMAIN slots}, Len(slots))
  <1> DEFINE bases == {slots[i].base : i \in DOMAIN slots}
  <1>1. IsFiniteSet(bases)
    <2> DEFINE f == [i \in 1 .. Len(slots) |-> slots[i].base]
    <2>1. f \in [1 .. Len(slots) -> bases]
      OBVIOUS
    <2>2. bases = {f[i] : i \in 1 .. Len(slots)}
      OBVIOUS
    <2> HIDE DEF f, bases
    <2>. QED
      BY <2>1, <2>2, RangeIsFinite
  <1> HIDE DEF bases
  <1>2. PICK after : /\ after[0] = <<>>
                     /\ \A n \in 1 .. Len(slots) :
                          after[n] = Append(after[n - 1], NextField(slots[n].base, after[n - 1], bases))
                     /\ FieldNames(slots) = after[Len(slots)]
    BY FieldNamesUnfold DEF bases
  <1> DEFINE good == {n \in Nat : n <= Len(slots) => GivenFields(after[n], slots, bases, n)}
  <1>3. 0 \in good
    <2>1. <<>> \in Seq(Spellings(bases)) /\ Len(<<>>) = 0
      BY EmptySeq
    <2>2. GivenFields(<<>>, slots, bases, 0)
      BY <2>1 DEF GivenFields
    <2>. QED
      BY <1>2, <2>2
  <1>4. ASSUME NEW n \in Nat, n \in good PROVE n + 1 \in good
    <2>1. SUFFICES ASSUME n + 1 <= Len(slots) PROVE GivenFields(after[n + 1], slots, bases, n + 1)
      OBVIOUS
    <2> DEFINE base == slots[n + 1].base
    <2>2. GivenFields(after[n], slots, bases, n)
      BY <1>4, <2>1
    <2>3. base \in bases /\ IsName(base)
      BY <2>1 DEF bases
    <2>4. after[n + 1] = Append(after[n], NextField(base, after[n], bases))
      BY <1>2, <2>1
    <2> HIDE DEF base
    <2>5. GivenFields(Append(after[n], NextField(base, after[n], bases)), slots, bases, n + 1)
      BY <1>1, <2>2, <2>3, NextFieldIsGiven DEF base
    <2>. QED
      BY <2>4, <2>5
  <1>5. Len(slots) \in good
    <2> HIDE DEF good
    <2>. QED
      BY <1>3, <1>4, EveryNatural
  <1>. QED
    BY <1>2, <1>5 DEF bases

\* Enumerating a finite set leaves nothing out and takes nothing twice.
LEMMA Enumerated ==
  ASSUME NEW S, IsFiniteSet(S)
  PROVE  SetToSeq(S) \in [1 .. Cardinality(S) -> S] /\ IsInjective(SetToSeq(S)) /\ Cardinality(S) \in Nat
  <1>1. Cardinality(S) \in Nat /\ ExistsBijection(1 .. Cardinality(S), S)
    BY FS_CardinalityType
  <1>2. \E f \in [1 .. Cardinality(S) -> S] : IsInjective(f)
    BY <1>1 DEF ExistsBijection, Bijection, Injection
  <1>. QED
    BY <1>1, <1>2 DEF SetToSeq

\* What the routes of an interface are made from.
ProperSlots(slots, interface) ==
  /\ Len(slots) \in Nat /\ DOMAIN slots = 1 .. Len(slots)
  /\ \A i \in DOMAIN slots :
        /\ slots[i].kind \in {"parameter", "body", "whole"}
        /\ IsName(slots[i].base)
        /\ slots[i].kind # "whole" => slots[i].base = slots[i].name
        /\ slots[i].kind = "parameter" =>
              \E j \in DOMAIN interface.params : interface.params[j].in = slots[i].at /\ interface.params[j].name = slots[i].name
        /\ slots[i].kind = "body" => slots[i].at = "" /\ slots[i].name \in BodyProps(interface.plans)
        /\ slots[i].kind = "whole" => i = Len(slots) /\ HasWhole(interface.plans)
  /\ \A i, j \in DOMAIN slots :
        i # j => <<slots[i].kind, slots[i].at, slots[i].name>> # <<slots[j].kind, slots[j].at, slots[j].name>>

LEMMA SlotsAreProper ==
  ASSUME NEW c \in RouteCases PROVE ProperSlots(Slots(c.interface), c.interface)
  <1>a. /\ \A n : BodySlot(n).kind = "body" /\ BodySlot(n).at = "" /\ BodySlot(n).name = n /\ BodySlot(n).base = n
        /\ \A q : /\ ParameterSlot(q).kind = "parameter" /\ ParameterSlot(q).at = q.in
                  /\ ParameterSlot(q).name = q.name /\ ParameterSlot(q).base = q.name
        /\ WholeSlot.kind = "whole" /\ WholeSlot.base = WholeField
    BY DEF BodySlot, ParameterSlot, WholeSlot
  <1> DEFINE interface == c.interface
             params == interface.params
             plans == interface.plans
             bodies == {BodySlot(n) : n \in BodyProps(plans)}
             P == [i \in DOMAIN params |-> ParameterSlot(params[i])]
             B == SetToSeq(bodies)
             W == IF HasWhole(plans) THEN <<WholeSlot>> ELSE <<>>
             any == {ParameterSlot(params[i]) : i \in DOMAIN params} \cup bodies \cup {WholeSlot}
             p == Len(params)
             b == Cardinality(bodies)
             w == IF HasWhole(plans) THEN 1 ELSE 0
             slots == Slots(interface)
  <1>1. /\ params \in Seq(ToSet(params)) /\ \A i \in DOMAIN params : IsName(params[i].name)
        /\ \A i, j \in DOMAIN params : i # j => <<params[i].in, params[i].name>> # <<params[j].in, params[j].name>>
        /\ \A i \in DOMAIN plans : IsFiniteSet(plans[i].props) /\ \A n \in plans[i].props : IsName(n)
        /\ plans \in Seq(ToSet(plans))
    BY RouteAssumption
  <1>2. p \in Nat /\ DOMAIN params = 1 .. p
    BY <1>1, LenProperties
  <1>3. \A n \in BodyProps(plans) : IsName(n)
    BY <1>1 DEF BodyProps
  <1>4. IsFiniteSet(bodies)
    <2>1. IsFiniteSet(BodyProps(plans))
      <3> DEFINE listed == {k \in DOMAIN plans : plans[k].sort # "whole"}
                 sets == {plans[i].props : i \in listed}
                 f == [i \in listed |-> plans[i].props]
      <3>a. Len(plans) \in Nat /\ DOMAIN plans = 1 .. Len(plans)
        BY <1>1, LenProperties
      <3>1. IsFiniteSet(DOMAIN plans)
        BY <3>a, FS_Interval
      <3>2. IsFiniteSet(listed)
        BY <3>1, FS_Subset
      <3>3. f \in Surjection(listed, sets)
        BY DEF Surjection
      <3>4. \A s \in sets : IsFiniteSet(s)
        BY <1>1
      <3>5. BodyProps(plans) = UNION sets
        BY DEF BodyProps
      <3> HIDE DEF listed, sets, f
      <3>6. IsFiniteSet(sets)
        BY <3>2, <3>3, FS_Surjection
      <3>. QED
        BY <3>4, <3>5, <3>6, FS_UNION
    <2> DEFINE g == [n \in BodyProps(plans) |-> BodySlot(n)]
    <2>2. g \in Surjection(BodyProps(plans), bodies)
      BY DEF Surjection
    <2> HIDE DEF g, bodies
    <2>. QED
      BY <2>1, <2>2, FS_Surjection
  <1>5. B \in [1 .. b -> bodies] /\ IsInjective(B) /\ b \in Nat
    BY <1>4, Enumerated
  <1>6. /\ P \in Seq(any) /\ Len(P) = p /\ B \in Seq(any) /\ Len(B) = b /\ W \in Seq(any) /\ Len(W) = w
    <2>1. P \in [1 .. p -> any]
      BY <1>2
    <2>2. B \in [1 .. b -> any]
      BY <1>5
    <2>3. W \in [1 .. w -> any]
      OBVIOUS
    <2>4. w \in Nat
      OBVIOUS
    <2> HIDE DEF P, B, W, any, p, b, w
    <2>. QED
      BY <1>2, <1>5, <2>1, <2>2, <2>3, <2>4, SeqDef, LenProperties
  <1>7. slots = (P \o B) \o W
    BY DEF Slots
  <1>8. \A i \in 1 .. p : P[i] = ParameterSlot(params[i])
    BY <1>2
  <1>9. w \in 0 .. 1 /\ (w = 1 => HasWhole(plans) /\ W[1] = WholeSlot)
    OBVIOUS
  <1> HIDE DEF P, B, W, any, p, b, w, bodies
  <1>10. /\ P \o B \in Seq(any) /\ Len(P \o B) = p + b
         /\ \A i \in 1 .. p + b : (P \o B)[i] = IF i <= p THEN P[i] ELSE B[i - p]
    BY <1>6, ConcatProperties
  <1>11. /\ slots \in Seq(any) /\ Len(slots) = p + b + w
         /\ \A i \in 1 .. p + b + w : slots[i] = IF i <= p + b THEN (P \o B)[i] ELSE W[i - (p + b)]
    BY <1>6, <1>7, <1>10, ConcatProperties
  <1>12. Len(slots) \in Nat /\ DOMAIN slots = 1 .. p + b + w
    BY <1>11, LenProperties
  <1> HIDE DEF slots
  <1>13. \A i \in 1 .. p : slots[i] = ParameterSlot(params[i])
    BY <1>2, <1>5, <1>8, <1>9, <1>10, <1>11
  <1>14. ASSUME NEW i \in p + 1 .. p + b PROVE slots[i] = B[i - p]
    <2>1. i \in 1 .. p + b /\ i \in 1 .. p + b + w /\ ~(i <= p) /\ i <= p + b
      BY <1>2, <1>5, <1>9
    <2>2. slots[i] = (P \o B)[i]
      BY <1>11, <2>1
    <2>. QED
      BY <1>10, <2>1, <2>2
  <1>15. \A i \in 1 .. p + b + w : i > p + b => i = p + b + w /\ w = 1 /\ slots[i] = WholeSlot
    BY <1>2, <1>5, <1>9, <1>11
  <1>16. \A i \in p + 1 .. p + b : \E n \in BodyProps(plans) : slots[i] = BodySlot(n)
    BY <1>2, <1>5, <1>14 DEF bodies
  <1>17. \A i \in 1 .. p + b + w : i \in 1 .. p \/ i \in p + 1 .. p + b \/ i > p + b
    BY <1>2, <1>5
  <1> DEFINE Kept(i) == /\ slots[i].kind \in {"parameter", "body", "whole"}
                        /\ IsName(slots[i].base)
                        /\ slots[i].kind # "whole" => slots[i].base = slots[i].name
                        /\ slots[i].kind = "parameter" =>
                              \E j \in DOMAIN params : params[j].in = slots[i].at /\ params[j].name = slots[i].name
                        /\ slots[i].kind = "body" => slots[i].at = "" /\ slots[i].name \in BodyProps(plans)
                        /\ slots[i].kind = "whole" => i = p + b + w /\ HasWhole(plans)
  <1>18. ASSUME NEW i \in 1 .. p + b + w PROVE Kept(i)
    <2>1. CASE i \in 1 .. p
      <3>1. /\ slots[i].kind = "parameter" /\ slots[i].at = params[i].in
            /\ slots[i].name = params[i].name /\ slots[i].base = params[i].name
        BY <1>a, <1>13, <2>1
      <3>2. i \in DOMAIN params /\ IsName(params[i].name)
        BY <1>1, <1>2, <2>1
      <3>. QED
        BY <3>1, <3>2
    <2>2. CASE i \in p + 1 .. p + b
      <3>1. PICK n \in BodyProps(plans) : slots[i] = BodySlot(n)
        BY <1>16, <2>2
      <3>2. slots[i].kind = "body" /\ slots[i].at = "" /\ slots[i].name = n /\ slots[i].base = n
        BY <1>a, <3>1
      <3>. QED
        BY <1>3, <3>2
    <2>3. CASE i > p + b
      <3>1. IsName(WholeField)
        BY DEF IsName, WholeField
      <3>. QED
        BY <1>a, <1>9, <1>15, <2>3, <3>1
    <2>. QED
      BY <1>17, <2>1, <2>2, <2>3
  <1> DEFINE Triple(i) == <<slots[i].kind, slots[i].at, slots[i].name>>
  <1>19. ASSUME NEW i \in 1 .. p + b + w, NEW j \in 1 .. p + b + w, i < j, Triple(i) = Triple(j) PROVE FALSE
    <2>1. slots[i].kind = slots[j].kind /\ slots[i].at = slots[j].at /\ slots[i].name = slots[j].name
      BY <1>19
    <2>2. CASE j \in 1 .. p
      <3>1. i \in 1 .. p
        BY <1>2, <1>19, <2>2
      <3>2. params[i].in = params[j].in /\ params[i].name = params[j].name
        BY <1>a, <1>13, <2>1, <2>2, <3>1, ZenonT(30)
      <3>. QED
        BY <1>1, <1>2, <1>19, <2>2, <3>1, <3>2
    <2>3. CASE j \in p + 1 .. p + b
      <3>1. slots[j].kind = "body"
        BY <1>a, <1>16, <2>3
      <3>2. i \notin 1 .. p
        BY <1>a, <1>13, <2>1, <3>1, ZenonT(30)
      <3>3. i \in p + 1 .. p + b
        BY <1>2, <1>5, <1>9, <1>19, <2>3, <3>2
      <3>4. slots[i] = slots[j]
        <4>1. PICK n \in BodyProps(plans) : slots[i] = BodySlot(n)
          BY <1>16, <3>3
        <4>2. PICK m \in BodyProps(plans) : slots[j] = BodySlot(m)
          BY <1>16, <2>3
        <4>3. slots[i].name = n
          BY <1>a, <4>1
        <4>4. slots[j].name = m
          BY <1>a, <4>2
        <4>5. n = m
          BY <2>1, <4>3, <4>4
        <4>. QED
          BY <4>1, <4>2, <4>5
      <3>5. B[i - p] = B[j - p] /\ i - p \in 1 .. b /\ j - p \in 1 .. b
        BY <1>2, <1>5, <1>14, <2>3, <3>3, <3>4
      <3>6. i - p = j - p
        BY <1>5, <3>5 DEF IsInjective
      <3>. QED
        BY <1>2, <1>19, <3>6
    <2>4. CASE j > p + b
      <3>1. slots[j].kind = "whole"
        BY <1>a, <1>15, <2>4
      <3>2. slots[i].kind = "whole"
        BY <2>1, <3>1
      <3>3. i \notin 1 .. p /\ i \notin p + 1 .. p + b
        BY <1>a, <1>13, <1>16, <3>2
      <3>. QED
        BY <1>15, <1>17, <1>19, <2>4, <3>3
    <2>. QED
      BY <1>17, <2>2, <2>3, <2>4
  <1>20. \A i, j \in 1 .. p + b + w : i # j => Triple(i) # Triple(j)
    <2> HIDE DEF Triple
    <2>1. \A i, j \in 1 .. p + b + w : i < j => Triple(i) # Triple(j)
      BY <1>19
    <2>2. \A i, j \in 1 .. p + b + w : i < j \/ i = j \/ j < i
      BY <1>2, <1>5, <1>9
    <2>. QED
      BY <2>1, <2>2
  <1>. QED
    <2>1. \A i \in DOMAIN slots : Kept(i)
      BY <1>12, <1>18
    <2>2. \A i, j \in DOMAIN slots : i # j => Triple(i) # Triple(j)
      BY <1>12, <1>20
    <2>. QED
      BY <1>11, <1>12, <2>1, <2>2 DEF ProperSlots, slots

\* What a table of routes is good for: no two routes share a field or a place,
\* each stands for a declaration, and a name that was suffixed is the field of
\* another declaration of that name.
RouteFacts(routes, interface) ==
  /\ WellFormedRoutes(routes) /\ KnownRoutes(interface, routes)
  /\ \A r \in routes : /\ r.kind \in {"parameter", "body", "whole"}
                       /\ r.kind = "body" => r.at = ""
                       /\ r.kind # "whole" /\ r.field # r.name =>
                             \E s \in routes : /\ s # r /\ s.name = r.name /\ s.field = r.name
                                               /\ s.kind # "whole"
                                               /\ r.kind = "body" => s.kind = "parameter"

LEMMA RoutesAreSound ==
  ASSUME NEW c \in RouteCases PROVE RouteFacts(Routes(c.interface), c.interface)
  <1> DEFINE interface == c.interface
             slots == Slots(interface)
             fields == FieldNames(slots)
             bases == {slots[i].base : i \in DOMAIN slots}
             n == Len(slots)
             routes == Routes(interface)
             Route(i) == [kind |-> slots[i].kind, at |-> slots[i].at, name |-> slots[i].name, field |-> fields[i]]
  <1>1. ProperSlots(slots, interface)
    BY SlotsAreProper
  <1>2. n \in Nat /\ DOMAIN slots = 1 .. n
    BY <1>1 DEF ProperSlots
  <1>3. GivenFields(fields, slots, bases, n)
    BY <1>1, <1>2, FieldsAreGiven DEF ProperSlots
  <1>4. routes = {Route(i) : i \in 1 .. n}
    BY <1>2 DEF Routes
  <1>5. \A i : /\ Route(i).kind = slots[i].kind /\ Route(i).at = slots[i].at
               /\ Route(i).name = slots[i].name /\ Route(i).field = fields[i]
    OBVIOUS
  <1>6. \A i \in 1 .. n :
           /\ slots[i].kind \in {"parameter", "body", "whole"}
           /\ slots[i].kind # "whole" => slots[i].base = slots[i].name
           /\ slots[i].kind = "parameter" =>
                 \E j \in DOMAIN interface.params : interface.params[j].in = slots[i].at /\ interface.params[j].name = slots[i].name
           /\ slots[i].kind = "body" => slots[i].at = "" /\ slots[i].name \in BodyProps(interface.plans)
           /\ slots[i].kind = "whole" => i = n /\ HasWhole(interface.plans)
    BY <1>1, <1>2 DEF ProperSlots
  <1>7. \A i, j \in 1 .. n :
           i # j => <<slots[i].kind, slots[i].at, slots[i].name>> # <<slots[j].kind, slots[j].at, slots[j].name>>
    BY <1>1, <1>2 DEF ProperSlots
  <1>8. \A i \in 1 .. n : slots[i].base \in bases
    BY <1>2
  <1> HIDE DEF slots, fields, bases, n, routes, Route
  <1>9. \A r \in routes : \E i \in 1 .. n : r = Route(i)
    BY <1>4
  <1>10. ASSUME NEW r \in routes, NEW s \in routes, r # s
         PROVE  r.field # s.field /\ <<r.kind, r.at, r.name>> # <<s.kind, s.at, s.name>>
    <2>1. PICK i \in 1 .. n : r = Route(i)
      BY <1>9
    <2>2. PICK j \in 1 .. n : s = Route(j)
      BY <1>9
    <2>3. i # j
      BY <1>10, <2>1, <2>2
    <2>4. fields[i] # fields[j]
      BY <1>3, <2>3 DEF GivenFields
    <2>. QED
      BY <1>5, <1>7, <2>1, <2>2, <2>3, <2>4
  <1>11. WellFormedRoutes(routes)
    BY <1>10 DEF WellFormedRoutes
  <1>12. KnownRoutes(interface, routes)
    <2>1. ASSUME NEW r \in routes
          PROVE  /\ r.kind = "parameter" =>
                       \E j \in DOMAIN interface.params : interface.params[j].in = r.at /\ interface.params[j].name = r.name
                 /\ r.kind = "body" => r.name \in BodyProps(interface.plans)
                 /\ r.kind = "whole" => HasWhole(interface.plans)
      <3>1. PICK i \in 1 .. n : r = Route(i)
        BY <1>9
      <3>2. r.kind = slots[i].kind /\ r.at = slots[i].at /\ r.name = slots[i].name
        BY <1>5, <3>1
      <3>. QED
        BY <1>6, <3>2
    <2>. QED
      BY <2>1 DEF KnownRoutes
  <1>13. ASSUME NEW r \in routes
         PROVE  r.kind \in {"parameter", "body", "whole"} /\ (r.kind = "body" => r.at = "")
    BY <1>5, <1>6, <1>9, ZenonT(30)
  <1>14. ASSUME NEW r \in routes, r.kind # "whole", r.field # r.name
         PROVE  \E s \in routes : /\ s # r /\ s.name = r.name /\ s.field = r.name
                                  /\ s.kind # "whole"
                                  /\ r.kind = "body" => s.kind = "parameter"
    <2>1. PICK i \in 1 .. n : r = Route(i)
      BY <1>9
    <2>2. slots[i].base = r.name /\ fields[i] # slots[i].base
      BY <1>5, <1>6, <1>14, <2>1
    <2>3. PICK j \in 1 .. i - 1 : fields[j] = slots[i].base
      BY <1>3, <2>2 DEF GivenFields
    <2>4. j \in 1 .. n /\ j # n /\ j # i
      BY <1>2, <2>3
    <2>5. fields[j] = slots[j].base
      BY <1>3, <1>8, <2>3, <2>4 DEF GivenFields
    <2>6. slots[j].kind # "whole" /\ slots[j].name = r.name
      BY <1>6, <2>2, <2>3, <2>4, <2>5
    <2>7. Route(j) \in routes /\ Route(j).name = r.name /\ Route(j).field = r.name /\ Route(j).kind # "whole"
      BY <1>4, <1>5, <2>2, <2>3, <2>4, <2>6
    <2>8. Route(j) # r
      BY <1>5, <1>14, <2>7
    <2>9. ASSUME r.kind = "body" PROVE Route(j).kind = "parameter"
      <3>1. slots[i].kind = "body" /\ slots[i].at = ""
        BY <1>5, <1>6, <2>1, <2>9
      <3>2. slots[j].kind # "body"
        BY <1>5, <1>6, <1>7, <2>1, <2>4, <2>6, <3>1, ZenonT(30)
      <3>. QED
        BY <1>5, <1>6, <2>4, <2>6, <3>2
    <2>. QED
      BY <2>7, <2>8, <2>9
  <1>. QED
    BY <1>11, <1>12, <1>13, <1>14 DEF RouteFacts, routes

\* Through the routes, every field has one place and that place is its own.
LEMMA EnvelopeIsOneToOne ==
  ASSUME NEW interface, NEW plan, NEW supplied, NEW routes, RouteFacts(routes, interface),
         plan.sort \in {"json", "form", "whole", "none"}, plan.sort \notin {"json", "form"} => plan.props = {},
         ~RouteEnvelope(interface, plan, routes, supplied).refused
  PROVE  LET routed == RouteEnvelope(interface, plan, routes, supplied)
         IN /\ OneToOne(routed, supplied)
            /\ \A r \in routes : r.kind # "whole" /\ r.field \in supplied =>
                  \/ <<r.kind, r.at, r.name, r.field>> \in routed.places
                  \/ r.kind = "body" /\ r.name \notin plan.props
  <1> DEFINE parameters == {r \in routes : r.kind = "parameter" /\ r.field \in supplied}
             body == {r \in routes : r.field \in supplied
                                     /\ \/ r.kind = "whole" /\ plan.sort = "whole"
                                        \/ r.kind = "body" /\ plan.sort \in {"json", "form"} /\ r.name \in plan.props}
             routeds == parameters \cup body
             rest == supplied \ {r.field : r \in routeds}
             routed == RouteEnvelope(interface, plan, routes, supplied)
             ofRoutes == {<<r.kind, r.at, r.name, r.field>> : r \in routeds}
             ofRest == {<<"body", "", f, f>> : f \in rest}
  <1>1. routed.places = ofRoutes \cup ofRest
    BY DEF RouteEnvelope, Rejected
  <1>2. \A r, s \in routes : r # s => r.field # s.field /\ <<r.kind, r.at, r.name>> # <<s.kind, s.at, s.name>>
    BY DEF RouteFacts, WellFormedRoutes
  <1>3. \A r \in routes : /\ r.kind = "body" => r.at = ""
                          /\ r.kind # "whole" /\ r.field # r.name =>
                             \E s \in routes : /\ s # r /\ s.name = r.name /\ s.field = r.name
                                               /\ s.kind # "whole"
                                               /\ r.kind = "body" => s.kind = "parameter"
    BY DEF RouteFacts
  <1>4. routeds \subseteq routes /\ (\A r \in routeds : r.field \in supplied) /\ rest \subseteq supplied
    OBVIOUS
  <1>5. \A r \in routes : r.kind = "parameter" /\ r.field \in supplied => r \in routeds
    OBVIOUS
  <1>6. \A r \in routes : /\ r.kind = "body" /\ r.field \in supplied => r \in routeds \/ r.name \notin plan.props
                          /\ r.kind \notin {"parameter", "body"} => r.kind = "whole"
    BY DEF RouteFacts
  <1>7. supplied = {r.field : r \in routeds} \cup rest /\ \A f \in rest : \A r \in routeds : r.field # f
    OBVIOUS
  <1> HIDE DEF routeds, rest, routed
  \* A field outside the routes is not the name of a body property that is in use.
  <1>8. ASSUME NEW f \in rest, NEW r \in routeds, r.kind = "body" PROVE r.name # f
    <2>1. SUFFICES ASSUME r.name = f PROVE FALSE
      OBVIOUS
    <2>2. r \in routes /\ r.field # r.name
      BY <1>4, <1>7, <2>1
    <2>a. r.kind # "whole"
      BY <1>8
    <2>b. \E s \in routes : /\ s # r /\ s.name = r.name /\ s.field = r.name
                            /\ s.kind # "whole"
                            /\ r.kind = "body" => s.kind = "parameter"
      BY <1>3, <2>2, <2>a
    <2>c. PICK s \in routes : s.field = r.name /\ (r.kind = "body" => s.kind = "parameter")
      BY <2>b
    <2>3. s \in routes /\ s.field = r.name /\ s.kind = "parameter"
      BY <1>8, <2>c
    <2>4. s \in routeds
      BY <1>4, <1>5, <2>1, <2>3
    <2>. QED
      BY <1>7, <2>1, <2>3, <2>4
  <1>9. {p[4] : p \in routed.places} = supplied
    <2>1. ASSUME NEW p \in ofRoutes \cup ofRest PROVE p[4] \in supplied
      <3>1. CASE p \in ofRoutes
        <4>1. PICK r \in routeds : p = <<r.kind, r.at, r.name, r.field>>
          BY <3>1
        <4>2. p[4] = r.field
          BY <4>1
        <4>. QED
          BY <1>4, <4>2
      <3>2. CASE p \in ofRest
        <4>1. PICK f \in rest : p = <<"body", "", f, f>>
          BY <3>2
        <4>2. p[4] = f
          BY <4>1
        <4>. QED
          BY <1>4, <4>2
      <3>. QED
        BY <3>1, <3>2
    <2>2. ASSUME NEW f \in supplied PROVE \E p \in ofRoutes \cup ofRest : p[4] = f
      <3>1. CASE \E r \in routeds : r.field = f
        <4>1. PICK r \in routeds : r.field = f
          BY <3>1
        <4> DEFINE p == <<r.kind, r.at, r.name, r.field>>
        <4>2. p \in ofRoutes /\ p[4] = f
          BY <4>1
        <4> HIDE DEF p, ofRoutes, ofRest
        <4>. QED
          BY <4>2
      <3>2. CASE f \in rest
        <4> DEFINE p == <<"body", "", f, f>>
        <4>1. p \in ofRest /\ p[4] = f
          BY <3>2
        <4> HIDE DEF p, ofRoutes, ofRest
        <4>. QED
          BY <4>1
      <3>. QED
        BY <1>7, <3>1, <3>2
    <2> HIDE DEF ofRoutes, ofRest
    <2>. QED
      BY <1>1, <2>1, <2>2
  <1> DEFINE Apart(p, q) == p[4] # q[4] /\ <<p[1], p[2], p[3]>> # <<q[1], q[2], q[3]>>
  <1>10. ASSUME NEW p \in ofRoutes, NEW q \in ofRoutes, p # q PROVE Apart(p, q)
    <2>1. PICK r \in routeds : p = <<r.kind, r.at, r.name, r.field>>
      OBVIOUS
    <2>2. PICK s \in routeds : q = <<s.kind, s.at, s.name, s.field>>
      OBVIOUS
    <2>3. r # s
      BY <1>10, <2>1, <2>2
    <2>4. r.field # s.field /\ <<r.kind, r.at, r.name>> # <<s.kind, s.at, s.name>>
      BY <1>2, <1>4, <2>3
    <2>. QED
      BY <2>1, <2>2, <2>4
  <1>11. ASSUME NEW p \in ofRoutes, NEW q \in ofRest PROVE Apart(p, q) /\ Apart(q, p)
    <2>1. PICK r \in routeds : p = <<r.kind, r.at, r.name, r.field>>
      OBVIOUS
    <2>2. PICK f \in rest : q = <<"body", "", f, f>>
      OBVIOUS
    <2>3. r.field # f /\ (r.kind = "body" => r.name # f)
      BY <1>7, <1>8
    <2>. QED
      BY <2>1, <2>2, <2>3
  <1>12. ASSUME NEW p \in ofRest, NEW q \in ofRest, p # q PROVE Apart(p, q)
    <2>1. PICK f \in rest : p = <<"body", "", f, f>>
      OBVIOUS
    <2>2. PICK g \in rest : q = <<"body", "", g, g>>
      OBVIOUS
    <2>. QED
      BY <1>12, <2>1, <2>2
  <1>13. \A p, q \in routed.places : p # q => Apart(p, q)
    <2> HIDE DEF ofRoutes, ofRest, Apart
    <2>. QED
      BY <1>1, <1>10, <1>11, <1>12
  <1>14. ASSUME NEW r \in routes, r.kind # "whole", r.field \in supplied
         PROVE  \/ <<r.kind, r.at, r.name, r.field>> \in routed.places
                \/ r.kind = "body" /\ r.name \notin plan.props
    <2>1. r \in routeds => <<r.kind, r.at, r.name, r.field>> \in routed.places
      BY <1>1
    <2>. QED
      BY <1>5, <1>6, <1>14, <2>1
  <1>. QED
    BY <1>9, <1>13, <1>14 DEF OneToOne, routed

\* So has a flat input, whose fields are names.
LEMMA FlatIsOneToOne ==
  ASSUME NEW interface, NEW plan, NEW supplied, ~RouteInput(interface, plan, supplied).refused
  PROVE  OneToOne(RouteInput(interface, plan, supplied), supplied)
  <1> DEFINE params == interface.params
             named == {params[i] : i \in DOMAIN params}
             taken == {p \in named : p.name \in supplied}
             rest == supplied \ {p.name : p \in taken}
             flat == RouteInput(interface, plan, supplied)
             ofNames == {<<"parameter", p.in, p.name, p.name>> : p \in taken}
             ofRest == {IF plan.sort = "whole" THEN <<"whole", "", <<>>, f>> ELSE <<"body", "", f, f>> : f \in rest}
  <1>1. /\ flat.places = ofNames \cup ofRest
        /\ ~AmbiguousName(interface, supplied)
        /\ plan.sort = "whole" => rest \subseteq {SyntheticField}
    BY DEF RouteInput, Rejected
  <1>2. \A p, q \in taken : p # q => p.name # q.name
    BY <1>1 DEF AmbiguousName
  <1>3. supplied = {p.name : p \in taken} \cup rest /\ \A f \in rest : \A p \in taken : p.name # f
    OBVIOUS
  <1> HIDE DEF taken, rest, flat
  <1> DEFINE Apart(p, q) == p[4] # q[4] /\ <<p[1], p[2], p[3]>> # <<q[1], q[2], q[3]>>
             AsRest(f) == IF plan.sort = "whole" THEN <<"whole", "", <<>>, f>> ELSE <<"body", "", f, f>>
  <1>4. \A f : AsRest(f)[4] = f /\ AsRest(f)[1] # "parameter"
    OBVIOUS
  <1>5. \A x \in ofNames : \E p \in taken : x = <<"parameter", p.in, p.name, p.name>>
    OBVIOUS
  <1>6. \A x \in ofRest : \E f \in rest : x = AsRest(f)
    OBVIOUS
  <1>7. {x[4] : x \in flat.places} = supplied
    <2>1. ASSUME NEW x \in ofNames \cup ofRest PROVE x[4] \in supplied
      <3>1. CASE x \in ofNames
        <4>1. PICK p \in taken : x = <<"parameter", p.in, p.name, p.name>>
          BY <1>5, <3>1
        <4>2. x[4] = p.name
          BY <4>1
        <4>. QED
          BY <1>3, <4>2
      <3>2. CASE x \in ofRest
        BY <1>3, <1>4, <1>6, <3>2, ZenonT(30)
      <3>. QED
        BY <3>1, <3>2
    <2>2. ASSUME NEW f \in supplied PROVE \E x \in ofNames \cup ofRest : x[4] = f
      <3>1. CASE \E p \in taken : p.name = f
        <4>1. PICK p \in taken : p.name = f
          BY <3>1
        <4> DEFINE x == <<"parameter", p.in, p.name, p.name>>
        <4>2. x \in ofNames /\ x[4] = f
          BY <4>1
        <4> HIDE DEF x, ofNames, ofRest
        <4>. QED
          BY <4>2
      <3>2. CASE f \in rest
        <4>1. AsRest(f) \in ofRest
          BY <3>2
        <4>. QED
          BY <1>4, <4>1
      <3>. QED
        BY <1>3, <3>1, <3>2
    <2> HIDE DEF ofNames, ofRest
    <2>. QED
      BY <1>1, <2>1, <2>2
  <1>8. ASSUME NEW x \in ofNames, NEW y \in ofNames, x # y PROVE Apart(x, y)
    BY <1>2, <1>5, <1>8
  <1>9. ASSUME NEW x \in ofNames, NEW y \in ofRest PROVE Apart(x, y) /\ Apart(y, x)
    <2>1. PICK p \in taken : x = <<"parameter", p.in, p.name, p.name>>
      BY <1>5
    <2>2. PICK f \in rest : y = AsRest(f)
      BY <1>6
    <2>3. x[1] = "parameter" /\ x[4] = p.name /\ y[1] # "parameter" /\ y[4] = f
      BY <1>4, <2>1, <2>2
    <2>. QED
      BY <1>3, <2>3
  <1>10. ASSUME NEW x \in ofRest, NEW y \in ofRest, x # y PROVE Apart(x, y)
    <2>1. PICK f \in rest : x = AsRest(f)
      BY <1>6
    <2>2. PICK g \in rest : y = AsRest(g)
      BY <1>6
    <2>3. f # g
      BY <1>10, <2>1, <2>2
    <2>4. plan.sort # "whole"
      BY <1>1, <2>3
    <2>5. x = <<"body", "", f, f>> /\ y = <<"body", "", g, g>>
      BY <2>1, <2>2, <2>4
    <2>. QED
      BY <2>3, <2>5
  <1>11. \A x, y \in flat.places : x # y => Apart(x, y)
    <2> HIDE DEF ofNames, ofRest, Apart
    <2>. QED
      BY <1>1, <1>8, <1>9, <1>10
  <1>. QED
    BY <1>7, <1>11 DEF OneToOne, flat

LEMMA EveryCaseHasPlaces ==
  ASSUME NEW c \in RouteCases, NEW plan \in ToSet(c.interface.plans) \cup {NoPlan}
  PROVE  EveryFieldHasItsPlace(c.interface, plan, c.supplied)
  <1> DEFINE routes == Routes(c.interface)
  <1>1. RouteFacts(routes, c.interface)
    BY RoutesAreSound
  <1>2. plan.sort \in {"json", "form", "whole", "none"} /\ (plan.sort \notin {"json", "form"} => plan.props = {})
    <2>1. CASE plan = NoPlan
      BY <2>1 DEF NoPlan
    <2>2. CASE plan \in ToSet(c.interface.plans)
      BY <2>2, RouteAssumption DEF ToSet
    <2>. QED
      BY <2>1, <2>2
  <1> HIDE DEF routes
  <1>3. ASSUME NEW r \in routes, r.kind # "whole", \A s \in routes : s.name = r.name => s = r
        PROVE  r.field = r.name
    <2>a. \A q \in routes : q.kind # "whole" /\ q.field # q.name =>
                             \E s \in routes : /\ s # q /\ s.name = q.name /\ s.field = q.name
                                               /\ s.kind # "whole"
                                               /\ q.kind = "body" => s.kind = "parameter"
      BY <1>1 DEF RouteFacts
    <2>1. r.field # r.name => \E s \in routes : s # r /\ s.name = r.name
      BY <1>3, <2>a
    <2>. QED
      BY <1>3, <2>1
  <1>. QED
    BY <1>1, <1>2, <1>3, EnvelopeIsOneToOne, FlatIsOneToOne DEF EveryFieldHasItsPlace, RouteFacts, routes

\* Every supplied field goes to exactly one place, its own, whatever names the
\* declarations share (input-routes-v2.ts, params.ts routeInput).
THEOREM RoutingTheorem == RoutingSpec => []FieldsHavePlaces
  <1>1. RoutingInit => routing \subseteq RouteCases
    BY DEF RoutingInit
  <1>2. routing \subseteq RouteCases /\ [UNCHANGED routing]_routing => (routing \subseteq RouteCases)'
    OBVIOUS
  <1>3. routing \subseteq RouteCases => FieldsHavePlaces
    BY EveryCaseHasPlaces DEF FieldsHavePlaces
  <1>. QED
    BY <1>1, <1>2, <1>3, PTL DEF RoutingSpec

-----------------------------------------------------------------------------
(***************************************************************************)
(* Wire governance.  What the codecs put on, undoing them in the opposite  *)
(* order takes off, and leaves what was below.                             *)
(***************************************************************************)

\* The codings that count are a sequence of codings; there is none in none.
LEMMA EffectiveIsCodings ==
  ASSUME NEW coding \in Codings
  PROVE  Effective(coding) \in Codings /\ (coding = <<>> => Effective(coding) = <<>>)
  <1> DEFINE Next(k, n) == IF coding[n] = "identity" THEN k ELSE Append(k, coding[n])
             From(f, m) == [n \in 0 .. m |-> IF n = 0 THEN <<>> ELSE Next(f[n - 1], n)]
             kept == CHOOSE f : f = From(f, Len(coding))
             defined == {m \in Nat : \E f : f = From(f, m)}
             typed == {n \in Nat : n \in 0 .. Len(coding) => kept[n] \in Codings}
  <1>0. Len(coding) \in Nat /\ \A n \in 1 .. Len(coding) : coding[n] \in STRING
    BY DEF Codings
  <1>1. Effective(coding) = kept[Len(coding)]
    <2>1. From(kept, Len(coding)) = [n \in 0 .. Len(coding) |->
              IF n = 0 THEN <<>> ELSE IF coding[n] = "identity" THEN kept[n - 1] ELSE Append(kept[n - 1], coding[n])]
      OBVIOUS
    <2>. QED
      BY DEF Effective
  <1>2. ASSUME NEW k \in Codings, NEW n \in 1 .. Len(coding) PROVE Next(k, n) \in Codings
    <2>1. coding[n] \in STRING /\ k \in Seq(STRING)
      BY <1>0 DEF Codings
    <2>2. Append(k, coding[n]) \in Seq(STRING)
      BY <2>1
    <2>. QED
      BY <2>1, <2>2 DEF Codings
  <1> HIDE DEF Next
  <1>3. Nat \subseteq defined
    <2>1. 0 \in defined
      <3>1. [n \in 0 .. 0 |-> <<>>] = From([n \in 0 .. 0 |-> <<>>], 0)
        OBVIOUS
      <3>. QED
        BY <3>1
    <2>2. ASSUME NEW m \in Nat, m \in defined PROVE m + 1 \in defined
      <3>1. PICK f : f = From(f, m)
        BY <2>2
      <3> DEFINE g == [n \in 0 .. (m + 1) |-> IF n = m + 1 THEN Next(f[m], m + 1) ELSE f[n]]
      <3>2. \A n \in 0 .. m : f[n] = IF n = 0 THEN <<>> ELSE Next(f[n - 1], n)
        BY <3>1
      <3>3. \A n \in 0 .. (m + 1) : g[n] = IF n = 0 THEN <<>> ELSE Next(g[n - 1], n)
        BY <3>2
      <3>4. g = From(g, m + 1)
        BY <3>3
      <3> HIDE DEF g
      <3>. QED
        BY <3>4
    <2>. QED
      BY <2>1, <2>2, EveryNatural
  <1>4. kept = From(kept, Len(coding))
    <2>1. \E f : f = From(f, Len(coding))
      BY <1>0, <1>3
    <2>. QED
      BY <2>1
  <1>5. \A n \in 0 .. Len(coding) : kept[n] = IF n = 0 THEN <<>> ELSE Next(kept[n - 1], n)
    BY <1>4
  <1> HIDE DEF kept
  <1>6. Nat \subseteq typed
    <2>1. 0 \in typed
      <3>1. kept[0] = <<>>
        BY <1>0, <1>5
      <3>2. <<>> \in Codings
        BY DEF Codings
      <3>. QED
        BY <3>1, <3>2
    <2>2. ASSUME NEW n \in Nat, n \in typed PROVE n + 1 \in typed
      <3>1. SUFFICES ASSUME n + 1 \in 0 .. Len(coding) PROVE kept[n + 1] \in Codings
        OBVIOUS
      <3>2. kept[n] \in Codings /\ kept[n + 1] = Next(kept[n], n + 1) /\ n + 1 \in 1 .. Len(coding)
        BY <1>0, <1>5, <2>2, <3>1
      <3>. QED
        BY <1>2, <3>2
    <2> HIDE DEF typed
    <2>. QED
      BY <2>1, <2>2, EveryNatural
  <1>7. Effective(coding) \in Codings
    BY <1>0, <1>1, <1>6
  <1>8. coding = <<>> => Effective(coding) = <<>>
    BY <1>0, <1>1, <1>5
  <1>. QED
    BY <1>7, <1>8

\* Encoding adds to the codings of a body and changes nothing it says.
LEMMA EncodedBody ==
  ASSUME NEW body \in Bodies, NEW tokens \in Codings
  PROVE  LET coded == Encoded(body, tokens) IN
         /\ coded \in Bodies /\ coded.value = body.value
         /\ coded.layers = body.layers \o tokens
         /\ coded = body => tokens = <<>>
         /\ tokens = <<>> => coded = body
  <1> DEFINE coded == [body EXCEPT !.layers = @ \o tokens]
  <1>1. Encoded(body, tokens) = coded
    BY DEF Encoded, Bodies
  <1>2. body = [value |-> body.value, layers |-> body.layers] /\ body.value \in STRING /\ body.layers \in Seq(STRING)
    BY DEF Bodies, Codings
  <1>3. coded = [value |-> body.value, layers |-> body.layers \o tokens]
    <2>1. body \in [value : STRING, layers : Seq(STRING)]
      BY DEF Bodies, Codings
    <2>2. \A x : [body EXCEPT !.layers = x] = [value |-> body.value, layers |-> x]
      BY <2>1
    <2>. QED
      BY <2>2
  <1>4. body.layers \o tokens \in Seq(STRING) /\ Len(body.layers \o tokens) = Len(body.layers) + Len(tokens)
    BY <1>2 DEF Codings
  <1>5. tokens \in Seq(STRING)
    BY DEF Codings
  <1>6. body.layers \o tokens = <<>> => body.layers = <<>>
    BY <1>2, <1>4, <1>5
  <1>7. coded # Broken
    <2>1. SUFFICES ASSUME coded = Broken PROVE FALSE
      OBVIOUS
    <2>2. body.value = "broken" /\ body.layers = <<>>
      BY <1>3, <1>6, <2>1 DEF Broken
    <2>. QED
      BY <1>2, <2>2 DEF Broken, Bodies
  <1>8. coded \in Bodies
    BY <1>2, <1>3, <1>4, <1>7 DEF Bodies, Codings
  <1>9. coded = body => tokens = <<>>
    BY <1>2, <1>3, <1>4, <1>5
  <1>10. tokens = <<>> => coded = body
    BY <1>2, <1>3
  <1> HIDE DEF coded
  <1>. QED
    BY <1>1, <1>3, <1>8, <1>9, <1>10 DEF coded

\* Opened in the opposite order, an encoded body is the body.
LEMMA OpenedIsTheBody ==
  ASSUME NEW body \in Bodies, NEW tokens \in Codings
  PROVE  Opened(Encoded(body, tokens), Reverse(tokens)) = body
  <1> DEFINE coded == Encoded(body, tokens)
             back == Reverse(tokens)
  <1>1. coded \in Bodies /\ coded.value = body.value /\ coded.layers = body.layers \o tokens
    BY EncodedBody
  <1>2. body = [value |-> body.value, layers |-> body.layers] /\ body.layers \in Seq(STRING) /\ tokens \in Seq(STRING)
    BY DEF Bodies, Codings
  <1>3. coded = [value |-> body.value, layers |-> body.layers \o tokens]
    BY <1>1 DEF Bodies
  <1> DEFINE all == Len(body.layers \o tokens)
  <1>4. all = Len(body.layers) + Len(tokens) /\ Len(body.layers) \in Nat /\ Len(tokens) \in Nat
    BY <1>2
  <1>5. back = [i \in 1 .. Len(tokens) |-> tokens[Len(tokens) - i + 1]]
    BY <1>4 DEF Reverse
  <1>6. Len(back) = Len(tokens) /\ DOMAIN back = 1 .. Len(tokens)
    BY <1>4, <1>5
  <1>7. \A i \in DOMAIN back : back[i] = (body.layers \o tokens)[all + 1 - i]
    <2>1. SUFFICES ASSUME NEW i \in 1 .. Len(tokens) PROVE back[i] = (body.layers \o tokens)[all + 1 - i]
      BY <1>6
    <2>2. all + 1 - i \in 1 .. Len(body.layers) + Len(tokens) /\ all + 1 - i > Len(body.layers)
      BY <1>4
    <2>3. (body.layers \o tokens)[all + 1 - i] = tokens[all + 1 - i - Len(body.layers)]
      BY <1>2, <2>2
    <2>4. all + 1 - i - Len(body.layers) = Len(tokens) - i + 1
      <3>1. \A a, b, j \in Nat : (a + b) + 1 - j - a = b - j + 1
        OBVIOUS
      <3> DEFINE below == Len(body.layers)
                 own == Len(tokens)
      <3>2. below \in Nat /\ own \in Nat /\ all = below + own /\ i \in Nat
        BY <1>4
      <3> HIDE DEF all, below, own
      <3>3. all + 1 - i - below = own - i + 1
        BY <3>1, <3>2
      <3>. QED
        BY <3>3 DEF below, own
    <2>. QED
      BY <1>5, <2>3, <2>4
  <1>8. SubSeq(body.layers \o tokens, 1, all - Len(back)) = body.layers
    BY <1>2, <1>4, <1>6
  <1>9. Len(back) <= all
    BY <1>4, <1>6
  <1> HIDE DEF all, back
  <1>10. Opened(coded, back) = [coded EXCEPT !.layers = SubSeq(coded.layers, 1, all - Len(back))]
    BY <1>1, <1>7, <1>9 DEF Opened, all
  <1>11. [coded EXCEPT !.layers = body.layers] = body
    BY <1>2, <1>3
  <1>. QED
    BY <1>1, <1>8, <1>10, <1>11 DEF back

\* A request that is not refused says what the caller sent.
LEMMA RequestKeepsTheWords ==
  ASSUME NEW c \in WireCases, ~GovernRequest(c.request, c.model.codecs).refused
  PROVE  Opened(GovernRequest(c.request, c.model.codecs).body, Reverse(Effective(c.request.coding))) = c.request.body
  <1> DEFINE q == c.request
             tokens == Effective(q.coding)
  <1>1. q.coding \in Codings /\ q.body \in Bodies /\ tokens \in Codings /\ (q.coding = <<>> => tokens = <<>>)
    BY WireAssumption, EffectiveIsCodings
  <1>2. GovernRequest(q, c.model.codecs).body = IF q.coding = <<>> THEN q.body ELSE Encoded(q.body, tokens)
    BY DEF GovernRequest
  <1> HIDE DEF q, tokens
  <1>3. q.coding = <<>> => Encoded(q.body, tokens) = q.body
    BY <1>1, EncodedBody
  <1>4. Opened(Encoded(q.body, tokens), Reverse(tokens)) = q.body
    BY <1>1, OpenedIsTheBody
  <1>. QED
    BY <1>2, <1>3, <1>4 DEF q, tokens

\* What is left of a response's body: nothing where it may have none, the codings
\* over it where nobody governs them, and otherwise the sender's body or an error.
DecodedFacts(c, r, arrived) ==
  /\ r \in [status : STRING, opaque : BOOLEAN, missing : BOOLEAN, coding : Codings, admitted : BOOLEAN,
           media : STRING, carried : BOOLEAN, body : Bodies, coded : Nat, size : Nat]
  /\ r.body.value = c.response.body.value
  /\ r.coding = c.response.coding /\ r.size = c.response.size /\ r.coded = c.response.coded
  /\ r.status = c.response.status /\ (r.coding = <<>> => r.body = c.response.body)
  /\ c.model.head => Decoded(arrived, c.model) = Empty
  /\ ~c.model.head =>
        IF r.status = "204" \/ (~c.model.governed /\ Successful(r)) THEN Decoded(arrived, c.model) = r.body
        ELSE IF ~(Range(Effective(r.coding)) \subseteq c.model.codecs) THEN Decoded(arrived, c.model) = Broken
        ELSE Decoded(arrived, c.model) = c.response.body
  /\ ~c.model.head /\ Expands(arrived, c.model) => r.size > c.model.limit
  /\ ~c.model.head /\ Decoded(arrived, c.model) = c.response.body /\ ~Expands(arrived, c.model)
        => r.size <= c.model.limit \/ r.size = r.coded
  /\ c.model.head => ~Expands(arrived, c.model)

LEMMA DecodedBody ==
  ASSUME NEW c \in WireCases,
         NEW r, r = [c.response EXCEPT !.body = Encoded(c.response.body, Effective(c.response.coding))],
         NEW arrived, arrived = [r EXCEPT !.body = IF c.model.head THEN Empty ELSE @]
  PROVE  DecodedFacts(c, r, arrived)
  <1> DEFINE sender == c.response
             m == c.model
             tokens == Effective(sender.coding)
             coded == Encoded(sender.body, tokens)
             Responses(bodies) ==
               [status : STRING, opaque : BOOLEAN, missing : BOOLEAN, coding : Codings, admitted : BOOLEAN,
                media : STRING, carried : BOOLEAN, body : bodies, coded : Nat, size : Nat]
  <1>1. sender \in Responses(Bodies) /\ m.limit \in Nat /\ (tokens = <<>> => sender.size = sender.coded)
    BY WireAssumption
  <1>2. sender.coding \in Codings /\ sender.body \in Bodies
    BY <1>1
  <1>3. tokens \in Codings /\ (sender.coding = <<>> => tokens = <<>>)
    BY <1>2, EffectiveIsCodings
  <1>4. r = [sender EXCEPT !.body = coded]
    OBVIOUS
  <1>5. arrived = [r EXCEPT !.body = IF m.head THEN Empty ELSE r.body]
    OBVIOUS
  <1> HIDE DEF sender, m, tokens
  <1>6. /\ coded \in Bodies /\ coded.value = sender.body.value
        /\ coded = sender.body => tokens = <<>>
        /\ tokens = <<>> => coded = sender.body
        /\ Opened(coded, Reverse(tokens)) = sender.body
    BY <1>2, <1>3, EncodedBody, OpenedIsTheBody
  <1> HIDE DEF coded
  <1>7. /\ r \in Responses(Bodies) /\ r.body = coded /\ r.coding = sender.coding /\ r.size = sender.size
        /\ r.coded = sender.coded /\ r.status = sender.status
    BY <1>1, <1>4, <1>6
  <1>8. /\ arrived.coding = r.coding /\ arrived.size = r.size /\ arrived.status = r.status
        /\ arrived.body = IF m.head THEN Empty ELSE r.body
    BY <1>5, <1>7
  <1> HIDE DEF Responses
  <1>9. m.head => Decoded(arrived, m) = Empty
    BY <1>8 DEF Decoded, BodyForbidden
  <1>10. ASSUME ~m.head
         PROVE  IF r.status = "204" \/ (~m.governed /\ Successful(r)) THEN Decoded(arrived, m) = r.body
                ELSE IF ~(Range(Effective(r.coding)) \subseteq m.codecs) THEN Decoded(arrived, m) = Broken
                ELSE Decoded(arrived, m) = sender.body
    <2>1. Opened(r.body, Undone(r.coding)) = sender.body
      BY <1>6, <1>7 DEF Undone, tokens
    <2>. QED
      BY <1>8, <1>10, <2>1 DEF Decoded, BodyForbidden, Successful
  <1>11. ~m.head /\ Expands(arrived, m) => r.size > m.limit
    BY <1>8 DEF Expands
  <1>12. ~m.head /\ Decoded(arrived, m) = sender.body /\ ~Expands(arrived, m) => r.size <= m.limit \/ r.size = r.coded
    <2>1. r.size \in Nat /\ m.limit \in Nat
      BY <1>1, <1>7 DEF Responses
    <2>2. SUFFICES ASSUME ~m.head, Decoded(arrived, m) = sender.body, Decoded(arrived, m) = arrived.body
                   PROVE  r.size = r.coded
      BY <1>8, <2>1 DEF Expands
    <2>3. coded = sender.body
      BY <1>7, <1>8, <2>2
    <2>. QED
      BY <1>1, <1>6, <1>7, <2>3
  <1>13. m.head => ~Expands(arrived, m)
    BY <1>8, <1>9 DEF Expands
  <1>. QED
    BY <1>3, <1>6, <1>7, <1>9, <1>10, <1>11, <1>12, <1>13 DEF DecodedFacts, Responses, sender, m

LEMMA EveryExchangeKeepsTheWords ==
  ASSUME NEW c \in WireCases
  PROVE  WordsSurviveTheWire(c.request, c.response, c.model)
  <1> DEFINE sender == c.response
             m == c.model
             r == [sender EXCEPT !.body = Encoded(sender.body, Effective(sender.coding))]
             arrived == [r EXCEPT !.body = IF m.head THEN Empty ELSE @]
             left == Decoded(arrived, m)
             reply == GovernResponse(r, m)
             early == m.governed /\ r.coding = <<>> /\ ~BodyForbidden(r, m)
             decoded == ~m.head /\ ~(r.status = "204" \/ (~m.governed /\ Successful(r)))
  <1>1. /\ r \in [status : STRING, opaque : BOOLEAN, missing : BOOLEAN, coding : Codings, admitted : BOOLEAN,
                  media : STRING, carried : BOOLEAN, body : Bodies, coded : Nat, size : Nat]
        /\ r.body.value = sender.body.value
        /\ r.coding = sender.coding /\ r.size = sender.size /\ r.coded = sender.coded
        /\ r.status = sender.status /\ (r.coding = <<>> => r.body = sender.body)
        /\ m.head => left = Empty
        /\ ~m.head =>
              IF r.status = "204" \/ (~m.governed /\ Successful(r)) THEN left = r.body
              ELSE IF ~(Range(Effective(r.coding)) \subseteq m.codecs) THEN left = Broken ELSE left = sender.body
        /\ ~m.head /\ Expands(arrived, m) => r.size > m.limit
        /\ ~m.head /\ left = sender.body /\ ~Expands(arrived, m) => r.size <= m.limit \/ r.size = r.coded
        /\ m.head => ~Expands(arrived, m)
    <2>1. r = [c.response EXCEPT !.body = Encoded(c.response.body, Effective(c.response.coding))]
      OBVIOUS
    <2>2. arrived = [r EXCEPT !.body = IF c.model.head THEN Empty ELSE @]
      OBVIOUS
    <2>3. DecodedFacts(c, r, arrived)
      <3> HIDE DEF r, arrived
      <3>. QED
        BY <2>1, <2>2, DecodedBody
    <2> HIDE DEF r, arrived
    <2>. QED
      BY <2>3 DEF DecodedFacts
  <1>2. /\ sender.body \in Bodies /\ m.limit \in Nat
        /\ sender.status = "204" => sender.body = Empty
    BY WireAssumption
  <1>3. r.size \in Nat /\ r.coded \in Nat /\ r.body # Broken /\ sender.body # Broken /\ Empty # Broken
    <2>1. Empty # Broken
      <3>1. NoWords # "broken"
        BY DEF NoWords
      <3>. QED
        BY <3>1 DEF Empty, Broken
    <2>2. r.size \in Nat /\ r.coded \in Nat /\ r.body \in Bodies
      <3> HIDE DEF r, arrived, left
      <3>. QED
        BY <1>1
    <2> HIDE DEF r
    <2>. QED
      BY <1>2, <2>1, <2>2 DEF Bodies
  <1>4. Empty.value = NoWords
    BY DEF Empty
  <1>5. ~GovernRequest(c.request, m.codecs).refused =>
           Opened(GovernRequest(c.request, m.codecs).body, Reverse(Effective(c.request.coding))) = c.request.body
    BY RequestKeepsTheWords
  <1> DEFINE Judged(x) ==
               IF r.opaque THEN Unreadable
               ELSE IF m.governed /\ r.missing THEN Protocol
               ELSE IF early /\ Unframed(r) THEN Protocol
               ELSE IF early /\ IsStream(r, m) THEN Governed("stream", r.body)
               ELSE IF r.coded > m.limit THEN Unreadable
               ELSE IF r.coding # <<>> /\ (~Legible(r.coding) \/ (m.governed /\ ~r.admitted)) THEN Protocol
               ELSE IF x = Broken THEN Protocol
               ELSE IF Expands(arrived, m) THEN Unreadable
               ELSE IF x.value = NoWords THEN Governed("empty", Empty)
               ELSE IF Successful(r) /\ ~(m.governed /\ HasLane(r)) THEN Protocol
               ELSE Governed("body", x)
  <1>6. reply = Judged(left)
    BY DEF GovernResponse
  <1> HIDE DEF r, arrived, left, reply, sender, m
  <1> USE DEF Unreadable, Protocol, Governed
  <1>7. ASSUME reply.is = "body"
        PROVE  /\ left # Broken /\ left.value # NoWords /\ reply.body = left /\ ~Expands(arrived, m)
               /\ ~(r.coded > m.limit) /\ (Successful(r) => m.governed /\ HasLane(r))
    BY <1>6, <1>7
  <1>8. reply.is = "stream" => reply.body = r.body /\ r.coding = <<>>
    BY <1>6
  <1>9. reply.is = "empty" => left.value = NoWords /\ left # Broken
    BY <1>6
  <1>10. reply.is = "body" => reply.body = sender.body /\ sender.size <= m.limit
    <2>1. SUFFICES ASSUME reply.is = "body" PROVE reply.body = sender.body /\ sender.size <= m.limit
      OBVIOUS
    <2>2. ~m.head
      BY <1>1, <1>4, <1>7, <2>1
    <2>3. r.status # "204"
      BY <1>1, <1>2, <1>4, <1>7, <2>1, <2>2
    <2>4. left = sender.body
      BY <1>1, <1>7, <2>1, <2>2, <2>3
    <2>5. r.size <= m.limit \/ r.size = r.coded
      BY <1>1, <1>7, <2>1, <2>2, <2>4
    <2>6. r.size <= m.limit
      BY <1>2, <1>3, <1>7, <2>1, <2>5
    <2>. QED
      BY <1>1, <1>7, <2>1, <2>4, <2>6
  <1>11. reply.is = "empty" => sender.body.value = NoWords \/ m.head
    BY <1>1, <1>9
  <1>12. ASSUME /\ ~r.opaque /\ ~r.missing /\ ~Unframed(r) /\ Legible(r.coding) /\ r.admitted
                /\ Range(Effective(r.coding)) \subseteq m.codecs /\ r.size <= m.limit /\ r.coded <= m.limit
                /\ sender.body = Empty \/ ~Successful(r)
         PROVE  reply.is \in {"body", "empty", "stream"}
    <2>1. ~(r.coded > m.limit) /\ ~(r.size > m.limit)
      BY <1>2, <1>3, <1>12
    <2>2. ~Expands(arrived, m)
      BY <1>1, <2>1
    <2>3. left # Broken
      BY <1>1, <1>3, <1>12
    <2>4. sender.body = Empty => left.value = NoWords
      BY <1>1, <1>4, <1>12
    <2>. QED
      BY <1>6, <1>12, <2>1, <2>2, <2>3, <2>4
  <1>. QED
    BY <1>1, <1>5, <1>7, <1>8, <1>10, <1>11, <1>12 DEF WordsSurviveTheWire, r, reply, sender, m

\* A server reads what the caller sent, and the caller gets the sender's own words
\* or an error, for every coding and every declaration (response-mechanics.ts).
THEOREM WireTheorem == WireSpec => []WireKeepsTheWords
  <1>1. WireInit => governing \subseteq WireCases
    BY DEF WireInit
  <1>2. governing \subseteq WireCases /\ [UNCHANGED governing]_governing => (governing \subseteq WireCases)'
    OBVIOUS
  <1>3. governing \subseteq WireCases => WireKeepsTheWords
    BY EveryExchangeKeepsTheWords DEF WireKeepsTheWords
  <1>. QED
    BY <1>1, <1>2, <1>3, PTL DEF WireSpec

-----------------------------------------------------------------------------
(***************************************************************************)
(* Form bodies.  A part or a unit carries the value it is built from, in a *)
(* lane that can say it; and every kind of value that a declaration        *)
(* describes has such a lane, whatever the media its planning settled on.  *)
(***************************************************************************)
Lanes == {"verbatim", "octets", "json", "text"}

\* What a list of one part says of the value, if it is not empty.
Carries(body, v) ==
  body # <<>> => \E as \in Lanes :
                    /\ body = <<As(as, v)>>
                    /\ as = "octets" => v.is = "oct"
                    /\ as = "verbatim" => v.is \in Strings
                    /\ as = "text" => v.is \in Strings \cup {"num", "null"}

LEMMA OnePart ==
  ASSUME NEW as, NEW v
  PROVE  <<As(as, v)>> # <<>>
  OBVIOUS

LEMMA ThatPart ==
  ASSUME NEW as, NEW v, NEW body, body = <<As(as, v)>>
  PROVE  body[1].as = as /\ body[1].of = v /\ DOMAIN body = {1}
  <1>1. As(as, v).as = as /\ As(as, v).of = v
    BY DEF As
  <1>2. body[1] = As(as, v) /\ DOMAIN body = {1}
    OBVIOUS
  <1>. QED
    BY <1>1, <1>2

LEMMA PartBodyCarries ==
  ASSUME NEW p, NEW media, NEW v
  PROVE  Carries(PartBody(p, media, v), v)
  <1>1. Scalar(p.kind, v) => v.is \in Strings \cup {"num", "null"}
    BY DEF Scalar
  <1> DEFINE body == PartBody(p, media, v)
  <1>2. \/ body = <<>>
        \/ body = <<As("verbatim", v)>> /\ v.is \in Strings
        \/ body = <<As("octets", v)>> /\ v.is = "oct"
        \/ body = <<As("json", v)>>
        \/ body = <<As("text", v)>> /\ Scalar(p.kind, v)
    BY DEF PartBody
  <1> HIDE DEF body
  <1>. QED
    BY <1>1, <1>2 DEF Carries, Lanes, body

LEMMA UnitBodyCarries ==
  ASSUME NEW p, NEW version, NEW media, NEW v
  PROVE  Carries(UnitBody(p, version, media, v), v)
  <1>1. Scalar(p.kind, v) => v.is \in Strings \cup {"num", "null"}
    BY DEF Scalar
  <1> DEFINE body == UnitBody(p, version, media, v)
  <1>2. \/ body = <<>>
        \/ body = <<As("verbatim", v)>> /\ v.is \in Strings
        \/ body = <<As("json", v)>>
        \/ body = <<As("text", v)>> /\ (Scalar(p.kind, v) \/ v.is \in Strings \cup {"num", "null"})
    BY DEF UnitBody
  <1> HIDE DEF body
  <1>. QED
    BY <1>1, <1>2 DEF Carries, Lanes, body

Kinds == {"text", "number", "object", "binary", "encoded", "any", "union", "array", "never"}

\* A described value has a part, in a media type that can be written.
LEMMA DescribedHasPart ==
  ASSUME NEW p, p.kind \in Kinds, NEW version, NEW media, NEW v, Describes(p, version, v),
         Sound("multipart", version, p, media), p.kind = "binary" => v.is = "oct"
  PROVE  PartBody(p, media, v) # <<>>
  <1>1. \A as : <<As(as, v)>> # <<>>
    BY OnePart
  <1> DEFINE content == IF media # NoType THEN media ELSE IF v.is \in {"obj", "array"} THEN "json" ELSE "text"
  <1>2. CASE p.kind \in {"binary", "any"}
    BY <1>1, <1>2 DEF PartBody, Describes
  <1>3. CASE p.kind = "encoded"
    BY <1>1, <1>3 DEF PartBody, Describes, Strings
  <1>4. CASE p.kind \notin {"binary", "any", "encoded"}
    <2>1. content = "json" \/ Scalar(p.kind, v)
      BY <1>4 DEF Describes, Sound, Scalar, Kinds, NoType, Strings
    <2>. QED
      BY <1>1, <1>4, <2>1 DEF PartBody
  <1>. QED
    BY <1>2, <1>3, <1>4

\* And a unit, unless it is Base64, which has its own.
LEMMA DescribedHasUnit ==
  ASSUME NEW p, p.kind \in Kinds, p.array \in BOOLEAN, NEW version, NEW media, NEW v,
         ~p.array => Describes(p, version, v),
         Sound("urlencoded", version, p, media),
         ~(p.kind = "any" /\ ~p.array /\ version = "3.2")
  PROVE  /\ UnitBody(p, version, IF media # NoType THEN media ELSE DefaultMedia(p.kind, version), v) # <<>>
         /\ ~(media = NoType /\ (ArrayNeedsChoice(p, version) \/ p.kind = "any"))
  <1> DEFINE selected == IF media # NoType THEN media ELSE DefaultMedia(p.kind, version)
  <1>1. \A as : <<As(as, v)>> # <<>>
    BY OnePart
  <1>2. CASE p.array
    <2>1. media = "json" \/ (media = NoType /\ p.kind = "object")
      BY <1>2 DEF Sound
    <2>2. selected = "json"
      BY <2>1 DEF DefaultMedia, NoType
    <2>3. ~(media = NoType /\ (ArrayNeedsChoice(p, version) \/ p.kind = "any"))
      BY <2>1 DEF ArrayNeedsChoice, DefaultMedia, NoType
    <2> HIDE DEF selected
    <2>. QED
      BY <1>1, <1>2, <2>2, <2>3 DEF UnitBody, selected
  <1>3. CASE ~p.array /\ p.kind = "any"
    <2>1. media = "json"
      BY <1>3 DEF Sound
    <2>. QED
      BY <1>1, <1>3, <2>1 DEF UnitBody, NoType
  <1>4. CASE ~p.array /\ p.kind # "any"
    <2>1. Writable(p.kind, selected, version) /\ ~(p.kind = "binary" /\ Old(version))
      BY <1>4 DEF Sound, ContentAdmitted
    <2>2. ~ArrayNeedsChoice(p, version)
      BY <1>4 DEF ArrayNeedsChoice
    <2> HIDE DEF selected
    <2>3. p.kind = "encoded" => v.is \in Strings
      BY <1>4 DEF Describes, Strings
    <2>4. p.kind # "encoded" => selected = "json" \/ (selected = "text" /\ Scalar(p.kind, v))
      BY <1>4, <2>1 DEF Writable, Describes, Scalar, Strings
    <2>5. Scalar(p.kind, v) => v.is \in Strings \cup {"num", "null"}
      BY DEF Scalar
    <2>6. UnitBody(p, version, selected, v) # <<>>
      BY <1>1, <1>4, <2>3, <2>4, <2>5 DEF UnitBody
    <2>. QED
      BY <1>4, <2>2, <2>6 DEF selected
  <1>. QED
    BY <1>2, <1>3, <1>4

\* What planning admits without a choice, before 3.2, can be written.
LEMMA AdmittedIsSound ==
  ASSUME NEW p, p.kind \in Kinds, p.array \in BOOLEAN, NEW lane \in {"multipart", "urlencoded"},
         NEW version \in {"3.0", "3.1"}, p.media \in Typed \cup {NoType, "many"},
         Admitted(lane, version, p), ~ChoiceRequired(lane, version, p), p.kind # "never"
  PROVE  Sound(lane, version, p, p.media)
  <1>1. p.media # "many" /\ p.media \in {"json", "text", "octets", NoType}
    BY DEF ChoiceRequired, Typed
  <1>2. CASE lane = "multipart"
    <2>1. AdmittedPart(version, p)
      BY <1>1, <1>2 DEF Admitted
    <2>2. p.kind \in {"binary", "any"} \/ ContentAdmitted(p.kind, p.media, version)
      BY <2>1 DEF AdmittedPart, RawPart
    <2>3. CASE ContentAdmitted(p.kind, p.media, version)
      <3>1. CASE p.media = NoType
        BY <1>2, <2>3, <3>1 DEF ContentAdmitted, Writable, DefaultMedia, Sound, Kinds, NoType
      <3>2. CASE p.media # NoType
        BY <1>2, <2>3, <3>2 DEF ContentAdmitted, Writable, Sound
      <3>. QED
        BY <3>1, <3>2
    <2>. QED
      BY <1>2, <2>2, <2>3 DEF Sound
  <1>3. CASE lane = "urlencoded"
    <2>1. AdmittedUnit(version, p) /\ (p.media = NoType => ~ArrayNeedsChoice(p, version))
      BY <1>1, <1>3 DEF Admitted, ChoiceRequired
    <2>2. CASE p.array
      BY <1>3, <2>1, <2>2 DEF AdmittedUnit, Sound
    <2>3. CASE ~p.array
      <3>1. ContentAdmitted(p.kind, p.media, version) /\ ~(p.kind = "binary" /\ Old(version))
        BY <2>1, <2>3 DEF AdmittedUnit
      <3>2. p.kind = "any" => p.media = "json"
        BY <3>1 DEF ContentAdmitted, Writable, DefaultMedia, NoType
      <3>. QED
        BY <1>3, <2>3, <3>1, <3>2 DEF Sound
    <2>. QED
      BY <2>2, <2>3
  <1>. QED
    BY <1>2, <1>3

\* What is built is refused, or says the values one by one, each in a lane that can;
\* and it is not refused where the declaration describes the value.
SaysTheValues(built, p, values, value) ==
  /\ ~built.refused /\ built.parts = <<>> =>
        values = <<>> \/ (value.is = "null" /\ ~p.required /\ (p.nullable \/ p.kind = "any"))
  /\ ~built.refused /\ built.parts # <<>> =>
        /\ [i \in DOMAIN built.parts |-> built.parts[i].of] = values
        /\ \A i \in DOMAIN built.parts :
              /\ built.parts[i].as = "octets" => built.parts[i].of.is = "oct"
              /\ built.parts[i].as = "verbatim" => built.parts[i].of.is \in Strings
              /\ built.parts[i].as = "text" => built.parts[i].of.is \in Strings \cup {"num", "null"}

LEMMA OneUnitSaysTheValue ==
  ASSUME NEW unit, NEW p, NEW v, unit # <<>>, Carries(unit, v)
  PROVE  SaysTheValues(Sent(unit), p, <<v>>, v)
  <1>1. PICK as \in Lanes : /\ unit = <<As(as, v)>>
                            /\ as = "octets" => v.is = "oct"
                            /\ as = "verbatim" => v.is \in Strings
                            /\ as = "text" => v.is \in Strings \cup {"num", "null"}
    BY DEF Carries
  <1>2. DOMAIN unit = {1} /\ unit[1].as = as /\ unit[1].of = v
    <2>1. unit = <<As(as, v)>>
      BY <1>1
    <2>. QED
      BY <2>1, ThatPart, ZenonT(30)
  <1>3. [i \in DOMAIN unit |-> unit[i].of] = <<v>>
    BY <1>2
  <1>4. Sent(unit).parts = unit
    BY DEF Sent
  <1> HIDE DEF SaysTheValues
  <1>5. \A i \in DOMAIN unit : i = 1
    BY <1>2
  <1>. QED
    BY <1>1, <1>2, <1>3, <1>4, <1>5 DEF SaysTheValues

LEMMA MultipartSaysTheValues ==
  ASSUME NEW p, p.kind \in Kinds, p.array \in BOOLEAN, NEW version, NEW media, NEW value,
         value.items \in Seq({value.items[i] : i \in DOMAIN value.items})
  PROVE  /\ SaysTheValues(Multipart(p, media, value), p, IF p.array THEN value.items ELSE <<value>>, value)
         /\ Fits(p, version, value) /\ Sound("multipart", version, p, media)
            => (Multipart(p, media, value).refused <=> TakenForBase64("multipart", p, value))
  <1> DEFINE values == IF p.array THEN value.items ELSE <<value>>
             part(i) == PartBody(p, media, values[i])
             built == Multipart(p, media, value)
             parts == [i \in DOMAIN values |-> part(i)[1]]
  <1>1. Len(values) \in Nat /\ DOMAIN values = 1 .. Len(values) /\ values = [i \in 1 .. Len(values) |-> values[i]]
    <2>1. CASE p.array
      BY <2>1
    <2>2. CASE ~p.array
      BY <2>2
    <2>. QED
      BY <2>1, <2>2
  <1>2. \/ Elided("multipart", p, value) /\ built = Sent(<<>>)
        \/ p.array /\ value.is # "array" /\ built = RefusedForm
        \/ (\E i \in DOMAIN values : part(i) = <<>>) /\ built = RefusedForm
        \/ (\A i \in DOMAIN values : part(i) # <<>>) /\ built = Sent(parts)
    BY DEF Multipart
  <1>3. \A i \in DOMAIN values : Carries(part(i), values[i])
    BY PartBodyCarries
  <1>4. Fits(p, version, value) => (p.array => value.is = "array") /\ \A i \in DOMAIN values : Describes(p, version, values[i])
    <2>1. CASE p.array
      BY <2>1 DEF Fits
    <2>2. CASE ~p.array
      BY <2>2 DEF Fits
    <2>. QED
      BY <2>1, <2>2
  <1>taken. TakenForBase64("multipart", p, value) <=> p.kind = "binary" /\ \E i \in DOMAIN values : values[i].is # "oct"
    BY DEF TakenForBase64, Elements
  <1> HIDE DEF values
  <1>5. /\ Sound("multipart", version, p, media) =>
              \A i \in DOMAIN values :
                 Describes(p, version, values[i]) /\ (p.kind = "binary" => values[i].is = "oct") => part(i) # <<>>
        /\ \A i \in DOMAIN values : p.kind = "binary" /\ values[i].is # "oct" => part(i) = <<>>
    <2>1. \A i \in DOMAIN values : p.kind = "binary" /\ values[i].is # "oct" => part(i) = <<>>
      BY DEF PartBody
    <2>. QED
      BY <2>1, DescribedHasPart
  <1> HIDE DEF part, built, parts
  <1>6. ASSUME \A i \in DOMAIN values : part(i) # <<>>, built = Sent(parts)
        PROVE  SaysTheValues(built, p, values, value)
    <2>1. ASSUME NEW i \in DOMAIN values
          PROVE  /\ parts[i].of = values[i]
                 /\ parts[i].as = "octets" => values[i].is = "oct"
                 /\ parts[i].as = "verbatim" => values[i].is \in Strings
                 /\ parts[i].as = "text" => values[i].is \in Strings \cup {"num", "null"}
      <3>1. PICK as \in Lanes : /\ part(i) = <<As(as, values[i])>>
                                /\ as = "octets" => values[i].is = "oct"
                                /\ as = "verbatim" => values[i].is \in Strings
                                /\ as = "text" => values[i].is \in Strings \cup {"num", "null"}
        BY <1>3, <1>6 DEF Carries
      <3>2. parts[i].as = as /\ parts[i].of = values[i]
        <4>1. As(as, values[i]).as = as /\ As(as, values[i]).of = values[i]
          BY DEF As
        <4>2. parts[i] = part(i)[1]
          BY DEF parts
        <4>3. part(i)[1] = As(as, values[i])
          <5>1. \A x : <<x>>[1] = x
            OBVIOUS
          <5>. QED
            BY <3>1, <5>1
        <4>. QED
          BY <4>1, <4>2, <4>3
      <3>. QED
        BY <3>1, <3>2
    <2>2. DOMAIN parts = DOMAIN values
      BY DEF parts
    <2>3. parts = <<>> => values = <<>>
      <3>1. SUFFICES ASSUME parts = <<>> PROVE values = <<>>
        OBVIOUS
      <3>2. \A i \in 1 .. Len(values) : FALSE
        BY <1>1, <2>2, <3>1
      <3>3. Len(values) = 0
        <4>1. \A n \in Nat : n # 0 => 1 \in 1 .. n
          OBVIOUS
        <4>. QED
          BY <1>1, <3>2, <4>1
      <3>. QED
        BY <1>1, <3>3
    <2>4. [i \in DOMAIN parts |-> parts[i].of] = values
      BY <1>1, <2>1, <2>2
    <2>5. built.parts = parts
      BY <1>6 DEF Sent
    <2>. QED
      BY <2>1, <2>2, <2>3, <2>4, <2>5 DEF SaysTheValues
  <1>7. built = RefusedForm => built.refused /\ SaysTheValues(built, p, values, value)
    BY DEF SaysTheValues, RefusedForm
  <1>8. Elided("multipart", p, value) /\ built = Sent(<<>>) => ~built.refused /\ SaysTheValues(built, p, values, value)
    BY DEF SaysTheValues, Sent, Elided
  <1>9. built = Sent(parts) => ~built.refused
    BY DEF Sent
  <1>10. SaysTheValues(built, p, values, value)
    BY <1>2, <1>6, <1>7, <1>8
  <1>given. Fits(p, version, value) => ~Elided("multipart", p, value)
    BY DEF Fits, Describes, Strings, Elided
  <1>11. Fits(p, version, value) /\ Sound("multipart", version, p, media)
            => (built.refused <=> TakenForBase64("multipart", p, value))
    <2> SUFFICES ASSUME Fits(p, version, value), Sound("multipart", version, p, media)
                 PROVE  built.refused <=> TakenForBase64("multipart", p, value)
      OBVIOUS
    <2>1. CASE p.kind = "binary" /\ \E i \in DOMAIN values : values[i].is # "oct"
      <3>1. PICK i \in DOMAIN values : part(i) = <<>>
        BY <1>5, <2>1
      <3>2. built = RefusedForm
        BY <1>2, <1>given, <3>1
      <3>. QED
        BY <1>7, <1>taken, <2>1, <3>2
    <2>2. CASE ~(p.kind = "binary" /\ \E i \in DOMAIN values : values[i].is # "oct")
      <3>1. ASSUME NEW i \in DOMAIN values PROVE part(i) # <<>>
        <4>1. Describes(p, version, values[i]) /\ (p.kind = "binary" => values[i].is = "oct")
          BY <1>4, <2>2
        <4>. QED
          BY <1>5, <4>1
      <3>2. built = Sent(parts)
        BY <1>2, <1>4, <1>given, <3>1
      <3>. QED
        BY <1>9, <1>taken, <2>2, <3>2
    <2>. QED
      BY <2>1, <2>2
  <1>. QED
    BY <1>10, <1>11 DEF built, values

LEMMA URLEncodedSaysTheValue ==
  ASSUME NEW p, p.kind \in Kinds, p.array \in BOOLEAN, p.kind = "never" => ~p.array,
         NEW version, NEW media, NEW value
  PROVE  /\ SaysTheValues(URLEncoded(p, version, media, value), p, <<value>>, value)
         /\ Fits(p, version, value) /\ Sound("urlencoded", version, p, media) => ~URLEncoded(p, version, media, value).refused
  <1> DEFINE selected == IF media # NoType THEN media ELSE DefaultMedia(p.kind, version)
             unit == UnitBody(p, version, selected, value)
             built == URLEncoded(p, version, media, value)
             raw == p.kind = "any" /\ ~p.array /\ version = "3.2"
             unwritten == media = NoType /\ (ArrayNeedsChoice(p, version) \/ p.kind = "any")
             elided == Elided("urlencoded", p, value)
             nothing == (p.nullable /\ value.is = "null") \/ p.kind = "never"
  <1>1. \/ elided /\ built = Sent(<<>>)
        \/ nothing /\ built = RefusedForm
        \/ raw /\ value.is = "oct" /\ built = Sent(<<As("octets", value)>>)
        \/ raw /\ value.is # "oct" /\ built = RefusedForm
        \/ ~raw /\ (unwritten \/ unit = <<>>) /\ built = RefusedForm
        \/ unit # <<>> /\ built = Sent(unit)
    BY DEF URLEncoded
  <1>2. Carries(unit, value)
    BY UnitBodyCarries
  <1>3. value.is = "oct" => Carries(<<As("octets", value)>>, value)
    BY DEF Carries, Lanes
  <1>4. Fits(p, version, value) => (~p.array => Describes(p, version, value)) /\ (p.array => value.is = "array")
    BY DEF Fits
  <1>5. Fits(p, version, value) => value.is # "null" /\ p.kind # "never"
    <2>1. Describes(p, version, value) => value.is # "null" /\ p.kind # "never"
      BY DEF Describes, Strings
    <2>2. value.is = "array" => value.is # "null"
      OBVIOUS
    <2>. QED
      BY <1>4, <2>1, <2>2
  <1>6. Fits(p, version, value) /\ Sound("urlencoded", version, p, media) /\ ~raw => unit # <<>> /\ ~unwritten
    BY <1>4, DescribedHasUnit
  <1>7. Fits(p, version, value) /\ raw => value.is = "oct"
    BY <1>4 DEF Describes
  <1> HIDE DEF unit, selected, built, raw, unwritten
  <1>8. <<As("octets", value)>> # <<>>
    BY OnePart
  <1>9. built = RefusedForm => built.refused /\ SaysTheValues(built, p, <<value>>, value)
    BY DEF SaysTheValues, RefusedForm
  <1>10. elided /\ built = Sent(<<>>) => SaysTheValues(built, p, <<value>>, value)
    BY DEF SaysTheValues, Sent, Elided
  <1>11. \A parts : built = Sent(parts) => ~built.refused
    BY DEF Sent
  <1> HIDE DEF elided, nothing
  <1>12. SaysTheValues(built, p, <<value>>, value)
    BY <1>1, <1>2, <1>3, <1>8, <1>9, <1>10, OneUnitSaysTheValue
  <1>13. Fits(p, version, value) /\ Sound("urlencoded", version, p, media) => ~built.refused
    BY <1>1, <1>5, <1>6, <1>7, <1>11 DEF nothing
  <1>. QED
    BY <1>12, <1>13 DEF built

LEMMA EveryFormReadsBack ==
  ASSUME NEW c \in FormCases
  PROVE  FormsCarryTheirValues(c.lane, c.version, c.property, c.chosen, c.value)
  <1> DEFINE lane == c.lane
             version == c.version
             p == c.property
             value == c.value
             needed == ChoiceRequired(lane, version, p)
             media == IF needed THEN c.chosen ELSE p.media
             built == BuildRequestBody(lane, version, p, c.chosen, value)
             values == IF p.array /\ lane = "multipart" THEN value.items ELSE <<value>>
             sent == IF lane = "multipart" THEN Multipart(p, media, value) ELSE URLEncoded(p, version, media, value)
  <1>1. /\ lane \in {"multipart", "urlencoded"} /\ version \in {"3.0", "3.1", "3.2"}
        /\ p.kind \in Kinds /\ p.array \in BOOLEAN /\ (p.kind = "never" => ~p.array)
        /\ p.media \in Typed \cup {NoType, "many"}
        /\ value.items \in Seq({value.items[i] : i \in DOMAIN value.items})
    BY FormAssumption DEF Kinds
  <1>2. built = IF needed /\ c.chosen = NoType THEN RefusedForm ELSE sent
    BY DEF BuildRequestBody
  <1>3. Admitted(lane, version, p) /\ version # "3.2" /\ ~needed => Sound(lane, version, p, p.media) \/ p.kind = "never"
    <2>1. version # "3.2" => version \in {"3.0", "3.1"}
      BY <1>1
    <2> HIDE DEF lane, version, p
    <2>. QED
      BY <1>1, <2>1, AdmittedIsSound
  <1> HIDE DEF media, needed, lane, version, p, value
  <1>4. /\ SaysTheValues(sent, p, values, value)
        /\ Fits(p, version, value) /\ Sound(lane, version, p, media)
              => (sent.refused <=> TakenForBase64(lane, p, value))
    <2>1. CASE lane = "multipart"
      BY <1>1, <2>1, MultipartSaysTheValues
    <2>2. CASE lane = "urlencoded"
      BY <1>1, <2>2, URLEncodedSaysTheValue DEF TakenForBase64
    <2>. QED
      BY <1>1, <2>1, <2>2
  <1>5. RefusedForm.refused /\ SaysTheValues(RefusedForm, p, values, value)
    BY DEF SaysTheValues, RefusedForm
  <1> HIDE DEF built, values, sent
  <1>6. SaysTheValues(built, p, values, value)
    BY <1>2, <1>4, <1>5
  <1>7. Fits(p, version, value) /\ (needed => c.chosen # NoType) /\ Sound(lane, version, p, media)
           => (built.refused <=> TakenForBase64(lane, p, value))
    BY <1>2, <1>4
  <1>8. needed /\ c.chosen = NoType => built.refused
    BY <1>2, <1>5
  <1>. QED
    BY <1>3, <1>6, <1>7, <1>8 DEF FormsCarryTheirValues, Elements, SaysTheValues, built, values, needed, media, lane, version, p, value

\* Each property of a form reads back as it was given or is refused, and what
\* planning admits carries what the declaration describes, but a plain string in a
\* binary part of 3.1 and 3.2 (media.ts, openapi32-media.ts).
THEOREM FormsTheorem == FormSpec => []FormsReadBack
  <1>1. FormInit => forming \subseteq FormCases
    BY DEF FormInit
  <1>2. forming \subseteq FormCases /\ [UNCHANGED forming]_forming => (forming \subseteq FormCases)'
    OBVIOUS
  <1>3. forming \subseteq FormCases => FormsReadBack
    BY EveryFormReadsBack DEF FormsReadBack
  <1>. QED
    BY <1>1, <1>2, <1>3, PTL DEF FormSpec

-----------------------------------------------------------------------------
(***************************************************************************)
(* Server selection.  A URL whose variables are replaced one after the     *)
(* other is the URL with all of them replaced at once, as long as no value *)
(* is an expression itself.                                                *)
(***************************************************************************)

\* What is appended to a part is appended to the whole.
LEMMA AppendedToAPart ==
  ASSUME NEW S, NEW t \in Seq(S), NEW u \in Seq(S)
  PROVE  \A s \in Seq(S) : (s \o t) \o u = s \o (t \o u)
  <1>1. ASSUME NEW s \in Seq(S) PROVE (s \o t) \o u = s \o (t \o u)
    <2>1. s \o t \in Seq(S) /\ t \o u \in Seq(S)
      BY ConcatProperties
    <2>. QED
      BY <2>1, ConcatAssociative
  <1>. QED
    BY <1>1

\* What is before a piece, and what is after it.
LEMMA AroundAPiece ==
  ASSUME NEW S, NEW low \in Seq(S), NEW high \in Seq(S), NEW e \in S
  PROVE  LET whole == (low \o <<e>>) \o high IN
         /\ whole \in Seq(S) /\ Len(whole) = Len(low) + 1 + Len(high) /\ whole[Len(low) + 1] = e
         /\ \A i \in 1 .. Len(low) : whole[i] = low[i]
         /\ \A i \in 1 .. Len(high) : whole[Len(low) + 1 + i] = high[i]
         /\ SubSeq(whole, 1, Len(low)) = low
         /\ SubSeq(whole, Len(low) + 2, Len(whole)) = high
  <1> DEFINE whole == (low \o <<e>>) \o high
             m == Len(low)
             h == Len(high)
  <1>1. m \in Nat /\ h \in Nat /\ low \o <<e>> \in Seq(S) /\ Len(low \o <<e>>) = m + 1 /\ (low \o <<e>>)[m + 1] = e
        /\ \A i \in 1 .. m : (low \o <<e>>)[i] = low[i]
    OBVIOUS
  <1>2. /\ whole \in Seq(S) /\ Len(whole) = m + 1 + h
        /\ \A i \in 1 .. m + 1 + h : whole[i] = IF i <= m + 1 THEN (low \o <<e>>)[i] ELSE high[i - (m + 1)]
    BY <1>1, ConcatProperties
  <1> HIDE DEF whole, m, h
  <1>3. whole[m + 1] = e /\ \A i \in 1 .. m : whole[i] = low[i]
    BY <1>1, <1>2
  <1>4. \A i \in 1 .. h : whole[m + 1 + i] = high[i]
    <2>1. ASSUME NEW i \in 1 .. h PROVE whole[m + 1 + i] = high[i]
      <3>1. m + 1 + i \in 1 .. m + 1 + h /\ ~(m + 1 + i <= m + 1) /\ (m + 1 + i) - (m + 1) = i
        BY <1>1
      <3>. QED
        BY <1>2, <3>1
    <2>. QED
      BY <2>1
  <1>5. SubSeq(whole, 1, m) = low
    <2>1. \A i \in 1 .. m : whole[i] \in S
      BY <1>1, <1>2
    <2>2. m \in Int /\ 1 \in Int
      BY <1>1
    <2>3. /\ SubSeq(whole, 1, m) \in Seq(S) /\ Len(SubSeq(whole, 1, m)) = IF 1 <= m THEN m - 1 + 1 ELSE 0
          /\ \A i \in 1 .. m - 1 + 1 : SubSeq(whole, 1, m)[i] = whole[1 + i - 1]
      BY <2>1, <2>2, SubSeqProperties
    <2>4. Len(SubSeq(whole, 1, m)) = m /\ \A i \in 1 .. m : SubSeq(whole, 1, m)[i] = low[i]
      BY <1>1, <1>3, <2>3
    <2>. QED
      BY <2>3, <2>4, SeqEqual DEF m
  <1>6. SubSeq(whole, m + 2, Len(whole)) = high
    <2> DEFINE n == m + 1 + h
    <2>1. \A i \in m + 2 .. n : whole[i] \in S
      BY <1>1, <1>2
    <2>2. m + 2 \in Int /\ n \in Int
      BY <1>1
    <2>3. /\ SubSeq(whole, m + 2, n) \in Seq(S) /\ Len(SubSeq(whole, m + 2, n)) = IF m + 2 <= n THEN n - (m + 2) + 1 ELSE 0
          /\ \A i \in 1 .. n - (m + 2) + 1 : SubSeq(whole, m + 2, n)[i] = whole[(m + 2) + i - 1]
      <3> HIDE DEF n
      <3>. QED
        BY <2>1, <2>2, SubSeqProperties
    <2>4. Len(SubSeq(whole, m + 2, n)) = h
      <3>1. (IF m + 2 <= n THEN n - (m + 2) + 1 ELSE 0) = h
        BY <1>1
      <3> HIDE DEF n
      <3>. QED
        BY <2>3, <3>1
    <2>5. ASSUME NEW i \in 1 .. h PROVE SubSeq(whole, m + 2, n)[i] = high[i]
      <3>1. i \in 1 .. n - (m + 2) + 1 /\ (m + 2) + i - 1 = m + 1 + i
        BY <1>1
      <3>. QED
        BY <1>4, <2>3, <3>1
    <2>6. SubSeq(whole, m + 2, n) = high
      <3> HIDE DEF n
      <3>. QED
        BY <2>3, <2>4, <2>5, SeqEqual DEF h
    <2>. QED
      BY <1>2, <2>6
  <1>. QED
    BY <1>2, <1>3, <1>4, <1>5, <1>6 DEF whole, m, h

\* Of a URL in which a variable occurs once, its replacement.
LEMMA ReplacedPiece ==
  ASSUME NEW low \in Templates, NEW high \in Templates, NEW e \in UrlPieces, NEW value \in Templates,
         \A i \in 1 .. Len(low) : low[i].var # e.var
  PROVE  Replaced((low \o <<e>>) \o high, e.var, value) = (low \o value) \o high
  <1> DEFINE S == UrlPieces
             whole == (low \o <<e>>) \o high
             m == Len(low)
             first == CHOOSE k \in DOMAIN whole :
                         whole[k].var = e.var /\ \A j \in DOMAIN whole : whole[j].var = e.var => k <= j
  <1>1. low \in Seq(S) /\ high \in Seq(S) /\ e \in S
    BY DEF Templates
  <1> HIDE DEF S
  <1>2. /\ whole \in Seq(S) /\ Len(whole) = m + 1 + Len(high) /\ whole[m + 1] = e
        /\ \A i \in 1 .. m : whole[i] = low[i]
        /\ SubSeq(whole, 1, m) = low /\ SubSeq(whole, m + 2, Len(whole)) = high
    BY <1>1, AroundAPiece
  <1>3. m \in Nat /\ Len(high) \in Nat
    BY <1>1
  <1> HIDE DEF whole, m
  <1>4. DOMAIN whole = 1 .. m + 1 + Len(high)
    BY <1>2
  <1>5. m + 1 \in DOMAIN whole /\ \A j \in DOMAIN whole : whole[j].var = e.var => m + 1 <= j
    <2>1. m + 1 \in DOMAIN whole
      BY <1>3, <1>4
    <2>2. ASSUME NEW j \in DOMAIN whole, whole[j].var = e.var PROVE m + 1 <= j
      <3>1. SUFFICES ASSUME ~(m + 1 <= j) PROVE FALSE
        OBVIOUS
      <3>2. j \in 1 .. m
        BY <1>3, <1>4, <3>1
      <3>. QED
        BY <1>2, <2>2, <3>2 DEF m
    <2>. QED
      BY <2>1, <2>2
  <1>6. first = m + 1
    <2>1. /\ first \in DOMAIN whole /\ whole[first].var = e.var
          /\ \A j \in DOMAIN whole : whole[j].var = e.var => first <= j
      BY <1>2, <1>5
    <2>2. first \in Nat
      BY <1>4, <2>1
    <2>. QED
      BY <1>2, <1>3, <1>5, <2>1, <2>2
  <1>7. Replaced(whole, e.var, value) = (SubSeq(whole, 1, first - 1) \o value) \o SubSeq(whole, first + 1, Len(whole))
    BY DEF Replaced
  <1> HIDE DEF first
  <1>8. first - 1 = m /\ first + 1 = m + 2
    BY <1>3, <1>6
  <1>. QED
    BY <1>2, <1>7, <1>8 DEF whole

\* One URL with all its replacements, piece by piece.
Piece(d, values) == IF d.var \in DOMAIN values THEN values[d.var] ELSE <<d>>

ReplacesUpTo(upTo, url, values) ==
  /\ upTo[0] = <<>>
  /\ \A k \in 1 .. Len(url) : upTo[k] = upTo[k - 1] \o Piece(url[k], values)
  /\ AtOnce(url, values) = upTo[Len(url)]

LEMMA AtOnceUnfolds ==
  ASSUME NEW url \in Templates, NEW values
  PROVE  \E upTo : ReplacesUpTo(upTo, url, values)
  <1> DEFINE Next(g, k) == g \o Piece(url[k], values)
             From(f, m) == [k \in 0 .. m |-> IF k = 0 THEN <<>> ELSE Next(f[k - 1], k)]
             upTo == CHOOSE f : f = From(f, Len(url))
             defined == {m \in Nat : \E f : f = From(f, m)}
  <1>. Len(url) \in Nat
    BY DEF Templates
  <1>0. AtOnce(url, values) = upTo[Len(url)]
    BY DEF AtOnce, Piece
  <1> HIDE DEF Next
  <1>2. Nat \subseteq defined
    <2>1. 0 \in defined
      <3>1. [k \in 0 .. 0 |-> <<>>] = From([k \in 0 .. 0 |-> <<>>], 0)
        OBVIOUS
      <3>. QED
        BY <3>1
    <2>2. ASSUME NEW m \in Nat, m \in defined PROVE m + 1 \in defined
      <3>1. PICK f : f = From(f, m)
        BY <2>2
      <3> DEFINE g == [k \in 0 .. (m + 1) |-> IF k = m + 1 THEN Next(f[m], m + 1) ELSE f[k]]
      <3>2. \A k \in 0 .. m : f[k] = IF k = 0 THEN <<>> ELSE Next(f[k - 1], k)
        BY <3>1
      <3>3. \A k \in 0 .. (m + 1) : g[k] = IF k = 0 THEN <<>> ELSE Next(g[k - 1], k)
        BY <3>2
      <3>4. g = From(g, m + 1)
        BY <3>3
      <3> HIDE DEF g
      <3>. QED
        BY <3>4
    <2>. QED
      BY <2>1, <2>2, EveryNatural
  <1>3. upTo = From(upTo, Len(url))
    <2>1. \E f : f = From(f, Len(url))
      BY <1>2
    <2>. QED
      BY <2>1
  <1>4. \A k \in 0 .. Len(url) : upTo[k] = IF k = 0 THEN <<>> ELSE Next(upTo[k - 1], k)
    BY <1>3
  <1> HIDE DEF upTo
  <1>6. upTo[0] = <<>> /\ \A k \in 1 .. Len(url) : upTo[k] = Next(upTo[k - 1], k)
    BY <1>4
  <1>7. ReplacesUpTo(upTo, url, values)
    BY <1>0, <1>6 DEF Next, ReplacesUpTo
  <1>. QED
    BY <1>7

\* How a part of a URL looks when variable n is replaced in it: it has none, it has
\* a first one that is replaced, or it has two.
Without(url, n) == \A i \in 1 .. Len(url) : url[i].var # n

Replacing(before, after, n, value) ==
  \/ Without(before, n) /\ after = before
  \/ \E low \in Templates, high \in Templates : \E e \in UrlPieces :
        /\ before = (low \o <<e>>) \o high /\ e.var = n /\ Without(low, n)
        /\ after = (low \o value) \o high
  \/ \E i, j \in 1 .. Len(before) : i # j /\ before[i].var = n /\ before[j].var = n

LEMMA ReplacingGoesOn ==
  ASSUME NEW before \in Templates, NEW after, NEW n, NEW value \in Templates, Replacing(before, after, n, value),
         NEW p \in Templates, NEW q,
         (Without(p, n) /\ q = p) \/ (\E e \in UrlPieces : p = <<e>> /\ e.var = n /\ q = value)
  PROVE  Replacing(before \o p, after \o q, n, value)
  <1> DEFINE S == UrlPieces
             b == Len(before)
             both == before \o p
  <1>1. before \in Seq(S) /\ p \in Seq(S) /\ value \in Seq(S) /\ b \in Nat /\ Len(p) \in Nat
    BY DEF Templates
  <1>2. /\ both \in Seq(S) /\ Len(both) = b + Len(p)
        /\ \A i \in 1 .. b + Len(p) : both[i] = IF i <= b THEN before[i] ELSE p[i - b]
    BY <1>1, ConcatProperties
  <1> HIDE DEF S, both, b
  <1>3. /\ \A i \in 1 .. b : i \in 1 .. Len(both) /\ both[i] = before[i]
        /\ \A i \in 1 .. Len(p) : b + i \in 1 .. Len(both) /\ both[b + i] = p[i]
    <2>1. ASSUME NEW i \in 1 .. b PROVE i \in 1 .. Len(both) /\ both[i] = before[i]
      BY <1>1, <1>2
    <2>2. ASSUME NEW i \in 1 .. Len(p) PROVE b + i \in 1 .. Len(both) /\ both[b + i] = p[i]
      <3>1. b + i \in 1 .. b + Len(p) /\ ~(b + i <= b) /\ (b + i) - b = i
        BY <1>1
      <3>. QED
        BY <1>2, <3>1
    <2>. QED
      BY <2>1, <2>2
  <1>4. CASE \E i, j \in 1 .. Len(before) : i # j /\ before[i].var = n /\ before[j].var = n
    <2>1. PICK i \in 1 .. b, j \in 1 .. b : i # j /\ before[i].var = n /\ before[j].var = n
      BY <1>4 DEF b
    <2>2. i \in 1 .. Len(both) /\ j \in 1 .. Len(both) /\ both[i].var = n /\ both[j].var = n
      BY <1>3, <2>1
    <2>. QED
      BY <2>1, <2>2 DEF Replacing, both
  <1>5. CASE Without(before, n) /\ after = before
    <2>1. CASE Without(p, n) /\ q = p
      <3>1. ASSUME NEW i \in 1 .. Len(both) PROVE both[i].var # n
        <4>1. CASE i <= b
          <5>1. i \in 1 .. b
            BY <1>1, <1>2, <4>1
          <5>. QED
            BY <1>3, <1>5, <5>1 DEF Without, b
        <4>2. CASE ~(i <= b)
          <5>1. i - b \in 1 .. Len(p) /\ both[i] = p[i - b]
            BY <1>1, <1>2, <4>2
          <5>. QED
            BY <2>1, <5>1 DEF Without
        <4>. QED
          BY <4>1, <4>2
      <3>2. after \o q = both
        BY <1>5, <2>1 DEF both
      <3>. QED
        BY <3>1, <3>2 DEF Replacing, Without, both
    <2>2. CASE \E e \in S : p = <<e>> /\ e.var = n /\ q = value
      <3>1. PICK e \in S : p = <<e>> /\ e.var = n /\ q = value
        BY <2>2
      <3>2. <<>> \in Templates
        BY DEF Templates
      <3>3. before \o p = (before \o <<e>>) \o <<>>
        <4>1. before \o <<e>> \in Seq(S)
          BY <1>1, <3>1, ConcatProperties
        <4>. QED
          BY <3>1, <4>1, ConcatEmptySeq
      <3>4. after \o q = (before \o value) \o <<>>
        <4>1. before \o value \in Seq(S)
          BY <1>1, ConcatProperties
        <4>. QED
          BY <1>5, <3>1, <4>1, ConcatEmptySeq
      <3>. QED
        BY <1>5, <3>1, <3>2, <3>3, <3>4 DEF Replacing, S
    <2>. QED
      BY <2>1, <2>2 DEF S
  <1>6. CASE \E low \in Templates, high \in Templates : \E e \in S :
                /\ before = (low \o <<e>>) \o high /\ e.var = n /\ Without(low, n)
                /\ after = (low \o value) \o high
    <2>1. PICK low \in Templates, high \in Templates : \E e \in S :
                /\ before = (low \o <<e>>) \o high /\ e.var = n /\ Without(low, n)
                /\ after = (low \o value) \o high
      BY <1>6
    <2>2. PICK e \in S : /\ before = (low \o <<e>>) \o high /\ e.var = n /\ Without(low, n)
                         /\ after = (low \o value) \o high
      BY <2>1
    <2>3. low \in Seq(S) /\ high \in Seq(S) /\ Len(low) \in Nat /\ Len(high) \in Nat
      BY DEF Templates, S
    <2>4. CASE Without(p, n) /\ q = p
      <3>1. high \o p \in Templates
        BY <1>1, <2>3, ConcatProperties DEF Templates, S
      <3>2. low \o <<e>> \in Seq(S) /\ low \o value \in Seq(S)
        <4>1. <<e>> \in Seq(S)
          OBVIOUS
        <4>. QED
          BY <1>1, <2>3, <4>1, ConcatProperties
      <3>3. \A x \in Seq(S) : (x \o high) \o p = x \o (high \o p)
        BY <1>1, <2>3, AppendedToAPart
      <3>4. before \o p = (low \o <<e>>) \o (high \o p)
        BY <2>2, <3>2, <3>3
      <3>5. after \o q = (low \o value) \o (high \o p)
        BY <2>2, <2>4, <3>2, <3>3
      <3>. QED
        BY <2>2, <3>1, <3>4, <3>5 DEF Replacing, S
    <2>5. CASE \E d \in S : p = <<d>> /\ d.var = n /\ q = value
      <3>1. PICK d \in S : p = <<d>> /\ d.var = n
        BY <2>5
      <3>2. b = Len(low) + 1 + Len(high) /\ before[Len(low) + 1] = e
        BY <2>2, <2>3, AroundAPiece DEF b
      <3>3. Len(low) + 1 \in 1 .. b /\ Len(low) + 1 # b + 1
        BY <2>3, <3>2
      <3>4. Len(p) = 1 /\ p[1] = d /\ 1 \in 1 .. Len(p)
        BY <3>1
      <3>5. /\ Len(low) + 1 \in 1 .. Len(both) /\ both[Len(low) + 1].var = n
            /\ b + 1 \in 1 .. Len(both) /\ both[b + 1].var = n
        BY <1>3, <2>2, <3>1, <3>2, <3>3, <3>4
      <3>. QED
        BY <3>3, <3>5 DEF Replacing, both
    <2>. QED
      BY <2>4, <2>5 DEF S
  <1>. QED
    BY <1>4, <1>5, <1>6 DEF Replacing, S

\* What occurs once is there, and nowhere else.
LEMMA OccursOnce ==
  ASSUME NEW url \in Templates, NEW n, Count(url, n) = 1
  PROVE  /\ \E i \in 1 .. Len(url) : url[i].var = n
         /\ ~\E i, j \in 1 .. Len(url) : i # j /\ url[i].var = n /\ url[j].var = n
  <1> DEFINE at == {i \in DOMAIN url : url[i].var = n}
  <1>1. DOMAIN url = 1 .. Len(url) /\ Len(url) \in Nat
    BY DEF Templates
  <1>2. IsFiniteSet(DOMAIN url)
    BY <1>1, FS_Interval
  <1>3. IsFiniteSet(at)
    BY <1>2, FS_Subset
  <1>4. Cardinality(at) = 1
    BY DEF Count
  <1>5. PICK k : at = {k}
    <2> HIDE DEF at
    <2>. QED
      BY <1>3, <1>4, FS_Singleton
  <1>. QED
    BY <1>1, <1>5

\* A piece, replaced or not, is a template.
LEMMA PieceIsTyped ==
  ASSUME NEW url \in Templates, NEW values, \A m \in DOMAIN values : values[m] \in Templates,
         NEW k \in 1 .. Len(url)
  PROVE  Piece(url[k], values) \in Templates
  <1>1. url[k] \in UrlPieces
    BY DEF Templates
  <1>2. <<url[k]>> \in Templates
    BY <1>1 DEF Templates
  <1>. QED
    BY <1>2 DEF Piece

\* A text is a template.
LEMMA PlainIsATemplate ==
  ASSUME Names \in Nat, NEW url \in PlainURLs
  PROVE  url \in Templates /\ \A i \in 1 .. Len(url) : url[i].var = 0
  <1>1. Len(url) \in Nat /\ url \in [1 .. Len(url) -> UrlTexts]
    BY DEF PlainURLs
  <1>2. UrlTexts \subseteq UrlPieces
    BY DEF UrlTexts, UrlPieces
  <1>3. url \in [1 .. Len(url) -> UrlPieces]
    BY <1>1, <1>2
  <1>4. url \in Templates
    BY <1>1, <1>3 DEF Templates
  <1>5. \A i \in 1 .. Len(url) : url[i].var = 0
    BY <1>1 DEF UrlTexts
  <1>. QED
    BY <1>4, <1>5

\* One variable more is one replacement more.
LEMMA OneMore ==
  ASSUME Names \in Nat, NEW url \in Templates, NEW f, \A m \in DOMAIN f : f[m] \in PlainURLs,
         NEW n \in 1 .. Names, n \notin DOMAIN f, NEW g, DOMAIN g = DOMAIN f \cup {n},
         \A m \in DOMAIN f : g[m] = f[m], g[n] \in PlainURLs,
         Count(AtOnce(url, f), n) = 1
  PROVE  AtOnce(url, g) = Replaced(AtOnce(url, f), n, g[n])
  <1> DEFINE S == UrlPieces
             value == g[n]
  <1>1. Len(url) \in Nat /\ \A k \in 1 .. Len(url) : url[k] \in S
    BY DEF Templates
  <1>2. PICK p : ReplacesUpTo(p, url, f)
    BY AtOnceUnfolds
  <1>3. PICK q : ReplacesUpTo(q, url, g)
    BY AtOnceUnfolds
  <1>4. value \in Templates /\ \A m \in DOMAIN f : f[m] \in Templates
    BY PlainIsATemplate
  <1>5. ASSUME NEW k \in 1 .. Len(url)
        PROVE  \/ Without(Piece(url[k], f), n) /\ Piece(url[k], g) = Piece(url[k], f)
               \/ \E e \in S : Piece(url[k], f) = <<e>> /\ e.var = n /\ Piece(url[k], g) = value
    <2>1. CASE url[k].var = n
      BY <1>1, <2>1 DEF Piece
    <2>2. CASE url[k].var # n /\ url[k].var \in DOMAIN f
      <3>1. Piece(url[k], f) \in PlainURLs
        BY <2>2 DEF Piece
      <3>2. \A i \in 1 .. Len(Piece(url[k], f)) : Piece(url[k], f)[i].var = 0
        BY <3>1, PlainIsATemplate
      <3>3. Piece(url[k], g) = Piece(url[k], f)
        BY <2>2 DEF Piece
      <3>4. n # 0
        OBVIOUS
      <3>. QED
        BY <3>2, <3>3, <3>4 DEF Without
    <2>3. CASE url[k].var # n /\ url[k].var \notin DOMAIN f
      BY <2>3 DEF Piece, Without
    <2>. QED
      BY <2>1, <2>2, <2>3
  <1> HIDE DEF S, value
  <1> DEFINE fine == {k \in Nat : k <= Len(url) => p[k] \in Templates /\ Replacing(p[k], q[k], n, value)}
  <1>6. 0 \in fine
    <2>1. <<>> \in Templates /\ Without(<<>>, n)
      BY DEF Templates, Without
    <2>. QED
      BY <1>2, <1>3, <2>1 DEF Replacing, ReplacesUpTo
  <1>7. ASSUME NEW m \in Nat, m \in fine PROVE m + 1 \in fine
    <2>1. SUFFICES ASSUME m + 1 <= Len(url)
                   PROVE  p[m + 1] \in Templates /\ Replacing(p[m + 1], q[m + 1], n, value)
      OBVIOUS
    <2>2. m <= Len(url) /\ m + 1 \in 1 .. Len(url) /\ (m + 1) - 1 = m
      BY <1>1, <2>1
    <2>3. p[m] \in Templates /\ Replacing(p[m], q[m], n, value)
      BY <1>7, <2>2
    <2>4. p[m + 1] = p[m] \o Piece(url[m + 1], f) /\ q[m + 1] = q[m] \o Piece(url[m + 1], g)
      BY <1>2, <1>3, <2>2 DEF ReplacesUpTo
    <2>5. Piece(url[m + 1], f) \in Templates
      BY <1>4, <2>2, PieceIsTyped
    <2>6. p[m + 1] \in Templates
      BY <2>3, <2>4, <2>5, ConcatProperties DEF Templates
    <2>7. Replacing(p[m] \o Piece(url[m + 1], f), q[m] \o Piece(url[m + 1], g), n, value)
      BY <1>4, <1>5, <2>2, <2>3, <2>5, ReplacingGoesOn DEF S
    <2>. QED
      BY <2>4, <2>6, <2>7
  <1>8. Nat \subseteq fine
    BY <1>6, <1>7, EveryNatural
  <1> DEFINE from == AtOnce(url, f)
             to == AtOnce(url, g)
  <1>9. from \in Templates /\ Replacing(from, to, n, value)
    BY <1>1, <1>2, <1>3, <1>8 DEF ReplacesUpTo
  <1>10. Count(from, n) = 1
    OBVIOUS
  <1> HIDE DEF from, to, fine
  <1>11. /\ \E i \in 1 .. Len(from) : from[i].var = n
         /\ ~\E i, j \in 1 .. Len(from) : i # j /\ from[i].var = n /\ from[j].var = n
    BY <1>9, <1>10, OccursOnce
  <1>12. PICK low \in Templates, high \in Templates : \E e \in S :
            from = (low \o <<e>>) \o high /\ e.var = n /\ Without(low, n) /\ to = (low \o value) \o high
    BY <1>9, <1>11 DEF Replacing, Without, S
  <1>13. PICK e \in S : from = (low \o <<e>>) \o high /\ e.var = n /\ Without(low, n) /\ to = (low \o value) \o high
    BY <1>12
  <1>15. Replaced((low \o <<e>>) \o high, e.var, value) = (low \o value) \o high
    <2>1. \A i \in 1 .. Len(low) : low[i].var # e.var
      BY <1>13 DEF Without
    <2>. QED
      BY <1>4, <2>1, ReplacedPiece DEF S
  <1>. QED
    BY <1>13, <1>15 DEF from, to, value

\* What all replacements at once leave is a template.
LEMMA AtOnceIsTyped ==
  ASSUME NEW url \in Templates, NEW values, \A m \in DOMAIN values : values[m] \in Templates
  PROVE  /\ AtOnce(url, values) \in Templates
         /\ \E upTo : ReplacesUpTo(upTo, url, values) /\ \A k \in 0 .. Len(url) : upTo[k] \in Templates
  <1>1. Len(url) \in Nat
    BY DEF Templates
  <1>2. PICK upTo : ReplacesUpTo(upTo, url, values)
    BY AtOnceUnfolds
  <1> DEFINE fine == {k \in Nat : k <= Len(url) => upTo[k] \in Templates}
  <1>3. 0 \in fine
    <2>1. upTo[0] = <<>> /\ <<>> \in Templates
      BY <1>2 DEF ReplacesUpTo, Templates
    <2>. QED
      BY <2>1
  <1>4. ASSUME NEW m \in Nat, m \in fine PROVE m + 1 \in fine
    <2>1. SUFFICES ASSUME m + 1 <= Len(url) PROVE upTo[m + 1] \in Templates
      OBVIOUS
    <2>2. m <= Len(url) /\ m + 1 \in 1 .. Len(url) /\ (m + 1) - 1 = m
      BY <1>1, <2>1
    <2>3. upTo[m] \in Templates /\ upTo[m + 1] = upTo[m] \o Piece(url[m + 1], values)
      BY <1>2, <1>4, <2>2 DEF ReplacesUpTo
    <2>4. Piece(url[m + 1], values) \in Templates
      BY <2>2, PieceIsTyped
    <2>. QED
      BY <2>3, <2>4, ConcatProperties DEF Templates
  <1>5. Nat \subseteq fine
    BY <1>3, <1>4, EveryNatural
  <1>6. \A k \in 0 .. Len(url) : upTo[k] \in Templates
    BY <1>1, <1>5
  <1>7. AtOnce(url, values) \in Templates
    BY <1>1, <1>2, <1>6 DEF ReplacesUpTo
  <1>. QED
    BY <1>2, <1>6, <1>7

\* Without a value the URL stays.
LEMMA NothingIsReplaced ==
  ASSUME NEW url \in Templates, NEW values, DOMAIN values = {}
  PROVE  AtOnce(url, values) = url
  <1>1. Len(url) \in Nat /\ url \in Seq(UrlPieces)
    BY DEF Templates
  <1>2. PICK upTo : ReplacesUpTo(upTo, url, values)
    BY AtOnceUnfolds
  <1> DEFINE starts(k) == /\ upTo[k] \in Seq(UrlPieces) /\ Len(upTo[k]) = k
                          /\ \A i \in 1 .. k : upTo[k][i] = url[i]
             fine == {k \in Nat : k <= Len(url) => starts(k)}
  <1>3. 0 \in fine
    <2>1. upTo[0] = <<>>
      BY <1>2 DEF ReplacesUpTo
    <2>2. <<>> \in Seq(UrlPieces) /\ Len(<<>>) = 0
      OBVIOUS
    <2>3. starts(0)
      BY <2>1, <2>2
    <2>. QED
      BY <2>3
  <1>4. ASSUME NEW m \in Nat, m \in fine PROVE m + 1 \in fine
    <2>1. SUFFICES ASSUME m + 1 <= Len(url) PROVE starts(m + 1)
      OBVIOUS
    <2>2. m <= Len(url) /\ m + 1 \in 1 .. Len(url) /\ (m + 1) - 1 = m
      BY <1>1, <2>1
    <2>3. starts(m) /\ upTo[m + 1] = upTo[m] \o <<url[m + 1]>> /\ url[m + 1] \in UrlPieces
      BY <1>1, <1>2, <1>4, <2>2 DEF ReplacesUpTo, Piece
    <2>4. /\ upTo[m] \o <<url[m + 1]>> \in Seq(UrlPieces) /\ Len(upTo[m] \o <<url[m + 1]>>) = m + 1
          /\ \A i \in 1 .. m + 1 : (upTo[m] \o <<url[m + 1]>>)[i] = IF i <= m THEN upTo[m][i] ELSE url[m + 1]
      BY <2>3
    <2>5. ASSUME NEW i \in 1 .. m + 1 PROVE upTo[m + 1][i] = url[i]
      <3>1. CASE i <= m
        BY <2>3, <2>4, <3>1
      <3>2. CASE i = m + 1
        <4>1. ~(i <= m) /\ i \in 1 .. m + 1
          BY <3>2
        <4>2. (upTo[m] \o <<url[m + 1]>>)[i] = url[m + 1]
          BY <2>4, <4>1
        <4>. QED
          BY <2>3, <3>2, <4>2
      <3>. QED
        BY <3>1, <3>2
    <2>. QED
      BY <2>3, <2>4, <2>5
  <1>5. Nat \subseteq fine
    BY <1>3, <1>4, EveryNatural
  <1>6. starts(Len(url)) /\ AtOnce(url, values) = upTo[Len(url)]
    BY <1>1, <1>2, <1>5 DEF ReplacesUpTo
  <1>. QED
    BY <1>1, <1>6, SeqEqual

\* An expression without a value is still there.
LEMMA WhatIsLeft ==
  ASSUME NEW url \in Templates, NEW values, \A m \in DOMAIN values : values[m] \in Templates,
         NEW i \in 1 .. Len(url), url[i].var \notin DOMAIN values
  PROVE  \E j \in 1 .. Len(AtOnce(url, values)) : AtOnce(url, values)[j] = url[i]
  <1>1. Len(url) \in Nat /\ url[i] \in UrlPieces
    BY DEF Templates
  <1>2. PICK upTo : ReplacesUpTo(upTo, url, values) /\ \A k \in 0 .. Len(url) : upTo[k] \in Templates
    BY AtOnceIsTyped
  <1> DEFINE there(k) == \E j \in 1 .. Len(upTo[k]) : upTo[k][j] = url[i]
             fine == {k \in Nat : i + k <= Len(url) => there(i + k)}
  <1>3. i - 1 \in 0 .. Len(url) /\ i \in 0 .. Len(url) /\ upTo[i - 1] \in Templates
    BY <1>1, <1>2
  <1>4. 0 \in fine
    <2>1. upTo[i] = upTo[i - 1] \o <<url[i]>>
      BY <1>2 DEF ReplacesUpTo, Piece
    <2>2. /\ Len(upTo[i - 1]) \in Nat /\ Len(upTo[i - 1] \o <<url[i]>>) = Len(upTo[i - 1]) + 1
          /\ (upTo[i - 1] \o <<url[i]>>)[Len(upTo[i - 1]) + 1] = url[i]
      BY <1>1, <1>3 DEF Templates
    <2>. QED
      BY <2>1, <2>2
  <1>5. ASSUME NEW m \in Nat, m \in fine PROVE m + 1 \in fine
    <2>1. SUFFICES ASSUME i + (m + 1) <= Len(url) PROVE there(i + (m + 1))
      OBVIOUS
    <2> DEFINE n == i + (m + 1)
    <2>2. i + m <= Len(url) /\ n \in 1 .. Len(url) /\ n - 1 = i + m /\ i + m \in 0 .. Len(url)
      BY <1>1, <2>1
    <2>3. there(i + m)
      BY <1>5, <2>2
    <2> HIDE DEF n
    <2>4. upTo[n] = upTo[i + m] \o Piece(url[n], values) /\ upTo[i + m] \in Templates
      BY <1>2, <2>2 DEF ReplacesUpTo
    <2>5. Piece(url[n], values) \in Templates
      BY <2>2, PieceIsTyped
    <2>6. PICK j \in 1 .. Len(upTo[i + m]) : upTo[i + m][j] = url[i]
      BY <2>3
    <2>7. j \in 1 .. Len(upTo[n]) /\ upTo[n][j] = upTo[i + m][j]
      <3> DEFINE low == upTo[i + m]
                 p == Piece(url[n], values)
      <3>1. low \in Seq(UrlPieces) /\ p \in Seq(UrlPieces) /\ j \in 1 .. Len(low) /\ upTo[n] = low \o p
        BY <2>4, <2>5 DEF Templates
      <3> HIDE DEF low, p
      <3>2. Len(low) \in Nat /\ Len(p) \in Nat /\ Len(low \o p) = Len(low) + Len(p)
            /\ \A k \in 1 .. Len(low) + Len(p) : (low \o p)[k] = IF k <= Len(low) THEN low[k] ELSE p[k - Len(low)]
        BY <3>1, ConcatProperties
      <3>3. j \in 1 .. Len(low \o p) /\ (low \o p)[j] = low[j]
        BY <3>1, <3>2
      <3>. QED
        BY <3>1, <3>3 DEF low
    <2>8. there(n)
      BY <2>6, <2>7
    <2>. QED
      BY <2>8 DEF n
  <1>6. Nat \subseteq fine
    BY <1>4, <1>5, EveryNatural
  <1>7. Len(url) - i \in Nat /\ i + (Len(url) - i) = Len(url)
    BY <1>1
  <1>8. there(Len(url))
    <2> HIDE DEF there
    <2>1. Len(url) - i \in fine
      BY <1>6, <1>7
    <2>. QED
      BY <1>1, <1>7, <2>1
  <1>. QED
    BY <1>2, <1>8 DEF ReplacesUpTo

\* The declared variables, one after the other.
FilledUpTo(filled, server, supplied, v30) ==
  /\ filled[0] = Url(server.url)
  /\ \A n \in 1 .. Names :
        filled[n] = IF n \in DOMAIN server.variables
                    THEN SubstituteVariable(filled[n - 1], server.variables[n], n, supplied, v30) ELSE filled[n - 1]
  /\ DeclaredFilled(server, supplied, v30) = filled[Names]

LEMMA DeclaredUnfolds ==
  ASSUME Names \in Nat, NEW server, NEW supplied, NEW v30
  PROVE  \E filled : FilledUpTo(filled, server, supplied, v30)
  <1> DEFINE Next(g, n) == IF n \in DOMAIN server.variables
                           THEN SubstituteVariable(g, server.variables[n], n, supplied, v30) ELSE g
             From(f, m) == [n \in 0 .. m |-> IF n = 0 THEN Url(server.url) ELSE Next(f[n - 1], n)]
             filled == CHOOSE f : f = From(f, Names)
             defined == {m \in Nat : \E f : f = From(f, m)}
  <1>0. DeclaredFilled(server, supplied, v30) = filled[Names]
    BY DEF DeclaredFilled
  <1> HIDE DEF Next
  <1>2. Nat \subseteq defined
    <2>1. 0 \in defined
      <3>1. [n \in 0 .. 0 |-> Url(server.url)] = From([n \in 0 .. 0 |-> Url(server.url)], 0)
        OBVIOUS
      <3>. QED
        BY <3>1
    <2>2. ASSUME NEW m \in Nat, m \in defined PROVE m + 1 \in defined
      <3>1. PICK f : f = From(f, m)
        BY <2>2
      <3> DEFINE g == [n \in 0 .. (m + 1) |-> IF n = m + 1 THEN Next(f[m], m + 1) ELSE f[n]]
      <3>2. \A n \in 0 .. m : f[n] = IF n = 0 THEN Url(server.url) ELSE Next(f[n - 1], n)
        BY <3>1
      <3>3. \A n \in 0 .. (m + 1) : g[n] = IF n = 0 THEN Url(server.url) ELSE Next(g[n - 1], n)
        BY <3>2
      <3>4. g = From(g, m + 1)
        BY <3>3
      <3> HIDE DEF g
      <3>. QED
        BY <3>4
    <2>. QED
      BY <2>1, <2>2, EveryNatural
  <1>3. filled = From(filled, Names)
    <2>1. \E f : f = From(f, Names)
      BY <1>2
    <2>. QED
      BY <2>1
  <1>4. \A n \in 0 .. Names : filled[n] = IF n = 0 THEN Url(server.url) ELSE Next(filled[n - 1], n)
    BY <1>3
  <1> HIDE DEF filled
  <1>5. filled[0] = Url(server.url) /\ \A n \in 1 .. Names : filled[n] = Next(filled[n - 1], n)
    BY <1>4
  <1>6. FilledUpTo(filled, server, supplied, v30)
    BY <1>0, <1>5 DEF Next, FilledUpTo
  <1>. QED
    BY <1>6

\* The other variables, one after the other.
OthersUpTo(filled, server, supplied, v30) ==
  /\ filled[0] = DeclaredFilled(server, supplied, v30)
  /\ \A n \in 1 .. Names :
        filled[n] = IF n \in DOMAIN supplied \ DOMAIN server.variables
                    THEN SubstituteExtra(filled[n - 1], n, supplied) ELSE filled[n - 1]
  /\ AllFilled(server, supplied, v30) = filled[Names]

LEMMA OthersUnfold ==
  ASSUME Names \in Nat, NEW server, NEW supplied, NEW v30
  PROVE  \E filled : OthersUpTo(filled, server, supplied, v30)
  <1> DEFINE Next(g, n) == IF n \in DOMAIN supplied \ DOMAIN server.variables
                           THEN SubstituteExtra(g, n, supplied) ELSE g
             From(f, m) == [n \in 0 .. m |-> IF n = 0 THEN DeclaredFilled(server, supplied, v30) ELSE Next(f[n - 1], n)]
             filled == CHOOSE f : f = From(f, Names)
             defined == {m \in Nat : \E f : f = From(f, m)}
  <1>0. AllFilled(server, supplied, v30) = filled[Names]
    BY DEF AllFilled
  <1> HIDE DEF Next
  <1>2. Nat \subseteq defined
    <2>1. 0 \in defined
      <3>1. [n \in 0 .. 0 |-> DeclaredFilled(server, supplied, v30)] = From([n \in 0 .. 0 |-> DeclaredFilled(server, supplied, v30)], 0)
        OBVIOUS
      <3>. QED
        BY <3>1
    <2>2. ASSUME NEW m \in Nat, m \in defined PROVE m + 1 \in defined
      <3>1. PICK f : f = From(f, m)
        BY <2>2
      <3> DEFINE g == [n \in 0 .. (m + 1) |-> IF n = m + 1 THEN Next(f[m], m + 1) ELSE f[n]]
      <3>2. \A n \in 0 .. m : f[n] = IF n = 0 THEN DeclaredFilled(server, supplied, v30) ELSE Next(f[n - 1], n)
        BY <3>1
      <3>3. \A n \in 0 .. (m + 1) : g[n] = IF n = 0 THEN DeclaredFilled(server, supplied, v30) ELSE Next(g[n - 1], n)
        BY <3>2
      <3>4. g = From(g, m + 1)
        BY <3>3
      <3> HIDE DEF g
      <3>. QED
        BY <3>4
    <2>. QED
      BY <2>1, <2>2, EveryNatural
  <1>3. filled = From(filled, Names)
    <2>1. \E f : f = From(f, Names)
      BY <1>2
    <2>. QED
      BY <2>1
  <1>4. \A n \in 0 .. Names : filled[n] = IF n = 0 THEN DeclaredFilled(server, supplied, v30) ELSE Next(filled[n - 1], n)
    BY <1>3
  <1> HIDE DEF filled
  <1>5. filled[0] = DeclaredFilled(server, supplied, v30) /\ \A n \in 1 .. Names : filled[n] = Next(filled[n - 1], n)
    BY <1>4
  <1>6. OthersUpTo(filled, server, supplied, v30)
    BY <1>0, <1>5 DEF Next, OthersUpTo
  <1>. QED
    BY <1>6

\* The servers that are kept, one after the other.
KeptUpTo(kept, c) ==
  /\ kept[0] = <<>>
  /\ \A n \in 1 .. Len(EffectiveServers(c)) :
        kept[n] = IF SoundServer(c, EffectiveServers(c)[n]) THEN Append(kept[n - 1], EffectiveServers(c)[n]) ELSE kept[n - 1]
  /\ Eligible(c) = kept[Len(EffectiveServers(c))]

LEMMA EligibleUnfolds ==
  ASSUME NEW c, Len(EffectiveServers(c)) \in Nat
  PROVE  \E kept : KeptUpTo(kept, c)
  <1> DEFINE Next(g, n) == IF SoundServer(c, EffectiveServers(c)[n]) THEN Append(g, EffectiveServers(c)[n]) ELSE g
             From(f, m) == [n \in 0 .. m |-> IF n = 0 THEN <<>> ELSE Next(f[n - 1], n)]
             kept == CHOOSE f : f = From(f, Len(EffectiveServers(c)))
             defined == {m \in Nat : \E f : f = From(f, m)}
  <1>0. Eligible(c) = kept[Len(EffectiveServers(c))]
    BY DEF Eligible
  <1> HIDE DEF Next
  <1>2. Nat \subseteq defined
    <2>1. 0 \in defined
      <3>1. [n \in 0 .. 0 |-> <<>>] = From([n \in 0 .. 0 |-> <<>>], 0)
        OBVIOUS
      <3>. QED
        BY <3>1
    <2>2. ASSUME NEW m \in Nat, m \in defined PROVE m + 1 \in defined
      <3>1. PICK f : f = From(f, m)
        BY <2>2
      <3> DEFINE g == [n \in 0 .. (m + 1) |-> IF n = m + 1 THEN Next(f[m], m + 1) ELSE f[n]]
      <3>2. \A n \in 0 .. m : f[n] = IF n = 0 THEN <<>> ELSE Next(f[n - 1], n)
        BY <3>1
      <3>3. \A n \in 0 .. (m + 1) : g[n] = IF n = 0 THEN <<>> ELSE Next(g[n - 1], n)
        BY <3>2
      <3>4. g = From(g, m + 1)
        BY <3>3
      <3> HIDE DEF g
      <3>. QED
        BY <3>4
    <2>. QED
      BY <2>1, <2>2, EveryNatural
  <1>3. kept = From(kept, Len(EffectiveServers(c)))
    <2>1. \E f : f = From(f, Len(EffectiveServers(c)))
      BY <1>2
    <2>. QED
      BY <2>1
  <1>4. \A n \in 0 .. Len(EffectiveServers(c)) : kept[n] = IF n = 0 THEN <<>> ELSE Next(kept[n - 1], n)
    BY <1>3
  <1> HIDE DEF kept
  <1>5. kept[0] = <<>> /\ \A n \in 1 .. Len(EffectiveServers(c)) : kept[n] = Next(kept[n - 1], n)
    BY <1>4
  <1>6. KeptUpTo(kept, c)
    BY <1>0, <1>5 DEF Next, KeptUpTo
  <1>. QED
    BY <1>6

\* A replacement leaves a template.
LEMMA ReplacedIsTyped ==
  ASSUME NEW url \in Templates, NEW n, Count(url, n) = 1, NEW value \in Templates
  PROVE  Replaced(url, n, value) \in Templates
  <1> DEFINE first == CHOOSE k \in DOMAIN url : url[k].var = n /\ \A j \in DOMAIN url : url[j].var = n => k <= j
  <1>1. Len(url) \in Nat /\ DOMAIN url = 1 .. Len(url)
    BY DEF Templates
  <1>2. PICK i \in 1 .. Len(url) : url[i].var = n /\ \A j \in 1 .. Len(url) : url[j].var = n => j = i
    BY OccursOnce
  <1>3. i \in DOMAIN url /\ \A j \in DOMAIN url : url[j].var = n => i <= j
    BY <1>1, <1>2
  <1>4. first \in DOMAIN url
    BY <1>2, <1>3
  <1>5. Replaced(url, n, value) = (SubSeq(url, 1, first - 1) \o value) \o SubSeq(url, first + 1, Len(url))
    BY DEF Replaced
  <1> HIDE DEF first
  <1>6. ASSUME NEW a \in Int, NEW b \in Int, 1 <= a, b <= Len(url) PROVE SubSeq(url, a, b) \in Templates
    <2>1. \A k \in a .. b : url[k] \in UrlPieces
      BY <1>1, <1>6 DEF Templates
    <2>. QED
      BY <2>1, SubSeqProperties DEF Templates
  <1>7. SubSeq(url, 1, first - 1) \in Templates /\ SubSeq(url, first + 1, Len(url)) \in Templates
    <2>1. first - 1 \in Int /\ first + 1 \in Int /\ Len(url) \in Int /\ 1 <= first + 1 /\ first - 1 <= Len(url)
      BY <1>1, <1>4
    <2>. QED
      BY <1>6, <2>1
  <1>8. \A x, y \in Templates : x \o y \in Templates
    BY ConcatProperties DEF Templates
  <1>. QED
    BY <1>5, <1>7, <1>8

\* The values of the variables D, and what filling these in has to give.
ValuesOf(server, supplied, D) == [m \in D |-> Chosen(server.variables[m], supplied, m)]

AllPlain(server, supplied, D) == \A m \in D : Chosen(server.variables[m], supplied, m) \in PlainURLs

FilledRight(acc, server, supplied, D) ==
  acc.is = "url" =>
    /\ acc.url \in Templates
    /\ \A m \in D \cap DOMAIN server.variables :
          /\ Chosen(server.variables[m], supplied, m) # Missing
          /\ server.variables[m].closed =>
                Chosen(server.variables[m], supplied, m) \in server.variables[m].enum
    /\ AllPlain(server, supplied, D) => acc.url = AtOnce(server.url, ValuesOf(server, supplied, D))

\* A variable's value is a template.
ValuesAreTyped(server, supplied) ==
  \A m \in DOMAIN server.variables \cup DOMAIN supplied : Chosen(server.variables[m], supplied, m) \in Templates

\* One variable more filled in.
LEMMA FillsOneMore ==
  ASSUME Names \in Nat, NEW server, server.url \in Templates, NEW supplied, NEW D \in SUBSET (1 .. Names),
         NEW n \in 1 .. Names, n \notin D, NEW url, AllPlain(server, supplied, D \cup {n}),
         AllPlain(server, supplied, D) => url = AtOnce(server.url, ValuesOf(server, supplied, D)),
         Count(url, n) = 1
  PROVE  Replaced(url, n, Chosen(server.variables[n], supplied, n))
           = AtOnce(server.url, ValuesOf(server, supplied, D \cup {n}))
  <1> DEFINE f == ValuesOf(server, supplied, D)
             g == ValuesOf(server, supplied, D \cup {n})
             from == server.url
  <1>1. /\ DOMAIN f = D /\ DOMAIN g = D \cup {n} /\ \A m \in D : g[m] = f[m]
        /\ g[n] = Chosen(server.variables[n], supplied, n)
        /\ \A m \in D : f[m] = Chosen(server.variables[m], supplied, m)
    BY DEF ValuesOf
  <1>2. (\A m \in D : f[m] \in PlainURLs) /\ g[n] \in PlainURLs /\ url = AtOnce(from, f)
    BY <1>1 DEF AllPlain
  <1>3. Count(AtOnce(from, f), n) = 1
    BY <1>2
  <1> HIDE DEF f, g, from
  <1>4. from \in Templates /\ \A m \in DOMAIN f : f[m] \in PlainURLs /\ g[m] = f[m]
    BY <1>1, <1>2 DEF from
  <1>5. AtOnce(from, g) = Replaced(AtOnce(from, f), n, g[n])
    BY <1>1, <1>2, <1>3, <1>4, OneMore
  <1>. QED
    BY <1>1, <1>2, <1>5 DEF from, g

\* The declared variables are filled in with allowed values.
LEMMA DeclaredAreFilled ==
  ASSUME Names \in Nat, NEW server, server.url \in Templates, DOMAIN server.variables \subseteq 1 .. Names,
         NEW supplied, ValuesAreTyped(server, supplied), NEW v30
  PROVE  FilledRight(DeclaredFilled(server, supplied, v30), server, supplied, DOMAIN server.variables)
  <1>1. PICK filled : FilledUpTo(filled, server, supplied, v30)
    BY DeclaredUnfolds
  <1> DEFINE D(n) == 1 .. n \cap DOMAIN server.variables
             fine == {n \in Nat : n <= Names => FilledRight(filled[n], server, supplied, D(n))}
  <1>2. 0 \in fine
    <2>1. filled[0] = Url(server.url)
      BY <1>1 DEF FilledUpTo
    <2>2. D(0) = {}
      OBVIOUS
    <2>3. DOMAIN ValuesOf(server, supplied, {}) = {}
      BY DEF ValuesOf
    <2>4. AtOnce(server.url, ValuesOf(server, supplied, {})) = server.url
      BY <2>3, NothingIsReplaced
    <2>5. FilledRight(filled[0], server, supplied, {})
      BY <2>1, <2>4 DEF FilledRight, Url
    <2>. QED
      BY <2>2, <2>5
  <1>3. ASSUME NEW k \in Nat, k \in fine PROVE k + 1 \in fine
    <2> DEFINE n == k + 1
               acc == filled[k]
               var == server.variables[n]
               value == Chosen(var, supplied, n)
    <2>1. SUFFICES ASSUME n <= Names PROVE FilledRight(filled[n], server, supplied, D(n))
      OBVIOUS
    <2>2. n \in 1 .. Names /\ n - 1 = k /\ k <= Names
      BY <2>1
    <2>3. FilledRight(acc, server, supplied, D(k))
      BY <1>3, <2>2
    <2>4. filled[n] = IF n \in DOMAIN server.variables
                      THEN SubstituteVariable(acc, var, n, supplied, v30) ELSE acc
      BY <1>1, <2>2 DEF FilledUpTo
    <2>5. CASE n \notin DOMAIN server.variables
      <3>1. D(n) = D(k)
        BY <2>5
      <3>. QED
        BY <2>3, <2>4, <2>5, <3>1
    <2>6. CASE n \in DOMAIN server.variables
      <3>1. D(n) = D(k) \cup {n} /\ n \notin D(k) /\ D(k) \in SUBSET (1 .. Names)
        BY <2>2, <2>6
      <3>2. SUFFICES ASSUME filled[n].is = "url" PROVE FilledRight(filled[n], server, supplied, D(k) \cup {n})
        BY <3>1 DEF FilledRight
      <3>3. filled[n] = SubstituteVariable(acc, var, n, supplied, v30)
        BY <2>4, <2>6
      <3>4. /\ acc.is = "url" /\ Count(acc.url, n) = 1 /\ value # Missing
            /\ ~(var.closed /\ value \notin var.enum) /\ filled[n].url = Replaced(acc.url, n, value)
        BY <3>2, <3>3 DEF SubstituteVariable, Defect, Required, Url
      <3> HIDE DEF D, acc, fine
      <3>5. /\ acc.url \in Templates
            /\ \A m \in D(k) \cap DOMAIN server.variables :
                  /\ Chosen(server.variables[m], supplied, m) # Missing
                  /\ server.variables[m].closed =>
                        Chosen(server.variables[m], supplied, m) \in server.variables[m].enum
            /\ AllPlain(server, supplied, D(k)) => acc.url = AtOnce(server.url, ValuesOf(server, supplied, D(k)))
        BY <2>3, <3>4 DEF FilledRight
      <3>6. ASSUME AllPlain(server, supplied, D(k) \cup {n})
            PROVE  filled[n].url = AtOnce(server.url, ValuesOf(server, supplied, D(k) \cup {n}))
        <4> DEFINE url == acc.url
        <4>1. Count(url, n) = 1 /\ (AllPlain(server, supplied, D(k)) => url = AtOnce(server.url, ValuesOf(server, supplied, D(k))))
          BY <3>4, <3>5
        <4> HIDE DEF url, n
        <4>2. Replaced(url, n, Chosen(server.variables[n], supplied, n))
                = AtOnce(server.url, ValuesOf(server, supplied, D(k) \cup {n}))
          BY <2>2, <3>1, <3>6, <4>1, FillsOneMore
        <4>. QED
          BY <3>4, <4>2 DEF url
      <3>7. \A m \in (D(k) \cup {n}) \cap DOMAIN server.variables :
               /\ Chosen(server.variables[m], supplied, m) # Missing
               /\ server.variables[m].closed =>
                     Chosen(server.variables[m], supplied, m) \in server.variables[m].enum
        BY <3>4, <3>5
      <3>8. filled[n].url \in Templates
        <4>1. value \in Templates
          BY <2>6 DEF ValuesAreTyped
        <4> HIDE DEF value
        <4>. QED
          BY <3>4, <3>5, <4>1, ReplacedIsTyped
      <3>. QED
        BY <3>6, <3>7, <3>8 DEF FilledRight
    <2>. QED
      BY <2>5, <2>6
  <1>4. Nat \subseteq fine
    BY <1>2, <1>3, EveryNatural
  <1>5. D(Names) = DOMAIN server.variables
    OBVIOUS
  <1>6. FilledRight(filled[Names], server, supplied, D(Names))
    <2> HIDE DEF D
    <2>. QED
      BY <1>4
  <1>. QED
    BY <1>1, <1>5, <1>6 DEF FilledUpTo

\* A piece in front of a URL.
LEMMA HostInFront ==
  ASSUME NEW S, NEW url \in Seq(S), NEW host
  PROVE  LET longer == <<host>> \o url IN
         /\ Len(url) \in Nat /\ DOMAIN url = 1 .. Len(url) /\ longer[1] = host
         /\ DOMAIN longer = 1 .. Len(url) + 1
         /\ \A i \in 2 .. Len(url) + 1 : longer[i] = url[i - 1]
  <1> DEFINE T == S \cup {host}
             longer == <<host>> \o url
  <1>1. url \in Seq(T) /\ Len(url) \in Nat /\ DOMAIN url = 1 .. Len(url)
    OBVIOUS
  <1>2. <<host>> \in Seq(T) /\ Len(<<host>>) = 1
    OBVIOUS
  <1>3. /\ longer \in Seq(T) /\ Len(longer) = 1 + Len(url)
        /\ \A i \in 1 .. 1 + Len(url) : longer[i] = IF i <= 1 THEN <<host>>[i] ELSE url[i - 1]
    <2> HIDE DEF T
    <2>. QED
      BY <1>1, <1>2, ConcatProperties
  <1> HIDE DEF T, longer
  <1>4. DOMAIN longer = 1 .. Len(url) + 1
    BY <1>1, <1>3
  <1>5. longer[1] = host
    BY <1>1, <1>3
  <1>6. \A i \in 2 .. Len(url) + 1 : longer[i] = url[i - 1]
    BY <1>1, <1>3
  <1>. QED
    BY <1>1, <1>4, <1>5, <1>6 DEF longer

\* The other variables are filled in after them.
LEMMA AllAreFilled ==
  ASSUME Names \in Nat, NEW server, server.url \in Templates, DOMAIN server.variables \subseteq 1 .. Names,
         NEW supplied, DOMAIN supplied \subseteq 1 .. Names, ValuesAreTyped(server, supplied), NEW v30
  PROVE  FilledRight(AllFilled(server, supplied, v30), server, supplied, DOMAIN server.variables \cup DOMAIN supplied)
  <1>1. PICK filled : OthersUpTo(filled, server, supplied, v30)
    BY OthersUnfold
  <1> DEFINE D(n) == DOMAIN server.variables \cup (1 .. n \cap DOMAIN supplied)
             fine == {n \in Nat : n <= Names => FilledRight(filled[n], server, supplied, D(n))}
  <1>2. 0 \in fine
    <2>1. D(0) = DOMAIN server.variables
      OBVIOUS
    <2>2. FilledRight(filled[0], server, supplied, DOMAIN server.variables)
      BY <1>1, DeclaredAreFilled DEF OthersUpTo
    <2>. QED
      BY <2>1, <2>2
  <1>3. ASSUME NEW k \in Nat, k \in fine PROVE k + 1 \in fine
    <2> DEFINE n == k + 1
               acc == filled[k]
    <2>1. SUFFICES ASSUME n <= Names PROVE FilledRight(filled[n], server, supplied, D(n))
      OBVIOUS
    <2>2. n \in 1 .. Names /\ n - 1 = k /\ k <= Names
      BY <2>1
    <2>3. FilledRight(acc, server, supplied, D(k))
      BY <1>3, <2>2
    <2>4. filled[n] = IF n \in DOMAIN supplied \ DOMAIN server.variables
                      THEN SubstituteExtra(acc, n, supplied) ELSE acc
      BY <1>1, <2>2 DEF OthersUpTo
    <2>5. CASE n \notin DOMAIN supplied \ DOMAIN server.variables
      <3>1. D(n) = D(k)
        BY <2>5
      <3>. QED
        BY <2>3, <2>4, <2>5, <3>1
    <2>6. CASE n \in DOMAIN supplied \ DOMAIN server.variables
      <3>1. D(n) = D(k) \cup {n} /\ n \notin D(k) /\ D(k) \in SUBSET (1 .. Names)
        BY <2>2, <2>6
      <3>2. SUFFICES ASSUME filled[n].is = "url" PROVE FilledRight(filled[n], server, supplied, D(k) \cup {n})
        BY <3>1 DEF FilledRight
      <3>3. filled[n] = SubstituteExtra(acc, n, supplied)
        BY <2>4, <2>6
      <3>4. /\ acc.is = "url" /\ Count(acc.url, n) = 1
            /\ filled[n].url = Replaced(acc.url, n, Chosen(server.variables[n], supplied, n))
        BY <2>6, <3>2, <3>3 DEF SubstituteExtra, Defect, Url, Chosen
      <3>5. (D(k) \cup {n}) \cap DOMAIN server.variables = D(k) \cap DOMAIN server.variables
        BY <2>6
      <3> HIDE DEF D, acc, fine
      <3>6. /\ acc.url \in Templates
            /\ \A m \in D(k) \cap DOMAIN server.variables :
                  /\ Chosen(server.variables[m], supplied, m) # Missing
                  /\ server.variables[m].closed =>
                        Chosen(server.variables[m], supplied, m) \in server.variables[m].enum
            /\ AllPlain(server, supplied, D(k)) => acc.url = AtOnce(server.url, ValuesOf(server, supplied, D(k)))
        BY <2>3, <3>4 DEF FilledRight
      <3>7. ASSUME AllPlain(server, supplied, D(k) \cup {n})
            PROVE  filled[n].url = AtOnce(server.url, ValuesOf(server, supplied, D(k) \cup {n}))
        <4> DEFINE url == acc.url
        <4>1. Count(url, n) = 1 /\ (AllPlain(server, supplied, D(k)) => url = AtOnce(server.url, ValuesOf(server, supplied, D(k))))
          BY <3>4, <3>6
        <4> HIDE DEF url, n
        <4>2. Replaced(url, n, Chosen(server.variables[n], supplied, n))
                = AtOnce(server.url, ValuesOf(server, supplied, D(k) \cup {n}))
          BY <2>2, <3>1, <3>7, <4>1, FillsOneMore
        <4>. QED
          BY <3>4, <4>2 DEF url
      <3>8. filled[n].url \in Templates
        <4> DEFINE value == Chosen(server.variables[n], supplied, n)
        <4>1. value \in Templates
          BY <2>6 DEF ValuesAreTyped
        <4> HIDE DEF value
        <4>2. filled[n].url = Replaced(acc.url, n, value)
          BY <3>4 DEF value
        <4>. QED
          BY <3>4, <3>6, <4>1, <4>2, ReplacedIsTyped
      <3>. QED
        BY <3>5, <3>6, <3>7, <3>8 DEF FilledRight
    <2>. QED
      BY <2>5, <2>6
  <1>4. Nat \subseteq fine
    BY <1>2, <1>3, EveryNatural
  <1>5. D(Names) = DOMAIN server.variables \cup DOMAIN supplied
    OBVIOUS
  <1>6. FilledRight(filled[Names], server, supplied, D(Names))
    <2> HIDE DEF D
    <2>. QED
      BY <1>4
  <1>. QED
    BY <1>1, <1>5, <1>6 DEF OthersUpTo

\* Of a server all of whose expressions are replaced, each had a value.
LEMMA EachHadAValue ==
  ASSUME Names \in Nat, NEW server, server.url \in Templates, NEW supplied, NEW D,
         AllPlain(server, supplied, D), NEW url, url = AtOnce(server.url, ValuesOf(server, supplied, D)),
         \A i \in DOMAIN url : url[i].var = 0
  PROVE  \A i \in DOMAIN server.url : server.url[i].var # 0 => server.url[i].var \in D
  <1> DEFINE from == server.url
             values == ValuesOf(server, supplied, D)
  <1>1. DOMAIN values = D /\ \A m \in D : values[m] \in PlainURLs
    BY DEF ValuesOf, AllPlain
  <1>2. \A m \in DOMAIN values : values[m] \in Templates
    BY <1>1, PlainIsATemplate
  <1>3. from \in Templates /\ DOMAIN from = 1 .. Len(from)
    BY DEF Templates
  <1> HIDE DEF from, values
  <1>4. AtOnce(from, values) \in Templates
    BY <1>2, <1>3, AtOnceIsTyped
  <1>5. url = AtOnce(from, values) /\ DOMAIN url = 1 .. Len(url)
    BY <1>4 DEF from, values, Templates
  <1>6. ASSUME NEW i \in DOMAIN from, from[i].var # 0 PROVE from[i].var \in D
    <2>1. SUFFICES ASSUME from[i].var \notin DOMAIN values PROVE FALSE
      BY <1>1
    <2>2. PICK j \in 1 .. Len(AtOnce(from, values)) : AtOnce(from, values)[j] = from[i]
      BY <1>2, <1>3, <2>1, WhatIsLeft
    <2>. QED
      BY <1>5, <1>6, <2>2
  <1>. QED
    BY <1>6 DEF from

\* A completed URL has the scheme and no query, and is what it was or has the host in front.
LEMMA AbsoluteIsChecked ==
  ASSUME NEW answer, NEW location, answer.is = "url" => \A i \in DOMAIN answer.url : answer.url[i].var = 0,
         answer.is = "url" => answer.url \in Templates,
         Absolutized(answer, location).is = "url"
  PROVE  LET to == Absolutized(answer, location).url IN
         /\ answer.is = "url" /\ to[1] = Text("https://host") /\ ~Has(to, "?query")
         /\ \A i \in DOMAIN to : to[i].var = 0
         /\ to \in {answer.url, <<Text("https://host")>> \o answer.url}
  <1> DEFINE url == answer.url
             host == Text("https://host")
             longer == <<host>> \o url
             to == Absolutized(answer, location).url
  <1>1. answer.is = "url" /\ ~Has(url, "?query")
    BY DEF Absolutized, Defect
  <1>2. url \in Templates /\ \A i \in DOMAIN url : url[i].var = 0
    BY <1>1
  <1>3. CASE Absolute(url)
    <2>1. Absolutized(answer, location) = answer /\ url[1] # Text("ftp://host")
      BY <1>1, <1>3 DEF Absolutized, Defect
    <2>2. url[1] = host
      BY <1>3, <2>1 DEF Absolute
    <2>. QED
      BY <1>1, <1>2, <2>1, <2>2
  <1>4. CASE ~Absolute(url)
    <2>1. to = longer
      BY <1>1, <1>4 DEF Absolutized, Defect, Required, Url
    <2>2. host.var = 0 /\ host # Text("?query")
      BY DEF Text
    <2> HIDE DEF url, host, to, longer
    <2>3. /\ Len(url) \in Nat /\ DOMAIN url = 1 .. Len(url) /\ longer[1] = host
          /\ DOMAIN longer = 1 .. Len(url) + 1
          /\ \A i \in 2 .. Len(url) + 1 : longer[i] = url[i - 1]
      BY <1>2, HostInFront DEF longer, Templates
    <2>4. \A i \in DOMAIN longer : i = 1 \/ (i \in 2 .. Len(url) + 1 /\ i - 1 \in DOMAIN url)
      BY <2>3
    <2>5. \A i \in DOMAIN longer : longer[i].var = 0 /\ longer[i] # Text("?query")
      BY <1>1, <1>2, <2>2, <2>3, <2>4 DEF Has
    <2>. QED
      BY <1>1, <2>1, <2>3, <2>5 DEF Has, to, longer, url, host
  <1>. QED
    BY <1>3, <1>4

\* A server of the case, and the servers that are kept of them.
ServerIsTyped(server) ==
  /\ server.url \in Templates /\ DOMAIN server.variables \subseteq 1 .. Names
  /\ \A n \in DOMAIN server.variables : server.variables[n].default \in Templates

LEMMA EffectiveAreTyped ==
  ASSUME ServerAssumption, NEW c \in ServerCases
  PROVE  /\ Len(EffectiveServers(c)) \in Nat /\ DOMAIN EffectiveServers(c) = 1 .. Len(EffectiveServers(c))
         /\ \A k \in DOMAIN EffectiveServers(c) : ServerIsTyped(EffectiveServers(c)[k])
  <1>1. EffectiveServers(c) \in {c.operation, c.pathItem, c.root, <<Implied>>}
    BY DEF EffectiveServers
  <1>2. ASSUME NEW list \in {c.operation, c.pathItem, c.root}
        PROVE  /\ Len(list) \in Nat /\ DOMAIN list = 1 .. Len(list)
               /\ \A k \in DOMAIN list : ServerIsTyped(list[k])
    <2>1. list \in Seq(ToSet(list)) /\ \A server \in ToSet(list) : ServerIsTyped(server)
      BY DEF ServerAssumption, ServerIsTyped
    <2>2. \A k \in DOMAIN list : list[k] \in ToSet(list)
      BY DEF ToSet
    <2>3. Len(list) \in Nat /\ DOMAIN list = 1 .. Len(list)
      BY <2>1
    <2>. QED
      BY <2>1, <2>2, <2>3
  <1>3. ServerIsTyped(Implied)
    <2>1. <<Text("/")>> \in Templates
      BY DEF ServerAssumption
    <2>. QED
      BY <2>1 DEF Implied, ServerIsTyped
  <1>4. /\ Len(<<Implied>>) \in Nat /\ DOMAIN <<Implied>> = 1 .. Len(<<Implied>>)
        /\ \A k \in DOMAIN <<Implied>> : ServerIsTyped(<<Implied>>[k])
    BY <1>3
  <1>. QED
    BY <1>1, <1>2, <1>4

LEMMA EligibleAreEffective ==
  ASSUME ServerAssumption, NEW c \in ServerCases
  PROVE  /\ Len(Eligible(c)) \in Nat /\ DOMAIN Eligible(c) = 1 .. Len(Eligible(c))
         /\ \A k \in DOMAIN Eligible(c) : \E j \in DOMAIN EffectiveServers(c) : Eligible(c)[k] = EffectiveServers(c)[j]
  <1> DEFINE servers == EffectiveServers(c)
             them == {servers[j] : j \in DOMAIN servers}
  <1>1. Len(servers) \in Nat /\ DOMAIN servers = 1 .. Len(servers)
    BY EffectiveAreTyped
  <1>2. PICK kept : KeptUpTo(kept, c)
    BY <1>1, EligibleUnfolds
  <1> DEFINE fine == {n \in Nat : n <= Len(servers) => kept[n] \in Seq(them)}
  <1>3. 0 \in fine
    <2>1. kept[0] = <<>> /\ <<>> \in Seq(them)
      BY <1>2 DEF KeptUpTo
    <2>. QED
      BY <2>1
  <1>4. ASSUME NEW m \in Nat, m \in fine PROVE m + 1 \in fine
    <2>1. SUFFICES ASSUME m + 1 <= Len(servers) PROVE kept[m + 1] \in Seq(them)
      OBVIOUS
    <2>2. m <= Len(servers) /\ m + 1 \in 1 .. Len(servers) /\ (m + 1) - 1 = m
      BY <1>1, <2>1
    <2>3. kept[m] \in Seq(them) /\ servers[m + 1] \in them
      BY <1>1, <1>4, <2>2
    <2>4. kept[m + 1] \in {kept[m], Append(kept[m], servers[m + 1])}
      BY <1>2, <2>2 DEF KeptUpTo
    <2> DEFINE before == kept[m]
               server == servers[m + 1]
    <2>5. before \in Seq(them) /\ server \in them /\ kept[m + 1] \in {before, Append(before, server)}
      BY <2>3, <2>4
    <2> HIDE DEF them, servers, before, server
    <2>. QED
      <3>1. Append(before, server) \in Seq(them)
        BY <2>5, AppendProperties
      <3>. QED
        BY <2>5, <3>1
  <1>5. Nat \subseteq fine
    BY <1>3, <1>4, EveryNatural
  <1>6. Eligible(c) \in Seq(them)
    <2>1. Eligible(c) = kept[Len(servers)]
      BY <1>2 DEF KeptUpTo
    <2> HIDE DEF them, servers
    <2>2. kept[Len(servers)] \in Seq(them)
      BY <1>1, <1>5
    <2>. QED
      BY <2>1, <2>2
  <1>7. /\ Len(Eligible(c)) \in Nat /\ DOMAIN Eligible(c) = 1 .. Len(Eligible(c))
        /\ \A k \in DOMAIN Eligible(c) : Eligible(c)[k] \in them
    <2> HIDE DEF them, servers
    <2>. QED
      BY <1>6
  <1>. QED
    BY <1>7

\* The base that comes from a server is the declared one, completed.
LEMMA ServerIsCompleted ==
  ASSUME Names \in Nat, NEW server, ServerIsTyped(server), NEW supplied, DOMAIN supplied \subseteq 1 .. Names,
         \A n \in DOMAIN supplied : supplied[n] \in Templates, NEW v30, NEW location,
         Absolutized(SubstituteServerVariables(server, supplied, v30), location).is = "url"
  PROVE  LET base == Absolutized(SubstituteServerVariables(server, supplied, v30), location).url IN
         /\ base[1] = Text("https://host") /\ ~Has(base, "?query") /\ \A i \in DOMAIN base : base[i].var = 0
         /\ FromServer(base, server, GivenValues(server, supplied))
  <1> DEFINE all == AllFilled(server, supplied, v30)
             sub == SubstituteServerVariables(server, supplied, v30)
             base == Absolutized(sub, location).url
             D == DOMAIN server.variables \cup DOMAIN supplied
             values == ValuesOf(server, supplied, D)
  <1>1. ValuesAreTyped(server, supplied)
    BY DEF ServerIsTyped, ValuesAreTyped, Chosen
  <1>2. FilledRight(all, server, supplied, D)
    BY <1>1, AllAreFilled DEF ServerIsTyped
  <1>3. sub.is = "url" => sub = all /\ \A i \in DOMAIN sub.url : sub.url[i].var = 0
    BY DEF SubstituteServerVariables, Defect, Required
  <1>4. sub.is = "url" => sub.url \in Templates
    BY <1>2, <1>3 DEF FilledRight
  <1> HIDE DEF sub, all, values, D
  <1>5. /\ sub.is = "url" /\ base[1] = Text("https://host") /\ ~Has(base, "?query")
        /\ \A i \in DOMAIN base : base[i].var = 0
        /\ base \in {sub.url, <<Text("https://host")>> \o sub.url}
    BY <1>3, <1>4, AbsoluteIsChecked DEF sub
  <1>6. /\ \A m \in D \cap DOMAIN server.variables :
              /\ Chosen(server.variables[m], supplied, m) # Missing
              /\ server.variables[m].closed =>
                    Chosen(server.variables[m], supplied, m) \in server.variables[m].enum
        /\ AllPlain(server, supplied, D) => sub.url = AtOnce(server.url, values)
    BY <1>2, <1>3, <1>5 DEF FilledRight, values
  <1>7. GivenValues(server, supplied) = values
    <2>1. {m \in D : m \in DOMAIN supplied \/ server.variables[m].default # Missing} = D
      BY <1>6 DEF D, Chosen
    <2>. QED
      BY <2>1 DEF GivenValues, values, ValuesOf, Chosen, D
  <1>8. DOMAIN values = D /\ \A m \in D : values[m] = Chosen(server.variables[m], supplied, m)
    BY DEF values, ValuesOf
  <1>9. Allowed(server, values)
    BY <1>6, <1>8 DEF Allowed, D
  <1>10. ASSUME \A n \in DOMAIN values : values[n] \in PlainURLs
         PROVE  /\ \A i \in DOMAIN server.url : server.url[i].var # 0 => server.url[i].var \in DOMAIN values
                /\ base \in {AtOnce(server.url, values), <<Text("https://host")>> \o AtOnce(server.url, values)}
    <2>1. AllPlain(server, supplied, D)
      BY <1>8, <1>10 DEF AllPlain
    <2>2. sub.url = AtOnce(server.url, values)
      BY <1>6, <2>1
    <2>3. \A i \in DOMAIN sub.url : sub.url[i].var = 0
      BY <1>3, <1>5
    <2>4. \A i \in DOMAIN server.url : server.url[i].var # 0 => server.url[i].var \in D
      BY <2>1, <2>2, <2>3, EachHadAValue DEF values, ServerIsTyped
    <2>. QED
      BY <1>5, <1>8, <2>2, <2>4
  <1>11. FromServer(base, server, values)
    BY <1>9, <1>10 DEF FromServer
  <1>. QED
    BY <1>5, <1>7, <1>11 DEF sub

\* One case of what is chosen, and what it comes from.
LEMMA BaseIsTheChosen ==
  ASSUME ServerAssumption, NEW c \in ServerCases
  PROVE  BaseIsChosen(c, ResolveServer(c))
  <1> DEFINE eligible == Eligible(c)
             servers == EffectiveServers(c)
             cfg == c.configured
             at == IF cfg.index = 0 /\ Len(eligible) = 1 THEN 1 ELSE cfg.index
             supplied == IF cfg.kind = "server" THEN cfg.values ELSE <<>>
             answer == ResolveServer(c)
  <1>1. /\ Names \in Nat /\ cfg.kind \in {"none", "base", "server"} /\ cfg.base \in PlainURLs /\ c.metadata \in PlainURLs
        /\ DOMAIN cfg.values \subseteq 1 .. Names /\ \A n \in DOMAIN cfg.values : cfg.values[n] \in Templates
    BY DEF ServerAssumption
  <1>2. /\ Len(eligible) \in Nat /\ DOMAIN eligible = 1 .. Len(eligible)
        /\ \A k \in DOMAIN eligible : \E j \in DOMAIN servers : eligible[k] = servers[j]
    BY EligibleAreEffective
  <1>3. \A k \in DOMAIN servers : ServerIsTyped(servers[k])
    BY EffectiveAreTyped
  <1>4. DOMAIN supplied \subseteq 1 .. Names /\ \A n \in DOMAIN supplied : supplied[n] \in Templates
    BY <1>1
  <1>5. answer = IF cfg.kind = "base" THEN Absolutized(Url(cfg.base), c.location)
                 ELSE IF eligible = <<>> THEN Required
                 ELSE IF cfg.kind = "server" THEN IF at \in DOMAIN eligible THEN Resolved(c, eligible[at], cfg.values) ELSE Defect
                 ELSE IF c.metadata # Missing THEN Absolutized(Url(c.metadata), c.location)
                 ELSE IF Len(eligible) # 1 THEN Required
                 ELSE Resolved(c, eligible[1], <<>>)
    BY DEF ResolveServer
  <1> HIDE DEF eligible, servers, cfg, supplied, answer
  <1>6. SUFFICES ASSUME answer.is = "url"
        PROVE  /\ answer.url[1] = Text("https://host") /\ ~Has(answer.url, "?query")
               /\ \A i \in DOMAIN answer.url : answer.url[i].var = 0
               /\ IF cfg.kind = "base" THEN answer.url \in {cfg.base, <<Text("https://host")>> \o cfg.base}
                  ELSE IF cfg.kind = "none" /\ c.metadata # Missing
                  THEN answer.url \in {c.metadata, <<Text("https://host")>> \o c.metadata}
                  ELSE /\ \E k \in DOMAIN servers : FromServer(answer.url, servers[k], GivenValues(servers[k], supplied))
                       /\ cfg.index = 0 => Len(eligible) = 1
    BY DEF BaseIsChosen, eligible, servers, cfg, supplied, answer
  <1>7. ASSUME NEW url \in PlainURLs, answer = Absolutized(Url(url), c.location)
        PROVE  /\ answer.url[1] = Text("https://host") /\ ~Has(answer.url, "?query")
               /\ \A i \in DOMAIN answer.url : answer.url[i].var = 0
               /\ answer.url \in {url, <<Text("https://host")>> \o url}
    <2> DEFINE given == Url(url)
    <2>1. given.is = "url" /\ given.url = url
      BY DEF Url
    <2>2. url \in Templates /\ \A i \in DOMAIN url : url[i].var = 0
      <3>1. url \in Templates /\ \A i \in 1 .. Len(url) : url[i].var = 0
        BY <1>1, PlainIsATemplate
      <3>. QED
        BY <3>1 DEF Templates
    <2> HIDE DEF given
    <2>3. Absolutized(given, c.location).is = "url" /\ answer = Absolutized(given, c.location)
      BY <1>6, <1>7 DEF given
    <2>4. /\ given.is = "url" => \A i \in DOMAIN given.url : given.url[i].var = 0
          /\ given.is = "url" => given.url \in Templates
      BY <2>1, <2>2
    <2> DEFINE to == Absolutized(given, c.location).url
    <2>5. /\ to[1] = Text("https://host") /\ ~Has(to, "?query") /\ \A i \in DOMAIN to : to[i].var = 0
          /\ to \in {given.url, <<Text("https://host")>> \o given.url}
      BY <2>3, <2>4, AbsoluteIsChecked
    <2>. QED
      BY <2>1, <2>3, <2>5
  <1>8. ASSUME NEW k \in DOMAIN eligible, answer = Resolved(c, eligible[k], supplied)
        PROVE  /\ answer.url[1] = Text("https://host") /\ ~Has(answer.url, "?query")
               /\ \A i \in DOMAIN answer.url : answer.url[i].var = 0
               /\ \E j \in DOMAIN servers : FromServer(answer.url, servers[j], GivenValues(servers[j], supplied))
    <2>1. PICK j \in DOMAIN servers : eligible[k] = servers[j]
      BY <1>2
    <2> DEFINE server == servers[j]
    <2>2. ServerIsTyped(server)
      BY <1>3
    <2>3. /\ Absolutized(SubstituteServerVariables(server, supplied, c.v30), c.location).is = "url"
          /\ answer = Absolutized(SubstituteServerVariables(server, supplied, c.v30), c.location)
      BY <1>6, <1>8, <2>1 DEF Resolved
    <2> HIDE DEF server
    <2>4. /\ answer.url[1] = Text("https://host") /\ ~Has(answer.url, "?query")
          /\ \A i \in DOMAIN answer.url : answer.url[i].var = 0
          /\ FromServer(answer.url, server, GivenValues(server, supplied))
      BY <1>1, <1>4, <2>2, <2>3, ServerIsCompleted
    <2>. QED
      BY <2>4 DEF server
  <1>9. CASE cfg.kind = "base"
    BY <1>1, <1>5, <1>7, <1>9
  <1>10. CASE cfg.kind = "server"
    <2>1. at \in DOMAIN eligible /\ answer = Resolved(c, eligible[at], supplied)
      BY <1>5, <1>6, <1>10 DEF Defect, Required, supplied
    <2>2. cfg.index = 0 => Len(eligible) = 1
      BY <1>2, <2>1
    <2> HIDE DEF at
    <2>. QED
      BY <1>8, <1>10, <2>1, <2>2
  <1>11. CASE cfg.kind = "none" /\ c.metadata # Missing
    <2>1. answer = Absolutized(Url(c.metadata), c.location)
      BY <1>5, <1>6, <1>11 DEF Required
    <2>. QED
      BY <1>1, <1>7, <1>11, <2>1
  <1>12. CASE cfg.kind = "none" /\ ~(c.metadata # Missing)
    <2>1. Len(eligible) = 1 /\ answer = Resolved(c, eligible[1], supplied)
      BY <1>5, <1>6, <1>12 DEF Required, supplied
    <2>2. 1 \in DOMAIN eligible
      BY <1>2, <2>1
    <2>. QED
      BY <1>8, <1>12, <2>1, <2>2
  <1>. QED
    BY <1>1, <1>9, <1>10, <1>11, <1>12

\* The base of a call is the one the caller configured, or one declared server with
\* every expression replaced by an allowed value, with a scheme and without a query;
\* several servers are never chosen from (servers.ts resolveOpenAPIServerSelection,
\* substituteServerVariables, absolutizeServerURL).
THEOREM ServerTheorem == ServerSpec => []ServerIsTheDeclared
  <1>1. ServerInit => locating \subseteq ServerCases
    BY DEF ServerInit
  <1>2. locating \subseteq ServerCases /\ [UNCHANGED locating]_locating => (locating \subseteq ServerCases)'
    OBVIOUS
  <1>3. locating \subseteq ServerCases => ServerIsTheDeclared
    BY ServerAssumption, BaseIsTheChosen DEF ServerIsTheDeclared
  <1>. QED
    BY <1>1, <1>2, <1>3, PTL DEF ServerSpec

-----------------------------------------------------------------------------
(***************************************************************************)
(* The acceptance floor.  Its walk over a stack passes the least set of    *)
(* schemas that holds the root and is closed under what follows on each:   *)
(* no frame changes what is still ahead, and every frame takes a position  *)
(* away or shortens the stack.                                             *)
(***************************************************************************)
\* A finite set is listed, and nothing else is.
LEMMA ListedWhole ==
  ASSUME NEW P, NEW S \in SUBSET P, IsFiniteSet(S)
  PROVE  SetToSeq(S) \in Seq(P) /\ {SetToSeq(S)[i] : i \in DOMAIN SetToSeq(S)} = S
  <1> DEFINE n == Cardinality(S)
             listed == SetToSeq(S)
  <1>1. listed \in [1 .. n -> S] /\ IsInjective(listed) /\ n \in Nat
    BY Enumerated
  <1>2. \A i, j \in 1 .. n : listed[i] = listed[j] => i = j
    BY <1>1 DEF IsInjective
  <1>3. listed \in Injection(1 .. n, S)
    BY <1>1, <1>2 DEF Injection, IsInjective
  <1>4. IsFiniteSet(1 .. n) /\ Cardinality(1 .. n) = n
    BY <1>1, FS_Interval
  <1>5. listed \in Surjection(1 .. n, S)
    BY <1>3, <1>4, FS_Injection
  <1>. QED
    BY <1>1, <1>5 DEF Surjection

\* A set holds what a walk still has before it: what it has walked, what waits
\* on its stack, and what follows on anything it has not walked.
Holds(s, stack, walked, all) ==
  /\ walked \subseteq all
  /\ \A i \in DOMAIN stack : stack[i] \in all
  /\ \A m \in all \ walked : Follows(s, m) \subseteq all

Ahead(s, stack, walked) ==
  {n \in Positions(s) : \A all \in SUBSET Positions(s) : Holds(s, stack, walked, all) => n \in all}

Todos(s) == Seq(Positions(s)) \X SUBSET Positions(s)

\* One frame of the walk.
WalkedOnce(s, w) ==
  [todo \in Todos(s) |->
      IF todo[1] = <<>> THEN todo[2]
      ELSE IF Head(todo[1]) \in todo[2] THEN w[<<Tail(todo[1]), todo[2]>>]
      ELSE w[<<SetToSeq(Follows(s, Head(todo[1]))) \o Tail(todo[1]), todo[2] \cup {Head(todo[1])}>>]]

TheWalk(s) == CHOOSE w : w = WalkedOnce(s, w)

LEMMA FollowsAreListed ==
  ASSUME FloorAssumption, NEW s \in FloorCases, NEW n \in Positions(s)
  PROVE  /\ Follows(s, n) \subseteq Positions(s)
         /\ SetToSeq(Follows(s, n)) \in Seq(Positions(s))
         /\ \A m : m \in Follows(s, n) <=> \E i \in DOMAIN SetToSeq(Follows(s, n)) : SetToSeq(Follows(s, n))[i] = m
  <1>1. Follows(s, n) \subseteq Positions(s) /\ IsFiniteSet(Positions(s))
    BY DEF FloorAssumption, Follows
  <1>2. IsFiniteSet(Follows(s, n))
    BY <1>1, FS_Subset
  <1> DEFINE S == Follows(s, n)
             listed == SetToSeq(S)
  <1>3. listed \in Seq(Positions(s)) /\ {listed[i] : i \in DOMAIN listed} = S
    BY <1>1, <1>2, ListedWhole
  <1>4. \A m : m \in S <=> \E i \in DOMAIN listed : listed[i] = m
    <2> HIDE DEF S, listed
    <2>. QED
      BY <1>3
  <1>. QED
    BY <1>1, <1>3, <1>4

\* The frames change nothing of what is ahead.
LEMMA AheadWalked ==
  ASSUME FloorAssumption, NEW s \in FloorCases, NEW walked \in SUBSET Positions(s)
  PROVE  Ahead(s, <<>>, walked) = walked
  <1>1. Holds(s, <<>>, walked, walked)
    BY DEF Holds
  <1>. QED
    BY <1>1 DEF Ahead, Holds

LEMMA AheadOfAWalked ==
  ASSUME FloorAssumption, NEW s \in FloorCases, NEW stack \in Seq(Positions(s)), NEW walked \in SUBSET Positions(s),
         stack # <<>>, Head(stack) \in walked
  PROVE  /\ Tail(stack) \in Seq(Positions(s))
         /\ Len(Tail(stack)) < Len(stack)
         /\ Ahead(s, stack, walked) = Ahead(s, Tail(stack), walked)
  <1>1. /\ Tail(stack) \in Seq(Positions(s)) /\ Len(Tail(stack)) = Len(stack) - 1 /\ Head(stack) = stack[1]
        /\ Len(stack) \in Nat \ {0} /\ \A i \in 1 .. Len(stack) - 1 : Tail(stack)[i] = stack[i + 1]
    BY HeadTailProperties
  <1>2. \A all : walked \subseteq all =>
             ((\A i \in 1 .. Len(stack) : stack[i] \in all) <=> (\A i \in 1 .. Len(stack) - 1 : Tail(stack)[i] \in all))
    <2> TAKE all
    <2>1. SUFFICES ASSUME walked \subseteq all, \A i \in 1 .. Len(stack) - 1 : Tail(stack)[i] \in all,
                          NEW i \in 1 .. Len(stack)
                   PROVE  stack[i] \in all
      BY <1>1
    <2>2. CASE i = 1
      BY <1>1, <2>1, <2>2
    <2>3. CASE i # 1
      <3>1. i - 1 \in 1 .. Len(stack) - 1 /\ Tail(stack)[i - 1] = stack[(i - 1) + 1] /\ (i - 1) + 1 = i
        BY <1>1, <2>3
      <3>. QED
        BY <2>1, <3>1
    <2>. QED
      BY <2>2, <2>3
  <1>3. DOMAIN stack = 1 .. Len(stack) /\ DOMAIN Tail(stack) = 1 .. Len(stack) - 1
    BY <1>1, LenProperties
  <1>4. \A all : Holds(s, stack, walked, all) <=> Holds(s, Tail(stack), walked, all)
    BY <1>2, <1>3 DEF Holds
  <1>. QED
    BY <1>1, <1>4 DEF Ahead

LEMMA AheadOfAFresh ==
  ASSUME FloorAssumption, NEW s \in FloorCases, NEW stack \in Seq(Positions(s)), NEW walked \in SUBSET Positions(s),
         stack # <<>>, Head(stack) \notin walked
  PROVE  LET more == SetToSeq(Follows(s, Head(stack))) \o Tail(stack)
             next == walked \cup {Head(stack)}
         IN /\ more \in Seq(Positions(s))
            /\ next \in SUBSET Positions(s)
            /\ Head(stack) \in Positions(s)
            /\ Ahead(s, stack, walked) = Ahead(s, more, next)
  <1> DEFINE n == Head(stack)
             listed == SetToSeq(Follows(s, n))
             more == listed \o Tail(stack)
             k == Len(listed)
             l == Len(stack)
  <1>1. /\ Tail(stack) \in Seq(Positions(s)) /\ Len(Tail(stack)) = l - 1 /\ n = stack[1] /\ n \in Positions(s)
        /\ l \in Nat \ {0} /\ \A i \in 1 .. l - 1 : Tail(stack)[i] = stack[i + 1]
    BY HeadTailProperties
  <1>2. /\ listed \in Seq(Positions(s)) /\ k \in Nat /\ DOMAIN listed = 1 .. k
        /\ \A m : m \in Follows(s, n) <=> \E i \in 1 .. k : listed[i] = m
    BY <1>1, FollowsAreListed, LenProperties
  <1>3. /\ more \in Seq(Positions(s)) /\ Len(more) = k + (l - 1)
        /\ \A i \in 1 .. k + (l - 1) : more[i] = IF i <= k THEN listed[i] ELSE Tail(stack)[i - k]
    BY <1>1, <1>2, ConcatProperties
  <1>4. DOMAIN stack = 1 .. l /\ DOMAIN more = 1 .. k + (l - 1)
    BY <1>3, LenProperties
  <1>5. ASSUME NEW all, Holds(s, stack, walked, all)
        PROVE  Holds(s, more, walked \cup {n}, all)
    <2>1. n \in all /\ Follows(s, n) \subseteq all
      BY <1>1, <1>4, <1>5 DEF Holds
    <2>2. ASSUME NEW i \in DOMAIN more PROVE more[i] \in all
      <3>1. CASE i <= k
        <4>1. i \in 1 .. k /\ more[i] = listed[i]
          BY <1>2, <1>3, <1>4, <2>2, <3>1
        <4>. QED
          BY <1>2, <2>1, <4>1
      <3>2. CASE ~(i <= k)
        <4>1. i - k \in 1 .. l - 1 /\ (i - k) + 1 \in 1 .. l /\ more[i] = Tail(stack)[i - k]
          BY <1>1, <1>2, <1>3, <1>4, <2>2, <3>2
        <4>2. more[i] = stack[(i - k) + 1]
          BY <1>1, <4>1
        <4>. QED
          BY <1>4, <1>5, <4>1, <4>2 DEF Holds
      <3>. QED
        BY <3>1, <3>2
    <2>. QED
      BY <1>5, <2>1, <2>2 DEF Holds
  <1>6. ASSUME NEW all, Holds(s, more, walked \cup {n}, all)
        PROVE  Holds(s, stack, walked, all)
    <2>1. ASSUME NEW m \in Follows(s, n) PROVE m \in all
      <3>1. PICK i \in 1 .. k : listed[i] = m
        BY <1>2
      <3>2. i \in 1 .. k + (l - 1) /\ more[i] = listed[i]
        BY <1>1, <1>2, <1>3
      <3>. QED
        BY <1>4, <1>6, <3>1, <3>2 DEF Holds
    <2>2. ASSUME NEW i \in DOMAIN stack PROVE stack[i] \in all
      <3>1. CASE i = 1
        BY <1>1, <1>6, <3>1 DEF Holds
      <3>2. CASE i # 1
        <4>1. /\ i - 1 \in 1 .. l - 1 /\ (i - 1) + 1 = i
              /\ k + (i - 1) \in 1 .. k + (l - 1) /\ ~(k + (i - 1) <= k) /\ (k + (i - 1)) - k = i - 1
          BY <1>1, <1>2, <1>4, <2>2, <3>2
        <4>2. more[k + (i - 1)] = stack[i]
          BY <1>1, <1>3, <4>1
        <4>. QED
          BY <1>4, <1>6, <4>1, <4>2 DEF Holds
      <3>. QED
        BY <3>1, <3>2
    <2>. QED
      BY <1>6, <2>1, <2>2 DEF Holds
  <1>. QED
    <2>1. Ahead(s, stack, walked) = Ahead(s, more, walked \cup {n})
      <3> HIDE DEF more, n
      <3>. QED
        BY <1>5, <1>6 DEF Ahead
    <2>. QED
      BY <1>1, <1>3, <2>1

\* The walk is given by its frames.
LEMMA WalkUnfolds ==
  ASSUME FloorAssumption, NEW s \in FloorCases
  PROVE  TheWalk(s) = WalkedOnce(s, TheWalk(s))
  <1> DEFINE f == [todo \in Todos(s) |-> Ahead(s, todo[1], todo[2])]
  <1>1. ASSUME NEW todo \in Todos(s)
        PROVE  f[todo] = WalkedOnce(s, f)[todo]
    <2> DEFINE stack == todo[1]
               walked == todo[2]
               more == SetToSeq(Follows(s, Head(stack))) \o Tail(stack)
    <2>1. stack \in Seq(Positions(s)) /\ walked \in SUBSET Positions(s) /\ f[todo] = Ahead(s, stack, walked)
      BY DEF Todos
    <2>2. WalkedOnce(s, f)[todo] =
            IF stack = <<>> THEN walked
            ELSE IF Head(stack) \in walked THEN f[<<Tail(stack), walked>>]
            ELSE f[<<more, walked \cup {Head(stack)}>>]
      BY DEF WalkedOnce
    <2>3. \A t \in Seq(Positions(s)), w \in SUBSET Positions(s) : f[<<t, w>>] = Ahead(s, t, w)
      BY DEF Todos
    <2> HIDE DEF stack, walked, f
    <2>4. CASE stack = <<>>
      BY <2>1, <2>2, <2>4, AheadWalked
    <2>5. CASE stack # <<>> /\ Head(stack) \in walked
      <3>1. Tail(stack) \in Seq(Positions(s)) /\ Ahead(s, stack, walked) = Ahead(s, Tail(stack), walked)
        BY <2>1, <2>5, AheadOfAWalked
      <3>. QED
        BY <2>1, <2>2, <2>3, <2>5, <3>1
    <2>6. CASE stack # <<>> /\ Head(stack) \notin walked
      <3>1. /\ more \in Seq(Positions(s)) /\ walked \cup {Head(stack)} \in SUBSET Positions(s)
            /\ Ahead(s, stack, walked) = Ahead(s, more, walked \cup {Head(stack)})
        BY <2>1, <2>6, AheadOfAFresh
      <3> HIDE DEF more
      <3>. QED
        BY <2>1, <2>2, <2>3, <2>6, <3>1
    <2>. QED
      BY <2>4, <2>5, <2>6
  <1>2. f = WalkedOnce(s, f)
    <2>1. DOMAIN f = Todos(s) /\ DOMAIN WalkedOnce(s, f) = Todos(s)
      BY DEF WalkedOnce
    <2>2. f = [todo \in Todos(s) |-> f[todo]]
      OBVIOUS
    <2>3. WalkedOnce(s, f) = [todo \in Todos(s) |-> WalkedOnce(s, f)[todo]]
      BY DEF WalkedOnce
    <2> HIDE DEF f
    <2>. QED
      BY <1>1, <2>2, <2>3
  <1>. QED
    BY <1>2 DEF TheWalk

\* It ends: every frame takes a position away or shortens the stack.
LEMMA WalkIsAhead ==
  ASSUME FloorAssumption, NEW s \in FloorCases
  PROVE  \A todo \in Todos(s) : TheWalk(s)[todo] = Ahead(s, todo[1], todo[2])
  <1> DEFINE P == Positions(s)
             w == TheWalk(s)
             OfLength(walked, l) == \A stack \in Seq(P) : Len(stack) = l => w[<<stack, walked>>] = Ahead(s, stack, walked)
             Left(c) == \A walked \in SUBSET P : Cardinality(P \ walked) = c => \A l \in Nat : OfLength(walked, l)
             lefts == {c \in Nat : Left(c)}
  <1>1. IsFiniteSet(P)
    BY DEF FloorAssumption
  <1>2. \A stack \in Seq(P), walked \in SUBSET P :
           w[<<stack, walked>>] =
             IF stack = <<>> THEN walked
             ELSE IF Head(stack) \in walked THEN w[<<Tail(stack), walked>>]
             ELSE w[<<SetToSeq(Follows(s, Head(stack))) \o Tail(stack), walked \cup {Head(stack)}>>]
    <2> TAKE stack \in Seq(P), walked \in SUBSET P
    <2>1. <<stack, walked>> \in Todos(s)
      BY DEF Todos
    <2>2. w[<<stack, walked>>] = WalkedOnce(s, w)[<<stack, walked>>]
      BY WalkUnfolds
    <2>. QED
      BY <2>1, <2>2 DEF WalkedOnce
  <1>3. ASSUME NEW walked \in SUBSET P,
               \A stack \in Seq(P) : stack # <<>> /\ Head(stack) \notin walked =>
                   w[<<stack, walked>>] = Ahead(s, stack, walked)
        PROVE  \A l \in Nat : OfLength(walked, l)
    <2> DEFINE lengths == {l \in Nat : OfLength(walked, l)}
    <2>1. 0 \in lengths
      <3>1. ASSUME NEW stack \in Seq(P), Len(stack) = 0 PROVE w[<<stack, walked>>] = Ahead(s, stack, walked)
        <4>1. stack = <<>>
          BY <3>1, EmptySeq
        <4>. QED
          BY <1>2, <4>1, AheadWalked
      <3>. QED
        BY <3>1
    <2>2. ASSUME NEW l \in Nat, l \in lengths PROVE l + 1 \in lengths
      <3>1. ASSUME NEW stack \in Seq(P), Len(stack) = l + 1 PROVE w[<<stack, walked>>] = Ahead(s, stack, walked)
        <4>1. stack # <<>>
          BY <3>1, EmptySeq
        <4>2. CASE Head(stack) \in walked
          <5>1. /\ Tail(stack) \in Seq(P) /\ Len(Tail(stack)) = l
                /\ Ahead(s, stack, walked) = Ahead(s, Tail(stack), walked)
            BY <3>1, <4>1, <4>2, AheadOfAWalked, HeadTailProperties
          <5>2. w[<<Tail(stack), walked>>] = Ahead(s, Tail(stack), walked)
            BY <2>2, <5>1
          <5>. QED
            BY <1>2, <4>1, <4>2, <5>1, <5>2
        <4>3. CASE Head(stack) \notin walked
          BY <1>3, <4>1, <4>3
        <4>. QED
          BY <4>2, <4>3
      <3>. QED
        BY <3>1
    <2>3. Nat \subseteq lengths
      <3> HIDE DEF lengths
      <3>. QED
        BY <2>1, <2>2, EveryNatural
    <2>. QED
      BY <2>3
  <1>4. 0 \in lefts
    <2>1. ASSUME NEW walked \in SUBSET P, Cardinality(P \ walked) = 0 PROVE \A l \in Nat : OfLength(walked, l)
      <3>1. IsFiniteSet(P \ walked)
        BY <1>1, FS_Subset
      <3>2. P \ walked = {}
        BY <2>1, <3>1, FS_EmptySet
      <3>3. \A stack \in Seq(P) : stack # <<>> => Head(stack) \in walked
        BY <3>2, HeadTailProperties
      <3>. QED
        BY <1>3, <3>3
    <2>. QED
      BY <2>1
  <1>5. ASSUME NEW c \in Nat, c \in lefts PROVE c + 1 \in lefts
    <2>1. ASSUME NEW walked \in SUBSET P, Cardinality(P \ walked) = c + 1 PROVE \A l \in Nat : OfLength(walked, l)
      <3>1. ASSUME NEW stack \in Seq(P), stack # <<>>, Head(stack) \notin walked
            PROVE  w[<<stack, walked>>] = Ahead(s, stack, walked)
        <4> DEFINE n == Head(stack)
                   more == SetToSeq(Follows(s, n)) \o Tail(stack)
                   next == walked \cup {n}
        <4>1. more \in Seq(P) /\ next \in SUBSET P /\ n \in P /\ Ahead(s, stack, walked) = Ahead(s, more, next)
          BY <3>1, AheadOfAFresh
        <4>2. P \ next = (P \ walked) \ {n} /\ n \in P \ walked /\ IsFiniteSet(P \ walked)
          BY <1>1, <3>1, <4>1, FS_Subset
        <4>3. Cardinality(P \ next) = c
          <5>1. Cardinality((P \ walked) \ {n}) = Cardinality(P \ walked) - 1
            <6> HIDE DEF n, P
            <6>. QED
              BY <4>2, FS_RemoveElement
          <5>2. Cardinality(P \ next) = Cardinality(P \ walked) - 1
            BY <4>2, <5>1
          <5> HIDE DEF n, next, P, lefts
          <5>. QED
            BY <2>1, <5>2
        <4>4. Len(more) \in Nat
          BY <4>1, LenProperties
        <4>5. w[<<stack, walked>>] = w[<<more, next>>]
          BY <1>2, <3>1
        <4> HIDE DEF more, next, n, w
        <4>6. w[<<more, next>>] = Ahead(s, more, next)
          BY <1>5, <4>1, <4>3, <4>4
        <4>. QED
          BY <4>1, <4>5, <4>6
      <3>. QED
        BY <1>3, <3>1
    <2>. QED
      BY <2>1
  <1>6. Nat \subseteq lefts
    <2> HIDE DEF lefts
    <2>. QED
      BY <1>4, <1>5, EveryNatural
  <1>7. ASSUME NEW todo \in Todos(s) PROVE w[todo] = Ahead(s, todo[1], todo[2])
    <2> DEFINE stack == todo[1]
               walked == todo[2]
    <2>1. stack \in Seq(P) /\ walked \in SUBSET P /\ todo = <<stack, walked>>
      BY DEF Todos
    <2>2. Cardinality(P \ walked) \in Nat /\ Len(stack) \in Nat
      <3>1. IsFiniteSet(P \ walked)
        BY <1>1, FS_Subset
      <3>. QED
        BY <2>1, <3>1, FS_CardinalityType, LenProperties
    <2> HIDE DEF stack, walked, w, P
    <2>. QED
      BY <1>6, <2>1, <2>2
  <1>. QED
    BY <1>7

\* The schemas a walk passes are those a reader would reach.
LEMMA WalkReaches ==
  ASSUME FloorAssumption, NEW s \in FloorCases, NEW root \in Positions(s)
  PROVE  SchemaClosure(s, root) = Closed([m \in Positions(s) |-> Follows(s, m)], {root})
  <1> DEFINE next == [m \in Positions(s) |-> Follows(s, m)]
  <1>1. SchemaClosure(s, root) = TheWalk(s)[<<<<root>>, {}>>]
    BY DEF SchemaClosure, TheWalk, WalkedOnce, Todos
  <1>2. <<<<root>>, {}>> \in Todos(s)
    BY DEF Todos
  <1>3. SchemaClosure(s, root) = Ahead(s, <<root>>, {})
    BY <1>1, <1>2, WalkIsAhead
  <1>4. \A all \in SUBSET Positions(s) :
           Holds(s, <<root>>, {}, all) <=> {root} \subseteq all /\ \A m \in all : next[m] \subseteq all
    <2>1. DOMAIN <<root>> = {1} /\ <<root>>[1] = root
      OBVIOUS
    <2>. QED
      BY <2>1 DEF Holds
  <1>5. DOMAIN next = Positions(s)
    OBVIOUS
  <1>. QED
    <2> HIDE DEF next
    <2>1. Closed(next, {root}) =
            {n \in Positions(s) : \A all \in SUBSET Positions(s) :
                                    {root} \subseteq all /\ (\A m \in all : next[m] \subseteq all) => n \in all}
      BY <1>5 DEF Closed
    <2>2. SchemaClosure(s, root) = Closed(next, {root})
      BY <1>3, <1>4, <2>1 DEF Ahead
    <2>. QED
      BY <2>2 DEF next

LEMMA DefectiveIsUnusable ==
  ASSUME FloorAssumption, NEW s \in FloorCases, NEW d
  PROVE  Defective(s, d) <=> ~Usable(s, d)
  <1>1. CASE d.schema \in Positions(s)
    <2>1. ClosureDefects(s, d.schema) # {} <=> Touches(s, d.schema)
      BY <1>1, WalkReaches DEF ClosureDefects, Touches
    <2>. QED
      BY <1>1, <2>1 DEF Defective, Usable
  <1>2. CASE d.schema \notin Positions(s)
    BY <1>2 DEF Defective, Usable
  <1>. QED
    BY <1>1, <1>2

\* A target is refused when every request to it would have to use a defect.
LEMMA EverySourceIsConfined ==
  ASSUME FloorAssumption, NEW s \in FloorCases
  PROVE  DefectsStayConfined(s)
  <1>1. s.paths = "object" /\ s.targets # {} => ~Refusal(s)
    BY DEF Refusal
  <1>2. ASSUME NEW t \in s.targets
        PROVE  LET callable == /\ t.object /\ ~t.badPath
                               /\ \A p \in t.params : IF p.kind = "ref" THEN p.schema # Unresolved ELSE Usable(s, p)
                   body == t.media = {} \/ ~t.required \/ \E m \in t.media : Usable(s, m)
               IN Disposition(s, t) = IF ~callable THEN "invalid"
                                      ELSE IF ~body THEN "excluded-request-media" ELSE "represented"
    <2>1. \A p \in t.params : ParamClimbs(s, p) <=> ~(IF p.kind = "ref" THEN p.schema # Unresolved ELSE Usable(s, p))
      <3> TAKE p \in t.params
      <3>1. p.kind = "defective" => ~Usable(s, p)
        BY DEF FloorAssumption, Usable
      <3>2. p.kind # "defective" /\ p.kind # "ref" => (ParamClimbs(s, p) <=> ~Usable(s, p))
        BY DefectiveIsUnusable DEF ParamClimbs
      <3>3. p.kind = "defective" => ParamClimbs(s, p)
        BY DEF ParamClimbs
      <3>4. p.kind = "ref" => (ParamClimbs(s, p) <=> p.schema = Unresolved)
        BY DEF ParamClimbs
      <3>. QED
        BY <3>1, <3>2, <3>3, <3>4
    <2>2. InvalidAlternatives(s, t) = t.media <=> ~\E m \in t.media : Usable(s, m)
      BY DefectiveIsUnusable DEF InvalidAlternatives
    <2>. QED
      BY <2>1, <2>2 DEF Disposition
  <1>. QED
    BY <1>1, <1>2 DEF DefectsStayConfined

\* A defect refuses the targets that cannot avoid it, and nothing else
\* (acceptance-floor.ts computeAcceptanceFloor).
THEOREM FloorTheorem == FloorSpec => []DefectsAreConfined
  <1>1. FloorInit => judging \subseteq FloorCases
    BY DEF FloorInit
  <1>2. judging \subseteq FloorCases /\ [UNCHANGED judging]_judging => (judging \subseteq FloorCases)'
    OBVIOUS
  <1>3. judging \subseteq FloorCases => DefectsAreConfined
    BY FloorAssumption, EverySourceIsConfined DEF DefectsAreConfined
  <1>. QED
    BY <1>1, <1>2, <1>3, PTL DEF FloorSpec

-----------------------------------------------------------------------------
(***************************************************************************)
(* The parameters of a Swagger 2.0 operation.  Texts that hold no          *)
(* delimiter are read back from what joins them, field by field; so what   *)
(* is written of each value is read as that value, at its declaration.     *)
(***************************************************************************)
\* The fields of a text, character by character.
SplitNext(fields, char, delimiter) ==
  IF char = delimiter THEN Append(fields, <<>>)
  ELSE Append(Front(fields), Append(Last(fields), char))

SplitsUpTo(fields, text, delimiter) ==
  /\ fields[0] = <<<<>>>>
  /\ \A k \in 1 .. Len(text) : fields[k] = SplitNext(fields[k - 1], text[k], delimiter)
  /\ SplitText(text, delimiter) = fields[Len(text)]

\* The fields read after k characters are defined for every k up to the length.
LEMMA SplitUnfolds ==
  ASSUME NEW S, NEW text \in Seq(S), NEW delimiter
  PROVE  \E fields : SplitsUpTo(fields, text, delimiter)
  <1> DEFINE none == <<<<>>>>
             Next(g, k) == SplitNext(g, text[k], delimiter)
             From(f, m) == [k \in 0 .. m |-> IF k = 0 THEN none ELSE Next(f[k - 1], k)]
             fields == CHOOSE f : f = From(f, Len(text))
             defined == {m \in Nat : \E f : f = From(f, m)}
  <1>. Len(text) \in Nat
    BY LenProperties
  <1>0. SplitText(text, delimiter) = fields[Len(text)]
    BY DEF SplitText, SplitNext
  <1> HIDE DEF Next, none
  <1>2. Nat \subseteq defined
    <2>1. 0 \in defined
      <3>1. [k \in 0 .. 0 |-> none] = From([k \in 0 .. 0 |-> none], 0)
        OBVIOUS
      <3>. QED
        BY <3>1
    <2>2. ASSUME NEW m \in Nat, m \in defined PROVE m + 1 \in defined
      <3>1. PICK f : f = From(f, m)
        BY <2>2
      <3> DEFINE g == [k \in 0 .. (m + 1) |-> IF k = m + 1 THEN Next(f[m], m + 1) ELSE f[k]]
      <3>2. \A k \in 0 .. m : f[k] = IF k = 0 THEN none ELSE Next(f[k - 1], k)
        BY <3>1
      <3>3. \A k \in 0 .. (m + 1) : g[k] = IF k = 0 THEN none ELSE Next(g[k - 1], k)
        BY <3>2
      <3>4. g = From(g, m + 1)
        BY <3>3
      <3> HIDE DEF g
      <3>. QED
        BY <3>4
    <2>. QED
      BY <2>1, <2>2, EveryNatural
  <1>3. fields = From(fields, Len(text))
    <2>1. \E f : f = From(f, Len(text))
      BY <1>2
    <2>. QED
      BY <2>1
  <1>4. \A k \in 0 .. Len(text) : fields[k] = IF k = 0 THEN none ELSE Next(fields[k - 1], k)
    BY <1>3
  <1> HIDE DEF fields
  <1>6. fields[0] = none /\ \A k \in 1 .. Len(text) : fields[k] = Next(fields[k - 1], k)
    BY <1>4
  <1>7. SplitsUpTo(fields, text, delimiter)
    BY <1>0, <1>6 DEF Next, none, SplitsUpTo
  <1>. QED
    BY <1>7

\* A text's fields begin as those of its beginning.
LEMMA SplitAgrees ==
  ASSUME NEW S, NEW text \in Seq(S), NEW longer \in Seq(S), Len(text) <= Len(longer),
         \A i \in 1 .. Len(text) : longer[i] = text[i],
         NEW delimiter, NEW f, NEW g, SplitsUpTo(f, text, delimiter), SplitsUpTo(g, longer, delimiter)
  PROVE  g[Len(text)] = SplitText(text, delimiter)
  <1> DEFINE n == Len(text)
             same == {k \in Nat : k <= n => g[k] = f[k]}
  <1>1. n \in Nat /\ Len(longer) \in Nat
    BY LenProperties
  <1>2. 0 \in same
    BY DEF SplitsUpTo
  <1>3. ASSUME NEW k \in Nat, k \in same PROVE k + 1 \in same
    <2>1. SUFFICES ASSUME k + 1 <= n PROVE g[k + 1] = f[k + 1]
      OBVIOUS
    <2>2. g[k] = f[k] /\ k + 1 \in 1 .. n /\ k + 1 \in 1 .. Len(longer) /\ (k + 1) - 1 = k
      BY <1>1, <1>3, <2>1
    <2>. QED
      BY <2>2 DEF SplitsUpTo
  <1>4. Nat \subseteq same
    <2> HIDE DEF same
    <2>. QED
      BY <1>2, <1>3, EveryNatural
  <1>5. g[n] = f[n]
    BY <1>1, <1>4
  <1>. QED
    BY <1>5 DEF SplitsUpTo

\* Characters that are no delimiter, at a place of a text, go on with the last field.
Runs(text, m, t, delimiter) ==
  /\ m \in Nat /\ m + Len(t) <= Len(text)
  /\ \A i \in 1 .. Len(t) : text[m + i] = t[i] /\ t[i] # delimiter

\* After m characters there are the fields before and one more.
Read(f, m, before, field) == f[m] = Append(before, field)

\* After a run of t, the last of the fields has grown from nothing to t.
LEMMA SplitRuns ==
  ASSUME NEW S, NEW text \in Seq(S), NEW delimiter, NEW f, SplitsUpTo(f, text, delimiter),
         NEW m, NEW t \in Seq(S), NEW last, last = m + Len(t), Runs(text, m, t, delimiter),
         NEW before \in Seq(Seq(S)), Read(f, m, before, <<>>)
  PROVE  Read(f, last, before, t)
  <1> DEFINE l == Len(t)
             ran == {j \in Nat : j <= l => f[m + j] = Append(before, SubSeq(t, 1, j))}
  <1>1. /\ l \in Nat /\ Len(text) \in Nat /\ m \in Nat /\ m + l <= Len(text)
        /\ \A i \in 1 .. l : text[m + i] = t[i] /\ t[i] # delimiter
    BY LenProperties DEF Runs
  <1>2. 0 \in ran
    <2>1. SubSeq(t, 1, 0) = <<>> /\ m + 0 = m
      BY <1>1
    <2>2. f[m + 0] = Append(before, SubSeq(t, 1, 0))
      BY <2>1 DEF Read
    <2>. QED
      BY <2>2
  <1>3. ASSUME NEW j \in Nat, j \in ran PROVE j + 1 \in ran
    <2>1. SUFFICES ASSUME j + 1 <= l PROVE f[m + (j + 1)] = Append(before, SubSeq(t, 1, j + 1))
      OBVIOUS
    <2> DEFINE read == SubSeq(t, 1, j)
    <2>2. f[m + j] = Append(before, read)
      BY <1>1, <1>3, <2>1
    <2>3. m + (j + 1) \in 1 .. Len(text) /\ (m + (j + 1)) - 1 = m + j /\ text[m + (j + 1)] = t[j + 1] /\ t[j + 1] # delimiter
      BY <1>1, <2>1
    <2>4. f[m + (j + 1)] = Append(Front(f[m + j]), Append(Last(f[m + j]), t[j + 1]))
      BY <2>3 DEF SplitsUpTo, SplitNext
    <2>5. read \in Seq(S)
      BY <1>1, <2>1, SubSeqProperties
    <2>6. Front(Append(before, read)) = before /\ Last(Append(before, read)) = read
      <3> HIDE DEF read
      <3>. QED
        BY <2>5, AppendProperties DEF Front, Last
    <2>7. SubSeq(t, 1, j + 1) = Append(read, t[j + 1])
      BY <1>1, <2>1
    <2>. QED
      BY <2>2, <2>4, <2>6, <2>7
  <1>4. Nat \subseteq ran
    <2> HIDE DEF ran
    <2>. QED
      BY <1>2, <1>3, EveryNatural
  <1>5. SubSeq(t, 1, l) = t
    BY <1>1
  <1>6. l \in ran
    <2> HIDE DEF ran
    <2>. QED
      BY <1>1, <1>4
  <1>7. f[m + l] = Append(before, SubSeq(t, 1, l))
    BY <1>1, <1>6
  <1>. QED
    BY <1>5, <1>7 DEF Read

\* A text without the delimiter is read as one field.
LEMMA SplitOne ==
  ASSUME NEW S, NEW t \in Seq(S), NEW delimiter, \A i \in 1 .. Len(t) : t[i] # delimiter
  PROVE  SplitText(t, delimiter) = <<t>>
  <1>1. PICK f : SplitsUpTo(f, t, delimiter)
    BY SplitUnfolds
  <1>2. <<>> \in Seq(Seq(S)) /\ Append(<<>>, <<>>) = <<<<>>>> /\ Append(<<>>, t) = <<t>>
    OBVIOUS
  <1>3. f[0] = Append(<<>>, <<>>) /\ SplitText(t, delimiter) = f[Len(t)]
    BY <1>1, <1>2 DEF SplitsUpTo
  <1>4. Len(t) \in Nat /\ 0 + Len(t) = Len(t) /\ 0 + Len(t) <= Len(t) /\ 0 \in Nat /\ \A i \in 1 .. Len(t) : 0 + i = i
    BY LenProperties
  <1>5. Runs(t, 0, t, delimiter)
    BY <1>4 DEF Runs
  <1>6. Read(f, 0, <<>>, <<>>)
    BY <1>3 DEF Read
  <1>7. Read(f, Len(t), <<>>, t)
    BY <1>1, <1>2, <1>4, <1>5, <1>6, SplitRuns
  <1>. QED
    BY <1>2, <1>3, <1>7 DEF Read

\* A delimiter and a text without it add that text as one more field.
LEMMA SplitGoesOn ==
  ASSUME NEW S, NEW before \in Seq(S), NEW t \in Seq(S), NEW delimiter \in S, \A i \in 1 .. Len(t) : t[i] # delimiter,
         SplitText(before, delimiter) \in Seq(Seq(S))
  PROVE  SplitText(before \o (<<delimiter>> \o t), delimiter) = Append(SplitText(before, delimiter), t)
  <1> DEFINE rest == <<delimiter>> \o t
             text == before \o rest
             b == Len(before)
             l == Len(t)
             given == SplitText(before, delimiter)
  <1>1. b \in Nat /\ l \in Nat
    BY LenProperties
  <1>2. <<delimiter>> \in Seq(S) /\ Len(<<delimiter>>) = 1 /\ <<delimiter>>[1] = delimiter
    OBVIOUS
  <1>3. /\ rest \in Seq(S) /\ Len(rest) = 1 + l
        /\ \A i \in 1 .. 1 + l : rest[i] = IF i <= 1 THEN <<delimiter>>[i] ELSE t[i - 1]
    BY <1>2, ConcatProperties
  <1>4. /\ text \in Seq(S) /\ Len(text) = b + (1 + l)
        /\ \A i \in 1 .. b + (1 + l) : text[i] = IF i <= b THEN before[i] ELSE rest[i - b]
    <2> HIDE DEF rest
    <2>. QED
      BY <1>3, ConcatProperties
  <1> HIDE DEF rest, text, given
  <1>5. \A i \in 1 .. b : text[i] = before[i]
    BY <1>1, <1>4
  <1>6. text[b + 1] = delimiter
    <2>1. b + 1 \in 1 .. b + (1 + l) /\ ~(b + 1 <= b) /\ (b + 1) - b = 1 /\ 1 \in 1 .. 1 + l
      BY <1>1
    <2>2. text[b + 1] = rest[1]
      BY <1>4, <2>1
    <2>3. rest[1] = delimiter
      BY <1>1, <1>2, <1>3
    <2>. QED
      BY <2>2, <2>3
  <1>7. \A i \in 1 .. l : text[(b + 1) + i] = t[i] /\ t[i] # delimiter
    <2> TAKE i \in 1 .. l
    <2>1. /\ (b + 1) + i \in 1 .. b + (1 + l) /\ ~((b + 1) + i <= b) /\ ((b + 1) + i) - b = 1 + i
          /\ 1 + i \in 1 .. 1 + l /\ ~(1 + i <= 1) /\ (1 + i) - 1 = i
      BY <1>1
    <2>2. text[(b + 1) + i] = rest[1 + i] /\ rest[1 + i] = t[i]
      BY <1>3, <1>4, <2>1
    <2>. QED
      BY <2>2
  <1>8. PICK f : SplitsUpTo(f, before, delimiter)
    BY SplitUnfolds
  <1>9. PICK g : SplitsUpTo(g, text, delimiter)
    BY <1>4, SplitUnfolds
  <1>10. b <= Len(text)
    BY <1>1, <1>4
  <1>11. g[b] = given
    <2>1. text \in Seq(S) /\ Len(before) <= Len(text) /\ \A i \in 1 .. Len(before) : text[i] = before[i]
      BY <1>4, <1>5, <1>10
    <2>2. g[Len(before)] = SplitText(before, delimiter)
      BY <1>8, <1>9, <2>1, SplitAgrees, ZenonT(30)
    <2>. QED
      BY <2>2 DEF given
  <1>12. g[b + 1] = Append(given, <<>>)
    <2>1. b + 1 \in 1 .. Len(text) /\ (b + 1) - 1 = b
      BY <1>1, <1>4
    <2>2. g[b + 1] = SplitNext(g[b], text[b + 1], delimiter)
      BY <1>9, <2>1 DEF SplitsUpTo
    <2>. QED
      BY <1>6, <1>11, <2>2 DEF SplitNext
  <1>13. given \in Seq(Seq(S)) /\ b + 1 \in Nat /\ (b + 1) + l = Len(text) /\ (b + 1) + l <= Len(text)
    BY <1>1, <1>4 DEF given
  <1>14. Runs(text, b + 1, t, delimiter)
    BY <1>7, <1>13 DEF Runs
  <1>15. Read(g, Len(text), given, t)
    <2>1. Read(g, b + 1, given, <<>>)
      BY <1>12 DEF Read
    <2>. QED
      BY <1>4, <1>9, <1>13, <1>14, <2>1, SplitRuns
  <1>. QED
    BY <1>9, <1>13, <1>15 DEF Read, SplitsUpTo, given, text, rest

\* The texts joined, one by one.
JoinNext(joined, k, text, delimiter) == IF k = 1 THEN text ELSE joined \o (<<delimiter>> \o text)

JoinsUpTo(joined, texts, delimiter) ==
  /\ \A k \in 1 .. Len(texts) : joined[k] = JoinNext(joined[k - 1], k, texts[k], delimiter)
  /\ JoinedTexts(texts, delimiter) = joined[Len(texts)]
  /\ joined[0] = <<>>

\* What is written after k texts is defined for every k up to their number.
LEMMA JoinUnfolds ==
  ASSUME NEW S, NEW texts \in Seq(S), NEW delimiter
  PROVE  \E joined : JoinsUpTo(joined, texts, delimiter)
  <1> DEFINE none == <<>>
             Next(g, k) == JoinNext(g, k, texts[k], delimiter)
             From(f, m) == [k \in 0 .. m |-> IF k = 0 THEN none ELSE Next(f[k - 1], k)]
             joined == CHOOSE f : f = From(f, Len(texts))
             defined == {m \in Nat : \E f : f = From(f, m)}
  <1>. Len(texts) \in Nat
    BY LenProperties
  <1>0. JoinedTexts(texts, delimiter) = joined[Len(texts)]
    BY DEF JoinedTexts, JoinNext
  <1> HIDE DEF Next, none
  <1>2. Nat \subseteq defined
    <2>1. 0 \in defined
      <3>1. [k \in 0 .. 0 |-> none] = From([k \in 0 .. 0 |-> none], 0)
        OBVIOUS
      <3>. QED
        BY <3>1
    <2>2. ASSUME NEW m \in Nat, m \in defined PROVE m + 1 \in defined
      <3>1. PICK f : f = From(f, m)
        BY <2>2
      <3> DEFINE g == [k \in 0 .. (m + 1) |-> IF k = m + 1 THEN Next(f[m], m + 1) ELSE f[k]]
      <3>2. \A k \in 0 .. m : f[k] = IF k = 0 THEN none ELSE Next(f[k - 1], k)
        BY <3>1
      <3>3. \A k \in 0 .. (m + 1) : g[k] = IF k = 0 THEN none ELSE Next(g[k - 1], k)
        BY <3>2
      <3>4. g = From(g, m + 1)
        BY <3>3
      <3> HIDE DEF g
      <3>. QED
        BY <3>4
    <2>. QED
      BY <2>1, <2>2, EveryNatural
  <1>3. joined = From(joined, Len(texts))
    <2>1. \E f : f = From(f, Len(texts))
      BY <1>2
    <2>. QED
      BY <2>1
  <1>4. \A k \in 0 .. Len(texts) : joined[k] = IF k = 0 THEN none ELSE Next(joined[k - 1], k)
    BY <1>3
  <1> HIDE DEF joined
  <1>6. joined[0] = none /\ \A k \in 1 .. Len(texts) : joined[k] = Next(joined[k - 1], k)
    BY <1>4
  <1>7. JoinsUpTo(joined, texts, delimiter)
    BY <1>0, <1>6 DEF Next, none, JoinsUpTo
  <1>. QED
    BY <1>7

\* Texts that hold no delimiter are read back from what joins them.
LEMMA JoinSplits ==
  ASSUME NEW S, NEW texts \in Seq(Seq(S)), texts # <<>>, NEW delimiter,
         \A k \in 1 .. Len(texts) : \A i \in 1 .. Len(texts[k]) : texts[k][i] # delimiter
  PROVE  SplitText(JoinedTexts(texts, delimiter), delimiter) = texts
  <1> DEFINE C == S \cup {delimiter}
             T == Seq(C)
             n == Len(texts)
  <1>1. texts \in Seq(T) /\ n \in Nat /\ n >= 1 /\ \A k \in 1 .. n : texts[k] \in T
    <2>1. n \in Nat /\ n # 0
      BY LenProperties, EmptySeq
    <2>2. Seq(S) \subseteq T
      BY SeqMonotonic
    <2>3. texts \in Seq(T)
      <3> HIDE DEF T
      <3>. QED
        BY <2>2, SeqMonotonic
    <2>4. \A k \in 1 .. n : texts[k] \in T
      <3> HIDE DEF T
      <3>. QED
        BY <2>3, ElementOfSeq
    <2>. QED
      BY <2>1, <2>3, <2>4
  <1>2. PICK joined : JoinsUpTo(joined, texts, delimiter)
    BY JoinUnfolds
  <1> DEFINE right == {k \in Nat : k + 1 <= n =>
                          joined[k + 1] \in T /\ SplitText(joined[k + 1], delimiter) = SubSeq(texts, 1, k + 1)}
  <1>3. 0 \in right
    <2>1. 1 \in 1 .. n
      BY <1>1
    <2>2. joined[1] = texts[1]
      BY <1>2, <2>1 DEF JoinsUpTo, JoinNext
    <2>3. \A i \in 1 .. Len(texts[1]) : texts[1][i] # delimiter
      BY <2>1
    <2>4. SplitText(texts[1], delimiter) = <<texts[1]>>
      BY <1>1, <2>1, <2>3, SplitOne
    <2>5. SubSeq(texts, 1, 1) = <<texts[1]>>
      <3>1. SubSeq(texts, 1, 0) = <<>>
        BY SubSeqEmpty
      <3>2. Append(SubSeq(texts, 1, 0), texts[0 + 1]) = SubSeq(texts, 1, 0 + 1)
        <4> HIDE DEF T
        <4>. QED
          BY <1>1, <2>1
      <3>3. Append(<<>>, texts[1]) = SubSeq(texts, 1, 1)
        BY <3>1, <3>2
      <3>4. \A x : Append(<<>>, x) = <<x>>
        OBVIOUS
      <3>. QED
        BY <3>3, <3>4
    <2>6. 0 + 1 = 1 /\ texts[1] \in T
      BY <1>1, <2>1
    <2> HIDE DEF T
    <2>. QED
      BY <2>2, <2>4, <2>5, <2>6
  <1>4. ASSUME NEW k \in Nat, k \in right PROVE k + 1 \in right
    <2>1. SUFFICES ASSUME (k + 1) + 1 <= n
                   PROVE  joined[(k + 1) + 1] \in T /\ SplitText(joined[(k + 1) + 1], delimiter) = SubSeq(texts, 1, (k + 1) + 1)
      OBVIOUS
    <2> DEFINE m == k + 1
               so == joined[m]
               t == texts[m + 1]
    <2>2. /\ m \in 1 .. n /\ m + 1 \in 1 .. n /\ m + 1 # 1 /\ (m + 1) - 1 = m
          /\ so \in T /\ SplitText(so, delimiter) = SubSeq(texts, 1, m)
      BY <1>1, <1>4, <2>1
    <2>3. joined[m + 1] = so \o (<<delimiter>> \o t)
      BY <1>2, <2>2 DEF JoinsUpTo, JoinNext
    <2>4. t \in T /\ \A i \in 1 .. Len(t) : t[i] # delimiter
      BY <1>1, <2>2
    <2>5. SplitText(so, delimiter) \in Seq(T)
      <3> HIDE DEF T, so, t
      <3>. QED
        BY <1>1, <2>2, SubSeqProperties
    <2>6. so \o (<<delimiter>> \o t) \in T
      <3>1. <<delimiter>> \in T
        OBVIOUS
      <3>2. <<delimiter>> \o t \in T
        <4> HIDE DEF C, t, so
        <4>. QED
          BY <2>4, <3>1, ConcatProperties
      <3> DEFINE q == <<delimiter>> \o t
      <3> HIDE DEF C, q, so
      <3>3. so \o q \in T
        BY <2>2, <3>2, ConcatProperties DEF q
      <3>. QED
        BY <3>3 DEF q
    <2>7. SplitText(so \o (<<delimiter>> \o t), delimiter) = Append(SplitText(so, delimiter), t)
      <3>1. delimiter \in C
        OBVIOUS
      <3> HIDE DEF C, so, t
      <3>. QED
        BY <2>2, <2>4, <2>5, <3>1, SplitGoesOn
    <2>8. Append(SubSeq(texts, 1, m), texts[m + 1]) = SubSeq(texts, 1, m + 1)
      <3> HIDE DEF T, so, m
      <3>. QED
        BY <1>1, <2>2
    <2> HIDE DEF T, so
    <2>. QED
      BY <2>2, <2>3, <2>6, <2>7, <2>8
  <1>5. Nat \subseteq right
    <2> HIDE DEF right
    <2>. QED
      BY <1>3, <1>4, EveryNatural
  <1>6. n - 1 \in Nat /\ (n - 1) + 1 = n
    BY <1>1
  <1>7. SplitText(joined[n], delimiter) = SubSeq(texts, 1, n)
    <2>1. n - 1 \in right
      BY <1>5, <1>6
    <2> HIDE DEF T
    <2>. QED
      BY <1>6, <2>1
  <1>8. SubSeq(texts, 1, n) = texts
    BY SubSeqFull
  <1>. QED
    BY <1>2, <1>7, <1>8 DEF JoinsUpTo

\* What one contribution says is read as one text, or split.
LEMMA OneText ==
  ASSUME NEW p, NEW present, NEW text
  PROVE  /\ <<Contribution(p, present, text)>> # <<>>
         /\ p.type # "array" => ReadBack(p, <<Contribution(p, present, text)>>) = <<text>>
         /\ p.format = "multi" => ReadBack(p, <<Contribution(p, present, text)>>) = <<text>>
         /\ p.type = "array" /\ p.format # "multi" =>
              ReadBack(p, <<Contribution(p, present, text)>>) = SplitText(text, Delimiter[p.format])
  <1> DEFINE one == Contribution(p, present, text)
             parts == <<one>>
             read == [i \in DOMAIN parts |-> parts[i].text]
  <1>1. one.text = text
    BY DEF Contribution
  <1> HIDE DEF one
  <1>2. parts[1] = one /\ DOMAIN parts = {1} /\ parts # <<>>
    OBVIOUS
  <1>3. DOMAIN read = {1} /\ read[1] = text
    BY <1>1, <1>2
  <1>4. read = <<text>>
    <2>1. read = [i \in {1} |-> read[i]]
      BY <1>3
    <2>2. <<text>> = [i \in {1} |-> <<text>>[i]] /\ <<text>>[1] = text
      OBVIOUS
    <2> HIDE DEF read
    <2>3. \A i \in {1} : read[i] = <<text>>[i]
      BY <1>3, <2>2
    <2>. QED
      BY <2>1, <2>2, <2>3
  <1>5. ReadBack(p, parts) = IF p.type = "array" /\ p.format # "multi" THEN SplitText(text, Delimiter[p.format]) ELSE read
    BY <1>1, <1>2 DEF ReadBack
  <1> HIDE DEF read, parts
  <1>6. parts # <<>> /\ (p.type # "array" => ReadBack(p, parts) = <<text>>) /\ (p.format = "multi" => ReadBack(p, parts) = <<text>>)
        /\ (p.type = "array" /\ p.format # "multi" => ReadBack(p, parts) = SplitText(text, Delimiter[p.format]))
    BY <1>2, <1>4, <1>5 DEF parts
  <1>. QED
    BY <1>6 DEF one, parts

\* No text at all is written as nothing, and nothing is read as one empty field.
LEMMA NothingSplits ==
  ASSUME NEW delimiter
  PROVE  SplitText(<<>>, delimiter) = <<<<>>>> /\ JoinedTexts(<<>>, delimiter) = <<>>
  <1>1. <<>> \in Seq({}) /\ Len(<<>>) = 0
    OBVIOUS
  <1>2. \A i \in 1 .. Len(<<>>) : <<>>[i] # delimiter
    BY <1>1
  <1>3. SplitText(<<>>, delimiter) = <<<<>>>>
    BY <1>1, <1>2, SplitOne
  <1>4. PICK joined : JoinsUpTo(joined, <<>>, delimiter)
    BY <1>1, JoinUnfolds
  <1>. QED
    BY <1>1, <1>3, <1>4 DEF JoinsUpTo

\* Several texts of an array, each in a contribution.
EachOf(p, texts) == [i \in DOMAIN texts |-> Contribution(p, TRUE, texts[i])]
EachText(parts) == [i \in DOMAIN parts |-> parts[i].text]

\* One contribution for each text carries the texts in order.
LEMMA ManyTexts ==
  ASSUME NEW p, NEW texts \in Seq(Seq(Characters)), texts # <<>>
  PROVE  EachOf(p, texts) # <<>> /\ EachText(EachOf(p, texts)) = texts
  <1> DEFINE parts == EachOf(p, texts)
  <1>1. texts = [i \in DOMAIN texts |-> texts[i]] /\ DOMAIN texts = 1 .. Len(texts) /\ Len(texts) \in Nat /\ Len(texts) # 0
    BY LenProperties, EmptySeq
  <1>2. \A i \in DOMAIN texts : parts[i].text = texts[i]
    BY DEF Contribution, EachOf
  <1>3. DOMAIN parts = DOMAIN texts
    BY DEF EachOf
  <1> HIDE DEF parts
  <1>4. 1 \in DOMAIN parts
    BY <1>1, <1>3
  <1>5. parts # <<>>
    <2>1. DOMAIN <<>> = {}
      OBVIOUS
    <2>. QED
      BY <1>4, <2>1
  <1>6. [i \in DOMAIN parts |-> parts[i].text] = texts
    BY <1>1, <1>2, <1>3
  <1>. QED
    BY <1>5, <1>6 DEF EachText, parts

Faithful(p, parts, texts) ==
  /\ parts # <<>>
  /\ \/ ReadBack(p, parts) = texts
     \/ ReadBack(p, parts) = <<<<>>>> /\ p.type = "array" /\ texts = <<>>

\* The texts of a supplied value are texts of characters.
LEMMA TextsAreTyped ==
  ASSUME SwaggerInputAssumption, NEW c \in SwaggerInputs, NEW s \in c.supplied, NEW p
  PROVE  /\ p.type = "array" => Texts(p, s.value) \in Seq(Seq(Characters))
         /\ p.type # "array" => Texts(p, s.value) = <<s.value.text>>
  <1> DEFINE items == s.value.items
             n == Len(items)
             texts == [i \in 1 .. n |-> items[i].text]
  <1>1. n \in Nat /\ DOMAIN items = 1 .. n /\ \A i \in 1 .. n : items[i].text \in Seq(Characters)
    BY DEF SwaggerInputAssumption
  <1>2. p.type = "array" => Texts(p, s.value) = texts
    BY <1>1 DEF Texts
  <1>3. texts \in Seq(Seq(Characters))
    <2>1. texts \in [1 .. n -> Seq(Characters)]
      BY <1>1
    <2> HIDE DEF n, texts
    <2>. QED
      BY <1>1, <2>1, IsASeq
  <1>. QED
    BY <1>2, <1>3 DEF Texts

\* What is written of one value is read as that value.
LEMMA OneParameterReadsBack ==
  ASSUME SwaggerInputAssumption, NEW c \in SwaggerInputs, NEW s \in c.supplied, NEW p, NEW converter, NEW form,
         ValidDeclaration(p), p.in # "body", ~SerializeParameter(p, s.value, converter, form).refused
  PROVE  Faithful(p, SerializeParameter(p, s.value, converter, form).wire, Texts(p, s.value))
  <1> DEFINE value == s.value
             texts == Texts(p, value)
             d == Delimiter[p.format]
             made == SerializeParameter(p, value, converter, form)
             w == made.wire
             alone == <<Contribution(p, form = "empty", <<>>)>>
  <1>1. /\ \A x : Written(x).wire = x
        /\ Unwritten.refused /\ \A x : Awaits(x).refused
    BY DEF Written, Unwritten, Awaits
  <1>2. /\ p.type = "array" => texts \in Seq(Seq(Characters))
        /\ p.type # "array" => texts = <<value.text>>
    BY TextsAreTyped
  <1>3. made = IF p.type = "file" THEN IF value.is = "string" THEN Written(<<Contribution(p, TRUE, value.text)>>) ELSE Unwritten
               ELSE IF ~Conforms(p, value, converter) THEN Unwritten
               ELSE IF IsEmptyValue(p, texts) THEN EmptyContribution(p, form)
               ELSE IF p.type # "array" THEN Written(<<Contribution(p, TRUE, texts[1])>>)
               ELSE IF p.format = "multi" THEN Written([i \in DOMAIN texts |-> Contribution(p, TRUE, texts[i])])
               ELSE IF Ambiguous(texts, d) THEN Unwritten
               ELSE Written(<<Contribution(p, TRUE, JoinedTexts(texts, d))>>)
    BY DEF SerializeParameter
  <1>4. ~made.refused
    OBVIOUS
  <1> HIDE DEF made, texts, d
  <1>5. CASE p.type = "file"
    <2>1. w = <<Contribution(p, TRUE, value.text)>>
      BY <1>1, <1>3, <1>4, <1>5
    <2>2. p.type # "array"
      BY <1>5
    <2> DEFINE sent == <<Contribution(p, TRUE, value.text)>>
    <2>3. sent # <<>> /\ ReadBack(p, sent) = <<value.text>>
      BY <2>2, OneText
    <2>4. w # <<>> /\ ReadBack(p, w) = <<value.text>>
      <3> HIDE DEF sent
      <3>. QED
        BY <2>1, <2>3 DEF sent
    <2>. QED
      BY <1>2, <2>2, <2>4 DEF Faithful, texts, made
  <1>6. CASE p.type # "file" /\ Conforms(p, value, converter) /\ IsEmptyValue(p, texts)
    <2>1. w = alone
      BY <1>1, <1>3, <1>4, <1>6 DEF EmptyContribution
    <2>2. CASE p.type = "array"
      <3>1. texts = <<>>
        BY <1>6, <2>2 DEF IsEmptyValue
      <3>2. ReadBack(p, alone) = <<<<>>>>
        BY OneText, NothingSplits
      <3>. QED
        BY <2>1, <2>2, <3>1, <3>2, OneText DEF Faithful, texts, made
    <2>3. CASE p.type # "array"
      <3>1. texts = <<<<>>>>
        BY <1>6, <2>3 DEF IsEmptyValue
      <3>2. ReadBack(p, alone) = <<<<>>>>
        BY <2>3, OneText
      <3>. QED
        BY <2>1, <3>1, <3>2, OneText DEF Faithful, texts, made
    <2>. QED
      BY <2>2, <2>3
  <1>7. CASE p.type # "file" /\ Conforms(p, value, converter) /\ ~IsEmptyValue(p, texts) /\ p.type # "array"
    <2>1. w = <<Contribution(p, TRUE, texts[1])>>
      BY <1>1, <1>3, <1>7
    <2>2. texts = <<value.text>> /\ texts[1] = value.text
      BY <1>2, <1>7
    <2> DEFINE sent == <<Contribution(p, TRUE, texts[1])>>
    <2>3. sent # <<>> /\ ReadBack(p, sent) = <<texts[1]>>
      BY <1>7, OneText
    <2>4. w # <<>> /\ ReadBack(p, w) = <<value.text>>
      <3> HIDE DEF sent
      <3>. QED
        BY <2>1, <2>2, <2>3 DEF sent
    <2>. QED
      BY <2>2, <2>4 DEF Faithful, texts, made
  <1>8. CASE p.type = "array" /\ Conforms(p, value, converter) /\ ~IsEmptyValue(p, texts) /\ p.format = "multi"
    <2>1. w = [i \in DOMAIN texts |-> Contribution(p, TRUE, texts[i])]
      BY <1>1, <1>3, <1>8
    <2>2. texts # <<>>
      BY <1>8 DEF IsEmptyValue, ValidDeclaration, ValidArray, Delimiter
    <2>3. w # <<>> /\ EachText(w) = texts
      <3>1. texts \in Seq(Seq(Characters)) /\ w = EachOf(p, texts)
        BY <1>2, <1>8, <2>1 DEF EachOf
      <3>. QED
        BY <2>2, <3>1, ManyTexts
    <2>. QED
      BY <1>8, <2>3 DEF Faithful, ReadBack, EachText, texts, made
  <1>9. CASE p.type = "array" /\ Conforms(p, value, converter) /\ ~IsEmptyValue(p, texts) /\ p.format # "multi"
    <2>1. w = <<Contribution(p, TRUE, JoinedTexts(texts, d))>> /\ ~Ambiguous(texts, d)
      BY <1>1, <1>3, <1>4, <1>9
    <2>2. ReadBack(p, w) = SplitText(JoinedTexts(texts, d), d) /\ w # <<>>
      <3> DEFINE all == JoinedTexts(texts, d)
                 sent == <<Contribution(p, TRUE, all)>>
      <3>1. w = sent
        BY <2>1
      <3> HIDE DEF all
      <3>2. sent # <<>> /\ ReadBack(p, sent) = SplitText(all, d)
        BY <1>9, OneText DEF d
      <3> HIDE DEF sent
      <3>. QED
        BY <3>1, <3>2 DEF all
    <2>3. CASE texts = <<>>
      <3>1. ReadBack(p, w) = <<<<>>>>
        BY <2>2, <2>3, NothingSplits
      <3>. QED
        BY <1>9, <2>2, <2>3, <3>1 DEF Faithful, texts, made
    <2>4. CASE texts # <<>>
      <3>1. \A k \in 1 .. Len(texts) : \A i \in 1 .. Len(texts[k]) : texts[k][i] # d
        <4>1. DOMAIN texts = 1 .. Len(texts)
          BY <1>2, <1>9, LenProperties
        <4>. QED
          BY <2>1, <4>1 DEF Ambiguous, Contains
      <3>2. SplitText(JoinedTexts(texts, d), d) = texts
        BY <1>2, <1>9, <2>4, <3>1, JoinSplits
      <3>. QED
        BY <2>2, <3>2 DEF Faithful, texts, made
    <2>. QED
      BY <2>3, <2>4
  <1>. QED
    BY <1>1, <1>3, <1>4, <1>5, <1>6, <1>7, <1>8, <1>9

\* One input: every value at the declaration in force for it, and read from there.
LEMMA EveryInputReadsBack ==
  ASSUME SwaggerInputAssumption, NEW c \in SwaggerInputs
  PROVE  ServerReadsTheInput(c.pathScope, c.scope, c.pathNames, c.supplied, c.converter, c.form)
  <1> DEFINE parameters == EffectiveParameters(c.pathScope, c.scope, c.pathNames)
             all == parameters.all
             routed == RouteSwagger(all, c.supplied, c.converter, c.form)
             named == {p \in all : p.in \in WireLocations}
             given(p) == {s \in c.supplied : <<s.in, s.name>> = ParameterIdentity(p)}
             written(p) == SerializeParameter(p, (CHOOSE s \in given(p) : TRUE).value, c.converter, c.form)
             sent == {p \in named : given(p) # {}}
  <1>1. SUFFICES ASSUME ~parameters.refused, ~routed.refused
                 PROVE  /\ {ParameterIdentity(m.parameter) : m \in routed.sent} = {<<s.in, s.name>> : s \in c.supplied}
                        /\ \A m \in routed.sent, s \in c.supplied :
                              ParameterIdentity(m.parameter) = <<s.in, s.name>> =>
                                 /\ \/ m.parameter \in c.scope
                                    \/ \A q \in c.scope : ParameterIdentity(q) # ParameterIdentity(m.parameter)
                                 /\ Faithful(m.parameter, m.wire, Texts(m.parameter, s.value))
                        /\ \A m, n \in routed.sent : m # n =>
                              \/ m.parameter.in # n.parameter.in
                              \/ Lower(m.parameter.name) # Lower(n.parameter.name)
                              \/ m.parameter.in # "header"
    BY DEF ServerReadsTheInput, Faithful
  <1>2. /\ ~Repeats(c.pathScope) /\ ~Repeats(c.scope)
        /\ \A p \in all : /\ ValidDeclaration(p)
                          /\ p \in c.scope \/ (p \in c.pathScope /\ \A q \in c.scope : ParameterIdentity(q) # ParameterIdentity(p))
        /\ \A p, q \in all : p.in = "header" /\ q.in = "header" => ~(p.name # q.name /\ Lower(p.name) = Lower(q.name))
    BY <1>1 DEF EffectiveParameters
  <1>3. /\ routed.sent = {[parameter |-> p, wire |-> written(p).wire] : p \in sent}
        /\ \A s \in c.supplied : \E p \in named : <<s.in, s.name>> = ParameterIdentity(p)
        /\ \A p \in sent : ~written(p).refused
    BY <1>1 DEF RouteSwagger
  <1> HIDE DEF all, routed
  <1>4. /\ \A m \in routed.sent : m.parameter \in sent /\ m.wire = written(m.parameter).wire
        /\ \A m, n \in routed.sent : m.parameter = n.parameter => m = n
    <2> HIDE DEF sent, written
    <2>. QED
      BY <1>3
  <1>5. \A p \in sent : \E m \in routed.sent : m.parameter = p
    <2> HIDE DEF sent, written
    <2>1. ASSUME NEW p \in sent PROVE \E m \in routed.sent : m.parameter = p
      <3>1. [parameter |-> p, wire |-> written(p).wire] \in routed.sent
        BY <1>3
      <3>2. [parameter |-> p, wire |-> written(p).wire].parameter = p
        OBVIOUS
      <3>. QED
        BY <3>1, <3>2
    <2>. QED
      BY <2>1
  <1>6. {ParameterIdentity(m.parameter) : m \in routed.sent} = {<<s.in, s.name>> : s \in c.supplied}
    <2>1. ASSUME NEW m \in routed.sent PROVE \E s \in c.supplied : ParameterIdentity(m.parameter) = <<s.in, s.name>>
      BY <1>4
    <2>2. ASSUME NEW s \in c.supplied PROVE \E m \in routed.sent : ParameterIdentity(m.parameter) = <<s.in, s.name>>
      <3>1. PICK p \in named : <<s.in, s.name>> = ParameterIdentity(p)
        BY <1>3
      <3>2. p \in sent
        BY <3>1
      <3> HIDE DEF sent
      <3>. QED
        BY <1>5, <3>1, <3>2
    <2>. QED
      BY <2>1, <2>2
  <1>7. ASSUME NEW m \in routed.sent, NEW s \in c.supplied, ParameterIdentity(m.parameter) = <<s.in, s.name>>
        PROVE  /\ \/ m.parameter \in c.scope
                  \/ \A q \in c.scope : ParameterIdentity(q) # ParameterIdentity(m.parameter)
               /\ Faithful(m.parameter, m.wire, Texts(m.parameter, s.value))
    <2> DEFINE p == m.parameter
    <2>1. p \in sent /\ p \in all /\ p.in \in WireLocations /\ m.wire = written(p).wire
      BY <1>4
    <2>2. given(p) = {s}
      BY <1>7 DEF SwaggerInputAssumption
    <2>3. written(p) = SerializeParameter(p, s.value, c.converter, c.form)
      BY <2>2
    <2>4. p.in # "body" /\ ValidDeclaration(p) /\ ~written(p).refused
      BY <1>2, <1>3, <2>1 DEF WireLocations
    <2> HIDE DEF p, sent, named, given
    <2>5. Faithful(p, SerializeParameter(p, s.value, c.converter, c.form).wire, Texts(p, s.value))
      BY <2>3, <2>4, OneParameterReadsBack
    <2>. QED
      BY <1>2, <2>1, <2>3, <2>5 DEF p
  <1>8. ASSUME NEW m \in routed.sent, NEW n \in routed.sent, m # n, m.parameter.in = n.parameter.in,
               Lower(m.parameter.name) = Lower(n.parameter.name), m.parameter.in = "header"
        PROVE  FALSE
    <2> DEFINE p == m.parameter
               q == n.parameter
    <2>1. p \in all /\ q \in all /\ p # q
      BY <1>4, <1>8
    <2>2. p.name = q.name
      BY <1>2, <1>8, <2>1
    <2>3. ParameterIdentity(p) = ParameterIdentity(q)
      BY <1>8, <2>2 DEF ParameterIdentity
    <2> HIDE DEF p, q
    <2>. QED
      BY <1>2, <2>1, <2>3 DEF Repeats
  <1>. QED
    BY <1>6, <1>7, <1>8

\* A server that knows a 2.0 operation's declarations reads what the caller supplied,
\* each value at the declaration in force for its location and name, or the call is
\* refused (swagger20-parameters.ts effectiveSwagger20Parameters,
\* routeSwagger20Input, serializeParameter).
THEOREM SwaggerParametersTheorem == SupplySpec => []SwaggerParametersReadBack
  <1>1. SupplyInit => supplying \subseteq SwaggerInputs
    BY DEF SupplyInit
  <1>2. supplying \subseteq SwaggerInputs /\ [UNCHANGED supplying]_supplying => (supplying \subseteq SwaggerInputs)'
    OBVIOUS
  <1>3. supplying \subseteq SwaggerInputs => SwaggerParametersReadBack
    BY SwaggerInputAssumption, EveryInputReadsBack DEF SwaggerParametersReadBack
  <1>. QED
    BY <1>1, <1>2, <1>3, PTL DEF SupplySpec
=============================================================================
