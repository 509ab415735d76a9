--------------------------- MODULE DocumentLoading ---------------------------
(***************************************************************************)
(* The engine's loading of documents (src/typescript/src/engine.ts): two   *)
(* or more calls prepare operations from embedded content or from one      *)
(* location, whose cache they share; the acceptance floor decides on the   *)
(* document as it was read, before anything is resolved.                   *)
(***************************************************************************)
EXTENDS AcceptanceFloor

CONSTANTS Calls, Documents, Requests

(* A document: its edition, whether a reference within it names nothing,    *)
(* whether it needs another resource, and what the floor reads of it (of an *)
(* edition 3.2 document only its target's references count).  A request:    *)
(* its lane (content, contentAt a location, location), whether it is        *)
(* prepareCached, whether external references are allowed, and the document *)
(* it embeds.  Of a document's targets, its source has the one that is      *)
(* prepared, if it is there.                                                *)
ASSUME LoadingAssumption ==
    /\ \A d \in Documents : /\ d.edition \in {"3.0", "3.2", "other"}
                            /\ d.dangling \in BOOLEAN /\ d.external \in BOOLEAN
                            /\ d.source.targets = {} \/ Cardinality(d.source.targets) = 1
    /\ \A r \in Requests : r.lane \in {"content", "contentAt", "location"} /\ r.embeds \in Documents

None == [by |-> "none"]   \* nothing loaded

VARIABLES request, stage, \* per call: idle, retrieving, composing, resolving, reaching, settled
          got,            \* the document a call works on, and the call that loaded it
          outcome,        \* none, prepared, null, failed, refused
          cache,          \* what the location's entry holds
          held,           \* the calls whose 3.2 document has its other resource by now
          network         \* the calls that reached the network

loadingVars == <<request, stage, got, outcome, cache, held, network>>

LoadingStarts(requests) ==
    /\ request = requests
    /\ stage = [c \in Calls |-> "idle"] /\ got = [c \in Calls |-> None]
    /\ outcome = [c \in Calls |-> "none"] /\ cache = None /\ held = {} /\ network = {}
LoadingInit == \E requests \in [Calls -> Requests] : LoadingStarts(requests)

(* The 3.2 lane has no floor.                                               *)
Gated(d) == d.edition # "3.2" /\ Refusal(d.source)

Verdict(d) ==
    IF d.source.targets = {} THEN "absent"
    ELSE IF d.edition = "3.2" THEN "represented"
    ELSE Disposition(d.source, CHOOSE t \in d.source.targets : TRUE)

(* prepared(): a target the floor calls invalid is refused, one that is     *)
(* only excluded is left to the run.                                        *)
PreparedAs(d) == CASE Verdict(d) = "invalid" -> "refused"
                [] Verdict(d) = "absent" -> "failed"
                [] OTHER -> "prepared"

Settles(c, how) == /\ stage' = [stage EXCEPT ![c] = "settled"]
                   /\ outcome' = [outcome EXCEPT ![c] = how]

(* prepared() settles at once, or has the 3.2 document resolve what its     *)
(* target needs.                                                            *)
Prepares(c, loaded) ==
    IF loaded.document.edition = "3.2"
    THEN stage' = [stage EXCEPT ![c] = "resolving"] /\ UNCHANGED outcome
    ELSE Settles(c, PreparedAs(loaded.document))

(* The location's entry is looked up before any await.                      *)
Hit(c) ==
    /\ stage[c] = "idle" /\ request[c].lane = "location" /\ cache # None
    /\ got' = [got EXCEPT ![c] = cache]
    /\ Prepares(c, cache)
    /\ UNCHANGED <<request, cache, held, network>>

MissCached(c) ==
    /\ stage[c] = "idle" /\ request[c].lane = "location" /\ cache = None /\ request[c].cached
    /\ Settles(c, "null")
    /\ UNCHANGED <<request, got, cache, held, network>>

Miss(c) ==
    /\ stage[c] = "idle" /\ request[c].lane = "location" /\ cache = None /\ ~request[c].cached
    /\ stage' = [stage EXCEPT ![c] = "retrieving"]
    /\ network' = network \cup {c}
    /\ UNCHANGED <<request, got, outcome, cache, held>>

Loads(c, d) == /\ got' = [got EXCEPT ![c] = [document |-> d, by |-> c]]
               /\ stage' = [stage EXCEPT ![c] = "composing"]
               /\ UNCHANGED <<request, outcome, cache, held, network>>

Embed(c) == stage[c] = "idle" /\ request[c].lane # "location" /\ Loads(c, request[c].embeds)

(* The server answers with whatever it holds by then.                       *)
Retrieved(c) == stage[c] = "retrieving" /\ \E d \in Documents : Loads(c, d)

(* The content lane tolerates a reference that names nothing; the location  *)
(* lane does not.  A 3.2 document is composed as it is, and resolved later; *)
(* an embedded one is not cached.  prepareCached of content allows no       *)
(* external reference.                                                      *)
External(c) == ~request[c].cached /\ request[c].external
Composes(c) ==
    LET d == got[c].document IN
    /\ d.edition # "other"
    /\ d.edition = "3.2" \/ /\ d.external => External(c)
                            /\ d.dangling => request[c].lane # "location"
Cacheable(c) ==
    request[c].lane = "location" \/ (request[c].lane = "contentAt" /\ got[c].document.edition # "3.2")

(* Who composes a 3.0 document retrieves its other resource, before or      *)
(* after it meets what makes it fail.                                       *)
Retrieves(c) ==
    IF stage[c] = "composing" /\ got[c].document.edition = "3.0" /\ got[c].document.external /\ External(c) THEN {c} ELSE {}

(* Retrieval fails, an external resource cannot be read, or the signal is   *)
(* aborted.                                                                 *)
LoadFails(c) ==
    /\ stage[c] \in {"retrieving", "composing"}
    /\ Settles(c, "failed")
    /\ \E reached \in SUBSET Retrieves(c) : network' = network \cup reached
    /\ UNCHANGED <<request, got, cache, held>>

(* Mutant: the entry is written before the source is gated.                 *)
CachedBeforeTheGate(c) ==
    IF Composes(c) /\ Cacheable(c) THEN got[c] ELSE cache

CachedAfter(c) ==
    IF Composes(c) /\ ~Gated(got[c].document) /\ Cacheable(c) THEN got[c] ELSE cache

Compose(c) ==
    /\ stage[c] = "composing"
    /\ IF Composes(c) /\ ~Gated(got[c].document) THEN Prepares(c, got[c]) ELSE Settles(c, "failed")
    /\ cache' = CachedAfter(c)
    /\ \E reached \in SUBSET Retrieves(c) : /\ Composes(c) => reached = Retrieves(c)
                                          /\ network' = network \cup reached
    /\ UNCHANGED <<request, got, held>>

-----------------------------------------------------------------------------
(* A 3.2 document resolves the references of one target when it is asked    *)
(* to, with the options (fetch, signal, external references allowed) of the *)
(* call that loaded it, and keeps what it retrieved.                        *)
Missing32(c) == got[c].document.external /\ got[c].by \notin held
Unresolvable(c) == got[c].document.dangling \/ (Missing32(c) /\ ~External(got[c].by))

ResolveTarget(c) ==
    /\ stage[c] = "resolving"
    /\ \/ Verdict(got[c].document) = "absent" /\ Settles(c, "failed")
       \/ Verdict(got[c].document) # "absent" /\ Unresolvable(c) /\ Settles(c, "refused")
       \/ Verdict(got[c].document) # "absent" /\ ~Unresolvable(c) /\ ~Missing32(c) /\ Settles(c, "prepared")
    /\ UNCHANGED <<request, got, cache, held, network>>

Reach(c) ==
    /\ stage[c] = "resolving" /\ Verdict(got[c].document) # "absent"
    /\ Missing32(c) /\ External(got[c].by)
    /\ stage' = [stage EXCEPT ![c] = "reaching"]
    /\ network' = network \cup {c}
    /\ UNCHANGED <<request, got, outcome, cache, held>>

ReachReturns(c) ==
    /\ stage[c] = "reaching"
    /\ stage' = [stage EXCEPT ![c] = "resolving"]
    /\ held' = held \cup {got[c].by}
    /\ UNCHANGED <<request, got, outcome, cache, network>>

(* The resource cannot be read, or the loading call's signal is aborted.    *)
ReachFails(c) ==
    /\ stage[c] = "reaching"
    /\ Settles(c, "refused")
    /\ UNCHANGED <<request, got, cache, held, network>>

LoadingDone == (\A c \in Calls : stage[c] = "settled") /\ UNCHANGED loadingVars

LoadingNext ==
    \/ \E c \in Calls : \/ Hit(c) \/ MissCached(c) \/ Miss(c) \/ Embed(c) \/ Retrieved(c) \/ LoadFails(c) \/ Compose(c)
                       \/ ResolveTarget(c) \/ Reach(c) \/ ReachReturns(c) \/ ReachFails(c)
    \/ LoadingDone

LoadingSpec == LoadingInit /\ [][LoadingNext]_loadingVars

(* The document a call's request names: the embedded one, or what the       *)
(* location gave the call that loaded it, which is what that call works on. *)
IsNamedBy(loaded, c) ==
    IF request[c].lane # "location" THEN loaded = [document |-> request[c].embeds, by |-> c]
    ELSE got[loaded.by] = loaded /\ request[loaded.by].lane # "content"

(***************************************************************************)
(* Whatever the calls race for, a call works on the document its request   *)
(* names; a prepared operation's document was read in full, its source is  *)
(* not refused and its target not invalid (of a 3.2 document, every        *)
(* reference of the target is resolved); the location's entry is such a    *)
(* source, that the location has given; and a prepareCached call reaches   *)
(* the network only to resolve an entry's 3.2 document, by leave of the    *)
(* call that loaded it (engine.ts load, prepared, prepareCached).          *)
(***************************************************************************)
PreparedStandsOnItsDocument ==
    /\ \A c \in Calls : got[c] # None => IsNamedBy(got[c], c)
    /\ \A c \in Calls : outcome[c] = "prepared" =>
          LET d == got[c].document IN
          \/ d.edition = "3.0" /\ ~Refusal(d.source) /\ Verdict(d) # "invalid"
          \/ d.edition = "3.2" /\ ~d.dangling /\ (d.external => got[c].by \in held)
    /\ cache # None => /\ got[cache.by] = cache /\ request[cache.by].lane # "content"
                       /\ \/ cache.document.edition = "3.2"
                          \/ cache.document.edition = "3.0" /\ ~Refusal(cache.document.source)
    /\ \A c \in network : request[c].cached =>
          /\ request[c].lane = "location" /\ got[c].document.edition = "3.2" /\ got[c].document.external
          /\ External(got[c].by)

(***************************************************************************)
(* "Returns null instead of retrieving a location, for side-effect-free    *)
(* inspection surfaces": a prepareCached call never reaches the network.   *)
(* An entry's 3.2 document does, for a reference of the target             *)
(* (engine.ts prepareCached, openapi32-artifact.ts resolveReference).      *)
(***************************************************************************)
InspectionStaysLocal == \A c \in network : ~request[c].cached
=============================================================================
