------------------------------ MODULE Swagger20Call ------------------------------
(***************************************************************************)
(* One call of a Swagger 2.0 operation                                     *)
(* (src/typescript/src/swagger20-execution.ts and the modules it calls):   *)
(* the rungs before dispatch in their order, each of which passes, refuses *)
(* or names the choice it awaits; the caller who answers and calls again;  *)
(* the redirects; and what the response becomes.  Parameter values are     *)
(* Swagger20Parameters' affair: here they are fine, empty (they await      *)
(* emptyValueForm), number (they need a converter) or wrong.               *)
(*                                                                         *)
(* A case has a declared operation: host (good, bad, absent), retrieved    *)
(* (the document has a URL), schemes, alternatives (a sequence of sets of  *)
(* security schemes), schemeAt (the destination of each, "" for a broken   *)
(* definition), required (the destinations of required parameters),        *)
(* payload [kind, required, carriage, file], bodiless, consumes, produces  *)
(* and responses; and an input: values, at (the destinations supplied),    *)
(* body and is (string, base64 or object).  A security scheme is a number, *)
(* in the order of the names.                                              *)
(***************************************************************************)
EXTENDS Naturals, Sequences, FiniteSets, FiniteSetsExt

CONSTANTS SwaggerCases, SwaggerReplies

(* Security schemes are numbered, the entries of consumes are pairs and a   *)
(* file is a form's.                                                        *)
ASSUME SwaggerAssumption ==
    \A c \in SwaggerCases : /\ c.declared.alternatives \in Seq(SUBSET Nat)
                            /\ c.declared.consumes \in Seq(STRING \X STRING)
                            /\ c.declared.payload.kind # "form" => c.declared.payload.file = FALSE

VARIABLES swaggerCase,  \* the declared operation and the input
          choices,      \* what the caller has configured
          replied,      \* the points the caller has answered
          swagger,      \* [at, point]: ready, asked, refused, sent, done
          fetching,     \* the request in flight: its origin, whether it carries credentials, hops
          result        \* what the call returned

swaggerVars == <<swaggerCase, choices, replied, swagger, fetching, result>>

Nothing == [server |-> "", alternative |-> 0, credentials |-> {}, media |-> <<>>,
            propertyMedia |-> FALSE, emptyValueForm |-> FALSE, converter |-> FALSE]

Pass == [is |-> "pass", point |-> ""]
Refusal20 == [is |-> "refused", point |-> ""]
Asks(point) == [is |-> "asked", point |-> point]

(***************************************************************************)
(* Server and security.                                                    *)
(***************************************************************************)
UsableSchemes(d) ==
    IF d.schemes = <<>> THEN IF d.retrieved THEN <<"https">> ELSE <<>>
    ELSE SelectSeq(d.schemes, LAMBDA s : s \in {"http", "https"})

(* A server of the caller's replaces everything; without one, whatever it   *)
(* would repair awaits it, but for a host that is not an authority.         *)
ServerRung(d, o) ==
    IF o.server = "url" THEN Pass
    ELSE IF d.host = "bad" THEN Refusal20
    ELSE IF \/ d.host = "absent" /\ ~d.retrieved
            \/ o.server = "" /\ Len(UsableSchemes(d)) # 1
            \/ o.server = "index" /\ UsableSchemes(d) = <<>>
    THEN IF o.server = "" THEN Asks("server") ELSE Refusal20
    ELSE Pass

Selected20(d, o) == IF o.alternative = 0 THEN 1 ELSE o.alternative

(* The first of the alternative's schemes, in order, that fails, decides.   *)
Collides20(d, names, n) ==
    \/ \E m \in names : m < n /\ d.schemeAt[m] = d.schemeAt[n]
    \/ d.schemeAt[n] \in d.required \cup {"owned"}

SecurityRung(d, o) ==
    LET names == d.alternatives[Selected20(d, o)]
        missing(n) == n \notin o.credentials
        failing == {n \in names : d.schemeAt[n] = "" \/ missing(n) \/ Collides20(d, names, n)}
        first == Min(failing)
    IN IF d.alternatives = <<>> THEN Pass
       ELSE IF o.alternative = 0 /\ Len(d.alternatives) # 1 THEN Asks("security")
       ELSE IF Selected20(d, o) > Len(d.alternatives) THEN Refusal20
       ELSE IF failing = {} THEN Pass
       ELSE IF /\ d.schemeAt[first] # "" /\ missing(first)
               /\ \A n \in names : d.schemeAt[n] # ""
       THEN Asks("credentials") ELSE Refusal20

Credentials20(d, o) ==
    IF d.alternatives = <<>> THEN {} ELSE {d.schemeAt[n] : n \in d.alternatives[Selected20(d, o)]}

(***************************************************************************)
(* Media.                                                                  *)
(***************************************************************************)
(* The entries that occur once: a repeated one can never be chosen.         *)
Entries(media) == {media[i] : i \in {j \in DOMAIN media : \A k \in DOMAIN media : k # j => media[k] # media[j]}}
IsRange(m) == m[2] = "*"
Matches20(m, concrete) == m[1] \in {"*", concrete[1]} /\ m[2] \in {"*", concrete[2]}
Closest(set, concrete) ==
    LET matching == {m \in Entries(set) : Matches20(m, concrete)}
        rank(m) == IF m[1] = "*" THEN 0 ELSE IF IsRange(m) THEN 1 ELSE 2
    IN {m \in matching : \A n \in matching : rank(n) <= rank(m)}

JSON20(concrete) == concrete = <<"application", "json">> \/ concrete[2] = "x+json"

BodyLane20(concrete, carriage) ==
    CASE JSON20(concrete) -> "json"
      [] ~JSON20(concrete) /\ carriage \in {"byte", "octets"} -> carriage
      [] ~JSON20(concrete) /\ carriage = "text" /\ concrete[1] = "text" -> "text"
      [] OTHER -> ""

RequestLane20(concrete, payload) ==
    IF payload.kind = "body" THEN BodyLane20(concrete, payload.carriage)
    ELSE CASE concrete[2] = "x-www-form-urlencoded" /\ ~payload.file -> "urlencoded"
           [] concrete[2] = "form-data" -> "multipart"
           [] OTHER -> ""

(* A range counts when one of a few representatives would be carried.       *)
Representatives20(payload) ==
    IF payload.kind = "form" THEN {<<"application", "x-www-form-urlencoded">>, <<"multipart", "form-data">>}
    ELSE {<<"application", "json">>, <<"text", "plain">>, <<"application", "octet-stream">>, <<"image", "png">>}
UsableEntry(m, payload) ==
    IF IsRange(m) THEN \E c \in Representatives20(payload) : Matches20(m, c) /\ RequestLane20(c, payload) # ""
    ELSE RequestLane20(m, payload) # ""

SelectMedia20(d, o) ==
    LET usable == {m \in Entries(d.consumes) : UsableEntry(m, d.payload)}
    IN IF o.media # <<>>
       THEN IF Cardinality(Closest(d.consumes, o.media)) = 1 /\ RequestLane20(o.media, d.payload) # ""
            THEN Pass ELSE Refusal20
       ELSE IF usable = {} THEN Refusal20
       ELSE IF \E m \in usable : usable = {m} /\ ~IsRange(m) THEN Pass
       ELSE Asks("requestMedia")

Elected20(d, o) ==
    IF o.media # <<>> THEN o.media
    ELSE CHOOSE m \in Entries(d.consumes) : UsableEntry(m, d.payload)

(***************************************************************************)
(* The rungs, in the order of the code.                                    *)
(***************************************************************************)
Unless(condition) == IF condition THEN Refusal20 ELSE Pass

RequiredMediaRung(d, i, o) == IF d.payload.required THEN SelectMedia20(d, o) ELSE Pass

RouteRung(d, i, o) ==
    CASE i.values = "wrong" \/ (i.values = "number" /\ ~o.converter) -> Refusal20
      [] i.values = "empty" /\ ~o.emptyValueForm -> Asks("emptyValueForm")
      [] OTHER -> Unless(\/ i.body /\ d.payload.kind = "none"
                         \/ ~i.body /\ d.payload.required)

CollisionRung(d, i, o) == Unless(Credentials20(d, o) \cap i.at # {})
MethodRung(d, i, o) == Unless(i.body /\ d.bodiless)

MediaRung(d, i, o) == IF i.body THEN SelectMedia20(d, o) ELSE Pass

EncodeRung(d, i, o) ==
    IF ~i.body THEN Pass
    ELSE LET lane == RequestLane20(Elected20(d, o), d.payload)
         IN IF lane = "multipart" /\ d.payload.file /\ ~o.propertyMedia THEN Asks("propertyMedia")
            ELSE Unless(\/ lane = "text" /\ i.is = "object"
                        \/ lane \in {"byte", "octets"} /\ i.is # "base64")

Decide20(d, i, o) ==
    LET then(rung, next) == IF rung.is = "pass" THEN next ELSE rung
    IN then(ServerRung(d, o), then(SecurityRung(d, o), then(RequiredMediaRung(d, i, o),
       then(RouteRung(d, i, o), then(CollisionRung(d, i, o), then(MethodRung(d, i, o),
       then(MediaRung(d, i, o), EncodeRung(d, i, o))))))))

(***************************************************************************)
(* The response.  A reply is [status, media, empty, defect]: defect is     *)
(* whatever makes it unreadable (opaque, too large, a coding that fails).  *)
(***************************************************************************)
ResponseKey(d, status) ==
    IF status \in DOMAIN d.responses THEN {status} ELSE DOMAIN d.responses \cap {"default"}
Success(status) == status \in {"200", "204"}
NoContent(status) == status = "204"

Decodes(d, key, reply) ==
    /\ d.responses[key] \notin {"invalid", "no schema"}
    /\ Cardinality(Closest(d.produces, reply.media)) = 1
    /\ BodyLane20(reply.media, d.responses[key]) # ""

Received20(d, reply) ==
    LET governing == ResponseKey(d, reply.status)
        failed == IF Success(reply.status) THEN "error" ELSE "failure"
    IN IF reply.defect \/ reply.status = "101" \/ (NoContent(reply.status) /\ ~reply.empty) THEN "error"
       ELSE IF reply.empty THEN IF Success(reply.status) THEN "nothing" ELSE "failure"
       ELSE IF governing = {} THEN failed
       ELSE LET key == CHOOSE k \in governing : TRUE
            IN IF ~Decodes(d, key, reply) THEN IF d.responses[key] = "invalid" THEN failed ELSE "error"
               ELSE IF Success(reply.status) THEN "output" ELSE "failure"

-----------------------------------------------------------------------------
SwaggerStarts(case) ==
    /\ swaggerCase = case /\ choices = Nothing /\ replied = {}
    /\ swagger = [at |-> "ready", point |-> ""]
    /\ fetching = [origin |-> "home", credentials |-> FALSE, hops |-> 0] /\ result = ""
SwaggerInit == \E case \in SwaggerCases : SwaggerStarts(case)

(* executeSwagger20 up to its fetch.                                        *)
Attempt ==
    LET d == swaggerCase.declared
        decided == Decide20(d, swaggerCase.input, choices)
    IN /\ swagger.at = "ready"
       /\ swagger' = [at |-> IF decided.is = "pass" THEN "sent" ELSE decided.is, point |-> decided.point]
       /\ fetching' = [fetching EXCEPT !.credentials = decided.is = "pass" /\ Credentials20(d, choices) # {}]
       /\ UNCHANGED <<swaggerCase, choices, replied, result>>

Replies(d, point) ==
    CASE point = "server" -> {[choices EXCEPT !.server = s] :
            s \in {"url"} \cup (IF UsableSchemes(d) = <<>> THEN {} ELSE {"index"})}
      [] point = "security" -> {[choices EXCEPT !.alternative = k] : k \in DOMAIN d.alternatives}
      [] point = "credentials" -> {[choices EXCEPT !.credentials = @ \cup d.alternatives[Selected20(d, choices)]]}
      [] point = "requestMedia" -> {[choices EXCEPT !.media = m] :
            m \in {c \in Representatives20(d.payload) : \E e \in Entries(d.consumes) : Matches20(e, c)}
                  \cup {e \in Entries(d.consumes) : ~IsRange(e)}}
      [] point = "propertyMedia" -> {[choices EXCEPT !.propertyMedia = TRUE]}
      [] point = "emptyValueForm" -> {[choices EXCEPT !.emptyValueForm = TRUE]}

(* The caller supplies what the refusal named, and calls again.             *)
Reply ==
    /\ swagger.at = "asked"
    /\ choices' \in Replies(swaggerCase.declared, swagger.point)
    /\ replied' = replied \cup {swagger.point}
    /\ swagger' = [at |-> "ready", point |-> ""]
    /\ UNCHANGED <<swaggerCase, fetching, result>>

(* Mutant: each hop starts from the headers of the first request.           *)
RebuiltEachHop(from, to) == Credentials20(swaggerCase.declared, choices) # {} /\ from = to

Kept20(from, to) == fetching.credentials /\ from = to

FollowSwaggerRedirect(origin) ==
    /\ swagger.at = "sent" /\ fetching.hops < 9
    /\ fetching' = [origin |-> origin, credentials |-> Kept20(fetching.origin, origin), hops |-> fetching.hops + 1]
    /\ UNCHANGED <<swaggerCase, choices, replied, swagger, result>>

ReceiveSwagger(reply) ==
    /\ swagger.at = "sent"
    /\ swagger' = [at |-> "done", point |-> ""]
    /\ result' = [is |-> Received20(swaggerCase.declared, reply), reply |-> reply]
    /\ UNCHANGED <<swaggerCase, choices, replied, fetching>>

SwaggerDone == swagger.at \in {"refused", "done"} /\ UNCHANGED swaggerVars

SwaggerNext ==
    \/ Attempt
    \/ Reply
    \/ \E origin \in {"home", "away"} : FollowSwaggerRedirect(origin)
    \/ \E reply \in SwaggerReplies : ReceiveSwagger(reply)
    \/ SwaggerDone

SwaggerSpec == SwaggerInit /\ [][SwaggerNext]_swaggerVars

-----------------------------------------------------------------------------
(***************************************************************************)
(* Every answer advances: a caller who answers a context-required refusal  *)
(* with a choice the point admits is never asked for that point again      *)
(* (swagger20-context.ts swagger20RefusalError, swagger20-execution.ts     *)
(* executeSwagger20).                                                      *)
(***************************************************************************)
AnswersAdvance ==
    swagger.at = "asked" => swagger.point \notin replied

(***************************************************************************)
(* Credentials never reach another origin, nor come back after a hop       *)
(* there; and a result says what the response was: an output is the        *)
(* governed, decodable, non-empty body of a success, nothing is an empty   *)
(* success, a failure is not a success (swagger20-execution.ts             *)
(* swagger20FetchWithSafeRedirects, executeSwagger20).                     *)
(***************************************************************************)
SwaggerOutcomeIsTrue ==
    /\ fetching.credentials => fetching.origin = "home"
    /\ swagger.at = "done" =>
          LET reply == result.reply
          IN /\ result.is \in {"output", "nothing"} => Success(reply.status) /\ ~reply.defect
             /\ result.is = "output" =>
                   /\ ~reply.empty /\ reply.status # "204"
                   /\ \E k \in ResponseKey(swaggerCase.declared, reply.status) :
                         BodyLane20(reply.media, swaggerCase.declared.responses[k]) # ""
             /\ result.is = "failure" => ~Success(reply.status)

(* The call asks for nothing twice and says what happened                   *)
(* (swagger20-execution.ts executeSwagger20).                               *)
SwaggerCallIsTrue == AnswersAdvance /\ SwaggerOutcomeIsTrue
=============================================================================
