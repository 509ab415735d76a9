--------------------------- MODULE Swagger20Preflight ----------------------------
(***************************************************************************)
(* What a Swagger 2.0 operation is known to need before it is called       *)
(* (src/typescript/src/swagger20-synthesis.ts analyzeSwagger20Operation)   *)
(* and what preflight reports of it (src/typescript/src/client.ts          *)
(* preflightSwagger20), beside the call itself, Swagger20Call.  A host     *)
(* that is there is not empty, and a form with a file has no other         *)
(* parameter.  The points preflight passes over (converters, codings, the  *)
(* form of an empty value) are not among those foreseen.  A declared       *)
(* operation also says whether its alternatives are inherited from the     *)
(* document.                                                               *)
(***************************************************************************)
EXTENDS Swagger20Call

UsableAlternatives(d) ==
    {k \in DOMAIN d.alternatives :
        \A n \in d.alternatives[k] : d.schemeAt[n] # "" /\ ~Collides20(d, d.alternatives[k], n)}

UsableMedia(d) == {m \in Entries(d.consumes) : UsableEntry(m, d.payload)}

(* Mutant: an optional payload asks for its media as a required one does.   *)
MediaAlwaysForeseen(d) ==
    /\ d.payload.kind # "none" /\ UsableMedia(d) # {}
    /\ \A m \in UsableMedia(d) : IsRange(m) \/ UsableMedia(d) # {m}

MediaForeseen(d) ==
    /\ d.payload.required /\ UsableMedia(d) # {}
    /\ \A m \in UsableMedia(d) : IsRange(m) \/ UsableMedia(d) # {m}

SecurityForeseen(d) ==
    \/ Cardinality(UsableAlternatives(d)) > 1
    \/ d.inherited /\ Len(d.alternatives) > 1

Excluded20(d) ==
    \/ d.payload.required /\ UsableMedia(d) = {}
    \/ d.alternatives # <<>> /\ UsableAlternatives(d) = {}

Foreseen(d) ==
    {p \in {"server", "requestMedia", "propertyMedia", "security"} :
        CASE p = "server" -> d.schemes # <<>> /\ ServerRung(d, Nothing).is # "pass"
          [] p = "requestMedia" -> MediaForeseen(d)
          [] p = "propertyMedia" -> d.payload.required /\ d.payload.file
          [] p = "security" -> SecurityForeseen(d)}

Answered(o) ==
    {p \in {"server", "requestMedia", "propertyMedia", "security"} :
        CASE p = "server" -> o.server # ""
          [] p = "requestMedia" -> o.media # <<>>
          [] p = "propertyMedia" -> o.propertyMedia
          [] p = "security" -> o.alternative # 0}

(* Credentials are given to the client and, optionally, to the call.  To    *)
(* preflight the call's options replace the client's, auth as a whole among *)
(* them; the call itself merges the two by scheme.                          *)
NotGiven == [given |-> FALSE, schemes |-> {}]
PreflightAuth(ofClient, ofCall) == IF ofCall.given THEN ofCall.schemes ELSE ofClient
CallAuth(ofClient, ofCall) == ofClient \cup ofCall.schemes

MissingSchemes(d, o, auth) ==
    IF UsableAlternatives(d) = {} \/ (o.alternative = 0 /\ SecurityForeseen(d)) THEN {}
    ELSE d.alternatives[IF o.alternative # 0 THEN o.alternative ELSE Min(UsableAlternatives(d))] \ auth

Preflight20(d, o, auth) ==
    [failed |-> \/ Excluded20(d)
                \/ o.alternative # 0 /\ d.alternatives # <<>> /\ o.alternative \notin UsableAlternatives(d),
     points |-> Foreseen(d) \ Answered(o),
     schemes |-> MissingSchemes(d, o, auth)]

(* Everything answered that is not, but for one point or one scheme.        *)
DeclaredSchemes(d) == UNION {d.alternatives[j] : j \in DOMAIN d.alternatives}

Completed(d, o, point, scheme, k, m) ==
    [server |-> IF "server" \in Answered(o) \/ point = "server" THEN o.server ELSE "url",
     alternative |-> k, media |-> m,
     credentials |-> DeclaredSchemes(d) \ {scheme},
     propertyMedia |-> point # "propertyMedia" \/ o.propertyMedia,
     emptyValueForm |-> TRUE, converter |-> TRUE]

AlternativesTried(d, o, point) ==
    {o.alternative} \cup (IF o.alternative # 0 \/ point = "security" THEN {} ELSE DOMAIN d.alternatives)

MediaTried(d, o, point) ==
    {o.media} \cup (IF o.media # <<>> \/ point = "requestMedia" THEN {} ELSE
        Representatives20(d.payload) \cup {e \in Entries(d.consumes) : ~IsRange(e)})

Answers(d, o, point, scheme) ==
    {Completed(d, o, point, scheme, k, m) : k \in AlternativesTried(d, o, point), m \in MediaTried(d, o, point)}

(* The ways the credentials a call has can have been given.                 *)
Givings(credentials) ==
    {g \in [ofClient : SUBSET credentials, ofCall : {NotGiven} \cup [given : {TRUE}, schemes : SUBSET credentials]] :
        CallAuth(g.ofClient, g.ofCall) = credentials}

(* What a call may ask for that analyzeSwagger20Operation never foresees:   *)
(* the form of an empty value, a server no declared scheme speaks of, the   *)
(* media of an optional payload that is there, and the choice between an    *)
(* operation's own alternatives when one of them only can be used.          *)
PassedOver(d, i, point) ==
    CASE point = "emptyValueForm" -> i.values = "empty"
      [] point = "server" -> d.schemes = <<>>
      [] point \in {"requestMedia", "propertyMedia"} -> i.body /\ ~d.payload.required
      [] point = "security" -> ~d.inherited /\ UsableAlternatives(d) # DOMAIN d.alternatives
      [] OTHER -> FALSE

(***************************************************************************)
(* What preflight reports is needed: with everything else answered, the    *)
(* call still does not pass without it; and a scheme it reports is still   *)
(* to be given, unless the client has it and the call's auth hides it from *)
(* preflight.  Where it reports nothing, the call asks for nothing but     *)
(* what preflight passes over.  However the credentials are divided        *)
(* between client and call (client.ts preflightSwagger20, streamSwagger20, *)
(* swagger20-execution.ts executeSwagger20).                               *)
(***************************************************************************)
SwaggerPreflightAgrees ==
    LET d == swaggerCase.declared
        i == swaggerCase.input
        asked == Decide20(d, i, choices)
    IN \A g \in Givings(choices.credentials) :
          LET report == Preflight20(d, choices, PreflightAuth(g.ofClient, g.ofCall))
          IN ~report.failed =>
             /\ \A p \in report.points : \A o \in Answers(d, choices, p, 0) : Decide20(d, i, o).is # "pass"
             /\ \A n \in report.schemes :
                   /\ n \in choices.credentials => g.ofCall.given /\ n \in g.ofClient \ g.ofCall.schemes
                   /\ \A o \in Answers(d, choices, "", n) : Decide20(d, i, o).is # "pass"
             /\ report.points = {} /\ report.schemes = {} /\ asked.is = "asked" => PassedOver(d, i, asked.point)

(***************************************************************************)
(* "Performs every artifact- and configuration-derived check known before  *)
(* dispatch and reports the native inputs, options, or credentials still   *)
(* required": what it reports the call has not got, and where it reports   *)
(* nothing the call asks for nothing that the document and the options     *)
(* decide alone (the media and the form of an empty value hang on the      *)
(* input).  Neither is so (client.ts preflightSwagger20,                   *)
(* swagger20-synthesis.ts analyzeSwagger20Operation).                      *)
(***************************************************************************)
PreflightReportsWhatIsRequired ==
    LET d == swaggerCase.declared
        asked == Decide20(d, swaggerCase.input, choices)
    IN \A g \in Givings(choices.credentials) :
          LET report == Preflight20(d, choices, PreflightAuth(g.ofClient, g.ofCall))
          IN ~report.failed =>
             /\ report.schemes \cap choices.credentials = {}
             /\ report.points = {} /\ report.schemes = {} /\ asked.is = "asked" =>
                   asked.point \in {"requestMedia", "propertyMedia", "emptyValueForm"}
=============================================================================
