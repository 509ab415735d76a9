------------------------------ MODULE MCPlanning ------------------------------
(***************************************************************************)
(* The decisions of the TypeScript client that its calls do not interleave *)
(* in, on small inputs.  A behaviour is about one topic: a module with     *)
(* steps of its own (security, framing, loading, swagger, references), or  *)
(* a module of operators, whose cases are the values of problem.  The      *)
(* variables of the other modules stay where a machine that was not used   *)
(* is: in one of its initial states, or Idle.                              *)
(***************************************************************************)
EXTENDS SecurityPlans, StreamFraming, DocumentLoading, Swagger20Preflight, RefSiblings,
        Dereference, ParameterStyles, InputRouting, ServerSelection, MediaSelection, FormBodies,
        Swagger20Parameters, CutPoints, MultipartStream, WireGovernance, TLC

CONSTANT Topics

VARIABLES topic, problem

Idle == "idle"
NoReferences == refDocument = Idle /\ marks = Idle

-----------------------------------------------------------------------------
\* security: up to two alternatives over six schemes.
Key == [family |-> "apiKey", at |-> Header("x-key"), flows |-> 0]
Sid == [family |-> "apiKey", at |-> <<"cookie", "sid">>, flows |-> 0]
RawKey == [family |-> "apiKey", at |-> RawCookie, flows |-> 0]
Bearer == [family |-> "bearer", flows |-> 0]
OAuth == [family |-> "oauth2", flows |-> 2]
Digest == [family |-> "digest", flows |-> 0]
Schemes == "key" :> Key @@ "sid" :> Sid @@ "raw" :> RawKey @@ "bear" :> Bearer @@ "oauth" :> OAuth @@ "digest" :> Digest
OneSecurity == {{}, {"key"}, {"oauth"}, {"key", "sid"}, {"bear", "oauth"}, {"raw", "sid"}, {"digest"}, {"ghost"}}
SecurityDeclarations ==
    [schemes : {Schemes}, security : {<<>>} \cup [1..1 -> OneSecurity] \cup [1..2 -> OneSecurity], trace : BOOLEAN,
     fixed : {{}, {Header("x-key")}}, optional : {{Header("authorization"), <<"cookie", "sid">>}}]
SecurityContexts ==
    [flat : {{}}, named : {{}}, handled : {{}, {"digest"}}, index : {Unset}, hint : {"none", "structured"}]
    \cup [flat : {{"bearerToken"}}, named : {{"key"}}, handled : {{}}, index : {Unset, 1, 2}, hint : {"none"}]
SecurityStores ==
    [flat : {{}, {"bearerToken"}, {"accessToken", "apiKey"}}, named : {{}, {"key", "sid"}}, misfit : {{}}, index : {Unset, 2}]
    \cup [flat : {{"bearerToken"}, {"accessToken", "apiKey"}}, named : {{}}, misfit : {{"key", "bear"}, {"oauth"}}, index : {Unset}]
    \cup [flat : {{"bearerToken"}}, named : {{"key"}}, misfit : {{"bear", "sid"}}, index : {2}]

\* framing: streams as long as a terminator, a unit and what follows it.
ServerStreams ==
    [framing : {"sse"}, sorts : SeqOf({"data", "id", "comment", "CR", "LF"}, 4), limit : {3, 5}]
    \cup [framing : {"lines"}, sorts : SeqOf({"value", "junk", "CR", "LF"}, 5), limit : {3}]
    \cup [framing : {"sequence"}, sorts : SeqOf({"value", "RS", "LF"}, 5), limit : {3}]

\* references within and across two resources.
Found5 == {"a", "b", "c", "x", "y"}
AnObject(resource, children, rank) ==
    {[resource |-> resource, target |-> "", children |-> children, elsewhere |-> "", rank |-> rank]}
AReference(resource, targets, rank) ==
    {[resource |-> resource, target |-> t, children |-> <<>>, elsewhere |-> "ext", rank |-> rank] : t \in targets}
Shapes5 ==
    {[i \in Found5 |-> CASE i = "a" -> n[1] [] i = "b" -> n[2] [] i = "c" -> n[3] [] i = "x" -> n[4] [] i = "y" -> n[5]] :
        n \in AnObject(Entry, <<"c">>, 1)
              \X (AnObject(Entry, <<>>, 2) \cup AReference(Entry, Found5 \cup {Dangling, Nowhere}, 2))
              \X (AnObject(Entry, <<>>, 3) \cup AReference(Entry, Found5 \cup {Dangling, Nowhere}, 3))
              \X AnObject("ext", <<"y">>, 4)
              \X (AnObject("ext", <<>>, 5) \cup AReference("ext", Found5 \cup {Dangling}, 5))}
DereferenceCases == [document : {[nodes |-> shape] : shape \in Shapes5},
                     policy : [allowed : {{}, {"ext"}}, tolerant : BOOLEAN]]

\* floor: three schemas, one operation.
FloorSchema(sub) == [defective : BOOLEAN, sub : {sub}, ref : {NoRef, "b", "c", Unresolved, Stopped}]
FloorMedia(schema, broken) == [broken |-> broken, schema |-> schema]
FloorParameters ==
    {{}, {[kind |-> "inline", broken |-> FALSE, schema |-> "a"]}, {[kind |-> "ref", broken |-> FALSE, schema |-> Unresolved]},
     {[kind |-> "ref", broken |-> FALSE, schema |-> "c"]}, {[kind |-> "defective", broken |-> TRUE, schema |-> NoRef]}}
FloorTargets ==
    [object : {TRUE}, badPath : {FALSE}, params : FloorParameters, required : BOOLEAN,
     media : {{}, {FloorMedia("a", FALSE)}, {FloorMedia(NoRef, TRUE)}, {FloorMedia("a", FALSE), FloorMedia("c", FALSE)}},
     responses : {{}, {[key |-> "default", broken |-> FALSE, media |-> {FloorMedia("a", FALSE)}]},
                  {[key |-> "200", broken |-> TRUE, media |-> {}]}}]
FloorChoices ==
    [schemas : {"a" :> s[1] @@ "b" :> s[2] @@ "c" :> s[3] :
                   s \in FloorSchema({"b"}) \X [defective : BOOLEAN, sub : {{}}, ref : {NoRef, "c"}]
                         \X [defective : BOOLEAN, sub : {{}}, ref : {NoRef, "a"}]},
     components : {{}, {"c"}}, targets : {{t} : t \in FloorTargets}, paths : {"object"}, line : {"3.0"},
     otherRoots : {FALSE}, destroyed : {TRUE}, externalItems : {0}]

\* loading: two calls of one location.
LoadedSource(defective, required, paths) ==
    [schemas |-> "a" :> [defective |-> defective, sub |-> {}, ref |-> NoRef], components |-> {"a"},
     targets |-> {[object |-> TRUE, badPath |-> FALSE, params |-> {}, responses |-> {}, required |-> required,
                   media |-> {FloorMedia("a", FALSE)}]},
     paths |-> paths, line |-> "3.0", otherRoots |-> FALSE, destroyed |-> FALSE, externalItems |-> 0]
BadPaths == [LoadedSource(FALSE, FALSE, "object") EXCEPT !.targets = {[t EXCEPT !.badPath = TRUE] : t \in @}]
LoadedDocuments ==
    [edition : {"3.0"}, dangling : BOOLEAN, external : BOOLEAN,
     source : {LoadedSource(FALSE, FALSE, "object"), LoadedSource(FALSE, FALSE, "absent"), BadPaths}]
    \cup [edition : {"3.2"}, dangling : BOOLEAN, external : BOOLEAN, source : {LoadedSource(TRUE, TRUE, "object")}]
    \cup [edition : {"3.2", "other"}, dangling : {FALSE}, external : {TRUE}, source : {[LoadedSource(TRUE, TRUE, "object") EXCEPT !.targets = {}]}]
LoadRequests ==
    [lane : {"content", "contentAt"}, cached : BOOLEAN, external : {TRUE},
     embeds : {d \in LoadedDocuments : d.dangling = d.external \/ d.edition = "3.2"}]
    \cup [lane : {"location"}, cached : BOOLEAN, external : BOOLEAN, embeds : {CHOOSE d \in LoadedDocuments : TRUE}]

\* parameters: words of up to two characters, values of up to two words.
SmallWords == {<<>>} \cup {<<char>> : char \in {"a", ".", ",", "&", "=", "#", " ", "|", ";", "]"}} \cup {<<"a", "=">>, <<"a", "&">>}
ParameterValues ==
    [kind : {"primitive"}, words : {<<w>> : w \in SmallWords}]
    \cup [kind : {"array"}, words : {<<>>} \cup {<<w>> : w \in SmallWords} \cup (SmallWords \X SmallWords)]
    \cup [kind : {"object"}, words : {<<>>} \cup (SmallWords \X SmallWords) \cup {<<<<"a">>, w, <<",">>, <<"&">>>> : w \in SmallWords}]
ParameterDeclarations ==
    {p \in [in : {"path", "query", "header", "cookie"},
            style : {"simple", "label", "matrix", "form", "spaceDelimited", "pipeDelimited", "deepObject", "cookie"},
            explode : BOOLEAN, allowReserved : BOOLEAN, v32 : BOOLEAN, strict : BOOLEAN] :
        p.style \in Styles(p) /\ (p.allowReserved => p.in = "query")}
StyleCases == [declared : ParameterDeclarations, value : ParameterValues]

\* routing: names that share a spelling, in up to three declarations.
RouteNames == {<<"x">>, <<"x", 2>>, <<"body">>}
RouteParameters == [in : {"path", "query"}, name : RouteNames, required : {FALSE}]
                   \cup {[in |-> "header", name |-> <<"x">>, required |-> TRUE]}
RouteDeclarations ==
    {s \in SeqOf(RouteParameters, 3) : \A i, j \in DOMAIN s : i # j => <<s[i].in, s[i].name>> # <<s[j].in, s[j].name>>}
WholePlan == [sort |-> "whole", props |-> {}, required |-> TRUE]
RoutePlans == {<<>>, <<WholePlan>>} \cup
    UNION {{<<p>>, <<p, WholePlan>>} : p \in [sort : {"json", "form"}, props : {{<<"x">>}, {<<"x", 2>>, <<"x">>}}, required : {FALSE}]}
RouteFields == {{}, {<<"x">>}, {<<"x">>, <<"x", 2>>}, {<<"x">>, <<"body">>, <<"x", 3>>}, {<<"x", 3>>, <<"x", 4>>},
                {<<"payload">>, <<"x">>}, {<<"x">>, <<"x", 2>>, <<"x", 3>>}}
RoutedInputs == [interface : [params : RouteDeclarations, plans : RoutePlans], supplied : RouteFields]

\* servers: one or two Server Objects, up to two variables.
Host == Text("https://host")
AVariable(default, enum) == [default |-> default, enum |-> enum, closed |-> enum # {}]
ServerVariables ==
    {<<>>} \cup {1 :> AVariable(d, e) : d \in {Missing, <<Text("/v")>>, <<Text("?query")>>}, e \in {{}, {<<Text("/v")>>, <<Text("/w")>>}}}
    \cup {1 :> AVariable(d, {}) @@ 2 :> AVariable(<<Text("/w")>>, {}) : d \in {Missing, <<Text("/v")>>, <<Expression(2)>>}}
ServerUrls == {<<Host>>, <<Text("/")>>, <<Host, Expression(1)>>, <<Text("ftp://host")>>, <<Host, Expression(1), Expression(1)>>,
               <<Host, Text("?query")>>, <<Expression(1), Expression(2)>>, <<Host, Expression(2)>>}
ServerObjects == [url : ServerUrls, variables : ServerVariables]
ServerValues == {<<Text("/v")>>, <<Text("/z")>>, <<Expression(2)>>, <<Host>>}
ServerConfigurations ==
    {[kind |-> "none", base |-> Missing, index |-> 0, values |-> <<>>]}
    \cup [kind : {"base"}, base : {<<Host, Text("/b")>>, <<Text("ftp://host")>>}, index : {0}, values : {<<>>}]
    \cup [kind : {"server"}, base : {Missing}, index : 0..2,
          values : {<<>>} \cup {1 :> v : v \in ServerValues} \cup {2 :> v : v \in {<<Text("/z")>>, <<Host>>}}]
ServerChoices ==
    [operation : {<<>>} \cup {<<s>> : s \in ServerObjects}, pathItem : {<<>>},
     root : {<<>>, <<[url |-> <<Host, Text("/r")>>, variables |-> <<>>], [url |-> <<Host>>, variables |-> <<>>]>>},
     v30 : BOOLEAN, location : BOOLEAN, metadata : {Missing, <<Text("/m")>>}, configured : ServerConfigurations]

\* media: two or three declarations, with parameters that nest.
NoParams == [n \in {} |-> ""]
Two == [n \in {"v", "w"} |-> "1"]
MediaTypes == {<<"application", "json">>, <<"text", "plain">>, <<"text", "*">>, <<"*", "*">>,
               <<"multipart", "form-data">>, <<"application", "jsonl">>, <<"text", "event-stream">>}
MediaKey(i, t, params, schema) == [spelling |-> i, type |-> t[1], sub |-> t[2], params |-> params, schema |-> schema]
MediaKeys(i, schemas, params) == {MediaKey(i, t, p, s) : t \in MediaTypes, p \in params, s \in schemas}
MediaContents ==
    {{k, l} : k \in MediaKeys(1, {"omitted", "object", "complex", "string", "dynamic", "items", "binary"}, {NoParams}),
              l \in MediaKeys(2, {"object", "complex"}, {NoParams, "v" :> "1", "q" :> "1"})}
    \cup {{k, l, m} : k \in MediaKeys(1, {"string"}, {NoParams, "v" :> "1"}), l \in MediaKeys(2, {"object"}, {"v" :> "1", "w" :> "1"}),
                      m \in {MediaKey(3, <<"text", "plain">>, NoParams, "string"), MediaKey(3, <<"", "">>, NoParams, "object")}}
Concretes == {[type |-> t[1], sub |-> t[2], params |-> p] :
                  t \in {u \in MediaTypes : u[2] # "*"}, p \in {NoParams, Two}}
MediaSelections == [content : MediaContents, version : {"3.0", "3.1", "3.2"}, concrete : Concretes]

\* inventory: a JSON declaration beside one of another type.
InventoryCases ==
    [content : {{MediaKey(1, <<"application", "json">>, NoParams, s), MediaKey(2, t, NoParams, u)} :
                   s \in {"object", "string"}, t \in MediaTypes \ {<<"application", "json">>}, u \in {"object", "complex", "string"}},
     version : {"3.0", "3.1", "3.2"}]

\* forms: one property and one value, an array of up to two items.
AValue(is) == [is |-> is, items |-> <<>>]
AnArray(items) == [is |-> "array", items |-> items]
FormValues ==
    LET basic == {AValue(is) : is \in {"null", "str", "oct", "num", "obj"}} \cup {AnArray(<<>>)}
    IN basic \cup {AnArray(<<x>>) : x \in basic}
             \cup {AnArray(s) : s \in {AValue("oct"), AValue("num"), AValue("null")} \X {AValue("oct"), AValue("null")}}
FormProperties ==
    {p \in [kind : {"text", "number", "object", "binary", "encoded", "any", "union", "array", "never"}, array : BOOLEAN,
            nullable : BOOLEAN, required : BOOLEAN, media : Typed \cup {NoType, "many"}] :
        (p.kind \in {"any", "never", "union"} => ~p.nullable) /\ (p.kind = "never" => ~p.array)}
FormFields == [property : FormProperties, lane : {"multipart", "urlencoded"}, version : {"3.0", "3.1", "3.2"},
               chosen : {NoType, "json", "text"}, value : FormValues]

\* swagger parameters: one declaration and its value, or two scopes of two.
AString(s) == [is |-> "string", text |-> s, items |-> <<>>]
SwaggerScalars == {AString(<<>>), AString(<<"x">>), AString(<<"x", ",">>), AString(<<"|">>),
                   [is |-> "number", text |-> <<"1">>, items |-> <<>>], [is |-> "null", text |-> <<>>, items |-> <<>>]}
SwaggerValues ==
    SwaggerScalars \cup {[is |-> "array", text |-> <<>>, items |-> s] :
        s \in {<<>>} \cup {<<x>> : x \in SwaggerScalars} \cup (SwaggerScalars \X SwaggerScalars)}
AParameter == [name |-> "a", in |-> "query", required |-> FALSE, type |-> "string", items |-> "", format |-> "", empty |-> "unset"]
AloneCases ==
    {[pathScope |-> {}, scope |-> {[AParameter EXCEPT !.in = l, !.type = t[1], !.items = t[2], !.format = t[3], !.empty = e]},
      pathNames |-> IF l = "path" THEN {"a"} ELSE {}, supplied |-> {[in |-> l, name |-> "a", value |-> v]}, converter |-> k, form |-> f] :
        l \in WireLocations, e \in {"unset", "yes", "no"}, v \in SwaggerValues, k \in BOOLEAN, f \in {"", "name-only", "empty"},
        t \in {<<"string", "", "">>, <<"array", "string", "csv">>, <<"array", "string", "multi">>, <<"array", "number", "pipes">>}}
ScopedParameters ==
    {[AParameter EXCEPT !.in = l, !.name = n] : l \in {"header", "query"}, n \in {"a", "A"}}
    \cup {[AParameter EXCEPT !.in = "body", !.type = ""], [AParameter EXCEPT !.name = "host", !.in = "header"],
          [AParameter EXCEPT !.in = "path", !.required = TRUE], [AParameter EXCEPT !.name = "no token"]}
Scopes == {s \in SUBSET ScopedParameters : Cardinality(s) <= 2}
ScopedCases ==
    [pathScope : Scopes, scope : Scopes, pathNames : {{}, {"a"}}, converter : {FALSE}, form : {""},
     supplied : {{}, {[in |-> l, name |-> "a", value |-> AString(<<"x">>)] : l \in {"query", "header"}}}]
SwaggerCharacters == {"x", ",", "|", "1"}
SwaggerSupplies == AloneCases \cup ScopedCases

\* swagger: servers, security, media and responses, one at a time.
Json20 == <<"application", "json">>
Payload(kind, required, carriage, file) == [kind |-> kind, required |-> required, carriage |-> carriage, file |-> file]
Declared20 ==
    [host |-> "good", retrieved |-> TRUE, schemes |-> <<"https">>, alternatives |-> <<>>, inherited |-> FALSE,
     schemeAt |-> <<"Authorization", "key", "Authorization", "", "owned">>, required |-> {}, bodiless |-> FALSE,
     payload |-> Payload("none", FALSE, "text", FALSE), consumes |-> <<>>, produces |-> <<Json20, <<"text", "*">>>>,
     responses |-> [k \in {"200", "default"} |-> IF k = "200" THEN "text" ELSE "no schema"]]
Input20 == [values |-> "fine", at |-> {}, body |-> FALSE, is |-> "string"]
AtServers ==
    {[declared |-> [Declared20 EXCEPT !.host = h, !.retrieved = r, !.schemes = s, !.payload = Payload("body", TRUE, "text", FALSE),
                                      !.consumes = <<<<"application", "*">>, <<"text", "plain">>>>],
      input |-> [Input20 EXCEPT !.body = b, !.values = v]] :
        h \in {"good", "bad", "absent"}, r \in BOOLEAN, s \in {<<>>, <<"https">>, <<"http", "https">>, <<"ws">>},
        b \in BOOLEAN, v \in {"fine", "empty", "number", "wrong"}}
AtSecurity ==
    {[declared |-> [Declared20 EXCEPT !.alternatives = a, !.inherited = w, !.required = q],
      input |-> [Input20 EXCEPT !.at = t]] :
        a \in {<<{1}>>, <<{1, 2}>>, <<{1, 3}, {2}>>, <<{2, 4}, {5}>>, <<{2}, {}>>}, w \in BOOLEAN,
        q \in {{}, {"key"}}, t \in {{}, {"key"}}}
AtMedia ==
    {[declared |-> [Declared20 EXCEPT !.payload = p, !.consumes = s, !.bodiless = z], input |-> [Input20 EXCEPT !.body = b, !.is = k]] :
        p \in {Payload("body", q, x, FALSE) : q \in BOOLEAN, x \in {"text", "byte", "octets", "object"}}
              \cup {Payload("form", q, "text", f) : q \in BOOLEAN, f \in BOOLEAN} \cup {Payload("none", FALSE, "text", FALSE)},
        s \in {<<>>, <<Json20, Json20>>, <<<<"application", "*">>>>, <<<<"text", "plain">>, Json20>>, <<<<"audio", "*">>>>,
               <<<<"application", "x-www-form-urlencoded">>, <<"multipart", "*">>>>},
        b \in BOOLEAN, k \in {"string", "base64", "object"}, z \in BOOLEAN}
AtResponses ==
    {[declared |-> [Declared20 EXCEPT !.responses = r], input |-> Input20] :
        r \in {[k \in {"404"} |-> "text"], [k \in {"200", "404"} |-> IF k = "200" THEN "invalid" ELSE "text"],
               [k \in {"default"} |-> "invalid"], [k \in {"204", "default"} |-> "octets"]}}
SwaggerCalls == AtServers \cup AtSecurity \cup AtMedia \cup AtResponses
SwaggerResponses ==
    {[status |-> s, media |-> m, empty |-> e, defect |-> d] :
        s \in {"200", "204", "404"}, m \in {Json20, <<"text", "plain">>}, e \in BOOLEAN, d \in BOOLEAN}

\* cutpoints: three schemas, two documents beside the artifact's own.
Shapes3 == UNION {[s -> 1..3] : s \in {{}, {"items"}, {"properties"}, {"default"}, {"1"}, {"items", "default"}}}
Address(relative, host, path) == [opaque |-> FALSE, relative |-> relative, scheme |-> "https", host |-> host, path |-> path]
Places == 2 :> Address(FALSE, "h", <<"api", "a">>) @@ 3 :> Address(FALSE, "h", <<"api", "b">>) @@ 4 :> Address(TRUE, "", <<"a">>)
Ring == 1 :> ("items" :> 2) @@ 2 :> ("items" :> 3) @@ 3 :> ("items" :> 1)
Claimed(n, name, document) == [node |-> n, name |-> name, document |-> document, pointer |-> n]
Claims(n) == {<<>>} \cup {<<Claimed(n, name, doc)>> : name \in {<<"Pet">>, <<"a", "Pet">>, <<"Pet", "2">>}, doc \in {0, 2, 4}}
CutCases ==
    [graph : [1..3 -> Shapes3], components : {<<Claimed(2, <<"Pet">>, 0)>>}, addressed : {{}}]
    \cup {[graph |-> Ring, components |-> x \o y, addressed |-> {z[i] : i \in DOMAIN z}] :
             x \in Claims(1), y \in Claims(2), z \in Claims(3)}

\* multipart: up to two parts, of two chunks.
PartBodies == {<<>>, <<"x">>, <<"cr", "lf", "-", "-">>, <<"-", "-", "b">>, <<"x", "x", "x", "x", "x", "x", "x">>, EOL \o EOL}
PartLists == UNION {[1..n -> [headers : {<<"x", ":">>}, body : PartBodies]] : n \in 0..2}
             \cup {<<[headers |-> <<"x", ":", "b", "cr", "lf", "x", ":">>, body |-> <<"x">>]>>}
PartCases ==
    {q \in [preamble : {<<>>, <<"-">>}, parts : PartLists, padding : {<<>>, <<" ">>},
            cuts : {{}, {4}, {13}, {14}, {15}, {16}, {4, 14}}, last : {3, 14, 17, 22, 24}] :
        LET sent == Len(Sender(q.preamble, q.parts, q.padding))
        IN q.last <= sent /\ \A cut \in q.cuts : cut < sent}

\* wire: two codings, a response larger than what a caller takes.
WireCodings == {<<>>, <<"gzip">>, <<"identity", "gzip">>, <<"invalid">>, <<"x">>, <<"gzip", "br">>}
Body(value) == [value |-> value, layers |-> <<>>]
WireRequests == [coding : WireCodings, body : {Body("v")}, present : BOOLEAN, governed : BOOLEAN, admitted : BOOLEAN]
WireResponses ==
    [status : {"200", "204", "404"}, opaque : {FALSE}, missing : BOOLEAN, coding : WireCodings, admitted : BOOLEAN,
     media : {"json", "other", "sse", "items", "itemless", "none"}, carried : BOOLEAN, body : {Body(NoWords), Body("v")},
     coded : {1, 3}, size : {1, 3}]
WireModels == [head : BOOLEAN, governed : BOOLEAN, edition32 : BOOLEAN, limit : {2}, codecs : {{"gzip", "br"}}]
SomeRequest == [coding |-> <<"gzip", "br">>, body |-> Body("v"), present |-> TRUE, governed |-> TRUE, admitted |-> TRUE]
SomeResponse == CHOOSE r \in WireResponses : r.coding = <<>>
WireExchanges ==
    [request : WireRequests, response : {SomeResponse}, model : WireModels]
    \cup {q \in [request : {SomeRequest}, response : WireResponses, model : WireModels] :
             /\ q.response.coding = <<>> => q.response.size = q.response.coded
             /\ q.response.status = "204" => q.response.body = Empty}

\* references: an entry with three schemas, a fragment with as many.
RefNode(resource, parent, as, target, anchored, modern) ==
    [resource |-> resource, parent |-> parent, as |-> as, target |-> target, anchored |-> anchored, modern |-> modern]
RefDocument(edition, n1, n2, n3, m1, m2, m3) ==
    [edition |-> [entry |-> edition, ext |-> "fragment"],
     nodes |-> [e |-> RefNode("entry", "", "top", "", FALSE, FALSE), e1 |-> n1, e2 |-> n2, e3 |-> n3,
                f |-> RefNode("ext", "", "top", "", FALSE, FALSE), f1 |-> m1, f2 |-> m2, f3 |-> m3]]
\* An anchor is a 3.1 schema's, and nothing is referred to beside a `$ref`.
Legal(d) ==
    /\ \A n \in DOMAIN d.nodes : d.nodes[n].anchored => d.edition["entry"] = "3.1" /\ d.nodes[n].target # ""
    /\ \A n, m \in DOMAIN d.nodes : d.nodes[n].target = m /\ m # "" => d.nodes[d.nodes[m].parent].target = ""
EntryAndFragment ==
    {d \in {RefDocument(edition, RefNode("entry", "e", "schema", t1, FALSE, FALSE), RefNode("entry", "e", k2, t2, FALSE, FALSE),
                        RefNode("entry", "e1", a3, t3, anchored, FALSE), RefNode("ext", "f", k1, "", FALSE, modern),
                        RefNode("ext", "f1", b2, u2, FALSE, FALSE), RefNode("ext", "f", "data", u3, FALSE, FALSE)) :
               edition \in {"3.0", "3.1"}, t1 \in {"", "f3"}, k2 \in {"schema", "parameter", "opaque"}, t2 \in {"f1", "f3"},
               a3 \in {"applied", "data"}, t3 \in {"", "f1", "f2"}, anchored \in BOOLEAN, k1 \in {"applied", "data"},
               modern \in BOOLEAN, b2 \in {"applied", "schema"}, u2 \in {"e1", "f3"}, u3 \in {"f1", "f2"}} : Legal(d)}

-----------------------------------------------------------------------------
Stepwise == {"security", "framing", "loading", "swagger", "references"}
AllTopics == Stepwise \cup {"dereference", "floor", "styles", "routing", "servers", "media", "forms",
                            "swagger parameters", "cutpoints", "multipart", "wire"}

(* The cases of the modules of operators.                                   *)
Problems(t) ==
    CASE t = "dereference" -> DereferenceCases
      [] t = "styles" -> StyleCases
      [] t = "inventory" -> InventoryCases
      [] t = "cutpoints" -> CutCases
      [] t = "multipart" -> PartCases
      [] OTHER -> {Idle}

(* The initial state of a machine that is not used.                         *)
QuietDeclaration == CHOOSE d \in Declarations : TRUE
QuietContext == CHOOSE c \in Contexts : TRUE
QuietStore == CHOOSE s \in Stores : TRUE
QuietRequest == CHOOSE r \in Requests : TRUE
QuietCall == CHOOSE c \in SwaggerCases : Excluded20(c.declared)
QuietStream == CHOOSE s \in Streams : s.sorts = <<>>
NoFraming == Opens(QuietStream)
NoSecurity == SecurityStarts(QuietDeclaration, QuietContext, QuietStore)
NoLoading == LoadingStarts([c \in Calls |-> QuietRequest])
NoSwagger == SwaggerStarts(QuietCall)

Start(t, machine, none) == IF topic = t THEN machine ELSE none

Init ==
    /\ topic \in Topics
    /\ problem \in Problems(topic)
    /\ Start("security", SecurityInit, NoSecurity)
    /\ Start("framing", FramingInit, NoFraming)
    /\ Start("loading", LoadingInit, NoLoading)
    /\ Start("swagger", SwaggerInit, NoSwagger)
    /\ Start("references", RefInit, NoReferences)
    /\ Start("media", MediaInit, selecting = {})
    /\ Start("routing", RoutingInit, routing = {})
    /\ Start("forms", FormInit, forming = {})
    /\ Start("wire", WireInit, governing = {})
    /\ Start("servers", ServerInit, locating = {})
    /\ Start("floor", FloorInit, judging = {})
    /\ Start("swagger parameters", SupplyInit, supplying = {})

(* A case is decided at once.                                               *)
Decided == /\ topic \notin Stepwise
           /\ UNCHANGED <<securityVars, framingVars, loadingVars, swaggerVars, refVars>>

Next ==
    /\ UNCHANGED <<topic, problem, judging, supplying, selecting, routing, locating, forming, governing>>
    /\ \/ topic = "security" /\ SecurityNext /\ UNCHANGED <<framingVars, loadingVars, swaggerVars, refVars>>
       \/ topic = "framing" /\ FramingNext /\ UNCHANGED <<securityVars, loadingVars, swaggerVars, refVars>>
       \/ topic = "loading" /\ LoadingNext /\ UNCHANGED <<securityVars, framingVars, swaggerVars, refVars>>
       \/ topic = "swagger" /\ SwaggerNext /\ UNCHANGED <<securityVars, framingVars, loadingVars, refVars>>
       \/ topic = "references" /\ RefNext /\ UNCHANGED <<securityVars, framingVars, loadingVars, swaggerVars>>
       \/ Decided

Spec == Init /\ [][Next]_<<topic, problem, judging, supplying, selecting, routing, locating, forming, governing, securityVars, framingVars, loadingVars, swaggerVars, refVars>>

-----------------------------------------------------------------------------
(* RefSiblings.tla: a `$ref` is a reference by its position, in whatever    *)
(* order resources arrive (ref-siblings.ts).                                *)
PositionsDecide == topic = "references" => ReferencesByPosition

(* Dereference.tla: what is composed is resolved, what is not is not even   *)
(* retrieved (internal/deref.ts).                                           *)
ReferencesAreResolved == topic = "dereference" => ResolvesExactly(problem.document, problem.policy)

(* Dereference.tla: nothing that was resolved is left as a reference        *)
(* (util.ts loadOpenAPIDocument).                                           *)
ReferencesAreGone == topic = "dereference" => SeesDirectValues(problem.document, problem.policy)

(* ParameterStyles.tla: the wire form of a value reads back as the value,   *)
(* or it is refused (params.ts, openapi32-parameters.ts).                   *)
ParametersReadBack == topic = "styles" => WireMeansTheValue(problem.declared, problem.value)

(* MediaSelection.tla: keeping the declarations without carriage takes none *)
(* of the others away (media.ts planRequestBodies).                         *)
InventoryIsAnAddition == topic = "inventory" => InventoryKeepsTheSupported(problem.content, problem.version)

(* CutPoints.tla: every recursive schema is published once, under a name of *)
(* its own (util.ts decycleSchema, assignCutPointNames).                    *)
RecursionIsNamed ==
    topic = "cutpoints" =>
        DefinitionsAreFound(problem.graph, 1, ComponentNames(problem.components, problem.addressed), [n \in 1..3 |-> "x"],
                            Address(FALSE, "h", <<"api", "root">>), Places)

(* MultipartStream.tla: the parts read are the parts sent, wherever the     *)
(* chunks end (openapi32-sequential-response.ts streamMultipart).           *)
PartsReadBack ==
    topic = "multipart" =>
        PartsAreTheSenders(problem.preamble, problem.parts, problem.padding,
                           [item |-> "", prefix |-> <<"p">>, items |-> "i"], [unit |-> 6, headers |-> 9], problem.cuts, problem.last)
=============================================================================
