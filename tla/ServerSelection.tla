--------------------------- MODULE ServerSelection ---------------------------
(***************************************************************************)
(* Which base URL a call goes to (src/typescript/src/servers.ts,           *)
(* target-base.ts): the servers of the innermost declaration that has any, *)
(* the caller's configuration, and the expansion of a server's variables.  *)
(*                                                                         *)
(* A URL is a sequence of pieces: text (an absolute http base, another     *)
(* scheme, a path, a query) or the expression of a variable, numbered in   *)
(* the order of their names.  A server is [url, variables], variables a    *)
(* function to [default, enum, closed]; Missing stands for what is not     *)
(* declared.  No text holds a `$`, which String.replace reads as a pattern.*)
(***************************************************************************)
EXTENDS Naturals, Sequences, FiniteSets, SequencesExt

Text(t) == [var |-> 0, text |-> t]
Expression(n) == [var |-> n, text |-> "{}"]
Missing == <<Text("missing")>>

CONSTANTS Names,          \* how many names of variables there are
          ServerCases     \* [operation, pathItem, root, configured, metadata, location, v30]

UrlPieces == [var : 0 .. Names, text : STRING]
UrlTexts == [var : {0}, text : STRING]
Templates == Seq(UrlPieces)
PlainURLs == Seq(UrlTexts)

(* A configured or injected base is a URL, no template.                     *)
ASSUME ServerAssumption ==
    /\ Names \in Nat /\ <<Text("/")>> \in Templates
    /\ \A c \in ServerCases :
          /\ \A list \in {c.operation, c.pathItem, c.root} :
                /\ list \in Seq(ToSet(list))
                /\ \A server \in ToSet(list) :
                      /\ server.url \in Templates /\ DOMAIN server.variables \subseteq 1 .. Names
                      /\ \A n \in DOMAIN server.variables : server.variables[n].default \in Templates
          /\ c.configured.kind \in {"none", "base", "server"}
          /\ c.configured.base \in PlainURLs /\ c.metadata \in PlainURLs
          /\ DOMAIN c.configured.values \subseteq 1 .. Names
          /\ \A n \in DOMAIN c.configured.values : c.configured.values[n] \in Templates

VARIABLE locating \* the call whose server is selected; none in another use of the module

Count(url, n) == Cardinality({i \in DOMAIN url : url[i].var = n})
Replaced(url, n, value) ==
    LET i == CHOOSE k \in DOMAIN url : url[k].var = n /\ \A j \in DOMAIN url : url[j].var = n => k <= j
    IN SubSeq(url, 1, i - 1) \o value \o SubSeq(url, i + 1, Len(url))

Url(u) == [is |-> "url", url |-> u]
Defect == [is |-> "defect", url |-> <<>>]               \* an error
Required == [is |-> "required", url |-> <<>>]           \* ConfigRequired

(***************************************************************************)
(* The expansion of one server.                                            *)
(***************************************************************************)
Chosen(variable, supplied, n) == IF n \in DOMAIN supplied THEN supplied[n] ELSE variable.default

BadDeclaration(variable, v30) ==
    \/ variable.enum = {} /\ variable.closed
    \/ v30 /\ variable.default = Missing
    \/ variable.closed /\ variable.default # Missing /\ variable.default \notin variable.enum

(* Mutant: only the declared default is held against the enum.              *)
UncheckedVariable(acc, variable, n, supplied, v30) ==
    IF acc.is # "url" THEN acc
    ELSE IF Count(acc.url, n) # 1 \/ BadDeclaration(variable, v30) THEN Defect
    ELSE LET value == Chosen(variable, supplied, n)
         IN IF value = Missing THEN Required ELSE Url(Replaced(acc.url, n, value))

SubstituteVariable(acc, variable, n, supplied, v30) ==
    IF acc.is # "url" THEN acc
    ELSE IF Count(acc.url, n) # 1 \/ BadDeclaration(variable, v30) THEN Defect
    ELSE LET value == Chosen(variable, supplied, n)
         IN IF value = Missing THEN Required
            ELSE IF variable.closed /\ value \notin variable.enum THEN Defect
            ELSE Url(Replaced(acc.url, n, value))

(* One supplied for an expression that no variable declares.                *)
SubstituteExtra(acc, n, supplied) ==
    IF acc.is # "url" THEN acc
    ELSE IF Count(acc.url, n) # 1 THEN Defect
    ELSE Url(Replaced(acc.url, n, supplied[n]))

Has(url, t) == \E i \in DOMAIN url : url[i] = Text(t)

(* The declared ones in the order of their names, then the others.          *)
DeclaredFilled(server, supplied, v30) ==
    LET filled[n \in 0 .. Names] ==
            IF n = 0 THEN Url(server.url)
            ELSE IF n \in DOMAIN server.variables
            THEN SubstituteVariable(filled[n - 1], server.variables[n], n, supplied, v30) ELSE filled[n - 1]
    IN filled[Names]

AllFilled(server, supplied, v30) ==
    LET filled[n \in 0 .. Names] ==
            IF n = 0 THEN DeclaredFilled(server, supplied, v30)
            ELSE IF n \in DOMAIN supplied \ DOMAIN server.variables
            THEN SubstituteExtra(filled[n - 1], n, supplied) ELSE filled[n - 1]
    IN filled[Names]

SubstituteServerVariables(server, supplied, v30) ==
    LET all == AllFilled(server, supplied, v30)
    IN IF Has(server.url, "?query") THEN Defect
       ELSE IF all.is = "url" /\ \E i \in DOMAIN all.url : all.url[i].var # 0 THEN Required
       ELSE all

(* location: whether the document came from an absolute URL.                *)
Absolute(url) == url # <<>> /\ url[1] \in {Text("https://host"), Text("ftp://host")}
Absolutized(result, location) ==
    IF result.is # "url" THEN result
    ELSE IF Has(result.url, "?query") THEN Defect
    ELSE IF Absolute(result.url) THEN IF result.url[1] = Text("ftp://host") THEN Defect ELSE result
    ELSE IF location THEN Url(<<Text("https://host")>> \o result.url)
    ELSE Required

(***************************************************************************)
(* The selection.                                                          *)
(***************************************************************************)
Implied == [url |-> <<Text("/")>>, variables |-> <<>>]
EffectiveServers(c) ==
    IF c.operation # <<>> THEN c.operation
    ELSE IF c.pathItem # <<>> THEN c.pathItem
    ELSE IF c.root # <<>> THEN c.root ELSE <<Implied>>

(* A server whose declaration is sound stays, even if a value is missing.   *)
SoundServer(c, s) == Absolutized(SubstituteServerVariables(s, <<>>, c.v30), c.location).is # "defect"
Eligible(c) ==
    LET servers == EffectiveServers(c)
        kept[n \in 0 .. Len(servers)] ==
            IF n = 0 THEN <<>>
            ELSE IF SoundServer(c, servers[n]) THEN Append(kept[n - 1], servers[n]) ELSE kept[n - 1]
    IN kept[Len(servers)]

Resolved(c, server, supplied) == Absolutized(SubstituteServerVariables(server, supplied, c.v30), c.location)

(* configured: nothing, a base, or an index (0 for none) with values.       *)
ResolveServer(c) ==
    LET eligible == Eligible(c)
        cfg == c.configured
        at == IF cfg.index = 0 /\ Len(eligible) = 1 THEN 1 ELSE cfg.index
    IN IF cfg.kind = "base" THEN Absolutized(Url(cfg.base), c.location)
       ELSE IF eligible = <<>> THEN Required
       ELSE IF cfg.kind = "server" THEN IF at \in DOMAIN eligible THEN Resolved(c, eligible[at], cfg.values) ELSE Defect
       ELSE IF c.metadata # Missing THEN Absolutized(Url(c.metadata), c.location)
       ELSE IF Len(eligible) # 1 THEN Required
       ELSE Resolved(c, eligible[1], <<>>)

(***************************************************************************)
(* What a call is sent to is the base the caller configured, or one        *)
(* declared server with every expression replaced by a value that is       *)
(* supplied or declared, and allowed; never one of several servers that    *)
(* nobody chose (servers.ts resolveOpenAPIServerSelection,                 *)
(* substituteServerVariables, absolutizeServerURL).  The code replaces one *)
(* variable after the other, and so expands a value that is an expression  *)
(* itself; of others the result is that of replacing all at once.          *)
(***************************************************************************)
AtOnce(url, values) ==
    LET upTo[k \in 0 .. Len(url)] ==
            IF k = 0 THEN <<>>
            ELSE upTo[k - 1] \o (IF url[k].var \in DOMAIN values THEN values[url[k].var] ELSE <<url[k]>>)
    IN upTo[Len(url)]

Allowed(server, values) ==
    \A n \in DOMAIN server.variables :
        /\ n \in DOMAIN values
        /\ server.variables[n].closed => values[n] \in server.variables[n].enum

GivenValues(server, supplied) ==
    [n \in {m \in DOMAIN server.variables \cup DOMAIN supplied :
                m \in DOMAIN supplied \/ server.variables[m].default # Missing} |->
        IF n \in DOMAIN supplied THEN supplied[n] ELSE server.variables[n].default]

FromServer(base, server, values) ==
    /\ Allowed(server, values)
    /\ (\A n \in DOMAIN values : values[n] \in PlainURLs) =>
          /\ \A i \in DOMAIN server.url : server.url[i].var # 0 => server.url[i].var \in DOMAIN values
          /\ base \in {AtOnce(server.url, values), <<Text("https://host")>> \o AtOnce(server.url, values)}

BaseIsChosen(c, result) ==
    LET supplied == IF c.configured.kind = "server" THEN c.configured.values ELSE <<>>
        servers == EffectiveServers(c)
    IN result.is = "url" =>
          /\ result.url[1] = Text("https://host") /\ ~Has(result.url, "?query")
          /\ \A i \in DOMAIN result.url : result.url[i].var = 0
          /\ IF c.configured.kind = "base" THEN result.url \in {c.configured.base, <<Text("https://host")>> \o c.configured.base}
             ELSE IF c.configured.kind = "none" /\ c.metadata # Missing
             THEN result.url \in {c.metadata, <<Text("https://host")>> \o c.metadata}
             ELSE /\ \E k \in DOMAIN servers : FromServer(result.url, servers[k], GivenValues(servers[k], supplied))
                  /\ c.configured.index = 0 => Len(Eligible(c)) = 1

(* The base of a call is the declared one, completed, or the configured one *)
(* (servers.ts).                                                            *)
ServerIsTheDeclared == \A c \in locating : BaseIsChosen(c, ResolveServer(c))

ServerInit == \E c \in ServerCases : locating = {c}
ServerSpec == ServerInit /\ [][UNCHANGED locating]_locating
=============================================================================
