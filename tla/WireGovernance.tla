----------------------------- MODULE WireGovernance ------------------------------
(***************************************************************************)
(* What surrounds the fetch of an OpenAPI operation                        *)
(* (src/typescript/src/response-mechanics.ts): the codings a request's     *)
(* Content-Encoding asks for, those of a response undone, and a response   *)
(* judged by the Response Object that governs it.                          *)
(*                                                                         *)
(* A body is [value, layers]: what it says (NoWords for nothing) and the   *)
(* codings over it, the innermost first; a coding that fails leaves        *)
(* Broken.  A Content-Encoding is a sequence of codings, one of which may  *)
(* be invalid, a member that is no token.                                  *)
(***************************************************************************)
EXTENDS Naturals, Sequences, SequencesExt

NoWords == "no words"
Empty == [value |-> NoWords, layers |-> <<>>]
Broken == [value |-> "broken", layers |-> <<>>]

(* The codecs are applied one over the other, and taken off one after the   *)
(* other: the first that is not the outermost one fails.                    *)
Encoded(body, tokens) == IF body = Broken THEN Broken ELSE [body EXCEPT !.layers = @ \o tokens]
Opened(body, tokens) ==
    LET all == Len(body.layers)
    IN IF Len(tokens) <= all /\ \A i \in DOMAIN tokens : tokens[i] = body.layers[all + 1 - i]
       THEN [body EXCEPT !.layers = SubSeq(@, 1, all - Len(tokens))] ELSE Broken

Legible(coding) == "invalid" \notin Range(coding)
Effective(coding) ==
    LET kept[n \in 0 .. Len(coding)] ==
            IF n = 0 THEN <<>>
            ELSE IF coding[n] = "identity" THEN kept[n - 1] ELSE Append(kept[n - 1], coding[n])
    IN kept[Len(coding)]

CONSTANT WireCases        \* [request, response, model]

Codings == Seq(STRING)
Bodies == [value : STRING, layers : Codings] \ {Broken}

(* Without a coding that counts a body is as large as it comes, and a 204   *)
(* has none.                                                                *)
ASSUME WireAssumption ==
    \A c \in WireCases :
        /\ c.request.coding \in Codings /\ c.request.body \in Bodies
        /\ c.response \in
              [status : STRING, opaque : BOOLEAN, missing : BOOLEAN, coding : Codings, admitted : BOOLEAN,
               media : STRING, carried : BOOLEAN, body : Bodies, coded : Nat, size : Nat]
        /\ c.model.limit \in Nat
        /\ Effective(c.response.coding) = <<>> => c.response.size = c.response.coded
        /\ c.response.status = "204" => c.response.body = Empty

VARIABLE governing        \* the exchange that is judged; none in another use of the module

(***************************************************************************)
(* The request: [coding, body, present, governed, admitted]: governed when *)
(* one header parameter declares the coding, admitted when its schema does.*)
(***************************************************************************)
GovernRequest(q, codecs) ==
    LET tokens == Effective(q.coding)
    IN IF q.coding = <<>> THEN [refused |-> FALSE, body |-> q.body]
       ELSE IF \/ ~q.present \/ ~q.governed \/ ~q.admitted \/ ~Legible(q.coding)
               \/ ~(Range(tokens) \subseteq codecs)
       THEN [refused |-> TRUE, body |-> Empty]
       ELSE [refused |-> FALSE, body |-> Encoded(q.body, tokens)]

(***************************************************************************)
(* The response: [status, opaque, missing, coding, admitted, media,        *)
(* carried, body, coded, size]: missing is a required header that is not   *)
(* there; media is what its type is to the governing content: json, other, *)
(* sse, items (a framing of 3.2), itemless (an itemSchema no framing       *)
(* reads) or none; carried, whether its schema has a lane for it; the      *)
(* sizes are those of the body as it comes and as it is meant.  The model  *)
(* is [head, governed, edition32, limit, codecs].                          *)
(***************************************************************************)
Successful(r) == r.status \in {"200", "204"}
BodyForbidden(r, m) == m.head \/ r.status = "204"
IsStream(r, m) == r.media = "sse" \/ (r.media = "items" /\ m.edition32)

(* A declaration its framing cannot serve, refused before a byte is read.   *)
Unframed(r) == r.media = "itemless" \/ (r.media = "sse" /\ ~r.carried)

(* Mutant: the codings are undone in the order they are listed.             *)
UndoneAsListed(coding) == Effective(coding)

Undone(coding) == Reverse(Effective(coding))

Decoded(r, m) ==
    IF BodyForbidden(r, m) \/ (~m.governed /\ Successful(r)) THEN r.body
    ELSE IF ~(Range(Effective(r.coding)) \subseteq m.codecs) THEN Broken
    ELSE Opened(r.body, Undone(r.coding))

Expands(r, m) == Decoded(r, m) # r.body /\ r.size > m.limit

HasLane(r) == r.media = "json" \/ (r.media # "none" /\ r.carried)

Governed(is, body) == [is |-> is, body |-> body]
Protocol == Governed("protocol", Empty)
Unreadable == Governed("response", Empty)

GovernResponse(r, m) ==
    LET arrived == [r EXCEPT !.body = IF m.head THEN Empty ELSE @]
        body == Decoded(arrived, m)
        early == m.governed /\ r.coding = <<>> /\ ~BodyForbidden(r, m)
    IN IF r.opaque THEN Unreadable
       ELSE IF m.governed /\ r.missing THEN Protocol
       ELSE IF early /\ Unframed(r) THEN Protocol
       ELSE IF early /\ IsStream(r, m) THEN Governed("stream", r.body)
       ELSE IF r.coded > m.limit THEN Unreadable
       ELSE IF r.coding # <<>> /\ (~Legible(r.coding) \/ (m.governed /\ ~r.admitted)) THEN Protocol
       ELSE IF body = Broken THEN Protocol
       ELSE IF Expands(arrived, m) THEN Unreadable
       ELSE IF body.value = NoWords THEN Governed("empty", Empty)
       ELSE IF Successful(r) /\ ~(m.governed /\ HasLane(r)) THEN Protocol
       ELSE Governed("body", body)

(***************************************************************************)
(* A server that undoes the codings a request names reads what the caller  *)
(* sent (response-mechanics.ts governOpenAPIRequest), and of a response    *)
(* the caller gets the sender's own words or an error: every coding undone *)
(* and none twice, nothing past the delivery limit unless it is a stream   *)
(* framed later, a success only under a declaration that carries it; while *)
(* an empty success is never an error for the type it names, and a failure *)
(* keeps its body whatever its type, unless the declaration has no framing *)
(* for it (governOpenAPIResponse).                                         *)
(***************************************************************************)
WordsSurviveTheWire(q, sender, m) ==
    LET sent == GovernRequest(q, m.codecs)
        r == [sender EXCEPT !.body = Encoded(sender.body, Effective(sender.coding))]
        got == GovernResponse(r, m)
    IN /\ ~sent.refused => Opened(sent.body, Reverse(Effective(q.coding))) = q.body
       /\ got.is = "body" => got.body = sender.body /\ sender.size <= m.limit
       /\ got.is = "stream" => got.body = sender.body
       /\ got.is = "empty" => sender.body.value = NoWords \/ m.head
       /\ got.is = "body" /\ Successful(r) => m.governed /\ HasLane(r)
       /\ /\ ~r.opaque /\ ~r.missing /\ ~Unframed(r) /\ Legible(r.coding) /\ r.admitted
          /\ Range(Effective(r.coding)) \subseteq m.codecs /\ r.size <= m.limit /\ r.coded <= m.limit
          /\ sender.body = Empty \/ ~Successful(r)
          => got.is \in {"body", "empty", "stream"}

(* Content codings and the governing Response Object leave the sender's     *)
(* words or an error (response-mechanics.ts).                               *)
WireKeepsTheWords ==
    \A c \in governing : WordsSurviveTheWire(c.request, c.response, c.model)

WireInit == \E c \in WireCases : governing = {c}
WireSpec == WireInit /\ [][UNCHANGED governing]_governing
=============================================================================
