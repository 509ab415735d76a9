---------------------------- MODULE MCClientCall ----------------------------
(* Defect-free operations of every kind of response, one with two media     *)
(* candidates and a security handler over the host transport, and every     *)
(* preflight defect alone and in pairs with another.                        *)
EXTENDS ClientCall

CONSTANT Redirections      \* whether a redirect's Location may be malformed
ASSUME RedirectionsAssumption == Redirections \subseteq BOOLEAN

Sound(k, r, i) ==
    [defects |-> {}, input |-> i, bodyRequired |-> i, candidates |-> 1,
     handlers |-> 0, lane |-> "fetch", redirect |-> r, kind |-> k]

Unary == Sound("unary", "manual", TRUE)

Hosted == {[Unary EXCEPT !.lane = "host", !.candidates = 2, !.handlers = 1,
                         !.kind = k] : k \in {"unary", "stream"}}

Defective == {[Unary EXCEPT !.defects = {g, h}] : g, h \in GateNames}
               \cup {[Unary EXCEPT !.defects = {g}, !.bodyRequired = FALSE] :
                        g \in BodyGates}

MCOperations ==
    {Sound(k, r, i) : k \in {"head", "empty", "unary", "stream"},
                      r \in {"manual", "follow"}, i \in BOOLEAN}
      \cup Hosted \cup Defective

MCRequests == [mode : {"call", "stream"}, supplied : BOOLEAN, hooks : BOOLEAN,
               badLocation : Redirections]
=============================================================================
