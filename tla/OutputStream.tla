---------------------------- MODULE OutputStream ----------------------------
(***************************************************************************)
(* What an invocation promises the consumer of its outputs                 *)
(* (src/typescript/src/internal/invocation.ts): the values the binding got *)
(* accepted reach the consumer once and in order, and the end of the       *)
(* sequence - done, or the terminal error - is seen only after all of them.*)
(***************************************************************************)
EXTENDS Naturals, Sequences

CONSTANT Values            \* what can be sent

VARIABLES sent,            \* the accepted values, in order of acceptance
          got,             \* the values the consumer has
          end,             \* how the binding's side ended, "open" before
          seen             \* the end the consumer saw, "none" before

vars == <<sent, got, end, seen>>

Ends == {"closed", "errored"}

Init == /\ sent = <<>> /\ got = <<>>
        /\ end \in {"open", "errored"}
        /\ seen = "none"

(* At most one value is accepted and at most one delivered: a hand-over to  *)
(* a waiting consumer does both, and so does a pull that admits a waiting   *)
(* producer.                                                                *)
Transfer == /\ \/ sent' = sent
               \/ end = "open" /\ \E v \in Values : sent' = Append(sent, v)
            /\ \/ got' = got
               \/ /\ Len(got) < Len(sent')
                  /\ got' = Append(got, sent'[Len(got) + 1])
            /\ UNCHANGED <<end, seen>>

End == /\ end = "open"
       /\ end' \in Ends
       /\ \/ seen' = seen
          \/ got = sent /\ seen' = end'
       /\ UNCHANGED <<sent, got>>

SeeEnd == /\ end # "open" /\ got = sent
          /\ seen' = end
          /\ UNCHANGED <<sent, got, end>>

Next == Transfer \/ End \/ SeeEnd

Spec == Init /\ [][Next]_vars
=============================================================================
