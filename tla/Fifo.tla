-------------------------------- MODULE Fifo --------------------------------
(***************************************************************************)
(* What a reliable stream promises the two ends of a connection: the          *)
(* messages one end sends reach the other in that order, each once, whole,    *)
(* and in the end all of them.                                              *)
(***************************************************************************)
EXTENDS Naturals, Sequences

CONSTANTS Ends, Payload

VARIABLES sent, got     \* by the sending end: what it sent, and what has arrived of it

fifo == <<sent, got>>

Init == sent = [p \in Ends |-> <<>>] /\ got = [p \in Ends |-> <<>>]

Send(p, m) == sent' = [sent EXCEPT ![p] = Append(@, m)] /\ UNCHANGED got

Deliver(p) ==
    /\ Len(got[p]) < Len(sent[p])
    /\ got' = [got EXCEPT ![p] = Append(@, sent[p][Len(@) + 1])]
    /\ UNCHANGED sent

Next == \E p \in Ends : Deliver(p) \/ \E m \in Payload : Send(p, m)

Spec == Init /\ [][Next]_fifo /\ \A p \in Ends : WF_fifo(Deliver(p))
=============================================================================
