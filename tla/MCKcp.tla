------------------------------- MODULE MCKcp -------------------------------
(* Kcp with the messages of each end for TLC. *)
EXTENDS Kcp, TLC

CONSTANTS a, b
OneWay == (a :> <<2, 2>>) @@ (b :> <<>>)
=============================================================================
