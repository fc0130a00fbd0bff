------------------------------- MODULE MCWire -------------------------------
(* Wire for TLC: the messages of the senders, no bound is needed. *)
EXTENDS Wire
=============================================================================
