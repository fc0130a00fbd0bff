------------------------------ MODULE MCBypass ------------------------------
(* Bypass for TLC. *)
EXTENDS Bypass
=============================================================================
