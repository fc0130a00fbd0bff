---------------------------- MODULE MCEdgePeers ----------------------------
(* EdgePeers for TLC. *)
EXTENDS EdgePeers
=============================================================================
