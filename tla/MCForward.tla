----------------------------- MODULE MCForward -----------------------------
(***************************************************************************)
(* SnForward for TLC, with the communities of the edges, and under names    *)
(* that leave room for the other ways between edges (MCPaths).              *)
(***************************************************************************)
EXTENDS Naturals

CONSTANTS c1, Members, NoOne, Comm, Legacy, Eager, OnWs, Endpoints, TcpAddr, Slots, FanOuts, Buffer

VARIABLES list, conns, all_compact, heard, where, pass, frames

OneCommunity == [m \in Members |-> c1]

F == INSTANCE SnForward
        WITH Macs <- Members, Addrs <- Endpoints, Window <- Buffer, edges <- list, at <- where, phase <- pass, out <- frames

ASSUME ForwardAssumed == F!ForwardAssumption

ForwardSafe == F!Spec
ForwardSpec == F!FairSpec

\* The table has one record for each edge, and a legacy edge that has been heard is
\* sent every broadcast in the format it can read (all_compact, 414 and 3562).
ForwardSound == F!ForwardSound

\* The slot of a connection whose edge has vanished is given back, though frames
\* for it keep coming (last_seen in ws_send, sn_ws_purge).
DeadDropped == F!DeadDropped
=============================================================================
