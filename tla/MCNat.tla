------------------------------- MODULE MCNat -------------------------------
(* EdgeNat with the NATs for TLC: the four of RFC 3489, one that has a port for  *)
(* every host, and a supernode on the edge's own LAN.                            *)
EXTENDS EdgeNat

Kind(m, f, in, fix) == [map |-> m, filter |-> f, inside |-> in, fixed |-> fix]
SomeNats == {Kind("any", "any", FALSE, TRUE), Kind("any", "ip", FALSE, TRUE),
             Kind("any", "port", FALSE, FALSE), Kind("port", "port", FALSE, TRUE),
             Kind("ip", "ip", FALSE, FALSE), Kind("any", "ip", TRUE, TRUE)}
=============================================================================
