----------------------------- MODULE MCRegister -----------------------------
(***************************************************************************)
(* The two ends of a registration, for TLC: the supernode's table and      *)
(* allocator (SnRegistry) and the edge's choice among its supernodes       *)
(* (EdgeSupernode).  Neither end's promises depend on what the other one   *)
(* keeps, and requests and answers are inputs of both, so a behaviour is   *)
(* one of the one or one of the other: part says which, and the other's    *)
(* variables stay as they start.  "dual" is the supernode again, for one   *)
(* edge that also has a LAN and an IPv6 address, so that all its endpoints *)
(* take turns.                                                             *)
(***************************************************************************)
EXTENDS SnRegistry

CONSTANTS Lan, Six, s1, s2, Configured, Sn1, Homes, Backup, NoAddr, Domain, Capacity, Attempts, Fast, Period, Cooldown

VARIABLES
    part,
    list, idx, addr, query, wait, acked, asks, failed, attempts, everOk, learnt, probeAddr,
    req, probe, net, home, report, running, ran, missed

OneMore == <<s1, s2>>

OneMac == {CHOOSE m \in Macs : TRUE}

D == INSTANCE SnRegistry WITH Macs <- OneMac, V4Addrs <- V4Addrs \cup {Lan}, LanAddrs <- {Lan}, V6Addrs <- {Six}
E == INSTANCE EdgeSupernode

ASSUME SupernodesAssumed == E!SupernodeAssumption

edgeVars == <<list, idx, addr, query, wait, acked, asks, failed, attempts, everOk, learnt, probeAddr,
              req, probe, net, home, report, running, ran, missed>>
all == <<vars, edgeVars, part>>

Serving(A)     == part = "supernode" /\ A /\ UNCHANGED <<edgeVars, part>>
Dual(A)        == part = "dual" /\ A /\ UNCHANGED <<edgeVars, part>>
Registering(A) == part = "edge" /\ A /\ UNCHANGED <<vars, part>>

PartInit ==
    /\ Init /\ E!Init
    /\ \/ part = "edge"
       \/ part \in {"supernode", "dual"} /\ home = CHOOSE h \in Homes : TRUE

PartNext == Serving(Next) \/ Dual(D!Next) \/ Registering(E!Next)

PartSafe == PartInit /\ [][PartNext]_all

\* The fairness of the part that runs, as each module states it.
PartFair ==
    /\ WF_all(\/ \E idle \in SUBSET Communities : Serving(Tick(idle)) \/ Dual(D!Tick(idle))
              \/ Registering(E!Tick))
    /\ WF_all(Registering(E!MainLoop))

PartSpec == PartSafe /\ PartFair

\* sn_ip_array, sn_idx and sup_attempts stay within their bounds.
EdgeTypes == E!TypeOK

\* A supernode that answers is not left: outside ask_backup and the end of the
\* cooldown the edge moves on only when all its attempts in a row went unanswered.
Loyal == E!Loyal

\* One supernode of the list that answers is enough: though all the others are
\* silent, the edge is registered again and again.
Reaches == part = "edge" => E!Reaches

\* Failback: when sn1 answers again at the address its name resolves to, the
\* edge returns to it and is registered there, wherever it had gone.
Returns == part = "edge" => E!Returns
=============================================================================
