------------------------------- MODULE MCPaths -------------------------------
(***************************************************************************)
(* The two ways in which a supernode helps edges to each other, for TLC:   *)
(* the pairs it punches (SnPunch) and the relays it advertises (Relay).    *)
(* The two share no state, so a behaviour is one of the one or one of the  *)
(* other: part says which, and the other's variables stay as they start.   *)
(***************************************************************************)
EXTENDS SnPunch, TLC

CONSTANTS
    r1, r2, b,
    Relays, Peer, NoRelay, Known, Enabled, Proven, AckSecs, Member, GateSecs, Throttle, Crashes

BothAsk == {<<1, 2>>, <<2, 1>>}
Stance  == (r1 :> 2) @@ (r2 :> 2) @@ (b :> 1)

VARIABLES
    part,
    relay, giveup, proven, ack, due, direct, via, copy, up, mode, member, listed, first, adv, crashes

R == INSTANCE Relay WITH Willing <- Stance

ASSUME RelayAssumed == R!RelayAssumption

relayVars == <<relay, giveup, proven, ack, due, direct, via, copy, up, mode, member, listed, first, adv, crashes>>
all == <<vars, relayVars, part>>

Punching(A) == part = "punch" /\ A /\ UNCHANGED <<relayVars, part>>
Relaying(A) == part = "relay" /\ A /\ UNCHANGED <<vars, part>>

PartInit == Init /\ R!Init /\ part \in {"punch", "relay"}
PartNext == Punching(Next) \/ Relaying(R!Next)

PartSafe == PartInit /\ [][PartNext]_all

\* The fairness of the part that runs, as each module states it.
PartFair ==
    /\ WF_all(Punching(Tick) \/ Relaying(R!Tick))
    /\ WF_all(\/ Punching(LoopTail)
              \/ Relaying(\E got, back, retry \in BOOLEAN : R!check_relay(got, back, retry)))
    /\ WF_all(Relaying(R!Send(TRUE))) /\ WF_all(Relaying(R!Forward))
    /\ SF_all(Relaying(R!check_relay(TRUE, TRUE, TRUE)))
    /\ \A r \in Relays : SF_all(Relaying(R!Advertise(r, TRUE, TRUE)))

PartSpec == PartSafe /\ PartFair

\* The types of both parts, and one pair for two edges (sn_pair_touch) whoever asks first.
Shape == TypeOK /\ OnePairEach /\ R!TypeOK

\* A relay that is gone does not swallow the frames: in the end each of them has
\* a copy that goes through the supernode (send_PACKET, relay_proven).
FallsBack == part = "relay" => R!FallsBack

\* A relay that is back is used again (check_relay clears relay_giveup).
Recovers == part = "relay" => R!Recovers
=============================================================================
