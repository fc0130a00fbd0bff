------------------------------- MODULE Relay -------------------------------
(***************************************************************************)
(* The community relay: an edge that can be reached by everyone forwards the  *)
(* frames of two edges that cannot reach each other (src/src/edge.c:           *)
(* check_relay, the relay branch of send_PACKET, relay mode in handle_PACKET;  *)
(* src/src/sn.c: find_community_relay, advertise_relay_on_pair).               *)
(*                                                                         *)
(* One edge sends frames to a peer it has no direct path to.  Every frame      *)
(* leaves through the relay, through the supernode or through both.  The peer  *)
(* sends its own frames back through whatever relay it was given.  Relays      *)
(* crash, restart without their table, and are forgotten by the supernode.     *)
(***************************************************************************)
EXTENDS Integers, FiniteSets

CONSTANTS
    Relays,         \* edges that may relay
    Peer,           \* the edge at the other end
    NoRelay,
    Known,          \* the relays that have the edge in their own peer lists, too
    Willing,        \* the -Z stance of each of them and of the peer, 0 .. 3
    Enabled,        \* the supernode's own -Z: relay_advert_enabled
    Proven,         \* RELAY_PROVEN_SECS
    AckSecs,        \* RELAY_ACK_SECS
    Member,         \* a member is dropped after this time without REGISTER (60 s)
    GateSecs,       \* SN_RELAY_ADVERT_ACTIVE_SECS
    Throttle,       \* the supernode repeats itself after this time (15 s)
    Crashes         \* bound: how often a relay crashes

RelayAssumption ==
    /\ Peer \notin Relays /\ NoRelay \notin Relays \cup {Peer}
    /\ Known \subseteq Relays
    /\ Willing \in [Relays \cup {Peer} -> 0 .. 3] /\ Enabled \in BOOLEAN
    /\ {Proven, AckSecs, Member, GateSecs, Throttle} \subseteq Nat \ {0} /\ Crashes \in Nat

VARIABLES
    relay,      \* relay_mac and relay_sock, NoRelay unless relay_valid
    giveup,     \* relay_giveup
    proven,     \* time since relay_proven; capped, and so "never"
    ack,        \* time since relay_last_ack
    due,        \* the next check_relay registers with the relay
    direct,     \* every peer but the relay has a direct path
    via,        \* how the last frame left: subset of {"relay", "sn"}
    copy,       \* a frame has reached the supernode
    up,         \* the relays that run
    mode,       \* the relays that are in relay_mode
    member,     \* time since the edge registered with a relay, as long as it is a member
    listed,     \* the edges the supernode would pick from: registered, and capable unless they insist
    first,      \* time since sn_fwd_first, from the edge's first frame on
    adv,        \* time since relay_adv_time
    crashes

edge == <<relay, giveup, proven, ack, due, direct>>
sn   == <<listed, first, adv>>
vars == <<edge, via, copy, up, mode, member, sn, crashes>>

Never == -1
Older(t, max) == IF t = Never \/ t = max THEN t ELSE t + 1

Init ==
    /\ relay = NoRelay /\ giveup = FALSE /\ proven = Proven + 1 /\ ack = 0 /\ due = FALSE
    /\ direct = FALSE /\ via = {} /\ copy = FALSE /\ up = Relays /\ mode = {}
    /\ member = [r \in Relays |-> Never]
    /\ listed = Relays \cup {Peer} /\ first = Never /\ adv = Throttle /\ crashes = 0

\* Mutant: a relay is trusted as long as there is one.
SendRelayOnly(sent) ==
    /\ via' = IF relay # NoRelay THEN {"relay"} ELSE {"sn"}
    /\ copy' = (copy \/ relay = NoRelay)
    /\ UNCHANGED <<giveup, relay, proven, ack, due, direct, up, mode, member, sn, crashes>>

\* send_PACKET to a unicast address without a direct path.  sent: the datagram to the relay
\* left the socket.
Send(sent) ==
    LET use  == relay # NoRelay /\ ~giveup
        dual == proven > Proven
    IN  /\ via' = CASE ~use -> {"sn"} [] use /\ ~dual -> {"relay"} [] OTHER -> {"relay", "sn"}
        /\ copy' = (copy \/ ~use \/ dual)
        /\ giveup' = (giveup \/ (use /\ dual /\ ~sent))
        /\ UNCHANGED <<relay, proven, ack, due, direct, up, mode, member, sn, crashes>>

\* A frame of the peer that r forwarded; it names no relay, only that there was one.
RecvRelayed(r) ==
    /\ r \in up \cap mode /\ (member[r] # Never \/ r \in Known)
    /\ proven' = 0 /\ giveup' = FALSE
    /\ UNCHANGED <<relay, ack, due, direct, via, copy, up, mode, member, sn, crashes>>

-----------------------------------------------------------------------------
\* find_community_relay: those that insist, else the capable ones, the willing first.
Forcing == {m \in listed : Willing[m] = 3}
Eligible ==
    LET ok(w) == {m \in listed : Willing[m] = w}
    IN  CASE Forcing # {} -> Forcing
          [] ~Enabled -> {}
          [] ok(2) # {} -> ok(2)
          [] OTHER -> ok(1)

\* The edge learns its relay; an unchanged one is only asked again.
Learn(r) ==
    /\ relay' = r /\ due' = TRUE
    /\ ack' = IF relay = r THEN ack ELSE 0
    /\ UNCHANGED <<giveup, proven, direct>>

\* Has the supernode forwarded for long enough, and not named a relay just now?
Ripe == first # Never /\ first >= GateSecs /\ adv >= Throttle

\* It forwards the frame and leaves it at that: too early, nobody to relay, or the one it
\* picked is the frame's destination.
Forward ==
    /\ copy /\ copy' = FALSE
    /\ ~Ripe \/ Eligible = {} \/ Peer \in Eligible
    /\ first' = IF first = Never THEN 0 ELSE first
    /\ UNCHANGED <<edge, via, up, mode, member, listed, adv, crashes>>

\* It also names a relay: to the edge, and to the relay itself.  Either message may be lost.
Advertise(r, told, self) ==
    /\ copy /\ copy' = FALSE /\ Ripe /\ r \in Eligible
    /\ adv' = 0
    /\ IF told THEN Learn(r) ELSE UNCHANGED edge
    /\ mode' = IF self THEN mode \cup ({r} \cap up) ELSE mode
    /\ UNCHANGED <<via, up, member, listed, first, crashes>>

-----------------------------------------------------------------------------
\* No answer for too long: the frames go through the supernode until there is one.
Dead == ack > AckSecs

\* Mutant: an answer is not taken for a sign of life.
AnswersIgnored(got, back, retry) ==
    /\ member' = IF got /\ relay \in up \cap mode THEN [member EXCEPT ![relay] = 0] ELSE member
    /\ giveup' = (Dead \/ (giveup /\ ~retry)) /\ UNCHANGED ack

\* REGISTER to the relay and its REGISTER_ACK; got: the request arrived; back: so did the answer.
\* retry: relay_probe_next has come, which matters only after a failed send.
Heartbeat(got, back, retry) ==
    LET there == got /\ relay \in up
    IN  /\ member' = IF there /\ relay \in mode THEN [member EXCEPT ![relay] = 0] ELSE member
        /\ ack' = IF there /\ back THEN 0 ELSE ack
        /\ giveup' = ((Dead \/ (giveup /\ ~retry)) /\ ~(there /\ back))

check_relay(got, back, retry) ==
    /\ relay # NoRelay /\ due
    /\ IF direct
       THEN /\ relay' = NoRelay /\ proven' = Proven + 1
            /\ UNCHANGED <<giveup, ack, member>>
       ELSE Heartbeat(got, back, retry) /\ UNCHANGED <<relay, proven>>
    /\ due' = FALSE
    /\ UNCHANGED <<direct, via, copy, up, mode, sn, crashes>>

\* The relay's own check_relay, every time time passes: members that went silent are dropped.
Aged == [r \in Relays |-> IF r \notin up \/ member[r] = Member THEN Never ELSE Older(member[r], Member)]

Tick ==
    /\ ~(relay # NoRelay /\ due)
    /\ due' = (relay # NoRelay)
    /\ proven' = Older(proven, Proven + 1) /\ ack' = Older(ack, AckSecs + 1)
    /\ member' = Aged
    /\ first' = Older(first, GateSecs) /\ adv' = Older(adv, Throttle)
    /\ UNCHANGED <<relay, giveup, direct, via, copy, up, mode, listed, crashes>>

-----------------------------------------------------------------------------
\* Punching succeeds or its path is lost (EdgePeers).
Direct == direct' = ~direct /\ UNCHANGED <<relay, giveup, proven, ack, due, via, copy, up, mode, member, sn, crashes>>

\* A relay stops; the supernode still lists it.
Crash(r) ==
    /\ r \in up /\ crashes < Crashes /\ crashes' = crashes + 1
    /\ up' = up \ {r} /\ mode' = mode \ {r} /\ member' = [member EXCEPT ![r] = Never]
    /\ UNCHANGED <<edge, via, copy, sn>>

Restart(r) ==
    /\ r \notin up /\ up' = up \cup {r} /\ listed' = listed \cup {r}
    /\ UNCHANGED <<edge, via, copy, mode, member, first, adv, crashes>>

\* The registration of a relay that stopped expires.
Unlist(r) ==
    /\ r \in listed \ up /\ listed' = listed \ {r}
    /\ UNCHANGED <<edge, via, copy, up, mode, member, first, adv, crashes>>

Next ==
    \/ \E sent \in BOOLEAN : Send(sent)
    \/ \E r \in Relays : RecvRelayed(r) \/ Crash(r) \/ Restart(r) \/ Unlist(r)
    \/ \E r \in Relays, told, self \in BOOLEAN : Advertise(r, told, self)
    \/ \E got, back, retry \in BOOLEAN : check_relay(got, back, retry)
    \/ Forward \/ Tick \/ Direct

Spec == Init /\ [][Next]_vars

\* The edge has frames to send, its main loop runs, time passes; heartbeats are answered and
\* the supernode's messages arrive again and again.
FairSpec ==
    /\ Spec
    /\ WF_vars(Send(TRUE)) /\ WF_vars(Tick)
    /\ WF_vars(\E got, back, retry \in BOOLEAN : check_relay(got, back, retry))
    /\ SF_vars(check_relay(TRUE, TRUE, TRUE))
    /\ WF_vars(Forward) /\ \A r \in Relays : SF_vars(Advertise(r, TRUE, TRUE))

-----------------------------------------------------------------------------
(* The types, and what is true of a relay that does not run.                   *)
TypeOK ==
    /\ relay \in Relays \cup {NoRelay} /\ {giveup, due, direct} \subseteq BOOLEAN
    /\ proven \in 0 .. Proven + 1 /\ ack \in 0 .. AckSecs + 1 /\ via \subseteq {"relay", "sn"}
    /\ up \subseteq Relays /\ mode \subseteq up
    /\ member \in [Relays -> -1 .. Member] /\ \A r \in Relays \ up : member[r] = Never
    /\ listed \subseteq Relays \cup {Peer} /\ first \in -1 .. GateSecs /\ adv \in 0 .. Throttle

\* A frame that another relay than the edge's own forwarded.
Foreign == \E r \in Relays \ {relay} : RecvRelayed(r)
Calm    == ~[]<><<Foreign>>_vars

(* A relay that is gone does not swallow the frames: in the end each of them    *)
(* has a copy that goes through the supernode.                                  *)
FallsBack == Calm /\ <>[](relay # NoRelay /\ relay \notin up) => <>[]("sn" \in via)

(* A relay that is back is used again.                                          *)
Recovers == <>[](relay \in up) => []<>(~giveup)
=============================================================================
