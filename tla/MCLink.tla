------------------------------- MODULE MCLink -------------------------------
(***************************************************************************)
(* The layers under a frame, for TLC: the format of a datagram (Wire), the *)
(* transforms and filters between two TAP devices (Frames), the WebSocket  *)
(* stream that may carry datagrams (WsStream) and the port a gateway maps  *)
(* to the edge's socket (Upnp).  They share no state, so a behaviour is    *)
(* one of one of them: part says which, and the others are off.            *)
(***************************************************************************)
EXTENDS Naturals

CONSTANTS
    Hosts, Configs, Kinds, Sizes, N2N_PKT_BUF_SIZE, N2N_TRANSFORM_BUF_SIZE, MaxTap, MaxNet,
    Edge, Sn, Lengths, RxBuf, InFlight, PingEvery, IdleAfter, StaleAfter,
    MaxPackets, MaxStalls, MaxConnects,
    Gateways, LowPort, TopPort, LocalPort, UPNP_PORT_RETRY_MAX, UPNP_LEASE_TIME, MaxFaults

VARIABLES
    part,
    fields, bytes, how, read,                                                   \* Wire
    conf, tap, datagrams, knows, compact, ip, wrote,                            \* Frames
    ends, wire, rx_buf, sent, got, cut, why, idle, pinged, stalled, hurt, count, \* WsStream
    lease, speaks, cached, network, mapped, last, job, phase, missed            \* Upnp

Opt(m, k, h, r, a, w) == [mode |-> m, key |-> k, hex |-> h, routing |-> r, accept |-> a, win |-> w]

\* Every cipher with a key, none without one, another key, a hexadecimal one, and
\* the options that change what is filtered.
SomeConfigs ==
    {Opt(m, "k", FALSE, FALSE, FALSE, FALSE) : m \in {0, 1, 2, 3, 4}}
    \cup {Opt(2, "none", FALSE, FALSE, FALSE, FALSE), Opt(3, "l", FALSE, FALSE, FALSE, FALSE),
          Opt(5, "k", TRUE, FALSE, TRUE, FALSE), Opt(4, "k", FALSE, TRUE, FALSE, TRUE), Opt(2, "k", FALSE, FALSE, FALSE, TRUE)}

\* Gateways of every generation, and one that speaks nothing.
AllGateways == {{"ip2"}, {"ip2", "pcp"}, {"ip1", "pmp"}, {"ppp", "ip1"}, {"pcp", "pmp"}, {"pmp"}, {}}

W == INSTANCE Wire WITH sent <- fields, net <- bytes, got <- read
F == INSTANCE Frames WITH Edges <- Hosts, net <- datagrams
S == INSTANCE WsStream WITH Room <- InFlight, state <- ends
U == INSTANCE Upnp WITH net <- network, faults <- missed

ASSUME LinkAssumed == F!FramesAssumption /\ S!WsAssumption /\ U!UpnpAssumption

wireVars   == <<fields, bytes, how, read>>
frameVars  == <<conf, tap, datagrams, knows, compact, ip, wrote>>
streamVars == <<ends, wire, rx_buf, sent, got, cut, why, idle, pinged, stalled, hurt, count>>
portVars   == <<lease, speaks, cached, network, mapped, last, job, phase, missed>>
all        == <<part, wireVars, frameVars, streamVars, portVars>>

WireOff   == fields = "off" /\ bytes = "off" /\ how = "off" /\ read = "off"
FramesOff ==
    /\ conf = "off" /\ tap = "off" /\ datagrams = "off" /\ knows = "off" /\ compact = "off"
    /\ ip = "off" /\ wrote = "off"
StreamOff ==
    /\ ends = "off" /\ wire = "off" /\ rx_buf = "off" /\ sent = "off" /\ got = "off" /\ cut = "off"
    /\ why = "off" /\ idle = "off" /\ pinged = "off" /\ stalled = "off" /\ hurt = "off" /\ count = "off"
PortOff   ==
    /\ lease = "off" /\ speaks = "off" /\ cached = "off" /\ network = "off" /\ mapped = "off"
    /\ last = "off" /\ job = "off" /\ phase = "off" /\ missed = "off"

PartInit ==
    \/ part = "wire" /\ W!Init /\ FramesOff /\ StreamOff /\ PortOff
    \/ part = "frames" /\ WireOff /\ F!Init /\ StreamOff /\ PortOff
    \/ part = "stream" /\ WireOff /\ FramesOff /\ S!Init /\ PortOff
    \/ part = "port" /\ WireOff /\ FramesOff /\ StreamOff /\ U!Init

PartNext ==
    /\ UNCHANGED part
    /\ \/ part = "wire" /\ W!Next /\ UNCHANGED <<frameVars, streamVars, portVars>>
       \/ part = "frames" /\ F!Next /\ UNCHANGED <<wireVars, streamVars, portVars>>
       \/ part = "stream" /\ S!Next /\ UNCHANGED <<wireVars, frameVars, portVars>>
       \/ part = "port" /\ U!Next /\ UNCHANGED <<wireVars, frameVars, streamVars>>

PartSpec == PartInit /\ [][PartNext]_all

-----------------------------------------------------------------------------
(* The properties of the part that runs; each module says what they mean. *)

\* A decoder finds every field where the encoder put it (encode_*, decode_*).
Understood == part = "wire" => W!Understood

\* A frame reaches the other TAP device whole and deciphered or not at all, and
\* the address an edge keeps of a peer is the peer's own (handle_PACKET).
Delivered == part = "frames" => F!Intact /\ F!AddressOwn

\* What a connection delivers is what was sent on it, in order, without a gap.
Whole == part = "stream" => S!Whole

\* No end drops a connection on which the other end and the network work.
Kept == part = "stream" => S!Kept

\* An edge that believes its port to be mapped has it mapped, as long as no
\* answer was lost and the network stays; one that exits leaves nothing behind.
Mapped == part = "port" => U!TypeOK /\ U!Held /\ U!LeavesNothing
=============================================================================
