----------------------------- MODULE SnForward -----------------------------
(***************************************************************************)
(* How the supernode forwards frames (src/src/sn.c): the table of WebSocket   *)
(* connections and the pointers the edge records hold into it, the two wire   *)
(* formats, and the passes of run_loop that order it all: datagrams first,    *)
(* then new connections, then what the connections brought, then the purge.   *)
(*                                                                         *)
(* Registration is reduced to what it does to these fields (SnRegistry has     *)
(* the rest) and the rate limiter (SnShaper) to the fan-out it allows.        *)
(* The bytes of a converted frame are the subject of Wire, those of a         *)
(* WebSocket stream the subject of WsStream.                                  *)
(***************************************************************************)
EXTENDS Integers, SequencesExt

CONSTANTS
    Macs, NoOne,    \* the edges; nobody
    Comm,           \* the community of each edge
    Legacy,         \* the edges that only know the long format
    Eager,          \* the edges that send the compact format
    OnWs,           \* the edges that come by WebSocket
    Addrs, TcpAddr, \* UDP endpoints; the endpoint of a WebSocket edge
    Slots,          \* 1 .. N2N_SN_MAX_WS
    FanOuts,        \* what the limiter may leave of a broadcast, bc_limit
    Window          \* frames the kernel takes for a peer that has vanished

ForwardAssumption ==
    /\ NoOne \notin Macs /\ TcpAddr \notin Addrs /\ Slots \subseteq Nat \ {0}
    /\ Legacy \cap Eager = {} /\ Legacy \cup Eager \cup OnWs \subseteq Macs
    /\ FanOuts \subseteq Nat /\ Window \in Nat

VARIABLES
    edges,          \* the list sss->edges, newest first
    conns,          \* sss->ws_conns, with who is at the other end of each
    all_compact,    \* per community
    heard,          \* legacy edges heard since all_compact was last created
    at,             \* where each UDP edge is
    phase,          \* how far this pass of run_loop has come
    out             \* the broadcast frames the last step handed to edges

vars == <<edges, conns, all_compact, heard, at, phase, out>>

Communities == {Comm[m] : m \in Macs}
Unused == [state |-> "free", who |-> NoOne, alive |-> FALSE, idle |-> FALSE, room |-> Window]
Opened(m) == [Unused EXCEPT !.state = "open", !.who = m, !.alive = TRUE]

-----------------------------------------------------------------------------
(* Records *)

Index(P(_)) == {i \in DOMAIN edges : P(edges[i])}
First(S) == CHOOSE i \in S : \A j \in S : i <= j

find_peer_by_mac(m) == Index(LAMBDA e : e.mac = m)
find_peer_by_sock(a) == Index(LAMBDA e : e.addr = a)
PeerOfConn(s) == Index(LAMBDA e : e.ws = s)

Without(m) == RemoveAt(edges, First(find_peer_by_mac(m)))

\* update_edge: a new record goes to the head of the list.
update_edge(m, a, s) ==
    LET known == find_peer_by_mac(m)
        Put(e) == [e EXCEPT !.addr = a, !.ws = IF s = 0 THEN @ ELSE s]
    IN  IF known = {}
        THEN <<[mac |-> m, addr |-> a, ws |-> s, compact |-> FALSE]>> \o edges
        ELSE [edges EXCEPT ![First(known)] = Put(@)]

-----------------------------------------------------------------------------
(* Connections *)

Outcomes == {"ok", "late", "dead"}

\* What send may say of each connection: a peer that has vanished without a word
\* takes no more than fits in the kernel's buffers.
CanSend ==
    {res \in [Slots -> Outcomes] :
        \A s \in Slots : CASE conns[s].state # "open" -> res[s] = "ok"
                         [] ~conns[s].alive /\ conns[s].room = 0 -> res[s] # "ok"
                         [] OTHER -> TRUE}

\* Mutant: a frame that was given up on refreshes last_seen, too.
RefreshedAnyway(c, o) ==
    CASE o = "ok"   -> [c EXCEPT !.idle = FALSE, !.room = IF c.alive \/ @ = 0 THEN @ ELSE @ - 1]
      [] o = "late" -> [c EXCEPT !.idle = FALSE]
      [] o = "dead" -> [Unused EXCEPT !.state = "closed"]

\* ws_send: a connection that is dead is closed, and nobody is told.
ws_send(c, o) ==
    CASE o = "ok"   -> [c EXCEPT !.idle = FALSE, !.room = IF c.alive \/ @ = 0 THEN @ ELSE @ - 1]
      [] o = "late" -> c
      [] o = "dead" -> [Unused EXCEPT !.state = "closed"]

\* sn_send_to_peer: by WebSocket, or by UDP, whose sendto always succeeds.
Sends(cs, e) == e.ws # 0 /\ cs[e.ws].state = "open"
Succeeds(cs, e, res) == Sends(cs, e) => res[e.ws] = "ok"
sn_send_to_peer(cs, e, res) == IF Sends(cs, e) THEN [cs EXCEPT ![e.ws] = ws_send(@, res[e.ws])] ELSE cs

Frame(e, fmt) == [for |-> e.mac, fmt |-> fmt]

\* try_forward
Unicast(i, res) == conns' = sn_send_to_peer(conns, edges[i], res) /\ out' = {}

\* One record of the list, on the way of a broadcast through it.
Visit(m, fmt, limit, res, st, e) ==
    IF Comm[e.mac] # Comm[m] \/ e.mac = m \/ st.n >= limit THEN st
    ELSE LET ok == Succeeds(st.cs, e, res)
         IN  [cs |-> sn_send_to_peer(st.cs, e, res), n |-> IF ok THEN st.n + 1 ELSE st.n,
              o  |-> IF ok THEN st.o \cup {Frame(e, fmt)} ELSE st.o]

\* try_broadcast: to the members but the sender, until the fan-out is used up.
try_broadcast(m, fmt, limit, res) ==
    LET end == FoldLeft(LAMBDA st, e : Visit(m, fmt, limit, res, st, e), [cs |-> conns, n |-> 0, o |-> {}], edges)
    IN  conns' = end.cs /\ out' = end.o

-----------------------------------------------------------------------------
(* process_udp *)

\* Mutant: a legacy edge does not end the compact community.
StaysCompact(m, c) == heard' = heard \cup ({m} \cap Legacy) /\ UNCHANGED all_compact

\* A PACKET in the long format, from edge m: the community is not all compact.
HearLegacy(m, c) ==
    /\ all_compact' = [all_compact EXCEPT ![c] = FALSE]
    /\ heard' = heard \cup ({m} \cap Legacy)

\* The sender's endpoint follows its data.
LearnSender(m, a) ==
    LET known == find_peer_by_mac(m)
    IN  IF known = {} THEN edges
        ELSE [edges EXCEPT ![First(known)].addr = a]

PacketLegacy(m, a, dst, limit, res) ==
    /\ HearLegacy(m, Comm[m])
    /\ edges' = LearnSender(m, a)
    /\ IF dst = NoOne THEN try_broadcast(m, "legacy", limit, res)
       ELSE LET d == find_peer_by_mac(dst)
            IN  IF d = {} THEN out' = {} /\ UNCHANGED conns
                ELSE Unicast(First(d), res)
    /\ UNCHANGED at

\* A compact PACKET says neither who sent it nor how it is encrypted: the record
\* with its endpoint, or its connection, does.  It is converted for a receiver
\* that has not been heard to use the format (compact, for a single receiver).
PacketCompact(sender, dst, limit, res) ==
    IF sender = {} THEN out' = {} /\ UNCHANGED <<edges, conns>>
    ELSE LET i == First(sender)
             me == edges[i]
             d == find_peer_by_mac(dst)
         IN  /\ edges' = [edges EXCEPT ![i].compact = TRUE]
             /\ IF dst = NoOne
                THEN try_broadcast(me.mac, IF all_compact[Comm[me.mac]] THEN "compact" ELSE "legacy", limit, res)
                ELSE IF d = {} THEN out' = {} /\ UNCHANGED conns
                ELSE Unicast(First(d), res)

Targets(m) == (Macs \ {m}) \cup {NoOne}

\* A frame of edge m: the long format from all, the compact one from those that send it.
Packet(m, a, sender, dst, limit, res) ==
    \/ PacketLegacy(m, a, dst, limit, res)
    \/ m \in Eager /\ PacketCompact(sender, dst, limit, res) /\ UNCHANGED <<all_compact, heard, at>>

\* REGISTER and PROBE_ACK are passed on as they are.
PassOn(dst, res) ==
    /\ \E i \in find_peer_by_mac(dst) : Unicast(i, res)
    /\ UNCHANGED <<edges, all_compact, heard, at>>

UdpStep(act) == phase = "udp" /\ act /\ UNCHANGED phase

RegisterUdp(m) ==
    /\ UdpStep(edges' = update_edge(m, at[m], 0))
    /\ out' = {} /\ UNCHANGED <<conns, all_compact, heard, at>>

PacketUdp(m) ==
    \E dst \in Targets(m), limit \in FanOuts, res \in CanSend :
        UdpStep(Packet(m, at[m], find_peer_by_sock(at[m]), dst, limit, res))

PassOnUdp(m) ==
    \E dst \in Macs \ {m}, res \in CanSend : UdpStep(PassOn(dst, res))

-----------------------------------------------------------------------------
(* run_loop *)

Enters(p, q) == phase = p /\ phase' = q

NoneWaiting ==
    /\ Enters("udp", "ws")
    /\ out' = {} /\ UNCHANGED <<edges, conns, all_compact, heard, at>>

\* sn_ws_find_free_slot: a slot whose connection was closed counts as free.
FreeSlots == {s \in Slots : conns[s].state \in {"free", "closed"}}

\* ws_server_accept; with a full table the connection is accepted and closed.
Accept(m) ==
    /\ m \in OnWs /\ Enters("udp", "ws")
    /\ \A s \in Slots : ~(conns[s].who = m /\ conns[s].alive)
    /\ \E ok \in BOOLEAN :
          conns' = IF FreeSlots = {} THEN conns
                   ELSE [conns EXCEPT ![First(FreeSlots)] = IF ok THEN Opened(m) ELSE Unused]
    /\ out' = {} /\ UNCHANGED <<edges, all_compact, heard, at>>

\* sn_ws_drop_conn
sn_ws_drop_conn(s) ==
    /\ conns' = [conns EXCEPT ![s] = Unused]
    /\ edges' = [i \in DOMAIN edges |-> IF edges[i].ws = s THEN [edges[i] EXCEPT !.ws = 0] ELSE edges[i]]

Speaks(s) == phase = "ws" /\ conns[s].state = "open" /\ conns[s].alive
Fresh(s)  == [conns EXCEPT ![s].idle = FALSE]

RegisterWs(s) ==
    /\ Speaks(s)
    /\ edges' = update_edge(conns[s].who, TcpAddr, s)
    /\ conns' = Fresh(s)
    /\ out' = {} /\ UNCHANGED <<all_compact, heard, at, phase>>

PacketWs(s) ==
    /\ Speaks(s)
    /\ \E dst \in Targets(conns[s].who), limit \in FanOuts, res \in CanSend :
          Packet(conns[s].who, TcpAddr, PeerOfConn(s), dst, limit, res)
    /\ UNCHANGED phase

\* A ping is answered and counts as life.
Ping(s) ==
    /\ Speaks(s) /\ conns[s].idle
    /\ conns' = Fresh(s)
    /\ out' = {} /\ UNCHANGED <<edges, all_compact, heard, at, phase>>

\* ws_recv fails: a close frame, an error, or a frame that is none.
HangUp(s) ==
    /\ Speaks(s)
    /\ sn_ws_drop_conn(s)
    /\ out' = {} /\ UNCHANGED <<all_compact, heard, at, phase>>

WsDone ==
    /\ Enters("ws", "tail")
    /\ out' = {} /\ UNCHANGED <<edges, conns, all_compact, heard, at>>

\* sn_ws_purge
Purged == {s \in Slots : conns[s].state = "closed" \/ (conns[s].state = "open" /\ conns[s].idle)}
sn_ws_purge ==
    /\ phase = "tail" /\ \E s \in Purged : sn_ws_drop_conn(s)
    /\ out' = {} /\ UNCHANGED <<all_compact, heard, at, phase>>

PassEnds ==
    /\ Enters("tail", "udp") /\ Purged = {}
    /\ out' = {} /\ UNCHANGED <<edges, conns, all_compact, heard, at>>

-----------------------------------------------------------------------------
(* What happens around the loop *)

\* DEREGISTER, or a registration that expired.
Leave(m) ==
    /\ phase = "tail" /\ find_peer_by_mac(m) # {}
    /\ edges' = Without(m)
    /\ out' = {} /\ UNCHANGED <<conns, all_compact, heard, at, phase>>

\* purge_expired_community_stats: the entry is made again when it is needed.
StatsPurged(c) ==
    /\ phase = "tail" /\ ~all_compact[c]
    /\ all_compact' = [all_compact EXCEPT ![c] = TRUE]
    /\ heard' = {m \in heard : Comm[m] # c}
    /\ out' = {} /\ UNCHANGED <<edges, conns, at, phase>>

\* An edge gets another endpoint, one that nobody has now.
Move(m) ==
    /\ phase = "udp" /\ m \notin OnWs
    /\ \E a \in Addrs : a \notin {at[n] : n \in Macs} /\ at' = [at EXCEPT ![m] = a]
    /\ out' = {} /\ UNCHANGED <<edges, conns, all_compact, heard, phase>>

Vanish(s) ==
    /\ conns[s].state = "open" /\ conns[s].alive
    /\ conns' = [conns EXCEPT ![s].alive = FALSE]
    /\ out' = {} /\ UNCHANGED <<edges, all_compact, heard, at, phase>>

\* WS_KEEPALIVE_TIMEOUT seconds in which nothing came and nothing went.
Silence(s) ==
    /\ conns[s].state = "open" /\ ~conns[s].idle
    /\ conns' = [conns EXCEPT ![s].idle = TRUE]
    /\ out' = {} /\ UNCHANGED <<edges, all_compact, heard, at, phase>>

Init ==
    /\ edges = <<>> /\ conns = [s \in Slots |-> Unused]
    /\ all_compact = [c \in Communities |-> TRUE] /\ heard = {}
    /\ at \in [Macs -> Addrs \cup {TcpAddr}]
    /\ \A m \in Macs : (at[m] = TcpAddr) <=> (m \in OnWs)
    /\ \A m, n \in Macs \ OnWs : at[m] = at[n] => m = n
    /\ phase = "udp" /\ out = {}

Loop == NoneWaiting \/ WsDone \/ sn_ws_purge \/ PassEnds

Next ==
    \/ Loop
    \/ \E m \in Macs \ OnWs : RegisterUdp(m) \/ PacketUdp(m) \/ PassOnUdp(m) \/ Move(m)
    \/ \E m \in Macs : Accept(m) \/ Leave(m)
    \/ \E s \in Slots : RegisterWs(s) \/ PacketWs(s) \/ Ping(s) \/ HangUp(s) \/ Vanish(s) \/ Silence(s)
    \/ \E c \in Communities : StatsPurged(c)

\* run_loop goes round whatever comes, and a silence of a minute follows when
\* nothing is sent and nothing comes for so long: the buffers of a peer that has
\* vanished are full by then.
Spec == Init /\ [][Next]_vars
FairSpec == Spec /\ WF_vars(Loop) /\ \A s \in Slots : WF_vars(Silence(s) /\ ~conns[s].alive)

-----------------------------------------------------------------------------
(* Properties *)

Record == [mac : Macs, addr : Addrs \cup {TcpAddr}, ws : Slots \cup {0}, compact : BOOLEAN]

\* Types; an edge has one record.
TypeOK ==
    /\ edges \in Seq(Record)
    /\ \A i, j \in DOMAIN edges : edges[i].mac = edges[j].mac => i = j
    /\ conns \in [Slots -> [state : {"free", "open", "closed"}, who : Macs \cup {NoOne}, alive : BOOLEAN,
                            idle : BOOLEAN, room : 0 .. Window]]
    /\ all_compact \in [Communities -> BOOLEAN]
    /\ heard \subseteq Legacy /\ phase \in {"udp", "ws", "tail"}

\* A legacy edge that has been heard is sent every broadcast in the format it can
\* read, whatever the others use (all_compact, 414 and 3562).
HeardReadable == \A f \in out : f.for \in heard => f.fmt = "legacy"

\* Both: the table has one record for each edge, and broadcasts are readable.
ForwardSound == TypeOK /\ HeardReadable

\* The slot of a connection whose edge has vanished is given back, though frames
\* for it keep coming (last_seen in ws_send, sn_ws_purge).
DeadDropped == \A s \in Slots : (conns[s].state = "open" /\ ~conns[s].alive) ~> (conns[s].state # "open" \/ conns[s].alive)
=============================================================================
