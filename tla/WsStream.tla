------------------------------ MODULE WsStream ------------------------------
(***************************************************************************)
(* The WebSocket connection between an edge that was told to use one and   *)
(* its supernode: ws.c, and the parts of the two main loops that keep it   *)
(* alive.  TCP carries bytes; ws_send wraps a packet in a frame, ws_recv   *)
(* finds frames again in whatever pieces the bytes arrive in.  A send that *)
(* meets a full window gives up after three seconds and leaves what it had *)
(* written in the stream.                                                  *)
(* A byte string is a sequence of units: "h1" and "h2" for the two parts   *)
(* of a frame's header, "pay" for payload.  Units that do not belong       *)
(* together read as a header with arbitrary contents.                      *)
(***************************************************************************)
EXTENDS Naturals, Sequences, SequencesExt

CONSTANTS
    Edge, Sn,       \* the client and the server
    Lengths,        \* lengths of packets, in units; no packet is longer
    RxBuf,          \* N2N_WS_RX_BUF_SIZE
    Room,           \* what the kernels hold of one direction
    PingEvery,      \* ticks: 30 s
    IdleAfter,      \* ticks: WS_KEEPALIVE_TIMEOUT of the supernode
    StaleAfter,     \* ticks: 120 s at the edge
    MaxPackets,     \* bound: packets sent, by both
    MaxStalls,      \* bound: times the network stops moving bytes
    MaxConnects     \* bound: connections

VARIABLES
    state,      \* "open" or "closed" at each end
    wire,       \* bytes on their way to each end
    rx_buf,     \* bytes read and not yet decoded
    sent, got,  \* packets sent and delivered in this connection, by number,
                \* up to the first that is none
    cut,        \* ends that left part of a frame in the stream
    why,        \* what closed each end
    idle,       \* ticks since last_seen
    pinged,     \* ticks since ws_last_ping
    stalled,    \* the network moves nothing at the moment
    hurt,       \* it stopped during this connection
    count       \* packets, stalls and connections so far

vars == <<state, wire, rx_buf, sent, got, cut, why, idle, pinged, stalled, hurt, count>>

Ends == {Edge, Sn}
Other(p) == IF p = Edge THEN Sn ELSE Edge
MaxLen == CHOOSE n \in Lengths : \A m \in Lengths : m <= n
Fin == [u |-> "fin", op |-> "none", len |-> 0, id |-> 0]
Junk == 0                               \* a packet that was never sent

Init ==
    /\ state = [p \in Ends |-> "open"]
    /\ wire = [p \in Ends |-> <<>>]
    /\ rx_buf = [p \in Ends |-> <<>>]
    /\ sent = [p \in Ends |-> <<>>]
    /\ got = [p \in Ends |-> <<>>]
    /\ cut = {}
    /\ why = [p \in Ends |-> "none"]
    /\ idle = [p \in Ends |-> 0]
    /\ pinged = PingEvery
    /\ stalled = FALSE
    /\ hurt = FALSE
    /\ count = [packets |-> 0, stalls |-> 0, connects |-> 1]

-----------------------------------------------------------------------------
(* Frames.                                                                 *)

ws_build_frame(op, len, id) ==
    <<[u |-> "h1", op |-> op, len |-> len, id |-> id], [u |-> "h2", op |-> op, len |-> len, id |-> id]>>
        \o [i \in 1..len |-> [u |-> "pay", op |-> op, len |-> i, id |-> id]]

\* The headers the first bytes can be.  Bytes from the middle of a frame are a
\* header of any kind, and one that ws_recv refuses (a continuation, a length
\* beyond N2N_PKT_BUF_SIZE) is "bad".
Headers(b) ==
    IF Len(b) < 2 THEN {}
    ELSE IF b[1].u = "h1" /\ b[2].u = "h2" /\ b[1].id = b[2].id /\ b[1].op = b[2].op
    THEN {[op |-> b[1].op, len |-> b[1].len]}
    ELSE [op : {"data", "ping", "close", "bad"}, len : 0..MaxLen]

PacketIn(b, len) ==
    LET h == Head(b) IN
    IF h.u = "h1" /\ h.len = len /\ SubSeq(b, 1, 2 + len) = ws_build_frame("data", len, h.id)
    THEN h.id ELSE Junk

\* ws_close: a close frame if the connection was open, as much of it as fits,
\* and the end of the stream.
CloseFits(p) == SubSeq(ws_build_frame("close", 0, 0), 1,
                       IF Len(wire[Other(p)]) + 2 <= Room THEN 2 ELSE 0)

ws_close(p, reason) ==
    /\ state' = [state EXCEPT ![p] = "closed"]
    /\ why' = [why EXCEPT ![p] = reason]
    /\ wire' = [wire EXCEPT ![p] = <<>>,
                            ![Other(p)] = IF state[Other(p)] = "open" THEN @ \o CloseFits(p) \o <<Fin>> ELSE <<>>]
    /\ rx_buf' = [rx_buf EXCEPT ![p] = <<>>]

\* ws_send_all: everything, or what the window takes before the timeout.
ws_send_all(p, bytes) == SubSeq(bytes, 1, Room - Len(wire[Other(p)]))
Written(p, bytes) ==
    IF Len(wire[Other(p)]) >= Room THEN <<>>
    ELSE IF Len(wire[Other(p)]) + Len(bytes) <= Room THEN bytes
    ELSE ws_send_all(p, bytes)

\* While the other end reads, the kernel makes room within the timeout: a send
\* that does not fit waits.  It gives up when the bytes do not move (or when the
\* other end is blocked in a send of its own for as long: the same to this one).
Puts(p, bytes) ==
    /\ stalled \/ Written(p, bytes) = bytes
    /\ wire' = [wire EXCEPT ![Other(p)] = @ \o Written(p, bytes)]
    /\ cut' = IF Written(p, bytes) \in {<<>>, bytes} THEN cut ELSE cut \cup {p}

-----------------------------------------------------------------------------
(* Sending.                                                                *)

\* ws_send: a frame that could be written counts as activity; after a timeout
\* the packet is given up and the connection stays.
ws_send(p, len) ==
    /\ state[p] = "open"
    /\ count.packets < MaxPackets
    /\ LET id == count.packets + 1
           bytes == ws_build_frame("data", len, id)
       IN  /\ Puts(p, bytes)
           /\ count' = [count EXCEPT !.packets = id]
           /\ IF Written(p, bytes) = bytes
              THEN /\ sent' = [sent EXCEPT ![p] = Append(@, id)]
                   /\ idle' = [idle EXCEPT ![p] = 0]
              ELSE UNCHANGED <<sent, idle>>
    /\ UNCHANGED <<state, rx_buf, got, why, pinged, stalled, hurt>>

\* The other end is gone and the kernel knows: send fails, ws_send closes.
SendFails(p) ==
    /\ state[p] = "open" /\ state[Other(p)] = "closed" /\ ~stalled
    /\ ws_close(p, "dead")
    /\ UNCHANGED <<sent, got, cut, idle, pinged, stalled, hurt, count>>

-----------------------------------------------------------------------------
(* Receiving.                                                              *)

\* A whole frame is in the buffer, or its header says that it never will be.
Decodable(b) == \E h \in Headers(b) : h.op = "bad" \/ Len(b) >= 2 + h.len
Incomplete(b) == Len(b) < 2 \/ \E h \in Headers(b) : h.op # "bad" /\ Len(b) < 2 + h.len

\* Mutant: what was read together with a frame goes with it.
ConsumesAll(p, n) == rx_buf' = [rx_buf EXCEPT ![p] = <<>>]

ws_consume(p, n) == rx_buf' = [rx_buf EXCEPT ![p] = SubSeq(@, n + 1, Len(@))]

Deliver(p, h) ==
    /\ h.op = "data"
    /\ got' = [got EXCEPT ![p] = IF Junk \in Range(@) THEN @ ELSE Append(@, PacketIn(rx_buf[p], h.len))]
    /\ ws_consume(p, 2 + h.len)
    /\ idle' = [idle EXCEPT ![p] = 0]
    /\ UNCHANGED <<state, wire, cut, why>>

\* Mutant: control frames do not count as life.
PingUncounted(p, h) ==
    /\ h.op \in {"ping", "pong"}
    /\ ws_consume(p, 2 + h.len)
    /\ IF h.op = "ping" THEN Puts(p, ws_build_frame("pong", 0, 0)) ELSE UNCHANGED <<wire, cut>>
    /\ UNCHANGED <<state, got, why, idle>>

\* A ping is answered with a pong, which is not waited for and may be cut as
\* well; a pong only counts as activity.
Control(p, h) ==
    /\ h.op \in {"ping", "pong"}
    /\ ws_consume(p, 2 + h.len)
    /\ idle' = [idle EXCEPT ![p] = 0]
    /\ IF h.op = "ping" THEN Puts(p, ws_build_frame("pong", 0, 0)) ELSE UNCHANGED <<wire, cut>>
    /\ UNCHANGED <<state, got, why>>

ws_recv(p) ==
    /\ state[p] = "open" /\ Len(rx_buf[p]) >= 2
    /\ \E h \in Headers(rx_buf[p]) :
          \/ Len(rx_buf[p]) >= 2 + h.len /\ Deliver(p, h)
          \/ Len(rx_buf[p]) >= 2 + h.len /\ Control(p, h)
          \/ /\ h.op = "bad" \/ (h.op = "close" /\ Len(rx_buf[p]) >= 2 + h.len)
             /\ ws_close(p, IF h.op = "bad" THEN "protocol" ELSE "peer")
             /\ UNCHANGED <<got, cut, idle>>
    /\ UNCHANGED <<sent, pinged, stalled, hurt, count>>

\* needmore: whatever the socket has, up to what the buffer takes; the end of
\* the stream closes.  The buffer is never full without a frame in it, for which
\* ws_recv would close too: it holds two of the longest (WsAssumption).
NeedMore(p) ==
    /\ state[p] = "open" /\ ~stalled /\ Incomplete(rx_buf[p])
    /\ \/ \E n \in 1..Len(wire[p]) :
             /\ Len(rx_buf[p]) + n <= RxBuf
             /\ \A i \in 1..n : wire[p][i] # Fin
             /\ rx_buf' = [rx_buf EXCEPT ![p] = @ \o SubSeq(wire[p], 1, n)]
             /\ wire' = [wire EXCEPT ![p] = SubSeq(@, n + 1, Len(@))]
             /\ UNCHANGED <<state, why>>
       \/ /\ wire[p] # <<>> /\ Head(wire[p]) = Fin
          /\ ws_close(p, "peer")
    /\ UNCHANGED <<sent, got, cut, idle, pinged, stalled, hurt, count>>

-----------------------------------------------------------------------------
(* The main loops' timers.                                                 *)

\* sn_ws_purge, and the edge's check of last_seen.
Expired(p) == idle[p] > (IF p = Sn THEN IdleAfter ELSE StaleAfter)
Purge(p) ==
    /\ state[p] = "open" /\ Expired(p)
    /\ ws_close(p, "idle")
    /\ UNCHANGED <<sent, got, cut, idle, pinged, stalled, hurt, count>>

PingDue == pinged >= PingEvery
ws_ping ==
    /\ state[Edge] = "open" /\ PingDue
    /\ Puts(Edge, ws_build_frame("ping", 0, 0))
    /\ pinged' = 0
    /\ UNCHANGED <<state, rx_buf, sent, got, why, idle, stalled, hurt, count>>

\* Both ends of a new connection start with empty buffers, the old one's bytes
\* went with its sockets; nothing is sent before the handshake is over, so
\* nothing is read with it.  The supernode's end of the old connection, if it is
\* still open, is another slot's and ends there (SnForward).
ws_connect ==
    /\ state' = [p \in Ends |-> "open"]
    /\ wire' = [p \in Ends |-> <<>>]
    /\ rx_buf' = [p \in Ends |-> <<>>]
    /\ sent' = [p \in Ends |-> <<>>]
    /\ got' = [p \in Ends |-> <<>>]
    /\ cut' = {}
    /\ why' = [p \in Ends |-> "none"]
    /\ idle' = [p \in Ends |-> 0]
    /\ hurt' = FALSE

\* Tried again every five seconds, less than a tick.
edge_ws_connect ==
    /\ state[Edge] = "closed" /\ ~stalled
    /\ count.connects < MaxConnects
    /\ ws_connect
    /\ count' = [count EXCEPT !.connects = @ + 1]
    /\ UNCHANGED <<pinged, stalled>>

Quiet(p) == state[p] = "closed" \/ (wire[p] = <<>> /\ ~Decodable(rx_buf[p]))

\* Time passes when both loops have done what is due and, unless the network
\* has stopped, when what was sent has arrived and been read.
Tick ==
    /\ \A p \in Ends : ~(state[p] = "open" /\ Expired(p))
    /\ ~(state[Edge] = "open" /\ PingDue)
    /\ stalled \/ \A p \in Ends : Quiet(p)
    /\ idle' = [p \in Ends |-> IF idle[p] > StaleAfter THEN idle[p] ELSE idle[p] + 1]
    /\ pinged' = IF pinged < PingEvery THEN pinged + 1 ELSE pinged
    /\ UNCHANGED <<state, wire, rx_buf, sent, got, cut, why, stalled, hurt, count>>

Stall ==
    /\ ~stalled /\ count.stalls < MaxStalls
    /\ stalled' = TRUE /\ hurt' = TRUE
    /\ count' = [count EXCEPT !.stalls = @ + 1]
    /\ UNCHANGED <<state, wire, rx_buf, sent, got, cut, why, idle, pinged>>
Resume ==
    /\ stalled /\ stalled' = FALSE
    /\ UNCHANGED <<state, wire, rx_buf, sent, got, cut, why, idle, pinged, hurt, count>>

Next ==
    \/ \E p \in Ends :
          \/ \E len \in Lengths : ws_send(p, len)
          \/ SendFails(p)
          \/ ws_recv(p)
          \/ NeedMore(p)
          \/ Purge(p)
    \/ ws_ping \/ edge_ws_connect \/ Tick \/ Stall \/ Resume

Spec == Init /\ [][Next]_vars

-----------------------------------------------------------------------------
(* Correctness.                                                            *)

\* As long as no send gave up in the middle of a frame, what ws_recv hands out
\* is what the other end's ws_send took, whole and in order, in whatever pieces
\* TCP delivers it, and nothing of an earlier connection is among it.
Whole ==
    \A p \in Ends : Other(p) \notin cut => IsPrefix(got[p], sent[Other(p)])

\* A connection over a network that keeps moving is never taken down by the
\* timers at its ends, however long it is idle: the edge's ping reaches the
\* supernode within its timeout and the answer comes within the edge's.  And
\* no end closes it for a frame it cannot make sense of, unless the other end
\* left half a frame in the stream.
Kept ==
    \A p \in Ends :
        /\ why[p] = "idle" => hurt
        /\ why[p] = "protocol" => Other(p) \in cut

WsAssumption ==
    /\ Edge # Sn /\ Lengths \subseteq Nat /\ RxBuf >= 2 * (2 + MaxLen) /\ Room \in Nat
    \* The edge pings more often than either end gives up (30 s, 60 s, 120 s).
    /\ PingEvery \in Nat /\ IdleAfter \in Nat /\ StaleAfter \in Nat
    /\ PingEvery <= IdleAfter /\ PingEvery <= StaleAfter
=============================================================================
