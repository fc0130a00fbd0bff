------------------------------- MODULE Bypass -------------------------------
(***************************************************************************)
(* The split tunnel of two edges (src/src/bypass.c): how they agree to use    *)
(* it (PROBE, PROBE_ACK, TEST, TEST_ACK), the iptables rule that sends local  *)
(* TCP connections into it, and the life of those connections (SYN, KCP data, *)
(* FIN, timeouts).  What a connection carries is the business of Kcp.         *)
(*                                                                         *)
(* Datagrams are lost, repeated and reordered.  Addresses do not change, so    *)
(* that the entry of a sender is found; a second counts for nothing here: a    *)
(* timeout may come at any time.                                           *)
(***************************************************************************)
EXTENDS Integers, FiniteSets

CONSTANTS
    Edges,          \* the two edges
    Slots,          \* the slots of conns[], BYPASS_MAX_CONNS of them
    Retries,        \* probes after the first, 3
    Room,           \* bound on the datagrams under way
    Openers,        \* the edges on which local programs open connections
    Conns,          \* bound on the connections an edge opens
    Changes,        \* bound on restarts, toggles and peers that come and go
    Faults          \* bound on datagrams lost or repeated and timeouts that come early

ASSUME BypassAssumption ==
    /\ Cardinality(Edges) = 2 /\ Openers \subseteq Edges /\ Slots # {} /\ IsFiniteSet(Slots)
    /\ {Retries, Room, Conns, Changes, Faults} \subseteq Nat /\ Room > 0

VARIABLES
    known,          \* is the other edge in known_peers?
    disabled,       \* user_disabled
    state,          \* of the entry for the other edge in peers[]
    probe_sent, probe_retries,
    peer_count,
    rule,           \* is there an iptables rule for the other edge?
    conns,          \* what each slot of conns[] holds
    conn_id_seq,
    net,
    changes, faults

peer  == <<state, probe_sent, probe_retries, peer_count, rule>>
conn  == <<conns, conn_id_seq>>
world == <<known, disabled, changes, faults>>
vars  == <<peer, conn, world, net>>

Other(e) == CHOOSE f \in Edges : f # e

\* The peer pointer of a connection is "none", "live", or "stale" when the
\* peer_info it points to has been freed.
Free == [id |-> 0]
Conn(id, s, ours, ptr) == [id |-> id, state |-> s, ours |-> ours, ptr |-> ptr, sent |-> FALSE, rcvd |-> FALSE]

Msg(e, k, id) == [to |-> e, kind |-> k, id |-> id]

\* sendto may fail: what finds no room is lost.
Post(n, ms) == IF Cardinality(n \cup ms) <= Room THEN n \cup ms ELSE n

bypass_has_peers(e) == peer_count[e] > 0

Used(e) == {s \in Slots : conns[e][s] # Free}

\* bypass_find_conn_by_id: the first slot that has it.
Found(e, id) == {s \in Used(e) : conns[e][s].id = id}

\* bypass_alloc_conn
NewConn(e, c) == \E s \in Slots \ Used(e) : conns' = [conns EXCEPT ![e][s] = c]

AllFree == [s \in Slots |-> Free]

-----------------------------------------------------------------------------
(* Negotiation *)

Set(e, s) == state' = [state EXCEPT ![e] = s]

\* bypass_start_negotiation
Started(e) == known[e] /\ state[e] = "none"
bypass_start_negotiation(e) ==
    /\ ~disabled[e] /\ Started(e)
    /\ Set(e, "probing")
    /\ probe_sent' = [probe_sent EXCEPT ![e] = FALSE]
    /\ probe_retries' = [probe_retries EXCEPT ![e] = 0]
    /\ peer_count' = [peer_count EXCEPT ![e] = @ + 1]
    /\ UNCHANGED <<rule, conn, world, net>>

bypass_get_pending_probes(e) ==
    /\ bypass_has_peers(e) /\ ~disabled[e] /\ state[e] = "probing" /\ ~probe_sent[e]
    /\ probe_sent' = [probe_sent EXCEPT ![e] = TRUE]
    /\ net' = IF known[e] THEN Post(net, {Msg(Other(e), "probe", 0)}) ELSE net
    /\ UNCHANGED <<state, probe_retries, peer_count, rule, conn, world>>

\* bypass_handle_probe_frame: whatever the entry was, the peer is capable now.
HandleProbe(e) ==
    /\ Set(e, "capable")
    /\ peer_count' = [peer_count EXCEPT ![e] = IF state[e] = "none" THEN @ + 1 ELSE @]
    /\ IF state[e] = "none" THEN /\ probe_sent' = [probe_sent EXCEPT ![e] = FALSE]
                                 /\ probe_retries' = [probe_retries EXCEPT ![e] = 0]
       ELSE UNCHANGED <<probe_sent, probe_retries>>
    /\ UNCHANGED <<rule, conn>>

HandleProbeAck(e) ==
    IF state[e] = "probing"
    THEN /\ Set(e, "capable")
         /\ probe_sent' = [probe_sent EXCEPT ![e] = FALSE]
         /\ probe_retries' = [probe_retries EXCEPT ![e] = 0]
         /\ UNCHANGED <<peer_count, rule, conn>>
    ELSE UNCHANGED <<peer, conn>>

\* bypass_handle_recv
Activate(e) ==
    /\ Set(e, "active")
    /\ rule' = [rule EXCEPT ![e] = TRUE]
    /\ UNCHANGED <<probe_sent, probe_retries, peer_count, conn>>

HandleTest(e) ==
    IF state[e] \in {"capable", "testing", "probing"} THEN Activate(e) ELSE UNCHANGED <<peer, conn>>

HandleTestAck(e) ==
    IF state[e] = "testing" THEN Activate(e) ELSE UNCHANGED <<peer, conn>>

Fault == faults < Faults /\ faults' = faults + 1

\* A timeout comes, as a rule, when the answer had time to come.
Waited(kinds) ==
    IF \E m \in net : m.kind \in kinds THEN Fault ELSE UNCHANGED faults

\* bypass_tick, the peers.  A probe has been sent by then, if there is to be one.
ProbeTimeout(e) ==
    /\ bypass_has_peers(e) /\ state[e] = "probing" /\ (probe_sent[e] \/ disabled[e])
    /\ Waited({"probe", "probe_ack"})
    /\ probe_sent' = [probe_sent EXCEPT ![e] = FALSE]
    /\ IF probe_retries[e] < Retries
       THEN probe_retries' = [probe_retries EXCEPT ![e] = @ + 1] /\ UNCHANGED state
       ELSE probe_retries' = [probe_retries EXCEPT ![e] = 0] /\ Set(e, "unavailable")
    /\ UNCHANGED <<peer_count, rule, conn, known, disabled, changes, net>>

RetryLater(e) ==
    /\ bypass_has_peers(e) /\ state[e] = "unavailable"
    /\ Set(e, "none")
    /\ peer_count' = [peer_count EXCEPT ![e] = @ - 1]
    /\ UNCHANGED <<probe_sent, probe_retries, rule, conn, world, net>>

SendTest(e) ==
    /\ bypass_has_peers(e) /\ state[e] = "capable"
    /\ Set(e, "testing")
    /\ net' = Post(net, {Msg(Other(e), "test", 0)})
    /\ UNCHANGED <<probe_sent, probe_retries, peer_count, rule, conn, world>>

\* Mutant: a test that is not answered never times out.
TestForEver(e) == FALSE /\ UNCHANGED vars

TestTimeout(e) ==
    /\ bypass_has_peers(e) /\ state[e] = "testing"
    /\ Waited({"test", "test_ack"})
    /\ Set(e, "capable")
    /\ UNCHANGED <<probe_sent, probe_retries, peer_count, rule, conn, known, disabled, changes, net>>

-----------------------------------------------------------------------------
(* Connections *)

\* bypass_accept_proxy: a local program connects to the other edge, and the
\* rule brings it here.
bypass_accept_proxy(e) ==
    /\ e \in Openers /\ rule[e] /\ bypass_has_peers(e) /\ conn_id_seq[e] < Conns
    /\ state[e] = "active" /\ known[e]
    /\ NewConn(e, Conn(conn_id_seq[e] + 1, "connecting", TRUE, "live"))
    /\ conn_id_seq' = [conn_id_seq EXCEPT ![e] = @ + 1]
    /\ net' = Post(net, {Msg(Other(e), "syn", conn_id_seq[e] + 1)})
    /\ UNCHANGED <<peer, world>>

\* SYN.  One for a connection that is there is taken for the answer; an answer
\* has no payload and opens nothing.
HandleSyn(e, m) ==
    \/ \E s \in Found(e, m.id) :
          conns' = [conns EXCEPT ![e][s] = IF @.state = "connecting" THEN [@ EXCEPT !.state = "established"] ELSE @]
    \/ /\ Found(e, m.id) = {}
       /\ IF m.kind = "syn" THEN \/ NewConn(e, Conn(m.id, "established", FALSE, IF known[e] THEN "live" ELSE "none"))
                                 \/ UNCHANGED conns
          ELSE UNCHANGED conns

HandleFin(e, m) ==
    IF Found(e, m.id) = {} THEN UNCHANGED conns
    ELSE \E s \in Found(e, m.id) :
        conns' = [conns EXCEPT ![e][s] = IF @.sent THEN Free ELSE [@ EXCEPT !.rcvd = TRUE]]

\* bypass_handle_local_read: the end of the data, or an error.
LocalRead(e, s) ==
    /\ bypass_has_peers(e) /\ s \in Used(e) /\ ~conns[e][s].sent
    /\ \/ /\ net' = Post(net, {Msg(Other(e), "fin", conns[e][s].id)})
          /\ conns' = [conns EXCEPT ![e][s] = IF @.rcvd THEN Free ELSE [@ EXCEPT !.sent = TRUE]]
       \/ /\ conns' = [conns EXCEPT ![e][s] = Free]
          /\ UNCHANGED net
    /\ UNCHANGED <<conn_id_seq, peer, world>>

\* bypass_tick, the connections: 120 seconds without a sign of the other end.
ConnTimeout(e, s) ==
    /\ bypass_has_peers(e) /\ s \in Used(e)
    /\ net' = Post(net, {Msg(Other(e), "fin", conns[e][s].id)})
    /\ conns' = [conns EXCEPT ![e][s] = Free]
    /\ UNCHANGED <<conn_id_seq, peer, world>>

-----------------------------------------------------------------------------
(* Receiving *)

Answer(e, m) ==
    CASE m.kind = "probe" -> {Msg(Other(e), "probe_ack", 0)}
      [] m.kind = "test" /\ bypass_has_peers(e) -> {Msg(Other(e), "test_ack", 0)}
      [] m.kind = "syn" /\ conns'[e] # conns[e] /\ Found(e, m.id) = {} -> {Msg(Other(e), "syn_ack", m.id)}
      [] OTHER -> {}

\* Probes come in frames of the tunnel, the rest only when there is a peer.
Handle(m) ==
    LET e == m.to IN
    \/ m.kind = "probe" /\ HandleProbe(e)
    \/ m.kind = "probe_ack" /\ HandleProbeAck(e)
    \/ m.kind \notin {"probe", "probe_ack"} /\ ~bypass_has_peers(e) /\ UNCHANGED <<peer, conn>>
    \/ /\ bypass_has_peers(e)
       /\ \/ m.kind = "test" /\ HandleTest(e)
          \/ m.kind = "test_ack" /\ HandleTestAck(e)
          \/ m.kind \in {"syn", "syn_ack"} /\ HandleSyn(e, m) /\ UNCHANGED <<peer, conn_id_seq>>
          \/ m.kind = "fin" /\ HandleFin(e, m) /\ UNCHANGED <<peer, conn_id_seq>>

\* again: another copy of it is still on its way.
Arrive(m, again) ==
    /\ m \in net /\ Handle(m)
    /\ net' = Post(IF again THEN net ELSE net \ {m}, Answer(m.to, m))
    /\ IF again THEN Fault ELSE UNCHANGED faults
    /\ UNCHANGED <<known, disabled, changes>>

Lose(m) == Fault /\ m \in net /\ net' = net \ {m} /\ UNCHANGED <<peer, conn, known, disabled, changes>>

-----------------------------------------------------------------------------
(* What happens around it *)

Changed == changes < Changes /\ changes' = changes + 1 /\ UNCHANGED faults

Stale(c) == IF c # Free /\ c.ptr = "live" THEN [c EXCEPT !.ptr = "stale"] ELSE c

\* Mutant: the connections of a peer that is gone are kept.
ConnsKept(e) ==
    /\ rule' = [rule EXCEPT ![e] = @ /\ state[e] # "active"]
    /\ conns' = [conns EXCEPT ![e] = [s \in Slots |-> Stale(@[s])]]
    /\ Set(e, "none")
    /\ probe_sent' = [probe_sent EXCEPT ![e] = FALSE]
    /\ probe_retries' = [probe_retries EXCEPT ![e] = 0]
    /\ peer_count' = [peer_count EXCEPT ![e] = @ - 1]

\* bypass_peer_gone, when there is an entry: its rule and its connections go.
PeerGone(e) ==
    /\ rule' = [rule EXCEPT ![e] = @ /\ state[e] # "active"]
    /\ conns' = [conns EXCEPT ![e] = AllFree]
    /\ Set(e, "none")
    /\ probe_sent' = [probe_sent EXCEPT ![e] = FALSE]
    /\ probe_retries' = [probe_retries EXCEPT ![e] = 0]
    /\ peer_count' = [peer_count EXCEPT ![e] = @ - 1]

\* The other edge expires or deregisters, and its peer_info is freed.
Forget(e) ==
    /\ Changed /\ known[e]
    /\ known' = [known EXCEPT ![e] = FALSE]
    /\ IF state[e] # "none" THEN PeerGone(e)
       ELSE /\ conns' = [conns EXCEPT ![e] = [s \in Slots |-> Stale(@[s])]]
            /\ UNCHANGED peer
    /\ UNCHANGED <<conn_id_seq, disabled, net>>

Learn(e) ==
    /\ ~known[e]
    /\ known' = [known EXCEPT ![e] = TRUE]
    /\ UNCHANGED <<peer, conn, disabled, changes, faults, net>>

\* Mutant: a toggle leaves the entries as they are.
TurnOffKeepsPeers(e) ==
    /\ Changed /\ ~disabled[e]
    /\ disabled' = [disabled EXCEPT ![e] = TRUE]
    /\ rule' = [rule EXCEPT ![e] = FALSE]
    /\ conns' = [conns EXCEPT ![e] = AllFree]
    /\ UNCHANGED <<state, probe_sent, probe_retries, peer_count, conn_id_seq, known, net>>

\* bypass_mgmt_toggle, off and on.  The count of the peers is left as it was.
TurnOff(e) ==
    /\ Changed /\ ~disabled[e]
    /\ disabled' = [disabled EXCEPT ![e] = TRUE]
    /\ rule' = [rule EXCEPT ![e] = FALSE]
    /\ conns' = [conns EXCEPT ![e] = AllFree]
    /\ Set(e, "none")
    /\ UNCHANGED <<probe_sent, probe_retries, peer_count, conn_id_seq, known, net>>

TurnOn(e) ==
    /\ disabled[e]
    /\ disabled' = [disabled EXCEPT ![e] = FALSE]
    /\ IF Started(e)
       THEN /\ Set(e, "probing")
            /\ probe_sent' = [probe_sent EXCEPT ![e] = FALSE]
            /\ probe_retries' = [probe_retries EXCEPT ![e] = 0]
            /\ peer_count' = [peer_count EXCEPT ![e] = @ + 1]
       ELSE UNCHANGED <<state, probe_sent, probe_retries, peer_count>>
    /\ UNCHANGED <<rule, conn, known, changes, faults, net>>

\* The edge crashes and starts again; bypass_init removes what rules it left.
Restart(e) ==
    /\ Changed
    /\ known' = [known EXCEPT ![e] = FALSE]
    /\ Set(e, "none")
    /\ probe_sent' = [probe_sent EXCEPT ![e] = FALSE]
    /\ probe_retries' = [probe_retries EXCEPT ![e] = 0]
    /\ peer_count' = [peer_count EXCEPT ![e] = 0]
    /\ rule' = [rule EXCEPT ![e] = FALSE]
    /\ conns' = [conns EXCEPT ![e] = AllFree]
    /\ conn_id_seq' = [conn_id_seq EXCEPT ![e] = 0]
    /\ UNCHANGED <<disabled, net>>

Init ==
    /\ known = [e \in Edges |-> FALSE] /\ disabled = [e \in Edges |-> FALSE]
    /\ state = [e \in Edges |-> "none"]
    /\ probe_sent = [e \in Edges |-> FALSE] /\ probe_retries = [e \in Edges |-> 0]
    /\ peer_count = [e \in Edges |-> 0] /\ rule = [e \in Edges |-> FALSE]
    /\ conns = [e \in Edges |-> AllFree] /\ conn_id_seq = [e \in Edges |-> 0]
    /\ net = {} /\ changes = 0 /\ faults = 0

\* The calls that the main loop makes.
Loop(e) ==
    \/ bypass_start_negotiation(e) \/ bypass_get_pending_probes(e)
    \/ ProbeTimeout(e) \/ RetryLater(e) \/ SendTest(e) \/ TestTimeout(e)

Messages == [to : Edges, kind : {"probe", "probe_ack", "test", "test_ack"}, id : {0}] \cup
            [to : Edges, kind : {"syn", "syn_ack", "fin"}, id : 1 .. Conns]

Next ==
    \/ \E e \in Edges :
          \/ Loop(e) \/ bypass_accept_proxy(e)
          \/ Forget(e) \/ Learn(e) \/ TurnOff(e) \/ TurnOn(e) \/ Restart(e)
          \/ \E s \in Slots : LocalRead(e, s) \/ ConnTimeout(e, s)
    \/ \E m \in net : Lose(m) \/ \E again \in BOOLEAN : Arrive(m, again)

\* The main loop comes round, the clock runs, and a probe or a test that is
\* sent again and again arrives.
Spec ==
    /\ Init /\ [][Next]_vars
    /\ \A e \in Edges : WF_vars(Loop(e)) /\ \A s \in Slots : WF_vars(ConnTimeout(e, s))
    /\ \A m \in Messages : WF_vars(Arrive(m, FALSE))

-----------------------------------------------------------------------------
(* Properties *)

\* The retries of a probe and the count of the peers stay within their bounds.
TypeOK ==
    /\ state \in [Edges -> {"none", "probing", "capable", "testing", "active", "unavailable"}]
    /\ probe_retries \in [Edges -> 0 .. Retries] /\ probe_sent \in [Edges -> BOOLEAN]
    /\ peer_count \in [Edges -> 0 .. Changes + 1] /\ rule \in [Edges -> BOOLEAN]
    /\ net \subseteq Messages /\ Cardinality(net) <= Room

\* A peer that counts as active has its rule, on whichever side and along
\* whichever path (TEST, TEST_ACK, a toggle in between) it became active.
ActiveHasRule == \A e \in Edges : state[e] = "active" => rule[e]

\* While there is an entry, peer_count is not zero: the loop calls bypass_tick
\* and hands over datagrams only then, so the entry would be stuck.
CountCovers == \A e \in Edges : state[e] # "none" => bypass_has_peers(e)

\* All three: what the state of an entry stands for is there.
EntriesSound == TypeOK /\ ActiveHasRule /\ CountCovers

\* A connection that was opened here outlives neither the entry of its peer nor
\* the peer_info it points to, through peers that go, toggles and late answers.
OursAreSafe == \A e \in Edges : \A s \in Used(e) : conns[e][s].ours => state[e] # "none" /\ conns[e][s].ptr = "live"

\* Two edges that stay willing and know each other agree, again and again, on
\* the tunnel: no lost probe, test or answer leaves one of them behind.
Agreed == <>[](\A e \in Edges : known[e] /\ ~disabled[e]) => []<>(\A e \in Edges : state[e] = "active")
=============================================================================
