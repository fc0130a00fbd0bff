----------------------------- MODULE LinkProofs -----------------------------
(***************************************************************************)
(* Proofs about what an edge does for one link, in two parts that share no *)
(* state.  Bypass: for any number of retries, connections and slots, and   *)
(* for any sequence of losses, repetitions, restarts and toggles, what the *)
(* state of an entry stands for is there, and no connection that was       *)
(* opened here outlives the entry or the peer_info it points to.  MCLink:  *)
(* for any options, sizes, buffers, timeouts and gateways, the mapped      *)
(* port, the frames between two TAP devices and the WebSocket stream keep  *)
(* what Upnp, Frames and WsStream promise.                                 *)
(***************************************************************************)
EXTENDS Bypass, MCLink, FiniteSetTheorems, SequenceTheorems, TLAPS

-----------------------------------------------------------------------------
(* The entries: the state of the peer, its rule and the count of the peers *)

EntryTypes ==
    /\ known \in [Edges -> BOOLEAN] /\ disabled \in [Edges -> BOOLEAN]
    /\ state \in [Edges -> {"none", "probing", "capable", "testing", "active", "unavailable"}]
    /\ probe_retries \in [Edges -> 0 .. Retries] /\ probe_sent \in [Edges -> BOOLEAN]
    /\ peer_count \in [Edges -> Nat] /\ rule \in [Edges -> BOOLEAN]
    /\ changes \in 0 .. Changes

\* An entry counts once; a toggle leaves the count of the entry it clears.
CountBounded == \A e \in Edges : peer_count[e] <= changes + (IF state[e] = "none" THEN 0 ELSE 1)

EntryInv == EntryTypes /\ CountBounded /\ CountCovers /\ ActiveHasRule

\* Without entries, every entry is as it should be.
LEMMA EntryInit == Init => EntryInv
BY BypassAssumption
DEF Init, EntryInv, EntryTypes, CountBounded, CountCovers, ActiveHasRule, bypass_has_peers

\* A step that changes one entry, to values that fit each other, keeps the invariant.
LEMMA EntryStep ==
    ASSUME EntryInv, EntryTypes', changes <= changes', NEW e \in Edges,
           \A f \in Edges \ {e} : /\ state'[f] = state[f] /\ rule'[f] = rule[f]
                                  /\ peer_count'[f] = peer_count[f],
           peer_count'[e] <= changes' + (IF state'[e] = "none" THEN 0 ELSE 1),
           state'[e] # "none" => peer_count'[e] > 0,
           state'[e] = "active" => rule'[e]
    PROVE  EntryInv'
<1>1. CountBounded'
  <2> SUFFICES ASSUME NEW f \in Edges
               PROVE  peer_count'[f] <= changes' + (IF state'[f] = "none" THEN 0 ELSE 1)
    BY DEF CountBounded
  <2>1. CASE f # e
    <3>1. peer_count[f] <= changes + (IF state[f] = "none" THEN 0 ELSE 1)
      BY DEF EntryInv, CountBounded
    <3>2. changes \in Nat /\ changes' \in Nat /\ peer_count[f] \in Nat
      BY BypassAssumption DEF EntryInv, EntryTypes
    <3> QED
      BY <2>1, <3>1, <3>2
  <2> QED
    BY <2>1
<1>2. CountCovers'
  BY DEF EntryInv, CountCovers, bypass_has_peers
<1>3. ActiveHasRule'
  BY DEF EntryInv, ActiveHasRule
<1> QED
  BY <1>1, <1>2, <1>3 DEF EntryInv

\* What the handlers of the tunnel do to an entry keeps its invariant, if the
\* rest of the entry's world stays as it is.
LEMMA HandleKeepsEntry ==
    ASSUME EntryInv, NEW m \in net, m.to \in Edges, Handle(m), UNCHANGED <<known, disabled, changes>>
    PROVE  EntryInv'
<1> DEFINE e == m.to
<1> USE DEF EntryInv, EntryTypes, CountBounded, CountCovers, ActiveHasRule, bypass_has_peers
<1>0. e \in Edges
  OBVIOUS
<1> HIDE DEF e
<1>1. CASE HandleProbe(e)
  <2>1. CASE state[e] = "none"
    <3>1. /\ state' = [state EXCEPT ![e] = "capable"]
          /\ probe_sent' = [probe_sent EXCEPT ![e] = FALSE]
          /\ probe_retries' = [probe_retries EXCEPT ![e] = 0]
          /\ peer_count' = [peer_count EXCEPT ![e] = peer_count[e] + 1]
          /\ UNCHANGED rule
      BY <1>0, <1>1, <2>1 DEF HandleProbe, Set
    <3>2. changes \in Nat /\ peer_count[e] \in Nat /\ peer_count[e] <= changes
      BY <1>0, <2>1, BypassAssumption
    <3>3. EntryTypes'
      BY <1>0, <3>1, <3>2, BypassAssumption
    <3>4. /\ state'[e] = "capable" /\ peer_count'[e] = peer_count[e] + 1
          /\ \A f \in Edges \ {e} : state'[f] = state[f] /\ peer_count'[f] = peer_count[f]
      BY <1>0, <3>1
    <3> HIDE DEF EntryInv, EntryTypes
    <3> QED
      BY <1>0, <3>1, <3>2, <3>3, <3>4, EntryStep
  <2>2. CASE state[e] # "none"
    BY <1>0, <1>1, <2>2, BypassAssumption DEF HandleProbe, Set
  <2> QED
    BY <2>1, <2>2
<1>2. CASE HandleProbeAck(e)
  <2>1. CASE state[e] = "probing"
    <3>1. /\ state' = [state EXCEPT ![e] = "capable"]
          /\ probe_sent' = [probe_sent EXCEPT ![e] = FALSE]
          /\ probe_retries' = [probe_retries EXCEPT ![e] = 0]
          /\ UNCHANGED <<peer_count, rule>>
      BY <1>2, <2>1 DEF HandleProbeAck, Set
    <3>2. EntryTypes'
      BY <1>0, <3>1, BypassAssumption
    <3>3. /\ state'[e] = "capable" /\ peer_count'[e] = peer_count[e]
          /\ peer_count[e] > 0 /\ peer_count[e] <= changes + 1
          /\ \A f \in Edges \ {e} : state'[f] = state[f]
      BY <1>0, <2>1, <3>1
    <3>4. changes \in Nat
      BY BypassAssumption
    <3> HIDE DEF EntryInv, EntryTypes
    <3> QED
      BY <1>0, <3>1, <3>2, <3>3, <3>4, EntryStep
  <2>2. CASE state[e] # "probing"
    BY <1>2, <2>2 DEF HandleProbeAck, peer
  <2> QED
    BY <2>1, <2>2
<1>3. CASE UNCHANGED peer
  BY <1>3 DEF peer
<1>4. CASE HandleTest(e)
  BY <1>0, <1>4 DEF HandleTest, Activate, Set, peer
<1>5. CASE HandleTestAck(e)
  BY <1>0, <1>5 DEF HandleTestAck, Activate, Set, peer
<1> HIDE DEF EntryInv
<1> QED
  BY <1>1, <1>2, <1>3, <1>4, <1>5, Zenon DEF Handle, e

\* Every step keeps the entries' invariant, as long as what is under way are messages.
LEMMA EntryNext == EntryInv /\ net \subseteq Messages /\ [Next]_vars => EntryInv'
<1> SUFFICES ASSUME EntryInv, net \subseteq Messages, [Next]_vars PROVE EntryInv'
  OBVIOUS
<1> USE DEF EntryInv, EntryTypes, CountBounded, CountCovers, ActiveHasRule, bypass_has_peers
<1>1. ASSUME NEW e \in Edges, bypass_start_negotiation(e) PROVE EntryInv'
  BY <1>1, BypassAssumption DEF bypass_start_negotiation, Started, Set, world
<1>2. ASSUME NEW e \in Edges, bypass_get_pending_probes(e) PROVE EntryInv'
  BY <1>2, BypassAssumption DEF bypass_get_pending_probes, world
<1>3. ASSUME NEW e \in Edges, ProbeTimeout(e) PROVE EntryInv'
  BY <1>3, BypassAssumption DEF ProbeTimeout, Set
<1>4. ASSUME NEW e \in Edges, RetryLater(e) PROVE EntryInv'
  BY <1>4, BypassAssumption DEF RetryLater, Set, world
<1>5. ASSUME NEW e \in Edges, SendTest(e) PROVE EntryInv'
  BY <1>5, BypassAssumption DEF SendTest, Set, world
<1>6. ASSUME NEW e \in Edges, TestTimeout(e) PROVE EntryInv'
  BY <1>6, BypassAssumption DEF TestTimeout, Set
<1>7. ASSUME NEW e \in Edges, bypass_accept_proxy(e) PROVE EntryInv'
  BY <1>7 DEF bypass_accept_proxy, peer, world
<1>8. ASSUME NEW e \in Edges, Forget(e) PROVE EntryInv'
  <2>1. CASE state[e] # "none"
    <3>1. /\ state' = [state EXCEPT ![e] = "none"]
          /\ probe_sent' = [probe_sent EXCEPT ![e] = FALSE]
          /\ probe_retries' = [probe_retries EXCEPT ![e] = 0]
          /\ peer_count' = [peer_count EXCEPT ![e] = @ - 1]
          /\ known' = [known EXCEPT ![e] = FALSE] /\ UNCHANGED disabled
          /\ changes' = changes + 1 /\ changes < Changes
      BY <1>8, <2>1 DEF Forget, Changed, PeerGone, Set
    <3>2. rule' = [rule EXCEPT ![e] = rule[e] /\ state[e] # "active"]
      BY <1>8, <2>1 DEF Forget, PeerGone
    <3>3. peer_count[e] \in Nat \ {0} /\ peer_count[e] <= changes + 1 /\ changes \in Nat
      BY <2>1, BypassAssumption
    <3>4. rule' \in [Edges -> BOOLEAN] /\ \A f \in Edges \ {e} : rule'[f] = rule[f]
      BY <3>2
    <3>5. EntryTypes'
      <4>1. peer_count' \in [Edges -> Nat]
        BY <3>1, <3>3
      <4>2. changes' \in 0 .. Changes
        BY <3>1, BypassAssumption
      <4>3. state' \in [Edges -> {"none", "probing", "capable", "testing", "active", "unavailable"}]
        BY <3>1
      <4>4. probe_retries' \in [Edges -> 0 .. Retries] /\ probe_sent' \in [Edges -> BOOLEAN]
        BY <3>1, BypassAssumption
      <4>5. known' \in [Edges -> BOOLEAN] /\ disabled' \in [Edges -> BOOLEAN]
        BY <3>1
      <4> QED
        BY <3>4, <4>1, <4>2, <4>3, <4>4, <4>5
    <3>6. /\ state'[e] = "none" /\ peer_count'[e] = peer_count[e] - 1
          /\ \A f \in Edges \ {e} : state'[f] = state[f] /\ peer_count'[f] = peer_count[f]
      BY <3>1
    <3> HIDE DEF EntryInv, EntryTypes
    <3> QED
      BY <3>1, <3>3, <3>4, <3>5, <3>6, EntryStep
  <2>2. CASE state[e] = "none"
    BY <1>8, <2>2, BypassAssumption DEF Forget, Changed, peer
  <2> QED
    BY <2>1, <2>2
<1>9. ASSUME NEW e \in Edges, Learn(e) PROVE EntryInv'
  BY <1>9 DEF Learn, peer
<1>10. ASSUME NEW e \in Edges, TurnOff(e) PROVE EntryInv'
  BY <1>10, BypassAssumption DEF TurnOff, Changed, Set
<1>11. ASSUME NEW e \in Edges, TurnOn(e) PROVE EntryInv'
  <2>1. CASE Started(e)
    <3>1. /\ state' = [state EXCEPT ![e] = "probing"]
          /\ probe_sent' = [probe_sent EXCEPT ![e] = FALSE]
          /\ probe_retries' = [probe_retries EXCEPT ![e] = 0]
          /\ peer_count' = [peer_count EXCEPT ![e] = peer_count[e] + 1]
          /\ disabled' = [disabled EXCEPT ![e] = FALSE]
          /\ UNCHANGED <<rule, known, changes>>
      BY <1>11, <2>1 DEF TurnOn, Set
    <3>2. changes \in Nat /\ peer_count[e] \in Nat /\ peer_count[e] <= changes
      BY <2>1, BypassAssumption DEF Started
    <3>3. EntryTypes'
      BY <3>1, <3>2, BypassAssumption
    <3>4. /\ state'[e] = "probing" /\ peer_count'[e] = peer_count[e] + 1
          /\ \A f \in Edges \ {e} : state'[f] = state[f] /\ peer_count'[f] = peer_count[f]
      BY <3>1
    <3> HIDE DEF EntryInv, EntryTypes
    <3> QED
      BY <3>1, <3>2, <3>3, <3>4, EntryStep
  <2>2. CASE ~Started(e)
    BY <1>11, <2>2 DEF TurnOn
  <2> QED
    BY <2>1, <2>2
<1>12. ASSUME NEW e \in Edges, Restart(e) PROVE EntryInv'
  BY <1>12, BypassAssumption DEF Restart, Changed, Set
<1>13. ASSUME NEW e \in Edges, NEW s \in Slots, LocalRead(e, s) \/ ConnTimeout(e, s) PROVE EntryInv'
  BY <1>13 DEF LocalRead, ConnTimeout, peer, world
<1>14. ASSUME NEW m \in net, Lose(m) PROVE EntryInv'
  BY <1>14 DEF Lose, peer
<1>15. ASSUME NEW m \in net, NEW again \in BOOLEAN, Arrive(m, again) PROVE EntryInv'
  <2>1. m.to \in Edges
    BY DEF Messages
  <2>2. Handle(m) /\ UNCHANGED <<known, disabled, changes>>
    BY <1>15 DEF Arrive
  <2> HIDE DEF EntryInv
  <2> QED
    BY <2>1, <2>2, HandleKeepsEntry
<1>16. CASE UNCHANGED vars
  BY <1>16 DEF vars, peer, world
<1> HIDE DEF EntryInv
<1> QED
  BY <1>1, <1>2, <1>3, <1>4, <1>5, <1>6, <1>7, <1>8, <1>9, <1>10, <1>11, <1>12, <1>13, <1>14,
     <1>15, <1>16 DEF Next, Loop
-----------------------------------------------------------------------------
(* The datagrams and the connections *)

ConnRec == [id : 1 .. Conns, state : {"connecting", "established"}, ours : BOOLEAN,
            ptr : {"none", "live", "stale"}, sent : BOOLEAN, rcvd : BOOLEAN]

NetInv  == net \subseteq Messages /\ IsFiniteSet(net) /\ Cardinality(net) <= Room

ConnTypes ==
    /\ conns \in [Edges -> [Slots -> ConnRec \cup {Free}]]
    /\ conn_id_seq \in [Edges -> 0 .. Conns]

\* The other edge is an edge.
LEMMA OtherEdge == \A e \in Edges : Other(e) \in Edges
<1> SUFFICES ASSUME NEW e \in Edges PROVE \E f \in Edges : f # e
  BY DEF Other
<1> SUFFICES ASSUME Edges = {e} PROVE FALSE
  OBVIOUS
<1>1. Cardinality({e}) = 1
  BY FS_Singleton
<1> QED
  BY <1>1, BypassAssumption

\* Post adds datagrams while there is room for them.
LEMMA PostSound ==
    ASSUME NEW n \in SUBSET Messages, IsFiniteSet(n), Cardinality(n) <= Room,
           NEW ms \in SUBSET Messages, IsFiniteSet(ms)
    PROVE  /\ Post(n, ms) \subseteq Messages /\ IsFiniteSet(Post(n, ms))
           /\ Cardinality(Post(n, ms)) <= Room
BY FS_Union DEF Post

\* One more message on its way: there is room for it, or another is lost.
LEMMA PostOne ==
    ASSUME NetInv, NEW x \in Messages
    PROVE  Post(net, {x}) \subseteq Messages /\ IsFiniteSet(Post(net, {x})) /\ Cardinality(Post(net, {x})) <= Room
<1>1. IsFiniteSet({x})
  BY FS_Singleton
<1> QED
  BY <1>1, PostSound DEF NetInv

\* What is taken from the net leaves it within its bound.
LEMMA LessNet ==
    ASSUME NetInv, NEW m
    PROVE  net \ {m} \subseteq Messages /\ IsFiniteSet(net \ {m}) /\ Cardinality(net \ {m}) <= Room
<1>1. /\ IsFiniteSet(net \ {m})
      /\ Cardinality(net \ {m}) = IF m \in net THEN Cardinality(net) - 1 ELSE Cardinality(net)
  BY FS_RemoveElement DEF NetInv
<1>2. Cardinality(net) \in Nat
  BY FS_CardinalityType DEF NetInv
<1> QED
  BY <1>1, <1>2, BypassAssumption DEF NetInv

\* What a handler answers is at most one datagram.
LEMMA AnswerSound ==
    ASSUME NEW m \in Messages
    PROVE  Answer(m.to, m) \subseteq Messages /\ IsFiniteSet(Answer(m.to, m))
<1>1. m.to \in Edges /\ Other(m.to) \in Edges
  BY OtherEdge DEF Messages
<1>2. m.kind = "syn" => m.id \in 1 .. Conns
  BY DEF Messages
<1>3. \A x : x \in Messages => {x} \subseteq Messages /\ IsFiniteSet({x})
  BY FS_Singleton
<1>4. /\ Msg(Other(m.to), "probe_ack", 0) \in Messages
      /\ Msg(Other(m.to), "test_ack", 0) \in Messages
      /\ m.kind = "syn" => Msg(Other(m.to), "syn_ack", m.id) \in Messages
  BY <1>1, <1>2 DEF Msg, Messages
<1>5. IsFiniteSet({}) /\ {} \subseteq Messages
  BY FS_EmptySet
<1>6. \/ Answer(m.to, m) = {Msg(Other(m.to), "probe_ack", 0)}
      \/ Answer(m.to, m) = {Msg(Other(m.to), "test_ack", 0)}
      \/ m.kind = "syn" /\ Answer(m.to, m) = {Msg(Other(m.to), "syn_ack", m.id)}
      \/ Answer(m.to, m) = {}
  BY Zenon DEF Answer
<1> QED
  BY <1>3, <1>4, <1>5, <1>6

\* At first nothing is under way, and nothing is open.
LEMMA NetInit == Init => NetInv /\ ConnTypes
<1> SUFFICES ASSUME Init PROVE NetInv /\ ConnTypes
  OBVIOUS
<1>1. NetInv
  BY FS_EmptySet, BypassAssumption DEF Init, NetInv
<1>2. ConnTypes
  BY BypassAssumption DEF Init, ConnTypes, AllFree
<1> QED
  BY <1>1, <1>2

\* The datagrams under way stay datagrams of the protocol, and no more than Room.
LEMMA NetNext == NetInv /\ ConnTypes /\ [Next]_vars => NetInv'
<1> SUFFICES ASSUME NetInv, ConnTypes, [Next]_vars PROVE NetInv'
  OBVIOUS
<1>1. ASSUME NEW e \in Edges, Loop(e) PROVE NetInv'
  <2>1. net' = net \/ \E k \in {"probe", "test"} : net' = Post(net, {Msg(Other(e), k, 0)})
    BY <1>1 DEF Loop, bypass_start_negotiation, bypass_get_pending_probes, ProbeTimeout,
                RetryLater, SendTest, TestTimeout
  <2>2. \A k \in {"probe", "test"} : Msg(Other(e), k, 0) \in Messages
    BY OtherEdge DEF Msg, Messages
  <2> QED
    BY <2>1, <2>2, PostOne DEF NetInv
<1>2. ASSUME NEW e \in Edges, bypass_accept_proxy(e) PROVE NetInv'
  <2>1. net' = Post(net, {Msg(Other(e), "syn", conn_id_seq[e] + 1)}) /\ conn_id_seq[e] < Conns
    BY <1>2 DEF bypass_accept_proxy
  <2>2. conn_id_seq[e] + 1 \in 1 .. Conns
    BY <2>1, BypassAssumption DEF ConnTypes
  <2>3. Msg(Other(e), "syn", conn_id_seq[e] + 1) \in Messages
    BY <2>2, OtherEdge DEF Msg, Messages
  <2> QED
    BY <2>1, <2>3, PostOne DEF NetInv
<1>3. ASSUME NEW e \in Edges, NEW s \in Slots, LocalRead(e, s) \/ ConnTimeout(e, s) PROVE NetInv'
  <2>1. s \in Used(e) /\ (net' = net \/ net' = Post(net, {Msg(Other(e), "fin", conns[e][s].id)}))
    BY <1>3 DEF LocalRead, ConnTimeout
  <2>2. conns[e][s] \in ConnRec
    BY <2>1 DEF Used, ConnTypes
  <2>3. Msg(Other(e), "fin", conns[e][s].id) \in Messages
    BY <2>2, OtherEdge DEF Msg, Messages, ConnRec
  <2> QED
    BY <2>1, <2>3, PostOne DEF NetInv
<1>4. ASSUME NEW m \in net, Lose(m) PROVE NetInv'
  BY <1>4, LessNet DEF Lose, NetInv
<1>5. ASSUME NEW m \in net, NEW again \in BOOLEAN, Arrive(m, again) PROVE NetInv'
  <2>1. net' = Post(IF again THEN net ELSE net \ {m}, Answer(m.to, m))
    BY <1>5 DEF Arrive
  <2>2. Answer(m.to, m) \subseteq Messages /\ IsFiniteSet(Answer(m.to, m))
    BY AnswerSound DEF NetInv
  <2> DEFINE n == IF again THEN net ELSE net \ {m}
  <2>3. n \subseteq Messages /\ IsFiniteSet(n) /\ Cardinality(n) <= Room
    BY LessNet DEF NetInv
  <2> HIDE DEF n
  <2>4. net' = Post(n, Answer(m.to, m))
    BY <2>1 DEF n
  <2> QED
    BY <2>2, <2>3, <2>4, PostSound DEF NetInv
<1>6. ASSUME NEW e \in Edges, Forget(e) \/ Learn(e) \/ TurnOff(e) \/ TurnOn(e) \/ Restart(e)
      PROVE  NetInv'
  BY <1>6 DEF Forget, Learn, TurnOff, TurnOn, Restart, NetInv
<1>7. CASE UNCHANGED vars
  BY <1>7 DEF vars, NetInv
<1> QED
  BY <1>1, <1>2, <1>3, <1>4, <1>5, <1>6, <1>7 DEF Next
-----------------------------------------------------------------------------
(* The connections that were opened here *)

\* OursAreSafe is not inductive: an entry that is being probed, or that is given
\* up, may go without its connections.  None of ours is there by then: an entry
\* that was once active leaves these three states only by PeerGone, a toggle or
\* a restart.
Tunnelled == {"capable", "testing", "active"}

OursOf(e) == \A s \in Slots : conns[e][s] # Free /\ conns[e][s].ours =>
                                 state[e] \in Tunnelled /\ conns[e][s].ptr = "live"
OursInv == \A e \in Edges : OursOf(e)

\* A step changes the connections and the entry of one edge.
LEMMA OneEdge ==
    ASSUME ConnTypes, OursInv, NEW e \in Edges,
           NEW new \in [Slots -> ConnRec \cup {Free}], conns' = [conns EXCEPT ![e] = new],
           \A f \in Edges \ {e} : state'[f] = state[f],
           \A s \in Slots : new[s] # Free /\ new[s].ours => state'[e] \in Tunnelled /\ new[s].ptr = "live",
           conn_id_seq' \in [Edges -> 0 .. Conns]
    PROVE  ConnTypes' /\ OursInv'
<1>1. ConnTypes'
  BY DEF ConnTypes
<1>2. conns'[e] = new /\ \A f \in Edges \ {e} : conns'[f] = conns[f]
  BY DEF ConnTypes
<1>3. ASSUME NEW f \in Edges PROVE OursOf(f)'
  BY <1>2 DEF OursInv, OursOf
<1> QED
  BY <1>1, <1>3 DEF OursInv

\* A step that leaves the connections alone may move an entry among the states
\* in which it has connections of ours, or from one in which it has none.
LEMMA EntryOnly ==
    ASSUME ConnTypes, OursInv, UNCHANGED conn,
           \A f \in Edges : state[f] \in Tunnelled => state'[f] \in Tunnelled
    PROVE  ConnTypes' /\ OursInv'
<1>1. conns' = conns /\ conn_id_seq' = conn_id_seq
  BY DEF conn
<1> QED
  BY <1>1 DEF ConnTypes, OursInv, OursOf

\* One slot is set or freed: what is new in it is not ours, or is what was there.
LEMMA OneSlot ==
    ASSUME ConnTypes, OursInv, NEW e \in Edges, NEW s \in Slots, NEW c \in ConnRec \cup {Free},
           conns' = [conns EXCEPT ![e][s] = c], UNCHANGED state,
           c # Free /\ c.ours => state[e] \in Tunnelled /\ c.ptr = "live",
           conn_id_seq' \in [Edges -> 0 .. Conns]
    PROVE  ConnTypes' /\ OursInv'
<1> DEFINE new == [conns[e] EXCEPT ![s] = c]
<1>1. conns[e] \in [Slots -> ConnRec \cup {Free}]
  BY DEF ConnTypes
<1>2. new \in [Slots -> ConnRec \cup {Free}] /\ new[s] = c /\ \A t \in Slots \ {s} : new[t] = conns[e][t]
  BY <1>1
<1>3. conns' = [conns EXCEPT ![e] = new]
  OBVIOUS
<1>4. OursOf(e)
  BY DEF OursInv
<1> HIDE DEF new
<1>5. \A t \in Slots : new[t] # Free /\ new[t].ours => state'[e] \in Tunnelled /\ new[t].ptr = "live"
  BY <1>2, <1>4 DEF OursOf
<1> QED
  BY <1>2, <1>3, <1>5, OneEdge

\* A connection that goes on is ours, and points to its peer, if it did before.
LEMMA GoesOn ==
    ASSUME ConnTypes, OursInv, NEW e \in Edges, NEW s \in Used(e)
    PROVE  /\ conns[e][s] \in ConnRec
           /\ [conns[e][s] EXCEPT !.state = "established"] \in ConnRec
           /\ [conns[e][s] EXCEPT !.sent = TRUE] \in ConnRec
           /\ [conns[e][s] EXCEPT !.rcvd = TRUE] \in ConnRec
           /\ \A c \in {conns[e][s], [conns[e][s] EXCEPT !.state = "established"],
                        [conns[e][s] EXCEPT !.sent = TRUE], [conns[e][s] EXCEPT !.rcvd = TRUE]} :
                 c.ours => state[e] \in Tunnelled /\ c.ptr = "live"
<1>1. s \in Slots /\ conns[e][s] # Free /\ conns[e][s] \in ConnRec
  BY DEF Used, ConnTypes
<1>2. conns[e][s].ours => state[e] \in Tunnelled /\ conns[e][s].ptr = "live"
  BY <1>1 DEF OursInv, OursOf
<1>3. \A c \in {conns[e][s], [conns[e][s] EXCEPT !.state = "established"],
                [conns[e][s] EXCEPT !.sent = TRUE], [conns[e][s] EXCEPT !.rcvd = TRUE]} :
         c \in ConnRec /\ c.ours = conns[e][s].ours /\ c.ptr = conns[e][s].ptr
  BY <1>1 DEF ConnRec
<1> QED
  BY <1>2, <1>3

\* SYN: a connection that is there is established, or one that is not ours is made.
LEMMA SynKeepsOurs ==
    ASSUME EntryInv, NetInv, ConnTypes, OursInv, NEW m \in Messages, HandleSyn(m.to, m),
           UNCHANGED <<state, conn_id_seq>>
    PROVE  ConnTypes' /\ OursInv'
<1>0. m.to \in Edges
  BY DEF Messages
<1>1. ASSUME NEW s \in Found(m.to, m.id),
             conns' = [conns EXCEPT ![m.to][s] =
                         IF @.state = "connecting" THEN [@ EXCEPT !.state = "established"] ELSE @]
      PROVE  ConnTypes' /\ OursInv'
  <2> DEFINE c == IF conns[m.to][s].state = "connecting"
                  THEN [conns[m.to][s] EXCEPT !.state = "established"] ELSE conns[m.to][s]
  <2>1. s \in Used(m.to) /\ s \in Slots
    BY DEF Found, Used
  <2>2. conns' = [conns EXCEPT ![m.to][s] = c]
    BY <1>1
  <2>3. c \in ConnRec /\ (c.ours => state[m.to] \in Tunnelled /\ c.ptr = "live")
    BY <1>0, <2>1, GoesOn
  <2> HIDE DEF c
  <2> QED
    BY <1>0, <2>1, <2>2, <2>3, OneSlot DEF ConnTypes
<1>2. CASE UNCHANGED conns
  BY <1>2 DEF ConnTypes, OursInv, OursOf
<1>3. CASE m.kind = "syn" /\ NewConn(m.to, Conn(m.id, "established", FALSE,
                                               IF known[m.to] THEN "live" ELSE "none"))
  <2> DEFINE c == Conn(m.id, "established", FALSE, IF known[m.to] THEN "live" ELSE "none")
  <2>1. PICK s \in Slots : conns' = [conns EXCEPT ![m.to][s] = c]
    BY <1>3 DEF NewConn
  <2>2. m.id \in 1 .. Conns
    BY <1>3 DEF Messages
  <2>3. c \in ConnRec /\ c.ours = FALSE
    BY <2>2 DEF Conn, ConnRec
  <2> HIDE DEF c
  <2> QED
    BY <1>0, <2>1, <2>3, OneSlot DEF ConnTypes
<1> QED
  BY <1>1, <1>2, <1>3 DEF HandleSyn

\* FIN: the connection is half closed, or over.
LEMMA FinKeepsOurs ==
    ASSUME ConnTypes, OursInv, NEW m \in Messages, HandleFin(m.to, m),
           UNCHANGED <<state, conn_id_seq>>
    PROVE  ConnTypes' /\ OursInv'
<1>0. m.to \in Edges
  BY DEF Messages
<1>1. CASE UNCHANGED conns
  BY <1>1 DEF ConnTypes, OursInv, OursOf
<1>2. ASSUME NEW s \in Found(m.to, m.id),
             conns' = [conns EXCEPT ![m.to][s] = IF @.sent THEN Free ELSE [@ EXCEPT !.rcvd = TRUE]]
      PROVE  ConnTypes' /\ OursInv'
  <2> DEFINE c == IF conns[m.to][s].sent THEN Free ELSE [conns[m.to][s] EXCEPT !.rcvd = TRUE]
  <2>1. s \in Used(m.to) /\ s \in Slots
    BY DEF Found, Used
  <2>2. conns' = [conns EXCEPT ![m.to][s] = c]
    BY <1>2
  <2>3. c \in ConnRec \cup {Free} /\ (c # Free /\ c.ours => state[m.to] \in Tunnelled /\ c.ptr = "live")
    BY <1>0, <2>1, GoesOn
  <2> HIDE DEF c
  <2> QED
    BY <1>0, <2>1, <2>2, <2>3, OneSlot DEF ConnTypes
<1> QED
  BY <1>1, <1>2 DEF HandleFin

\* A message that arrives leaves our side of every connection as it should be.
LEMMA HandleKeepsOurs ==
    ASSUME EntryInv, NetInv, ConnTypes, OursInv, NEW m \in net, Handle(m)
    PROVE  ConnTypes' /\ OursInv'
<1>0. m \in Messages /\ m.to \in Edges
  BY DEF NetInv, Messages
<1>1. CASE HandleProbe(m.to)
  <2>1. UNCHANGED conn /\ state' = [state EXCEPT ![m.to] = "capable"]
    BY <1>1 DEF HandleProbe, Set
  <2> QED
    BY <1>0, <2>1, EntryOnly DEF EntryInv, EntryTypes, Tunnelled
<1>2. CASE HandleProbeAck(m.to)
  <2>1. UNCHANGED conn /\ (state' = [state EXCEPT ![m.to] = "capable"] \/ state' = state)
    BY <1>2 DEF HandleProbeAck, Set, peer
  <2> QED
    BY <1>0, <2>1, EntryOnly DEF EntryInv, EntryTypes, Tunnelled
<1>3. CASE UNCHANGED <<peer, conn>>
  BY <1>3, EntryOnly DEF peer
<1>4. CASE HandleTest(m.to) \/ HandleTestAck(m.to)
  <2>1. UNCHANGED conn /\ (state' = [state EXCEPT ![m.to] = "active"] \/ state' = state)
    BY <1>4 DEF HandleTest, HandleTestAck, Activate, Set, peer
  <2> QED
    BY <1>0, <2>1, EntryOnly DEF EntryInv, EntryTypes, Tunnelled
<1>5. CASE HandleSyn(m.to, m) /\ UNCHANGED <<peer, conn_id_seq>>
  BY <1>0, <1>5, SynKeepsOurs DEF peer
<1>6. CASE HandleFin(m.to, m) /\ UNCHANGED <<peer, conn_id_seq>>
  BY <1>0, <1>6, FinKeepsOurs DEF peer
<1> QED
  BY <1>1, <1>2, <1>3, <1>4, <1>5, <1>6, Zenon DEF Handle
\* At first there is no connection on our side.
LEMMA OursInit == Init => OursInv
BY DEF Init, OursInv, OursOf, AllFree

\* Every step keeps our side of the connections, given what is known of the rest.
LEMMA OursNext ==
    EntryInv /\ NetInv /\ ConnTypes /\ OursInv /\ [Next]_vars => ConnTypes' /\ OursInv'
<1> SUFFICES ASSUME EntryInv, NetInv, ConnTypes, OursInv, [Next]_vars
             PROVE  ConnTypes' /\ OursInv'
  OBVIOUS
<1>a. state \in [Edges -> {"none", "probing", "capable", "testing", "active", "unavailable"}]
  BY DEF EntryInv, EntryTypes
<1>b. AllFree \in [Slots -> ConnRec \cup {Free}] /\ \A s \in Slots : AllFree[s] = Free
  BY DEF AllFree
<1>c. conn_id_seq \in [Edges -> 0 .. Conns]
  BY DEF ConnTypes
<1>1. ASSUME NEW e \in Edges, Loop(e) PROVE ConnTypes' /\ OursInv'
  <2>1. UNCHANGED conn
    BY <1>1 DEF Loop, bypass_start_negotiation, bypass_get_pending_probes, ProbeTimeout,
                RetryLater, SendTest, TestTimeout
  <2>2. \/ state[e] \notin Tunnelled /\ \A f \in Edges \ {e} : state'[f] = state[f]
        \/ state' = state
        \/ state' = [state EXCEPT ![e] = "testing"]
        \/ state' = [state EXCEPT ![e] = "capable"]
    BY <1>1, <1>a DEF Loop, bypass_start_negotiation, bypass_get_pending_probes, ProbeTimeout,
                RetryLater, SendTest, TestTimeout, Set, Started, Tunnelled
  <2> QED
    BY <1>a, <2>1, <2>2, EntryOnly DEF Tunnelled
<1>2. ASSUME NEW e \in Edges, bypass_accept_proxy(e) PROVE ConnTypes' /\ OursInv'
  <2> DEFINE c == Conn(conn_id_seq[e] + 1, "connecting", TRUE, "live")
  <2>1. conn_id_seq[e] \in 0 .. Conns /\ conn_id_seq[e] < Conns
    BY <1>2, <1>c DEF bypass_accept_proxy
  <2>2. conn_id_seq[e] + 1 \in 1 .. Conns
    BY <2>1, BypassAssumption
  <2>3. c \in ConnRec /\ c.ptr = "live"
    BY <2>2 DEF Conn, ConnRec
  <2>4. conn_id_seq' \in [Edges -> 0 .. Conns]
    BY <1>2, <1>c, <2>2, BypassAssumption DEF bypass_accept_proxy
  <2>5. PICK s \in Slots : conns' = [conns EXCEPT ![e][s] = c]
    BY <1>2 DEF bypass_accept_proxy, NewConn
  <2>6. state[e] \in Tunnelled /\ UNCHANGED state
    BY <1>2 DEF bypass_accept_proxy, peer, Tunnelled
  <2> HIDE DEF c
  <2> QED
    BY <2>3, <2>4, <2>5, <2>6, OneSlot
<1>3. ASSUME NEW e \in Edges, NEW s \in Slots, LocalRead(e, s) \/ ConnTimeout(e, s)
      PROVE  ConnTypes' /\ OursInv'
  <2>1. s \in Used(e) /\ UNCHANGED <<conn_id_seq, state>>
    BY <1>3 DEF LocalRead, ConnTimeout, peer
  <2>2. \/ conns' = [conns EXCEPT ![e][s] = Free]
        \/ conns' = [conns EXCEPT ![e][s] = [conns[e][s] EXCEPT !.sent = TRUE]]
    BY <1>3 DEF LocalRead, ConnTimeout
  <2> DEFINE c == [conns[e][s] EXCEPT !.sent = TRUE]
  <2>3. c \in ConnRec /\ (c.ours => state[e] \in Tunnelled /\ c.ptr = "live")
    BY <2>1, GoesOn
  <2> HIDE DEF c
  <2>4. CASE conns' = [conns EXCEPT ![e][s] = Free]
    BY <1>c, <2>1, <2>4, OneSlot
  <2>5. CASE conns' = [conns EXCEPT ![e][s] = c]
    BY <1>c, <2>1, <2>3, <2>5, OneSlot
  <2> QED
    BY <2>2, <2>4, <2>5 DEF c
<1>4. ASSUME NEW m \in net, Lose(m) PROVE ConnTypes' /\ OursInv'
  BY <1>4, EntryOnly DEF Lose, peer
<1>5. ASSUME NEW m \in net, NEW again \in BOOLEAN, Arrive(m, again) PROVE ConnTypes' /\ OursInv'
  <2>1. Handle(m)
    BY <1>5 DEF Arrive
  <2> QED
    BY <2>1, HandleKeepsOurs
<1>6. ASSUME NEW e \in Edges, Forget(e) PROVE ConnTypes' /\ OursInv'
  <2>1. CASE state[e] # "none"
    <3>1. /\ conns' = [conns EXCEPT ![e] = AllFree]
          /\ state' = [state EXCEPT ![e] = "none"] /\ conn_id_seq' = conn_id_seq
      BY <1>6, <2>1 DEF Forget, PeerGone, Set
    <3>2. \A f \in Edges \ {e} : state'[f] = state[f]
      BY <1>a, <3>1
    <3> QED
      BY <1>b, <1>c, <3>1, <3>2, OneEdge
  <2>2. CASE state[e] = "none"
    <3> DEFINE new == [s \in Slots |-> Stale(conns[e][s])]
    <3>1. conns' = [conns EXCEPT ![e] = new] /\ state' = state /\ conn_id_seq' = conn_id_seq
      BY <1>6, <2>2 DEF Forget, peer
    <3>2. ASSUME NEW s \in Slots
          PROVE  Stale(conns[e][s]) \in ConnRec \cup {Free} /\
                 (Stale(conns[e][s]) # Free => ~Stale(conns[e][s]).ours)
      <4>1. conns[e][s] \in ConnRec \cup {Free}
        BY DEF ConnTypes
      <4>2. conns[e][s] # Free => ~conns[e][s].ours
        BY <2>2 DEF OursInv, OursOf, Tunnelled
      <4>3. CASE conns[e][s] # Free /\ conns[e][s].ptr = "live"
        <5>1. [conns[e][s] EXCEPT !.ptr = "stale"] \in ConnRec
          BY <4>1, <4>3 DEF ConnRec
        <5>2. [conns[e][s] EXCEPT !.ptr = "stale"].ours = conns[e][s].ours
          BY <4>1, <4>3 DEF ConnRec
        <5> QED
          BY <4>2, <4>3, <5>1, <5>2 DEF Stale
      <4>4. CASE ~(conns[e][s] # Free /\ conns[e][s].ptr = "live")
        BY <4>1, <4>2, <4>4 DEF Stale
      <4> QED
        BY <4>3, <4>4
    <3>3. new \in [Slots -> ConnRec \cup {Free}] /\ \A s \in Slots : new[s] # Free => ~new[s].ours
      BY <3>2
    <3> HIDE DEF new
    <3> QED
      BY <1>c, <3>1, <3>3, OneEdge
  <2> QED
    BY <2>1, <2>2
<1>7. ASSUME NEW e \in Edges, Learn(e) PROVE ConnTypes' /\ OursInv'
  BY <1>7, EntryOnly DEF Learn, peer
<1>8. ASSUME NEW e \in Edges, TurnOff(e) \/ Restart(e) PROVE ConnTypes' /\ OursInv'
  <2>1. conns' = [conns EXCEPT ![e] = AllFree] /\ state' = [state EXCEPT ![e] = "none"]
    BY <1>8 DEF TurnOff, Restart, Set
  <2>2. conn_id_seq' \in [Edges -> 0 .. Conns]
    BY <1>8, <1>c, BypassAssumption DEF TurnOff, Restart
  <2>3. \A f \in Edges \ {e} : state'[f] = state[f]
    BY <1>a, <2>1
  <2> QED
    BY <1>b, <2>1, <2>2, <2>3, OneEdge
<1>9. ASSUME NEW e \in Edges, TurnOn(e) PROVE ConnTypes' /\ OursInv'
  <2>1. UNCHANGED conn /\ (state' = state \/ (state[e] = "none" /\ state' = [state EXCEPT ![e] = "probing"]))
    BY <1>9 DEF TurnOn, Started, Set
  <2> QED
    BY <1>a, <2>1, EntryOnly DEF Tunnelled
<1>10. CASE UNCHANGED vars
  BY <1>10, EntryOnly DEF vars, peer
<1> QED
  BY <1>1, <1>2, <1>3, <1>4, <1>5, <1>6, <1>7, <1>8, <1>9, <1>10 DEF Next

-----------------------------------------------------------------------------
(* The theorems *)

BypassInv == EntryInv /\ NetInv /\ ConnTypes /\ OursInv

\* The four invariants together are one: each step of one needs the others.
LEMMA BypassInvariant == Spec => []BypassInv
<1>1. Init => BypassInv
  BY EntryInit, NetInit, OursInit DEF BypassInv
<1>2. BypassInv /\ [Next]_vars => BypassInv'
  BY EntryNext, NetNext, OursNext DEF BypassInv, NetInv
<1> QED
  BY <1>1, <1>2, PTL DEF Spec

\* An entry that is active has its rule, an entry that exists is counted, so
\* that the loop looks after it, and no more datagrams or retries than there
\* is room for: whatever is lost, repeated, toggled or started again.
THEOREM EntriesAreSound == Spec => []EntriesSound
<1>1. BypassInv => TypeOK
  <2> SUFFICES ASSUME BypassInv PROVE TypeOK
    OBVIOUS
  <2>1. \A e \in Edges : peer_count[e] \in 0 .. Changes + 1
    BY BypassAssumption DEF BypassInv, EntryInv, EntryTypes, CountBounded
  <2>2. peer_count \in [Edges -> 0 .. Changes + 1]
    BY <2>1 DEF BypassInv, EntryInv, EntryTypes
  <2> QED
    BY <2>2 DEF BypassInv, EntryInv, EntryTypes, NetInv, TypeOK
<1>2. BypassInv => EntriesSound
  BY <1>1 DEF BypassInv, EntryInv, EntriesSound
<1> QED
  BY <1>2, BypassInvariant, PTL

\* A connection that was opened here never outlives the entry of its peer or
\* the peer_info it points to: late probes, answers and SYNs included.
THEOREM OursNeverDangle == Spec => []OursAreSafe
<1>1. BypassInv => OursAreSafe
  BY DEF BypassInv, OursInv, OursOf, OursAreSafe, Used, Tunnelled
<1> QED
  BY <1>1, BypassInvariant, PTL

-----------------------------------------------------------------------------
(* The mapped port.                                                        *)

Searching == {"discover", "check", "add", "pcp", "pmp"}
Jobs == [at : {"none", "delete", "delete_pmp"} \cup Searching, svc : 0 .. 3,
         port : U!Ports \cup {0}, ext : U!Ports \cup {0}, tried : Nat]
Leases == [who : {"nobody", "edge", "other"}, left : 0 .. UPNP_LEASE_TIME, by : {"none", "igd", "pcp", "pmp"}]

PortTypes ==
    /\ lease \in [U!Ports -> Leases] /\ speaks \in Gateways /\ cached \in Nat /\ network \in Nat \ {0}
    /\ mapped \in U!Ports \cup {0} /\ last \in 0 .. (UPNP_LEASE_TIME + 1) /\ job \in Jobs
    /\ phase \in {"start", "run", "exit", "gone"} /\ missed \in Nat

\* What can be going on in each phase.
PortPhases ==
    /\ phase = "start" => job.at \in Searching
    /\ phase = "run" => job = U!NoJob \/ (job.at \in Searching /\ mapped # 0)
    /\ phase = "exit" => job.at \in {"delete", "delete_pmp"}
    /\ phase = "gone" => job = U!NoJob
    /\ job.at \in Searching => job.port \in U!Ports /\ job.ext \in U!Ports
    /\ job.at \in {"check", "add"} => job.svc \in 1 .. 3
    /\ job.at = "discover" => job.svc = 1

\* Until an answer is lost, the edge holds the port it was given and no other,
\* some protocol of the gateway will give it again, and the lease lasts until
\* the renewal that is due by now.
PortKept ==
    /\ network = 1 /\ cached \in {0, 1}
    /\ job.at \in {"check", "add"} => cached = 1
    /\ phase \in {"start", "run"} => \A p \in U!Ports : lease[p].who = "edge" <=> p = mapped
    /\ phase = "start" => mapped = 0 /\ last = U!UPNP_RENEW_THRESHOLD + 1
    /\ phase = "run" /\ mapped # 0 =>
        /\ last <= U!UPNP_RENEW_THRESHOLD + 1 /\ lease[mapped].left + last >= UPNP_LEASE_TIME
        /\ speaks # {}
        /\ job.at \in Searching => job.port = mapped /\ job.ext = mapped
        /\ job.at \in {"check", "add"} => \A i \in 1 .. 3 : i < job.svc => U!Services[i] \notin speaks
        /\ job.at \in {"pcp", "pmp"} => ~U!HasIgd
        /\ job.at = "pmp" => "pcp" \notin speaks
    /\ phase \in {"exit", "gone"} /\ "ip2" \in speaks =>
        \A p \in U!Ports : lease[p].who = "edge" /\ lease[p].by = "igd" => job.at = "delete" /\ job.port = p

PortInv == PortTypes /\ PortPhases /\ (missed = 0 => PortKept)

\* The constants of Upnp, and the threshold: more than a second before the end.
LEMMA PortConstants ==
    /\ LowPort \in Nat \ {0} /\ TopPort \in Nat /\ LocalPort \in U!Ports
    /\ UPNP_LEASE_TIME \in Nat /\ UPNP_LEASE_TIME > 5 /\ MaxFaults \in Nat
    /\ \A g \in Gateways : g \subseteq {"ip2", "ip1", "ppp", "pcp", "pmp"}
    /\ U!Ports \subseteq Nat /\ 0 \notin U!Ports
    /\ U!UPNP_RENEW_THRESHOLD \in Nat /\ U!UPNP_RENEW_THRESHOLD + 2 <= UPNP_LEASE_TIME
<1>1. /\ LowPort \in Nat \ {0} /\ TopPort \in Nat /\ LocalPort \in U!Ports
      /\ UPNP_LEASE_TIME \in Nat /\ UPNP_LEASE_TIME > 5 /\ MaxFaults \in Nat
      /\ \A g \in Gateways : g \subseteq {"ip2", "ip1", "ppp", "pcp", "pmp"}
  BY LinkAssumed DEF U!UpnpAssumption
<1>2. U!Ports \subseteq Nat /\ 0 \notin U!Ports
  BY <1>1 DEF U!Ports
<1>3. U!UPNP_RENEW_THRESHOLD \in Nat /\ U!UPNP_RENEW_THRESHOLD + 2 <= UPNP_LEASE_TIME
  BY <1>1 DEF U!UPNP_RENEW_THRESHOLD
<1> QED BY <1>1, <1>2, <1>3

\* An edge starts with an attempt, without a mapping.
LEMMA PortInit == U!Init => PortInv
<1> SUFFICES ASSUME U!Init PROVE PortInv
  OBVIOUS
<1> USE PortConstants
<1>1. PortTypes
  <2>1. U!Attempt(LocalPort) \in Jobs
    BY DEF U!Attempt, Jobs, Searching
  <2>2. U!Free \in Leases
    BY DEF U!Free, Leases
  <2> QED BY <2>1, <2>2 DEF U!Init, PortTypes
<1>2. PortPhases
  BY DEF U!Init, PortPhases, U!Attempt, Searching
<1>3. PortKept
  BY DEF U!Init, PortKept, U!Free, U!Attempt, Searching
<1> QED BY <1>1, <1>2, <1>3 DEF PortInv

\* The next service or protocol of an attempt.
LEMMA NextJob ==
    ASSUME PortTypes, PortPhases, job.at \in {"check", "add"}
    PROVE  /\ U!NextService \in Jobs /\ U!NextService.at \in {"check", "pcp"}
           /\ U!NextService.port \in {job.port, job.ext} /\ U!NextService.ext = job.ext
           /\ U!NextService.at = "check" => U!NextService.svc = job.svc + 1 /\ job.svc < 3
           /\ U!NextService.at = "pcp" => job.svc = 3
           /\ U!NextPort \in Jobs /\ U!NextPort.at \in {"check", "add", "pcp"}
           /\ U!NextPort.port \in U!Ports /\ U!NextPort.ext = job.ext
           /\ U!NextPort.at \in {"check", "add"} => U!NextPort.svc \in 1 .. 3
<1>1. job \in Jobs /\ job.svc \in 1 .. 3 /\ job.port \in U!Ports /\ job.ext \in U!Ports
  BY DEF PortTypes, PortPhases, Searching
<1>2. Len(U!Services) = 3
  BY DEF U!Services
<1>3. DOMAIN job = {"at", "svc", "port", "ext", "tried"} /\ job.tried \in Nat
      /\ job.at \in {"none", "delete", "delete_pmp"} \cup Searching
  BY <1>1 DEF Jobs
<1>4. /\ U!NextService \in Jobs /\ U!NextService.at \in {"check", "pcp"}
      /\ U!NextService.port \in {job.port, job.ext} /\ U!NextService.ext = job.ext
      /\ U!NextService.at = "check" => U!NextService.svc = job.svc + 1 /\ job.svc < 3
      /\ U!NextService.at = "pcp" => job.svc = 3
  <2>1. CASE job.svc < 3
    <3> DEFINE next == [at |-> "check", svc |-> job.svc + 1, port |-> job.ext, ext |-> job.ext, tried |-> 0]
    <3>1. U!NextService = [job EXCEPT !.at = "check", !.svc = @ + 1, !.port = job.ext, !.tried = 0]
      BY <1>2, <2>1 DEF U!NextService
    <3>2. U!NextService = next
      BY <3>1, <1>1 DEF Jobs
    <3>3. next \in Jobs
      BY <1>1, <2>1 DEF Jobs, Searching
    <3> HIDE DEF next
    <3> QED BY <3>2, <3>3, <1>1, <2>1 DEF next
  <2>2. CASE job.svc = 3
    <3> DEFINE next == [at |-> "pcp", svc |-> job.svc, port |-> job.port, ext |-> job.ext, tried |-> job.tried]
    <3>1. U!NextService = [job EXCEPT !.at = "pcp"]
      BY <1>2, <2>2 DEF U!NextService
    <3>2. U!NextService = next
      BY <3>1, <1>1 DEF Jobs
    <3>3. next \in Jobs
      BY <1>1, <1>3 DEF Jobs, Searching
    <3> QED BY <3>2, <3>3, <1>1, <2>2
  <2> QED BY <1>1, <2>1, <2>2
<1>5. (IF job.port < TopPort THEN job.port + 1 ELSE LowPort) \in U!Ports
  BY <1>1, PortConstants DEF U!Ports
<1>6. CASE job.tried + 1 < UPNP_PORT_RETRY_MAX
  <2> DEFINE p == IF job.port < TopPort THEN job.port + 1 ELSE LowPort
             next == [at |-> job.at, svc |-> job.svc, port |-> p, ext |-> job.ext, tried |-> job.tried + 1]
  <2>1. U!NextPort = [job EXCEPT !.port = p, !.tried = job.tried + 1]
    BY <1>6 DEF U!NextPort
  <2> HIDE DEF p
  <2>2. U!NextPort = next
    BY <2>1, <1>1 DEF Jobs
  <2>3. p \in U!Ports
    BY <1>5 DEF p
  <2>4. next \in Jobs
    BY <1>1, <1>3, <2>3 DEF Jobs
  <2> QED BY <1>1, <1>4, <2>2, <2>3, <2>4
<1>7. CASE ~(job.tried + 1 < UPNP_PORT_RETRY_MAX)
  BY <1>1, <1>4, <1>7 DEF U!NextPort
<1> QED BY <1>4, <1>6, <1>7
\* An attempt goes on only at the start and while the edge runs.
LEMMA SearchPhase ==
    ASSUME PortInv, job.at \in Searching
    PROVE  /\ phase \in {"start", "run"} /\ job \in Jobs
           /\ job.port \in U!Ports /\ job.ext \in U!Ports
           /\ job.at \in {"check", "add"} => job.svc \in 1 .. 3
           /\ phase = "run" => mapped # 0
           /\ speaks \subseteq {"ip2", "ip1", "ppp", "pcp", "pmp"}
<1>1. job # U!NoJob
  BY DEF U!NoJob, Searching
<1> QED BY <1>1, PortConstants DEF PortInv, PortTypes, PortPhases, Searching

\* The attempt takes its next step: with no answer lost, it stays with the port
\* that is to be renewed and leaves no protocol behind that the gateway speaks.
LEMMA Searches ==
    ASSUME PortInv, job.at \in Searching,
           job' \in Jobs, job'.at \in Searching \ {"discover"}, job'.port \in U!Ports, job'.ext \in U!Ports,
           job'.at \in {"check", "add"} => job'.svc \in 1 .. 3,
           UNCHANGED <<speaks, network, mapped, last, phase>>,
           lease' \in [U!Ports -> Leases], cached' \in Nat, missed' \in Nat,
           missed' = 0 => missed = 0,
           missed' = 0 =>
               /\ lease' = lease /\ cached' \in {0, 1}
               /\ job'.at \in {"check", "add"} => cached' = 1,
           missed' = 0 /\ phase = "run" =>
               /\ job'.port = mapped /\ job'.ext = mapped
               /\ job'.at \in {"check", "add"} => \A i \in 1 .. 3 : i < job'.svc => U!Services[i] \notin speaks
               /\ job'.at \in {"pcp", "pmp"} => ~U!HasIgd
               /\ job'.at = "pmp" => "pcp" \notin speaks
    PROVE  PortInv'
<1>1. phase \in {"start", "run"} /\ (phase = "run" => mapped # 0)
  BY SearchPhase
<1>2. PortTypes'
  BY DEF PortInv, PortTypes
<1>3. PortPhases'
  BY <1>1 DEF PortPhases
<1>4. ASSUME missed' = 0 PROVE PortKept'
  <2>1. PortKept /\ lease' = lease
    BY <1>4 DEF PortInv
  <2>2. U!HasIgd' = U!HasIgd
    BY DEF U!HasIgd
  <2>3. phase = "run" =>
            /\ last <= U!UPNP_RENEW_THRESHOLD + 1 /\ lease[mapped].left + last >= UPNP_LEASE_TIME
            /\ speaks # {}
    BY <1>1, <2>1 DEF PortKept
  <2> HIDE DEF Searching
  <2> QED BY <1>1, <1>4, <2>1, <2>2, <2>3 DEF PortKept, U!Services
<1> QED BY <1>2, <1>3, <1>4 DEF PortInv

\* The attempt succeeds, on the port that is to be renewed if there is one.
LEMMA Succeeds ==
    ASSUME PortInv, job.at \in Searching, NEW p \in U!Ports, NEW by \in {"igd", "pcp", "pmp"},
           lease' = [lease EXCEPT ![p] = U!Granted(by)], U!Success(p), missed' = missed,
           UNCHANGED <<speaks, cached, network>>,
           missed = 0 => speaks # {} /\ (phase = "run" => p = mapped)
    PROVE  PortInv'
<1> USE PortConstants
<1>1. phase \in {"start", "run"} /\ (phase = "run" => mapped # 0)
  BY SearchPhase
<1>2. U!Granted(by) \in Leases /\ U!Granted(by).who = "edge" /\ U!Granted(by).left = UPNP_LEASE_TIME
  BY DEF U!Granted, Leases
<1>3. lease \in [U!Ports -> Leases] /\ last \in 0 .. (UPNP_LEASE_TIME + 1) /\ mapped \in U!Ports \cup {0}
  BY DEF PortInv, PortTypes
<1>4. lease' \in [U!Ports -> Leases] /\ lease'[p].who = "edge" /\ lease'[p].left = UPNP_LEASE_TIME
      /\ \A q \in U!Ports : q # p => lease'[q] = lease[q]
  BY <1>2, <1>3
<1>5. job' = U!NoJob /\ phase' = "run" /\ mapped' = (IF phase = "start" THEN p ELSE mapped)
      /\ last' = (IF phase = "start" THEN last ELSE 0)
  BY DEF U!Success
<1>6. U!NoJob \in Jobs /\ U!NoJob.at = "none"
  BY DEF U!NoJob, Jobs
<1>7. PortTypes'
  BY <1>1, <1>3, <1>4, <1>5, <1>6 DEF PortInv, PortTypes
<1>8. PortPhases'
  BY <1>5, <1>6 DEF PortPhases, Searching
<1>9. ASSUME missed' = 0 PROVE PortKept'
  <2>1. PortKept
    BY <1>9 DEF PortInv
  <2>2. mapped' = p
    BY <1>1, <1>5, <1>9
  <2>3. \A q \in U!Ports : lease'[q].who = "edge" <=> q = p
    <3> SUFFICES ASSUME NEW q \in U!Ports, q # p PROVE lease[q].who # "edge"
      BY <1>4
    <3> QED BY <2>1, <1>1, <1>9 DEF PortKept
  <2>4. last' <= U!UPNP_RENEW_THRESHOLD + 1 /\ last' \in Nat
    BY <2>1, <1>1, <1>3, <1>5 DEF PortKept
  <2> QED BY <2>1, <2>2, <2>3, <2>4, <1>4, <1>5, <1>6, <1>9 DEF PortKept, Searching
<1> QED BY <1>7, <1>8, <1>9 DEF PortInv

\* upnp_discover: with an Internet Gateway Device, on to its first service.
LEMMA DiscoverStep == PortInv /\ U!Discover => PortInv'
<1> SUFFICES ASSUME PortInv, U!Discover PROVE PortInv'
  OBVIOUS
<1> USE PortConstants
<1>1. job.at \in Searching /\ job \in Jobs /\ job.port \in U!Ports /\ job.ext \in U!Ports
      /\ lease \in [U!Ports -> Leases] /\ cached \in Nat /\ network \in Nat \ {0} /\ missed \in Nat
  BY SearchPhase DEF U!Discover, Searching, PortInv, PortTypes
<1>2. ASSUME NEW a \in {"check", "pcp"}, job' = [job EXCEPT !.at = a]
      PROVE  job' \in Jobs /\ job'.at = a /\ job'.port = job.port /\ job'.ext = job.ext /\ job'.svc = job.svc
  BY <1>1, <1>2 DEF Jobs, Searching
<1>3. missed' \in Nat /\ (missed' = 0 => missed = 0)
  BY <1>1 DEF U!Discover, U!Lost, U!Fine
<1>4. job.svc = 1
  BY DEF PortInv, PortPhases, U!Discover
<1>5. missed = 0 => cached \in {0, 1} /\ network = 1
  BY DEF PortInv, PortKept
<1>6. missed = 0 /\ phase = "run" => job.port = mapped /\ job.ext = mapped
  BY <1>1, SearchPhase DEF PortInv, PortKept
<1>7. CASE job' = [job EXCEPT !.at = "check"] /\ cached' \in {cached, network} /\ cached' # 0 /\ UNCHANGED missed
  <2>1. job' \in Jobs /\ job'.at = "check" /\ job'.port = job.port /\ job'.ext = job.ext /\ job'.svc = 1
    BY <1>2, <1>4, <1>7
  <2> QED BY <1>1, <1>3, <1>4, <1>5, <1>6, <1>7, <2>1, Searches DEF U!Discover, Searching
<1>8. CASE job' = [job EXCEPT !.at = "pcp"] /\ cached' = cached /\ (missed' = 0 => ~U!HasIgd)
  <2>1. job' \in Jobs /\ job'.at = "pcp" /\ job'.port = job.port /\ job'.ext = job.ext
    BY <1>2, <1>8
  <2> QED BY <1>1, <1>3, <1>5, <1>6, <1>8, <2>1, Searches DEF U!Discover, Searching
<1>9. missed + 1 # 0
  BY <1>1
<1>10. U!HasIgd /\ U!Lost => missed' # 0
  BY <1>9 DEF U!Lost
<1>11. \/ job' = [job EXCEPT !.at = "check"] /\ cached' \in {cached, network} /\ cached' # 0 /\ UNCHANGED missed
       \/ job' = [job EXCEPT !.at = "pcp"] /\ cached' = cached /\ (IF U!HasIgd THEN U!Lost ELSE U!Fine)
  BY <1>1 DEF U!Discover, U!Fine
<1> QED BY <1>7, <1>8, <1>10, <1>11

\* The port that is to be renewed is nobody else's: the search does not leave it.
LEMMA CheckPortStep == PortInv /\ U!CheckPort => PortInv'
<1> SUFFICES ASSUME PortInv, U!CheckPort PROVE PortInv'
  OBVIOUS
<1> USE PortConstants
<1>1. job.at = "check" /\ job.at \in Searching /\ job \in Jobs /\ job.port \in U!Ports /\ job.ext \in U!Ports
      /\ lease \in [U!Ports -> Leases] /\ cached \in Nat /\ missed \in Nat /\ job.svc \in 1 .. 3
      /\ UNCHANGED <<lease, speaks, cached, network, mapped, last, phase>>
  BY SearchPhase DEF U!CheckPort, Searching, PortInv, PortTypes
<1>2. missed' \in Nat /\ (missed' = 0 => missed = 0)
  BY <1>1 DEF U!CheckPort, U!Lost, U!Fine
<1>3. missed = 0 => cached = 1 /\ network = 1
  BY <1>1 DEF PortInv, PortKept
<1>4. missed' = 0 /\ phase = "run" =>
          /\ job.port = mapped /\ job.ext = mapped /\ U!NotOthers(job.port)
          /\ \A i \in 1 .. 3 : i < job.svc => U!Services[i] \notin speaks
  BY <1>1, <1>2, SearchPhase DEF PortInv, PortKept, U!NotOthers
<1>5. CASE job' = [job EXCEPT !.at = "add"]
  <2>1. job' \in Jobs /\ job'.at = "add" /\ job'.port = job.port /\ job'.ext = job.ext /\ job'.svc = job.svc
    BY <1>1, <1>5 DEF Jobs, Searching
  <2> HIDE DEF PortInv
  <2> QED BY <1>1, <1>2, <1>3, <1>4, <2>1, Searches DEF Searching
<1>6. CASE job' = U!NextPort /\ (missed' = 0 => phase # "run")
  <2>1. job' \in Jobs /\ job'.at \in {"check", "add", "pcp"} /\ job'.port \in U!Ports /\ job'.ext = job.ext
        /\ (job'.at \in {"check", "add"} => job'.svc \in 1 .. 3)
    BY <1>1, <1>6, NextJob DEF PortInv
  <2> HIDE DEF PortInv
  <2> QED BY <1>1, <1>2, <1>3, <1>6, <2>1, Searches DEF Searching
<1>7. U!Reached /\ U!Lost => missed' # 0
  BY <1>1 DEF U!Lost
<1>8. missed' = 0 => U!Reached
  BY <1>2, <1>3 DEF U!Reached
<1> QED BY <1>4, <1>5, <1>6, <1>7, <1>8 DEF U!CheckPort

\* AddPortMapping: the gateway refuses a service it has only for a port of another.
LEMMA AddPortMappingStep == PortInv /\ U!AddPortMapping => PortInv'
<1> SUFFICES ASSUME PortInv, U!AddPortMapping PROVE PortInv'
  OBVIOUS
<1> USE PortConstants
<1> DEFINE ok == U!upnp_soap_action(job.svc, job.port)
           made == [lease EXCEPT ![job.port] = U!Granted("igd")]
<1>1. job.at = "add" /\ job.at \in Searching /\ job \in Jobs /\ job.port \in U!Ports /\ job.ext \in U!Ports
      /\ lease \in [U!Ports -> Leases] /\ cached \in Nat /\ missed \in Nat /\ job.svc \in 1 .. 3
      /\ UNCHANGED <<speaks, cached, network>>
  BY SearchPhase DEF U!AddPortMapping, Searching, PortInv, PortTypes
<1>2. missed = 0 => cached = 1 /\ network = 1
  BY <1>1 DEF PortInv, PortKept
<1>3. missed = 0 /\ phase = "run" =>
          /\ job.port = mapped /\ job.ext = mapped /\ U!NotOthers(job.port)
          /\ \A i \in 1 .. 3 : i < job.svc => U!Services[i] \notin speaks
  BY <1>1, SearchPhase DEF PortInv, PortKept, U!NotOthers
<1>4. CASE ok /\ lease' = made /\ U!Fine /\ U!Success(job.port)
  <2>1. speaks # {}
    BY <1>4 DEF U!upnp_soap_action
  <2> QED BY <1>1, <1>3, <1>4, <2>1, Succeeds DEF U!Fine
<1>5. CASE /\ IF ok THEN lease' \in {made, lease} /\ U!Lost ELSE lease' = lease /\ U!Fine
           /\ job' = U!NextService /\ UNCHANGED <<mapped, last, phase>>
  <2>1. missed' \in Nat /\ (missed' = 0 => missed = 0 /\ ~ok /\ lease' = lease)
    BY <1>1, <1>5 DEF U!Lost, U!Fine
  <2>2. U!Granted("igd") \in Leases
    BY DEF U!Granted, Leases
  <2>3. lease' \in [U!Ports -> Leases]
    BY <1>1, <1>5, <2>2
  <2>4. job' \in Jobs /\ job'.at \in {"check", "pcp"} /\ job'.port \in {job.port, job.ext} /\ job'.ext = job.ext
        /\ (job'.at = "check" => job'.svc = job.svc + 1 /\ job.svc < 3) /\ (job'.at = "pcp" => job.svc = 3)
    BY <1>1, <1>5, NextJob DEF PortInv
  <2>5. missed' = 0 /\ phase = "run" => U!Services[job.svc] \notin speaks
    BY <1>2, <1>3, <2>1 DEF U!upnp_soap_action, U!Reached
  <2>6. missed' = 0 /\ phase = "run" => \A i \in 1 .. 3 : i < job.svc + 1 => U!Services[i] \notin speaks
    BY <1>1, <1>3, <2>1, <2>5
  <2>7. (\A i \in 1 .. 3 : U!Services[i] \notin speaks) => ~U!HasIgd
    <3>1. U!Services[1] = "ip2" /\ U!Services[2] = "ip1" /\ U!Services[3] = "ppp"
      BY DEF U!Services
    <3> QED BY <3>1 DEF U!HasIgd
  <2>8. missed' = 0 /\ phase = "run" /\ job'.at = "pcp" => ~U!HasIgd
    BY <2>4, <2>6, <2>7
  <2>9. job'.at = "check" => job'.svc \in 1 .. 3
    BY <1>1, <2>4
  <2> HIDE DEF ok, made, PortInv
  <2> QED BY <1>1, <1>2, <1>3, <1>5, <2>1, <2>3, <2>4, <2>6, <2>8, <2>9, Searches DEF Searching
<1> QED BY <1>4, <1>5 DEF U!AddPortMapping

\* The port a PCP or NAT-PMP gateway gives: the one that is to be renewed.
LEMMA AssignedPort ==
    ASSUME PortInv, job.at \in Searching, NEW p \in U!Assigned
    PROVE  p \in U!Ports /\ (missed = 0 /\ phase = "run" => p = mapped)
<1>1. job.ext \in U!Ports
  BY SearchPhase
<1>2. missed = 0 /\ phase = "run" => job.ext = mapped /\ U!NotOthers(job.ext)
  BY <1>1, SearchPhase DEF PortInv, PortKept, U!NotOthers
<1> QED BY <1>1, <1>2 DEF U!Assigned

\* What both have in common.
LEMMA MapByStep ==
    ASSUME PortInv, NEW proto \in {"pcp", "pmp"}, job.at = proto, NEW fails, U!MapBy(proto, fails)
    PROVE  \/ PortInv'
           \/ /\ fails /\ lease' \in [U!Ports -> Leases] /\ UNCHANGED <<speaks, cached, network>>
              /\ missed' \in Nat /\ (missed' = 0 => missed = 0 /\ lease' = lease /\ proto \notin speaks)
<1> USE PortConstants
<1>1. job.at \in Searching /\ lease \in [U!Ports -> Leases] /\ missed \in Nat
      /\ UNCHANGED <<speaks, cached, network>>
  BY DEF U!MapBy, Searching, PortInv, PortTypes
<1>2. U!Granted(proto) \in Leases
  BY DEF U!Granted, Leases
<1>3. ASSUME NEW p \in U!Assigned, lease' = [lease EXCEPT ![p] = U!Granted(proto)], proto \in speaks,
             (U!Fine /\ U!Success(p)) \/ (U!Lost /\ fails)
      PROVE  PortInv' \/ (fails /\ lease' \in [U!Ports -> Leases] /\ missed' \in Nat /\ missed' # 0)
  <2>1. p \in U!Ports /\ (missed = 0 /\ phase = "run" => p = mapped)
    BY <1>1, AssignedPort
  <2>2. CASE U!Fine /\ U!Success(p)
    BY <1>1, <1>3, <2>1, <2>2, Succeeds DEF U!Fine
  <2>3. CASE U!Lost /\ fails
    BY <1>1, <1>2, <1>3, <2>1, <2>3 DEF U!Lost
  <2> QED BY <1>3, <2>2, <2>3
<1>4. CASE (IF proto \in speaks THEN U!Lost ELSE U!Fine) /\ fails /\ UNCHANGED lease
  BY <1>1, <1>4 DEF U!Lost, U!Fine
<1> QED BY <1>1, <1>3, <1>4 DEF U!MapBy

\* pcp_map: what it cannot do is left to NAT-PMP.
LEMMA PcpStep == PortInv /\ U!pcp_map => PortInv'
<1> SUFFICES ASSUME PortInv, U!pcp_map, ~PortInv' PROVE PortInv'
  OBVIOUS
<1>1. job.at = "pcp" /\ U!MapBy("pcp", U!PcpFails)
  BY DEF U!pcp_map, U!MapBy
<1>2. U!PcpFails /\ lease' \in [U!Ports -> Leases] /\ UNCHANGED <<speaks, cached, network>>
      /\ missed' \in Nat /\ (missed' = 0 => missed = 0 /\ lease' = lease /\ "pcp" \notin speaks)
  BY <1>1, MapByStep
<1>3. job.at \in Searching /\ job \in Jobs /\ job.port \in U!Ports /\ job.ext \in U!Ports /\ cached \in Nat
  BY <1>1, SearchPhase DEF Searching, PortInv, PortTypes
<1>4. job' \in Jobs /\ job'.at = "pmp" /\ job'.port = job.port /\ job'.ext = job.ext
      /\ UNCHANGED <<mapped, last, phase>>
  BY <1>2, <1>3 DEF U!PcpFails, Jobs, Searching
<1>5. missed = 0 => cached \in {0, 1}
  BY DEF PortInv, PortKept
<1>6. missed = 0 /\ phase = "run" => job.port = mapped /\ job.ext = mapped /\ ~U!HasIgd
  BY <1>1, <1>3, SearchPhase DEF PortInv, PortKept
<1> HIDE DEF PortInv
<1> QED BY <1>2, <1>3, <1>4, <1>5, <1>6, Searches DEF Searching

\* natpmp_map: an attempt that fails was not a renewal, as long as no answer is lost.
LEMMA PmpStep == PortInv /\ U!natpmp_map => PortInv'
<1> SUFFICES ASSUME PortInv, U!natpmp_map, ~PortInv' PROVE PortInv'
  OBVIOUS
<1> USE PortConstants
<1>1. job.at = "pmp" /\ U!MapBy("pmp", U!Failure)
  BY DEF U!natpmp_map, U!MapBy
<1>2. U!Failure /\ lease' \in [U!Ports -> Leases] /\ UNCHANGED <<speaks, cached, network>>
      /\ missed' \in Nat /\ (missed' = 0 => missed = 0 /\ lease' = lease /\ "pmp" \notin speaks)
  BY <1>1, MapByStep
<1>3. job.at \in Searching /\ phase \in {"start", "run"}
      /\ speaks \subseteq {"ip2", "ip1", "ppp", "pcp", "pmp"} /\ (phase = "run" => mapped # 0)
  BY <1>1, SearchPhase DEF Searching
<1>4. job' = U!NoJob /\ phase' = "run" /\ mapped' = mapped /\ last' = (IF phase = "start" THEN last ELSE 0)
  BY <1>2 DEF U!Failure
<1>5. U!NoJob \in Jobs /\ U!NoJob.at = "none"
  BY DEF U!NoJob, Jobs
<1>6. PortTypes'
  BY <1>2, <1>4, <1>5 DEF PortInv, PortTypes
<1>7. PortPhases'
  BY <1>4, <1>5 DEF PortPhases, Searching
<1>8. ASSUME missed' = 0 PROVE PortKept'
  <2>1. PortKept /\ lease' = lease /\ "pmp" \notin speaks
    BY <1>2, <1>8 DEF PortInv
  <2>2. phase = "start"
    BY <1>1, <1>3, <2>1 DEF PortKept, U!HasIgd, Searching
  <2>3. mapped = 0
    BY <2>1, <2>2 DEF PortKept
  <2> QED BY <1>2, <1>4, <1>5, <2>1, <2>2, <2>3 DEF PortKept, Searching
<1> QED BY <1>6, <1>7, <1>8 DEF PortInv

\* Steps that leave the leases, the gateway and the network alone.
LEMMA RenewStep == PortInv /\ U!Renew => PortInv'
<1> SUFFICES ASSUME PortInv, U!Renew PROVE PortInv'
  OBVIOUS
<1> USE PortConstants
<1>1. phase = "run" /\ mapped \in U!Ports /\ mapped # 0 /\ job' = U!Attempt(mapped)
      /\ UNCHANGED <<lease, speaks, cached, network, mapped, last, phase, missed>>
  BY DEF U!Renew, PortInv, PortTypes
<1>2. job' \in Jobs /\ job'.at = "discover" /\ job'.port = mapped /\ job'.ext = mapped /\ job'.svc = 1
  BY <1>1 DEF U!Attempt, Jobs, Searching
<1>3. PortTypes'
  BY <1>1, <1>2 DEF PortInv, PortTypes
<1>4. PortPhases'
  BY <1>1, <1>2 DEF PortPhases, Searching
<1>5. ASSUME missed' = 0 PROVE PortKept'
  BY <1>1, <1>2, <1>5 DEF PortInv, PortKept, Searching
<1> QED BY <1>3, <1>4, <1>5 DEF PortInv

\* edge_deinit: the worker is given the port that is mapped.
LEMMA ExitStep == PortInv /\ U!Exit => PortInv'
<1> SUFFICES ASSUME PortInv, U!Exit PROVE PortInv'
  OBVIOUS
<1> USE PortConstants
<1>1. phase = "run" /\ job = U!NoJob /\ mapped' = 0 /\ mapped \in U!Ports \cup {0}
      /\ phase' = (IF mapped = 0 THEN "gone" ELSE "exit")
      /\ job' = (IF mapped = 0 THEN job ELSE [U!NoJob EXCEPT !.at = "delete", !.port = mapped])
      /\ UNCHANGED <<lease, speaks, cached, network, last, missed>>
  BY DEF U!Exit, U!Deleted, PortInv, PortTypes
<1>2. U!NoJob \in Jobs /\ U!NoJob.at = "none"
  BY DEF U!NoJob, Jobs
<1>3. mapped # 0 => job' \in Jobs /\ job'.at = "delete" /\ job'.port = mapped
  <2>1. ASSUME NEW j \in Jobs, NEW k, k = [j EXCEPT !.at = "delete", !.port = mapped]
        PROVE  k \in Jobs /\ k.at = "delete" /\ k.port = mapped
    BY <1>1, <2>1 DEF Jobs
  <2> QED BY <2>1, <1>1, <1>2
<1>4. PortTypes'
  BY <1>1, <1>2, <1>3 DEF PortInv, PortTypes
<1>5. PortPhases'
  BY <1>1, <1>2, <1>3 DEF PortPhases, Searching
<1>6. ASSUME missed' = 0 PROVE PortKept'
  <2>1. PortKept
    BY <1>1, <1>6 DEF PortInv
  <2>2. network = 1 /\ cached \in {0, 1} /\ \A p \in U!Ports : lease[p].who = "edge" <=> p = mapped
    BY <2>1, <1>1 DEF PortKept
  <2>3. ASSUME NEW p \in U!Ports, lease'[p].who = "edge" PROVE job'.at = "delete" /\ job'.port = p
    BY <2>2, <2>3, <1>1, <1>3
  <2> QED BY <2>2, <2>3, <1>1, <1>2, <1>3 DEF PortKept
<1> QED BY <1>4, <1>5, <1>6 DEF PortInv

\* A lease that is removed is a free one.
LEMMA Removing ==
    ASSUME PortTypes, NEW p, NEW by, U!Remove(p, by) \/ UNCHANGED lease
    PROVE  /\ lease' \in [U!Ports -> Leases]
           /\ \A q \in U!Ports : lease'[q].who = "edge" => lease'[q] = lease[q]
           /\ p \in U!Ports /\ U!Remove(p, by) => (lease'[p].who = "edge" => lease'[p].by # by)
<1>1. U!Free \in Leases /\ U!Free.who = "nobody"
  BY PortConstants DEF U!Free, Leases
<1>2. lease \in [U!Ports -> Leases]
  BY DEF PortTypes
<1> QED BY <1>1, <1>2 DEF U!Remove, U!Ours

\* DeletePortMapping: an answer to it removes the mapping on the port that was mapped.
LEMMA DeleteStep == PortInv /\ U!Delete => PortInv'
<1> SUFFICES ASSUME PortInv, U!Delete PROVE PortInv'
  OBVIOUS
<1> USE PortConstants
<1>1. job.at = "delete" /\ job' = [job EXCEPT !.at = "delete_pmp"]
      /\ UNCHANGED <<speaks, cached, network, mapped, last, phase>>
      /\ (U!Remove(job.port, "igd") \/ UNCHANGED lease)
  BY DEF U!Delete
<1>2. job \in Jobs /\ missed \in Nat /\ job # U!NoJob /\ phase = "exit"
  BY <1>1 DEF PortInv, PortTypes, PortPhases, U!NoJob, Searching
<1>3. job' \in Jobs /\ job'.at = "delete_pmp"
  BY <1>1, <1>2 DEF Jobs
<1>4. lease' \in [U!Ports -> Leases] /\ \A q \in U!Ports : lease'[q].who = "edge" => lease'[q] = lease[q]
  BY <1>1, Removing DEF PortInv
<1>5. missed' \in Nat /\ (missed' = 0 => missed = 0)
  BY <1>2 DEF U!Delete, U!Lost, U!Fine
<1>6. PortTypes'
  BY <1>1, <1>3, <1>4, <1>5 DEF PortInv, PortTypes
<1>7. PortPhases'
  BY <1>1, <1>2, <1>3 DEF PortPhases, Searching
<1>8. ASSUME missed' = 0 PROVE PortKept'
  <2>1. PortKept
    BY <1>5, <1>8 DEF PortInv
  <2>2. cached \in {0, network}
    BY <2>1 DEF PortKept
  <2>3. "ip2" \in speaks => U!Remove(job.port, "igd")
    BY <2>2, <1>2, <1>8 DEF U!Delete, U!Lost
  <2>4. ASSUME "ip2" \in speaks, NEW p \in U!Ports, lease'[p].who = "edge", lease'[p].by = "igd" PROVE FALSE
    <3>1. lease[p].who = "edge" /\ lease[p].by = "igd"
      BY <1>4, <2>4
    <3>2. job.port = p
      BY <3>1, <2>1, <2>4, <1>2 DEF PortKept
    <3>3. lease'[job.port].who = "edge" => lease'[job.port].by # "igd"
      BY <2>3, <2>4, <3>2, Removing DEF PortInv
    <3> QED BY <2>4, <3>2, <3>3
  <2> QED BY <2>1, <2>4, <1>1, <1>2, <1>3 DEF PortKept
<1> QED BY <1>6, <1>7, <1>8 DEF PortInv

\* The edge ends, with or without the answer to its last requests.
LEMMA EndStep == PortInv /\ (U!DeletePmp \/ U!GiveUp) => PortInv'
<1> SUFFICES ASSUME PortInv, U!DeletePmp \/ U!GiveUp PROVE PortInv'
  OBVIOUS
<1> USE PortConstants
<1>1. job' = U!NoJob /\ phase' = "gone" /\ UNCHANGED <<speaks, cached, network, mapped, last>>
      /\ (U!Remove(LocalPort, "pmp") \/ UNCHANGED lease)
  BY DEF U!DeletePmp, U!GiveUp
<1>2. missed \in Nat
  BY DEF PortInv, PortTypes
<1>3. U!NoJob \in Jobs /\ U!NoJob.at = "none"
  BY DEF U!NoJob, Jobs
<1>4. lease' \in [U!Ports -> Leases] /\ \A q \in U!Ports : lease'[q].who = "edge" => lease'[q] = lease[q]
  BY <1>1, Removing DEF PortInv
<1>5. missed' \in Nat /\ (missed' = 0 => missed = 0 /\ job.at = "delete_pmp")
  BY <1>2 DEF U!DeletePmp, U!GiveUp, U!Lost, U!Fine
<1>6. PortTypes'
  BY <1>1, <1>3, <1>4, <1>5 DEF PortInv, PortTypes
<1>7. PortPhases'
  BY <1>1, <1>3 DEF PortPhases, Searching
<1>8. ASSUME missed' = 0 PROVE PortKept'
  <2>1. PortKept /\ job.at = "delete_pmp"
    BY <1>5, <1>8 DEF PortInv
  <2>2. phase = "exit"
    BY <2>1 DEF PortInv, PortTypes, PortPhases, U!NoJob, Searching
  <2>3. ASSUME "ip2" \in speaks, NEW p \in U!Ports, lease'[p].who = "edge", lease'[p].by = "igd" PROVE FALSE
    BY <1>4, <2>1, <2>2, <2>3 DEF PortKept
  <2> QED BY <2>1, <2>3, <1>1, <1>3 DEF PortKept
<1> QED BY <1>6, <1>7, <1>8 DEF PortInv

\* Time: the lease lasts as long as it has not been renewed for.
LEMMA PortTickStep == PortInv /\ U!Tick => PortInv'
<1> SUFFICES ASSUME PortInv, U!Tick PROVE PortInv'
  OBVIOUS
<1> USE PortConstants
<1>1. phase \in {"run", "gone"} /\ job = U!NoJob /\ U!NoJob.at = "none"
      /\ (phase = "run" /\ mapped # 0 => ~(last > U!UPNP_RENEW_THRESHOLD))
      /\ lease' = [p \in U!Ports |-> IF lease[p].who = "edge" THEN U!Aged(lease[p]) ELSE lease[p]]
      /\ last' = (IF last > UPNP_LEASE_TIME THEN last ELSE last + 1)
      /\ UNCHANGED <<speaks, cached, network, mapped, job, phase, missed>>
  BY DEF U!Tick, U!NoJob, U!RenewDue
<1>2. lease \in [U!Ports -> Leases] /\ last \in 0 .. (UPNP_LEASE_TIME + 1) /\ mapped \in U!Ports \cup {0}
  BY DEF PortInv, PortTypes
<1>3. ASSUME NEW l \in Leases
      PROVE  /\ U!Aged(l) \in Leases
             /\ U!Aged(l).who = "edge" => l.who = "edge" /\ U!Aged(l).by = l.by
             /\ l.left > 1 => U!Aged(l).who = l.who /\ U!Aged(l).left = l.left - 1
  <2>1. U!Free \in Leases /\ U!Free.who = "nobody"
    BY DEF U!Free, Leases
  <2>2. l.left > 1 => U!Aged(l) \in Leases /\ U!Aged(l).who = l.who /\ U!Aged(l).by = l.by /\ U!Aged(l).left = l.left - 1
    BY DEF U!Aged, Leases
  <2> QED BY <2>1, <2>2 DEF U!Aged
<1>4. lease' \in [U!Ports -> Leases]
      /\ \A p \in U!Ports : lease'[p].who = "edge" => lease[p].who = "edge" /\ lease'[p].by = lease[p].by
  BY <1>1, <1>2, <1>3
<1>5. PortTypes'
  BY <1>1, <1>2, <1>4 DEF PortInv, PortTypes
<1>6. PortPhases'
  BY <1>1 DEF PortInv, PortPhases
<1>7. ASSUME missed' = 0 PROVE PortKept'
  <2>1. PortKept
    BY <1>1, <1>7 DEF PortInv
  <2>2. CASE phase = "gone"
    BY <2>1, <2>2, <1>1, <1>4 DEF PortKept, Searching
  <2>3. CASE phase = "run" /\ mapped = 0
    BY <2>1, <2>3, <1>1, <1>4 DEF PortKept, Searching
  <2>4. CASE phase = "run" /\ mapped # 0
    <3>1. last <= U!UPNP_RENEW_THRESHOLD /\ lease[mapped].left + last >= UPNP_LEASE_TIME /\ speaks # {}
          /\ \A p \in U!Ports : lease[p].who = "edge" <=> p = mapped
      BY <2>1, <2>4, <1>1, <1>2 DEF PortKept
    <3>2. mapped \in U!Ports /\ lease[mapped] \in Leases /\ lease[mapped].left \in Nat /\ lease[mapped].left > 1
      BY <3>1, <2>4, <1>2 DEF Leases
    <3>3. lease'[mapped].who = "edge" /\ lease'[mapped].left = lease[mapped].left - 1
      BY <3>1, <3>2, <1>1, <1>3
    <3>4. last' = last + 1
      BY <3>1, <1>1, <1>2
    <3>5. last' <= U!UPNP_RENEW_THRESHOLD + 1 /\ lease'[mapped].left + last' >= UPNP_LEASE_TIME
      BY <3>1, <3>2, <3>3, <3>4, <1>2
    <3> QED BY <2>1, <2>4, <3>1, <3>3, <3>5, <1>1, <1>4 DEF PortKept, Searching
  <2> QED BY <1>1, <2>2, <2>3, <2>4
<1> QED BY <1>5, <1>6, <1>7 DEF PortInv

\* The other host has no part in the edge's leases; a new network has none of them.
LEMMA OthersStep == PortInv /\ ((\E p \in U!Ports : U!Other(p)) \/ U!Moved) => PortInv'
<1> USE PortConstants
<1>1. U!Free \in Leases /\ U!Free.who = "nobody"
  BY DEF U!Free, Leases
<1>2. ASSUME PortInv, NEW p \in U!Ports, U!Other(p) PROVE PortInv'
  <2> DEFINE held == [who |-> "other", left |-> 1, by |-> "igd"]
  <2>1. held \in Leases /\ held.who = "other"
    BY DEF Leases
  <2>2. lease' \in [U!Ports -> Leases] /\ lease[p].who # "edge" /\ lease'[p].who # "edge"
        /\ (\A q \in U!Ports : q # p => lease'[q] = lease[q])
        /\ UNCHANGED <<speaks, cached, network, mapped, last, job, phase, missed>>
    BY <1>1, <1>2, <2>1 DEF U!Other, PortInv, PortTypes
  <2>3. \A q \in U!Ports : (lease'[q].who = "edge" <=> lease[q].who = "edge")
                           /\ (lease[q].who = "edge" => lease'[q] = lease[q])
    BY <2>2
  <2>4. PortTypes' /\ PortPhases'
    BY <1>2, <2>2 DEF PortInv, PortTypes, PortPhases
  <2>5. ASSUME missed' = 0 PROVE PortKept'
    <3>1. PortKept
      BY <1>2, <2>2, <2>5 DEF PortInv
    <3>2. phase = "run" /\ mapped # 0 => lease'[mapped] = lease[mapped]
      BY <1>2, <2>3, <3>1 DEF PortKept, PortInv, PortTypes
    <3>3. U!HasIgd' = U!HasIgd
      BY <2>2 DEF U!HasIgd
    <3>4. \A q \in U!Ports : lease'[q].who = "edge" => lease'[q].by = lease[q].by
      BY <2>3
    <3> QED BY <2>2, <2>3, <3>1, <3>2, <3>3, <3>4 DEF PortKept, U!Services
  <2> QED BY <2>4, <2>5 DEF PortInv
<1>3. ASSUME PortInv, U!Moved PROVE PortInv'
  <2>1. lease' \in [U!Ports -> Leases] /\ network' \in Nat \ {0} /\ missed' \in Nat /\ missed' # 0
        /\ UNCHANGED <<speaks, cached, mapped, last, job, phase>>
    BY <1>1, <1>3 DEF U!Moved, U!Lost, PortInv, PortTypes
  <2> QED BY <1>3, <2>1 DEF PortInv, PortTypes, PortPhases
<1> QED BY <1>2, <1>3

\* PortInv is inductive, and it is what Upnp promises.
LEMMA PortNext == PortInv /\ [U!Next]_portVars => PortInv'
<1>1. PortInv /\ UNCHANGED portVars => PortInv'
  BY DEF portVars, PortInv, PortTypes, PortPhases, PortKept, U!HasIgd, U!Services
<1> QED BY <1>1, DiscoverStep, CheckPortStep, AddPortMappingStep, PcpStep, PmpStep, RenewStep, ExitStep,
           DeleteStep, EndStep, PortTickStep, OthersStep DEF U!Next

LEMMA PortPromise == PortInv => U!TypeOK /\ U!Held /\ U!LeavesNothing
<1> SUFFICES ASSUME PortInv PROVE U!TypeOK /\ U!Held /\ U!LeavesNothing
  OBVIOUS
<1> USE PortConstants
<1>1. U!TypeOK
  BY DEF PortInv, PortTypes, U!TypeOK, Leases
<1>2. U!Held
  BY DEF U!Held, U!Ours, PortInv, PortTypes, PortKept
<1>3. U!LeavesNothing
  <2>1. phase = "gone" => job.at = "none"
    BY DEF PortInv, PortPhases, U!NoJob
  <2> QED BY <2>1 DEF U!LeavesNothing, U!Ours, PortInv, PortKept
<1> QED BY <1>1, <1>2, <1>3

\* The part that runs stays the part that runs: a theorem about each of them.
THEOREM MappingHolds == PartSpec => []Mapped
<1> DEFINE Inv == part = "port" => PortInv
<1>1. PartInit => Inv
  BY PortInit DEF PartInit
<1>2. Inv /\ [PartNext]_all => Inv'
  <2> SUFFICES ASSUME Inv, [PartNext]_all, part' = "port" PROVE PortInv'
    OBVIOUS
  <2>1. part = "port"
    BY DEF PartNext, all
  <2>2. [U!Next]_portVars
    BY <2>1 DEF PartNext, all
  <2> QED BY <2>1, <2>2, PortNext
<1>3. Inv => Mapped
  BY PortPromise DEF Mapped
<1> QED BY <1>1, <1>2, <1>3, PTL DEF PartSpec

-----------------------------------------------------------------------------
(* Frames from one TAP device to the other.                                *)

Transops == {"null", "twofish", "aes", "cc20", "speck"}
HeaderOf(form) == IF form = "compact" THEN F!CompactHeader ELSE F!LegacyHeader

\* A datagram is one that send_packet2net built with the options its sender has.
SentBy(d) ==
    LET t == conf[d.from].transop
        n == F!fwd(t, d.frame.size, N2N_PKT_BUF_SIZE - HeaderOf(d.form))
    IN  /\ d.form \in {"compact", "legacy"} /\ d.from \in Hosts /\ d.to \in Hosts /\ d.from # d.to
        /\ d.frame \in F!Frame /\ (d.frame.kind = "routed" => conf[d.from].opt.routing)
        /\ d.transform = t /\ d.sched = conf[d.from].sched /\ d.stub = (n = F!No)
        /\ ~d.stub => d.psize = n - 1
        /\ d.stub => d.psize \in {1, 5}
        /\ d.pad = F!Padding(d.frame.size) /\ d.v1 \in BOOLEAN /\ (t # "null" => d.v1)

FrameInv ==
    /\ \A e \in Hosts : conf[e].transop \in Transops
    /\ tap \in [Hosts -> Seq(F!Frame)]
    /\ \A d \in datagrams : SentBy(d)
    /\ ip \in [Hosts -> {"none", "own", "other", "junk"}]
    /\ F!Intact /\ F!AddressOwn

\* The constants of Frames.
LEMMA FrameConstants ==
    /\ Sizes \subseteq Nat /\ N2N_PKT_BUF_SIZE \in Nat /\ N2N_TRANSFORM_BUF_SIZE \in Nat
    /\ \A o \in Configs : o.mode \in 0 .. 5
    /\ \A a \in Hosts, b \in Hosts, c \in Hosts : a # b => c = a \/ c = b
    /\ \A f \in F!Frame : f # F!Junk /\ f.size \in Sizes
    /\ F!CompactHeader = 10 /\ F!LegacyHeader = 34
<1>1. Sizes \subseteq Nat /\ N2N_PKT_BUF_SIZE \in Nat /\ N2N_TRANSFORM_BUF_SIZE \in Nat
      /\ (\E a, b \in Hosts : a # b /\ Hosts = {a, b}) /\ \A o \in Configs : o.mode \in 0 .. 5
  BY LinkAssumed DEF F!FramesAssumption
<1>3. \A a \in Hosts, b \in Hosts, c \in Hosts : a # b => c = a \/ c = b
  BY <1>1
<1>4. \A f \in F!Frame : f # F!Junk /\ f.size \in Sizes
  <2> SUFFICES ASSUME NEW f \in F!Frame PROVE f # F!Junk /\ f.size \in Sizes
    OBVIOUS
  <2>1. f.kind \in F!Kind /\ f.size \in Sizes
    BY DEF F!Frame
  <2>2. F!Junk.kind = "junk"
    BY DEF F!Junk
  <2> QED BY <2>1, <2>2 DEF F!Kind
<1> QED BY <1>1, <1>3, <1>4 DEF F!CompactHeader, F!LegacyHeader

\* What a transform has done, its rev undoes: padding, preamble and all.
LEMMA RoundTrip ==
    ASSUME NEW t \in Transops, NEW n \in Nat, NEW out \in Int, NEW v1, t = "null" \/ v1 = TRUE,
           F!fwd(t, n, out) # F!No
    PROVE  F!rev(t, F!fwd(t, n, out) - 1, v1, TRUE, F!Padding(n)) = {n}
<1>1. F!No = 0
  BY DEF F!No
<1>2. CASE t = "null"
  BY <1>1, <1>2 DEF F!fwd, F!rev, F!transop_encode_null, F!transop_decode_null
<1>3. CASE t = "twofish"
  BY <1>1, <1>3 DEF F!fwd, F!rev, F!transop_encode_twofish, F!transop_decode_twofish, F!TfPreamble, F!TRANSOP_TF_NONCE_SIZE
<1>4. CASE t = "aes"
  <2>1. F!fwd(t, n, out) = F!Padded(n) + 10
    <3>1. F!fwd(t, n, out) = F!transop_encode_aes(n, out)
      BY <1>4 DEF F!fwd
    <3>2. F!transop_encode_aes(n, out) \in {F!Padded(n) + (1 + 8) + 1, 0}
      BY <1>1 DEF F!transop_encode_aes, F!TRANSOP_AES_PREAMBLE_SIZE
    <3>3. F!Padded(n) \in Int
      BY DEF F!Padded, F!N2N_AES_BLOCK_SIZE
    <3> QED BY <1>1, <3>1, <3>2, <3>3
  <2>2. F!Padded(n) \in Nat /\ F!Padded(n) % 16 = 0 /\ F!Padded(n) >= 16
    <3>1. F!Padded(n) = (n \div 16 + 1) * 16 /\ n \div 16 \in Nat
      BY DEF F!Padded, F!N2N_AES_BLOCK_SIZE
    <3> QED BY <3>1
  <2>3. F!rev(t, F!Padded(n) + 9, v1, TRUE, F!Padding(n)) = F!transop_decode_aes(F!Padded(n) + 9, v1, TRUE, F!Padding(n))
    BY <1>4 DEF F!rev
  <2>4. F!transop_decode_aes(F!Padded(n) + 9, v1, TRUE, F!Padding(n)) = {F!Padded(n) - F!Padding(n)}
    BY <2>2, <1>4 DEF F!transop_decode_aes, F!TRANSOP_AES_PREAMBLE_SIZE, F!N2N_AES_BLOCK_SIZE
  <2>5. F!Padded(n) - F!Padding(n) = n
    BY <2>2 DEF F!Padding
  <2>6. F!fwd(t, n, out) - 1 = F!Padded(n) + 9
    BY <2>1, <2>2
  <2> QED BY <2>3, <2>4, <2>5, <2>6
<1>5. CASE t = "cc20"
  BY <1>1, <1>5 DEF F!fwd, F!rev, F!transop_encode_cc20, F!transop_decode_cc20, F!TRANSOP_CC20_PREAMBLE_SIZE
<1>6. CASE t = "speck"
  BY <1>1, <1>6 DEF F!fwd, F!rev, F!transop_encode_speck, F!transop_decode_speck, F!SpeckPreamble
<1> QED BY <1>2, <1>3, <1>4, <1>5, <1>6 DEF Transops

\* What is left of a frame that fwd refused is too short for any transform:
\* nothing comes of it, or Speck's -1.
LEMMA StubShort ==
    ASSUME NEW t \in Transops, NEW n \in {1, 5}, NEW v1, NEW pad, NEW size \in F!rev(t, n, v1, FALSE, pad)
    PROVE  size \in {0, 1, 5} \/ (size = F!Huge /\ t = "speck")
<1>1. CASE t = "null"
  BY <1>1 DEF F!rev, F!transop_decode_null
<1>2. CASE t = "twofish"
  BY <1>2 DEF F!rev, F!transop_decode_twofish, F!TfPreamble, F!TRANSOP_TF_NONCE_SIZE
<1>3. CASE t = "aes"
  BY <1>3 DEF F!rev, F!transop_decode_aes, F!TRANSOP_AES_PREAMBLE_SIZE, F!N2N_AES_BLOCK_SIZE
<1>4. CASE t = "cc20"
  BY <1>4 DEF F!rev, F!transop_decode_cc20, F!TRANSOP_CC20_PREAMBLE_SIZE
<1>5. CASE t = "speck"
  BY <1>5 DEF F!rev, F!transop_decode_speck, F!SpeckPreamble
<1> QED BY <1>1, <1>2, <1>3, <1>4, <1>5 DEF Transops

\* Whatever an edge is started with ends in one of the transforms.
LEMMA FrameInit == F!Init => FrameInv
<1> SUFFICES ASSUME F!Init PROVE FrameInv
  OBVIOUS
<1>1. ASSUME NEW e \in Hosts PROVE conf[e].transop \in Transops
  <2>1. PICK o \in {c \in Configs : F!Starts(c)} :
            conf[e] \in {[opt |-> o, transop |-> F!setup_encryption(o), sched |-> s] : s \in F!Schedules(o)}
    BY DEF F!Init
  <2>2. conf[e].transop = F!setup_encryption(o)
    BY <2>1
  <2>3. F!ModeOf(o) \in 1 .. 5
    BY <2>1, FrameConstants DEF F!ModeOf
  <2>4. F!transop_enum[F!ModeOf(o)] \in Transops
    BY <2>3 DEF F!transop_enum, Transops
  <2> QED BY <2>2, <2>4 DEF F!setup_encryption, Transops
<1>2. tap \in [Hosts -> Seq(F!Frame)] /\ datagrams = {} /\ wrote = F!Nothing
      /\ ip = [e \in Hosts |-> "none"]
  BY DEF F!Init
<1> QED BY <1>1, <1>2 DEF FrameInv, F!Intact, F!AddressOwn

\* A datagram that is sent fits the sender's options: readFromTAPSocket, send_packet2net.
LEMMA SendStep == ASSUME FrameInv, NEW e \in Hosts, F!readFromTAPSocket(e) PROVE FrameInv'
<1>1. PICK p \in Hosts \ {e} : datagrams' = datagrams \cup F!send_packet2net(e, p, F!Taken(e))
  BY DEF F!readFromTAPSocket
<1>2. tap' = [tap EXCEPT ![e] = <<>>] /\ UNCHANGED <<conf, knows, compact, ip, wrote>>
  BY DEF F!readFromTAPSocket
<1>3. F!Taken(e) \subseteq F!Frame
  BY DEF F!Taken, FrameInv
<1>4. ASSUME NEW f \in F!Taken(e), ~F!Routed(e, f) PROVE SentBy(F!Datagram(e, p, f))
  <2> DEFINE d == F!Datagram(e, p, f)
             form == IF p \in compact[e] THEN "compact" ELSE "legacy"
             n == F!fwd(conf[e].transop, f.size, N2N_PKT_BUF_SIZE - HeaderOf(form))
  <2>1. /\ d.form = form /\ d.from = e /\ d.to = p /\ d.frame = f /\ d.transform = conf[e].transop
        /\ d.sched = conf[e].sched /\ d.stub = (n = F!No)
        /\ d.psize = (IF n # F!No THEN n - 1 ELSE IF form = "compact" THEN 5 ELSE 1)
        /\ d.pad = F!Padding(f.size) /\ d.v1 = (conf[e].transop # "null" \/ F!is_ethMulticast(f))
    BY DEF F!Datagram, F!edge_choose_tx_transop, HeaderOf
  <2>2. f \in F!Frame /\ (f.kind = "routed" => conf[e].opt.routing)
    BY <1>3, <1>4 DEF F!Routed
  <2>3. F!is_ethMulticast(f) \in BOOLEAN
    BY DEF F!is_ethMulticast
  <2> HIDE DEF d
  <2>4. F!fwd(conf[d.from].transop, d.frame.size, N2N_PKT_BUF_SIZE - HeaderOf(d.form)) = n
    BY <2>1
  <2>5. form \in {"compact", "legacy"}
    OBVIOUS
  <2> HIDE DEF n, form
  <2>6. d.stub = (n = F!No) /\ (~d.stub => d.psize = n - 1) /\ (d.stub => d.psize \in {1, 5})
    BY <2>1
  <2>7. d.v1 \in BOOLEAN /\ (conf[e].transop # "null" => d.v1)
    BY <2>1, <2>3
  <2>8. d.form \in {"compact", "legacy"} /\ d.from \in Hosts /\ d.to \in Hosts /\ d.from # d.to
    BY <2>1, <2>5
  <2>9. SentBy(d)
    BY <2>1, <2>2, <2>4, <2>6, <2>7, <2>8 DEF SentBy
  <2> QED BY <2>9 DEF d
<1>5. \A d \in datagrams' : SentBy(d)
  BY <1>1, <1>4 DEF F!send_packet2net, FrameInv
<1>6. \A d \in datagrams' : SentBy(d)'
  BY <1>2, <1>5 DEF SentBy
<1>7. tap' \in [Hosts -> Seq(F!Frame)]
  BY <1>2 DEF FrameInv
<1> QED BY <1>2, <1>6, <1>7 DEF FrameInv, F!Intact, F!AddressOwn, F!Alike

\* What the receiver makes of a datagram that its transform could be: its
\* length, if it could read it, and Speck's -1, if there was nothing to read.
LEMMA Undone ==
    ASSUME FrameInv, NEW e \in Hosts, NEW d \in datagrams, d.to = e, conf[e].transop \in F!TransformOf(e, d),
           NEW size \in F!rev(conf[e].transop, d.psize, d.v1, F!Readable(e, d), d.pad)
    PROVE  /\ F!Readable(e, d) => size = d.frame.size
           /\ d.stub => size \in {0, 1, 5} \/ (size = F!Huge /\ conf[e].transop = "speck")
           /\ d.form = "legacy" /\ ~d.stub => conf[e].transop = conf[d.from].transop
<1>1. SentBy(d) /\ conf[e].transop \in Transops /\ conf[d.from].transop \in Transops
  BY DEF FrameInv, SentBy
<1>2. ASSUME F!Readable(e, d) PROVE size = d.frame.size
  <2> DEFINE t == conf[e].transop
             out == N2N_PKT_BUF_SIZE - HeaderOf(d.form)
             n == F!fwd(t, d.frame.size, out)
  <2>1. ~d.stub /\ t = conf[d.from].transop
    BY <1>1, <1>2 DEF F!Readable, SentBy
  <2>2. n # F!No /\ d.psize = n - 1 /\ d.pad = F!Padding(d.frame.size) /\ d.v1 \in BOOLEAN /\ (t # "null" => d.v1)
    BY <1>1, <2>1 DEF SentBy
  <2>3. out \in Int /\ d.frame.size \in Nat
    <3>1. HeaderOf(d.form) \in Nat
      BY FrameConstants DEF HeaderOf
    <3>2. d.frame \in F!Frame
      BY <1>1 DEF SentBy
    <3>3. d.frame.size \in Sizes
      BY <3>2, FrameConstants
    <3>4. out \in Int
      BY <3>1, FrameConstants
    <3>5. d.frame.size \in Nat
      BY <3>3, FrameConstants
    <3> QED BY <3>4, <3>5
  <2>4. F!rev(t, n - 1, d.v1, TRUE, F!Padding(d.frame.size)) = {d.frame.size}
    <3> HIDE DEF out, t
    <3>1. t \in Transops /\ F!fwd(t, d.frame.size, out) # F!No /\ n = F!fwd(t, d.frame.size, out)
      BY <1>1, <2>2 DEF t
    <3>2. F!rev(t, F!fwd(t, d.frame.size, out) - 1, d.v1, TRUE, F!Padding(d.frame.size)) = {d.frame.size}
      <4>1. t = "null" \/ d.v1 = TRUE
        BY <2>2
      <4> DEFINE size0 == d.frame.size
                 v1 == d.v1
      <4>2. t \in Transops /\ size0 \in Nat /\ out \in Int /\ (t = "null" \/ v1 = TRUE) /\ F!fwd(t, size0, out) # F!No
        BY <4>1, <3>1, <2>3
      <4> HIDE DEF size0, v1
      <4>3. F!rev(t, F!fwd(t, size0, out) - 1, v1, TRUE, F!Padding(size0)) = {size0}
        BY <4>2, RoundTrip
      <4> QED BY <4>3 DEF size0, v1
    <3> QED BY <3>1, <3>2, <2>2
  <2>5. F!Readable(e, d) = TRUE
    BY <1>2 DEF F!Readable
  <2> HIDE DEF n, out, t
  <2>6. size \in F!rev(t, n - 1, d.v1, TRUE, F!Padding(d.frame.size))
    BY <2>2, <2>5 DEF t
  <2> QED BY <2>4, <2>6
<1>3. ASSUME d.stub PROVE size \in {0, 1, 5} \/ (size = F!Huge /\ conf[e].transop = "speck")
  <2>1. F!Readable(e, d) = FALSE /\ d.psize \in {1, 5}
    BY <1>1, <1>3 DEF F!Readable, SentBy
  <2>2. size \in F!rev(conf[e].transop, d.psize, d.v1, FALSE, d.pad)
    BY <2>1
  <2> QED BY <1>1, <2>1, <2>2, StubShort
<1>4. d.form = "legacy" /\ ~d.stub => conf[e].transop = conf[d.from].transop
  BY <1>1 DEF F!TransformOf, SentBy
<1> QED BY <1>2, <1>3, <1>4

\* A frame that is written is the one that was sent, or the transforms differ in
\* the key: tuntap_write behind handle_PACKET.
LEMMA WriteSound ==
    ASSUME FrameInv, NEW e \in Hosts, NEW d \in datagrams, d.to = e, conf[e].transop \in F!TransformOf(e, d),
           NEW size \in F!rev(conf[e].transop, d.psize, d.v1, F!Readable(e, d), d.pad),
           wrote' = F!tuntap_write(e, d, size), UNCHANGED conf
    PROVE  F!Intact'
<1>1. SentBy(d) /\ F!Intact
  BY DEF FrameInv
<1>2. CASE size < F!ETH_FRAMESIZE \/ size = F!Huge
  BY <1>1, <1>2 DEF F!tuntap_write, F!Intact, F!Alike
<1>3. CASE ~(size < F!ETH_FRAMESIZE \/ size = F!Huge)
  <2>1. wrote' = [at |-> e, frame |-> IF F!Readable(e, d) /\ size = d.frame.size THEN d.frame ELSE F!Junk,
                  from |-> d.from, form |-> d.form]
    BY <1>3 DEF F!tuntap_write
  <2>2. ~d.stub
    BY <1>3, Undone DEF F!ETH_FRAMESIZE
  <2>3. d.form = "legacy" => conf[e].transop = conf[d.from].transop
    BY <2>2, Undone
  <2>4. d.frame # F!Junk
    BY <1>1, FrameConstants DEF SentBy
  <2>5. wrote'.frame = F!Junk => ~F!Readable(e, d)
    BY <2>1, <2>4, Undone
  <2>6. ~F!Readable(e, d) => ~F!Alike(e, d.from)
    BY <1>1, <2>2 DEF F!Readable, F!Alike, SentBy
  <2> QED BY <2>1, <2>3, <2>5, <2>6 DEF F!Intact, F!Alike
<1> QED BY <1>2, <1>3

\* The address that is learned is the sender's own, or came of bytes that are no frame.
LEMMA LearnSound ==
    ASSUME FrameInv, NEW e \in Hosts, NEW d \in datagrams, d.to = e, conf[e].transop \in F!TransformOf(e, d),
           NEW size \in F!rev(conf[e].transop, d.psize, d.v1, F!Readable(e, d), d.pad),
           NEW a \in F!LearnsIp(e, d, size)
    PROVE  /\ a \in {"none", "own", "other", "junk"}
           /\ \A p \in Hosts \ {e} :
                /\ a = "other" => conf[p].opt.routing
                /\ a = "junk" => ~F!Alike(e, p) \/ (F!Oversize /\ conf[e].transop = "speck")
<1>1. SentBy(d) /\ F!AddressOwn /\ ip[e] \in {"none", "own", "other", "junk"}
  BY DEF FrameInv
<1>2. d.from # e /\ \A p \in Hosts \ {e} : p = d.from
  BY <1>1, FrameConstants DEF SentBy
<1>3. CASE a = ip[e]
  BY <1>1, <1>3 DEF F!AddressOwn
<1>4. CASE a = "none"
  BY <1>4
<1>5. CASE a # ip[e] /\ a # "none"
  <2>1. ~(size < 34)
    BY <1>5 DEF F!LearnsIp
  <2>2. CASE F!Readable(e, d)
    <3>1. a \in {"own", "other"} /\ (a = "other" => d.frame.kind = "routed")
      <4>1. d.frame.kind \in {"own", "routed", "arp", "mcast"}
        BY <1>1 DEF SentBy, F!Frame, F!Kind
      <4> QED BY <1>5, <2>1, <2>2, <4>1 DEF F!LearnsIp
    <3> QED BY <1>1, <1>2, <3>1 DEF SentBy
  <2>3. CASE ~F!Readable(e, d)
    <3>1. a = "junk"
      BY <1>5, <2>1, <2>3 DEF F!LearnsIp
    <3>2. CASE ~d.stub
      BY <1>1, <1>2, <2>3, <3>1, <3>2 DEF F!Readable, F!Alike, SentBy
    <3>3. CASE d.stub
      <4>1. conf[e].transop = "speck"
        BY <2>1, <3>3, Undone
      <4>2. CASE conf[d.from].transop # "speck"
        BY <1>2, <3>1, <4>1, <4>2 DEF F!Alike
      <4>3. CASE conf[d.from].transop = "speck"
        <5>1. F!fwd("speck", d.frame.size, N2N_PKT_BUF_SIZE - HeaderOf(d.form)) = 0
          BY <1>1, <3>3, <4>3 DEF SentBy, F!No
        <5>2. d.frame.size \in Sizes /\ d.frame.size \in Nat
          BY <1>1, FrameConstants DEF SentBy
        <5>3. HeaderOf(d.form) <= 34 /\ HeaderOf(d.form) \in Nat
          BY FrameConstants DEF HeaderOf
        <5>4. d.frame.size + 17 > N2N_PKT_BUF_SIZE - HeaderOf(d.form)
          BY <5>1, <5>2, <5>3, FrameConstants DEF F!fwd, F!transop_encode_speck, F!SpeckPreamble
        <5>5. F!Oversize
          BY <5>2, <5>3, <5>4, FrameConstants DEF F!Oversize, F!SpeckPreamble
        <5> QED BY <3>1, <4>1, <5>5
      <4> QED BY <4>2, <4>3
    <3> QED BY <3>2, <3>3
  <2> QED BY <2>2, <2>3
<1> QED BY <1>3, <1>4, <1>5

\* readFromIPSocket: a datagram is taken from the network, undone and written, or refused.
LEMMA ReceiveStep == ASSUME FrameInv, NEW e \in Hosts, F!readFromIPSocket(e) PROVE FrameInv'
<1>1. UNCHANGED <<conf, tap>>
  BY DEF F!readFromIPSocket
<1>2. PICK d \in datagrams, direct \in BOOLEAN :
        /\ d.to = e /\ datagrams' = datagrams \ {d}
        /\ \/ /\ conf[e].transop \in F!TransformOf(e, d)
              /\ \E size \in F!rev(conf[e].transop, d.psize, d.v1, F!Readable(e, d), d.pad) :
                    F!handle_PACKET(e, d, direct, size)
           \/ UNCHANGED <<ip, wrote>>
  BY DEF F!readFromIPSocket
<1>3. \A x \in datagrams' : SentBy(x)'
  BY <1>1, <1>2 DEF FrameInv, SentBy
<1>4. CASE UNCHANGED <<ip, wrote>>
  BY <1>1, <1>3, <1>4 DEF FrameInv, F!Intact, F!AddressOwn, F!Alike
<1>5. ASSUME conf[e].transop \in F!TransformOf(e, d),
             NEW size \in F!rev(conf[e].transop, d.psize, d.v1, F!Readable(e, d), d.pad),
             F!handle_PACKET(e, d, direct, size)
      PROVE  FrameInv'
  <2>1. wrote' = F!tuntap_write(e, d, size)
    BY <1>5 DEF F!handle_PACKET
  <2>2. F!Intact'
    BY <1>1, <1>2, <1>5, <2>1, WriteSound
  <2>3. PICK a : ip' = [ip EXCEPT ![e] = a] /\ (a \in F!LearnsIp(e, d, size) \/ a = ip[e])
    BY <1>5 DEF F!handle_PACKET
  <2>4. /\ a \in {"none", "own", "other", "junk"}
        /\ \A p \in Hosts \ {e} :
              /\ a = "other" => conf[p].opt.routing
              /\ a = "junk" => ~F!Alike(e, p) \/ (F!Oversize /\ conf[e].transop = "speck")
    <3>1. CASE a = ip[e]
      BY <3>1 DEF FrameInv, F!AddressOwn
    <3>2. CASE a \in F!LearnsIp(e, d, size)
      BY <1>2, <1>5, <3>2, LearnSound
    <3> QED BY <2>3, <3>1, <3>2
  <2>5. ip' \in [Hosts -> {"none", "own", "other", "junk"}] /\ ip'[e] = a /\ \A x \in Hosts : x # e => ip'[x] = ip[x]
    BY <2>3, <2>4 DEF FrameInv
  <2>6. F!AddressOwn'
    BY <1>1, <2>4, <2>5 DEF FrameInv, F!AddressOwn, F!Alike
  <2> QED BY <1>1, <1>3, <2>2, <2>5, <2>6 DEF FrameInv
<1> QED BY <1>2, <1>4, <1>5

\* What the hosts and the network do besides, and the theorem.
LEMMA FrameNext == FrameInv /\ [F!Next]_frameVars => FrameInv'
<1> SUFFICES ASSUME FrameInv, [F!Next]_frameVars PROVE FrameInv'
  OBVIOUS
<1>1. ASSUME UNCHANGED <<conf, ip, wrote>>, datagrams' \subseteq datagrams, tap' \in [Hosts -> Seq(F!Frame)]
      PROVE  FrameInv'
  <2>1. \A d \in datagrams' : SentBy(d)'
    BY <1>1 DEF FrameInv, SentBy
  <2> QED BY <1>1, <2>1 DEF FrameInv, F!Intact, F!AddressOwn, F!Alike
<1>2. tap \in [Hosts -> Seq(F!Frame)]
  BY DEF FrameInv
<1>3. ASSUME NEW e \in Hosts, NEW f \in F!Frame, F!HostSends(e, f) PROVE FrameInv'
  <2>1. tap' = [tap EXCEPT ![e] = Append(tap[e], f)] /\ UNCHANGED <<conf, datagrams, ip, wrote>>
    BY <1>3 DEF F!HostSends
  <2>2. tap' \in [Hosts -> Seq(F!Frame)]
    <3>1. Append(tap[e], f) \in Seq(F!Frame)
      BY <1>2, AppendProperties
    <3> QED BY <1>2, <2>1, <3>1
  <2> QED BY <1>1, <2>1, <2>2
<1>4. ASSUME NEW e \in Hosts, NEW p \in Hosts, F!SpeaksCompact(e, p) PROVE FrameInv'
  BY <1>1, <1>2, <1>4 DEF F!SpeaksCompact
<1>5. CASE F!Lose
  BY <1>1, <1>2, <1>5 DEF F!Lose
<1>6. CASE UNCHANGED frameVars
  BY <1>1, <1>2, <1>6 DEF frameVars
<1> QED BY <1>3, <1>4, <1>5, <1>6, SendStep, ReceiveStep DEF F!Next

\* Whatever the options of the two edges, a frame arrives as it was sent, or the
\* keys differ, and the address learned of a peer is its own (Frames).
THEOREM DeliveryHolds == PartSpec => []Delivered
<1> DEFINE Inv == part = "frames" => FrameInv
<1>1. PartInit => Inv
  BY FrameInit DEF PartInit
<1>2. Inv /\ [PartNext]_all => Inv'
  <2> SUFFICES ASSUME Inv, [PartNext]_all, part' = "frames" PROVE FrameInv'
    OBVIOUS
  <2>1. part = "frames"
    BY DEF PartNext, all
  <2>2. [F!Next]_frameVars
    BY <2>1 DEF PartNext, all
  <2> QED BY <2>1, <2>2, FrameNext
<1>3. Inv => Delivered
  BY DEF Delivered, FrameInv
<1> QED BY <1>1, <1>2, <1>3, PTL DEF PartSpec

-----------------------------------------------------------------------------
(* The stream of a connection.                                             *)

Ops == {"data", "ping", "pong", "close"}
Unit == {x \in [u : {"h1", "h2", "pay", "fin"}, op : Ops \cup {"none"}, len : Nat, id : Nat] : x.u = "fin" => x = S!Fin}
FrameUnit(op, len, id, j) ==
    [u |-> IF j = 1 THEN "h1" ELSE IF j = 2 THEN "h2" ELSE "pay", op |-> op, len |-> IF j <= 2 THEN len ELSE j - 2, id |-> id]

\* Every header in the stream begins a whole frame, and there is nothing between frames.
WholeAt(b, i) ==
    /\ b[i].op \in Ops /\ i + 1 + b[i].len <= Len(b)
    /\ \A j \in 1 .. 2 + b[i].len : b[i + j - 1] = FrameUnit(b[i].op, b[i].len, b[i].id, j)
Framed(b) ==
    \A i \in 1 .. Len(b) :
        /\ b[i].u = "h1" => WholeAt(b, i)
        /\ b[i].u \in {"h2", "pay"} =>
              \E k \in 1 .. Len(b) : k < i /\ b[k].u = "h1" /\ i <= k + 1 + b[k].len

\* The data frames in it are the packets of s behind the first n, in this order.
Data(b) == {i \in 1 .. Len(b) : b[i].u = "h1" /\ b[i].op = "data"}
Carries(b, s, n) ==
    /\ \A i \in Data(b) : \E k \in n + 1 .. Len(s) : b[i].id = s[k]
    /\ \A k \in n + 1 .. Len(s) : \E i \in Data(b) : b[i].id = s[k]
    /\ \A i \in Data(b), j \in Data(b) : i < j => b[i].id < b[j].id

\* The constants of WsStream.
LEMMA StreamConstants ==
    /\ Edge # Sn /\ Lengths \subseteq Nat /\ InFlight \in Nat
    /\ PingEvery \in Nat /\ IdleAfter \in Nat /\ StaleAfter \in Nat
    /\ PingEvery <= IdleAfter /\ PingEvery <= StaleAfter
    /\ S!Ends = {Edge, Sn} /\ \A p \in S!Ends : S!Other(p) \in S!Ends /\ S!Other(p) # p /\ S!Other(S!Other(p)) = p
BY LinkAssumed DEF S!WsAssumption, S!Ends, S!Other

\* The frames that ws_build_frame builds.
LEMMA BuiltFrame ==
    ASSUME NEW op \in Ops, NEW len \in Nat, NEW id \in Nat
    PROVE  /\ S!ws_build_frame(op, len, id) \in Seq(Unit) /\ Len(S!ws_build_frame(op, len, id)) = 2 + len
           /\ \A j \in 1 .. 2 + len : S!ws_build_frame(op, len, id)[j] = FrameUnit(op, len, id, j)
<1> DEFINE h == <<[u |-> "h1", op |-> op, len |-> len, id |-> id], [u |-> "h2", op |-> op, len |-> len, id |-> id]>>
           pay == [i \in 1 .. len |-> [u |-> "pay", op |-> op, len |-> i, id |-> id]]
<1>1. S!ws_build_frame(op, len, id) = h \o pay
  BY DEF S!ws_build_frame
<1>2. h \in Seq(Unit) /\ Len(h) = 2 /\ h[1] = FrameUnit(op, len, id, 1) /\ h[2] = FrameUnit(op, len, id, 2)
  <2>1. [u |-> "h1", op |-> op, len |-> len, id |-> id] \in Unit /\ [u |-> "h2", op |-> op, len |-> len, id |-> id] \in Unit
    BY DEF Unit
  <2> QED BY <2>1 DEF FrameUnit
<1>3. pay \in Seq(Unit) /\ Len(pay) = len
  <2>1. \A i \in 1 .. len : [u |-> "pay", op |-> op, len |-> i, id |-> id] \in Unit
    BY DEF Unit
  <2> QED BY <2>1
<1>4. \A i \in 1 .. len : pay[i] = FrameUnit(op, len, id, 2 + i)
  BY DEF FrameUnit
<1> HIDE DEF h, pay
<1>5. h \o pay \in Seq(Unit) /\ Len(h \o pay) = 2 + len
      /\ \A j \in 1 .. 2 + len : (h \o pay)[j] = IF j <= 2 THEN h[j] ELSE pay[j - 2]
  <2>1. h \o pay \in Seq(Unit) /\ Len(h \o pay) = Len(h) + Len(pay)
        /\ \A j \in 1 .. Len(h) + Len(pay) : (h \o pay)[j] = IF j <= Len(h) THEN h[j] ELSE pay[j - Len(h)]
    BY <1>2, <1>3, ConcatProperties
  <2> QED BY <2>1, <1>2, <1>3
<1>6. ASSUME NEW j \in 1 .. 2 + len PROVE (h \o pay)[j] = FrameUnit(op, len, id, j)
  <2>1. CASE j <= 2
    <3>1. j = 1 \/ j = 2
      BY <2>1
    <3> QED BY <2>1, <3>1, <1>2, <1>5
  <2>2. CASE ~(j <= 2)
    <3>1. j - 2 \in 1 .. len /\ 2 + (j - 2) = j
      BY <2>2
    <3> QED BY <2>2, <3>1, <1>4, <1>5
  <2> QED BY <2>1, <2>2
<1> QED BY <1>1, <1>5, <1>6

\* What a unit of a frame is.
LEMMA FrameUnits ==
    ASSUME NEW op \in Ops, NEW len \in Nat, NEW id \in Nat, NEW j \in 1 .. 2 + len
    PROVE  /\ FrameUnit(op, len, id, j).u = "h1" <=> j = 1
           /\ FrameUnit(op, len, id, j).u \in {"h1", "h2", "pay"}
           /\ FrameUnit(op, len, id, j).op = op /\ FrameUnit(op, len, id, j).id = id
           /\ j = 1 => FrameUnit(op, len, id, j).len = len
BY DEF FrameUnit

\* Two streams of frames, one behind the other, are a stream of frames.
LEMMA FramedConcat ==
    ASSUME NEW b \in Seq(Unit), NEW c \in Seq(Unit), Framed(b), Framed(c)
    PROVE  Framed(b \o c)
<1> DEFINE d == b \o c
           n == Len(b)
<1>1. d \in Seq(Unit) /\ n \in Nat /\ Len(c) \in Nat /\ Len(d) = n + Len(c)
      /\ (\A i \in 1 .. n : d[i] = b[i]) /\ (\A i \in 1 .. Len(c) : d[n + i] = c[i])
  <2>1. d \in Seq(Unit) /\ Len(d) = n + Len(c)
        /\ \A i \in 1 .. n + Len(c) : d[i] = IF i <= n THEN b[i] ELSE c[i - n]
    BY ConcatProperties
  <2>2. n \in Nat /\ Len(c) \in Nat
    OBVIOUS
  <2> HIDE DEF d, n
  <2>3. \A i \in 1 .. n : d[i] = b[i]
    BY <2>1, <2>2
  <2>4. ASSUME NEW i \in 1 .. Len(c) PROVE d[n + i] = c[i]
    <3>1. n + i \in 1 .. n + Len(c) /\ ~(n + i <= n) /\ (n + i) - n = i
      BY <2>2
    <3> QED BY <2>1, <3>1
  <2> QED BY <2>1, <2>2, <2>3, <2>4
<1>2. (\A i \in 1 .. n : b[i] \in Unit) /\ (\A i \in 1 .. Len(c) : c[i] \in Unit)
  BY ElementOfSeq
<1> HIDE DEF d, n
<1>3. ASSUME NEW i \in 1 .. n
      PROVE  /\ d[i].u = "h1" => WholeAt(d, i)
             /\ d[i].u \in {"h2", "pay"} => \E k \in 1 .. Len(d) : k < i /\ d[k].u = "h1" /\ i <= k + 1 + d[k].len
  <2>1. ASSUME d[i].u = "h1" PROVE WholeAt(d, i)
    <3>1. d[i] = b[i] /\ b[i].len \in Nat
      BY <1>1, <1>2 DEF Unit
    <3>2. WholeAt(b, i) /\ n = Len(b)
      BY <2>1, <3>1 DEF Framed, n
    <3>3. i + 1 + b[i].len <= n /\ b[i].op \in Ops
          /\ \A j \in 1 .. 2 + b[i].len : b[i + j - 1] = FrameUnit(b[i].op, b[i].len, b[i].id, j)
      BY <3>2 DEF WholeAt
    <3>4. ASSUME NEW j \in 1 .. 2 + b[i].len PROVE d[i + j - 1] = FrameUnit(b[i].op, b[i].len, b[i].id, j)
      <4>1. n \in Nat /\ i \in 1 .. n /\ b[i].len \in Nat /\ i + 1 + b[i].len <= n
        BY <1>1, <3>1, <3>3
      <4>2. i + j - 1 \in 1 .. n
        <5> DEFINE len == b[i].len
        <5>1. /\ n \in Nat /\ i \in Nat /\ 1 <= i /\ len \in Nat /\ i + 1 + len <= n
              /\ j \in Nat /\ 1 <= j /\ j <= 2 + len
          BY <4>1
        <5> HIDE DEF len
        <5> QED BY <5>1
      <4> QED BY <3>3, <4>2, <1>1
    <3>5. i + 1 + b[i].len <= Len(d)
      BY <3>1, <3>3, <1>1
    <3> QED BY <3>1, <3>3, <3>4, <3>5 DEF WholeAt
  <2>2. ASSUME d[i].u \in {"h2", "pay"}
        PROVE  \E k \in 1 .. Len(d) : k < i /\ d[k].u = "h1" /\ i <= k + 1 + d[k].len
    <3>1. PICK k \in 1 .. n : k < i /\ b[k].u = "h1" /\ i <= k + 1 + b[k].len
      BY <1>1, <2>2 DEF Framed, n
    <3> QED BY <3>1, <1>1
  <2> QED BY <2>1, <2>2
<1>4. ASSUME NEW i \in 1 .. Len(c)
      PROVE  /\ d[n + i].u = "h1" => WholeAt(d, n + i)
             /\ d[n + i].u \in {"h2", "pay"} => \E k \in 1 .. Len(d) : k < n + i /\ d[k].u = "h1" /\ n + i <= k + 1 + d[k].len
  <2>1. ASSUME d[n + i].u = "h1" PROVE WholeAt(d, n + i)
    <3>1. WholeAt(c, i) /\ d[n + i] = c[i] /\ c[i].len \in Nat
      BY <1>1, <1>2, <2>1 DEF Framed, Unit
    <3>2. ASSUME NEW j \in 1 .. 2 + c[i].len PROVE d[(n + i) + j - 1] = FrameUnit(c[i].op, c[i].len, c[i].id, j)
      <4>1. n \in Nat /\ Len(c) \in Nat /\ c[i].len \in Nat /\ i + 1 + c[i].len <= Len(c)
        BY <1>1, <3>1 DEF WholeAt
      <4>2. i + j - 1 \in 1 .. Len(c) /\ (n + i) + j - 1 = n + (i + j - 1)
        <5>1. i \in Nat /\ j \in Nat /\ j >= 1 /\ i >= 1 /\ j <= 2 + c[i].len
          BY <4>1
        <5>2. (n + i) + j - 1 = n + (i + j - 1)
          BY <4>1, <5>1
        <5>3. i + j - 1 >= 1 /\ i + j - 1 <= Len(c) /\ i + j - 1 \in Int
          BY <4>1, <5>1
        <5> QED BY <4>1, <5>2, <5>3
      <4>3. c[i + j - 1] = FrameUnit(c[i].op, c[i].len, c[i].id, j)
        BY <3>1 DEF WholeAt
      <4> QED BY <4>2, <4>3, <1>1
    <3>3. (n + i) + 1 + c[i].len <= Len(d) /\ c[i].op \in Ops
      <4>1. i + 1 + c[i].len <= Len(c) /\ c[i].op \in Ops
        BY <3>1 DEF WholeAt
      <4> DEFINE len == c[i].len
                 lc == Len(c)
      <4>2. len \in Nat /\ n \in Nat /\ i \in Nat /\ lc \in Nat /\ i + 1 + len <= lc /\ Len(d) = n + lc
        BY <4>1, <3>1, <1>1
      <4> HIDE DEF len, lc
      <4>3. (n + i) + 1 + len <= Len(d)
        BY <4>2
      <4> QED BY <4>1, <4>3 DEF len
    <3> QED BY <3>1, <3>2, <3>3 DEF WholeAt
  <2>2. ASSUME d[n + i].u \in {"h2", "pay"}
        PROVE  \E k \in 1 .. Len(d) : k < n + i /\ d[k].u = "h1" /\ n + i <= k + 1 + d[k].len
    <3>1. PICK k \in 1 .. Len(c) : k < i /\ c[k].u = "h1" /\ i <= k + 1 + c[k].len
      BY <1>1, <2>2 DEF Framed
    <3>2. d[n + k] = c[k] /\ c[k].len \in Nat
      BY <1>1, <1>2 DEF Unit
    <3>3. n \in Nat /\ Len(c) \in Nat /\ Len(d) = n + Len(c)
      BY <1>1
    <3>4. n + k \in 1 .. Len(d) /\ n + k < n + i
      BY <3>1, <3>3
    <3>5. n + i <= (n + k) + 1 + d[n + k].len
      <4> DEFINE len == c[k].len
      <4>1. len \in Nat /\ n \in Nat /\ i \in Nat /\ k \in Nat /\ i <= k + 1 + len
        BY <3>1, <3>2, <3>3
      <4> HIDE DEF len
      <4>2. n + i <= (n + k) + 1 + len
        BY <4>1
      <4> QED BY <4>2, <3>2 DEF len
    <3> QED BY <3>1, <3>2, <3>4, <3>5
  <2> QED BY <2>1, <2>2
<1>5. ASSUME NEW i \in 1 .. Len(d)
      PROVE  /\ d[i].u = "h1" => WholeAt(d, i)
             /\ d[i].u \in {"h2", "pay"} => \E k \in 1 .. Len(d) : k < i /\ d[k].u = "h1" /\ i <= k + 1 + d[k].len
  <2>0. n \in Nat /\ Len(c) \in Nat /\ Len(d) = n + Len(c)
    BY <1>1
  <2>1. CASE i <= n
    <3>1. i \in 1 .. n
      BY <2>0, <2>1
    <3> QED BY <3>1, <1>3
  <2>2. CASE ~(i <= n)
    <3>1. i - n \in 1 .. Len(c) /\ n + (i - n) = i
      BY <2>0, <2>2
    <3> QED BY <3>1, <1>4
  <2> QED BY <2>1, <2>2
<1> QED BY <1>5 DEF Framed, d

\* A frame is a stream of frames, and so is the end of a connection.
LEMMA FramedOne ==
    ASSUME NEW op \in Ops, NEW len \in Nat, NEW id \in Nat
    PROVE  Framed(S!ws_build_frame(op, len, id))
<1> DEFINE f == S!ws_build_frame(op, len, id)
<1>1. f \in Seq(Unit) /\ Len(f) = 2 + len /\ \A j \in 1 .. 2 + len : f[j] = FrameUnit(op, len, id, j)
  BY BuiltFrame
<1> HIDE DEF f
<1>2. 1 \in 1 .. Len(f) /\ f[1].u = "h1" /\ f[1].op = op /\ f[1].len = len /\ f[1].id = id
  BY <1>1, FrameUnits
<1>3. ASSUME NEW i \in 1 .. Len(f)
      PROVE  /\ f[i].u = "h1" => WholeAt(f, i)
             /\ f[i].u \in {"h2", "pay"} => \E k \in 1 .. Len(f) : k < i /\ f[k].u = "h1" /\ i <= k + 1 + f[k].len
  <2>1. CASE i = 1
    <3>1. \A j \in 1 .. 2 + len : 1 + j - 1 = j
      OBVIOUS
    <3>2. WholeAt(f, 1)
      BY <1>1, <1>2, <3>1 DEF WholeAt
    <3> QED BY <2>1, <3>2, <1>2
  <2>2. CASE i # 1
    <3>1. f[i].u # "h1"
      BY <1>1, <2>2, FrameUnits
    <3>2. 1 < i /\ i <= 1 + 1 + f[1].len
      BY <1>1, <1>2, <2>2
    <3> QED BY <3>1, <3>2, <1>2
  <2> QED BY <2>1, <2>2
<1> QED BY <1>3 DEF Framed, f

LEMMA FramedFin == <<S!Fin>> \in Seq(Unit) /\ Framed(<<S!Fin>>)
<1>1. S!Fin \in Unit /\ S!Fin.u = "fin"
  BY DEF S!Fin, Unit
<1>2. Len(<<S!Fin>>) = 1 /\ <<S!Fin>>[1] = S!Fin /\ <<S!Fin>> \in Seq(Unit)
  BY <1>1
<1> QED BY <1>1, <1>2 DEF Framed

\* The units behind a unit of a stream.
LEMMA RestOf ==
    ASSUME NEW T, NEW b \in Seq(T), NEW n \in 0 .. Len(b)
    PROVE  /\ SubSeq(b, n + 1, Len(b)) \in Seq(T) /\ Len(SubSeq(b, n + 1, Len(b))) = Len(b) - n
           /\ \A i \in 1 .. Len(b) - n : n + i \in 1 .. Len(b) /\ SubSeq(b, n + 1, Len(b))[i] = b[n + i]
<1>1. Len(b) \in Nat /\ \A i \in n + 1 .. Len(b) : b[i] \in T
  BY ElementOfSeq
<1>2. /\ SubSeq(b, n + 1, Len(b)) \in Seq(T)
      /\ Len(SubSeq(b, n + 1, Len(b))) = IF n + 1 <= Len(b) THEN Len(b) - (n + 1) + 1 ELSE 0
      /\ \A i \in 1 .. Len(b) - (n + 1) + 1 : SubSeq(b, n + 1, Len(b))[i] = b[(n + 1) + i - 1]
  BY <1>1, SubSeqProperties
<1>3. ASSUME NEW i \in 1 .. Len(b) - n PROVE n + i \in 1 .. Len(b) /\ SubSeq(b, n + 1, Len(b))[i] = b[n + i]
  <2>1. i \in 1 .. Len(b) - (n + 1) + 1 /\ (n + 1) + i - 1 = n + i /\ n + i \in 1 .. Len(b)
    BY <1>1
  <2> QED BY <1>2, <2>1
<1> QED BY <1>1, <1>2, <1>3

\* A unit of a frame that begins at n + i and ends before the stream does.
LEMMA Inside ==
    ASSUME NEW n \in Nat, NEW i \in Nat, NEW m \in Nat, NEW l \in Nat, NEW j \in 1 .. 2 + m, i >= 1, (n + i) + 1 + m <= l
    PROVE  i + j - 1 \in 1 .. l - n /\ (n + i) + j - 1 = n + (i + j - 1)
OBVIOUS

\* Behind the first frame of a stream of frames comes another one.
LEMMA FramedRest ==
    ASSUME NEW b \in Seq(Unit), Framed(b), 1 <= Len(b), b[1].u = "h1"
    PROVE  /\ WholeAt(b, 1) /\ b[1].len \in Nat /\ 2 + b[1].len \in 0 .. Len(b)
           /\ \A i \in 2 .. 2 + b[1].len : b[i].u \in {"h2", "pay"}
           /\ Framed(SubSeq(b, 2 + b[1].len + 1, Len(b)))
<1> DEFINE n == 2 + b[1].len
           c == SubSeq(b, n + 1, Len(b))
<1>1. Len(b) \in Nat /\ \A i \in 1 .. Len(b) : b[i] \in Unit
  BY ElementOfSeq
<1>2. 1 \in 1 .. Len(b) /\ b[1].len \in Nat /\ b[1].id \in Nat
  BY <1>1 DEF Unit
<1>3. WholeAt(b, 1)
  BY <1>2 DEF Framed
<1>4. b[1].op \in Ops /\ 1 + 1 + b[1].len <= Len(b)
      /\ \A j \in 1 .. n : b[1 + j - 1] = FrameUnit(b[1].op, b[1].len, b[1].id, j)
  BY <1>3 DEF WholeAt
<1>5. n \in Nat /\ n \in 0 .. Len(b)
  BY <1>1, <1>2, <1>4
<1>6. ASSUME NEW i \in 2 .. n PROVE b[i].u \in {"h2", "pay"}
  <2>1. i \in 1 .. n /\ 1 + i - 1 = i /\ i # 1
    BY <1>5
  <2>2. b[i] = FrameUnit(b[1].op, b[1].len, b[1].id, i)
    BY <1>4, <2>1
  <2> QED BY <2>1, <2>2, <1>2, <1>4, FrameUnits
<1>7. c \in Seq(Unit) /\ Len(c) = Len(b) - n /\ \A i \in 1 .. Len(b) - n : n + i \in 1 .. Len(b) /\ c[i] = b[n + i]
  BY <1>5, RestOf
<1> HIDE DEF n, c
<1>8. ASSUME NEW i \in 1 .. Len(c)
      PROVE  /\ c[i].u = "h1" => WholeAt(c, i)
             /\ c[i].u \in {"h2", "pay"} => \E k \in 1 .. Len(c) : k < i /\ c[k].u = "h1" /\ i <= k + 1 + c[k].len
  <2>0. i \in 1 .. Len(b) - n /\ n + i \in 1 .. Len(b) /\ c[i] = b[n + i] /\ c[i].len \in Nat /\ i \in Nat
    <3>1. i \in Nat /\ i \in 1 .. Len(b) - n
      BY <1>7
    <3>2. n + i \in 1 .. Len(b) /\ c[i] = b[n + i]
      BY <3>1, <1>7
    <3>3. b[n + i].len \in Nat
      BY <3>2, <1>1 DEF Unit
    <3> QED BY <3>1, <3>2, <3>3
  <2>1. ASSUME c[i].u = "h1" PROVE WholeAt(c, i)
    <3>1. WholeAt(b, n + i)
      BY <2>0, <2>1 DEF Framed
    <3>2. (n + i) + 1 + c[i].len <= Len(b) /\ c[i].op \in Ops
          /\ \A j \in 1 .. 2 + c[i].len : b[(n + i) + j - 1] = FrameUnit(c[i].op, c[i].len, c[i].id, j)
      BY <2>0, <3>1 DEF WholeAt
    <3>3. i + 1 + c[i].len <= Len(c)
      <4> DEFINE len == c[i].len
                 lb == Len(b)
                 lc == Len(c)
      <4>1. i \in Nat /\ n \in Nat /\ len \in Nat /\ lb \in Nat /\ lc = lb - n /\ (n + i) + 1 + len <= lb
        BY <2>0, <3>2, <1>1, <1>5, <1>7
      <4> HIDE DEF len, lb, lc
      <4>2. i + 1 + len <= lc
        BY <4>1
      <4> QED BY <4>2 DEF len, lc
    <3>4. ASSUME NEW j \in 1 .. 2 + c[i].len PROVE c[i + j - 1] = FrameUnit(c[i].op, c[i].len, c[i].id, j)
      <4>1. i \in Nat /\ i >= 1 /\ c[i].len \in Nat /\ n \in Nat /\ Len(b) \in Nat
        BY <2>0, <1>1, <1>5
      <4>2. i + j - 1 \in 1 .. Len(b) - n /\ (n + i) + j - 1 = n + (i + j - 1)
        <5>1. PICK m \in Nat : m = c[i].len
          BY <4>1
        <5>2. PICK l \in Nat : l = Len(b)
          BY <4>1
        <5>3. j \in 1 .. 2 + m /\ (n + i) + 1 + m <= l
          BY <5>1, <5>2, <3>2
        <5>4. i + j - 1 \in 1 .. l - n /\ (n + i) + j - 1 = n + (i + j - 1)
          BY <4>1, <5>3, Inside
        <5> QED BY <5>2, <5>4
      <4>4. c[i + j - 1] = b[n + (i + j - 1)]
        BY <4>2, <1>7
      <4> QED BY <3>2, <4>2, <4>4
    <3> QED BY <3>2, <3>3, <3>4 DEF WholeAt
  <2>2. ASSUME c[i].u \in {"h2", "pay"}
        PROVE  \E k \in 1 .. Len(c) : k < i /\ c[k].u = "h1" /\ i <= k + 1 + c[k].len
    <3>1. PICK k \in 1 .. Len(b) : k < n + i /\ b[k].u = "h1" /\ n + i <= k + 1 + b[k].len
      BY <2>0, <2>2 DEF Framed
    <3>2. k > n
      <4>1. k # 1
        BY <3>1, <2>0, <1>2 DEF n
      <4>2. k \notin 2 .. n
        BY <3>1, <1>6
      <4> QED BY <4>1, <4>2, <1>1, <1>5
    <3>3. k - n \in 1 .. Len(b) - n /\ n + (k - n) = k /\ k - n < i
      BY <3>1, <3>2, <2>0, <1>1, <1>5
    <3>4. c[k - n] = b[k] /\ k - n \in 1 .. Len(c) /\ b[k].len \in Nat
      BY <3>3, <1>1, <1>7 DEF Unit
    <3>5. i <= (k - n) + 1 + c[k - n].len
      <4>1. PICK m \in Nat : m = b[k].len
        BY <3>4
      <4>2. n + i <= k + 1 + m /\ n \in Nat /\ i \in Nat /\ k \in Nat
        BY <3>1, <4>1, <2>0, <1>5
      <4>3. i <= (k - n) + 1 + m
        BY <4>2
      <4> QED BY <4>1, <4>3, <3>4
    <3> QED BY <3>1, <3>3, <3>4, <3>5
  <2> QED BY <2>1, <2>2
<1>9. Framed(c)
  BY <1>8 DEF Framed
<1> QED BY <1>2, <1>3, <1>5, <1>6, <1>9 DEF n, c

\* The units of two byte strings, one behind the other.
LEMMA Joined ==
    ASSUME NEW T, NEW b \in Seq(T), NEW c \in Seq(T)
    PROVE  /\ b \o c \in Seq(T) /\ Len(b) \in Nat /\ Len(c) \in Nat /\ Len(b \o c) = Len(b) + Len(c)
           /\ \A i \in 1 .. Len(b) : i \in 1 .. Len(b \o c) /\ (b \o c)[i] = b[i]
           /\ \A i \in 1 .. Len(c) : Len(b) + i \in 1 .. Len(b \o c) /\ (b \o c)[Len(b) + i] = c[i]
           /\ \A i \in 1 .. Len(b \o c) : i \in 1 .. Len(b) \/ (i > Len(b) /\ i - Len(b) \in 1 .. Len(c) /\ Len(b) + (i - Len(b)) = i)
<1> DEFINE d == b \o c
           n == Len(b)
           m == Len(c)
<1>1. d \in Seq(T) /\ Len(d) = n + m /\ \A i \in 1 .. n + m : d[i] = IF i <= n THEN b[i] ELSE c[i - n]
  BY ConcatProperties
<1>2. n \in Nat /\ m \in Nat
  OBVIOUS
<1> HIDE DEF d, n, m
<1>3. ASSUME NEW i \in 1 .. n PROVE i \in 1 .. n + m /\ d[i] = b[i]
  BY <1>1, <1>2
<1>4. ASSUME NEW i \in 1 .. m PROVE n + i \in 1 .. n + m /\ d[n + i] = c[i]
  <2>1. n + i \in 1 .. n + m /\ ~(n + i <= n) /\ (n + i) - n = i
    BY <1>2
  <2> QED BY <1>1, <2>1
<1>5. ASSUME NEW i \in 1 .. n + m PROVE i \in 1 .. n \/ (i > n /\ i - n \in 1 .. m /\ n + (i - n) = i)
  BY <1>2
<1> QED BY <1>1, <1>2, <1>3, <1>4, <1>5 DEF d, n, m

\* The packets in front of the first n.
Prefix(g, s) == Len(g) <= Len(s) /\ \A k \in 1 .. Len(g) : g[k] = s[k]
Rising(s, top) == \A k \in 1 .. Len(s) : s[k] \in 1 .. top /\ \A m \in 1 .. Len(s) : k < m => s[k] < s[m]

\* What an open end has read and not decoded, and what is on its way to it: whole
\* frames, with the packets that it has not handed out yet.
NoEnd(b) == \A i \in 1 .. Len(b) : b[i].u # "fin"
Flow(r, w, g, s) == Framed(r \o w) /\ Carries(r \o w, s, Len(g)) /\ NoEnd(r)

\* The frames of an undisturbed connection.
Has(b, op)  == \E i \in 1 .. Len(b) : b[i].u = "h1" /\ b[i].op = op
Calm(b) == \A i \in 1 .. Len(b) : b[i].u # "fin" /\ b[i].op # "close"

\* What a frame adds to a stream.
LEMMA FrameFields ==
    ASSUME NEW op \in Ops, NEW len \in Nat, NEW id \in Nat, NEW f, f = S!ws_build_frame(op, len, id)
    PROVE  /\ f \in Seq(Unit) /\ Len(f) = 2 + len
           /\ \A i \in 1 .. Len(f) : /\ f[i].u = "h1" <=> i = 1
                                     /\ f[i].u # "fin" /\ f[i].op = op /\ f[i].id = id
<1>1. f \in Seq(Unit) /\ Len(f) = 2 + len /\ \A j \in 1 .. 2 + len : f[j] = FrameUnit(op, len, id, j)
  BY BuiltFrame
<1>2. ASSUME NEW i \in 1 .. 2 + len
      PROVE  (f[i].u = "h1" <=> i = 1) /\ f[i].u # "fin" /\ f[i].op = op /\ f[i].id = id
  <2>1. f[i] = FrameUnit(op, len, id, i)
    BY <1>1
  <2>2. i = 1 \/ i # 1
    OBVIOUS
  <2> QED BY <2>1, <2>2 DEF FrameUnit
<1>3. /\ f \in Seq(Unit) /\ Len(f) = 2 + len
      /\ \A i \in 1 .. Len(f) : (f[i].u = "h1" <=> i = 1) /\ f[i].u # "fin" /\ f[i].op = op /\ f[i].id = id
  BY <1>1, <1>2
<1> QED BY <1>3

LEMMA Added ==
    ASSUME NEW b \in Seq(Unit), NEW op \in Ops, NEW len \in Nat, NEW id \in Nat, NEW f, f = S!ws_build_frame(op, len, id)
    PROVE  /\ f \in Seq(Unit) /\ Framed(f) /\ Len(f) = 2 + len
           /\ \A i \in 1 .. Len(f) : /\ f[i].u = "h1" <=> i = 1
                                     /\ f[i].u # "fin" /\ f[i].op = op /\ f[i].id = id
           /\ \A x : Has(b, x) => Has(b \o f, x)
           /\ Has(b \o f, op)
           /\ Calm(b) /\ op # "close" => Calm(b \o f)
<1>1. f \in Seq(Unit) /\ Len(f) = 2 + len /\ \A j \in 1 .. 2 + len : f[j] = FrameUnit(op, len, id, j)
  BY BuiltFrame
<1>2. Framed(f)
  BY FramedOne
<1>3. \A i \in 1 .. Len(f) : /\ f[i].u = "h1" <=> i = 1
                             /\ f[i].u # "fin" /\ f[i].op = op /\ f[i].id = id
  BY FrameFields
<1> DEFINE d == b \o f
<1>4. /\ Len(b) \in Nat
      /\ \A i \in 1 .. Len(b) : i \in 1 .. Len(d) /\ d[i] = b[i]
      /\ \A i \in 1 .. Len(f) : Len(b) + i \in 1 .. Len(d) /\ d[Len(b) + i] = f[i]
      /\ \A i \in 1 .. Len(d) : i \in 1 .. Len(b) \/ (i > Len(b) /\ i - Len(b) \in 1 .. Len(f) /\ Len(b) + (i - Len(b)) = i)
  BY <1>1, Joined
<1> HIDE DEF d
<1>5. \A x : Has(b, x) => Has(d, x)
  BY <1>4 DEF Has
<1>6. 1 \in 1 .. Len(f)
  BY <1>1
<1>7. Has(d, op)
  BY <1>3, <1>4, <1>6 DEF Has
<1>8. ASSUME Calm(b), op # "close" PROVE Calm(d)
  <2> SUFFICES ASSUME NEW i \in 1 .. Len(d) PROVE d[i].u # "fin" /\ d[i].op # "close"
    BY DEF Calm
  <2>1. CASE i \in 1 .. Len(b)
    BY <2>1, <1>4, <1>8 DEF Calm
  <2>2. CASE i - Len(b) \in 1 .. Len(f) /\ Len(b) + (i - Len(b)) = i
    <3>1. d[i] = f[i - Len(b)]
      BY <2>2, <1>4
    <3> QED BY <2>2, <3>1, <1>3, <1>8
  <2> QED BY <2>1, <2>2, <1>4
<1> QED BY <1>1, <1>2, <1>3, <1>5, <1>7, <1>8 DEF d

\* Units without a packet carry none.
LEMMA CarriesMore ==
    ASSUME NEW b \in Seq(Unit), NEW c \in Seq(Unit), NEW s, NEW n, Carries(b, s, n),
           \A i \in 1 .. Len(c) : ~(c[i].u = "h1" /\ c[i].op = "data")
    PROVE  Carries(b \o c, s, n)
<1> DEFINE d == b \o c
<1>1. /\ \A i \in 1 .. Len(b) : i \in 1 .. Len(d) /\ d[i] = b[i]
      /\ \A i \in 1 .. Len(c) : Len(b) + i \in 1 .. Len(d) /\ d[Len(b) + i] = c[i]
      /\ \A i \in 1 .. Len(d) : i \in 1 .. Len(b) \/ (i > Len(b) /\ i - Len(b) \in 1 .. Len(c) /\ Len(b) + (i - Len(b)) = i)
  BY Joined
<1> HIDE DEF d
<1>2. Data(d) = Data(b) /\ \A i \in Data(b) : d[i] = b[i]
  <2>1. \A i \in Data(b) : i \in Data(d) /\ d[i] = b[i]
    BY <1>1 DEF Data
  <2>2. ASSUME NEW i \in Data(d) PROVE i \in Data(b)
    <3>0. i \in 1 .. Len(d) /\ d[i].u = "h1" /\ d[i].op = "data"
      BY DEF Data
    <3>1. CASE i \in 1 .. Len(b)
      BY <3>0, <3>1, <1>1 DEF Data
    <3>2. CASE i - Len(b) \in 1 .. Len(c) /\ Len(b) + (i - Len(b)) = i
      <4>1. d[i] = c[i - Len(b)]
        BY <3>2, <1>1
      <4> QED BY <3>0, <3>2, <4>1
    <3> QED BY <3>0, <3>1, <3>2, <1>1
  <2> QED BY <2>1, <2>2
<1>3. Carries(d, s, n)
  <2>1. \A i \in Data(d) : \E k \in n + 1 .. Len(s) : d[i].id = s[k]
    BY <1>2 DEF Carries
  <2>2. ASSUME NEW k \in n + 1 .. Len(s) PROVE \E i \in Data(d) : d[i].id = s[k]
    <3>1. PICK i \in Data(b) : b[i].id = s[k]
      BY DEF Carries
    <3> QED BY <3>1, <1>2
  <2>3. \A i \in Data(d), j \in Data(d) : i < j => d[i].id < d[j].id
    BY <1>2 DEF Carries
  <2> QED BY <2>1, <2>2, <2>3 DEF Carries
<1> QED BY <1>3 DEF d

\* A packet's frame carries it behind the others.
LEMMA CarriesPacket ==
    ASSUME NEW b \in Seq(Unit), NEW s \in Seq(Nat), NEW n \in 0 .. Len(s), Carries(b, s, n),
           NEW len \in Nat, NEW id \in Nat, \A k \in 1 .. Len(s) : s[k] < id, NEW f, f = S!ws_build_frame("data", len, id)
    PROVE  Carries(b \o f, Append(s, id), n)
<1> DEFINE d == b \o f
           t == Append(s, id)
           m == Len(b) + 1
<1>0. "data" \in Ops
  BY DEF Ops
<1>1. f \in Seq(Unit) /\ Len(f) = 2 + len /\ \A i \in 1 .. Len(f) : /\ f[i].u = "h1" <=> i = 1
                                                                   /\ f[i].op = "data" /\ f[i].id = id
  BY <1>0, FrameFields
<1>2. /\ Len(b) \in Nat
      /\ \A i \in 1 .. Len(b) : i \in 1 .. Len(d) /\ d[i] = b[i]
      /\ \A i \in 1 .. Len(f) : Len(b) + i \in 1 .. Len(d) /\ d[Len(b) + i] = f[i]
      /\ \A i \in 1 .. Len(d) : i \in 1 .. Len(b) \/ (i > Len(b) /\ i - Len(b) \in 1 .. Len(f) /\ Len(b) + (i - Len(b)) = i)
  BY <1>1, Joined
<1>3. Len(t) = Len(s) + 1 /\ Len(s) \in Nat /\ t[Len(s) + 1] = id /\ \A k \in 1 .. Len(s) : t[k] = s[k] /\ s[k] \in Nat
  BY AppendProperties, ElementOfSeq
<1> HIDE DEF d, t
<1>4. m \in Data(d) /\ d[m].id = id
  <2>1. 1 \in 1 .. Len(f)
    BY <1>1
  <2>2. m \in 1 .. Len(d) /\ d[m] = f[1]
    BY <2>1, <1>2
  <2>3. f[1].u = "h1" /\ f[1].op = "data" /\ f[1].id = id
    BY <2>1, <1>1
  <2> QED BY <2>2, <2>3 DEF Data
<1>5. \A i \in Data(b) : i \in Data(d) /\ d[i].id = b[i].id /\ i \in Int /\ i < m
  BY <1>2 DEF Data
<1>6. ASSUME NEW i \in Data(d) PROVE i \in Data(b) \/ i = m
  <2>0. i \in 1 .. Len(d) /\ d[i].u = "h1" /\ d[i].op = "data"
    BY DEF Data
  <2>1. CASE i \in 1 .. Len(b)
    BY <2>0, <2>1, <1>2 DEF Data
  <2>2. CASE i - Len(b) \in 1 .. Len(f) /\ Len(b) + (i - Len(b)) = i
    <3>1. d[i] = f[i - Len(b)]
      BY <2>2, <1>2
    <3>2. i - Len(b) = 1
      BY <2>0, <2>2, <3>1, <1>1
    <3> QED BY <2>2, <3>2, <1>2
  <2> QED BY <2>0, <2>1, <2>2, <1>2
<1>7. ASSUME NEW i \in Data(b) PROVE \E k \in n + 1 .. Len(s) : b[i].id = s[k] /\ k \in 1 .. Len(s)
  BY <1>3 DEF Carries
<1> HIDE DEF m
<1>8. ASSUME NEW i \in Data(d) PROVE \E k \in n + 1 .. Len(t) : d[i].id = t[k]
  <2>1. CASE i = m
    <3>1. Len(t) \in n + 1 .. Len(t)
      BY <1>3
    <3>2. d[i].id = t[Len(t)]
      BY <2>1, <1>3, <1>4
    <3> QED BY <3>1, <3>2
  <2>2. CASE i \in Data(b)
    <3>1. PICK k \in n + 1 .. Len(s) : b[i].id = s[k] /\ k \in 1 .. Len(s)
      BY <2>2, <1>7
    <3>2. k \in n + 1 .. Len(t)
      BY <1>3
    <3> QED BY <2>2, <3>1, <3>2, <1>3, <1>5
  <2> QED BY <2>1, <2>2, <1>6
<1>9. ASSUME NEW k \in n + 1 .. Len(t) PROVE \E i \in Data(d) : d[i].id = t[k]
  <2>1. CASE k = Len(s) + 1
    BY <2>1, <1>3, <1>4
  <2>2. CASE k # Len(s) + 1
    <3>1. k \in n + 1 .. Len(s) /\ k \in 1 .. Len(s)
      BY <2>2, <1>3
    <3>2. PICK i \in Data(b) : b[i].id = s[k]
      BY <3>1 DEF Carries
    <3> QED BY <3>1, <3>2, <1>3, <1>5
  <2> QED BY <2>1, <2>2
<1>10. ASSUME NEW i \in Data(d), NEW j \in Data(d), i < j PROVE d[i].id < d[j].id
  <2>1. CASE i \in Data(b) /\ j \in Data(b)
    BY <2>1, <1>10, <1>5 DEF Carries
  <2>2. CASE i \in Data(b) /\ j = m
    <3>1. PICK k \in n + 1 .. Len(s) : b[i].id = s[k] /\ k \in 1 .. Len(s)
      BY <2>2, <1>7
    <3> QED BY <2>2, <3>1, <1>4, <1>5
  <2>3. CASE i = m
    <3>1. ~(j = m) /\ ~(j \in Data(b))
      BY <2>3, <1>10, <1>5, <1>2 DEF m
    <3> QED BY <3>1, <1>6
  <2> QED BY <2>1, <2>2, <2>3, <1>6
<1>11. Carries(d, t, n)
  BY <1>8, <1>9, <1>10 DEF Carries
<1> QED BY <1>11 DEF d, t

\* The first frame of a stream: its packet is the next one, and behind it comes
\* the same stream without it.
LEMMA First ==
    ASSUME NEW b \in Seq(Unit), Framed(b), 1 <= Len(b), b[1].u = "h1",
           NEW s \in Seq(Nat), NEW n \in 0 .. Len(s), Carries(b, s, n), NEW top, Rising(s, top)
    PROVE  LET c == SubSeq(b, 2 + b[1].len + 1, Len(b)) IN
           /\ Framed(c) /\ c \in Seq(Unit)
           /\ b[1].op = "data" => n + 1 <= Len(s) /\ s[n + 1] = b[1].id /\ Carries(c, s, n + 1)
           /\ b[1].op # "data" => Carries(c, s, n)
           /\ \A x : Has(b, x) /\ b[1].op # x => Has(c, x)
           /\ Calm(b) => Calm(c)
<1> DEFINE N == 2 + b[1].len
           c == SubSeq(b, N + 1, Len(b))
<1>1. /\ WholeAt(b, 1) /\ b[1].len \in Nat /\ N \in 0 .. Len(b)
      /\ \A i \in 2 .. N : b[i].u \in {"h2", "pay"}
      /\ Framed(c)
  BY FramedRest
<1>2. c \in Seq(Unit) /\ Len(c) = Len(b) - N /\ \A i \in 1 .. Len(b) - N : N + i \in 1 .. Len(b) /\ c[i] = b[N + i]
  BY <1>1, RestOf
<1>3. Len(b) \in Nat /\ 1 \in 1 .. Len(b) /\ N >= 2 /\ N \in Nat
  BY <1>1
<1> HIDE DEF N, c
<1>4. ASSUME NEW i \in 1 .. Len(b), b[i].u = "h1", i # 1
      PROVE  i - N \in 1 .. Len(c) /\ c[i - N] = b[i] /\ N + (i - N) = i
  <2>1. i \notin 2 .. N
    BY <1>1, <1>4
  <2>2. i - N \in 1 .. Len(b) - N /\ N + (i - N) = i
    BY <2>1, <1>3, <1>4
  <2> QED BY <2>2, <1>2
<1>5. \A i \in Data(c) : N + i \in Data(b) /\ c[i].id = b[N + i].id /\ i \in Int /\ N + i > 1
  <2> SUFFICES ASSUME NEW i \in Data(c)
               PROVE  N + i \in Data(b) /\ c[i].id = b[N + i].id /\ i \in Int /\ N + i > 1
    OBVIOUS
  <2>1. i \in 1 .. Len(c) /\ c[i].u = "h1" /\ c[i].op = "data"
    BY DEF Data
  <2>2. i \in 1 .. Len(b) - N /\ i \in Int /\ N + i > 1
    BY <2>1, <1>2, <1>3
  <2>3. N + i \in 1 .. Len(b) /\ c[i] = b[N + i]
    BY <2>2, <1>2
  <2> QED BY <2>1, <2>2, <2>3 DEF Data
<1>6. \A i \in Data(b) : i # 1 => i - N \in Data(c) /\ c[i - N].id = b[i].id
  BY <1>4 DEF Data
<1>7. \A i \in Data(b) : \E k \in n + 1 .. Len(s) : b[i].id = s[k]
  BY DEF Carries
<1>8. \A k \in n + 1 .. Len(s) : \E i \in Data(b) : b[i].id = s[k]
  BY DEF Carries
<1>9. \A i \in Data(b), j \in Data(b) : i < j => b[i].id < b[j].id
  BY DEF Carries
<1>10. \A i \in Data(c), j \in Data(c) : i < j => c[i].id < c[j].id
  <2> SUFFICES ASSUME NEW i \in Data(c), NEW j \in Data(c), i < j PROVE c[i].id < c[j].id
    OBVIOUS
  <2>1. N + i < N + j
    BY <1>3, <1>5
  <2> QED BY <2>1, <1>5, <1>9
<1>11. \A k \in n + 1 .. Len(s) : k \in 1 .. Len(s) /\ s[k] \in Nat
  BY ElementOfSeq
<1>12. ASSUME b[1].op = "data" PROVE n + 1 <= Len(s) /\ s[n + 1] = b[1].id /\ Carries(c, s, n + 1)
  <2>1. 1 \in Data(b)
    BY <1>3, <1>12 DEF Data
  <2>2. PICK k \in n + 1 .. Len(s) : b[1].id = s[k]
    BY <2>1, <1>7
  <2>3. n + 1 \in n + 1 .. Len(s) /\ n + 1 \in 1 .. Len(s)
    BY <2>2
  <2>4. k = n + 1
    <3> SUFFICES ASSUME k # n + 1 PROVE FALSE
      OBVIOUS
    <3>1. n + 1 < k /\ k \in 1 .. Len(s)
      BY <2>2
    <3>2. s[n + 1] < s[k]
      BY <3>1, <2>3 DEF Rising
    <3>3. PICK i \in Data(b) : b[i].id = s[n + 1]
      BY <2>3, <1>8
    <3>4. i # 1 /\ i \in Int /\ i > 1
      <4>1. i # 1
        BY <3>2, <3>3, <2>2, <1>11, <2>3
      <4> QED BY <4>1 DEF Data
    <3>5. b[1].id < b[i].id
      BY <3>4, <2>1, <1>9
    <3> QED BY <3>2, <3>3, <3>5, <2>2, <2>3, <1>11
  <2>5. n + 1 <= Len(s) /\ s[n + 1] = b[1].id
    BY <2>2, <2>3, <2>4
  <2>6. ASSUME NEW i \in Data(c) PROVE \E m \in n + 1 + 1 .. Len(s) : c[i].id = s[m]
    <3>1. PICK m \in n + 1 .. Len(s) : b[N + i].id = s[m]
      BY <1>5, <1>7
    <3>2. b[1].id < b[N + i].id
      BY <2>1, <1>5, <1>9
    <3>3. m # n + 1
      BY <3>1, <3>2, <2>5, <2>3, <1>11
    <3>4. m \in n + 1 + 1 .. Len(s)
      BY <3>1, <3>3
    <3> QED BY <3>1, <3>4, <1>5
  <2>7. ASSUME NEW m \in n + 1 + 1 .. Len(s) PROVE \E i \in Data(c) : c[i].id = s[m]
    <3>1. m \in n + 1 .. Len(s) /\ m \in 1 .. Len(s) /\ n + 1 < m
      OBVIOUS
    <3>2. PICK i \in Data(b) : b[i].id = s[m]
      BY <3>1, <1>8
    <3>3. s[n + 1] < s[m]
      BY <3>1, <2>3 DEF Rising
    <3>4. i # 1
      BY <3>2, <3>3, <2>5, <2>3, <3>1, <1>11
    <3> QED BY <3>2, <3>4, <1>6
  <2>8. Carries(c, s, n + 1)
    BY <2>6, <2>7, <1>10 DEF Carries
  <2> QED BY <2>5, <2>8
<1>13. ASSUME b[1].op # "data" PROVE Carries(c, s, n)
  <2>1. 1 \notin Data(b)
    BY <1>13 DEF Data
  <2>2. \A i \in Data(c) : \E k \in n + 1 .. Len(s) : c[i].id = s[k]
    BY <1>5, <1>7
  <2>3. ASSUME NEW k \in n + 1 .. Len(s) PROVE \E i \in Data(c) : c[i].id = s[k]
    <3>1. PICK i \in Data(b) : b[i].id = s[k]
      BY <1>8
    <3> QED BY <3>1, <2>1, <1>6
  <2> QED BY <2>2, <2>3, <1>10 DEF Carries
<1>14. ASSUME NEW x, Has(b, x), b[1].op # x PROVE Has(c, x)
  <2>1. PICK i \in 1 .. Len(b) : b[i].u = "h1" /\ b[i].op = x
    BY <1>14 DEF Has
  <2>2. i - N \in 1 .. Len(c) /\ c[i - N] = b[i]
    BY <2>1, <1>14, <1>4
  <2> QED BY <2>1, <2>2 DEF Has
<1>15. Calm(b) => Calm(c)
  BY <1>2 DEF Calm
<1> QED BY <1>1, <1>2, <1>12, <1>13, <1>14, <1>15 DEF N, c

\* An open end's buffer begins with a header and ws_recv reads it right.
LEMMA Header ==
    ASSUME NEW r \in Seq(Unit), NEW w \in Seq(Unit), Framed(r \o w), NoEnd(r), 1 <= Len(r)
    PROVE  /\ r[1].u = "h1" /\ (r \o w)[1] = r[1] /\ 1 <= Len(r \o w) /\ r[1].op \in Ops
           /\ r[1].len \in Nat /\ r[1].id \in Nat /\ 2 + r[1].len <= Len(r \o w)
           /\ Len(r) >= 2 => S!Headers(r) = {[op |-> r[1].op, len |-> r[1].len]}
           /\ 2 + r[1].len <= Len(r) =>
                 /\ r[1].op = "data" => S!PacketIn(r, r[1].len) = r[1].id
                 /\ SubSeq(r \o w, 2 + r[1].len + 1, Len(r \o w)) = SubSeq(r, 2 + r[1].len + 1, Len(r)) \o w
<1> DEFINE b == r \o w
           N == 2 + r[1].len
<1>1. /\ b \in Seq(Unit) /\ Len(r) \in Nat /\ Len(w) \in Nat /\ Len(b) = Len(r) + Len(w)
      /\ \A i \in 1 .. Len(r) : i \in 1 .. Len(b) /\ b[i] = r[i]
      /\ \A i \in 1 .. Len(w) : Len(r) + i \in 1 .. Len(b) /\ b[Len(r) + i] = w[i]
  BY Joined
<1>2. 1 \in 1 .. Len(r) /\ b[1] = r[1] /\ 1 \in 1 .. Len(b) /\ Framed(b)
  BY <1>1
<1>3. r[1] \in Unit /\ r[1].u # "fin" /\ r[1].len \in Nat /\ r[1].id \in Nat /\ r[1].u \in {"h1", "h2", "pay"}
  BY <1>2, ElementOfSeq DEF Unit, NoEnd
<1> HIDE DEF b
<1>4. b[1].u = "h1"
  <2>1. b[1].u \notin {"h2", "pay"}
    BY <1>2 DEF Framed
  <2> QED BY <2>1, <1>2, <1>3
<1>5. WholeAt(b, 1)
  BY <1>2, <1>4 DEF Framed
<1>6. /\ r[1].op \in Ops /\ N <= Len(b) /\ N \in Nat
      /\ \A j \in 1 .. N : b[j] = FrameUnit(r[1].op, r[1].len, r[1].id, j)
  <2>1. \A j \in 1 .. N : 1 + j - 1 = j
    BY <1>3
  <2> QED BY <2>1, <1>1, <1>2, <1>3, <1>5 DEF WholeAt
<1> HIDE DEF N
<1>7. ASSUME Len(r) >= 2 PROVE S!Headers(r) = {[op |-> r[1].op, len |-> r[1].len]}
  <2>1. 2 \in 1 .. Len(r) /\ 2 \in 1 .. N
    BY <1>1, <1>3, <1>7 DEF N
  <2>2. r[2] = FrameUnit(r[1].op, r[1].len, r[1].id, 2)
    BY <2>1, <1>1, <1>6
  <2>3. r[2].u = "h2" /\ r[2].op = r[1].op /\ r[2].id = r[1].id
    BY <2>2 DEF FrameUnit
  <2> QED BY <2>3, <1>1, <1>2, <1>4, <1>7 DEF S!Headers
<1>8. ASSUME N <= Len(r), r[1].op = "data" PROVE S!PacketIn(r, r[1].len) = r[1].id
  <2> DEFINE f == S!ws_build_frame("data", r[1].len, r[1].id)
             q == SubSeq(r, 1, N)
  <2>1. f \in Seq(Unit) /\ Len(f) = N /\ \A j \in 1 .. N : f[j] = FrameUnit("data", r[1].len, r[1].id, j)
    BY <1>3, BuiltFrame DEF N, Ops
  <2>2. q \in Seq(Unit) /\ Len(q) = N /\ \A j \in 1 .. N : q[j] = r[j]
    <3>1. \A i \in 1 .. N : i \in 1 .. Len(r) /\ r[i] \in Unit
      BY <1>1, <1>6, <1>8, ElementOfSeq
    <3>2. q \in Seq(Unit) /\ Len(q) = (IF 1 <= N THEN N - 1 + 1 ELSE 0) /\ \A i \in 1 .. N - 1 + 1 : q[i] = r[1 + i - 1]
      BY <3>1, <1>6, SubSeqProperties
    <3>3. N - 1 + 1 = N /\ 1 <= N /\ \A i \in 1 .. N : 1 + i - 1 = i
      BY <1>3, <1>6 DEF N
    <3> QED BY <3>2, <3>3
  <2>3. \A j \in 1 .. N : r[j] = FrameUnit("data", r[1].len, r[1].id, j)
    BY <1>1, <1>6, <1>8
  <2>4. q = f
    BY <2>1, <2>2, <2>3, SeqEqual
  <2>5. Head(r) = r[1]
    BY <1>1
  <2> HIDE DEF q, f
  <2> QED BY <2>4, <2>5, <1>2, <1>4 DEF S!PacketIn, q, f, N
<1>9. ASSUME N <= Len(r) PROVE SubSeq(b, N + 1, Len(b)) = SubSeq(r, N + 1, Len(r)) \o w
  <2> DEFINE c == SubSeq(b, N + 1, Len(b))
             q == SubSeq(r, N + 1, Len(r))
  <2>1. c \in Seq(Unit) /\ Len(c) = Len(b) - N /\ \A i \in 1 .. Len(b) - N : c[i] = b[N + i]
    BY <1>1, <1>6, RestOf
  <2>2. q \in Seq(Unit) /\ Len(q) = Len(r) - N /\ \A i \in 1 .. Len(r) - N : N + i \in 1 .. Len(r) /\ q[i] = r[N + i]
    BY <1>1, <1>6, <1>9, RestOf
  <2> HIDE DEF c, q
  <2>3. /\ q \o w \in Seq(Unit) /\ Len(q \o w) = Len(q) + Len(w)
        /\ \A i \in 1 .. Len(q) : (q \o w)[i] = q[i]
        /\ \A i \in 1 .. Len(w) : (q \o w)[Len(q) + i] = w[i]
        /\ \A i \in 1 .. Len(q \o w) : i \in 1 .. Len(q) \/ (i > Len(q) /\ i - Len(q) \in 1 .. Len(w) /\ Len(q) + (i - Len(q)) = i)
    <3>1. q \in Seq(Unit)
      BY <2>2
    <3> QED BY <3>1, Joined
  <2>4. Len(c) = Len(q \o w)
    BY <2>1, <2>2, <2>3, <1>1, <1>6
  <2>5. ASSUME NEW i \in 1 .. Len(c) PROVE c[i] = (q \o w)[i]
    <3>1. CASE i \in 1 .. Len(q)
      BY <3>1, <2>1, <2>2, <2>3, <1>1
    <3>2. CASE i - Len(q) \in 1 .. Len(w) /\ Len(q) + (i - Len(q)) = i
      <4>1. (q \o w)[i] = w[i - Len(q)]
        BY <3>2, <2>3
      <4>2. N + i = Len(r) + (i - Len(q))
        BY <2>2, <1>1, <1>6
      <4> QED BY <3>2, <4>1, <4>2, <2>1, <1>1
    <3> QED BY <3>1, <3>2, <2>3, <2>4
  <2> QED BY <2>1, <2>3, <2>4, <2>5, SeqEqual DEF c, q
<1>10. r[1].u = "h1" /\ b[1] = r[1] /\ 1 <= Len(b) /\ r[1].op \in Ops /\ r[1].len \in Nat /\ r[1].id \in Nat /\ N <= Len(b)
  BY <1>1, <1>2, <1>3, <1>4, <1>6
<1>11. N <= Len(r) =>
          /\ r[1].op = "data" => S!PacketIn(r, r[1].len) = r[1].id
          /\ SubSeq(b, N + 1, Len(b)) = SubSeq(r, N + 1, Len(r)) \o w
  BY <1>8, <1>9, Zenon
<1> QED BY <1>7, <1>10, <1>11, Zenon DEF b, N

\* What is written comes behind what is there.
LEMMA Longer ==
    ASSUME NEW T, NEW r \in Seq(T), NEW w \in Seq(T), NEW c \in Seq(T)
    PROVE  w \o c \in Seq(T) /\ r \o w \in Seq(T) /\ r \o (w \o c) = (r \o w) \o c
BY ConcatProperties, ConcatAssociative

LEMMA Behind == \A r, w, c \in Seq(Unit) : r \o w \in Seq(Unit) /\ w \o c \in Seq(Unit) /\ r \o (w \o c) = (r \o w) \o c
BY Longer

\* A control frame, a packet and the end of the connection on their way to an end.
LEMMA FlowControl ==
    ASSUME NEW r \in Seq(Unit), NEW w \in Seq(Unit), NEW s, NEW g, Flow(r, w, g, s),
           NEW op \in Ops, op # "data", NEW f, f = S!ws_build_frame(op, 0, 0)
    PROVE  Flow(r, w \o f, g, s)
<1>1. f \in Seq(Unit) /\ Framed(f) /\ \A i \in 1 .. Len(f) : f[i].op # "data"
  BY Added
<1>2. r \o w \in Seq(Unit) /\ r \o (w \o f) = (r \o w) \o f
  BY <1>1, Longer
<1>3. Framed(r \o w) /\ Carries(r \o w, s, Len(g)) /\ NoEnd(r)
  BY DEF Flow
<1>4. Framed((r \o w) \o f)
  BY <1>1, <1>2, <1>3, FramedConcat
<1>5. Carries((r \o w) \o f, s, Len(g))
  BY <1>1, <1>2, <1>3, CarriesMore
<1> QED BY <1>2, <1>3, <1>4, <1>5 DEF Flow

LEMMA FlowPacket ==
    ASSUME NEW r \in Seq(Unit), NEW w \in Seq(Unit), NEW s \in Seq(Nat), NEW g \in Seq(Nat), Flow(r, w, g, s), Prefix(g, s),
           NEW len \in Nat, NEW id \in Nat, \A k \in 1 .. Len(s) : s[k] < id, NEW f, f = S!ws_build_frame("data", len, id)
    PROVE  Flow(r, w \o f, g, Append(s, id))
<1>1. f \in Seq(Unit) /\ Framed(f)
  <2>1. "data" \in Ops
    BY DEF Ops
  <2> DEFINE b == S!ws_build_frame("data", len, id)
  <2> HIDE DEF Flow
  <2>2. b \in Seq(Unit)
    BY <2>1, BuiltFrame, Zenon
  <2>3. Framed(b)
    BY <2>1, FramedOne, Zenon
  <2> QED BY <2>2, <2>3
<1>2. r \o w \in Seq(Unit) /\ r \o (w \o f) = (r \o w) \o f
  <2>1. f \in Seq(Unit)
    BY <1>1
  <2> DEFINE Order(a, b, c) == a \o b \in Seq(Unit) /\ b \o c \in Seq(Unit) /\ a \o (b \o c) = (a \o b) \o c
  <2>2. \A a, b, c \in Seq(Unit) : Order(a, b, c)
    BY Behind, Zenon
  <2> HIDE DEF Order
  <2>3. Order(r, w, f)
    BY <2>1, <2>2
  <2> QED BY <2>3 DEF Order
<1>3. Framed(r \o w) /\ Carries(r \o w, s, Len(g)) /\ NoEnd(r)
  BY DEF Flow
<1>4. Framed((r \o w) \o f)
  BY <1>1, <1>2, <1>3, FramedConcat
<1>5. Len(g) \in 0 .. Len(s)
  BY LenProperties DEF Prefix
<1>6. Carries((r \o w) \o f, Append(s, id), Len(g))
  BY <1>2, <1>3, <1>5, CarriesPacket
<1> QED BY <1>2, <1>3, <1>4, <1>6 DEF Flow

LEMMA FlowEnd ==
    ASSUME NEW r \in Seq(Unit), NEW w \in Seq(Unit), NEW s, NEW g, Flow(r, w, g, s)
    PROVE  Flow(r, w \o <<S!Fin>>, g, s)
<1> DEFINE f == <<S!Fin>>
<1>1. f \in Seq(Unit) /\ Framed(f) /\ \A i \in 1 .. Len(f) : ~(f[i].u = "h1" /\ f[i].op = "data")
  BY FramedFin DEF S!Fin
<1> HIDE DEF f
<1>2. r \o w \in Seq(Unit) /\ r \o (w \o f) = (r \o w) \o f
  BY <1>1, Longer
<1>3. Framed(r \o w) /\ Carries(r \o w, s, Len(g)) /\ NoEnd(r)
  BY DEF Flow
<1>4. Framed((r \o w) \o f)
  BY <1>1, <1>2, <1>3, FramedConcat
<1>5. Carries((r \o w) \o f, s, Len(g))
  BY <1>1, <1>2, <1>3, CarriesMore
<1> QED BY <1>2, <1>3, <1>4, <1>5 DEF Flow, f

\* Reading from the socket moves bytes, and the stream is what it was.
LEMMA FlowMove ==
    ASSUME NEW r \in Seq(Unit), NEW w \in Seq(Unit), NEW n \in 1 .. Len(w)
    PROVE  LET x == r \o SubSeq(w, 1, n)
               y == SubSeq(w, n + 1, Len(w))
           IN
           /\ x \in Seq(Unit) /\ y \in Seq(Unit) /\ x \o y = r \o w
           /\ (\A i \in 1 .. n : w[i] # S!Fin) /\ NoEnd(r) => NoEnd(x)
<1> DEFINE h == SubSeq(w, 1, n)
           x == r \o h
           y == SubSeq(w, n + 1, Len(w))
<1>1. Len(w) \in Nat /\ n \in Nat /\ \A i \in 1 .. Len(w) : w[i] \in Unit
  BY ElementOfSeq
<1>2. \A i \in 1 .. n : i \in 1 .. Len(w) /\ w[i] \in Unit
  BY <1>1
<1>3. h \in Seq(Unit) /\ Len(h) = n /\ \A i \in 1 .. n : h[i] = w[i]
  <2>1. h \in Seq(Unit) /\ Len(h) = (IF 1 <= n THEN n - 1 + 1 ELSE 0) /\ \A i \in 1 .. n - 1 + 1 : h[i] = w[1 + i - 1]
    BY <1>1, <1>2, SubSeqProperties
  <2>2. n - 1 + 1 = n /\ \A i \in 1 .. n : 1 + i - 1 = i
    BY <1>1
  <2> QED BY <2>1, <2>2
<1>4. y \in Seq(Unit)
  BY <1>1, RestOf
<1>5. h \o y = w
  <2>1. 1 \in 1 .. Len(w) + 1 /\ n \in 1 - 1 .. Len(w) /\ Len(w) \in n .. Len(w)
    BY <1>1
  <2>2. SubSeq(w, 1, n) \o SubSeq(w, n + 1, Len(w)) = SubSeq(w, 1, Len(w))
    BY <2>1, ConcatAdjacentSubSeq
  <2> QED BY <2>2, SubSeqFull
<1>6. x = r \o h
  OBVIOUS
<1> HIDE DEF h, x, y
<1>7. x \in Seq(Unit) /\ x \o y = r \o w
  <2>1. h \in Seq(Unit)
    BY <1>3
  <2>2. r \o h \in Seq(Unit) /\ r \o (h \o y) = (r \o h) \o y
    BY <2>1, <1>4, Longer
  <2> QED BY <2>2, <1>5, <1>6
<1>8. ASSUME \A i \in 1 .. n : w[i] # S!Fin, NoEnd(r) PROVE NoEnd(x)
  <2>1. /\ \A i \in 1 .. Len(r) : x[i] = r[i]
        /\ \A i \in 1 .. Len(h) : x[Len(r) + i] = h[i]
        /\ \A i \in 1 .. Len(x) : i \in 1 .. Len(r) \/ (i > Len(r) /\ i - Len(r) \in 1 .. Len(h) /\ Len(r) + (i - Len(r)) = i)
    <3>1. h \in Seq(Unit)
      BY <1>3
    <3>2. /\ \A i \in 1 .. Len(r) : i \in 1 .. Len(r \o h) /\ (r \o h)[i] = r[i]
          /\ \A i \in 1 .. Len(h) : Len(r) + i \in 1 .. Len(r \o h) /\ (r \o h)[Len(r) + i] = h[i]
          /\ \A i \in 1 .. Len(r \o h) :
                i \in 1 .. Len(r) \/ (i > Len(r) /\ i - Len(r) \in 1 .. Len(h) /\ Len(r) + (i - Len(r)) = i)
      BY <3>1, Joined
    <3> QED BY <1>6, <3>2
  <2>2. \A i \in 1 .. Len(h) : h[i].u # "fin"
    BY <1>2, <1>3, <1>8 DEF Unit
  <2> SUFFICES ASSUME NEW i \in 1 .. Len(x) PROVE x[i].u # "fin"
    BY DEF NoEnd
  <2>3. CASE i \in 1 .. Len(r)
    BY <2>1, <2>3, <1>8 DEF NoEnd
  <2>4. CASE i - Len(r) \in 1 .. Len(h) /\ Len(r) + (i - Len(r)) = i
    <3>1. x[i] = h[i - Len(r)]
      BY <2>1, <2>4
    <3> QED BY <3>1, <2>2, <2>4
  <2> QED BY <2>1, <2>3, <2>4
<1> QED BY <1>4, <1>7, <1>8 DEF x, y, h

\* ws_recv takes the first frame of the buffer.
LEMMA FlowNext ==
    ASSUME NEW r \in Seq(Unit), NEW w \in Seq(Unit), NEW s \in Seq(Nat), NEW g \in Seq(Nat), Flow(r, w, g, s), Prefix(g, s),
           NEW top, Rising(s, top), 2 <= Len(r), NEW h \in S!Headers(r)
    PROVE  LET c == SubSeq(r, 2 + h.len + 1, Len(r)) IN
           /\ h.op \in Ops /\ h.op = r[1].op /\ h.len \in Nat
           /\ 2 + h.len <= Len(r) =>
                 /\ c \in Seq(Unit)
                 /\ h.op = "data" => Len(g) + 1 <= Len(s) /\ s[Len(g) + 1] = S!PacketIn(r, h.len) /\ Flow(c, w, Append(g, S!PacketIn(r, h.len)), s)
                 /\ h.op # "data" => Flow(c, w, g, s)
                 /\ \A x : Has(r \o w, x) /\ h.op # x => Has(c \o w, x)
                 /\ Calm(r \o w) => Calm(c \o w)
<1> DEFINE c == SubSeq(r, 2 + h.len + 1, Len(r))
<1>1. Framed(r \o w) /\ Carries(r \o w, s, Len(g)) /\ NoEnd(r)
  BY DEF Flow
<1>2. 1 <= Len(r) /\ Len(r) \in Nat /\ r \o w \in Seq(Unit) /\ Len(g) \in 0 .. Len(s)
  BY Longer, LenProperties DEF Prefix
<1>3. /\ r[1].u = "h1" /\ (r \o w)[1] = r[1] /\ 1 <= Len(r \o w) /\ r[1].op \in Ops
      /\ r[1].len \in Nat /\ r[1].id \in Nat /\ 2 + r[1].len <= Len(r \o w)
      /\ S!Headers(r) = {[op |-> r[1].op, len |-> r[1].len]}
      /\ 2 + r[1].len <= Len(r) =>
            /\ r[1].op = "data" => S!PacketIn(r, r[1].len) = r[1].id
            /\ SubSeq(r \o w, 2 + r[1].len + 1, Len(r \o w)) = SubSeq(r, 2 + r[1].len + 1, Len(r)) \o w
  BY <1>1, <1>2, Header
<1>4. h.op = r[1].op /\ h.len = r[1].len
  BY <1>3
<1> HIDE DEF c
<1>5. ASSUME 2 + h.len <= Len(r)
      PROVE  /\ c \in Seq(Unit)
             /\ h.op = "data" => Len(g) + 1 <= Len(s) /\ s[Len(g) + 1] = S!PacketIn(r, h.len) /\ Flow(c, w, Append(g, S!PacketIn(r, h.len)), s)
             /\ h.op # "data" => Flow(c, w, g, s)
             /\ \A x : Has(r \o w, x) /\ h.op # x => Has(c \o w, x)
             /\ Calm(r \o w) => Calm(c \o w)
  <2> DEFINE b == r \o w
             d == c \o w
  <2>1. d = SubSeq(b, 2 + b[1].len + 1, Len(b)) /\ b[1].op = h.op /\ b[1].u = "h1" /\ 1 <= Len(b) /\ b[1].id = r[1].id
    BY <1>3, <1>4, <1>5 DEF c
  <2>2. b \in Seq(Unit) /\ Framed(b) /\ Carries(b, s, Len(g))
    BY <1>1, <1>2
  <2> HIDE DEF b, d
  <2>3. /\ Framed(d)
        /\ b[1].op = "data" => Len(g) + 1 <= Len(s) /\ s[Len(g) + 1] = b[1].id /\ Carries(d, s, Len(g) + 1)
        /\ b[1].op # "data" => Carries(d, s, Len(g))
        /\ \A x : Has(b, x) /\ b[1].op # x => Has(d, x)
        /\ Calm(b) => Calm(d)
    <3>1. Len(g) \in 0 .. Len(s)
      BY <1>2
    <3>2. LET e == SubSeq(b, 2 + b[1].len + 1, Len(b)) IN
          /\ Framed(e)
          /\ b[1].op = "data" => Len(g) + 1 <= Len(s) /\ s[Len(g) + 1] = b[1].id /\ Carries(e, s, Len(g) + 1)
          /\ b[1].op # "data" => Carries(e, s, Len(g))
          /\ \A x : Has(b, x) /\ b[1].op # x => Has(e, x)
          /\ Calm(b) => Calm(e)
      BY <2>1, <2>2, <3>1, First
    <3> QED BY <2>1, <3>2
  <2>4. c \in Seq(Unit) /\ NoEnd(c)
    <3>0. h.len \in Nat /\ Len(r) \in Nat
      BY <1>2, <1>3, <1>4
    <3>1. 2 + h.len \in 0 .. Len(r) /\ h.len \in Nat
      BY <3>0, <1>5
    <3>2. c \in Seq(Unit) /\ Len(c) = Len(r) - (2 + h.len)
          /\ \A i \in 1 .. Len(r) - (2 + h.len) : (2 + h.len) + i \in 1 .. Len(r) /\ c[i] = r[(2 + h.len) + i]
      BY <3>1, RestOf DEF c
    <3> QED BY <3>2, <1>1 DEF NoEnd
  <2>5. ASSUME h.op = "data"
        PROVE  Len(g) + 1 <= Len(s) /\ s[Len(g) + 1] = S!PacketIn(r, h.len) /\ Flow(c, w, Append(g, S!PacketIn(r, h.len)), s)
    <3>1. S!PacketIn(r, h.len) = b[1].id /\ b[1].id \in Nat
      BY <1>3, <1>4, <1>5, <2>1, <2>5
    <3>2. Len(Append(g, S!PacketIn(r, h.len))) = Len(g) + 1
      BY <3>1, AppendProperties
    <3> QED BY <3>1, <3>2, <2>1, <2>3, <2>4, <2>5 DEF Flow, d
  <2>6. ASSUME h.op # "data" PROVE Flow(c, w, g, s)
    BY <2>1, <2>3, <2>4, <2>6 DEF Flow, d
  <2> QED BY <2>1, <2>3, <2>4, <2>5, <2>6 DEF b, d
<1> QED BY <1>3, <1>4, <1>5 DEF c

\* A buffer with nothing behind it holds a whole frame or nothing.
LEMMA FlowQuiet ==
    ASSUME NEW r \in Seq(Unit), NEW s, NEW g, Flow(r, <<>>, g, s), r # <<>>
    PROVE  S!Decodable(r)
<1>1. <<>> \in Seq(Unit) /\ r \o <<>> = r /\ Len(r) \in Nat /\ 1 <= Len(r)
  BY ConcatEmptySeq, EmptySeq
<1>2. Framed(r \o <<>>) /\ NoEnd(r)
  BY DEF Flow
<1>3. r[1].len \in Nat /\ 2 + r[1].len <= Len(r) /\ (Len(r) >= 2 => S!Headers(r) = {[op |-> r[1].op, len |-> r[1].len]})
  BY <1>1, <1>2, Header
<1>4. S!Headers(r) = {[op |-> r[1].op, len |-> r[1].len]}
  BY <1>1, <1>3
<1> QED BY <1>3, <1>4 DEF S!Decodable

-----------------------------------------------------------------------------
\* The types of the stream's variables.
StreamTypes ==
    /\ ends \in [S!Ends -> {"open", "closed"}]
    /\ wire \in [S!Ends -> Seq(Unit)] /\ rx_buf \in [S!Ends -> Seq(Unit)]
    /\ sent \in [S!Ends -> Seq(Nat)] /\ got \in [S!Ends -> Seq(Nat)]
    /\ cut \subseteq S!Ends
    /\ why \in [S!Ends -> {"none", "dead", "protocol", "peer", "idle"}]
    /\ idle \in [S!Ends -> Nat] /\ pinged \in 0 .. PingEvery
    /\ stalled \in BOOLEAN /\ hurt \in BOOLEAN
    /\ count \in [packets : Nat, stalls : Nat, connects : Nat]

\* As long as no send to an end was cut, it has what was sent, and what it has
\* not decoded are whole frames with the packets that follow.
FlowKept(p) ==
    S!Other(p) \notin cut =>
        /\ Prefix(got[p], sent[S!Other(p)]) /\ why[p] # "protocol"
        /\ ends[p] = "open" => Flow(rx_buf[p], wire[p], got[p], sent[S!Other(p)])

\* Packets are sent in the order of their numbers.
Numbers == \A p \in S!Ends : Rising(sent[p], count.packets)

\* A connection whose network never stopped: both ends are up, no frame is cut or
\* ends it, and an end that is silent for longer than since the last ping has the
\* ping, or the answer, on its way.
Stream(p) == rx_buf[p] \o wire[p]
Healthy ==
    /\ ~stalled /\ cut = {}
    /\ \A p \in S!Ends : ends[p] = "open" /\ why[p] = "none" /\ Calm(Stream(p)) /\ idle[p] <= PingEvery
    /\ idle[Sn] <= pinged \/ Has(Stream(Sn), "ping")
    /\ idle[Edge] <= pinged \/ Has(Stream(Sn), "ping") \/ Has(Stream(Edge), "pong")

StreamInv == StreamTypes /\ (\A p \in S!Ends : FlowKept(p)) /\ Numbers /\ (~hurt => Healthy)

\* What nobody touched.
LEMMA FlowSame ==
    ASSUME NEW q \in S!Ends, FlowKept(q), S!Other(q) \in cut => S!Other(q) \in cut',
           got'[q] = got[q], sent'[S!Other(q)] = sent[S!Other(q)], why'[q] = why[q],
           ends'[q] = ends[q], rx_buf'[q] = rx_buf[q], wire'[q] = wire[q]
    PROVE  FlowKept(q)'
BY DEF FlowKept

LEMMA StreamInit == S!Init => StreamInv
<1> SUFFICES ASSUME S!Init PROVE StreamInv
  OBVIOUS
<1>1. <<>> \in Seq(Unit) /\ <<>> \in Seq(Nat) /\ Len(<<>>) = 0 /\ <<>> \o <<>> = <<>>
  BY EmptySeq, ConcatEmptySeq
<1>2. StreamTypes
  <2>1. pinged \in 0 .. PingEvery
    BY StreamConstants DEF S!Init
  <2> QED BY <2>1, <1>1 DEF StreamTypes, S!Init
<1>3. \A p \in S!Ends : got[p] = <<>> /\ sent[p] = <<>> /\ wire[p] = <<>> /\ rx_buf[p] = <<>> /\ why[p] = "none" /\ ends[p] = "open" /\ idle[p] = 0
  BY DEF S!Init
<1>4. Framed(<<>>) /\ Carries(<<>>, <<>>, 0) /\ NoEnd(<<>>) /\ Calm(<<>>)
  BY <1>1 DEF Framed, Carries, NoEnd, Calm, Data
<1>5. ASSUME NEW p \in S!Ends PROVE FlowKept(p)
  <2>1. S!Other(p) \in S!Ends
    BY StreamConstants
  <2>2. got[p] = <<>> /\ sent[S!Other(p)] = <<>> /\ wire[p] = <<>> /\ rx_buf[p] = <<>> /\ why[p] = "none"
    BY <2>1, <1>3
  <2>3. Flow(<<>>, <<>>, <<>>, <<>>) /\ Prefix(<<>>, <<>>)
    BY <1>1, <1>4 DEF Flow, Prefix
  <2> QED BY <2>2, <2>3 DEF FlowKept
<1>6. Numbers
  BY <1>1, <1>3 DEF Numbers, Rising
<1>7. Healthy
  <2>1. \A p \in S!Ends : ends[p] = "open" /\ why[p] = "none" /\ Calm(Stream(p)) /\ idle[p] <= PingEvery
    <3> SUFFICES ASSUME NEW p \in S!Ends PROVE ends[p] = "open" /\ why[p] = "none" /\ Calm(Stream(p)) /\ idle[p] <= PingEvery
      OBVIOUS
    <3>1. Stream(p) = <<>>
      BY <1>1, <1>3 DEF Stream
    <3> QED BY <3>1, <1>3, <1>4, StreamConstants
  <2>2. pinged = PingEvery /\ ~stalled /\ cut = {}
    BY DEF S!Init
  <2> QED BY <2>1, <2>2, StreamConstants DEF Healthy
<1> QED BY <1>2, <1>5, <1>6, <1>7 DEF StreamInv

\* What a send may leave in the stream.
LEMMA PutsBytes ==
    ASSUME StreamTypes, NEW p \in S!Ends, NEW f \in Seq(Unit), S!Puts(p, f), NEW q, q = S!Other(p)
    PROVE  /\ wire' \in [S!Ends -> Seq(Unit)] /\ wire'[p] = wire[p] /\ wire'[q] = wire[q] \o S!Written(p, f)
           /\ cut \subseteq cut' /\ cut' \subseteq S!Ends /\ (q \in cut' => q \in cut)
           /\ p \notin cut' => S!Written(p, f) \in {<<>>, f}
           /\ ~stalled => S!Written(p, f) = f /\ cut' = cut
<1> DEFINE x == S!Written(p, f)
<1>1. f \in Seq(Unit) /\ Len(f) \in Nat
  OBVIOUS
<1>2. q \in S!Ends /\ q # p /\ wire[q] \in Seq(Unit) /\ Len(wire[q]) \in Nat /\ InFlight \in Nat
  BY StreamConstants DEF StreamTypes
<1>3. x \in Seq(Unit)
  <2>1. <<>> \in Seq(Unit)
    BY EmptySeq
  <2>2. CASE Len(wire[q]) >= InFlight
    BY <2>1, <2>2 DEF S!Written
  <2>3. CASE Len(wire[q]) + Len(f) <= InFlight /\ ~(Len(wire[q]) >= InFlight)
    BY <1>1, <2>3 DEF S!Written
  <2>4. CASE ~(Len(wire[q]) + Len(f) <= InFlight) /\ ~(Len(wire[q]) >= InFlight)
    <3> DEFINE k == InFlight - Len(wire[q])
    <3>1. x = SubSeq(f, 1, k)
      BY <2>4 DEF S!Written, S!ws_send_all
    <3>2. k \in Int /\ k <= Len(f)
      <4>1. PICK n \in Nat : n = Len(wire[q])
        BY <1>2
      <4>2. PICK m \in Nat : m = Len(f)
        BY <1>1
      <4> QED BY <4>1, <4>2, <2>4, <1>2
    <3> HIDE DEF k
    <3>3. \A i \in 1 .. k : f[i] \in Unit
      <4>1. \A i \in 1 .. k : i \in 1 .. Len(f)
        BY <3>2, <1>1
      <4> QED BY <4>1, <1>1, ElementOfSeq
    <3>4. SubSeq(f, 1, k) \in Seq(Unit)
      BY <3>2, <3>3, SubSeqProperties
    <3> QED BY <3>1, <3>4
  <2> QED BY <2>2, <2>3, <2>4
<1>4. /\ wire' = [wire EXCEPT ![q] = @ \o x] /\ cut' = (IF x \in {<<>>, f} THEN cut ELSE cut \cup {p})
      /\ stalled \/ x = f
  BY DEF S!Puts
<1> HIDE DEF x
<1>5. wire[q] \o x \in Seq(Unit)
  BY <1>2, <1>3, ConcatProperties
<1>6. wire' \in [S!Ends -> Seq(Unit)] /\ wire'[p] = wire[p] /\ wire'[q] = wire[q] \o x
  BY <1>2, <1>4, <1>5 DEF StreamTypes
<1>7. cut \subseteq cut' /\ cut' \subseteq S!Ends /\ (q \in cut' => q \in cut) /\ (p \notin cut' => x \in {<<>>, f})
      /\ (~stalled => x = f /\ cut' = cut)
  BY <1>2, <1>4 DEF StreamTypes
<1> QED BY <1>6, <1>7 DEF x

\* ws_send.
LEMMA StreamSend ==
    ASSUME StreamInv, NEW p \in S!Ends, NEW len \in Lengths, S!ws_send(p, len) PROVE StreamInv'
<1> DEFINE q == S!Other(p)
           id == count.packets + 1
           f == S!ws_build_frame("data", len, id)
           x == S!Written(p, f)
<1>0. q \in S!Ends /\ q # p /\ S!Other(q) = p /\ S!Ends = {Edge, Sn} /\ len \in Nat /\ "data" \in Ops /\ (\A o \in S!Ends : o = p \/ o = q)
  BY StreamConstants DEF Ops
<1>1. StreamTypes /\ FlowKept(p) /\ FlowKept(q) /\ Numbers /\ (~hurt => Healthy)
  BY <1>0 DEF StreamInv
<1>2. count.packets \in Nat /\ id \in Nat
  BY <1>1 DEF StreamTypes
<1>3. /\ ends[p] = "open" /\ S!Puts(p, f) /\ count' = [count EXCEPT !.packets = id]
      /\ IF x = f THEN sent' = [sent EXCEPT ![p] = Append(@, id)] /\ idle' = [idle EXCEPT ![p] = 0] ELSE UNCHANGED <<sent, idle>>
      /\ UNCHANGED <<ends, rx_buf, got, why, pinged, stalled, hurt>>
  BY DEF S!ws_send
<1>4. /\ wire' \in [S!Ends -> Seq(Unit)] /\ wire'[p] = wire[p] /\ wire'[q] = wire[q] \o x
      /\ cut \subseteq cut' /\ cut' \subseteq S!Ends /\ (q \in cut' => q \in cut)
      /\ p \notin cut' => x \in {<<>>, f}
      /\ ~stalled => x = f /\ cut' = cut
  <2>1. f \in Seq(Unit)
    BY <1>0, <1>2, BuiltFrame
  <2>2. StreamTypes /\ S!Puts(p, f) /\ q = S!Other(p)
    BY <1>1, <1>3
  <2> HIDE DEF f, q
  <2>3. /\ wire' \in [S!Ends -> Seq(Unit)] /\ wire'[p] = wire[p] /\ wire'[q] = wire[q] \o S!Written(p, f)
        /\ cut \subseteq cut' /\ cut' \subseteq S!Ends /\ (q \in cut' => q \in cut)
        /\ p \notin cut' => S!Written(p, f) \in {<<>>, f}
        /\ ~stalled => S!Written(p, f) = f /\ cut' = cut
    BY <2>1, <2>2, PutsBytes
  <2> QED BY <2>3 DEF x
<1>5. f \in Seq(Unit) /\ Len(f) = 2 + len
  BY <1>0, <1>2, BuiltFrame
<1>6. /\ sent[p] \in Seq(Nat) /\ sent[q] \in Seq(Nat) /\ got[q] \in Seq(Nat) /\ rx_buf[q] \in Seq(Unit) /\ wire[q] \in Seq(Unit)
      /\ rx_buf[p] \in Seq(Unit) /\ wire[p] \in Seq(Unit)
  BY <1>0, <1>1 DEF StreamTypes
<1>7. Append(sent[p], id) \in Seq(Nat) /\ Len(Append(sent[p], id)) = Len(sent[p]) + 1 /\ Len(sent[p]) \in Nat
      /\ (\A k \in 1 .. Len(sent[p]) : Append(sent[p], id)[k] = sent[p][k]) /\ Append(sent[p], id)[Len(sent[p]) + 1] = id
  BY <1>2, <1>6, AppendProperties
<1>8. \A k \in 1 .. Len(sent[p]) : sent[p][k] < id
  BY <1>1, <1>2 DEF Numbers, Rising
<1> HIDE DEF f, id, x, q
<1>9. StreamTypes'
  <2>1. sent' \in [S!Ends -> Seq(Nat)] /\ idle' \in [S!Ends -> Nat]
    <3>1. sent \in [S!Ends -> Seq(Nat)] /\ idle \in [S!Ends -> Nat]
      BY <1>1 DEF StreamTypes
    <3>2. [sent EXCEPT ![p] = Append(@, id)] \in [S!Ends -> Seq(Nat)] /\ [idle EXCEPT ![p] = 0] \in [S!Ends -> Nat]
      BY <3>1, <1>7
    <3> QED BY <3>1, <3>2, <1>3
  <2>2. count' \in [packets : Nat, stalls : Nat, connects : Nat]
    BY <1>1, <1>2, <1>3 DEF StreamTypes
  <2> QED BY <2>1, <2>2, <1>1, <1>3, <1>4 DEF StreamTypes
<1>10. sent'[q] = sent[q] /\ (x = f => sent'[p] = Append(sent[p], id)) /\ (x # f => sent'[p] = sent[p])
  BY <1>0, <1>1, <1>3 DEF StreamTypes
<1>11. FlowKept(p)'
  BY <1>0, <1>1, <1>3, <1>4, <1>10, FlowSame DEF q
<1>12. FlowKept(q)'
  <2> SUFFICES ASSUME p \notin cut'
               PROVE  /\ Prefix(got[q], sent'[p]) /\ why[q] # "protocol"
                      /\ ends[q] = "open" => Flow(rx_buf[q], wire'[q], got[q], sent'[p])
    BY <1>0, <1>3 DEF FlowKept
  <2>1. Prefix(got[q], sent[p]) /\ why[q] # "protocol" /\ (ends[q] = "open" => Flow(rx_buf[q], wire[q], got[q], sent[p]))
    BY <1>0, <1>1, <1>4 DEF FlowKept
  <2>2. CASE x = f
    <3>1. Prefix(got[q], Append(sent[p], id))
      BY <2>1, <1>7, <1>6 DEF Prefix
    <3>2. ASSUME ends[q] = "open" PROVE Flow(rx_buf[q], wire[q] \o f, got[q], Append(sent[p], id))
      BY <2>1, <3>2, <1>0, <1>2, <1>6, <1>8, FlowPacket DEF f
    <3> QED BY <2>1, <2>2, <3>1, <3>2, <1>4, <1>10
  <2>3. CASE x # f
    <3>1. x = <<>> /\ wire[q] \o <<>> = wire[q]
      BY <2>3, <1>4, <1>6, ConcatEmptySeq
    <3> QED BY <2>1, <2>3, <3>1, <1>4, <1>10
  <2> QED BY <2>2, <2>3
<1>13. Numbers'
  <2>1. count'.packets = id /\ id = count.packets + 1
    BY <1>1, <1>3 DEF StreamTypes, id
  <2>2. Rising(sent[q], id) /\ Rising(sent[p], id)
    <3>1. Rising(sent[q], count.packets) /\ Rising(sent[p], count.packets)
      BY <1>0, <1>1 DEF Numbers
    <3> QED BY <3>1, <2>1, <1>2 DEF Rising
  <2>3. Rising(Append(sent[p], id), id)
    <3> DEFINE t == Append(sent[p], id)
    <3>1. \A k \in 1 .. Len(t) : k \in 1 .. Len(sent[p]) \/ k = Len(sent[p]) + 1
      BY <1>7
    <3>2. id \in 1 .. id
      BY <1>2, <2>1
    <3> HIDE DEF t
    <3> SUFFICES ASSUME NEW k \in 1 .. Len(t)
                 PROVE  t[k] \in 1 .. id /\ \A m \in 1 .. Len(t) : k < m => t[k] < t[m]
      BY DEF Rising, t
    <3>3. CASE k \in 1 .. Len(sent[p])
      <4>1. t[k] = sent[p][k] /\ sent[p][k] \in 1 .. id /\ sent[p][k] < id
        BY <3>3, <2>2, <1>7, <1>8 DEF Rising, t
      <4>2. ASSUME NEW m \in 1 .. Len(t), k < m PROVE t[k] < t[m]
        <5>1. CASE m \in 1 .. Len(sent[p])
          BY <5>1, <4>1, <4>2, <3>3, <2>2, <1>7 DEF Rising, t
        <5>2. CASE m = Len(sent[p]) + 1
          BY <5>2, <4>1, <1>7 DEF t
        <5> QED BY <5>1, <5>2, <3>1
      <4> QED BY <4>1, <4>2
    <3>4. CASE k = Len(sent[p]) + 1
      <4>1. t[k] = id
        BY <3>4, <1>7 DEF t
      <4>2. \A m \in 1 .. Len(t) : ~(k < m)
        BY <3>4, <1>7 DEF t
      <4> QED BY <4>1, <4>2, <3>2
    <3> QED BY <3>1, <3>3, <3>4
  <2>4. Rising(sent'[p], id) /\ Rising(sent'[q], id)
    BY <2>2, <2>3, <1>10
  <2> QED BY <2>1, <2>4, <1>0 DEF Numbers
<1>14. ASSUME ~hurt' PROVE Healthy'
  <2>1. Healthy /\ ~stalled /\ x = f /\ cut' = cut
    BY <1>1, <1>3, <1>4, <1>14 DEF Healthy
  <2>2. rx_buf[q] \o (wire[q] \o f) = Stream(q) \o f /\ Stream(q) \in Seq(Unit)
    <3>1. f \in Seq(Unit) /\ rx_buf[q] \in Seq(Unit) /\ wire[q] \in Seq(Unit)
      BY <1>5, <1>6
    <3>2. rx_buf[q] \o wire[q] \in Seq(Unit) /\ rx_buf[q] \o (wire[q] \o f) = (rx_buf[q] \o wire[q]) \o f
      BY <3>1, Behind
    <3> QED BY <3>2 DEF Stream
  <2>3. Stream(p)' = Stream(p) /\ Stream(q)' = Stream(q) \o f
    BY <2>1, <2>2, <1>3, <1>4 DEF Stream
  <2>4. (\A o : Has(Stream(q), o) => Has(Stream(q) \o f, o)) /\ (Calm(Stream(q)) => Calm(Stream(q) \o f))
    BY <2>2, <1>0, <1>2, Added DEF f
  <2>5. \A o \in S!Ends : Calm(Stream(o)') /\ (\A y : Has(Stream(o), y) => Has(Stream(o)', y))
    BY <2>1, <2>3, <2>4, <1>0 DEF Healthy
  <2>6. idle'[p] = 0 /\ idle'[q] = idle[q] /\ PingEvery \in Nat /\ pinged \in Nat
    <3>1. PingEvery \in Nat /\ pinged \in Nat /\ idle \in [S!Ends -> Nat]
      BY <1>1, StreamConstants DEF StreamTypes
    <3>2. idle' = [idle EXCEPT ![p] = 0]
      BY <2>1, <1>3
    <3> QED BY <3>1, <3>2, <1>0
  <2>7. \A o \in S!Ends : idle'[o] = 0 \/ idle'[o] = idle[o]
    BY <2>6, <1>0
  <2> QED BY <2>1, <2>5, <2>6, <2>7, <1>0, <1>3 DEF Healthy
<1>15. \A o \in S!Ends : FlowKept(o)'
  BY <1>0, <1>11, <1>12
<1> QED BY <1>9, <1>13, <1>14, <1>15 DEF StreamInv

\* ws_close, on a connection whose network has stopped before.
LEMMA CloseBytes ==
    ASSUME NEW p \in S!Ends
    PROVE  S!CloseFits(p) \in {<<>>, S!ws_build_frame("close", 0, 0)}
<1> DEFINE f == S!ws_build_frame("close", 0, 0)
<1>1. f \in Seq(Unit) /\ Len(f) = 2
  <2>1. "close" \in Ops /\ 0 \in Nat /\ 2 + 0 = 2
    BY DEF Ops
  <2> HIDE DEF f
  <2>2. f \in Seq(Unit) /\ Len(f) = 2 + 0
    BY <2>1, BuiltFrame DEF f
  <2> QED BY <2>1, <2>2
<1> HIDE DEF f
<1>2. SubSeq(f, 1, 2) = f
  BY <1>1, SubSeqFull
<1>3. SubSeq(f, 1, 0) = <<>>
  BY SubSeqEmpty
<1> QED BY <1>2, <1>3 DEF S!CloseFits, f

LEMMA StreamClose ==
    ASSUME StreamInv, hurt, NEW p \in S!Ends, NEW reason \in {"dead", "protocol", "peer", "idle"},
           reason = "protocol" => S!Other(p) \in cut,
           S!ws_close(p, reason), UNCHANGED <<sent, got, cut, idle, pinged, stalled, hurt, count>>
    PROVE  StreamInv'
<1> DEFINE q == S!Other(p)
           c == S!CloseFits(p)
<1>0. q \in S!Ends /\ q # p /\ S!Other(q) = p /\ (\A o \in S!Ends : o = p \/ o = q)
  BY StreamConstants
<1>1. StreamTypes /\ FlowKept(p) /\ FlowKept(q) /\ Numbers
  BY <1>0 DEF StreamInv
<1>2. /\ ends' = [ends EXCEPT ![p] = "closed"] /\ why' = [why EXCEPT ![p] = reason]
      /\ wire' = [wire EXCEPT ![p] = <<>>, ![q] = IF ends[q] = "open" THEN @ \o c \o <<S!Fin>> ELSE <<>>]
      /\ rx_buf' = [rx_buf EXCEPT ![p] = <<>>]
  BY DEF S!ws_close
<1>3. c \in {<<>>, S!ws_build_frame("close", 0, 0)} /\ c \in Seq(Unit) /\ <<S!Fin>> \in Seq(Unit) /\ <<>> \in Seq(Unit) /\ "close" \in Ops
  <2>1. c \in {<<>>, S!ws_build_frame("close", 0, 0)}
    BY CloseBytes
  <2>2. <<>> \in Seq(Unit) /\ S!ws_build_frame("close", 0, 0) \in Seq(Unit) /\ "close" \in Ops
    BY EmptySeq, BuiltFrame DEF Ops
  <2> QED BY <2>1, <2>2, FramedFin
<1>4. wire[q] \in Seq(Unit) /\ rx_buf[q] \in Seq(Unit) /\ wire[q] \o c \in Seq(Unit) /\ (wire[q] \o c) \o <<S!Fin>> \in Seq(Unit)
  <2>1. wire[q] \in Seq(Unit) /\ rx_buf[q] \in Seq(Unit)
    BY <1>0, <1>1 DEF StreamTypes
  <2>2. wire[q] \o c \in Seq(Unit)
    BY <2>1, <1>3, Behind
  <2>3. (wire[q] \o c) \o <<S!Fin>> \in Seq(Unit)
    BY <2>2, <1>3, Behind
  <2> QED BY <2>1, <2>2, <2>3
<1> HIDE DEF q, c
<1>5. StreamTypes'
  BY <1>0, <1>1, <1>2, <1>3, <1>4 DEF StreamTypes
<1>6. ends'[p] = "closed" /\ why'[p] = reason /\ ends'[q] = ends[q] /\ why'[q] = why[q] /\ rx_buf'[q] = rx_buf[q]
      /\ (ends[q] = "open" => wire'[q] = (wire[q] \o c) \o <<S!Fin>>)
  BY <1>0, <1>1, <1>2 DEF StreamTypes
<1>7. FlowKept(p)'
  BY <1>0, <1>1, <1>6 DEF FlowKept, q
<1>8. FlowKept(q)'
  <2> SUFFICES ASSUME p \notin cut
               PROVE  /\ Prefix(got[q], sent[p]) /\ why[q] # "protocol"
                      /\ ends[q] = "open" => Flow(rx_buf[q], wire'[q], got[q], sent[p])
    BY <1>0, <1>6 DEF FlowKept
  <2>1. Prefix(got[q], sent[p]) /\ why[q] # "protocol" /\ (ends[q] = "open" => Flow(rx_buf[q], wire[q], got[q], sent[p]))
    BY <1>0, <1>1 DEF FlowKept
  <2>2. ASSUME ends[q] = "open" PROVE Flow(rx_buf[q], (wire[q] \o c) \o <<S!Fin>>, got[q], sent[p])
    <3>1. Flow(rx_buf[q], wire[q], got[q], sent[p])
      BY <2>1, <2>2
    <3>2. Flow(rx_buf[q], wire[q] \o c, got[q], sent[p])
      <4>1. CASE c = <<>>
        <5>1. wire[q] \o <<>> = wire[q]
          BY <1>4, ConcatEmptySeq
        <5> QED BY <3>1, <4>1, <5>1
      <4>2. CASE c = S!ws_build_frame("close", 0, 0)
        BY <3>1, <4>2, <1>3, <1>4, FlowControl
      <4> QED BY <4>1, <4>2, <1>3
    <3> QED BY <3>2, <1>4, FlowEnd
  <2> QED BY <2>1, <2>2, <1>6
<1>9. Numbers'
  BY <1>1 DEF Numbers
<1>10. \A o \in S!Ends : FlowKept(o)'
  BY <1>0, <1>7, <1>8
<1> QED BY <1>5, <1>9, <1>10 DEF StreamInv

\* The end of the stream, or of a connection whose other end is gone, is only seen
\* when the network has stopped before.
LEMMA StreamDrops ==
    ASSUME StreamInv, NEW p \in S!Ends, S!SendFails(p) \/ S!Purge(p) PROVE StreamInv'
<1>1. S!Other(p) \in S!Ends /\ PingEvery \in Nat /\ IdleAfter \in Nat /\ StaleAfter \in Nat
      /\ PingEvery <= IdleAfter /\ PingEvery <= StaleAfter
  BY StreamConstants
<1>2. hurt
  <2> SUFFICES ASSUME ~hurt PROVE FALSE
    OBVIOUS
  <2>1. ends[S!Other(p)] = "open" /\ idle[p] \in Nat /\ idle[p] <= PingEvery
    BY <1>1 DEF StreamInv, StreamTypes, Healthy
  <2> QED BY <2>1, <1>1 DEF S!SendFails, S!Purge, S!Expired
<1>3. CASE S!SendFails(p)
  <2>1. S!ws_close(p, "dead") /\ UNCHANGED <<sent, got, cut, idle, pinged, stalled, hurt, count>>
    BY <1>3 DEF S!SendFails
  <2> QED BY <2>1, <1>2, StreamClose
<1>4. CASE S!Purge(p)
  <2>1. S!ws_close(p, "idle") /\ UNCHANGED <<sent, got, cut, idle, pinged, stalled, hurt, count>>
    BY <1>4 DEF S!Purge
  <2> QED BY <2>1, <1>2, StreamClose
<1> QED BY <1>3, <1>4

\* What the socket has.
LEMMA StreamMore ==
    ASSUME StreamInv, NEW p \in S!Ends, S!NeedMore(p) PROVE StreamInv'
<1>0. S!Other(p) \in S!Ends /\ S!Other(p) # p /\ S!Other(S!Other(p)) = p /\ (\A o \in S!Ends : o = p \/ o = S!Other(p))
  BY StreamConstants
<1>1. StreamTypes /\ (\A o \in S!Ends : FlowKept(o)) /\ Numbers /\ (~hurt => Healthy)
  BY DEF StreamInv
<1>2. UNCHANGED <<sent, got, cut, idle, pinged, stalled, hurt, count>> /\ rx_buf[p] \in Seq(Unit) /\ wire[p] \in Seq(Unit)
  BY <1>1 DEF S!NeedMore, StreamTypes
<1>3. CASE \E n \in 1 .. Len(wire[p]) :
              /\ \A i \in 1 .. n : wire[p][i] # S!Fin
              /\ rx_buf' = [rx_buf EXCEPT ![p] = @ \o SubSeq(wire[p], 1, n)]
              /\ wire' = [wire EXCEPT ![p] = SubSeq(@, n + 1, Len(@))]
              /\ UNCHANGED <<ends, why>>
  <2>1. PICK n \in 1 .. Len(wire[p]) :
              /\ \A i \in 1 .. n : wire[p][i] # S!Fin
              /\ rx_buf' = [rx_buf EXCEPT ![p] = @ \o SubSeq(wire[p], 1, n)]
              /\ wire' = [wire EXCEPT ![p] = SubSeq(@, n + 1, Len(@))]
              /\ UNCHANGED <<ends, why>>
    BY <1>3
  <2> DEFINE x == rx_buf[p] \o SubSeq(wire[p], 1, n)
             y == SubSeq(wire[p], n + 1, Len(wire[p]))
  <2>2. /\ x \in Seq(Unit) /\ y \in Seq(Unit) /\ x \o y = rx_buf[p] \o wire[p]
        /\ NoEnd(rx_buf[p]) => NoEnd(x)
    BY <1>2, <2>1, FlowMove
  <2>3. rx_buf' = [rx_buf EXCEPT ![p] = x] /\ wire' = [wire EXCEPT ![p] = y]
    BY <2>1
  <2> HIDE DEF x, y
  <2>4. StreamTypes'
    <3>1. rx_buf' \in [S!Ends -> Seq(Unit)] /\ wire' \in [S!Ends -> Seq(Unit)]
      BY <1>1, <2>2, <2>3 DEF StreamTypes
    <3> QED BY <3>1, <1>1, <1>2, <2>1 DEF StreamTypes
  <2>5. rx_buf'[p] = x /\ wire'[p] = y /\ \A o \in S!Ends : o # p => rx_buf'[o] = rx_buf[o] /\ wire'[o] = wire[o]
    BY <1>1, <2>3 DEF StreamTypes
  <2>6. \A o \in S!Ends : Stream(o)' = Stream(o)
    BY <2>2, <2>5 DEF Stream
  <2>7. FlowKept(p)'
    BY <1>0, <1>1, <1>2, <2>1, <2>2, <2>5 DEF FlowKept, Flow
  <2>8. FlowKept(S!Other(p))'
    BY <1>0, <1>1, <1>2, <2>1, <2>5 DEF FlowKept
  <2>9. \A o \in S!Ends : FlowKept(o)'
    BY <1>0, <2>7, <2>8
  <2>10. Numbers'
    BY <1>1, <1>2 DEF Numbers
  <2>11. ASSUME ~hurt' PROVE Healthy'
    BY <1>0, <1>1, <1>2, <2>1, <2>6, <2>11, StreamConstants DEF Healthy
  <2> QED BY <2>4, <2>9, <2>10, <2>11 DEF StreamInv
<1>4. CASE wire[p] # <<>> /\ Head(wire[p]) = S!Fin /\ S!ws_close(p, "peer")
  <2>1. hurt
    <3> SUFFICES ASSUME ~hurt PROVE FALSE
      OBVIOUS
    <3>1. Calm(rx_buf[p] \o wire[p])
      BY <1>1 DEF Healthy, Stream
    <3>2. 1 \in 1 .. Len(wire[p]) /\ wire[p][1] = S!Fin
      <4>1. Len(wire[p]) \in Nat /\ Len(wire[p]) # 0 /\ wire[p][1] = S!Fin
        BY <1>2, <1>4, EmptySeq
      <4> QED BY <4>1
    <3>3. \E k \in 1 .. Len(rx_buf[p] \o wire[p]) : (rx_buf[p] \o wire[p])[k] = S!Fin
      <4> DEFINE r == rx_buf[p]
                 w == wire[p]
      <4>1. r \in Seq(Unit) /\ w \in Seq(Unit)
        BY <1>2
      <4> HIDE DEF r, w
      <4>2. \A i \in 1 .. Len(w) : Len(r) + i \in 1 .. Len(r \o w) /\ (r \o w)[Len(r) + i] = w[i]
        BY <4>1, Joined
      <4>3. 1 \in 1 .. Len(w) /\ w[1] = S!Fin
        BY <3>2 DEF w
      <4>4. \E k \in 1 .. Len(r \o w) : (r \o w)[k] = S!Fin
        BY <4>2, <4>3
      <4> QED BY <4>4 DEF r, w
    <3>4. S!Fin.u = "fin"
      BY DEF S!Fin
    <3> QED BY <3>1, <3>3, <3>4 DEF Calm
  <2> QED BY <2>1, <1>2, <1>4, StreamClose
<1> QED BY <1>3, <1>4 DEF S!NeedMore

\* What a frame in the buffer may be when the stream is cut.
LEMMA Taken ==
    ASSUME NEW r \in Seq(Unit), NEW h \in S!Headers(r), 2 <= Len(r), 2 + h.len <= Len(r)
    PROVE  h.len \in Nat /\ SubSeq(r, 2 + h.len + 1, Len(r)) \in Seq(Unit) /\ S!PacketIn(r, h.len) \in Nat
<1>1. r[1] \in Unit /\ Len(r) \in Nat /\ Head(r) = r[1]
  BY ElementOfSeq
<1>2. r[1].len \in Nat /\ r[1].id \in Nat
  BY <1>1 DEF Unit
<1>3. h.len \in Nat
  BY <1>1, <1>2 DEF S!Headers
<1>4. 2 + h.len \in 0 .. Len(r)
  BY <1>1, <1>3
<1>5. SubSeq(r, 2 + h.len + 1, Len(r)) \in Seq(Unit)
  BY <1>4, RestOf
<1>6. S!PacketIn(r, h.len) \in Nat
  BY <1>1, <1>2 DEF S!PacketIn, S!Junk
<1> QED BY <1>3, <1>5, <1>6

\* A packet is handed out.
LEMMA StreamDeliver ==
    ASSUME StreamInv, NEW p \in S!Ends, ends[p] = "open", 2 <= Len(rx_buf[p]), NEW h \in S!Headers(rx_buf[p]),
           2 + h.len <= Len(rx_buf[p]), S!Deliver(p, h), UNCHANGED <<sent, pinged, stalled, hurt, count>>
    PROVE  StreamInv'
<1> DEFINE q == S!Other(p)
           r == rx_buf[p]
           w == wire[p]
           g == got[p]
           s == sent[q]
           id == S!PacketIn(r, h.len)
           c == SubSeq(r, 2 + h.len + 1, Len(r))
           g2 == IF S!Junk \in S!Range(g) THEN g ELSE Append(g, id)
<1>0. q \in S!Ends /\ q # p /\ S!Other(q) = p /\ S!Ends = {Edge, Sn} /\ (\A o \in S!Ends : o = p \/ o = q)
  BY StreamConstants
<1>1. StreamTypes /\ FlowKept(p) /\ FlowKept(q) /\ Numbers /\ (~hurt => Healthy)
  BY <1>0 DEF StreamInv
<1>2. r \in Seq(Unit) /\ w \in Seq(Unit) /\ g \in Seq(Nat) /\ s \in Seq(Nat)
  BY <1>0, <1>1 DEF StreamTypes
<1>3. h.op = "data" /\ h.len \in Nat /\ c \in Seq(Unit) /\ id \in Nat
  BY <1>2, Taken DEF S!Deliver
<1>4. /\ got' = [got EXCEPT ![p] = g2] /\ rx_buf' = [rx_buf EXCEPT ![p] = c] /\ idle' = [idle EXCEPT ![p] = 0]
      /\ UNCHANGED <<ends, wire, cut, why>>
  BY DEF S!Deliver, S!ws_consume
<1>5. Append(g, id) \in Seq(Nat) /\ Len(Append(g, id)) = Len(g) + 1 /\ Len(g) \in Nat
      /\ (\A k \in 1 .. Len(g) : Append(g, id)[k] = g[k]) /\ Append(g, id)[Len(g) + 1] = id
  BY <1>2, <1>3, AppendProperties
<1>6. g2 \in Seq(Nat)
  BY <1>2, <1>5
<1>7. Rising(s, count.packets)
  BY <1>0, <1>1 DEF Numbers
<1>8. ASSUME q \notin cut
      PROVE  /\ why[p] # "protocol" /\ g2 = Append(g, id) /\ Prefix(g2, s) /\ Flow(c, w, g2, s)
             /\ \A x : Has(r \o w, x) /\ "data" # x => Has(c \o w, x)
             /\ Calm(r \o w) => Calm(c \o w)
  <2>1. Prefix(g, s) /\ why[p] # "protocol" /\ Flow(r, w, g, s)
    BY <1>0, <1>1, <1>8 DEF FlowKept
  <2> HIDE DEF r, w, g, s
  <2>2. LET d == SubSeq(r, 2 + h.len + 1, Len(r)) IN
        /\ h.op \in Ops /\ h.op = r[1].op /\ h.len \in Nat
        /\ 2 + h.len <= Len(r) =>
              /\ d \in Seq(Unit)
              /\ h.op = "data" => Len(g) + 1 <= Len(s) /\ s[Len(g) + 1] = S!PacketIn(r, h.len) /\ Flow(d, w, Append(g, S!PacketIn(r, h.len)), s)
              /\ h.op # "data" => Flow(d, w, g, s)
              /\ \A x : Has(r \o w, x) /\ h.op # x => Has(d \o w, x)
              /\ Calm(r \o w) => Calm(d \o w)
    <3>1. 2 <= Len(r) /\ h \in S!Headers(r)
      BY DEF r
    <3> QED BY <3>1, <2>1, <1>2, <1>7, FlowNext
  <2>3. 2 + h.len <= Len(r)
    BY DEF r
  <2>4. Len(g) + 1 <= Len(s) /\ s[Len(g) + 1] = id /\ Flow(c, w, Append(g, id), s)
        /\ (\A x : Has(r \o w, x) /\ "data" # x => Has(c \o w, x)) /\ (Calm(r \o w) => Calm(c \o w))
    BY <2>2, <2>3, <1>3
  <2> HIDE DEF id, c
  <2>5. S!Junk \notin S!Range(g)
    <3>1. ASSUME NEW k \in 1 .. Len(g) PROVE g[k] # 0
      <4>1. Len(s) \in Nat /\ Len(g) \in Nat
        BY <1>2, LenProperties
      <4>2. g[k] = s[k] /\ k \in 1 .. Len(s)
        BY <2>1, <4>1 DEF Prefix
      <4>3. s[k] \in 1 .. count.packets
        BY <4>2, <1>7 DEF Rising
      <4>4. \A y \in 1 .. count.packets : y # 0
        OBVIOUS
      <4> QED BY <4>2, <4>3, <4>4
    <3>2. DOMAIN g = 1 .. Len(g)
      BY <1>2, LenProperties
    <3> QED BY <3>1, <3>2 DEF S!Junk, S!Range
  <2>6. Prefix(Append(g, id), s)
    <3>1. \A k \in 1 .. Len(Append(g, id)) : k \in 1 .. Len(g) \/ k = Len(g) + 1
      BY <1>5
    <3> QED BY <3>1, <2>1, <2>4, <1>5 DEF Prefix
  <2> QED BY <2>1, <2>4, <2>5, <2>6
<1> HIDE DEF q, r, w, g, s, id, c, g2
<1>9. StreamTypes'
  <2>1. got' \in [S!Ends -> Seq(Nat)] /\ rx_buf' \in [S!Ends -> Seq(Unit)] /\ idle' \in [S!Ends -> Nat]
    BY <1>1, <1>3, <1>4, <1>6 DEF StreamTypes
  <2> QED BY <2>1, <1>1, <1>4 DEF StreamTypes
<1>10. /\ got'[p] = g2 /\ rx_buf'[p] = c /\ wire'[p] = w /\ idle'[p] = 0
       /\ got'[q] = got[q] /\ rx_buf'[q] = rx_buf[q] /\ wire'[q] = wire[q] /\ idle'[q] = idle[q]
  BY <1>0, <1>1, <1>4 DEF StreamTypes, w
<1>11. FlowKept(p)'
  BY <1>4, <1>8, <1>10 DEF FlowKept, q, s
<1>12. FlowKept(q)'
  BY <1>0, <1>1, <1>4, <1>10, FlowSame
<1>13. Numbers'
  BY <1>1 DEF Numbers
<1>14. ASSUME ~hurt' PROVE Healthy'
  <2>1. Healthy /\ q \notin cut
    BY <1>1, <1>14 DEF Healthy
  <2>2. Stream(p)' = c \o w /\ Stream(p) = r \o w /\ Stream(q)' = Stream(q)
    BY <1>10 DEF Stream, r, w
  <2>3. \A o \in S!Ends : Calm(Stream(o)') /\ (\A x : Has(Stream(o), x) /\ "data" # x => Has(Stream(o)', x))
    BY <2>1, <2>2, <1>0, <1>8 DEF Healthy
  <2>4. Has(Stream(Sn), "ping") => Has(Stream(Sn)', "ping")
    BY <2>3, <1>0
  <2>5. Has(Stream(Edge), "pong") => Has(Stream(Edge)', "pong")
    BY <2>3, <1>0
  <2>6. PingEvery \in Nat /\ pinged \in Nat /\ \A o \in S!Ends : idle'[o] = 0 \/ idle'[o] = idle[o]
    BY <1>0, <1>1, <1>10, StreamConstants DEF StreamTypes
  <2> QED BY <2>1, <2>3, <2>4, <2>5, <2>6, <1>0, <1>4 DEF Healthy
<1>15. \A o \in S!Ends : FlowKept(o)'
  BY <1>0, <1>11, <1>12
<1> QED BY <1>9, <1>13, <1>14, <1>15 DEF StreamInv

\* A ping or a pong is taken, and a ping answered.
LEMMA StreamControl ==
    ASSUME StreamInv, NEW p \in S!Ends, ends[p] = "open", 2 <= Len(rx_buf[p]), NEW h \in S!Headers(rx_buf[p]),
           2 + h.len <= Len(rx_buf[p]), S!Control(p, h), UNCHANGED <<sent, pinged, stalled, hurt, count>>
    PROVE  StreamInv'
<1> DEFINE q == S!Other(p)
           r == rx_buf[p]
           w == wire[p]
           c == SubSeq(r, 2 + h.len + 1, Len(r))
           f == S!ws_build_frame("pong", 0, 0)
           x == S!Written(p, f)
<1>0. q \in S!Ends /\ q # p /\ S!Other(q) = p /\ S!Ends = {Edge, Sn} /\ (\A o \in S!Ends : o = p \/ o = q) /\ "pong" \in Ops
  BY StreamConstants DEF Ops
<1>1. StreamTypes /\ FlowKept(p) /\ FlowKept(q) /\ Numbers /\ (~hurt => Healthy)
  BY <1>0 DEF StreamInv
<1>2. r \in Seq(Unit) /\ w \in Seq(Unit) /\ got[p] \in Seq(Nat) /\ sent[q] \in Seq(Nat) /\ rx_buf[q] \in Seq(Unit) /\ wire[q] \in Seq(Unit)
  BY <1>0, <1>1 DEF StreamTypes
<1>3. h.len \in Nat /\ c \in Seq(Unit)
  BY <1>2, Taken
<1>4. /\ h.op \in {"ping", "pong"} /\ rx_buf' = [rx_buf EXCEPT ![p] = c] /\ idle' = [idle EXCEPT ![p] = 0]
      /\ IF h.op = "ping" THEN S!Puts(p, f) ELSE UNCHANGED <<wire, cut>>
      /\ UNCHANGED <<ends, got, why>>
  BY DEF S!Control, S!ws_consume
<1>5. Rising(sent[q], count.packets)
  BY <1>0, <1>1 DEF Numbers
<1>6. ASSUME q \notin cut
      PROVE  /\ Flow(c, w, got[p], sent[q])
             /\ \A y : Has(r \o w, y) /\ h.op # y => Has(c \o w, y)
             /\ Calm(r \o w) => Calm(c \o w)
  <2>1. Prefix(got[p], sent[q]) /\ Flow(r, w, got[p], sent[q])
    BY <1>0, <1>1, <1>6 DEF FlowKept
  <2>2. 2 <= Len(r) /\ h \in S!Headers(r) /\ 2 + h.len <= Len(r)
    OBVIOUS
  <2> HIDE DEF r, w
  <2>3. LET d == SubSeq(r, 2 + h.len + 1, Len(r)) IN
        /\ h.op \in Ops /\ h.op = r[1].op /\ h.len \in Nat
        /\ 2 + h.len <= Len(r) =>
              /\ d \in Seq(Unit)
              /\ h.op = "data" => Len(got[p]) + 1 <= Len(sent[q]) /\ sent[q][Len(got[p]) + 1] = S!PacketIn(r, h.len) /\ Flow(d, w, Append(got[p], S!PacketIn(r, h.len)), sent[q])
              /\ h.op # "data" => Flow(d, w, got[p], sent[q])
              /\ \A y : Has(r \o w, y) /\ h.op # y => Has(d \o w, y)
              /\ Calm(r \o w) => Calm(d \o w)
    BY <2>1, <2>2, <1>2, <1>5, FlowNext
  <2> QED BY <2>2, <2>3, <1>4
<1>7. \/ h.op # "ping" /\ wire' = wire /\ cut' = cut
      \/ /\ h.op = "ping"
         /\ wire' \in [S!Ends -> Seq(Unit)] /\ wire'[p] = w /\ wire'[q] = wire[q] \o x
         /\ cut \subseteq cut' /\ cut' \subseteq S!Ends /\ (q \in cut' => q \in cut)
         /\ p \notin cut' => x \in {<<>>, f}
         /\ ~stalled => x = f /\ cut' = cut
  <2>1. CASE h.op = "ping"
    <3>1. StreamTypes /\ S!Puts(p, f) /\ q = S!Other(p)
      BY <2>1, <1>1, <1>4
    <3>2. f \in Seq(Unit)
      BY <1>0, BuiltFrame
    <3> HIDE DEF q, r, w, c, f, x
    <3>3. /\ wire' \in [S!Ends -> Seq(Unit)] /\ wire'[p] = wire[p] /\ wire'[q] = wire[q] \o S!Written(p, f)
          /\ cut \subseteq cut' /\ cut' \subseteq S!Ends /\ (q \in cut' => q \in cut)
          /\ p \notin cut' => S!Written(p, f) \in {<<>>, f}
          /\ ~stalled => S!Written(p, f) = f /\ cut' = cut
      BY <3>1, <3>2, PutsBytes
    <3>4. wire[p] = w /\ S!Written(p, f) = x
      BY DEF w, x
    <3> QED BY <3>3, <3>4, <2>1
  <2>2. CASE h.op # "ping"
    BY <2>2, <1>4
  <2> QED BY <2>1, <2>2
<1> HIDE DEF q, r, w, c, f, x
<1>8. wire' \in [S!Ends -> Seq(Unit)] /\ cut' \subseteq S!Ends /\ cut \subseteq cut' /\ wire'[p] = w /\ (q \in cut' => q \in cut)
  BY <1>1, <1>7 DEF StreamTypes, w
<1>9. StreamTypes'
  <2>1. rx_buf' \in [S!Ends -> Seq(Unit)] /\ idle' \in [S!Ends -> Nat]
    BY <1>1, <1>3, <1>4 DEF StreamTypes
  <2> QED BY <2>1, <1>1, <1>4, <1>8 DEF StreamTypes
<1>10. rx_buf'[p] = c /\ rx_buf'[q] = rx_buf[q] /\ idle'[p] = 0 /\ idle'[q] = idle[q]
  BY <1>0, <1>1, <1>4 DEF StreamTypes
<1>11. FlowKept(p)'
  <2>1. q \notin cut => Prefix(got[p], sent[q]) /\ why[p] # "protocol"
    BY <1>1 DEF FlowKept, q
  <2> QED BY <2>1, <1>4, <1>6, <1>8, <1>10 DEF FlowKept, q
<1>12. FlowKept(q)'
  <2> SUFFICES ASSUME p \notin cut'
               PROVE  /\ Prefix(got[q], sent[p]) /\ why[q] # "protocol"
                      /\ ends[q] = "open" => Flow(rx_buf[q], wire'[q], got[q], sent[p])
    BY <1>0, <1>4, <1>10 DEF FlowKept
  <2>1. Prefix(got[q], sent[p]) /\ why[q] # "protocol" /\ (ends[q] = "open" => Flow(rx_buf[q], wire[q], got[q], sent[p]))
    BY <1>0, <1>1, <1>8 DEF FlowKept
  <2>2. wire'[q] = wire[q] \/ wire'[q] = wire[q] \o f
    <3>1. wire[q] \o <<>> = wire[q]
      BY <1>2, ConcatEmptySeq
    <3> QED BY <3>1, <1>7
  <2>3. ASSUME ends[q] = "open" PROVE Flow(rx_buf[q], wire[q] \o f, got[q], sent[p])
    BY <2>1, <2>3, <1>0, <1>2, FlowControl DEF f
  <2> QED BY <2>1, <2>2, <2>3
<1>13. Numbers'
  BY <1>1 DEF Numbers
<1>14. ASSUME ~hurt' PROVE Healthy'
  <2>1. Healthy /\ q \notin cut /\ ~stalled /\ cut' = {}
    BY <1>1, <1>7, <1>14 DEF Healthy
  <2>2. Stream(p)' = c \o w /\ Stream(p) = r \o w
    BY <1>8, <1>10 DEF Stream, r, w
  <2>3. Stream(q) \in Seq(Unit) /\ ((Stream(q)' = Stream(q) /\ h.op # "ping") \/ Stream(q)' = Stream(q) \o f)
    <3>1. f \in Seq(Unit)
      BY <1>0, BuiltFrame DEF f
    <3>2. rx_buf[q] \in Seq(Unit) /\ wire[q] \in Seq(Unit)
      BY <1>2
    <3>3. Stream(q) \in Seq(Unit) /\ rx_buf[q] \o (wire[q] \o f) = Stream(q) \o f
      <4> DEFINE a == rx_buf[q]
                 b == wire[q]
      <4>1. a \in Seq(Unit) /\ b \in Seq(Unit)
        BY <3>2
      <4> HIDE DEF a, b
      <4>2. a \o b \in Seq(Unit) /\ a \o (b \o f) = (a \o b) \o f
        BY <3>1, <4>1, Longer
      <4> QED BY <4>2 DEF a, b, Stream
    <3>4. (wire'[q] = wire[q] /\ h.op # "ping") \/ wire'[q] = wire[q] \o f
      BY <2>1, <1>7
    <3> QED BY <3>3, <3>4, <1>10 DEF Stream
  <2>4. /\ \A y : Has(Stream(q), y) => Has(Stream(q) \o f, y)
        /\ Has(Stream(q) \o f, "pong") /\ (Calm(Stream(q)) => Calm(Stream(q) \o f))
    BY <2>3, <1>0, Added DEF f
  <2>5. Calm(Stream(p)') /\ Calm(Stream(q)')
    BY <2>1, <2>2, <2>3, <2>4, <1>0, <1>6 DEF Healthy
  <2>6. \A y : Has(Stream(q), y) => Has(Stream(q)', y)
    BY <2>3, <2>4
  <2>7. \A y : Has(Stream(p), y) => y = h.op \/ Has(Stream(p)', y)
    BY <2>1, <2>2, <1>6
  <2>8. h.op = "ping" => Has(Stream(q)', "pong")
    BY <2>3, <2>4
  <2>9. PingEvery \in Nat /\ pinged \in Nat
    BY <1>1, StreamConstants DEF StreamTypes
  <2>10. \A o \in S!Ends : ends'[o] = "open" /\ why'[o] = "none" /\ Calm(Stream(o)') /\ idle'[o] <= PingEvery
    BY <2>1, <2>5, <2>9, <1>0, <1>4, <1>10 DEF Healthy
  <2>11. CASE p = Sn
    <3>1. idle'[Sn] = 0 /\ idle'[Edge] = idle[Edge] /\ q = Edge
      BY <2>11, <1>0, <1>10
    <3>2. idle[Edge] <= pinged \/ Has(Stream(Sn), "ping") \/ Has(Stream(Edge), "pong")
      BY <2>1 DEF Healthy
    <3>3. idle[Edge] <= pinged \/ Has(Stream(Sn)', "ping") \/ Has(Stream(Edge)', "pong")
      BY <3>1, <3>2, <2>6, <2>7, <2>8, <2>11
    <3> QED BY <3>1, <3>3, <2>1, <2>9, <2>10 DEF Healthy
  <2>12. CASE p = Edge
    <3>1. idle'[Edge] = 0 /\ idle'[Sn] = idle[Sn] /\ q = Sn
      BY <2>12, <1>0, <1>10
    <3>2. idle[Sn] <= pinged \/ Has(Stream(Sn), "ping")
      BY <2>1 DEF Healthy
    <3>3. idle[Sn] <= pinged \/ Has(Stream(Sn)', "ping")
      BY <3>1, <3>2, <2>6
    <3> QED BY <3>1, <3>3, <2>1, <2>9, <2>10 DEF Healthy
  <2> QED BY <2>11, <2>12, <1>0
<1>15. \A o \in S!Ends : FlowKept(o)'
  BY <1>0, <1>11, <1>12
<1> QED BY <1>9, <1>13, <1>14, <1>15 DEF StreamInv

\* ws_recv: a frame that no end writes, or the end of the connection.
LEMMA StreamReceive ==
    ASSUME StreamInv, NEW p \in S!Ends, S!ws_recv(p) PROVE StreamInv'
<1> DEFINE q == S!Other(p)
           r == rx_buf[p]
<1>1. ends[p] = "open" /\ 2 <= Len(r) /\ UNCHANGED <<sent, pinged, stalled, hurt, count>> /\ q \in S!Ends
  BY StreamConstants DEF S!ws_recv
<1>2. PICK h \in S!Headers(r) :
          \/ 2 + h.len <= Len(r) /\ S!Deliver(p, h)
          \/ 2 + h.len <= Len(r) /\ S!Control(p, h)
          \/ /\ h.op = "bad" \/ (h.op = "close" /\ 2 + h.len <= Len(r))
             /\ S!ws_close(p, IF h.op = "bad" THEN "protocol" ELSE "peer")
             /\ UNCHANGED <<got, cut, idle>>
  BY DEF S!ws_recv
<1>3. CASE 2 + h.len <= Len(r) /\ S!Deliver(p, h)
  BY <1>1, <1>3, StreamDeliver
<1>4. CASE 2 + h.len <= Len(r) /\ S!Control(p, h)
  BY <1>1, <1>4, StreamControl
<1>5. CASE /\ h.op = "bad" \/ (h.op = "close" /\ 2 + h.len <= Len(r))
           /\ S!ws_close(p, IF h.op = "bad" THEN "protocol" ELSE "peer")
           /\ UNCHANGED <<got, cut, idle>>
  <2> DEFINE reason == IF h.op = "bad" THEN "protocol" ELSE "peer"
  <2>1. q \in cut \/ (h.op \in Ops /\ h.op = r[1].op /\ r[1].u = "h1")
    <3> SUFFICES ASSUME q \notin cut PROVE h.op \in Ops /\ h.op = r[1].op /\ r[1].u = "h1"
      OBVIOUS
    <3>1. Flow(r, wire[p], got[p], sent[q])
      BY <1>1 DEF StreamInv, FlowKept
    <3>2. r \in Seq(Unit) /\ wire[p] \in Seq(Unit)
      BY DEF StreamInv, StreamTypes
    <3> HIDE DEF r
    <3>3. 1 <= Len(r) /\ Framed(r \o wire[p]) /\ NoEnd(r)
      BY <3>1, <3>2, <1>1 DEF Flow
    <3>4. r[1].u = "h1" /\ r[1].op \in Ops /\ S!Headers(r) = {[op |-> r[1].op, len |-> r[1].len]}
      BY <3>2, <3>3, <1>1, Header
    <3> QED BY <3>4
  <2>2. hurt
    <3> SUFFICES ASSUME ~hurt PROVE FALSE
      OBVIOUS
    <3>1. q \notin cut /\ Calm(r \o wire[p])
      BY DEF StreamInv, Healthy, Stream
    <3>2. r \in Seq(Unit) /\ wire[p] \in Seq(Unit)
      BY DEF StreamInv, StreamTypes
    <3>3. 1 \in 1 .. Len(r \o wire[p]) /\ (r \o wire[p])[1] = r[1]
      <4> HIDE DEF r
      <4>1. 1 \in 1 .. Len(r)
        BY <3>2, <1>1
      <4> QED BY <4>1, <3>2, Joined
    <3>4. r[1].op # "close"
      BY <3>1, <3>3 DEF Calm
    <3> QED BY <3>1, <3>4, <2>1, <1>5 DEF Ops
  <2>3. reason = "protocol" => q \in cut
    BY <2>1 DEF Ops
  <2>4. S!ws_close(p, reason) /\ UNCHANGED <<sent, got, cut, idle, pinged, stalled, hurt, count>> /\ reason \in {"dead", "protocol", "peer", "idle"}
    BY <1>1, <1>5
  <2> HIDE DEF reason
  <2> QED BY <2>2, <2>3, <2>4, StreamClose
<1> QED BY <1>2, <1>3, <1>4, <1>5

\* The edge's ping.
LEMMA StreamPing == ASSUME StreamInv, S!ws_ping PROVE StreamInv'
<1> DEFINE f == S!ws_build_frame("ping", 0, 0)
           x == S!Written(Edge, f)
<1>0. /\ Edge \in S!Ends /\ Sn \in S!Ends /\ Edge # Sn /\ S!Other(Edge) = Sn /\ S!Other(Sn) = Edge
      /\ (\A o \in S!Ends : o = Edge \/ o = Sn) /\ "ping" \in Ops /\ PingEvery \in Nat
  <2>1. S!Other(Edge) = Sn /\ S!Other(Sn) = Edge
    BY StreamConstants DEF S!Other
  <2> QED BY <2>1, StreamConstants DEF Ops
<1>1. StreamTypes /\ FlowKept(Edge) /\ FlowKept(Sn) /\ Numbers /\ (~hurt => Healthy)
  BY <1>0 DEF StreamInv
<1>2. S!Puts(Edge, f) /\ pinged' = 0 /\ UNCHANGED <<ends, rx_buf, sent, got, why, idle, stalled, hurt, count>>
  BY DEF S!ws_ping
<1>3. /\ wire' \in [S!Ends -> Seq(Unit)] /\ wire'[Edge] = wire[Edge] /\ wire'[Sn] = wire[Sn] \o S!Written(Edge, f)
      /\ cut \subseteq cut' /\ cut' \subseteq S!Ends /\ (Sn \in cut' => Sn \in cut)
      /\ Edge \notin cut' => S!Written(Edge, f) \in {<<>>, f}
      /\ ~stalled => S!Written(Edge, f) = f /\ cut' = cut
  <2>1. StreamTypes /\ Edge \in S!Ends /\ S!Puts(Edge, f) /\ Sn = S!Other(Edge)
    BY <1>0, <1>1, <1>2
  <2>2. f \in Seq(Unit)
    BY <1>0, BuiltFrame
  <2> HIDE DEF f
  <2> QED BY <2>1, <2>2, PutsBytes
<1> HIDE DEF f, x
<1>4. /\ wire' \in [S!Ends -> Seq(Unit)] /\ wire'[Edge] = wire[Edge] /\ wire'[Sn] = wire[Sn] \o x
      /\ cut \subseteq cut' /\ cut' \subseteq S!Ends /\ (Sn \in cut' => Sn \in cut)
      /\ Edge \notin cut' => x \in {<<>>, f}
      /\ ~stalled => x = f /\ cut' = cut
  BY <1>0, <1>3 DEF x
<1>5. StreamTypes'
  <2>1. pinged' \in 0 .. PingEvery
    BY <1>0, <1>2
  <2> QED BY <2>1, <1>1, <1>2, <1>4 DEF StreamTypes
<1>6. rx_buf[Sn] \in Seq(Unit) /\ wire[Sn] \in Seq(Unit)
  BY <1>0, <1>1 DEF StreamTypes
<1>7. FlowKept(Edge)'
  BY <1>0, <1>1, <1>2, <1>4, FlowSame
<1>8. FlowKept(Sn)'
  <2> SUFFICES ASSUME Edge \notin cut'
               PROVE  /\ Prefix(got[Sn], sent[Edge]) /\ why[Sn] # "protocol"
                      /\ ends[Sn] = "open" => Flow(rx_buf[Sn], wire'[Sn], got[Sn], sent[Edge])
    BY <1>0, <1>2 DEF FlowKept
  <2>1. Prefix(got[Sn], sent[Edge]) /\ why[Sn] # "protocol" /\ (ends[Sn] = "open" => Flow(rx_buf[Sn], wire[Sn], got[Sn], sent[Edge]))
    BY <1>0, <1>1, <1>4 DEF FlowKept
  <2>2. wire'[Sn] = wire[Sn] \/ wire'[Sn] = wire[Sn] \o f
    <3>1. wire[Sn] \o <<>> = wire[Sn]
      BY <1>6, ConcatEmptySeq
    <3> QED BY <3>1, <1>4
  <2>3. ASSUME ends[Sn] = "open" PROVE Flow(rx_buf[Sn], wire[Sn] \o f, got[Sn], sent[Edge])
    BY <2>1, <2>3, <1>0, <1>6, FlowControl DEF f
  <2> QED BY <2>1, <2>2, <2>3
<1>9. Numbers'
  BY <1>1, <1>2 DEF Numbers
<1>10. ASSUME ~hurt' PROVE Healthy'
  <2>1. Healthy /\ ~stalled /\ x = f /\ cut' = cut
    BY <1>1, <1>2, <1>4, <1>10 DEF Healthy
  <2>2. Stream(Edge)' = Stream(Edge) /\ Stream(Sn) \in Seq(Unit) /\ Stream(Sn)' = Stream(Sn) \o f
    <3>1. f \in Seq(Unit)
      BY <1>0, BuiltFrame DEF f
    <3>2. Stream(Sn) \in Seq(Unit) /\ rx_buf[Sn] \o (wire[Sn] \o f) = Stream(Sn) \o f
      <4> DEFINE Order(a, b, c) == a \o b \in Seq(Unit) /\ b \o c \in Seq(Unit) /\ a \o (b \o c) = (a \o b) \o c
      <4>1. \A a, b, c \in Seq(Unit) : Order(a, b, c)
        BY Behind, Zenon
      <4> HIDE DEF Order
      <4>2. Order(rx_buf[Sn], wire[Sn], f)
        BY <3>1, <1>6, <4>1
      <4> QED BY <4>2 DEF Order, Stream
    <3> QED BY <3>2, <2>1, <1>2, <1>4 DEF Stream
  <2>3. Has(Stream(Sn) \o f, "ping") /\ (Calm(Stream(Sn)) => Calm(Stream(Sn) \o f))
    <3> DEFINE y == Stream(Sn)
    <3>1. y \in Seq(Unit) /\ f = S!ws_build_frame("ping", 0, 0) /\ "ping" \in Ops /\ "ping" # "close" /\ 0 \in Nat
      BY <2>2, <1>0 DEF f
    <3> HIDE DEF y
    <3>2. Has(y \o f, "ping") /\ (Calm(y) => Calm(y \o f))
      BY <3>1, Added
    <3> QED BY <3>2 DEF y
  <2>4. Calm(Stream(Edge)') /\ Calm(Stream(Sn)') /\ Has(Stream(Sn)', "ping")
    BY <2>1, <2>2, <2>3, <1>0 DEF Healthy
  <2> QED BY <2>1, <2>4, <1>0, <1>2 DEF Healthy
<1>11. \A o \in S!Ends : FlowKept(o)'
  BY <1>0, <1>7, <1>8
<1> QED BY <1>5, <1>9, <1>10, <1>11 DEF StreamInv

\* A new connection.
LEMMA StreamConnect == ASSUME StreamInv, S!edge_ws_connect PROVE StreamInv'
<1>1. <<>> \in Seq(Unit) /\ <<>> \in Seq(Nat) /\ Len(<<>>) = 0 /\ <<>> \o <<>> = <<>>
  BY EmptySeq, ConcatEmptySeq
<1>2. StreamTypes /\ PingEvery \in Nat
  BY StreamConstants DEF StreamInv
<1>3. /\ ends' = [p \in S!Ends |-> "open"] /\ wire' = [p \in S!Ends |-> <<>>] /\ rx_buf' = [p \in S!Ends |-> <<>>]
      /\ sent' = [p \in S!Ends |-> <<>>] /\ got' = [p \in S!Ends |-> <<>>] /\ cut' = {}
      /\ why' = [p \in S!Ends |-> "none"] /\ idle' = [p \in S!Ends |-> 0] /\ ~hurt' /\ ~stalled' /\ ~stalled
      /\ count' = [count EXCEPT !.connects = @ + 1] /\ UNCHANGED <<pinged, stalled>>
  BY DEF S!edge_ws_connect, S!ws_connect
<1>4. StreamTypes'
  <2>1. count' \in [packets : Nat, stalls : Nat, connects : Nat]
    <3>1. count \in [packets : Nat, stalls : Nat, connects : Nat] /\ count.connects + 1 \in Nat
      BY <1>2 DEF StreamTypes
    <3> QED BY <3>1, <1>3
  <2>2. hurt' = FALSE
    BY DEF S!edge_ws_connect, S!ws_connect
  <2> QED BY <2>1, <2>2, <1>1, <1>2, <1>3 DEF StreamTypes
<1>5. \A p \in S!Ends : got'[p] = <<>> /\ sent'[p] = <<>> /\ wire'[p] = <<>> /\ rx_buf'[p] = <<>> /\ why'[p] = "none" /\ ends'[p] = "open" /\ idle'[p] = 0
  BY <1>3
<1>6. Framed(<<>>) /\ Carries(<<>>, <<>>, 0) /\ NoEnd(<<>>) /\ Calm(<<>>)
  BY <1>1 DEF Framed, Carries, NoEnd, Calm, Data
<1>7. ASSUME NEW p \in S!Ends PROVE FlowKept(p)'
  <2>1. S!Other(p) \in S!Ends
    BY StreamConstants
  <2>2. got'[p] = <<>> /\ sent'[S!Other(p)] = <<>> /\ wire'[p] = <<>> /\ rx_buf'[p] = <<>> /\ why'[p] = "none"
    BY <2>1, <1>5
  <2>3. Flow(<<>>, <<>>, <<>>, <<>>) /\ Prefix(<<>>, <<>>)
    BY <1>1, <1>6 DEF Flow, Prefix
  <2> QED BY <2>2, <2>3 DEF FlowKept
<1>8. Numbers'
  BY <1>1, <1>5 DEF Numbers, Rising
<1>9. Healthy'
  <2>1. ASSUME NEW p \in S!Ends PROVE ends'[p] = "open" /\ why'[p] = "none" /\ Calm(Stream(p)') /\ idle'[p] <= PingEvery
    <3>1. Stream(p)' = <<>>
      BY <1>1, <1>5 DEF Stream
    <3> QED BY <3>1, <1>2, <1>5, <1>6
  <2>2. idle'[Sn] <= pinged' /\ idle'[Edge] <= pinged'
    BY <1>2, <1>3, <1>5, StreamConstants DEF StreamTypes
  <2> QED BY <2>1, <2>2, <1>3 DEF Healthy
<1> QED BY <1>4, <1>7, <1>8, <1>9 DEF StreamInv

\* A tick: whatever was sent has been read, unless the network has stopped.
LEMMA StreamTick == ASSUME StreamInv, S!Tick PROVE StreamInv'
<1>0. /\ Edge \in S!Ends /\ Sn \in S!Ends /\ (\A o \in S!Ends : o = Edge \/ o = Sn)
      /\ PingEvery \in Nat /\ StaleAfter \in Nat /\ PingEvery <= StaleAfter
  BY StreamConstants
<1>1. StreamTypes /\ (\A p \in S!Ends : FlowKept(p)) /\ Numbers /\ (~hurt => Healthy)
  BY DEF StreamInv
<1>2. /\ ~(ends[Edge] = "open" /\ S!PingDue)
      /\ stalled \/ \A p \in S!Ends : S!Quiet(p)
      /\ idle' = [p \in S!Ends |-> IF idle[p] > StaleAfter THEN idle[p] ELSE idle[p] + 1]
      /\ pinged' = IF pinged < PingEvery THEN pinged + 1 ELSE pinged
      /\ UNCHANGED <<ends, wire, rx_buf, sent, got, cut, why, stalled, hurt, count>>
  BY DEF S!Tick
<1>3. StreamTypes'
  <2>1. idle' \in [S!Ends -> Nat]
    <3>1. \A p \in S!Ends : idle[p] \in Nat
      BY <1>1 DEF StreamTypes
    <3>2. \A p \in S!Ends : (IF idle[p] > StaleAfter THEN idle[p] ELSE idle[p] + 1) \in Nat
      BY <3>1
    <3>3. idle' = [p \in S!Ends |-> IF idle[p] > StaleAfter THEN idle[p] ELSE idle[p] + 1]
      BY <1>2
    <3> QED BY <3>2, <3>3
  <2>2. pinged' \in 0 .. PingEvery
    <3>1. pinged \in 0 .. PingEvery
      BY <1>1 DEF StreamTypes
    <3>2. pinged' = IF pinged < PingEvery THEN pinged + 1 ELSE pinged
      BY <1>2
    <3> QED BY <3>1, <3>2, <1>0
  <2> QED BY <2>1, <2>2, <1>1, <1>2 DEF StreamTypes
<1>4. \A p \in S!Ends : FlowKept(p)'
  BY <1>1, <1>2 DEF FlowKept
<1>5. Numbers'
  BY <1>1, <1>2 DEF Numbers
<1>6. ASSUME ~hurt' PROVE Healthy'
  <2>1. Healthy /\ ~stalled /\ cut = {}
    BY <1>1, <1>2, <1>6 DEF Healthy
  <2>2. pinged < PingEvery /\ pinged \in Nat /\ pinged' = pinged + 1
    BY <2>1, <1>0, <1>1, <1>2 DEF Healthy, S!PingDue, StreamTypes
  <2>3. ASSUME NEW p \in S!Ends PROVE \A op : ~Has(Stream(p), op)
    <3>1. ends[p] = "open" /\ wire[p] = <<>> /\ ~S!Decodable(rx_buf[p])
      BY <2>1, <1>2 DEF Healthy, S!Quiet
    <3>2. Flow(rx_buf[p], wire[p], got[p], sent[S!Other(p)]) /\ rx_buf[p] \in Seq(Unit)
      BY <2>1, <3>1, <1>1 DEF FlowKept, StreamTypes
    <3>3. rx_buf[p] = <<>>
      BY <3>1, <3>2, FlowQuiet
    <3>4. Stream(p) = <<>> /\ Len(<<>>) = 0
      BY <3>1, <3>3, <3>2, ConcatEmptySeq, EmptySeq DEF Stream
    <3> QED BY <3>4 DEF Has
  <2>4. \A p \in S!Ends : idle[p] \in Nat /\ idle[p] <= pinged
    BY <2>1, <2>3, <1>0, <1>1 DEF Healthy, StreamTypes
  <2>5. \A p \in S!Ends : idle'[p] = idle[p] + 1 /\ idle'[p] <= pinged' /\ idle'[p] <= PingEvery
    BY <2>2, <2>4, <1>0, <1>2
  <2>6. \A p \in S!Ends : Stream(p)' = Stream(p)
    BY <1>2 DEF Stream
  <2> QED BY <2>1, <2>5, <2>6, <1>0, <1>2 DEF Healthy
<1> QED BY <1>3, <1>4, <1>5, <1>6 DEF StreamInv

\* The network stops, and goes on.
LEMMA StreamStall == ASSUME StreamInv, S!Stall \/ S!Resume \/ UNCHANGED streamVars PROVE StreamInv'
<1>1. StreamTypes /\ (\A p \in S!Ends : FlowKept(p)) /\ Numbers /\ (~hurt => Healthy)
  BY DEF StreamInv
<1>2. UNCHANGED <<ends, wire, rx_buf, sent, got, cut, why, idle, pinged>>
  BY DEF S!Stall, S!Resume, streamVars
<1>3. /\ stalled' \in BOOLEAN /\ hurt' \in BOOLEAN /\ count' \in [packets : Nat, stalls : Nat, connects : Nat]
      /\ count'.packets = count.packets
  <2>0. count \in [packets : Nat, stalls : Nat, connects : Nat] /\ count.stalls + 1 \in Nat /\ stalled \in BOOLEAN /\ hurt \in BOOLEAN
    BY <1>1 DEF StreamTypes
  <2>1. CASE S!Stall
    BY <2>0, <2>1 DEF S!Stall
  <2>2. CASE S!Resume
    BY <2>0, <2>2 DEF S!Resume
  <2>3. CASE UNCHANGED streamVars
    BY <2>0, <2>3 DEF streamVars
  <2> QED BY <2>1, <2>2, <2>3
<1>4. StreamTypes'
  BY <1>1, <1>2, <1>3 DEF StreamTypes
<1>5. \A p \in S!Ends : FlowKept(p)'
  BY <1>1, <1>2 DEF FlowKept
<1>6. Numbers'
  BY <1>1, <1>2, <1>3 DEF Numbers
<1>7. ASSUME ~hurt' PROVE Healthy'
  <2>1. ~hurt /\ Healthy
    BY <1>1, <1>7 DEF S!Stall, S!Resume, streamVars
  <2>2. ~stalled'
    <3>1. ~stalled
      BY <2>1 DEF Healthy
    <3>2. CASE S!Stall
      BY <3>2, <1>7 DEF S!Stall
    <3>3. CASE S!Resume
      BY <3>3 DEF S!Resume
    <3>4. CASE UNCHANGED streamVars
      BY <3>1, <3>4 DEF streamVars
    <3> QED BY <3>2, <3>3, <3>4
  <2>3. \A p \in S!Ends : Stream(p)' = Stream(p)
    BY <1>2 DEF Stream
  <2> QED BY <2>1, <2>2, <2>3, <1>2, StreamConstants DEF Healthy
<1> QED BY <1>4, <1>5, <1>6, <1>7 DEF StreamInv

LEMMA StreamNext == StreamInv /\ [S!Next]_streamVars => StreamInv'
BY StreamSend, StreamDrops, StreamReceive, StreamMore, StreamPing, StreamConnect, StreamTick, StreamStall
   DEF S!Next

\* In every part of the behaviour's module the stream's invariant holds.
StreamPart == part = "stream" => StreamInv
LEMMA StreamHolds == PartSpec => []StreamPart
<1>1. PartInit => StreamPart
  BY StreamInit DEF PartInit, StreamPart
<1>2. StreamPart /\ [PartNext]_all => StreamPart'
  <2> SUFFICES ASSUME StreamPart, [PartNext]_all, part' = "stream" PROVE StreamInv'
    BY DEF StreamPart
  <2>1. part = "stream"
    BY DEF PartNext, all
  <2>2. [S!Next]_streamVars
    BY <2>1 DEF PartNext, all
  <2> QED BY <2>1, <2>2, StreamNext DEF StreamPart
<1> QED BY <1>1, <1>2, PTL DEF PartSpec

\* As long as no send gave up in the middle of a frame, ws_recv hands out what the
\* other end's ws_send took, in order and without a gap, in whatever pieces TCP
\* delivers it, and nothing of an earlier connection (WsStream).
THEOREM WholeHolds == PartSpec => []Whole
<1>1. StreamPart => Whole
  <2> SUFFICES ASSUME StreamInv, NEW p \in S!Ends, S!Other(p) \notin cut
               PROVE  S!IsPrefix(got[p], sent[S!Other(p)])
    BY DEF StreamPart, Whole, S!Whole
  <2> DEFINE g == got[p]
             s == sent[S!Other(p)]
  <2>1. g \in Seq(Nat) /\ s \in Seq(Nat) /\ Prefix(g, s)
    BY StreamConstants DEF StreamInv, StreamTypes, FlowKept
  <2> HIDE DEF g, s
  <2>2. Len(g) \in Nat /\ Len(s) \in Nat /\ Len(g) <= Len(s) /\ \A k \in 1 .. Len(g) : g[k] = s[k]
    BY <2>1 DEF Prefix
  <2>3. SubSeq(g, 1, Len(g)) = g
    BY <2>1, SubSeqFull
  <2>4. SubSeq(s, 1, Len(g)) = g
    <3> DEFINE c == SubSeq(s, 1, Len(g))
    <3>1. \A k \in 1 .. Len(g) : k \in 1 .. Len(s) /\ s[k] \in Nat
      BY <2>1, <2>2, ElementOfSeq
    <3>2. c \in Seq(Nat) /\ Len(c) = (IF 1 <= Len(g) THEN Len(g) - 1 + 1 ELSE 0) /\ \A k \in 1 .. Len(g) - 1 + 1 : c[k] = s[1 + k - 1]
      BY <3>1, <2>2, SubSeqProperties
    <3>3. Len(g) - 1 + 1 = Len(g) /\ \A k \in 1 .. Len(g) : 1 + k - 1 = k
      BY <2>2
    <3>4. Len(c) = Len(g) /\ \A k \in 1 .. Len(g) : c[k] = g[k]
      BY <3>2, <3>3, <2>2
    <3> HIDE DEF c
    <3>5. c = g
      BY <3>2, <3>4, <2>1, SeqEqual
    <3> QED BY <3>5 DEF c
  <2>5. S!IsPrefix(g, s)
    BY <2>2, <2>3, <2>4 DEF S!IsPrefix
  <2> QED BY <2>5 DEF g, s
<1> QED BY <1>1, StreamHolds, PTL

\* No timer takes down a connection whose network keeps moving, and no end closes
\* it for a frame it cannot read unless the other one left half a frame (WsStream).
THEOREM KeptHolds == PartSpec => []Kept
<1>1. StreamPart => Kept
  <2> SUFFICES ASSUME StreamInv, NEW p \in S!Ends
               PROVE  (why[p] = "idle" => hurt) /\ (why[p] = "protocol" => S!Other(p) \in cut)
    BY DEF StreamPart, Kept, S!Kept
  <2>1. why[p] = "idle" => hurt
    BY DEF StreamInv, Healthy
  <2>2. why[p] = "protocol" => S!Other(p) \in cut
    BY DEF StreamInv, FlowKept
  <2> QED BY <2>1, <2>2
<1> QED BY <1>1, StreamHolds, PTL
=============================================================================
