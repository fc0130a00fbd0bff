--------------------------- MODULE EdgePeersProofs ---------------------------
(***************************************************************************)
(* Proofs about EdgePeers, for every set of peers and addresses and every    *)
(* value of the timing constants: a peer is in one of the two lists with its *)
(* counters below their limits (ListsSound), and frames do not go to a silent*)
(* peer directly for longer than the probes and the cached destination take  *)
(* (DirectOnlyFresh).  The first is inductive once the records of the lists  *)
(* are typed; the second needs what check_keepalive has counted so far for   *)
(* every known peer (PathOK), and what the cached destination is worth.      *)
(***************************************************************************)
EXTENDS EdgePeers, TLAPS

\* struct peer_info, with its counters below their limits.
PeerRec ==
    [sock : Addrs \cup {NoAddr}, sock6 : Addrs \cup {NoAddr}, lan : BOOLEAN,
     seen : Nat, direct : Nat \cup {Never}, est : Nat,
     punch : {"idle", "running", "failed"}, round : 0 .. Rounds - 1, clock : Nat,
     retry : 0 .. Retries, lanStart : Nat \cup {Never}, lanDone : BOOLEAN,
     probe : {Never} \cup 0 .. ProbeSecs, fails : 0 .. MaxFails - 1,
     answered : BOOLEAN]

\* A probe that is not out is not answered.
Peers == {p \in PeerRec : p.probe = Never => ~p.answered}

\* The assumptions on the constants, one by one.
LEMMA Constants ==
    /\ Rounds \in Nat \ {0} /\ RoundSecs \in Nat \ {0} /\ LanSecs \in Nat \ {0}
    /\ Retries \in Nat \ {0} /\ RetrySecs \in Nat \ {0} /\ Idle \in Nat \ {0}
    /\ ProbeSecs \in Nat \ {0} /\ MaxFails \in Nat \ {0} /\ CacheTtl \in Nat \ {0}
    /\ Active \in Nat \ {0} /\ Alive \in Nat \ {0} /\ Expiry \in Nat \ {0}
    /\ Stuck \in Nat \ {0}
BY EdgeAssumption

\* calloc gives a peer.
LEMMA FreshPeer == Fresh \in Peers
BY Constants DEF Fresh, Peers, PeerRec, Never

\* One field changes.
LEMMA FieldRec ==
    ASSUME NEW p \in PeerRec
    PROVE  /\ \A a \in Addrs \cup {NoAddr} : [p EXCEPT !.sock = a] \in PeerRec
           /\ \A a \in Addrs \cup {NoAddr} : [p EXCEPT !.sock6 = a] \in PeerRec
           /\ \A v \in BOOLEAN : [p EXCEPT !.lan = v] \in PeerRec
           /\ \A v \in Nat : [p EXCEPT !.seen = v] \in PeerRec
           /\ \A v \in Nat \cup {Never} : [p EXCEPT !.direct = v] \in PeerRec
           /\ \A v \in Nat : [p EXCEPT !.est = v] \in PeerRec
           /\ \A v \in {"idle", "running", "failed"} : [p EXCEPT !.punch = v] \in PeerRec
           /\ \A v \in 0 .. Rounds - 1 : [p EXCEPT !.round = v] \in PeerRec
           /\ \A v \in Nat : [p EXCEPT !.clock = v] \in PeerRec
           /\ \A v \in 0 .. Retries : [p EXCEPT !.retry = v] \in PeerRec
           /\ \A v \in Nat \cup {Never} : [p EXCEPT !.lanStart = v] \in PeerRec
           /\ \A v \in BOOLEAN : [p EXCEPT !.lanDone = v] \in PeerRec
           /\ \A v \in {Never} \cup 0 .. ProbeSecs : [p EXCEPT !.probe = v] \in PeerRec
           /\ \A v \in 0 .. MaxFails - 1 : [p EXCEPT !.fails = v] \in PeerRec
           /\ \A v \in BOOLEAN : [p EXCEPT !.answered = v] \in PeerRec
<1>1. \A v \in Addrs \cup {NoAddr} : [p EXCEPT !.sock = v] \in PeerRec
  BY DEF PeerRec
<1>2. \A v \in Addrs \cup {NoAddr} : [p EXCEPT !.sock6 = v] \in PeerRec
  BY DEF PeerRec
<1>3. \A v \in BOOLEAN : [p EXCEPT !.lan = v] \in PeerRec
  BY DEF PeerRec
<1>4. \A v \in Nat : [p EXCEPT !.seen = v] \in PeerRec
  BY DEF PeerRec
<1>5. \A v \in Nat \cup {Never} : [p EXCEPT !.direct = v] \in PeerRec
  BY DEF PeerRec
<1>6. \A v \in Nat : [p EXCEPT !.est = v] \in PeerRec
  BY DEF PeerRec
<1>7. \A v \in {"idle", "running", "failed"} : [p EXCEPT !.punch = v] \in PeerRec
  BY DEF PeerRec
<1>8. \A v \in 0 .. Rounds - 1 : [p EXCEPT !.round = v] \in PeerRec
  BY DEF PeerRec
<1>9. \A v \in Nat : [p EXCEPT !.clock = v] \in PeerRec
  BY DEF PeerRec
<1>10. \A v \in 0 .. Retries : [p EXCEPT !.retry = v] \in PeerRec
  BY DEF PeerRec
<1>11. \A v \in Nat \cup {Never} : [p EXCEPT !.lanStart = v] \in PeerRec
  BY DEF PeerRec
<1>12. \A v \in BOOLEAN : [p EXCEPT !.lanDone = v] \in PeerRec
  BY DEF PeerRec
<1>13. \A v \in {Never} \cup 0 .. ProbeSecs : [p EXCEPT !.probe = v] \in PeerRec
  BY DEF PeerRec
<1>14. \A v \in 0 .. MaxFails - 1 : [p EXCEPT !.fails = v] \in PeerRec
  BY DEF PeerRec
<1>15. \A v \in BOOLEAN : [p EXCEPT !.answered = v] \in PeerRec
  BY DEF PeerRec
<1> QED
  BY <1>1, <1>2, <1>3, <1>4, <1>5, <1>6, <1>7, <1>8, <1>9, <1>10, <1>11, <1>12, <1>13, <1>14, <1>15

\* The values that a peer starts from.
LEMMA StartValues ==
    /\ 0 \in Nat /\ 1 \in Nat /\ 0 \in Nat \cup {Never} /\ Never \in Nat \cup {Never}
    /\ 0 \in 0 .. Rounds - 1 /\ 0 \in 0 .. Retries /\ 0 \in 0 .. MaxFails - 1
    /\ 0 \in {Never} \cup 0 .. ProbeSecs /\ Never \in {Never} \cup 0 .. ProbeSecs
    /\ Never # 0
BY Constants DEF Never

\* A peer that differs from another one in its address.
LEMMA AddressPeer ==
    ASSUME NEW p \in Peers, NEW a \in Addrs \cup {NoAddr}
    PROVE  /\ [p EXCEPT !.sock = a] \in Peers
           /\ [p EXCEPT !.sock6 = a] \in Peers
           /\ [p EXCEPT ![Slot(a)] = a] \in Peers
<1>1. [p EXCEPT !.sock = a] \in Peers
  BY DEF Peers, PeerRec
<1>2. [p EXCEPT !.sock6 = a] \in Peers
  BY DEF Peers, PeerRec
<1>3. QED
  BY <1>1, <1>2 DEF Slot

\* What start_punch, and Idled below, leave alone.
LEMMA PunchPeer ==
    ASSUME NEW p \in PeerRec
    PROVE  /\ start_punch(p) \in PeerRec
           /\ start_punch(p).probe = p.probe /\ start_punch(p).answered = p.answered
<1>1. [p EXCEPT !.punch = "running", !.round = 0, !.clock = 0] \in PeerRec
  BY FieldRec, StartValues, Zenon
<1>2. start_punch(p) \in PeerRec
  BY <1>1 DEF start_punch
<1>3. QED
  BY <1>2 DEF start_punch, PeerRec

\* A peer gone idle is a record still, and its probe is what it was.
LEMMA IdledPeer ==
    ASSUME NEW p \in PeerRec
    PROVE  /\ Idled(p) \in PeerRec
           /\ Idled(p).probe = p.probe /\ Idled(p).answered = p.answered
<1>1. Idled(p) \in PeerRec
  BY FieldRec, StartValues, Zenon DEF Idled
<1>2. QED
  BY <1>1 DEF Idled, PeerRec

\* A direct frame, and the end of a probe.
LEMMA DirectPeer ==
    ASSUME NEW p \in Peers
    PROVE  /\ DirectNow(p) \in Peers /\ DirectNow(p).direct = 0
           /\ NoProbe(p) \in Peers
BY Constants, ZenonT(60) DEF Peers, PeerRec, DirectNow, NoProbe, Never

\* A packet of a peer makes it fresh.
LEMMA SeenPeer ==
    ASSUME NEW p \in Peers
    PROVE  [p EXCEPT !.seen = 0] \in Peers
BY Constants DEF Peers, PeerRec

\* The fields that follow NoProbe.
LEMMA ProbeFields ==
    ASSUME NEW p \in PeerRec, NEW f \in 0 .. MaxFails - 1
    PROVE  /\ [NoProbe(p) EXCEPT !.fails = f] \in PeerRec
           /\ [NoProbe(p) EXCEPT !.direct = Never, !.fails = f] \in PeerRec
<1>1. NoProbe(p) \in PeerRec
  BY FieldRec, StartValues, Zenon DEF NoProbe
<1>2. QED
  BY <1>1, FieldRec, StartValues, Zenon

\* A second passes: the ages grow, and the rest stays.
LEMMA AgedPeer ==
    ASSUME NEW p \in Peers
    PROVE  /\ Aged(p) \in Peers
           /\ Aged(p).sock = p.sock /\ Aged(p).sock6 = p.sock6
           /\ Aged(p).seen = Older(p.seen, SeenMax)
           /\ Aged(p).direct = Older(p.direct, DirectMax)
           /\ Aged(p).probe = Older(p.probe, ProbeSecs)
           /\ Aged(p).fails = p.fails /\ Aged(p).answered = p.answered
<1> DEFINE s == Older(p.seen, SeenMax)
           d == Older(p.direct, DirectMax)
           c == IF p.punch = "idle" THEN 0
                ELSE Older(p.clock, IF p.punch = "failed" THEN RetrySecs + 1 ELSE RoundSecs)
           l == Older(p.lanStart, LanSecs)
           b == Older(p.probe, ProbeSecs)
<1>0. p \in PeerRec
  BY DEF Peers
<1>1. s \in Nat
  BY <1>0, Constants DEF PeerRec, Older, SeenMax, AtLeast, Never
<1>2. d \in Nat \cup {Never}
  <2>1. DirectMax \in Nat
    BY Constants DEF DirectMax, Total, AtLeast
  <2>2. QED
    BY <1>0, <2>1 DEF PeerRec, Older, Never
<1>3. c \in Nat
  BY <1>0, Constants DEF PeerRec, Older, Never
<1>4. l \in Nat \cup {Never}
  BY <1>0, Constants DEF PeerRec, Older, Never
<1>5. b \in {Never} \cup 0 .. ProbeSecs /\ (b = Never <=> p.probe = Never)
  BY <1>0, Constants DEF PeerRec, Older, Never
<1>6. Aged(p) \in PeerRec
  <2> DEFINE p1 == [p EXCEPT !.seen = s]
             p2 == [p1 EXCEPT !.direct = d]
             p3 == [p2 EXCEPT !.est = 1]
             p4 == [p3 EXCEPT !.clock = c]
             p5 == [p4 EXCEPT !.lanStart = l]
             p6 == [p5 EXCEPT !.probe = b]
  <2>1. Aged(p) = p6
    BY Zenon DEF Aged
  <2> HIDE DEF s, d, c, l, b
  <2>2. p1 \in PeerRec
    BY <1>0, <1>1, FieldRec, Zenon
  <2> HIDE DEF p1
  <2>3. p2 \in PeerRec
    BY <2>2, <1>2, FieldRec, Zenon
  <2> HIDE DEF p2
  <2>4. p3 \in PeerRec
    BY <2>3, StartValues, FieldRec, Zenon
  <2> HIDE DEF p3
  <2>5. p4 \in PeerRec
    BY <2>4, <1>3, FieldRec, Zenon
  <2> HIDE DEF p4
  <2>6. p5 \in PeerRec
    BY <2>5, <1>4, FieldRec, Zenon
  <2> HIDE DEF p5
  <2>7. p6 \in PeerRec
    BY <2>6, <1>5, FieldRec, Zenon
  <2>8. QED
    BY <2>1, <2>7
<1>7. /\ Aged(p).sock = p.sock /\ Aged(p).sock6 = p.sock6
      /\ Aged(p).seen = Older(p.seen, SeenMax)
      /\ Aged(p).direct = Older(p.direct, DirectMax)
      /\ Aged(p).probe = Older(p.probe, ProbeSecs)
      /\ Aged(p).fails = p.fails /\ Aged(p).answered = p.answered
  BY <1>0 DEF PeerRec, Aged
<1>8. QED
  BY <1>5, <1>6, <1>7 DEF Peers

\* What check_keepalive does with a peer: nothing, a probe, the end of a
\* probe that was answered or was not, or the direct path is given up.
LEMMA KeepaliveStep ==
    ASSUME NEW p \in Peers
    PROVE  LET q == check_keepalive(p)
           IN  /\ q \in Peers
               /\ q.sock = p.sock /\ q.sock6 = p.sock6 /\ q.seen = p.seen
               /\ \/ q.direct = Never
                  \/ /\ q = p
                     /\ \/ p.direct < Idle \/ p.seen < Idle \/ ~KeepAddr(p)
                        \/ p.probe # Never /\ ~p.answered /\ p.probe < ProbeSecs
                  \/ /\ p.probe = Never
                     /\ q.direct = p.direct /\ q.probe = 0 /\ ~q.answered /\ q.fails = p.fails
                  \/ /\ p.probe # Never /\ p.answered
                     /\ q.direct = p.direct /\ q.probe = Never /\ q.fails = 0
                  \/ /\ p.probe # Never /\ ~p.answered /\ p.probe >= ProbeSecs
                     /\ q.direct = p.direct /\ q.probe = Never /\ q.fails = p.fails + 1
<1> DEFINE q == check_keepalive(p)
           quiet == \/ p.direct = Never \/ p.direct < Idle \/ p.seen < Idle \/ ~KeepAddr(p)
<1>0. p \in PeerRec /\ (p.probe = Never => ~p.answered)
  BY DEF Peers
<1>1. CASE quiet
  <2>1. q = p
    BY <1>1, Zenon DEF check_keepalive
  <2>2. QED
    BY <1>1, <2>1
<1>2. CASE ~quiet /\ p.probe = Never
  <2>1. q = [p EXCEPT !.probe = 0]
    BY <1>2, Zenon DEF check_keepalive
  <2>2. q \in PeerRec
    BY <2>1, <1>0, FieldRec, StartValues, Zenon
  <2>3. /\ q.probe = 0 /\ q.answered = p.answered /\ q.direct = p.direct /\ q.fails = p.fails
        /\ q.sock = p.sock /\ q.sock6 = p.sock6 /\ q.seen = p.seen
    BY <2>1, <1>0 DEF PeerRec
  <2>4. QED
    BY <1>0, <1>2, <2>2, <2>3, StartValues DEF Peers
<1>3. CASE ~quiet /\ p.probe # Never /\ p.answered
  <2>1. q = [NoProbe(p) EXCEPT !.fails = 0]
    BY <1>3, Zenon DEF check_keepalive
  <2>2. q \in PeerRec
    BY <2>1, <1>0, ProbeFields, StartValues, Zenon
  <2>3. /\ q.probe = Never /\ ~q.answered /\ q.direct = p.direct /\ q.fails = 0
        /\ q.sock = p.sock /\ q.sock6 = p.sock6 /\ q.seen = p.seen
    BY <2>1, <1>0 DEF PeerRec, NoProbe
  <2>4. QED
    BY <1>0, <1>3, <2>2, <2>3 DEF Peers
<1>4. CASE ~quiet /\ p.probe # Never /\ ~p.answered /\ p.probe < ProbeSecs
  <2>1. q = p
    BY <1>4, Zenon DEF check_keepalive
  <2>2. QED
    BY <1>4, <2>1
<1>5. CASE ~quiet /\ p.probe # Never /\ ~p.answered /\ ~(p.probe < ProbeSecs) /\ p.fails + 1 < MaxFails
  <2>1. q = [NoProbe(p) EXCEPT !.fails = p.fails + 1]
    <3>1. NoProbe(p).fails = p.fails
      BY <1>0 DEF PeerRec, NoProbe
    <3>2. QED
      BY <1>5, <3>1, Zenon DEF check_keepalive
  <2>2. p.fails + 1 \in 0 .. MaxFails - 1
    BY <1>0, <1>5, Constants DEF PeerRec
  <2>3. q \in PeerRec
    BY <2>1, <2>2, <1>0, ProbeFields, Zenon
  <2>4. /\ q.probe = Never /\ ~q.answered /\ q.direct = p.direct /\ q.fails = p.fails + 1
        /\ q.sock = p.sock /\ q.sock6 = p.sock6 /\ q.seen = p.seen
    BY <2>1, <1>0 DEF PeerRec, NoProbe
  <2>5. p.probe >= ProbeSecs
    BY <1>0, <1>5, Constants DEF PeerRec, Never
  <2>6. QED
    BY <1>0, <1>5, <2>3, <2>4, <2>5 DEF Peers
<1>6. CASE ~quiet /\ p.probe # Never /\ ~p.answered /\ ~(p.probe < ProbeSecs) /\ ~(p.fails + 1 < MaxFails)
  <2> DEFINE r == [NoProbe(p) EXCEPT !.direct = Never, !.fails = 0]
  <2>1. q = start_punch(Idled(r))
    BY <1>6, Zenon DEF check_keepalive
  <2>2. r \in PeerRec
    BY <1>0, ProbeFields, StartValues, Zenon
  <2>3. /\ r.probe = Never /\ ~r.answered /\ r.direct = Never
        /\ r.sock = p.sock /\ r.sock6 = p.sock6 /\ r.seen = p.seen
    BY <1>0 DEF PeerRec, NoProbe
  <2> HIDE DEF r
  <2>4. /\ Idled(r) \in PeerRec /\ Idled(r).direct = Never
        /\ Idled(r).probe = Never /\ ~Idled(r).answered
        /\ Idled(r).sock = p.sock /\ Idled(r).sock6 = p.sock6 /\ Idled(r).seen = p.seen
    BY <2>2, <2>3, IdledPeer DEF PeerRec, Idled
  <2>5. /\ q \in PeerRec /\ q.direct = Never /\ q.probe = Never /\ ~q.answered
        /\ q.sock = p.sock /\ q.sock6 = p.sock6 /\ q.seen = p.seen
    <3> DEFINE i == Idled(r)
    <3>1. i \in PeerRec
      BY <2>4
    <3> HIDE DEF i
    <3>2. /\ start_punch(i) \in PeerRec /\ start_punch(i).direct = i.direct
          /\ start_punch(i).probe = i.probe /\ start_punch(i).answered = i.answered
          /\ start_punch(i).sock = i.sock /\ start_punch(i).sock6 = i.sock6
          /\ start_punch(i).seen = i.seen
      BY <3>1, PunchPeer DEF start_punch, PeerRec
    <3>3. QED
      BY <2>1, <2>4, <3>2, Zenon DEF i
  <2>6. QED
    BY <2>5 DEF Peers
<1>7. QED
  BY <1>1, <1>2, <1>3, <1>4, <1>5, <1>6

\* The LAN phase and the rounds of check_punch_timeouts give a peer.
LEMMA PhasePeer ==
    ASSUME NEW p \in Peers
    PROVE  LanPhase(p) \in Peers /\ RoundsPhase(p) \in Peers
<1>0. p \in PeerRec /\ (p.probe = Never => ~p.answered)
  BY DEF Peers
<1>1. LanPhase(p) \in Peers
  <2>1. [p EXCEPT !.seen = 0] \in Peers
    BY SeenPeer
  <2>2. start_punch([p EXCEPT !.lanDone = TRUE]) \in Peers
    <3> DEFINE q == [p EXCEPT !.lanDone = TRUE]
    <3>1. q \in PeerRec /\ q.probe = p.probe /\ q.answered = p.answered
      BY <1>0 DEF PeerRec
    <3> HIDE DEF q
    <3>2. start_punch(q) \in PeerRec /\ start_punch(q).probe = q.probe
          /\ start_punch(q).answered = q.answered
      BY <3>1, PunchPeer
    <3>3. start_punch(q) \in Peers
      BY <1>0, <3>1, <3>2 DEF Peers
    <3>4. QED
      BY <3>3 DEF q
  <2>3. QED
    BY <2>1, <2>2, Zenon DEF LanPhase
<1>2. RoundsPhase(p) \in Peers
  <2>1. CASE p.punch = "running" /\ p.clock >= RoundSecs
    <3>1. CASE p.round >= Rounds - 1
      <4>1. RoundsPhase(p) = [p EXCEPT !.punch = "failed", !.clock = 0]
        BY <2>1, <3>1, Zenon DEF RoundsPhase
      <4>2. RoundsPhase(p) \in PeerRec
        <5>1. [p EXCEPT !.punch = "failed"] \in PeerRec
          BY <1>0, FieldRec
        <5>2. QED
          BY <4>1, <5>1, FieldRec, StartValues, Zenon
      <4>3. RoundsPhase(p).probe = p.probe /\ RoundsPhase(p).answered = p.answered
        BY <1>0, <4>1 DEF PeerRec
      <4>4. QED
        BY <1>0, <4>2, <4>3 DEF Peers
    <3>2. CASE ~(p.round >= Rounds - 1)
      <4>1. RoundsPhase(p) = [p EXCEPT !.round = p.round + 1, !.clock = 0]
        BY <2>1, <3>2, Zenon DEF RoundsPhase
      <4>2. p.round + 1 \in 0 .. Rounds - 1
        BY <1>0, <3>2, Constants DEF PeerRec
      <4>3. RoundsPhase(p) \in PeerRec
        <5>1. [p EXCEPT !.round = p.round + 1] \in PeerRec
          BY <1>0, <4>2, FieldRec, Zenon
        <5>2. QED
          BY <4>1, <5>1, FieldRec, StartValues, Zenon
      <4>4. RoundsPhase(p).probe = p.probe /\ RoundsPhase(p).answered = p.answered
        BY <1>0, <4>1 DEF PeerRec
      <4>5. QED
        BY <1>0, <4>3, <4>4 DEF Peers
    <3>3. QED
      BY <3>1, <3>2
  <2>2. CASE p.punch = "failed" /\ p.retry < Retries /\ p.clock > RetrySecs
    <3>0. p.retry + 1 \in 0 .. Retries /\ p.punch # "running"
      BY <1>0, <2>2, Constants DEF PeerRec
    <3>1. CASE p.retry + 1 >= Retries
      <4>1. RoundsPhase(p) = [p EXCEPT !.retry = p.retry + 1]
        BY <2>2, <3>0, <3>1, Zenon DEF RoundsPhase
      <4>2. QED
        BY <1>0, <3>0, <4>1 DEF Peers, PeerRec
    <3>2. CASE ~(p.retry + 1 >= Retries)
      <4> DEFINE q == [p EXCEPT !.retry = p.retry + 1, !.punch = "idle",
                                !.lanDone = FALSE, !.lanStart = Never]
      <4>1. RoundsPhase(p) = start_punch(q)
        BY <2>2, <3>0, <3>2, Zenon DEF RoundsPhase
      <4>2. q \in PeerRec
        BY <1>0, <3>0, FieldRec, StartValues, Zenon
      <4>3. q.probe = p.probe /\ q.answered = p.answered
        BY <1>0 DEF PeerRec
      <4> HIDE DEF q
      <4>4. QED
        BY <1>0, <4>1, <4>2, <4>3, PunchPeer DEF Peers
    <3>3. QED
      BY <3>1, <3>2
  <2>3. CASE /\ ~(p.punch = "running" /\ p.clock >= RoundSecs)
             /\ ~(p.punch = "failed" /\ p.retry < Retries /\ p.clock > RetrySecs)
    <3>1. RoundsPhase(p) = p
      BY <2>3, Zenon DEF RoundsPhase
    <3>2. QED
      BY <3>1
  <2>4. QED
    BY <2>1, <2>2, <2>3
<1>3. QED
  BY <1>1, <1>2

-----------------------------------------------------------------------------
(* The lists *)

\* A list of peers: known_peers or pending_peers.
IsList(P) == DOMAIN P \subseteq Macs /\ \A m \in DOMAIN P : P[m] \in Peers

\* An entry is written, removed, or purged.
LEMMA WithList ==
    ASSUME NEW P, NEW m \in Macs, NEW p
    PROVE  /\ DOMAIN With(P, m, p) = DOMAIN P \cup {m}
           /\ With(P, m, p)[m] = p
           /\ \A n \in DOMAIN P : n # m => With(P, m, p)[n] = P[n]
           /\ IsList(P) /\ p \in Peers => IsList(With(P, m, p))
<1>1. /\ DOMAIN With(P, m, p) = DOMAIN P \cup {m}
      /\ With(P, m, p)[m] = p
      /\ \A n \in DOMAIN P : n # m => With(P, m, p)[n] = P[n]
  BY DEF With
<1>2. QED
  BY <1>1 DEF IsList

\* A part of a peer list is a list, and its entries are the same.
LEMMA RestrictList ==
    ASSUME NEW P, NEW S \in SUBSET DOMAIN P
    PROVE  /\ DOMAIN Restrict(P, S) = S
           /\ \A n \in S : Restrict(P, S)[n] = P[n]
           /\ IsList(P) => IsList(Restrict(P, S))
BY DEF Restrict, IsList

\* So is the list without one peer (HASH_DEL).
LEMMA WithoutList ==
    ASSUME NEW P, NEW m
    PROVE  /\ DOMAIN Without(P, m) = DOMAIN P \ {m}
           /\ \A n \in DOMAIN P : n # m => Without(P, m)[n] = P[n]
           /\ IsList(P) => IsList(Without(P, m))
BY RestrictList DEF Without

\* The purge keeps the peers seen lately and no others (purge_peer_list).
LEMMA PurgeList ==
    ASSUME NEW P, NEW limit
    PROVE  /\ DOMAIN Purge(P, limit) = {n \in DOMAIN P : P[n].seen <= limit}
           /\ \A n \in DOMAIN Purge(P, limit) : Purge(P, limit)[n] = P[n]
           /\ IsList(P) => IsList(Purge(P, limit))
BY RestrictList DEF Purge

\* The helpers of punching give a list, with the peer they are about in it.
LEMMA SendRegister ==
    ASSUME NEW P, IsList(P), NEW m \in Macs, NEW a \in Addrs \cup {NoAddr}
    PROVE  /\ IsList(try_send_register(P, m, a))
           /\ DOMAIN try_send_register(P, m, a) = DOMAIN P \cup {m}
<1>1. CASE m \notin DOMAIN P
  <2> DEFINE q == [Fresh EXCEPT ![Slot(a)] = a]
  <2>1. q \in Peers
    BY FreshPeer, AddressPeer
  <2> HIDE DEF q
  <2>2. start_punch(q) \in Peers
    BY <2>1, PunchPeer DEF Peers
  <2>3. try_send_register(P, m, a) = With(P, m, start_punch(q))
    BY <1>1, Zenon DEF try_send_register, q
  <2>4. /\ IsList(With(P, m, start_punch(q)))
        /\ DOMAIN With(P, m, start_punch(q)) = DOMAIN P \cup {m}
    BY <2>2, WithList, Zenon
  <2>5. QED
    BY <2>3, <2>4, Zenon
<1>2. CASE m \in DOMAIN P
  <2> DEFINE p == P[m]
             q == [p EXCEPT ![Slot(a)] = a, !.lan = FALSE]
             r == IF p[Slot(a)] # a THEN Idled(q) ELSE p
  <2>0. p \in Peers
    BY <1>2 DEF IsList
  <2>1. q \in Peers
    <3> DEFINE s == [p EXCEPT ![Slot(a)] = a]
    <3>1. s \in Peers
      BY <2>0, AddressPeer
    <3> HIDE DEF s
    <3>2. [s EXCEPT !.lan = FALSE] \in Peers
      BY <3>1 DEF Peers, PeerRec
    <3>3. QED
      BY <3>2 DEF s
  <2>2. try_send_register(P, m, a) = With(P, m, start_punch(r))
    BY <1>2, Zenon DEF try_send_register
  <2> HIDE DEF p, q
  <2>3. r \in Peers
    BY <2>0, <2>1, IdledPeer DEF Peers
  <2> HIDE DEF r
  <2>4. start_punch(r) \in Peers
    BY <2>3, PunchPeer DEF Peers
  <2>5. /\ IsList(With(P, m, start_punch(r)))
        /\ DOMAIN With(P, m, start_punch(r)) = DOMAIN P \cup {m}
    BY <2>4, WithList, Zenon
  <2>6. QED
    BY <2>2, <2>5, Zenon
<1>3. QED
  BY <1>1, <1>2

\* A registration over the LAN has the peer listed, and no other.
LEMMA SendRegisterLan ==
    ASSUME NEW P, IsList(P), NEW m \in Macs, NEW a \in Addrs \cup {NoAddr}
    PROVE  /\ IsList(try_send_register_lan(P, m, a))
           /\ DOMAIN try_send_register_lan(P, m, a) = DOMAIN P \cup {m}
<1> DEFINE p == IF m \in DOMAIN P THEN P[m] ELSE Fresh
           s == [p EXCEPT ![Slot(a)] = a]
           q == [s EXCEPT !.lan = TRUE, !.lanStart = 0, !.lanDone = FALSE,
                          !.punch = "idle", !.round = 0, !.clock = 0]
<1>0. p \in Peers
  BY FreshPeer DEF IsList
<1>1. try_send_register_lan(P, m, a) = With(P, m, q)
  BY Zenon DEF try_send_register_lan
<1> HIDE DEF p
<1>2. s \in Peers
  BY <1>0, AddressPeer
<1> HIDE DEF s
<1>3. q \in PeerRec
  BY <1>2, FieldRec, StartValues, Zenon DEF Peers
<1>4. q.probe = s.probe /\ q.answered = s.answered
  BY <1>2 DEF Peers, PeerRec
<1> HIDE DEF q
<1>5. q \in Peers
  BY <1>2, <1>3, <1>4 DEF Peers
<1>6. IsList(With(P, m, q)) /\ DOMAIN With(P, m, q) = DOMAIN P \cup {m}
  BY <1>5, WithList, Zenon
<1>7. QED
  BY <1>1, <1>6, Zenon

\* A peer's LAN address adds no peer.
LEMMA PeerLan ==
    ASSUME NEW P, IsList(P), NEW m \in DOMAIN P, NEW info \in Infos
    PROVE  /\ IsList(try_peer_lan_ipv4(P, m, info))
           /\ DOMAIN try_peer_lan_ipv4(P, m, info) = DOMAIN P
<1>1. m \in Macs /\ info.a \in Addrs /\ P[m].sock \in Addrs \cup {NoAddr}
  BY DEF IsList, Infos, Peers, PeerRec
<1>2. DOMAIN P \cup {m} = DOMAIN P
  OBVIOUS
<1>3. CASE info.local /\ info.a \in SameNat
  <2>1. try_peer_lan_ipv4(P, m, info) = try_send_register_lan(P, m, info.a)
    BY <1>3, Zenon DEF try_peer_lan_ipv4
  <2>2. /\ IsList(try_send_register_lan(P, m, info.a))
        /\ DOMAIN try_send_register_lan(P, m, info.a) = DOMAIN P \cup {m}
    BY <1>1, SendRegisterLan, Zenon
  <2>3. QED
    BY <1>2, <2>1, <2>2, Zenon
<1>4. CASE ~(info.local /\ info.a \in SameNat)
  <2>1. try_peer_lan_ipv4(P, m, info) = try_send_register(P, m, P[m].sock)
    BY <1>4, Zenon DEF try_peer_lan_ipv4
  <2>2. /\ IsList(try_send_register(P, m, P[m].sock))
        /\ DOMAIN try_send_register(P, m, P[m].sock) = DOMAIN P \cup {m}
    BY <1>1, SendRegister, Zenon
  <2>3. QED
    BY <1>2, <2>1, <2>2, Zenon
<1>5. QED
  BY <1>3, <1>4

\* A punch starts again for a peer that is listed.
LEMMA RestartPunch ==
    ASSUME NEW P, IsList(P), NEW m \in DOMAIN P, NEW info \in Infos
    PROVE  /\ IsList(restart_punch_for_peer(P, m, info))
           /\ DOMAIN restart_punch_for_peer(P, m, info) = DOMAIN P
<1> DEFINE s == [P[m] EXCEPT !.lan = FALSE]
           p == Idled(s)
           Q == With(P, m, p)
<1>0. m \in Macs /\ P[m] \in Peers
  BY DEF IsList
<1>1. s \in Peers
  BY <1>0 DEF Peers, PeerRec
<1>2. p \in Peers
  <2> HIDE DEF s
  <2>1. QED
    BY <1>1, IdledPeer DEF Peers
<1>3. p.sock6 \in Addrs \cup {NoAddr}
  BY <1>2 DEF Peers, PeerRec
<1> HIDE DEF p
<1>4. IsList(Q) /\ DOMAIN Q = DOMAIN P /\ m \in DOMAIN Q
  <2>1. DOMAIN P \cup {m} = DOMAIN P
    OBVIOUS
  <2>2. IsList(Q) /\ DOMAIN Q = DOMAIN P \cup {m}
    BY <1>0, <1>2, WithList, Zenon
  <2>3. QED
    BY <2>1, <2>2
<1>5. restart_punch_for_peer(P, m, info) =
        CASE p.sock6 \in V6 /\ SnV6  -> try_send_register(Q, m, p.sock6)
          [] p.sock6 \in V6 /\ ~SnV6 -> try_send_register(try_peer_lan_ipv4(Q, m, info), m, p.sock6)
          [] OTHER                   -> try_peer_lan_ipv4(Q, m, info)
  BY DEF restart_punch_for_peer, p
<1> HIDE DEF Q
<1>6. CASE p.sock6 \in V6 /\ SnV6
  <2>1. restart_punch_for_peer(P, m, info) = try_send_register(Q, m, p.sock6)
    BY <1>5, <1>6
  <2>2. /\ IsList(try_send_register(Q, m, p.sock6))
        /\ DOMAIN try_send_register(Q, m, p.sock6) = DOMAIN Q \cup {m}
    BY <1>0, <1>3, <1>4, SendRegister, Zenon
  <2>3. DOMAIN Q \cup {m} = DOMAIN P
    BY <1>4
  <2>4. QED
    BY <2>1, <2>2, <2>3, Zenon
<1>7. CASE p.sock6 \in V6 /\ ~SnV6
  <2> DEFINE R == try_peer_lan_ipv4(Q, m, info)
  <2>1. restart_punch_for_peer(P, m, info) = try_send_register(R, m, p.sock6)
    BY <1>5, <1>7
  <2>2. IsList(R) /\ DOMAIN R = DOMAIN Q
    BY <1>4, PeerLan
  <2> HIDE DEF R
  <2>3. /\ IsList(try_send_register(R, m, p.sock6))
        /\ DOMAIN try_send_register(R, m, p.sock6) = DOMAIN R \cup {m}
    BY <1>0, <1>3, <2>2, SendRegister, Zenon
  <2>4. DOMAIN R \cup {m} = DOMAIN P
    BY <1>4, <2>2
  <2>5. QED
    BY <2>1, <2>3, <2>4, Zenon
<1>8. CASE p.sock6 \notin V6
  <2>1. restart_punch_for_peer(P, m, info) = try_peer_lan_ipv4(Q, m, info)
    BY <1>5, <1>8
  <2>2. /\ IsList(try_peer_lan_ipv4(Q, m, info))
        /\ DOMAIN try_peer_lan_ipv4(Q, m, info) = DOMAIN Q
    BY <1>4, PeerLan, Zenon
  <2>3. QED
    BY <1>4, <2>1, <2>2, Zenon
<1>9. QED
  BY <1>6, <1>7, <1>8

\* The main loop's passes over a list.
LEMMA PunchTimeouts ==
    ASSUME NEW P, IsList(P)
    PROVE  /\ IsList(check_punch_timeouts(P))
           /\ DOMAIN check_punch_timeouts(P) \subseteq DOMAIN P
<1> DEFINE Q == [m \in DOMAIN P |-> LanPhase(P[m])]
           Gone(p) == p.punch = "idle" /\ p.seen > Stuck
           stay == {m \in DOMAIN P : ~Gone(Q[m])}
           R == [m \in stay |-> RoundsPhase(Q[m])]
<1>1. check_punch_timeouts(P) = R
  BY DEF check_punch_timeouts
<1>2. \A m \in DOMAIN P : Q[m] \in Peers
  BY PhasePeer DEF IsList
<1>3. stay \subseteq DOMAIN P
  OBVIOUS
<1> HIDE DEF Q, stay
<1>4. DOMAIN R = stay /\ \A m \in stay : R[m] \in Peers
  BY <1>2, <1>3, PhasePeer
<1> HIDE DEF R
<1>5. QED
  BY <1>1, <1>3, <1>4 DEF IsList

\* Time passes for every peer of a list.
LEMMA AgedList ==
    ASSUME NEW P, IsList(P)
    PROVE  IsList([m \in DOMAIN P |-> Aged(P[m])])
BY AgedPeer DEF IsList

\* The keepalive is sent to every peer of a list.
LEMMA KeepaliveList ==
    ASSUME NEW P, IsList(P)
    PROVE  IsList([m \in DOMAIN P |-> check_keepalive(P[m])])
BY KeepaliveStep DEF IsList

\* What a message does to the entry of its sender.
LEMMA UpdatePeer ==
    ASSUME NEW p \in Peers, NEW a \in Addrs
    PROVE  /\ update_peer_address(p, a) \in Peers
           /\ \/ update_peer_address(p, a).seen = 0
              \/ update_peer_address(p, a).seen = p.seen
           /\ update_peer_address(p, a).direct = p.direct
<1> DEFINE slot == IF p.sock \in V4 THEN "sock" ELSE "sock6"
           q == [p EXCEPT ![slot] = a, !.seen = 0]
<1>1. q \in Peers /\ q.seen = 0 /\ q.direct = p.direct
  BY Constants, ZenonT(60) DEF Peers, PeerRec
<1>2. [p EXCEPT !.seen = 0] \in Peers /\ [p EXCEPT !.seen = 0].seen = 0
      /\ [p EXCEPT !.seen = 0].direct = p.direct
  BY Constants DEF Peers, PeerRec
<1>3. update_peer_address(p, a) \in {p, q, [p EXCEPT !.seen = 0]}
  BY DEF update_peer_address
<1> HIDE DEF q
<1>4. QED
  BY <1>1, <1>2, <1>3

\* A relayed frame: the record stays one, direct or not as it was; only one for us is a sign of life.
LEMMA RelayedPeer ==
    ASSUME NEW p \in Peers, NEW a \in Addrs \cup {NoAddr}, NEW forUs \in BOOLEAN
    PROVE  /\ Relayed(p, a, forUs) \in Peers
           /\ Relayed(p, a, forUs).direct = p.direct
           /\ Relayed(p, a, forUs).seen = IF forUs THEN 0 ELSE p.seen
           /\ p.direct # Never /\ ~forUs => Relayed(p, a, forUs) = p
<1> DEFINE q == IF p.direct = Never /\ a # NoAddr
                THEN [p EXCEPT ![IF p.sock \in V4 THEN "sock" ELSE "sock6"] = a] ELSE p
<1>1. q \in Peers /\ q.direct = p.direct /\ q.seen = p.seen
  BY Constants DEF Peers, PeerRec
<1>2. Relayed(p, a, forUs) = IF forUs THEN [q EXCEPT !.seen = 0] ELSE q
  BY DEF Relayed
<1>3. p.direct # Never => q = p
  OBVIOUS
<1> HIDE DEF q
<1>4. [q EXCEPT !.seen = 0] \in Peers /\ [q EXCEPT !.seen = 0].direct = p.direct
      /\ [q EXCEPT !.seen = 0].seen = 0
  BY <1>1 DEF Peers, PeerRec
<1>5. QED
  BY <1>1, <1>2, <1>3, <1>4

\* The record of a peer's first packet.
LEMMA FirstContactPeer ==
    ASSUME NEW a \in Addrs
    PROVE  FirstContact(a) \in Peers
<1> DEFINE b == IF a \in V6 THEN a ELSE NoAddr
           p1 == [Fresh EXCEPT !.sock = a]
           p2 == [p1 EXCEPT !.sock6 = b]
           p3 == [p2 EXCEPT !.seen = Active + 1]
<1>1. FirstContact(a) = p3
  BY DEF FirstContact
<1>2. b \in Addrs \cup {NoAddr}
  OBVIOUS
<1> HIDE DEF b
<1>3. p1 \in Peers
  BY FreshPeer, AddressPeer
<1> HIDE DEF p1
<1>4. p2 \in Peers
  BY <1>2, <1>3, AddressPeer
<1> HIDE DEF p2
<1>5. p3 \in Peers
  BY <1>4, Constants DEF Peers, PeerRec
<1>6. QED
  BY <1>1, <1>5

\* What the supernode says of a peer leaves the signs of life alone.
LEMMA ToldPeer ==
    ASSUME NEW p \in Peers, NEW info \in Infos
    PROVE  /\ Told(p, info) \in Peers
           /\ Told(p, info).direct = p.direct /\ Told(p, info).seen = p.seen
           /\ Told(p, info).probe = p.probe /\ Told(p, info).fails = p.fails
           /\ Told(p, info).answered = p.answered
           /\ KeepAddr(p) => KeepAddr(Told(p, info))
<1> DEFINE v == p.lan \/ info.local
           b == IF info.a6 \in V6 THEN info.a6 ELSE p.sock6
           q == [p EXCEPT !.lan = v]
           r == [q EXCEPT !.sock6 = b]
<1>1. v \in BOOLEAN /\ b \in Addrs \cup {NoAddr} /\ (p.sock6 \in V6 => b \in V6)
  BY DEF Peers, PeerRec, Infos, Addrs
<1>2. Told(p, info) = r
  <2>1. q.sock6 = p.sock6
    BY DEF Peers, PeerRec
  <2>2. QED
    BY <2>1 DEF Told
<1> HIDE DEF v, b
<1>3. /\ q \in Peers /\ q.direct = p.direct /\ q.seen = p.seen /\ q.probe = p.probe
      /\ q.fails = p.fails /\ q.answered = p.answered /\ q.sock = p.sock
  BY <1>1 DEF Peers, PeerRec
<1> HIDE DEF q
<1>4. /\ r \in Peers /\ r.direct = p.direct /\ r.seen = p.seen /\ r.probe = p.probe
      /\ r.fails = p.fails /\ r.answered = p.answered /\ r.sock = p.sock /\ r.sock6 = b
  BY <1>1, <1>3 DEF Peers, PeerRec
<1>5. QED
  BY <1>1, <1>2, <1>4 DEF KeepAddr

-----------------------------------------------------------------------------
(* Every step keeps the lists *)

\* The inductive invariant of the lists.
ListInv == IsList(known) /\ IsList(pending) /\ OneList /\ ran \in BOOLEAN

\* The lists are empty at first.
LEMMA ListInit == Init => ListInv
<1>1. DOMAIN <<>> = {}
  OBVIOUS
<1>2. QED
  BY <1>1 DEF Init, ListInv, IsList, OneList

\* A turn of the main loop: purge, keepalives, pending punches (run_loop).
LEMMA MainLoopList ==
    ASSUME ListInv, MainLoop
    PROVE  ListInv'
<1> DEFINE K == [m \in DOMAIN known |-> check_keepalive(known[m])]
           T == check_punch_timeouts(pending)
<1>1. IsList(K) /\ DOMAIN K = DOMAIN known
  BY KeepaliveList DEF ListInv
<1>2. IsList(T) /\ DOMAIN T \subseteq DOMAIN pending
  BY PunchTimeouts DEF ListInv
<1>3. known' = Purge(K, Expiry) /\ pending' = Purge(T, Stuck) /\ ran' = TRUE
  BY DEF MainLoop
<1> HIDE DEF K, T
<1>4. /\ IsList(Purge(K, Expiry)) /\ DOMAIN Purge(K, Expiry) \subseteq DOMAIN K
      /\ IsList(Purge(T, Stuck)) /\ DOMAIN Purge(T, Stuck) \subseteq DOMAIN T
  <2>1. /\ IsList(Purge(K, Expiry))
        /\ DOMAIN Purge(K, Expiry) = {n \in DOMAIN K : K[n].seen <= Expiry}
    BY <1>1, PurgeList, Zenon
  <2>2. /\ IsList(Purge(T, Stuck))
        /\ DOMAIN Purge(T, Stuck) = {n \in DOMAIN T : T[n].seen <= Stuck}
    BY <1>2, PurgeList, Zenon
  <2>3. QED
    BY <2>1, <2>2
<1>5. QED
  BY <1>1, <1>2, <1>3, <1>4 DEF ListInv, IsList, OneList

\* Time passes.
LEMMA TickList ==
    ASSUME ListInv, Tick
    PROVE  ListInv'
<1> DEFINE K == [m \in DOMAIN known |-> Aged(known[m])]
           T == [m \in DOMAIN pending |-> Aged(pending[m])]
<1>1. IsList(K) /\ IsList(T) /\ DOMAIN K = DOMAIN known /\ DOMAIN T = DOMAIN pending
  BY AgedList DEF ListInv
<1>2. known' = K /\ pending' = T /\ ran' = FALSE
  BY DEF Tick
<1> HIDE DEF K, T
<1>3. QED
  BY <1>1, <1>2 DEF ListInv, IsList, OneList

\* Entry m of the known peers is replaced, and nothing else changes.
LEMMA KnownEntry ==
    ASSUME ListInv, NEW m \in DOMAIN known, NEW p \in Peers,
           known' = With(known, m, p), pending' = pending, ran' = ran
    PROVE  ListInv'
<1>1. m \in Macs /\ IsList(known)
  BY DEF ListInv, IsList
<1>2. IsList(With(known, m, p)) /\ DOMAIN With(known, m, p) = DOMAIN known \cup {m}
  BY <1>1, WithList, Zenon
<1>3. QED
  BY <1>2 DEF ListInv, IsList, OneList

\* The list of pending peers changes for a peer that is not known.
LEMMA PendingEntry ==
    ASSUME ListInv, NEW m \in Macs, m \notin DOMAIN known,
           NEW P, IsList(P), DOMAIN P \subseteq DOMAIN pending \cup {m},
           known' = known, pending' = P, ran' = ran
    PROVE  ListInv'
BY DEF ListInv, IsList, OneList

\* A new pending peer, not a known one, keeps the lists apart.
LEMMA PendingWith ==
    ASSUME ListInv, NEW m \in Macs, m \notin DOMAIN known, NEW p \in Peers,
           known' = known, pending' = With(pending, m, p), ran' = ran
    PROVE  ListInv'
<1>1. /\ IsList(With(pending, m, p))
      /\ DOMAIN With(pending, m, p) = DOMAIN pending \cup {m}
  BY WithList, Zenon DEF ListInv
<1> DEFINE P == With(pending, m, p)
<1>2. IsList(P) /\ DOMAIN P \subseteq DOMAIN pending \cup {m} /\ pending' = P
  BY <1>1
<1> HIDE DEF P
<1>3. QED
  BY <1>2, PendingEntry

\* What does not touch the lists keeps their invariant.
LEMMA SameLists ==
    ASSUME ListInv, known' = known, pending' = pending, ran' = ran
    PROVE  ListInv'
BY DEF ListInv, IsList, OneList

\* An entry of either list is a record, and of no peer of the other list.
LEMMA EntryPeer ==
    ASSUME ListInv
    PROVE  /\ \A m \in DOMAIN known : known[m] \in Peers /\ m \in Macs /\ m \notin DOMAIN pending
           /\ \A m \in DOMAIN pending : pending[m] \in Peers /\ m \in Macs /\ m \notin DOMAIN known
BY DEF ListInv, IsList, OneList

\* What handle_PACKET does first with the sender of a direct frame.
LEMMA LivePeer ==
    ASSUME NEW p \in Peers
    PROVE  /\ [NoProbe(DirectNow(p)) EXCEPT !.fails = 0] \in Peers
           /\ [NoProbe(DirectNow(p)) EXCEPT !.fails = 0].seen = p.seen
<1> DEFINE d == DirectNow(p)
           n == NoProbe(d)
<1>1. d \in Peers /\ d.seen = p.seen
  BY Constants DEF DirectNow, Peers, PeerRec, Never
<1> HIDE DEF d
<1>2. n \in Peers /\ n.seen = d.seen
  BY <1>1, Constants, ZenonT(60) DEF NoProbe, Peers, PeerRec, Never
<1> HIDE DEF n
<1>3. [n EXCEPT !.fails = 0] \in Peers /\ [n EXCEPT !.fails = 0].seen = n.seen
  BY <1>2, Constants DEF Peers, PeerRec
<1>4. QED
  BY <1>1, <1>2, <1>3 DEF n, d

\* A frame comes directly.
LEMMA PacketDirectList ==
    ASSUME ListInv, NEW m \in Macs, NEW a \in Addrs, PacketDirect(m, a)
    PROVE  ListInv'
<1> DEFINE Live(p) == [NoProbe(DirectNow(p)) EXCEPT !.fails = 0]
           Moved(p) == \/ p.sock \in V4 /\ p.sock # a /\ a \in V4
                       \/ p.sock6 \in V6 /\ a \in V6 /\ (IF p.sock \in V4 THEN p.sock ELSE p.sock6) # a
<1>0. ran' = ran
  BY DEF PacketDirect
<1>1. CASE m \in DOMAIN known
  <2> DEFINE p == Live(known[m])
             q == IF Moved(p) THEN update_peer_address(p, a) ELSE [p EXCEPT !.seen = 0]
  <2>1. known' = With(known, m, q) /\ pending' = pending
    BY <1>1, Zenon DEF PacketDirect
  <2>2. p \in Peers
    BY <1>1, EntryPeer, LivePeer
  <2> HIDE DEF p
  <2>3. q \in Peers
    BY <2>2, UpdatePeer, SeenPeer, Zenon
  <2> HIDE DEF q
  <2>4. QED
    BY <1>0, <1>1, <2>1, <2>3, KnownEntry
<1>2. CASE m \notin DOMAIN known /\ m \in DOMAIN pending
  <2> DEFINE p == Live(pending[m])
             q == IF Moved(p) THEN p ELSE [p EXCEPT !.seen = 0]
  <2>1. pending' = With(pending, m, q) /\ known' = known
    BY <1>2, Zenon DEF PacketDirect
  <2>2. p \in Peers
    BY <1>2, EntryPeer, LivePeer
  <2> HIDE DEF p
  <2>3. q \in Peers
    BY <2>2, SeenPeer, Zenon
  <2> HIDE DEF q
  <2>4. QED
    BY <1>0, <1>2, <2>1, <2>3, PendingWith
<1>3. CASE m \notin DOMAIN known /\ m \notin DOMAIN pending
  <2>1. known' = known /\ pending' = pending
    BY <1>3 DEF PacketDirect
  <2>2. QED
    BY <1>0, <2>1, SameLists
<1>4. QED
  BY <1>1, <1>2, <1>3

\* A frame comes through the supernode.
LEMMA PacketRelayedList ==
    ASSUME ListInv, NEW m \in Macs, NEW a \in Addrs \cup {NoAddr}, NEW forUs \in BOOLEAN,
           PacketRelayed(m, a, forUs)
    PROVE  ListInv'
<1>0. ran' = ran
  BY DEF PacketRelayed
<1>1. CASE m \in DOMAIN known
  <2> DEFINE q == Relayed(known[m], a, forUs)
  <2>1. known' = With(known, m, q) /\ pending' = pending
    BY <1>1, Zenon DEF PacketRelayed
  <2>2. q \in Peers
    BY <1>1, EntryPeer, RelayedPeer
  <2> HIDE DEF q
  <2>3. QED
    BY <1>0, <1>1, <2>1, <2>2, KnownEntry
<1>2. CASE m \notin DOMAIN known /\ m \in DOMAIN pending
  <2> DEFINE q == Relayed(pending[m], a, forUs)
  <2>1. pending' = With(pending, m, q) /\ known' = known
    BY <1>2, Zenon DEF PacketRelayed
  <2>2. q \in Peers
    BY <1>2, EntryPeer, RelayedPeer
  <2> HIDE DEF q
  <2>3. QED
    BY <1>0, <1>2, <2>1, <2>2, PendingWith
<1>3. CASE m \notin DOMAIN known /\ m \notin DOMAIN pending
  <2>1. known' = known /\ pending' = IF a = NoAddr THEN pending ELSE With(pending, m, FirstContact(a))
    BY <1>3, Zenon DEF PacketRelayed
  <2>2. CASE a = NoAddr
    BY <1>0, <2>1, <2>2, SameLists
  <2>3. CASE a # NoAddr
    <3> DEFINE q == FirstContact(a)
    <3>1. q \in Peers
      BY <2>3, FirstContactPeer
    <3>2. pending' = With(pending, m, q) /\ known' = known
      BY <2>1, <2>3
    <3> HIDE DEF q
    <3>3. QED
      BY <1>0, <1>3, <3>1, <3>2, PendingWith
  <2>4. QED
    BY <2>2, <2>3
<1>4. QED
  BY <1>1, <1>2, <1>3

\* A REGISTER comes (process_udp).
LEMMA RegisterList ==
    ASSUME ListInv, NEW m \in Macs, NEW a \in Addrs, NEW withLan \in BOOLEAN,
           Register(m, a, withLan)
    PROVE  ListInv'
<1>0. ran' = ran
  BY DEF Register
<1>1. CASE m \in DOMAIN known
  <2> DEFINE p == known[m]
             slot == IF p.sock \in V4 THEN "sock" ELSE "sock6"
             q == [p EXCEPT ![slot] = a, !.seen = 0]
  <2>1. pending' = pending /\ (known' = With(known, m, q) \/ known' = known)
    BY <1>1 DEF Register
  <2>2. p \in Peers
    BY <1>1, EntryPeer
  <2> HIDE DEF p
  <2>3. q \in Peers
    BY <2>2, Constants, ZenonT(60) DEF Peers, PeerRec
  <2> HIDE DEF q
  <2>4. QED
    BY <1>0, <1>1, <2>1, <2>3, KnownEntry, SameLists
<1>2. CASE m \notin DOMAIN known
  <2> DEFINE P == IF withLan THEN try_send_register_lan(pending, m, a)
                  ELSE try_send_register(pending, m, a)
  <2>1. known' = known /\ pending' = P
    BY <1>2, Zenon DEF Register
  <2>2. IsList(P) /\ DOMAIN P = DOMAIN pending \cup {m}
    BY SendRegister, SendRegisterLan DEF ListInv
  <2> HIDE DEF P
  <2>3. QED
    BY <1>0, <1>2, <2>1, <2>2, PendingEntry
<1>3. QED
  BY <1>1, <1>2

\* The entry that set_peer_operational makes of a pending one.
OperationalPeer(p, a) ==
    [DirectNow(p) EXCEPT !.sock  = IF a \in V4 THEN a ELSE NoAddr,
                         !.sock6 = IF a \in V6 THEN a ELSE NoAddr,
                         !.seen = 0, !.est = 0,
                         !.punch = "idle", !.round = 0, !.clock = 0]

\* The record of a peer that is promoted (peer_set_p2p_confirmed).
LEMMA OperationalEntry ==
    ASSUME NEW p \in Peers, NEW a \in Addrs
    PROVE  /\ OperationalPeer(p, a) \in Peers
           /\ OperationalPeer(p, a).seen = 0
           /\ KeepAddr(OperationalPeer(p, a))
<1> DEFINE d == DirectNow(p)
           b == IF a \in V4 THEN a ELSE NoAddr
           c == IF a \in V6 THEN a ELSE NoAddr
           d1 == [d EXCEPT !.sock = b]
           d2 == [d1 EXCEPT !.sock6 = c]
           d3 == [d2 EXCEPT !.seen = 0]
           q == [d3 EXCEPT !.est = 0, !.punch = "idle", !.round = 0, !.clock = 0]
<1>1. OperationalPeer(p, a) = q
  BY DEF OperationalPeer
<1>2. d \in Peers /\ b \in Addrs \cup {NoAddr} /\ c \in Addrs \cup {NoAddr}
      /\ (b \in V4 \/ c \in V6)
  BY DirectPeer DEF Addrs
<1> HIDE DEF d, b, c
<1>3. d1 \in Peers /\ d1.sock = b
  BY <1>2 DEF Peers, PeerRec
<1> HIDE DEF d1
<1>4. d2 \in Peers /\ d2.sock = b /\ d2.sock6 = c
  BY <1>2, <1>3 DEF Peers, PeerRec
<1> HIDE DEF d2
<1>5. d3 \in Peers /\ d3.sock = b /\ d3.sock6 = c /\ d3.seen = 0
  BY <1>4, Constants DEF Peers, PeerRec
<1> HIDE DEF d3
<1>6. q.sock = b /\ q.sock6 = c /\ q.seen = 0 /\ q.probe = d3.probe /\ q.answered = d3.answered
  BY <1>5 DEF Peers, PeerRec
<1>7. q \in PeerRec
  BY <1>5, FieldRec, StartValues, Zenon DEF Peers
<1> HIDE DEF q
<1>8. q \in Peers /\ KeepAddr(q)
  BY <1>2, <1>5, <1>6, <1>7 DEF Peers, KeepAddr
<1>9. QED
  BY <1>1, <1>6, <1>8

\* A REGISTER_ACK comes: the pending peer is promoted.
LEMMA RegisterAckList ==
    ASSUME ListInv, NEW m \in Macs, NEW a \in Addrs, RegisterAck(m, a)
    PROVE  ListInv'
<1>0. ran' = ran /\ set_peer_operational(m, a)
  BY DEF RegisterAck
<1>1. CASE m \in DOMAIN pending
  <2> DEFINE q == OperationalPeer(pending[m], a)
  <2>1. known' = With(known, m, q) /\ pending' = Without(pending, m)
    BY <1>0, <1>1, Zenon DEF set_peer_operational, OperationalPeer
  <2>2. q \in Peers
    BY <1>1, EntryPeer, OperationalEntry
  <2> HIDE DEF q
  <2>3. IsList(With(known, m, q)) /\ DOMAIN With(known, m, q) = DOMAIN known \cup {m}
    BY <2>2, WithList, Zenon DEF ListInv
  <2>4. IsList(Without(pending, m)) /\ DOMAIN Without(pending, m) = DOMAIN pending \ {m}
    BY WithoutList, Zenon DEF ListInv
  <2>5. QED
    BY <1>0, <2>1, <2>3, <2>4 DEF ListInv, IsList, OneList
<1>2. CASE m \notin DOMAIN pending
  <2> DEFINE q == [known[m] EXCEPT !.sock = a, !.sock6 = NoAddr, !.seen = 0]
  <2>1. /\ pending' = pending
        /\ known' = known \/ (m \in DOMAIN known /\ known' = With(known, m, q))
    BY <1>0, <1>2 DEF set_peer_operational
  <2>2. CASE known' = known
    BY <1>0, <2>1, <2>2, SameLists
  <2>3. CASE m \in DOMAIN known /\ known' = With(known, m, q)
    <3> DEFINE q1 == [known[m] EXCEPT !.sock = a]
               q2 == [q1 EXCEPT !.sock6 = NoAddr]
    <3>1. q1 \in Peers
      BY <2>3, EntryPeer, AddressPeer
    <3> HIDE DEF q1
    <3>2. q2 \in Peers
      BY <3>1, AddressPeer
    <3> HIDE DEF q2
    <3>3. [q2 EXCEPT !.seen = 0] \in Peers
      BY <3>2, SeenPeer
    <3>4. q \in Peers
      BY <3>3 DEF q1, q2
    <3> HIDE DEF q
    <3>5. QED
      BY <1>0, <2>1, <2>3, <3>4, KnownEntry
  <2>4. QED
    BY <2>1, <2>2, <2>3
<1>3. QED
  BY <1>1, <1>2

\* A REGISTER_ACK comes through the supernode.
LEMMA RegisterAckRelayedList ==
    ASSUME ListInv, NEW m \in Macs, RegisterAckRelayed(m)
    PROVE  ListInv'
<1> DEFINE P == [pending EXCEPT ![m].seen = 0]
<1>1. m \in DOMAIN pending /\ m \notin DOMAIN known /\ pending[m] \in Peers
  BY EntryPeer DEF RegisterAckRelayed
<1>2. DOMAIN P = DOMAIN pending /\ \A n \in DOMAIN pending : P[n] \in Peers
  <2>1. [pending[m] EXCEPT !.seen = 0] \in Peers
    BY <1>1, SeenPeer
  <2>2. P = [pending EXCEPT ![m] = [pending[m] EXCEPT !.seen = 0]]
    OBVIOUS
  <2>3. QED
    BY <2>1, <2>2, EntryPeer
<1>3. known' = known /\ pending' = P /\ ran' = ran
  BY DEF RegisterAckRelayed
<1> HIDE DEF P
<1>4. IsList(P)
  BY <1>2 DEF ListInv, IsList
<1>5. QED
  BY <1>1, <1>2, <1>3, <1>4, PendingEntry

\* A probe comes.
LEMMA ProbeList ==
    ASSUME ListInv, NEW m \in Macs, NEW a \in Addrs, Probe(m, a)
    PROVE  ListInv'
<1>0. ran' = ran
  BY DEF Probe
<1>1. CASE m \in DOMAIN known
  <2> DEFINE d == DirectNow(known[m])
             q == [d EXCEPT !.seen = 0]
  <2>1. known' = With(known, m, q) /\ pending' = pending
    BY <1>1 DEF Probe
  <2>2. d \in Peers
    BY <1>1, EntryPeer, DirectPeer
  <2> HIDE DEF d
  <2>3. q \in Peers
    BY <2>2, SeenPeer
  <2> HIDE DEF q
  <2>4. QED
    BY <1>0, <1>1, <2>1, <2>3, KnownEntry
<1>2. CASE m \notin DOMAIN known /\ m \in DOMAIN pending
  <2> DEFINE q == [pending[m] EXCEPT ![Slot(a)] = a]
             P == [pending EXCEPT ![m] = q]
  <2>1. known' = known /\ pending' = P
    BY <1>2 DEF Probe
  <2>2. q \in Peers
    BY <1>2, EntryPeer, AddressPeer
  <2> HIDE DEF q
  <2>3. IsList(P) /\ DOMAIN P = DOMAIN pending
    BY <2>2 DEF ListInv, IsList
  <2> HIDE DEF P
  <2>4. QED
    BY <1>0, <1>2, <2>1, <2>3, PendingEntry
<1>3. CASE m \notin DOMAIN known /\ m \notin DOMAIN pending
  <2> DEFINE P == try_send_register(pending, m, a)
  <2>1. known' = known /\ pending' = P
    BY <1>3 DEF Probe
  <2>2. IsList(P) /\ DOMAIN P = DOMAIN pending \cup {m}
    BY SendRegister DEF ListInv
  <2> HIDE DEF P
  <2>3. QED
    BY <1>0, <1>3, <2>1, <2>2, PendingEntry
<1>4. QED
  BY <1>1, <1>2, <1>3

\* The answer to a probe comes.
LEMMA ProbeAckList ==
    ASSUME ListInv, NEW m \in Macs, NEW a \in Addrs, ProbeAck(m, a)
    PROVE  ListInv'
<1>0. ran' = ran /\ pending' = pending
  BY DEF ProbeAck
<1>1. CASE m \in DOMAIN known
  <2> DEFINE d == DirectNow(known[m])
             n == NoProbe(d)
             q == [n EXCEPT !.seen = 0, !.fails = 0]
  <2>1. known' = With(known, m, q)
    BY <1>1 DEF ProbeAck
  <2>2. d \in Peers
    BY <1>1, EntryPeer, DirectPeer
  <2> HIDE DEF d
  <2>3. n \in Peers
    BY <2>2, DirectPeer
  <2> HIDE DEF n
  <2>4. q \in Peers
    <3>1. [n EXCEPT !.seen = 0] \in Peers
      BY <2>3, SeenPeer
    <3>2. \A s \in Peers : [s EXCEPT !.fails = 0] \in Peers
      BY Constants DEF Peers, PeerRec
    <3>3. QED
      BY <3>1, <3>2
  <2> HIDE DEF q
  <2>5. QED
    BY <1>0, <1>1, <2>1, <2>4, KnownEntry
<1>2. CASE m \notin DOMAIN known
  BY <1>0, <1>2, SameLists DEF ProbeAck
<1>3. QED
  BY <1>1, <1>2

\* A peer goes from the known peers to the pending ones, or stays there.
LEMMA MovedEntry ==
    ASSUME ListInv, NEW m \in Macs, NEW P, IsList(P), DOMAIN P = DOMAIN pending \cup {m},
           known' = Without(known, m), pending' = P, ran' = ran
    PROVE  ListInv'
<1>1. IsList(Without(known, m)) /\ DOMAIN Without(known, m) = DOMAIN known \ {m}
  BY WithoutList, Zenon DEF ListInv
<1>2. QED
  BY <1>1 DEF ListInv, IsList, OneList

\* The entry is pending, and punched again or not.
LEMMA PunchedList ==
    ASSUME NEW P, IsList(P), NEW m \in Macs, NEW q \in Peers, NEW info \in Infos
    PROVE  \A R \in {With(P, m, q), restart_punch_for_peer(With(P, m, q), m, info)} :
             IsList(R) /\ DOMAIN R = DOMAIN P \cup {m}
<1> DEFINE Q == With(P, m, q)
<1>1. IsList(Q) /\ DOMAIN Q = DOMAIN P \cup {m}
  BY WithList, Zenon
<1> HIDE DEF Q
<1>2. m \in DOMAIN Q
  BY <1>1
<1>3. IsList(restart_punch_for_peer(Q, m, info)) /\ DOMAIN restart_punch_for_peer(Q, m, info) = DOMAIN Q
  BY <1>1, <1>2, RestartPunch, Zenon
<1>4. QED
  BY <1>1, <1>3 DEF Q

\* The supernode says where a peer is (PEER_INFO).
LEMMA PeerInfoList ==
    ASSUME ListInv, NEW m \in Macs, NEW info \in Infos, PeerInfo(m, info)
    PROVE  ListInv'
<1> DEFINE isKnown == m \in DOMAIN known
           moved == /\ isKnown
                    /\ \/ info.a \in V4 /\ known[m].sock \in V4 /\ known[m].sock # info.a
                       \/ info.a6 \in V6 /\ known[m].sock6 \in V6 /\ known[m].sock6 # info.a6
           p == IF moved THEN known[m] ELSE pending[m]
           changed == \/ moved
                      \/ info.a \in V4 /\ p.sock # info.a
                      \/ info.a6 \in V6 /\ p.sock6 # info.a6
           s == [p EXCEPT !.sock = IF info.a \in V4 THEN info.a ELSE p.sock]
           q == Told(s, info)
           Q == With(pending, m, q)
           again == changed /\ (p.direct # Never \/ p.seen <= Active)
           R == IF again THEN restart_punch_for_peer(Q, m, info) ELSE Q
<1>0. ran' = ran /\ info.a \in Addrs
  BY DEF PeerInfo, Infos
<1>1. CASE isKnown /\ ~moved
  <2> DEFINE t == Told(known[m], info)
  <2>1. known' = With(known, m, t) /\ pending' = pending
    BY <1>1, Zenon DEF PeerInfo
  <2>2. t \in Peers
    BY <1>1, EntryPeer, ToldPeer
  <2> HIDE DEF t
  <2>3. QED
    BY <1>0, <1>1, <2>1, <2>2, KnownEntry
<1>2. CASE ~isKnown /\ m \notin DOMAIN pending
  <2> DEFINE f1 == [Fresh EXCEPT !.sock = info.a]
             f == [f1 EXCEPT !.seen = Active + 1]
             t == Told(f, info)
  <2>1. pending' = With(pending, m, t) /\ known' = known
    BY <1>2 DEF PeerInfo
  <2>2. f1 \in Peers
    BY <1>0, FreshPeer, AddressPeer
  <2> HIDE DEF f1
  <2>3. f \in Peers
    BY <2>2, Constants DEF Peers, PeerRec
  <2> HIDE DEF f
  <2>4. t \in Peers
    BY <2>3, ToldPeer
  <2> HIDE DEF t
  <2>5. QED
    BY <1>0, <1>2, <2>1, <2>4, PendingWith
<1>3. CASE moved \/ (~isKnown /\ m \in DOMAIN pending)
  <2>1. known' = Without(known, m) /\ pending' = R
    <3>1. ~(isKnown /\ ~moved) /\ ~(~moved /\ m \notin DOMAIN pending)
      BY <1>3
    <3>2. QED
      BY <3>1, Zenon DEF PeerInfo
  <2>2. p \in Peers
    BY <1>3, EntryPeer
  <2> HIDE DEF moved, p
  <2>3. s \in Peers
    <3>1. p.sock \in Addrs \cup {NoAddr}
      BY <2>2 DEF Peers, PeerRec
    <3>2. QED
      BY <1>0, <2>2, <3>1, AddressPeer
  <2> HIDE DEF s
  <2>4. q \in Peers
    BY <2>3, ToldPeer
  <2> HIDE DEF q
  <2>5. again \in BOOLEAN
    OBVIOUS
  <2> HIDE DEF again
  <2>6. IsList(R) /\ DOMAIN R = DOMAIN pending \cup {m}
    <3>1. R \in {Q, restart_punch_for_peer(Q, m, info)}
      BY <2>5
    <3>2. QED
      BY <2>4, <3>1, PunchedList, ZenonT(60) DEF ListInv
  <2> HIDE DEF R
  <2>7. QED
    BY <1>0, <2>1, <2>6, MovedEntry
<1>4. QED
  BY <1>1, <1>2, <1>3

\* The supernode orders a punch.
LEMMA PunchList ==
    ASSUME ListInv, NEW m \in Macs, NEW info \in Infos, Punch(m, info)
    PROVE  ListInv'
<1> DEFINE p == CASE m \in DOMAIN known   -> known[m]
                  [] m \in DOMAIN pending -> pending[m]
                  [] OTHER                -> Fresh
           q == [p EXCEPT ![Slot(info.a)] = info.a, !.lan = info.local, !.seen = 0]
           r == [q EXCEPT !.sock6 = IF info.a6 \in V6 THEN info.a6 ELSE q.sock6]
           changed == r.sock # p.sock \/ r.sock6 # p.sock6
           running == p.punch # "idle" \/ p.lanStart # Never
           again == changed \/ (~running /\ ~LiveDirect(p))
           Q == With(pending, m, r)
           R == IF again THEN restart_punch_for_peer(Q, m, info) ELSE Q
<1>0. ran' = ran /\ known' = Without(known, m) /\ pending' = R
  BY DEF Punch
<1>1. p \in Peers
  <2>1. CASE m \in DOMAIN known
    BY <2>1, EntryPeer
  <2>2. CASE m \notin DOMAIN known /\ m \in DOMAIN pending
    BY <2>2, EntryPeer
  <2>3. CASE m \notin DOMAIN known /\ m \notin DOMAIN pending
    BY <2>3, FreshPeer
  <2>4. QED
    BY <2>1, <2>2, <2>3
<1> HIDE DEF p
<1>2. q \in Peers
  <2> DEFINE q1 == [p EXCEPT ![Slot(info.a)] = info.a]
             q2 == [q1 EXCEPT !.lan = info.local]
  <2>1. info.a \in Addrs /\ info.local \in BOOLEAN
    BY DEF Infos
  <2>2. q1 \in Peers
    BY <1>1, <2>1, AddressPeer
  <2> HIDE DEF q1
  <2>3. q2 \in Peers
    BY <2>1, <2>2 DEF Peers, PeerRec
  <2> HIDE DEF q2
  <2>4. [q2 EXCEPT !.seen = 0] \in Peers
    BY <2>3, SeenPeer
  <2>5. QED
    BY <2>4 DEF q1, q2
<1> HIDE DEF q
<1>3. r \in Peers
  <2>1. (IF info.a6 \in V6 THEN info.a6 ELSE q.sock6) \in Addrs \cup {NoAddr}
    BY <1>2 DEF Peers, PeerRec, Addrs
  <2>2. QED
    BY <1>2, <2>1, AddressPeer
<1> HIDE DEF r
<1>4. again \in BOOLEAN
  BY DEF LiveDirect
<1> HIDE DEF again
<1>5. IsList(R) /\ DOMAIN R = DOMAIN pending \cup {m}
  <2>1. R \in {Q, restart_punch_for_peer(Q, m, info)}
    BY <1>4
  <2>2. QED
    BY <1>3, <2>1, PunchedList, ZenonT(60) DEF ListInv
<1> HIDE DEF R
<1>6. QED
  BY <1>0, <1>5, MovedEntry

\* A peer unregisters at the supernode.
LEMMA DeregisterList ==
    ASSUME ListInv, NEW m \in Macs, Deregister(m)
    PROVE  ListInv'
<1>1. IsList(Without(known, m)) /\ DOMAIN Without(known, m) = DOMAIN known \ {m}
  BY WithoutList, Zenon DEF ListInv
<1>2. IsList(Without(pending, m)) /\ DOMAIN Without(pending, m) = DOMAIN pending \ {m}
  BY WithoutList, Zenon DEF ListInv
<1>3. known' = Without(known, m) /\ pending' = Without(pending, m) /\ ran' = ran
  BY DEF Deregister
<1>4. QED
  BY <1>1, <1>2, <1>3 DEF ListInv, IsList, OneList

\* A frame is sent: the peer is looked up, or asked for.
LEMMA SendPacketList ==
    ASSUME ListInv, NEW m \in Macs, SendPacket(m)
    PROVE  ListInv'
<1>1. known' = known /\ ran' = ran
  BY DEF SendPacket
<1>2. CASE pending' = pending
  BY <1>1, <1>2, SameLists
<1>3. CASE pending' # pending
  <2>1. m \notin DOMAIN known /\ pending' = With(pending, m, Fresh)
    BY <1>3 DEF SendPacket
  <2>2. QED
    BY <1>1, <2>1, FreshPeer, PendingWith
<1>4. QED
  BY <1>2, <1>3

\* One case per operation.
LEMMA ListStep == ListInv /\ [Next]_vars => ListInv'
<1> SUFFICES ASSUME ListInv, [Next]_vars PROVE ListInv'
  OBVIOUS
<1>1. CASE MainLoop
  BY <1>1, MainLoopList
<1>2. CASE Tick
  BY <1>2, TickList
<1>3. CASE \E m \in Macs : SendPacket(m) \/ Deregister(m) \/ RegisterAckRelayed(m)
  BY <1>3, SendPacketList, DeregisterList, RegisterAckRelayedList
<1>4. CASE \E m \in Macs, a \in Addrs :
             \/ PacketDirect(m, a) \/ RegisterAck(m, a) \/ Probe(m, a) \/ ProbeAck(m, a)
             \/ \E b \in BOOLEAN : Register(m, a, b)
  BY <1>4, PacketDirectList, RegisterAckList, ProbeList, ProbeAckList, RegisterList
<1>5. CASE \E m \in Macs, a \in Addrs \cup {NoAddr}, b \in BOOLEAN : PacketRelayed(m, a, b)
  BY <1>5, PacketRelayedList
<1>6. CASE \E m \in Macs, info \in Infos : PeerInfo(m, info) \/ Punch(m, info)
  BY <1>6, PeerInfoList, PunchList
<1>7. CASE UNCHANGED vars
  BY <1>7, SameLists DEF vars
<1>8. QED
  BY <1>1, <1>2, <1>3, <1>4, <1>5, <1>6, <1>7 DEF Next

\* The inductive invariant gives the one the run checks.
LEMMA PeersAreOK == \A p \in Peers : PeerOK(p)
BY Constants DEF Peers, PeerRec, PeerOK

\* The invariant says what the run checks.
LEMMA ListsFromInv == ListInv => ListsSound
BY PeersAreOK DEF ListInv, ListsSound, TypeOK, IsList

\* A peer is in one of the two lists, and its counters of rounds, retries and
\* unanswered probes stay below their limits, whatever arrives in whatever
\* order (every handler of edge.c that moves an entry between the lists).
THEOREM ListsAreSound == Spec => []ListsSound
<1>1. Init => ListInv
  BY ListInit
<1>2. ListInv /\ [Next]_vars => ListInv'
  BY ListStep
<1>3. ListInv => ListsSound
  BY ListsFromInv
<1>4. QED
  BY <1>1, <1>2, <1>3, PTL DEF Spec

-----------------------------------------------------------------------------
(* Frames go directly only while something may still come back *)

\* CACHE_DST_TTL is 5 seconds and KEEPALIVE_IDLE_SECONDS 8.  With a cache that
\* outlives the idle time the bound is false: a peer that comes back at an
\* address nothing can be sent to, and gets one from the supernode later, then
\* starts its probes late.
CacheShort == CacheTtl < Idle

\* How long a peer may have been silent when n probes were not answered, and
\* when the last one is out.
Budget(n) == Idle + 1 + n * (ProbeSecs + 1)
Bound == Idle + MaxFails * (ProbeSecs + 1)

\* How long frames went to peer p without an answer: b seconds, r telling
\* whether the main loop has come round in this one.  Outside a probe the
\* budget is what the probes so far took; with an answered probe out the idle
\* time runs again; otherwise the probe's own age comes on top.
PathOK(p, b, r) ==
    /\ p.direct < DirectMax => b <= p.direct
    /\ p.probe = Never => b <= Budget(p.fails) /\ (r => b < Budget(p.fails))
    /\ p.probe # Never /\ p.answered => b <= Idle /\ (r => b < Idle)
    /\ p.probe # Never /\ ~p.answered =>
         b <= Budget(p.fails) + p.probe /\ (r /\ p.probe >= ProbeSecs => b < Idle)

\* A known peer: nothing directly received is older than the entry's age, and
\* one without a usable address lives on the cached destination alone.
EntryOK(m, p, b, r, c) ==
    /\ p.seen <= Expiry + 1 /\ (r => p.seen <= Expiry)
    /\ b <= p.seen
    /\ p.direct # Never => PathOK(p, b, r)
    /\ p.direct # Never /\ ~KeepAddr(p) =>
         b <= CacheTtl /\ (c # <<>> /\ c[1].mac = m => b <= c[1].age)

CacheRec == [mac : Macs, sock : Addrs, age : 0 .. CacheTtl - 1]

\* The inductive invariant: every known peer, and the cached destination.
FreshInv ==
    /\ blind \in [Macs -> Nat]
    /\ \A m \in DOMAIN known : EntryOK(m, known[m], blind[m], ran, cache)
    /\ cache # <<>> => /\ 1 \in DOMAIN cache /\ cache[1] \in CacheRec
                       /\ blind[cache[1].mac] <= Bound + cache[1].age

\* The arithmetic of the budgets: one more failure costs a probe and a second,
\* and the last one that is allowed stays within the bound.
LEMMA Budgets ==
    /\ \A n \in Nat : /\ Budget(n) \in Nat /\ Budget(n) > Idle
                      /\ Budget(n + 1) = Budget(n) + ProbeSecs + 1
    /\ Budget(0) = Idle + 1
    /\ Bound \in Nat /\ Patience = Bound + CacheTtl - 1
    /\ \A n \in 0 .. MaxFails - 1 : Budget(n) + ProbeSecs <= Bound
<1>0. Idle \in Nat /\ ProbeSecs \in Nat /\ MaxFails \in Nat /\ MaxFails > 0 /\ CacheTtl \in Nat
  BY Constants
<1> DEFINE s == ProbeSecs + 1
<1>1. s \in Nat /\ s > 0
  BY <1>0
<1>2. \A n \in Nat : n * s \in Nat /\ (n + 1) * s = n * s + s
  BY <1>1
<1>3. \A n \in 0 .. MaxFails - 1 : n * s + s <= MaxFails * s
  <2> SUFFICES ASSUME NEW n \in 0 .. MaxFails - 1 PROVE n * s + s <= MaxFails * s
    OBVIOUS
  <2>1. PICK k \in Nat : MaxFails = n + 1 + k
    <3>1. MaxFails - n - 1 \in Nat /\ MaxFails = n + 1 + (MaxFails - n - 1)
      BY <1>0
    <3>2. QED
      BY <3>1
  <2>2. MaxFails * s = n * s + s + k * s
    BY <1>1, <2>1
  <2>3. k * s \in Nat /\ n * s \in Nat
    BY <1>2
  <2>4. QED
    BY <1>1, <2>2, <2>3
<1>4. \A n \in Nat : Budget(n) = Idle + 1 + n * s
  BY DEF Budget
<1>5. Bound = Idle + MaxFails * s /\ Patience = Idle + MaxFails * s + CacheTtl - 1
  BY DEF Bound, Patience
<1>6. 0 * s = 0 /\ MaxFails * s \in Nat
  BY <1>0, <1>1, <1>2
<1>7. s = ProbeSecs + 1
  OBVIOUS
<1> HIDE DEF s
<1>8. QED
  BY <1>0, <1>1, <1>2, <1>3, <1>4, <1>5, <1>6, <1>7

\* Just after something of the peer arrived.
LEMMA ZeroEntry ==
    ASSUME CacheShort, NEW m, NEW p \in Peers, NEW r \in BOOLEAN, NEW c,
           p.seen <= Expiry + 1, r => p.seen <= Expiry,
           c # <<>> => c[1] \in CacheRec
    PROVE  EntryOK(m, p, 0, r, c)
<1>1. /\ p.seen \in Nat /\ p.fails \in Nat /\ p.direct \in Nat \cup {Never}
      /\ p.probe \in Nat \cup {Never}
  BY Constants DEF Peers, PeerRec
<1>2. Budget(p.fails) \in Nat /\ Budget(p.fails) > Idle /\ Idle \in Nat /\ Idle > 0 /\ CacheTtl \in Nat
  <2>1. Budget(p.fails) \in Nat /\ Budget(p.fails) > Idle
    BY <1>1, Budgets
  <2>2. Idle \in Nat /\ Idle > 0 /\ CacheTtl \in Nat
    BY Constants
  <2>3. QED
    BY <2>1, <2>2
<1>3. c # <<>> => c[1].age \in Nat
  BY Constants DEF CacheRec
<1>4. p.direct # Never => PathOK(p, 0, r)
  BY <1>1, <1>2 DEF PathOK, Never
<1>5. QED
  BY <1>1, <1>2, <1>3, <1>4 DEF EntryOK

\* Something of peer m arrives, and no other entry changes.
LEMMA HeardStep ==
    ASSUME CacheShort, ListInv, ListInv', FreshInv,
           NEW m \in Macs, Heard(m), ran' = ran, cache' = cache \/ cache' = <<>>,
           DOMAIN known' \subseteq DOMAIN known \cup {m},
           \A n \in DOMAIN known' : n # m => known'[n] = known[n],
           m \in DOMAIN known' =>
              \/ known'[m].seen = 0
              \/ m \in DOMAIN known /\ known'[m].seen = known[m].seen
    PROVE  FreshInv'
<1>1. blind' = [blind EXCEPT ![m] = 0] /\ blind \in [Macs -> Nat]
  BY DEF Heard, FreshInv
<1>2. blind' \in [Macs -> Nat] /\ blind'[m] = 0 /\ \A n \in Macs : n # m => blind'[n] = blind[n]
  BY <1>1
<1>3. cache' # <<>> => cache' = cache
  OBVIOUS
<1>4. ASSUME NEW n \in DOMAIN known'
      PROVE  EntryOK(n, known'[n], blind'[n], ran', cache')
  <2>0. known'[n] \in Peers /\ n \in Macs /\ ran \in BOOLEAN
    BY DEF ListInv, IsList
  <2>1. CASE n = m
    <3>1. known'[n].seen <= Expiry + 1 /\ (ran => known'[n].seen <= Expiry)
      BY <2>1, Constants DEF FreshInv, EntryOK
    <3>2. cache' # <<>> => cache'[1] \in CacheRec
      BY <1>3 DEF FreshInv
    <3>3. EntryOK(n, known'[n], 0, ran', cache')
      BY <2>0, <3>1, <3>2, ZeroEntry
    <3>4. QED
      BY <1>2, <2>1, <3>3
  <2>2. CASE n # m
    <3>1. n \in DOMAIN known /\ known'[n] = known[n] /\ blind'[n] = blind[n]
      BY <1>2, <2>0, <2>2
    <3>2. EntryOK(n, known[n], blind[n], ran, cache)
      BY <3>1 DEF FreshInv
    <3>3. QED
      BY <1>3, <3>1, <3>2 DEF EntryOK
  <2>3. QED
    BY <2>1, <2>2
<1>5. cache' # <<>> => /\ 1 \in DOMAIN cache' /\ cache'[1] \in CacheRec
                       /\ blind'[cache'[1].mac] <= Bound + cache'[1].age
  <2> SUFFICES ASSUME cache' # <<>>
               PROVE  /\ 1 \in DOMAIN cache' /\ cache'[1] \in CacheRec
                      /\ blind'[cache'[1].mac] <= Bound + cache'[1].age
    OBVIOUS
  <2>1. /\ cache' = cache /\ 1 \in DOMAIN cache /\ cache[1] \in CacheRec
        /\ blind[cache[1].mac] <= Bound + cache[1].age
    BY <1>3 DEF FreshInv
  <2>2. cache[1].mac \in Macs /\ cache[1].age \in Nat
    BY <2>1, Constants DEF CacheRec
  <2>3. 0 <= Bound + cache[1].age
    <3>1. Bound \in Nat
      BY Budgets
    <3>2. QED
      BY <2>2, <3>1
  <2>4. QED
    BY <1>2, <2>1, <2>2, <2>3
<1>6. QED
  BY <1>2, <1>4, <1>5 DEF FreshInv

\* Nothing is heard of anyone, no time passes, and entries are left alone,
\* removed, or changed in what does not matter.
LEMMA UnheardStep ==
    ASSUME ListInv, ListInv', FreshInv,
           blind' = blind, ran' = ran, cache' = cache \/ cache' = <<>>,
           DOMAIN known' \subseteq DOMAIN known,
           \A n \in DOMAIN known' : EntryOK(n, known'[n], blind[n], ran, cache)
    PROVE  FreshInv'
<1>1. \A n \in DOMAIN known' : EntryOK(n, known'[n], blind'[n], ran', cache')
  BY DEF EntryOK
<1>2. QED
  BY <1>1 DEF FreshInv

\* Nobody was heard of, and no peer was added: freshness stays.
LEMMA UnheardSame ==
    ASSUME ListInv, ListInv', FreshInv,
           blind' = blind, ran' = ran, cache' = cache \/ cache' = <<>>,
           DOMAIN known' \subseteq DOMAIN known,
           \A n \in DOMAIN known' : known'[n] = known[n]
    PROVE  FreshInv'
<1>1. \A n \in DOMAIN known' : EntryOK(n, known'[n], blind[n], ran, cache)
  BY DEF FreshInv
<1>2. QED
  BY <1>1, UnheardStep

\* The two usual forms of HeardStep.
LEMMA HeardWith ==
    ASSUME CacheShort, ListInv, ListInv', FreshInv,
           NEW m \in Macs, Heard(m), ran' = ran, cache' = cache \/ cache' = <<>>,
           NEW q, known' = With(known, m, q),
           q.seen = 0 \/ (m \in DOMAIN known /\ q.seen = known[m].seen)
    PROVE  FreshInv'
<1>1. /\ DOMAIN known' = DOMAIN known \cup {m} /\ known'[m] = q
      /\ \A n \in DOMAIN known : n # m => known'[n] = known[n]
  BY DEF With
<1>2. \A n \in DOMAIN known' : n # m => known'[n] = known[n]
  BY <1>1
<1>3. QED
  BY <1>1, <1>2, HeardStep

\* A peer was heard of, and the records are the same.
LEMMA HeardSame ==
    ASSUME CacheShort, ListInv, ListInv', FreshInv,
           NEW m \in Macs, Heard(m), ran' = ran, cache' = cache \/ cache' = <<>>,
           known' = known
    PROVE  FreshInv'
BY HeardStep

\* One lemma per operation.
LEMMA PacketDirectFresh ==
    ASSUME CacheShort, ListInv, ListInv', FreshInv, NEW m \in Macs, NEW a \in Addrs,
           PacketDirect(m, a)
    PROVE  FreshInv'
<1> DEFINE Live(p) == [NoProbe(DirectNow(p)) EXCEPT !.fails = 0]
           Moved(p) == \/ p.sock \in V4 /\ p.sock # a /\ a \in V4
                       \/ p.sock6 \in V6 /\ a \in V6 /\ (IF p.sock \in V4 THEN p.sock ELSE p.sock6) # a
<1>0. ran' = ran /\ Heard(m) /\ (cache' = cache \/ cache' = <<>>)
  BY DEF PacketDirect
<1>1. CASE m \in DOMAIN known
  <2> DEFINE p == Live(known[m])
             q == IF Moved(p) THEN update_peer_address(p, a) ELSE [p EXCEPT !.seen = 0]
  <2>1. known' = With(known, m, q)
    BY <1>1, Zenon DEF PacketDirect
  <2>2. p \in Peers /\ p.seen = known[m].seen
    BY <1>1, EntryPeer, LivePeer
  <2> HIDE DEF p
  <2>3. q.seen = 0 \/ q.seen = p.seen
    <3>1. [p EXCEPT !.seen = 0].seen = 0
      BY <2>2 DEF Peers, PeerRec
    <3>2. QED
      BY <2>2, <3>1, UpdatePeer
  <2> HIDE DEF q
  <2>4. QED
    BY <1>0, <1>1, <2>1, <2>2, <2>3, HeardWith
<1>2. CASE m \notin DOMAIN known
  <2>1. known' = known
    BY <1>2 DEF PacketDirect
  <2>2. QED
    BY <1>0, <2>1, HeardSame
<1>3. QED
  BY <1>1, <1>2

\* A relayed frame keeps freshness: only one for us counts as a sign of life.
LEMMA PacketRelayedFresh ==
    ASSUME CacheShort, ListInv, ListInv', FreshInv,
           NEW m \in Macs, NEW a \in Addrs \cup {NoAddr}, NEW forUs \in BOOLEAN,
           PacketRelayed(m, a, forUs)
    PROVE  FreshInv'
<1> DEFINE q == Relayed(known[m], a, forUs)
<1>0. /\ ran' = ran /\ cache' = cache
      /\ known' = IF m \in DOMAIN known THEN With(known, m, q) ELSE known
      /\ blind' = IF forUs THEN [blind EXCEPT ![m] = 0] ELSE blind
  BY Zenon DEF PacketRelayed
<1>1. CASE m \in DOMAIN known
  <2>0. known[m] \in Peers
    BY <1>1, EntryPeer
  <2>1. /\ q \in Peers /\ q.direct = known[m].direct
        /\ q.seen = IF forUs THEN 0 ELSE known[m].seen
        /\ known[m].direct # Never /\ ~forUs => q = known[m]
    BY <2>0, RelayedPeer
  <2> HIDE DEF q
  <2>2. known' = With(known, m, q)
    BY <1>0, <1>1
  <2>3. CASE forUs
    <3>1. Heard(m)
      BY <1>0, <2>3 DEF Heard
    <3>2. QED
      BY <1>0, <2>1, <2>2, <2>3, <3>1, HeardWith
  <2>4. CASE ~forUs
    <3>1. EntryOK(m, known[m], blind[m], ran, cache)
      BY <1>1 DEF FreshInv
    <3>2. EntryOK(m, q, blind[m], ran, cache)
      <4>1. CASE known[m].direct # Never
        BY <2>1, <2>4, <3>1, <4>1
      <4>2. CASE known[m].direct = Never
        BY <2>1, <2>4, <3>1, <4>2 DEF EntryOK
      <4>3. QED
        BY <4>1, <4>2
    <3>3. /\ DOMAIN known' = DOMAIN known /\ known'[m] = q
          /\ \A n \in DOMAIN known : n # m => known'[n] = known[n]
      BY <1>1, <2>2 DEF With
    <3>4. \A n \in DOMAIN known' : EntryOK(n, known'[n], blind[n], ran, cache)
      BY <3>2, <3>3 DEF FreshInv
    <3>5. QED
      BY <1>0, <2>4, <3>3, <3>4, UnheardStep
  <2>5. QED
    BY <2>3, <2>4
<1>2. CASE m \notin DOMAIN known
  <2>1. known' = known
    BY <1>0, <1>2
  <2>2. CASE forUs
    BY <1>0, <2>1, <2>2, HeardSame DEF Heard
  <2>3. CASE ~forUs
    BY <1>0, <2>1, <2>3, UnheardSame
  <2>4. QED
    BY <2>2, <2>3
<1>3. QED
  BY <1>1, <1>2

\* A REGISTER keeps freshness.
LEMMA RegisterFresh ==
    ASSUME CacheShort, ListInv, ListInv', FreshInv,
           NEW m \in Macs, NEW a \in Addrs, NEW withLan \in BOOLEAN, Register(m, a, withLan)
    PROVE  FreshInv'
<1>0. ran' = ran /\ Heard(m) /\ cache' = cache
  BY DEF Register
<1>1. CASE m \in DOMAIN known
  <2> DEFINE p == known[m]
             slot == IF p.sock \in V4 THEN "sock" ELSE "sock6"
             q == [p EXCEPT ![slot] = a, !.seen = 0]
  <2>1. known' = With(known, m, q) \/ known' = known
    BY <1>1 DEF Register
  <2>2. p \in Peers
    BY <1>1, EntryPeer
  <2> HIDE DEF p
  <2>3. q.seen = 0
    BY <2>2 DEF Peers, PeerRec
  <2> HIDE DEF q
  <2>4. QED
    BY <1>0, <2>1, <2>3, HeardWith, HeardSame
<1>2. CASE m \notin DOMAIN known
  <2>1. known' = known
    BY <1>2 DEF Register
  <2>2. QED
    BY <1>0, <2>1, HeardSame
<1>3. QED
  BY <1>1, <1>2

\* A REGISTER_ACK keeps it: the promoted peer was just heard.
LEMMA RegisterAckFresh ==
    ASSUME CacheShort, ListInv, ListInv', FreshInv,
           NEW m \in Macs, NEW a \in Addrs, RegisterAck(m, a)
    PROVE  FreshInv'
<1>0. ran' = ran /\ Heard(m) /\ cache' = cache /\ set_peer_operational(m, a)
  BY DEF RegisterAck
<1>1. CASE m \in DOMAIN pending
  <2> DEFINE q == OperationalPeer(pending[m], a)
  <2>1. known' = With(known, m, q)
    BY <1>0, <1>1, Zenon DEF set_peer_operational, OperationalPeer
  <2>2. q.seen = 0
    BY <1>1, EntryPeer, OperationalEntry
  <2> HIDE DEF q
  <2>3. QED
    BY <1>0, <2>1, <2>2, HeardWith
<1>2. CASE m \notin DOMAIN pending
  <2> DEFINE q == [known[m] EXCEPT !.sock = a, !.sock6 = NoAddr, !.seen = 0]
  <2>1. known' = known \/ (m \in DOMAIN known /\ known' = With(known, m, q))
    BY <1>0, <1>2 DEF set_peer_operational
  <2>2. CASE known' = known
    BY <1>0, <2>2, HeardSame
  <2>3. CASE m \in DOMAIN known /\ known' = With(known, m, q)
    <3>1. known[m] \in Peers
      BY <2>3, EntryPeer
    <3>2. q.seen = 0
      BY <3>1 DEF Peers, PeerRec
    <3> HIDE DEF q
    <3>3. QED
      BY <1>0, <2>3, <3>2, HeardWith
  <2>4. QED
    BY <2>1, <2>2, <2>3
<1>3. QED
  BY <1>1, <1>2

\* A probe keeps it.
LEMMA ProbeFresh ==
    ASSUME CacheShort, ListInv, ListInv', FreshInv,
           NEW m \in Macs, NEW a \in Addrs, Probe(m, a)
    PROVE  FreshInv'
<1>0. ran' = ran /\ Heard(m) /\ cache' = cache
  BY DEF Probe
<1>1. CASE m \in DOMAIN known
  <2> DEFINE d == DirectNow(known[m])
             q == [d EXCEPT !.seen = 0]
  <2>1. known' = With(known, m, q)
    BY <1>1 DEF Probe
  <2>2. d \in Peers
    BY <1>1, EntryPeer, DirectPeer
  <2> HIDE DEF d
  <2>3. q.seen = 0
    BY <2>2 DEF Peers, PeerRec
  <2> HIDE DEF q
  <2>4. QED
    BY <1>0, <2>1, <2>3, HeardWith
<1>2. CASE m \notin DOMAIN known
  <2>1. known' = known
    BY <1>2 DEF Probe
  <2>2. QED
    BY <1>0, <2>1, HeardSame
<1>3. QED
  BY <1>1, <1>2

\* The answer to a probe keeps it.
LEMMA ProbeAckFresh ==
    ASSUME CacheShort, ListInv, ListInv', FreshInv,
           NEW m \in Macs, NEW a \in Addrs, ProbeAck(m, a)
    PROVE  FreshInv'
<1>0. ran' = ran /\ Heard(m) /\ cache' = cache
  BY DEF ProbeAck
<1>1. CASE m \in DOMAIN known
  <2> DEFINE n == NoProbe(DirectNow(known[m]))
             q == [n EXCEPT !.seen = 0, !.fails = 0]
  <2>1. known' = With(known, m, q)
    BY <1>1 DEF ProbeAck
  <2>2. n \in Peers
    BY <1>1, EntryPeer, DirectPeer
  <2> HIDE DEF n
  <2>3. q.seen = 0
    BY <2>2 DEF Peers, PeerRec
  <2> HIDE DEF q
  <2>4. QED
    BY <1>0, <2>1, <2>3, HeardWith
<1>2. CASE m \notin DOMAIN known
  BY <1>0, <1>2, HeardSame DEF ProbeAck
<1>3. QED
  BY <1>1, <1>2

\* A relayed REGISTER_ACK keeps it: no peer becomes direct by it.
LEMMA RegisterAckRelayedFresh ==
    ASSUME ListInv, ListInv', FreshInv, NEW m \in Macs, RegisterAckRelayed(m)
    PROVE  FreshInv'
BY UnheardSame DEF RegisterAckRelayed

\* An entry that leaves the known peers takes its obligations with it.
LEMMA RemovedFresh ==
    ASSUME ListInv, ListInv', FreshInv, NEW m \in Macs,
           known' = Without(known, m), blind' = blind, ran' = ran,
           cache' = cache \/ cache' = <<>>
    PROVE  FreshInv'
<1>1. DOMAIN known' \subseteq DOMAIN known /\ \A n \in DOMAIN known' : known'[n] = known[n]
  BY DEF Without, Restrict
<1>2. QED
  BY <1>1, UnheardSame

\* So does PEER_INFO.
LEMMA PeerInfoFresh ==
    ASSUME ListInv, ListInv', FreshInv, NEW m \in Macs, NEW info \in Infos, PeerInfo(m, info)
    PROVE  FreshInv'
<1> DEFINE t == Told(known[m], info)
<1>0. blind' = blind /\ ran' = ran /\ (cache' = cache \/ cache' = <<>>)
  BY DEF PeerInfo
<1>1. \/ m \in DOMAIN known /\ known' = With(known, m, t)
      \/ known' = known
      \/ known' = Without(known, m)
  BY DEF PeerInfo
<1>2. CASE m \in DOMAIN known /\ known' = With(known, m, t)
  <2>1. known[m] \in Peers /\ EntryOK(m, known[m], blind[m], ran, cache)
    BY <1>2, EntryPeer DEF FreshInv
  <2>2. /\ t.direct = known[m].direct /\ t.seen = known[m].seen
        /\ t.probe = known[m].probe /\ t.fails = known[m].fails
        /\ t.answered = known[m].answered
        /\ KeepAddr(known[m]) => KeepAddr(t)
    BY <2>1, ToldPeer
  <2> HIDE DEF t
  <2>3. EntryOK(m, t, blind[m], ran, cache)
    BY <2>1, <2>2 DEF EntryOK, PathOK
  <2>4. /\ DOMAIN known' = DOMAIN known /\ known'[m] = t
        /\ \A n \in DOMAIN known : n # m => known'[n] = known[n]
    BY <1>2 DEF With
  <2>5. \A n \in DOMAIN known' : EntryOK(n, known'[n], blind[n], ran, cache)
    BY <2>3, <2>4 DEF FreshInv
  <2>6. QED
    BY <1>0, <2>4, <2>5, UnheardStep
<1>3. CASE known' = known
  BY <1>0, <1>3, UnheardSame
<1>4. CASE known' = Without(known, m)
  BY <1>0, <1>4, RemovedFresh
<1>5. QED
  BY <1>1, <1>2, <1>3, <1>4

\* So does the order to punch.
LEMMA PunchFresh ==
    ASSUME ListInv, ListInv', FreshInv, NEW m \in Macs, NEW info \in Infos, Punch(m, info)
    PROVE  FreshInv'
BY RemovedFresh DEF Punch

\* So does a peer that unregisters.
LEMMA DeregisterFresh ==
    ASSUME ListInv, ListInv', FreshInv, NEW m \in Macs, Deregister(m)
    PROVE  FreshInv'
BY RemovedFresh DEF Deregister

\* A peer that frames go to directly is within the bound.
LEMMA DirectPath ==
    ASSUME CacheShort, ListInv, FreshInv, NEW m \in Macs, find_peer_destination(m) # NoAddr
    PROVE  /\ m \in DOMAIN known /\ KeepAddr(known[m]) /\ known[m].direct # Never
           /\ find_peer_destination(m) \in Addrs
           /\ blind[m] <= Bound
<1>1. /\ m \in DOMAIN known /\ KeepAddr(known[m]) /\ known[m].direct # Never
      /\ find_peer_destination(m) \in Addrs
  BY DEF find_peer_destination, KeepAddr, Addrs
<1> DEFINE p == known[m]
           b == blind[m]
<1>2. /\ p.fails \in 0 .. MaxFails - 1 /\ p.probe \in {Never} \cup 0 .. ProbeSecs
      /\ b \in Nat /\ PathOK(p, b, ran) /\ ran \in BOOLEAN
  BY <1>1, EntryPeer DEF FreshInv, EntryOK, Peers, PeerRec, ListInv
<1>3. /\ Budget(p.fails) \in Nat /\ Budget(p.fails) > Idle /\ Budget(p.fails) + ProbeSecs <= Bound
  <2>1. p.fails \in Nat
    BY <1>2, Constants
  <2>2. QED
    BY <1>2, <2>1, Budgets
<1> HIDE DEF p, b
<1>4. ProbeSecs \in Nat /\ Bound \in Nat /\ Idle \in Nat
  BY Constants, Budgets
<1>5. b <= Bound
  BY <1>2, <1>3, <1>4 DEF PathOK, Never
<1>6. QED
  BY <1>1, <1>5 DEF b

\* The inductive invariant gives the one the run checks.
LEMMA FreshFromInv ==
    ASSUME CacheShort, ListInv, FreshInv
    PROVE  DirectOnlyFresh
<1> SUFFICES ASSUME NEW m \in Macs, Dest(m) # NoAddr
             PROVE  blind[m] <= Patience
  BY DEF DirectOnlyFresh
<1>1. CASE CacheHit(m)
  <2>1. cache[1] \in CacheRec /\ blind[m] <= Bound + cache[1].age /\ blind[m] \in Nat
    BY <1>1 DEF FreshInv, CacheHit
  <2>2. cache[1].age \in Nat /\ cache[1].age <= CacheTtl - 1
    BY <2>1, Constants DEF CacheRec
  <2>3. Bound \in Nat /\ Patience = Bound + CacheTtl - 1 /\ CacheTtl \in Nat
    BY Constants, Budgets
  <2>4. QED
    BY <2>1, <2>2, <2>3
<1>2. CASE ~CacheHit(m)
  <2>1. find_peer_destination(m) # NoAddr
    BY <1>2 DEF Dest
  <2>2. blind[m] <= Bound /\ blind[m] \in Nat
    BY <2>1, DirectPath DEF FreshInv
  <2>3. Bound \in Nat /\ Patience = Bound + CacheTtl - 1
    BY Budgets
  <2>4. CacheTtl \in Nat /\ CacheTtl >= 1
    BY Constants
  <2>5. QED
    BY <2>2, <2>3, <2>4
<1>3. QED
  BY <1>1, <1>2

\* A frame that is sent: a cached destination is younger than an idle peer.
LEMMA SendPacketFresh ==
    ASSUME CacheShort, ListInv, ListInv', FreshInv, NEW m \in Macs, SendPacket(m)
    PROVE  FreshInv'
<1>0. known' = known /\ blind' = blind /\ ran' = ran
  BY DEF SendPacket
<1>1. CASE ~CacheHit(m) /\ Dest(m) # NoAddr
  <2> DEFINE c == [mac |-> m, sock |-> Dest(m), age |-> 0]
  <2>1. cache' = <<c>> /\ Dest(m) = find_peer_destination(m)
    BY <1>1 DEF SendPacket, Dest
  <2>2. /\ m \in DOMAIN known /\ KeepAddr(known[m]) /\ Dest(m) \in Addrs
        /\ blind[m] <= Bound
    BY <1>1, <2>1, DirectPath
  <2>3. c \in CacheRec /\ c.mac = m /\ c.age = 0
    BY <2>2, Constants DEF CacheRec
  <2> HIDE DEF c
  <2>4. 1 \in DOMAIN cache' /\ cache'[1] = c
    BY <2>1
  <2>5. \A n \in DOMAIN known' : EntryOK(n, known'[n], blind'[n], ran', cache')
    BY <1>0, <2>2, <2>3, <2>4 DEF FreshInv, EntryOK
  <2>6. blind'[cache'[1].mac] <= Bound + cache'[1].age
    <3>1. cache'[1].mac = m /\ cache'[1].age = 0 /\ blind'[m] <= Bound
      BY <1>0, <2>2, <2>3, <2>4
    <3>2. Bound \in Nat
      BY Budgets
    <3>3. QED
      BY <3>1, <3>2
  <2>7. QED
    BY <1>0, <2>3, <2>4, <2>5, <2>6 DEF FreshInv
<1>2. CASE ~(~CacheHit(m) /\ Dest(m) # NoAddr)
  <2>1. cache' = cache
    BY <1>2 DEF SendPacket
  <2>2. QED
    BY <1>0, <2>1, UnheardSame
<1>3. QED
  BY <1>1, <1>2

\* The limits of the ages lie beyond what they are compared with.
LEMMA Ages ==
    /\ DirectMax \in Nat /\ DirectMax > Idle
    /\ SeenMax \in Nat /\ SeenMax > Expiry
    /\ Patience \in Nat
<1>1. Total \in Nat /\ Total >= Idle
  BY Constants DEF Total
<1>2. DirectMax \in Nat /\ DirectMax > Idle
  BY <1>1, Constants DEF DirectMax, AtLeast
<1>3. SeenMax \in Nat /\ SeenMax > Expiry
  BY Constants DEF SeenMax, AtLeast
<1>4. Bound \in Nat /\ Patience = Bound + CacheTtl - 1
  BY Budgets
<1>5. CacheTtl \in Nat /\ CacheTtl >= 1
  BY Constants
<1>6. QED
  BY <1>2, <1>3, <1>4, <1>5

\* check_keepalive keeps an entry's bounds, and closes its second.
LEMMA KeepaliveEntry ==
    ASSUME CacheShort, NEW m, NEW p \in Peers, NEW b \in Nat, NEW r \in BOOLEAN, NEW c,
           EntryOK(m, p, b, r, c), check_keepalive(p).seen <= Expiry
    PROVE  EntryOK(m, check_keepalive(p), b, TRUE, c)
<1> DEFINE q == check_keepalive(p)
<1>0. /\ p.seen \in Nat /\ p.fails \in Nat /\ p.direct \in Nat \cup {Never}
      /\ p.probe \in {Never} \cup 0 .. ProbeSecs
  BY Constants DEF Peers, PeerRec
<1>1. /\ Budget(p.fails) \in Nat /\ Budget(p.fails) > Idle
      /\ Budget(p.fails + 1) = Budget(p.fails) + ProbeSecs + 1
      /\ Budget(0) = Idle + 1
  BY <1>0, Budgets
<1>2. /\ Idle \in Nat /\ Idle > 0 /\ ProbeSecs \in Nat /\ ProbeSecs > 0
      /\ CacheTtl \in Nat /\ CacheTtl < Idle
  BY Constants DEF CacheShort
<1>3. /\ q \in Peers
      /\ q.sock = p.sock /\ q.sock6 = p.sock6 /\ q.seen = p.seen
      /\ \/ q.direct = Never
         \/ /\ q = p
            /\ \/ p.direct < Idle \/ p.seen < Idle \/ ~KeepAddr(p)
               \/ p.probe # Never /\ ~p.answered /\ p.probe < ProbeSecs
         \/ /\ p.probe = Never
            /\ q.direct = p.direct /\ q.probe = 0 /\ ~q.answered /\ q.fails = p.fails
         \/ /\ p.probe # Never /\ p.answered
            /\ q.direct = p.direct /\ q.probe = Never /\ q.fails = 0
         \/ /\ p.probe # Never /\ ~p.answered /\ p.probe >= ProbeSecs
            /\ q.direct = p.direct /\ q.probe = Never /\ q.fails = p.fails + 1
  BY KeepaliveStep
<1>4. q.seen <= Expiry
  OBVIOUS
<1> HIDE DEF q
<1>5. KeepAddr(q) <=> KeepAddr(p)
  BY <1>3 DEF KeepAddr
<1>6. q.direct # Never => q.direct = p.direct
  BY <1>3
<1>7. ASSUME q.direct # Never
      PROVE  PathOK(q, b, TRUE)
  <2>0. PathOK(p, b, r) /\ p.direct # Never /\ b <= p.seen /\ (~KeepAddr(p) => b <= CacheTtl)
    BY <1>6, <1>7 DEF EntryOK
  <2>1. CASE b < Idle /\ q = p
    BY <1>0, <1>1, <1>2, <2>0, <2>1 DEF PathOK, Never
  <2>2. CASE q = p /\ (p.direct < Idle \/ p.seen < Idle \/ ~KeepAddr(p))
    <3>1. b < Idle
      BY <1>0, <1>2, <2>0, <2>2, Ages DEF PathOK, Never
    <3>2. QED
      BY <2>1, <2>2, <3>1
  <2>3. CASE q = p /\ p.probe # Never /\ ~p.answered /\ p.probe < ProbeSecs
    BY <1>0, <1>2, <2>0, <2>3 DEF PathOK, Never
  <2>4. CASE /\ p.probe = Never
             /\ q.direct = p.direct /\ q.probe = 0 /\ ~q.answered /\ q.fails = p.fails
    BY <1>0, <1>1, <1>2, <2>0, <2>4 DEF PathOK, Never
  <2>5. CASE /\ p.probe # Never /\ p.answered
             /\ q.direct = p.direct /\ q.probe = Never /\ q.fails = 0
    BY <1>0, <1>1, <1>2, <2>0, <2>5 DEF PathOK, Never
  <2>6. CASE /\ p.probe # Never /\ ~p.answered /\ p.probe >= ProbeSecs
             /\ q.direct = p.direct /\ q.probe = Never /\ q.fails = p.fails + 1
    BY <1>0, <1>1, <1>2, <2>0, <2>6 DEF PathOK, Never
  <2>7. QED
    BY <1>3, <1>7, <2>2, <2>3, <2>4, <2>5, <2>6
<1>8. EntryOK(m, q, b, TRUE, c)
  <2>1. b <= q.seen
    BY <1>3 DEF EntryOK
  <2>2. q.seen <= Expiry + 1
    BY <1>0, <1>3, <1>4, Constants
  <2>3. q.direct # Never /\ ~KeepAddr(q) => b <= CacheTtl /\ (c # <<>> /\ c[1].mac = m => b <= c[1].age)
    BY <1>5, <1>6 DEF EntryOK
  <2>4. QED
    BY <1>4, <1>7, <2>1, <2>2, <2>3 DEF EntryOK
<1>9. QED
  BY <1>8 DEF q

\* The main loop: who was not heard in time is no longer direct.
LEMMA MainLoopFresh ==
    ASSUME CacheShort, ListInv, ListInv', FreshInv, MainLoop
    PROVE  FreshInv'
<1> DEFINE K == [m \in DOMAIN known |-> check_keepalive(known[m])]
<1>1. /\ known' = Purge(K, Expiry) /\ ran' = TRUE /\ cache' = cache /\ blind' = blind
  BY DEF MainLoop
<1>2. \A n \in DOMAIN known' : /\ n \in DOMAIN known
                               /\ known'[n] = check_keepalive(known[n])
                               /\ check_keepalive(known[n]).seen <= Expiry
  <2>1. /\ DOMAIN K = DOMAIN known
        /\ \A n \in DOMAIN known : K[n] = check_keepalive(known[n])
    OBVIOUS
  <2> HIDE DEF K
  <2>2. /\ DOMAIN known' = {n \in DOMAIN K : K[n].seen <= Expiry}
        /\ \A n \in DOMAIN known' : known'[n] = K[n]
    BY <1>1 DEF Purge, Restrict
  <2>3. QED
    BY <2>1, <2>2
<1>3. \A n \in DOMAIN known' : EntryOK(n, known'[n], blind[n], TRUE, cache)
  <2> SUFFICES ASSUME NEW n \in DOMAIN known'
               PROVE  EntryOK(n, known'[n], blind[n], TRUE, cache)
    OBVIOUS
  <2>1. /\ n \in DOMAIN known /\ known'[n] = check_keepalive(known[n])
        /\ check_keepalive(known[n]).seen <= Expiry
    BY <1>2
  <2>2. /\ known[n] \in Peers /\ n \in Macs /\ blind[n] \in Nat /\ ran \in BOOLEAN
        /\ EntryOK(n, known[n], blind[n], ran, cache)
    BY <2>1, EntryPeer DEF FreshInv, ListInv
  <2>3. EntryOK(n, check_keepalive(known[n]), blind[n], TRUE, cache)
    BY <2>1, <2>2, KeepaliveEntry
  <2>4. QED
    BY <2>1, <2>3
<1>4. QED
  BY <1>1, <1>3 DEF FreshInv

\* A second passes for an entry to which frames go.
LEMMA AgedEntry ==
    ASSUME NEW m, NEW p \in Peers, NEW b \in Nat, NEW d \in Nat, NEW c, NEW e,
           EntryOK(m, p, b, TRUE, c), d <= b + 1,
           p.direct # Never /\ ~KeepAddr(p) =>
              d <= CacheTtl /\ (e # <<>> /\ e[1].mac = m => d <= e[1].age)
    PROVE  EntryOK(m, Aged(p), d, FALSE, e)
<1> DEFINE q == Aged(p)
<1>0. /\ p.seen \in Nat /\ p.fails \in Nat /\ p.direct \in Nat \cup {Never}
      /\ p.probe \in {Never} \cup 0 .. ProbeSecs
  BY Constants DEF Peers, PeerRec
<1>1. /\ Budget(p.fails) \in Nat /\ Budget(p.fails) > Idle
  BY <1>0, Budgets
<1>2. Idle \in Nat /\ Idle > 0 /\ ProbeSecs \in Nat /\ ProbeSecs > 0 /\ Expiry \in Nat
  BY Constants
<1>3. /\ q.sock = p.sock /\ q.sock6 = p.sock6
      /\ q.seen = Older(p.seen, SeenMax)
      /\ q.direct = Older(p.direct, DirectMax)
      /\ q.probe = Older(p.probe, ProbeSecs)
      /\ q.fails = p.fails /\ q.answered = p.answered
  BY AgedPeer
<1> HIDE DEF q
<1>4. p.seen <= Expiry /\ b <= p.seen
  BY DEF EntryOK
<1>5. q.seen = p.seen + 1
  BY <1>0, <1>2, <1>3, <1>4, Ages DEF Older, Never
<1>6. KeepAddr(q) <=> KeepAddr(p)
  BY <1>3 DEF KeepAddr
<1>7. q.direct = Never <=> p.direct = Never
  BY <1>0, <1>3 DEF Older, Never
<1>8. ASSUME p.direct # Never
      PROVE  PathOK(q, d, FALSE)
  <2>0. PathOK(p, b, TRUE)
    BY <1>8 DEF EntryOK
  <2>1. q.direct < DirectMax => d <= q.direct
    BY <1>0, <1>3, <1>8, <2>0, Ages DEF PathOK, Older, Never
  <2>2. p.probe = Never => q.probe = Never /\ d <= Budget(q.fails)
    BY <1>0, <1>1, <1>3, <2>0 DEF PathOK, Older, Never
  <2>3. p.probe # Never /\ p.answered => q.probe # Never /\ d <= Idle
    BY <1>0, <1>2, <1>3, <2>0 DEF PathOK, Older, Never
  <2>4. p.probe # Never /\ ~p.answered => q.probe # Never /\ d <= Budget(q.fails) + q.probe
    BY <1>0, <1>1, <1>2, <1>3, <2>0 DEF PathOK, Older, Never
  <2>5. QED
    BY <1>3, <2>1, <2>2, <2>3, <2>4 DEF PathOK
<1>9. EntryOK(m, q, d, FALSE, e)
  <2>1. q.seen <= Expiry + 1 /\ d <= q.seen
    BY <1>0, <1>2, <1>4, <1>5
  <2>2. QED
    BY <1>6, <1>7, <1>8, <2>1 DEF EntryOK
<1>10. QED
  BY <1>9 DEF q

\* Time passes for the records and for the cache alike.
LEMMA TickFresh ==
    ASSUME CacheShort, ListInv, ListInv', FreshInv, Tick
    PROVE  FreshInv'
<1>0. /\ ran /\ ran' = FALSE /\ ran = TRUE
      /\ known' = [m \in DOMAIN known |-> Aged(known[m])]
      /\ cache' = IF cache = <<>> \/ cache[1].age + 1 >= CacheTtl THEN <<>>
                  ELSE [cache EXCEPT ![1].age = cache[1].age + 1]
      /\ blind' = [m \in Macs |-> IF Dest(m) = NoAddr THEN 0 ELSE Older(blind[m], Patience + 1)]
  BY DEF Tick, ListInv
<1>1. blind' \in [Macs -> Nat]
  BY <1>0, Ages DEF FreshInv, Older, Never
<1>2. \A m \in Macs : blind'[m] <= blind[m] + 1 /\ (Dest(m) = NoAddr => blind'[m] = 0)
  BY <1>0, Ages DEF FreshInv, Older, Never
<1>3. cache' # <<>> => /\ cache # <<>> /\ 1 \in DOMAIN cache' /\ cache'[1] \in CacheRec
                       /\ cache'[1].mac = cache[1].mac /\ cache'[1].age = cache[1].age + 1
  <2> SUFFICES ASSUME cache' # <<>>
               PROVE  /\ cache # <<>> /\ 1 \in DOMAIN cache' /\ cache'[1] \in CacheRec
                      /\ cache'[1].mac = cache[1].mac /\ cache'[1].age = cache[1].age + 1
    OBVIOUS
  <2>1. /\ cache # <<>> /\ ~(cache[1].age + 1 >= CacheTtl)
        /\ cache' = [cache EXCEPT ![1].age = cache[1].age + 1]
    BY <1>0
  <2>2. 1 \in DOMAIN cache /\ cache[1] \in CacheRec
    BY <2>1 DEF FreshInv
  <2>3. 1 \in DOMAIN cache' /\ cache'[1] = [cache[1] EXCEPT !.age = cache[1].age + 1]
    BY <2>1, <2>2
  <2>4. cache[1].age + 1 \in 0 .. CacheTtl - 1
    BY <2>1, <2>2, Constants DEF CacheRec
  <2>5. QED
    BY <2>1, <2>2, <2>3, <2>4 DEF CacheRec
<1>4. ASSUME NEW n \in DOMAIN known'
      PROVE  EntryOK(n, known'[n], blind'[n], ran', cache')
  <2>1. n \in DOMAIN known /\ known'[n] = Aged(known[n])
    BY <1>0
  <2>2. /\ known[n] \in Peers /\ n \in Macs /\ blind[n] \in Nat /\ blind'[n] \in Nat
        /\ EntryOK(n, known[n], blind[n], TRUE, cache)
    BY <1>0, <1>1, <2>1, EntryPeer DEF FreshInv
  <2>3. ASSUME known[n].direct # Never, ~KeepAddr(known[n])
        PROVE  /\ blind'[n] <= CacheTtl
               /\ cache' # <<>> /\ cache'[1].mac = n => blind'[n] <= cache'[1].age
    <3>1. find_peer_destination(n) = NoAddr
      BY <2>3 DEF find_peer_destination, KeepAddr
    <3>2. CASE ~CacheHit(n)
      <4>1. blind'[n] = 0
        BY <1>2, <2>2, <3>1, <3>2 DEF Dest
      <4>2. cache' # <<>> => cache'[1].age \in Nat
        BY <1>3, Constants DEF CacheRec
      <4>3. QED
        BY <4>1, <4>2, Constants
    <3>3. CASE CacheHit(n)
      <4>1. cache # <<>> /\ cache[1].mac = n /\ cache[1] \in CacheRec
        BY <3>3 DEF CacheHit, FreshInv
      <4>2. blind[n] <= cache[1].age
        BY <2>2, <2>3, <4>1 DEF EntryOK
      <4>3. cache[1].age \in Nat /\ cache[1].age <= CacheTtl - 1 /\ CacheTtl \in Nat
        BY <4>1, Constants DEF CacheRec
      <4>4. blind'[n] <= blind[n] + 1
        BY <1>2, <2>2
      <4>5. QED
        BY <1>3, <2>2, <4>2, <4>3, <4>4
    <3>4. QED
      BY <3>2, <3>3
  <2>4. EntryOK(n, Aged(known[n]), blind'[n], FALSE, cache')
    BY <1>2, <2>2, <2>3, AgedEntry
  <2>5. QED
    BY <1>0, <2>1, <2>4
<1>5. cache' # <<>> => blind'[cache'[1].mac] <= Bound + cache'[1].age
  <2> SUFFICES ASSUME cache' # <<>>
               PROVE  blind'[cache'[1].mac] <= Bound + cache'[1].age
    OBVIOUS
  <2>1. cache # <<>> /\ cache'[1].mac = cache[1].mac /\ cache'[1].age = cache[1].age + 1
    BY <1>3
  <2>2. cache[1] \in CacheRec /\ blind[cache[1].mac] <= Bound + cache[1].age
    BY <2>1 DEF FreshInv
  <2>3. cache[1].mac \in Macs /\ cache[1].age \in Nat
    BY <2>2, Constants DEF CacheRec
  <2>4. /\ blind[cache[1].mac] \in Nat /\ blind'[cache[1].mac] \in Nat
        /\ blind'[cache[1].mac] <= blind[cache[1].mac] + 1
    BY <1>1, <1>2, <2>3 DEF FreshInv
  <2>5. Bound \in Nat
    BY Budgets
  <2>6. QED
    BY <2>1, <2>2, <2>3, <2>4, <2>5
<1>6. QED
  BY <1>1, <1>3, <1>4, <1>5 DEF FreshInv

\* Nobody is direct at first.
LEMMA FreshInit == Init => FreshInv
<1>1. DOMAIN <<>> = {}
  OBVIOUS
<1>2. QED
  BY <1>1 DEF Init, FreshInv

\* One case per operation.
LEMMA FreshStep == CacheShort /\ ListInv /\ ListInv' /\ FreshInv /\ [Next]_vars => FreshInv'
<1> SUFFICES ASSUME CacheShort, ListInv, ListInv', FreshInv, [Next]_vars PROVE FreshInv'
  OBVIOUS
<1>1. CASE MainLoop
  BY <1>1, MainLoopFresh
<1>2. CASE Tick
  BY <1>2, TickFresh
<1>3. CASE \E m \in Macs : SendPacket(m) \/ Deregister(m) \/ RegisterAckRelayed(m)
  BY <1>3, SendPacketFresh, DeregisterFresh, RegisterAckRelayedFresh
<1>4. CASE \E m \in Macs, a \in Addrs :
             \/ PacketDirect(m, a) \/ RegisterAck(m, a) \/ Probe(m, a) \/ ProbeAck(m, a)
             \/ \E b \in BOOLEAN : Register(m, a, b)
  BY <1>4, PacketDirectFresh, RegisterAckFresh, ProbeFresh, ProbeAckFresh, RegisterFresh
<1>5. CASE \E m \in Macs, a \in Addrs \cup {NoAddr}, b \in BOOLEAN : PacketRelayed(m, a, b)
  BY <1>5, PacketRelayedFresh
<1>6. CASE \E m \in Macs, info \in Infos : PeerInfo(m, info) \/ Punch(m, info)
  BY <1>6, PeerInfoFresh, PunchFresh
<1>7. CASE UNCHANGED vars
  BY <1>7, UnheardSame DEF vars
<1>8. QED
  BY <1>1, <1>2, <1>3, <1>4, <1>5, <1>6, <1>7 DEF Next

\* Frames go to a peer directly, without anything of it coming back, for at most
\* the idle time, the probes with a second each, and the life of the cached
\* destination (check_keepalive, find_peer_destination, send_PACKET's cache).
THEOREM DirectPathsAreFresh == CacheShort => (Spec => []DirectOnlyFresh)
<1> SUFFICES ASSUME CacheShort PROVE Spec => []DirectOnlyFresh
  OBVIOUS
<1>1. Init => ListInv /\ FreshInv
  BY ListInit, FreshInit
<1>2. ListInv /\ FreshInv /\ [Next]_vars => (ListInv /\ FreshInv)'
  <2>1. ListInv /\ [Next]_vars => ListInv'
    BY ListStep
  <2>2. ListInv /\ ListInv' /\ FreshInv /\ [Next]_vars => FreshInv'
    BY FreshStep
  <2>3. QED
    BY <2>1, <2>2
<1>3. ListInv /\ FreshInv => DirectOnlyFresh
  BY FreshFromInv
<1>4. QED
  BY <1>1, <1>2, <1>3, PTL DEF Spec
=============================================================================
