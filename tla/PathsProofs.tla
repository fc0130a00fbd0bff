---------------------------- MODULE PathsProofs ----------------------------
(***************************************************************************)
(* Proofs about the ways from one edge to another: the two parts of MCPaths, *)
(* the pairs the supernode punches (SnPunch) and the relay of an edge        *)
(* (Relay), and the supernode itself (SnForward, as MCForward names it), for *)
(* every set of edges, communities and relays and every value of the timing  *)
(* constants.  Two edges have one pair in a community, types hold (Shape),   *)
(* no exchange uses a registration twice (ExchangeFresh), and no legacy edge *)
(* that was heard is sent what it cannot read (ForwardSound).                *)
(***************************************************************************)
EXTENDS MCPaths, MCForward, SequenceTheorems, FiniteSetTheorems, TLAPS

-----------------------------------------------------------------------------
(* The pairs of the supernode                                                *)

\* A pair names its edges in order; a_reg and b_reg that are newer than the last
\* exchange stand for edges that have registered since.
GoodPair ==
    {p \in Pair : /\ p.a <= p.b
                  /\ p.regd \subseteq {p.a, p.b}
                  /\ p.newA => p.a \in p.regd
                  /\ p.newB => p.b \in p.regd}

SamePair(p, q) == p.comm = q.comm /\ p.a = q.a /\ p.b = q.b

\* A list of pairs of which no two are of the same edges in the same community.
PairList(P) ==
    /\ P \in Seq(GoodPair)
    /\ \A i, j \in DOMAIN P : SamePair(P[i], P[j]) => i = j

\* The inductive invariant of SnPunch.
PunchInv ==
    /\ edges \subseteq Macs
    /\ PairList(pairs)
    /\ phase \in 0 .. Second - 1
    /\ out.told \subseteq Macs \X Macs
    /\ ExchangeFresh

\* The assumptions on the constants, instantiated.
LEMMA PunchConstants ==
    /\ Macs \subseteq Nat /\ Asks \subseteq Macs \X Macs
    /\ Second \in Nat \ {0} /\ PairMax \in Nat \ {0}
    /\ Hold \in Nat \ {0} /\ Refresh \in Nat \ {0}
    /\ SyncMin \in Nat \ {0} /\ SyncMax \in Nat /\ SyncMax <= Second
    /\ MaxDiff \in Nat /\ MaxDiff >= SyncMax /\ MaxPairs \in Nat
BY PunchAssumption

\* A set of naturals has a least element: its members' intervals from 0 are finite
\* sets, and those are well-founded under inclusion.
LEMMA LeastOf ==
    ASSUME NEW T, T \subseteq Nat, T # {}
    PROVE  \E x \in T : \A y \in T : x <= y
<1> DEFINE Ups == {0 .. t : t \in T}
           Under == StrictSubsetOrdering(Nat)
<1>1. IsWellFoundedOn(Under, FiniteSubsetsOf(Nat))
  BY FS_StrictSubsetOrderingWellFounded
<1>2. \A t \in T : 0 .. t \in FiniteSubsetsOf(Nat)
  BY FS_Interval DEF FiniteSubsetsOf
<1>3. Ups \subseteq FiniteSubsetsOf(Nat) /\ Ups # {}
  BY <1>2
<1> HIDE DEF Under
<1>4. PICK z \in Ups : \A w \in Ups : ~(<<w, z>> \in Under)
  <2> HIDE DEF Ups
  <2> QED BY <1>1, <1>3, WFMin
<1>5. PICK x \in T : z = 0 .. x
  OBVIOUS
<1>6. \A y \in T : x <= y
  <2> SUFFICES ASSUME NEW y \in T, ~(x <= y) PROVE FALSE
    OBVIOUS
  <2>1. 0 .. y \subseteq 0 .. x /\ x \in 0 .. x /\ x \notin 0 .. y
    OBVIOUS
  <2>2. 0 .. y # 0 .. x
    BY <2>1
  <2>3. 0 .. y \in SUBSET Nat /\ 0 .. x \in SUBSET Nat
    OBVIOUS
  <2>4. <<0 .. y, 0 .. x>> \in Under
    BY <2>1, <2>2, <2>3 DEF Under, StrictSubsetOrdering
  <2> QED BY <2>4, <1>4, <1>5
<1> QED BY <1>6

-----------------------------------------------------------------------------
(* Lists of pairs                                                            *)

\* The pairs of a list change and keep their edges.
LEMMA ChangedPairs ==
    ASSUME NEW P, PairList(P), NEW Q,
           Q = [i \in DOMAIN P |-> Q[i]],
           \A i \in DOMAIN P : Q[i] \in GoodPair /\ SamePair(Q[i], P[i])
    PROVE  PairList(Q)
<1>1. P \in Seq(GoodPair)
  BY DEF PairList
<1>2. DOMAIN P = 1 .. Len(P) /\ Len(P) \in Nat
  BY <1>1, LenProperties
<1>3. Q \in [1 .. Len(P) -> GoodPair]
  BY <1>2
<1>4. Q \in Seq(GoodPair)
  BY <1>2, <1>3, SeqDef
<1>5. ASSUME NEW i \in DOMAIN Q, NEW j \in DOMAIN Q, SamePair(Q[i], Q[j])
      PROVE  i = j
  <2>1. i \in DOMAIN P /\ j \in DOMAIN P
    BY <1>3, <1>2
  <2>2. SamePair(P[i], P[j])
    BY <2>1, <1>5 DEF SamePair
  <2> QED BY <2>1, <2>2 DEF PairList
<1> QED BY <1>4, <1>5 DEF PairList

\* Some of the pairs of a list, each once.
LEMMA SomePairs ==
    ASSUME NEW P, PairList(P), NEW n \in Nat, NEW at \in [1 .. n -> DOMAIN P],
           \A i, j \in 1 .. n : at[i] = at[j] => i = j
    PROVE  PairList([i \in 1 .. n |-> P[at[i]]])
<1> DEFINE Q == [i \in 1 .. n |-> P[at[i]]]
<1>1. P \in Seq(GoodPair) /\ \A i \in DOMAIN P : P[i] \in GoodPair
  <2>1. P \in Seq(GoodPair)
    BY DEF PairList
  <2> QED BY <2>1, ElementOfSeq, LenProperties
<1>2. Q \in Seq(GoodPair)
  BY <1>1, SeqDef
<1>3. ASSUME NEW i \in 1 .. n, NEW j \in 1 .. n, SamePair(P[at[i]], P[at[j]])
      PROVE  i = j
  BY <1>3 DEF PairList
<1> QED BY <1>2, <1>3 DEF PairList

\* A pair leaves the list.
LEMMA WithoutPair ==
    ASSUME NEW P, PairList(P), NEW k \in DOMAIN P
    PROVE  PairList(RemoveAt(P, k))
<1>1. P \in Seq(GoodPair)
  BY DEF PairList
<1>2. DOMAIN P = 1 .. Len(P) /\ Len(P) \in Nat /\ \A i \in 1 .. Len(P) : P[i] \in GoodPair
  BY <1>1, LenProperties, ElementOfSeq
<1>3. k \in 1 .. Len(P)
  BY <1>2
<1> DEFINE l == SubSeq(P, 1, k - 1)
           r == SubSeq(P, k + 1, Len(P))
           n == Len(P) - 1
           at == [i \in 1 .. n |-> IF i < k THEN i ELSE i + 1]
<1>4. /\ l \in Seq(GoodPair) /\ Len(l) = k - 1
      /\ \A i \in 1 .. k - 1 : l[i] = P[i]
  <2>1. /\ SubSeq(P, 1, k - 1) \in Seq(GoodPair)
        /\ Len(SubSeq(P, 1, k - 1)) = IF 1 <= k - 1 THEN k - 1 - 1 + 1 ELSE 0
        /\ \A i \in 1 .. (k - 1) - 1 + 1 : SubSeq(P, 1, k - 1)[i] = P[1 + i - 1]
    BY <1>2, <1>3, SubSeqProperties
  <2> QED BY <2>1, <1>3, <1>2
<1>5. /\ r \in Seq(GoodPair) /\ Len(r) = Len(P) - k
      /\ \A i \in 1 .. Len(P) - k : r[i] = P[k + i]
  <2>1. /\ SubSeq(P, k + 1, Len(P)) \in Seq(GoodPair)
        /\ Len(SubSeq(P, k + 1, Len(P))) = IF k + 1 <= Len(P) THEN Len(P) - (k + 1) + 1 ELSE 0
        /\ \A i \in 1 .. Len(P) - (k + 1) + 1 : SubSeq(P, k + 1, Len(P))[i] = P[(k + 1) + i - 1]
    BY <1>2, <1>3, SubSeqProperties
  <2> QED BY <2>1, <1>3, <1>2
<1>6. /\ l \o r \in Seq(GoodPair) /\ Len(l \o r) = n
      /\ \A i \in 1 .. n : (l \o r)[i] = IF i < k THEN P[i] ELSE P[i + 1]
  <2> HIDE DEF l, r
  <2>1. /\ l \o r \in Seq(GoodPair)
        /\ Len(l \o r) = Len(l) + Len(r)
        /\ \A i \in 1 .. Len(l) + Len(r) : (l \o r)[i] =
                     IF i <= Len(l) THEN l[i] ELSE r[i - Len(l)]
    BY <1>4, <1>5, ConcatProperties
  <2>2. Len(l) + Len(r) = n
    BY <1>4, <1>5, <1>3, <1>2
  <2>3. ASSUME NEW i \in 1 .. n, i < k PROVE (l \o r)[i] = P[i]
    BY <2>1, <2>2, <2>3, <1>4, <1>3, <1>2
  <2>4. ASSUME NEW i \in 1 .. n, ~(i < k) PROVE (l \o r)[i] = P[i + 1]
    <3>1. i - Len(l) \in 1 .. Len(P) - k /\ k + (i - Len(l)) = i + 1 /\ ~(i <= Len(l))
      BY <2>4, <1>4, <1>3, <1>2
    <3>2. (l \o r)[i] = r[i - Len(l)]
      BY <2>1, <2>2, <3>1
    <3> QED BY <3>1, <3>2, <1>5
  <2> QED BY <2>1, <2>2, <2>3, <2>4
<1>7. n \in Nat /\ at \in [1 .. n -> DOMAIN P] /\ \A i, j \in 1 .. n : at[i] = at[j] => i = j
  BY <1>2, <1>3
<1>8. l \o r = [i \in 1 .. n |-> P[at[i]]]
  <2> HIDE DEF l, r
  <2>1. l \o r = [i \in 1 .. n |-> (l \o r)[i]]
    BY <1>6, LenProperties
  <2>2. \A i \in 1 .. n : (l \o r)[i] = P[at[i]]
    BY <1>6
  <2> QED BY <2>1, <2>2
<1>9. PairList([i \in 1 .. n |-> P[at[i]]])
  <2> HIDE DEF at, n
  <2> QED BY <1>7, SomePairs
<1> QED BY <1>8, <1>9 DEF RemoveAt

\* A pair that is not in the list yet is put before the others.
LEMMA AddedPair ==
    ASSUME NEW P, PairList(P), NEW p \in GoodPair,
           \A i \in DOMAIN P : ~SamePair(P[i], p)
    PROVE  PairList(<<p>> \o P) /\ DOMAIN (<<p>> \o P) # {}
<1>1. P \in Seq(GoodPair)
  BY DEF PairList
<1>2. DOMAIN P = 1 .. Len(P) /\ Len(P) \in Nat
  BY <1>1, LenProperties
<1>3. <<p>> \in Seq(GoodPair) /\ Len(<<p>>) = 1 /\ <<p>>[1] = p
  OBVIOUS
<1> DEFINE Q == <<p>> \o P
<1>4. /\ Q \in Seq(GoodPair) /\ Len(Q) = 1 + Len(P)
      /\ \A i \in 1 .. 1 + Len(P) : Q[i] = IF i <= 1 THEN <<p>>[i] ELSE P[i - 1]
  BY <1>1, <1>3, ConcatProperties
<1> HIDE DEF Q
<1>5. DOMAIN Q = 1 .. 1 + Len(P) /\ DOMAIN Q # {}
  <2>1. DOMAIN Q = 1 .. 1 + Len(P)
    BY <1>4, <1>2, LenProperties
  <2>2. 1 \in 1 .. 1 + Len(P)
    BY <1>2
  <2> QED BY <2>1, <2>2
<1>6. Q[1] = p /\ \A i \in DOMAIN Q : i # 1 => i - 1 \in DOMAIN P /\ Q[i] = P[i - 1]
  BY <1>2, <1>3, <1>4, <1>5
<1>7. ASSUME NEW i \in DOMAIN Q, NEW j \in DOMAIN Q, SamePair(Q[i], Q[j])
      PROVE  i = j
  <2>0. i \in Int /\ j \in Int
    BY <1>5, <1>2
  <2>1. CASE i = 1 /\ j = 1
    BY <2>1
  <2>2. CASE i = 1 /\ j # 1
    BY <2>2, <1>6, <1>7 DEF SamePair
  <2>3. CASE i # 1 /\ j = 1
    BY <2>3, <1>6, <1>7 DEF SamePair
  <2>4. CASE i # 1 /\ j # 1
    <3>1. i - 1 = j - 1
      BY <2>4, <1>6, <1>7 DEF PairList
    <3> QED BY <3>1, <2>0
  <2> QED BY <2>1, <2>2, <2>3, <2>4
<1> QED BY <1>4, <1>5, <1>7 DEF PairList, Q

\* What the operators read of a pair in a list.
LEMMA InList ==
    ASSUME NEW P, PairList(P)
    PROVE  \A i \in DOMAIN P : i \in Nat /\ P[i] \in GoodPair /\ P[i] \in Pair /\ P[i].act \in 0 .. Hold + 1
<1>1. P \in Seq(GoodPair)
  BY DEF PairList
<1>2. DOMAIN P = 1 .. Len(P) /\ Len(P) \in Nat
  BY <1>1, LenProperties
<1>3. \A i \in DOMAIN P : P[i] \in GoodPair
  BY <1>1, <1>2, ElementOfSeq
<1> QED BY <1>2, <1>3 DEF GoodPair, Pair

\* The list is cut to its length: there is a pair that is the oldest.
LEMMA DroppedList ==
    ASSUME NEW P, PairList(P), DOMAIN P # {}
    PROVE  PairList(Dropped(P))
<1> DEFINE oldest == {i \in DOMAIN P : \A j \in DOMAIN P : P[j].act <= P[i].act}
           left   == {Hold + 1 - P[i].act : i \in DOMAIN P}
<1>1. \E i \in DOMAIN P : \A j \in DOMAIN P : P[j].act <= P[i].act
  <2>1. left \subseteq Nat /\ left # {}
    BY InList, PunchConstants
  <2>2. PICK x \in left : \A y \in left : x <= y
    <3> HIDE DEF left
    <3> QED BY <2>1, LeastOf
  <2>3. PICK i \in DOMAIN P : x = Hold + 1 - P[i].act
    BY <2>2
  <2>4. ASSUME NEW j \in DOMAIN P PROVE P[j].act <= P[i].act
    <3>1. Hold + 1 - P[i].act <= Hold + 1 - P[j].act
      BY <2>2, <2>3
    <3>2. P[i].act \in 0 .. Hold + 1 /\ P[j].act \in 0 .. Hold + 1 /\ Hold \in Nat
      BY InList, PunchConstants
    <3> QED BY <3>1, <3>2
  <2> QED BY <2>4
<1>2. oldest \subseteq Nat /\ oldest # {} /\ oldest \subseteq DOMAIN P
  BY <1>1, InList
<1>3. \E x \in oldest : \A y \in oldest : x <= y
  <2> HIDE DEF oldest
  <2> QED BY <1>2, LeastOf
<1> DEFINE k == CHOOSE x \in oldest : \A y \in oldest : x <= y
<1>4. k \in DOMAIN P
  <2>1. k \in oldest
    <3> HIDE DEF oldest
    <3> QED BY <1>3
  <2> QED BY <2>1, <1>2
<1>5. Dropped(P) = IF Len(P) > PairMax /\ k # 1 THEN RemoveAt(P, k) ELSE P
  BY DEF Dropped
<1>6. PairList(RemoveAt(P, k))
  <2> HIDE DEF k
  <2> QED BY <1>4, WithoutPair
<1> HIDE DEF k
<1> QED BY <1>5, <1>6

\* The two ids of a pair, in order, are the two ids (sn_pair_key).
LEMMA Ordered ==
    ASSUME NEW s \in Macs, NEW t \in Macs
    PROVE  /\ Least(s, t) \in Macs /\ Greatest(s, t) \in Macs
           /\ Least(s, t) <= Greatest(s, t)
           /\ {Least(s, t), Greatest(s, t)} = {s, t}
BY PunchConstants DEF Least, Greatest

\* sn_pair_touch finds the pair or enters it.
LEMMA TouchedList ==
    ASSUME NEW P, PairList(P), NEW c \in Communities, NEW s \in Macs, NEW t \in Macs
    PROVE  PairList(sn_pair_touch(P, c, s, t))
<1> DEFINE x == Least(s, t)
           y == Greatest(s, t)
           found == sn_pair_find(P, c, x, y)
           p == NewPair(c, s, t)
           Q == [i \in DOMAIN P |-> IF i \in found THEN [P[i] EXCEPT !.act = 0] ELSE P[i]]
<1>1. CASE found # {}
  <2>1. ASSUME NEW i \in DOMAIN P
        PROVE  [P[i] EXCEPT !.act = 0] \in GoodPair /\ SamePair([P[i] EXCEPT !.act = 0], P[i])
    <3>1. P[i] \in GoodPair
      BY InList
    <3>2. 0 \in 0 .. Hold + 1
      BY PunchConstants
    <3> QED BY <3>1, <3>2 DEF GoodPair, Pair, SamePair
  <2>2. \A i \in DOMAIN P : Q[i] \in GoodPair /\ SamePair(Q[i], P[i])
    <3>1. \A i \in DOMAIN P : P[i] \in GoodPair /\ SamePair(P[i], P[i])
      BY InList DEF SamePair
    <3> QED BY <2>1, <3>1
  <2>3. PairList(Q)
    <3>1. Q = [i \in DOMAIN P |-> Q[i]]
      OBVIOUS
    <3> HIDE DEF Q
    <3> QED BY <2>2, <3>1, ChangedPairs
  <2> QED BY <1>1, <2>3 DEF sn_pair_touch
<1>2. CASE found = {}
  <2>1. p \in GoodPair
    <3>1. Refresh \in 0 .. Refresh /\ None \in None .. MaxDiff /\ 0 \in 0 .. Second
          /\ None \in None .. Second /\ 0 \in 0 .. Hold + 1
      BY PunchConstants DEF None
    <3> QED BY <3>1, Ordered DEF NewPair, GoodPair, Pair
  <2>2. p.comm = c /\ p.a = x /\ p.b = y
    BY DEF NewPair
  <2>3. \A i \in DOMAIN P : ~SamePair(P[i], p)
    BY <1>2, <2>2 DEF sn_pair_find, SamePair
  <2>4. PairList(<<p>> \o P) /\ DOMAIN (<<p>> \o P) # {}
    <3> HIDE DEF p
    <3> QED BY <2>1, <2>3, AddedPair
  <2>5. PairList(Dropped(<<p>> \o P))
    <3> HIDE DEF p
    <3> QED BY <2>4, DroppedList
  <2> QED BY <1>2, <2>5 DEF sn_pair_touch
<1> QED BY <1>1, <1>2

\* The requester's own registration is entered for the lower of the two.
LEMMA FoldedList ==
    ASSUME NEW P, PairList(P), NEW c, NEW s, NEW t
    PROVE  PairList(FoldIn(P, c, s, t))
<1> DEFINE found == sn_pair_find(P, c, s, t)
           e(p) == [p EXCEPT !.newA = TRUE, !.regd = @ \cup {s}]
           Q == [i \in DOMAIN P |-> IF i \in found THEN e(P[i]) ELSE P[i]]
<1>1. ASSUME NEW i \in DOMAIN P, i \in found
      PROVE  e(P[i]) \in GoodPair /\ SamePair(e(P[i]), P[i])
  <2>1. P[i] \in GoodPair /\ P[i].a = s
    BY <1>1, InList DEF sn_pair_find
  <2> QED BY <2>1 DEF GoodPair, Pair, SamePair
<1>2. \A i \in DOMAIN P : P[i] \in GoodPair /\ SamePair(P[i], P[i])
  BY InList DEF SamePair
<1>3. \A i \in DOMAIN P : Q[i] \in GoodPair /\ SamePair(Q[i], P[i])
  BY <1>1, <1>2
<1>4. Q = [i \in DOMAIN P |-> Q[i]]
  OBVIOUS
<1>5. PairList(Q)
  <2> HIDE DEF Q
  <2> QED BY <1>3, <1>4, ChangedPairs
<1> QED BY <1>5 DEF FoldIn

\* A re-registration is entered for the side it is of.
LEMMA ReRegPair ==
    ASSUME NEW p \in GoodPair, NEW m \in {p.a, p.b}
    PROVE  /\ ReReg(p, m) \in GoodPair /\ SamePair(ReReg(p, m), p)
           /\ m \in ReReg(p, m).regd
<1> DEFINE newer == ~p.ex \/ p.exAge >= 1
           q == [p EXCEPT !.regd = @ \cup {m}]
<1>1. newer \in BOOLEAN
  OBVIOUS
<1>2. q \in GoodPair /\ SamePair(q, p) /\ m \in q.regd /\ q.regd = p.regd \cup {m}
  BY DEF GoodPair, Pair, SamePair
<1> HIDE DEF newer, q
<1>3. CASE m = p.a
  <2>1. ReReg(p, m) = [q EXCEPT !.newA = newer]
    BY <1>3 DEF ReReg, newer, q
  <2>2. q.a = m
    BY <1>2, <1>3 DEF SamePair
  <2>3. [q EXCEPT !.newA = newer] \in GoodPair /\ SamePair([q EXCEPT !.newA = newer], q)
        /\ [q EXCEPT !.newA = newer].regd = q.regd
    BY <1>1, <1>2, <2>2 DEF GoodPair, Pair, SamePair
  <2> QED BY <2>1, <2>3, <1>2 DEF SamePair
<1>4. CASE m # p.a
  <2>1. ReReg(p, m) = [q EXCEPT !.newB = newer]
    BY <1>4 DEF ReReg, newer, q
  <2>2. q.b = m
    BY <1>2, <1>4 DEF SamePair
  <2>3. [q EXCEPT !.newB = newer] \in GoodPair /\ SamePair([q EXCEPT !.newB = newer], q)
        /\ [q EXCEPT !.newB = newer].regd = q.regd
    BY <1>1, <1>2, <2>2 DEF GoodPair, Pair, SamePair
  <2> QED BY <2>1, <2>3, <1>2 DEF SamePair
<1> QED BY <1>3, <1>4

\* A pair whose time passes stays the pair it is.
LEMMA TimedPair ==
    ASSUME NEW p \in GoodPair, NEW m
    PROVE  /\ Timed(p, m) \in GoodPair /\ SamePair(Timed(p, m), p)
           /\ Timed(p, m).regd = p.regd
<1>1. 0 \in None .. MaxDiff
  BY PunchConstants DEF None
<1>2. [p EXCEPT !.seenA = 0] \in GoodPair /\ SamePair([p EXCEPT !.seenA = 0], p)
      /\ [p EXCEPT !.seenA = 0].regd = p.regd
  BY <1>1 DEF GoodPair, Pair, SamePair
<1>3. [p EXCEPT !.seenB = 0] \in GoodPair /\ SamePair([p EXCEPT !.seenB = 0], p)
      /\ [p EXCEPT !.seenB = 0].regd = p.regd
  BY <1>1 DEF GoodPair, Pair, SamePair
<1>4. SamePair(p, p)
  BY DEF SamePair
<1>5. Timed(p, m) \in {p, [p EXCEPT !.seenA = 0], [p EXCEPT !.seenB = 0]}
  BY DEF Timed
<1> QED BY <1>2, <1>3, <1>4, <1>5

\* The delay is less than a second.
LEMMA DelayBound ==
    ASSUME NEW d \in Int
    PROVE  HalfDelay(d) \in 0 .. Second
<1>1. CASE d \in SyncMin .. SyncMax - 1
  <2>1. d \in Nat /\ d <= Second
    BY <1>1, PunchConstants
  <2>2. d \div 2 \in 0 .. d
    BY <2>1
  <2> QED BY <1>1, <2>1, <2>2, PunchConstants DEF HalfDelay
<1>2. CASE ~(d \in SyncMin .. SyncMax - 1)
  BY <1>2, PunchConstants DEF HalfDelay
<1> QED BY <1>1, <1>2

\* A pair that is armed stays the pair it is.
LEMMA ArmedPair ==
    ASSUME NEW p \in GoodPair
    PROVE  Armed(p) \in GoodPair /\ SamePair(Armed(p), p) /\ Armed(p).regd = p.regd
<1> DEFINE d == HalfDelay(AbsDiff(p.seenA, p.seenB))
           n == p.seenA >= p.seenB
           q == [p EXCEPT !.armed = TRUE, !.delay = d, !.nearA = n, !.seenA = None, !.seenB = None]
<1>1. d \in 0 .. Second /\ n \in BOOLEAN /\ None \in None .. MaxDiff
  <2>1. p.seenA \in Int /\ p.seenB \in Int
    BY PunchConstants DEF GoodPair, Pair, None
  <2>2. AbsDiff(p.seenA, p.seenB) \in Int
    BY <2>1 DEF AbsDiff
  <2> QED BY <2>2, DelayBound, PunchConstants DEF None
<1> HIDE DEF d, n
<1>2. q \in GoodPair /\ SamePair(q, p) /\ q.regd = p.regd
  BY <1>1 DEF GoodPair, Pair, SamePair
<1>3. SamePair(p, p)
  BY DEF SamePair
<1>4. Armed(p) \in {p, q}
  BY DEF Armed, d, n
<1> HIDE DEF q
<1> QED BY <1>2, <1>3, <1>4

\* A pair that is exchanged stays the pair it is.
LEMMA ExchangedPair ==
    ASSUME NEW p \in GoodPair, NEW both \in BOOLEAN
    PROVE  Exchanged(p, both) \in GoodPair /\ SamePair(Exchanged(p, both), p)
<1> DEFINE d == IF both /\ p.armed /\ p.delay > 0 THEN p.delay ELSE p.due
           q == [p EXCEPT !.ex = TRUE, !.exAge = 0, !.newA = FALSE, !.newB = FALSE,
                          !.regd = {}, !.due = d]
<1>1. d \in None .. Second /\ 0 \in 0 .. Refresh
  BY PunchConstants DEF GoodPair, Pair, None
<1>2. Exchanged(p, both) = q
  BY DEF Exchanged
<1> HIDE DEF d
<1>3. q \in GoodPair /\ SamePair(q, p)
  BY <1>1 DEF GoodPair, Pair, SamePair
<1> QED BY <1>2, <1>3

\* Whoever is told and of whom.
LEMMA ToldOf ==
    ASSUME NEW p \in GoodPair
    PROVE  /\ p.a \in Macs /\ p.b \in Macs
           /\ Near(p) \in Macs /\ Far(p) \in Macs
           /\ \A both \in BOOLEAN : HandedNow(p, both) \subseteq Macs \X Macs
BY DEF GoodPair, Pair, Near, Far, HandedNow, Tell

\* One pair of the list is replaced by a later state of it.
LEMMA ReplacedPair ==
    ASSUME NEW P, PairList(P), NEW k \in DOMAIN P, NEW q \in GoodPair, SamePair(q, P[k])
    PROVE  PairList([P EXCEPT ![k] = q])
<1> DEFINE Q == [P EXCEPT ![k] = q]
<1>0. P \in Seq(GoodPair)
  BY DEF PairList
<1>1. Q = [i \in DOMAIN P |-> IF i = k THEN q ELSE P[i]]
  BY <1>0
<1>2. \A i \in DOMAIN P : P[i] \in GoodPair /\ SamePair(P[i], P[i])
  BY InList DEF SamePair
<1>3. \A i \in DOMAIN P : Q[i] \in GoodPair /\ SamePair(Q[i], P[i])
  BY <1>1, <1>2
<1>4. Q = [i \in DOMAIN P |-> Q[i]]
  BY <1>1
<1> HIDE DEF Q
<1>5. PairList(Q)
  BY <1>3, <1>4, ChangedPairs
<1> QED BY <1>5 DEF Q

-----------------------------------------------------------------------------
(* The steps of SnPunch                                                      *)

\* A step without orders has none.
LEMMA QuietOut == Quiet.told = {} /\ Quiet.exchanged = FALSE
BY DEF Quiet

\* A registration keeps the table's invariant.
LEMMA RegisterRoundKeeps ==
    ASSUME PunchInv, NEW m \in Macs, NEW c \in Communities, RegisterRound(m, c)
    PROVE  PunchInv'
<1>1. edges' \subseteq Macs /\ phase' \in 0 .. Second - 1
  BY DEF PunchInv, RegisterRound
<1>2. CASE PairsOf(m, c) = {}
  <2>1. pairs' = pairs /\ out' = Quiet
    BY <1>2 DEF RegisterRound
  <2> QED BY <1>1, <2>1, QuietOut DEF PunchInv, ExchangeFresh
<1>3. CASE PairsOf(m, c) # {}
  <2> DEFINE i == FirstOf(m, c)
             p0 == pairs[i]
             p == Armed(Timed(ReReg(p0, m), m))
             both == {p.a, p.b} \subseteq edges'
  <2>1. i \in PairsOf(m, c)
    <3>1. PairsOf(m, c) \subseteq Nat
      BY InList DEF PairsOf, PunchInv
    <3>2. \E x \in PairsOf(m, c) : \A y \in PairsOf(m, c) : x <= y
      BY <1>3, <3>1, LeastOf
    <3> QED BY <3>2 DEF FirstOf
  <2>2. i \in DOMAIN pairs /\ m \in {p0.a, p0.b}
    BY <2>1 DEF PairsOf
  <2> HIDE DEF i
  <2>3. p0 \in GoodPair
    BY <2>2, InList DEF PunchInv
  <2> HIDE DEF p0
  <2> DEFINE p1 == ReReg(p0, m)
             p2 == Timed(p1, m)
  <2>4. p1 \in GoodPair /\ SamePair(p1, p0) /\ m \in p1.regd
    BY <2>2, <2>3, ReRegPair
  <2> HIDE DEF p1
  <2>5. p2 \in GoodPair /\ SamePair(p2, p1) /\ p2.regd = p1.regd
    BY <2>4, TimedPair
  <2> HIDE DEF p2
  <2>6. Armed(p2) \in GoodPair /\ SamePair(Armed(p2), p2) /\ Armed(p2).regd = p2.regd
    BY <2>5, ArmedPair
  <2>7. p \in GoodPair /\ SamePair(p, p0) /\ m \in p.regd
    BY <2>4, <2>5, <2>6 DEF SamePair, p1, p2
  <2>8. both \in BOOLEAN
    OBVIOUS
  <2>9. IF OtherNew(p, m)
          THEN /\ pairs' = [pairs EXCEPT ![i] = Exchanged(p, both)]
               /\ out' = [exchanged |-> TRUE, both |-> p.regd = {p.a, p.b},
                          told |-> HandedNow(p, both)]
          ELSE pairs' = [pairs EXCEPT ![i] = p] /\ out' = Quiet
    BY <1>3 DEF RegisterRound, i, p0
  <2> HIDE DEF p, both
  <2>10. Exchanged(p, both) \in GoodPair /\ SamePair(Exchanged(p, both), p0)
    BY <2>7, <2>8, ExchangedPair DEF SamePair
  <2>11. CASE OtherNew(p, m)
    <3>1. PairList(pairs')
      BY <2>11, <2>9, <2>10, <2>2, ReplacedPair DEF PunchInv, p0
    <3>2. p.regd = {p.a, p.b}
      <4>1. m \in {p.a, p.b}
        BY <2>2, <2>7 DEF SamePair
      <4>2. {p.a, p.b} \subseteq p.regd
        <5>1. CASE m = p.a
          BY <5>1, <2>7, <2>11 DEF OtherNew, GoodPair
        <5>2. CASE m # p.a
          BY <5>2, <4>1, <2>7, <2>11 DEF OtherNew, GoodPair
        <5> QED BY <5>1, <5>2
      <4>3. p.regd \subseteq {p.a, p.b}
        BY <2>7 DEF GoodPair
      <4> QED BY <4>2, <4>3
    <3>3. out'.told \subseteq Macs \X Macs
      BY <2>11, <2>9, <2>7, <2>8, ToldOf
    <3>4. out'.both
      <4>1. out' = [exchanged |-> TRUE, both |-> p.regd = {p.a, p.b}, told |-> HandedNow(p, both)]
        BY <2>11, <2>9
      <4>2. out'.both = (p.regd = {p.a, p.b})
        BY <4>1
      <4> QED BY <4>2, <3>2
    <3> QED BY <1>1, <3>1, <3>3, <3>4 DEF PunchInv, ExchangeFresh
  <2>12. CASE ~OtherNew(p, m)
    <3>1. PairList(pairs')
      BY <2>12, <2>9, <2>7, <2>2, ReplacedPair DEF PunchInv, p0
    <3> QED BY <2>12, <2>9, <1>1, <3>1, QuietOut DEF PunchInv, ExchangeFresh
  <2> QED BY <2>11, <2>12
<1> QED BY <1>2, <1>3

\* A query for a peer keeps it: a new pair, or a full table and none.
LEMMA QueryPeerKeeps ==
    ASSUME PunchInv, NEW q \in Asks, NEW c \in Communities, QueryPeer(q[1], q[2], c)
    PROVE  PunchInv'
<1> DEFINE s == q[1]
           t == q[2]
           P == sn_pair_touch(pairs, c, s, t)
           Q == FoldIn(P, c, s, t)
<1>1. s \in Macs /\ t \in Macs
  BY PunchConstants
<1> HIDE DEF s, t
<1>2. PairList(P)
  BY <1>1, TouchedList DEF PunchInv
<1> HIDE DEF P
<1>3. PairList(Q)
  BY <1>2, FoldedList
<1> HIDE DEF Q
<1>4. pairs' = P \/ pairs' = Q
  BY DEF QueryPeer, P, Q, s, t
<1>5. out'.told \subseteq {Tell(s, t), Tell(t, s)} /\ out'.exchanged = FALSE
  <2>1. \E T \in SUBSET {Tell(s, t), Tell(t, s)} : out' = [Quiet EXCEPT !.told = T]
    <3>1. PICK T : /\ out' = [Quiet EXCEPT !.told = T]
                   /\ T \in {{}, {Tell(s, t)} \cup (IF s \in edges THEN {Tell(t, s)} ELSE {})}
      BY DEF QueryPeer, s, t
    <3>2. T \subseteq {Tell(s, t), Tell(t, s)}
      BY <3>1
    <3> QED BY <3>1, <3>2
  <2> QED BY <2>1 DEF Quiet
<1>6. out'.told \subseteq Macs \X Macs
  BY <1>1, <1>5 DEF Tell
<1>7. edges' = edges /\ phase' = phase
  BY DEF QueryPeer
<1> QED BY <1>2, <1>3, <1>4, <1>5, <1>6, <1>7 DEF PunchInv, ExchangeFresh

\* The end of the main loop keeps it: pairs are exchanged in order, and purged.
LEMMA LoopTailKeeps ==
    ASSUME PunchInv, LoopTail
    PROVE  PunchInv'
<1>0. PICK n \in 0 .. Len(pairs) : \E at \in InOrder(Live(pairs), n) :
        LET P   == [i \in 1 .. n |-> pairs[at[i]]]
            now == {i \in 1 .. n : Due(P[i])}
        IN  /\ pairs' = [i \in 1 .. n |-> IF i \in now THEN [P[i] EXCEPT !.due = None] ELSE P[i]]
            /\ out' = [Quiet EXCEPT !.told =
                         {Tell(Near(P[i]), Far(P[i])) :
                            i \in {j \in now : {P[j].a, P[j].b} \subseteq edges}}]
  BY DEF LoopTail
<1>1. PICK at \in InOrder(Live(pairs), n) :
        LET P   == [i \in 1 .. n |-> pairs[at[i]]]
            now == {i \in 1 .. n : Due(P[i])}
        IN  /\ pairs' = [i \in 1 .. n |-> IF i \in now THEN [P[i] EXCEPT !.due = None] ELSE P[i]]
            /\ out' = [Quiet EXCEPT !.told =
                         {Tell(Near(P[i]), Far(P[i])) :
                            i \in {j \in now : {P[j].a, P[j].b} \subseteq edges}}]
  BY <1>0
<1> DEFINE P   == [i \in 1 .. n |-> pairs[at[i]]]
           now == {i \in 1 .. n : Due(P[i])}
           rest == {j \in now : {P[j].a, P[j].b} \subseteq edges}
           told == {Tell(Near(P[i]), Far(P[i])) : i \in rest}
<1>2. pairs' = [i \in 1 .. n |-> IF i \in now THEN [P[i] EXCEPT !.due = None] ELSE P[i]]
      /\ out' = [Quiet EXCEPT !.told = told]
  BY <1>1
<1>3. n \in Nat /\ at \in [1 .. n -> DOMAIN pairs]
  <2>1. Len(pairs) \in Nat
    BY LenProperties DEF PunchInv, PairList
  <2> QED BY <2>1 DEF InOrder, Live
<1>4. \A i, j \in 1 .. n : at[i] = at[j] => i = j
  <2>1. \A i \in 1 .. n : at[i] \in Nat
    BY <1>3, InList DEF PunchInv
  <2>2. \A i, j \in 1 .. n : i < j => at[i] < at[j]
    BY DEF InOrder
  <2> QED BY <2>1, <2>2, <1>3
<1>5. PairList(P) /\ DOMAIN P = 1 .. n
  BY <1>3, <1>4, SomePairs DEF PunchInv
<1> HIDE DEF P
<1>6. ASSUME NEW i \in 1 .. n
      PROVE  /\ P[i] \in GoodPair /\ SamePair(P[i], P[i])
             /\ [P[i] EXCEPT !.due = None] \in GoodPair
             /\ SamePair([P[i] EXCEPT !.due = None], P[i])
  <2>1. P[i] \in GoodPair
    BY <1>5, InList
  <2>2. None \in None .. Second
    BY PunchConstants DEF None
  <2> QED BY <2>1, <2>2 DEF GoodPair, Pair, SamePair
<1>7. PairList(pairs')
  <2>1. pairs' = [i \in DOMAIN P |-> pairs'[i]]
    BY <1>2, <1>5
  <2>2. \A i \in DOMAIN P : pairs'[i] \in GoodPair /\ SamePair(pairs'[i], P[i])
    BY <1>2, <1>5, <1>6
  <2> DEFINE Q == pairs'
  <2> HIDE DEF Q
  <2>3. Q = [i \in DOMAIN P |-> Q[i]] /\ \A i \in DOMAIN P : Q[i] \in GoodPair /\ SamePair(Q[i], P[i])
    BY <2>1, <2>2 DEF Q
  <2>4. PairList(Q)
    BY <1>5, <2>3, ChangedPairs
  <2> QED BY <2>4 DEF Q
<1>8. told \subseteq Macs \X Macs
  <2>1. rest \subseteq 1 .. n
    OBVIOUS
  <2>2. \A i \in 1 .. n : Tell(Near(P[i]), Far(P[i])) \in Macs \X Macs
    BY <1>6, ToldOf DEF Tell
  <2> HIDE DEF rest
  <2> QED BY <2>1, <2>2
<1> HIDE DEF told
<1>9. out'.told = told /\ out'.exchanged = FALSE
  BY <1>2 DEF Quiet
<1>10. edges' = edges /\ phase' = phase
  BY DEF LoopTail
<1> QED BY <1>7, <1>8, <1>9, <1>10 DEF PunchInv, ExchangeFresh

\* The ages of a pair that has not expired stay within their bounds.
LEMMA LaterPair ==
    ASSUME NEW p \in GoodPair, NEW secs \in {0, 1}, ~Expired(p), ~Due(p)
    PROVE  Later(p, secs) \in GoodPair /\ SamePair(Later(p, secs), p)
<1> DEFINE a == p.act + secs
           e == CapAt(Refresh, p.exAge + secs)
           x == IF p.seenA = None THEN None ELSE CapAt(MaxDiff, p.seenA + 1)
           y == IF p.seenB = None THEN None ELSE CapAt(MaxDiff, p.seenB + 1)
           d == IF p.due = None THEN None ELSE p.due - 1
           q == [p EXCEPT !.act = a, !.exAge = e, !.seenA = x, !.seenB = y, !.due = d]
<1>0. /\ p.act \in 0 .. Hold + 1 /\ p.exAge \in 0 .. Refresh /\ p.seenA \in None .. MaxDiff
      /\ p.seenB \in None .. MaxDiff /\ p.due \in None .. Second
      /\ Hold \in Nat /\ Refresh \in Nat /\ MaxDiff \in Nat /\ Second \in Nat
  BY PunchConstants DEF GoodPair, Pair
<1>1. a \in 0 .. Hold + 1
  BY <1>0 DEF Expired
<1>2. e \in 0 .. Refresh
  BY <1>0 DEF CapAt
<1>3. x \in None .. MaxDiff
  BY <1>0 DEF CapAt, None
<1>4. y \in None .. MaxDiff
  BY <1>0 DEF CapAt, None
<1>5. d \in None .. Second
  BY <1>0 DEF Due, None
<1>6. Later(p, secs) = q
  BY DEF Later
<1> HIDE DEF a, e, x, y, d
<1>7. q \in GoodPair /\ SamePair(q, p)
  BY <1>1, <1>2, <1>3, <1>4, <1>5 DEF GoodPair, Pair, SamePair
<1> QED BY <1>6, <1>7

\* The clock keeps it.
LEMMA PunchTickKeeps ==
    ASSUME PunchInv, Tick
    PROVE  PunchInv'
<1> DEFINE secs == IF phase = Second - 1 THEN 1 ELSE 0
           Q == [i \in DOMAIN pairs |-> Later(pairs[i], secs)]
<1>1. pairs' = Q /\ phase' = (phase + 1) % Second /\ out' = Quiet /\ edges' = edges
  BY DEF Tick
<1>2. secs \in {0, 1}
  OBVIOUS
<1> HIDE DEF secs
<1>3. \A i \in DOMAIN pairs : Q[i] \in GoodPair /\ SamePair(Q[i], pairs[i])
  <2>1. \A i \in DOMAIN pairs : pairs[i] \in GoodPair /\ ~Expired(pairs[i]) /\ ~Due(pairs[i])
    BY InList DEF PunchInv, Tick
  <2>2. \A i \in DOMAIN pairs : /\ Later(pairs[i], secs) \in GoodPair
                                /\ SamePair(Later(pairs[i], secs), pairs[i])
    BY <1>2, <2>1, LaterPair
  <2> QED BY <2>2
<1>4. Q = [i \in DOMAIN pairs |-> Q[i]]
  OBVIOUS
<1>5. PairList(Q)
  <2> HIDE DEF Q
  <2> QED BY <1>3, <1>4, ChangedPairs DEF PunchInv
<1>6. phase' \in 0 .. Second - 1
  BY <1>1, PunchConstants DEF PunchInv
<1> HIDE DEF Q
<1> QED BY <1>1, <1>5, <1>6, QuietOut DEF PunchInv, ExchangeFresh

\* The table is empty at first.
LEMMA PunchStarts == Init => PunchInv
<1> SUFFICES ASSUME Init PROVE PunchInv
  OBVIOUS
<1>1. <<>> \in Seq(GoodPair) /\ DOMAIN <<>> = {}
  OBVIOUS
<1>2. PairList(<<>>)
  BY <1>1 DEF PairList
<1>3. 0 \in 0 .. Second - 1
  BY PunchConstants
<1> QED BY <1>2, <1>3, QuietOut DEF Init, PunchInv, ExchangeFresh

\* Every step of the punch table keeps its invariant.
LEMMA PunchStep == PunchInv /\ [Next]_vars => PunchInv'
<1> SUFFICES ASSUME PunchInv, [Next]_vars PROVE PunchInv'
  OBVIOUS
<1>1. ASSUME NEW q \in Asks, NEW c \in Communities, QueryPeer(q[1], q[2], c) PROVE PunchInv'
  BY <1>1, QueryPeerKeeps
<1>2. ASSUME NEW m \in Macs, NEW c \in Communities, RegisterRound(m, c) PROVE PunchInv'
  BY <1>2, RegisterRoundKeeps
<1>3. ASSUME NEW m \in Macs, RegisterPlain(m) \/ EdgeGone(m) PROVE PunchInv'
  <2>1. pairs' = pairs /\ phase' = phase /\ out' = Quiet /\ edges' \subseteq Macs
    BY <1>3 DEF RegisterPlain, EdgeGone, PunchInv
  <2> QED BY <2>1, QuietOut DEF PunchInv, ExchangeFresh
<1>4. CASE LoopTail
  BY <1>4, LoopTailKeeps
<1>5. CASE Tick
  BY <1>5, PunchTickKeeps
<1>6. CASE UNCHANGED vars
  BY <1>6 DEF vars, PunchInv, ExchangeFresh
<1> QED BY <1>1, <1>2, <1>3, <1>4, <1>5, <1>6 DEF Next

\* The invariant has the table's types, and one pair for two edges.
LEMMA PunchInvGives == PunchInv => TypeOK /\ OnePairEach
<1> SUFFICES ASSUME PunchInv PROVE TypeOK /\ OnePairEach
  OBVIOUS
<1>1. pairs \in Seq(GoodPair) /\ GoodPair \subseteq Pair
  BY DEF PunchInv, PairList, GoodPair
<1>2. pairs \in Seq(Pair)
  BY <1>1, SeqMonotonic
<1>3. ASSUME NEW i \in DOMAIN pairs, NEW j \in DOMAIN pairs,
             pairs[i].comm = pairs[j].comm,
             {pairs[i].a, pairs[i].b} = {pairs[j].a, pairs[j].b}
      PROVE  i = j
  <2>1. pairs[i] \in GoodPair /\ pairs[j] \in GoodPair
    BY InList DEF PunchInv
  <2>2. /\ pairs[i].a \in Nat /\ pairs[i].b \in Nat /\ pairs[i].a <= pairs[i].b
        /\ pairs[j].a \in Nat /\ pairs[j].b \in Nat /\ pairs[j].a <= pairs[j].b
    BY <2>1, PunchConstants DEF GoodPair, Pair
  <2>3. pairs[i].a = pairs[j].a /\ pairs[i].b = pairs[j].b
    <3>1. /\ pairs[i].a = pairs[j].a \/ pairs[i].a = pairs[j].b
          /\ pairs[i].b = pairs[j].a \/ pairs[i].b = pairs[j].b
          /\ pairs[j].a = pairs[i].a \/ pairs[j].a = pairs[i].b
          /\ pairs[j].b = pairs[i].a \/ pairs[j].b = pairs[i].b
      BY <1>3
    <3> QED BY <2>2, <3>1
  <2> QED BY <1>3, <2>3 DEF PunchInv, PairList, SamePair
<1> QED BY <1>2, <1>3 DEF PunchInv, TypeOK, OnePairEach

-----------------------------------------------------------------------------
(* The relay: its types are inductive as they stand                          *)

\* RelayAssumption, as far as the types need it.
LEMMA RelayConstants ==
    /\ Proven \in Nat \ {0} /\ AckSecs \in Nat \ {0} /\ Member \in Nat \ {0}
    /\ GateSecs \in Nat \ {0} /\ Throttle \in Nat \ {0}
BY RelayAssumed DEF R!RelayAssumption

\* The conjuncts of the type invariant: flags, clocks, and the relays themselves.
Flags  == giveup \in BOOLEAN /\ due \in BOOLEAN /\ direct \in BOOLEAN
Clocks == /\ proven \in 0 .. Proven + 1 /\ ack \in 0 .. AckSecs + 1
          /\ first \in -1 .. GateSecs /\ adv \in 0 .. Throttle
Relayed == /\ relay \in Relays \cup {NoRelay} /\ via \subseteq {"relay", "sn"}
           /\ up \subseteq Relays /\ mode \subseteq up
           /\ member \in [Relays -> -1 .. Member] /\ \A r \in Relays \ up : member[r] = -1
           /\ listed \subseteq Relays \cup {Peer}
RelayTypes == Flags /\ Clocks /\ Relayed

\* The edge's relay has the types its module says.
LEMMA RelayTypesAre == RelayTypes <=> R!TypeOK
<1>1. Flags <=> {giveup, due, direct} \subseteq BOOLEAN
  BY DEF Flags
<1> QED BY <1>1 DEF RelayTypes, Clocks, Relayed, R!TypeOK, R!Never

\* It has them at first.
LEMMA RelayStarts == R!Init => RelayTypes
<1> SUFFICES ASSUME R!Init PROVE RelayTypes
  OBVIOUS
<1>1. Flags
  BY DEF R!Init, Flags
<1>2. Clocks
  BY RelayConstants DEF R!Init, Clocks, R!Never
<1>3. Relayed
  BY RelayConstants DEF R!Init, Relayed, R!Never
<1> QED BY <1>1, <1>2, <1>3 DEF RelayTypes

\* A timer that is moved on stays below its bound.
LEMMA OlderType ==
    ASSUME NEW n \in Nat
    PROVE  /\ \A t \in 0 .. n : R!Older(t, n) \in 0 .. n
           /\ \A t \in -1 .. n : R!Older(t, n) \in -1 .. n
BY DEF R!Older, R!Never

\* Every step of the relay keeps them.
LEMMA RelaySteps == RelayTypes /\ [R!Next]_relayVars => RelayTypes'
<1> SUFFICES ASSUME RelayTypes, [R!Next]_relayVars PROVE RelayTypes'
  OBVIOUS
<1> USE DEF R!edge, R!sn
<1>0. Flags /\ Clocks /\ Relayed
  BY DEF RelayTypes
<1>1. ASSUME NEW sent \in BOOLEAN, R!Send(sent) PROVE RelayTypes'
  <2>1. Flags'
    BY <1>0, <1>1 DEF R!Send, Flags
  <2>2. Clocks'
    BY <1>0, <1>1, RelayConstants, OlderType DEF R!Send, Clocks, R!Never
  <2>3. Relayed'
    BY <1>0, <1>1, RelayConstants, OlderType DEF R!Send, Relayed, R!Never
  <2> QED BY <2>1, <2>2, <2>3 DEF RelayTypes
<1>2. ASSUME NEW r \in Relays, R!RecvRelayed(r) PROVE RelayTypes'
  <2>1. Flags'
    BY <1>0, <1>2 DEF R!RecvRelayed, Flags
  <2>2. Clocks'
    BY <1>0, <1>2, RelayConstants, OlderType DEF R!RecvRelayed, Clocks, R!Never
  <2>3. Relayed'
    BY <1>0, <1>2, RelayConstants, OlderType DEF R!RecvRelayed, Relayed, R!Never
  <2> QED BY <2>1, <2>2, <2>3 DEF RelayTypes
<1>3. ASSUME NEW r \in Relays, R!Crash(r) PROVE RelayTypes'
  <2>1. Flags'
    BY <1>0, <1>3 DEF R!Crash, Flags
  <2>2. Clocks'
    BY <1>0, <1>3, RelayConstants, OlderType DEF R!Crash, Clocks, R!Never
  <2>3. Relayed'
    BY <1>0, <1>3, RelayConstants, OlderType DEF R!Crash, Relayed, R!Never
  <2> QED BY <2>1, <2>2, <2>3 DEF RelayTypes
<1>4. ASSUME NEW r \in Relays, R!Restart(r) PROVE RelayTypes'
  <2>1. Flags'
    BY <1>0, <1>4 DEF R!Restart, Flags
  <2>2. Clocks'
    BY <1>0, <1>4, RelayConstants, OlderType DEF R!Restart, Clocks, R!Never
  <2>3. Relayed'
    BY <1>0, <1>4, RelayConstants, OlderType DEF R!Restart, Relayed, R!Never
  <2> QED BY <2>1, <2>2, <2>3 DEF RelayTypes
<1>5. ASSUME NEW r \in Relays, R!Unlist(r) PROVE RelayTypes'
  <2>1. Flags'
    BY <1>0, <1>5 DEF R!Unlist, Flags
  <2>2. Clocks'
    BY <1>0, <1>5, RelayConstants, OlderType DEF R!Unlist, Clocks, R!Never
  <2>3. Relayed'
    BY <1>0, <1>5, RelayConstants, OlderType DEF R!Unlist, Relayed, R!Never
  <2> QED BY <2>1, <2>2, <2>3 DEF RelayTypes
<1>6. ASSUME NEW r \in Relays, NEW told \in BOOLEAN, NEW self \in BOOLEAN, R!Advertise(r, told, self)
      PROVE  RelayTypes'
  <2>1. Flags'
    BY <1>0, <1>6 DEF R!Advertise, R!Learn, Flags
  <2>2. Clocks'
    BY <1>0, <1>6, RelayConstants, OlderType DEF R!Advertise, R!Learn, Clocks, R!Never
  <2>3. Relayed'
    BY <1>0, <1>6, RelayConstants, OlderType DEF R!Advertise, R!Learn, Relayed, R!Never
  <2> QED BY <2>1, <2>2, <2>3 DEF RelayTypes
<1>7. ASSUME NEW got \in BOOLEAN, NEW back \in BOOLEAN, NEW retry \in BOOLEAN,
             R!check_relay(got, back, retry)
      PROVE  RelayTypes'
  <2>1. Flags'
    BY <1>0, <1>7 DEF R!check_relay, R!Heartbeat, Flags
  <2>2. Clocks'
    BY <1>0, <1>7, RelayConstants, OlderType DEF R!check_relay, R!Heartbeat, Clocks, R!Never
  <2>3. Relayed'
    BY <1>0, <1>7, RelayConstants, OlderType DEF R!check_relay, R!Heartbeat, Relayed, R!Never
  <2> QED BY <2>1, <2>2, <2>3 DEF RelayTypes
<1>8. CASE R!Forward
  <2>1. Flags'
    BY <1>0, <1>8 DEF R!Forward, Flags
  <2>2. Clocks'
    BY <1>0, <1>8, RelayConstants, OlderType DEF R!Forward, Clocks, R!Never
  <2>3. Relayed'
    BY <1>0, <1>8, RelayConstants, OlderType DEF R!Forward, Relayed, R!Never
  <2> QED BY <2>1, <2>2, <2>3 DEF RelayTypes
<1>9. CASE R!Tick
  <2>1. Flags'
    BY <1>0, <1>9 DEF R!Tick, R!Aged, Flags
  <2>2. Clocks'
    BY <1>0, <1>9, RelayConstants, OlderType DEF R!Tick, R!Aged, Clocks, R!Never
  <2>3. Relayed'
    BY <1>0, <1>9, RelayConstants, OlderType DEF R!Tick, R!Aged, Relayed, R!Never
  <2> QED BY <2>1, <2>2, <2>3 DEF RelayTypes
<1>10. CASE R!Direct
  <2>1. Flags'
    BY <1>0, <1>10 DEF R!Direct, Flags
  <2>2. Clocks'
    BY <1>0, <1>10, RelayConstants, OlderType DEF R!Direct, Clocks, R!Never
  <2>3. Relayed'
    BY <1>0, <1>10, RelayConstants, OlderType DEF R!Direct, Relayed, R!Never
  <2> QED BY <2>1, <2>2, <2>3 DEF RelayTypes
<1>11. CASE UNCHANGED relayVars
  BY <1>11, <1>0 DEF relayVars, RelayTypes, Flags, Clocks, Relayed
<1> QED BY <1>1, <1>2, <1>3, <1>4, <1>5, <1>6, <1>7, <1>8, <1>9, <1>10, <1>11 DEF R!Next

-----------------------------------------------------------------------------
(* Both parts                                                                *)

PathsInv == PunchInv /\ RelayTypes

\* A step of either part keeps both invariants.
LEMMA PathsStep == PathsInv /\ [PartNext]_all => PathsInv'
<1> SUFFICES ASSUME PathsInv, [PartNext]_all PROVE PathsInv'
  OBVIOUS
<1>1. CASE Punching(Next)
  <2>1. [Next]_vars /\ UNCHANGED relayVars
    BY <1>1 DEF Punching
  <2> QED BY <2>1, PunchStep, RelaySteps DEF PathsInv
<1>2. CASE Relaying(R!Next)
  <2>1. [R!Next]_relayVars /\ UNCHANGED vars
    BY <1>2 DEF Relaying
  <2> QED BY <2>1, PunchStep, RelaySteps DEF PathsInv
<1>3. CASE UNCHANGED all
  <2>1. UNCHANGED vars /\ UNCHANGED relayVars
    BY <1>3 DEF all
  <2> QED BY <2>1, PunchStep, RelaySteps DEF PathsInv
<1> QED BY <1>1, <1>2, <1>3 DEF PartNext

\* They hold always.
LEMMA PathsInvAlways == PartSpec => []PathsInv
<1>1. PartInit => PathsInv
  BY PunchStarts, RelayStarts DEF PartInit, PathsInv
<1> QED BY <1>1, PathsStep, PTL DEF PartSpec, PartSafe

\* Whoever asks for whom and registers in whatever order, two edges of a
\* community have one pair of the supernode's list, where both their
\* registrations meet (sn_pair_touch), and the fields of struct sn_punch_pair and
\* of the edge's relay state stay in their ranges (check_relay).
THEOREM ShapeHolds == PartSpec => []Shape
<1>1. PathsInv => Shape
  BY PunchInvGives, RelayTypesAre DEF PathsInv, Shape
<1> QED BY <1>1, PathsInvAlways, PTL

\* No exchange of addresses happens before both edges of the pair have registered
\* since the one before: sn_pair_on_register uses no registration twice.
THEOREM ExchangesAreFresh == PartSpec => []ExchangeFresh
<1>1. PathsInv => ExchangeFresh
  BY DEF PathsInv, PunchInv
<1> QED BY <1>1, PathsInvAlways, PTL

-----------------------------------------------------------------------------
(* The supernode's forwarding                                                *)

\* The table of connections: an open one has an edge at its other end.
ConnTable ==
    {cs \in [Slots -> [state : {"free", "open", "closed"}, who : Members \cup {NoOne}, alive : BOOLEAN,
                       idle : BOOLEAN, room : 0 .. Buffer]] :
        \A s \in Slots : cs[s].state = "open" => cs[s].who \in Members}

\* The inductive invariant of SnForward: a community with a legacy edge that has
\* been heard is not all compact.
ForwardInv ==
    /\ F!TypeOK
    /\ conns \in ConnTable
    /\ where \in [Members -> Endpoints \cup {TcpAddr}]
    /\ frames \subseteq [for : Members, fmt : {"legacy", "compact"}]
    /\ \A m \in heard : ~all_compact[Comm[m]]
    /\ F!HeardReadable

\* A set that has 0 and, with each number below n, the next one, has all up to n.
LEMMA Upward ==
    ASSUME NEW n \in Nat, NEW Good, 0 \in Good, \A i \in 1 .. n : i - 1 \in Good => i \in Good
    PROVE  0 .. n \subseteq Good
<1> SUFFICES ASSUME (0 .. n) \ Good # {} PROVE FALSE
  OBVIOUS
<1>1. PICK x \in (0 .. n) \ Good : \A y \in (0 .. n) \ Good : x <= y
  <2>1. (0 .. n) \ Good \subseteq Nat
    OBVIOUS
  <2> QED BY <2>1, LeastOf
<1>2. x \in 1 .. n /\ x - 1 \in 0 .. n /\ ~(x <= x - 1)
  OBVIOUS
<1> QED BY <1>1, <1>2

\* The greatest element of an interval from 1.
LEMMA MaxUpTo ==
    ASSUME NEW n \in Nat \ {0}, NEW s, s \subseteq 1 .. n, n \in s
    PROVE  (CHOOSE x \in s : \A y \in s : x >= y) = n
<1>1. n \in s /\ \A y \in s : n >= y
  OBVIOUS
<1>2. \A x \in s : (\A y \in s : x >= y) => x = n
  OBVIOUS
<1> QED BY <1>1, <1>2

\* A set of numbers from 1 to n that is not empty has a greatest element.
LEMMA MaxExists ==
    ASSUME NEW n \in Nat, NEW s \in SUBSET (1 .. n), s # {}
    PROVE  (CHOOSE x \in s : \A y \in s : x >= y) \in s
<1> DEFINE U == {n - y : y \in s}
<1>1. U \subseteq Nat /\ U # {}
  <2>1. \A y \in s : n - y \in Nat
    OBVIOUS
  <2> QED BY <2>1
<1>2. PICK u \in U : \A v \in U : u <= v
  <2> HIDE DEF U
  <2> QED BY <1>1, LeastOf
<1>3. PICK x \in s : u = n - x
  OBVIOUS
<1>4. \A y \in s : x >= y
  <2>1. \A y \in s : n - x <= n - y
    BY <1>2, <1>3
  <2> QED BY <2>1
<1> QED BY <1>4

\* What the folds of the community modules compute is defined for every list: a
\* table over the sets of indices, each from the one without its greatest.
IsTable(n, base, g, h) ==
    \A s \in SUBSET (1 .. n) :
       h[s] = IF s = {} THEN base
              ELSE g[CHOOSE x \in s : \A y \in s : x >= y]
                    [h[s \ {CHOOSE x \in s : \A y \in s : x >= y}]]

\* There is such a table for every list.
LEMMA FoldTable ==
    ASSUME NEW n \in Nat, NEW A, NEW base \in A, NEW g \in [1 .. n -> [A -> A]]
    PROVE  \E h \in [SUBSET (1 .. n) -> A] : IsTable(n, base, g, h)
<1> DEFINE Top(s) == CHOOSE x \in s : \A y \in s : x >= y
           Good(k, h) == \A s \in SUBSET (1 .. k) :
                             h[s] = IF s = {} THEN base ELSE g[Top(s)][h[s \ {Top(s)}]]
           K == {k \in 0 .. n : \E h \in [SUBSET (1 .. k) -> A] : Good(k, h)}
<1>1. 0 \in K
  <2> DEFINE h == [s \in SUBSET (1 .. 0) |-> base]
  <2>1. \A s \in SUBSET (1 .. 0) : s = {}
    OBVIOUS
  <2>2. h \in [SUBSET (1 .. 0) -> A] /\ Good(0, h)
    BY <2>1
  <2>3. \E e \in [SUBSET (1 .. 0) -> A] : Good(0, e)
    <3> HIDE DEF h, Good
    <3> QED BY <2>2, Zenon
  <2>4. 0 \in 0 .. n
    OBVIOUS
  <2> HIDE DEF h, Good
  <2> QED BY <2>3, <2>4
<1>2. ASSUME NEW k \in 1 .. n, k - 1 \in K PROVE k \in K
  <2>1. PICK h \in [SUBSET (1 .. k - 1) -> A] : Good(k - 1, h)
    BY <1>2
  <2> DEFINE e == [s \in SUBSET (1 .. k) |-> IF k \in s THEN g[k][h[s \ {k}]] ELSE h[s]]
  <2>2. k \in Nat \ {0} /\ \A s \in SUBSET (1 .. k) : s \ {k} \in SUBSET (1 .. k - 1) /\ (k \notin s => s \in SUBSET (1 .. k - 1))
    OBVIOUS
  <2>3. g[k] \in [A -> A]
    OBVIOUS
  <2>4. e \in [SUBSET (1 .. k) -> A]
    BY <2>2, <2>3
  <2>5. ASSUME NEW s \in SUBSET (1 .. k)
        PROVE  e[s] = IF s = {} THEN base ELSE g[Top(s)][e[s \ {Top(s)}]]
    <3>1. CASE k \in s
      <4>0. s \subseteq 1 .. k
        OBVIOUS
      <4>1. Top(s) = k
        BY <3>1, <2>2, <4>0, MaxUpTo
      <4>2. s \ {k} \in SUBSET (1 .. k) /\ k \notin s \ {k}
        OBVIOUS
      <4>3. e[s \ {k}] = h[s \ {k}] /\ e[s] = g[k][h[s \ {k}]]
        BY <4>2, <3>1
      <4> HIDE DEF e, Top
      <4> QED BY <4>1, <4>3, <3>1
    <3>2. CASE k \notin s
      <4>1. s \in SUBSET (1 .. k - 1) /\ e[s] = h[s]
        BY <3>2, <2>2
      <4>2. h[s] = IF s = {} THEN base ELSE g[Top(s)][h[s \ {Top(s)}]]
        BY <4>1, <2>1
      <4>3. s \ {Top(s)} \in SUBSET (1 .. k) /\ k \notin s \ {Top(s)}
        BY <3>2
      <4>4. e[s \ {Top(s)}] = h[s \ {Top(s)}]
        BY <4>3
      <4> HIDE DEF e, Top
      <4> QED BY <4>1, <4>2, <4>4
    <3> QED BY <3>1, <3>2
  <2>6. Good(k, e)
    <3> HIDE DEF e, Top
    <3> QED BY <2>5
  <2> HIDE DEF e, Good
  <2> QED BY <2>4, <2>6
<1>3. n \in K
  <2> HIDE DEF K
  <2>1. 0 .. n \subseteq K
    BY <1>1, <1>2, Upward
  <2> QED BY <2>1
<1> QED BY <1>3 DEF IsTable

\* A list of records of which no two are of one edge.
ListOk(es) ==
    /\ es \in Seq(F!Record)
    /\ \A i, j \in DOMAIN es : es[i].mac = es[j].mac => i = j

\* The assumptions on the constants, instantiated.
LEMMA ForwardConstants ==
    /\ NoOne \notin Members /\ TcpAddr \notin Endpoints
    /\ Slots \subseteq Nat /\ 0 \notin Slots
    /\ Legacy \subseteq Members /\ OnWs \subseteq Members
    /\ FanOuts \subseteq Nat /\ Buffer \in Nat
BY ForwardAssumed DEF F!ForwardAssumption

\* A choice of the first takes one of those there are.
LEMMA FirstIn ==
    ASSUME NEW T, T \subseteq Nat, T # {}
    PROVE  F!First(T) \in T
<1>1. PICK x \in T : \A y \in T : x <= y
  BY LeastOf
<1> QED BY <1>1 DEF F!First

\* The records an edge is looked for in, by what is asked.
LEMMA Lookups ==
    ASSUME ListOk(list)
    PROVE  /\ \A m : F!find_peer_by_mac(m) = {i \in DOMAIN list : list[i].mac = m}
           /\ \A a : F!find_peer_by_sock(a) = {i \in DOMAIN list : list[i].addr = a}
           /\ \A s : F!PeerOfConn(s) = {i \in DOMAIN list : list[i].ws = s}
           /\ \A T \in SUBSET (DOMAIN list) : T # {} => F!First(T) \in T
           /\ \A i \in DOMAIN list : list[i] \in F!Record
<1>1. DOMAIN list \subseteq Nat /\ \A i \in DOMAIN list : list[i] \in F!Record
  BY DEF ListOk
<1>2. \A T \in SUBSET (DOMAIN list) : T # {} => F!First(T) \in T
  BY <1>1, FirstIn
<1> QED BY <1>1, <1>2 DEF F!find_peer_by_mac, F!find_peer_by_sock, F!PeerOfConn, F!Index

\* update_edge keeps one record for each edge.
LEMMA UpdateKeeps ==
    ASSUME ListOk(list), NEW m \in Members, NEW a \in Endpoints \cup {TcpAddr}, NEW s \in Slots \cup {0}
    PROVE  ListOk(F!update_edge(m, a, s))
<1> DEFINE known == F!find_peer_by_mac(m)
           new   == [mac |-> m, addr |-> a, ws |-> s, compact |-> FALSE]
<1>1. known = {i \in DOMAIN list : list[i].mac = m} /\ (known # {} => F!First(known) \in known)
  BY Lookups
<1>2. list \in Seq(F!Record) /\ \A i \in DOMAIN list : list[i] \in F!Record
  BY Lookups DEF ListOk
<1>3. CASE known = {}
  <2>1. F!update_edge(m, a, s) = <<new>> \o list
    BY <1>3 DEF F!update_edge
  <2>2. new \in F!Record
    BY DEF F!Record
  <2>3. <<new>> \in Seq(F!Record) /\ Len(<<new>>) = 1 /\ <<new>>[1] = new
    BY <2>2
  <2> HIDE DEF new
  <2>4. <<new>> \o list \in Seq(F!Record) /\ Len(<<new>> \o list) = 1 + Len(list)
    BY <2>3, <1>2, ConcatProperties
  <2>5. \A i \in DOMAIN (<<new>> \o list) : (<<new>> \o list)[i] = IF i = 1 THEN new ELSE list[i - 1]
    BY <2>3, <2>4, <1>2, ConcatProperties
  <2>6. \A i \in DOMAIN (<<new>> \o list) : i # 1 => i - 1 \in DOMAIN list
    BY <2>4, <1>2
  <2>7. \A i \in DOMAIN list : list[i].mac # m
    BY <1>1, <1>3
  <2>8. new.mac = m
    BY DEF new
  <2>9. \A i, j \in DOMAIN (<<new>> \o list) : (<<new>> \o list)[i].mac = (<<new>> \o list)[j].mac => i = j
    <3> SUFFICES ASSUME NEW i \in DOMAIN (<<new>> \o list), NEW j \in DOMAIN (<<new>> \o list),
                        (<<new>> \o list)[i].mac = (<<new>> \o list)[j].mac
                 PROVE  i = j
      OBVIOUS
    <3>0. i \in Nat /\ j \in Nat
      BY <2>4
    <3>1. CASE i = 1
      BY <3>1, <2>5, <2>6, <2>7, <2>8
    <3>2. CASE j = 1
      BY <3>2, <2>5, <2>6, <2>7, <2>8
    <3>3. CASE i # 1 /\ j # 1
      <4>1. list[i - 1].mac = list[j - 1].mac /\ i - 1 \in DOMAIN list /\ j - 1 \in DOMAIN list
        BY <3>3, <2>5, <2>6
      <4>2. i - 1 = j - 1
        BY <4>1 DEF ListOk
      <4> QED BY <4>2, <3>0
    <3> QED BY <3>1, <3>2, <3>3
  <2> QED BY <2>1, <2>4, <2>9 DEF ListOk
<1>4. CASE known # {}
  <2> DEFINE k == F!First(known)
             put == [list[k] EXCEPT !.addr = a, !.ws = IF s = 0 THEN @ ELSE s]
  <2>1. k \in DOMAIN list /\ list[k].mac = m
    BY <1>1, <1>4
  <2>2. F!update_edge(m, a, s) = [list EXCEPT ![k] = put]
    BY <1>4 DEF F!update_edge
  <2> HIDE DEF k
  <2>3. put \in F!Record /\ put.mac = list[k].mac
    BY <2>1, <1>2 DEF F!Record
  <2> HIDE DEF put
  <2>4. [list EXCEPT ![k] = put] \in Seq(F!Record) /\ DOMAIN [list EXCEPT ![k] = put] = DOMAIN list
    BY <2>1, <2>3, <1>2
  <2>5. \A i \in DOMAIN list : [list EXCEPT ![k] = put][i].mac = list[i].mac
    BY <2>1, <2>3
  <2> QED BY <2>2, <2>4, <2>5 DEF ListOk
<1> QED BY <1>3, <1>4

\* The sender's new endpoint keeps one record for each edge.
LEMMA LearnKeeps ==
    ASSUME ListOk(list), NEW m \in Members, NEW a \in Endpoints \cup {TcpAddr}
    PROVE  ListOk(F!LearnSender(m, a))
<1> DEFINE known == F!find_peer_by_mac(m)
           k     == F!First(known)
           put   == [list[k] EXCEPT !.addr = a]
<1>1. CASE known = {}
  BY <1>1 DEF F!LearnSender
<1>2. CASE known # {}
  <2>1. k \in DOMAIN list /\ list[k] \in F!Record /\ list \in Seq(F!Record)
    BY <1>2, Lookups DEF ListOk
  <2>2. F!LearnSender(m, a) = [list EXCEPT ![k] = put]
    BY <1>2, <2>1 DEF F!LearnSender
  <2> HIDE DEF k
  <2>3. put \in F!Record /\ put.mac = list[k].mac
    BY <2>1 DEF F!Record
  <2> HIDE DEF put
  <2>4. [list EXCEPT ![k] = put] \in Seq(F!Record) /\ DOMAIN [list EXCEPT ![k] = put] = DOMAIN list
    BY <2>1, <2>3
  <2>5. \A i \in DOMAIN list : [list EXCEPT ![k] = put][i].mac = list[i].mac
    BY <2>1, <2>3
  <2> QED BY <2>2, <2>4, <2>5 DEF ListOk
<1> QED BY <1>1, <1>2

\* So does a record that is known to be of an edge with the compact format.
LEMMA MarkKeeps ==
    ASSUME ListOk(list), NEW k \in DOMAIN list
    PROVE  ListOk([list EXCEPT ![k].compact = TRUE])
<1> DEFINE put == [list[k] EXCEPT !.compact = TRUE]
           new == [list EXCEPT ![k].compact = TRUE]
<1>1. list[k] \in F!Record /\ list \in Seq(F!Record)
  BY DEF ListOk
<1>2. new = [list EXCEPT ![k] = put]
  BY <1>1
<1>3. put \in F!Record /\ put.mac = list[k].mac
  BY <1>1 DEF F!Record
<1> HIDE DEF put, new
<1>4. new \in Seq(F!Record) /\ DOMAIN new = DOMAIN list
  BY <1>1, <1>2, <1>3
<1>5. \A i \in DOMAIN list : new[i].mac = list[i].mac
  BY <1>1, <1>2, <1>3
<1>6. ListOk(new)
  BY <1>4, <1>5 DEF ListOk
<1> QED BY <1>6 DEF new

\* A record that is taken out leaves the others.
LEMMA WithoutKeeps ==
    ASSUME ListOk(list), NEW m \in Members, F!find_peer_by_mac(m) # {}
    PROVE  ListOk(F!Without(m))
<1> DEFINE k == F!First(F!find_peer_by_mac(m))
           n == Len(list)
           before == SubSeq(list, 1, k - 1)
           after  == SubSeq(list, k + 1, n)
<1>1. k \in 1 .. n /\ n \in Nat /\ list \in Seq(F!Record)
  BY Lookups DEF ListOk
<1>2. F!Without(m) = before \o after
  BY DEF F!Without, F!RemoveAt
<1> HIDE DEF k, n
<1>3. before \in Seq(F!Record) /\ Len(before) = k - 1 /\ \A i \in 1 .. k - 1 : before[i] = list[i]
  <2>1. 1 \in 1 .. Len(list) + 1 /\ k - 1 \in 0 .. Len(list) /\ n = Len(list) /\ k \in Nat
    BY <1>1 DEF n
  <2> QED BY <2>1, <1>1, SubSeqProperties
<1>4. after \in Seq(F!Record) /\ Len(after) = n - k /\ \A i \in 1 .. n - k : after[i] = list[k + i]
  <2>1. k + 1 \in 1 .. Len(list) + 1 /\ n \in 0 .. Len(list) /\ n = Len(list) /\ k \in Nat
    BY <1>1 DEF n
  <2>2. after \in Seq(F!Record) /\ Len(after) = n - k
    BY <2>1, <1>1, SubSeqProperties
  <2>3. \A i \in 1 .. n - k : after[i] = list[k + 1 + i - 1]
    BY <2>1, <1>1, SubSeqProperties
  <2>4. \A i \in 1 .. n - k : k + 1 + i - 1 = k + i
    BY <1>1
  <2> HIDE DEF after
  <2> QED BY <2>2, <2>3, <2>4
<1> HIDE DEF before, after
<1>5. before \o after \in Seq(F!Record) /\ Len(before \o after) = n - 1
  <2>1. before \o after \in Seq(F!Record) /\ Len(before \o after) = Len(before) + Len(after)
    BY <1>3, <1>4, ConcatProperties
  <2> QED BY <2>1, <1>1, <1>3, <1>4
<1>6. \A i \in 1 .. n - 1 : (before \o after)[i] = IF i < k THEN list[i] ELSE list[i + 1]
  <2> SUFFICES ASSUME NEW i \in 1 .. n - 1
               PROVE  (before \o after)[i] = IF i < k THEN list[i] ELSE list[i + 1]
    OBVIOUS
  <2>1. i \in 1 .. Len(before) + Len(after)
    BY <1>1, <1>3, <1>4
  <2>2. (before \o after)[i] = IF i <= Len(before) THEN before[i] ELSE after[i - Len(before)]
    BY <2>1, <1>3, <1>4, ConcatProperties
  <2>3. CASE i < k
    <3>1. i \in 1 .. k - 1 /\ i <= k - 1
      BY <2>3, <1>1
    <3> QED BY <2>2, <2>3, <3>1, <1>3
  <2>4. CASE ~(i < k)
    <3>1. i - (k - 1) \in 1 .. n - k /\ ~(i <= k - 1) /\ k + (i - (k - 1)) = i + 1
      BY <2>4, <1>1
    <3> QED BY <2>2, <2>4, <3>1, <1>3, <1>4
  <2> QED BY <2>3, <2>4
<1> DEFINE from(i) == IF i < k THEN i ELSE i + 1
<1>7. \A i \in 1 .. n - 1 : from(i) \in DOMAIN list /\ (before \o after)[i] = list[from(i)]
  <2>1. DOMAIN list = 1 .. n
    BY <1>1 DEF n
  <2>2. \A i \in 1 .. n - 1 : from(i) \in 1 .. n
    BY <1>1
  <2>3. \A i \in 1 .. n - 1 : (before \o after)[i] = list[from(i)]
    BY <1>6
  <2> HIDE DEF from
  <2> QED BY <2>1, <2>2, <2>3
<1>8. \A i, j \in 1 .. n - 1 : from(i) = from(j) => i = j
  BY <1>1
<1>9. DOMAIN (before \o after) = 1 .. n - 1
  BY <1>5
<1> HIDE DEF from
<1> QED BY <1>2, <1>5, <1>7, <1>8, <1>9 DEF ListOk

\* A connection that is dropped leaves the records without it.
LEMMA DropKeeps ==
    ASSUME ListOk(list), NEW s \in Slots
    PROVE  ListOk([i \in DOMAIN list |-> IF list[i].ws = s THEN [list[i] EXCEPT !.ws = 0] ELSE list[i]])
<1> DEFINE new(i) == IF list[i].ws = s THEN [list[i] EXCEPT !.ws = 0] ELSE list[i]
<1>1. list \in Seq(F!Record) /\ Len(list) \in Nat /\ DOMAIN list = 1 .. Len(list)
  BY DEF ListOk
<1>2. \A i \in DOMAIN list : new(i) \in F!Record /\ new(i).mac = list[i].mac
  <2>1. \A i \in DOMAIN list : list[i] \in F!Record
    BY <1>1
  <2> QED BY <2>1 DEF F!Record
<1> HIDE DEF new
<1>3. [i \in DOMAIN list |-> new(i)] \in Seq(F!Record)
  BY <1>1, <1>2
<1> QED BY <1>2, <1>3 DEF ListOk, new

\* The fields of a connection.
Conn == [state : {"free", "open", "closed"}, who : Members \cup {NoOne}, alive : BOOLEAN,
         idle : BOOLEAN, room : 0 .. Buffer]

\* What a send may say of each connection.
Results == [Slots -> {"ok", "late", "dead"}]

\* ConnTable, in terms of one connection.
LEMMA ConnTableIs ==
    ASSUME NEW cs
    PROVE  cs \in ConnTable <=> /\ cs \in [Slots -> Conn]
                                /\ \A s \in Slots : cs[s].state = "open" => cs[s].who \in Members
BY DEF ConnTable, Conn

\* A slot that nobody uses.
LEMMA UnusedType ==
    /\ F!Unused \in Conn /\ F!Unused.state = "free"
    /\ [F!Unused EXCEPT !.state = "closed"] \in Conn
    /\ \A m \in Members : F!Opened(m) \in Conn /\ F!Opened(m).who = m
<1>1. Buffer \in 0 .. Buffer
  BY ForwardConstants
<1>2. F!Unused \in Conn /\ F!Unused.state = "free" /\ [F!Unused EXCEPT !.state = "closed"] \in Conn
  BY <1>1 DEF F!Unused, Conn
<1>3. ASSUME NEW m \in Members PROVE F!Opened(m) \in Conn /\ F!Opened(m).who = m
  BY <1>1 DEF F!Unused, F!Opened, Conn
<1> QED BY <1>2, <1>3

\* One slot of the table is replaced.
LEMMA SlotKeeps ==
    ASSUME NEW cs \in ConnTable, NEW s \in Slots, NEW c \in Conn, c.state = "open" => c.who \in Members
    PROVE  [cs EXCEPT ![s] = c] \in ConnTable
<1>1. cs \in [Slots -> Conn] /\ \A t \in Slots : cs[t].state = "open" => cs[t].who \in Members
  BY ConnTableIs
<1>2. [cs EXCEPT ![s] = c] \in [Slots -> Conn]
  BY <1>1
<1>3. \A t \in Slots : [cs EXCEPT ![s] = c][t] = IF t = s THEN c ELSE cs[t]
  BY <1>1
<1> QED BY <1>1, <1>2, <1>3, ConnTableIs

\* ws_send keeps a connection's fields and opens none.
LEMMA SendOne ==
    ASSUME NEW c \in Conn, NEW o \in {"ok", "late", "dead"}, c.who \in Members
    PROVE  /\ F!ws_send(c, o) \in Conn
           /\ F!ws_send(c, o).state = "open" => F!ws_send(c, o).who \in Members
<1>1. CASE o = "ok"
  <2>1. c.room \in 0 .. Buffer /\ Buffer \in Nat
    BY ForwardConstants DEF Conn
  <2>2. (IF c.alive \/ c.room = 0 THEN c.room ELSE c.room - 1) \in 0 .. Buffer
    BY <2>1
  <2>3. F!ws_send(c, o) = [c EXCEPT !.idle = FALSE, !.room = IF c.alive \/ c.room = 0 THEN c.room ELSE c.room - 1]
    BY <1>1 DEF F!ws_send, Conn
  <2> QED BY <2>2, <2>3 DEF Conn
<1>2. CASE o = "late"
  BY <1>2 DEF F!ws_send
<1>3. CASE o = "dead"
  <2>1. F!ws_send(c, o) = [F!Unused EXCEPT !.state = "closed"]
    BY <1>3 DEF F!ws_send
  <2> QED BY <2>1, UnusedType DEF F!Unused
<1> QED BY <1>1, <1>2, <1>3

\* sn_send_to_peer keeps the table.
LEMMA SendKeeps ==
    ASSUME NEW cs \in ConnTable, NEW r \in F!Record, NEW res \in Results
    PROVE  F!sn_send_to_peer(cs, r, res) \in ConnTable
<1>1. CASE F!Sends(cs, r)
  <2>1. r.ws \in Slots /\ cs[r.ws].state = "open"
    BY <1>1 DEF F!Sends, F!Record
  <2>2. cs[r.ws] \in Conn /\ cs[r.ws].who \in Members /\ res[r.ws] \in {"ok", "late", "dead"}
    BY <2>1, ConnTableIs DEF Results
  <2>3. F!sn_send_to_peer(cs, r, res) = [cs EXCEPT ![r.ws] = F!ws_send(cs[r.ws], res[r.ws])]
    BY <1>1, <2>1, ConnTableIs DEF F!sn_send_to_peer
  <2>4. /\ F!ws_send(cs[r.ws], res[r.ws]) \in Conn
        /\ F!ws_send(cs[r.ws], res[r.ws]).state = "open" => F!ws_send(cs[r.ws], res[r.ws]).who \in Members
    BY <2>2, SendOne
  <2>5. [cs EXCEPT ![r.ws] = F!ws_send(cs[r.ws], res[r.ws])] \in ConnTable
    BY <2>1, <2>4, SlotKeeps
  <2> QED BY <2>3, <2>5
<1>2. CASE ~F!Sends(cs, r)
  BY <1>2 DEF F!sn_send_to_peer
<1> QED BY <1>1, <1>2

\* The frames of a broadcast of m are for edges of its community, in one format.
FramesOf(m, fmt) == {f \in [for : Members, fmt : {fmt}] : Comm[f.for] = Comm[m]}

\* How far a broadcast has come.
Progress(m, fmt) == [cs : ConnTable, n : Nat, o : SUBSET FramesOf(m, fmt)]

\* One more record of the list.
LEMMA VisitKeeps ==
    ASSUME NEW m, NEW fmt, NEW limit, NEW res \in Results,
           NEW st \in Progress(m, fmt), NEW r \in F!Record
    PROVE  F!Visit(m, fmt, limit, res, st, r) \in Progress(m, fmt)
<1>0. st.cs \in ConnTable /\ st.n \in Nat /\ st.o \in SUBSET FramesOf(m, fmt)
  BY DEF Progress
<1>1. CASE Comm[r.mac] # Comm[m] \/ r.mac = m \/ st.n >= limit
  BY <1>1 DEF F!Visit
<1>2. CASE ~(Comm[r.mac] # Comm[m] \/ r.mac = m \/ st.n >= limit)
  <2>1. F!sn_send_to_peer(st.cs, r, res) \in ConnTable
    BY <1>0, SendKeeps
  <2>2. F!Frame(r, fmt) \in FramesOf(m, fmt)
    BY <1>2 DEF F!Frame, FramesOf, F!Record
  <2>3. st.n + 1 \in Nat
    BY <1>0
  <2> QED BY <1>0, <1>2, <2>1, <2>2, <2>3 DEF F!Visit, Progress
<1> QED BY <1>1, <1>2

\* try_broadcast keeps the table, and its frames are of the sender's community.
LEMMA Broadcasts ==
    ASSUME ListOk(list), conns \in ConnTable, NEW m, NEW fmt, NEW limit, NEW res \in Results,
           F!try_broadcast(m, fmt, limit, res)
    PROVE  conns' \in ConnTable /\ frames' \subseteq FramesOf(m, fmt)
<1> DEFINE n == Len(list)
           A == Progress(m, fmt)
           base == [cs |-> conns, n |-> 0, o |-> {}]
           Top(t) == CHOOSE x \in t : \A y \in t : x >= y
           Table(h) == h = [t \in SUBSET (DOMAIN list) |->
                              IF t = {} THEN base ELSE F!Visit(m, fmt, limit, res, h[t \ {Top(t)}], list[Top(t)])]
           g == [i \in 1 .. n |-> [a \in A |-> F!Visit(m, fmt, limit, res, a, list[i])]]
           iter == CHOOSE h : Table(h)
           f == [i \in 0 .. n |-> iter[1 .. i]]
<1>1. n \in Nat /\ DOMAIN list = 1 .. n /\ \A i \in 1 .. n : list[i] \in F!Record
  BY DEF ListOk
<1>2. base \in A /\ \A a \in A, i \in 1 .. n : F!Visit(m, fmt, limit, res, a, list[i]) \in A
  <2>1. base \in A
    BY DEF Progress
  <2> HIDE DEF n
  <2> QED BY <1>1, <2>1, VisitKeeps
<1> HIDE DEF A
<1>3. \E h : Table(h)
  <2>1. g \in [1 .. n -> [A -> A]]
    BY <1>2
  <2>2. PICK h \in [SUBSET (1 .. n) -> A] : IsTable(n, base, g, h)
    <3>1. n \in Nat /\ base \in A
      BY <1>1, <1>2
    <3> HIDE DEF g, n, base
    <3> QED BY <3>1, <2>1, FoldTable
  <2>3. ASSUME NEW t \in SUBSET (1 .. n), t # {}
        PROVE  h[t] = F!Visit(m, fmt, limit, res, h[t \ {Top(t)}], list[Top(t)])
    <3>1. Top(t) \in 1 .. n /\ t \ {Top(t)} \in SUBSET (1 .. n)
      <4> HIDE DEF Top
      <4>1. Top(t) \in t
        BY <1>1, <2>3, MaxExists DEF Top
      <4> QED BY <4>1
    <3>2. h[t \ {Top(t)}] \in A /\ h[t] = g[Top(t)][h[t \ {Top(t)}]]
      BY <2>2, <2>3, <3>1 DEF IsTable
    <3> HIDE DEF Top
    <3> QED BY <3>1, <3>2
  <2>4. Table(h)
    <3> HIDE DEF Top, base
    <3> QED BY <1>1, <2>2, <2>3 DEF IsTable
  <2> QED BY <2>4
<1>4. Table(iter)
  BY <1>3
<1>5. conns' = iter[DOMAIN list].cs /\ frames' = iter[DOMAIN list].o
  BY DEF F!try_broadcast, F!FoldLeft, F!MapThenFoldSet, F!Max
<1>6. f[0] = base /\ f[n] = iter[DOMAIN list]
  <2>1. 1 .. 0 = {} /\ 0 \in 0 .. n /\ n \in 0 .. n
    BY <1>1
  <2>2. iter[{}] = base
    <3> HIDE DEF iter
    <3> QED BY <1>4
  <2> HIDE DEF iter, base
  <2> QED BY <1>1, <2>1, <2>2
<1>7. ASSUME NEW i \in 1 .. n PROVE f[i] = F!Visit(m, fmt, limit, res, f[i - 1], list[i])
  <2>1. 1 .. i \in SUBSET (1 .. n) /\ 1 .. i # {} /\ i \in Nat \ {0} /\ i \in 1 .. i
    <3>1. n \in Nat /\ i \in Nat \ {0} /\ i \in 1 .. i
      BY <1>1
    <3>2. \A j \in 1 .. i : j \in 1 .. n
      BY <3>1
    <3> QED BY <3>1, <3>2
  <2>0. i \in 0 .. n /\ i - 1 \in 0 .. n
    BY <1>1
  <2>2. (1 .. i) \ {i} = 1 .. i - 1
    BY <1>1
  <2>3. Top(1 .. i) = i
    BY <2>1, MaxUpTo
  <2>4. iter[1 .. i] = F!Visit(m, fmt, limit, res, iter[(1 .. i) \ {i}], list[i])
    <3> HIDE DEF iter, Top, base
    <3> QED BY <1>1, <1>4, <2>1, <2>3
  <2> HIDE DEF iter
  <2> QED BY <2>0, <2>2, <2>4
<1>8. f[n] \in A
  <2> DEFINE Good == {i \in 0 .. n : f[i] \in A}
  <2>1. 0 \in Good
    <3> HIDE DEF f, base
    <3>1. f[0] \in A
      BY <1>2, <1>6, Zenon
    <3>2. 0 \in 0 .. n
      BY <1>1
    <3> QED BY <3>1, <3>2
  <2>2. \A i \in 1 .. n : i - 1 \in Good => i \in Good
    <3> HIDE DEF f
    <3> QED BY <1>1, <1>2, <1>7
  <2>3. 0 .. n \subseteq Good
    <3> HIDE DEF Good
    <3> QED BY <1>1, <2>1, <2>2, Upward
  <2>4. n \in 0 .. n
    BY <1>1
  <2> HIDE DEF f
  <2> QED BY <2>3, <2>4
<1> HIDE DEF f, iter
<1> QED BY <1>5, <1>6, <1>8 DEF A, Progress

\* What a send may say of each connection is a result.
LEMMA CanSendIs == \A res \in F!CanSend : res \in Results
BY DEF F!CanSend, F!Outcomes, Results

\* What a handler of a frame leaves: the list, the connections and the format of
\* what it broadcast.
Handled ==
    /\ ListOk(list') /\ conns' \in ConnTable
    /\ all_compact' \in [F!Communities -> BOOLEAN] /\ heard' \subseteq Legacy
    /\ \A m \in heard' : ~all_compact'[Comm[m]]
    /\ frames' \subseteq [for : Members, fmt : {"legacy", "compact"}]
    /\ \A f \in frames' : f.for \in heard' => f.fmt = "legacy"
    /\ where' = where

\* The parts of the invariant that the handlers read.
LEMMA InvParts ==
    ASSUME ForwardInv
    PROVE  /\ ListOk(list) /\ conns \in ConnTable
           /\ all_compact \in [F!Communities -> BOOLEAN] /\ heard \subseteq Legacy
           /\ \A m \in heard : ~all_compact[Comm[m]]
           /\ \A m \in Members : Comm[m] \in F!Communities /\ where[m] \in Endpoints \cup {TcpAddr}
BY DEF ForwardInv, ListOk, F!TypeOK, F!Communities

\* A frame for one receiver broadcasts nothing.
LEMMA UnicastKeeps ==
    ASSUME ForwardInv, NEW i \in DOMAIN list, NEW res \in Results, F!Unicast(i, res)
    PROVE  conns' \in ConnTable /\ frames' = {}
<1>1. list[i] \in F!Record /\ conns \in ConnTable
  BY InvParts, Lookups
<1> QED BY <1>1, SendKeeps DEF F!Unicast

\* A frame of edge m in the long format (process_udp, PACKET).
LEMMA LegacyKeeps ==
    ASSUME ForwardInv, NEW m \in Members, NEW a \in Endpoints \cup {TcpAddr},
           NEW dst, NEW limit, NEW res \in Results, F!PacketLegacy(m, a, dst, limit, res)
    PROVE  Handled
<1>1. /\ ListOk(list) /\ conns \in ConnTable
      /\ all_compact \in [F!Communities -> BOOLEAN] /\ heard \subseteq Legacy
      /\ \A n \in heard : ~all_compact[Comm[n]]
      /\ \A n \in Members : Comm[n] \in F!Communities
  BY InvParts
<1>2. /\ all_compact' = [all_compact EXCEPT ![Comm[m]] = FALSE]
      /\ heard' = heard \cup ({m} \cap Legacy)
      /\ list' = F!LearnSender(m, a) /\ where' = where
  BY DEF F!PacketLegacy, F!HearLegacy
<1>3. ListOk(list')
  BY <1>1, <1>2, LearnKeeps
<1>4. /\ all_compact' \in [F!Communities -> BOOLEAN] /\ heard' \subseteq Legacy
      /\ \A n \in heard' : ~all_compact'[Comm[n]]
  <2>1. \A n \in heard' : n \in heard \/ n = m
    BY <1>2
  <2>2. \A n \in heard' : Comm[n] \in F!Communities
    BY <1>1, <2>1, ForwardConstants
  <2> QED BY <1>1, <1>2, <2>1, <2>2
<1>5. conns' \in ConnTable /\ frames' \subseteq [for : Members, fmt : {"legacy"}]
  <2>1. CASE dst = NoOne
    <3>1. F!try_broadcast(m, "legacy", limit, res)
      BY <2>1 DEF F!PacketLegacy
    <3> QED BY <3>1, <1>1, Broadcasts DEF FramesOf
  <2>2. CASE dst # NoOne /\ F!find_peer_by_mac(dst) = {}
    <3>1. frames' = {} /\ conns' = conns
      BY <2>2 DEF F!PacketLegacy
    <3> QED BY <3>1, <1>1
  <2>3. CASE dst # NoOne /\ F!find_peer_by_mac(dst) # {}
    <3>1. F!Unicast(F!First(F!find_peer_by_mac(dst)), res)
      BY <2>3 DEF F!PacketLegacy
    <3>2. F!First(F!find_peer_by_mac(dst)) \in DOMAIN list
      BY <2>3, <1>1, Lookups
    <3> QED BY <3>1, <3>2, UnicastKeeps
  <2> QED BY <2>1, <2>2, <2>3
<1> QED BY <1>2, <1>3, <1>4, <1>5 DEF Handled

\* A compact frame: it is broadcast as it is only when all_compact says so.
LEMMA CompactKeeps ==
    ASSUME ForwardInv, NEW sender \in SUBSET (DOMAIN list), NEW dst, NEW limit, NEW res \in Results,
           F!PacketCompact(sender, dst, limit, res), UNCHANGED <<all_compact, heard, where>>
    PROVE  Handled
<1>1. /\ ListOk(list) /\ conns \in ConnTable
      /\ all_compact \in [F!Communities -> BOOLEAN] /\ heard \subseteq Legacy
      /\ \A n \in heard : ~all_compact[Comm[n]]
  BY InvParts
<1>2. CASE sender = {}
  <2>1. frames' = {} /\ UNCHANGED <<list, conns>>
    BY <1>2 DEF F!PacketCompact
  <2> QED BY <1>1, <2>1 DEF Handled
<1>3. CASE sender # {}
  <2> DEFINE i  == F!First(sender)
             me == list[i]
             fmt == IF all_compact[Comm[me.mac]] THEN "compact" ELSE "legacy"
  <2>1. i \in DOMAIN list
    BY <1>1, <1>3, Lookups
  <2>2. list' = [list EXCEPT ![i].compact = TRUE]
    BY <1>3 DEF F!PacketCompact
  <2>3. ListOk(list')
    BY <1>1, <2>1, <2>2, MarkKeeps
  <2>4. conns' \in ConnTable /\ (frames' = {} \/ frames' \subseteq FramesOf(me.mac, fmt))
    <3>1. CASE dst = NoOne
      <4>1. F!try_broadcast(me.mac, fmt, limit, res)
        BY <1>3, <3>1 DEF F!PacketCompact
      <4> HIDE DEF me, fmt
      <4> QED BY <4>1, <1>1, Broadcasts
    <3>2. CASE dst # NoOne /\ F!find_peer_by_mac(dst) = {}
      <4>1. frames' = {} /\ conns' = conns
        BY <1>3, <3>2 DEF F!PacketCompact
      <4> QED BY <4>1, <1>1
    <3>3. CASE dst # NoOne /\ F!find_peer_by_mac(dst) # {}
      <4>1. F!Unicast(F!First(F!find_peer_by_mac(dst)), res)
        BY <1>3, <3>3 DEF F!PacketCompact
      <4>2. F!First(F!find_peer_by_mac(dst)) \in DOMAIN list
        BY <3>3, <1>1, Lookups
      <4> QED BY <4>1, <4>2, UnicastKeeps
    <3> QED BY <3>1, <3>2, <3>3
  <2>5. frames' \subseteq [for : Members, fmt : {"legacy", "compact"}]
    BY <2>4 DEF FramesOf
  <2>6. ASSUME NEW f \in frames', f.for \in heard PROVE f.fmt = "legacy"
    <3>1. f.fmt = fmt /\ Comm[f.for] = Comm[me.mac]
      BY <2>4 DEF FramesOf
    <3>2. ~all_compact[Comm[f.for]]
      BY <1>1, <2>6
    <3> QED BY <3>1, <3>2
  <2> QED BY <1>1, <2>3, <2>4, <2>5, <2>6 DEF Handled
<1> QED BY <1>2, <1>3

\* A frame of either format.
LEMMA PacketKeeps ==
    ASSUME ForwardInv, NEW m \in Members, NEW a \in Endpoints \cup {TcpAddr},
           NEW sender \in SUBSET (DOMAIN list), NEW dst, NEW limit, NEW res \in F!CanSend,
           F!Packet(m, a, sender, dst, limit, res)
    PROVE  Handled
<1>1. res \in Results
  BY CanSendIs
<1>2. CASE F!PacketLegacy(m, a, dst, limit, res)
  BY <1>1, <1>2, LegacyKeeps
<1>3. CASE F!PacketCompact(sender, dst, limit, res) /\ UNCHANGED <<all_compact, heard, where>>
  BY <1>1, <1>3, CompactKeeps
<1> QED BY <1>2, <1>3 DEF F!Packet

\* After a handler the invariant holds again.
LEMMA HandledGives ==
    ASSUME ForwardInv, Handled, pass' \in {"udp", "ws", "tail"}
    PROVE  ForwardInv'
<1>1. list' \in Seq(F!Record) /\ \A i, j \in DOMAIN list' : list'[i].mac = list'[j].mac => i = j
  BY DEF Handled, ListOk
<1>2. conns' \in ConnTable
  BY DEF Handled
<1>3. conns' \in [Slots -> [state : {"free", "open", "closed"}, who : Members \cup {NoOne}, alive : BOOLEAN,
                            idle : BOOLEAN, room : 0 .. Buffer]]
  BY <1>2, ConnTableIs DEF Conn
<1>4. F!TypeOK'
  BY <1>1, <1>3 DEF Handled, F!TypeOK
<1>5. F!HeardReadable'
  BY DEF Handled, F!HeardReadable
<1> QED BY <1>2, <1>4, <1>5 DEF Handled, ForwardInv

\* A step that broadcasts nothing.
LEMMA NoFrames ==
    ASSUME ForwardInv, frames' = {}, ListOk(list'), conns' \in ConnTable,
           UNCHANGED <<all_compact, heard, where>>
    PROVE  Handled
BY InvParts DEF Handled

\* A flag of a connection changes.
LEMMA FlagKeeps ==
    ASSUME NEW cs \in ConnTable, NEW s \in Slots, NEW v \in BOOLEAN
    PROVE  [cs EXCEPT ![s].idle = v] \in ConnTable /\ [cs EXCEPT ![s].alive = v] \in ConnTable
<1>1. cs \in [Slots -> Conn] /\ cs[s] \in Conn /\ (cs[s].state = "open" => cs[s].who \in Members)
  BY ConnTableIs
<1> DEFINE c == [cs[s] EXCEPT !.idle = v]
           d == [cs[s] EXCEPT !.alive = v]
<1>2. [cs EXCEPT ![s].idle = v] = [cs EXCEPT ![s] = c] /\ [cs EXCEPT ![s].alive = v] = [cs EXCEPT ![s] = d]
  BY <1>1
<1>3. c \in Conn /\ d \in Conn /\ (c.state = "open" => c.who \in Members) /\ (d.state = "open" => d.who \in Members)
  BY <1>1 DEF Conn
<1> HIDE DEF c, d
<1>4. [cs EXCEPT ![s] = c] \in ConnTable /\ [cs EXCEPT ![s] = d] \in ConnTable
  BY <1>3, SlotKeeps
<1> QED BY <1>2, <1>4

\* It holds at first.
LEMMA ForwardStarts == F!Init => ForwardInv
<1> SUFFICES ASSUME F!Init PROVE ForwardInv
  OBVIOUS
<1>1. ListOk(list)
  BY DEF F!Init, ListOk
<1>2. conns \in ConnTable
  <2>1. conns = [s \in Slots |-> F!Unused]
    BY DEF F!Init
  <2> QED BY <2>1, UnusedType, ConnTableIs
<1>3. conns \in [Slots -> [state : {"free", "open", "closed"}, who : Members \cup {NoOne}, alive : BOOLEAN,
                           idle : BOOLEAN, room : 0 .. Buffer]]
  BY <1>2, ConnTableIs DEF Conn
<1>4. F!TypeOK
  BY <1>1, <1>3 DEF F!Init, F!TypeOK, ListOk
<1> QED BY <1>2, <1>4 DEF F!Init, ForwardInv, F!HeardReadable

\* Every step of the supernode keeps it.
LEMMA ForwardStep == ForwardInv /\ [F!Next]_(F!vars) => ForwardInv'
<1> SUFFICES ASSUME ForwardInv, [F!Next]_(F!vars) PROVE ForwardInv'
  OBVIOUS
<1>0. /\ ListOk(list) /\ conns \in ConnTable
      /\ all_compact \in [F!Communities -> BOOLEAN] /\ heard \subseteq Legacy
      /\ \A n \in heard : ~all_compact[Comm[n]]
      /\ \A n \in Members : Comm[n] \in F!Communities /\ where[n] \in Endpoints \cup {TcpAddr}
      /\ pass \in {"udp", "ws", "tail"}
  BY InvParts DEF ForwardInv, F!TypeOK
<1>c. conns \in [Slots -> Conn] /\ \A s \in Slots : conns[s].state = "open" => conns[s].who \in Members
  BY <1>0, ConnTableIs
<1>1. CASE F!NoneWaiting \/ F!WsDone \/ F!PassEnds
  <2>1. pass' \in {"udp", "ws", "tail"} /\ frames' = {} /\ UNCHANGED <<list, conns, all_compact, heard, where>>
    BY <1>1 DEF F!NoneWaiting, F!WsDone, F!PassEnds, F!Enters
  <2> QED BY <2>1, <1>0, NoFrames, HandledGives
<1>2. ASSUME NEW s \in Slots, F!sn_ws_drop_conn(s), frames' = {}, UNCHANGED <<all_compact, heard, where, pass>>
      PROVE  ForwardInv'
  <2>1. ListOk(list')
    BY <1>0, <1>2, DropKeeps DEF F!sn_ws_drop_conn
  <2>2. conns' \in ConnTable
    BY <1>0, <1>2, UnusedType, SlotKeeps DEF F!sn_ws_drop_conn
  <2> QED BY <1>0, <1>2, <2>1, <2>2, NoFrames, HandledGives
<1>3. CASE F!sn_ws_purge
  <2>1. PICK s \in F!Purged : F!sn_ws_drop_conn(s)
    BY <1>3 DEF F!sn_ws_purge
  <2>2. s \in Slots
    BY DEF F!Purged
  <2> QED BY <1>2, <1>3, <2>1, <2>2 DEF F!sn_ws_purge
<1>4. ASSUME NEW m \in Members, F!RegisterUdp(m) PROVE ForwardInv'
  <2>1. list' = F!update_edge(m, where[m], 0) /\ frames' = {} /\ UNCHANGED <<conns, all_compact, heard, where, pass>>
    BY <1>4 DEF F!RegisterUdp, F!UdpStep
  <2>2. ListOk(list')
    BY <1>0, <2>1, UpdateKeeps
  <2> QED BY <1>0, <2>1, <2>2, NoFrames, HandledGives
<1>5. ASSUME NEW m \in Members, F!PacketUdp(m) PROVE ForwardInv'
  <2>1. PICK dst \in F!Targets(m), limit \in FanOuts, res \in F!CanSend :
            F!UdpStep(F!Packet(m, where[m], F!find_peer_by_sock(where[m]), dst, limit, res))
    BY <1>5 DEF F!PacketUdp
  <2>2. F!Packet(m, where[m], F!find_peer_by_sock(where[m]), dst, limit, res) /\ pass' = pass
    BY <2>1 DEF F!UdpStep
  <2>3. F!find_peer_by_sock(where[m]) \in SUBSET (DOMAIN list) /\ where[m] \in Endpoints \cup {TcpAddr}
    BY <1>0, Lookups
  <2>4. Handled
    BY <2>2, <2>3, PacketKeeps
  <2> QED BY <1>0, <2>2, <2>4, HandledGives
<1>6. ASSUME NEW m \in Members, F!PassOnUdp(m) PROVE ForwardInv'
  <2>1. PICK dst \in Members \ {m}, res \in F!CanSend : F!UdpStep(F!PassOn(dst, res))
    BY <1>6 DEF F!PassOnUdp
  <2>2. PICK i \in F!find_peer_by_mac(dst) : F!Unicast(i, res)
    BY <2>1 DEF F!UdpStep, F!PassOn
  <2>3. pass' = pass /\ UNCHANGED <<list, all_compact, heard, where>>
    BY <2>1 DEF F!UdpStep, F!PassOn
  <2>4. conns' \in ConnTable /\ frames' = {}
    BY <1>0, <2>2, Lookups, CanSendIs, UnicastKeeps
  <2> QED BY <1>0, <2>3, <2>4, NoFrames, HandledGives
<1>7. ASSUME NEW m \in Members, F!Move(m) PROVE ForwardInv'
  <2>1. PICK a \in Endpoints : where' = [where EXCEPT ![m] = a]
    BY <1>7 DEF F!Move
  <2>2. frames' = {} /\ UNCHANGED <<list, conns, all_compact, heard, pass>>
    BY <1>7 DEF F!Move
  <2>3. where' \in [Members -> Endpoints \cup {TcpAddr}]
    BY <2>1 DEF ForwardInv
  <2> QED BY <2>2, <2>3 DEF ForwardInv, F!TypeOK, F!HeardReadable
<1>8. ASSUME NEW m \in Members, F!Accept(m) PROVE ForwardInv'
  <2>1. pass' \in {"udp", "ws", "tail"} /\ frames' = {} /\ UNCHANGED <<list, all_compact, heard, where>>
    BY <1>8 DEF F!Accept, F!Enters
  <2>2. conns' \in ConnTable
    <3>1. CASE F!FreeSlots = {}
      BY <1>0, <1>8, <3>1 DEF F!Accept
    <3>2. CASE F!FreeSlots # {}
      <4>1. PICK ok \in BOOLEAN : conns' = [conns EXCEPT ![F!First(F!FreeSlots)] = IF ok THEN F!Opened(m) ELSE F!Unused]
        BY <1>8, <3>2 DEF F!Accept
      <4>2. F!FreeSlots \subseteq Slots
        BY DEF F!FreeSlots
      <4>3. F!First(F!FreeSlots) \in Slots
        BY <3>2, <4>2, FirstIn, ForwardConstants
      <4> DEFINE c == IF ok THEN F!Opened(m) ELSE F!Unused
      <4>4. c \in Conn /\ (c.state = "open" => c.who \in Members)
        BY UnusedType
      <4> HIDE DEF c
      <4>5. [conns EXCEPT ![F!First(F!FreeSlots)] = c] \in ConnTable
        BY <1>0, <4>3, <4>4, SlotKeeps
      <4> QED BY <4>1, <4>5 DEF c
    <3> QED BY <3>1, <3>2
  <2> QED BY <1>0, <2>1, <2>2, NoFrames, HandledGives
<1>9. ASSUME NEW m \in Members, F!Leave(m) PROVE ForwardInv'
  <2>1. list' = F!Without(m) /\ F!find_peer_by_mac(m) # {} /\ frames' = {} /\ UNCHANGED <<conns, all_compact, heard, where, pass>>
    BY <1>9 DEF F!Leave
  <2>2. ListOk(list')
    BY <1>0, <2>1, WithoutKeeps
  <2> QED BY <1>0, <2>1, <2>2, NoFrames, HandledGives
<1>10. ASSUME NEW s \in Slots, F!RegisterWs(s) PROVE ForwardInv'
  <2>1. /\ list' = F!update_edge(conns[s].who, TcpAddr, s) /\ conns[s].state = "open"
        /\ conns' = [conns EXCEPT ![s].idle = FALSE]
        /\ frames' = {} /\ UNCHANGED <<all_compact, heard, where, pass>>
    BY <1>10 DEF F!RegisterWs, F!Speaks, F!Fresh
  <2>2. conns[s].who \in Members
    BY <1>c, <2>1
  <2>3. ListOk(list')
    BY <1>0, <2>1, <2>2, UpdateKeeps
  <2>4. conns' \in ConnTable
    BY <2>1, <1>0, FlagKeeps
  <2> QED BY <1>0, <2>1, <2>3, <2>4, NoFrames, HandledGives
<1>11. ASSUME NEW s \in Slots, F!PacketWs(s) PROVE ForwardInv'
  <2>1. PICK dst \in F!Targets(conns[s].who), limit \in FanOuts, res \in F!CanSend :
            F!Packet(conns[s].who, TcpAddr, F!PeerOfConn(s), dst, limit, res)
    BY <1>11 DEF F!PacketWs
  <2>2. pass' = pass /\ conns[s].state = "open"
    BY <1>11 DEF F!PacketWs, F!Speaks
  <2>3. F!PeerOfConn(s) \in SUBSET (DOMAIN list) /\ conns[s].who \in Members
    BY <1>0, <1>c, <2>2, Lookups
  <2>4. Handled
    BY <2>1, <2>3, PacketKeeps
  <2> QED BY <1>0, <2>2, <2>4, HandledGives
<1>12. ASSUME NEW s \in Slots, F!Ping(s) \/ F!Vanish(s) \/ F!Silence(s) PROVE ForwardInv'
  <2>1. frames' = {} /\ UNCHANGED <<list, all_compact, heard, where, pass>>
    BY <1>12 DEF F!Ping, F!Vanish, F!Silence
  <2>2. \/ conns' = [conns EXCEPT ![s].idle = FALSE]
        \/ conns' = [conns EXCEPT ![s].alive = FALSE]
        \/ conns' = [conns EXCEPT ![s].idle = TRUE]
    BY <1>12 DEF F!Ping, F!Vanish, F!Silence, F!Fresh
  <2>3. conns' \in ConnTable
    BY <2>2, <1>0, FlagKeeps
  <2> QED BY <1>0, <2>1, <2>3, NoFrames, HandledGives
<1>13. ASSUME NEW s \in Slots, F!HangUp(s) PROVE ForwardInv'
  BY <1>2, <1>13 DEF F!HangUp
<1>14. ASSUME NEW c \in F!Communities, F!StatsPurged(c) PROVE ForwardInv'
  <2>1. /\ all_compact' = [all_compact EXCEPT ![c] = TRUE]
        /\ heard' = {m \in heard : Comm[m] # c}
        /\ frames' = {} /\ UNCHANGED <<list, conns, where, pass>>
    BY <1>14 DEF F!StatsPurged
  <2>2. \A m \in heard' : ~all_compact'[Comm[m]]
    <3>1. \A m \in heard' : m \in heard /\ Comm[m] # c
      BY <2>1
    <3>2. \A m \in heard' : Comm[m] \in F!Communities
      BY <3>1, <1>0, ForwardConstants
    <3> QED BY <2>1, <3>1, <3>2, <1>0
  <2>3. all_compact' \in [F!Communities -> BOOLEAN] /\ heard' \subseteq Legacy
    BY <1>0, <2>1
  <2> QED BY <1>0, <2>1, <2>2, <2>3, HandledGives DEF Handled
<1>15. CASE UNCHANGED F!vars
  <2>1. UNCHANGED <<list, conns, all_compact, heard, where, pass, frames>>
    BY <1>15 DEF F!vars
  <2> QED BY <2>1 DEF ForwardInv, F!TypeOK, F!HeardReadable
<1>16. CASE F!Next
  <2>1. F!Communities = {Comm[m] : m \in Members}
    BY DEF F!Communities
  <2> QED BY <1>16, <1>1, <1>3, <1>4, <1>5, <1>6, <1>7, <1>8, <1>9, <1>10, <1>11, <1>12, <1>13, <1>14
          DEF F!Next, F!Loop
<1> QED BY <1>15, <1>16

\* An edge has one record, and whatever registers, speaks, moves, leaves or falls
\* silent in whatever pass of the loop, a legacy edge that has been heard is sent no
\* broadcast in the compact format (try_broadcast, all_compact).
THEOREM ForwardIsSound == ForwardSpec => []ForwardSound
<1>1. F!Spec => []ForwardInv
  BY ForwardStarts, ForwardStep, PTL DEF F!Spec
<1>2. ForwardInv => ForwardSound
  BY DEF ForwardInv, ForwardSound, F!ForwardSound
<1> QED BY <1>1, <1>2, PTL DEF ForwardSpec, F!FairSpec

=============================================================================
