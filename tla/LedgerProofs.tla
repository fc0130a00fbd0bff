---------------------------- MODULE LedgerProofs ----------------------------
(***************************************************************************)
(* Proofs about the parts of MCLedger: the rate limiter conforms           *)
(* (SnShaper), for every rate, bucket, queue size and packet size; the     *)
(* rules in force are those a packet is admitted under (SnRules), for      *)
(* every rules file of any length; and the sliding windows forget nothing  *)
(* early and keep nothing for ever (SnStats), for every number and length  *)
(* of buckets and whatever was forwarded.                                  *)
(***************************************************************************)
EXTENDS MCLedger, SequenceTheorems, FiniteSetTheorems, TLAPS

-----------------------------------------------------------------------------
(* The rate limiter                                                          *)

\* Multiplication by a natural number is monotonic.
LEMMA TimesMono ==
    ASSUME NEW a \in Int, NEW b \in Int, NEW c \in Nat, a <= b
    PROVE  a * c <= b * c
<1>1. (b - a) * c >= 0
  OBVIOUS
<1>2. (b - a) * c = b * c - a * c
  OBVIOUS
<1> QED
  BY <1>1, <1>2

\* A floored quotient, times its divisor, is not more than the dividend.
LEMMA DivBound ==
    ASSUME NEW x \in Nat, NEW m \in Nat \ {0}
    PROVE  /\ x \div m \in Nat
           /\ (x \div m) * m <= x
  OBVIOUS

\* token_refill never grants more than TopRate for the time that passed.
LEMMA GrantBound ==
    ASSUME TypeOK
    PROVE  Grant \in Nat /\ Grant * MsPerSecond <= since * TopRate
<1>1. rate \in Nat /\ rate <= TopRate /\ since \in Nat /\ TopRate \in Nat
  BY ShaperAssumption DEF TypeOK
<1>2. since * rate \in Nat /\ since * rate <= since * TopRate
  <2>1. rate * since <= TopRate * since
    BY <1>1, TimesMono
  <2> QED
    BY <1>1, <2>1
<1>3. Grant \in Nat /\ Grant * MsPerSecond <= since * rate
  BY <1>2, DivBound, ShaperAssumption DEF Grant
<1>4. MsPerSecond \in Nat /\ since * TopRate \in Nat /\ Grant * MsPerSecond \in Nat
  BY <1>1, <1>3, ShaperAssumption
<1> QED
  BY <1>2, <1>3, <1>4

\* Bucket and overdraft grow with the rate (token_bucket_max, rate_admit).
LEMMA LimitsMono ==
    ASSUME NEW r \in Rates
    PROVE  /\ token_bucket_max(r) \in Nat /\ TopBucket \in Nat
           /\ DebtMax(r) \in Nat /\ TopDebt \in Nat
           /\ MinBucket <= token_bucket_max(r)
           /\ token_bucket_max(r) <= TopBucket
           /\ DebtMax(r) <= TopDebt
<1>1. r \in Nat /\ r <= TopRate /\ TopRate \in Nat
  BY ShaperAssumption
<1>2. r * DebtSeconds <= TopRate * DebtSeconds
  BY <1>1, TimesMono, ShaperAssumption
<1>3. r * DebtSeconds \in Nat /\ TopRate * DebtSeconds \in Nat
  BY <1>1, ShaperAssumption
<1> QED
  BY <1>1, <1>2, <1>3, ShaperAssumption
     DEF token_bucket_max, DebtMax, TopBucket, TopDebt, BiggerOf

\* What the sum of excess and bucket may be, apart from the types.
Balance ==
    \/ burst = 0
    \/ burst + since * TopRate <= (TopBucket - tokens) * MsPerSecond

\* rate_admit keeps the bucket within its bounds and the balance.
LEMMA RateAdmitKeeps ==
    ASSUME BucketInv, NEW len \in Sizes, RateAdmit(len)
    PROVE  /\ primed' \in BOOLEAN /\ tokens' \in Int /\ since' \in Nat /\ burst' \in Nat
           /\ -TopDebt <= tokens' /\ tokens' <= TopBucket
           /\ ~primed' => burst' = 0 /\ since' = 0 /\ tokens' = 0
           /\ Balance'
<1> USE DEF BucketInv, TypeOK, TokensBounded
<1>1. CASE ~(over /\ rate # 0)
  BY <1>1 DEF RateAdmit, Balance, TopBucket, TopDebt
<1>2. CASE over /\ rate # 0
  <2> DEFINE c == IF Admits(len) THEN Charge(rate, len) ELSE 0
  <2>1. /\ primed' = TRUE /\ since' = 0
        /\ tokens' = Refilled - c
        /\ burst' = burst + c * MsPerSecond
    BY <1>2 DEF RateAdmit
  <2>2. /\ token_bucket_max(rate) \in Nat /\ TopBucket \in Nat
        /\ DebtMax(rate) \in Nat /\ TopDebt \in Nat
        /\ token_bucket_max(rate) <= TopBucket
        /\ DebtMax(rate) <= TopDebt
    BY LimitsMono
  <2>3. Grant \in Nat /\ Grant * MsPerSecond <= since * TopRate
    BY GrantBound
  <2>4. /\ Refilled \in Int /\ Refilled <= TopBucket /\ -TopDebt <= Refilled
        /\ primed => Refilled <= tokens + Grant
    BY <2>2, <2>3 DEF Refilled, SmallerOf
  <2>5. c \in Nat
    BY <2>2, ShaperAssumption DEF Charge, SmallerOf
  <2>6. -TopDebt <= Refilled - c
    BY <1>2, <2>2, <2>4, <2>5 DEF Admits
  <2>7. c * MsPerSecond \in Nat /\ burst \in Nat /\ MsPerSecond \in Nat
    BY <2>5, ShaperAssumption
  <2>8. Balance'
    <3>1. since' * TopRate = 0
      BY <2>1, ShaperAssumption
    <3>2. TopBucket' = TopBucket
      BY DEF TopBucket, token_bucket_max
    <3> SUFFICES burst + c * MsPerSecond <= (TopBucket - tokens') * MsPerSecond
      BY <2>1, <2>7, <3>1, <3>2 DEF Balance
    <3>3. CASE burst = 0
      <4>1. c <= TopBucket - tokens'
        BY <2>1, <2>2, <2>4, <2>5
      <4>2. c * MsPerSecond <= (TopBucket - tokens') * MsPerSecond
        BY <4>1, <2>1, <2>2, <2>4, <2>5, <2>7, TimesMono
      <4> QED
        BY <3>3, <4>2, <2>7
    <3>4. CASE burst # 0
      <4>1. primed /\ burst + since * TopRate <= (TopBucket - tokens) * MsPerSecond
        BY <3>4
      <4>2. (TopBucket - tokens) - Grant + c <= TopBucket - tokens'
        BY <2>1, <2>2, <2>3, <2>4, <2>5, <4>1, SMTT(60)
      <4>3. ((TopBucket - tokens) - Grant + c) * MsPerSecond <= (TopBucket - tokens') * MsPerSecond
        <5> DEFINE x == (TopBucket - tokens) - Grant + c
                   y == TopBucket - tokens'
        <5>1. x \in Int /\ y \in Int /\ x <= y
          BY <4>2, <2>1, <2>2, <2>3, <2>4, <2>5
        <5> HIDE DEF x, y
        <5>2. x * MsPerSecond <= y * MsPerSecond
          BY <5>1, <2>7, TimesMono
        <5> QED
          BY <5>2 DEF x, y
      <4>4. ((TopBucket - tokens) - Grant + c) * MsPerSecond
              = (TopBucket - tokens) * MsPerSecond - Grant * MsPerSecond + c * MsPerSecond
        BY <2>2, <2>3, <2>5, <2>7
      <4>5. /\ (TopBucket - tokens) * MsPerSecond \in Int
            /\ (TopBucket - tokens') * MsPerSecond \in Int
            /\ Grant * MsPerSecond \in Int /\ since * TopRate \in Int
        BY <2>1, <2>2, <2>3, <2>4, <2>5, <2>7, ShaperAssumption, SMTT(60)
      <4> HIDE DEF c
      <4> QED
        BY <4>1, <4>3, <4>4, <4>5, <2>3, <2>7
    <3> QED
      BY <3>3, <3>4
  <2> HIDE DEF c
  <2>9. /\ tokens' \in Int /\ -TopDebt <= tokens' /\ tokens' <= TopBucket
    BY <2>1, <2>2, <2>4, <2>5, <2>6
  <2>10. burst' \in Nat /\ since' \in Nat
    BY <2>1, <2>7
  <2> QED
    BY <2>1, <2>8, <2>9, <2>10, Zenon
<1> QED
  BY <1>1, <1>2

\* The bucket's invariant holds at first.
LEMMA InitInv == Init => BucketInv
<1> SUFFICES ASSUME Init PROVE BucketInv
  OBVIOUS
<1>1. TypeOK
  <2>1. tokens \in Int /\ since \in Nat /\ burst \in Nat /\ q \in Seq(Packets)
    BY DEF Init
  <2>2. over \in BOOLEAN /\ primed \in BOOLEAN /\ left \in BOOLEAN
    BY Zenon DEF Init
  <2> QED
    BY <2>1, <2>2, Zenon DEF Init, TypeOK
<1>2. TopBucket \in Nat /\ TopDebt \in Nat
  BY LimitsMono DEF Init
<1> QED
  BY <1>1, <1>2 DEF Init, BucketInv, TokensBounded

\* Every step keeps the invariant: the ones that consult the bucket by
\* RateAdmitKeeps, Tick because the excess shrinks as time accrues.
LEMMA NextInv == BucketInv /\ [Next]_vars => BucketInv'
<1> SUFFICES ASSUME BucketInv, [Next]_vars PROVE BucketInv'
  OBVIOUS
<1> USE DEF BucketInv
<1> DEFINE bucket == <<tokens, primed, since, burst>>
<1>0. /\ Balance /\ TopBucket' = TopBucket /\ TopDebt' = TopDebt
      /\ TopBucket \in Nat /\ TopDebt \in Nat
  BY LimitsMono DEF Balance, TopBucket, TopDebt, token_bucket_max, DebtMax, TypeOK
<1>1. ASSUME UNCHANGED <<tokens, primed, since, burst>>, TypeOK'
      PROVE  BucketInv'
  BY <1>0, <1>1 DEF TokensBounded
<1>2. ASSUME NEW len \in Sizes, RateAdmit(len), UNCHANGED rate,
             over' \in BOOLEAN, left' \in BOOLEAN, q' \in Seq(Packets),
             UNCHANGED known, busy' \in Packets \cup {NoPkt, Loop}
      PROVE  BucketInv'
  BY <1>0, <1>2, RateAdmitKeeps DEF TokensBounded, TypeOK, Balance
<1>3. ASSUME NEW p \in Packets, Forward(p) PROVE BucketInv'
  BY <1>1, <1>3 DEF Forward, TypeOK
<1>4. CASE LoopDrain
  BY <1>1, <1>4 DEF LoopDrain, TypeOK
<1>5. q # <<>> => Head(q) \in Packets /\ Head(q).len \in Sizes /\ Tail(q) \in Seq(Packets)
  <2>1. q # <<>> => Head(q) \in Packets /\ Tail(q) \in Seq(Packets)
    BY DEF TypeOK
  <2>2. \A p \in Packets : p.len \in Sizes
    BY DEF Packets
  <2> QED
    BY <2>1, <2>2, Zenon
<1>6. CASE DrainGone
  BY <1>1, <1>5, <1>6 DEF DrainGone, TypeOK
<1>7. CASE DrainSend
  BY <1>2, <1>5, <1>7 DEF DrainSend, Counted, TypeOK
<1>8. CASE LoopDrainEnds
  <2>1. CASE HeadWaits
    BY <1>2, <1>5, <1>8, <2>1 DEF LoopDrainEnds, HeadWaits, TypeOK
  <2>2. CASE ~HeadWaits
    BY <1>1, <1>8, <2>2 DEF LoopDrainEnds, TypeOK
  <2> QED
    BY <2>1, <2>2
<1>9. CASE ForwardEnds
  <2>1. busy \in Packets /\ busy.len \in Sizes
    BY <1>9 DEF ForwardEnds, TypeOK, Packets
  <2>2. Parked(busy) \in Seq(Packets)
    BY <2>1 DEF Parked, TypeOK
  <2> QED
    BY <1>2, <1>9, <2>1, <2>2 DEF ForwardEnds, Counted, TypeOK
<1>10. CASE Tick
  <2>1. CASE ~(primed /\ since < MaxWait)
    BY <1>1, <1>10, <2>1 DEF Tick, TypeOK
  <2>2. CASE primed /\ since < MaxWait
    <3>1. /\ since' = since + 1 /\ burst' = BiggerOf(0, burst - TopRate)
          /\ UNCHANGED <<rate, over, tokens, primed, q, known, busy>> /\ left' = FALSE
      BY <1>10, <2>2 DEF Tick
    <3>2. TypeOK'
      <4>1. since' \in Nat /\ burst' \in Nat
        BY <3>1, ShaperAssumption DEF TypeOK, BiggerOf
      <4>2. left' \in BOOLEAN
        BY <3>1, Zenon
      <4>3. rate' = rate /\ over' = over /\ tokens' = tokens /\ primed' = primed
            /\ q' = q /\ known' = known /\ busy' = busy
        BY <3>1
      <4> QED
        BY <4>1, <4>2, <4>3, Zenon DEF TypeOK
    <3>3. (since + 1) * TopRate = since * TopRate + TopRate
      BY ShaperAssumption DEF TypeOK
    <3>4. /\ since * TopRate \in Int /\ (TopBucket - tokens) * MsPerSecond \in Int
          /\ TopRate \in Nat /\ burst \in Nat
      BY <1>0, ShaperAssumption DEF TypeOK
    <3>5. burst' = 0 \/ burst' + since' * TopRate <= (TopBucket' - tokens') * MsPerSecond
      BY <1>0, <3>1, <3>3, <3>4 DEF BiggerOf
    <3> QED
      BY <1>0, <2>2, <3>1, <3>2, <3>5 DEF TokensBounded
  <2> QED
    BY <2>1, <2>2
<1>11. CASE Decay
  BY <1>1, <1>11 DEF Decay, TypeOK
<1>12. ASSUME NEW d \in Dsts, Membership(d) PROVE BucketInv'
  BY <1>1, <1>12 DEF Membership, TypeOK
<1>13. ASSUME NEW r \in Rates, Reload(r) PROVE BucketInv'
  BY <1>1, <1>13 DEF Reload, TypeOK
<1>14. CASE UNCHANGED vars
  BY <1>1, <1>14 DEF vars, TypeOK
<1> QED
  BY <1>3, <1>4, <1>6, <1>7, <1>8, <1>9, <1>10, <1>11, <1>12, <1>13, <1>14
     DEF Next, DrainStep

\* The rate limiter's state is well typed in every reachable state.
THEOREM ShaperTypeCorrect == Spec => []TypeOK
<1>1. BucketInv => TypeOK
  BY DEF BucketInv
<1> QED
  BY InitInv, NextInv, <1>1, PTL DEF Spec

\* The bucket stays within its cap and its overdraft whatever packets, reloads
\* and pauses come (token_refill, rate_admit).
THEOREM BucketBounded == Spec => []TokensBounded
<1>1. BucketInv => TokensBounded
  BY DEF BucketInv
<1> QED
  BY InitInv, NextInv, <1>1, PTL DEF Spec

\* A throttled community is held to its rate: over every interval the charged
\* bytes exceed rate times time by at most the bucket plus the overdraft.
THEOREM RateConforms == Spec => []Conforms
<1>1. BucketInv => Conforms
  <2> SUFFICES ASSUME BucketInv PROVE Conforms
    OBVIOUS
  <2> USE DEF BucketInv, TypeOK, TokensBounded
  <2>1. TopBucket \in Nat /\ TopDebt \in Nat
    BY LimitsMono
  <2>2. (TopBucket - tokens) * MsPerSecond <= (TopBucket + TopDebt) * MsPerSecond
    BY <2>1, TimesMono, ShaperAssumption
  <2>3. /\ since * TopRate \in Nat /\ burst \in Nat
        /\ (TopBucket - tokens) * MsPerSecond \in Int
        /\ (TopBucket + TopDebt) * MsPerSecond \in Nat
    BY <2>1, ShaperAssumption
  <2> QED
    BY <2>2, <2>3 DEF Conforms
<1> QED
  BY InitInv, NextInv, <1>1, PTL DEF Spec

-----------------------------------------------------------------------------
(* The ring *)

\* Only the end of try_forward adds a packet, and it looks at the count first.
LEMMA NextQueue == ShaperSound /\ [Next]_vars => QueueBounded'
<1> SUFFICES ASSUME ShaperSound, [Next]_vars PROVE QueueBounded'
  OBVIOUS
<1>1. q \in Seq(Packets) /\ Len(q) \in Nat /\ Len(q) <= Slots /\ Slots \in Nat
  BY ShaperAssumption DEF ShaperSound, BucketInv, TypeOK, QueueBounded
<1>2. ASSUME UNCHANGED q PROVE QueueBounded'
  BY <1>1, <1>2 DEF QueueBounded
<1>3. ASSUME q # <<>>, q' = Tail(q) PROVE QueueBounded'
  BY <1>1, <1>3 DEF QueueBounded
<1>4. CASE ForwardEnds
  <2>1. CASE UNCHANGED q
    BY <1>2, <2>1
  <2>2. CASE q' = Parked(busy)
    <3>1. busy \in Packets
      BY <1>4 DEF ForwardEnds, ShaperSound, BucketInv, TypeOK
    <3>2. CASE rate > 0 /\ Len(q) < Slots
      BY <1>1, <2>2, <3>1, <3>2 DEF Parked, QueueBounded
    <3>3. CASE ~(rate > 0 /\ Len(q) < Slots)
      BY <1>2, <2>2, <3>3 DEF Parked
    <3> QED
      BY <3>2, <3>3
  <2> QED
    BY <1>4, <2>1, <2>2 DEF ForwardEnds
<1>5. ASSUME NEW p \in Packets, Forward(p) PROVE QueueBounded'
  BY <1>2, <1>5 DEF Forward
<1>6. ASSUME NEW d \in Dsts, Membership(d) PROVE QueueBounded'
  BY <1>2, <1>6 DEF Membership
<1>7. ASSUME NEW r \in Rates, Reload(r) PROVE QueueBounded'
  BY <1>2, <1>7 DEF Reload
<1>8. CASE LoopDrain \/ LoopDrainEnds \/ Tick \/ Decay \/ UNCHANGED vars
  BY <1>2, <1>8 DEF LoopDrain, LoopDrainEnds, Tick, Decay, vars
<1>9. CASE DrainGone \/ DrainSend
  BY <1>3, <1>9 DEF DrainGone, DrainSend
<1> QED
  BY <1>4, <1>5, <1>6, <1>7, <1>8, <1>9 DEF Next, DrainStep

\* Bucket and ring together keep within their limits: the excess is always
\* accounted for in the bucket, and the ring never holds more than its slots
\* (token_refill, rate_admit, shaper_enqueue).
THEOREM ShaperCorrect == Spec => []ShaperSound
<1>1. Init => ShaperSound
  <2> SUFFICES ASSUME Init PROVE ShaperSound
    OBVIOUS
  <2>1. Len(q) = 0 /\ Slots \in Nat
    BY ShaperAssumption DEF Init
  <2> QED
    BY InitInv, <2>1 DEF ShaperSound, QueueBounded
<1>2. ShaperSound /\ [Next]_vars => ShaperSound'
  BY NextInv, NextQueue DEF ShaperSound
<1> QED
  BY <1>1, <1>2, PTL DEF Spec

-----------------------------------------------------------------------------
(* Folds over lists                                                          *)

\* A set of naturals has a least element: its members' intervals from 0 are finite
\* sets, and those are well-founded under inclusion.
LEMMA LeastOf ==
    ASSUME NEW T, T \subseteq Nat, T # {}
    PROVE  \E x \in T : \A y \in T : x <= y
<1> DEFINE F == {0 .. t : t \in T}
           Under == StrictSubsetOrdering(Nat)
<1>1. IsWellFoundedOn(Under, FiniteSubsetsOf(Nat))
  BY FS_StrictSubsetOrderingWellFounded
<1>2. \A t \in T : 0 .. t \in FiniteSubsetsOf(Nat)
  BY FS_Interval DEF FiniteSubsetsOf
<1>3. F \subseteq FiniteSubsetsOf(Nat) /\ F # {}
  BY <1>2
<1> HIDE DEF Under
<1>4. PICK z \in F : \A w \in F : ~(<<w, z>> \in Under)
  <2> HIDE DEF F
  <2> QED BY <1>1, <1>3, WFMin
<1>5. PICK x \in T : z = 0 .. x
  OBVIOUS
<1>6. \A y \in T : x <= y
  <2> SUFFICES ASSUME NEW y \in T, ~(x <= y) PROVE FALSE
    OBVIOUS
  <2>1. 0 .. y \subseteq 0 .. x /\ x \in 0 .. x /\ x \notin 0 .. y
    OBVIOUS
  <2>2. 0 .. y # 0 .. x
    BY <2>1
  <2>3. 0 .. y \in SUBSET Nat /\ 0 .. x \in SUBSET Nat
    OBVIOUS
  <2>4. <<0 .. y, 0 .. x>> \in Under
    BY <2>1, <2>2, <2>3 DEF Under, StrictSubsetOrdering
  <2> QED BY <2>4, <1>4, <1>5
<1> QED BY <1>6

\* A set that has 0 and, with each number below n, the next one, has all up to n.
LEMMA Upward ==
    ASSUME NEW n \in Nat, NEW Good, 0 \in Good, \A i \in 1 .. n : i - 1 \in Good => i \in Good
    PROVE  0 .. n \subseteq Good
<1> SUFFICES ASSUME (0 .. n) \ Good # {} PROVE FALSE
  OBVIOUS
<1>1. PICK x \in (0 .. n) \ Good : \A y \in (0 .. n) \ Good : x <= y
  <2>1. (0 .. n) \ Good \subseteq Nat
    OBVIOUS
  <2> QED BY <2>1, LeastOf
<1>2. x \in 1 .. n /\ x - 1 \in 0 .. n /\ ~(x <= x - 1)
  OBVIOUS
<1> QED BY <1>1, <1>2

\* The greatest element of an interval from 1.
LEMMA MaxUpTo ==
    ASSUME NEW n \in Nat \ {0}, NEW s, s \subseteq 1 .. n, n \in s
    PROVE  (CHOOSE x \in s : \A y \in s : x >= y) = n
<1>1. n \in s /\ \A y \in s : n >= y
  OBVIOUS
<1>2. \A x \in s : (\A y \in s : x >= y) => x = n
  OBVIOUS
<1> QED BY <1>1, <1>2

\* A set of numbers from 1 to n that is not empty has a greatest element.
LEMMA MaxExists ==
    ASSUME NEW n \in Nat, NEW s \in SUBSET (1 .. n), s # {}
    PROVE  (CHOOSE x \in s : \A y \in s : x >= y) \in s
<1> DEFINE U == {n - y : y \in s}
<1>1. U \subseteq Nat /\ U # {}
  <2>1. \A y \in s : n - y \in Nat
    OBVIOUS
  <2> QED BY <2>1
<1>2. PICK u \in U : \A v \in U : u <= v
  <2> HIDE DEF U
  <2> QED BY <1>1, LeastOf
<1>3. PICK x \in s : u = n - x
  OBVIOUS
<1>4. \A y \in s : x >= y
  <2>1. \A y \in s : n - x <= n - y
    BY <1>2, <1>3
  <2> QED BY <2>1
<1> QED BY <1>4

\* What the folds of the community modules compute is defined for every list: a
\* table over the sets of indices, each from the one without its greatest.
IsTable(n, base, g, h) ==
    \A s \in SUBSET (1 .. n) :
       h[s] = IF s = {} THEN base
              ELSE g[CHOOSE x \in s : \A y \in s : x >= y]
                    [h[s \ {CHOOSE x \in s : \A y \in s : x >= y}]]

\* There is such a table for every list.
LEMMA FoldTable ==
    ASSUME NEW n \in Nat, NEW A, NEW base \in A, NEW g \in [1 .. n -> [A -> A]]
    PROVE  \E h \in [SUBSET (1 .. n) -> A] : IsTable(n, base, g, h)
<1> DEFINE Top(s) == CHOOSE x \in s : \A y \in s : x >= y
           Good(k, h) == \A s \in SUBSET (1 .. k) :
                             h[s] = IF s = {} THEN base ELSE g[Top(s)][h[s \ {Top(s)}]]
           K == {k \in 0 .. n : \E h \in [SUBSET (1 .. k) -> A] : Good(k, h)}
<1>1. 0 \in K
  <2> DEFINE h == [s \in SUBSET (1 .. 0) |-> base]
  <2>1. \A s \in SUBSET (1 .. 0) : s = {}
    OBVIOUS
  <2>2. h \in [SUBSET (1 .. 0) -> A] /\ Good(0, h)
    BY <2>1
  <2>3. \E e \in [SUBSET (1 .. 0) -> A] : Good(0, e)
    <3> HIDE DEF h, Good
    <3> QED BY <2>2, Zenon
  <2>4. 0 \in 0 .. n
    OBVIOUS
  <2> HIDE DEF h, Good
  <2> QED BY <2>3, <2>4
<1>2. ASSUME NEW k \in 1 .. n, k - 1 \in K PROVE k \in K
  <2>1. PICK h \in [SUBSET (1 .. k - 1) -> A] : Good(k - 1, h)
    BY <1>2
  <2> DEFINE e == [s \in SUBSET (1 .. k) |-> IF k \in s THEN g[k][h[s \ {k}]] ELSE h[s]]
  <2>2. k \in Nat \ {0} /\ \A s \in SUBSET (1 .. k) : s \ {k} \in SUBSET (1 .. k - 1) /\ (k \notin s => s \in SUBSET (1 .. k - 1))
    OBVIOUS
  <2>3. g[k] \in [A -> A]
    OBVIOUS
  <2>4. e \in [SUBSET (1 .. k) -> A]
    BY <2>2, <2>3
  <2>5. ASSUME NEW s \in SUBSET (1 .. k)
        PROVE  e[s] = IF s = {} THEN base ELSE g[Top(s)][e[s \ {Top(s)}]]
    <3>1. CASE k \in s
      <4>0. s \subseteq 1 .. k
        OBVIOUS
      <4>1. Top(s) = k
        BY <3>1, <2>2, <4>0, MaxUpTo
      <4>2. s \ {k} \in SUBSET (1 .. k) /\ k \notin s \ {k}
        OBVIOUS
      <4>3. e[s \ {k}] = h[s \ {k}] /\ e[s] = g[k][h[s \ {k}]]
        BY <4>2, <3>1
      <4> HIDE DEF e, Top
      <4> QED BY <4>1, <4>3, <3>1
    <3>2. CASE k \notin s
      <4>1. s \in SUBSET (1 .. k - 1) /\ e[s] = h[s]
        BY <3>2, <2>2
      <4>2. h[s] = IF s = {} THEN base ELSE g[Top(s)][h[s \ {Top(s)}]]
        BY <4>1, <2>1
      <4>3. s \ {Top(s)} \in SUBSET (1 .. k) /\ k \notin s \ {Top(s)}
        BY <3>2
      <4>4. e[s \ {Top(s)}] = h[s \ {Top(s)}]
        BY <4>3
      <4> HIDE DEF e, Top
      <4> QED BY <4>1, <4>2, <4>4
    <3> QED BY <3>1, <3>2
  <2>6. Good(k, e)
    <3> HIDE DEF e, Top
    <3> QED BY <2>5
  <2> HIDE DEF e, Good
  <2> QED BY <2>4, <2>6
<1>3. n \in K
  <2> HIDE DEF K
  <2>1. 0 .. n \subseteq K
    BY <1>1, <1>2, Upward
  <2> QED BY <2>1
<1> QED BY <1>3 DEF IsTable

-----------------------------------------------------------------------------
(* The rules file                                                            *)

\* What a search for a community's rule, and for a verdict, has found so far.
Found    == [lim : R!Limit, done : BOOLEAN]
Verdicts == [level : 0 .. 2, denied : BOOLEAN]

\* What the rules file's constants are.
LEMMA RulesConstants ==
    /\ Wild \notin Communities /\ 0 \in Caps /\ 0 \in RateCols
    /\ R!NoLimit \in R!Limit
BY LedgerAssumed DEF R!RulesAssumption, R!NoLimit, R!Limit

\* A line of the file makes at most one rule.
LEMMA LineMakesRule ==
    ASSUME NEW rs \in Seq(R!Rule), NEW l \in R!Line
    PROVE  R!ReadLine(rs, l) \in Seq(R!Rule)
<1>1. CASE l.cols \in {0, 2, 3}
  <2>1. R!RuleOf(l) = NoRule \/ R!RuleOf(l) \in R!Rule
    BY <1>1, RulesConstants DEF R!RuleOf, R!Line, R!Rule, R!Limit, R!NoLimit
  <2> QED BY <2>1 DEF R!ReadLine
<1>2. CASE l.cols \notin {0, 2, 3}
  BY <1>2 DEF R!ReadLine, R!RuleOf
<1> QED BY <1>1, <1>2

\* parse_rate_limit_config reads one line after the other.
LEMMA Reads ==
    ASSUME NEW ls \in Seq(R!Line)
    PROVE  \E f \in [0 .. Len(ls) -> Seq(R!Rule)] :
              /\ f[0] = <<>> /\ f[Len(ls)] = R!parse_rate_limit_config(ls)
              /\ \A i \in 1 .. Len(ls) : f[i] = R!ReadLine(f[i - 1], ls[i])
<1> DEFINE n == Len(ls)
           Top(t) == CHOOSE x \in t : \A y \in t : x >= y
           Table(h) == h = [t \in SUBSET (DOMAIN ls) |->
                              IF t = {} THEN <<>> ELSE R!ReadLine(h[t \ {Top(t)}], ls[Top(t)])]
           g == [i \in 1 .. n |-> [a \in Seq(R!Rule) |-> R!ReadLine(a, ls[i])]]
           iter == CHOOSE h : Table(h)
           f == [i \in 0 .. n |-> iter[1 .. i]]
<1>1. n \in Nat /\ DOMAIN ls = 1 .. n /\ \A i \in 1 .. n : ls[i] \in R!Line
  OBVIOUS
<1>2. <<>> \in Seq(R!Rule) /\ \A a \in Seq(R!Rule), i \in 1 .. n : R!ReadLine(a, ls[i]) \in Seq(R!Rule)
  BY <1>1, LineMakesRule
<1>3. \E h : Table(h)
  <2>1. g \in [1 .. n -> [Seq(R!Rule) -> Seq(R!Rule)]]
    BY <1>2
  <2>2. PICK h \in [SUBSET (1 .. n) -> Seq(R!Rule)] : IsTable(n, <<>>, g, h)
    <3>1. n \in Nat /\ <<>> \in Seq(R!Rule)
      BY <1>1, <1>2
    <3> HIDE DEF g, n
    <3> QED BY <3>1, <2>1, FoldTable
  <2>3. ASSUME NEW t \in SUBSET (1 .. n), t # {}
        PROVE  h[t] = R!ReadLine(h[t \ {Top(t)}], ls[Top(t)])
    <3>1. Top(t) \in 1 .. n /\ t \ {Top(t)} \in SUBSET (1 .. n)
      <4> HIDE DEF Top
      <4>1. Top(t) \in t
        BY <1>1, <2>3, MaxExists DEF Top
      <4> QED BY <4>1
    <3>2. h[t \ {Top(t)}] \in Seq(R!Rule) /\ h[t] = g[Top(t)][h[t \ {Top(t)}]]
      BY <2>2, <2>3, <3>1 DEF IsTable
    <3> HIDE DEF Top
    <3> QED BY <3>1, <3>2
  <2>4. Table(h)
    <3> HIDE DEF Top
    <3> QED BY <1>1, <2>2, <2>3 DEF IsTable
  <2> QED BY <2>4
<1>4. Table(iter)
  BY <1>3
<1>5. R!parse_rate_limit_config(ls) = iter[DOMAIN ls]
  BY DEF R!parse_rate_limit_config, R!FoldLeft, R!MapThenFoldSet, R!Max
<1>6. f[0] = <<>> /\ f[n] = iter[DOMAIN ls]
  <2>1. 1 .. 0 = {} /\ 0 \in 0 .. n /\ n \in 0 .. n
    BY <1>1
  <2>2. iter[{}] = <<>>
    <3> HIDE DEF iter
    <3> QED BY <1>4
  <2> HIDE DEF iter
  <2> QED BY <1>1, <2>1, <2>2
<1>7. ASSUME NEW i \in 1 .. n PROVE f[i] = R!ReadLine(f[i - 1], ls[i])
  <2>1. 1 .. i \in SUBSET (1 .. n) /\ 1 .. i # {} /\ i \in Nat \ {0} /\ i \in 1 .. i
    <3>1. n \in Nat /\ i \in Nat \ {0} /\ i \in 1 .. i
      BY <1>1
    <3>2. \A j \in 1 .. i : j \in 1 .. n
      BY <3>1
    <3> QED BY <3>1, <3>2
  <2>0. i \in 0 .. n /\ i - 1 \in 0 .. n
    BY <1>1
  <2>2. (1 .. i) \ {i} = 1 .. i - 1
    BY <1>1
  <2>3. Top(1 .. i) = i
    BY <2>1, MaxUpTo
  <2>4. iter[1 .. i] = R!ReadLine(iter[(1 .. i) \ {i}], ls[i])
    <3> HIDE DEF iter, Top
    <3> QED BY <1>1, <1>4, <2>1, <2>3
  <2> HIDE DEF iter
  <2> QED BY <2>0, <2>2, <2>4
<1>8. f \in [0 .. n -> Seq(R!Rule)]
  <2> DEFINE Good == {i \in 0 .. n : f[i] \in Seq(R!Rule)}
  <2>1. 0 \in Good
    <3> HIDE DEF f
    <3>1. f[0] \in Seq(R!Rule)
      BY <1>2, <1>6, Zenon
    <3>2. 0 \in 0 .. n
      BY <1>1
    <3> QED BY <3>1, <3>2
  <2>2. \A i \in 1 .. n : i - 1 \in Good => i \in Good
    <3> HIDE DEF f
    <3> QED BY <1>1, <1>2, <1>7
  <2>3. 0 .. n \subseteq Good
    <3> HIDE DEF Good
    <3> QED BY <1>1, <2>1, <2>2, Upward
  <2> QED BY <2>3
<1> HIDE DEF f, iter
<1> QED BY <1>1, <1>5, <1>6, <1>7, <1>8

\* apply_rules_to_stats visits one rule after the other.
LEMMA Searches ==
    ASSUME NEW c, NEW rs \in Seq(R!Rule)
    PROVE  \E f \in [0 .. Len(rs) -> Found] :
              /\ f[0] = [lim |-> R!NoLimit, done |-> FALSE] /\ f[Len(rs)].lim = R!apply_rules_to_stats(c, rs)
              /\ \A i \in 1 .. Len(rs) : f[i] = R!NextMatch(c, f[i - 1], rs[i])
<1> DEFINE n == Len(rs)
           Top(t) == CHOOSE x \in t : \A y \in t : x >= y
           Table(h) == h = [t \in SUBSET (DOMAIN rs) |->
                              IF t = {} THEN [lim |-> R!NoLimit, done |-> FALSE] ELSE R!NextMatch(c, h[t \ {Top(t)}], rs[Top(t)])]
           g == [i \in 1 .. n |-> [a \in Found |-> R!NextMatch(c, a, rs[i])]]
           iter == CHOOSE h : Table(h)
           f == [i \in 0 .. n |-> iter[1 .. i]]
<1>1. n \in Nat /\ DOMAIN rs = 1 .. n /\ \A i \in 1 .. n : rs[i] \in R!Rule
  OBVIOUS
<1>2. [lim |-> R!NoLimit, done |-> FALSE] \in Found /\ \A a \in Found, i \in 1 .. n : R!NextMatch(c, a, rs[i]) \in Found
  BY <1>1, RulesConstants DEF Found, R!NextMatch, R!Rule
<1>3. \E h : Table(h)
  <2>1. g \in [1 .. n -> [Found -> Found]]
    BY <1>2
  <2>2. PICK h \in [SUBSET (1 .. n) -> Found] : IsTable(n, [lim |-> R!NoLimit, done |-> FALSE], g, h)
    <3>1. n \in Nat /\ [lim |-> R!NoLimit, done |-> FALSE] \in Found
      BY <1>1, <1>2
    <3> HIDE DEF g, n
    <3> QED BY <3>1, <2>1, FoldTable
  <2>3. ASSUME NEW t \in SUBSET (1 .. n), t # {}
        PROVE  h[t] = R!NextMatch(c, h[t \ {Top(t)}], rs[Top(t)])
    <3>1. Top(t) \in 1 .. n /\ t \ {Top(t)} \in SUBSET (1 .. n)
      <4> HIDE DEF Top
      <4>1. Top(t) \in t
        BY <1>1, <2>3, MaxExists DEF Top
      <4> QED BY <4>1
    <3>2. h[t \ {Top(t)}] \in Found /\ h[t] = g[Top(t)][h[t \ {Top(t)}]]
      BY <2>2, <2>3, <3>1 DEF IsTable
    <3> HIDE DEF Top
    <3> QED BY <3>1, <3>2
  <2>4. Table(h)
    <3> HIDE DEF Top
    <3> QED BY <1>1, <2>2, <2>3 DEF IsTable
  <2> QED BY <2>4
<1>4. Table(iter)
  BY <1>3
<1>5. R!apply_rules_to_stats(c, rs) = iter[DOMAIN rs].lim
  BY DEF R!apply_rules_to_stats, R!FoldLeft, R!MapThenFoldSet, R!Max
<1>6. f[0] = [lim |-> R!NoLimit, done |-> FALSE] /\ f[n] = iter[DOMAIN rs]
  <2>1. 1 .. 0 = {} /\ 0 \in 0 .. n /\ n \in 0 .. n
    BY <1>1
  <2>2. iter[{}] = [lim |-> R!NoLimit, done |-> FALSE]
    <3> HIDE DEF iter
    <3> QED BY <1>4
  <2> HIDE DEF iter
  <2> QED BY <1>1, <2>1, <2>2
<1>7. ASSUME NEW i \in 1 .. n PROVE f[i] = R!NextMatch(c, f[i - 1], rs[i])
  <2>1. 1 .. i \in SUBSET (1 .. n) /\ 1 .. i # {} /\ i \in Nat \ {0} /\ i \in 1 .. i
    <3>1. n \in Nat /\ i \in Nat \ {0} /\ i \in 1 .. i
      BY <1>1
    <3>2. \A j \in 1 .. i : j \in 1 .. n
      BY <3>1
    <3> QED BY <3>1, <3>2
  <2>0. i \in 0 .. n /\ i - 1 \in 0 .. n
    BY <1>1
  <2>2. (1 .. i) \ {i} = 1 .. i - 1
    BY <1>1
  <2>3. Top(1 .. i) = i
    BY <2>1, MaxUpTo
  <2>4. iter[1 .. i] = R!NextMatch(c, iter[(1 .. i) \ {i}], rs[i])
    <3> HIDE DEF iter, Top
    <3> QED BY <1>1, <1>4, <2>1, <2>3
  <2> HIDE DEF iter
  <2> QED BY <2>0, <2>2, <2>4
<1>8. f \in [0 .. n -> Found]
  <2> DEFINE Good == {i \in 0 .. n : f[i] \in Found}
  <2>1. 0 \in Good
    <3> HIDE DEF f
    <3>1. f[0] \in Found
      BY <1>2, <1>6, Zenon
    <3>2. 0 \in 0 .. n
      BY <1>1
    <3> QED BY <3>1, <3>2
  <2>2. \A i \in 1 .. n : i - 1 \in Good => i \in Good
    <3> HIDE DEF f
    <3> QED BY <1>1, <1>2, <1>7
  <2>3. 0 .. n \subseteq Good
    <3> HIDE DEF Good
    <3> QED BY <1>1, <2>1, <2>2, Upward
  <2> QED BY <2>3
<1> HIDE DEF f, iter
<1> QED BY <1>1, <1>5, <1>6, <1>7, <1>8

\* community_denied visits one rule after the other.
LEMMA Judges ==
    ASSUME NEW c, NEW rs \in Seq(R!Rule)
    PROVE  \E f \in [0 .. Len(rs) -> Verdicts] :
              /\ f[0] = [level |-> 0, denied |-> FALSE] /\ f[Len(rs)].denied = R!community_denied(rs, c)
              /\ \A i \in 1 .. Len(rs) : f[i] = R!NextVerdict(c, f[i - 1], rs[i])
<1> DEFINE n == Len(rs)
           Top(t) == CHOOSE x \in t : \A y \in t : x >= y
           Table(h) == h = [t \in SUBSET (DOMAIN rs) |->
                              IF t = {} THEN [level |-> 0, denied |-> FALSE] ELSE R!NextVerdict(c, h[t \ {Top(t)}], rs[Top(t)])]
           g == [i \in 1 .. n |-> [a \in Verdicts |-> R!NextVerdict(c, a, rs[i])]]
           iter == CHOOSE h : Table(h)
           f == [i \in 0 .. n |-> iter[1 .. i]]
<1>1. n \in Nat /\ DOMAIN rs = 1 .. n /\ \A i \in 1 .. n : rs[i] \in R!Rule
  OBVIOUS
<1>2. [level |-> 0, denied |-> FALSE] \in Verdicts /\ \A a \in Verdicts, i \in 1 .. n : R!NextVerdict(c, a, rs[i]) \in Verdicts
  BY <1>1 DEF Verdicts, R!NextVerdict, R!Level, R!Rule
<1>3. \E h : Table(h)
  <2>1. g \in [1 .. n -> [Verdicts -> Verdicts]]
    BY <1>2
  <2>2. PICK h \in [SUBSET (1 .. n) -> Verdicts] : IsTable(n, [level |-> 0, denied |-> FALSE], g, h)
    <3>1. n \in Nat /\ [level |-> 0, denied |-> FALSE] \in Verdicts
      BY <1>1, <1>2
    <3> HIDE DEF g, n
    <3> QED BY <3>1, <2>1, FoldTable
  <2>3. ASSUME NEW t \in SUBSET (1 .. n), t # {}
        PROVE  h[t] = R!NextVerdict(c, h[t \ {Top(t)}], rs[Top(t)])
    <3>1. Top(t) \in 1 .. n /\ t \ {Top(t)} \in SUBSET (1 .. n)
      <4> HIDE DEF Top
      <4>1. Top(t) \in t
        BY <1>1, <2>3, MaxExists DEF Top
      <4> QED BY <4>1
    <3>2. h[t \ {Top(t)}] \in Verdicts /\ h[t] = g[Top(t)][h[t \ {Top(t)}]]
      BY <2>2, <2>3, <3>1 DEF IsTable
    <3> HIDE DEF Top
    <3> QED BY <3>1, <3>2
  <2>4. Table(h)
    <3> HIDE DEF Top
    <3> QED BY <1>1, <2>2, <2>3 DEF IsTable
  <2> QED BY <2>4
<1>4. Table(iter)
  BY <1>3
<1>5. R!community_denied(rs, c) = iter[DOMAIN rs].denied
  BY DEF R!community_denied, R!FoldLeft, R!MapThenFoldSet, R!Max
<1>6. f[0] = [level |-> 0, denied |-> FALSE] /\ f[n] = iter[DOMAIN rs]
  <2>1. 1 .. 0 = {} /\ 0 \in 0 .. n /\ n \in 0 .. n
    BY <1>1
  <2>2. iter[{}] = [level |-> 0, denied |-> FALSE]
    <3> HIDE DEF iter
    <3> QED BY <1>4
  <2> HIDE DEF iter
  <2> QED BY <1>1, <2>1, <2>2
<1>7. ASSUME NEW i \in 1 .. n PROVE f[i] = R!NextVerdict(c, f[i - 1], rs[i])
  <2>1. 1 .. i \in SUBSET (1 .. n) /\ 1 .. i # {} /\ i \in Nat \ {0} /\ i \in 1 .. i
    <3>1. n \in Nat /\ i \in Nat \ {0} /\ i \in 1 .. i
      BY <1>1
    <3>2. \A j \in 1 .. i : j \in 1 .. n
      BY <3>1
    <3> QED BY <3>1, <3>2
  <2>0. i \in 0 .. n /\ i - 1 \in 0 .. n
    BY <1>1
  <2>2. (1 .. i) \ {i} = 1 .. i - 1
    BY <1>1
  <2>3. Top(1 .. i) = i
    BY <2>1, MaxUpTo
  <2>4. iter[1 .. i] = R!NextVerdict(c, iter[(1 .. i) \ {i}], rs[i])
    <3> HIDE DEF iter, Top
    <3> QED BY <1>1, <1>4, <2>1, <2>3
  <2> HIDE DEF iter
  <2> QED BY <2>0, <2>2, <2>4
<1>8. f \in [0 .. n -> Verdicts]
  <2> DEFINE Good == {i \in 0 .. n : f[i] \in Verdicts}
  <2>1. 0 \in Good
    <3> HIDE DEF f
    <3>1. f[0] \in Verdicts
      BY <1>2, <1>6, Zenon
    <3>2. 0 \in 0 .. n
      BY <1>1
    <3> QED BY <3>1, <3>2
  <2>2. \A i \in 1 .. n : i - 1 \in Good => i \in Good
    <3> HIDE DEF f
    <3> QED BY <1>1, <1>2, <1>7
  <2>3. 0 .. n \subseteq Good
    <3> HIDE DEF Good
    <3> QED BY <1>1, <2>1, <2>2, Upward
  <2> QED BY <2>3
<1> HIDE DEF f, iter
<1> QED BY <1>1, <1>5, <1>6, <1>7, <1>8

\* What the verdict stands for after k of the rules: its level is the best fit
\* among them; it denies if one that fits so well does, and only if one that fits
\* does.
Verdict(c, rs, k, v) ==
    /\ \A j \in 1 .. k : R!Level(c, rs[j]) <= v.level
    /\ v.level > 0 => \E j \in 1 .. k : R!Level(c, rs[j]) = v.level
    /\ \A j \in 1 .. k : R!Level(c, rs[j]) = v.level /\ v.level > 0 /\ rs[j].deny => v.denied
    /\ v.denied => \E j \in 1 .. k : R!Level(c, rs[j]) > 0 /\ rs[j].deny

\* One more rule keeps that true (community_denied, sn.c 715-724).
LEMMA VerdictStep ==
    ASSUME NEW c, NEW rs \in Seq(R!Rule), NEW i \in 1 .. Len(rs),
           NEW a \in Verdicts, Verdict(c, rs, i - 1, a)
    PROVE  Verdict(c, rs, i, R!NextVerdict(c, a, rs[i]))
<1> DEFINE L == R!Level(c, rs[i])
           b == R!NextVerdict(c, a, rs[i])
<1>1. \A j \in 1 .. i : rs[j] \in R!Rule /\ R!Level(c, rs[j]) \in 0 .. 2
  BY DEF R!Level
<1>2. \A j \in 1 .. i : j \in 1 .. i - 1 \/ j = i
  OBVIOUS
<1>3. i \in 1 .. i /\ \A j \in 1 .. i - 1 : j \in 1 .. i
  OBVIOUS
<1>4. L \in 0 .. 2 /\ rs[i].deny \in BOOLEAN /\ a.level \in 0 .. 2 /\ a.denied \in BOOLEAN
  BY <1>1, <1>3 DEF Verdicts, R!Rule
<1>5. CASE L = 0
  <2>1. b = a
    BY <1>5 DEF R!NextVerdict
  <2> HIDE DEF b
  <2>2. \A j \in 1 .. i : R!Level(c, rs[j]) <= b.level
    BY <1>1, <1>2, <1>4, <1>5, <2>1 DEF Verdict
  <2>3. b.level > 0 => \E j \in 1 .. i : R!Level(c, rs[j]) = b.level
    BY <1>3, <2>1 DEF Verdict
  <2>4. \A j \in 1 .. i : R!Level(c, rs[j]) = b.level /\ b.level > 0 /\ rs[j].deny => b.denied
    BY <1>2, <1>4, <1>5, <2>1 DEF Verdict
  <2>5. b.denied => \E j \in 1 .. i : R!Level(c, rs[j]) > 0 /\ rs[j].deny
    BY <1>3, <2>1 DEF Verdict
  <2> QED BY <2>2, <2>3, <2>4, <2>5 DEF Verdict, b
<1>6. CASE L # 0 /\ L > a.level
  <2>1. b.level = L /\ b.denied = rs[i].deny
    BY <1>4, <1>6 DEF R!NextVerdict
  <2> HIDE DEF b
  <2>0. \A j \in 1 .. i - 1 : R!Level(c, rs[j]) <= a.level /\ R!Level(c, rs[j]) \in 0 .. 2
    BY <1>1, <1>3 DEF Verdict
  <2>2. \A j \in 1 .. i : R!Level(c, rs[j]) <= b.level
    <3> HIDE DEF L
    <3>1. \A j \in 1 .. i - 1 : R!Level(c, rs[j]) <= b.level
      BY <1>4, <1>6, <2>0, <2>1
    <3>2. R!Level(c, rs[i]) <= b.level
      BY <1>4, <2>1 DEF L
    <3> QED BY <1>2, <3>1, <3>2
  <2>3. b.level > 0 => \E j \in 1 .. i : R!Level(c, rs[j]) = b.level
    BY <1>3, <2>1
  <2>4. \A j \in 1 .. i : R!Level(c, rs[j]) = b.level /\ b.level > 0 /\ rs[j].deny => b.denied
    <3>1. \A j \in 1 .. i - 1 : R!Level(c, rs[j]) # b.level
      <4> HIDE DEF L
      <4> QED BY <1>4, <1>6, <2>0, <2>1
    <3> QED BY <1>2, <2>1, <3>1
  <2>5. b.denied => \E j \in 1 .. i : R!Level(c, rs[j]) > 0 /\ rs[j].deny
    <3>1. R!Level(c, rs[i]) > 0
      BY <1>4, <1>6
    <3> QED BY <1>3, <2>1, <3>1
  <2> QED BY <2>2, <2>3, <2>4, <2>5 DEF Verdict, b
<1>7. CASE L # 0 /\ ~(L > a.level)
  <2>1. b.level = a.level /\ b.denied = (a.denied \/ rs[i].deny) /\ L <= a.level /\ L > 0
    BY <1>4, <1>7 DEF R!NextVerdict, Verdicts
  <2> HIDE DEF b
  <2>2. \A j \in 1 .. i : R!Level(c, rs[j]) <= b.level
    BY <1>2, <1>4, <2>1 DEF Verdict
  <2>3. b.level > 0 => \E j \in 1 .. i : R!Level(c, rs[j]) = b.level
    BY <1>3, <2>1 DEF Verdict
  <2>4. \A j \in 1 .. i : R!Level(c, rs[j]) = b.level /\ b.level > 0 /\ rs[j].deny => b.denied
    BY <1>2, <2>1 DEF Verdict
  <2>5. b.denied => \E j \in 1 .. i : R!Level(c, rs[j]) > 0 /\ rs[j].deny
    BY <1>3, <2>1 DEF Verdict
  <2> QED BY <2>2, <2>3, <2>4, <2>5 DEF Verdict, b
<1> QED BY <1>4, <1>5, <1>6, <1>7

\* So it is for a whole list.
LEMMA VerdictMeans ==
    ASSUME NEW c, NEW rs \in Seq(R!Rule)
    PROVE  \E v \in Verdicts : Verdict(c, rs, Len(rs), v) /\ v.denied = R!community_denied(rs, c)
<1> DEFINE n == Len(rs)
<1>1. PICK f \in [0 .. n -> Verdicts] :
         /\ f[0] = [level |-> 0, denied |-> FALSE] /\ f[n].denied = R!community_denied(rs, c)
         /\ \A i \in 1 .. n : f[i] = R!NextVerdict(c, f[i - 1], rs[i])
  BY Judges
<1> DEFINE Good == {i \in 0 .. n : Verdict(c, rs, i, f[i])}
<1>2. 0 \in Good
  <2>1. Verdict(c, rs, 0, f[0])
    BY <1>1 DEF Verdict
  <2> QED BY <2>1
<1>3. \A i \in 1 .. n : i - 1 \in Good => i \in Good
  <2> SUFFICES ASSUME NEW i \in 1 .. n, Verdict(c, rs, i - 1, f[i - 1])
               PROVE  Verdict(c, rs, i, f[i])
    OBVIOUS
  <2>1. i - 1 \in 0 .. n
    OBVIOUS
  <2> QED BY <1>1, <2>1, VerdictStep
<1>4. n \in Good
  <2>1. n \in Nat /\ n \in 0 .. n
    OBVIOUS
  <2>2. 0 .. n \subseteq Good
    <3> HIDE DEF Good, n
    <3> QED BY <1>2, <1>3, <2>1, Upward
  <2> HIDE DEF Good
  <2> QED BY <2>1, <2>2
<1>5. n \in 0 .. n
  OBVIOUS
<1> QED BY <1>1, <1>4, <1>5

\* The blacklist denies whom it names and nobody else, whatever the list.
LEMMA BlacklistAlways ==
    ASSUME rules \in Seq(R!Rule)
    PROVE  R!BlacklistHolds
<1> SUFFICES ASSUME NEW c \in Communities
             PROVE  /\ R!Matches(c, TRUE) => R!community_denied(rules, c)
                    /\ R!Matches(Wild, TRUE) /\ ~R!Matches(c, FALSE)
                          => R!community_denied(rules, c)
                    /\ ~R!Matches(c, TRUE) /\ ~R!Matches(Wild, TRUE)
                          => ~R!community_denied(rules, c)
  BY DEF R!BlacklistHolds
<1>1. PICK v \in Verdicts : Verdict(c, rules, Len(rules), v)
                            /\ v.denied = R!community_denied(rules, c)
  BY VerdictMeans
<1>2. /\ v.level \in 0 .. 2 /\ DOMAIN rules = 1 .. Len(rules)
      /\ \A j \in 1 .. Len(rules) : rules[j].deny \in BOOLEAN
      /\ c # Wild
  <2>1. v.level \in 0 .. 2 /\ DOMAIN rules = 1 .. Len(rules) /\ c # Wild
    BY RulesConstants DEF Verdicts
  <2>2. \A j \in 1 .. Len(rules) : rules[j] \in R!Rule
    OBVIOUS
  <2> QED BY <2>1, <2>2 DEF R!Rule
<1>3. R!Matches(c, TRUE) => v.denied
  <2> SUFFICES ASSUME NEW j \in 1 .. Len(rules), rules[j].name = c, rules[j].deny = TRUE
               PROVE  v.denied
    BY <1>2 DEF R!Matches
  <2>1. R!Level(c, rules[j]) = 2
    BY DEF R!Level
  <2>2. R!Level(c, rules[j]) <= v.level
    BY <1>1 DEF Verdict
  <2> QED BY <1>1, <1>2, <2>1, <2>2 DEF Verdict
<1>4. R!Matches(Wild, TRUE) /\ ~R!Matches(c, FALSE) /\ ~R!Matches(c, TRUE) => v.denied
  <2> SUFFICES ASSUME NEW j \in 1 .. Len(rules), rules[j].name = Wild, rules[j].deny = TRUE,
                      \A k \in 1 .. Len(rules) : rules[k].name # c
               PROVE  v.denied
    <3>1. ~R!Matches(c, FALSE) /\ ~R!Matches(c, TRUE)
             => \A k \in 1 .. Len(rules) : rules[k].name # c
      BY <1>2 DEF R!Matches
    <3> QED BY <1>2, <3>1 DEF R!Matches
  <2>1. R!Level(c, rules[j]) = 1
    BY <1>2 DEF R!Level
  <2>2. \A k \in 1 .. Len(rules) : R!Level(c, rules[k]) # 2
    BY DEF R!Level
  <2>3. R!Level(c, rules[j]) <= v.level
    BY <1>1 DEF Verdict
  <2>4. v.level # 2
    BY <1>1, <2>2 DEF Verdict
  <2>5. v.level = 1
    BY <1>2, <2>1, <2>3, <2>4
  <2> QED BY <1>1, <2>1, <2>5 DEF Verdict
<1>5. v.denied => R!Matches(c, TRUE) \/ R!Matches(Wild, TRUE)
  <2> SUFFICES ASSUME NEW j \in 1 .. Len(rules), R!Level(c, rules[j]) > 0, rules[j].deny
               PROVE  R!Matches(c, TRUE) \/ R!Matches(Wild, TRUE)
    BY <1>1 DEF Verdict
  <2>1. rules[j].deny = TRUE
    BY <1>2
  <2>2. rules[j].name = c \/ rules[j].name = Wild
    BY DEF R!Level
  <2> QED BY <1>2, <2>1, <2>2 DEF R!Matches
<1> QED BY <1>1, <1>3, <1>4, <1>5

\* A list of lines makes a list of rules, and a list of rules gives a community
\* limits that some rule, or none, has.
LEMMA RulesTyped ==
    /\ \A ls \in Seq(R!Line) : R!parse_rate_limit_config(ls) \in Seq(R!Rule)
    /\ \A rs \in Seq(R!Rule), c \in Communities : R!apply_rules_to_stats(c, rs) \in R!Limit
<1>1. ASSUME NEW ls \in Seq(R!Line) PROVE R!parse_rate_limit_config(ls) \in Seq(R!Rule)
  <2>1. Len(ls) \in 0 .. Len(ls)
    OBVIOUS
  <2> QED BY <2>1, Reads
<1>2. ASSUME NEW rs \in Seq(R!Rule), NEW c \in Communities
      PROVE  R!apply_rules_to_stats(c, rs) \in R!Limit
  <2>1. PICK f \in [0 .. Len(rs) -> Found] : f[Len(rs)].lim = R!apply_rules_to_stats(c, rs)
    BY Searches
  <2>2. f[Len(rs)] \in Found
    OBVIOUS
  <2> QED BY <2>1, <2>2 DEF Found
<1> QED BY <1>1, <1>2

\* The limits a known community has are those of the rules in force, or it has none yet.
LimitsFresh ==
    \A c \in DOMAIN limits :
       limits[c] = R!NoLimit \/ limits[c] = R!apply_rules_to_stats(c, rules)

\* What a step of the supernode keeps true of its rules.
RulesInv == R!TypeOK /\ LimitsFresh /\ R!LimitsCurrent

\* The rules of a supernode that just started.
LEMMA RulesStart == R!Init => RulesInv
BY DEF R!Init, RulesInv, R!TypeOK, LimitsFresh, R!LimitsCurrent

\* An edited file reaches every known community when it is read (reload_rules).
LEMMA RulesReload ==
    ASSUME RulesInv, NEW ls \in Seq(R!Line), R!Reload(ls)
    PROVE  RulesInv'
<1>1. rules' \in Seq(R!Rule) /\ used' = NoUse
  BY RulesTyped DEF R!Reload
<1>2. limits' = [c \in DOMAIN limits |-> R!apply_rules_to_stats(c, rules')]
  BY DEF R!Reload
<1>3. \A c \in DOMAIN limits : R!apply_rules_to_stats(c, rules') \in R!Limit
  BY <1>1, RulesTyped DEF RulesInv, R!TypeOK
<1>4. R!TypeOK'
  BY <1>1, <1>2, <1>3 DEF RulesInv, R!TypeOK
<1>5. LimitsFresh' /\ R!LimitsCurrent'
  BY <1>1, <1>2 DEF LimitsFresh, R!LimitsCurrent
<1> QED BY <1>4, <1>5 DEF RulesInv

\* The purge pass gives the communities it keeps the limits in force.
LEMMA RulesPurge ==
    ASSUME RulesInv, NEW gone \in SUBSET DOMAIN limits, R!Purge(gone)
    PROVE  RulesInv'
<1>1. \A c \in DOMAIN limits \ gone : R!apply_rules_to_stats(c, rules) \in R!Limit
  BY RulesTyped DEF RulesInv, R!TypeOK
<1>2. R!TypeOK'
  BY <1>1 DEF RulesInv, R!TypeOK, R!Purge
<1>3. LimitsFresh' /\ R!LimitsCurrent'
  BY DEF RulesInv, LimitsFresh, R!LimitsCurrent, R!Purge
<1> QED BY <1>2, <1>3 DEF RulesInv

\* An entry a registration makes has no limits, and a packet is admitted under
\* those in force.
LEMMA RulesUse ==
    ASSUME RulesInv, NEW c \in Communities, R!Touch(c) \/ R!Admit(c)
    PROVE  RulesInv'
<1>1. /\ R!Known(c) \in R!Limit /\ R!apply_rules_to_stats(c, rules) \in R!Limit
      /\ R!Known(c) = R!NoLimit \/ R!Known(c) = R!apply_rules_to_stats(c, rules)
  BY RulesTyped, RulesConstants DEF RulesInv, R!TypeOK, LimitsFresh, R!Known
<1>2. ASSUME NEW lim \in R!Limit, limits' = R!With(c, lim), rules' = rules,
             lim = R!NoLimit \/ lim = R!apply_rules_to_stats(c, rules)
      PROVE  /\ LimitsFresh'
             /\ DOMAIN limits' \subseteq Communities /\ limits' \in [DOMAIN limits' -> R!Limit]
  <2>1. DOMAIN limits' = DOMAIN limits \cup {c}
    BY <1>2 DEF R!With
  <2>2. \A d \in DOMAIN limits' : limits'[d] = IF d = c THEN lim ELSE limits[d]
    BY <1>2 DEF R!With
  <2>3. LimitsFresh'
    BY <1>2, <2>1, <2>2 DEF RulesInv, LimitsFresh
  <2>4. limits' \in [DOMAIN limits' -> R!Limit]
    BY <1>2 DEF RulesInv, R!TypeOK, R!With
  <2> QED BY <2>1, <2>3, <2>4 DEF RulesInv, R!TypeOK
<1>3. CASE R!Touch(c)
  BY <1>1, <1>2, <1>3 DEF R!Touch, RulesInv, R!TypeOK, R!LimitsCurrent
<1>4. CASE R!Admit(c)
  <2> DEFINE lim == IF R!Known(c) = R!NoLimit THEN R!apply_rules_to_stats(c, rules) ELSE R!Known(c)
  <2>1. lim \in R!Limit /\ lim = R!apply_rules_to_stats(c, rules)
    BY <1>1
  <2>2. limits' = R!With(c, lim) /\ used' = [comm |-> c, lim |-> lim] /\ rules' = rules
    BY <1>4 DEF R!Admit
  <2> HIDE DEF lim
  <2>3. used' \in [comm : Communities, lim : R!Limit] /\ R!LimitsCurrent'
    BY <2>1, <2>2 DEF R!LimitsCurrent
  <2> QED BY <1>2, <2>1, <2>2, <2>3 DEF RulesInv, R!TypeOK
<1> QED BY <1>3, <1>4

\* Every step, of whichever part, keeps the rules' invariant.
LEMMA RulesStep == RulesInv /\ [PartNext]_all => RulesInv'
<1> SUFFICES ASSUME RulesInv, [PartNext]_all PROVE RulesInv'
  OBVIOUS
<1>1. CASE UNCHANGED ruleVars
  BY <1>1 DEF ruleVars, RulesInv, R!TypeOK, LimitsFresh, R!LimitsCurrent
<1>2. CASE R!Next
  <2>1. \A ls \in R!SeqOf(R!Line, MaxLines) : ls \in Seq(R!Line)
    <3> SUFFICES ASSUME NEW m \in 0 .. MaxLines, NEW ls \in [1 .. m -> R!Line]
                 PROVE  ls \in Seq(R!Line)
      BY DEF R!SeqOf
    <3>1. m \in Nat
      OBVIOUS
    <3> QED BY <3>1
  <2> QED BY <1>2, <2>1, RulesReload, RulesPurge, RulesUse DEF R!Next
<1> QED BY <1>1, <1>2 DEF PartNext, Draining, all

\* The blacklist denies whom it names and nobody else, and a packet is admitted
\* under the limits of the rules in force, for files of any length and whatever
\* reloads, purges and registrations came between (community_denied,
\* apply_rules_to_stats, try_forward).
THEOREM RulesCorrect == PartSpec => []RulesHold
<1>1. PartInit => RulesInv
  BY RulesStart DEF PartInit
<1>2. RulesInv => RulesHold
  BY BlacklistAlways DEF RulesInv, RulesHold, R!TypeOK
<1> QED BY <1>1, <1>2, RulesStep, PTL DEF PartSpec, PartSafe

-----------------------------------------------------------------------------
(* Sums                                                                      *)

\* A sum of natural numbers counts grains: f[x] of them for each x.
Grains(f, T) == UNION {{<<x, j>> : j \in 1 .. f[x]} : x \in T}

\* A function that gives natural numbers on a finite set.
Counts(f, T) == IsFiniteSet(T) /\ \A x \in T : f[x] \in Nat

\* Grains of one number: as many as it says.
LEMMA GrainsOf ==
    ASSUME NEW x, NEW m \in Nat
    PROVE  LET g == {<<x, j>> : j \in 1 .. m} IN IsFiniteSet(g) /\ Cardinality(g) = m
<1> DEFINE g == {<<x, j>> : j \in 1 .. m}
           h == [j \in 1 .. m |-> <<x, j>>]
<1>1. IsFiniteSet(1 .. m) /\ Cardinality(1 .. m) = m
  BY FS_Interval
<1>2. h \in Bijection(1 .. m, g)
  <2>1. h \in [1 .. m -> g] /\ \A y \in g : \E j \in 1 .. m : h[j] = y
    OBVIOUS
  <2>2. \A i, j \in 1 .. m : h[i] = h[j] => i = j
    OBVIOUS
  <2> HIDE DEF g, h
  <2> QED BY <2>1, <2>2 DEF Bijection, Injection, Surjection, IsInjective
<1>3. ExistsBijection(1 .. m, g)
  BY <1>2 DEF ExistsBijection
<1> QED BY <1>1, <1>3, FS_Bijection

\* They are finitely many.
LEMMA GrainsFinite ==
    ASSUME NEW f, NEW T, Counts(f, T)
    PROVE  IsFiniteSet(Grains(f, T))
<1> DEFINE G(x) == {<<x, j>> : j \in 1 .. f[x]}
<1>1. IsFiniteSet({G(x) : x \in T})
  <2> DEFINE h == [x \in T |-> G(x)]
  <2>1. h \in Surjection(T, {G(x) : x \in T})
    <3> HIDE DEF G
    <3> QED BY DEF Surjection
  <2> HIDE DEF h, G
  <2> QED BY <2>1, FS_Surjection DEF Counts
<1>2. \A U \in {G(x) : x \in T} : IsFiniteSet(U)
  <2>1. ASSUME NEW x \in T PROVE IsFiniteSet(G(x))
    <3>1. f[x] \in Nat
      BY DEF Counts
    <3> QED BY <3>1, GrainsOf
  <2> HIDE DEF G
  <2> QED BY <2>1
<1> QED BY <1>1, <1>2, FS_UNION DEF Grains

\* One more number adds its grains.
LEMMA GrainsAdd ==
    ASSUME NEW f, NEW T, Counts(f, T), NEW x \in T
    PROVE  Cardinality(Grains(f, T)) = f[x] + Cardinality(Grains(f, T \ {x}))
<1> DEFINE g == {<<x, j>> : j \in 1 .. f[x]}
           r == Grains(f, T \ {x})
<1>1. Counts(f, T \ {x})
  BY FS_RemoveElement DEF Counts
<1>2. IsFiniteSet(r) /\ Cardinality(r) \in Nat
  BY <1>1, GrainsFinite, FS_CardinalityType
<1>3. IsFiniteSet(g) /\ Cardinality(g) = f[x]
  BY GrainsOf DEF Counts
<1>4. Grains(f, T) = g \cup r /\ g \cap r = {}
  BY DEF Grains
<1>5. f[x] \in Nat
  BY DEF Counts
<1> HIDE DEF g, r
<1>6. Cardinality(g \cup r) = Cardinality(g) + Cardinality(r) - Cardinality(g \cap r)
  BY <1>2, <1>3, FS_Union
<1>7. Cardinality(g \cap r) = 0
  BY <1>4, FS_EmptySet
<1> QED BY <1>2, <1>3, <1>4, <1>5, <1>6, <1>7 DEF r

\* The sum of the community modules is that number of grains.
LEMMA SumIsGrains ==
    ASSUME NEW f, NEW T, Counts(f, T)
    PROVE  S!SumOver(f, T) = Cardinality(Grains(f, T))
<1> DEFINE Pick(s) == CHOOSE x \in s : TRUE
           IsSum(h) == h = [s \in SUBSET T |-> IF s = {} THEN 0 ELSE f[Pick(s)] + h[s \ {Pick(s)}]]
           num == [s \in SUBSET T |-> Cardinality(Grains(f, s))]
<1>0. \A s \in SUBSET T : Counts(f, s)
  BY FS_Subset DEF Counts
<1>1. IsSum(num)
  <2>1. ASSUME NEW s \in SUBSET T
        PROVE  num[s] = IF s = {} THEN 0 ELSE f[Pick(s)] + num[s \ {Pick(s)}]
    <3>1. CASE s = {}
      <4>1. Grains(f, s) = {}
        BY <3>1 DEF Grains
      <4> QED BY <3>1, <4>1, FS_EmptySet
    <3>2. CASE s # {}
      <4>1. Pick(s) \in s
        BY <3>2
      <4>2. s \ {Pick(s)} \in SUBSET T
        OBVIOUS
      <4> HIDE DEF Pick
      <4>3. Cardinality(Grains(f, s)) = f[Pick(s)] + Cardinality(Grains(f, s \ {Pick(s)}))
        BY <4>1, <1>0, GrainsAdd
      <4>4. num[s] = Cardinality(Grains(f, s)) /\ num[s \ {Pick(s)}] = Cardinality(Grains(f, s \ {Pick(s)}))
        BY <4>2
      <4> HIDE DEF num
      <4> QED BY <3>2, <4>3, <4>4
    <3> QED BY <3>1, <3>2
  <2> HIDE DEF Pick
  <2> QED BY <2>1
<1>2. ASSUME NEW h, IsSum(h) PROVE h[T] = num[T]
  <2> DEFINE Bad == {s \in SUBSET T : h[s] # num[s]}
             Under == StrictSubsetOrdering(T)
  <2>1. SUFFICES ASSUME Bad # {} PROVE FALSE
    OBVIOUS
  <2>2. IsWellFoundedOn(Under, FiniteSubsetsOf(T))
    BY FS_StrictSubsetOrderingWellFounded
  <2>3. Bad \subseteq FiniteSubsetsOf(T)
    BY <1>0 DEF FiniteSubsetsOf, Counts
  <2>4. PICK s \in Bad : \A u \in Bad : ~(<<u, s>> \in Under)
    <3> HIDE DEF Bad, Under
    <3> QED BY <2>1, <2>2, <2>3, WFMin
  <2>5. h[s] = (IF s = {} THEN 0 ELSE f[Pick(s)] + h[s \ {Pick(s)}])
    <3>1. s \in SUBSET T
      OBVIOUS
    <3> HIDE DEF Pick, num, Bad
    <3> QED BY <3>1, <1>2
  <2>6. num[s] = (IF s = {} THEN 0 ELSE f[Pick(s)] + num[s \ {Pick(s)}])
    <3> HIDE DEF Pick, num
    <3> QED BY <1>1
  <2>7. s # {} /\ Pick(s) \in s
    <3> HIDE DEF num
    <3> QED BY <2>5, <2>6
  <2>8. <<s \ {Pick(s)}, s>> \in Under /\ s \ {Pick(s)} \in SUBSET T
    <3> HIDE DEF Pick, num
    <3> QED BY <2>7 DEF StrictSubsetOrdering
  <2>9. h[s \ {Pick(s)}] = num[s \ {Pick(s)}]
    <3> HIDE DEF Pick, num, Under
    <3> QED BY <2>4, <2>8
  <2> HIDE DEF Pick, num
  <2> QED BY <2>5, <2>6, <2>7, <2>9
<1>3. S!SumOver(f, T) = (CHOOSE h : IsSum(h))[T]
  BY DEF S!SumOver, S!MapThenSumSet, S!MapThenFoldSet
<1>4. num[T] = Cardinality(Grains(f, T))
  OBVIOUS
<1> HIDE DEF IsSum, num
<1> QED BY <1>1, <1>2, <1>3, <1>4

\* A sum of natural numbers is one.
LEMMA SumType ==
    ASSUME NEW f, NEW T, Counts(f, T)
    PROVE  S!SumOver(f, T) \in Nat
BY SumIsGrains, GrainsFinite, FS_CardinalityType

\* A sum over two sets that do not meet is the sum over each.
LEMMA SumUnion ==
    ASSUME NEW f, NEW T, NEW U, Counts(f, T), Counts(f, U), T \cap U = {}
    PROVE  S!SumOver(f, T \cup U) = S!SumOver(f, T) + S!SumOver(f, U)
<1>1. Counts(f, T \cup U)
  BY FS_Union DEF Counts
<1>2. IsFiniteSet(Grains(f, T)) /\ IsFiniteSet(Grains(f, U))
  BY GrainsFinite
<1>3. Cardinality(Grains(f, T)) \in Nat /\ Cardinality(Grains(f, U)) \in Nat
  BY <1>2, FS_CardinalityType
<1>4. Grains(f, T \cup U) = Grains(f, T) \cup Grains(f, U) /\ Grains(f, T) \cap Grains(f, U) = {}
  BY DEF Grains
<1>5. Cardinality(Grains(f, T) \cup Grains(f, U)) = Cardinality(Grains(f, T)) + Cardinality(Grains(f, U))
  <2>1. Cardinality(Grains(f, T) \cup Grains(f, U)) =
          Cardinality(Grains(f, T)) + Cardinality(Grains(f, U)) - Cardinality(Grains(f, T) \cap Grains(f, U))
    BY <1>2, FS_Union
  <2>2. Cardinality(Grains(f, T) \cap Grains(f, U)) = 0
    BY <1>4, FS_EmptySet
  <2> QED BY <1>3, <2>1, <2>2
<1>6. S!SumOver(f, T) = Cardinality(Grains(f, T)) /\ S!SumOver(f, U) = Cardinality(Grains(f, U))
  BY SumIsGrains
<1>7. S!SumOver(f, T \cup U) = Cardinality(Grains(f, T \cup U))
  BY <1>1, SumIsGrains
<1>8. Cardinality(Grains(f, T \cup U)) = Cardinality(Grains(f, T) \cup Grains(f, U))
  BY <1>4
<1> QED BY <1>3, <1>5, <1>6, <1>7, <1>8, Zenon

\* Functions that agree have the same sum.
LEMMA SumSame ==
    ASSUME NEW f, NEW g, NEW T, Counts(f, T), \A x \in T : g[x] = f[x]
    PROVE  S!SumOver(g, T) = S!SumOver(f, T)
<1>1. Counts(g, T)
  BY DEF Counts
<1>2. Grains(g, T) = Grains(f, T)
  BY DEF Grains
<1> QED BY <1>1, <1>2, SumIsGrains

\* A sum over fewer numbers is no more, and lacks what the others sum up to.
LEMMA SumMono ==
    ASSUME NEW f, NEW T, NEW U \in SUBSET T, Counts(f, T)
    PROVE  S!SumOver(f, U) <= S!SumOver(f, T) /\ S!SumOver(f, T \ U) = S!SumOver(f, T) - S!SumOver(f, U)
<1>1. Counts(f, U) /\ Counts(f, T \ U)
  BY FS_Subset DEF Counts
<1>2. U \cup (T \ U) = T /\ U \cap (T \ U) = {}
  OBVIOUS
<1>3. S!SumOver(f, T) = S!SumOver(f, U) + S!SumOver(f, T \ U)
  BY <1>1, <1>2, SumUnion
<1> QED BY <1>1, <1>3, SumType

\* A sum of zeros is zero.
LEMMA SumZero ==
    ASSUME NEW f, NEW T, IsFiniteSet(T), \A x \in T : f[x] = 0
    PROVE  S!SumOver(f, T) = 0
<1>1. Counts(f, T)
  BY DEF Counts
<1>2. Grains(f, T) = {}
  BY DEF Grains
<1> QED BY <1>1, <1>2, SumIsGrains, FS_EmptySet

\* Only zeros sum up to zero.
LEMMA ZeroSum ==
    ASSUME NEW f, NEW T, Counts(f, T), S!SumOver(f, T) = 0
    PROVE  \A x \in T : f[x] = 0
<1> SUFFICES ASSUME NEW x \in T PROVE f[x] = 0
  OBVIOUS
<1>1. Cardinality(Grains(f, T)) = 0
  BY SumIsGrains
<1>2. Cardinality(Grains(f, T)) = f[x] + Cardinality(Grains(f, T \ {x}))
  BY GrainsAdd
<1>3. Counts(f, T \ {x})
  BY FS_RemoveElement DEF Counts
<1>4. Cardinality(Grains(f, T \ {x})) \in Nat /\ f[x] \in Nat
  BY <1>3, GrainsFinite, FS_CardinalityType DEF Counts
<1> QED BY <1>1, <1>2, <1>4

\* A number at one place that grows, or is cleared, changes the sum by as much.
LEMMA SumAdd ==
    ASSUME NEW f, NEW g, NEW T, Counts(f, T), NEW x \in T, NEW m \in Nat,
           g[x] = f[x] + m, \A y \in T \ {x} : g[y] = f[y]
    PROVE  S!SumOver(g, T) = S!SumOver(f, T) + m
<1>1. Counts(g, T)
  BY DEF Counts
<1>2. Counts(f, T \ {x})
  BY FS_RemoveElement DEF Counts
<1>3. Grains(g, T \ {x}) = Grains(f, T \ {x})
  BY DEF Grains
<1>4. Cardinality(Grains(f, T \ {x})) \in Nat
  BY <1>2, GrainsFinite, FS_CardinalityType
<1>5. /\ Cardinality(Grains(f, T)) = f[x] + Cardinality(Grains(f, T \ {x}))
      /\ Cardinality(Grains(g, T)) = g[x] + Cardinality(Grains(g, T \ {x}))
  BY <1>1, GrainsAdd
<1>6. f[x] \in Nat
  BY DEF Counts
<1> QED BY <1>1, <1>3, <1>4, <1>5, <1>6, SumIsGrains

\* What is below a sum's numbers sums up to no more.
LEMMA SumBelow ==
    ASSUME NEW f, NEW g, NEW T, Counts(f, T), Counts(g, T), \A x \in T : g[x] <= f[x]
    PROVE  S!SumOver(g, T) <= S!SumOver(f, T)
<1>1. Grains(g, T) \in SUBSET Grains(f, T)
  <2> SUFFICES ASSUME NEW x \in T, NEW j \in 1 .. g[x] PROVE j \in 1 .. f[x]
    BY DEF Grains
  <2>1. g[x] \in Nat /\ f[x] \in Nat /\ g[x] <= f[x]
    BY DEF Counts
  <2> QED BY <2>1
<1>2. IsFiniteSet(Grains(f, T))
  BY GrainsFinite
<1>3. Cardinality(Grains(g, T)) <= Cardinality(Grains(f, T))
  BY <1>1, <1>2, FS_Subset
<1> QED BY <1>3, SumIsGrains

\* A log that moved on by one: what it had before some age, it has one age later.
LEMMA SumShift ==
    ASSUME NEW l \in [0 .. Horizon -> Nat], NEW n \in Nat, n <= Horizon
    PROVE  S!SumOver(S!Shift(l), 0 .. n) = IF n = 0 THEN 0 ELSE S!SumOver(l, 0 .. n - 1)
<1> DEFINE m == S!Shift(l)
           U == Grains(l, 0 .. n - 1)
           V == Grains(m, 0 .. n)
           h == [y \in U |-> <<y[1] + 1, y[2]>>]
<1>0. Horizon \in Nat
  BY LedgerAssumed DEF S!StatsAssumption
<1>1. \A k \in 0 .. n : m[k] = IF k = 0 THEN 0 ELSE l[k - 1]
  BY <1>0 DEF S!Shift
<1>2. Counts(l, 0 .. n - 1) /\ Counts(m, 0 .. n)
  <2>1. IsFiniteSet(0 .. n - 1) /\ IsFiniteSet(0 .. n)
    BY FS_Interval
  <2>2. \A k \in 0 .. n - 1 : l[k] \in Nat
    BY <1>0
  <2>3. \A k \in 0 .. n : m[k] \in Nat
    BY <1>1, <2>2
  <2> QED BY <2>1, <2>2, <2>3 DEF Counts
<1>3. h \in Bijection(U, V)
  <2>1. \A y \in U : \E k \in 0 .. n - 1 : \E j \in 1 .. l[k] : y = <<k, j>>
    BY DEF Grains
  <2>2. \A z \in V : \E k \in 0 .. n : \E j \in 1 .. m[k] : z = <<k, j>>
    BY DEF Grains
  <2>3. \A k \in 0 .. n : \A j \in 1 .. m[k] : <<k, j>> \in V
    BY DEF Grains
  <2>4. \A k \in 0 .. n - 1 : \A j \in 1 .. l[k] : <<k, j>> \in U
    BY DEF Grains
  <2> HIDE DEF U, V, m
  <2>5. ASSUME NEW y \in U PROVE h[y] \in V
    <3>1. PICK k \in 0 .. n - 1 : \E j \in 1 .. l[k] : y = <<k, j>>
      BY <2>1
    <3>4. PICK j \in 1 .. l[k] : y = <<k, j>>
      BY <3>1
    <3>2. k + 1 \in 0 .. n /\ k + 1 # 0 /\ k + 1 - 1 = k
      OBVIOUS
    <3>3. m[k + 1] = l[k]
      BY <3>2, <1>1
    <3> QED BY <3>4, <3>2, <3>3, <2>3
  <2>6. ASSUME NEW z \in V PROVE \E y \in U : h[y] = z
    <3>1. PICK k \in 0 .. n : \E j \in 1 .. m[k] : z = <<k, j>>
      BY <2>2
    <3>5. PICK j \in 1 .. m[k] : z = <<k, j>>
      BY <3>1
    <3>2. k # 0 /\ m[k] = l[k - 1]
      BY <3>5, <1>1
    <3>3. <<k - 1, j>> \in U
      BY <3>2, <2>4
    <3>4. h[<<k - 1, j>>] = <<k, j>>
      BY <3>3
    <3> QED BY <3>5, <3>3, <3>4
  <2>7. \A y, z \in U : h[y] = h[z] => y = z
    BY <2>1
  <2>8. h \in [U -> V]
    BY <2>5
  <2> HIDE DEF h
  <2> QED BY <2>6, <2>7, <2>8 DEF Bijection, Injection, Surjection, IsInjective
<1>4. IsFiniteSet(U) /\ IsFiniteSet(V)
  BY <1>2, GrainsFinite
<1>5. Cardinality(V) = Cardinality(U)
  <2> HIDE DEF U, V, h
  <2> QED BY <1>3, <1>4, FS_Bijection DEF ExistsBijection
<1>6. S!SumOver(m, 0 .. n) = S!SumOver(l, 0 .. n - 1)
  BY <1>2, <1>5, SumIsGrains
<1>7. CASE n = 0
  <2>1. 0 .. n - 1 = {}
    BY <1>7
  <2>2. S!SumOver(l, {}) = 0
    BY FS_EmptySet, SumZero
  <2> QED BY <1>6, <1>7, <2>1, <2>2
<1> QED BY <1>6, <1>7

-----------------------------------------------------------------------------
(* The ring of buckets                                                       *)

\* How many buckets ago bucket i was the current one, x, of a ring of n; those
\* that were at most, and more than, d buckets ago.
Dist(x, n, i) == IF i <= x THEN x - i ELSE x - i + n
Near(x, n, d) == {i \in 0 .. n - 1 : Dist(x, n, i) <= d}
Far(x, n, d)  == {i \in 0 .. n - 1 : Dist(x, n, i) > d}

\* The buckets Roll empties when k have passed.
Gone(x, n, k) == {(x + j) % n : j \in 1 .. k}

\* Indices wrap once at most.
LEMMA WrapsOnce ==
    ASSUME NEW n \in Nat \ {0}, NEW y \in 0 .. 2 * n - 1
    PROVE  y % n = IF y < n THEN y ELSE y - n
<1>1. CASE y < n
  BY <1>1
<1>2. CASE ~(y < n)
  <2>1. y = (y - n) + 1 * n /\ y - n \in 0 .. n - 1
    BY <1>2
  <2> QED BY <2>1, <1>2
<1> QED BY <1>1, <1>2

\* What is emptied are the k oldest, and the others are k buckets older.
LEMMA RingTurns ==
    ASSUME NEW n \in Nat \ {0}, NEW x \in 0 .. n - 1, NEW k \in 1 .. n
    PROVE  /\ (x + k) % n \in 0 .. n - 1
           /\ Gone(x, n, k) = {i \in 0 .. n - 1 : Dist(x, n, i) >= n - k}
           /\ \A i \in Gone(x, n, k) : Dist((x + k) % n, n, i) < k
           /\ \A i \in (0 .. n - 1) \ Gone(x, n, k) : Dist((x + k) % n, n, i) = Dist(x, n, i) + k
<1> DEFINE z == IF x + k < n THEN x + k ELSE x + k - n
           old == {i \in 0 .. n - 1 : Dist(x, n, i) >= n - k}
<1>1. (x + k) % n = z /\ z \in 0 .. n - 1
  <2> DEFINE y == x + k
  <2>1. y \in 0 .. 2 * n - 1
    OBVIOUS
  <2> HIDE DEF y
  <2>2. y % n = IF y < n THEN y ELSE y - n
    BY <2>1, WrapsOnce
  <2> QED BY <2>2 DEF y
<1>2. \A j \in 1 .. k : (x + j) % n = IF x + j < n THEN x + j ELSE x + j - n
  <2> SUFFICES ASSUME NEW j \in 1 .. k PROVE (x + j) % n = IF x + j < n THEN x + j ELSE x + j - n
    OBVIOUS
  <2> DEFINE y == x + j
  <2>1. y \in 0 .. 2 * n - 1
    OBVIOUS
  <2> HIDE DEF y
  <2>2. y % n = IF y < n THEN y ELSE y - n
    BY <2>1, WrapsOnce
  <2> QED BY <2>2 DEF y
<1>3. Gone(x, n, k) \subseteq old
  <2> SUFFICES ASSUME NEW j \in 1 .. k PROVE (x + j) % n \in old
    BY DEF Gone
  <2> QED BY <1>2 DEF Dist
<1>4. old \subseteq Gone(x, n, k)
  <2> SUFFICES ASSUME NEW i \in 0 .. n - 1, Dist(x, n, i) >= n - k PROVE i \in Gone(x, n, k)
    OBVIOUS
  <2>1. CASE i <= x
    <3>1. i + n - x \in 1 .. k /\ x + (i + n - x) = i + n
      BY <2>1 DEF Dist
    <3>2. (x + (i + n - x)) % n = i
      BY <3>1, <1>2
    <3> QED BY <3>1, <3>2 DEF Gone
  <2>2. CASE ~(i <= x)
    <3>1. i - x \in 1 .. k /\ x + (i - x) = i
      BY <2>2 DEF Dist
    <3>2. (x + (i - x)) % n = i
      BY <3>1, <1>2
    <3> QED BY <3>1, <3>2 DEF Gone
  <2> QED BY <2>1, <2>2
<1>5. \A i \in old : Dist(z, n, i) < k
  BY DEF Dist
<1>6. \A i \in (0 .. n - 1) \ old : Dist(z, n, i) = Dist(x, n, i) + k
  BY DEF Dist
<1>7. Gone(x, n, k) = old
  BY <1>3, <1>4
<1> QED BY <1>1, <1>5, <1>6, <1>7

\* Every bucket is near or far, and was the current one at most n - 1 buckets ago.
LEMMA NearOrFar ==
    ASSUME NEW n \in Nat \ {0}, NEW x \in 0 .. n - 1, NEW d \in Int
    PROVE  /\ Near(x, n, d) = (0 .. n - 1) \ Far(x, n, d)
           /\ d >= n - 1 => Far(x, n, d) = {}
           /\ d >= 0 => x \in Near(x, n, d)
BY DEF Near, Far, Dist

\* How many buckets ago one was the current one: fewer than there are.
LEMMA DistRange ==
    ASSUME NEW n \in Nat \ {0}, NEW x \in 0 .. n - 1
    PROVE  \A i \in 0 .. n - 1 : Dist(x, n, i) \in 0 .. n - 1
BY DEF Dist

\* Division by a number of units: how many whole ones have passed.
LEMMA Whole ==
    ASSUME NEW a \in Nat, NEW m \in Nat \ {0}
    PROVE  a \div m \in Nat /\ (a \div m) * m <= a /\ a < (a \div m) * m + m
OBVIOUS

\* A rolled window: the k oldest buckets left it.
Rolled(w, n, k, r) ==
    /\ r.idx = (w.idx + k) % n
    /\ r.b = [i \in 0 .. n - 1 |-> IF i \in Gone(w.idx, n, k) THEN 0 ELSE w.b[i]]

\* One that was rolled by k buckets, as Roll does.
RolledBy(w, n, len, k, r) ==
    /\ Rolled(w, n, k, r)
    /\ k * len <= w.age /\ (k = n \/ w.age < k * len + len)
    /\ r = [b |-> r.b, idx |-> r.idx, age |-> 0,
            total |-> S!BiggerOf(0, w.total - S!SumOver(w.b, Gone(w.idx, n, k)))]

\* Some buckets have passed: what Roll leaves of a window.
LEMMA RollMoves ==
    ASSUME NEW n \in Nat \ {0}, NEW len \in Nat \ {0}, NEW w \in S!Window(n), w.age >= len,
           NEW r, r = S!Roll(w, n, len)
    PROVE  \E k \in 1 .. n : RolledBy(w, n, len, k, r)
<1>0. w.age \in Nat /\ w.idx \in 0 .. n - 1 /\ DOMAIN w.b = 0 .. n - 1
  BY DEF S!Window
<1> DEFINE v == w.age \div len
           k == S!SmallerOf(v, n)
<1>1. v \in Nat /\ v * len <= w.age /\ w.age < v * len + len
  BY <1>0, Whole
<1>2. v >= 1
  <2> HIDE DEF v
  <2> SUFFICES ASSUME v = 0 PROVE FALSE
    BY <1>1
  <2>1. v * len = 0
    OBVIOUS
  <2> QED BY <2>1, <1>1, <1>0
<1> HIDE DEF v
<1>3. k \in 1 .. n /\ (k = n \/ k = v) /\ k <= v
  BY <1>1, <1>2 DEF S!SmallerOf
<1>4. k * len <= w.age
  <2>1. k * len <= v * len
    BY <1>1, <1>3, TimesMono
  <2> QED BY <2>1, <1>1, <1>0, <1>3
<1>5. k = n \/ w.age < k * len + len
  BY <1>3, <1>1
<1>6. r = [b     |-> [i \in DOMAIN w.b |-> IF i \in Gone(w.idx, n, k) THEN 0 ELSE w.b[i]],
           idx   |-> (w.idx + k) % n,
           age   |-> 0,
           total |-> S!BiggerOf(0, w.total - S!SumOver(w.b, Gone(w.idx, n, k)))]
  <2>1. ~(w.age < len)
    BY <1>0
  <2> QED BY <2>1 DEF S!Roll, Gone, v
<1> HIDE DEF k
<1>7. Rolled(w, n, k, r)
  BY <1>0, <1>6 DEF Rolled
<1>8. r = [b |-> r.b, idx |-> r.idx, age |-> 0,
           total |-> S!BiggerOf(0, w.total - S!SumOver(w.b, Gone(w.idx, n, k)))]
  BY <1>6
<1> QED BY <1>3, <1>4, <1>5, <1>7, <1>8 DEF RolledBy

\* The buckets of a window, and the units of a log, can be summed up.
LEMMA BucketsCount ==
    ASSUME NEW n \in Nat \ {0}, NEW b \in [0 .. n - 1 -> Nat], NEW U \in SUBSET (0 .. n - 1)
    PROVE  Counts(b, U)
<1>1. IsFiniteSet(0 .. n - 1)
  BY FS_Interval
<1> QED BY <1>1, FS_Subset DEF Counts

\* A sum after some places were cleared is that over the others.
LEMMA SumCleared ==
    ASSUME NEW f, NEW g, NEW T, NEW Z, Counts(f, T),
           \A x \in T : x \in Z => g[x] = 0, \A x \in T \ Z : g[x] = f[x]
    PROVE  S!SumOver(g, T) = S!SumOver(f, T \ Z)
<1>1. Counts(g, T) /\ Counts(f, T \ Z)
  BY FS_Subset DEF Counts
<1>2. Grains(g, T) = Grains(f, T \ Z)
  <2>1. \A x \in T \ Z : g[x] = f[x]
    OBVIOUS
  <2>2. \A x \in T : x \in Z => 1 .. g[x] = {}
    OBVIOUS
  <2>3. \A y \in Grains(g, T) : y \in Grains(f, T \ Z)
    <3> SUFFICES ASSUME NEW x \in T, NEW j \in 1 .. g[x] PROVE <<x, j>> \in Grains(f, T \ Z)
      BY DEF Grains
    <3>1. x \in T \ Z
      BY <2>2
    <3>2. j \in 1 .. f[x]
      BY <3>1, <2>1
    <3> QED BY <3>1, <3>2 DEF Grains
  <2>4. \A y \in Grains(f, T \ Z) : y \in Grains(g, T)
    <3> SUFFICES ASSUME NEW x \in T \ Z, NEW j \in 1 .. f[x] PROVE <<x, j>> \in Grains(g, T)
      BY DEF Grains
    <3>1. j \in 1 .. g[x] /\ x \in T
      BY <2>1
    <3> QED BY <3>1 DEF Grains
  <2> QED BY <2>3, <2>4
<1> QED BY <1>1, <1>2, SumIsGrains

\* What its buckets hold, counted from the current one back and from the oldest on.
LEMMA RolledSums ==
    ASSUME NEW n \in Nat \ {0}, NEW w \in S!Window(n), NEW k \in 1 .. n, NEW r, Rolled(w, n, k, r)
    PROVE  /\ r.idx \in 0 .. n - 1 /\ r.b \in [0 .. n - 1 -> Nat]
           /\ S!SumOver(w.b, 0 .. n - 1) \in Nat
           /\ S!SumOver(w.b, Gone(w.idx, n, k)) \in 0 .. S!SumOver(w.b, 0 .. n - 1)
           /\ S!SumOver(r.b, 0 .. n - 1)
                = S!SumOver(w.b, 0 .. n - 1) - S!SumOver(w.b, Gone(w.idx, n, k))
           /\ \A d \in k .. n - 1 :
                 /\ S!SumOver(r.b, Far(r.idx, n, d))
                      = S!SumOver(w.b, Far(w.idx, n, d - k)) - S!SumOver(w.b, Gone(w.idx, n, k))
                 /\ S!SumOver(r.b, Near(r.idx, n, d)) = S!SumOver(w.b, Near(w.idx, n, d - k))
           /\ \A d \in 0 .. k - 1 :
                 /\ S!SumOver(r.b, Far(r.idx, n, d))
                      <= S!SumOver(w.b, 0 .. n - 1) - S!SumOver(w.b, Gone(w.idx, n, k))
                 /\ S!SumOver(r.b, Near(r.idx, n, d)) = 0
<1> DEFINE I == 0 .. n - 1
           Z == Gone(w.idx, n, k)
           whole == S!SumOver(w.b, I)
           spent == S!SumOver(w.b, Z)
<1>1. w.idx \in I /\ w.b \in [I -> Nat]
  BY DEF S!Window
<1>2. /\ r.idx \in I
      /\ Z = {i \in I : Dist(w.idx, n, i) >= n - k}
      /\ \A i \in Z : Dist(r.idx, n, i) < k
      /\ \A i \in I \ Z : Dist(r.idx, n, i) = Dist(w.idx, n, i) + k
  <2> DEFINE v == w.idx
  <2>1. v \in 0 .. n - 1
    BY <1>1
  <2> HIDE DEF v
  <2>2. /\ (v + k) % n \in 0 .. n - 1
        /\ Gone(v, n, k) = {i \in 0 .. n - 1 : Dist(v, n, i) >= n - k}
        /\ \A i \in Gone(v, n, k) : Dist((v + k) % n, n, i) < k
        /\ \A i \in (0 .. n - 1) \ Gone(v, n, k) : Dist((v + k) % n, n, i) = Dist(v, n, i) + k
    BY <2>1, RingTurns
  <2>3. r.idx = (v + k) % n
    BY DEF Rolled, v
  <2> QED BY <2>2, <2>3, Zenon DEF v
<1>3. r.b \in [I -> Nat] /\ \A i \in I : r.b[i] = IF i \in Z THEN 0 ELSE w.b[i]
  BY <1>1 DEF Rolled
<1> DEFINE x == w.idx
           y == r.idx
           b == w.b
           c == r.b
<1>4. \A i \in I : Dist(x, n, i) \in I /\ Dist(y, n, i) \in I
  <2>1. x \in 0 .. n - 1 /\ y \in 0 .. n - 1
    BY <1>1, <1>2
  <2> HIDE DEF x, y
  <2> QED BY <2>1, DistRange
<1> HIDE DEF Z, x, y, b, c
<1>5. \A U \in SUBSET I : Counts(b, U) /\ Counts(c, U)
  BY <1>1, <1>3, BucketsCount DEF b, c
<1>6. \A U \in SUBSET I : S!SumOver(c, U) = S!SumOver(b, U \ Z)
  <2> SUFFICES ASSUME NEW U \in SUBSET I PROVE S!SumOver(c, U) = S!SumOver(b, U \ Z)
    OBVIOUS
  <2>1. (\A i \in U : i \in Z => c[i] = 0) /\ \A i \in U \ Z : c[i] = b[i]
    BY <1>3 DEF b, c
  <2>2. Counts(b, U)
    BY <1>5
  <2> HIDE DEF I, whole, spent
  <2> QED BY <2>1, <2>2, SumCleared, SMT
<1>7. Z \subseteq I
  BY <1>2
<1>8. whole \in Nat /\ spent \in 0 .. whole /\ S!SumOver(c, I) = whole - spent
  <2>1. Counts(b, I) /\ Counts(b, Z)
    BY <1>5, <1>7
  <2>2. whole \in Nat /\ spent \in Nat
    BY <2>1, SumType DEF b
  <2>3. spent <= whole /\ S!SumOver(b, I \ Z) = whole - spent
    BY <2>1, <1>7, SumMono DEF b
  <2> QED BY <2>2, <2>3, <1>6
<1>9. ASSUME NEW d \in k .. n - 1
      PROVE  /\ S!SumOver(c, Far(y, n, d)) = S!SumOver(b, Far(x, n, d - k)) - spent
             /\ S!SumOver(c, Near(y, n, d)) = S!SumOver(b, Near(x, n, d - k))
  <2>1. Far(y, n, d) \ Z = Far(x, n, d - k) \ Z
    BY <1>2, <1>4 DEF Far, x, y
  <2>2. Z \subseteq Far(x, n, d - k) /\ Far(x, n, d - k) \subseteq I
    BY <1>2, <1>4 DEF Far, x
  <2>3. Near(y, n, d) \ Z = Near(x, n, d - k)
    BY <1>2, <1>4 DEF Near, x, y
  <2>4. Far(y, n, d) \in SUBSET I /\ Near(y, n, d) \in SUBSET I
    BY DEF Far, Near
  <2>5. S!SumOver(b, Far(x, n, d - k) \ Z) = S!SumOver(b, Far(x, n, d - k)) - S!SumOver(b, Z)
    BY <2>2, <1>5, SumMono
  <2>6. spent = S!SumOver(b, Z)
    BY DEF b
  <2> HIDE DEF I, spent
  <2> QED BY <2>1, <2>3, <2>4, <2>5, <2>6, <1>6
<1>10. ASSUME NEW d \in 0 .. k - 1
       PROVE  /\ S!SumOver(c, Far(y, n, d)) <= whole - spent
              /\ S!SumOver(c, Near(y, n, d)) = 0
  <2>1. Far(y, n, d) \in SUBSET I
    BY DEF Far
  <2>2. S!SumOver(c, Far(y, n, d)) <= S!SumOver(c, I)
    BY <2>1, <1>5, SumMono
  <2>3. Near(y, n, d) \ Z = {}
    BY <1>2, <1>4 DEF Near, x, y
  <2>4. Near(y, n, d) \in SUBSET I
    BY DEF Near
  <2>5. S!SumOver(b, {}) = 0
    BY SumZero, FS_EmptySet
  <2> QED BY <2>2, <2>3, <2>4, <2>5, <1>6, <1>8
<1> QED BY <1>2, <1>3, <1>8, <1>9, <1>10 DEF x, y, b, c, Z

-----------------------------------------------------------------------------
(* A window and the log                                                      *)

\* The units of time of the log before t.
Before(t) == {k \in 0 .. Horizon : k < t}

\* An age the clock made negative counts as none.
Positive(x) == S!BiggerOf(x, 0)

\* Nothing was counted in the last `age' units of time.
Quiet(age, l) == \A k \in 0 .. Horizon : k < age => l[k] = 0

\* What a window counts in its last d + 1 buckets, at least: all that was counted
\* since the oldest of them began.
Covers(w, n, len, l) ==
    \A d \in 0 .. n - 1 :
       w.total - S!SumOver(w.b, Far(w.idx, n, d)) >= S!SumOver(l, Before(d * len + Positive(w.age)))

\* A window of n buckets of len units of time, and the log l: it counts what its
\* buckets hold or more, was rolled before the last packet was counted, and, if
\* cov says so, counts what the log has.
Sound(w, n, len, l, cov) ==
    /\ w \in S!Window(n)
    /\ w.total >= S!SumOver(w.b, 0 .. n - 1)
    /\ Quiet(w.age - len + 1, l)
    /\ cov => Covers(w, n, len, l)

\* Its total is the sum of its buckets.
Exact(w, n) == w.total = S!SumOver(w.b, 0 .. n - 1)

\* A roll forgets what is left of a bucket's life: one unit short of another life.
Life == 2 * MinuteLen - 1

\* What the minute window counts in its last d + 1 buckets, at most: the current one
\* began t units of time ago, and each before it lived Life.  t is the age the
\* window has and what setting the clock back, c times, has hidden of it, unless it
\* is so old that it will be emptied, however often the clock is still set back.
Fades(w, l, c, t) ==
    /\ t \in Nat
    /\ \A d \in 0 .. Minutes - 1 : d * Life + t <= Horizon =>
          S!SumOver(w.b, Near(w.idx, Minutes, d)) <= S!SumOver(l, Before(d * Life + t + 1))
    /\ \/ t <= w.age + c * BackBy
       \/ w.age >= Minutes * MinuteLen + (BackSteps - c) * BackBy

\* A log of counts.
Logs == [0 .. Horizon -> Nat]

\* The log before some time can be summed up.
LEMMA LogsCount ==
    ASSUME NEW l \in Logs, NEW t \in Int
    PROVE  Counts(l, Before(t)) /\ S!SumOver(l, Before(t)) \in Nat
<1>1. Horizon \in Nat
  BY LedgerAssumed DEF S!StatsAssumption
<1>2. IsFiniteSet(0 .. Horizon)
  BY <1>1, FS_Interval
<1>3. Before(t) \in SUBSET (0 .. Horizon)
  BY DEF Before
<1>4. Counts(l, Before(t))
  <2>1. IsFiniteSet(Before(t))
    BY <1>2, <1>3, FS_Subset
  <2> QED BY <2>1, <1>3 DEF Counts, Logs
<1> QED BY <1>4, SumType

\* The longer the time, the more the log counts.
LEMMA LogMono ==
    ASSUME NEW l \in Logs, NEW s \in Int, NEW t \in Int, s <= t
    PROVE  S!SumOver(l, Before(s)) <= S!SumOver(l, Before(t))
<1>1. Horizon \in Nat
  BY LedgerAssumed DEF S!StatsAssumption
<1>2. Before(s) \in SUBSET Before(t)
  BY <1>1 DEF Before
<1>3. Counts(l, Before(t))
  BY LogsCount
<1> QED BY <1>2, <1>3, SumMono

\* A quiet log counts nothing.
LEMMA LogQuiet ==
    ASSUME NEW l \in Logs, NEW s \in Int, NEW t \in Int, s <= t, Quiet(t, l)
    PROVE  S!SumOver(l, Before(s)) = 0
<1>1. Horizon \in Nat
  BY LedgerAssumed DEF S!StatsAssumption
<1>2. IsFiniteSet(Before(s)) /\ \A k \in Before(s) : l[k] = 0
  <2>1. IsFiniteSet(Before(s))
    BY LogsCount DEF Counts
  <2>2. \A k \in Before(s) : k \in 0 .. Horizon /\ k < t
    BY <1>1 DEF Before
  <2> QED BY <2>1, <2>2 DEF Quiet
<1> QED BY <1>2, SumZero

\* What the shifted log counts before the next unit of time, and what it does not.
LEMMA LogShift ==
    ASSUME NEW l \in Logs, NEW t \in Int
    PROVE  /\ S!Shift(l) \in Logs
           /\ S!SumOver(S!Shift(l), Before(t + 1)) <= S!SumOver(l, Before(t))
           /\ t <= Horizon => S!SumOver(S!Shift(l), Before(t + 1)) = S!SumOver(l, Before(t))
           /\ Quiet(t, l) => Quiet(t + 1, S!Shift(l))
<1>1. Horizon \in Nat
  BY LedgerAssumed DEF S!StatsAssumption
<1>2. S!Shift(l) \in Logs /\ \A k \in 0 .. Horizon : S!Shift(l)[k] = IF k = 0 THEN 0 ELSE l[k - 1]
  <2>1. DOMAIN l = 0 .. Horizon
    BY DEF Logs
  <2>2. S!Shift(l) = [k \in 0 .. Horizon |-> IF k = 0 THEN 0 ELSE l[k - 1]]
    BY <2>1 DEF S!Shift
  <2>3. \A k \in 0 .. Horizon : k # 0 => l[k - 1] \in Nat
    <3> SUFFICES ASSUME NEW k \in 0 .. Horizon, k # 0 PROVE l[k - 1] \in Nat
      OBVIOUS
    <3>1. k - 1 \in 0 .. Horizon
      BY <1>1
    <3> QED BY <3>1 DEF Logs
  <2> QED BY <2>2, <2>3 DEF Logs
<1>3. Quiet(t, l) => Quiet(t + 1, S!Shift(l))
  <2> SUFFICES ASSUME Quiet(t, l), NEW k \in 0 .. Horizon, k < t + 1, k # 0 PROVE l[k - 1] = 0
    BY <1>2 DEF Quiet
  <2>1. k - 1 \in 0 .. Horizon /\ k - 1 < t
    BY <1>1
  <2> QED BY <2>1 DEF Quiet
<1>4. CASE t < 0
  <2>1. Before(t + 1) = {} /\ Before(t) = {}
    BY <1>4 DEF Before
  <2>2. S!SumOver(l, {}) = 0 /\ S!SumOver(S!Shift(l), {}) = 0
    BY FS_EmptySet, SumZero
  <2> QED BY <1>2, <1>3, <2>1, <2>2
<1>5. CASE 0 <= t /\ t <= Horizon
  <2>1. Before(t + 1) = 0 .. t /\ Before(t) = 0 .. t - 1
    BY <1>1, <1>5 DEF Before
  <2>2. S!SumOver(S!Shift(l), 0 .. t) = IF t = 0 THEN 0 ELSE S!SumOver(l, 0 .. t - 1)
    BY <1>5, SumShift DEF Logs
  <2>3. t = 0 => S!SumOver(l, 0 .. t - 1) = 0
    <3> SUFFICES ASSUME t = 0 PROVE S!SumOver(l, 0 .. t - 1) = 0
      OBVIOUS
    <3>1. 0 .. t - 1 = {}
      OBVIOUS
    <3>2. S!SumOver(l, {}) = 0
      BY FS_EmptySet, SumZero
    <3> QED BY <3>1, <3>2
  <2>4. S!SumOver(l, Before(t)) \in Nat
    BY LogsCount
  <2> QED BY <1>2, <1>3, <2>1, <2>2, <2>3, <2>4
<1>6. CASE t > Horizon
  <2>1. Before(t + 1) = 0 .. Horizon /\ Before(Horizon) = 0 .. Horizon - 1
    BY <1>1, <1>6 DEF Before
  <2>2. S!SumOver(S!Shift(l), 0 .. Horizon) = IF Horizon = 0 THEN 0 ELSE S!SumOver(l, 0 .. Horizon - 1)
    BY <1>1, SumShift DEF Logs
  <2>3. S!SumOver(l, Before(Horizon)) <= S!SumOver(l, Before(t)) /\ S!SumOver(l, Before(t)) \in Nat
    BY <1>1, <1>6, LogMono, LogsCount
  <2>4. S!SumOver(l, Before(Horizon)) \in Nat
    BY <1>1, LogsCount
  <2> QED BY <1>1, <1>2, <1>3, <1>6, <2>1, <2>2, <2>3, <2>4
<1> QED BY <1>4, <1>5, <1>6, <1>1

\* Multiplication distributes over a sum and a difference.
LEMMA Distributes ==
    ASSUME NEW a \in Int, NEW b \in Int, NEW c \in Int
    PROVE  (a + b) * c = a * c + b * c /\ (a - b) * c = a * c - b * c /\ a * c \in Int
OBVIOUS

\* A product of natural numbers is one.
LEMMA TimesNat ==
    ASSUME NEW a \in Nat, NEW c \in Nat
    PROVE  a * c \in Nat
OBVIOUS

\* A window rolled by some buckets is as sound, and as exact, as it was.
LEMMA RolledSound ==
    ASSUME NEW n \in Nat \ {0}, NEW len \in Nat \ {0}, NEW l \in Logs, NEW cov \in BOOLEAN,
           NEW w, Sound(w, n, len, l, cov), w.age >= len,
           NEW k \in 1 .. n, NEW r, RolledBy(w, n, len, k, r)
    PROVE  Sound(r, n, len, l, cov) /\ (Exact(w, n) => Exact(r, n)) /\ r.age = 0
<1>13. w \in S!Window(n) /\ w.age \in Int /\ w.idx \in 0 .. n - 1 /\ w.total \in Nat
  BY DEF Sound, S!Window
<1>12. k * len <= w.age /\ r.age = 0
  BY DEF RolledBy
<1>2. Rolled(w, n, k, r)
  BY DEF RolledBy
<1> DEFINE whole == S!SumOver(w.b, 0 .. n - 1)
           spent == S!SumOver(w.b, Gone(w.idx, n, k))
<1>3. /\ r.idx \in 0 .. n - 1 /\ r.b \in [0 .. n - 1 -> Nat]
      /\ whole \in Nat
      /\ spent \in 0 .. whole
      /\ S!SumOver(r.b, 0 .. n - 1) = whole - spent
      /\ \A d \in k .. n - 1 :
            /\ S!SumOver(r.b, Far(r.idx, n, d)) = S!SumOver(w.b, Far(w.idx, n, d - k)) - spent
            /\ S!SumOver(r.b, Near(r.idx, n, d)) = S!SumOver(w.b, Near(w.idx, n, d - k))
      /\ \A d \in 0 .. k - 1 :
            /\ S!SumOver(r.b, Far(r.idx, n, d)) <= whole - spent
            /\ S!SumOver(r.b, Near(r.idx, n, d)) = 0
  <2>1. r.idx \in 0 .. n - 1 /\ r.b \in [0 .. n - 1 -> Nat]
    BY <1>13, <1>2, RolledSums
  <2>2. whole \in Nat /\ spent \in 0 .. whole
    BY <1>13, <1>2, RolledSums
  <2>3. S!SumOver(r.b, 0 .. n - 1) = whole - spent
    BY <1>13, <1>2, RolledSums
  <2>4. ASSUME NEW d \in k .. n - 1
        PROVE  /\ S!SumOver(r.b, Far(r.idx, n, d)) = S!SumOver(w.b, Far(w.idx, n, d - k)) - spent
               /\ S!SumOver(r.b, Near(r.idx, n, d)) = S!SumOver(w.b, Near(w.idx, n, d - k))
    BY <1>13, <1>2, RolledSums
  <2>5. ASSUME NEW d \in 0 .. k - 1
        PROVE  /\ S!SumOver(r.b, Far(r.idx, n, d)) <= whole - spent
               /\ S!SumOver(r.b, Near(r.idx, n, d)) = 0
    BY <1>13, <1>2, RolledSums
  <2> HIDE DEF whole, spent
  <2> QED BY <2>1, <2>2, <2>3, <2>4, <2>5
<1>4. w.total >= whole /\ (Exact(w, n) => w.total = whole)
  BY DEF Sound, Exact
<1>5. \A d \in 0 .. n - 1 : S!SumOver(r.b, Far(r.idx, n, d)) \in Nat
  <2> SUFFICES ASSUME NEW d \in 0 .. n - 1 PROVE S!SumOver(r.b, Far(r.idx, n, d)) \in Nat
    OBVIOUS
  <2>1. Far(r.idx, n, d) \in SUBSET (0 .. n - 1)
    BY DEF Far
  <2> QED BY <2>1, <1>3, BucketsCount, SumType
<1> HIDE DEF whole, spent
<1>6. r.total = w.total - spent /\ r.total \in Nat
  <2>1. r.total = S!BiggerOf(0, w.total - spent)
    BY DEF spent, RolledBy
  <2> QED BY <1>13, <1>3, <1>4, <2>1 DEF S!BiggerOf
<1>7. r \in S!Window(n)
  BY <1>3, <1>6 DEF S!Window, RolledBy
<1>8. r.total >= S!SumOver(r.b, 0 .. n - 1) /\ (Exact(w, n) => Exact(r, n))
  BY <1>13, <1>3, <1>4, <1>6 DEF Exact
<1>9. Quiet(r.age - len + 1, l)
  <2>1. \A j \in 0 .. Horizon : ~(j < 0 - len + 1)
    BY LedgerAssumed DEF S!StatsAssumption
  <2> QED BY <1>12, <2>1 DEF Quiet
<1>10. ASSUME cov, NEW d \in 0 .. n - 1
       PROVE  r.total - S!SumOver(r.b, Far(r.idx, n, d)) >= S!SumOver(l, Before(d * len + Positive(r.age)))
  <2>0. Positive(r.age) = 0 /\ Positive(w.age) = w.age
    BY <1>13, <1>12 DEF Positive, S!BiggerOf
  <2>1. d * len \in Int /\ d * len + Positive(r.age) = d * len
    BY <2>0, TimesNat
  <2>2. CASE d \in k .. n - 1
    <3>1. d - k \in 0 .. n - 1
      BY <2>2
    <3>2. w.total - S!SumOver(w.b, Far(w.idx, n, d - k)) >= S!SumOver(l, Before((d - k) * len + w.age))
      BY <3>1, <1>10, <2>0 DEF Sound, Covers
    <3>3. (d - k) * len = d * len - k * len /\ k * len \in Int /\ (d - k) * len \in Int
      BY <3>1, Distributes, TimesNat
    <3> DEFINE t == (d - k) * len + w.age
    <3>4. t \in Int /\ d * len <= t
      <4>1. k * len <= w.age
        BY <1>12
      <4> QED BY <3>3, <2>1, <4>1, <1>13
    <3> HIDE DEF t
    <3>5. S!SumOver(l, Before(d * len)) <= S!SumOver(l, Before(t))
      BY <2>1, <3>4, LogMono
    <3>6. S!SumOver(l, Before(d * len)) \in Nat /\ S!SumOver(l, Before(t)) \in Nat
      BY <2>1, <3>4, LogsCount
    <3>7. S!SumOver(w.b, Far(w.idx, n, d - k)) \in Nat
      <4>1. Far(w.idx, n, d - k) \in SUBSET (0 .. n - 1) /\ w.b \in [0 .. n - 1 -> Nat]
        BY <1>13 DEF Far, S!Window
      <4> QED BY <4>1, BucketsCount, SumType
    <3>8. S!SumOver(r.b, Far(r.idx, n, d)) = S!SumOver(w.b, Far(w.idx, n, d - k)) - spent
      BY <2>2, <1>3
    <3>9. w.total - S!SumOver(w.b, Far(w.idx, n, d - k)) >= S!SumOver(l, Before(t))
      BY <3>2 DEF t
    <3>10. r.total = w.total - spent /\ w.total \in Nat /\ spent \in Nat
      BY <1>13, <1>3, <1>6 DEF S!Window
    <3> DEFINE x == S!SumOver(l, Before(d * len))
               y == S!SumOver(l, Before(t))
               h == S!SumOver(w.b, Far(w.idx, n, d - k))
               g == S!SumOver(r.b, Far(r.idx, n, d))
    <3>11. x <= y /\ x \in Nat /\ y \in Nat /\ h \in Nat /\ g = h - spent /\ w.total - h >= y
      BY <3>5, <3>6, <3>7, <3>8, <3>9
    <3> HIDE DEF x, y, h, g
    <3>12. r.total - g >= x
      BY <3>10, <3>11
    <3> QED BY <2>1, <3>12 DEF x, g
  <2>3. CASE d \in 0 .. k - 1
    <3>1. d * len <= w.age - len + 1
      <4>1. d * len <= (k - 1) * len
        BY <2>3, TimesMono
      <4>2. (k - 1) * len = k * len - len /\ k * len \in Int /\ (k - 1) * len \in Int
        BY Distributes
      <4> QED BY <4>1, <4>2, <1>12, <1>13, <2>1
    <3>2. S!SumOver(l, Before(d * len)) = 0
      BY <1>13, <2>1, <3>1, LogQuiet DEF Sound
    <3>3. S!SumOver(r.b, Far(r.idx, n, d)) <= whole - spent
      BY <2>3, <1>3
    <3> QED BY <1>13, <1>3, <1>4, <1>5, <1>6, <2>1, <3>2, <3>3
  <2> QED BY <2>2, <2>3
<1>11. r.age = 0 /\ 0 < len
  BY <1>12
<1> QED BY <1>7, <1>8, <1>9, <1>10, <1>11 DEF Sound, Covers

\* Roll keeps a window sound, and exact, and leaves it younger than a bucket.
LEMMA RollSound ==
    ASSUME NEW n \in Nat \ {0}, NEW len \in Nat \ {0}, NEW l \in Logs, NEW cov \in BOOLEAN,
           NEW w, Sound(w, n, len, l, cov), NEW r, r = S!Roll(w, n, len)
    PROVE  /\ Sound(r, n, len, l, cov)
           /\ Exact(w, n) => Exact(r, n)
           /\ r.age < len /\ (w.age >= 0 => r.age >= 0) /\ (w.age >= len => r.age = 0)
<1>1. w \in S!Window(n) /\ w.age \in Int /\ w.idx \in 0 .. n - 1 /\ w.total \in Nat
  BY DEF Sound, S!Window
<1>2. CASE w.age < len
  <2>1. r = w
    BY <1>2 DEF S!Roll
  <2> QED BY <1>1, <1>2, <2>1
<1>3. CASE ~(w.age < len)
  <2>0. w.age >= len
    BY <1>1, <1>3
  <2>1. PICK k \in 1 .. n : RolledBy(w, n, len, k, r)
    BY <1>1, <2>0, RollMoves
  <2> QED BY <2>0, <2>1, RolledSound, <1>3, <1>1
<1> QED BY <1>2, <1>3

\* The accounting's constants.
LEMMA StatsConstants ==
    /\ Minutes \in Nat \ {0} /\ MinuteLen \in Nat \ {0} /\ Days \in Nat \ {0} /\ DayLen \in Nat \ {0}
    /\ IdleLimit \in Nat /\ SaveEvery \in Nat \ {0} /\ Late \in Nat /\ Bytes \subseteq Nat \ {0}
    /\ Horizon \in Nat /\ BackSteps \in Nat /\ BackBy \in Nat /\ None \notin S!Entry
    /\ Life \in Nat \ {0} /\ S!Slack \in Nat
    /\ \A c \in Nat : c * BackBy \in Nat
    /\ \A c \in 0 .. BackSteps : (BackSteps - c) * BackBy \in Nat
    /\ Minutes * MinuteLen \in Nat /\ Days * DayLen \in Nat
<1>1. S!Slack \in Nat /\ Minutes * MinuteLen \in Nat /\ Days * DayLen \in Nat
  BY LedgerAssumed, TimesNat DEF S!StatsAssumption, S!Slack
<1>2. \A c \in Nat : c * BackBy \in Nat
  BY LedgerAssumed, TimesNat DEF S!StatsAssumption
<1>3. \A c \in 0 .. BackSteps : (BackSteps - c) * BackBy \in Nat
  <2> SUFFICES ASSUME NEW c \in 0 .. BackSteps PROVE (BackSteps - c) * BackBy \in Nat
    OBVIOUS
  <2>1. BackSteps - c \in Nat
    BY LedgerAssumed DEF S!StatsAssumption
  <2> QED BY <2>1, <1>2
<1>4. Life \in Nat \ {0}
  BY LedgerAssumed DEF S!StatsAssumption, Life
<1> QED BY <1>1, <1>2, <1>3, <1>4, LedgerAssumed DEF S!StatsAssumption

\* How far back a bucket reaches.
LEMMA Reach ==
    ASSUME NEW d \in Nat, NEW t \in Int
    PROVE  d * Life \in Nat /\ d * Life + t \in Int
BY StatsConstants, TimesNat

\* A rolled minute window still fades: what a roll forgets of its age is no more
\* than the extra life of the buckets it rolls over.
LEMMA RolledFades ==
    ASSUME NEW l \in Logs, NEW c \in 0 .. BackSteps, NEW t, NEW w, w \in S!Window(Minutes), Fades(w, l, c, t),
           NEW k \in 1 .. Minutes, NEW r, RolledBy(w, Minutes, MinuteLen, k, r)
    PROVE  \E s \in 0 .. t : Fades(r, l, c, s)
<1>1. w.age \in Int /\ t \in Nat /\ c * BackBy \in Nat /\ (BackSteps - c) * BackBy \in Nat
  BY StatsConstants DEF S!Window, Fades
<1>2. Rolled(w, Minutes, k, r) /\ r.age = 0 /\ (k = Minutes \/ w.age < k * MinuteLen + MinuteLen)
  BY DEF RolledBy
<1>3. /\ \A d \in k .. Minutes - 1 :
            S!SumOver(r.b, Near(r.idx, Minutes, d)) = S!SumOver(w.b, Near(w.idx, Minutes, d - k))
      /\ \A d \in 0 .. k - 1 : S!SumOver(r.b, Near(r.idx, Minutes, d)) = 0
  BY <1>2, StatsConstants, RolledSums
<1>4. \A d \in Nat, s \in Int : S!SumOver(l, Before(d * Life + s + 1)) \in Nat
  <2> SUFFICES ASSUME NEW d \in Nat, NEW s \in Int PROVE S!SumOver(l, Before(d * Life + s + 1)) \in Nat
    OBVIOUS
  <2>1. d * Life + s + 1 \in Int
    BY Reach
  <2> QED BY <2>1, LogsCount
<1>5. CASE k = Minutes
  <2>1. ASSUME NEW d \in 0 .. Minutes - 1
        PROVE  S!SumOver(r.b, Near(r.idx, Minutes, d)) <= S!SumOver(l, Before(d * Life + 0 + 1))
    <3>1. S!SumOver(r.b, Near(r.idx, Minutes, d)) = 0
      BY <1>3, <1>5
    <3> QED BY <1>4, <3>1
  <2>2. 0 <= r.age + c * BackBy
    BY <1>1, <1>2
  <2>3. Fades(r, l, c, 0)
    BY <2>1, <2>2 DEF Fades
  <2> QED BY <1>1, <2>3
<1>6. CASE k # Minutes
  <2>1. k + 1 <= Minutes /\ w.age < k * MinuteLen + MinuteLen
    BY <1>2, <1>6, StatsConstants
  <2>2. t <= w.age + c * BackBy
    <3>1. (k + 1) * MinuteLen <= Minutes * MinuteLen
      BY <2>1, StatsConstants, TimesMono
    <3>2. (k + 1) * MinuteLen = k * MinuteLen + MinuteLen
      BY StatsConstants
    <3>3. ~(w.age >= Minutes * MinuteLen + (BackSteps - c) * BackBy)
      BY <1>1, <2>1, <3>1, <3>2, StatsConstants
    <3> QED BY <3>3 DEF Fades
  <2>3. w.age <= k * Life
    <3>1. 1 * (MinuteLen - 1) <= k * (MinuteLen - 1)
      BY StatsConstants, TimesMono
    <3>2. k * (MinuteLen - 1) = k * MinuteLen - k /\ k * Life = k * MinuteLen + k * MinuteLen - k
      BY StatsConstants DEF Life
    <3>3. k * MinuteLen \in Nat
      BY StatsConstants, TimesNat
    <3> QED BY <1>1, <2>1, <3>1, <3>2, <3>3, StatsConstants
  <2> DEFINE s == Positive(t - k * Life)
  <2>4. k * Life \in Nat
    BY Reach
  <2>5. s \in 0 .. t /\ s <= c * BackBy /\ s >= t - k * Life
    BY <1>1, <2>2, <2>3, <2>4 DEF Positive, S!BiggerOf
  <2> HIDE DEF s
  <2>6. ASSUME NEW d \in 0 .. Minutes - 1, d * Life + s <= Horizon
        PROVE  S!SumOver(r.b, Near(r.idx, Minutes, d)) <= S!SumOver(l, Before(d * Life + s + 1))
    <3>1. CASE d \in 0 .. k - 1
      <4>1. S!SumOver(l, Before(d * Life + s + 1)) \in Nat
        BY <1>4, <2>5
      <4> QED BY <1>3, <3>1, <4>1
    <3>2. CASE d \in k .. Minutes - 1
      <4>1. d - k \in 0 .. Minutes - 1 /\ d - k \in Nat
        BY <3>2, StatsConstants
      <4>2. (d - k) * Life = d * Life - k * Life /\ d * Life \in Nat
        BY <4>1, StatsConstants, Distributes, Reach
      <4> DEFINE u == (d - k) * Life + t
                 v == d * Life + s
      <4>3. u \in Int /\ v \in Int /\ u <= v
        BY <1>1, <2>4, <2>5, <4>2
      <4>4. u <= Horizon
        BY <4>3, <2>6, StatsConstants
      <4>5. S!SumOver(w.b, Near(w.idx, Minutes, d - k)) <= S!SumOver(l, Before(u + 1))
        BY <4>1, <4>4 DEF Fades
      <4> HIDE DEF u
      <4>6. S!SumOver(r.b, Near(r.idx, Minutes, d)) = S!SumOver(w.b, Near(w.idx, Minutes, d - k))
        BY <3>2, <1>3
      <4>7. S!SumOver(w.b, Near(w.idx, Minutes, d - k)) \in Nat
        <5>1. Near(w.idx, Minutes, d - k) \in SUBSET (0 .. Minutes - 1) /\ w.b \in [0 .. Minutes - 1 -> Nat]
          BY DEF Near, S!Window
        <5> QED BY <5>1, StatsConstants, BucketsCount, SumType
      <4> HIDE DEF v
      <4>8. u + 1 \in Int /\ v + 1 \in Int /\ u + 1 <= v + 1
        BY <4>3
      <4>9. S!SumOver(l, Before(u + 1)) <= S!SumOver(l, Before(v + 1))
        BY <4>8, LogMono
      <4>10. S!SumOver(l, Before(u + 1)) \in Nat /\ S!SumOver(l, Before(v + 1)) \in Nat
        BY <4>8, LogsCount
      <4>11. S!SumOver(r.b, Near(r.idx, Minutes, d)) <= S!SumOver(l, Before(v + 1))
        BY <4>5, <4>6, <4>7, <4>9, <4>10
      <4> QED BY <4>11 DEF v
    <3> QED BY <3>1, <3>2
  <2>7. s <= r.age + c * BackBy
    BY <1>1, <1>2, <2>5
  <2>8. Fades(r, l, c, s)
    BY <2>5, <2>6, <2>7 DEF Fades
  <2> QED BY <2>5, <2>8
<1> QED BY <1>5, <1>6

\* What a window's buckets hold is a number of bytes.
LEMMA BucketSums ==
    ASSUME NEW n \in Nat \ {0}, NEW b \in [0 .. n - 1 -> Nat], NEW x \in 0 .. n - 1, NEW d \in Int
    PROVE  /\ S!SumOver(b, 0 .. n - 1) \in Nat
           /\ S!SumOver(b, Far(x, n, d)) \in 0 .. S!SumOver(b, 0 .. n - 1)
           /\ S!SumOver(b, Near(x, n, d)) \in 0 .. S!SumOver(b, 0 .. n - 1)
           /\ S!SumOver(b, Near(x, n, d)) = S!SumOver(b, 0 .. n - 1) - S!SumOver(b, Far(x, n, d))
<1> DEFINE I == 0 .. n - 1
<1>1. Far(x, n, d) \in SUBSET I /\ Near(x, n, d) \in SUBSET I /\ I \in SUBSET I
  BY DEF Far, Near
<1>2. Near(x, n, d) = I \ Far(x, n, d)
  BY NearOrFar
<1> HIDE DEF I
<1>3. Counts(b, I) /\ Counts(b, Far(x, n, d)) /\ Counts(b, Near(x, n, d))
  BY <1>1, BucketsCount DEF I
<1>4. S!SumOver(b, I) \in Nat /\ S!SumOver(b, Far(x, n, d)) \in Nat /\ S!SumOver(b, Near(x, n, d)) \in Nat
  BY <1>3, SumType
<1>5. S!SumOver(b, Far(x, n, d)) <= S!SumOver(b, I) /\ S!SumOver(b, Near(x, n, d)) <= S!SumOver(b, I)
  BY <1>1, <1>3, SumMono
<1>6. S!SumOver(b, I \ Far(x, n, d)) = S!SumOver(b, I) - S!SumOver(b, Far(x, n, d))
  BY <1>1, <1>3, SumMono
<1> QED BY <1>2, <1>4, <1>5, <1>6 DEF I

\* A minute window that starts over, because the clock went back.
StartOver(w) == [w EXCEPT !.total = S!SumOver(w.b, DOMAIN w.b), !.age = 0]

\* A minute window that starts over with its buckets counts what they hold.
LEMMA RestartSound ==
    ASSUME NEW l \in Logs, NEW cov \in BOOLEAN, NEW w, Sound(w, Minutes, MinuteLen, l, cov), w.age < 0,
           cov => Exact(w, Minutes), NEW r, r = StartOver(w)
    PROVE  /\ Sound(r, Minutes, MinuteLen, l, cov) /\ Exact(r, Minutes) /\ r.age = 0
           /\ \A c \in 0 .. BackSteps : \A t : Fades(w, l, c, t) => Fades(r, l, c, t)
<1>1. /\ w.b \in [0 .. Minutes - 1 -> Nat] /\ w.idx \in 0 .. Minutes - 1 /\ w.age \in Int
      /\ DOMAIN w.b = 0 .. Minutes - 1 /\ w = [b |-> w.b, idx |-> w.idx, age |-> w.age, total |-> w.total]
  BY DEF Sound, S!Window
<1>2. S!SumOver(w.b, 0 .. Minutes - 1) \in Nat
  <2>1. 0 \in Int
    OBVIOUS
  <2> QED BY <1>1, <2>1, BucketSums, StatsConstants
<1>3. r.b = w.b /\ r.idx = w.idx /\ r.age = 0 /\ r.total = S!SumOver(w.b, 0 .. Minutes - 1)
  BY <1>1 DEF StartOver
<1>4. r \in S!Window(Minutes)
  <2>1. r = [b |-> w.b, idx |-> w.idx, age |-> 0, total |-> S!SumOver(w.b, 0 .. Minutes - 1)]
    BY <1>1 DEF StartOver
  <2> QED BY <1>1, <1>2, <2>1 DEF S!Window
<1>5. Quiet(r.age - MinuteLen + 1, l)
  <2>1. \A j \in 0 .. Horizon : ~(j < 0 - MinuteLen + 1)
    BY StatsConstants
  <2> QED BY <1>3, <2>1 DEF Quiet
<1>6. Positive(r.age) = Positive(w.age)
  BY <1>1, <1>3 DEF Positive, S!BiggerOf
<1>7. cov => Covers(r, Minutes, MinuteLen, l)
  BY <1>3, <1>6 DEF Sound, Covers, Exact
<1>8. ASSUME NEW c \in 0 .. BackSteps, NEW t, Fades(w, l, c, t) PROVE Fades(r, l, c, t)
  <2>1. c * BackBy \in Nat /\ (BackSteps - c) * BackBy \in Nat /\ Minutes * MinuteLen \in Nat /\ t \in Nat
    BY <1>8, StatsConstants DEF Fades
  <2>2. t <= w.age + c * BackBy
    BY <1>1, <1>8, <2>1 DEF Fades
  <2>3. t <= r.age + c * BackBy
    BY <1>1, <1>3, <2>1, <2>2
  <2> QED BY <1>3, <1>8, <2>3 DEF Fades
<1>9. Exact(r, Minutes) /\ r.total >= S!SumOver(r.b, 0 .. Minutes - 1)
  BY <1>2, <1>3 DEF Exact
<1> QED BY <1>3, <1>4, <1>5, <1>7, <1>8, <1>9 DEF Sound

\* advance_24h_buckets keeps the minute window sound, exact and fading.
LEMMA AdvanceMinutes ==
    ASSUME NEW l \in Logs, NEW cov \in BOOLEAN, NEW w, Sound(w, Minutes, MinuteLen, l, cov),
           cov /\ w.age < 0 => Exact(w, Minutes), NEW r, r = S!advance_24h_buckets(w)
    PROVE  /\ Sound(r, Minutes, MinuteLen, l, cov) /\ r.age \in 0 .. MinuteLen - 1
           /\ Exact(w, Minutes) => Exact(r, Minutes)
           /\ \A c \in 0 .. BackSteps : \A t : Fades(w, l, c, t) => \E s \in 0 .. t : Fades(r, l, c, s)
<1>1. w \in S!Window(Minutes) /\ w.age \in Int
  BY DEF Sound, S!Window
<1>2. CASE w.age < 0
  <2>1. r = StartOver(w)
    BY <1>2 DEF S!advance_24h_buckets, StartOver
  <2>2. /\ Sound(r, Minutes, MinuteLen, l, cov) /\ Exact(r, Minutes) /\ r.age = 0
        /\ \A c \in 0 .. BackSteps : \A t : Fades(w, l, c, t) => Fades(r, l, c, t)
    BY <1>2, <2>1, RestartSound
  <2>3. \A c, t : Fades(w, l, c, t) => t \in 0 .. t
    BY DEF Fades
  <2>4. 0 \in 0 .. MinuteLen - 1
    BY StatsConstants
  <2> QED BY <2>2, <2>3, <2>4
<1>3. CASE ~(w.age < 0)
  <2>1. r = S!Roll(w, Minutes, MinuteLen)
    BY <1>3 DEF S!advance_24h_buckets
  <2>2. /\ Sound(r, Minutes, MinuteLen, l, cov)
        /\ Exact(w, Minutes) => Exact(r, Minutes)
        /\ r.age < MinuteLen /\ (w.age >= 0 => r.age >= 0) /\ (w.age >= MinuteLen => r.age = 0)
    BY <2>1, StatsConstants, RollSound
  <2>3. r.age \in Int
    BY <2>2 DEF Sound, S!Window
  <2>4. ASSUME NEW c \in 0 .. BackSteps, NEW t, Fades(w, l, c, t)
        PROVE  \E s \in 0 .. t : Fades(r, l, c, s)
    <3>1. CASE w.age < MinuteLen
      <4>1. r = w
        BY <2>1, <3>1 DEF S!Roll
      <4>2. t \in 0 .. t
        BY <2>4 DEF Fades
      <4> QED BY <2>4, <4>1, <4>2
    <3>2. CASE ~(w.age < MinuteLen)
      <4>0. w.age >= MinuteLen
        BY <1>1, <3>2, StatsConstants
      <4>1. PICK k \in 1 .. Minutes : RolledBy(w, Minutes, MinuteLen, k, r)
        BY <1>1, <2>1, <4>0, StatsConstants, RollMoves
      <4> QED BY <1>1, <2>4, <4>1, RolledFades
    <3> QED BY <3>1, <3>2
  <2> QED BY <1>1, <1>3, <2>2, <2>3, <2>4, StatsConstants
<1> QED BY <1>2, <1>3

\* A packet adds to the log what it adds to a window's current bucket.
Logged(l, m) == [l EXCEPT ![0] = @ + m]

\* Counting a packet in the log adds it to what the log counts.
LEMMA LogAdd ==
    ASSUME NEW l \in Logs, NEW m \in Nat, NEW t \in Int
    PROVE  /\ Logged(l, m) \in Logs
           /\ t > 0 => S!SumOver(Logged(l, m), Before(t)) = S!SumOver(l, Before(t)) + m
           /\ t <= 0 => S!SumOver(Logged(l, m), Before(t)) = 0
<1>1. Horizon \in Nat /\ 0 \in 0 .. Horizon
  BY StatsConstants
<1>2. Logged(l, m) \in Logs /\ Logged(l, m)[0] = l[0] + m /\ \A k \in (0 .. Horizon) \ {0} : Logged(l, m)[k] = l[k]
  BY <1>1 DEF Logs, Logged
<1>3. CASE t > 0
  <2>1. 0 \in Before(t) /\ Before(t) \ {0} \subseteq (0 .. Horizon) \ {0}
    BY <1>1, <1>3 DEF Before
  <2>2. Counts(l, Before(t))
    BY LogsCount
  <2>3. \A k \in Before(t) \ {0} : Logged(l, m)[k] = l[k]
    BY <1>2, <2>1
  <2>4. S!SumOver(Logged(l, m), Before(t)) = S!SumOver(l, Before(t)) + m
    BY <1>2, <2>1, <2>2, <2>3, SumAdd
  <2> QED BY <1>2, <1>3, <2>4
<1>4. CASE t <= 0
  <2>1. Before(t) = {}
    BY <1>1, <1>4 DEF Before
  <2>2. S!SumOver(Logged(l, m), {}) = 0
    BY FS_EmptySet, SumZero
  <2> QED BY <1>2, <1>4, <2>1, <2>2
<1> QED BY <1>3, <1>4

\* Counting a packet keeps a window that was just advanced sound, exact and fading.
LEMMA CountSound ==
    ASSUME NEW n \in Nat \ {0}, NEW len \in Nat \ {0}, NEW l \in Logs, NEW cov \in BOOLEAN, NEW m \in Nat,
           NEW w, Sound(w, n, len, l, cov), w.age < len, NEW r, r = S!Count(w, m)
    PROVE  /\ Sound(r, n, len, Logged(l, m), cov) /\ r.age = w.age
           /\ Exact(w, n) => Exact(r, n) /\ r.total = w.total + m
           /\ n = Minutes => \A c, t : Fades(w, l, c, t) => Fades(r, Logged(l, m), c, t)
<1>1. /\ w.b \in [0 .. n - 1 -> Nat] /\ w.idx \in 0 .. n - 1 /\ w.age \in Int /\ w.total \in Nat
      /\ w = [b |-> w.b, idx |-> w.idx, age |-> w.age, total |-> w.total]
  BY DEF Sound, S!Window
<1> DEFINE b == [w.b EXCEPT ![w.idx] = @ + m]
<1>2. r = [b |-> b, idx |-> w.idx, age |-> w.age, total |-> w.total + m]
  BY <1>1 DEF S!Count
<1>3. b \in [0 .. n - 1 -> Nat] /\ b[w.idx] = w.b[w.idx] + m /\ \A i \in (0 .. n - 1) \ {w.idx} : b[i] = w.b[i]
  BY <1>1
<1> HIDE DEF b
<1>4. S!SumOver(b, 0 .. n - 1) = S!SumOver(w.b, 0 .. n - 1) + m
  <2> DEFINE I == 0 .. n - 1
             x == w.idx
             f == w.b
  <2>1. Counts(f, I) /\ x \in I
    BY <1>1, BucketsCount
  <2>2. b[x] = f[x] + m /\ \A i \in I \ {x} : b[i] = f[i]
    BY <1>3
  <2> HIDE DEF I, x, f
  <2>3. S!SumOver(b, I) = S!SumOver(f, I) + m
    BY <2>1, <2>2, SumAdd
  <2> QED BY <2>3 DEF I, f
<1>5. \A d \in 0 .. n - 1 : S!SumOver(b, Far(w.idx, n, d)) = S!SumOver(w.b, Far(w.idx, n, d))
  <2> SUFFICES ASSUME NEW d \in 0 .. n - 1
               PROVE  S!SumOver(b, Far(w.idx, n, d)) = S!SumOver(w.b, Far(w.idx, n, d))
    OBVIOUS
  <2>1. Far(w.idx, n, d) \in SUBSET ((0 .. n - 1) \ {w.idx})
    BY <1>1 DEF Far, Dist
  <2>2. Counts(w.b, Far(w.idx, n, d)) /\ \A i \in Far(w.idx, n, d) : b[i] = w.b[i]
    BY <1>1, <1>3, <2>1, BucketsCount
  <2> QED BY <2>2, SumSame
<1>6. \A d \in 0 .. n - 1 : S!SumOver(b, Near(w.idx, n, d)) = S!SumOver(w.b, Near(w.idx, n, d)) + m
  <2> SUFFICES ASSUME NEW d \in 0 .. n - 1
               PROVE  S!SumOver(b, Near(w.idx, n, d)) = S!SumOver(w.b, Near(w.idx, n, d)) + m
    OBVIOUS
  <2>1. w.idx \in Near(w.idx, n, d) /\ Near(w.idx, n, d) \in SUBSET (0 .. n - 1)
    BY <1>1 DEF Near, Dist
  <2>2. Counts(w.b, Near(w.idx, n, d)) /\ \A i \in Near(w.idx, n, d) \ {w.idx} : b[i] = w.b[i]
    BY <1>1, <1>3, <2>1, BucketsCount
  <2> QED BY <1>3, <2>1, <2>2, SumAdd
<1>7. r \in S!Window(n) /\ r.b = b /\ r.idx = w.idx /\ r.age = w.age /\ r.total = w.total + m
  BY <1>1, <1>2, <1>3 DEF S!Window
<1>8. S!SumOver(w.b, 0 .. n - 1) \in Nat
  <2>1. Counts(w.b, 0 .. n - 1)
    BY <1>1, BucketsCount
  <2> QED BY <2>1, SumType
<1>9. Quiet(r.age - len + 1, Logged(l, m))
  <2>0. w.age - len + 1 <= 0 /\ w.age - len + 1 \in Int
    BY <1>1
  <2>1. \A k \in 0 .. Horizon : ~(k < w.age - len + 1)
    BY <2>0, StatsConstants
  <2> QED BY <1>7, <2>1 DEF Quiet
<1>10. ASSUME cov, NEW d \in 0 .. n - 1
       PROVE  r.total - S!SumOver(r.b, Far(r.idx, n, d)) >= S!SumOver(Logged(l, m), Before(d * len + Positive(r.age)))
  <2>1. w.total - S!SumOver(w.b, Far(w.idx, n, d)) >= S!SumOver(l, Before(d * len + Positive(w.age)))
    BY <1>10 DEF Sound, Covers
  <2> DEFINE t == d * len + Positive(w.age)
  <2>2. t \in Int
    BY <1>1, TimesNat DEF Positive, S!BiggerOf
  <2> HIDE DEF t
  <2>4. S!SumOver(l, Before(t)) \in Nat /\ S!SumOver(Logged(l, m), Before(t)) \in Nat
    <3>1. Logged(l, m) \in Logs
      BY <2>2, LogAdd
    <3> QED BY <2>2, <3>1, LogsCount
  <2>3. S!SumOver(Logged(l, m), Before(t)) <= S!SumOver(l, Before(t)) + m
    <3>1. CASE t > 0
      <4>1. S!SumOver(Logged(l, m), Before(t)) = S!SumOver(l, Before(t)) + m
        BY <2>2, <3>1, LogAdd
      <4> QED BY <2>4, <4>1
    <3>2. CASE t <= 0
      <4>1. S!SumOver(Logged(l, m), Before(t)) = 0
        BY <2>2, <3>2, LogAdd
      <4> QED BY <2>4, <4>1
    <3> QED BY <2>2, <3>1, <3>2
  <2>5. S!SumOver(w.b, Far(w.idx, n, d)) \in Nat
    BY <1>1, BucketSums
  <2>6. w.total - S!SumOver(w.b, Far(w.idx, n, d)) >= S!SumOver(l, Before(t))
    BY <2>1 DEF t
  <2>7. r.total - S!SumOver(r.b, Far(r.idx, n, d)) >= S!SumOver(Logged(l, m), Before(t))
    BY <1>1, <1>5, <1>7, <2>3, <2>4, <2>5, <2>6
  <2> QED BY <1>7, <2>7 DEF t
<1>11. ASSUME n = Minutes, NEW c, NEW t, Fades(w, l, c, t) PROVE Fades(r, Logged(l, m), c, t)
  <2>1. ASSUME NEW d \in 0 .. Minutes - 1, d * Life + t <= Horizon
        PROVE  S!SumOver(r.b, Near(r.idx, Minutes, d)) <= S!SumOver(Logged(l, m), Before(d * Life + t + 1))
    <3> DEFINE u == d * Life + t + 1
    <3>1. S!SumOver(w.b, Near(w.idx, Minutes, d)) <= S!SumOver(l, Before(u))
      BY <1>11, <2>1 DEF Fades
    <3>2. u \in Int /\ u > 0
      <4>1. d * Life \in Nat /\ t \in Nat
        BY <1>11, StatsConstants, TimesNat DEF Fades
      <4> QED BY <4>1
    <3> HIDE DEF u
    <3>3. S!SumOver(Logged(l, m), Before(u)) = S!SumOver(l, Before(u)) + m /\ S!SumOver(l, Before(u)) \in Nat
      BY <3>2, LogAdd, LogsCount
    <3>4. S!SumOver(w.b, Near(w.idx, Minutes, d)) \in Nat
      BY <1>1, <1>11, BucketSums
    <3>5. S!SumOver(r.b, Near(r.idx, Minutes, d)) = S!SumOver(w.b, Near(w.idx, Minutes, d)) + m
      BY <1>6, <1>7, <1>11, <2>1
    <3>6. S!SumOver(r.b, Near(r.idx, Minutes, d)) <= S!SumOver(Logged(l, m), Before(u))
      BY <3>1, <3>3, <3>4, <3>5
    <3> QED BY <3>6 DEF u
  <2> QED BY <1>7, <1>11, <2>1 DEF Fades
<1>12. r.total >= S!SumOver(r.b, 0 .. n - 1) /\ (Exact(w, n) => Exact(r, n))
  BY <1>1, <1>4, <1>7, <1>8 DEF Sound, Exact
<1> QED BY <1>7, <1>9, <1>10, <1>11, <1>12 DEF Sound, Covers

\* A window at another age: time passed (Tick), or the clock was set back (ClockBack).
Aged(w, age) == [w EXCEPT !.age = age]

\* Setting a window's clock back keeps it sound: less of the log is asked for.
LEMMA YoungerSound ==
    ASSUME NEW n \in Nat \ {0}, NEW len \in Nat \ {0}, NEW l \in Logs, NEW cov \in BOOLEAN,
           NEW w, Sound(w, n, len, l, cov), NEW a \in Int, a <= w.age, NEW r, r = Aged(w, a)
    PROVE  Sound(r, n, len, l, cov) /\ (Exact(w, n) => Exact(r, n))
<1>1. /\ w.b \in [0 .. n - 1 -> Nat] /\ w.idx \in 0 .. n - 1 /\ w.age \in Int /\ w.total \in Nat
      /\ w = [b |-> w.b, idx |-> w.idx, age |-> w.age, total |-> w.total]
  BY DEF Sound, S!Window
<1>2. r = [b |-> w.b, idx |-> w.idx, age |-> a, total |-> w.total]
  BY <1>1 DEF Aged
<1>3. r \in S!Window(n) /\ r.b = w.b /\ r.idx = w.idx /\ r.age = a /\ r.total = w.total
  BY <1>1, <1>2 DEF S!Window
<1>4. Quiet(a - len + 1, l)
  <2>1. Quiet(w.age - len + 1, l)
    BY DEF Sound
  <2>3. a - len + 1 \in Int /\ w.age - len + 1 \in Int /\ a - len + 1 <= w.age - len + 1
    BY <1>1
  <2>2. \A k \in 0 .. Horizon : k < a - len + 1 => k < w.age - len + 1
    BY <2>3, StatsConstants
  <2> QED BY <2>1, <2>2 DEF Quiet
<1>5. ASSUME cov, NEW d \in 0 .. n - 1
      PROVE  w.total - S!SumOver(w.b, Far(w.idx, n, d)) >= S!SumOver(l, Before(d * len + Positive(a)))
  <2> DEFINE s == d * len + Positive(a)
             t == d * len + Positive(w.age)
  <2>1. s \in Int /\ t \in Int /\ s <= t
    <3>1. d * len \in Int /\ Positive(a) \in Int /\ Positive(w.age) \in Int /\ Positive(a) <= Positive(w.age)
      BY <1>1, TimesNat DEF Positive, S!BiggerOf
    <3> QED BY <3>1
  <2>2. w.total - S!SumOver(w.b, Far(w.idx, n, d)) >= S!SumOver(l, Before(t))
    BY <1>5 DEF Sound, Covers
  <2> HIDE DEF s, t
  <2>3. S!SumOver(l, Before(s)) <= S!SumOver(l, Before(t))
    BY <2>1, LogMono
  <2>4. S!SumOver(l, Before(s)) \in Nat /\ S!SumOver(l, Before(t)) \in Nat
    BY <2>1, LogsCount
  <2>5. S!SumOver(w.b, Far(w.idx, n, d)) \in Nat
    BY <1>1, BucketSums
  <2>6. w.total - S!SumOver(w.b, Far(w.idx, n, d)) >= S!SumOver(l, Before(s))
    BY <1>1, <2>2, <2>3, <2>4, <2>5
  <2> QED BY <2>6 DEF s
<1>6. cov => Covers(r, n, len, l)
  BY <1>3, <1>5 DEF Covers
<1> QED BY <1>3, <1>4, <1>6 DEF Sound, Exact

\* A unit of time that passes keeps it sound, with the log that moved on.
LEMMA OlderSound ==
    ASSUME NEW n \in Nat \ {0}, NEW len \in Nat \ {0}, NEW l \in Logs, NEW cov \in BOOLEAN,
           NEW w, Sound(w, n, len, l, cov), NEW a \in Int, a <= w.age + 1, NEW r, r = Aged(w, a)
    PROVE  Sound(r, n, len, S!Shift(l), cov) /\ (Exact(w, n) => Exact(r, n))
<1>1. /\ w.b \in [0 .. n - 1 -> Nat] /\ w.idx \in 0 .. n - 1 /\ w.age \in Int /\ w.total \in Nat
      /\ w = [b |-> w.b, idx |-> w.idx, age |-> w.age, total |-> w.total]
  BY DEF Sound, S!Window
<1>2. r = [b |-> w.b, idx |-> w.idx, age |-> a, total |-> w.total]
  BY <1>1 DEF Aged
<1>3. r \in S!Window(n) /\ r.b = w.b /\ r.idx = w.idx /\ r.age = a /\ r.total = w.total
  BY <1>1, <1>2 DEF S!Window
<1>4. Quiet(a - len + 1, S!Shift(l))
  <2> DEFINE v == w.age - len + 1
  <2>1. Quiet(v, l) /\ v \in Int
    BY <1>1 DEF Sound
  <2>2. a - len + 1 <= v + 1
    BY <1>1
  <2> HIDE DEF v
  <2>3. Quiet(v + 1, S!Shift(l))
    BY <2>1, LogShift
  <2>4. \A k \in 0 .. Horizon : k < a - len + 1 => k < v + 1
    BY <2>1, <2>2, StatsConstants
  <2> QED BY <2>3, <2>4 DEF Quiet
<1>5. ASSUME cov, NEW d \in 0 .. n - 1
      PROVE  w.total - S!SumOver(w.b, Far(w.idx, n, d)) >= S!SumOver(S!Shift(l), Before(d * len + Positive(a)))
  <2> DEFINE s == d * len + Positive(a)
             t == d * len + Positive(w.age)
             m == S!Shift(l)
  <2>1. s \in Int /\ t \in Int /\ s <= t + 1
    <3>1. /\ d * len \in Int /\ Positive(a) \in Int /\ Positive(w.age) \in Int
          /\ Positive(a) <= Positive(w.age) + 1
      BY <1>1, TimesNat DEF Positive, S!BiggerOf
    <3> QED BY <3>1
  <2>2. w.total - S!SumOver(w.b, Far(w.idx, n, d)) >= S!SumOver(l, Before(t))
    BY <1>5 DEF Sound, Covers
  <2> HIDE DEF s, t
  <2>3. m \in Logs /\ S!SumOver(m, Before(t + 1)) <= S!SumOver(l, Before(t))
    BY <2>1, LogShift
  <2> HIDE DEF m
  <2>4. S!SumOver(m, Before(s)) <= S!SumOver(m, Before(t + 1))
    <3>1. t + 1 \in Int
      BY <2>1
    <3> QED BY <2>1, <2>3, <3>1, LogMono
  <2>5. S!SumOver(m, Before(s)) \in Nat /\ S!SumOver(m, Before(t + 1)) \in Nat /\ S!SumOver(l, Before(t)) \in Nat
    <3>1. t + 1 \in Int
      BY <2>1
    <3> QED BY <2>1, <2>3, <3>1, LogsCount
  <2>6. S!SumOver(w.b, Far(w.idx, n, d)) \in Nat
    BY <1>1, BucketSums
  <2>7. w.total - S!SumOver(w.b, Far(w.idx, n, d)) >= S!SumOver(m, Before(s))
    BY <1>1, <2>2, <2>3, <2>4, <2>5, <2>6
  <2> QED BY <2>7 DEF s, m
<1>6. cov => Covers(r, n, len, S!Shift(l))
  BY <1>3, <1>5 DEF Covers
<1> QED BY <1>3, <1>4, <1>6 DEF Sound, Exact

\* What setting the clock back costs, once more.
LEMMA BackOnce ==
    ASSUME NEW c \in 0 .. BackSteps
    PROVE  /\ c * BackBy \in Nat /\ (BackSteps - c) * BackBy \in Nat
           /\ (BackSteps - c) * BackBy <= S!Slack
           /\ (c + 1) * BackBy = c * BackBy + BackBy
           /\ (BackSteps - (c + 1)) * BackBy = (BackSteps - c) * BackBy - BackBy
<1>1. /\ c * BackBy \in Nat /\ (BackSteps - c) * BackBy \in Nat /\ BackBy \in Nat
      /\ BackSteps \in Nat /\ BackSteps * BackBy \in Nat
  BY StatsConstants DEF S!Slack
<1>2. (BackSteps - c) * BackBy = BackSteps * BackBy - c * BackBy
  BY <1>1
<1>3. (c + 1) * BackBy = c * BackBy + BackBy
  BY <1>1
<1>4. (BackSteps - (c + 1)) * BackBy = BackSteps * BackBy - (c + 1) * BackBy
  BY <1>1, Distributes
<1> QED BY <1>1, <1>2, <1>3, <1>4 DEF S!Slack

\* A minute window goes on fading as time passes.
LEMMA OlderFades ==
    ASSUME NEW l \in Logs, NEW c \in 0 .. BackSteps, NEW t, NEW w \in S!Window(Minutes), Fades(w, l, c, t),
           NEW r, r = Aged(w, S!SmallerOf(w.age + 1, Minutes * MinuteLen + S!Slack))
    PROVE  Fades(r, S!Shift(l), c, t + 1)
<1>1. /\ w.b \in [0 .. Minutes - 1 -> Nat] /\ w.idx \in 0 .. Minutes - 1 /\ w.age \in Int
      /\ w = [b |-> w.b, idx |-> w.idx, age |-> w.age, total |-> w.total]
  BY DEF S!Window
<1> DEFINE a == S!SmallerOf(w.age + 1, Minutes * MinuteLen + S!Slack)
<1>2. r.b = w.b /\ r.idx = w.idx /\ r.age = a
  BY <1>1 DEF Aged
<1>3. ASSUME NEW d \in 0 .. Minutes - 1, d * Life + (t + 1) <= Horizon
      PROVE  S!SumOver(r.b, Near(r.idx, Minutes, d)) <= S!SumOver(S!Shift(l), Before(d * Life + (t + 1) + 1))
  <2> DEFINE u == d * Life + t + 1
  <2>1. d * Life \in Nat /\ t \in Nat
    BY StatsConstants, TimesNat DEF Fades
  <2>2. u \in Int /\ u <= Horizon /\ d * Life + t <= Horizon /\ d * Life + (t + 1) + 1 = u + 1
    BY <1>3, <2>1, StatsConstants
  <2>3. S!SumOver(w.b, Near(w.idx, Minutes, d)) <= S!SumOver(l, Before(u))
    BY <2>2 DEF Fades
  <2> HIDE DEF u
  <2>4. S!SumOver(S!Shift(l), Before(u + 1)) = S!SumOver(l, Before(u))
    BY <2>2, LogShift
  <2> QED BY <1>2, <2>2, <2>3, <2>4
<1>4. \/ t + 1 <= r.age + c * BackBy
      \/ r.age >= Minutes * MinuteLen + (BackSteps - c) * BackBy
  <2>1. /\ c * BackBy \in Nat /\ (BackSteps - c) * BackBy \in Nat
        /\ (BackSteps - c) * BackBy <= S!Slack /\ S!Slack \in Nat /\ Minutes * MinuteLen \in Nat
    BY BackOnce, StatsConstants
  <2>2. /\ t \in Nat
        /\ t <= w.age + c * BackBy \/ w.age >= Minutes * MinuteLen + (BackSteps - c) * BackBy
    BY DEF Fades
  <2>3. r.age = w.age + 1 \/ r.age = Minutes * MinuteLen + S!Slack
    BY <1>2 DEF S!SmallerOf
  <2> QED BY <1>1, <2>1, <2>2, <2>3
<1>5. t + 1 \in Nat
  BY DEF Fades
<1> QED BY <1>3, <1>4, <1>5 DEF Fades

\* A minute window goes on fading when the clock is set back.
LEMMA BackFades ==
    ASSUME NEW l \in Logs, NEW c \in 0 .. BackSteps, c < BackSteps, NEW t,
           NEW w \in S!Window(Minutes), Fades(w, l, c, t),
           NEW r, r = Aged(w, S!SmallerOf(w.age - BackBy, Minutes * MinuteLen + S!Slack))
    PROVE  Fades(r, l, c + 1, t)
<1>1. /\ w.b \in [0 .. Minutes - 1 -> Nat] /\ w.idx \in 0 .. Minutes - 1 /\ w.age \in Int
      /\ w = [b |-> w.b, idx |-> w.idx, age |-> w.age, total |-> w.total]
  BY DEF S!Window
<1> DEFINE a == S!SmallerOf(w.age - BackBy, Minutes * MinuteLen + S!Slack)
<1>2. r.b = w.b /\ r.idx = w.idx /\ r.age = a
  BY <1>1 DEF Aged
<1>3. \/ t <= r.age + (c + 1) * BackBy
      \/ r.age >= Minutes * MinuteLen + (BackSteps - (c + 1)) * BackBy
  <2>1. /\ c * BackBy \in Nat /\ (BackSteps - c) * BackBy \in Nat /\ BackBy \in Nat
        /\ (BackSteps - c) * BackBy <= S!Slack /\ S!Slack \in Nat /\ Minutes * MinuteLen \in Nat
        /\ (c + 1) * BackBy = c * BackBy + BackBy
        /\ (BackSteps - (c + 1)) * BackBy = (BackSteps - c) * BackBy - BackBy
    BY BackOnce, StatsConstants
  <2>2. /\ t \in Nat
        /\ t <= w.age + c * BackBy \/ w.age >= Minutes * MinuteLen + (BackSteps - c) * BackBy
    BY DEF Fades
  <2>3. r.age = w.age - BackBy \/ r.age = Minutes * MinuteLen + S!Slack
    BY <1>2 DEF S!SmallerOf
  <2> DEFINE x == c * BackBy
             y == (BackSteps - c) * BackBy
             z == Minutes * MinuteLen
  <2>4. /\ x \in Nat /\ y \in Nat /\ z \in Nat /\ BackBy \in Nat /\ y <= S!Slack /\ S!Slack \in Nat
        /\ t <= w.age + x \/ w.age >= z + y
        /\ r.age = w.age - BackBy \/ r.age = z + S!Slack
    BY <2>1, <2>2, <2>3
  <2> HIDE DEF x, y, z
  <2>5. t <= r.age + (x + BackBy) \/ r.age >= z + (y - BackBy)
    <3>1. CASE r.age = z + S!Slack
      BY <2>4, <3>1
    <3>2. CASE r.age = w.age - BackBy
      BY <1>1, <2>2, <2>4, <3>2
    <3> QED BY <2>4, <3>1, <3>2
  <2>6. (c + 1) * BackBy = x + BackBy /\ (BackSteps - (c + 1)) * BackBy = y - BackBy
    BY <2>1 DEF x, y
  <2> QED BY <2>5, <2>6 DEF z
<1>4. t \in Nat /\ \A d \in 0 .. Minutes - 1 : d * Life + t <= Horizon =>
          S!SumOver(r.b, Near(r.idx, Minutes, d)) <= S!SumOver(l, Before(d * Life + t + 1))
  BY <1>2 DEF Fades
<1> QED BY <1>3, <1>4 DEF Fades

\* A window that begins now, when nothing was counted lately, is sound and fades.
LEMMA NewSound ==
    ASSUME NEW n \in Nat \ {0}, NEW len \in Nat \ {0}, NEW l \in Logs, NEW cov \in BOOLEAN,
           Quiet((n - 1) * len, l)
    PROVE  /\ Sound(S!NewWindow(n), n, len, l, cov) /\ Exact(S!NewWindow(n), n) /\ S!NewWindow(n).age = 0
           /\ n = Minutes => \A c \in 0 .. BackSteps : Fades(S!NewWindow(n), l, c, 0)
<1> DEFINE w == S!NewWindow(n)
<1>1. w = [b |-> [i \in 0 .. n - 1 |-> 0], idx |-> 0, age |-> 0, total |-> 0]
  BY DEF S!NewWindow
<1> HIDE DEF w
<1>2. w \in S!Window(n) /\ w.total = 0 /\ w.age = 0 /\ w.idx = 0 /\ \A i \in 0 .. n - 1 : w.b[i] = 0
  BY <1>1 DEF S!Window
<1>3. \A U \in SUBSET (0 .. n - 1) : S!SumOver(w.b, U) = 0
  <2> SUFFICES ASSUME NEW U \in SUBSET (0 .. n - 1) PROVE S!SumOver(w.b, U) = 0
    OBVIOUS
  <2>1. IsFiniteSet(U)
    <3>1. w.b \in [0 .. n - 1 -> Nat]
      BY <1>2 DEF S!Window
    <3> QED BY <3>1, BucketsCount DEF Counts
  <2>2. \A i \in U : w.b[i] = 0
    BY <1>2
  <2> QED BY <2>1, <2>2, SumZero
<1>4. Quiet(w.age - len + 1, l)
  <2>1. \A k \in 0 .. Horizon : ~(k < 0 - len + 1)
    BY StatsConstants
  <2> QED BY <1>2, <2>1 DEF Quiet
<1>5. ASSUME NEW d \in 0 .. n - 1
      PROVE  w.total - S!SumOver(w.b, Far(w.idx, n, d)) >= S!SumOver(l, Before(d * len + Positive(w.age)))
  <2>1. Positive(w.age) = 0
    BY <1>2 DEF Positive, S!BiggerOf
  <2>2. d * len <= (n - 1) * len /\ d * len \in Int /\ (n - 1) * len \in Int
    BY TimesMono, TimesNat
  <2>3. S!SumOver(l, Before(d * len)) = 0
    BY <2>2, LogQuiet
  <2>4. S!SumOver(w.b, Far(w.idx, n, d)) = 0
    <3>1. Far(w.idx, n, d) \in SUBSET (0 .. n - 1)
      BY DEF Far
    <3> QED BY <3>1, <1>3
  <2>5. d * len + Positive(w.age) = d * len
    BY <2>1, <2>2
  <2> QED BY <1>2, <2>3, <2>4, <2>5
<1>6. S!SumOver(w.b, 0 .. n - 1) = 0
  BY <1>3
<1>7. ASSUME n = Minutes, NEW c \in 0 .. BackSteps PROVE Fades(w, l, c, 0)
  <2>1. ASSUME NEW d \in 0 .. Minutes - 1
        PROVE  S!SumOver(w.b, Near(w.idx, Minutes, d)) <= S!SumOver(l, Before(d * Life + 0 + 1))
    <3>1. Near(w.idx, Minutes, d) \in SUBSET (0 .. n - 1)
      BY <1>7 DEF Near
    <3>2. S!SumOver(w.b, Near(w.idx, Minutes, d)) = 0
      BY <3>1, <1>3
    <3>3. d * Life + 0 + 1 \in Int
      BY StatsConstants, TimesNat
    <3> QED BY <3>2, <3>3, LogsCount
  <2>2. 0 <= w.age + c * BackBy
    BY <1>2, StatsConstants
  <2> QED BY <2>1, <2>2 DEF Fades
<1>8. cov => Covers(w, n, len, l)
  BY <1>5 DEF Covers
<1>9. w.total >= S!SumOver(w.b, 0 .. n - 1) /\ Exact(w, n)
  BY <1>2, <1>6 DEF Exact
<1> QED BY <1>2, <1>4, <1>7, <1>8, <1>9 DEF Sound, w

-----------------------------------------------------------------------------
(* A community's entry                                                       *)

\* What is true of an entry, or of what the file says, and the log it goes with: c is
\* how often the clock was set back, cut says whether a save was ever cut short.
Kept(e, l, c, cut) ==
    /\ e \in S!Entry
    /\ Quiet(e.idle, l)
    /\ Sound(e.day, Days, DayLen, l, TRUE) /\ Exact(e.day, Days)
    /\ Sound(e.min, Minutes, MinuteLen, l, cut => c = 0)
    /\ ~cut => Exact(e.min, Minutes)
    /\ c = 0 => e.min.age >= 0

\* An entry whose windows were brought up to date.
Advanced(e) == [e EXCEPT !.min = S!advance_24h_buckets(@), !.day = S!advance_30d_buckets(@)]

\* An entry is its two windows and how long it has been idle.
LEMMA EntryFields ==
    ASSUME NEW e \in S!Entry
    PROVE  /\ e.min \in S!Window(Minutes) /\ e.day \in S!Window(Days) /\ e.idle \in Int
           /\ e.min.age \in Int /\ e.day.age \in Int /\ e.min.total \in Nat /\ e.day.total \in Nat
           /\ e = [min |-> e.min, day |-> e.day, idle |-> e.idle]
           /\ e # None
BY StatsConstants DEF S!Entry, S!Window

\* Bringing the windows up to date keeps an entry.
LEMMA AdvancedKept ==
    ASSUME NEW l \in Logs, NEW c \in 0 .. BackSteps, NEW cut \in BOOLEAN, NEW e, Kept(e, l, c, cut),
           NEW f, f = Advanced(e)
    PROVE  /\ Kept(f, l, c, cut) /\ f.min.age \in 0 .. MinuteLen - 1 /\ f.day.age < DayLen
           /\ f.idle = e.idle
           /\ \A t : Fades(e.min, l, c, t) => \E s \in 0 .. t : Fades(f.min, l, c, s)
<1>1. /\ e.min \in S!Window(Minutes) /\ e.day \in S!Window(Days) /\ e.idle \in Int
      /\ e = [min |-> e.min, day |-> e.day, idle |-> e.idle]
  BY EntryFields DEF Kept
<1> DEFINE m == S!advance_24h_buckets(e.min)
           y == S!advance_30d_buckets(e.day)
<1>2. f = [min |-> m, day |-> y, idle |-> e.idle]
  BY <1>1 DEF Advanced
<1>3. f.min = m /\ f.day = y /\ f.idle = e.idle
  BY <1>2
<1>4. /\ Sound(m, Minutes, MinuteLen, l, cut => c = 0) /\ m.age \in 0 .. MinuteLen - 1
      /\ Exact(e.min, Minutes) => Exact(m, Minutes)
      /\ \A t : Fades(e.min, l, c, t) => \E s \in 0 .. t : Fades(m, l, c, s)
  <2> DEFINE cov == (cut => c = 0)
             w == e.min
  <2>1. cov \in BOOLEAN /\ Sound(w, Minutes, MinuteLen, l, cov) /\ (cov /\ w.age < 0 => Exact(w, Minutes))
    <3>1. w.age \in Int
      BY <1>1 DEF S!Window
    <3> QED BY <3>1 DEF Kept
  <2> HIDE DEF cov, w
  <2>2. /\ Sound(S!advance_24h_buckets(w), Minutes, MinuteLen, l, cov)
        /\ S!advance_24h_buckets(w).age \in 0 .. MinuteLen - 1
        /\ Exact(w, Minutes) => Exact(S!advance_24h_buckets(w), Minutes)
        /\ \A t : Fades(w, l, c, t) => \E s \in 0 .. t : Fades(S!advance_24h_buckets(w), l, c, s)
    BY <2>1, AdvanceMinutes
  <2> QED BY <2>2 DEF cov, w
<1>5. Sound(y, Days, DayLen, l, TRUE) /\ Exact(y, Days) /\ y.age < DayLen
  <2> DEFINE w == e.day
  <2>1. Sound(w, Days, DayLen, l, TRUE) /\ Exact(w, Days) /\ y = S!Roll(w, Days, DayLen)
    BY DEF Kept, S!advance_30d_buckets
  <2> HIDE DEF w, y
  <2> QED BY <2>1, StatsConstants, RollSound
<1>6. m \in S!Window(Minutes) /\ y \in S!Window(Days)
  BY <1>4, <1>5 DEF Sound
<1>7. f \in S!Entry
  BY <1>1, <1>2, <1>6 DEF S!Entry
<1>8. m.age >= 0
  BY <1>4
<1> HIDE DEF m, y
<1>9. Kept(f, l, c, cut)
  BY <1>3, <1>4, <1>5, <1>7, <1>8 DEF Kept
<1> QED BY <1>3, <1>4, <1>5, <1>9

\* Counting a packet keeps an entry, whose windows are brought up to date first.
LEMMA CountedKept ==
    ASSUME NEW l \in Logs, NEW c \in 0 .. BackSteps, NEW cut \in BOOLEAN, NEW e, Kept(e, l, c, cut),
           NEW m \in Nat, NEW f, f = S!update_community_traffic(e, m)
    PROVE  /\ Kept(f, Logged(l, m), c, cut)
           /\ \A t : Fades(e.min, l, c, t) => \E s \in 0 .. t : Fades(f.min, Logged(l, m), c, s)
<1> DEFINE g == Advanced(e)
<1>1. /\ Kept(g, l, c, cut) /\ g.min.age \in 0 .. MinuteLen - 1 /\ g.day.age < DayLen
      /\ \A t : Fades(e.min, l, c, t) => \E s \in 0 .. t : Fades(g.min, l, c, s)
  BY AdvancedKept
<1>2. e = [min |-> e.min, day |-> e.day, idle |-> e.idle]
  BY EntryFields DEF Kept
<1>3. g.min = S!advance_24h_buckets(e.min) /\ g.day = S!advance_30d_buckets(e.day)
  BY <1>2 DEF Advanced
<1> HIDE DEF g
<1> DEFINE p == S!Count(g.min, m)
           v == S!Count(g.day, m)
<1>4. f = [min |-> p, day |-> v, idle |-> 0]
  BY <1>3 DEF S!update_community_traffic
<1>5. /\ Sound(p, Minutes, MinuteLen, Logged(l, m), cut => c = 0) /\ p.age = g.min.age
      /\ Exact(g.min, Minutes) => Exact(p, Minutes)
      /\ \A t : Fades(g.min, l, c, t) => Fades(p, Logged(l, m), c, t)
  <2> DEFINE cov == (cut => c = 0)
             w == g.min
  <2>1. cov \in BOOLEAN /\ Sound(w, Minutes, MinuteLen, l, cov) /\ w.age < MinuteLen
    <3>1. g.min.age < MinuteLen
      BY <1>1, StatsConstants
    <3> QED BY <1>1, <3>1 DEF Kept
  <2> HIDE DEF cov, w
  <2>2. /\ Sound(S!Count(w, m), Minutes, MinuteLen, Logged(l, m), cov) /\ S!Count(w, m).age = w.age
        /\ Exact(w, Minutes) => Exact(S!Count(w, m), Minutes)
        /\ \A a, t : Fades(w, l, a, t) => Fades(S!Count(w, m), Logged(l, m), a, t)
    BY <2>1, StatsConstants, CountSound
  <2> QED BY <2>2 DEF cov, w
<1>6. Sound(v, Days, DayLen, Logged(l, m), TRUE) /\ Exact(v, Days)
  <2> DEFINE w == g.day
  <2>1. Sound(w, Days, DayLen, l, TRUE) /\ Exact(w, Days) /\ w.age < DayLen /\ v = S!Count(w, m)
    BY <1>1 DEF Kept
  <2> HIDE DEF w, v
  <2> QED BY <2>1, StatsConstants, CountSound
<1>7. p \in S!Window(Minutes) /\ v \in S!Window(Days)
  BY <1>5, <1>6 DEF Sound
<1> HIDE DEF p, v
<1>8. f \in S!Entry /\ f.min = p /\ f.day = v /\ f.idle = 0
  BY <1>4, <1>7 DEF S!Entry
<1>9. Quiet(0, Logged(l, m))
  BY StatsConstants DEF Quiet
<1>10. p.age >= 0
  BY <1>1, <1>5, StatsConstants
<1>11. Kept(f, Logged(l, m), c, cut)
  BY <1>1, <1>5, <1>6, <1>8, <1>9, <1>10 DEF Kept
<1> QED BY <1>1, <1>5, <1>8, <1>11

\* A new entry, of a community that was quiet for long, is one.
LEMMA NewKept ==
    ASSUME NEW l \in Logs, NEW c \in 0 .. BackSteps, NEW cut \in BOOLEAN,
           Quiet((Minutes - 1) * MinuteLen, l), Quiet((Days - 1) * DayLen, l)
    PROVE  Kept(S!NewEntry, l, c, cut) /\ Fades(S!NewEntry.min, l, c, 0)
<1> DEFINE p == S!NewWindow(Minutes)
           v == S!NewWindow(Days)
<1>1. Sound(p, Minutes, MinuteLen, l, cut => c = 0) /\ Exact(p, Minutes) /\ p.age = 0 /\ Fades(p, l, c, 0)
  <2> DEFINE cov == (cut => c = 0)
  <2>1. cov \in BOOLEAN
    OBVIOUS
  <2> HIDE DEF cov
  <2>2. Sound(p, Minutes, MinuteLen, l, cov) /\ Exact(p, Minutes) /\ p.age = 0 /\ Fades(p, l, c, 0)
    BY <2>1, StatsConstants, NewSound
  <2> QED BY <2>2 DEF cov
<1>2. Sound(v, Days, DayLen, l, TRUE) /\ Exact(v, Days)
  BY StatsConstants, NewSound
<1> HIDE DEF p, v
<1>3. S!NewEntry = [min |-> p, day |-> v, idle |-> 0]
  BY DEF S!NewEntry, p, v
<1>4. p \in S!Window(Minutes) /\ v \in S!Window(Days)
  BY <1>1, <1>2 DEF Sound
<1>5. S!NewEntry \in S!Entry /\ S!NewEntry.min = p /\ S!NewEntry.day = v /\ S!NewEntry.idle = 0
  BY <1>3, <1>4 DEF S!Entry
<1>6. Quiet(0, l)
  BY StatsConstants DEF Quiet
<1>7. p.age >= 0
  BY <1>1
<1>8. Kept(S!NewEntry, l, c, cut)
  BY <1>1, <1>2, <1>5, <1>6, <1>7 DEF Kept
<1> QED BY <1>1, <1>5, <1>8

\* An entry is a unit of time older (Tick).
LEMMA OlderKept ==
    ASSUME NEW l \in Logs, NEW c \in 0 .. BackSteps, NEW cut \in BOOLEAN, NEW e, Kept(e, l, c, cut),
           NEW f, f = S!Older(e, 1)
    PROVE  /\ Kept(f, S!Shift(l), c, cut)
           /\ \A t : Fades(e.min, l, c, t) => Fades(f.min, S!Shift(l), c, t + 1)
<1>1. /\ e.min \in S!Window(Minutes) /\ e.day \in S!Window(Days) /\ e.idle \in Int /\ e # None
      /\ e.min.age \in Int /\ e.day.age \in Int
      /\ e = [min |-> e.min, day |-> e.day, idle |-> e.idle]
  BY EntryFields DEF Kept
<1> DEFINE a == S!SmallerOf(e.min.age + 1, Minutes * MinuteLen + S!Slack)
           b == S!SmallerOf(e.day.age + 1, Days * DayLen + S!Slack)
           i == S!SmallerOf(e.idle + 1, IdleLimit + S!Slack)
           p == Aged(e.min, a)
           v == Aged(e.day, b)
<1>2. f = [min |-> p, day |-> v, idle |-> i]
  BY <1>1 DEF S!Older, Aged
<1>3. a \in Int /\ a <= e.min.age + 1 /\ (e.min.age >= 0 => a >= 0)
  BY <1>1, StatsConstants DEF S!SmallerOf
<1>4. b \in Int /\ b <= e.day.age + 1 /\ i \in Int /\ i <= e.idle + 1
  BY <1>1, StatsConstants DEF S!SmallerOf
<1>5. \A t : Fades(e.min, l, c, t) => Fades(p, S!Shift(l), c, t + 1)
  BY <1>1, OlderFades
<1>6. p.age = a
  BY <1>1 DEF Aged, S!Window
<1> HIDE DEF a, b, i
<1>7. Sound(p, Minutes, MinuteLen, S!Shift(l), cut => c = 0) /\ (Exact(e.min, Minutes) => Exact(p, Minutes))
  <2> DEFINE cov == (cut => c = 0)
             w == e.min
  <2>1. cov \in BOOLEAN /\ Sound(w, Minutes, MinuteLen, l, cov) /\ a <= w.age + 1
    BY <1>3 DEF Kept
  <2> HIDE DEF cov, w
  <2>2. Sound(Aged(w, a), Minutes, MinuteLen, S!Shift(l), cov) /\ (Exact(w, Minutes) => Exact(Aged(w, a), Minutes))
    BY <1>3, <2>1, StatsConstants, OlderSound
  <2> QED BY <2>2 DEF cov, w
<1>8. Sound(v, Days, DayLen, S!Shift(l), TRUE) /\ Exact(v, Days)
  <2> DEFINE w == e.day
  <2>1. Sound(w, Days, DayLen, l, TRUE) /\ Exact(w, Days) /\ b <= w.age + 1 /\ v = Aged(w, b)
    BY <1>4 DEF Kept
  <2> HIDE DEF w, v
  <2> QED BY <1>4, <2>1, StatsConstants, OlderSound
<1>9. Quiet(i, S!Shift(l))
  <2>1. Quiet(e.idle + 1, S!Shift(l))
    BY <1>1, LogShift DEF Kept
  <2>2. \A k \in 0 .. Horizon : k < i => k < e.idle + 1
    BY <1>1, <1>4, StatsConstants
  <2> QED BY <2>1, <2>2 DEF Quiet
<1> HIDE DEF p, v
<1>10. p \in S!Window(Minutes) /\ v \in S!Window(Days)
  BY <1>7, <1>8 DEF Sound
<1>11. f \in S!Entry /\ f.min = p /\ f.day = v /\ f.idle = i
  BY <1>2, <1>4, <1>10 DEF S!Entry
<1>12. c = 0 => p.age >= 0
  BY <1>3, <1>6 DEF Kept
<1>13. ~cut => Exact(p, Minutes)
  BY <1>7 DEF Kept
<1>14. Kept(f, S!Shift(l), c, cut)
  BY <1>7, <1>8, <1>9, <1>11, <1>12, <1>13 DEF Kept
<1> QED BY <1>5, <1>11, <1>14

\* The clock is set back, for an entry (ClockBack).
LEMMA BackKept ==
    ASSUME NEW l \in Logs, NEW c \in 0 .. BackSteps, c < BackSteps, NEW cut \in BOOLEAN,
           NEW e, Kept(e, l, c, cut), NEW f, f = S!Older(e, -BackBy)
    PROVE  /\ Kept(f, l, c + 1, cut)
           /\ \A t : Fades(e.min, l, c, t) => Fades(f.min, l, c + 1, t)
<1>1. /\ e.min \in S!Window(Minutes) /\ e.day \in S!Window(Days) /\ e.idle \in Int /\ e # None
      /\ e.min.age \in Int /\ e.day.age \in Int
      /\ e = [min |-> e.min, day |-> e.day, idle |-> e.idle]
  BY EntryFields DEF Kept
<1> DEFINE a == S!SmallerOf(e.min.age - BackBy, Minutes * MinuteLen + S!Slack)
           b == S!SmallerOf(e.day.age - BackBy, Days * DayLen + S!Slack)
           i == S!SmallerOf(e.idle - BackBy, IdleLimit + S!Slack)
           p == Aged(e.min, a)
           v == Aged(e.day, b)
<1>2. f = [min |-> p, day |-> v, idle |-> i]
  <2>1. /\ e.min.age + (-BackBy) = e.min.age - BackBy /\ e.day.age + (-BackBy) = e.day.age - BackBy
        /\ e.idle + (-BackBy) = e.idle - BackBy
    BY <1>1, StatsConstants
  <2> QED BY <1>1, <2>1 DEF S!Older, Aged
<1>3. a \in Int /\ a <= e.min.age
  BY <1>1, StatsConstants DEF S!SmallerOf
<1>4. b \in Int /\ b <= e.day.age /\ i \in Int /\ i <= e.idle
  BY <1>1, StatsConstants DEF S!SmallerOf
<1>5. \A t : Fades(e.min, l, c, t) => Fades(p, l, c + 1, t)
  BY <1>1, BackFades
<1> HIDE DEF a, b, i
<1>7. Sound(p, Minutes, MinuteLen, l, cut => c = 0) /\ (Exact(e.min, Minutes) => Exact(p, Minutes))
  <2> DEFINE cov == (cut => c = 0)
             w == e.min
  <2>1. cov \in BOOLEAN /\ Sound(w, Minutes, MinuteLen, l, cov) /\ a <= w.age
    BY <1>3 DEF Kept
  <2> HIDE DEF cov, w
  <2>2. Sound(Aged(w, a), Minutes, MinuteLen, l, cov) /\ (Exact(w, Minutes) => Exact(Aged(w, a), Minutes))
    BY <1>3, <2>1, StatsConstants, YoungerSound
  <2> QED BY <2>2 DEF cov, w
<1>8. Sound(v, Days, DayLen, l, TRUE) /\ Exact(v, Days)
  <2> DEFINE w == e.day
  <2>1. Sound(w, Days, DayLen, l, TRUE) /\ Exact(w, Days) /\ b <= w.age /\ v = Aged(w, b)
    BY <1>4 DEF Kept
  <2> HIDE DEF w, v
  <2> QED BY <1>4, <2>1, StatsConstants, YoungerSound
<1>9. Quiet(i, l)
  <2>1. Quiet(e.idle, l)
    BY DEF Kept
  <2>2. \A k \in 0 .. Horizon : k < i => k < e.idle
    BY <1>1, <1>4, StatsConstants
  <2> QED BY <2>1, <2>2 DEF Quiet
<1> HIDE DEF p, v
<1>10. p \in S!Window(Minutes) /\ v \in S!Window(Days)
  BY <1>7, <1>8 DEF Sound
<1>11. f \in S!Entry /\ f.min = p /\ f.day = v /\ f.idle = i
  BY <1>2, <1>4, <1>10 DEF S!Entry
<1>12. c + 1 # 0
  OBVIOUS
<1>13. (~cut => Exact(p, Minutes)) /\ Sound(p, Minutes, MinuteLen, l, cut => c + 1 = 0)
  <2>1. (cut => c + 1 = 0) => (cut => c = 0)
    BY <1>12
  <2> QED BY <1>7, <2>1 DEF Kept, Sound
<1>14. Kept(f, l, c + 1, cut)
  BY <1>8, <1>9, <1>11, <1>12, <1>13 DEF Kept
<1> QED BY <1>5, <1>11, <1>14

\* A save that is cut short after some of the minute buckets: the file counts what
\* the entry did, for as long as the clock was not set back.
LEMMA TornKept ==
    ASSUME NEW l \in Logs, NEW c \in 0 .. BackSteps, NEW cut \in BOOLEAN, NEW e, Kept(e, l, c, cut),
           NEW k \in 0 .. Minutes - 1, NEW f, f = S!Torn(e, k)
    PROVE  Kept(f, l, c, TRUE)
<1>1. /\ e.min \in S!Window(Minutes) /\ e.day \in S!Window(Days) /\ e.idle \in Int
      /\ e = [min |-> e.min, day |-> e.day, idle |-> e.idle]
  BY EntryFields DEF Kept
<1> DEFINE w == e.min
           Z == {i \in 0 .. Minutes - 1 : ~(i < k)}
           b == [i \in 0 .. Minutes - 1 |-> IF i < k THEN w.b[i] ELSE 0]
           p == [b |-> b, idx |-> w.idx, age |-> w.age, total |-> w.total]
<1>2. /\ w.b \in [0 .. Minutes - 1 -> Nat] /\ DOMAIN w.b = 0 .. Minutes - 1 /\ w.idx \in 0 .. Minutes - 1
      /\ w.age \in Int /\ w.total \in Nat
      /\ w = [b |-> w.b, idx |-> w.idx, age |-> w.age, total |-> w.total]
  BY <1>1 DEF S!Window
<1>3. f = [min |-> p, day |-> e.day, idle |-> e.idle]
  BY <1>1, <1>2 DEF S!Torn
<1>4. b \in [0 .. Minutes - 1 -> Nat] /\ \A i \in 0 .. Minutes - 1 : b[i] <= w.b[i]
  <2> HIDE DEF w
  <2>1. \A i \in 0 .. Minutes - 1 : w.b[i] \in Nat
    BY <1>2
  <2>2. \A i \in 0 .. Minutes - 1 : b[i] = w.b[i] \/ b[i] = 0
    OBVIOUS
  <2>3. b \in [0 .. Minutes - 1 -> Nat]
    BY <2>1
  <2> HIDE DEF b
  <2> QED BY <2>1, <2>2, <2>3
<1>5. p \in S!Window(Minutes) /\ p.b = b /\ p.idx = w.idx /\ p.age = w.age /\ p.total = w.total
  BY <1>2, <1>4 DEF S!Window
<1> HIDE DEF b, p, w
<1>6. \A U \in SUBSET (0 .. Minutes - 1) :
         /\ S!SumOver(b, U) \in Nat /\ S!SumOver(w.b, U) \in Nat /\ S!SumOver(b, U) <= S!SumOver(w.b, U)
  <2> SUFFICES ASSUME NEW U \in SUBSET (0 .. Minutes - 1)
               PROVE  /\ S!SumOver(b, U) \in Nat /\ S!SumOver(w.b, U) \in Nat
                      /\ S!SumOver(b, U) <= S!SumOver(w.b, U)
    OBVIOUS
  <2>1. Counts(b, U) /\ Counts(w.b, U) /\ \A i \in U : b[i] <= w.b[i]
    BY <1>2, <1>4, StatsConstants, BucketsCount
  <2> QED BY <2>1, SumType, SumBelow
<1>7. Sound(w, Minutes, MinuteLen, l, cut => c = 0)
  BY DEF Kept, w
<1>8. Quiet(p.age - MinuteLen + 1, l)
  BY <1>5, <1>7 DEF Sound
<1>9. p.total >= S!SumOver(p.b, 0 .. Minutes - 1)
  <2>1. w.total >= S!SumOver(w.b, 0 .. Minutes - 1)
    BY <1>7 DEF Sound
  <2>2. S!SumOver(b, 0 .. Minutes - 1) \in Nat /\ S!SumOver(w.b, 0 .. Minutes - 1) \in Nat
    BY <1>6
  <2>3. S!SumOver(b, 0 .. Minutes - 1) <= S!SumOver(w.b, 0 .. Minutes - 1)
    BY <1>6
  <2> QED BY <1>2, <1>5, <2>1, <2>2, <2>3
<1>10. ASSUME c = 0, NEW d \in 0 .. Minutes - 1
       PROVE  p.total - S!SumOver(p.b, Far(p.idx, Minutes, d)) >= S!SumOver(l, Before(d * MinuteLen + Positive(p.age)))
  <2> DEFINE t == d * MinuteLen + Positive(p.age)
  <2>1. w.total - S!SumOver(w.b, Far(w.idx, Minutes, d)) >= S!SumOver(l, Before(t))
    BY <1>5, <1>7, <1>10 DEF Sound, Covers
  <2>2. t \in Int
    <3>1. d * MinuteLen \in Nat
      BY StatsConstants, TimesNat
    <3>2. Positive(p.age) \in Int
      BY <1>2, <1>5 DEF Positive, S!BiggerOf
    <3> QED BY <3>1, <3>2
  <2> HIDE DEF t
  <2>3. S!SumOver(l, Before(t)) \in Nat
    BY <2>2, LogsCount
  <2>4. Far(w.idx, Minutes, d) \in SUBSET (0 .. Minutes - 1)
    BY DEF Far
  <2>5. p.total - S!SumOver(p.b, Far(p.idx, Minutes, d)) >= S!SumOver(l, Before(t))
    BY <1>2, <1>5, <1>6, <2>1, <2>3, <2>4
  <2> QED BY <2>5 DEF t
<1>11. Sound(p, Minutes, MinuteLen, l, TRUE => c = 0)
  BY <1>5, <1>8, <1>9, <1>10 DEF Sound, Covers
<1>12. f \in S!Entry /\ f.min = p /\ f.day = e.day /\ f.idle = e.idle
  BY <1>1, <1>3, <1>5 DEF S!Entry
<1>13. c = 0 => p.age >= 0
  BY <1>5 DEF Kept, w
<1> QED BY <1>11, <1>12, <1>13 DEF Kept

-----------------------------------------------------------------------------
(* The accounting's steps                                                    *)

\* How long ago the current minute bucket began, at most, while the process runs:
\* it was young at the last purge, unless the clock has hidden some of its age.
Youth == purgeAge + MinuteLen - 1 + backs * BackBy

\* The purge's timer: what setting the clock back hides of it, and how late it runs.
TimerInv ==
    /\ purgeAge + backs * BackBy >= 0
    /\ up => purgeAge <= 1 + Late
    /\ ~up => purgeAge = 1

\* The entry and the log: without an entry nothing was counted for long; the entry
\* is gone with the process.
EntryInv ==
    /\ ~up => entry = None
    /\ up => IF entry = None THEN Quiet((Days - 1) * DayLen, log)
             ELSE /\ Kept(entry, log, backs, torn)
                  /\ ~torn => \E t : Fades(entry.min, log, backs, t) /\ t <= Youth

\* The file and the log it was written with.
FileInv ==
    file # None =>
       /\ Kept(file, fileLog, backs, torn)
       /\ ~torn => \E t : Fades(file.min, fileLog, backs, t)

\* What every step of the accounting keeps.
StatsInv == S!TypeOK /\ TimerInv /\ EntryInv /\ FileInv

\* What was quiet for long was quiet for less.
LEMMA QuietLess ==
    ASSUME NEW l \in Logs, NEW s \in Int, NEW t \in Int, s <= t, Quiet(t, l)
    PROVE  Quiet(s, l)
BY StatsConstants DEF Quiet

\* The 30-day window is longer than the 24-hour window and what a byte can outlive it.
LEMMA Spans ==
    /\ (Days - 1) * DayLen \in Nat /\ (Minutes - 1) * MinuteLen \in Nat
    /\ S!Longest \in Nat /\ S!BucketLife \in Nat
    /\ (Minutes - 1) * MinuteLen <= (Days - 1) * DayLen
    /\ S!Longest < (Days - 1) * DayLen /\ (Days - 1) * DayLen <= IdleLimit /\ S!Longest <= Horizon
    /\ (Minutes - 1) * Life + MinuteLen + Late + BackSteps * BackBy <= S!Longest
    /\ Minutes * S!BucketLife \in Nat /\ S!Longest = Minutes * S!BucketLife + BackSteps * BackBy
<1>1. S!BucketLife \in Nat /\ MinuteLen + Late <= S!BucketLife /\ Life <= S!BucketLife /\ MinuteLen <= S!BucketLife
  BY StatsConstants DEF S!BucketLife, S!BiggerOf, Life
<1>2. Minutes - 1 \in Nat /\ Days - 1 \in Nat
  BY StatsConstants
<1>3. /\ (Days - 1) * DayLen \in Nat /\ (Minutes - 1) * MinuteLen \in Nat /\ (Minutes - 1) * Life \in Nat
      /\ Minutes * S!BucketLife \in Nat /\ (Minutes - 1) * S!BucketLife \in Nat /\ BackSteps * BackBy \in Nat
  BY <1>1, <1>2, StatsConstants, TimesNat
<1>4. S!Longest = Minutes * S!BucketLife + BackSteps * BackBy
  BY DEF S!Longest
<1>5. Minutes * S!BucketLife = (Minutes - 1) * S!BucketLife + S!BucketLife
  BY <1>1, StatsConstants
<1>6. (Minutes - 1) * Life <= (Minutes - 1) * S!BucketLife /\ (Minutes - 1) * MinuteLen <= (Minutes - 1) * S!BucketLife
  <2>1. Life * (Minutes - 1) <= S!BucketLife * (Minutes - 1) /\ MinuteLen * (Minutes - 1) <= S!BucketLife * (Minutes - 1)
    BY <1>1, <1>2, StatsConstants, TimesMono
  <2> QED BY <2>1, <1>1, <1>2, StatsConstants
<1>7. S!Longest < (Days - 1) * DayLen /\ (Days - 1) * DayLen <= IdleLimit /\ S!Longest <= Horizon
  BY <1>3, <1>4, StatsConstants, LedgerAssumed DEF S!StatsAssumption
<1> QED BY <1>1, <1>3, <1>4, <1>5, <1>6, <1>7, StatsConstants

\* A minute bucket that is young by its window began not long ago.
LEMMA YoungFades ==
    ASSUME NEW l, NEW c \in 0 .. BackSteps, NEW t, NEW w, Fades(w, l, c, t), w.age \in 0 .. MinuteLen - 1
    PROVE  t \in Nat /\ t <= MinuteLen - 1 + c * BackBy
<1>1. MinuteLen <= Minutes * MinuteLen
  <2>1. 1 * MinuteLen <= Minutes * MinuteLen
    BY StatsConstants, TimesMono
  <2> QED BY <2>1, StatsConstants
<1>2. ~(w.age >= Minutes * MinuteLen + (BackSteps - c) * BackBy)
  BY <1>1, BackOnce, StatsConstants
<1> QED BY <1>2, BackOnce, StatsConstants DEF Fades

\* A purge keeps an entry, with its windows brought up to date, or drops it because
\* nothing was counted for long.
LEMMA PurgedKept ==
    ASSUME NEW l \in Logs, NEW c \in 0 .. BackSteps, NEW cut \in BOOLEAN, NEW e, Kept(e, l, c, cut)
    PROVE  \/ S!Purged(e) = None /\ Quiet((Days - 1) * DayLen, l)
           \/ S!Purged(e) = Advanced(e)
<1>1. e # None /\ e.idle \in Int
  BY EntryFields DEF Kept
<1> DEFINE f == Advanced(e)
<1>2. S!Purged(e) = IF e.idle >= IdleLimit THEN None ELSE IF f.day.total = 0 THEN None ELSE f
  BY <1>1 DEF S!Purged, Advanced
<1>3. CASE e.idle >= IdleLimit
  <2>1. Quiet(e.idle, l)
    BY DEF Kept
  <2>2. (Days - 1) * DayLen \in Int /\ (Days - 1) * DayLen <= e.idle
    BY <1>1, <1>3, Spans, StatsConstants
  <2>3. Quiet((Days - 1) * DayLen, l)
    BY <1>1, <2>1, <2>2, QuietLess
  <2> QED BY <1>2, <1>3, <2>3
<1>4. CASE ~(e.idle >= IdleLimit) /\ f.day.total = 0
  <2>1. Kept(f, l, c, cut)
    BY AdvancedKept
  <2> HIDE DEF f
  <2> DEFINE w == f.day
             t == (Days - 1) * DayLen + Positive(w.age)
  <2>2. Sound(w, Days, DayLen, l, TRUE) /\ w \in S!Window(Days)
    BY <2>1 DEF Kept, Sound
  <2>3. Days - 1 \in 0 .. Days - 1 /\ Days - 1 \in Int
    BY StatsConstants
  <2>4. w.total - S!SumOver(w.b, Far(w.idx, Days, Days - 1)) >= S!SumOver(l, Before(t))
    BY <2>2, <2>3 DEF Sound, Covers
  <2>5. /\ w.idx \in 0 .. Days - 1 /\ w.b \in [0 .. Days - 1 -> Nat] /\ w.age \in Int
        /\ Positive(w.age) \in Nat
    BY <2>2 DEF S!Window, Positive, S!BiggerOf
  <2>6. t \in Int /\ (Days - 1) * DayLen <= t /\ (Days - 1) * DayLen \in Int
    BY <2>5, Spans
  <2>7. S!SumOver(w.b, Far(w.idx, Days, Days - 1)) \in Nat
    <3>1. S!SumOver(w.b, Far(w.idx, Days, Days - 1)) \in 0 .. S!SumOver(w.b, 0 .. Days - 1)
      BY <2>3, <2>5, StatsConstants, BucketSums
    <3> QED BY <3>1
  <2> HIDE DEF t
  <2>8. Counts(l, Before(t)) /\ S!SumOver(l, Before(t)) \in Nat
    BY <2>6, LogsCount
  <2>9. w.total = 0
    BY <1>4
  <2> HIDE DEF w
  <2>10. S!SumOver(l, Before(t)) = 0
    BY <2>4, <2>7, <2>8, <2>9
  <2>11. \A k \in Before(t) : l[k] = 0
    BY <2>8, <2>10, ZeroSum
  <2>12. \A k \in 0 .. Horizon : k < (Days - 1) * DayLen => k \in Before(t)
    BY <2>6, StatsConstants DEF Before
  <2>13. Quiet((Days - 1) * DayLen, l)
    BY <2>11, <2>12 DEF Quiet
  <2> QED BY <1>2, <1>4, <2>13 DEF f
<1>5. CASE ~(e.idle >= IdleLimit) /\ f.day.total # 0
  BY <1>2, <1>5
<1> QED BY <1>3, <1>4, <1>5

\* What StatsInv says of types, in the terms of the lemmas above.
LEMMA StatsTypes ==
    ASSUME StatsInv
    PROVE  /\ log \in Logs /\ fileLog \in Logs /\ backs \in 0 .. BackSteps /\ torn \in BOOLEAN /\ up \in BOOLEAN
           /\ purgeAge \in Int /\ backs * BackBy \in Nat /\ Youth \in Int
BY StatsConstants DEF StatsInv, S!TypeOK, Logs, Youth

\* The process starts with nothing counted.
LEMMA StatsStart == S!Init => StatsInv
<1> SUFFICES ASSUME S!Init PROVE StatsInv
  OBVIOUS
<1>1. log \in [0 .. Horizon -> Nat] /\ fileLog \in [0 .. Horizon -> Nat] /\ Quiet((Days - 1) * DayLen, log)
  BY StatsConstants DEF S!Init, Quiet
<1>2. S!TypeOK
  <2>1. entry = None /\ file = None /\ up = TRUE /\ sent = FALSE /\ torn = FALSE
    BY DEF S!Init
  <2>2. purgeAge \in Int /\ saveAge \in Int /\ backs \in 0 .. BackSteps
    BY StatsConstants DEF S!Init
  <2> QED BY <1>1, <2>1, <2>2 DEF S!TypeOK
<1>3. TimerInv
  BY StatsConstants DEF S!Init, TimerInv
<1> QED BY <1>1, <1>2, <1>3 DEF StatsInv, EntryInv, FileInv, S!Init

\* A forwarded packet is counted.
LEMMA StatsTraffic ==
    ASSUME StatsInv, NEW bytes \in Bytes, S!Traffic(bytes)
    PROVE  StatsInv'
<1> DEFINE e == IF entry = None THEN S!NewEntry ELSE entry
<1>1. /\ bytes \in Nat /\ up /\ up' = up /\ log' = Logged(log, bytes) /\ entry' = S!update_community_traffic(e, bytes)
      /\ UNCHANGED <<file, up, purgeAge, saveAge, backs, torn, fileLog>> /\ sent' = TRUE
  BY StatsConstants DEF S!Traffic, Logged
<1>2. Kept(e, log, backs, torn) /\ (~torn => \E t : Fades(e.min, log, backs, t) /\ t <= Youth)
  <2>1. CASE entry = None
    <3>1. Quiet((Days - 1) * DayLen, log)
      BY <1>1, <2>1 DEF StatsInv, EntryInv
    <3>2. Quiet((Minutes - 1) * MinuteLen, log)
      <4>1. (Minutes - 1) * MinuteLen \in Int /\ (Days - 1) * DayLen \in Int
            /\ (Minutes - 1) * MinuteLen <= (Days - 1) * DayLen
        BY Spans
      <4> QED BY <3>1, <4>1, StatsTypes, QuietLess
    <3>3. Kept(S!NewEntry, log, backs, torn) /\ Fades(S!NewEntry.min, log, backs, 0)
      BY <3>1, <3>2, StatsTypes, NewKept
    <3>4. 0 <= Youth
      BY StatsTypes, StatsConstants DEF StatsInv, TimerInv, Youth
    <3> QED BY <2>1, <3>3, <3>4
  <2>2. CASE entry # None
    BY <1>1, <2>2 DEF StatsInv, EntryInv
  <2> QED BY <2>1, <2>2
<1> HIDE DEF e
<1>3. /\ Kept(entry', Logged(log, bytes), backs, torn)
      /\ \A t : Fades(e.min, log, backs, t) => \E s \in 0 .. t : Fades(entry'.min, Logged(log, bytes), backs, s)
  BY <1>1, <1>2, StatsTypes, CountedKept
<1>4. ~torn => \E s : Fades(entry'.min, log', backs', s) /\ s <= Youth'
  <2> SUFFICES ASSUME ~torn PROVE \E s : Fades(entry'.min, log', backs', s) /\ s <= Youth'
    OBVIOUS
  <2>1. PICK t : Fades(e.min, log, backs, t) /\ t <= Youth
    BY <1>2
  <2>2. PICK s \in 0 .. t : Fades(entry'.min, Logged(log, bytes), backs, s)
    BY <1>3, <2>1
  <2>3. Youth' = Youth
    BY <1>1 DEF Youth
  <2>4. t \in Int /\ s <= t
    BY <2>1 DEF Fades
  <2> QED BY <1>1, <2>1, <2>2, <2>3, <2>4, StatsTypes
<1>5. entry' \in S!Entry /\ entry' # None
  BY <1>3, EntryFields DEF Kept
<1>6. log' \in Logs
  BY <1>1, StatsTypes, LogAdd
<1>7. S!TypeOK'
  BY <1>1, <1>5, <1>6 DEF StatsInv, S!TypeOK, Logs
<1>8. TimerInv' /\ FileInv'
  BY <1>1 DEF StatsInv, TimerInv, FileInv
<1>9. EntryInv'
  BY <1>1, <1>3, <1>4, <1>5 DEF EntryInv
<1> QED BY <1>7, <1>8, <1>9 DEF StatsInv

\* What the purge leaves of an entry, and what a file that is loaded makes of one:
\* with windows that are up to date, hence young ones.
LEMMA AdvancedYoung ==
    ASSUME NEW l \in Logs, NEW c \in 0 .. BackSteps, NEW cut \in BOOLEAN, NEW e, Kept(e, l, c, cut),
           ~cut => \E t : Fades(e.min, l, c, t)
    PROVE  /\ Kept(Advanced(e), l, c, cut) /\ Advanced(e) \in S!Entry /\ Advanced(e) # None
           /\ ~cut => \E t : Fades(Advanced(e).min, l, c, t) /\ t <= MinuteLen - 1 + c * BackBy
<1>1. /\ Kept(Advanced(e), l, c, cut) /\ Advanced(e).min.age \in 0 .. MinuteLen - 1
      /\ \A t : Fades(e.min, l, c, t) => \E s \in 0 .. t : Fades(Advanced(e).min, l, c, s)
  BY AdvancedKept
<1>2. Advanced(e) \in S!Entry /\ Advanced(e) # None
  BY <1>1, EntryFields DEF Kept
<1>3. ASSUME ~cut PROVE \E t : Fades(Advanced(e).min, l, c, t) /\ t <= MinuteLen - 1 + c * BackBy
  <2>1. PICK t : Fades(Advanced(e).min, l, c, t)
    BY <1>1, <1>3
  <2>2. t <= MinuteLen - 1 + c * BackBy
    BY <1>1, <2>1, YoungFades
  <2> QED BY <2>1, <2>2
<1> QED BY <1>1, <1>2, <1>3

\* What a pass leaves in memory, saves, or is about to save when the process dies.
LEMMA PassKept ==
    ASSUME StatsInv, up, NEW e, e = IF S!PurgeDue THEN S!Purged(entry) ELSE entry
    PROVE  /\ e \in S!Entry \cup {None}
           /\ e = None => Quiet((Days - 1) * DayLen, log)
           /\ e # None =>
                 /\ Kept(e, log, backs, torn)
                 /\ ~torn => \E t : /\ Fades(e.min, log, backs, t)
                                    /\ t <= IF S!PurgeDue THEN MinuteLen - 1 + backs * BackBy ELSE Youth
<1>1. CASE entry = None
  <2>1. e = None
    BY <1>1 DEF S!Purged
  <2> QED BY <1>1, <2>1 DEF StatsInv, EntryInv
<1>2. CASE entry # None
  <2>1. Kept(entry, log, backs, torn) /\ (~torn => \E t : Fades(entry.min, log, backs, t) /\ t <= Youth)
    BY <1>2 DEF StatsInv, EntryInv
  <2>2. CASE S!PurgeDue
    <3>1. e = S!Purged(entry)
      BY <2>2
    <3>2. \/ e = None /\ Quiet((Days - 1) * DayLen, log)
          \/ e = Advanced(entry)
      BY <2>1, <3>1, StatsTypes, PurgedKept
    <3>3. /\ Kept(Advanced(entry), log, backs, torn) /\ Advanced(entry) \in S!Entry /\ Advanced(entry) # None
          /\ ~torn => \E t : Fades(Advanced(entry).min, log, backs, t) /\ t <= MinuteLen - 1 + backs * BackBy
      BY <2>1, StatsTypes, AdvancedYoung
    <3> QED BY <2>2, <3>2, <3>3
  <2>3. CASE ~S!PurgeDue
    <3>1. e = entry
      BY <2>3
    <3>2. entry \in S!Entry
      BY <2>1 DEF Kept
    <3> QED BY <1>2, <2>1, <2>3, <3>1, <3>2
  <2> QED BY <2>2, <2>3
<1> QED BY <1>1, <1>2

\* The tail of the loop purges, then saves.
LEMMA StatsTail ==
    ASSUME StatsInv, S!LoopTail
    PROVE  StatsInv'
<1>1. /\ up /\ UNCHANGED <<up, sent, backs, torn, log>>
      /\ entry' = IF S!PurgeDue THEN S!Purged(entry) ELSE entry
      /\ purgeAge' = IF S!PurgeDue THEN 0 ELSE purgeAge
      /\ IF S!SaveDue THEN file' = entry' /\ fileLog' = log /\ saveAge' = 0
                      ELSE UNCHANGED <<file, fileLog, saveAge>>
  BY DEF S!LoopTail
<1>2. /\ entry' \in S!Entry \cup {None}
      /\ entry' = None => Quiet((Days - 1) * DayLen, log)
      /\ entry' # None =>
            /\ Kept(entry', log, backs, torn)
            /\ ~torn => \E t : /\ Fades(entry'.min, log, backs, t)
                               /\ t <= IF S!PurgeDue THEN MinuteLen - 1 + backs * BackBy ELSE Youth
  <2> DEFINE e == IF S!PurgeDue THEN S!Purged(entry) ELSE entry
  <2>1. /\ e \in S!Entry \cup {None}
        /\ e = None => Quiet((Days - 1) * DayLen, log)
        /\ e # None =>
              /\ Kept(e, log, backs, torn)
              /\ ~torn => \E t : /\ Fades(e.min, log, backs, t)
                                 /\ t <= IF S!PurgeDue THEN MinuteLen - 1 + backs * BackBy ELSE Youth
    BY <1>1, PassKept
  <2>2. entry' = e
    BY <1>1
  <2> HIDE DEF e
  <2> QED BY <2>1, <2>2
<1>3. Youth' = IF S!PurgeDue THEN MinuteLen - 1 + backs * BackBy ELSE Youth
  BY <1>1, StatsTypes, StatsConstants DEF Youth
<1>4. EntryInv'
  BY <1>1, <1>2, <1>3 DEF EntryInv
<1>5. FileInv'
  <2>1. CASE S!SaveDue
    <3>1. file' = entry' /\ fileLog' = log /\ backs' = backs /\ torn' = torn
      BY <1>1, <2>1
    <3> QED BY <1>2, <3>1 DEF FileInv
  <2>2. CASE ~S!SaveDue
    BY <1>1, <2>2 DEF FileInv, StatsInv
  <2> QED BY <2>1, <2>2
<1>6. TimerInv'
  <2>1. purgeAge + backs * BackBy >= 0 /\ purgeAge <= 1 + Late /\ up
    BY <1>1 DEF StatsInv, TimerInv
  <2>2. backs' * BackBy = backs * BackBy /\ up'
    BY <1>1
  <2> DEFINE h == backs * BackBy
  <2>3. h \in Nat
    BY StatsTypes
  <2> HIDE DEF h
  <2>4. purgeAge' + h >= 0 /\ purgeAge' <= 1 + Late
    <3>1. CASE purgeAge' = 0
      BY <2>3, <3>1, StatsConstants
    <3>2. CASE purgeAge' = purgeAge
      BY <2>1, <3>2 DEF h
    <3> QED BY <1>1, <3>1, <3>2
  <2> QED BY <2>2, <2>4 DEF h, TimerInv
<1>7. S!TypeOK'
  <2>1. fileLog' \in [0 .. Horizon -> Nat] /\ log' \in [0 .. Horizon -> Nat]
    BY <1>1, StatsTypes DEF Logs
  <2>2. purgeAge' \in Int /\ saveAge' \in Int
    BY <1>1 DEF StatsInv, S!TypeOK
  <2>3. file' \in S!Entry \cup {None}
    BY <1>1, <1>2 DEF StatsInv, S!TypeOK
  <2> QED BY <1>1, <1>2, <2>1, <2>2, <2>3 DEF StatsInv, S!TypeOK
<1> QED BY <1>4, <1>5, <1>6, <1>7 DEF StatsInv

\* The process dies, while it saves or at another time.
LEMMA StatsDie ==
    ASSUME StatsInv, S!DieSaving \/ S!Crash
    PROVE  StatsInv'
<1>1. /\ up /\ up' = FALSE /\ entry' = None /\ purgeAge' = 1 /\ saveAge' = SaveEvery
      /\ UNCHANGED <<sent, backs, log>>
  BY DEF S!DieSaving, S!Crash, S!Die
<1>2. EntryInv' /\ TimerInv'
  BY <1>1, StatsTypes, StatsConstants DEF EntryInv, TimerInv
<1>3. CASE S!Crash
  <2>1. UNCHANGED <<file, torn, fileLog>>
    BY <1>3 DEF S!Crash
  <2>2. FileInv'
    BY <1>1, <2>1 DEF StatsInv, FileInv
  <2>3. S!TypeOK'
    <3>1. S!TypeOK /\ purgeAge' \in Int /\ saveAge' \in Int /\ up' \in BOOLEAN
      <4>1. S!TypeOK
        BY DEF StatsInv
      <4>2. up' \in BOOLEAN
        BY <1>1
      <4>3. purgeAge' \in Int /\ saveAge' \in Int
        BY <1>1, StatsConstants
      <4> QED BY <4>1, <4>2, <4>3
    <3>2. entry' \in S!Entry \cup {None} /\ file' \in S!Entry \cup {None}
      BY <1>1, <2>1, <3>1 DEF S!TypeOK
    <3>3. sent' \in BOOLEAN /\ torn' \in BOOLEAN /\ backs' \in 0 .. BackSteps
      BY <1>1, <2>1, <3>1 DEF S!TypeOK
    <3>4. log' \in [0 .. Horizon -> Nat] /\ fileLog' \in [0 .. Horizon -> Nat]
      BY <1>1, <2>1, <3>1 DEF S!TypeOK
    <3> QED BY <3>1, <3>2, <3>3, <3>4 DEF S!TypeOK
  <2> QED BY <1>2, <2>2, <2>3 DEF StatsInv
<1>4. CASE S!DieSaving
  <2> DEFINE e == IF S!PurgeDue THEN S!Purged(entry) ELSE entry
  <2>1. /\ torn' = TRUE /\ fileLog' = log
        /\ file' = None \/ (e # None /\ \E k \in 0 .. Minutes - 1 : file' = S!Torn(e, k))
    BY <1>4 DEF S!DieSaving
  <2>2. e # None => Kept(e, log, backs, torn)
    BY <1>1, PassKept
  <2> HIDE DEF e
  <2>3. file' # None => Kept(file', log, backs, TRUE)
    <3> SUFFICES ASSUME file' # None PROVE Kept(file', log, backs, TRUE)
      OBVIOUS
    <3>1. PICK k \in 0 .. Minutes - 1 : file' = S!Torn(e, k)
      BY <2>1
    <3>2. Kept(e, log, backs, torn)
      BY <2>1, <2>2
    <3> QED BY <3>1, <3>2, StatsTypes, TornKept
  <2>4. FileInv'
    BY <1>1, <2>1, <2>3 DEF FileInv
  <2>5. file' \in S!Entry \cup {None}
    BY <2>3 DEF Kept
  <2>6. S!TypeOK'
    <3>1. S!TypeOK /\ purgeAge' \in Int /\ saveAge' \in Int /\ up' \in BOOLEAN
      <4>1. S!TypeOK
        BY DEF StatsInv
      <4>2. up' \in BOOLEAN
        BY <1>1
      <4>3. purgeAge' \in Int /\ saveAge' \in Int
        BY <1>1, StatsConstants
      <4> QED BY <4>1, <4>2, <4>3
    <3>2. entry' \in S!Entry \cup {None}
      BY <1>1
    <3>3. sent' \in BOOLEAN /\ torn' \in BOOLEAN /\ backs' \in 0 .. BackSteps
      BY <1>1, <2>1, <3>1 DEF S!TypeOK
    <3>4. log' \in [0 .. Horizon -> Nat] /\ fileLog' \in [0 .. Horizon -> Nat]
      BY <1>1, <2>1, <3>1 DEF S!TypeOK
    <3> QED BY <2>5, <3>1, <3>2, <3>3, <3>4 DEF S!TypeOK
  <2> QED BY <1>2, <2>4, <2>6 DEF StatsInv
<1> QED BY <1>3, <1>4

\* Its successor loads the file, and begins to remember from there.
LEMMA StatsRestart ==
    ASSUME StatsInv, S!Restart
    PROVE  StatsInv'
<1>1. /\ ~up /\ up' = TRUE /\ entry' = S!Loaded(file)
      /\ log' = IF file = None THEN [k \in 0 .. Horizon |-> 0] ELSE fileLog
      /\ UNCHANGED <<file, purgeAge, saveAge, sent, backs, torn, fileLog>>
  BY DEF S!Restart
<1>2. purgeAge = 1 /\ Youth' = 1 + MinuteLen - 1 + backs * BackBy
  BY <1>1 DEF StatsInv, TimerInv, Youth
<1>3. TimerInv' /\ FileInv'
  BY <1>1, <1>2, StatsConstants DEF StatsInv, TimerInv, FileInv
<1>4. CASE file = None
  <2>1. entry' = None
    BY <1>1, <1>4 DEF S!Loaded
  <2>2. log' \in [0 .. Horizon -> Nat] /\ \A k \in 0 .. Horizon : log'[k] = 0
    BY <1>1, <1>4
  <2>3. EntryInv'
    BY <2>1, <2>2 DEF EntryInv, Quiet
  <2>4. S!TypeOK'
    BY <1>1, <2>1, <2>2 DEF StatsInv, S!TypeOK
  <2> QED BY <1>3, <2>3, <2>4 DEF StatsInv
<1>5. CASE file # None
  <2>1. entry' = Advanced(file) /\ log' = fileLog
    BY <1>1, <1>5 DEF S!Loaded, Advanced
  <2>2. Kept(file, fileLog, backs, torn) /\ (~torn => \E t : Fades(file.min, fileLog, backs, t))
    BY <1>5 DEF StatsInv, FileInv
  <2>3. /\ Kept(Advanced(file), fileLog, backs, torn) /\ Advanced(file) \in S!Entry /\ Advanced(file) # None
        /\ ~torn => \E t : Fades(Advanced(file).min, fileLog, backs, t) /\ t <= MinuteLen - 1 + backs * BackBy
    BY <2>2, StatsTypes, AdvancedYoung
  <2>4. ~torn => \E t : Fades(entry'.min, log', backs', t) /\ t <= Youth'
    <3> SUFFICES ASSUME ~torn PROVE \E t : Fades(entry'.min, log', backs', t) /\ t <= Youth'
      OBVIOUS
    <3>1. PICK t : Fades(Advanced(file).min, fileLog, backs, t) /\ t <= MinuteLen - 1 + backs * BackBy
      BY <2>3
    <3>2. t <= Youth'
      <4>1. t \in Nat
        BY <3>1 DEF Fades
      <4> QED BY <1>2, <3>1, <4>1, StatsTypes, StatsConstants
    <3> QED BY <1>1, <2>1, <3>1, <3>2
  <2>5. EntryInv'
    BY <1>1, <2>1, <2>3, <2>4 DEF EntryInv
  <2>6. S!TypeOK'
    BY <1>1, <2>1, <2>3 DEF StatsInv, S!TypeOK
  <2> QED BY <1>3, <2>5, <2>6 DEF StatsInv
<1> QED BY <1>4, <1>5

\* A unit of time passes.
LEMMA StatsTick ==
    ASSUME StatsInv, S!Tick
    PROVE  StatsInv'
<1>1. /\ up => purgeAge < 1 + Late
      /\ entry' = S!Older(entry, 1) /\ file' = S!Older(file, 1)
      /\ IF up THEN purgeAge' = purgeAge + 1 /\ saveAge' = saveAge + 1 ELSE UNCHANGED <<purgeAge, saveAge>>
      /\ sent' = FALSE /\ log' = S!Shift(log) /\ fileLog' = S!Shift(fileLog)
      /\ UNCHANGED <<up, backs, torn>>
  BY DEF S!Tick
<1>2. log' \in Logs /\ fileLog' \in Logs
  <2>1. 0 \in Int
    OBVIOUS
  <2> QED BY <1>1, <2>1, StatsTypes, LogShift
<1>3. TimerInv'
  BY <1>1, StatsTypes, StatsConstants DEF StatsInv, TimerInv
<1>4. /\ file = None => file' = None
      /\ entry = None => entry' = None
  BY <1>1 DEF S!Older
<1>5. ASSUME file # None
      PROVE  Kept(file', fileLog', backs, torn) /\ (~torn => \E t : Fades(file'.min, fileLog', backs, t))
  <2>1. Kept(file, fileLog, backs, torn) /\ (~torn => \E t : Fades(file.min, fileLog, backs, t))
    BY <1>5 DEF StatsInv, FileInv
  <2>2. /\ Kept(file', S!Shift(fileLog), backs, torn)
        /\ \A t : Fades(file.min, fileLog, backs, t) => Fades(file'.min, S!Shift(fileLog), backs, t + 1)
    BY <1>1, <2>1, StatsTypes, OlderKept
  <2> QED BY <1>1, <2>1, <2>2
<1>6. ASSUME up, entry # None
      PROVE  /\ Kept(entry', log', backs, torn)
             /\ ~torn => \E t : Fades(entry'.min, log', backs, t) /\ t <= Youth'
  <2>1. Kept(entry, log, backs, torn) /\ (~torn => \E t : Fades(entry.min, log, backs, t) /\ t <= Youth)
    BY <1>6 DEF StatsInv, EntryInv
  <2>2. /\ Kept(entry', S!Shift(log), backs, torn)
        /\ \A t : Fades(entry.min, log, backs, t) => Fades(entry'.min, S!Shift(log), backs, t + 1)
    BY <1>1, <2>1, StatsTypes, OlderKept
  <2>3. Youth' = Youth + 1
    BY <1>1, <1>6, StatsTypes, StatsConstants DEF Youth
  <2>4. \A t : Fades(entry.min, log, backs, t) => t \in Nat
    BY DEF Fades
  <2> QED BY <1>1, <2>1, <2>2, <2>3, <2>4, StatsTypes
<1>7. ASSUME up, entry = None PROVE Quiet((Days - 1) * DayLen, log')
  <2>1. Quiet((Days - 1) * DayLen, log)
    BY <1>7 DEF StatsInv, EntryInv
  <2> DEFINE s == (Days - 1) * DayLen
  <2>2. s \in Int /\ s <= s + 1 /\ s + 1 \in Int
    BY Spans
  <2> HIDE DEF s
  <2>3. Quiet(s + 1, S!Shift(log))
    BY <2>1, <2>2, StatsTypes, LogShift DEF s
  <2>4. Quiet(s, S!Shift(log))
    BY <1>1, <1>2, <2>2, <2>3, QuietLess
  <2> QED BY <1>1, <2>4 DEF s
<1>8. EntryInv'
  <2>1. CASE up /\ entry # None
    <3>1. entry' # None
      BY <1>6, <2>1, EntryFields DEF Kept
    <3> QED BY <1>1, <1>6, <2>1, <3>1 DEF EntryInv
  <2>2. CASE up /\ entry = None
    BY <1>1, <1>4, <1>7, <2>2 DEF EntryInv
  <2>3. CASE ~up
    <3>1. entry = None
      BY <2>3 DEF StatsInv, EntryInv
    <3> QED BY <1>1, <1>4, <2>3, <3>1 DEF EntryInv
  <2> QED BY <2>1, <2>2, <2>3
<1>9. FileInv'
  BY <1>1, <1>4, <1>5 DEF FileInv
<1>10. entry' \in S!Entry \cup {None}
  <2>1. CASE up
    BY <1>4, <1>6, <2>1 DEF Kept
  <2>2. CASE ~up
    <3> USE DEF StatsInv
    <3>1. entry = None
      BY <2>2 DEF EntryInv
    <3> QED BY <1>4, <3>1
  <2> QED BY <2>1, <2>2
<1>11. file' \in S!Entry \cup {None}
  BY <1>4, <1>5 DEF Kept
<1>12. S!TypeOK'
  <2>1. S!TypeOK /\ up' \in BOOLEAN /\ sent' \in BOOLEAN /\ torn' \in BOOLEAN
    BY <1>1, StatsTypes DEF StatsInv
  <2>2. purgeAge' \in Int /\ saveAge' \in Int /\ backs' \in 0 .. BackSteps
    BY <1>1, <2>1 DEF S!TypeOK
  <2>3. log' \in [0 .. Horizon -> Nat] /\ fileLog' \in [0 .. Horizon -> Nat]
    BY <1>2 DEF Logs
  <2> QED BY <1>10, <1>11, <2>1, <2>2, <2>3 DEF S!TypeOK
<1> QED BY <1>3, <1>8, <1>9, <1>12 DEF StatsInv

\* The wall clock is set back.
LEMMA StatsBack ==
    ASSUME StatsInv, S!ClockBack
    PROVE  StatsInv'
<1>1. /\ backs < BackSteps /\ backs' = backs + 1
      /\ entry' = S!Older(entry, -BackBy) /\ file' = S!Older(file, -BackBy)
      /\ IF up THEN purgeAge' = purgeAge - BackBy /\ saveAge' = saveAge - BackBy
               ELSE UNCHANGED <<purgeAge, saveAge>>
      /\ UNCHANGED <<up, sent, torn, log, fileLog>>
  BY DEF S!ClockBack
<1>2. backs' * BackBy = backs * BackBy + BackBy /\ backs' \in 0 .. BackSteps
  BY <1>1, StatsTypes, StatsConstants
<1>3. TimerInv'
  <2>1. CASE up
    <3> DEFINE h == backs * BackBy
    <3>1. h \in Nat /\ backs' * BackBy = h + BackBy /\ purgeAge \in Int
      BY <1>2, StatsTypes
    <3>2. purgeAge + h >= 0 /\ purgeAge <= 1 + Late
      BY <2>1 DEF StatsInv, TimerInv
    <3>3. up' /\ purgeAge' = purgeAge - BackBy
      BY <1>1, <2>1
    <3> HIDE DEF h
    <3>4. purgeAge' + (h + BackBy) >= 0 /\ purgeAge' <= 1 + Late
      BY <3>1, <3>2, <3>3, StatsConstants
    <3>5. purgeAge' + backs' * BackBy >= 0
      BY <3>1, <3>4
    <3> QED BY <3>3, <3>4, <3>5 DEF TimerInv
  <2>2. CASE ~up
    <3>1. purgeAge = 1 /\ purgeAge' = 1 /\ ~up'
      BY <1>1, <2>2 DEF StatsInv, TimerInv
    <3> DEFINE h == backs * BackBy
    <3>2. h \in Nat /\ backs' * BackBy = h + BackBy /\ BackBy \in Nat
      BY <1>2, StatsTypes, StatsConstants
    <3> HIDE DEF h
    <3>3. purgeAge' + backs' * BackBy >= 0
      BY <3>1, <3>2
    <3> QED BY <3>1, <3>3 DEF TimerInv
  <2> QED BY <2>1, <2>2
<1>4. /\ file = None => file' = None
      /\ entry = None => entry' = None
  BY <1>1 DEF S!Older
<1>5. ASSUME file # None
      PROVE  Kept(file', fileLog', backs', torn) /\ (~torn => \E t : Fades(file'.min, fileLog', backs', t))
  <2>1. Kept(file, fileLog, backs, torn) /\ (~torn => \E t : Fades(file.min, fileLog, backs, t))
    BY <1>5 DEF StatsInv, FileInv
  <2>2. /\ Kept(file', fileLog, backs + 1, torn)
        /\ \A t : Fades(file.min, fileLog, backs, t) => Fades(file'.min, fileLog, backs + 1, t)
    BY <1>1, <2>1, StatsTypes, BackKept
  <2> QED BY <1>1, <2>1, <2>2
<1>6. ASSUME up, entry # None
      PROVE  /\ Kept(entry', log', backs', torn)
             /\ ~torn => \E t : Fades(entry'.min, log', backs', t) /\ t <= Youth'
  <2>1. Kept(entry, log, backs, torn) /\ (~torn => \E t : Fades(entry.min, log, backs, t) /\ t <= Youth)
    BY <1>6 DEF StatsInv, EntryInv
  <2>2. /\ Kept(entry', log, backs + 1, torn)
        /\ \A t : Fades(entry.min, log, backs, t) => Fades(entry'.min, log, backs + 1, t)
    BY <1>1, <2>1, StatsTypes, BackKept
  <2>3. Youth' = Youth
    BY <1>1, <1>2, <1>6, StatsTypes, StatsConstants DEF Youth
  <2> QED BY <1>1, <2>1, <2>2, <2>3
<1>7. EntryInv'
  <2>1. CASE up /\ entry # None
    <3>1. entry' # None
      BY <1>6, <2>1, EntryFields DEF Kept
    <3> QED BY <1>1, <1>6, <2>1, <3>1 DEF EntryInv
  <2>2. CASE up /\ entry = None
    BY <1>1, <1>4, <2>2 DEF StatsInv, EntryInv
  <2>3. CASE ~up
    <3>1. entry = None
      BY <2>3 DEF StatsInv, EntryInv
    <3> QED BY <1>1, <1>4, <2>3, <3>1 DEF EntryInv
  <2> QED BY <2>1, <2>2, <2>3
<1>8. FileInv'
  BY <1>1, <1>4, <1>5 DEF FileInv
<1>9. entry' \in S!Entry \cup {None}
  <2>1. CASE up
    BY <1>4, <1>6, <2>1 DEF Kept
  <2>2. CASE ~up
    <3>1. entry = None
      BY <2>2 DEF StatsInv, EntryInv
    <3> QED BY <1>4, <3>1
  <2> QED BY <2>1, <2>2
<1>10. file' \in S!Entry \cup {None}
  BY <1>4, <1>5 DEF Kept
<1>11. S!TypeOK'
  <2>1. S!TypeOK /\ up' \in BOOLEAN /\ sent' \in BOOLEAN /\ torn' \in BOOLEAN
    BY <1>1, StatsTypes DEF StatsInv, S!TypeOK
  <2>2. purgeAge' \in Int /\ saveAge' \in Int
    BY <1>1, <2>1, StatsConstants DEF S!TypeOK
  <2>3. log' \in [0 .. Horizon -> Nat] /\ fileLog' \in [0 .. Horizon -> Nat]
    BY <1>1, <2>1 DEF S!TypeOK
  <2> QED BY <1>2, <1>9, <1>10, <2>1, <2>2, <2>3 DEF S!TypeOK
<1> QED BY <1>3, <1>7, <1>8, <1>11 DEF StatsInv

\* The accounting's invariant is inductive.
LEMMA StatsStep == StatsInv /\ [PartNext]_all => StatsInv'
<1> SUFFICES ASSUME StatsInv, [PartNext]_all PROVE StatsInv'
  OBVIOUS
<1>1. ASSUME UNCHANGED statVars PROVE StatsInv'
  BY <1>1 DEF statVars, StatsInv, S!TypeOK, TimerInv, EntryInv, FileInv, Youth
<1>2. ASSUME S!Next PROVE StatsInv'
  BY <1>2, StatsTraffic, StatsTail, StatsDie, StatsRestart, StatsTick, StatsBack DEF S!Next
<1> QED BY <1>1, <1>2 DEF PartNext, all, Draining

\* What the properties call the traffic of late, in the terms of the lemmas above.
LEMMA RecentIs ==
    ASSUME NEW span \in Int
    PROVE  S!Recent(span) = S!SumOver(log, Before(span + 1))
<1>1. 0 .. S!SmallerOf(span, Horizon) = Before(span + 1)
  BY StatsConstants DEF S!SmallerOf, Before
<1> QED BY <1>1 DEF S!Recent

\* The totals of the windows are the sums of their buckets.
LEMMA SumHolds == StatsInv => S!WindowSum
<1> SUFFICES ASSUME StatsInv, up, entry # None, ~torn
             PROVE  /\ entry.min.total = S!SumOver(entry.min.b, DOMAIN entry.min.b)
                    /\ entry.day.total = S!SumOver(entry.day.b, DOMAIN entry.day.b)
  BY DEF S!WindowSum
<1>1. Kept(entry, log, backs, torn)
  BY DEF StatsInv, EntryInv
<1>2. Exact(entry.min, Minutes) /\ Exact(entry.day, Days)
  BY <1>1 DEF Kept
<1>3. DOMAIN entry.min.b = 0 .. Minutes - 1 /\ DOMAIN entry.day.b = 0 .. Days - 1
  BY <1>1, EntryFields DEF Kept, S!Window
<1> QED BY <1>2, <1>3 DEF Exact

\* The traffic of all but one of the minutes counts towards the cap.
LEMMA CoverHolds == StatsInv => S!WindowCovers
<1> DEFINE s == (Minutes - 1) * MinuteLen
<1> SUFFICES ASSUME StatsInv, up, torn => backs = 0
             PROVE  (IF entry = None THEN 0 ELSE entry.min.total) >= S!Recent(s - 1)
  BY DEF S!WindowCovers
<1>1. s \in Nat /\ s <= Horizon /\ s <= (Days - 1) * DayLen /\ (Days - 1) * DayLen \in Int
  <2>1. s + MinuteLen = Minutes * MinuteLen
    BY StatsConstants
  <2>2. s <= Minutes * S!BucketLife
    <3>1. MinuteLen <= S!BucketLife /\ S!BucketLife \in Int
      BY StatsConstants DEF S!BucketLife, S!BiggerOf
    <3>2. MinuteLen * Minutes <= S!BucketLife * Minutes
      BY <3>1, StatsConstants, TimesMono
    <3>3. MinuteLen * Minutes = Minutes * MinuteLen /\ S!BucketLife * Minutes = Minutes * S!BucketLife
      BY <3>1, StatsConstants
    <3> QED BY <2>1, <3>2, <3>3, Spans, StatsConstants
  <2>3. BackSteps * BackBy \in Nat
    BY StatsConstants
  <2> QED BY <2>2, <2>3, Spans, StatsConstants
<1> HIDE DEF s
<1>2. S!Recent(s - 1) = S!SumOver(log, Before(s))
  BY <1>1, RecentIs, StatsConstants
<1>3. CASE entry = None
  <2>1. Quiet((Days - 1) * DayLen, log)
    BY <1>3 DEF StatsInv, EntryInv
  <2>2. S!SumOver(log, Before(s)) = 0
    BY <1>1, <2>1, StatsTypes, LogQuiet
  <2> QED BY <1>2, <1>3, <2>2
<1>4. CASE entry # None
  <2> DEFINE w == entry.min
             t == s + Positive(w.age)
  <2>1. Kept(entry, log, backs, torn) /\ w \in S!Window(Minutes)
    BY <1>4, EntryFields DEF StatsInv, EntryInv, Kept
  <2>2. /\ w.idx \in 0 .. Minutes - 1 /\ w.b \in [0 .. Minutes - 1 -> Nat] /\ w.age \in Int
        /\ w.total \in Nat /\ Positive(w.age) \in Nat
    BY <2>1 DEF S!Window, Positive, S!BiggerOf
  <2>3. Covers(w, Minutes, MinuteLen, log)
    BY <2>1 DEF Kept, Sound
  <2>4. Minutes - 1 \in 0 .. Minutes - 1 /\ Minutes - 1 \in Int
    BY StatsConstants
  <2>5. w.total - S!SumOver(w.b, Far(w.idx, Minutes, Minutes - 1)) >= S!SumOver(log, Before(t))
    BY <2>3, <2>4 DEF Covers, s
  <2>6. S!SumOver(w.b, Far(w.idx, Minutes, Minutes - 1)) \in Nat
    <3>1. S!SumOver(w.b, Far(w.idx, Minutes, Minutes - 1)) \in 0 .. S!SumOver(w.b, 0 .. Minutes - 1)
      BY <2>2, <2>4, StatsConstants, BucketSums
    <3> QED BY <3>1
  <2>7. t \in Int /\ s <= t /\ s \in Int
    BY <1>1, <2>2
  <2> HIDE DEF t
  <2>8. /\ S!SumOver(log, Before(s)) <= S!SumOver(log, Before(t))
        /\ S!SumOver(log, Before(s)) \in Nat /\ S!SumOver(log, Before(t)) \in Nat
    BY <2>7, StatsTypes, LogMono, LogsCount
  <2> HIDE DEF w
  <2>9. w.total >= S!SumOver(log, Before(s))
    BY <2>2, <2>5, <2>6, <2>8
  <2> QED BY <1>2, <1>4, <2>9 DEF w
<1> QED BY <1>3, <1>4

\* An entry counts no more than was counted since its oldest bucket can have begun.
LEMMA CountsNoMore ==
    ASSUME StatsInv, up, entry # None, ~torn
    PROVE  /\ entry.min.total \in Nat
           /\ entry.min.total <= S!Recent(Minutes * S!BucketLife + backs * BackBy)
           /\ entry.min.total <= S!SumOver(log, Before(S!Longest + 1))
<1> DEFINE w == entry.min
           r == (Minutes - 1) * Life
           u == Minutes * S!BucketLife + backs * BackBy
<1>1. Kept(entry, log, backs, torn) /\ \E t : Fades(w, log, backs, t) /\ t <= Youth
  BY DEF StatsInv, EntryInv
<1>2. PICK t : Fades(w, log, backs, t) /\ t <= Youth
  BY <1>1
<1>3. w \in S!Window(Minutes) /\ Exact(w, Minutes)
  BY <1>1, EntryFields DEF Kept
<1>4. w.idx \in 0 .. Minutes - 1 /\ w.b \in [0 .. Minutes - 1 -> Nat] /\ w.total \in Nat
  BY <1>3 DEF S!Window
<1>5. r \in Nat /\ t \in Nat /\ Minutes - 1 \in Nat /\ Minutes - 1 \in 0 .. Minutes - 1
  <2>1. Minutes - 1 \in Nat /\ Life \in Nat
    BY StatsConstants
  <2> QED BY <1>2, <2>1, TimesNat DEF Fades
<1>6. /\ backs * BackBy \in Nat /\ backs * BackBy <= BackSteps * BackBy /\ BackSteps * BackBy \in Nat
      /\ purgeAge \in Int /\ purgeAge <= 1 + Late
  <2>1. BackBy * backs <= BackBy * BackSteps
    BY StatsTypes, StatsConstants, TimesMono
  <2> QED BY <2>1, StatsTypes, StatsConstants DEF StatsInv, TimerInv
<1>7. u \in Nat /\ r + t <= u /\ u <= S!Longest /\ u <= Horizon
  <2> DEFINE x == Minutes * S!BucketLife
             y == backs * BackBy
             z == BackSteps * BackBy
  <2>1. x \in Nat /\ S!Longest = x + z /\ r + MinuteLen + Late + z <= S!Longest /\ S!Longest <= Horizon
    BY Spans
  <2>2. y \in Nat /\ z \in Nat /\ y <= z
    BY <1>6
  <2>3. t <= 1 + Late + MinuteLen - 1 + y
    <3>1. Youth = purgeAge + MinuteLen - 1 + y
      BY DEF Youth
    <3> HIDE DEF y
    <3> QED BY <1>2, <1>5, <1>6, <2>2, <3>1, StatsConstants
  <2> HIDE DEF x, y, z, r
  <2> QED BY <1>5, <2>1, <2>2, <2>3, StatsConstants, Spans DEF x, y
<1> HIDE DEF r, u
<1>8. w.total <= S!SumOver(log, Before(r + t + 1))
  <2>1. S!SumOver(w.b, Near(w.idx, Minutes, Minutes - 1)) <= S!SumOver(log, Before(r + t + 1))
    <3>1. r + t <= Horizon
      BY <1>5, <1>7, StatsConstants
    <3> QED BY <1>2, <1>5, <3>1 DEF Fades, r
  <2>2. Near(w.idx, Minutes, Minutes - 1) = 0 .. Minutes - 1
    BY <1>4, StatsConstants, NearOrFar DEF Near
  <2> QED BY <1>3, <2>1, <2>2 DEF Exact
<1>9. /\ S!SumOver(log, Before(r + t + 1)) <= S!SumOver(log, Before(u + 1))
      /\ S!SumOver(log, Before(u + 1)) <= S!SumOver(log, Before(S!Longest + 1))
      /\ S!SumOver(log, Before(r + t + 1)) \in Nat /\ S!SumOver(log, Before(u + 1)) \in Nat
      /\ S!SumOver(log, Before(S!Longest + 1)) \in Nat
  <2>1. r + t + 1 \in Int /\ u + 1 \in Int /\ S!Longest + 1 \in Int
        /\ r + t + 1 <= u + 1 /\ u + 1 <= S!Longest + 1
    BY <1>5, <1>7, Spans
  <2> QED BY <2>1, StatsTypes, LogMono, LogsCount
<1>10. S!Recent(u) = S!SumOver(log, Before(u + 1))
  BY <1>7, RecentIs
<1>11. w.total \in Nat /\ w.total <= S!Recent(u) /\ w.total <= S!SumOver(log, Before(S!Longest + 1))
  <2> HIDE DEF w
  <2> QED BY <1>4, <1>8, <1>9, <1>10
<1> QED BY <1>11 DEF u

\* The sliding windows hold: their totals are the sums of their buckets, they forget
\* nothing early and remember nothing for ever.
LEMMA StatsHolds == StatsInv => WindowHolds
<1> SUFFICES ASSUME StatsInv PROVE WindowHolds
  OBVIOUS
<1>1. S!WindowDecays
  BY CountsNoMore DEF S!WindowDecays
<1> QED BY <1>1, SumHolds, CoverHolds DEF StatsInv, WindowHolds

\* The windows behind the 24-hour cap (get_community_stats, advance_24h_buckets,
\* advance_30d_buckets, load_community_stats), for any number of buckets, lengths and
\* clock: their totals are the sums of their buckets, what was forwarded in the last
\* Minutes - 1 minutes counts, and what is older than the buckets and the clock can
\* explain does not, across restarts, saves cut short and clocks set back.
THEOREM WindowsCorrect == PartSpec => []WindowHolds
<1>1. PartInit => StatsInv
  BY StatsStart DEF PartInit
<1>2. StatsInv /\ [PartNext]_all => StatsInv'
  BY StatsStep
<1>3. StatsInv => WindowHolds
  BY StatsHolds
<1> QED BY <1>1, <1>2, <1>3, PTL DEF PartSpec, PartSafe

\* A purge that drops an entry drops one that counts nothing towards the cap.
LEMMA QuotaStep ==
    ASSUME StatsInv, [PartNext]_all, up, up', ~torn, entry # None, entry' = None
    PROVE  entry.min.total = 0
<1>1. S!LoopTail
  <2>1. CASE UNCHANGED statVars
    BY <2>1 DEF statVars
  <2>2. CASE S!Next
    <3>1. ASSUME NEW bytes \in Bytes, S!Traffic(bytes) PROVE FALSE
      <4>1. entry' = S!update_community_traffic(entry, bytes)
        BY <3>1 DEF S!Traffic
      <4>2. bytes \in Nat /\ log \in Logs /\ Kept(entry, log, backs, torn)
        BY StatsTypes, StatsConstants DEF StatsInv, EntryInv
      <4>3. entry' # None
        BY <4>1, <4>2, StatsTypes, CountedKept, EntryFields DEF Kept
      <4> QED BY <4>3
    <3>2. ~S!DieSaving /\ ~S!Crash /\ ~S!Restart
      BY DEF S!DieSaving, S!Crash, S!Die, S!Restart
    <3>3. Kept(entry, log, backs, torn)
      BY DEF StatsInv, EntryInv
    <3>4. ~S!Tick
      <4>1. Kept(S!Older(entry, 1), S!Shift(log), backs, torn)
        BY <3>3, StatsTypes, OlderKept
      <4>2. S!Older(entry, 1) # None
        BY <4>1, EntryFields DEF Kept
      <4> QED BY <4>2 DEF S!Tick
    <3>5. ~S!ClockBack
      <4> SUFFICES ASSUME S!ClockBack PROVE FALSE
        OBVIOUS
      <4>1. backs < BackSteps /\ entry' = S!Older(entry, -BackBy)
        BY DEF S!ClockBack
      <4>2. Kept(entry', log, backs + 1, torn)
        BY <3>3, <4>1, StatsTypes, BackKept
      <4> QED BY <4>2, EntryFields DEF Kept
    <3> QED BY <2>2, <3>1, <3>2, <3>4, <3>5 DEF S!Next
  <2> QED BY <2>1, <2>2 DEF PartNext, all, Draining
<1>2. S!Purged(entry) = None
  BY <1>1 DEF S!LoopTail
<1>3. Kept(entry, log, backs, torn)
  BY DEF StatsInv, EntryInv
<1>4. Quiet((Days - 1) * DayLen, log)
  <2>1. Advanced(entry) # None
    BY <1>3, StatsTypes, AdvancedKept, EntryFields DEF Kept
  <2> QED BY <1>2, <1>3, <2>1, StatsTypes, PurgedKept
<1>5. S!SumOver(log, Before(S!Longest + 1)) = 0
  <2>1. S!Longest + 1 \in Int /\ (Days - 1) * DayLen \in Int /\ S!Longest + 1 <= (Days - 1) * DayLen
    BY Spans
  <2> QED BY <1>4, <2>1, StatsTypes, LogQuiet
<1> QED BY <1>5, CountsNoMore

\* purge_expired_community_stats never gives a community its quota back by dropping
\* an entry that still counts something, for any number and length of buckets, unless
\* a save was ever cut short.
THEOREM QuotaKept == PartSpec => PurgeKeepsQuota
<1>1. PartInit => StatsInv
  BY StatsStart DEF PartInit
<1>2. StatsInv /\ [PartNext]_all => StatsInv'
  BY StatsStep
<1>3. StatsInv /\ [PartNext]_all =>
         [up /\ up' /\ ~torn /\ entry # None /\ entry' = None => entry.min.total = 0]_(S!vars)
  BY QuotaStep
<1> QED BY <1>1, <1>2, <1>3, PTL DEF PartSpec, PartSafe, PurgeKeepsQuota, S!PurgeKeepsQuota
=============================================================================
