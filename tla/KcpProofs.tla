----------------------------- MODULE KcpProofs -----------------------------
(***************************************************************************)
(* Proofs about Kcp, for every window, every sequence of messages and every  *)
(* datagram lost, repeated or held up: the windows are kept and no segment   *)
(* is forgotten (WindowsSound), and what is handed over is a prefix of what  *)
(* was sent (the safety of Fifo).  The inductive invariant gives every       *)
(* segment its position in the stream, and says what each buffer, queue and  *)
(* datagram holds in terms of it.                                           *)
(***************************************************************************)
EXTENDS Kcp, SequenceTheorems, FiniteSetTheorems, TLAPS

-----------------------------------------------------------------------------
(* Numbers: positions in the stream, modulo W                                *)
\* The number of the a-th segment of an end, and the first a with a number.
Sn(a) == (Start + a - 1) % W
Pos(sn) == ((sn - Start) % W) + 1

\* A multiple of m by a number that is not 0 is at least m away from 0.
LEMMA TimesPos ==
    ASSUME NEW k \in Int, NEW m \in Nat \ {0}
    PROVE  /\ k >= 1 => k * m >= m
           /\ k <= -1 => k * m <= -m
<1>1. ASSUME k >= 1 PROVE k * m >= m
  <2>1. (k - 1) * m >= 0
    BY <1>1
  <2>2. (k - 1) * m = k * m - m
    OBVIOUS
  <2> QED BY <2>1, <2>2
<1>2. ASSUME k <= -1 PROVE k * m <= -m
  <2>1. (-1 - k) * m >= 0
    BY <1>2
  <2>2. (-1 - k) * m = -m - k * m
    OBVIOUS
  <2> QED BY <2>1, <2>2
<1> QED BY <1>1, <1>2

\* What % leaves: the rest of a division.
LEMMA ModDef ==
    ASSUME NEW x \in Int, NEW m \in Nat \ {0}
    PROVE  x % m \in 0 .. m - 1 /\ \E k \in Int : x = k * m + (x % m)
<1>1. x = m * (x \div m) + (x % m) /\ x \div m \in Int /\ x % m \in 0 .. m - 1
  OBVIOUS
<1>2. m * (x \div m) = (x \div m) * m
  OBVIOUS
<1> QED BY <1>1, <1>2

\* Only one rest fits.
LEMMA ModIs ==
    ASSUME NEW x \in Int, NEW m \in Nat \ {0}, NEW r \in 0 .. m - 1, NEW k \in Int, x = k * m + r
    PROVE  x % m = r
<1>1. PICK j \in Int : x = j * m + (x % m)
  BY ModDef
<1>2. x % m \in 0 .. m - 1
  BY ModDef
<1>3. (k - j) * m = k * m - j * m
  OBVIOUS
<1>4. (k - j) * m < m /\ (k - j) * m > -m
  <2> DEFINE a == k * m
             b == j * m
             c == (k - j) * m
             s == x % m
  <2>1. a \in Int /\ b \in Int /\ c \in Int /\ s \in 0 .. m - 1
    BY <1>2
  <2>2. x = a + r /\ x = b + s /\ c = a - b
    BY <1>1, <1>3
  <2> HIDE DEF a, b, c, s
  <2>3. c < m /\ c > -m
    BY <2>1, <2>2
  <2> QED BY <2>3 DEF c
<1>5. k - j = 0
  <2>1. ~(k - j >= 1) /\ ~(k - j <= -1)
    BY <1>4, TimesPos
  <2> QED BY <2>1
<1>6. k * m = j * m
  BY <1>5
<1> QED BY <1>1, <1>2, <1>6

\* Facts about the constants.
LEMMA Constants ==
    /\ W \in Nat \ {0} /\ W \div 2 \in Nat /\ W = 2 * (W \div 2)
    /\ Start \in 0 .. W - 1 /\ RcvWnd \in Nat \ {0} /\ SndWnd \in Nat \ {0}
    /\ RcvWnd < W \div 2 /\ SndWnd < W \div 2
BY KcpAssumption

\* Numbers are within their width.
LEMMA SnRange == ASSUME NEW a \in Nat PROVE Sn(a) \in 0 .. W - 1
BY Constants DEF Sn

\* A number is a position without the times it went around.
LEMMA SnDef ==
    ASSUME NEW a \in Nat
    PROVE  \E k \in Int : Start + a - 1 = k * W + Sn(a)
<1>1. Start + a - 1 \in Int /\ W \in Nat \ {0}
  BY Constants
<1> QED BY <1>1, ModDef, Zenon DEF Sn

\* Among the first W positions the number says which one it is.
LEMMA PosSn ==
    ASSUME NEW a \in 1 .. W
    PROVE  Pos(Sn(a)) = a
<1>1. PICK k \in Int : Start + a - 1 = k * W + Sn(a)
  BY SnDef
<1>2. Sn(a) - Start = (-k) * W + (a - 1)
  <2> DEFINE b == k * W
             c == (-k) * W
  <2>1. b \in Int /\ c = -b /\ Sn(a) \in Int /\ Start \in Int
    BY SnRange, Constants
  <2> HIDE DEF b, c
  <2>2. Start + a - 1 = b + Sn(a)
    BY <1>1 DEF b
  <2>3. Sn(a) - Start = c + (a - 1)
    BY <2>1, <2>2
  <2> QED BY <2>3 DEF c
<1>3. a - 1 \in 0 .. W - 1 /\ Sn(a) - Start \in Int /\ -k \in Int
  BY Constants, SnRange
<1> DEFINE x == Sn(a) - Start
           r == a - 1
           m == -k
<1>4. x % W = r
  <2>1. x \in Int /\ m \in Int /\ r \in 0 .. W - 1 /\ x = m * W + r /\ W \in Nat \ {0}
    BY <1>2, <1>3, Constants
  <2> HIDE DEF x, r, m
  <2> QED BY <2>1, ModIs
<1> QED BY <1>4 DEF Pos

\* Counting on from a number.
LEMMA SnPlus ==
    ASSUME NEW a \in Nat, NEW n \in Nat
    PROVE  (Sn(a) + n) % W = Sn(a + n)
<1>1. PICK k \in Int : Start + a - 1 = k * W + Sn(a)
  BY SnDef
<1>2. PICK j \in Int : Sn(a) + n = j * W + ((Sn(a) + n) % W)
  <2>1. Sn(a) + n \in Int /\ W \in Nat \ {0}
    BY Constants, SnRange
  <2> QED BY <2>1, ModDef, Zenon
<1>3. Start + (a + n) - 1 = (k + j) * W + ((Sn(a) + n) % W)
  <2> DEFINE b == k * W
             c == j * W
             d == (k + j) * W
             r == (Sn(a) + n) % W
  <2>1. b \in Int /\ c \in Int /\ d = b + c /\ Sn(a) \in Int /\ Start \in Int
    BY SnRange, Constants
  <2>4. r \in Int
    BY SnRange, Constants
  <2>2. Start + a - 1 = b + Sn(a) /\ Sn(a) + n = c + r
    BY <1>1, <1>2
  <2> HIDE DEF b, c, d, r
  <2>3. Start + (a + n) - 1 = d + r
    BY <2>1, <2>2, <2>4
  <2> QED BY <2>3 DEF d, r
<1>4. (Sn(a) + n) % W \in 0 .. W - 1 /\ Start + (a + n) - 1 \in Int /\ k + j \in Int
  BY Constants, SnRange
<1> DEFINE x == Start + (a + n) - 1
           r == (Sn(a) + n) % W
           m == k + j
<1>5. x % W = r
  <2>1. x \in Int /\ m \in Int /\ r \in 0 .. W - 1 /\ x = m * W + r /\ W \in Nat \ {0}
    BY <1>3, <1>4, Constants
  <2> HIDE DEF x, r, m
  <2> QED BY <2>1, ModIs
<1> QED BY <1>5 DEF Sn

\* itimediff tells positions less than half the numbers apart.
LEMMA Diff ==
    ASSUME NEW a \in Nat, NEW b \in Nat, a - b >= -(W \div 2), a - b < W \div 2
    PROVE  itimediff(Sn(a), Sn(b)) = a - b
<1> DEFINE H == W \div 2
<1>1. PICK k \in Int : Start + a - 1 = k * W + Sn(a)
  BY SnDef
<1>2. PICK j \in Int : Start + b - 1 = j * W + Sn(b)
  BY SnDef
<1>3. Sn(a) - Sn(b) + W + H = (j - k + 1) * W + (a - b + H)
  <2> DEFINE c == k * W
             d == j * W
             e == (j - k + 1) * W
  <2>1. c \in Int /\ d \in Int /\ e = d - c + W /\ Sn(a) \in Int /\ Sn(b) \in Int /\ H \in Int
           /\ W \in Int /\ Start \in Int
    BY SnRange, Constants
  <2>2. Start + a - 1 = c + Sn(a) /\ Start + b - 1 = d + Sn(b)
    BY <1>1, <1>2
  <2> HIDE DEF c, d, e, H
  <2>3. Sn(a) - Sn(b) + W + H = e + (a - b + H)
    BY <2>1, <2>2
  <2> QED BY <2>3 DEF e
<1>4. a - b + H \in 0 .. W - 1 /\ Sn(a) - Sn(b) + W + H \in Int /\ j - k + 1 \in Int
  BY Constants, SnRange
<1> DEFINE x == Sn(a) - Sn(b) + W + H
           r == a - b + H
           m == j - k + 1
<1>5. x % W = r
  <2>1. x \in Int /\ m \in Int /\ r \in 0 .. W - 1 /\ x = m * W + r /\ W \in Nat \ {0}
    BY <1>3, <1>4, Constants
  <2> HIDE DEF x, r, m
  <2> QED BY <2>1, ModIs
<1>6. itimediff(Sn(a), Sn(b)) = ((Sn(a) - Sn(b) + W + H) % W) - H
  BY DEF itimediff
<1>7. H \in Nat
  BY Constants
<1> HIDE DEF H
<1> QED BY <1>5, <1>6, <1>7

-----------------------------------------------------------------------------
(* Tables over numbers                                                       *)
\* A set of naturals has a least element: its members' intervals from 0 are finite
\* sets, and those are well-founded under inclusion.
LEMMA LeastOf ==
    ASSUME NEW T, T \subseteq Nat, T # {}
    PROVE  \E x \in T : \A y \in T : x <= y
<1> DEFINE F == {0 .. t : t \in T}
           Under == StrictSubsetOrdering(Nat)
<1>1. IsWellFoundedOn(Under, FiniteSubsetsOf(Nat))
  BY FS_StrictSubsetOrderingWellFounded
<1>2. \A t \in T : 0 .. t \in FiniteSubsetsOf(Nat)
  BY FS_Interval DEF FiniteSubsetsOf
<1>3. F \subseteq FiniteSubsetsOf(Nat) /\ F # {}
  BY <1>2
<1> HIDE DEF Under
<1>4. PICK z \in F : \A w \in F : ~(<<w, z>> \in Under)
  <2> HIDE DEF F
  <2> QED BY <1>1, <1>3, WFMin
<1>5. PICK x \in T : z = 0 .. x
  OBVIOUS
<1>6. \A y \in T : x <= y
  <2> SUFFICES ASSUME NEW y \in T, ~(x <= y) PROVE FALSE
    OBVIOUS
  <2>1. 0 .. y \subseteq 0 .. x /\ x \in 0 .. x /\ x \notin 0 .. y
    OBVIOUS
  <2>2. 0 .. y # 0 .. x
    BY <2>1
  <2>3. 0 .. y \in SUBSET Nat /\ 0 .. x \in SUBSET Nat
    OBVIOUS
  <2>4. <<0 .. y, 0 .. x>> \in Under
    BY <2>1, <2>2, <2>3 DEF Under, StrictSubsetOrdering
  <2> QED BY <2>4, <1>4, <1>5
<1> QED BY <1>6

\* A set that has 0 and, with each number below n, the next one, has all up to n.
LEMMA Upward ==
    ASSUME NEW n \in Nat, NEW S, 0 \in S, \A i \in 1 .. n : i - 1 \in S => i \in S
    PROVE  0 .. n \subseteq S
<1> SUFFICES ASSUME (0 .. n) \ S # {} PROVE FALSE
  OBVIOUS
<1>1. PICK x \in (0 .. n) \ S : \A y \in (0 .. n) \ S : x <= y
  <2>1. (0 .. n) \ S \subseteq Nat
    OBVIOUS
  <2> QED BY <2>1, LeastOf
<1>2. x \in 1 .. n /\ x - 1 \in 0 .. n /\ ~(x <= x - 1)
  OBVIOUS
<1> QED BY <1>1, <1>2

\* The greatest element of an interval from 1.
LEMMA MaxUpTo ==
    ASSUME NEW n \in Nat \ {0}, NEW s, s \subseteq 1 .. n, n \in s
    PROVE  (CHOOSE x \in s : \A y \in s : x >= y) = n
<1>1. n \in s /\ \A y \in s : n >= y
  OBVIOUS
<1>2. \A x \in s : (\A y \in s : x >= y) => x = n
  OBVIOUS
<1> QED BY <1>1, <1>2

\* A set of numbers from 1 to n that is not empty has a greatest element.
LEMMA MaxExists ==
    ASSUME NEW n \in Nat, NEW s \in SUBSET (1 .. n), s # {}
    PROVE  (CHOOSE x \in s : \A y \in s : x >= y) \in s
<1> DEFINE U == {n - y : y \in s}
<1>1. U \subseteq Nat /\ U # {}
  <2>1. \A y \in s : n - y \in Nat
    OBVIOUS
  <2> QED BY <2>1
<1>2. PICK u \in U : \A v \in U : u <= v
  <2> HIDE DEF U
  <2> QED BY <1>1, LeastOf
<1>3. PICK x \in s : u = n - x
  OBVIOUS
<1>4. \A y \in s : x >= y
  <2>1. \A y \in s : n - x <= n - y
    BY <1>2, <1>3
  <2> QED BY <2>1
<1> QED BY <1>4

\* What the folds of the community modules compute is defined for every list: a
\* table over the sets of indices, each from the one without its greatest.
IsTable(n, base, g, h) ==
    \A s \in SUBSET (1 .. n) :
       h[s] = IF s = {} THEN base
              ELSE g[CHOOSE x \in s : \A y \in s : x >= y]
                    [h[s \ {CHOOSE x \in s : \A y \in s : x >= y}]]

\* There is such a table for every list.
LEMMA FoldTable ==
    ASSUME NEW n \in Nat, NEW A, NEW base \in A, NEW g \in [1 .. n -> [A -> A]]
    PROVE  \E h \in [SUBSET (1 .. n) -> A] : IsTable(n, base, g, h)
<1> DEFINE Top(s) == CHOOSE x \in s : \A y \in s : x >= y
           Good(k, h) == \A s \in SUBSET (1 .. k) :
                             h[s] = IF s = {} THEN base ELSE g[Top(s)][h[s \ {Top(s)}]]
           K == {k \in 0 .. n : \E h \in [SUBSET (1 .. k) -> A] : Good(k, h)}
<1>1. 0 \in K
  <2> DEFINE h == [s \in SUBSET (1 .. 0) |-> base]
  <2>1. \A s \in SUBSET (1 .. 0) : s = {}
    OBVIOUS
  <2>2. h \in [SUBSET (1 .. 0) -> A] /\ Good(0, h)
    BY <2>1
  <2>3. \E e \in [SUBSET (1 .. 0) -> A] : Good(0, e)
    <3> HIDE DEF h, Good
    <3> QED BY <2>2, Zenon
  <2>4. 0 \in 0 .. n
    OBVIOUS
  <2> HIDE DEF h, Good
  <2> QED BY <2>3, <2>4
<1>2. ASSUME NEW k \in 1 .. n, k - 1 \in K PROVE k \in K
  <2>1. PICK h \in [SUBSET (1 .. k - 1) -> A] : Good(k - 1, h)
    BY <1>2
  <2> DEFINE e == [s \in SUBSET (1 .. k) |-> IF k \in s THEN g[k][h[s \ {k}]] ELSE h[s]]
  <2>2. k \in Nat \ {0} /\ \A s \in SUBSET (1 .. k) : s \ {k} \in SUBSET (1 .. k - 1) /\ (k \notin s => s \in SUBSET (1 .. k - 1))
    OBVIOUS
  <2>3. g[k] \in [A -> A]
    OBVIOUS
  <2>4. e \in [SUBSET (1 .. k) -> A]
    BY <2>2, <2>3
  <2>5. ASSUME NEW s \in SUBSET (1 .. k)
        PROVE  e[s] = IF s = {} THEN base ELSE g[Top(s)][e[s \ {Top(s)}]]
    <3>1. CASE k \in s
      <4>0. s \subseteq 1 .. k
        OBVIOUS
      <4>1. Top(s) = k
        BY <3>1, <2>2, <4>0, MaxUpTo
      <4>2. s \ {k} \in SUBSET (1 .. k) /\ k \notin s \ {k}
        OBVIOUS
      <4>3. e[s \ {k}] = h[s \ {k}] /\ e[s] = g[k][h[s \ {k}]]
        BY <4>2, <3>1
      <4> HIDE DEF e, Top
      <4> QED BY <4>1, <4>3, <3>1
    <3>2. CASE k \notin s
      <4>1. s \in SUBSET (1 .. k - 1) /\ e[s] = h[s]
        BY <3>2, <2>2
      <4>2. h[s] = IF s = {} THEN base ELSE g[Top(s)][h[s \ {Top(s)}]]
        BY <4>1, <2>1
      <4>3. s \ {Top(s)} \in SUBSET (1 .. k) /\ k \notin s \ {Top(s)}
        BY <3>2
      <4>4. e[s \ {Top(s)}] = h[s \ {Top(s)}]
        BY <4>3
      <4> HIDE DEF e, Top
      <4> QED BY <4>1, <4>2, <4>4
    <3> QED BY <3>1, <3>2
  <2>6. Good(k, e)
    <3> HIDE DEF e, Top
    <3> QED BY <2>5
  <2> HIDE DEF e, Good
  <2> QED BY <2>4, <2>6
<1>3. n \in K
  <2> HIDE DEF K
  <2>1. 0 .. n \subseteq K
    BY <1>1, <1>2, Upward
  <2> QED BY <2>1
<1> QED BY <1>3 DEF IsTable

-----------------------------------------------------------------------------
(* The stream of an end                                                      *)
\* Running sums of natural numbers are defined however many there are.
LEMMA SumsExist ==
    ASSUME NEW n \in Nat, NEW g \in [1 .. n -> Nat]
    PROVE  \E h \in [0 .. n -> Nat] : h[0] = 0 /\ \A k \in 1 .. n : h[k] = h[k - 1] + g[k]
<1> DEFINE Good(m, h) == h[0] = 0 /\ \A k \in 1 .. m : h[k] = h[k - 1] + g[k]
           K == {m \in 0 .. n : \E h \in [0 .. m -> Nat] : Good(m, h)}
<1>1. 0 \in K
  <2> DEFINE h == [m \in 0 .. 0 |-> 0]
  <2>1. h \in [0 .. 0 -> Nat] /\ Good(0, h)
    OBVIOUS
  <2>2. \E e \in [0 .. 0 -> Nat] : Good(0, e)
    <3> HIDE DEF h, Good
    <3> QED BY <2>1, Zenon
  <2> QED BY <2>2
<1>2. ASSUME NEW m \in 1 .. n, m - 1 \in K PROVE m \in K
  <2>1. PICK h \in [0 .. m - 1 -> Nat] : Good(m - 1, h)
    BY <1>2
  <2> DEFINE e == [k \in 0 .. m |-> IF k = m THEN h[m - 1] + g[m] ELSE h[k]]
  <2>2. m - 1 \in 0 .. m - 1 /\ h[m - 1] \in Nat /\ g[m] \in Nat
    OBVIOUS
  <2>3. e \in [0 .. m -> Nat]
    <3>1. \A k \in 0 .. m : k = m \/ k \in 0 .. m - 1
      OBVIOUS
    <3> QED BY <2>2, <3>1
  <2>4. \A k \in 1 .. m : e[k] = e[k - 1] + g[k]
    <3> SUFFICES ASSUME NEW k \in 1 .. m PROVE e[k] = e[k - 1] + g[k]
      OBVIOUS
    <3>1. k \in 0 .. m /\ k - 1 \in 0 .. m /\ k - 1 # m
      OBVIOUS
    <3>2. e[k - 1] = h[k - 1]
      BY <3>1
    <3>3. CASE k = m
      BY <3>1, <3>2, <3>3
    <3>4. CASE k # m
      <4>1. k \in 1 .. m - 1
        BY <3>4
      <4> QED BY <2>1, <3>1, <3>2, <3>4, <4>1
    <3> QED BY <3>3, <3>4
  <2>5. Good(m, e)
    <3>1. e[0] = 0
      BY <2>1
    <3> HIDE DEF e
    <3> QED BY <2>4, <3>1
  <2>6. \E x \in [0 .. m -> Nat] : Good(m, x)
    <3> HIDE DEF e, Good
    <3> QED BY <2>3, <2>5, Zenon
  <2>7. m \in 0 .. n
    OBVIOUS
  <2> HIDE DEF Good
  <2> QED BY <2>6, <2>7
<1>3. n \in K
  <2> HIDE DEF K
  <2>1. 0 .. n \subseteq K
    BY <1>1, <1>2, Upward
  <2> QED BY <2>1
<1> QED BY <1>3

\* How many segments the first k messages of p take.
Before(p) == LET f[k \in 0 .. Len(Parts[p])] == IF k = 0 THEN 0 ELSE f[k - 1] + Parts[p][k]
             IN  f
Total(p) == Before(p)[Len(Parts[p])]

\* The sums are what the definition says.
LEMMA BeforeDef ==
    ASSUME NEW p \in Ends
    PROVE  /\ Before(p) \in [0 .. Len(Parts[p]) -> Nat] /\ Before(p)[0] = 0
           /\ \A k \in 1 .. Len(Parts[p]) :
                 Before(p)[k] = Before(p)[k - 1] + Parts[p][k] /\ Parts[p][k] \in Nat \ {0}
           /\ Len(Parts[p]) \in Nat /\ Total(p) \in Nat /\ Total(p) = Before(p)[Len(Parts[p])]
<1> DEFINE n == Len(Parts[p])
           Table(f) == f = [k \in 0 .. n |-> IF k = 0 THEN 0 ELSE f[k - 1] + Parts[p][k]]
           b == CHOOSE f : Table(f)
<1>1. n \in Nat /\ Parts[p] \in [1 .. n -> Nat \ {0}]
  <2>1. Parts[p] \in Seq(Nat \ {0})
    BY KcpAssumption
  <2> QED BY <2>1
<1>2. Parts[p] \in [1 .. n -> Nat]
  BY <1>1
<1>3. PICK h \in [0 .. n -> Nat] : h[0] = 0 /\ \A k \in 1 .. n : h[k] = h[k - 1] + Parts[p][k]
  <2> HIDE DEF n
  <2> QED BY <1>1, <1>2, SumsExist
<1>4. Table(h)
  <2>1. \A k \in 0 .. n : k = 0 \/ k \in 1 .. n
    BY <1>1
  <2> QED BY <1>3, <2>1
<1>5. Table(b)
  <2>1. \E f : Table(f)
    BY <1>4
  <2> QED BY <2>1
<1>6. Before(p) = b
  BY DEF Before
<1>7. b[0] = 0 /\ \A k \in 1 .. n : b[k] = b[k - 1] + Parts[p][k]
  <2>1. 0 \in 0 .. n /\ \A k \in 1 .. n : k \in 0 .. n /\ k # 0
    BY <1>1
  <2> HIDE DEF b
  <2> QED BY <1>5, <2>1
<1>8. b \in [0 .. n -> Nat]
  <2> DEFINE S == {k \in 0 .. n : b[k] \in Nat}
  <2> HIDE DEF b
  <2>1. 0 \in S
    BY <1>1, <1>7
  <2>2. \A k \in 1 .. n : k - 1 \in S => k \in S
    <3> SUFFICES ASSUME NEW k \in 1 .. n, k - 1 \in S PROVE k \in S
      OBVIOUS
    <3>1. Parts[p][k] \in Nat /\ b[k - 1] \in Nat /\ b[k] = b[k - 1] + Parts[p][k]
      BY <1>2, <1>7
    <3>2. k \in 0 .. n
      BY <1>1
    <3> HIDE DEF n
    <3>3. b[k] \in Nat
      BY <3>1
    <3> QED BY <3>2, <3>3
  <2>3. 0 .. n \subseteq S
    <3> HIDE DEF S, n
    <3> QED BY <1>1, <2>1, <2>2, Upward
  <2> QED BY <1>5, <2>3
<1>9. n \in 0 .. n /\ \A k \in 1 .. n : Parts[p][k] \in Nat \ {0}
  BY <1>1
<1> HIDE DEF b
<1>10. Total(p) = b[n] /\ b[n] \in Nat
  BY <1>6, <1>8, <1>9 DEF Total
<1> QED BY <1>1, <1>6, <1>7, <1>8, <1>9, <1>10

\* A later message starts after an earlier one ends.
LEMMA BeforeMono ==
    ASSUME NEW p \in Ends, NEW i \in 0 .. Len(Parts[p]), NEW j \in 0 .. Len(Parts[p]), i <= j
    PROVE  /\ Before(p)[i] \in Nat /\ Before(p)[j] \in Nat
           /\ Before(p)[i] <= Before(p)[j]
           /\ i < j => Before(p)[i] + Parts[p][i + 1] <= Before(p)[j]
<1> DEFINE n == Len(Parts[p])
           B == Before(p)
<1>1. /\ n \in Nat /\ B \in [0 .. n -> Nat]
      /\ \A k \in 1 .. n : B[k] = B[k - 1] + Parts[p][k] /\ Parts[p][k] \in Nat \ {0}
  BY BeforeDef
<1> HIDE DEF B, n
<1>2. ASSUME NEW m \in 0 .. n PROVE \A k \in 0 .. n : m <= k => B[m] <= B[k]
  <2> DEFINE S == {k \in 0 .. n : m <= k => B[m] <= B[k]}
  <2>1. 0 \in S
    BY <1>1
  <2>2. ASSUME NEW k \in 1 .. n, k - 1 \in S PROVE k \in S
    <3>1. CASE m <= k - 1
      <4>1. B[m] <= B[k - 1] /\ B[k] = B[k - 1] + Parts[p][k] /\ Parts[p][k] \in Nat
        BY <1>1, <2>2, <3>1
      <4>2. B[m] \in Nat /\ B[k - 1] \in Nat /\ k \in 0 .. n
        BY <1>1
      <4> QED BY <4>1, <4>2
    <3>2. CASE m >= k
      BY <1>1, <3>2
    <3> QED BY <3>1, <3>2
  <2>3. 0 .. n \subseteq S
    <3> HIDE DEF S
    <3> QED BY <1>1, <2>1, <2>2, Upward
  <2> QED BY <2>3
<1>3. B[i] \in Nat /\ B[j] \in Nat /\ B[i] <= B[j]
  BY <1>1, <1>2 DEF n
<1>4. ASSUME i < j PROVE B[i] + Parts[p][i + 1] <= B[j]
  <2>1. i + 1 \in 1 .. n /\ i + 1 \in 0 .. n /\ j \in 0 .. n /\ i + 1 <= j
    BY <1>1, <1>4 DEF n
  <2>2. B[i + 1] <= B[j] /\ B[i + 1] = B[(i + 1) - 1] + Parts[p][i + 1]
    BY <1>1, <1>2, <2>1
  <2>3. (i + 1) - 1 = i
    OBVIOUS
  <2> QED BY <2>2, <2>3
<1> QED BY <1>3, <1>4 DEF B

\* What the a-th segment that p ever sends holds.
Piece(p) == [a \in 1 .. Total(p) |->
               LET k == CHOOSE m \in 1 .. Len(Parts[p]) : Before(p)[m - 1] < a /\ a <= Before(p)[m]
               IN  [frg |-> Before(p)[k] - a, data |-> <<p, k, a - Before(p)[k - 1]>>]]

\* The i-th part of the k-th message is where the earlier messages end, plus i.
LEMMA PieceAt ==
    ASSUME NEW p \in Ends, NEW k \in 1 .. Len(Parts[p]), NEW i \in 1 .. Parts[p][k]
    PROVE  /\ Before(p)[k - 1] + i \in 1 .. Total(p)
           /\ Piece(p)[Before(p)[k - 1] + i] = [frg |-> Parts[p][k] - i, data |-> <<p, k, i>>]
<1> DEFINE n == Len(Parts[p])
           B == Before(p)
           a == B[k - 1] + i
           Is(m) == B[m - 1] < a /\ a <= B[m]
<1>1. /\ n \in Nat /\ B \in [0 .. n -> Nat] /\ Total(p) = B[n]
      /\ \A m \in 1 .. n : B[m] = B[m - 1] + Parts[p][m] /\ Parts[p][m] \in Nat \ {0}
  BY BeforeDef
<1>2. B[k - 1] \in Nat /\ B[k] \in Nat /\ B[k] <= B[n] /\ B[k] = B[k - 1] + Parts[p][k] /\ B[n] \in Nat
      /\ Parts[p][k] \in Nat
  <2>1. k \in 0 .. n /\ n \in 0 .. n /\ k <= n /\ k - 1 \in 0 .. n
    BY <1>1
  <2>2. B[k] <= B[n]
    BY <2>1, BeforeMono
  <2> QED BY <1>1, <2>1, <2>2
<1>3. a \in 1 .. Total(p) /\ Is(k)
  <2> DEFINE x == B[k - 1]
             y == B[k]
             z == B[n]
             P == Parts[p][k]
  <2>1. x \in Nat /\ y \in Nat /\ z \in Nat /\ P \in Nat /\ y <= z /\ y = x + P /\ i \in 1 .. P
    BY <1>2
  <2> HIDE DEF x, y, z, P
  <2>2. x + i \in 1 .. z /\ x < x + i /\ x + i <= y
    BY <2>1
  <2> QED BY <1>1, <2>2 DEF x, y, z
<1>4. ASSUME NEW m \in 1 .. n, Is(m) PROVE m = k
  <2>1. m \in 0 .. n /\ m - 1 \in 0 .. n /\ k \in 0 .. n /\ k - 1 \in 0 .. n
    BY <1>1
  <2>2. CASE m < k
    <3>1. m <= k - 1
      BY <2>2
    <3>2. B[m] <= B[k - 1] /\ B[m] \in Nat
      BY <2>1, <3>1, BeforeMono
    <3> HIDE DEF B, n
    <3> QED BY <1>2, <1>3, <1>4, <3>2
  <2>3. CASE k < m
    <3>1. k <= m - 1
      BY <2>3
    <3>2. B[k] <= B[m - 1] /\ B[m - 1] \in Nat
      BY <2>1, <3>1, BeforeMono
    <3> HIDE DEF B, n
    <3> QED BY <1>2, <1>3, <1>4, <3>2
  <2> QED BY <2>2, <2>3
<1>5. (CHOOSE m \in 1 .. n : Is(m)) = k
  <2> HIDE DEF Is, n
  <2>1. k \in 1 .. n
    BY DEF n
  <2> QED BY <1>3, <1>4, <2>1
<1>6. Piece(p)[a] = [frg |-> B[k] - a, data |-> <<p, k, a - B[k - 1]>>]
  BY <1>3, <1>5 DEF Piece
<1>7. B[k] - a = Parts[p][k] - i /\ a - B[k - 1] = i
  <2> HIDE DEF B, n
  <2> QED BY <1>2
<1> QED BY <1>3, <1>6, <1>7

-----------------------------------------------------------------------------
(* What is kept of a list                                                    *)
\* Kept visits one element after the other.
LEMMA KeptFold ==
    \A Elem, S : \A s \in Seq(Elem) :
           \E f \in [0 .. Len(s) -> Seq(Elem)] :
              /\ f[0] = <<>> /\ f[Len(s)] = Kept(s, S)
              /\ \A i \in 1 .. Len(s) : f[i] = KeepIf(S, f[i - 1], s[i])
<1> TAKE Elem, S
<1> TAKE s \in Seq(Elem)
<1> DEFINE n == Len(s)
           Top(t) == CHOOSE x \in t : \A y \in t : x >= y
           Table(h) == h = [t \in SUBSET (DOMAIN s) |->
                              IF t = {} THEN <<>> ELSE KeepIf(S, h[t \ {Top(t)}], s[Top(t)])]
           g == [i \in 1 .. n |-> [a \in Seq(Elem) |-> KeepIf(S, a, s[i])]]
           iter == CHOOSE h : Table(h)
           f == [i \in 0 .. n |-> iter[1 .. i]]
<1>1. n \in Nat /\ DOMAIN s = 1 .. n /\ \A i \in 1 .. n : s[i] \in Elem
  OBVIOUS
<1>2. <<>> \in Seq(Elem) /\ \A a \in Seq(Elem), i \in 1 .. n : KeepIf(S, a, s[i]) \in Seq(Elem)
  BY <1>1 DEF KeepIf
<1>3. \E h : Table(h)
  <2>1. g \in [1 .. n -> [Seq(Elem) -> Seq(Elem)]]
    BY <1>2
  <2>2. PICK h \in [SUBSET (1 .. n) -> Seq(Elem)] : IsTable(n, <<>>, g, h)
    <3>1. n \in Nat /\ <<>> \in Seq(Elem)
      BY <1>1, <1>2
    <3> HIDE DEF g, n
    <3> QED BY <3>1, <2>1, FoldTable
  <2>3. ASSUME NEW t \in SUBSET (1 .. n), t # {}
        PROVE  h[t] = KeepIf(S, h[t \ {Top(t)}], s[Top(t)])
    <3>1. Top(t) \in 1 .. n /\ t \ {Top(t)} \in SUBSET (1 .. n)
      <4> HIDE DEF Top
      <4>1. Top(t) \in t
        BY <1>1, <2>3, MaxExists DEF Top
      <4> QED BY <4>1
    <3>2. h[t \ {Top(t)}] \in Seq(Elem) /\ h[t] = g[Top(t)][h[t \ {Top(t)}]]
      BY <2>2, <2>3, <3>1 DEF IsTable
    <3> HIDE DEF Top
    <3> QED BY <3>1, <3>2
  <2>4. Table(h)
    <3> HIDE DEF Top
    <3> QED BY <1>1, <2>2, <2>3 DEF IsTable
  <2> QED BY <2>4
<1>4. Table(iter)
  BY <1>3
<1>5. Kept(s, S) = iter[DOMAIN s]
  BY DEF Kept, FoldLeft, MapThenFoldSet, Max
<1>6. f[0] = <<>> /\ f[n] = iter[DOMAIN s]
  <2>1. 1 .. 0 = {} /\ 0 \in 0 .. n /\ n \in 0 .. n
    BY <1>1
  <2>2. iter[{}] = <<>>
    <3> HIDE DEF iter
    <3> QED BY <1>4
  <2> HIDE DEF iter
  <2> QED BY <1>1, <2>1, <2>2
<1>7. ASSUME NEW i \in 1 .. n PROVE f[i] = KeepIf(S, f[i - 1], s[i])
  <2>1. 1 .. i \in SUBSET (1 .. n) /\ 1 .. i # {} /\ i \in Nat \ {0} /\ i \in 1 .. i
    <3>1. n \in Nat /\ i \in Nat \ {0} /\ i \in 1 .. i
      BY <1>1
    <3>2. \A j \in 1 .. i : j \in 1 .. n
      BY <3>1
    <3> QED BY <3>1, <3>2
  <2>0. i \in 0 .. n /\ i - 1 \in 0 .. n
    BY <1>1
  <2>2. (1 .. i) \ {i} = 1 .. i - 1
    BY <1>1
  <2>3. Top(1 .. i) = i
    BY <2>1, MaxUpTo
  <2>4. iter[1 .. i] = KeepIf(S, iter[(1 .. i) \ {i}], s[i])
    <3> HIDE DEF iter, Top
    <3> QED BY <1>1, <1>4, <2>1, <2>3
  <2> HIDE DEF iter
  <2> QED BY <2>0, <2>2, <2>4
<1>8. f \in [0 .. n -> Seq(Elem)]
  <2> DEFINE Typed == {i \in 0 .. n : f[i] \in Seq(Elem)}
  <2>1. 0 \in Typed
    <3> HIDE DEF f
    <3>1. f[0] \in Seq(Elem)
      BY <1>2, <1>6, Zenon
    <3>2. 0 \in 0 .. n
      BY <1>1
    <3> QED BY <3>1, <3>2
  <2>2. ASSUME NEW i \in 1 .. n, i - 1 \in Typed PROVE i \in Typed
    <3> HIDE DEF f
    <3>1. f[i - 1] \in Seq(Elem)
      BY <2>2
    <3>2. KeepIf(S, f[i - 1], s[i]) \in Seq(Elem)
      BY <1>2, <3>1
    <3>3. f[i] \in Seq(Elem)
      BY <1>7, <3>2
    <3> QED BY <1>1, <3>3
  <2>3. 0 .. n \subseteq Typed
    <3> HIDE DEF Typed
    <3> QED BY <1>1, <2>1, <2>2, Upward
  <2> QED BY <2>3
<1> HIDE DEF f, iter
<1> QED BY <1>1, <1>5, <1>6, <1>7, <1>8

\* r has, in order, those of the first m elements of s that are in S: g says where
\* each of them was.
Picks(r, s, S, m, g) ==
    /\ g \in [1 .. Len(r) -> 1 .. m]
    /\ \A j \in 1 .. Len(r) : r[j] = s[g[j]] /\ s[g[j]] \in S
    /\ \A j, k \in 1 .. Len(r) : j < k => g[j] < g[k]
    /\ \A i \in 1 .. m : s[i] \in S => \E j \in 1 .. Len(r) : g[j] = i

\* One more element.
LEMMA PicksNext ==
    ASSUME NEW Elem, NEW s \in Seq(Elem), NEW S, NEW i \in 1 .. Len(s),
           NEW r \in Seq(Elem), NEW g, Picks(r, s, S, i - 1, g)
    PROVE  \E h : Picks(KeepIf(S, r, s[i]), s, S, i, h)
<1>1. Len(r) \in Nat /\ i \in Nat \ {0}
  OBVIOUS
<1>2. CASE s[i] \notin S
  <2>1. g \in [1 .. Len(r) -> 1 .. i]
    <3>1. \A j \in 1 .. i - 1 : j \in 1 .. i
      OBVIOUS
    <3> QED BY <3>1 DEF Picks
  <2>2. \A j \in 1 .. i : s[j] \in S => j \in 1 .. i - 1
    BY <1>2
  <2>3. Picks(r, s, S, i, g)
    BY <2>1, <2>2 DEF Picks
  <2> QED BY <1>2, <2>3 DEF KeepIf
<1>3. CASE s[i] \in S
  <2> DEFINE t == Append(r, s[i])
             n == Len(r) + 1
             h == [j \in 1 .. n |-> IF j = n THEN i ELSE g[j]]
  <2>1. Len(t) = n /\ t[n] = s[i] /\ \A j \in 1 .. Len(r) : t[j] = r[j]
    <3>1. s[i] \in Elem
      OBVIOUS
    <3> QED BY <3>1
  <2>2. \A j \in 1 .. n : j = n \/ j \in 1 .. Len(r)
    BY <1>1
  <2>3. \A j \in 1 .. Len(r) : g[j] \in 1 .. i - 1 /\ j # n /\ h[j] = g[j] /\ j \in 1 .. n
    <3>1. \A j \in 1 .. Len(r) : g[j] \in 1 .. i - 1
      BY DEF Picks
    <3>2. \A j \in 1 .. Len(r) : j # n /\ j \in 1 .. n
      BY <1>1
    <3> HIDE DEF n
    <3>3. \A j \in 1 .. Len(r) : h[j] = g[j]
      BY <3>2
    <3> QED BY <3>1, <3>2, <3>3
  <2>4. n \in 1 .. n /\ h[n] = i
    BY <1>1
  <2> HIDE DEF t, n
  <2>5. h \in [1 .. n -> 1 .. i]
    <3>1. \A j \in 1 .. n : h[j] \in 1 .. i
      <4> HIDE DEF h
      <4> QED BY <1>1, <2>2, <2>3, <2>4
    <3> QED BY <3>1
  <2> HIDE DEF h
  <2>6. \A j \in 1 .. n : t[j] = s[h[j]] /\ s[h[j]] \in S
    <3> SUFFICES ASSUME NEW j \in 1 .. n PROVE t[j] = s[h[j]] /\ s[h[j]] \in S
      OBVIOUS
    <3>1. CASE j = n
      BY <1>3, <2>1, <2>4, <3>1
    <3>2. CASE j \in 1 .. Len(r)
      <4>1. t[j] = r[j] /\ h[j] = g[j]
        BY <2>1, <2>3, <3>2
      <4>2. r[j] = s[g[j]] /\ s[g[j]] \in S
        BY <3>2 DEF Picks
      <4> QED BY <4>1, <4>2
    <3> QED BY <2>2, <3>1, <3>2
  <2>7. ASSUME NEW j \in 1 .. n, NEW k \in 1 .. n, j < k PROVE h[j] < h[k]
    <3>1. j \in 1 .. Len(r)
      BY <1>1, <2>7 DEF n
    <3>2. CASE k = n
      BY <1>1, <2>3, <2>4, <3>1, <3>2
    <3>3. CASE k \in 1 .. Len(r)
      <4>1. g[j] < g[k]
        BY <2>7, <3>1, <3>3 DEF Picks
      <4> QED BY <2>3, <3>1, <3>3, <4>1
    <3> QED BY <2>2, <3>2, <3>3
  <2>8. ASSUME NEW j \in 1 .. i, s[j] \in S PROVE \E k \in 1 .. n : h[k] = j
    <3>1. CASE j = i
      BY <2>4, <3>1
    <3>2. CASE j # i
      <4>1. j \in 1 .. i - 1
        BY <3>2
      <4>2. PICK k \in 1 .. Len(r) : g[k] = j
        BY <2>8, <4>1 DEF Picks
      <4> QED BY <2>3, <4>2
    <3> QED BY <3>1, <3>2
  <2>9. Picks(t, s, S, i, h)
    BY <2>1, <2>5, <2>6, <2>7, <2>8 DEF Picks
  <2> QED BY <1>3, <2>9 DEF t, KeepIf
<1> QED BY <1>2, <1>3

\* What is kept of a list is a list, and comes from it in order, complete.
LEMMA KeptIs ==
    ASSUME NEW Elem, NEW s \in Seq(Elem), NEW S
    PROVE  Kept(s, S) \in Seq(Elem) /\ \E g : Picks(Kept(s, S), s, S, Len(s), g)
<1>1. PICK f \in [0 .. Len(s) -> Seq(Elem)] :
         /\ f[0] = <<>> /\ f[Len(s)] = Kept(s, S)
         /\ \A i \in 1 .. Len(s) : f[i] = KeepIf(S, f[i - 1], s[i])
  BY KeptFold
<1> DEFINE n == Len(s)
<1>2. n \in Nat /\ n \in 0 .. n
  OBVIOUS
<1> DEFINE G == {i \in 0 .. n : \E g : Picks(f[i], s, S, i, g)}
<1>3. 0 \in G
  <2>1. Picks(<<>>, s, S, 0, <<>>)
    BY DEF Picks
  <2>2. \E g : Picks(f[0], s, S, 0, g)
    BY <1>1, <2>1
  <2> QED BY <1>2, <2>2
<1>4. ASSUME NEW i \in 1 .. n, i - 1 \in G PROVE i \in G
  <2>1. f[i - 1] \in Seq(Elem) /\ i \in 0 .. n
    <3>1. i - 1 \in 0 .. n
      OBVIOUS
    <3> QED BY <1>1, <3>1
  <2>2. PICK g : Picks(f[i - 1], s, S, i - 1, g)
    BY <1>4
  <2>3. \E h : Picks(KeepIf(S, f[i - 1], s[i]), s, S, i, h)
    BY <2>1, <2>2, PicksNext
  <2>4. \E h : Picks(f[i], s, S, i, h)
    BY <1>1, <2>3
  <2> QED BY <2>1, <2>4
<1>5. n \in G
  <2>1. 0 .. n \subseteq G
    <3> HIDE DEF G, n
    <3> QED BY <1>2, <1>3, <1>4, Upward
  <2> HIDE DEF G
  <2> QED BY <1>2, <2>1
<1> QED BY <1>1, <1>2, <1>5

-----------------------------------------------------------------------------
(* The invariant                                                             *)
\* The connection has two ends.
LEMMA TwoEnds ==
    ASSUME NEW p \in Ends
    PROVE  /\ Other(p) \in Ends /\ Other(p) # p /\ Other(Other(p)) = p
           /\ \A q \in Ends : q = p \/ q = Other(p)
<1>1. IsFiniteSet(Ends \ {p}) /\ Cardinality(Ends \ {p}) = 1
  <2>1. IsFiniteSet(Ends) /\ Cardinality(Ends) = 2
    BY KcpAssumption
  <2> QED BY <2>1, FS_RemoveElement
<1>2. PICK o : Ends \ {p} = {o}
  BY <1>1, FS_Singleton
<1>3. o \in Ends /\ o # p /\ \A q \in Ends : q = p \/ q = o
  BY <1>2
<1>4. Other(p) = o
  BY <1>3 DEF Other
<1>5. Other(o) = p
  BY <1>3 DEF Other
<1> QED BY <1>3, <1>4, <1>5

\* What the buffers and the datagrams hold.
Datum      == Ends \X Nat \X Nat
Unnumbered == [frg : Nat, data : Datum]
Segment    == [sn : 0 .. W - 1, frg : Nat, data : Datum]
InFlight   == [sn : 0 .. W - 1, frg : Nat, data : Datum, due : BOOLEAN]
Packets    == [una : 0 .. W - 1, wnd : 0 .. RcvWnd, acks : SUBSET (0 .. W - 1),
               ask : BOOLEAN, tell : BOOLEAN, push : SUBSET Segment]

\* The type of every variable.
Types ==
    /\ snd_queue \in [Ends -> Seq(Unnumbered)] /\ snd_buf \in [Ends -> Seq(InFlight)]
    /\ snd_una \in [Ends -> 0 .. W - 1] /\ snd_nxt \in [Ends -> 0 .. W - 1]
    /\ rmt_wnd \in [Ends -> 0 .. RcvWnd] /\ asking \in [Ends -> {"off", "armed", "due"}]
    /\ rcv_nxt \in [Ends -> 0 .. W - 1] /\ rcv_buf \in [Ends -> SUBSET Segment]
    /\ rcv_queue \in [Ends -> Seq(Segment)]
    /\ acklist \in [Ends -> SUBSET (0 .. W - 1)] /\ tell \in [Ends -> BOOLEAN]
    /\ net \in [Ends -> Seq(Packets)]
    /\ sent \in [Ends -> Seq(Seq(Datum))] /\ got \in [Ends -> Seq(Seq(Datum))]

\* The a-th segment that p ever sends, as it travels.
Seg(p, a) == [sn |-> Sn(a), frg |-> Piece(p)[a].frg, data |-> Piece(p)[a].data]

\* How many segments of p have a number, are known to have arrived, have been
\* handed over in messages, and are in order at the other end.
Numb(p)  == Before(p)[Len(sent[p])] - Len(snd_queue[p])
Una(p)   == Pos(snd_una[p]) - 1
Taken(p) == Before(p)[Len(got[p])]
Rcvd(p)  == Taken(p) + Len(rcv_queue[Other(p)])

\* The a-th segment of p is at the other end.
Received(p, a) == a <= Rcvd(p) \/ Seg(p, a) \in rcv_buf[Other(p)]

\* What p accepted is a prefix of its messages, and the send queue holds the rest
\* of it that has no number yet.
Accepted(p) ==
    /\ Len(sent[p]) <= Len(Parts[p])
    /\ \A k \in 1 .. Len(sent[p]) : sent[p][k] = Message(p, k)
    /\ Numb(p) >= 0 /\ snd_nxt[p] = Sn(Numb(p) + 1)
    /\ \A i \in 1 .. Len(snd_queue[p]) : snd_queue[p][i] = Piece(p)[Numb(p) + i]

\* The send buffer holds segments of p in their order, after snd_una and at most
\* a window of them.
Buffered(p) ==
    /\ Una(p) \in 0 .. Numb(p) /\ Numb(p) <= Una(p) + SndWnd
    /\ \A j \in 1 .. Len(snd_buf[p]) :
          LET a == Pos(snd_buf[p][j].sn) IN
          /\ a \in Una(p) + 1 .. Numb(p)
          /\ snd_buf[p][j].frg = Piece(p)[a].frg /\ snd_buf[p][j].data = Piece(p)[a].data
    /\ \A i, j \in 1 .. Len(snd_buf[p]) : i < j => Pos(snd_buf[p][i].sn) < Pos(snd_buf[p][j].sn)

\* What the other end has in order are the next segments of p, none of which it
\* was not sent.
Queued(p) ==
    /\ Len(got[p]) <= Len(Parts[p])
    /\ Len(rcv_queue[Other(p)]) <= RcvWnd
    /\ Rcvd(p) <= Numb(p) /\ rcv_nxt[Other(p)] = Sn(Rcvd(p) + 1)
    /\ \A i \in 1 .. Len(rcv_queue[Other(p)]) : rcv_queue[Other(p)][i] = Seg(p, Taken(p) + i)

\* Segments that wait out of order are within the window, and the first of them
\* is not the next one unless the queue is full.
Waiting(p) ==
    /\ \A s \in rcv_buf[Other(p)] :
          \E a \in Rcvd(p) + 1 .. Rcvd(p) + RcvWnd : a <= Numb(p) /\ s = Seg(p, a)
    /\ \/ Len(rcv_queue[Other(p)]) = RcvWnd
       \/ \A s \in rcv_buf[Other(p)] : s.sn # Sn(Rcvd(p) + 1)

\* A segment that has not arrived is in the send buffer.
Remembered(p) ==
    \A a \in Rcvd(p) + 1 .. Numb(p) :
        Received(p, a) \/ \E j \in 1 .. Len(snd_buf[p]) : snd_buf[p][j].sn = Sn(a)

\* What is acknowledged has arrived.
Honest(p, acks) == \A sn \in acks : Pos(sn) \in 1 .. Numb(p) /\ Received(p, Pos(sn))

\* Acknowledgements and datagrams under way say what is true, however old.
Truthful(p) ==
    /\ Honest(p, acklist[Other(p)])
    /\ \A i \in 1 .. Len(net[p]) :
          Pos(net[p][i].una) - 1 <= Rcvd(p) /\ Honest(p, net[p][i].acks)
    /\ \A i \in 1 .. Len(net[Other(p)]) :
          \A s \in net[Other(p)][i].push : \E a \in 1 .. Numb(p) : s = Seg(p, a)

Carried(p) == Accepted(p) /\ Buffered(p) /\ Queued(p) /\ Waiting(p) /\ Remembered(p) /\ Truthful(p)

\* The inductive invariant.
KcpInv == Types /\ \A p \in Ends : Carried(p)

\* A connection that carries fewer than half the sequence numbers each way: no
\* datagram, however long it was under way, is then mistaken for a newer one.
ShortConnection == \A p \in Ends : Total(p) + RcvWnd <= W \div 2

\* The counts, and how they compare.
LEMMA Counts ==
    ASSUME ShortConnection, NEW p \in Ends, Types,
           Len(sent[p]) <= Len(Parts[p]), Numb(p) >= 0, Len(got[p]) <= Len(Parts[p])
    PROVE  /\ Numb(p) \in 0 .. Total(p) /\ Total(p) \in Nat /\ Taken(p) \in Nat
           /\ Len(rcv_queue[Other(p)]) \in Nat /\ Len(snd_buf[p]) \in Nat
           /\ Len(snd_queue[p]) \in Nat /\ Rcvd(p) \in Nat /\ Rcvd(p) >= Taken(p)
           /\ Total(p) + RcvWnd <= W \div 2
           /\ Len(sent[p]) \in 0 .. Len(Parts[p]) /\ Len(got[p]) \in 0 .. Len(Parts[p])
<1>1. /\ Len(rcv_queue[Other(p)]) \in Nat /\ Len(snd_buf[p]) \in Nat
      /\ Len(snd_queue[p]) \in Nat /\ Len(sent[p]) \in Nat /\ Len(got[p]) \in Nat
  BY TwoEnds DEF Types
<1>2. Len(Parts[p]) \in Nat /\ Total(p) \in Nat /\ Total(p) = Before(p)[Len(Parts[p])]
  BY BeforeDef
<1>3. /\ Len(sent[p]) \in 0 .. Len(Parts[p]) /\ Len(got[p]) \in 0 .. Len(Parts[p])
      /\ Len(Parts[p]) \in 0 .. Len(Parts[p])
  BY <1>1, <1>2
<1>4. /\ Before(p)[Len(sent[p])] \in Nat /\ Before(p)[Len(sent[p])] <= Total(p)
      /\ Before(p)[Len(got[p])] \in Nat
  BY <1>2, <1>3, BeforeMono
<1>5. Numb(p) \in 0 .. Total(p)
  <2>1. Numb(p) = Before(p)[Len(sent[p])] - Len(snd_queue[p])
    BY DEF Numb
  <2> QED BY <1>1, <1>2, <1>4, <2>1
<1>6. Taken(p) \in Nat /\ Rcvd(p) \in Nat /\ Rcvd(p) >= Taken(p)
  BY <1>1, <1>4 DEF Taken, Rcvd
<1>7. Total(p) + RcvWnd <= W \div 2
  BY DEF ShortConnection
<1> QED BY <1>1, <1>2, <1>3, <1>5, <1>6, <1>7

\* Positions up to a window after the last segment have numbers of their own.
LEMMA Numbers ==
    ASSUME ShortConnection, NEW p \in Ends
    PROVE  /\ \A a \in 0 .. Total(p) + RcvWnd : Sn(a + 1) \in 0 .. W - 1 /\ Pos(Sn(a + 1)) = a + 1
           /\ \A a \in 1 .. Total(p) + RcvWnd + 1 : Sn(a) \in 0 .. W - 1 /\ Pos(Sn(a)) = a
           /\ \A a, b \in 1 .. Total(p) + RcvWnd + 1 : Sn(a) = Sn(b) => a = b
<1>1. Total(p) \in Nat /\ Total(p) + RcvWnd <= W \div 2 /\ RcvWnd \in Nat \ {0}
      /\ W \in Nat /\ W = 2 * (W \div 2) /\ W \div 2 \in Nat
  BY BeforeDef, Constants DEF ShortConnection
<1>2. \A a \in 1 .. Total(p) + RcvWnd + 1 : a \in 1 .. W /\ a \in Nat
  <2> DEFINE H == W \div 2
  <2> HIDE DEF H
  <2>1. Total(p) + RcvWnd <= H /\ H \in Nat /\ W = 2 * H
    BY <1>1 DEF H
  <2> QED BY <1>1, <2>1
<1>3. \A a \in 1 .. Total(p) + RcvWnd + 1 : Sn(a) \in 0 .. W - 1 /\ Pos(Sn(a)) = a
  BY <1>2, SnRange, PosSn
<1>4. \A a \in 0 .. Total(p) + RcvWnd : a + 1 \in 1 .. Total(p) + RcvWnd + 1
  BY <1>1
<1> QED BY <1>3, <1>4

\* A segment's number says where it is in the stream.
LEMMA SegIs ==
    ASSUME ShortConnection, NEW p \in Ends, NEW a \in 1 .. Total(p), NEW b \in 1 .. Total(p)
    PROVE  Seg(p, a).sn = Sn(a) /\ (Seg(p, a) = Seg(p, b) <=> a = b)
<1>1. Sn(a) = Sn(b) => a = b
  <2>1. a \in 1 .. Total(p) + RcvWnd + 1 /\ b \in 1 .. Total(p) + RcvWnd + 1
    BY BeforeDef, Constants
  <2> QED BY <2>1, Numbers
<1>2. Seg(p, a).sn = Sn(a) /\ Seg(p, b).sn = Sn(b)
  BY DEF Seg
<1> QED BY <1>1, <1>2

-----------------------------------------------------------------------------
(* Receiving: from the buffer to the queue, and out of it                    *)
\* InOrder is how many segments, from nxt on, are there and have room.
LEMMA InOrderIs ==
    ASSUME NEW nxt, NEW buf, NEW room \in Nat
    PROVE  /\ InOrder(buf, nxt, room) \in 0 .. room
           /\ \A i \in 0 .. InOrder(buf, nxt, room) - 1 : \E s \in buf : s.sn = (nxt + i) % W
           /\ \/ InOrder(buf, nxt, room) = room
              \/ \A s \in buf : s.sn # (nxt + InOrder(buf, nxt, room)) % W
<1> DEFINE There(i) == \E s \in buf : s.sn = (nxt + i) % W
           Good(n) == (\A i \in 0 .. n - 1 : There(i)) /\ (n = room \/ ~There(n))
           Ends0 == {n \in 0 .. room : n = room \/ ~There(n)}
<1>1. PICK m \in Ends0 : \A n \in Ends0 : m <= n
  <2>1. Ends0 \subseteq Nat /\ room \in Ends0
    OBVIOUS
  <2> HIDE DEF Ends0
  <2> QED BY <2>1, LeastOf
<1>2. m \in 0 .. room /\ Good(m)
  <2> HIDE DEF There
  <2>1. m \in 0 .. room /\ (m = room \/ ~There(m))
    OBVIOUS
  <2>2. ASSUME NEW i \in 0 .. m - 1 PROVE There(i)
    <3>1. i \in 0 .. room /\ ~(m <= i)
      BY <2>1
    <3>2. i \notin Ends0
      <4> HIDE DEF Ends0
      <4> QED BY <1>1, <3>1
    <3> QED BY <3>1, <3>2
  <2> QED BY <2>1, <2>2
<1>3. InOrder(buf, nxt, room) = CHOOSE n \in 0 .. room : Good(n)
  BY Zenon DEF InOrder
<1> HIDE DEF Good
<1>4. InOrder(buf, nxt, room) \in 0 .. room /\ Good(InOrder(buf, nxt, room))
  BY <1>2, <1>3
<1> QED BY <1>4, Zenon DEF Good

\* n segments went over from buf to the end of queue: those of p after R, of which
\* it has numbered N.
Shifted(p, T, N, queue, buf, R, n) ==
    /\ Len(queue) + n <= RcvWnd /\ R + n <= N
    /\ rcv_nxt' = [rcv_nxt EXCEPT ![Other(p)] = Sn(R + n + 1)]
    /\ \E t \in Seq(Segment) :
          /\ rcv_queue' = [rcv_queue EXCEPT ![Other(p)] = t] /\ Len(t) = Len(queue) + n
          /\ \A i \in 1 .. Len(t) : t[i] = Seg(p, T + i)
    /\ \E b \in SUBSET buf :
          /\ rcv_buf' = [rcv_buf EXCEPT ![Other(p)] = b]
          /\ \A s \in b : \E a \in R + n + 1 .. R + n + RcvWnd : a <= N /\ s = Seg(p, a)
          /\ \A a \in 1 .. N : Seg(p, a) \in buf => a <= R + n \/ Seg(p, a) \in b
          /\ Len(queue) + n = RcvWnd \/ \A s \in b : s.sn # Sn(R + n + 1)

\* Moving what is in order from the buffer to the queue: n segments go over.
LEMMA MovedIs ==
    ASSUME ShortConnection, Types, NEW p \in Ends, NEW T \in Nat, NEW N \in 0 .. Total(p),
           NEW queue \in Seq(Segment), NEW buf \in SUBSET Segment, NEW R, R = T + Len(queue),
           Len(queue) <= RcvWnd, R <= N, rcv_nxt[Other(p)] = Sn(R + 1),
           \A i \in 1 .. Len(queue) : queue[i] = Seg(p, T + i),
           \A s \in buf : \E a \in R + 1 .. R + RcvWnd : a <= N /\ s = Seg(p, a),
           Moved(Other(p), buf, queue)
    PROVE  \E n \in Nat : Shifted(p, T, N, queue, buf, R, n)
<1> DEFINE o == Other(p)
           room == RcvWnd - Len(queue)
           n == InOrder(buf, rcv_nxt[o], room)
           Nth(i) == CHOOSE s \in buf : s.sn = (rcv_nxt[o] + i - 1) % W
           t == queue \o [i \in 1 .. n |-> Nth(i)]
           b == buf \ {Nth(i) : i \in 1 .. n}
<1>1. Len(queue) \in Nat /\ room \in Nat /\ R \in Nat /\ N \in Nat /\ Total(p) \in Nat
      /\ R <= Total(p) /\ N <= Total(p) /\ RcvWnd \in Nat \ {0}
  BY BeforeDef, Constants
<1>2. n \in 0 .. room
  BY <1>1, InOrderIs
<1>3. \A i \in Nat : (rcv_nxt[o] + i) % W = Sn(R + 1 + i)
  BY <1>1, SnPlus
<1>4. \A i \in 0 .. RcvWnd, s \in buf : s.sn = Sn(R + 1 + i) => s = Seg(p, R + 1 + i) /\ R + 1 + i <= N
  <2> SUFFICES ASSUME NEW i \in 0 .. RcvWnd, NEW s \in buf, s.sn = Sn(R + 1 + i)
               PROVE  s = Seg(p, R + 1 + i) /\ R + 1 + i <= N
    OBVIOUS
  <2>1. PICK a \in R + 1 .. R + RcvWnd : a <= N /\ s = Seg(p, a)
    OBVIOUS
  <2>2. s.sn = Sn(a)
    BY <2>1 DEF Seg
  <2>3. a \in 1 .. Total(p) + RcvWnd + 1 /\ R + 1 + i \in 1 .. Total(p) + RcvWnd + 1
    BY <1>1, <2>1
  <2>4. a = R + 1 + i
    BY <2>2, <2>3, Numbers
  <2> QED BY <2>1, <2>4
<1>5. \A i \in 0 .. n - 1 : Seg(p, R + 1 + i) \in buf /\ R + 1 + i <= N
  <2> SUFFICES ASSUME NEW i \in 0 .. n - 1 PROVE Seg(p, R + 1 + i) \in buf /\ R + 1 + i <= N
    OBVIOUS
  <2>1. i \in Nat /\ i \in 0 .. RcvWnd
    <3> HIDE DEF n
    <3> QED BY <1>1, <1>2
  <2>2. \E s \in buf : s.sn = (rcv_nxt[o] + i) % W
    BY <1>1, InOrderIs
  <2>3. PICK s \in buf : s.sn = Sn(R + 1 + i)
    BY <1>3, <2>1, <2>2
  <2> QED BY <1>4, <2>1, <2>3
<1>6. n = room \/ \A s \in buf : s.sn # Sn(R + 1 + n)
  <2>1. n = room \/ \A s \in buf : s.sn # (rcv_nxt[o] + n) % W
    BY <1>1, InOrderIs
  <2>2. n \in Nat
    <3> HIDE DEF n
    <3> QED BY <1>2
  <2> HIDE DEF n
  <2> QED BY <1>3, <2>1, <2>2
<1>7. rcv_buf' = [rcv_buf EXCEPT ![o] = b] /\ rcv_queue' = [rcv_queue EXCEPT ![o] = t]
      /\ rcv_nxt' = [rcv_nxt EXCEPT ![o] = (rcv_nxt[o] + n) % W]
  BY TwoEnds DEF Moved, Types
<1> HIDE DEF n
<1>8. \A i \in 1 .. n : Nth(i) = Seg(p, R + i) /\ Seg(p, R + i) \in buf /\ R + i <= N
  <2> SUFFICES ASSUME NEW i \in 1 .. n PROVE Nth(i) = Seg(p, R + i) /\ Seg(p, R + i) \in buf /\ R + i <= N
    OBVIOUS
  <2>1. i - 1 \in 0 .. n - 1 /\ i - 1 \in 0 .. RcvWnd /\ i - 1 \in Nat
    BY <1>1, <1>2
  <2>2. R + 1 + (i - 1) = R + i /\ rcv_nxt[o] + i - 1 = rcv_nxt[o] + (i - 1)
    <3>1. rcv_nxt[o] \in Int
      BY <1>1, SnRange
    <3> QED BY <1>1, <1>2, <3>1
  <2>3. (rcv_nxt[o] + i - 1) % W = Sn(R + i)
    BY <1>3, <2>1, <2>2
  <2>4. Seg(p, R + i) \in buf /\ R + i <= N
    BY <1>5, <2>1, <2>2
  <2>5. Seg(p, R + i).sn = Sn(R + i)
    BY DEF Seg
  <2>6. \A s \in buf : s.sn = Sn(R + i) => s = Seg(p, R + i)
    BY <1>4, <2>1, <2>2
  <2>7. Nth(i) = Seg(p, R + i)
    BY <2>3, <2>4, <2>5, <2>6
  <2> QED BY <2>4, <2>7
<1>9. Len(queue) + n <= RcvWnd /\ R + n <= N /\ n \in Nat
  <2>1. n \in Nat /\ (n = 0 \/ n \in 1 .. n)
    BY <1>1, <1>2
  <2>2. R + n <= N
    <3>1. CASE n = 0
      BY <1>1, <3>1
    <3>2. CASE n \in 1 .. n
      BY <1>8, <3>2
    <3> QED BY <2>1, <3>1, <3>2
  <2>3. Len(queue) + n <= RcvWnd
    BY <1>1, <1>2
  <2> QED BY <2>1, <2>2, <2>3
<1>10. (rcv_nxt[o] + n) % W = Sn(R + n + 1)
  <2>1. R + 1 + n = R + n + 1
    BY <1>1, <1>9
  <2> QED BY <1>3, <1>9, <2>1
<1>11. t \in Seq(Segment) /\ Len(t) = Len(queue) + n /\ \A i \in 1 .. Len(t) : t[i] = Seg(p, T + i)
  <2> DEFINE u == [i \in 1 .. n |-> Nth(i)]
  <2> HIDE DEF Nth
  <2>1. u \in Seq(Segment) /\ Len(u) = n /\ \A i \in 1 .. n : u[i] = Seg(p, R + i)
    <3>1. \A i \in 1 .. n : Nth(i) \in Segment
      BY <1>8
    <3> QED BY <1>8, <1>9, <3>1
  <2> HIDE DEF u
  <2>4. t = queue \o u
    BY DEF u
  <2>2. t \in Seq(Segment) /\ Len(t) = Len(queue) + n
    BY <2>1, <2>4, ConcatProperties
  <2>3. ASSUME NEW i \in 1 .. Len(queue) + n PROVE t[i] = Seg(p, T + i)
    <3>1. CASE i \in 1 .. Len(queue)
      BY <2>1, <3>1 DEF u
    <3>2. CASE i > Len(queue)
      <4>1. i - Len(queue) \in 1 .. n /\ R + (i - Len(queue)) = T + i
        BY <1>1, <1>9, <3>2
      <4>2. t[i] = u[i - Len(queue)]
        BY <2>1, <3>2, <1>1, <1>9 DEF u
      <4> QED BY <2>1, <4>1, <4>2
    <3> QED BY <1>1, <1>9, <3>1, <3>2
  <2> HIDE DEF t
  <2> QED BY <2>2, <2>3
<1> HIDE DEF t
<1>12. b = buf \ {Seg(p, R + i) : i \in 1 .. n}
  <2> HIDE DEF Nth
  <2> QED BY <1>8
<1> HIDE DEF b
<1>13. \A s \in b : \E a \in R + n + 1 .. R + n + RcvWnd : a <= N /\ s = Seg(p, a)
  <2> SUFFICES ASSUME NEW s \in b PROVE \E a \in R + n + 1 .. R + n + RcvWnd : a <= N /\ s = Seg(p, a)
    OBVIOUS
  <2>1. PICK a \in R + 1 .. R + RcvWnd : a <= N /\ s = Seg(p, a)
    BY <1>12
  <2>2. a > R + n
    <3> SUFFICES ASSUME a <= R + n PROVE FALSE
      BY <1>1, <1>9, <2>1
    <3>1. a - R \in 1 .. n /\ R + (a - R) = a
      BY <1>1, <1>9, <2>1
    <3>2. Seg(p, a) \in {Seg(p, R + i) : i \in 1 .. n}
      BY <3>1
    <3> QED BY <1>12, <2>1, <3>2
  <2>3. a \in R + n + 1 .. R + n + RcvWnd
    BY <1>1, <1>9, <2>1, <2>2
  <2> QED BY <2>1, <2>3
<1>14. \A a \in 1 .. N : Seg(p, a) \in buf => a <= R + n \/ Seg(p, a) \in b
  <2> SUFFICES ASSUME NEW a \in 1 .. N, Seg(p, a) \in buf, a > R + n PROVE Seg(p, a) \in b
    BY <1>1, <1>9
  <2>1. ASSUME NEW i \in 1 .. n, Seg(p, a) = Seg(p, R + i) PROVE FALSE
    <3>1. a \in 1 .. Total(p) /\ R + i \in 1 .. Total(p) /\ a # R + i
      BY <1>1, <1>8, <1>9
    <3> QED BY <2>1, <3>1, SegIs
  <2> QED BY <1>12, <2>1
<1>15. Len(queue) + n = RcvWnd \/ \A s \in b : s.sn # Sn(R + n + 1)
  <2>1. R + 1 + n = R + n + 1 /\ (n = room => Len(queue) + n = RcvWnd)
    BY <1>1, <1>9
  <2> QED BY <1>6, <1>12, <2>1
<1>16. b \in SUBSET buf
  BY <1>12
<1> QED BY <1>7, <1>9, <1>10, <1>11, <1>13, <1>14, <1>15, <1>16 DEF Shifted

\* What a step that leaves the sender's queue alone leaves alone.
LEMMA FrameAccepted ==
    ASSUME NEW p \in Ends, Accepted(p), sent'[p] = sent[p], snd_queue'[p] = snd_queue[p],
           snd_nxt'[p] = snd_nxt[p]
    PROVE  Numb(p)' = Numb(p) /\ Accepted(p)'
<1>1. Numb(p)' = Numb(p)
  BY DEF Numb
<1>2. Accepted(p)'
  BY <1>1 DEF Accepted
<1> QED BY <1>1, <1>2

\* The same for its buffer.
LEMMA FrameBuffered ==
    ASSUME NEW p \in Ends, Buffered(p), Numb(p)' = Numb(p), snd_una'[p] = snd_una[p],
           snd_buf'[p] = snd_buf[p]
    PROVE  Buffered(p)'
<1>1. Una(p)' = Una(p)
  BY DEF Una
<1> QED BY <1>1 DEF Buffered

\* The same for the receiver, while the sender may number more segments.
LEMMA FrameReceiver ==
    ASSUME NEW p \in Ends, Queued(p), Waiting(p), got'[p] = got[p],
           rcv_queue'[Other(p)] = rcv_queue[Other(p)], rcv_nxt'[Other(p)] = rcv_nxt[Other(p)],
           rcv_buf'[Other(p)] = rcv_buf[Other(p)],
           Numb(p) \in Int, Numb(p)' \in Int, Numb(p) <= Numb(p)', Rcvd(p) \in Nat
    PROVE  /\ Taken(p)' = Taken(p) /\ Rcvd(p)' = Rcvd(p) /\ Queued(p)' /\ Waiting(p)'
           /\ \A a : Received(p, a)' <=> Received(p, a)
<1>1. Taken(p)' = Taken(p) /\ Rcvd(p)' = Rcvd(p)
  BY DEF Taken, Rcvd
<1>2. Queued(p)'
  BY <1>1 DEF Queued
<1>3. Waiting(p)'
  <2>1. ASSUME NEW s \in rcv_buf[Other(p)]
        PROVE  \E a \in Rcvd(p) + 1 .. Rcvd(p) + RcvWnd : a <= Numb(p)' /\ s = Seg(p, a)
    <3>1. PICK a \in Rcvd(p) + 1 .. Rcvd(p) + RcvWnd : a <= Numb(p) /\ s = Seg(p, a)
      BY DEF Waiting
    <3>2. RcvWnd \in Nat
      BY Constants
    <3>3. a <= Numb(p)'
      BY <3>1, <3>2
    <3> QED BY <3>1, <3>3
  <2> QED BY <1>1, <2>1 DEF Waiting
<1>4. \A a : Received(p, a)' <=> Received(p, a)
  BY <1>1 DEF Received
<1> QED BY <1>1, <1>2, <1>3, <1>4

\* What was said stays true as more is numbered and more arrives.
LEMMA FrameTruthful ==
    ASSUME NEW p \in Ends, Truthful(p),
           Numb(p) \in Int, Numb(p)' \in Int, Numb(p) <= Numb(p)',
           Rcvd(p) \in Nat, Rcvd(p)' \in Nat, Rcvd(p) <= Rcvd(p)',
           \A j \in 1 .. Len(net[p]) : Pos(net[p][j].una) \in Int,
           \A a \in 1 .. Numb(p) : Received(p, a) => Received(p, a)',
           \A sn \in acklist'[Other(p)] :
              sn \in acklist[Other(p)] \/ (Pos(sn) \in 1 .. Numb(p)' /\ Received(p, Pos(sn))'),
           \A i \in 1 .. Len(net'[p]) :
              \/ \E j \in 1 .. Len(net[p]) : net'[p][i] = net[p][j]
              \/ /\ Pos(net'[p][i].una) - 1 <= Rcvd(p)'
                 /\ \A sn \in net'[p][i].acks : Pos(sn) \in 1 .. Numb(p)' /\ Received(p, Pos(sn))',
           \A i \in 1 .. Len(net'[Other(p)]) :
              \/ \E j \in 1 .. Len(net[Other(p)]) : net'[Other(p)][i] = net[Other(p)][j]
              \/ \A s \in net'[Other(p)][i].push : \E a \in 1 .. Numb(p)' : s = Seg(p, a)
    PROVE  Truthful(p)'
<1>1. \A a \in 1 .. Numb(p) : a \in 1 .. Numb(p)'
  OBVIOUS
<1>2. \A sn \in acklist'[Other(p)] : Pos(sn) \in 1 .. Numb(p)' /\ Received(p, Pos(sn))'
  BY <1>1 DEF Truthful, Honest
<1>3. ASSUME NEW i \in 1 .. Len(net'[p])
      PROVE  /\ Pos(net'[p][i].una) - 1 <= Rcvd(p)'
             /\ \A sn \in net'[p][i].acks : Pos(sn) \in 1 .. Numb(p)' /\ Received(p, Pos(sn))'
  <2>1. ASSUME NEW j \in 1 .. Len(net[p]), net'[p][i] = net[p][j]
        PROVE  /\ Pos(net'[p][i].una) - 1 <= Rcvd(p)'
               /\ \A sn \in net'[p][i].acks : Pos(sn) \in 1 .. Numb(p)' /\ Received(p, Pos(sn))'
    <3>1. Pos(net[p][j].una) - 1 <= Rcvd(p)
      BY DEF Truthful
    <3>2. Pos(net[p][j].una) \in Int
      OBVIOUS
    <3>3. \A sn \in net[p][j].acks : Pos(sn) \in 1 .. Numb(p)' /\ Received(p, Pos(sn))'
      BY <1>1 DEF Truthful, Honest
    <3>4. Pos(net[p][j].una) - 1 <= Rcvd(p)'
      BY <3>1, <3>2
    <3> QED BY <2>1, <3>3, <3>4
  <2> QED BY <2>1
<1>4. \A i \in 1 .. Len(net'[Other(p)]) :
         \A s \in net'[Other(p)][i].push : \E a \in 1 .. Numb(p)' : s = Seg(p, a)
  BY <1>1 DEF Truthful
<1> QED BY <1>2, <1>3, <1>4 DEF Truthful, Honest

\* What the invariant says of the counts of one stream.
LEMMA Facts ==
    ASSUME ShortConnection, KcpInv, NEW p \in Ends
    PROVE  /\ Types /\ Carried(p) /\ Other(p) \in Ends
           /\ Total(p) \in Nat /\ Total(p) + RcvWnd <= W \div 2
           /\ Numb(p) \in 0 .. Total(p) /\ Taken(p) \in Nat
           /\ Rcvd(p) \in 0 .. Numb(p) /\ Rcvd(p) = Taken(p) + Len(rcv_queue[Other(p)])
           /\ Una(p) \in 0 .. Numb(p)
           /\ Len(rcv_queue[Other(p)]) \in 0 .. RcvWnd /\ Len(snd_buf[p]) \in Nat
           /\ Len(snd_queue[p]) \in Nat
           /\ Len(sent[p]) \in 0 .. Len(Parts[p]) /\ Len(got[p]) \in 0 .. Len(Parts[p])
           /\ \A j \in 1 .. Len(net[p]) : Pos(net[p][j].una) \in Int
<1>1. Types /\ Carried(p) /\ Other(p) \in Ends
  BY TwoEnds DEF KcpInv
<1>2. /\ Len(sent[p]) <= Len(Parts[p]) /\ Numb(p) >= 0 /\ Len(got[p]) <= Len(Parts[p])
      /\ Una(p) \in 0 .. Numb(p) /\ Len(rcv_queue[Other(p)]) <= RcvWnd /\ Rcvd(p) <= Numb(p)
  BY <1>1 DEF Carried, Accepted, Buffered, Queued
<1>3. /\ Numb(p) \in 0 .. Total(p) /\ Total(p) \in Nat /\ Taken(p) \in Nat
      /\ Len(rcv_queue[Other(p)]) \in Nat /\ Len(snd_buf[p]) \in Nat
      /\ Len(snd_queue[p]) \in Nat /\ Rcvd(p) \in Nat
      /\ Total(p) + RcvWnd <= W \div 2
      /\ Len(sent[p]) \in 0 .. Len(Parts[p]) /\ Len(got[p]) \in 0 .. Len(Parts[p])
  BY <1>1, <1>2, Counts
<1>4. RcvWnd \in Nat /\ Rcvd(p) = Taken(p) + Len(rcv_queue[Other(p)])
  BY Constants DEF Rcvd
<1>5. \A j \in 1 .. Len(net[p]) : Pos(net[p][j].una) \in Int
  <2> SUFFICES ASSUME NEW j \in 1 .. Len(net[p]) PROVE Pos(net[p][j].una) \in Int
    OBVIOUS
  <2>1. net[p][j] \in Packets
    <3>1. net[p] \in Seq(Packets)
      BY <1>1 DEF Types
    <3> QED BY <3>1
  <2>2. net[p][j].una \in Int
    BY <2>1, Constants DEF Packets
  <2> QED BY <2>2, Constants DEF Pos
<1> QED BY <1>1, <1>2, <1>3, <1>4, <1>5

\* A stream that a step leaves alone, but for datagrams that are gone.
LEMMA FrameCarried ==
    ASSUME ShortConnection, KcpInv, NEW p \in Ends,
           sent'[p] = sent[p], snd_queue'[p] = snd_queue[p], snd_nxt'[p] = snd_nxt[p],
           snd_una'[p] = snd_una[p], snd_buf'[p] = snd_buf[p], got'[p] = got[p],
           rcv_queue'[Other(p)] = rcv_queue[Other(p)], rcv_nxt'[Other(p)] = rcv_nxt[Other(p)],
           rcv_buf'[Other(p)] = rcv_buf[Other(p)], acklist'[Other(p)] \subseteq acklist[Other(p)],
           \A i \in 1 .. Len(net'[p]) : \E j \in 1 .. Len(net[p]) : net'[p][i] = net[p][j],
           \A i \in 1 .. Len(net'[Other(p)]) :
              \E j \in 1 .. Len(net[Other(p)]) : net'[Other(p)][i] = net[Other(p)][j]
    PROVE  Carried(p)'
<1>1. /\ Carried(p) /\ Numb(p) \in Nat /\ Rcvd(p) \in Nat
      /\ \A j \in 1 .. Len(net[p]) : Pos(net[p][j].una) \in Int
  BY Facts
<1>2. Accepted(p)' /\ Numb(p)' = Numb(p)
  BY <1>1, FrameAccepted DEF Carried
<1>3. Buffered(p)'
  BY <1>1, <1>2, FrameBuffered DEF Carried
<1>4. /\ Rcvd(p)' = Rcvd(p) /\ Queued(p)' /\ Waiting(p)'
      /\ \A a : Received(p, a)' <=> Received(p, a)
  BY <1>1, <1>2, FrameReceiver DEF Carried
<1>5. Remembered(p)'
  BY <1>1, <1>2, <1>4 DEF Carried, Remembered
<1>6. Truthful(p)'
  BY <1>1, <1>2, <1>4, FrameTruthful DEF Carried
<1> QED BY <1>2, <1>3, <1>4, <1>5, <1>6 DEF Carried

\* A message is cut into segments that go to the end of the send queue (ikcp_send).
LEMMA SendStep ==
    ASSUME ShortConnection, KcpInv, NEW e \in Ends, ikcp_send(e)
    PROVE  KcpInv'
<1> DEFINE k == Len(sent[e]) + 1
           m == Message(e, k)
           new == [i \in DOMAIN m |-> [frg |-> Len(m) - i, data |-> m[i]]]
           n == Len(snd_queue[e])
<1>1. /\ Types /\ Carried(e) /\ Numb(e) \in 0 .. Total(e) /\ n \in Nat /\ Len(sent[e]) \in Nat
      /\ Rcvd(e) \in 0 .. Numb(e) /\ Len(sent[e]) < Len(Parts[e]) /\ Len(Parts[e]) \in Nat
      /\ \A j \in 1 .. Len(net[e]) : Pos(net[e][j].una) \in Int
  <2>1. Len(sent[e]) < Len(Parts[e])
    BY DEF ikcp_send
  <2>2. Len(Parts[e]) \in Nat
    BY BeforeDef
  <2> QED BY <2>1, <2>2, Facts
<1>2. k \in 1 .. Len(Parts[e]) /\ k - 1 \in 0 .. Len(Parts[e]) /\ k \in 0 .. Len(Parts[e]) /\ k - 1 = Len(sent[e])
  BY <1>1
<1>3. /\ Parts[e][k] \in Nat \ {0} /\ Before(e)[k] = Before(e)[k - 1] + Parts[e][k]
      /\ Before(e)[k - 1] \in Nat
  BY <1>2, BeforeDef
<1>4. DOMAIN m = 1 .. Parts[e][k] /\ Len(m) = Parts[e][k] /\ \A i \in DOMAIN m : m[i] = <<e, k, i>>
  <2>1. m = [i \in 1 .. Parts[e][k] |-> <<e, k, i>>]
    BY DEF Message
  <2> QED BY <1>3, <2>1
<1>5. m \in Seq(Datum)
  <2>1. \A i \in 1 .. Parts[e][k] : <<e, k, i>> \in Datum
    BY <1>2, <1>3 DEF Datum
  <2>2. m = [i \in 1 .. Parts[e][k] |-> <<e, k, i>>]
    BY DEF Message
  <2> QED BY <1>3, <2>1, <2>2
<1> HIDE DEF m
<1>6. new \in Seq(Unnumbered) /\ Len(new) = Parts[e][k]
      /\ \A i \in 1 .. Parts[e][k] : new[i] = [frg |-> Parts[e][k] - i, data |-> <<e, k, i>>]
  <2>1. new = [i \in 1 .. Parts[e][k] |-> [frg |-> Parts[e][k] - i, data |-> <<e, k, i>>]]
    BY <1>4
  <2>2. \A i \in 1 .. Parts[e][k] : [frg |-> Parts[e][k] - i, data |-> <<e, k, i>>] \in Unnumbered
    BY <1>2, <1>3 DEF Unnumbered, Datum
  <2> HIDE DEF new
  <2> QED BY <1>3, <2>1, <2>2
<1>7. /\ snd_queue' = [snd_queue EXCEPT ![e] = snd_queue[e] \o new]
      /\ sent' = [sent EXCEPT ![e] = Append(sent[e], m)]
      /\ UNCHANGED <<snd_buf, snd_una, snd_nxt, rmt_wnd, asking, receiver, net, faults, got>>
  BY DEF ikcp_send, m
<1> HIDE DEF new
<1>8. snd_queue[e] \in Seq(Unnumbered) /\ sent[e] \in Seq(Seq(Datum))
  BY <1>1 DEF Types
<1>9. /\ snd_queue[e] \o new \in Seq(Unnumbered) /\ Len(snd_queue[e] \o new) = n + Parts[e][k]
      /\ \A i \in 1 .. n + Parts[e][k] : (snd_queue[e] \o new)[i] =
            IF i <= n THEN snd_queue[e][i] ELSE new[i - n]
  <2>1. /\ snd_queue[e] \o new \in Seq(Unnumbered)
        /\ Len(snd_queue[e] \o new) = Len(snd_queue[e]) + Len(new)
        /\ \A i \in 1 .. Len(snd_queue[e]) + Len(new) : (snd_queue[e] \o new)[i] =
              IF i <= Len(snd_queue[e]) THEN snd_queue[e][i] ELSE new[i - Len(snd_queue[e])]
    BY <1>6, <1>8, ConcatProperties
  <2> QED BY <1>6, <2>1
<1>10. /\ Append(sent[e], m) \in Seq(Seq(Datum)) /\ Len(Append(sent[e], m)) = k
       /\ \A i \in 1 .. Len(sent[e]) : Append(sent[e], m)[i] = sent[e][i]
       /\ Append(sent[e], m)[k] = m
  BY <1>5, <1>8, AppendProperties
<1>11. Types'
  BY <1>1, <1>7, <1>9, <1>10 DEF Types, receiver
<1>12. snd_queue'[e] = snd_queue[e] \o new /\ sent'[e] = Append(sent[e], m)
  BY <1>1, <1>7 DEF Types
<1>13. Numb(e)' = Numb(e)
  <2>1. Numb(e)' = Before(e)[k] - (n + Parts[e][k])
    BY <1>9, <1>10, <1>12 DEF Numb
  <2>2. Numb(e) = Before(e)[k - 1] - n
    BY <1>2 DEF Numb
  <2> HIDE DEF k, n
  <2> QED BY <1>1, <1>3, <2>1, <2>2
<1>14. Accepted(e)'
  <2>1. Len(sent'[e]) <= Len(Parts[e])
    BY <1>1, <1>2, <1>10, <1>12
  <2>2. ASSUME NEW i \in 1 .. k PROVE sent'[e][i] = Message(e, i)
    <3>1. CASE i = k
      BY <1>10, <1>12, <3>1 DEF m
    <3>2. CASE i \in 1 .. Len(sent[e])
      BY <1>1, <1>10, <1>12, <3>2 DEF Carried, Accepted
    <3> QED BY <1>1, <3>1, <3>2
  <2>3. snd_nxt'[e] = Sn(Numb(e)' + 1)
    BY <1>1, <1>7, <1>13 DEF Carried, Accepted
  <2>4. ASSUME NEW i \in 1 .. n + Parts[e][k] PROVE snd_queue'[e][i] = Piece(e)[Numb(e)' + i]
    <3>1. CASE i <= n
      <4>1. i \in 1 .. n
        BY <1>1, <3>1
      <4>2. snd_queue'[e][i] = snd_queue[e][i]
        BY <1>9, <1>12, <3>1
      <4> QED BY <1>1, <1>13, <4>1, <4>2 DEF Carried, Accepted
    <3>2. CASE i > n
      <4>1. i - n \in 1 .. Parts[e][k]
        <5> DEFINE size == Parts[e][k]
        <5>1. n \in Nat /\ size \in Nat /\ i \in 1 .. n + size
          BY <1>1, <1>3
        <5> HIDE DEF n, size
        <5>2. i - n \in 1 .. size
          BY <3>2, <5>1
        <5> QED BY <5>2 DEF size
      <4>2. Piece(e)[Before(e)[k - 1] + (i - n)] = [frg |-> Parts[e][k] - (i - n), data |-> <<e, k, i - n>>]
        BY <1>2, <4>1, PieceAt
      <4>3. Before(e)[k - 1] + (i - n) = Numb(e) + i
        <5>1. Numb(e) = Before(e)[k - 1] - n
          BY <1>2 DEF Numb
        <5> HIDE DEF k, n
        <5> QED BY <1>1, <1>3, <5>1
      <4>4. snd_queue'[e][i] = new[i - n]
        BY <1>1, <1>9, <1>12, <3>2
      <4> QED BY <1>6, <1>13, <4>1, <4>2, <4>3, <4>4
    <3> QED BY <1>1, <3>1, <3>2
  <2>5. Len(sent'[e]) = k /\ Len(snd_queue'[e]) = n + Parts[e][k]
    BY <1>9, <1>10, <1>12
  <2> QED BY <1>1, <1>13, <2>1, <2>2, <2>3, <2>4, <2>5 DEF Accepted
<1>15. Carried(e)'
  <2>1. Buffered(e)'
    BY <1>1, <1>7, <1>13, FrameBuffered DEF Carried
  <2>2. /\ Rcvd(e)' = Rcvd(e) /\ Queued(e)' /\ Waiting(e)'
        /\ \A a : Received(e, a)' <=> Received(e, a)
    BY <1>1, <1>7, <1>13, FrameReceiver DEF Carried, receiver
  <2>3. Remembered(e)'
    BY <1>1, <1>7, <1>13, <2>2 DEF Carried, Remembered
  <2>4. Truthful(e)'
    BY <1>1, <1>7, <1>13, <2>2, FrameTruthful DEF Carried, receiver
  <2> QED BY <1>14, <2>1, <2>2, <2>3, <2>4 DEF Carried
<1>16. ASSUME NEW p \in Ends, p # e PROVE Carried(p)'
  BY <1>7, <1>16, <1>1, FrameCarried DEF receiver, Types
<1> QED BY <1>11, <1>15, <1>16 DEF KcpInv

\* When a receiver has moved what is in order: the queue and the buffer are as they
\* should be, and what had arrived is still there.
LEMMA Advance ==
    ASSUME ShortConnection, KcpInv, NEW p \in Ends,
           NEW queue \in Seq(Segment), NEW buf \in SUBSET Segment,
           Len(queue) <= RcvWnd, Taken(p)' \in Nat, Taken(p)' + Len(queue) = Rcvd(p),
           Len(got'[p]) <= Len(Parts[p]), Numb(p)' = Numb(p),
           \A i \in 1 .. Len(queue) : queue[i] = Seg(p, Taken(p)' + i),
           \A s \in buf : \E a \in Rcvd(p) + 1 .. Rcvd(p) + RcvWnd : a <= Numb(p) /\ s = Seg(p, a),
           rcv_buf[Other(p)] \subseteq buf, Moved(Other(p), buf, queue)
    PROVE  /\ rcv_nxt' \in [Ends -> 0 .. W - 1] /\ rcv_buf' \in [Ends -> SUBSET Segment]
           /\ rcv_queue' \in [Ends -> Seq(Segment)]
           /\ \A q \in Ends : q # Other(p) => /\ rcv_nxt'[q] = rcv_nxt[q] /\ rcv_buf'[q] = rcv_buf[q]
                                              /\ rcv_queue'[q] = rcv_queue[q]
           /\ Rcvd(p)' \in Rcvd(p) .. Numb(p) /\ Queued(p)' /\ Waiting(p)'
           /\ \A a \in 1 .. Numb(p) : Received(p, a) \/ Seg(p, a) \in buf => Received(p, a)'
<1> DEFINE o == Other(p)
           T == Taken(p)'
           R == Rcvd(p)
           N == Numb(p)
<1>1. /\ Types /\ Carried(p) /\ o \in Ends /\ N \in 0 .. Total(p) /\ R \in 0 .. N /\ T \in Nat
      /\ R = T + Len(queue) /\ Total(p) \in Nat /\ Len(queue) \in Nat /\ RcvWnd \in Nat
      /\ rcv_nxt[o] = Sn(R + 1)
  <2>1. rcv_nxt[o] = Sn(R + 1)
    BY Facts DEF Carried, Queued
  <2> QED BY <2>1, Facts, Constants
<1>2. /\ rcv_nxt \in [Ends -> 0 .. W - 1] /\ rcv_buf \in [Ends -> SUBSET Segment]
      /\ rcv_queue \in [Ends -> Seq(Segment)]
  BY <1>1 DEF Types
<1> HIDE DEF T, R, N
<1>3. PICK n \in Nat : Shifted(p, T, N, queue, buf, R, n)
  <2>1. /\ R <= N
        /\ \A i \in 1 .. Len(queue) : queue[i] = Seg(p, T + i)
        /\ \A s \in buf : \E a \in R + 1 .. R + RcvWnd : a <= N /\ s = Seg(p, a)
    BY <1>1 DEF T, R, N
  <2> QED BY <1>1, <2>1, MovedIs
<1>4. PICK t \in Seq(Segment) :
         /\ rcv_queue' = [rcv_queue EXCEPT ![o] = t] /\ Len(t) = Len(queue) + n
         /\ \A i \in 1 .. Len(t) : t[i] = Seg(p, T + i)
  BY <1>3 DEF Shifted
<1>5. PICK b \in SUBSET buf :
         /\ rcv_buf' = [rcv_buf EXCEPT ![o] = b]
         /\ \A s \in b : \E a \in R + n + 1 .. R + n + RcvWnd : a <= N /\ s = Seg(p, a)
         /\ \A a \in 1 .. N : Seg(p, a) \in buf => a <= R + n \/ Seg(p, a) \in b
         /\ Len(queue) + n = RcvWnd \/ \A s \in b : s.sn # Sn(R + n + 1)
  BY <1>3 DEF Shifted
<1>3a. /\ Len(queue) + n <= RcvWnd /\ R + n <= N
       /\ rcv_nxt' = [rcv_nxt EXCEPT ![o] = Sn(R + n + 1)]
  BY <1>3 DEF Shifted
<1>6. rcv_nxt'[o] = Sn(R + n + 1) /\ rcv_queue'[o] = t /\ rcv_buf'[o] = b
  BY <1>1, <1>2, <1>3a, <1>4, <1>5
<1>7. /\ rcv_nxt' \in [Ends -> 0 .. W - 1] /\ rcv_buf' \in [Ends -> SUBSET Segment]
      /\ rcv_queue' \in [Ends -> Seq(Segment)]
  <2>1. R + n + 1 \in Nat
    BY <1>1
  <2>2. Sn(R + n + 1) \in 0 .. W - 1
    BY <2>1, SnRange
  <2> QED BY <1>2, <1>3a, <1>4, <1>5, <2>2
<1>8. \A q \in Ends : q # o => rcv_nxt'[q] = rcv_nxt[q] /\ rcv_buf'[q] = rcv_buf[q] /\ rcv_queue'[q] = rcv_queue[q]
  BY <1>2, <1>3a, <1>4, <1>5
<1>9. Rcvd(p)' = R + n
  <2>1. Rcvd(p)' = T + Len(t)
    BY <1>6 DEF Rcvd, T
  <2> QED BY <1>1, <1>4, <2>1
<1>10. Rcvd(p)' \in R .. N
  BY <1>1, <1>3a, <1>9
<1>11. Queued(p)'
  <2>1. Len(rcv_queue'[o]) <= RcvWnd
    BY <1>3a, <1>4, <1>6
  <2>2. \A i \in 1 .. Len(rcv_queue'[o]) : rcv_queue'[o][i] = Seg(p, Taken(p)' + i)
    BY <1>4, <1>6 DEF T
  <2>3. rcv_nxt'[o] = Sn(Rcvd(p)' + 1)
    BY <1>6, <1>9
  <2>4. Rcvd(p)' <= Numb(p)'
    BY <1>1, <1>10 DEF N
  <2> QED BY <2>1, <2>2, <2>3, <2>4 DEF Queued
<1>12. Waiting(p)'
  <2>1. \A s \in b : \E a \in Rcvd(p)' + 1 .. Rcvd(p)' + RcvWnd : a <= Numb(p)' /\ s = Seg(p, a)
    BY <1>5, <1>9 DEF N
  <2>2. Len(rcv_queue'[o]) = RcvWnd \/ \A s \in b : s.sn # Sn(Rcvd(p)' + 1)
    BY <1>4, <1>5, <1>6, <1>9
  <2> QED BY <1>6, <2>1, <2>2 DEF Waiting
<1>13. ASSUME NEW a \in 1 .. N, Received(p, a) \/ Seg(p, a) \in buf PROVE Received(p, a)'
  <2>1. CASE a <= R
    <3>1. a <= Rcvd(p)'
      BY <1>1, <1>9, <2>1
    <3> QED BY <3>1 DEF Received
  <2>2. CASE Seg(p, a) \in buf
    <3>1. a <= Rcvd(p)' \/ Seg(p, a) \in rcv_buf'[o]
      BY <1>5, <1>6, <1>9, <2>2
    <3> QED BY <3>1 DEF Received
  <2> QED BY <1>13, <2>1, <2>2 DEF Received, R
<1> QED BY <1>7, <1>8, <1>10, <1>11, <1>12, <1>13 DEF R, N

\* What ikcp_recv hands over is the next message, whole, and one that was sent.
LEMMA RecvIs ==
    ASSUME ShortConnection, KcpInv, NEW p \in Ends, ikcp_recv(Other(p))
    PROVE  /\ Len(got[p]) < Len(sent[p])
           /\ got' = [got EXCEPT ![p] = Append(got[p], Message(p, Len(got[p]) + 1))]
           /\ Message(p, Len(got[p]) + 1) \in Seq(Datum)
           /\ \E rest \in Seq(Segment) :
                 /\ Moved(Other(p), rcv_buf[Other(p)], rest)
                 /\ Len(rest) <= RcvWnd
                 /\ Before(p)[Len(got[p]) + 1] + Len(rest) = Rcvd(p)
                 /\ \A i \in 1 .. Len(rest) :
                       rest[i] = Seg(p, Before(p)[Len(got[p]) + 1] + i)
           /\ tell' \in [Ends -> BOOLEAN]
<1> DEFINE o == Other(p)
           queue == rcv_queue[o]
           g == Len(got[p])
           k == g + 1
           T == Taken(p)
           P == Parts[p][k]
           last == CHOOSE i \in DOMAIN queue : queue[i].frg = 0 /\ \A j \in 1 .. i - 1 : queue[j].frg # 0
           rest == SubSeq(queue, last + 1, Len(queue))
<1>1. /\ Types /\ Carried(p) /\ o \in Ends /\ Other(o) = p /\ Numb(p) \in 0 .. Total(p) /\ Rcvd(p) \in 0 .. Numb(p)
      /\ T \in Nat /\ Rcvd(p) = T + Len(queue) /\ Total(p) \in Nat /\ Len(queue) \in 0 .. RcvWnd
      /\ g \in 0 .. Len(Parts[p]) /\ Len(sent[p]) \in 0 .. Len(Parts[p]) /\ Len(snd_queue[p]) \in Nat
      /\ RcvWnd \in Nat
  BY Facts, TwoEnds, Constants
<1>2. /\ Len(Parts[p]) \in Nat /\ Total(p) = Before(p)[Len(Parts[p])] /\ T = Before(p)[g]
      /\ Numb(p) = Before(p)[Len(sent[p])] - Len(snd_queue[p])
  BY BeforeDef DEF Taken, Numb
<1>3. queue \in Seq(Segment) /\ \A i \in 1 .. Len(queue) : queue[i] = Seg(p, T + i)
  BY <1>1 DEF Types, Carried, Queued
<1>4. queue # <<>> /\ Len(queue) >= Head(queue).frg + 1
  BY DEF ikcp_recv, Complete
<1>5. Len(queue) >= 1 /\ Head(queue) = queue[1]
  BY <1>3, <1>4
<1>6. g < Len(sent[p])
  <2> SUFFICES ASSUME Len(sent[p]) <= g PROVE FALSE
    BY <1>1
  <2> DEFINE b == Before(p)[Len(sent[p])]
             l == Len(queue)
             m == Len(snd_queue[p])
  <2>1. b <= T /\ b \in Nat
    BY <1>1, <1>2, BeforeMono
  <2>2. Numb(p) = b - m /\ m \in Nat /\ l \in Nat /\ l >= 1 /\ T \in Nat /\ T + l <= Numb(p)
    BY <1>1, <1>2, <1>5
  <2> HIDE DEF b, l, m, T
  <2> QED BY <2>1, <2>2
<1>7. k \in 1 .. Len(Parts[p]) /\ k - 1 = g /\ k \in 0 .. Len(Parts[p])
  <2> DEFINE n == Len(Parts[p])
             s == Len(sent[p])
  <2>1. g \in 0 .. n /\ s \in 0 .. n /\ n \in Nat
    BY <1>1, <1>2
  <2>2. g < s
    BY <1>6
  <2> HIDE DEF g, n, s
  <2>3. k \in 1 .. n /\ k - 1 = g /\ k \in 0 .. n
    BY <2>1, <2>2
  <2> QED BY <2>3 DEF n
<1>8. P \in Nat \ {0} /\ Before(p)[k] = T + P
  <2> HIDE DEF g, k, T
  <2>1. T = Before(p)[k - 1]
    BY <1>2, <1>7
  <2> QED BY <2>1, <1>7, BeforeDef
<1>9. \A i \in 1 .. P : Piece(p)[T + i] = [frg |-> P - i, data |-> <<p, k, i>>]
  <2> HIDE DEF g, k, T
  <2>1. T = Before(p)[k - 1]
    BY <1>2, <1>7
  <2> QED BY <2>1, <1>7, PieceAt
<1>10. P <= Len(queue)
  <2>1. 1 \in 1 .. P /\ 1 \in 1 .. Len(queue)
    <3> DEFINE n == Len(queue)
    <3>1. P \in Nat /\ P # 0 /\ n \in Nat /\ 1 <= n
      BY <1>3, <1>5, <1>8, LenProperties
    <3> HIDE DEF n, P
    <3>2. 1 \in 1 .. P /\ 1 \in 1 .. n
      BY <3>1
    <3> QED BY <3>2 DEF n
  <2>2. queue[1].frg = P - 1
    <3> HIDE DEF queue, P, T
    <3>1. queue[1] = Seg(p, T + 1)
      BY <1>3, <2>1
    <3>2. Piece(p)[T + 1] = [frg |-> P - 1, data |-> <<p, k, 1>>]
      BY <1>9, <2>1
    <3> QED BY <3>1, <3>2 DEF Seg
  <2> DEFINE l == Len(queue)
             frg == queue[1].frg
  <2>3. frg = P - 1 /\ P \in Nat /\ l \in Nat
    BY <1>5, <1>8, <2>2, LenProperties
  <2>5. l >= frg + 1
    BY <1>4, <1>5
  <2> HIDE DEF l, frg, P
  <2>4. P <= l
    BY <2>3, <2>5
  <2> QED BY <2>4 DEF l
<1>11. \A i \in 1 .. P : queue[i].frg = P - i /\ queue[i].data = <<p, k, i>>
  <2> SUFFICES ASSUME NEW i \in 1 .. P PROVE queue[i].frg = P - i /\ queue[i].data = <<p, k, i>>
    OBVIOUS
  <2>1. i \in 1 .. Len(queue)
    <3> DEFINE l == Len(queue)
    <3>1. P \in Nat /\ l \in Nat /\ P <= l
      BY <1>1, <1>8, <1>10
    <3> HIDE DEF l, P
    <3>2. i \in 1 .. l
      BY <3>1
    <3> QED BY <3>2 DEF l
  <2>2. queue[i] = Seg(p, T + i)
    BY <1>3, <2>1
  <2> HIDE DEF queue, P, T
  <2>3. Piece(p)[T + i] = [frg |-> P - i, data |-> <<p, k, i>>]
    BY <1>9
  <2> QED BY <2>2, <2>3 DEF Seg
<1>12. last = P
  <2> DEFINE Is(i) == queue[i].frg = 0 /\ \A j \in 1 .. i - 1 : queue[j].frg # 0
  <2>1. P \in DOMAIN queue /\ DOMAIN queue = 1 .. Len(queue)
    <3> HIDE DEF queue, P
    <3>1. DOMAIN queue = 1 .. Len(queue)
      BY <1>3
    <3> QED BY <1>1, <1>8, <1>10, <3>1
  <2>2. Is(P)
    <3>1. P \in 1 .. P /\ P - P = 0 /\ \A j \in 1 .. P - 1 : j \in 1 .. P /\ P - j # 0
      BY <1>8
    <3> QED BY <1>11, <3>1
  <2>3. ASSUME NEW i \in DOMAIN queue, Is(i) PROVE i = P
    <3>1. CASE i < P
      <4>1. i \in 1 .. P /\ P - i # 0
        BY <1>8, <2>1, <3>1
      <4> QED BY <1>11, <2>3, <4>1
    <3>2. CASE i > P
      <4>1. P \in 1 .. i - 1
        BY <1>8, <2>1, <3>2
      <4> QED BY <2>2, <2>3, <4>1
    <3>3. i \in Int /\ P \in Int
      BY <1>1, <1>8, <2>1
    <3> QED BY <3>1, <3>2, <3>3
  <2> HIDE DEF Is
  <2>4. (CHOOSE i \in DOMAIN queue : Is(i)) = P
    BY <2>1, <2>2, <2>3
  <2> QED BY <2>4 DEF Is
<1>13. [i \in 1 .. P |-> queue[i].data] = Message(p, k)
  BY <1>11 DEF Message
<1>14. /\ got' = [got EXCEPT ![p] = Append(got[p], [i \in 1 .. last |-> queue[i].data])]
       /\ Moved(o, rcv_buf[o], rest)
       /\ tell' \in [Ends -> BOOLEAN]
  <2>1. tell \in [Ends -> BOOLEAN] /\ got \in [Ends -> Seq(Seq(Datum))]
    BY <1>1 DEF Types
  <2> QED BY <1>1, <2>1 DEF ikcp_recv
<1>15. Message(p, k) \in Seq(Datum)
  <2>1. \A i \in 1 .. P : <<p, k, i>> \in Datum
    BY <1>7, <1>8 DEF Datum
  <2> QED BY <1>8, <2>1 DEF Message
<1> HIDE DEF last
<1>16. /\ rest \in Seq(Segment) /\ Len(rest) = Len(queue) - P
       /\ \A i \in 1 .. Len(queue) - P : rest[i] = queue[P + i]
  <2>1. /\ P + 1 \in Int /\ Len(queue) \in Int
        /\ \A i \in P + 1 .. Len(queue) : queue[i] \in Segment
    <3> HIDE DEF queue, P
    <3>1. \A i \in P + 1 .. Len(queue) : i \in 1 .. Len(queue)
      BY <1>1, <1>8
    <3> QED BY <1>1, <1>3, <1>8, <3>1
  <2>2. /\ rest \in Seq(Segment)
        /\ Len(rest) = IF P + 1 <= Len(queue) THEN Len(queue) - (P + 1) + 1 ELSE 0
        /\ \A i \in 1 .. Len(queue) - (P + 1) + 1 : rest[i] = queue[(P + 1) + i - 1]
    <3>1. rest = SubSeq(queue, P + 1, Len(queue))
      BY <1>12
    <3> HIDE DEF queue, P, rest
    <3> QED BY <2>1, <3>1, SubSeqProperties
  <2> HIDE DEF queue, rest, P
  <2> QED BY <1>1, <1>8, <1>10, <2>2
<1>17. Before(p)[k] + Len(rest) = Rcvd(p) /\ Len(rest) <= RcvWnd
  <2> HIDE DEF queue, rest, P, T
  <2> QED BY <1>1, <1>8, <1>10, <1>16
<1>18. ASSUME NEW i \in 1 .. Len(rest) PROVE rest[i] = Seg(p, Before(p)[k] + i)
  <2>1. P + i \in 1 .. Len(queue) /\ T + (P + i) = Before(p)[k] + i /\ i \in 1 .. Len(queue) - P
    <3> HIDE DEF queue, rest, P, T
    <3> QED BY <1>1, <1>8, <1>10, <1>16, <1>18
  <2> HIDE DEF rest
  <2> QED BY <1>3, <1>16, <2>1
<1> HIDE DEF rest
<1> QED BY <1>6, <1>12, <1>13, <1>14, <1>15, <1>16, <1>17, <1>18

\* Handing a message over and moving what now has room (ikcp_recv).
LEMMA RecvStep ==
    ASSUME ShortConnection, KcpInv, NEW e \in Ends, ikcp_recv(e)
    PROVE  KcpInv'
<1> DEFINE p == Other(e)
<1>1. p \in Ends /\ Other(p) = e /\ p # e /\ \A q \in Ends : q = e \/ q = p
  BY TwoEnds
<1> HIDE DEF p
<1>2. /\ Types /\ Carried(p) /\ Numb(p) \in 0 .. Total(p) /\ Rcvd(p) \in 0 .. Numb(p)
      /\ Len(got[p]) \in 0 .. Len(Parts[p]) /\ Len(sent[p]) \in 0 .. Len(Parts[p])
      /\ \A j \in 1 .. Len(net[p]) : Pos(net[p][j].una) \in Int
  BY <1>1, Facts
<1>3. /\ Len(got[p]) < Len(sent[p])
      /\ got' = [got EXCEPT ![p] = Append(got[p], Message(p, Len(got[p]) + 1))]
      /\ Message(p, Len(got[p]) + 1) \in Seq(Datum)
      /\ tell' \in [Ends -> BOOLEAN]
  BY <1>1, RecvIs
<1>4. PICK rest \in Seq(Segment) :
         /\ Moved(e, rcv_buf[e], rest)
         /\ Len(rest) <= RcvWnd
         /\ Before(p)[Len(got[p]) + 1] + Len(rest) = Rcvd(p)
         /\ \A i \in 1 .. Len(rest) : rest[i] = Seg(p, Before(p)[Len(got[p]) + 1] + i)
  BY <1>1, RecvIs
<1>5. UNCHANGED <<sender, acklist, net, faults, sent>>
  BY DEF ikcp_recv
<1>6. got[p] \in Seq(Seq(Datum)) /\ got \in [Ends -> Seq(Seq(Datum))] /\ rcv_buf[e] \in SUBSET Segment
  BY <1>1, <1>2 DEF Types
<1>7. /\ got'[p] \in Seq(Seq(Datum)) /\ Len(got'[p]) = Len(got[p]) + 1 /\ got'[e] = got[e]
      /\ got' \in [Ends -> Seq(Seq(Datum))]
  <2>1. /\ Append(got[p], Message(p, Len(got[p]) + 1)) \in Seq(Seq(Datum))
        /\ Len(Append(got[p], Message(p, Len(got[p]) + 1))) = Len(got[p]) + 1
    BY <1>3, <1>6, AppendProperties
  <2> QED BY <1>1, <1>3, <1>6, <2>1
<1>8. Taken(p)' = Before(p)[Len(got[p]) + 1]
  BY <1>7 DEF Taken
<1>9. Accepted(p)' /\ Numb(p)' = Numb(p)
  BY <1>1, <1>2, <1>5, FrameAccepted DEF Carried, sender
<1>10. Taken(p)' \in Nat /\ Len(got'[p]) <= Len(Parts[p])
  <2>1. Len(got[p]) + 1 \in 0 .. Len(Parts[p])
    BY <1>2, <1>3
  <2> QED BY <1>1, <1>7, <1>8, <2>1, BeforeDef
<1>11. /\ rcv_nxt' \in [Ends -> 0 .. W - 1] /\ rcv_buf' \in [Ends -> SUBSET Segment]
       /\ rcv_queue' \in [Ends -> Seq(Segment)]
       /\ \A q \in Ends : q # e => /\ rcv_nxt'[q] = rcv_nxt[q] /\ rcv_buf'[q] = rcv_buf[q]
                                   /\ rcv_queue'[q] = rcv_queue[q]
       /\ Rcvd(p)' \in Rcvd(p) .. Numb(p) /\ Queued(p)' /\ Waiting(p)'
       /\ \A a \in 1 .. Numb(p) : Received(p, a) => Received(p, a)'
  <2>1. \A s \in rcv_buf[e] : \E a \in Rcvd(p) + 1 .. Rcvd(p) + RcvWnd : a <= Numb(p) /\ s = Seg(p, a)
    BY <1>1, <1>2 DEF Carried, Waiting
  <2>2. Taken(p)' + Len(rest) = Rcvd(p) /\ \A i \in 1 .. Len(rest) : rest[i] = Seg(p, Taken(p)' + i)
    BY <1>4, <1>8
  <2> QED BY <1>1, <1>4, <1>6, <1>9, <1>10, <2>1, <2>2, Advance
<1>12. Buffered(p)'
  BY <1>1, <1>2, <1>5, <1>9, FrameBuffered DEF Carried, sender
<1>13. Remembered(p)'
  <2>1. \A a \in Rcvd(p)' + 1 .. Numb(p)' : a \in Rcvd(p) + 1 .. Numb(p) /\ a \in 1 .. Numb(p)
    BY <1>2, <1>9, <1>11
  <2> QED BY <1>2, <1>5, <1>11, <2>1 DEF Carried, Remembered, sender
<1>14. Truthful(p)'
  <2>1. acklist' = acklist /\ net' = net
    BY <1>5
  <2>2. /\ Numb(p) \in Int /\ Numb(p)' \in Int /\ Numb(p) <= Numb(p)'
        /\ Rcvd(p) \in Nat /\ Rcvd(p)' \in Nat /\ Rcvd(p) <= Rcvd(p)'
    BY <1>2, <1>9, <1>11
  <2>3. Truthful(p)
    BY <1>2 DEF Carried
  <2> HIDE DEF Truthful
  <2> QED BY <1>1, <1>2, <1>11, <2>1, <2>2, <2>3, FrameTruthful
<1>15. Carried(p)'
  BY <1>9, <1>11, <1>12, <1>13, <1>14 DEF Carried
<1>16. Carried(e)'
  <2>1. Other(e) = p
    BY DEF p
  <2> QED BY <1>1, <1>5, <1>7, <1>11, <2>1, FrameCarried DEF sender
<1>17. Types'
  BY <1>2, <1>3, <1>5, <1>7, <1>11 DEF Types, sender
<1> QED BY <1>1, <1>15, <1>16, <1>17 DEF KcpInv

\* A timer marks a segment of the send buffer for sending again.
LEMMA ExpireStep ==
    ASSUME ShortConnection, KcpInv, NEW e \in Ends, NEW i \in 1 .. SndWnd, Expire(e, i)
    PROVE  KcpInv'
<1>1. /\ Types /\ Carried(e) /\ Numb(e) \in 0 .. Total(e) /\ Rcvd(e) \in 0 .. Numb(e)
      /\ \A j \in 1 .. Len(net[e]) : Pos(net[e][j].una) \in Int
  BY Facts
<1>2. /\ i \in DOMAIN snd_buf[e]
      /\ snd_buf' = [snd_buf EXCEPT ![e][i].due = TRUE]
      /\ UNCHANGED <<snd_queue, snd_una, snd_nxt, rmt_wnd, asking, receiver, net, sent, got>>
  BY DEF Expire
<1>3. snd_buf[e] \in Seq(InFlight) /\ snd_buf \in [Ends -> Seq(InFlight)]
  BY <1>1 DEF Types
<1>4. snd_buf'[e] = [snd_buf[e] EXCEPT ![i].due = TRUE] /\ \A q \in Ends : q # e => snd_buf'[q] = snd_buf[q]
  BY <1>2, <1>3
<1>5. snd_buf[e][i] \in InFlight
  BY <1>2, <1>3
<1>6. /\ Len(snd_buf'[e]) = Len(snd_buf[e]) /\ snd_buf' \in [Ends -> Seq(InFlight)]
      /\ \A j \in 1 .. Len(snd_buf[e]) :
            /\ snd_buf'[e][j].sn = snd_buf[e][j].sn /\ snd_buf'[e][j].frg = snd_buf[e][j].frg
            /\ snd_buf'[e][j].data = snd_buf[e][j].data
  <2> DEFINE s == snd_buf[e]
             x == [s[i] EXCEPT !.due = TRUE]
             t == [s EXCEPT ![i] = x]
  <2>1. x \in InFlight /\ x.sn = s[i].sn /\ x.frg = s[i].frg /\ x.data = s[i].data
    BY <1>5 DEF InFlight
  <2>2. snd_buf' = [snd_buf EXCEPT ![e] = t]
    BY <1>2, <1>3
  <2> HIDE DEF x
  <2>3. s \in Seq(InFlight) /\ i \in 1 .. Len(s)
    BY <1>2, <1>3
  <2> HIDE DEF s
  <2>4. t \in Seq(InFlight) /\ Len(t) = Len(s)
        /\ \A j \in 1 .. Len(s) : t[j] = IF j = i THEN x ELSE s[j]
    BY <2>1, <2>3
  <2> HIDE DEF t
  <2>5. snd_buf'[e] = t /\ snd_buf' \in [Ends -> Seq(InFlight)]
    BY <1>3, <2>2, <2>4
  <2>6. \A j \in 1 .. Len(s) : t[j].sn = s[j].sn /\ t[j].frg = s[j].frg /\ t[j].data = s[j].data
    BY <2>1, <2>4
  <2> QED BY <2>4, <2>5, <2>6 DEF s
<1>7. Numb(e)' = Numb(e) /\ Accepted(e)' /\ Una(e)' = Una(e)
  BY <1>1, <1>2, FrameAccepted DEF Carried, Una
<1>8. Buffered(e)'
  BY <1>1, <1>6, <1>7 DEF Carried, Buffered
<1>9. /\ Rcvd(e)' = Rcvd(e) /\ Queued(e)' /\ Waiting(e)'
      /\ \A a : Received(e, a)' <=> Received(e, a)
  BY <1>1, <1>2, <1>7, FrameReceiver DEF Carried, receiver
<1>10. Remembered(e)'
  BY <1>1, <1>6, <1>7, <1>9 DEF Carried, Remembered
<1>11. Truthful(e)'
  BY <1>1, <1>2, <1>7, <1>9, FrameTruthful DEF Carried, receiver
<1>12. Carried(e)'
  BY <1>7, <1>8, <1>9, <1>10, <1>11 DEF Carried
<1>13. ASSUME NEW p \in Ends, p # e PROVE Carried(p)'
  BY <1>2, <1>4, <1>13, FrameCarried DEF receiver
<1>14. Types'
  BY <1>1, <1>2, <1>6 DEF Types, receiver
<1> QED BY <1>12, <1>13, <1>14 DEF KcpInv

\* Asking about a closed window again when its time has come.
LEMMA ProbeStep ==
    ASSUME ShortConnection, KcpInv, NEW e \in Ends, ProbeTime(e)
    PROVE  KcpInv'
<1>1. UNCHANGED <<snd_queue, snd_buf, snd_una, snd_nxt, rmt_wnd, receiver, net, sent, got>>
  BY DEF ProbeTime
<1>2. Types'
  <2>1. asking' \in [Ends -> {"off", "armed", "due"}]
    BY DEF KcpInv, Types, ProbeTime
  <2> QED BY <1>1, <2>1 DEF KcpInv, Types, receiver
<1>3. ASSUME NEW p \in Ends PROVE Carried(p)'
  BY <1>1, FrameCarried DEF receiver
<1> QED BY <1>2, <1>3 DEF KcpInv

\* A list without its i-th element.
LEMMA WithoutIs ==
    ASSUME NEW S, NEW s \in Seq(S), NEW i \in 1 .. Len(s)
    PROVE  /\ Without(s, i) \in Seq(S)
           /\ \A j \in 1 .. Len(Without(s, i)) : \E k \in 1 .. Len(s) : Without(s, i)[j] = s[k]
<1> DEFINE a == SubSeq(s, 1, i - 1)
           b == SubSeq(s, i + 1, Len(s))
<1>1. Len(s) \in Nat /\ i \in Nat /\ i <= Len(s) /\ i >= 1
  OBVIOUS
<1>2. a \in Seq(S) /\ Len(a) = i - 1 /\ \A j \in 1 .. i - 1 : a[j] = s[j]
  <2>1. 1 \in Int /\ i - 1 \in Int /\ \A j \in 1 .. i - 1 : s[j] \in S
    BY <1>1
  <2>2. /\ a \in Seq(S) /\ Len(a) = (IF 1 <= i - 1 THEN i - 1 - 1 + 1 ELSE 0)
        /\ \A j \in 1 .. i - 1 - 1 + 1 : a[j] = s[1 + j - 1]
    BY <2>1, SubSeqProperties
  <2> HIDE DEF a
  <2> QED BY <1>1, <2>2
<1>3. b \in Seq(S) /\ Len(b) = Len(s) - i /\ \A j \in 1 .. Len(s) - i : b[j] = s[i + j]
  <2>1. i + 1 \in Int /\ Len(s) \in Int /\ \A j \in i + 1 .. Len(s) : s[j] \in S
    <3>1. \A j \in i + 1 .. Len(s) : j \in 1 .. Len(s)
      BY <1>1
    <3> QED BY <1>1, <3>1
  <2>2. /\ b \in Seq(S) /\ Len(b) = (IF i + 1 <= Len(s) THEN Len(s) - (i + 1) + 1 ELSE 0)
        /\ \A j \in 1 .. Len(s) - (i + 1) + 1 : b[j] = s[(i + 1) + j - 1]
    BY <2>1, SubSeqProperties
  <2> HIDE DEF b
  <2> QED BY <1>1, <2>2
<1> HIDE DEF a, b
<1>4. /\ a \o b \in Seq(S) /\ Len(a \o b) = Len(a) + Len(b)
      /\ \A j \in 1 .. Len(a) + Len(b) : (a \o b)[j] = IF j <= Len(a) THEN a[j] ELSE b[j - Len(a)]
  BY <1>2, <1>3, ConcatProperties
<1>5. Without(s, i) = a \o b
  BY DEF Without, a, b
<1>6. ASSUME NEW j \in 1 .. Len(a) + Len(b) PROVE \E k \in 1 .. Len(s) : (a \o b)[j] = s[k]
  <2>1. CASE j <= Len(a)
    <3>1. j \in 1 .. i - 1 /\ j \in 1 .. Len(s)
      BY <1>1, <1>2, <2>1
    <3> QED BY <1>2, <1>4, <2>1, <3>1
  <2>2. CASE ~(j <= Len(a))
    <3>1. j - Len(a) \in 1 .. Len(s) - i /\ i + (j - Len(a)) \in 1 .. Len(s)
      BY <1>1, <1>2, <1>3, <2>2
    <3> QED BY <1>3, <1>4, <2>2, <3>1
  <2> QED BY <2>1, <2>2
<1> QED BY <1>4, <1>5, <1>6

\* What is under way to e after one datagram is gone.
LEMMA Gone ==
    ASSUME Types, NEW e \in Ends, NEW i \in DOMAIN net[e],
           net' = [net EXCEPT ![e] = Without(net[e], i)]
    PROVE  /\ net' \in [Ends -> Seq(Packets)]
           /\ \A p \in Ends : \A j \in 1 .. Len(net'[p]) :
                 \E k \in 1 .. Len(net[p]) : net'[p][j] = net[p][k]
<1>1. net \in [Ends -> Seq(Packets)] /\ net[e] \in Seq(Packets)
  BY DEF Types
<1>2. i \in 1 .. Len(net[e])
  BY <1>1
<1>3. /\ Without(net[e], i) \in Seq(Packets)
      /\ \A j \in 1 .. Len(Without(net[e], i)) : \E k \in 1 .. Len(net[e]) : Without(net[e], i)[j] = net[e][k]
  BY <1>1, <1>2, WithoutIs
<1> QED BY <1>1, <1>3

\* The network loses a datagram.
LEMMA LoseStep ==
    ASSUME ShortConnection, KcpInv, NEW e \in Ends, NEW i \in 1 .. Channel, Lose(e, i)
    PROVE  KcpInv'
<1>1. /\ i \in DOMAIN net[e] /\ net' = [net EXCEPT ![e] = Without(net[e], i)]
      /\ UNCHANGED <<sender, receiver, sent, got>>
  BY DEF Lose
<1>2. /\ net' \in [Ends -> Seq(Packets)]
      /\ \A p \in Ends : \A j \in 1 .. Len(net'[p]) :
            \E k \in 1 .. Len(net[p]) : net'[p][j] = net[p][k]
  BY <1>1, Gone DEF KcpInv
<1>3. Types'
  BY <1>1, <1>2 DEF KcpInv, Types, sender, receiver
<1>4. ASSUME NEW p \in Ends PROVE Carried(p)'
  <2>1. Other(p) \in Ends
    BY TwoEnds
  <2> QED BY <1>1, <1>2, <2>1, FrameCarried DEF sender, receiver
<1> QED BY <1>3, <1>4 DEF KcpInv

-----------------------------------------------------------------------------
(* ikcp_flush                                                                *)
\* Every number is the number of a position.
LEMMA SnPos ==
    ASSUME NEW sn \in 0 .. W - 1
    PROVE  Pos(sn) \in 1 .. W /\ Sn(Pos(sn)) = sn
<1> DEFINE x == sn - Start
           r == (sn - Start) % W
<1>1. x \in Int /\ W \in Nat \ {0} /\ Start \in Int /\ sn \in Int
  BY Constants
<1>2. r \in 0 .. W - 1 /\ \E k \in Int : x = k * W + r
  <2> HIDE DEF x
  <2>1. x % W \in 0 .. W - 1 /\ \E k \in Int : x = k * W + (x % W)
    BY <1>1, ModDef, Zenon
  <2> QED BY <2>1 DEF x
<1>3. PICK k \in Int : x = k * W + r
  BY <1>2
<1>4. Pos(sn) = r + 1
  BY DEF Pos
<1> HIDE DEF r
<1>5. Start + (r + 1) - 1 = (-k) * W + sn
  <2> DEFINE b == k * W
             c == (-k) * W
  <2>1. b \in Int /\ c = -b
    BY <1>1
  <2> HIDE DEF b, c
  <2>2. sn - Start = b + r
    BY <1>3 DEF b
  <2>3. Start + (r + 1) - 1 = c + sn
    BY <1>1, <1>2, <2>1, <2>2
  <2> QED BY <2>3 DEF c
<1> DEFINE y == Start + (r + 1) - 1
           m == -k
<1>6. y % W = sn
  <2>1. y \in Int /\ m \in Int /\ y = m * W + sn
    BY <1>1, <1>2, <1>5
  <2> HIDE DEF y, m
  <2> QED BY <1>1, <2>1, ModIs
<1>7. Sn(Pos(sn)) = sn
  BY <1>4, <1>6 DEF Sn
<1> QED BY <1>1, <1>2, <1>4, <1>7

\* The first segment that is not acknowledged has the number snd_una.
LEMMA UnaIs ==
    ASSUME ShortConnection, KcpInv, NEW p \in Ends
    PROVE  snd_una[p] = Sn(Una(p) + 1) /\ snd_nxt[p] = Sn(Numb(p) + 1) /\ rcv_nxt[Other(p)] = Sn(Rcvd(p) + 1)
<1>1. snd_una[p] \in 0 .. W - 1
  BY DEF KcpInv, Types
<1>2. Pos(snd_una[p]) = Una(p) + 1
  <2>1. Pos(snd_una[p]) \in Int
    BY <1>1, SnPos
  <2> QED BY <2>1 DEF Una
<1>3. snd_una[p] = Sn(Una(p) + 1)
  BY <1>1, <1>2, SnPos
<1> QED BY <1>3 DEF KcpInv, Carried, Accepted, Queued

\* The windows let ikcp_flush number what the send queue has, and no more than a
\* window after snd_una.
LEMMA FitsIs ==
    ASSUME ShortConnection, KcpInv, NEW p \in Ends
    PROVE  /\ Fits(p) \in 0 .. Len(snd_queue[p]) /\ Numb(p) + Fits(p) <= Una(p) + SndWnd
           /\ Numb(p) + Fits(p) <= Total(p)
<1> DEFINE N == Numb(p)
           U == Una(p)
           w == IF SndWnd < rmt_wnd[p] THEN SndWnd ELSE rmt_wnd[p]
           q == Len(snd_queue[p])
           H == W \div 2
           free == -itimediff(snd_nxt[p], (snd_una[p] + w) % W)
<1>1. /\ N \in 0 .. Total(p) /\ U \in 0 .. N /\ q \in Nat /\ Total(p) \in Nat
      /\ Len(sent[p]) \in 0 .. Len(Parts[p])
  BY Facts
<1>2. N <= U + SndWnd /\ w \in 0 .. SndWnd /\ SndWnd < H /\ H \in Nat /\ SndWnd \in Nat
  <2>1. rmt_wnd[p] \in Nat
    BY Constants DEF KcpInv, Types
  <2>2. SndWnd \in Nat /\ SndWnd < H /\ H \in Nat
    BY Constants
  <2>3. N <= U + SndWnd
    BY DEF KcpInv, Carried, Buffered
  <2> QED BY <2>1, <2>2, <2>3
<1>3. N + q <= Total(p)
  <2>1. Len(Parts[p]) \in 0 .. Len(Parts[p]) /\ Total(p) = Before(p)[Len(Parts[p])]
    BY <1>1, BeforeDef
  <2>2. Before(p)[Len(sent[p])] <= Total(p) /\ Before(p)[Len(sent[p])] \in Nat
    BY <1>1, <2>1, BeforeMono
  <2>3. N = Before(p)[Len(sent[p])] - q
    BY DEF Numb
  <2> QED BY <1>1, <2>2, <2>3
<1>4. Fits(p) = IF free < 0 THEN 0 ELSE IF free < q THEN free ELSE q
  BY DEF Fits
<1>5. free = U + w - N
  <2> HIDE DEF w, H, N, U
  <2>1. N + 1 \in Nat /\ U + 1 \in Nat /\ w \in Nat /\ U + 1 + w \in Nat
    BY <1>1, <1>2
  <2>2. (snd_una[p] + w) % W = Sn(U + 1 + w)
    <3>1. snd_una[p] = Sn(U + 1)
      BY UnaIs DEF U
    <3> QED BY <2>1, <3>1, SnPlus
  <2>3. (N + 1) - (U + 1 + w) >= -H /\ (N + 1) - (U + 1 + w) < H
    BY <1>1, <1>2
  <2>4. itimediff(Sn(N + 1), Sn(U + 1 + w)) = (N + 1) - (U + 1 + w)
    <3> QED BY <2>1, <2>3, Diff DEF H
  <2>5. snd_nxt[p] = Sn(N + 1)
    BY UnaIs DEF N
  <2>6. free = -((N + 1) - (U + 1 + w))
    BY <2>2, <2>4, <2>5
  <2> HIDE DEF free
  <2> QED BY <1>1, <1>2, <2>6
<1> HIDE DEF free, N, U, w, q
<1>6. Fits(p) \in 0 .. q /\ N + Fits(p) <= U + SndWnd /\ N + Fits(p) <= Total(p)
  BY <1>1, <1>2, <1>3, <1>4, <1>5
<1> QED BY <1>6 DEF N, U, q

\* buf holds segments of p with positions from U + 1 to N, in order.
Orderly(p, buf, U, N) ==
    /\ \A j \in 1 .. Len(buf) :
          LET a == Pos(buf[j].sn) IN
          /\ a \in U + 1 .. N
          /\ buf[j].frg = Piece(p)[a].frg /\ buf[j].data = Piece(p)[a].data
    /\ \A i, j \in 1 .. Len(buf) : i < j => Pos(buf[i].sn) < Pos(buf[j].sn)

\* The send buffer after numbering.
LEMMA NumberedIs ==
    ASSUME ShortConnection, KcpInv, NEW p \in Ends
    PROVE  /\ Numbered(p) \in Seq(InFlight) /\ Len(Numbered(p)) = Len(snd_buf[p]) + Fits(p)
           /\ \A j \in 1 .. Len(snd_buf[p]) : Numbered(p)[j] = snd_buf[p][j]
           /\ \A i \in 1 .. Fits(p) : /\ Len(snd_buf[p]) + i \in 1 .. Len(Numbered(p))
                                      /\ Numbered(p)[Len(snd_buf[p]) + i].sn = Sn(Numb(p) + i)
           /\ Orderly(p, Numbered(p), Una(p), Numb(p) + Fits(p))
<1> DEFINE N == Numb(p)
           f == Fits(p)
           b == snd_buf[p]
           l == Len(snd_buf[p])
           new == [i \in 1 .. f |-> [sn |-> (snd_nxt[p] + i - 1) % W, frg |-> snd_queue[p][i].frg,
                                     data |-> snd_queue[p][i].data, due |-> TRUE]]
<1>1. /\ N \in 0 .. Total(p) /\ Una(p) \in 0 .. N /\ l \in Nat /\ Total(p) \in Nat
      /\ Total(p) + RcvWnd <= W \div 2 /\ RcvWnd \in Nat
      /\ f \in 0 .. Len(snd_queue[p]) /\ N + f <= Total(p) /\ Len(snd_queue[p]) \in Nat
  BY Facts, FitsIs, Constants
<1>2. b \in Seq(InFlight) /\ snd_queue[p] \in Seq(Unnumbered) /\ snd_nxt[p] = Sn(N + 1)
  BY UnaIs DEF KcpInv, Types
<1>3. /\ \A i \in 1 .. Len(snd_queue[p]) : snd_queue[p][i] = Piece(p)[N + i]
      /\ Orderly(p, b, Una(p), N)
  BY DEF KcpInv, Carried, Accepted, Buffered, Orderly
<1>4. Numbered(p) = b \o new
  BY DEF Numbered
<1> HIDE DEF N, f, b
<1>5. ASSUME NEW i \in 1 .. f
      PROVE  /\ new[i] \in InFlight /\ new[i].sn = Sn(N + i) /\ Pos(new[i].sn) = N + i
             /\ new[i].frg = Piece(p)[N + i].frg /\ new[i].data = Piece(p)[N + i].data
  <2>1. i \in 1 .. Len(snd_queue[p]) /\ N + 1 \in Nat /\ i - 1 \in Nat /\ (N + 1) + (i - 1) = N + i
    BY <1>1
  <2>2. (snd_nxt[p] + i - 1) % W = Sn(N + i)
    <3>1. (Sn(N + 1) + (i - 1)) % W = Sn((N + 1) + (i - 1))
      BY <2>1, SnPlus
    <3>2. Sn(N + 1) \in Int
      BY <2>1, SnRange
    <3>3. Sn(N + 1) + i - 1 = Sn(N + 1) + (i - 1)
      BY <2>1, <3>2
    <3> QED BY <1>2, <2>1, <3>1, <3>3
  <2>3. snd_queue[p][i] \in Unnumbered
    BY <1>2, <2>1
  <2>4. N + i \in 1 .. Total(p) + RcvWnd + 1 /\ N + i \in Nat
    BY <1>1
  <2>5. Sn(N + i) \in 0 .. W - 1 /\ Pos(Sn(N + i)) = N + i
    BY <2>4, Numbers
  <2>6. new[i] = [sn |-> Sn(N + i), frg |-> snd_queue[p][i].frg, data |-> snd_queue[p][i].data, due |-> TRUE]
    BY <2>2
  <2> HIDE DEF new
  <2>7. new[i] \in InFlight
    BY <2>3, <2>5, <2>6 DEF InFlight, Unnumbered
  <2> QED BY <1>3, <2>1, <2>5, <2>6, <2>7
<1>6. new \in Seq(InFlight) /\ Len(new) = f
  <2>1. new \in [1 .. f -> InFlight]
    <3>1. \A i \in 1 .. f : new[i] \in InFlight
      BY <1>5
    <3> QED BY <3>1
  <2> HIDE DEF new
  <2> QED BY <1>1, <2>1
<1> HIDE DEF new
<1>7. /\ Numbered(p) \in Seq(InFlight) /\ Len(Numbered(p)) = l + f
      /\ \A j \in 1 .. l + f : Numbered(p)[j] = IF j <= l THEN b[j] ELSE new[j - l]
  <2>1. /\ b \o new \in Seq(InFlight) /\ Len(b \o new) = Len(b) + Len(new)
        /\ \A j \in 1 .. Len(b) + Len(new) : (b \o new)[j] = IF j <= Len(b) THEN b[j] ELSE new[j - Len(b)]
    BY <1>2, <1>6, ConcatProperties
  <2> QED BY <1>4, <1>6, <2>1 DEF b
<1> HIDE DEF l
<1>8. \A j \in 1 .. l + f : j \in 1 .. l \/ (j - l \in 1 .. f /\ ~(j <= l))
  BY <1>1
<1>9. \A j \in 1 .. l : j \in 1 .. l + f /\ j <= l
  BY <1>1
<1>10. ASSUME NEW j \in 1 .. l PROVE Numbered(p)[j] = b[j]
  BY <1>7, <1>9
<1>11. ASSUME NEW i \in 1 .. f PROVE l + i \in 1 .. l + f /\ Numbered(p)[l + i] = new[i]
  <2>1. l + i \in 1 .. l + f /\ ~(l + i <= l) /\ (l + i) - l = i
    BY <1>1
  <2> QED BY <1>7, <2>1
<1>12. ASSUME NEW j \in 1 .. l
       PROVE  /\ Pos(b[j].sn) \in Una(p) + 1 .. N
              /\ b[j].frg = Piece(p)[Pos(b[j].sn)].frg /\ b[j].data = Piece(p)[Pos(b[j].sn)].data
  BY <1>3 DEF Orderly, l, b
<1>13. ASSUME NEW j \in 1 .. l + f
       PROVE  /\ Pos(Numbered(p)[j].sn) \in Una(p) + 1 .. N + f
              /\ Numbered(p)[j].frg = Piece(p)[Pos(Numbered(p)[j].sn)].frg
              /\ Numbered(p)[j].data = Piece(p)[Pos(Numbered(p)[j].sn)].data
  <2>1. CASE j \in 1 .. l
    <3>1. Numbered(p)[j] = b[j]
      BY <1>10, <2>1
    <3>2. Pos(b[j].sn) \in Una(p) + 1 .. N + f
      BY <1>1, <1>12, <2>1
    <3> QED BY <1>12, <2>1, <3>1, <3>2
  <2>2. CASE j - l \in 1 .. f /\ ~(j <= l)
    <3>1. Numbered(p)[j] = new[j - l]
      BY <1>7, <2>2
    <3>2. N + (j - l) \in Una(p) + 1 .. N + f
      BY <1>1, <2>2
    <3> QED BY <1>5, <2>2, <3>1, <3>2
  <2> QED BY <1>8, <2>1, <2>2
<1>14. ASSUME NEW i \in 1 .. l + f, NEW j \in 1 .. l + f, i < j
       PROVE  Pos(Numbered(p)[i].sn) < Pos(Numbered(p)[j].sn)
  <2>1. CASE j \in 1 .. l
    <3>1. i \in 1 .. l
      BY <1>1, <1>14, <2>1
    <3>2. Pos(b[i].sn) < Pos(b[j].sn)
      BY <1>3, <1>14, <2>1, <3>1 DEF Orderly, l, b
    <3> QED BY <1>10, <2>1, <3>1, <3>2
  <2>2. CASE j - l \in 1 .. f /\ ~(j <= l)
    <3>1. Numbered(p)[j] = new[j - l] /\ Pos(new[j - l].sn) = N + (j - l)
      BY <1>5, <1>7, <2>2
    <3>2. CASE i \in 1 .. l
      <4>1. Numbered(p)[i] = b[i] /\ Pos(b[i].sn) \in Una(p) + 1 .. N
        BY <1>10, <1>12, <3>2
      <4>2. Pos(b[i].sn) < N + (j - l)
        BY <1>1, <2>2, <4>1
      <4> QED BY <3>1, <4>1, <4>2
    <3>3. CASE i - l \in 1 .. f /\ ~(i <= l)
      <4>1. Numbered(p)[i] = new[i - l] /\ Pos(new[i - l].sn) = N + (i - l)
        BY <1>5, <1>7, <3>3
      <4>2. N + (i - l) < N + (j - l)
        BY <1>1, <1>14
      <4> QED BY <3>1, <4>1, <4>2
    <3> QED BY <1>8, <3>2, <3>3
  <2> QED BY <1>8, <2>1, <2>2
<1>15. Orderly(p, Numbered(p), Una(p), N + f)
  <2> QED BY <1>7, <1>13, <1>14 DEF Orderly
<1> QED BY <1>5, <1>7, <1>10, <1>11, <1>15 DEF N, f, b, l

\* What ikcp_flush puts on the network is true.
LEMMA OutputIs ==
    ASSUME ShortConnection, KcpInv, NEW p \in Ends
    PROVE  /\ Output(p) \in Seq(Packets)
           /\ \A i \in 1 .. Len(Output(p)) :
                 /\ Output(p)[i].una = rcv_nxt[p] /\ Output(p)[i].acks \subseteq acklist[p]
                 /\ \A s \in Output(p)[i].push : \E a \in 1 .. Numb(p) + Fits(p) : s = Seg(p, a)
<1> DEFINE S == {seg \in Range(Numbered(p)) : seg.due}
           due == Kept(Numbered(p), S)
           bursts == IF (acklist[p] # {} \/ Asks(p) \/ tell[p]) /\ Sent(p) = <<>> THEN <<{}>> ELSE Sent(p)
           Right(push) == push \in SUBSET Segment /\ \A s \in push : \E a \in 1 .. Numb(p) + Fits(p) : s = Seg(p, a)
<1>1. /\ Numbered(p) \in Seq(InFlight) /\ Orderly(p, Numbered(p), Una(p), Numb(p) + Fits(p))
      /\ Una(p) \in Nat /\ Numb(p) + Fits(p) \in Nat
  <2>1. Numb(p) \in Nat /\ Una(p) \in Nat
    BY Facts
  <2>2. Fits(p) \in Nat
    <3>1. Len(snd_queue[p]) \in Nat
      BY Facts
    <3> QED BY <3>1, FitsIs
  <2> QED BY <2>1, <2>2, NumberedIs
<1> HIDE DEF S
<1>2. PICK g : Picks(due, Numbered(p), S, Len(Numbered(p)), g)
  <2> HIDE DEF due
  <2> QED BY <1>1, KeptIs DEF due
<1>3. due \in Seq(InFlight) /\ Sent(p) = [i \in DOMAIN due |-> {[sn |-> due[i].sn, frg |-> due[i].frg, data |-> due[i].data]}]
  <2>1. due \in Seq(InFlight)
    BY <1>1, KeptIs
  <2>2. Sent(p) = [i \in DOMAIN due |-> {[sn |-> due[i].sn, frg |-> due[i].frg, data |-> due[i].data]}]
    BY DEF Sent, S
  <2> QED BY <2>1, <2>2
<1> HIDE DEF due
<1>4. ASSUME NEW i \in 1 .. Len(due) PROVE Right({[sn |-> due[i].sn, frg |-> due[i].frg, data |-> due[i].data]})
  <2>1. g[i] \in 1 .. Len(Numbered(p)) /\ due[i] = Numbered(p)[g[i]]
    BY <1>2 DEF Picks
  <2>2. due[i] \in InFlight
    BY <1>3
  <2> DEFINE a == Pos(due[i].sn)
             s == [sn |-> due[i].sn, frg |-> due[i].frg, data |-> due[i].data]
  <2>3. a \in Una(p) + 1 .. Numb(p) + Fits(p) /\ due[i].frg = Piece(p)[a].frg /\ due[i].data = Piece(p)[a].data
    BY <1>1, <2>1 DEF Orderly
  <2>4. Sn(a) = due[i].sn
    BY <2>2, SnPos DEF InFlight
  <2>5. s = Seg(p, a)
    BY <2>3, <2>4 DEF Seg
  <2>6. a \in 1 .. Numb(p) + Fits(p)
    BY <1>1, <2>3
  <2>7. s \in Segment
    BY <2>2 DEF InFlight, Segment
  <2> HIDE DEF s, a
  <2>8. Right({s})
    BY <2>5, <2>6, <2>7
  <2> QED BY <2>8 DEF s
<1>5. bursts = <<{}>> \/ bursts = Sent(p)
  OBVIOUS
<1> HIDE DEF bursts
<1>6. \E n \in Nat : DOMAIN bursts = 1 .. n /\ \A i \in 1 .. n : Right(bursts[i])
  <2> HIDE DEF Right
  <2>1. CASE bursts = <<{}>>
    <3>1. Right({})
      BY DEF Right
    <3>2. DOMAIN bursts = 1 .. 1 /\ \A i \in 1 .. 1 : bursts[i] = {}
      BY <2>1
    <3> QED BY <3>1, <3>2
  <2>2. CASE bursts = Sent(p)
    <3>1. DOMAIN due = 1 .. Len(due) /\ Len(due) \in Nat
      BY <1>3
    <3> QED BY <1>3, <1>4, <2>2, <3>1
  <2> QED BY <1>5, <2>1, <2>2
<1>7. PICK n \in Nat : DOMAIN bursts = 1 .. n /\ \A i \in 1 .. n : Right(bursts[i])
  BY <1>6
<1>8. Output(p) = [i \in 1 .. n |-> IF i = 1 THEN Datagram(p, acklist[p], Asks(p), tell[p], bursts[i])
                                   ELSE Datagram(p, {}, FALSE, FALSE, bursts[i])]
  BY <1>7 DEF Output, bursts
<1>9. \A push, acks, ask, tells :
         Right(push) /\ acks \subseteq acklist[p] /\ ask \in BOOLEAN /\ tells \in BOOLEAN
         => /\ Datagram(p, acks, ask, tells, push) \in Packets
            /\ Datagram(p, acks, ask, tells, push).una = rcv_nxt[p]
            /\ Datagram(p, acks, ask, tells, push).acks \subseteq acklist[p]
            /\ Datagram(p, acks, ask, tells, push).push = push
  <2> SUFFICES ASSUME NEW push, NEW acks, NEW ask, NEW tells,
                      Right(push), acks \subseteq acklist[p], ask \in BOOLEAN, tells \in BOOLEAN
               PROVE  /\ Datagram(p, acks, ask, tells, push) \in Packets
                      /\ Datagram(p, acks, ask, tells, push).una = rcv_nxt[p]
                      /\ Datagram(p, acks, ask, tells, push).acks \subseteq acklist[p]
                      /\ Datagram(p, acks, ask, tells, push).push = push
    OBVIOUS
  <2>1. rcv_nxt[p] \in 0 .. W - 1 /\ acks \in SUBSET (0 .. W - 1) /\ push \in SUBSET Segment
    BY DEF KcpInv, Types
  <2>2. ikcp_wnd_unused(p) \in 0 .. RcvWnd
    <3>1. Len(rcv_queue[p]) \in 0 .. RcvWnd /\ RcvWnd \in Nat
      <4>1. Other(p) \in Ends /\ Other(Other(p)) = p
        BY TwoEnds
      <4> QED BY <4>1, Facts, Constants
    <3> QED BY <3>1 DEF ikcp_wnd_unused
  <2> HIDE DEF Right
  <2> QED BY <2>1, <2>2 DEF Datagram, Packets
<1>10. Asks(p) \in BOOLEAN /\ tell[p] \in BOOLEAN
  BY DEF Asks, KcpInv, Types
<1>11. ASSUME NEW i \in 1 .. n
       PROVE  /\ Output(p)[i] \in Packets /\ Output(p)[i].una = rcv_nxt[p]
              /\ Output(p)[i].acks \subseteq acklist[p] /\ Output(p)[i].push = bursts[i]
  <2>1. CASE i = 1
    <3>1. Output(p)[i] = Datagram(p, acklist[p], Asks(p), tell[p], bursts[i])
      BY <1>8, <2>1
    <3> HIDE DEF Right
    <3> QED BY <1>7, <1>9, <1>10, <3>1
  <2>2. CASE i # 1
    <3>1. Output(p)[i] = Datagram(p, {}, FALSE, FALSE, bursts[i])
      BY <1>8, <2>2
    <3> HIDE DEF Right
    <3>2. {} \subseteq acklist[p] /\ FALSE \in BOOLEAN
      OBVIOUS
    <3>3. Right(bursts[i])
      BY <1>7
    <3>4. /\ Datagram(p, {}, FALSE, FALSE, bursts[i]) \in Packets
          /\ Datagram(p, {}, FALSE, FALSE, bursts[i]).una = rcv_nxt[p]
          /\ Datagram(p, {}, FALSE, FALSE, bursts[i]).acks \subseteq acklist[p]
          /\ Datagram(p, {}, FALSE, FALSE, bursts[i]).push = bursts[i]
      BY <1>9, <3>2, <3>3, Zenon
    <3> QED BY <3>1, <3>4
  <2> QED BY <2>1, <2>2
<1>12. Output(p) \in Seq(Packets) /\ Len(Output(p)) = n
  <2>1. Output(p) \in [1 .. n -> Packets]
    <3>1. DOMAIN Output(p) = 1 .. n /\ Output(p) = [i \in 1 .. n |-> Output(p)[i]]
      BY <1>8
    <3> QED BY <1>11, <3>1
  <2> QED BY <2>1
<1>13. \A i \in 1 .. n : \A s \in Output(p)[i].push : \E a \in 1 .. Numb(p) + Fits(p) : s = Seg(p, a)
  BY <1>7, <1>11
<1> QED BY <1>11, <1>12, <1>13

\* Numbering what fits and sending what is due (ikcp_flush).
LEMMA FlushStep ==
    ASSUME ShortConnection, KcpInv, NEW e \in Ends, ikcp_flush(e)
    PROVE  KcpInv'
<1> DEFINE o == Other(e)
           N == Numb(e)
           f == Fits(e)
           b == [i \in DOMAIN Numbered(e) |-> [Numbered(e)[i] EXCEPT !.due = FALSE]]
           rest == SubSeq(snd_queue[e], f + 1, Len(snd_queue[e]))
           out == net[o] \o Output(e)
<1>1. o \in Ends /\ Other(o) = e /\ o # e /\ \A q \in Ends : q = e \/ q = o
  BY TwoEnds
<1>2. /\ Types /\ Carried(e) /\ N \in 0 .. Total(e) /\ Rcvd(e) \in 0 .. N /\ Una(e) \in 0 .. N
      /\ Len(snd_queue[e]) \in Nat /\ Len(snd_buf[e]) \in Nat
      /\ f \in 0 .. Len(snd_queue[e]) /\ N + f <= Una(e) + SndWnd /\ N + f <= Total(e)
      /\ SndWnd \in Nat
      /\ \A j \in 1 .. Len(net[e]) : Pos(net[e][j].una) \in Int
  BY Facts, FitsIs, Constants
<1>3. /\ Carried(o) /\ Numb(o) \in Nat /\ Rcvd(o) \in 0 .. Numb(o) /\ Total(o) \in Nat
      /\ Numb(o) \in 0 .. Total(o)
      /\ \A j \in 1 .. Len(net[o]) : Pos(net[o][j].una) \in Int
  BY <1>1, Facts
<1>4. /\ snd_queue[e] \in Seq(Unnumbered) /\ net[o] \in Seq(Packets)
      /\ snd_queue \in [Ends -> Seq(Unnumbered)] /\ snd_buf \in [Ends -> Seq(InFlight)]
      /\ snd_nxt \in [Ends -> 0 .. W - 1] /\ acklist \in [Ends -> SUBSET (0 .. W - 1)]
      /\ tell \in [Ends -> BOOLEAN] /\ asking \in [Ends -> {"off", "armed", "due"}]
      /\ net \in [Ends -> Seq(Packets)]
  BY <1>1, <1>2 DEF Types
<1>5. /\ snd_queue' = [snd_queue EXCEPT ![e] = rest] /\ snd_buf' = [snd_buf EXCEPT ![e] = b]
      /\ snd_nxt' = [snd_nxt EXCEPT ![e] = (snd_nxt[e] + f) % W]
      /\ net' = [net EXCEPT ![o] = out] /\ acklist' = [acklist EXCEPT ![e] = {}]
      /\ tell' = [tell EXCEPT ![e] = FALSE]
      /\ UNCHANGED <<snd_una, rmt_wnd, rcv_nxt, rcv_buf, rcv_queue, sent, got>>
  BY <1>1, <1>4 DEF ikcp_flush
<1>6. asking' \in [Ends -> {"off", "armed", "due"}]
  BY <1>4 DEF ikcp_flush
<1>7. /\ rest \in Seq(Unnumbered) /\ Len(rest) = Len(snd_queue[e]) - f
      /\ \A i \in 1 .. Len(snd_queue[e]) - f : rest[i] = snd_queue[e][f + i]
  <2> DEFINE l == Len(snd_queue[e])
  <2>1. \A i \in f + 1 .. l : snd_queue[e][i] \in Unnumbered
    <3>1. \A i \in f + 1 .. l : i \in 1 .. l
      BY <1>2
    <3> QED BY <1>4, <3>1
  <2>2. f + 1 \in Int /\ l \in Int
    BY <1>2
  <2>3. /\ rest \in Seq(Unnumbered)
        /\ Len(rest) = (IF f + 1 <= l THEN l - (f + 1) + 1 ELSE 0)
        /\ \A i \in 1 .. l - (f + 1) + 1 : rest[i] = snd_queue[e][(f + 1) + i - 1]
    <3> HIDE DEF f
    <3> QED BY <2>1, <2>2, SubSeqProperties
  <2> HIDE DEF rest, f, l
  <2>4. Len(rest) = l - f /\ \A i \in 1 .. l - f : rest[i] = snd_queue[e][f + i]
    <3>1. \A i \in 1 .. l - f : i \in 1 .. l - (f + 1) + 1 /\ (f + 1) + i - 1 = f + i
      BY <1>2 DEF l
    <3>2. Len(rest) = l - f
      BY <1>2, <2>3 DEF l
    <3> QED BY <2>3, <3>1, <3>2
  <2> QED BY <2>3, <2>4 DEF l
<1>8. /\ Numbered(e) \in Seq(InFlight) /\ Len(Numbered(e)) = Len(snd_buf[e]) + f
      /\ \A j \in 1 .. Len(snd_buf[e]) : Numbered(e)[j] = snd_buf[e][j]
      /\ \A i \in 1 .. f : /\ Len(snd_buf[e]) + i \in 1 .. Len(Numbered(e))
                           /\ Numbered(e)[Len(snd_buf[e]) + i].sn = Sn(N + i)
      /\ Orderly(e, Numbered(e), Una(e), N + f)
  BY NumberedIs
<1>9. /\ b \in Seq(InFlight) /\ Len(b) = Len(snd_buf[e]) + f
      /\ \A j \in 1 .. Len(snd_buf[e]) + f :
            /\ b[j].sn = Numbered(e)[j].sn /\ b[j].frg = Numbered(e)[j].frg
            /\ b[j].data = Numbered(e)[j].data
  <2> DEFINE s == Numbered(e)
             n == Len(snd_buf[e]) + f
  <2> HIDE DEF f
  <2>1. s \in Seq(InFlight) /\ Len(s) = n /\ n \in Nat /\ DOMAIN s = 1 .. n
    BY <1>2, <1>8
  <2> HIDE DEF s, n
  <2>2. \A j \in 1 .. n : s[j] \in InFlight
    BY <2>1
  <2>3. \A j \in 1 .. n : /\ [s[j] EXCEPT !.due = FALSE] \in InFlight
                          /\ [s[j] EXCEPT !.due = FALSE].sn = s[j].sn
                          /\ [s[j] EXCEPT !.due = FALSE].frg = s[j].frg
                          /\ [s[j] EXCEPT !.due = FALSE].data = s[j].data
    BY <2>2 DEF InFlight
  <2>4. b = [j \in 1 .. n |-> [s[j] EXCEPT !.due = FALSE]]
    BY <2>1 DEF s
  <2> HIDE DEF b
  <2>5. \A j \in 1 .. n : b[j] = [s[j] EXCEPT !.due = FALSE]
    BY <2>4
  <2>6. \A j \in 1 .. n : b[j] \in InFlight /\ b[j].sn = s[j].sn /\ b[j].frg = s[j].frg /\ b[j].data = s[j].data
    BY <2>3, <2>5
  <2>7. b \in Seq(InFlight) /\ Len(b) = n
    <3>1. DOMAIN b = 1 .. n /\ b = [j \in 1 .. n |-> b[j]]
      BY <2>4
    <3> QED BY <2>1, <2>6, <3>1
  <2> QED BY <2>6, <2>7 DEF s, n
<1>10. /\ Output(e) \in Seq(Packets)
       /\ \A i \in 1 .. Len(Output(e)) :
             /\ Output(e)[i].una = rcv_nxt[e] /\ Output(e)[i].acks \subseteq acklist[e]
             /\ \A s \in Output(e)[i].push : \E a \in 1 .. N + f : s = Seg(e, a)
  BY OutputIs
<1>11. /\ out \in Seq(Packets)
       /\ \A i \in 1 .. Len(out) :
             \/ \E j \in 1 .. Len(net[o]) : out[i] = net[o][j]
             \/ \E j \in 1 .. Len(Output(e)) : out[i] = Output(e)[j]
  <2> DEFINE x == net[o]
             y == Output(e)
  <2> HIDE DEF x, y
  <2>1. x \in Seq(Packets) /\ y \in Seq(Packets)
    BY <1>4, <1>10 DEF x, y
  <2>2. /\ x \o y \in Seq(Packets) /\ Len(x \o y) = Len(x) + Len(y)
        /\ \A i \in 1 .. Len(x) + Len(y) : (x \o y)[i] = IF i <= Len(x) THEN x[i] ELSE y[i - Len(x)]
    BY <2>1, ConcatProperties
  <2>3. Len(x) \in Nat /\ Len(y) \in Nat
    BY <2>1
  <2>4. ASSUME NEW i \in 1 .. Len(x) + Len(y)
        PROVE  \/ \E j \in 1 .. Len(x) : (x \o y)[i] = x[j]
               \/ \E j \in 1 .. Len(y) : (x \o y)[i] = y[j]
    <3>1. CASE i <= Len(x)
      <4>1. i \in 1 .. Len(x)
        BY <2>3, <3>1
      <4> QED BY <2>2, <3>1, <4>1
    <3>2. CASE ~(i <= Len(x))
      <4>1. i - Len(x) \in 1 .. Len(y)
        BY <2>3, <3>2
      <4> QED BY <2>2, <3>2, <4>1
    <3> QED BY <3>1, <3>2
  <2>5. out = x \o y
    BY DEF x, y
  <2> HIDE DEF out
  <2> QED BY <2>2, <2>4, <2>5 DEF x, y
<1> HIDE DEF o, N, f, b, rest, out
<1>12. /\ snd_queue'[e] = rest /\ snd_buf'[e] = b /\ snd_nxt'[e] = (snd_nxt[e] + f) % W
       /\ net'[o] = out /\ net'[e] = net[e] /\ acklist'[e] = {} /\ acklist'[o] = acklist[o]
       /\ snd_queue'[o] = snd_queue[o] /\ snd_buf'[o] = snd_buf[o] /\ snd_nxt'[o] = snd_nxt[o]
       /\ snd_una'[e] = snd_una[e] /\ snd_una'[o] = snd_una[o]
  BY <1>1, <1>4, <1>5
<1>13. snd_nxt'[e] = Sn(N + f + 1)
  <2>1. snd_nxt[e] = Sn(N + 1) /\ N + 1 \in Nat /\ f \in Nat /\ (N + 1) + f = N + f + 1
    BY <1>2, UnaIs DEF N
  <2> QED BY <1>12, <2>1, SnPlus
<1>14. Types'
  <2>1. snd_queue' \in [Ends -> Seq(Unnumbered)] /\ snd_buf' \in [Ends -> Seq(InFlight)]
        /\ net' \in [Ends -> Seq(Packets)] /\ acklist' \in [Ends -> SUBSET (0 .. W - 1)]
        /\ tell' \in [Ends -> BOOLEAN]
    BY <1>4, <1>5, <1>7, <1>9, <1>11
  <2>2. snd_nxt' \in [Ends -> 0 .. W - 1]
    <3>1. N + f + 1 \in Nat
      BY <1>2
    <3>2. Sn(N + f + 1) \in 0 .. W - 1
      BY <3>1, SnRange
    <3>3. snd_nxt' = [snd_nxt EXCEPT ![e] = Sn(N + f + 1)]
      BY <1>4, <1>5, <1>12, <1>13
    <3> QED BY <1>4, <3>2, <3>3
  <2> QED BY <1>2, <1>5, <1>6, <2>1, <2>2 DEF Types
<1>15. Numb(e)' = N + f
  <2>1. Numb(e)' = Before(e)[Len(sent[e])] - (Len(snd_queue[e]) - f)
    BY <1>5, <1>7, <1>12 DEF Numb
  <2>2. N = Before(e)[Len(sent[e])] - Len(snd_queue[e]) /\ Before(e)[Len(sent[e])] \in Int
    <3>1. Len(sent[e]) \in 0 .. Len(Parts[e])
      BY Facts
    <3> QED BY <3>1, BeforeDef DEF N, Numb
  <2> QED BY <1>2, <2>1, <2>2
<1>16. Accepted(e)'
  <2>1. ASSUME NEW i \in 1 .. Len(snd_queue[e]) - f PROVE rest[i] = Piece(e)[N + f + i]
    <3>1. f + i \in 1 .. Len(snd_queue[e]) /\ N + (f + i) = N + f + i
      BY <1>2
    <3>2. snd_queue[e][f + i] = Piece(e)[N + (f + i)]
      BY <1>2, <3>1 DEF Carried, Accepted, N
    <3> QED BY <1>7, <3>1, <3>2
  <2>2. \A i \in 1 .. Len(snd_queue'[e]) : snd_queue'[e][i] = Piece(e)[Numb(e)' + i]
    BY <1>7, <1>12, <1>15, <2>1
  <2>3. N + f >= 0
    BY <1>2
  <2>4. Len(sent[e]) <= Len(Parts[e]) /\ \A k \in 1 .. Len(sent[e]) : sent[e][k] = Message(e, k)
    BY <1>2 DEF Carried, Accepted
  <2> QED BY <1>5, <1>13, <1>15, <2>2, <2>3, <2>4 DEF Accepted
<1>17. Una(e)' = Una(e)
  BY <1>5 DEF Una
<1>18. Buffered(e)'
  <2>1. Orderly(e, b, Una(e), N + f)
    BY <1>8, <1>9 DEF Orderly
  <2>2. Una(e) \in 0 .. N + f
    BY <1>2
  <2> QED BY <1>2, <1>12, <1>15, <1>17, <2>1, <2>2 DEF Buffered, Orderly
<1>19. /\ Rcvd(e)' = Rcvd(e) /\ Queued(e)' /\ Waiting(e)'
       /\ \A a : Received(e, a)' <=> Received(e, a)
  <2>1. Numb(e) \in Int /\ Numb(e)' \in Int /\ Numb(e) <= Numb(e)' /\ Rcvd(e) \in Nat
    BY <1>2, <1>15 DEF N
  <2>2. got'[e] = got[e] /\ rcv_queue'[Other(e)] = rcv_queue[Other(e)]
        /\ rcv_nxt'[Other(e)] = rcv_nxt[Other(e)] /\ rcv_buf'[Other(e)] = rcv_buf[Other(e)]
    BY <1>5
  <2> QED BY <1>2, <2>1, <2>2, FrameReceiver DEF Carried
<1>20. Remembered(e)'
  <2>1. ASSUME NEW a \in Rcvd(e) + 1 .. N + f
        PROVE  Received(e, a) \/ \E j \in 1 .. Len(b) : b[j].sn = Sn(a)
    <3>1. CASE a <= N
      <4>1. a \in Rcvd(e) + 1 .. N
        BY <1>2, <3>1
      <4>2. Received(e, a) \/ \E j \in 1 .. Len(snd_buf[e]) : snd_buf[e][j].sn = Sn(a)
        BY <1>2, <4>1 DEF Carried, Remembered, N
      <4>3. ASSUME NEW j \in 1 .. Len(snd_buf[e]), snd_buf[e][j].sn = Sn(a)
            PROVE  \E i \in 1 .. Len(b) : b[i].sn = Sn(a)
        <5>1. j \in 1 .. Len(snd_buf[e]) + f
          BY <1>2
        <5> QED BY <1>8, <1>9, <4>3, <5>1
      <4> QED BY <4>2, <4>3
    <3>2. CASE a > N
      <4>1. a - N \in 1 .. f /\ N + (a - N) = a
        BY <1>2, <3>2
      <4>2. /\ Len(snd_buf[e]) + (a - N) \in 1 .. Len(Numbered(e))
            /\ Numbered(e)[Len(snd_buf[e]) + (a - N)].sn = Sn(a)
        BY <1>8, <4>1
      <4> QED BY <1>8, <1>9, <4>2
    <3> QED BY <1>2, <3>1, <3>2
  <2> QED BY <1>12, <1>15, <1>19, <2>1 DEF Remembered
<1>21. Truthful(e)'
  <2>1. Numb(e) \in Int /\ Numb(e)' \in Int /\ Numb(e) <= Numb(e)'
        /\ Rcvd(e) \in Nat /\ Rcvd(e)' \in Nat /\ Rcvd(e) <= Rcvd(e)'
    BY <1>2, <1>15, <1>19 DEF N
  <2>2. \A i \in 1 .. Len(net'[o]) :
           \/ \E j \in 1 .. Len(net[o]) : net'[o][i] = net[o][j]
           \/ \A s \in net'[o][i].push : \E a \in 1 .. Numb(e)' : s = Seg(e, a)
    BY <1>10, <1>11, <1>12, <1>15
  <2>3. Truthful(e) /\ o = Other(e)
    BY <1>2 DEF Carried, o
  <2> HIDE DEF Truthful
  <2> QED BY <1>2, <1>12, <1>19, <2>1, <2>2, <2>3, FrameTruthful
<1>22. Carried(e)'
  BY <1>16, <1>18, <1>19, <1>20, <1>21 DEF Carried
<1>23. Carried(o)'
  <2>1. sent'[o] = sent[o] /\ got'[o] = got[o] /\ rcv_queue'[e] = rcv_queue[e]
        /\ rcv_nxt'[e] = rcv_nxt[e] /\ rcv_buf'[e] = rcv_buf[e]
    BY <1>5
  <2>2. Accepted(o)' /\ Numb(o)' = Numb(o)
    BY <1>1, <1>3, <1>12, <2>1, FrameAccepted DEF Carried
  <2>3. Buffered(o)'
    BY <1>1, <1>3, <1>12, <2>2, FrameBuffered DEF Carried
  <2>4. /\ Rcvd(o)' = Rcvd(o) /\ Queued(o)' /\ Waiting(o)'
        /\ \A a : Received(o, a)' <=> Received(o, a)
    BY <1>1, <1>3, <2>1, <2>2, FrameReceiver DEF Carried
  <2>5. Remembered(o)'
    BY <1>3, <1>12, <2>2, <2>4 DEF Carried, Remembered
  <2>6. Pos(rcv_nxt[e]) - 1 <= Rcvd(o)
    <3>1. rcv_nxt[e] = Sn(Rcvd(o) + 1)
      BY <1>1, UnaIs
    <3>2. Rcvd(o) \in 0 .. Total(o) + RcvWnd
      BY <1>3, Constants
    <3>3. Pos(Sn(Rcvd(o) + 1)) = Rcvd(o) + 1
      BY <1>1, <3>2, Numbers
    <3> QED BY <1>3, <3>1, <3>3
  <2>7. \A sn \in acklist[e] : Pos(sn) \in 1 .. Numb(o) /\ Received(o, Pos(sn))
    BY <1>1, <1>3 DEF Carried, Truthful, Honest
  <2>8. \A i \in 1 .. Len(net'[o]) :
           \/ \E j \in 1 .. Len(net[o]) : net'[o][i] = net[o][j]
           \/ /\ Pos(net'[o][i].una) - 1 <= Rcvd(o)'
              /\ \A sn \in net'[o][i].acks : Pos(sn) \in 1 .. Numb(o)' /\ Received(o, Pos(sn))'
    <3> SUFFICES ASSUME NEW i \in 1 .. Len(out), NEW j \in 1 .. Len(Output(e)), out[i] = Output(e)[j]
                 PROVE  /\ Pos(out[i].una) - 1 <= Rcvd(o)'
                        /\ \A sn \in out[i].acks : Pos(sn) \in 1 .. Numb(o)' /\ Received(o, Pos(sn))'
      BY <1>11, <1>12
    <3> QED BY <1>10, <2>2, <2>4, <2>6, <2>7
  <2>9. Truthful(o)'
    <3>1. /\ Numb(o) \in Int /\ Numb(o)' \in Int /\ Numb(o) <= Numb(o)'
          /\ Rcvd(o) \in Nat /\ Rcvd(o)' \in Nat /\ Rcvd(o) <= Rcvd(o)'
      BY <1>3, <2>2, <2>4
    <3>2. Truthful(o)
      BY <1>3 DEF Carried
    <3> HIDE DEF Truthful
    <3> QED BY <1>1, <1>3, <1>12, <2>4, <2>8, <3>1, <3>2, FrameTruthful
  <2> QED BY <2>2, <2>3, <2>4, <2>5, <2>9 DEF Carried
<1> QED BY <1>1, <1>14, <1>22, <1>23 DEF KcpInv

-----------------------------------------------------------------------------
(* ikcp_input                                                                *)
\* The send buffer after what a datagram acknowledges is taken out of it
\* (ikcp_parse_una, ikcp_parse_ack): what goes has arrived.
LEMMA UnackedIs ==
    ASSUME ShortConnection, KcpInv, NEW p \in Ends, NEW d \in Packets,
           Pos(d.una) - 1 <= Rcvd(p), Honest(p, d.acks)
    PROVE  /\ Unacked(p, d) \in Seq(InFlight)
           /\ FirstOf(Unacked(p, d), snd_nxt[p]) \in 0 .. W - 1
           /\ Pos(FirstOf(Unacked(p, d), snd_nxt[p])) - 1 \in Una(p) .. Numb(p)
           /\ Orderly(p, Unacked(p, d), Pos(FirstOf(Unacked(p, d), snd_nxt[p])) - 1, Numb(p))
           /\ \A a \in Rcvd(p) + 1 .. Numb(p) :
                 Received(p, a) \/ \E j \in 1 .. Len(Unacked(p, d)) : Unacked(p, d)[j].sn = Sn(a)
<1> DEFINE S == {seg \in Range(snd_buf[p]) : itimediff(d.una, seg.sn) <= 0 /\ seg.sn \notin d.acks}
           K == Unacked(p, d)
           b == snd_buf[p]
           N == Numb(p)
           U == Una(p)
           R == Rcvd(p)
           H == W \div 2
<1>1. /\ N \in 0 .. Total(p) /\ R \in 0 .. N /\ U \in 0 .. N /\ Total(p) \in Nat /\ RcvWnd \in Nat \ {0}
      /\ Total(p) + RcvWnd <= H /\ H \in Nat /\ W = 2 * H /\ W \in Nat /\ Len(b) \in Nat
  BY Facts, Constants
<1>2. b \in Seq(InFlight) /\ Orderly(p, b, U, N) /\ snd_nxt[p] = Sn(N + 1)
  BY UnaIs DEF KcpInv, Types, Carried, Buffered, Orderly
<1>3. K = Kept(b, S)
  BY DEF Unacked
<1>4. K \in Seq(InFlight)
  <2> HIDE DEF S, b, K
  <2> QED BY <1>2, <1>3, KeptIs
<1>5. PICK g : Picks(K, b, S, Len(b), g)
  <2> HIDE DEF S, b, K
  <2> QED BY <1>2, <1>3, KeptIs
<1> HIDE DEF K, b, N, U, R, H
<1>6. ASSUME NEW j \in 1 .. Len(b)
      PROVE  /\ Pos(b[j].sn) \in U + 1 .. N /\ Sn(Pos(b[j].sn)) = b[j].sn
             /\ (b[j] \in S \/ Received(p, Pos(b[j].sn)))
  <2> DEFINE a == Pos(b[j].sn)
             u == Pos(d.una)
  <2>1. a \in U + 1 .. N
    BY <1>2 DEF Orderly
  <2>2. b[j].sn \in 0 .. W - 1 /\ d.una \in 0 .. W - 1
    <3>1. b[j] \in InFlight
      BY <1>2
    <3> QED BY <3>1 DEF InFlight, Packets
  <2>3. Sn(a) = b[j].sn /\ Sn(u) = d.una /\ u \in 1 .. W
    BY <2>2, SnPos
  <2>4. u - 1 <= R
    BY DEF R
  <2> HIDE DEF a, u
  <2>5. ASSUME itimediff(d.una, b[j].sn) > 0 PROVE Received(p, a)
    <3>1. a \in Nat /\ u \in Nat /\ u - a >= -H /\ u - a < H
      BY <1>1, <2>1, <2>3, <2>4
    <3>2. itimediff(Sn(u), Sn(a)) = u - a
      BY <3>1, Diff DEF H
    <3>3. a <= R
      BY <1>1, <2>3, <2>4, <2>5, <3>1, <3>2
    <3> QED BY <3>3 DEF Received, R
  <2>6. ASSUME b[j].sn \in d.acks PROVE Received(p, a)
    BY <2>6 DEF Honest, a
  <2>7. itimediff(d.una, b[j].sn) \in Int
    <3>1. d.una \in Int /\ b[j].sn \in Int /\ W \in Nat \ {0} /\ W \div 2 \in Int
      BY <2>2, Constants
    <3> DEFINE x == d.una - b[j].sn + W + W \div 2
    <3>2. x \in Int
      BY <3>1
    <3> HIDE DEF x
    <3>3. x % W \in Int
      BY <3>1, <3>2, ModDef
    <3> QED BY <3>1, <3>3 DEF itimediff, x
  <2>8. b[j] \in S \/ Received(p, a)
    <3>1. b[j] \in Range(snd_buf[p])
      BY <1>2 DEF Range, b
    <3> QED BY <2>5, <2>6, <2>7, <3>1
  <2> QED BY <2>1, <2>3, <2>8 DEF a
<1> HIDE DEF S
<1>7. \A j \in 1 .. Len(K) : g[j] \in 1 .. Len(b) /\ K[j] = b[g[j]]
  BY <1>5 DEF Picks
<1>8. \A i, j \in 1 .. Len(K) : i < j => Pos(K[i].sn) < Pos(K[j].sn)
  <2> SUFFICES ASSUME NEW i \in 1 .. Len(K), NEW j \in 1 .. Len(K), i < j
               PROVE  Pos(K[i].sn) < Pos(K[j].sn)
    OBVIOUS
  <2>1. g[i] < g[j]
    BY <1>5 DEF Picks
  <2>2. Pos(b[g[i]].sn) < Pos(b[g[j]].sn)
    BY <1>2, <1>7, <2>1 DEF Orderly
  <2> QED BY <1>7, <2>2
<1>9. \A j \in 1 .. Len(K) :
         /\ Pos(K[j].sn) \in U + 1 .. N
         /\ K[j].frg = Piece(p)[Pos(K[j].sn)].frg /\ K[j].data = Piece(p)[Pos(K[j].sn)].data
  BY <1>2, <1>7 DEF Orderly
<1> DEFINE first == FirstOf(K, snd_nxt[p])
<1>10. /\ first \in 0 .. W - 1 /\ Pos(first) - 1 \in U .. N
       /\ \A j \in 1 .. Len(K) : Pos(K[j].sn) \in Pos(first) .. N
  <2>1. CASE K = <<>>
    <3>1. first = Sn(N + 1)
      BY <1>2, <2>1 DEF FirstOf
    <3>2. N \in 0 .. Total(p) + RcvWnd
      BY <1>1
    <3>3. Sn(N + 1) \in 0 .. W - 1 /\ Pos(Sn(N + 1)) = N + 1
      BY <3>2, Numbers
    <3> HIDE DEF first
    <3>4. Pos(first) - 1 = N /\ N \in U .. N
      BY <1>1, <3>1, <3>3
    <3> QED BY <2>1, <3>1, <3>3, <3>4
  <2>2. CASE K # <<>>
    <3>1. first = K[1].sn /\ 1 \in 1 .. Len(K) /\ Len(K) \in Nat
      BY <1>4, <2>2 DEF FirstOf
    <3>2. K[1] \in InFlight
      BY <1>4, <3>1
    <3>3. K[1].sn \in 0 .. W - 1
      BY <3>2 DEF InFlight
    <3>4. Pos(K[1].sn) \in U + 1 .. N
      BY <1>9, <3>1
    <3>5. ASSUME NEW j \in 1 .. Len(K) PROVE Pos(K[j].sn) \in Pos(K[1].sn) .. N
      <4>1. j = 1 \/ 1 < j
        BY <3>1
      <4>2. j = 1 \/ Pos(K[1].sn) < Pos(K[j].sn)
        BY <1>8, <3>1, <4>1
      <4>3. Pos(K[j].sn) \in U + 1 .. N
        BY <1>9
      <4> QED BY <1>1, <3>4, <4>2, <4>3
    <3>6. Pos(K[1].sn) - 1 \in U .. N
      BY <1>1, <3>4
    <3> HIDE DEF first
    <3> QED BY <3>1, <3>3, <3>5, <3>6
  <2> QED BY <2>1, <2>2
<1> HIDE DEF first
<1>11. Orderly(p, K, Pos(first) - 1, N)
  <2>1. \A j \in 1 .. Len(K) : Pos(K[j].sn) \in (Pos(first) - 1) + 1 .. N
    <3>1. Pos(first) \in Int
      BY <1>10, SnPos
    <3>2. (Pos(first) - 1) + 1 = Pos(first)
      BY <3>1
    <3> QED BY <1>10, <3>2
  <2> QED BY <1>8, <1>9, <2>1 DEF Orderly
<1>12. ASSUME NEW a \in R + 1 .. N
       PROVE  Received(p, a) \/ \E j \in 1 .. Len(K) : K[j].sn = Sn(a)
  <2>1. Received(p, a) \/ \E j \in 1 .. Len(b) : b[j].sn = Sn(a)
    BY DEF KcpInv, Carried, Remembered, R, N, b
  <2>2. ASSUME NEW j \in 1 .. Len(b), b[j].sn = Sn(a)
        PROVE  Received(p, a) \/ \E k \in 1 .. Len(K) : K[k].sn = Sn(a)
    <3>1. CASE b[j] \in S
      <4>1. PICK k \in 1 .. Len(K) : g[k] = j
        <5>1. j \in 1 .. Len(b)
          OBVIOUS
        <5> QED BY <1>5, <3>1, <5>1 DEF Picks
      <4> QED BY <1>7, <2>2, <4>1
    <3>2. CASE Received(p, Pos(b[j].sn))
      <4>1. a \in 1 .. Total(p) + RcvWnd + 1
        BY <1>1
      <4>2. Pos(Sn(a)) = a
        BY <4>1, Numbers
      <4> QED BY <2>2, <3>2, <4>2
    <3> QED BY <1>6, <3>1, <3>2
  <2> QED BY <2>1, <2>2
<1> QED BY <1>4, <1>10, <1>11, <1>12 DEF K, N, U, R, first

\* The windows of ikcp_input place a segment: it is new if it is after what has
\* arrived in order, and has room if it is within a window of that.
LEMMA WindowIs ==
    ASSUME ShortConnection, KcpInv, NEW p \in Ends, NEW a \in 1 .. Numb(p)
    PROVE  /\ Window(Other(p), Seg(p, a)) <=> a <= Rcvd(p) + RcvWnd
           /\ Ahead(Other(p), Seg(p, a)) <=> a >= Rcvd(p) + 1
<1> DEFINE R == Rcvd(p)
           H == W \div 2
<1>1. /\ a \in 1 .. Total(p) /\ R \in 0 .. Total(p) /\ Total(p) \in Nat /\ RcvWnd \in Nat \ {0}
      /\ Total(p) + RcvWnd <= H /\ H \in Nat
  <2>1. Numb(p) \in 0 .. Total(p) /\ R \in 0 .. Numb(p) /\ Total(p) \in Nat
    BY Facts
  <2> QED BY <2>1, Facts, Constants
<1>2. rcv_nxt[Other(p)] = Sn(R + 1)
  BY UnaIs
<1> HIDE DEF R, H
<1>3. /\ a \in Nat /\ R + 1 \in Nat /\ R + 1 + RcvWnd \in Nat
      /\ a - (R + 1) >= -H /\ a - (R + 1) < H
      /\ a - (R + 1 + RcvWnd) >= -H /\ a - (R + 1 + RcvWnd) < H
  BY <1>1
<1>4. itimediff(Sn(a), Sn(R + 1)) = a - (R + 1)
  BY <1>3, Diff DEF H
<1>5. itimediff(Sn(a), Sn(R + 1 + RcvWnd)) = a - (R + 1 + RcvWnd)
  BY <1>3, Diff DEF H
<1>6. (Sn(R + 1) + RcvWnd) % W = Sn(R + 1 + RcvWnd)
  BY <1>1, <1>3, SnPlus
<1>7. Seg(p, a).sn = Sn(a)
  BY DEF Seg
<1>8. Window(Other(p), Seg(p, a)) <=> a - (R + 1 + RcvWnd) < 0
  BY <1>2, <1>5, <1>6, <1>7 DEF Window
<1>9. Ahead(Other(p), Seg(p, a)) <=> a - (R + 1) >= 0
  BY <1>2, <1>4, <1>7 DEF Ahead
<1> QED BY <1>1, <1>8, <1>9 DEF R

\* What arrives from an end, at the other: its numbered segments within the window
\* are taken, and what is acknowledged of them has arrived (ikcp_parse_data).
LEMMA TakenIn ==
    ASSUME ShortConnection, KcpInv, NEW p \in Ends, NEW push \in SUBSET Segment,
           \A s \in push : \E a \in 1 .. Numb(p) : s = Seg(p, a),
           Data(Other(p), push), got' = got, sent' = sent, snd_queue' = snd_queue
    PROVE  /\ rcv_nxt' \in [Ends -> 0 .. W - 1] /\ rcv_buf' \in [Ends -> SUBSET Segment]
           /\ rcv_queue' \in [Ends -> Seq(Segment)]
           /\ \A q \in Ends : q # Other(p) => /\ rcv_nxt'[q] = rcv_nxt[q] /\ rcv_buf'[q] = rcv_buf[q]
                                              /\ rcv_queue'[q] = rcv_queue[q]
           /\ Rcvd(p)' \in Rcvd(p) .. Numb(p) /\ Queued(p)' /\ Waiting(p)'
           /\ \A a \in 1 .. Numb(p) : Received(p, a) => Received(p, a)'
           /\ \A s \in push : Window(Other(p), s) => Pos(s.sn) \in 1 .. Numb(p) /\ Received(p, Pos(s.sn))'
<1> DEFINE o == Other(p)
           new == {s \in push : Window(o, s) /\ Ahead(o, s) /\ \A r \in rcv_buf[o] : r.sn # s.sn}
           buf == rcv_buf[o] \cup new
           queue == rcv_queue[o]
           N == Numb(p)
           R == Rcvd(p)
<1>1. /\ Types /\ Carried(p) /\ o \in Ends /\ N \in 0 .. Total(p) /\ R \in 0 .. N /\ Total(p) \in Nat
      /\ Taken(p) \in Nat /\ R = Taken(p) + Len(queue) /\ Len(queue) \in 0 .. RcvWnd /\ RcvWnd \in Nat
      /\ Len(got[p]) \in 0 .. Len(Parts[p])
  BY Facts, Constants
<1>2. Moved(o, buf, queue)
  BY DEF Data
<1> HIDE DEF o, new, buf, queue
<1>3. queue \in Seq(Segment) /\ rcv_buf[o] \in SUBSET Segment /\ new \in SUBSET Segment
  BY <1>1 DEF Types, queue, new
<1>4. \A i \in 1 .. Len(queue) : queue[i] = Seg(p, Taken(p) + i)
  BY <1>1 DEF Carried, Queued, queue, o
<1>5. Taken(p)' = Taken(p) /\ Numb(p)' = N
  BY DEF Taken, Numb
<1> HIDE DEF N, R
<1>6. \A s \in rcv_buf[o] : \E a \in R + 1 .. R + RcvWnd : a <= N /\ s = Seg(p, a)
  BY <1>1 DEF Carried, Waiting, o, R, N
<1>7. \A s \in new : \E a \in R + 1 .. R + RcvWnd : a <= N /\ s = Seg(p, a)
  <2> SUFFICES ASSUME NEW s \in new PROVE \E a \in R + 1 .. R + RcvWnd : a <= N /\ s = Seg(p, a)
    OBVIOUS
  <2>1. s \in push /\ Window(o, s) /\ Ahead(o, s)
    BY DEF new
  <2>2. PICK a \in 1 .. N : s = Seg(p, a)
    BY <2>1 DEF N
  <2>3. a <= R + RcvWnd /\ a >= R + 1
    BY <2>1, <2>2, WindowIs DEF o, N, R
  <2>4. a \in R + 1 .. R + RcvWnd /\ a <= N
    BY <1>1, <2>3
  <2> QED BY <2>2, <2>4
<1>8. \A s \in buf : \E a \in R + 1 .. R + RcvWnd : a <= N /\ s = Seg(p, a)
  BY <1>6, <1>7 DEF buf
<1>9. /\ rcv_nxt' \in [Ends -> 0 .. W - 1] /\ rcv_buf' \in [Ends -> SUBSET Segment]
      /\ rcv_queue' \in [Ends -> Seq(Segment)]
      /\ \A q \in Ends : q # o => /\ rcv_nxt'[q] = rcv_nxt[q] /\ rcv_buf'[q] = rcv_buf[q]
                                  /\ rcv_queue'[q] = rcv_queue[q]
      /\ Rcvd(p)' \in R .. N /\ Queued(p)' /\ Waiting(p)'
      /\ \A a \in 1 .. N : Received(p, a) \/ Seg(p, a) \in buf => Received(p, a)'
  <2>1. buf \in SUBSET Segment /\ rcv_buf[o] \subseteq buf
    BY <1>3 DEF buf
  <2>2. /\ Len(queue) <= RcvWnd /\ Taken(p)' \in Nat /\ Taken(p)' + Len(queue) = Rcvd(p)
        /\ Len(got'[p]) <= Len(Parts[p]) /\ Numb(p)' = Numb(p)
        /\ \A i \in 1 .. Len(queue) : queue[i] = Seg(p, Taken(p)' + i)
    <3>1. Len(got[p]) <= Len(Parts[p])
      BY <1>1, BeforeDef
    <3>2. Taken(p)' + Len(queue) = Rcvd(p)
      BY <1>1, <1>5 DEF R
    <3> QED BY <1>1, <1>4, <1>5, <3>1, <3>2 DEF N
  <2>3. \A s \in buf : \E a \in Rcvd(p) + 1 .. Rcvd(p) + RcvWnd : a <= Numb(p) /\ s = Seg(p, a)
    BY <1>8 DEF R, N
  <2> QED BY <1>2, <1>3, <2>1, <2>2, <2>3, Advance DEF o, R, N
<1>10. ASSUME NEW s \in push, Window(o, s)
       PROVE  Pos(s.sn) \in 1 .. N /\ Received(p, Pos(s.sn))'
  <2>1. PICK a \in 1 .. N : s = Seg(p, a)
    BY DEF N
  <2>2. a \in 1 .. Total(p) + RcvWnd + 1 /\ a \in 1 .. Total(p)
    BY <1>1
  <2>3. s.sn = Sn(a) /\ Pos(s.sn) = a
    BY <2>1, <2>2, Numbers DEF Seg
  <2>4. CASE a <= R
    <3>1. Received(p, a)
      BY <2>4 DEF Received, R
    <3> QED BY <1>9, <2>3, <3>1
  <2>5. CASE a >= R + 1
    <3>1. Ahead(o, s)
      BY <2>1, <2>5, WindowIs DEF o, N, R
    <3>2. CASE \E r \in rcv_buf[o] : r.sn = s.sn
      <4>1. PICK r \in rcv_buf[o] : r.sn = s.sn
        BY <3>2
      <4>2. PICK c \in R + 1 .. R + RcvWnd : c <= N /\ r = Seg(p, c)
        BY <1>6
      <4>3. r.sn = Sn(c) /\ c \in 1 .. Total(p) + RcvWnd + 1
        BY <1>1, <4>2 DEF Seg
      <4>4. c = a
        BY <2>2, <2>3, <4>1, <4>3, Numbers
      <4>5. Seg(p, a) \in buf
        BY <4>2, <4>4 DEF buf
      <4> QED BY <1>9, <2>3, <4>5
    <3>3. CASE \A r \in rcv_buf[o] : r.sn # s.sn
      <4>1. s \in new
        BY <1>10, <3>1, <3>3 DEF new
      <4>2. Seg(p, a) \in buf
        BY <2>1, <4>1 DEF buf
      <4> QED BY <1>9, <2>3, <4>2
    <3> QED BY <3>2, <3>3
  <2> QED BY <1>1, <2>4, <2>5
<1> QED BY <1>9, <1>10 DEF o, R, N

\* A datagram arrives (ikcp_input), and is one of those that were under way.
LEMMA InputStep ==
    ASSUME ShortConnection, KcpInv, NEW e \in Ends, NEW i \in DOMAIN net[e], ikcp_input(e, net[e][i]),
           net' \in [Ends -> Seq(Packets)],
           \A p \in Ends : \A j \in 1 .. Len(net'[p]) : \E k \in 1 .. Len(net[p]) : net'[p][j] = net[p][k]
    PROVE  KcpInv'
<1> DEFINE o == Other(e)
           d == net[e][i]
           K == Unacked(e, d)
           first == FirstOf(K, snd_nxt[e])
<1>1. o \in Ends /\ Other(o) = e /\ o # e /\ \A q \in Ends : q = e \/ q = o
  BY TwoEnds
<1>2. /\ Types /\ Carried(e) /\ Numb(e) \in 0 .. Total(e) /\ Rcvd(e) \in 0 .. Numb(e) /\ Una(e) \in 0 .. Numb(e)
      /\ SndWnd \in Nat
      /\ \A j \in 1 .. Len(net[e]) : Pos(net[e][j].una) \in Int
  BY Facts, Constants
<1>3. /\ Carried(o) /\ Numb(o) \in 0 .. Total(o) /\ Rcvd(o) \in 0 .. Numb(o)
      /\ \A j \in 1 .. Len(net[o]) : Pos(net[o][j].una) \in Int
  BY <1>1, Facts
<1>4. i \in 1 .. Len(net[e]) /\ d \in Packets
  <2>1. net[e] \in Seq(Packets)
    BY <1>2 DEF Types
  <2> QED BY <2>1
<1>5. Pos(d.una) - 1 <= Rcvd(e) /\ Honest(e, d.acks)
  BY <1>2, <1>4 DEF Carried, Truthful
<1>6. \A s \in d.push : \E a \in 1 .. Numb(o) : s = Seg(o, a)
  BY <1>1, <1>3, <1>4 DEF Carried, Truthful
<1>7. d.wnd \in 0 .. RcvWnd /\ d.ask \in BOOLEAN /\ d.push \in SUBSET Segment
  BY <1>4 DEF Packets
<1>8. /\ snd_buf \in [Ends -> Seq(InFlight)] /\ snd_una \in [Ends -> 0 .. W - 1]
      /\ rmt_wnd \in [Ends -> 0 .. RcvWnd] /\ acklist \in [Ends -> SUBSET (0 .. W - 1)]
      /\ tell \in [Ends -> BOOLEAN]
  BY <1>2 DEF Types
<1> HIDE DEF o, d
<1>9. PICK again \in {{}, Overtaken(e, d)} :
         snd_buf' = [snd_buf EXCEPT ![e] = [j \in DOMAIN K |-> [K[j] EXCEPT !.due = @ \/ j \in again]]]
  BY DEF ikcp_input, d
<1> DEFINE b == [j \in DOMAIN K |-> [K[j] EXCEPT !.due = @ \/ j \in again]]
<1>10. /\ K \in Seq(InFlight) /\ first \in 0 .. W - 1 /\ Pos(first) - 1 \in Una(e) .. Numb(e)
       /\ Orderly(e, K, Pos(first) - 1, Numb(e))
       /\ \A a \in Rcvd(e) + 1 .. Numb(e) :
             Received(e, a) \/ \E j \in 1 .. Len(K) : K[j].sn = Sn(a)
  BY <1>4, <1>5, UnackedIs
<1>11. /\ snd_una' = [snd_una EXCEPT ![e] = first]
       /\ rmt_wnd' = [rmt_wnd EXCEPT ![e] = d.wnd]
       /\ acklist' = [acklist EXCEPT ![e] = acklist[e] \cup {s.sn : s \in {r \in d.push : Window(e, r)}}]
       /\ tell' = [tell EXCEPT ![e] = tell[e] \/ d.ask]
       /\ Data(e, d.push)
       /\ UNCHANGED <<snd_queue, snd_nxt, asking, sent, got>>
  BY <1>8 DEF ikcp_input, d
<1> HIDE DEF K, first
<1>12. /\ b \in Seq(InFlight) /\ Len(b) = Len(K)
       /\ \A j \in 1 .. Len(K) : b[j].sn = K[j].sn /\ b[j].frg = K[j].frg /\ b[j].data = K[j].data
  <2> DEFINE x(j) == [K[j] EXCEPT !.due = @ \/ j \in again]
  <2>1. DOMAIN K = 1 .. Len(K) /\ Len(K) \in Nat /\ \A j \in 1 .. Len(K) : K[j] \in InFlight
    BY <1>10
  <2>2. \A j \in 1 .. Len(K) : x(j) \in InFlight /\ x(j).sn = K[j].sn /\ x(j).frg = K[j].frg /\ x(j).data = K[j].data
    <3> SUFFICES ASSUME NEW j \in 1 .. Len(K)
                 PROVE  x(j) \in InFlight /\ x(j).sn = K[j].sn /\ x(j).frg = K[j].frg /\ x(j).data = K[j].data
      OBVIOUS
    <3> DEFINE y == K[j].due \/ j \in again
    <3>1. K[j] \in InFlight /\ y \in BOOLEAN /\ x(j) = [K[j] EXCEPT !.due = y]
      BY <2>1
    <3> HIDE DEF y, x
    <3> QED BY <3>1 DEF InFlight
  <2> HIDE DEF x
  <2>3. b = [j \in 1 .. Len(K) |-> x(j)]
    BY <2>1 DEF x
  <2> HIDE DEF b
  <2>4. \A j \in 1 .. Len(K) : b[j] = x(j)
    BY <2>3
  <2>5. b \in Seq(InFlight) /\ Len(b) = Len(K)
    <3>1. DOMAIN b = 1 .. Len(K) /\ b = [j \in 1 .. Len(K) |-> b[j]]
      BY <2>3
    <3>2. \A j \in 1 .. Len(K) : b[j] \in InFlight
      BY <2>2, <2>4
    <3> QED BY <2>1, <3>1, <3>2
  <2> QED BY <2>2, <2>4, <2>5
<1>13. snd_buf' = [snd_buf EXCEPT ![e] = b]
  BY <1>9
<1> HIDE DEF b
<1>14. /\ snd_buf'[e] = b /\ snd_buf'[o] = snd_buf[o] /\ snd_una'[e] = first /\ snd_una'[o] = snd_una[o]
       /\ acklist'[e] = acklist[e] \cup {s.sn : s \in {r \in d.push : Window(e, r)}}
       /\ acklist'[o] = acklist[o]
       /\ snd_buf' \in [Ends -> Seq(InFlight)] /\ snd_una' \in [Ends -> 0 .. W - 1]
       /\ rmt_wnd' \in [Ends -> 0 .. RcvWnd] /\ tell' \in [Ends -> BOOLEAN]
  <2>1. (tell[e] \/ d.ask) \in BOOLEAN
    OBVIOUS
  <2> QED BY <1>1, <1>7, <1>8, <1>10, <1>11, <1>12, <1>13, <2>1
<1>15. acklist' \in [Ends -> SUBSET (0 .. W - 1)]
  <2>1. \A s \in d.push : s.sn \in 0 .. W - 1
    BY <1>7 DEF Segment
  <2> QED BY <1>8, <1>11, <2>1
<1>16. /\ rcv_nxt' \in [Ends -> 0 .. W - 1] /\ rcv_buf' \in [Ends -> SUBSET Segment]
       /\ rcv_queue' \in [Ends -> Seq(Segment)]
       /\ \A q \in Ends : q # e => /\ rcv_nxt'[q] = rcv_nxt[q] /\ rcv_buf'[q] = rcv_buf[q]
                                   /\ rcv_queue'[q] = rcv_queue[q]
       /\ Rcvd(o)' \in Rcvd(o) .. Numb(o) /\ Queued(o)' /\ Waiting(o)'
       /\ \A a \in 1 .. Numb(o) : Received(o, a) => Received(o, a)'
       /\ \A s \in d.push : Window(e, s) => Pos(s.sn) \in 1 .. Numb(o) /\ Received(o, Pos(s.sn))'
  <2>1. got' = got /\ sent' = sent /\ snd_queue' = snd_queue /\ Data(Other(o), d.push)
    BY <1>1, <1>11
  <2> QED BY <1>1, <1>6, <1>7, <2>1, TakenIn
<1>17. Types'
  BY <1>2, <1>11, <1>14, <1>15, <1>16 DEF Types
<1>18. Carried(e)'
  <2>1. Accepted(e)' /\ Numb(e)' = Numb(e)
    BY <1>2, <1>11, FrameAccepted DEF Carried
  <2>2. Una(e)' = Pos(first) - 1
    BY <1>14 DEF Una
  <2>3. Buffered(e)'
    <3>1. Orderly(e, b, Pos(first) - 1, Numb(e))
      BY <1>10, <1>12 DEF Orderly
    <3>2. Numb(e) <= Una(e) + SndWnd
      BY <1>2 DEF Carried, Buffered
    <3>3. Pos(first) - 1 \in 0 .. Numb(e) /\ Numb(e) <= (Pos(first) - 1) + SndWnd
      BY <1>2, <1>10, <3>2
    <3> QED BY <1>14, <2>1, <2>2, <3>1, <3>3 DEF Buffered, Orderly
  <2>4. got'[e] = got[e] /\ rcv_queue'[o] = rcv_queue[o] /\ rcv_nxt'[o] = rcv_nxt[o] /\ rcv_buf'[o] = rcv_buf[o]
    BY <1>1, <1>11, <1>16
  <2>5. /\ Rcvd(e)' = Rcvd(e) /\ Queued(e)' /\ Waiting(e)'
        /\ \A a : Received(e, a)' <=> Received(e, a)
    BY <1>2, <2>1, <2>4, FrameReceiver DEF Carried, o
  <2>6. Remembered(e)'
    <3>1. \A a \in Rcvd(e) + 1 .. Numb(e) : Received(e, a) \/ \E j \in 1 .. Len(b) : b[j].sn = Sn(a)
      BY <1>10, <1>12
    <3> QED BY <1>14, <2>1, <2>5, <3>1 DEF Remembered
  <2>7. Truthful(e)'
    <3>1. /\ Numb(e) \in Int /\ Numb(e)' \in Int /\ Numb(e) <= Numb(e)'
          /\ Rcvd(e) \in Nat /\ Rcvd(e)' \in Nat /\ Rcvd(e) <= Rcvd(e)'
      BY <1>2, <2>1, <2>5
    <3>2. Truthful(e)
      BY <1>2 DEF Carried
    <3> HIDE DEF Truthful
    <3> QED BY <1>1, <1>2, <1>14, <2>5, <3>1, <3>2, FrameTruthful DEF o
  <2> QED BY <2>1, <2>3, <2>5, <2>6, <2>7 DEF Carried
<1>19. Carried(o)'
  <2>1. Accepted(o)' /\ Numb(o)' = Numb(o)
    BY <1>1, <1>3, <1>11, FrameAccepted DEF Carried
  <2>2. Buffered(o)'
    BY <1>1, <1>3, <1>14, <2>1, FrameBuffered DEF Carried
  <2>3. Remembered(o)'
    <3>1. \A a \in Rcvd(o)' + 1 .. Numb(o)' : a \in Rcvd(o) + 1 .. Numb(o) /\ a \in 1 .. Numb(o)
      BY <1>3, <1>16, <2>1
    <3> QED BY <1>3, <1>14, <1>16, <3>1 DEF Carried, Remembered
  <2>4. Truthful(o)'
    <3>1. /\ Numb(o) \in Int /\ Numb(o)' \in Int /\ Numb(o) <= Numb(o)'
          /\ Rcvd(o) \in Nat /\ Rcvd(o)' \in Nat /\ Rcvd(o) <= Rcvd(o)'
      BY <1>3, <1>16, <2>1
    <3>2. Truthful(o)
      BY <1>3 DEF Carried
    <3>3. \A sn \in acklist'[e] :
             sn \in acklist[e] \/ (Pos(sn) \in 1 .. Numb(o)' /\ Received(o, Pos(sn))')
      BY <1>14, <1>16, <2>1
    <3>4. \A sn \in acklist'[Other(o)] :
             sn \in acklist[Other(o)] \/ (Pos(sn) \in 1 .. Numb(o)' /\ Received(o, Pos(sn))')
      BY <1>1, <3>3
    <3>5. /\ \A j \in 1 .. Len(net'[o]) : \E k \in 1 .. Len(net[o]) : net'[o][j] = net[o][k]
          /\ \A j \in 1 .. Len(net'[Other(o)]) :
                \E k \in 1 .. Len(net[Other(o)]) : net'[Other(o)][j] = net[Other(o)][k]
      BY <1>1
    <3>6. \A a \in 1 .. Numb(o) : Received(o, a) => Received(o, a)'
      BY <1>16
    <3> HIDE DEF Truthful
    <3> QED BY <1>1, <1>3, <3>1, <3>2, <3>4, <3>5, <3>6, FrameTruthful
  <2> QED BY <1>16, <2>1, <2>2, <2>3, <2>4 DEF Carried
<1> QED BY <1>1, <1>17, <1>18, <1>19 DEF KcpInv

\* A datagram arrives, in any order, and leaves the network.
LEMMA ArriveStep ==
    ASSUME ShortConnection, KcpInv, NEW e \in Ends, NEW i \in 1 .. Channel, Arrive(e, i)
    PROVE  KcpInv'
<1>1. i \in DOMAIN net[e] /\ ikcp_input(e, net[e][i]) /\ net' = [net EXCEPT ![e] = Without(net[e], i)]
  BY DEF Arrive
<1>2. /\ net' \in [Ends -> Seq(Packets)]
      /\ \A p \in Ends : \A j \in 1 .. Len(net'[p]) : \E k \in 1 .. Len(net[p]) : net'[p][j] = net[p][k]
  BY <1>1, Gone DEF KcpInv
<1> QED BY <1>1, <1>2, InputStep

\* A datagram arrives and a copy stays on the network.
LEMMA RepeatStep ==
    ASSUME ShortConnection, KcpInv, NEW e \in Ends, NEW i \in 1 .. Channel, Repeat(e, i)
    PROVE  KcpInv'
<1>1. i \in DOMAIN net[e] /\ ikcp_input(e, net[e][i]) /\ net' = net
  BY DEF Repeat
<1>2. net' \in [Ends -> Seq(Packets)]
  BY <1>1 DEF KcpInv, Types
<1> QED BY <1>1, <1>2, InputStep

-----------------------------------------------------------------------------
(* The theorems                                                              *)
\* The invariant holds of a connection that is idle.
LEMMA KcpStart ==
    ASSUME ShortConnection, Init
    PROVE  KcpInv
<1>1. /\ Start \in 0 .. W - 1 /\ W \in Nat \ {0} /\ RcvWnd \in Nat \ {0} /\ SndWnd \in Nat \ {0}
  BY Constants
<1>2. Types
  <2>1. <<>> \in Seq(Unnumbered) /\ <<>> \in Seq(InFlight) /\ <<>> \in Seq(Segment) /\ <<>> \in Seq(Packets)
        /\ <<>> \in Seq(Seq(Datum))
    OBVIOUS
  <2>2. Start \in 0 .. W - 1 /\ RcvWnd \in 0 .. RcvWnd
    BY <1>1
  <2> QED BY <2>1, <2>2 DEF Init, Types
<1>3. ASSUME NEW p \in Ends PROVE Carried(p)
  <2> DEFINE o == Other(p)
  <2>1. o \in Ends
    BY TwoEnds
  <2>2. /\ snd_queue[p] = <<>> /\ snd_buf[p] = <<>> /\ snd_una[p] = Start /\ snd_nxt[p] = Start
        /\ rcv_nxt[o] = Start /\ rcv_buf[o] = {} /\ rcv_queue[o] = <<>> /\ acklist[o] = {}
        /\ net[p] = <<>> /\ net[o] = <<>> /\ sent[p] = <<>> /\ got[p] = <<>>
    BY <2>1 DEF Init
  <2> HIDE DEF o
  <2>3. Before(p)[0] = 0 /\ Len(Parts[p]) \in Nat
    BY BeforeDef
  <2>4. Len(<<>>) = 0
    OBVIOUS
  <2>5. Numb(p) = 0 /\ Taken(p) = 0 /\ Rcvd(p) = 0
    BY <2>2, <2>3, <2>4 DEF Numb, Taken, Rcvd, o
  <2>6. Sn(1) = Start
    <3>1. Start + 1 - 1 = Start /\ Start % W = Start
      BY <1>1
    <3> QED BY <3>1 DEF Sn
  <2>7. Una(p) = 0
    <3>1. Start - Start = 0 /\ 0 % W = 0
      BY <1>1
    <3> QED BY <2>2, <3>1 DEF Una, Pos
  <2>8. Accepted(p)
    BY <2>2, <2>3, <2>4, <2>5, <2>6 DEF Accepted
  <2>9. Buffered(p)
    BY <1>1, <2>2, <2>4, <2>5, <2>7 DEF Buffered
  <2>10. Queued(p) /\ Waiting(p)
    BY <1>1, <2>2, <2>3, <2>4, <2>5, <2>6 DEF Queued, Waiting, o
  <2>11. Remembered(p)
    BY <2>5 DEF Remembered
  <2>12. Truthful(p)
    BY <2>2, <2>4 DEF Truthful, Honest, o
  <2> QED BY <2>8, <2>9, <2>10, <2>11, <2>12 DEF Carried
<1> QED BY <1>2, <1>3 DEF KcpInv

\* Every step of either end, and of the network, keeps the invariant.
LEMMA KcpNext ==
    ASSUME ShortConnection, KcpInv, [Next]_vars
    PROVE  KcpInv'
<1>1. CASE UNCHANGED vars
  <2>1. /\ UNCHANGED <<snd_queue, snd_buf, snd_una, snd_nxt, rmt_wnd, asking>>
        /\ UNCHANGED <<rcv_nxt, rcv_buf, rcv_queue, acklist, tell, net, sent, got>>
    BY <1>1 DEF vars, sender, receiver
  <2>2. Types'
    BY <2>1 DEF KcpInv, Types
  <2>3. ASSUME NEW p \in Ends PROVE Carried(p)'
    BY <2>1, FrameCarried
  <2> QED BY <2>2, <2>3 DEF KcpInv
<1>2. ASSUME NEW e \in Ends, Step(e) PROVE KcpInv'
  <2>1. CASE ikcp_send(e)
    BY <2>1, SendStep
  <2>2. CASE ikcp_recv(e)
    BY <2>2, RecvStep
  <2>3. CASE ikcp_flush(e)
    BY <2>3, FlushStep
  <2>4. CASE ProbeTime(e)
    BY <2>4, ProbeStep
  <2>5. ASSUME NEW i \in 1 .. SndWnd, Expire(e, i) PROVE KcpInv'
    BY <2>5, ExpireStep
  <2>6. ASSUME NEW i \in 1 .. Channel, Arrive(e, i) PROVE KcpInv'
    BY <2>6, ArriveStep
  <2>7. ASSUME NEW i \in 1 .. Channel, Repeat(e, i) PROVE KcpInv'
    BY <2>7, RepeatStep
  <2>8. ASSUME NEW i \in 1 .. Channel, Lose(e, i) PROVE KcpInv'
    BY <2>8, LoseStep
  <2> QED BY <1>2, <2>1, <2>2, <2>3, <2>4, <2>5, <2>6, <2>7, <2>8 DEF Step
<1> QED BY <1>1, <1>2 DEF Next

\* The invariant says that the windows are kept and that no segment is forgotten.
LEMMA KcpMeans ==
    ASSUME ShortConnection, KcpInv
    PROVE  WindowsSound
<1>1. ASSUME NEW p \in Ends
      PROVE  /\ Len(rcv_queue[p]) <= RcvWnd /\ rmt_wnd[p] \in 0 .. RcvWnd
             /\ Cardinality(rcv_buf[p]) <= RcvWnd
             /\ {snd_una[p], snd_nxt[p], rcv_nxt[p]} \subseteq 0 .. W - 1
             /\ acklist[p] \subseteq 0 .. W - 1 /\ asking[p] \in {"off", "armed", "due"}
  <2> DEFINE o == Other(p)
  <2>1. o \in Ends /\ Other(o) = p
    BY TwoEnds
  <2>2. /\ Carried(o) /\ Rcvd(o) \in 0 .. Numb(o) /\ RcvWnd \in Nat /\ Numb(o) \in Nat
        /\ Numb(o) \in 0 .. Total(o) /\ Total(o) \in Nat
    BY <2>1, Facts, Constants
  <2> HIDE DEF o
  <2>3. Len(rcv_queue[p]) <= RcvWnd
    BY <2>1, <2>2 DEF Carried, Queued
  <2>4. Cardinality(rcv_buf[p]) <= RcvWnd
    <3> DEFINE I == Rcvd(o) + 1 .. Rcvd(o) + RcvWnd
               f == [s \in rcv_buf[p] |-> CHOOSE a \in I : s = Seg(o, a)]
    <3>1. \A s \in rcv_buf[p] : f[s] \in I /\ s = Seg(o, f[s])
      <4>1. \A s \in rcv_buf[p] : \E a \in I : s = Seg(o, a)
        BY <2>1, <2>2 DEF Carried, Waiting
      <4> QED BY <4>1
    <3>2. f \in [rcv_buf[p] -> I]
      BY <3>1
    <3> HIDE DEF f
    <3>3. \A s, t \in rcv_buf[p] : f[s] = f[t] => s = t
      BY <3>1
    <3>4. f \in Injection(rcv_buf[p], I)
      BY <3>2, <3>3 DEF Injection, IsInjective
    <3>5. IsFiniteSet(I) /\ Cardinality(I) <= RcvWnd
      <4>1. Rcvd(o) + 1 \in Int /\ Rcvd(o) + RcvWnd \in Int
        BY <2>2
      <4>2. IsFiniteSet(I) /\ Cardinality(I) = IF Rcvd(o) + 1 > Rcvd(o) + RcvWnd THEN 0
                                               ELSE (Rcvd(o) + RcvWnd) - (Rcvd(o) + 1) + 1
        BY <4>1, FS_Interval
      <4> HIDE DEF I
      <4> QED BY <2>2, <4>2
    <3>6. Cardinality(rcv_buf[p]) <= Cardinality(I) /\ Cardinality(rcv_buf[p]) \in Nat /\ Cardinality(I) \in Nat
      <4>1. IsFiniteSet(rcv_buf[p]) /\ Cardinality(rcv_buf[p]) <= Cardinality(I)
        <5> HIDE DEF I
        <5> QED BY <3>4, <3>5, FS_Injection
      <4> HIDE DEF I
      <4> QED BY <3>5, <4>1, FS_CardinalityType
    <3> HIDE DEF I
    <3> QED BY <2>2, <3>5, <3>6
  <2>5. rmt_wnd[p] \in 0 .. RcvWnd /\ snd_una[p] \in 0 .. W - 1 /\ snd_nxt[p] \in 0 .. W - 1
        /\ rcv_nxt[p] \in 0 .. W - 1 /\ acklist[p] \subseteq 0 .. W - 1 /\ asking[p] \in {"off", "armed", "due"}
    BY DEF KcpInv, Types
  <2> QED BY <2>3, <2>4, <2>5
<1>2. ASSUME NEW p \in Ends
      PROVE  LET q == Other(p) IN
             /\ itimediff(snd_nxt[p], rcv_nxt[q]) \in 0 .. SndWnd + RcvWnd
             /\ \A i \in 0 .. itimediff(snd_nxt[p], rcv_nxt[q]) - 1 :
                   LET sn == (rcv_nxt[q] + i) % W
                   IN \/ \E j \in DOMAIN snd_buf[p] : snd_buf[p][j].sn = sn
                      \/ \E s \in rcv_buf[q] : s.sn = sn
  <2> DEFINE q == Other(p)
             N == Numb(p)
             R == Rcvd(p)
             U == Una(p)
             H == W \div 2
  <2>1. /\ Carried(p) /\ N \in 0 .. Total(p) /\ R \in 0 .. N /\ U \in 0 .. N /\ Total(p) \in Nat
        /\ Total(p) + RcvWnd <= H /\ H \in Nat /\ RcvWnd \in Nat \ {0} /\ SndWnd \in Nat
        /\ snd_buf[p] \in Seq(InFlight)
    BY Facts, Constants DEF Types
  <2>2. snd_nxt[p] = Sn(N + 1) /\ rcv_nxt[q] = Sn(R + 1)
    BY UnaIs
  <2> HIDE DEF q, N, R, U, H
  <2>3. itimediff(snd_nxt[p], rcv_nxt[q]) = N - R
    <3>1. N + 1 \in Nat /\ R + 1 \in Nat /\ (N + 1) - (R + 1) >= -H /\ (N + 1) - (R + 1) < H
      BY <2>1
    <3>2. itimediff(Sn(N + 1), Sn(R + 1)) = (N + 1) - (R + 1)
      BY <3>1, Diff DEF H
    <3> QED BY <2>1, <2>2, <3>2
  <2>4. ASSUME NEW a \in R + 1 .. N
        PROVE  \/ Seg(p, a) \in rcv_buf[q] /\ a <= R + RcvWnd
               \/ /\ \E j \in 1 .. Len(snd_buf[p]) : snd_buf[p][j].sn = Sn(a)
                  /\ a > U
    <3>1. Received(p, a) \/ \E j \in 1 .. Len(snd_buf[p]) : snd_buf[p][j].sn = Sn(a)
      BY <2>1 DEF Carried, Remembered, R, N
    <3>2. a \in 1 .. Total(p) /\ a \in 1 .. Total(p) + RcvWnd + 1 /\ ~(a <= R)
      BY <2>1
    <3>3. ASSUME Received(p, a) PROVE Seg(p, a) \in rcv_buf[q] /\ a <= R + RcvWnd
      <4>1. Seg(p, a) \in rcv_buf[q]
        BY <3>2, <3>3 DEF Received, R, q
      <4>2. PICK c \in R + 1 .. R + RcvWnd : c <= N /\ Seg(p, a) = Seg(p, c)
        BY <2>1, <4>1 DEF Carried, Waiting, R, N, q
      <4>3. c \in 1 .. Total(p)
        BY <2>1, <4>2
      <4>4. c = a
        BY <3>2, <4>2, <4>3, SegIs
      <4> QED BY <2>1, <4>1, <4>2, <4>4
    <3>4. ASSUME NEW j \in 1 .. Len(snd_buf[p]), snd_buf[p][j].sn = Sn(a) PROVE a > U
      <4>1. Pos(snd_buf[p][j].sn) \in U + 1 .. N
        BY <2>1 DEF Carried, Buffered, U, N
      <4>2. Pos(Sn(a)) = a
        BY <3>2, Numbers
      <4> QED BY <2>1, <3>4, <4>1, <4>2
    <3> QED BY <3>1, <3>3, <3>4
  <2>5. N - R \in 0 .. SndWnd + RcvWnd
    <3>1. N <= U + SndWnd
      BY <2>1 DEF Carried, Buffered, N, U
    <3>2. U <= R + RcvWnd
      <4>1. CASE U <= R
        BY <2>1, <4>1
      <4>2. CASE U > R
        <5>1. U \in R + 1 .. N /\ ~(U > U)
          BY <2>1, <4>2
        <5> QED BY <2>4, <5>1
      <4> QED BY <2>1, <4>1, <4>2
    <3> QED BY <2>1, <3>1, <3>2
  <2>6. ASSUME NEW i \in 0 .. (N - R) - 1
        PROVE  \/ \E j \in DOMAIN snd_buf[p] : snd_buf[p][j].sn = (rcv_nxt[q] + i) % W
               \/ \E s \in rcv_buf[q] : s.sn = (rcv_nxt[q] + i) % W
    <3>1. R + 1 + i \in R + 1 .. N /\ R + 1 \in Nat /\ i \in Nat
      BY <2>1
    <3>2. (rcv_nxt[q] + i) % W = Sn(R + 1 + i)
      BY <2>2, <3>1, SnPlus
    <3>3. Seg(p, R + 1 + i).sn = Sn(R + 1 + i) /\ DOMAIN snd_buf[p] = 1 .. Len(snd_buf[p])
      BY <2>1 DEF Seg
    <3> QED BY <2>4, <3>1, <3>2, <3>3
  <2> QED BY <2>3, <2>5, <2>6 DEF q
<1> QED BY <1>1, <1>2 DEF WindowsSound, TypeOK, NoneForgotten

\* While a connection carries fewer than half the sequence numbers, the windows
\* are kept and no segment is forgotten, whatever the network does (ikcp.c).
THEOREM KcpSound == ASSUME ShortConnection PROVE Spec => []WindowsSound
<1>1. Init => KcpInv
  BY KcpStart
<1>2. KcpInv /\ [Next]_vars => KcpInv'
  BY KcpNext
<1>3. KcpInv => WindowsSound
  BY KcpMeans
<1> QED BY <1>1, <1>2, <1>3, PTL DEF Spec

\* An idle connection is an empty stream.
LEMMA StreamStart == Init => Stream!Init
BY DEF Init, Stream!Init

\* Every step of the connection sends a message, hands the next one over, or is
\* none of the stream's.
LEMMA StreamStep ==
    ASSUME ShortConnection, KcpInv, [Next]_vars
    PROVE  [Stream!Next]_(Stream!fifo)
<1>1. CASE UNCHANGED vars
  BY <1>1 DEF vars, Stream!fifo
<1>2. ASSUME NEW e \in Ends, Step(e) PROVE [Stream!Next]_(Stream!fifo)
  <2>1. CASE ikcp_send(e)
    <3> DEFINE k == Len(sent[e]) + 1
    <3>1. k \in DOMAIN Parts[e]
      <4>1. Len(sent[e]) \in Nat /\ Len(sent[e]) < Len(Parts[e])
        BY <2>1, Facts DEF ikcp_send
      <4>2. DOMAIN Parts[e] = 1 .. Len(Parts[e]) /\ Len(Parts[e]) \in Nat
        BY KcpAssumption
      <4> QED BY <4>1, <4>2
    <3>2. Message(e, k) \in Messages
      <4> HIDE DEF k
      <4> QED BY <3>1 DEF Messages
    <3>3. sent' = [sent EXCEPT ![e] = Append(sent[e], Message(e, k))] /\ got' = got
      BY <2>1 DEF ikcp_send, KcpInv, Types
    <3>4. Stream!Send(e, Message(e, k))
      BY <3>3 DEF Stream!Send
    <3> QED BY <3>2, <3>4 DEF Stream!Next
  <2>2. CASE ikcp_recv(e)
    <3> DEFINE p == Other(e)
    <3>1. p \in Ends /\ Other(p) = e
      BY TwoEnds
    <3> HIDE DEF p
    <3>2. /\ Len(got[p]) < Len(sent[p])
          /\ got' = [got EXCEPT ![p] = Append(got[p], Message(p, Len(got[p]) + 1))]
      BY <2>2, <3>1, RecvIs
    <3>3. sent[p][Len(got[p]) + 1] = Message(p, Len(got[p]) + 1)
      <4>1. Len(got[p]) \in Nat /\ Len(sent[p]) \in Nat /\ Accepted(p)
        BY <3>1, Facts DEF Carried
      <4>2. Len(got[p]) + 1 \in 1 .. Len(sent[p])
        BY <3>2, <4>1
      <4> QED BY <4>1, <4>2 DEF Accepted
    <3>4. sent' = sent
      BY <2>2 DEF ikcp_recv
    <3>5. Stream!Deliver(p)
      BY <3>2, <3>3, <3>4 DEF Stream!Deliver
    <3> QED BY <3>1, <3>5 DEF Stream!Next
  <2>3. CASE ikcp_flush(e) \/ ProbeTime(e) \/ (\E i \in 1 .. SndWnd : Expire(e, i))
             \/ (\E i \in 1 .. Channel : Arrive(e, i) \/ Repeat(e, i) \/ Lose(e, i))
    <3>1. sent' = sent /\ got' = got
      BY <2>3 DEF ikcp_flush, ProbeTime, Expire, Arrive, Repeat, Lose, ikcp_input
    <3> QED BY <3>1 DEF Stream!fifo
  <2> QED BY <1>2, <2>1, <2>2, <2>3 DEF Step
<1> QED BY <1>1, <1>2 DEF Next

\* KCP refines the reliable stream: what an end hands over is what the other sent,
\* in that order, each message once and whole, whatever the network does.  (That
\* it is all handed over in the end is Reliable, which TLC checks.)
THEOREM KcpInOrder == ASSUME ShortConnection PROVE Spec => Stream!Init /\ [][Stream!Next]_(Stream!fifo)
<1>1. Init => KcpInv /\ Stream!Init
  BY KcpStart, StreamStart
<1>2. KcpInv /\ [Next]_vars => KcpInv'
  BY KcpNext
<1>3. KcpInv /\ [Next]_vars => [Stream!Next]_(Stream!fifo)
  BY StreamStep
<1> QED BY <1>1, <1>2, <1>3, PTL DEF Spec
=============================================================================
