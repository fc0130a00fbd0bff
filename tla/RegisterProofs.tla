--------------------------- MODULE RegisterProofs ---------------------------
(***************************************************************************)
(* Proofs about the two ends of a registration, as MCRegister runs them.     *)
(*                                                                         *)
(* The supernode's table (SnRegistry): the type invariant for every          *)
(* configuration, the uniqueness of virtual addresses under SafeDeployment,  *)
(* their stability, and that every entry has a primary endpoint.             *)
(*                                                                         *)
(* The edge's choice among its supernodes (EdgeSupernode), for every list of *)
(* supernodes, every name and address and every value of the timers: the     *)
(* list, the index and the counters stay within their bounds (EdgeTypes),    *)
(* and a supernode that answers is not left (Loyal).  For the second the     *)
(* attempts that are left and the registrations that went unanswered are     *)
(* added up while the edge waits.                                           *)
(***************************************************************************)
EXTENDS MCRegister, SequenceTheorems, FiniteSetTheorems, TLAPS

-----------------------------------------------------------------------------
(* The supernode's table and its allocator                                   *)

(* A grant table is a partial function from MACs to the pool. *)
LEMMA GrantsChar ==
    ASSUME NEW f
    PROVE  f \in Grants <=> PartialFn(f, Macs, Pool)
  BY DEF Grants, PartialFn

(* Put keeps the type of a partial function, and changes one entry only. *)
LEMMA PutPartial ==
    ASSUME NEW f, NEW S, NEW T, NEW x \in S, NEW v \in T, PartialFn(f, S, T)
    PROVE  /\ PartialFn(Put(f, x, v), S, T)
           /\ DOMAIN Put(f, x, v) = DOMAIN f \cup {x}
           /\ Put(f, x, v)[x] = v
           /\ \A y \in DOMAIN f \ {x} : Put(f, x, v)[y] = f[y]
  BY DEF PartialFn, Put

(* Drop keeps the type of a partial function and the entries that stay. *)
LEMMA DropPartial ==
    ASSUME NEW f, NEW S, NEW T, NEW Gone, PartialFn(f, S, T)
    PROVE  /\ PartialFn(Drop(f, Gone), S, T)
           /\ DOMAIN Drop(f, Gone) = DOMAIN f \ Gone
           /\ \A y \in DOMAIN f \ Gone : Drop(f, Gone)[y] = f[y]
  BY DEF PartialFn, Drop

(* The address of any iteration of the collision loop is in the pool; without
   wrapping it is next + k. *)
LEMMA SlotInPool ==
    ASSUME NEW n \in Pool, NEW k \in Nat
    PROVE  /\ Slot(n, k) \in Pool
           /\ n + k <= PoolLast => Slot(n, k) = n + k
  <1> DEFINE d == n - PoolFirst + k
             P == PoolSize
  <1>1. d \in Nat /\ P \in Nat /\ P > 0 BY PoolAssumption DEF Pool, PoolSize
  <1>2. d % P \in 0 .. (P - 1) BY <1>1
  <1>3. n + k <= PoolLast => d < P BY PoolAssumption DEF Pool, PoolSize
  <1>4. d < P => d % P = d BY <1>1
  <1>5. Slot(n, k) = PoolFirst + (d % P) BY DEF Slot
  <1> HIDE DEF d
  <1>6. Slot(n, k) \in Pool BY <1>2, <1>5, PoolAssumption DEF Pool, PoolSize
  <1>7. n + k <= PoolLast => Slot(n, k) = n + k
    BY <1>3, <1>4, <1>5, PoolAssumption DEF d, Pool
  <1> QED BY <1>6, <1>7

(* What StatsOf returns is a well-typed entry. *)
LEMMA StatsOfType ==
    ASSUME TypeOK, NEW c \in Communities
    PROVE  /\ StatsOf(c) \in StatsRec
           /\ PartialFn(StatsOf(c).map, Macs, Pool)
  <1>1. Empty \in Grants BY GrantsChar DEF PartialFn, Empty
  <1>2. NewStats \in StatsRec BY <1>1, PoolAssumption DEF NewStats, StatsRec, Pool
  <1>3. StatsOf(c) \in StatsRec BY <1>2 DEF TypeOK, PartialFn, StatsOf
  <1>4. StatsOf(c).map \in Grants BY <1>3 DEF StatsRec
  <1> QED BY <1>3, <1>4, GrantsChar

-----------------------------------------------------------------------------
(* Types of the records the handlers build *)

(* Appending an endpoint keeps a list of endpoints. *)
LEMMA PushType ==
    ASSUME NEW q \in Seq(Addrs), NEW a \in Socks
    PROVE  Push(q, a) \in Seq(Addrs)
  BY DEF Push, Socks

(* One endpoint and an optional LAN endpoint make a well-typed sockets array. *)
LEMMA PrimarySocketsType ==
    ASSUME NEW a \in Addrs, NEW local \in LanAddrs \cup {NoSock}
    PROVE  Push(<<a>>, local) \in Seq(Addrs)
  <1>1. <<a>> \in Seq(Addrs) OBVIOUS
  <1>2. local \in Socks BY AddrAssumption DEF Socks, Addrs
  <1> QED BY <1>1, <1>2, PushType

(* A new entry is well typed. *)
LEMMA NewEdgeType ==
    ASSUME NEW c \in Communities, NEW a \in Addrs, NEW local \in LanAddrs \cup {NoSock},
           NEW gua \in V6Addrs \cup {NoSock}, NEW nat \in NatTypes, NEW ip \in Nat
    PROVE  /\ NewEdge(c, a, local, gua, nat, ip) \in EdgeRec
           /\ NewEdge(c, a, local, gua, nat, ip).comm = c
           /\ NewEdge(c, a, local, gua, nat, ip).ip = ip
  <1>1. Push(<<a>>, local) \in Seq(Addrs) BY PrimarySocketsType
  <1>2. SeesSameLan(a, local) \in BOOLEAN BY DEF SeesSameLan
  <1>3. Family(a) \in {0, 4, 6} BY DEF Family
  <1>4. (IF a \in V6Addrs THEN NoSock ELSE a) \in V4Addrs \cup {NoSock} BY DEF Addrs
  <1>5. (IF a \in V6Addrs THEN a ELSE gua) \in V6Addrs \cup {NoSock} OBVIOUS
  <1>6. 0 \in 0 .. Timeout BY InputAssumption
  <1> QED BY <1>1, <1>2, <1>3, <1>4, <1>5, <1>6 DEF NewEdge, EdgeRec

(* The refresh of a known entry is well typed and keeps its community and
   its endpoints. *)
LEMMA RefreshedType ==
    ASSUME NEW e \in EdgeRec, NEW nat \in NatTypes, NEW want \in ReqIps
    PROVE  /\ Refreshed(e, nat, want) \in EdgeRec
           /\ Refreshed(e, nat, want).comm = e.comm
           /\ Refreshed(e, nat, want).ip = IF want # 0 THEN want ELSE e.ip
  <1>1. 0 \in 0 .. Timeout BY InputAssumption
  <1>2. want \in Nat BY InputAssumption
  <1> QED BY <1>1, <1>2 DEF Refreshed, EdgeRec

(* Storing an endpoint under its family. *)
LEMMA SetAddrType ==
    ASSUME NEW e \in EdgeRec, NEW a \in Addrs
    PROVE  /\ SetAddr(e, a) \in EdgeRec
           /\ SetAddr(e, a).comm = e.comm
           /\ SetAddr(e, a).ip = e.ip
  BY DEF SetAddr, EdgeRec, Addrs

(* Storing the sockets array, with what an overflow overwrites. *)
LEMMA StoreSocketsType ==
    ASSUME NEW e \in EdgeRec, NEW q \in Seq(Addrs)
    PROVE  /\ StoreSockets(e, q) \in EdgeRec
           /\ StoreSockets(e, q).comm = e.comm
           /\ StoreSockets(e, q).ip = e.ip
  BY DEF StoreSockets, EdgeRec

(* An alternate-family registration keeps community and address. *)
LEMMA AltFamilyType ==
    ASSUME NEW e \in EdgeRec, NEW a \in Addrs, NEW local \in LanAddrs \cup {NoSock}
    PROVE  /\ AltFamily(e, a, local) \in EdgeRec
           /\ AltFamily(e, a, local).comm = e.comm
           /\ AltFamily(e, a, local).ip = e.ip
  <1> DEFINE f == SetAddr(e, a)
             q == Push(Push(Push(<<>>, f.sock), f.sock6), local)
  <1>1. f \in EdgeRec /\ f.comm = e.comm /\ f.ip = e.ip BY SetAddrType
  <1>2. f.sock \in Socks /\ f.sock6 \in Socks BY <1>1 DEF EdgeRec, Socks, Addrs
  <1>3. local \in Socks BY AddrAssumption DEF Socks, Addrs
  <1>4. <<>> \in Seq(Addrs) OBVIOUS
  <1>5. q \in Seq(Addrs)
    <2> HIDE DEF f
    <2>1. Push(<<>>, f.sock) \in Seq(Addrs) BY <1>2, <1>4, PushType
    <2>2. Push(Push(<<>>, f.sock), f.sock6) \in Seq(Addrs) BY <2>1, <1>2, PushType
    <2> QED BY <2>2, <1>3, PushType
  <1>6. AltFamily(e, a, local) = StoreSockets(f, q) BY DEF AltFamily
  <1> HIDE DEF f, q
  <1> QED BY <1>1, <1>5, <1>6, StoreSocketsType

(* A moved registration takes the datagram's community and keeps the address. *)
LEMMA MovedType ==
    ASSUME NEW e \in EdgeRec, NEW c \in Communities, NEW a \in Addrs,
           NEW local \in LanAddrs \cup {NoSock}, NEW gua \in V6Addrs \cup {NoSock}
    PROVE  /\ Moved(e, c, a, local, gua) \in EdgeRec
           /\ Moved(e, c, a, local, gua).comm = c
           /\ Moved(e, c, a, local, gua).ip = e.ip
  <1> DEFINE h == [e EXCEPT !.comm = c, !.cfam = Family(a)]
             f == SetAddr(h, a)
             g == IF a \notin V6Addrs /\ f.sock6 = NoSock THEN [f EXCEPT !.sock6 = gua] ELSE f
             r == [g EXCEPT !.lan = @ \/ SeesSameLan(a, local), !.socks = Push(<<a>>, local)]
  <1>1. Family(a) \in {0, 4, 6} BY DEF Family
  <1>2. h \in EdgeRec /\ h.comm = c /\ h.ip = e.ip BY <1>1 DEF EdgeRec
  <1>3. f \in EdgeRec /\ f.comm = c /\ f.ip = e.ip
    <2> HIDE DEF h
    <2> QED BY <1>2, SetAddrType
  <1>4. g \in EdgeRec /\ g.comm = c /\ g.ip = e.ip
    <2> HIDE DEF f
    <2> QED BY <1>3 DEF EdgeRec
  <1>5. Push(<<a>>, local) \in Seq(Addrs) BY PrimarySocketsType
  <1>6. (g.lan \/ SeesSameLan(a, local)) \in BOOLEAN OBVIOUS
  <1>7. r \in EdgeRec /\ r.comm = c /\ r.ip = e.ip
    <2> HIDE DEF g
    <2> QED BY <1>4, <1>5, <1>6 DEF EdgeRec
  <1>8. Moved(e, c, a, local, gua) = r BY DEF Moved
  <1> QED BY <1>7, <1>8

(* Following a sender's address keeps everything else but the age. *)
LEMMA FollowSenderType ==
    ASSUME NEW e \in EdgeRec, NEW a \in Addrs
    PROVE  /\ FollowSender(e, a) \in EdgeRec
           /\ FollowSender(e, a).comm = e.comm
           /\ FollowSender(e, a).ip = e.ip
  <1> DEFINE f == SetAddr(e, a)
  <1>1. f \in EdgeRec /\ f.comm = e.comm /\ f.ip = e.ip BY SetAddrType
  <1>2. 0 \in 0 .. Timeout BY InputAssumption
  <1>3. [f EXCEPT !.age = 0] \in EdgeRec /\ [f EXCEPT !.age = 0].comm = e.comm
           /\ [f EXCEPT !.age = 0].ip = e.ip
    <2> HIDE DEF f
    <2> QED BY <1>1, <1>2 DEF EdgeRec
  <1> QED BY <1>3 DEF FollowSender

-----------------------------------------------------------------------------
(* Type correctness *)

(* The initial tables are well typed. *)
LEMMA InitType == Init => TypeOK
  <1> SUFFICES ASSUME Init PROVE TypeOK OBVIOUS
  <1>1. PartialFn(edges, Macs, EdgeRec) BY DEF Init, Empty, PartialFn
  <1>2. PartialFn(stats, Communities, StatsRec) BY DEF Init, Empty, PartialFn
  <1>3. Empty \in Grants BY GrantsChar DEF PartialFn, Empty
  <1>4. lastAuto \in [Communities -> Grants] BY <1>3 DEF Init
  <1>5. held \in [Communities -> SUBSET Nat] BY DEF Init
  <1>6. out \in [reply : {"none", "ack", "nak"}, pushed : SUBSET Macs] BY DEF Init, Quiet
  <1> QED BY <1>1, <1>2, <1>4, <1>5, <1>6 DEF TypeOK

(* What is held in a community is a set of addresses. *)
LEMMA HeldInType ==
    ASSUME TypeOK, NEW c
    PROVE  HeldIn(c) \subseteq Nat
  BY DEF HeldIn, TypeOK, PartialFn, EdgeRec

(* Making or replacing a stats entry keeps the types. *)
LEMMA TouchStatsType ==
    ASSUME TypeOK, NEW c \in Communities, NEW s \in StatsRec, TouchStats(c, s)
    PROVE  /\ PartialFn(stats', Communities, StatsRec)
           /\ held' \in [Communities -> SUBSET Nat]
  <1>1. PartialFn(stats', Communities, StatsRec) BY PutPartial DEF TypeOK, TouchStats
  <1>2. HeldIn(c) \subseteq Nat BY HeldInType
  <1>3. held' \in [Communities -> SUBSET Nat] BY <1>2 DEF TypeOK, TouchStats
  <1> QED BY <1>1, <1>3

(* Recording an automatic assignment keeps the type of the history. *)
LEMMA LastAutoType ==
    ASSUME TypeOK, NEW c \in Communities, NEW m \in Macs, NEW ip \in Pool
    PROVE  [lastAuto EXCEPT ![c] = Put(@, m, ip)] \in [Communities -> Grants]
  <1>1. lastAuto[c] \in Grants BY DEF TypeOK
  <1>2. Put(lastAuto[c], m, ip) \in Grants BY <1>1, GrantsChar, PutPartial
  <1> QED BY <1>2 DEF TypeOK

(* The step of each handler keeps the types. *)
LEMMA RegisterType ==
    ASSUME TypeOK, NEW m \in Macs, NEW c \in Communities, Register(m, c)
    PROVE  TypeOK'
  <1> PICK a \in Addrs, local \in LanAddrs \cup {NoSock}, gua \in V6Addrs \cup {NoSock},
           nat \in NatTypes, want \in ReqIps :
        \/ RegisterNak(m, c, want)
        \/ RegisterStatic(m, c, a, local, gua, nat, want)
        \/ want = 0 /\ RegisterCached(m, c, a, local, gua, nat)
        \/ want = 0 /\ RegisterAuto(m, c, a, local, gua, nat)
        \/ \E natDue \in BOOLEAN : RegisterKnown(m, c, a, local, gua, nat, want, natDue)
    BY DEF Register
  <1>b. want \in Nat BY InputAssumption
  <1>0. want \in Nat /\ Pool \subseteq Nat BY <1>b, PoolAssumption DEF Pool
  <1>1. CASE RegisterNak(m, c, want) BY <1>1 DEF RegisterNak, TypeOK
  <1>2. CASE RegisterStatic(m, c, a, local, gua, nat, want)
    <2>1. PartialFn(edges', Macs, EdgeRec)
      BY <1>0, <1>2, NewEdgeType, PutPartial DEF RegisterStatic, TypeOK
    <2> QED BY <1>2, <2>1 DEF RegisterStatic, TypeOK, AckNew
  <1>3. CASE RegisterCached(m, c, a, local, gua, nat)
    <2>1. StatsOf(c).map[m] \in Pool BY <1>3, StatsOfType DEF RegisterCached, PartialFn
    <2>2. PartialFn(edges', Macs, EdgeRec)
      BY <1>0, <1>3, <2>1, NewEdgeType, PutPartial, ZenonT(60) DEF RegisterCached, TypeOK
    <2>3. lastAuto' \in [Communities -> Grants]
      BY <1>3, <2>1, LastAutoType DEF RegisterCached
    <2> QED BY <1>3, <2>2, <2>3 DEF RegisterCached, TypeOK, AckNew
  <1>4. CASE RegisterAuto(m, c, a, local, gua, nat)
    <2> DEFINE s == StatsOf(c)
    <2>1. PICK k \in 0 .. SafetyLimit :
             /\ edges' = Put(edges, m, NewEdge(c, a, local, gua, nat, Slot(s.next, k)))
             /\ TouchStats(c, [s EXCEPT !.next = Slot(s.next, k + 1),
                                        !.map = Put(@, m, Slot(s.next, k))])
             /\ lastAuto' = [lastAuto EXCEPT ![c] = Put(@, m, Slot(s.next, k))]
      BY <1>4 DEF RegisterAuto
    <2>2. s \in StatsRec /\ s.next \in Pool /\ PartialFn(s.map, Macs, Pool)
      BY StatsOfType DEF StatsRec
    <2> DEFINE ip == Slot(s.next, k)
    <2>3. ip \in Pool /\ Slot(s.next, k + 1) \in Pool
      BY <2>2, SlotInPool, PoolAssumption
    <2>4. PartialFn(edges', Macs, EdgeRec)
      BY <1>0, <2>1, <2>3, NewEdgeType, PutPartial, ZenonT(60) DEF TypeOK
    <2>5. Put(s.map, m, ip) \in Grants BY <2>2, <2>3, PutPartial, GrantsChar
    <2>6. [s EXCEPT !.next = Slot(s.next, k + 1), !.map = Put(@, m, ip)] \in StatsRec
      BY <2>2, <2>3, <2>5 DEF StatsRec
    <2>7. PartialFn(stats', Communities, StatsRec) /\ held' \in [Communities -> SUBSET Nat]
      BY <2>1, <2>6, TouchStatsType
    <2>8. lastAuto' \in [Communities -> Grants] BY <2>1, <2>3, LastAutoType
    <2>9. out' \in [reply : {"none", "ack", "nak"}, pushed : SUBSET Macs]
      BY <1>4 DEF RegisterAuto, AckNew
    <2> QED BY <2>4, <2>7, <2>8, <2>9 DEF TypeOK
  <1>5. ASSUME NEW natDue \in BOOLEAN, RegisterKnown(m, c, a, local, gua, nat, want, natDue)
        PROVE  TypeOK'
    <2> DEFINE e == Refreshed(edges[m], nat, want)
    <2>1. m \in DOMAIN edges /\ edges[m] \in EdgeRec BY <1>5 DEF RegisterKnown, TypeOK, PartialFn
    <2>2. e \in EdgeRec BY <2>1, RefreshedType
    <2>3. /\ AltFamily(e, a, local) \in EdgeRec
          /\ Moved(e, c, a, local, gua) \in EdgeRec
      <3> HIDE DEF e
      <3> QED BY <2>2, AltFamilyType, MovedType
    <2>4. PICK r \in EdgeRec : edges' = [edges EXCEPT ![m] = r]
      <3> HIDE DEF e
      <3>1. edges' = [edges EXCEPT ![m] = e] \/ edges' = [edges EXCEPT ![m] = AltFamily(e, a, local)]
              \/ edges' = [edges EXCEPT ![m] = Moved(e, c, a, local, gua)]
        BY <1>5 DEF RegisterKnown, e
      <3> QED BY <3>1, <2>2, <2>3
    <2>5. PartialFn(edges', Macs, EdgeRec) BY <2>1, <2>4 DEF TypeOK, PartialFn
    <2>6. out' \in [reply : {"none", "ack", "nak"}, pushed : SUBSET Macs]
      <3>1. Others(m, c) \subseteq Macs BY DEF Others, TypeOK, PartialFn
      <3>2. out' = [reply |-> "ack", pushed |-> {}]
              \/ out' = [reply |-> "ack", pushed |-> Others(m, c)]
        BY <1>5 DEF RegisterKnown
      <3> QED BY <3>1, <3>2
    <2> QED BY <1>5, <2>5, <2>6 DEF RegisterKnown, TypeOK
  <1> QED BY <1>1, <1>2, <1>3, <1>4, <1>5

(* Every step keeps the types. *)
LEMMA NextType == TypeOK /\ [Next]_vars => TypeOK'
  <1> SUFFICES ASSUME TypeOK, [Next]_vars PROVE TypeOK' OBVIOUS
  <1>1. ASSUME NEW m \in Macs, NEW c \in Communities, Register(m, c) PROVE TypeOK'
    BY <1>1, RegisterType
  <1>2. ASSUME NEW m \in Macs, RefuseSn1(m) PROVE TypeOK'
    <2>1. PartialFn(edges', Macs, EdgeRec) BY <1>2, DropPartial DEF RefuseSn1, TypeOK
    <2> QED BY <1>2, <2>1 DEF RefuseSn1, TypeOK
  <1>3. ASSUME NEW m \in Macs, Deregister(m) PROVE TypeOK'
    <2>1. PartialFn(edges', Macs, EdgeRec) BY <1>3, DropPartial DEF Deregister, TypeOK
    <2> QED BY <1>3, <2>1 DEF Deregister, TypeOK, Quiet
  <1>4. ASSUME NEW m \in Macs, NEW c \in Communities, NEW a \in Socks,
               NEW counted \in BOOLEAN, Packet(m, c, a, counted)
        PROVE  TypeOK'
    <2>1. PartialFn(edges', Macs, EdgeRec)
      <3>1. CASE m \in DOMAIN edges /\ a # NoSock
        <4>1. edges[m] \in EdgeRec /\ a \in Addrs BY <3>1 DEF TypeOK, PartialFn, Socks
        <4>2. FollowSender(edges[m], a) \in EdgeRec BY <4>1, FollowSenderType
        <4> QED BY <1>4, <3>1, <4>2 DEF Packet, TypeOK, PartialFn
      <3> QED BY <1>4, <3>1 DEF Packet, TypeOK
    <2>2. [StatsOf(c) EXCEPT !.active = @ \/ counted] \in StatsRec
      BY StatsOfType DEF StatsRec
    <2>3. PartialFn(stats', Communities, StatsRec) /\ held' \in [Communities -> SUBSET Nat]
      BY <1>4, <2>2, TouchStatsType DEF Packet
    <2> QED BY <1>4, <2>1, <2>3 DEF Packet, TypeOK, Quiet
  <1>5. ASSUME NEW idle \in SUBSET Communities, Tick(idle) PROVE TypeOK'
    <2> DEFINE X == {m \in DOMAIN edges : Expired(m)}
               Rest == Drop(edges, X)
    <2>a. PartialFn(edges, Macs, EdgeRec) BY DEF TypeOK
    <2>b. Rest = [y \in DOMAIN edges \ X |-> edges[y]] BY DEF Drop
    <2>1. PartialFn(Rest, Macs, EdgeRec) /\ DOMAIN Rest = DOMAIN edges \ X
            /\ \A m \in DOMAIN edges \ X : Rest[m] = edges[m]
      <3> HIDE DEF X, Rest
      <3> QED BY <2>a, <2>b DEF PartialFn
    <2>2. \A m \in DOMAIN Rest : Aged(Rest)[m] \in EdgeRec
      <3> SUFFICES ASSUME NEW m \in DOMAIN Rest PROVE Aged(Rest)[m] \in EdgeRec
        OBVIOUS
      <3>1. ~Expired(m) /\ Rest[m] = edges[m] /\ Rest[m] \in EdgeRec BY <2>1 DEF PartialFn
      <3>2. Rest[m].age + 1 \in 0 .. Timeout
        BY <3>1, InputAssumption DEF Expired, EdgeRec
      <3>3. Aged(Rest)[m] = [Rest[m] EXCEPT !.age = @ + 1]
        BY <3>1, <3>2, InputAssumption DEF Aged, EdgeRec
      <3> QED BY <3>1, <3>2, <3>3 DEF EdgeRec
    <2>3. PartialFn(edges', Macs, EdgeRec)
      <3> HIDE DEF Rest
      <3>1. edges' = Aged(Rest) BY <1>5 DEF Tick, Rest
      <3>2. edges' = [m \in DOMAIN Rest |-> Aged(Rest)[m]] BY <3>1 DEF Aged
      <3> QED BY <2>1, <2>2, <3>2 DEF PartialFn
    <2>4. PartialFn(stats', Communities, StatsRec)
      BY <1>5, DropPartial DEF Tick, TypeOK
    <2> QED BY <1>5, <2>3, <2>4 DEF Tick, TypeOK, Quiet
  <1>6. CASE UNCHANGED vars BY <1>6 DEF vars, TypeOK
  <1> QED BY <1>1, <1>2, <1>3, <1>4, <1>5, <1>6 DEF Next

(* Whatever the configuration, the edge table and the allocator keep their
   types: in particular next_ip and every automatic address stay in the pool,
   and no entry is older than the registration timeout. *)
THEOREM TypeCorrect == Spec => []TypeOK
  <1> QED BY InitType, NextType, PTL DEF Spec

-----------------------------------------------------------------------------
(* Counting: the pool is never used up under SafeDeployment *)

(* The image of a partial function on the MACs is no larger than the MACs. *)
LEMMA ImageSize ==
    ASSUME NEW f, DOMAIN f \subseteq Macs
    PROVE  IsFiniteSet(Image(f)) /\ Cardinality(Image(f)) <= Cardinality(Macs)
  <1> DEFINE Gone == DOMAIN f
             g == [x \in Gone |-> f[x]]
  <1>1. IsFiniteSet(Gone) /\ Cardinality(Gone) <= Cardinality(Macs)
    BY InputAssumption, FS_Subset
  <1>2. g \in Surjection(Gone, Image(f)) BY DEF Surjection, Image
  <1>3. IsFiniteSet(Image(f)) /\ Cardinality(Image(f)) <= Cardinality(Gone)
    <2> HIDE DEF Gone, g
    <2> QED BY <1>1, <1>2, FS_Surjection
  <1>4. Cardinality(Gone) \in Nat /\ Cardinality(Image(f)) \in Nat /\ Cardinality(Macs) \in Nat
    BY <1>1, <1>3, InputAssumption, FS_CardinalityType
  <1> QED BY <1>1, <1>3, <1>4

(* Granted addresses and those held beforehand leave part of the pool free. *)
LEMMA PoolNotCovered ==
    ASSUME SafeDeployment, NEW f, DOMAIN f \subseteq Macs,
           NEW h, IsFiniteSet(h), Cardinality(h) <= Cardinality(Macs)
    PROVE  ~(Pool \subseteq Image(f) \cup h)
  <1> SUFFICES ASSUME Pool \subseteq Image(f) \cup h PROVE FALSE OBVIOUS
  <1> DEFINE I == Image(f)
             n == Cardinality(Macs)
  <1>1. IsFiniteSet(I) /\ Cardinality(I) <= n BY ImageSize
  <1> HIDE DEF I
  <1>2. IsFiniteSet(I \cup h) /\ Cardinality(I \cup h) = Cardinality(I) + Cardinality(h) - Cardinality(I \cap h)
    BY <1>1, FS_Union
  <1>3. IsFiniteSet(I \cap h) BY <1>1, FS_Subset
  <1>4. Cardinality(I) \in Nat /\ Cardinality(h) \in Nat /\ Cardinality(I \cap h) \in Nat
          /\ n \in Nat /\ Cardinality(I \cup h) \in Nat
    BY <1>1, <1>2, <1>3, InputAssumption, FS_CardinalityType
  <1>5. Cardinality(I \cup h) <= 2 * n BY <1>1, <1>2, <1>4
  <1>6. Cardinality(Pool) = PoolSize BY FS_Interval, PoolAssumption DEF Pool, PoolSize
  <1>7. Cardinality(Pool) <= Cardinality(I \cup h) BY <1>2, FS_Subset DEF I
  <1> QED BY <1>4, <1>5, <1>6, <1>7, PoolAssumption DEF SafeDeployment, PoolSize

(* What a community's edges hold when its entry is made, a fresh entry obeys
   the invariant of an allocator. *)
LEMMA FreshAllocOK ==
    ASSUME TypeOK, NEW c \in Communities
    PROVE  AllocOK(c, NewStats, HeldIn(c))
  <1> DEFINE Gone == {x \in DOMAIN edges : edges[x].comm = c}
             g == [x \in Gone |-> edges[x].ip]
  <1>1. Gone \subseteq Macs BY DEF TypeOK, PartialFn
  <1>2. Image(g) = HeldIn(c) BY DEF Image, HeldIn
  <1>3. IsFiniteSet(HeldIn(c)) /\ Cardinality(HeldIn(c)) <= Cardinality(Macs)
    <2>1. DOMAIN g = Gone OBVIOUS
    <2> HIDE DEF g, Gone
    <2> QED BY <1>1, <1>2, <2>1, ImageSize
  <1>4. DOMAIN NewStats.map = {} /\ NewStats.next = PoolFirst BY DEF NewStats, Empty
  <1>5. Image(NewStats.map) = {} BY <1>4 DEF Image
  <1>6. PoolFirst .. (NewStats.next - 1) = {} BY <1>4, PoolAssumption
  <1>7. \A m \in DOMAIN edges : Pooled(m, c) => edges[m].ip \in HeldIn(c) BY DEF Pooled, HeldIn
  <1> HIDE DEF Gone, g
  <1> QED BY <1>3, <1>4, <1>5, <1>6, <1>7 DEF AllocOK

(* The collision loop of a well-kept allocator ends on an address nobody in
   the community holds, without wrapping, and leaves the allocator well kept. *)
LEMMA LoopEnds ==
    ASSUME SafeDeployment, TypeOK,
           NEW m \in Macs, NEW c \in Communities,
           NEW s \in StatsRec, NEW h, AllocOK(c, s, h),
           NEW k \in 0 .. SafetyLimit, StopsAt(s.next, Taken(m, c), k),
           m \notin DOMAIN edges, m \notin DOMAIN s.map
    PROVE  /\ s.next + k < PoolLast
           /\ Slot(s.next, k) = s.next + k
           /\ Slot(s.next, k + 1) = s.next + k + 1
           /\ s.next + k \notin Taken(m, c)
           /\ PoolFirst .. (s.next + k) \subseteq Image(Put(s.map, m, s.next + k)) \cup h
  <1> DEFINE n == s.next
  <1>1. n \in Pool /\ n \in Nat /\ PartialFn(s.map, Macs, Pool) /\ k \in Nat
    BY GrantsChar, PoolAssumption DEF StatsRec, Pool
  <1>2. \A j \in 0 .. (k - 1) : n + j <= PoolLast => n + j \in h
    <2> SUFFICES ASSUME NEW j \in 0 .. (k - 1), n + j <= PoolLast PROVE n + j \in h
      OBVIOUS
    <2>0. j \in Nat /\ n + j \in Pool BY <1>1, PoolAssumption DEF Pool
    <2>1. Slot(n, j) = n + j /\ n + j \in Pool BY <1>1, <2>0, SlotInPool
    <2>2. n + j \in Taken(m, c) BY <2>1 DEF StopsAt
    <2>3. PICK x \in DOMAIN edges : edges[x].comm = c /\ edges[x].ip = n + j
      BY <2>2 DEF Taken
    <2>4. Pooled(x, c) BY <2>1, <2>3 DEF Pooled
    <2>5. x \notin DOMAIN s.map
      <3> SUFFICES ASSUME x \in DOMAIN s.map PROVE FALSE OBVIOUS
      <3>1. s.map[x] = n + j /\ s.map[x] < n BY <2>3, <2>4 DEF AllocOK
      <3> QED BY <3>1, <1>1
    <2> QED BY <2>3, <2>4, <2>5 DEF AllocOK
  <1>3. PoolFirst .. (n - 1) \subseteq Image(s.map) \cup h BY DEF AllocOK
  <1>4. IsFiniteSet(h) /\ Cardinality(h) <= Cardinality(Macs) BY DEF AllocOK
  <1>5. n + k <= PoolLast
    <2> SUFFICES ASSUME ~(n + k <= PoolLast) PROVE FALSE OBVIOUS
    <2>1. \A i \in Pool : i >= n => i \in h
      <3> SUFFICES ASSUME NEW i \in Pool, i >= n PROVE i \in h OBVIOUS
      <3>1. i - n \in 0 .. (k - 1) /\ n + (i - n) = i /\ i <= PoolLast
        BY <1>1, PoolAssumption DEF Pool
      <3> QED BY <3>1, <1>2
    <2>2. Pool \subseteq Image(s.map) \cup h
      BY <1>1, <1>3, <2>1, PoolAssumption DEF Pool
    <2> QED BY <2>2, <1>1, <1>4, PoolNotCovered DEF PartialFn
  <1> DEFINE map2 == Put(s.map, m, n + k)
  <1>6. n + k \in Pool BY <1>1, <1>5, PoolAssumption DEF Pool
  <1>7. DOMAIN map2 \subseteq Macs /\ Image(s.map) \subseteq Image(map2) /\ n + k \in Image(map2)
    BY <1>1, <1>6 DEF Put, Image, PartialFn
  <1>8. PoolFirst .. (n + k) \subseteq Image(map2) \cup h
    <2> SUFFICES ASSUME NEW i \in PoolFirst .. (n + k) PROVE i \in Image(map2) \cup h OBVIOUS
    <2> HIDE DEF map2
    <2>1. CASE i < n BY <2>1, <1>1, <1>3, <1>7, PoolAssumption DEF Pool
    <2>2. CASE i >= n /\ i < n + k
      <3>1. i - n \in 0 .. (k - 1) /\ n + (i - n) = i /\ i <= PoolLast
        BY <1>1, <1>5, <2>2, PoolAssumption DEF Pool
      <3> QED BY <3>1, <1>2
    <2>3. CASE i = n + k BY <2>3, <1>7
    <2> QED BY <2>1, <2>2, <2>3, <1>1, PoolAssumption
  <1>9. n + k # PoolLast
    <2> SUFFICES ASSUME n + k = PoolLast PROVE FALSE OBVIOUS
    <2> HIDE DEF map2
    <2> QED BY <1>4, <1>7, <1>8, PoolNotCovered DEF Pool
  <1>10. n + k < PoolLast BY <1>1, <1>5, <1>9, PoolAssumption
  <1>11. Slot(n, k) = n + k /\ Slot(n, k + 1) = n + k + 1
    <2>1. k + 1 \in Nat /\ n + (k + 1) <= PoolLast /\ n + (k + 1) = n + k + 1
      BY <1>1, <1>10, PoolAssumption
    <2>2. Slot(n, k) = n + k BY <1>1, <1>5, SlotInPool
    <2>3. Slot(n, k + 1) = n + (k + 1) BY <1>1, <2>1, SlotInPool
    <2> QED BY <2>1, <2>2, <2>3
  <1>12. k # SafetyLimit BY <1>1, <1>10, PoolAssumption DEF Pool
  <1>13. n + k \notin Taken(m, c) BY <1>11, <1>12 DEF StopsAt
  <1> QED BY <1>8, <1>10, <1>11, <1>13

-----------------------------------------------------------------------------
(* AllocInv is inductive under SafeDeployment *)

(* A step that gives no edge a new address or community keeps AllocInv: the
   entries it leaves are those it found, and one it makes is fresh. *)
LEMMA KeepAlloc ==
    ASSUME AllocInv, TypeOK',
           DOMAIN edges' \subseteq DOMAIN edges,
           \A m \in DOMAIN edges' : edges'[m].comm = edges[m].comm /\ edges'[m].ip = edges[m].ip,
           \A c \in DOMAIN stats' :
             \/ /\ c \in DOMAIN stats
                /\ stats'[c].next = stats[c].next
                /\ stats'[c].map = stats[c].map
                /\ held'[c] = held[c]
             \/ /\ stats'[c].next = NewStats.next
                /\ stats'[c].map = NewStats.map
                /\ held'[c] = HeldIn(c)
    PROVE  AllocInv'
  <1>1. UniqueIp' BY DEF AllocInv, UniqueIp
  <1>2. \A m \in DOMAIN edges' : edges'[m].ip \in Pool \cup (ReqIps \ {0}) BY DEF AllocInv
  <1>3. ASSUME NEW c \in DOMAIN stats' PROVE AllocOK(c, stats[c], held[c])'
    <2>1. \A m \in DOMAIN edges' : Pooled(m, c)' => m \in DOMAIN edges /\ Pooled(m, c)
      BY DEF Pooled
    <2>2. c \in Communities BY <1>3 DEF TypeOK, PartialFn
    <2>3. AllocOK(c, NewStats, HeldIn(c)) BY <2>2, FreshAllocOK DEF AllocInv
    <2>4. CASE /\ c \in DOMAIN stats
               /\ stats'[c].next = stats[c].next
               /\ stats'[c].map = stats[c].map
               /\ held'[c] = held[c]
      <3>1. AllocOK(c, stats[c], held[c]) BY <2>4 DEF AllocInv
      <3> QED BY <2>1, <2>4, <3>1 DEF AllocOK
    <2>5. CASE /\ stats'[c].next = NewStats.next
               /\ stats'[c].map = NewStats.map
               /\ held'[c] = HeldIn(c)
      BY <2>1, <2>3, <2>5 DEF AllocOK
    <2> QED BY <1>3, <2>4, <2>5
  <1> QED BY <1>1, <1>2, <1>3 DEF AllocInv

(* Entry m of the table, and nothing else in it, is set: its community is c
   and its address ip. *)
SetsEntry(m, c, ip) ==
    /\ DOMAIN edges' = DOMAIN edges \cup {m}
    /\ \A x \in DOMAIN edges \ {m} : edges'[x] = edges[x]
    /\ edges'[m].comm = c
    /\ edges'[m].ip = ip

(* Setting one entry to an address no other member holds keeps UniqueIp. *)
LEMMA SetUnique ==
    ASSUME UniqueIp, NEW m, NEW c, NEW ip, SetsEntry(m, c, ip), ip \notin Taken(m, c)
    PROVE  UniqueIp'
  <1> SUFFICES ASSUME NEW m1 \in DOMAIN edges', NEW m2 \in DOMAIN edges', m1 # m2,
                      edges'[m1].comm = edges'[m2].comm
               PROVE  edges'[m1].ip # edges'[m2].ip
    BY DEF UniqueIp
  <1>0. \A x \in DOMAIN edges \ {m} : edges[x].comm = c => edges[x].ip # ip BY DEF Taken
  <1>1. CASE m1 = m
    <2>1. m2 \in DOMAIN edges \ {m} BY <1>1 DEF SetsEntry
    <2> QED BY <1>0, <1>1, <2>1 DEF SetsEntry
  <1>2. CASE m2 = m
    <2>1. m1 \in DOMAIN edges \ {m} BY <1>2 DEF SetsEntry
    <2> QED BY <1>0, <1>2, <2>1 DEF SetsEntry
  <1>3. CASE m1 # m /\ m2 # m BY <1>3 DEF SetsEntry, UniqueIp
  <1> QED BY <1>1, <1>2, <1>3

(* An entry that is given an address outside the pool, free in its community. *)
LEMMA StaticAlloc ==
    ASSUME AllocInv, SafeDeployment, TypeOK',
           NEW m \in Macs, NEW c \in Communities, NEW want \in ReqIps, want # 0,
           SetsEntry(m, c, want), ~Conflict(m, c, want),
           UNCHANGED <<stats, held>>
    PROVE  AllocInv'
  <1>1. want \notin Pool BY DEF SafeDeployment
  <1>2. UniqueIp' BY SetUnique DEF AllocInv, Conflict
  <1>3. \A x \in DOMAIN edges' : edges'[x].ip \in Pool \cup (ReqIps \ {0})
    BY DEF AllocInv, SetsEntry
  <1>4. ASSUME NEW d \in DOMAIN stats PROVE AllocOK(d, stats[d], held[d])'
    <2>1. \A x \in DOMAIN edges' : Pooled(x, d)' => x \in DOMAIN edges \ {m} /\ Pooled(x, d)
      BY <1>1 DEF Pooled, SetsEntry
    <2>2. AllocOK(d, stats[d], held[d]) BY <1>4 DEF AllocInv
    <2> QED BY <2>1, <2>2 DEF AllocOK, SetsEntry
  <1> QED BY <1>2, <1>3, <1>4 DEF AllocInv

(* An edge that comes back to its cached address finds it free. *)
LEMMA CachedAlloc ==
    ASSUME AllocInv, SafeDeployment, TypeOK',
           NEW m \in Macs, NEW c \in Communities,
           m \notin DOMAIN edges, m \in DOMAIN StatsOf(c).map,
           SetsEntry(m, c, StatsOf(c).map[m]), UNCHANGED <<stats, held>>
    PROVE  AllocInv'
  <1> DEFINE s == stats[c]
             ip == s.map[m]
  <1>1. c \in DOMAIN stats /\ StatsOf(c) = stats[c]
    BY DEF StatsOf, NewStats, Empty
  <1>2. AllocOK(c, s, held[c]) BY <1>1 DEF AllocInv
  <1>3. ip \in Pool BY <1>1, StatsOfType DEF AllocInv, PartialFn
  <1>4. ip \notin Taken(m, c)
    <2> SUFFICES ASSUME NEW x \in DOMAIN edges \ {m}, edges[x].comm = c, edges[x].ip = ip
                 PROVE  FALSE
      BY DEF Taken
    <2>1. Pooled(x, c) BY <1>3 DEF Pooled
    <2>2. CASE x \in DOMAIN s.map
      <3>1. s.map[x] = s.map[m] BY <1>2, <2>1, <2>2 DEF AllocOK
      <3> QED BY <1>1, <1>2, <2>2, <3>1 DEF AllocOK
    <2>3. CASE x \notin DOMAIN s.map
      <3>1. edges[x].ip \notin Image(s.map) BY <1>2, <2>1, <2>3 DEF AllocOK
      <3> QED BY <1>1, <3>1 DEF Image
    <2> QED BY <2>2, <2>3
  <1>5. UniqueIp' BY <1>1, <1>4, SetUnique DEF AllocInv
  <1>6. \A x \in DOMAIN edges' : edges'[x].ip \in Pool \cup (ReqIps \ {0})
    BY <1>1, <1>3 DEF AllocInv, SetsEntry
  <1>7. ASSUME NEW d \in DOMAIN stats PROVE AllocOK(d, stats[d], held[d])'
    <2>1. AllocOK(d, stats[d], held[d]) BY <1>7 DEF AllocInv
    <2>2. \A x \in DOMAIN edges' : Pooled(x, d)' =>
             \/ x \in DOMAIN edges \ {m} /\ Pooled(x, d) /\ edges'[x].ip = edges[x].ip
             \/ x = m /\ d = c /\ edges'[x].ip = ip
      BY <1>1 DEF Pooled, SetsEntry
    <2> QED BY <1>1, <2>1, <2>2 DEF AllocOK
  <1> QED BY <1>5, <1>6, <1>7 DEF AllocInv

(* An edge that is new to its community gets an address nobody there holds. *)
LEMMA AutoAlloc ==
    ASSUME AllocInv, SafeDeployment, TypeOK',
           NEW m \in Macs, NEW c \in Communities, NEW k \in 0 .. SafetyLimit,
           m \notin DOMAIN edges, m \notin DOMAIN StatsOf(c).map,
           StopsAt(StatsOf(c).next, Taken(m, c), k),
           SetsEntry(m, c, Slot(StatsOf(c).next, k)),
           TouchStats(c, [StatsOf(c) EXCEPT !.next = Slot(StatsOf(c).next, k + 1),
                                            !.map = Put(@, m, Slot(StatsOf(c).next, k))])
    PROVE  AllocInv'
  <1> DEFINE s == StatsOf(c)
             n == s.next
             ip == n + k
             map2 == Put(s.map, m, ip)
             h == held'[c]
  <1>1. TypeOK BY DEF AllocInv
  <1>2. s \in StatsRec /\ PartialFn(s.map, Macs, Pool) /\ n \in Pool /\ n \in Nat
    BY <1>1, StatsOfType, PoolAssumption DEF StatsRec, Pool
  <1>3. AllocOK(c, s, h)
    <2>1. CASE c \in DOMAIN stats
      <3>1. h = held[c] BY <2>1 DEF TouchStats
      <3> QED BY <2>1, <3>1 DEF AllocInv, StatsOf
    <2>2. CASE c \notin DOMAIN stats
      <3>1. h = HeldIn(c) BY <1>1, <2>2 DEF TouchStats, TypeOK
      <3> QED BY <1>1, <2>2, <3>1, FreshAllocOK DEF StatsOf
    <2> QED BY <2>1, <2>2
  <1> HIDE DEF h, s
  <1>4. /\ ip < PoolLast
        /\ Slot(n, k) = ip
        /\ Slot(n, k + 1) = ip + 1
        /\ ip \notin Taken(m, c)
        /\ PoolFirst .. ip \subseteq Image(map2) \cup h
    BY <1>1, <1>2, <1>3, LoopEnds DEF s
  <1>5. ip \in Pool /\ k \in Nat BY <1>2, <1>4, PoolAssumption DEF Pool
  <1>6. SetsEntry(m, c, ip) BY <1>4 DEF s
  <1>7. /\ DOMAIN stats' = DOMAIN stats \cup {c}
        /\ stats'[c].next = ip + 1
        /\ stats'[c].map = map2
        /\ \A d \in DOMAIN stats \ {c} : stats'[d] = stats[d] /\ held'[d] = held[d]
    <2> DEFINE r == [s EXCEPT !.next = ip + 1, !.map = map2]
    <2>1. TouchStats(c, r) BY <1>4 DEF s
    <2>2. r.next = ip + 1 /\ r.map = map2 BY <1>2 DEF StatsRec
    <2> HIDE DEF r
    <2>3. DOMAIN stats' = DOMAIN stats \cup {c} /\ stats'[c] = r
             /\ \A d \in DOMAIN stats \ {c} : stats'[d] = stats[d]
      BY <2>1 DEF TouchStats, Put
    <2>4. \A d \in DOMAIN stats \ {c} : held'[d] = held[d]
      BY <1>1, <2>1 DEF TouchStats, TypeOK, PartialFn
    <2> QED BY <2>2, <2>3, <2>4
  <1>8. m \notin DOMAIN s.map BY DEF s
  <1>9. /\ DOMAIN map2 = DOMAIN s.map \cup {m}
        /\ map2[m] = ip
        /\ \A x \in DOMAIN s.map : map2[x] = s.map[x]
        /\ Image(map2) = Image(s.map) \cup {ip}
    BY <1>8 DEF Put, Image
  <1> HIDE DEF map2
  <1>10. UniqueIp' BY <1>4, <1>6, SetUnique DEF AllocInv
  <1>11. \A x \in DOMAIN edges' : edges'[x].ip \in Pool \cup (ReqIps \ {0})
    BY <1>5, <1>6 DEF AllocInv, SetsEntry
  <1>12. AllocOK(c, stats[c], held[c])'
    <2>1. \A x \in DOMAIN s.map : s.map[x] < n /\ s.map[x] \in Nat
      BY <1>2, <1>3, PoolAssumption DEF AllocOK, PartialFn, Pool
    <2>2. \A x \in DOMAIN map2 : map2[x] < ip + 1 BY <1>2, <1>5, <1>9, <2>1
    <2>3. \A x, y \in DOMAIN map2 : map2[x] = map2[y] => x = y
      <3> SUFFICES ASSUME NEW x \in DOMAIN map2, NEW y \in DOMAIN map2, map2[x] = map2[y]
                   PROVE  x = y
        OBVIOUS
      <3>1. \A z \in DOMAIN s.map : map2[z] # ip BY <1>2, <1>5, <1>9, <2>1
      <3>2. CASE x = m \/ y = m BY <1>9, <3>1, <3>2
      <3>3. CASE x # m /\ y # m BY <1>3, <1>9, <3>3 DEF AllocOK
      <3> QED BY <3>2, <3>3
    <2>4. PoolFirst .. ((ip + 1) - 1) \subseteq Image(map2) \cup h
      <3>1. (ip + 1) - 1 = ip BY <1>2, <1>5
      <3> QED BY <1>4, <3>1
    <2>5. IsFiniteSet(h) /\ Cardinality(h) <= Cardinality(Macs) BY <1>3 DEF AllocOK
    <2>6. ASSUME NEW x \in DOMAIN edges', Pooled(x, c)'
          PROVE  IF x \in DOMAIN map2 THEN edges'[x].ip = map2[x]
                                      ELSE edges'[x].ip \in h \ Image(map2)
      <3>1. CASE x = m BY <1>6, <1>9, <3>1 DEF SetsEntry
      <3>2. CASE x # m
        <4>1. x \in DOMAIN edges \ {m} /\ edges'[x] = edges[x] /\ Pooled(x, c)
          BY <1>6, <2>6, <3>2 DEF SetsEntry, Pooled
        <4>2. edges[x].ip # ip BY <1>4, <4>1 DEF Taken, Pooled
        <4>3. IF x \in DOMAIN s.map THEN edges[x].ip = s.map[x]
                                    ELSE edges[x].ip \in h \ Image(s.map)
          BY <1>3, <4>1 DEF AllocOK
        <4> QED BY <1>9, <3>2, <4>1, <4>2, <4>3
      <3> QED BY <3>1, <3>2
    <2> QED BY <1>7, <2>2, <2>3, <2>4, <2>5, <2>6 DEF AllocOK, h
  <1>13. ASSUME NEW d \in DOMAIN stats', d # c PROVE AllocOK(d, stats[d], held[d])'
    <2>1. d \in DOMAIN stats /\ stats'[d] = stats[d] /\ held'[d] = held[d] BY <1>7, <1>13
    <2>2. AllocOK(d, stats[d], held[d]) BY <2>1 DEF AllocInv
    <2>3. \A x \in DOMAIN edges' : Pooled(x, d)' =>
             x \in DOMAIN edges \ {m} /\ Pooled(x, d) /\ edges'[x].ip = edges[x].ip
      BY <1>6, <1>13 DEF SetsEntry, Pooled
    <2> QED BY <2>1, <2>2, <2>3 DEF AllocOK
  <1> QED BY <1>10, <1>11, <1>12, <1>13 DEF AllocInv

(* A REGISTER_SUPER, whichever way it goes, keeps the invariant. *)
LEMMA RegisterAlloc ==
    ASSUME AllocInv, SafeDeployment, TypeOK', NEW m \in Macs, NEW c \in Communities,
           Register(m, c)
    PROVE  AllocInv'
  <1> PICK a \in Addrs, local \in LanAddrs \cup {NoSock}, gua \in V6Addrs \cup {NoSock},
           nat \in NatTypes, want \in ReqIps :
        \/ RegisterNak(m, c, want)
        \/ RegisterStatic(m, c, a, local, gua, nat, want)
        \/ want = 0 /\ RegisterCached(m, c, a, local, gua, nat)
        \/ want = 0 /\ RegisterAuto(m, c, a, local, gua, nat)
        \/ \E natDue \in BOOLEAN : RegisterKnown(m, c, a, local, gua, nat, want, natDue)
    BY DEF Register
  <1>b. want \in Nat BY InputAssumption
  <1>0. want \in Nat /\ Pool \subseteq Nat /\ TypeOK
    BY <1>b, PoolAssumption DEF Pool, AllocInv
  <1>a. ASSUME NEW ip \in Nat, m \notin DOMAIN edges,
               edges' = Put(edges, m, NewEdge(c, a, local, gua, nat, ip))
        PROVE  SetsEntry(m, c, ip)
    <2> DEFINE r == NewEdge(c, a, local, gua, nat, ip)
    <2>1. r.comm = c /\ r.ip = ip BY DEF NewEdge
    <2> HIDE DEF r
    <2> QED BY <1>a, <2>1 DEF SetsEntry, Put, r
  <1>1. CASE RegisterNak(m, c, want)
    BY <1>1, KeepAlloc DEF RegisterNak
  <1>2. CASE RegisterStatic(m, c, a, local, gua, nat, want)
    <2>1. SetsEntry(m, c, want) BY <1>0, <1>2, <1>a DEF RegisterStatic
    <2> QED BY <1>2, <2>1, StaticAlloc DEF RegisterStatic
  <1>3. CASE RegisterCached(m, c, a, local, gua, nat)
    <2>1. StatsOf(c).map[m] \in Nat
      BY <1>0, <1>3, StatsOfType DEF RegisterCached, PartialFn
    <2>2. SetsEntry(m, c, StatsOf(c).map[m]) BY <1>3, <2>1, <1>a DEF RegisterCached
    <2> QED BY <1>3, <2>2, CachedAlloc DEF RegisterCached
  <1>4. CASE RegisterAuto(m, c, a, local, gua, nat)
    <2> DEFINE s == StatsOf(c)
    <2>1. PICK k \in 0 .. SafetyLimit :
             /\ StopsAt(s.next, Taken(m, c), k)
             /\ edges' = Put(edges, m, NewEdge(c, a, local, gua, nat, Slot(s.next, k)))
             /\ TouchStats(c, [s EXCEPT !.next = Slot(s.next, k + 1),
                                        !.map = Put(@, m, Slot(s.next, k))])
      BY <1>4 DEF RegisterAuto
    <2>2. k \in Nat /\ s.next \in Pool BY <1>0, StatsOfType, PoolAssumption DEF StatsRec
    <2>3. Slot(s.next, k) \in Nat BY <1>0, <2>2, SlotInPool
    <2>4. m \notin DOMAIN edges /\ m \notin DOMAIN s.map BY <1>4 DEF RegisterAuto
    <2>5. SetsEntry(m, c, Slot(s.next, k)) BY <2>1, <2>3, <2>4, <1>a
    <2> QED BY <2>1, <2>4, <2>5, AutoAlloc
  <1>5. ASSUME NEW natDue \in BOOLEAN, RegisterKnown(m, c, a, local, gua, nat, want, natDue)
        PROVE  AllocInv'
    <2> DEFINE e == Refreshed(edges[m], nat, want)
    <2>1. m \in DOMAIN edges /\ edges[m] \in EdgeRec /\ edges[m].comm = c
      BY <1>0, <1>5 DEF RegisterKnown, TypeOK, PartialFn, SafeDeployment
    <2>2. e \in EdgeRec /\ e.comm = c /\ e.ip = IF want # 0 THEN want ELSE edges[m].ip
      BY <2>1, RefreshedType
    <2> DEFINE x == AltFamily(e, a, local)
               y == Moved(e, c, a, local, gua)
    <2>3. x.comm = c /\ x.ip = e.ip /\ y.comm = c /\ y.ip = e.ip
      <3> HIDE DEF e
      <3> QED BY <2>2, AltFamilyType, MovedType
    <2>4. \/ edges' = [edges EXCEPT ![m] = e]
          \/ edges' = [edges EXCEPT ![m] = x]
          \/ edges' = [edges EXCEPT ![m] = y]
      BY <1>5 DEF RegisterKnown
    <2> HIDE DEF e, x, y
    <2>5. SetsEntry(m, c, e.ip)
      BY <1>0, <2>1, <2>2, <2>3, <2>4 DEF SetsEntry, TypeOK, PartialFn
    <2>6. UNCHANGED <<stats, held>> /\ ~Conflict(m, c, want) BY <1>5 DEF RegisterKnown
    <2>7. CASE want # 0 BY <2>2, <2>5, <2>6, <2>7, StaticAlloc
    <2>8. CASE want = 0
      <3>1. DOMAIN edges' \subseteq DOMAIN edges BY <2>1, <2>5 DEF SetsEntry
      <3>2. \A z \in DOMAIN edges' : edges'[z].comm = edges[z].comm /\ edges'[z].ip = edges[z].ip
        BY <2>1, <2>2, <2>5, <2>8 DEF SetsEntry
      <3> QED BY <2>6, <3>1, <3>2, KeepAlloc
    <2> QED BY <2>7, <2>8
  <1> QED BY <1>1, <1>2, <1>3, <1>4, <1>5

(* Every step keeps the invariant in a safe deployment. *)
LEMMA NextAlloc == SafeDeployment /\ AllocInv /\ [Next]_vars => AllocInv'
  <1> SUFFICES ASSUME SafeDeployment, AllocInv, [Next]_vars PROVE AllocInv' OBVIOUS
  <1>0. TypeOK /\ TypeOK' BY NextType DEF AllocInv
  <1>1. ASSUME NEW m \in Macs, NEW c \in Communities, Register(m, c) PROVE AllocInv'
    BY <1>0, <1>1, RegisterAlloc
  <1>2. ASSUME NEW m \in Macs, RefuseSn1(m) \/ Deregister(m) PROVE AllocInv'
    <2>1. edges' = Drop(edges, {m}) /\ UNCHANGED <<stats, held>>
      BY <1>2 DEF RefuseSn1, Deregister
    <2> QED BY <1>0, <2>1, KeepAlloc DEF Drop
  <1>3. ASSUME NEW m \in Macs, NEW c \in Communities, NEW a \in Socks,
               NEW counted \in BOOLEAN, Packet(m, c, a, counted)
        PROVE  AllocInv'
    <2>1. /\ DOMAIN edges' \subseteq DOMAIN edges
          /\ \A x \in DOMAIN edges' : edges'[x].comm = edges[x].comm /\ edges'[x].ip = edges[x].ip
      <3>1. CASE m \in DOMAIN edges /\ a # NoSock
        <4>1. edges[m] \in EdgeRec /\ a \in Addrs BY <1>0, <3>1 DEF TypeOK, PartialFn, Socks
        <4>2. /\ FollowSender(edges[m], a).comm = edges[m].comm
              /\ FollowSender(edges[m], a).ip = edges[m].ip
          BY <4>1, FollowSenderType
        <4>3. edges' = [edges EXCEPT ![m] = FollowSender(edges[m], a)] BY <1>3, <3>1 DEF Packet
        <4> QED BY <1>0, <4>2, <4>3 DEF TypeOK, PartialFn
      <3> QED BY <1>3, <3>1 DEF Packet
    <2> DEFINE r == [StatsOf(c) EXCEPT !.active = @ \/ counted]
    <2>2. TouchStats(c, r) BY <1>3 DEF Packet
    <2>3. r.next = StatsOf(c).next /\ r.map = StatsOf(c).map
      BY <1>0, StatsOfType DEF StatsRec
    <2> HIDE DEF r
    <2>4. stats' = Put(stats, c, r) BY <2>2 DEF TouchStats
    <2>5. ASSUME NEW d \in DOMAIN stats'
          PROVE  \/ /\ d \in DOMAIN stats
                    /\ stats'[d].next = stats[d].next
                    /\ stats'[d].map = stats[d].map
                    /\ held'[d] = held[d]
                 \/ /\ stats'[d].next = NewStats.next
                    /\ stats'[d].map = NewStats.map
                    /\ held'[d] = HeldIn(d)
      <3>1. CASE d # c BY <1>0, <2>2, <2>4, <2>5, <3>1 DEF Put, TouchStats, TypeOK, PartialFn
      <3>2. CASE d = c /\ c \in DOMAIN stats
        BY <2>2, <2>3, <2>4, <3>2 DEF Put, TouchStats, StatsOf
      <3>3. CASE d = c /\ c \notin DOMAIN stats
        BY <1>0, <2>2, <2>3, <2>4, <3>3 DEF Put, TouchStats, StatsOf, TypeOK
      <3> QED BY <3>1, <3>2, <3>3
    <2> QED BY <1>0, <2>1, <2>5, KeepAlloc
  <1>4. ASSUME NEW idle \in SUBSET Communities, Tick(idle) PROVE AllocInv'
    <2> DEFINE X == {m \in DOMAIN edges : Expired(m)}
               Rest == Drop(edges, X)
    <2>1. DOMAIN Rest = DOMAIN edges \ X /\ \A m \in DOMAIN Rest : Rest[m] = edges[m]
      <3> HIDE DEF X
      <3> QED BY DEF Drop
    <2>2. edges' = Aged(Rest) BY <1>4 DEF Tick
    <2>3. \A m \in DOMAIN Rest : edges[m] \in EdgeRec
      BY <1>0, <2>1 DEF TypeOK, PartialFn
    <2> HIDE DEF X, Rest
    <2>4. /\ DOMAIN edges' \subseteq DOMAIN edges
          /\ \A m \in DOMAIN edges' : edges'[m].comm = edges[m].comm /\ edges'[m].ip = edges[m].ip
      BY <2>1, <2>2, <2>3 DEF Aged, EdgeRec
    <2>5. \A c \in DOMAIN stats' : c \in DOMAIN stats /\ stats'[c] = stats[c] /\ held'[c] = held[c]
      <3>1. CASE StatsEnabled
        <4> DEFINE Q == Purgeable(idle)
        <4>1. stats' = Drop(stats, Q) /\ held' = held BY <1>4, <3>1 DEF Tick
        <4> HIDE DEF Q
        <4> QED BY <4>1 DEF Drop
      <3> QED BY <1>4, <3>1 DEF Tick
    <2> QED BY <1>0, <2>4, <2>5, KeepAlloc
  <1>5. CASE UNCHANGED vars BY <1>0, <1>5, KeepAlloc DEF vars
  <1> QED BY <1>1, <1>2, <1>3, <1>4, <1>5 DEF Next

(* The empty tables satisfy the invariant. *)
LEMMA InitAlloc == Init => AllocInv
  <1> SUFFICES ASSUME Init PROVE AllocInv OBVIOUS
  <1>1. TypeOK BY InitType
  <1>2. DOMAIN edges = {} /\ DOMAIN stats = {} BY DEF Init, Empty
  <1> QED BY <1>1, <1>2 DEF AllocInv, UniqueIp

(* In a safe deployment no two registered edges of a community ever hold the
   same virtual address, for any number of edges, communities and endpoints,
   with the statistics purge on or off: the collision loop of update_edge,
   its cached branch and the NAK of REGISTER_SUPER suffice. *)
THEOREM UniqueAddresses == SafeDeployment => (Spec => []UniqueIp)
  <1> SUFFICES ASSUME SafeDeployment PROVE Spec => []UniqueIp OBVIOUS
  <1>1. Init => AllocInv BY InitAlloc
  <1>2. AllocInv /\ [Next]_vars => AllocInv' BY NextAlloc
  <1>3. AllocInv => UniqueIp BY DEF AllocInv
  <1> QED BY <1>1, <1>2, <1>3, PTL DEF Spec

-----------------------------------------------------------------------------
(* Stable automatic addresses *)

(* No mapping of m in c is lost or changed from one table to the next. *)
KeepsGrants ==
    \A c \in Communities : \A m \in DOMAIN StatsOf(c).map :
        /\ m \in DOMAIN (IF c \in DOMAIN stats' THEN stats'[c] ELSE NewStats).map
        /\ (IF c \in DOMAIN stats' THEN stats'[c] ELSE NewStats).map[m] = StatsOf(c).map[m]

(* Without the purge, a step keeps every mapping; and an automatic assignment
   it makes is the one in the map it leaves. *)
LEMMA StepKeepsGrants ==
    ASSUME TypeOK, ~StatsEnabled, [Next]_vars
    PROVE  /\ KeepsGrants
           /\ \A c \in Communities : \A m \in DOMAIN lastAuto'[c] :
                \/ m \in DOMAIN lastAuto[c] /\ lastAuto'[c][m] = lastAuto[c][m]
                \/ /\ m \in DOMAIN StatsOf(c)'.map
                   /\ lastAuto'[c][m] = StatsOf(c)'.map[m]
           /\ \A c \in Communities : DOMAIN lastAuto[c] \subseteq DOMAIN lastAuto'[c]
  <1> USE DEF StatsOf
  <1>1. ASSUME UNCHANGED <<stats, lastAuto>>
        PROVE  KeepsGrants /\ \A c \in Communities : lastAuto'[c] = lastAuto[c]
    BY <1>1 DEF KeepsGrants
  <1>2. ASSUME NEW m \in Macs, RefuseSn1(m) \/ Deregister(m) PROVE UNCHANGED <<stats, lastAuto>>
    BY <1>2 DEF RefuseSn1, Deregister
  <1>3. ASSUME NEW idle \in SUBSET Communities, Tick(idle) PROVE UNCHANGED <<stats, lastAuto>>
    BY <1>3 DEF Tick
  <1>4. ASSUME NEW m \in Macs, NEW c \in Communities, NEW a \in Socks,
               NEW counted \in BOOLEAN, Packet(m, c, a, counted)
        PROVE  KeepsGrants /\ UNCHANGED lastAuto
    <2> DEFINE s == StatsOf(c)
               r == [s EXCEPT !.active = @ \/ counted]
    <2>1. s \in StatsRec BY StatsOfType
    <2>2. r.map = s.map BY <2>1 DEF StatsRec
    <2>3. stats' = Put(stats, c, r) BY <1>4 DEF Packet, TouchStats
    <2> HIDE DEF r
    <2> QED BY <1>4, <2>2, <2>3 DEF KeepsGrants, Put, Packet
  <1>5. ASSUME NEW m \in Macs, NEW c \in Communities, Register(m, c)
        PROVE  /\ KeepsGrants
               /\ \A d \in Communities : \A x \in DOMAIN lastAuto'[d] :
                    \/ x \in DOMAIN lastAuto[d] /\ lastAuto'[d][x] = lastAuto[d][x]
                    \/ /\ x \in DOMAIN StatsOf(d)'.map
                       /\ lastAuto'[d][x] = StatsOf(d)'.map[x]
               /\ \A d \in Communities : DOMAIN lastAuto[d] \subseteq DOMAIN lastAuto'[d]
    <2> PICK a \in Addrs, local \in LanAddrs \cup {NoSock}, gua \in V6Addrs \cup {NoSock},
             nat \in NatTypes, want \in ReqIps :
          \/ RegisterNak(m, c, want)
          \/ RegisterStatic(m, c, a, local, gua, nat, want)
          \/ want = 0 /\ RegisterCached(m, c, a, local, gua, nat)
          \/ want = 0 /\ RegisterAuto(m, c, a, local, gua, nat)
          \/ \E natDue \in BOOLEAN : RegisterKnown(m, c, a, local, gua, nat, want, natDue)
      BY <1>5 DEF Register
    <2>1. CASE RegisterNak(m, c, want) \/ RegisterStatic(m, c, a, local, gua, nat, want)
                 \/ \E natDue \in BOOLEAN : RegisterKnown(m, c, a, local, gua, nat, want, natDue)
      <3>1. UNCHANGED <<stats, lastAuto>>
        BY <2>1 DEF RegisterNak, RegisterStatic, RegisterKnown
      <3> QED BY <1>1, <3>1
    <2>2. CASE RegisterCached(m, c, a, local, gua, nat)
      <3>1. stats' = stats /\ m \in DOMAIN StatsOf(c).map
              /\ lastAuto' = [lastAuto EXCEPT ![c] = Put(lastAuto[c], m, StatsOf(c).map[m])]
        BY <2>2 DEF RegisterCached
      <3> QED BY <3>1 DEF KeepsGrants, Put, TypeOK
    <2>3. CASE RegisterAuto(m, c, a, local, gua, nat)
      <3> DEFINE s == StatsOf(c)
      <3>1. PICK k \in 0 .. SafetyLimit :
               /\ TouchStats(c, [s EXCEPT !.next = Slot(s.next, k + 1),
                                          !.map = Put(@, m, Slot(s.next, k))])
               /\ lastAuto' = [lastAuto EXCEPT ![c] = Put(lastAuto[c], m, Slot(s.next, k))]
        BY <2>3 DEF RegisterAuto
      <3> DEFINE r == [s EXCEPT !.next = Slot(s.next, k + 1), !.map = Put(@, m, Slot(s.next, k))]
      <3>2. s \in StatsRec BY StatsOfType
      <3>3. r.map = Put(s.map, m, Slot(s.next, k)) BY <3>2 DEF StatsRec
      <3>4. stats' = Put(stats, c, r) /\ m \notin DOMAIN s.map
        BY <2>3, <3>1 DEF TouchStats, RegisterAuto
      <3> HIDE DEF r
      <3>5. DOMAIN stats' = DOMAIN stats \cup {c} /\ stats'[c] = r
              /\ \A d \in DOMAIN stats \ {c} : stats'[d] = stats[d]
        BY <3>4 DEF Put
      <3>6. /\ DOMAIN r.map = DOMAIN s.map \cup {m}
            /\ r.map[m] = Slot(s.next, k)
            /\ \A x \in DOMAIN s.map : r.map[x] = s.map[x]
        BY <3>3, <3>4 DEF Put
      <3>7. KeepsGrants BY <3>5, <3>6 DEF KeepsGrants
      <3>8. /\ \A d \in Communities \ {c} : lastAuto'[d] = lastAuto[d]
            /\ DOMAIN lastAuto'[c] = DOMAIN lastAuto[c] \cup {m}
            /\ lastAuto'[c][m] = Slot(s.next, k)
            /\ \A x \in DOMAIN lastAuto[c] \ {m} : lastAuto'[c][x] = lastAuto[c][x]
        BY <3>1 DEF Put, TypeOK
      <3> QED BY <3>5, <3>6, <3>7, <3>8
    <2> QED BY <2>1, <2>2, <2>3
  <1>6. CASE UNCHANGED vars BY <1>1, <1>6 DEF vars
  <1> QED BY <1>1, <1>2, <1>3, <1>4, <1>5, <1>6 DEF Next

(* Without the purge of statistics entries (traffic statistics off), an edge
   that is assigned an address automatically gets the same one whenever it
   comes back to the community, whatever else the configuration allows. *)
THEOREM StableAddresses == ~StatsEnabled => (Spec => StableIp)
  <1> SUFFICES ASSUME ~StatsEnabled PROVE Spec => StableIp OBVIOUS
  <1>1. Init => GrantsKept
    BY DEF Init, GrantsKept, Empty
  <1>2. TypeOK /\ GrantsKept /\ [Next]_vars => GrantsKept'
    <2> SUFFICES ASSUME TypeOK, GrantsKept, [Next]_vars,
                        NEW c \in Communities, NEW m \in DOMAIN lastAuto'[c]
                 PROVE  m \in DOMAIN StatsOf(c)'.map /\ StatsOf(c)'.map[m] = lastAuto'[c][m]
      BY DEF GrantsKept
    <2>1. CASE m \in DOMAIN lastAuto[c] /\ lastAuto'[c][m] = lastAuto[c][m]
      <3>1. m \in DOMAIN StatsOf(c).map /\ StatsOf(c).map[m] = lastAuto[c][m]
        BY <2>1 DEF GrantsKept
      <3> QED BY <2>1, <3>1, StepKeepsGrants DEF KeepsGrants, StatsOf
    <2> QED BY <2>1, StepKeepsGrants
  <1>3. TypeOK /\ GrantsKept /\ GrantsKept' /\ [Next]_vars =>
          [\A c \in Communities : \A m \in DOMAIN lastAuto[c] :
             m \in DOMAIN lastAuto'[c] /\ lastAuto'[c][m] = lastAuto[c][m]]_vars
    <2> SUFFICES ASSUME TypeOK, GrantsKept, GrantsKept', [Next]_vars,
                        NEW c \in Communities, NEW m \in DOMAIN lastAuto[c]
                 PROVE  m \in DOMAIN lastAuto'[c] /\ lastAuto'[c][m] = lastAuto[c][m]
      OBVIOUS
    <2>1. m \in DOMAIN lastAuto'[c] BY StepKeepsGrants
    <2>2. lastAuto'[c][m] = StatsOf(c)'.map[m] BY <2>1 DEF GrantsKept
    <2>3. m \in DOMAIN StatsOf(c).map /\ StatsOf(c).map[m] = lastAuto[c][m] BY DEF GrantsKept
    <2>4. StatsOf(c)'.map[m] = StatsOf(c).map[m] BY <2>3, StepKeepsGrants DEF KeepsGrants, StatsOf
    <2> QED BY <2>1, <2>2, <2>3, <2>4
  <1> QED BY <1>1, <1>2, <1>3, TypeCorrect, PTL DEF Spec, StableIp
-----------------------------------------------------------------------------
(* The primary endpoint is known *)

HasPrimary(e) ==
    /\ e.cfam = 4 => e.sock # NoSock
    /\ e.cfam = 6 => e.sock6 # NoSock
    /\ e.cfam = 0 => e.sock # NoSock /\ e.sock6 # NoSock

(* Storing an endpoint erases none. *)
LEMMA SetAddrKeepsSocks ==
    ASSUME NEW e \in EdgeRec, NEW a \in Addrs
    PROVE  /\ SetAddr(e, a).cfam = e.cfam
           /\ e.sock # NoSock => SetAddr(e, a).sock # NoSock
           /\ e.sock6 # NoSock => SetAddr(e, a).sock6 # NoSock
           /\ a \in V6Addrs => SetAddr(e, a).sock6 = a
           /\ a \notin V6Addrs => SetAddr(e, a).sock = a
  BY AddrAssumption DEF SetAddr, EdgeRec, Addrs

(* A new entry knows the endpoint it was made for. *)
LEMMA NewEdgePrimary ==
    ASSUME NEW c, NEW a \in Addrs, NEW local, NEW gua, NEW nat, NEW ip
    PROVE  HasPrimary(NewEdge(c, a, local, gua, nat, ip))
  BY AddrAssumption DEF NewEdge, HasPrimary, Family, Addrs

(* Three endpoints overflow sockets[], which clears connect_family; then both
   of the entry's own endpoints are among them. *)
LEMMA AltFamilyPrimary ==
    ASSUME NEW e \in EdgeRec, NEW a \in Addrs, NEW local \in LanAddrs \cup {NoSock}, HasPrimary(e)
    PROVE  HasPrimary(AltFamily(e, a, local))
  <1> DEFINE f  == SetAddr(e, a)
             q1 == Push(<<>>, f.sock)
             q2 == Push(q1, f.sock6)
             q  == Push(q2, local)
  <1>1. f \in EdgeRec /\ HasPrimary(f)
    BY SetAddrType, SetAddrKeepsSocks DEF HasPrimary
  <1> HIDE DEF f
  <1>2. f.sock \in Socks /\ f.sock6 \in Socks /\ local \in Socks
    BY <1>1, AddrAssumption DEF EdgeRec, Socks, Addrs
  <1>3. /\ q1 \in Seq(Addrs) /\ Len(q1) <= 1
        /\ f.sock = NoSock => Len(q1) = 0
    BY <1>2 DEF Push, Socks
  <1> HIDE DEF q1
  <1>4. /\ q2 \in Seq(Addrs) /\ Len(q2) <= Len(q1) + 1
        /\ f.sock6 = NoSock => Len(q2) = Len(q1)
    BY <1>2, <1>3 DEF Push, Socks
  <1> HIDE DEF q2
  <1>5. Len(q) <= Len(q2) + 1
    BY <1>2, <1>4 DEF Push, Socks
  <1>6. Len(q1) \in Nat /\ Len(q2) \in Nat /\ Len(q) \in Nat
    <2>1. q \in Seq(Addrs) BY <1>2, <1>4, PushType
    <2> QED BY <1>3, <1>4, <2>1
  <1>7. Len(q) > 2 => f.sock # NoSock /\ f.sock6 # NoSock
    BY <1>3, <1>4, <1>5, <1>6
  <1>8. AltFamily(e, a, local) = StoreSockets(f, q)
    BY DEF AltFamily, f, q, q1, q2
  <1> HIDE DEF q
  <1>9. HasPrimary(StoreSockets(f, q))
    BY <1>1, <1>7 DEF StoreSockets, HasPrimary, EdgeRec
  <1> QED BY <1>8, <1>9

(* A registration that moves names the family of the address it came from. *)
LEMMA MovedPrimary ==
    ASSUME NEW e \in EdgeRec, NEW c \in Communities, NEW a \in Addrs, NEW local,
           NEW gua \in V6Addrs \cup {NoSock}
    PROVE  HasPrimary(Moved(e, c, a, local, gua))
  <1> DEFINE h == [e EXCEPT !.comm = c, !.cfam = Family(a)]
             f == SetAddr(h, a)
             g == IF a \notin V6Addrs /\ f.sock6 = NoSock THEN [f EXCEPT !.sock6 = gua] ELSE f
  <1>1. h \in EdgeRec /\ h.cfam = Family(a) BY DEF EdgeRec, Family
  <1> HIDE DEF h
  <1>2. /\ f \in EdgeRec /\ f.cfam = Family(a)
        /\ a \in V6Addrs => f.sock6 = a
        /\ a \notin V6Addrs => f.sock = a
    BY <1>1, SetAddrType, SetAddrKeepsSocks
  <1> HIDE DEF f
  <1>3. /\ g \in EdgeRec /\ g.cfam = Family(a)
        /\ a \in V6Addrs => g.sock6 = a
        /\ a \notin V6Addrs => g.sock = a
    BY <1>2 DEF EdgeRec
  <1>4. Moved(e, c, a, local, gua) =
          [g EXCEPT !.lan = @ \/ SeesSameLan(a, local), !.socks = Push(<<a>>, local)]
    BY DEF Moved, g, f, h
  <1> HIDE DEF g
  <1>5. a # NoSock BY AddrAssumption DEF Addrs
  <1> QED BY <1>3, <1>4, <1>5 DEF HasPrimary, Family, EdgeRec

(* Following the sender of a packet erases no endpoint. *)
LEMMA FollowSenderPrimary ==
    ASSUME NEW e \in EdgeRec, NEW a \in Addrs, HasPrimary(e)
    PROVE  HasPrimary(FollowSender(e, a))
  <1>1. SetAddr(e, a) \in EdgeRec /\ HasPrimary(SetAddr(e, a))
    BY SetAddrType, SetAddrKeepsSocks DEF HasPrimary
  <1>2. HasPrimary([SetAddr(e, a) EXCEPT !.age = 0])
    BY <1>1 DEF HasPrimary, EdgeRec
  <1> QED BY <1>2 DEF FollowSender

(* An entry of the new table knows its primary endpoint, whichever handler
   wrote it. *)
LEMMA StepKeepsPrimary == TypeOK /\ PrimaryKnown /\ [Next]_vars => PrimaryKnown'
  <1> SUFFICES ASSUME TypeOK, PrimaryKnown, [Next]_vars PROVE PrimaryKnown' OBVIOUS
  <1>1. \A x \in DOMAIN edges : edges[x] \in EdgeRec /\ HasPrimary(edges[x])
    BY DEF TypeOK, PartialFn, PrimaryKnown, HasPrimary
  <1>2. SUFFICES \A x \in DOMAIN edges' : HasPrimary(edges'[x])
    BY DEF PrimaryKnown, HasPrimary
  <1>3. ASSUME NEW x, NEW r, HasPrimary(r), edges' = Put(edges, x, r)
        PROVE  \A y \in DOMAIN edges' : HasPrimary(edges'[y])
    BY <1>1, <1>3 DEF Put
  <1>4. ASSUME NEW x \in DOMAIN edges, NEW r, HasPrimary(r), edges' = [edges EXCEPT ![x] = r]
        PROVE  \A y \in DOMAIN edges' : HasPrimary(edges'[y])
    BY <1>1, <1>4
  <1>5. ASSUME NEW S, edges' = Drop(edges, S)
        PROVE  \A y \in DOMAIN edges' : HasPrimary(edges'[y])
    BY <1>1, <1>5 DEF Drop
  <1>6. ASSUME NEW m \in Macs, NEW c \in Communities, Register(m, c)
        PROVE  \A y \in DOMAIN edges' : HasPrimary(edges'[y])
    <2>1. PICK a \in Addrs, local \in LanAddrs \cup {NoSock}, gua \in V6Addrs \cup {NoSock},
               nat \in NatTypes, want \in ReqIps :
            \/ RegisterNak(m, c, want)
            \/ RegisterStatic(m, c, a, local, gua, nat, want)
            \/ want = 0 /\ RegisterCached(m, c, a, local, gua, nat)
            \/ want = 0 /\ RegisterAuto(m, c, a, local, gua, nat)
            \/ \E natDue \in BOOLEAN : RegisterKnown(m, c, a, local, gua, nat, want, natDue)
      BY <1>6 DEF Register
    <2>2. CASE RegisterNak(m, c, want) BY <2>2, <1>1 DEF RegisterNak
    <2>3. CASE \E ip : edges' = Put(edges, m, NewEdge(c, a, local, gua, nat, ip))
      BY <2>3, <1>3, NewEdgePrimary
    <2>4. ASSUME NEW natDue \in BOOLEAN, RegisterKnown(m, c, a, local, gua, nat, want, natDue)
          PROVE  \A y \in DOMAIN edges' : HasPrimary(edges'[y])
      <3> DEFINE e == Refreshed(edges[m], nat, want)
      <3>1. m \in DOMAIN edges BY <2>4 DEF RegisterKnown
      <3>2. e \in EdgeRec BY <3>1, <1>1, RefreshedType
      <3>3. HasPrimary(e) BY <3>1, <1>1 DEF Refreshed, HasPrimary, EdgeRec
      <3>4. \/ edges' = [edges EXCEPT ![m] = e]
            \/ edges' = [edges EXCEPT ![m] = AltFamily(e, a, local)]
            \/ edges' = [edges EXCEPT ![m] = Moved(e, c, a, local, gua)]
        <4> HIDE DEF e
        <4> QED BY <2>4 DEF RegisterKnown, e
      <3> HIDE DEF e
      <3> QED BY <3>1, <3>2, <3>3, <3>4, <1>4, AltFamilyPrimary, MovedPrimary
    <2>5. RegisterAuto(m, c, a, local, gua, nat) =>
            \E ip : edges' = Put(edges, m, NewEdge(c, a, local, gua, nat, ip))
      BY DEF RegisterAuto
    <2> QED BY <2>1, <2>2, <2>3, <2>4, <2>5 DEF RegisterStatic, RegisterCached
  <1>7. ASSUME NEW m \in Macs, NEW c \in Communities, NEW a \in Socks, NEW counted \in BOOLEAN,
               Packet(m, c, a, counted)
        PROVE  \A y \in DOMAIN edges' : HasPrimary(edges'[y])
    <2>1. CASE m \in DOMAIN edges /\ a # NoSock
      <3>1. a \in Addrs BY <2>1 DEF Socks
      <3>2. HasPrimary(FollowSender(edges[m], a)) BY <2>1, <3>1, <1>1, FollowSenderPrimary
      <3> QED BY <1>4, <1>7, <2>1, <3>2 DEF Packet
    <2> QED BY <1>1, <1>7, <2>1 DEF Packet
  <1>8. ASSUME NEW idle \in SUBSET Communities, Tick(idle)
        PROVE  \A y \in DOMAIN edges' : HasPrimary(edges'[y])
    <2> DEFINE Rest == Drop(edges, {m \in DOMAIN edges : Expired(m)})
    <2>1. \A y \in DOMAIN Rest : Rest[y] \in EdgeRec /\ HasPrimary(Rest[y]) BY <1>1 DEF Drop
    <2>2. edges' = Aged(Rest) BY <1>8 DEF Tick
    <2> HIDE DEF Rest
    <2>3. \A y \in DOMAIN Rest : HasPrimary([Rest[y] EXCEPT !.age = IF @ > Timeout THEN @ ELSE @ + 1])
      BY <2>1 DEF HasPrimary, EdgeRec
    <2> QED BY <2>2, <2>3 DEF Aged
  <1>9. CASE UNCHANGED vars BY <1>1, <1>9 DEF vars
  <1> QED BY <1>1, <1>5, <1>6, <1>7, <1>8, <1>9 DEF Next, RefuseSn1, Deregister

(* Whatever sequence of families, LAN addresses and moves an edge registers
   with, the supernode has an endpoint of the family it sends to: also after
   the third entry of sockets[] has overwritten connect_family. *)
THEOREM PrimaryAlwaysKnown == Spec => []PrimaryKnown
  <1>1. Init => PrimaryKnown BY DEF Init, PrimaryKnown, Empty
  <1> QED BY <1>1, StepKeepsPrimary, TypeCorrect, PTL DEF Spec

-----------------------------------------------------------------------------
(* The edge's choice among its supernodes                                    *)

Names     == E!Names
Addresses == E!Addresses
Requests  == [to : Addresses, cookie : {"last", "probe"}]

\* sn_ip_array and sn_idx.
ListInv == list \in Seq(Names) /\ Len(list) <= Capacity /\ idx \in 1 .. Len(list)

\* With a second entry there is an address to ask for the first one.
AddrInv ==
    /\ addr \in Addresses /\ query \in Addresses \cup {NoAddr} /\ probeAddr \in Addresses \cup {NoAddr}
    /\ Len(list) >= 2 => query \in Addresses
    /\ net \subseteq Requests
    /\ home \in Homes /\ report \in Homes \cup {NoAddr}

FlagInv ==
    /\ wait \in BOOLEAN /\ acked \in BOOLEAN /\ asks \in BOOLEAN /\ failed \in BOOLEAN
    /\ everOk \in BOOLEAN /\ learnt \in BOOLEAN /\ running \in BOOLEAN /\ ran \in BOOLEAN

CountInv ==
    /\ attempts \in 0 .. Attempts /\ missed \in 0 .. Attempts + 1
    /\ req \in 0 .. Cooldown + 1 /\ probe \in 0 .. Period + 1

\* While the edge waits, what it has tried and what it may still try make up all
\* its attempts and the registration before them; ask_backup is a way of waiting.
WaitInv ==
    /\ asks => wait /\ Len(list) >= 2
    /\ wait => missed + attempts >= Attempts + 1

EdgeInv == ListInv /\ AddrInv /\ FlagInv /\ CountInv /\ WaitInv

-----------------------------------------------------------------------------
(* Names and addresses                                                       *)

\* The assumptions on the constants, instantiated.
LEMMA EdgeConstants ==
    /\ Configured \in Seq({Configured[i] : i \in DOMAIN Configured}) /\ Configured # <<>>
    /\ Configured[1] = Sn1 /\ Len(Configured) <= Capacity
    /\ Homes # {} /\ Domain \in BOOLEAN
    /\ Capacity \in Nat \ {0} /\ Attempts \in Nat \ {0} /\ Fast \in Nat \ {0}
    /\ Period \in Nat \ {0} /\ Cooldown \in Nat \ {0}
    /\ Fast < Period /\ Period < Cooldown
BY SupernodesAssumed DEF E!SupernodeAssumption

\* What the timers start from is within their bounds.
LEMMA Timers ==
    /\ Attempts \in Nat \ {0} /\ Period \in Nat /\ Cooldown \in Nat
    /\ 0 \in 0 .. Cooldown + 1 /\ 0 \in 0 .. Period + 1 /\ Attempts \in 0 .. Attempts
BY EdgeConstants

\* All attempts are left, and a registration has gone unanswered.
LEMMA AllLeft ==
    ASSUME NEW a, a = Attempts, NEW m \in 0 .. Attempts + 1, m >= 1
    PROVE  a + m >= Attempts + 1 /\ m + a >= Attempts + 1 /\ a \in 0 .. Attempts
BY Timers

\* One attempt less, and one more that went unanswered.
LEMMA OneLess ==
    ASSUME NEW a \in 0 .. Attempts, a # 0, NEW m \in 0 .. Attempts + 1, m + a >= Attempts + 1,
           NEW n \in 0 .. Attempts + 1, n = m + 1 \/ n = Attempts + 1
    PROVE  (a - 1) + n >= Attempts + 1 /\ n + (a - 1) >= Attempts + 1 /\ a - 1 \in 0 .. Attempts
BY Timers

\* A supernode's home is an address.
LEMMA KnownHomes == Homes \subseteq Addresses
BY DEF Addresses, E!Addresses

\* The configured supernodes are named.
LEMMA ConfiguredNames ==
    /\ Configured \in Seq(Names) /\ Len(Configured) \in Nat /\ Len(Configured) >= 1
    /\ Backup \in Names
<1>1. {Configured[i] : i \in DOMAIN Configured} \subseteq Names /\ Backup \in Names
  BY DEF Names, E!Names
<1>2. Configured \in Seq(Names)
  BY <1>1, EdgeConstants, SeqMonotonic
<1>3. Len(Configured) \in Nat /\ Len(Configured) # 0
  BY <1>2, EdgeConstants, EmptySeq
<1> QED BY <1>1, <1>2, <1>3

\* A name resolves to an address (supernode2sock).
LEMMA Resolved ==
    ASSUME NEW n \in Names, home \in Homes
    PROVE  E!Resolve(n) \in Addresses
BY DEF E!Resolve, Addresses, E!Addresses, Names

\* An entry of the list resolves to an address.
LEMMA ResolvedEntry ==
    ASSUME ListInv, home \in Homes, NEW i \in 1 .. Len(list)
    PROVE  E!Resolve(list[i]) \in Addresses
<1>1. list[i] \in Names
  BY ElementOfSeq DEF ListInv
<1> QED BY <1>1, Resolved

\* What a registration leaves under way are requests.
LEMMA SentRequests ==
    ASSUME NEW n, n \subseteq Requests, NEW s \in Addresses
    PROVE  E!Fresh(n, s) \subseteq Requests /\ E!Again(n, s) \subseteq Requests
BY DEF E!Fresh, E!Again, E!To, Requests

\* So is what the probe leaves.
LEMMA ProbedRequests ==
    ASSUME AddrInv
    PROVE  E!Probed \subseteq Requests
BY KnownHomes DEF AddrInv, E!Probed, E!To, Requests

\* One more unanswered registration: the count stays within its bound.
LEMMA CountedOnce ==
    ASSUME CountInv, E!Counted(1)
    PROVE  /\ missed' \in 0 .. Attempts + 1 /\ missed' >= 1 /\ missed' >= missed
           /\ missed' = missed + 1 \/ missed' = Attempts + 1
BY EdgeConstants DEF CountInv, E!Counted

\* A timer that is moved on stays below its bound.
LEMMA AgeOlder ==
    ASSUME NEW limit \in Nat, NEW age \in 0 .. limit, NEW by \in Nat
    PROVE  E!Older(age, by, limit) \in 0 .. limit
BY DEF E!Older

-----------------------------------------------------------------------------
(* The steps of the edge                                                     *)

\* Phase 1: the pause after sn1 failed is over (update_supernode_reg).
LEMMA Phase1Keeps ==
    ASSUME EdgeInv, E!Phase1, ran' = TRUE, UNCHANGED <<home, report, running>>
    PROVE  EdgeInv'
<1>0. ListInv /\ AddrInv /\ FlagInv /\ CountInv /\ WaitInv
  BY DEF EdgeInv
<1>a. Len(list) >= 2 /\ 2 \in 1 .. Len(list)
  BY <1>0, LenProperties DEF E!Phase1, E!Cooled, ListInv
<1>b. E!Resolve(list[2]) \in Addresses
  BY <1>a, <1>0, ResolvedEntry DEF AddrInv
<1>c. E!Fresh(net, addr) \subseteq Requests /\ E!Fresh(net, E!Resolve(list[2])) \subseteq Requests
  BY <1>b, <1>0, SentRequests DEF AddrInv
<1>d. E!Counted(1)
  BY DEF E!Phase1
<1>e. missed' \in 0 .. Attempts + 1 /\ missed' >= 1
  BY <1>0, <1>d, CountedOnce
<1>1. ListInv'
  BY <1>0, <1>a, <1>b, <1>c, <1>e DEF E!Phase1, E!Cooled, E!state, E!Register, E!sn_switch_to, ListInv
<1>2. AddrInv'
  BY <1>0, <1>1, <1>a, <1>b, <1>c, <1>e DEF E!Phase1, E!Cooled, E!state, E!Register, E!sn_switch_to, AddrInv, ListInv
<1>3. FlagInv'
  BY <1>0, <1>a, <1>b, <1>c, <1>e DEF E!Phase1, E!Cooled, E!state, E!Register, E!sn_switch_to, FlagInv
<1>4. CountInv'
  BY <1>0, Timers, <1>a, <1>b, <1>c, <1>e DEF E!Phase1, E!Cooled, E!state, E!Register, E!sn_switch_to, CountInv
<1>5. WaitInv'
  BY <1>0, Timers, <1>a, <1>b, <1>c, <1>e DEF E!Phase1, E!Cooled, E!state, E!Register, E!sn_switch_to, WaitInv, CountInv, FlagInv
<1> QED BY <1>1, <1>2, <1>3, <1>4, <1>5 DEF EdgeInv

\* Phase 2: sn2 and sn1 are asked; after the last attempt the edge fails over.
LEMMA Phase2Keeps ==
    ASSUME EdgeInv, NEW rebuilds, E!Phase2(rebuilds), ran' = TRUE, UNCHANGED <<home, report, running>>
    PROVE  EdgeInv'
<1>0. ListInv /\ AddrInv /\ FlagInv /\ CountInv /\ WaitInv
  BY DEF EdgeInv
<1>1. asks /\ wait /\ Len(list) >= 2 /\ 2 \in 1 .. Len(list) /\ query \in Addresses
  BY <1>0, LenProperties DEF E!Phase2, ListInv, WaitInv, AddrInv
<1>2. E!Resolve(list[2]) \in Addresses
  BY <1>1, <1>0, ResolvedEntry DEF AddrInv
<1>3. CASE req <= Period
  <2>1. UNCHANGED <<E!state, req, net, missed, probe>>
    BY <1>3 DEF E!Phase2
  <2> QED BY <2>1, <1>0 DEF E!state, EdgeInv, ListInv, AddrInv, FlagInv, CountInv, WaitInv
<1>4. CASE ~(req <= Period)
  <2>1. E!Counted(1) /\ wait' = TRUE /\ req' = 0 /\ probe' = probe
        /\ UNCHANGED <<list, query, failed, everOk, learnt, probeAddr>>
    BY <1>4 DEF E!Phase2
  <2>2. missed' \in 0 .. Attempts + 1 /\ missed' >= 1 /\ (missed' = missed + 1 \/ missed' = Attempts + 1)
    BY <2>1, <1>0, CountedOnce
  <2>3. net' \subseteq Requests
    <3>1. E!Fresh(net, E!Resolve(list[2])) \subseteq Requests
      BY <1>2, <1>0, SentRequests DEF AddrInv
    <3>2. E!Again(net, query) \subseteq Requests
      BY <1>1, <1>0, SentRequests DEF AddrInv
    <3>3. E!Again(E!Again(net, query), addr) \subseteq Requests
      BY <3>2, <1>0, SentRequests DEF AddrInv
    <3>4. net' \in {E!Fresh(net, E!Resolve(list[2])), E!Again(E!Again(net, query), addr)}
      BY <1>4 DEF E!Phase2
    <3> QED BY <3>1, <3>3, <3>4
  <2>4. acked' \in BOOLEAN /\ asks' \in BOOLEAN
    BY <1>4, <1>0 DEF E!Phase2, FlagInv
  <2>5. CASE attempts = 0
    <3>1. idx' = 2 /\ addr' = E!Resolve(list[2]) /\ attempts' = Attempts
      BY <2>5, <1>4 DEF E!Phase2, E!sn_switch_to
    <3>2. ListInv' /\ AddrInv'
      BY <2>1, <2>3, <3>1, <1>0, <1>1, <1>2 DEF ListInv, AddrInv
    <3>3. FlagInv'
      BY <2>1, <2>4, <1>0 DEF FlagInv
    <3>4. CountInv' /\ WaitInv'
      <4>1. missed' + attempts' >= Attempts + 1 /\ attempts' \in 0 .. Attempts
        <5>1. attempts' = Attempts
          BY <3>1
        <5> QED BY <5>1, <2>2, AllLeft
      <4>0. req' \in 0 .. Cooldown + 1
        BY <2>1, Timers
      <4>2. Len(list') >= 2
        BY <2>1, <1>1
      <4> QED BY <4>0, <4>1, <4>2, <2>1, <2>2, <1>0 DEF CountInv, WaitInv
    <3> QED BY <3>2, <3>3, <3>4 DEF EdgeInv
  <2>6. CASE attempts # 0
    <3>1. attempts' = attempts - 1 /\ UNCHANGED <<idx, addr, asks>>
      BY <2>6, <1>4 DEF E!Phase2
    <3>2. ListInv' /\ AddrInv'
      BY <2>1, <2>3, <3>1, <1>0, <1>1 DEF ListInv, AddrInv
    <3>3. FlagInv'
      BY <2>1, <2>4, <1>0 DEF FlagInv
    <3>4. CountInv' /\ WaitInv'
      <4>0. req' \in 0 .. Cooldown + 1
        BY <2>1, Timers
      <4>1. missed' + attempts' >= Attempts + 1 /\ attempts' \in 0 .. Attempts
        <5>1. missed + attempts >= Attempts + 1 /\ attempts \in 0 .. Attempts /\ missed \in 0 .. Attempts + 1
          BY <1>0, <1>1 DEF CountInv, WaitInv
        <5>2. attempts' = attempts - 1
          BY <3>1
        <5>3. (attempts - 1) + missed' >= Attempts + 1 /\ missed' + (attempts - 1) >= Attempts + 1
              /\ attempts - 1 \in 0 .. Attempts
          BY <5>1, <2>2, <2>6, OneLess
        <5> QED BY <5>2, <5>3
      <4>2. Len(list') >= 2
        BY <2>1, <1>1
      <4> QED BY <4>0, <4>1, <4>2, <2>1, <2>2, <1>0 DEF CountInv, WaitInv
    <3> QED BY <3>2, <3>3, <3>4 DEF EdgeInv
  <2> QED BY <2>5, <2>6
<1> QED BY <1>3, <1>4

\* What the disjuncts of the normal phases have in common.
LEMMA NormalFrame ==
    ASSUME EdgeInv, E!Phase3, ran' = TRUE, UNCHANGED <<home, report, running>>,
           UNCHANGED <<list, query, everOk, learnt>>
    PROVE  /\ probeAddr' \in Addresses \cup {NoAddr} /\ probe' \in 0 .. Period + 1
           /\ home' \in Homes /\ report' \in Homes \cup {NoAddr}
           /\ query' = query /\ list' = list
           /\ everOk' \in BOOLEAN /\ learnt' \in BOOLEAN /\ running' \in BOOLEAN /\ ran' \in BOOLEAN
BY EdgeConstants, KnownHomes DEF E!Phase3, EdgeInv, AddrInv, FlagInv, CountInv

\* A registration of the normal phases at an address s, after which the edge is
\* at entry i with n attempts left.
LEMMA Registers ==
    ASSUME EdgeInv, E!Phase3, ran' = TRUE, UNCHANGED <<home, report, running>>,
           UNCHANGED <<list, query, everOk, learnt>>, E!Counted(1),
           NEW s \in Addresses, E!Register(E!Probed, s), addr' = s,
           idx' \in 1 .. Len(list), failed' \in BOOLEAN, asks' = asks, ~asks,
           attempts' = Attempts \/ (wait /\ attempts > 0 /\ attempts' = attempts - 1)
    PROVE  EdgeInv'
<1>0. ListInv /\ AddrInv /\ FlagInv /\ CountInv /\ WaitInv
  BY DEF EdgeInv
<1>1. /\ probeAddr' \in Addresses \cup {NoAddr} /\ probe' \in 0 .. Period + 1
      /\ home' \in Homes /\ report' \in Homes \cup {NoAddr}
      /\ query' = query /\ list' = list
      /\ everOk' \in BOOLEAN /\ learnt' \in BOOLEAN /\ running' \in BOOLEAN /\ ran' \in BOOLEAN
  BY NormalFrame
<1>2. net' \subseteq Requests /\ wait' = TRUE /\ acked' = FALSE /\ req' = 0
  <2>1. E!Fresh(E!Probed, s) \subseteq Requests
    BY <1>0, ProbedRequests, SentRequests
  <2> QED BY <2>1 DEF E!Register
<1>3. missed' \in 0 .. Attempts + 1 /\ missed' >= 1 /\ (missed' = missed + 1 \/ missed' = Attempts + 1)
  BY <1>0, CountedOnce
<1>4. ListInv' /\ AddrInv'
  BY <1>0, <1>1, <1>2 DEF ListInv, AddrInv
<1>5. FlagInv'
  BY <1>0, <1>1, <1>2 DEF FlagInv
<1>6. CountInv'
  BY <1>0, <1>1, <1>2, <1>3, Timers DEF CountInv
<1>7. WaitInv'
  BY <1>0, <1>1, <1>2, <1>3, Timers DEF CountInv, WaitInv
<1> QED BY <1>4, <1>5, <1>6, <1>7 DEF EdgeInv

\* Phases 3 to 5: the failback probe, the registration that is due, a retry or a failover.
LEMMA NormalKeeps ==
    ASSUME EdgeInv, E!Normal, ran' = TRUE, UNCHANGED <<home, report, running>>
    PROVE  EdgeInv'
<1>0. ListInv /\ AddrInv /\ FlagInv /\ CountInv /\ WaitInv
  BY DEF EdgeInv
<1>1. ~asks /\ E!Phase3 /\ UNCHANGED <<list, query, everOk, learnt>>
  BY DEF E!Normal
<1>2. CASE E!Phase4 /\ E!Counted(1)
  <2>1. E!Register(E!Probed, addr) /\ attempts' = Attempts /\ UNCHANGED <<idx, addr, asks, failed>>
    BY <1>2 DEF E!Phase4
  <2>2. addr \in Addresses /\ idx' \in 1 .. Len(list) /\ failed' \in BOOLEAN
    BY <2>1, <1>0 DEF AddrInv, ListInv, FlagInv
  <2> QED BY <1>1, <1>2, <2>1, <2>2, Registers
<1>3. CASE E!Phase5 /\ E!Retry /\ E!Counted(1)
  <2>1. /\ E!Register(E!Probed, addr) /\ attempts > 0 /\ attempts' = attempts - 1 /\ wait
        /\ UNCHANGED <<idx, addr, asks, failed>>
    BY <1>3 DEF E!Phase5, E!Retry
  <2>2. addr \in Addresses /\ idx' \in 1 .. Len(list) /\ failed' \in BOOLEAN
    BY <2>1, <1>0 DEF AddrInv, ListInv, FlagInv
  <2> QED BY <1>1, <1>3, <2>1, <2>2, Registers
<1>4. CASE E!Phase5 /\ E!FailOver /\ E!Counted(1)
  <2> DEFINE n == E!NextOne
             s == E!Resolve(list[n])
  <2>1. n \in 1 .. Len(list)
    BY <1>0, LenProperties DEF E!NextOne, ListInv
  <2>2. s \in Addresses
    BY <2>1, <1>0, ResolvedEntry DEF AddrInv
  <2>3. /\ E!Register(E!Probed, s) /\ addr' = s /\ idx' = n /\ attempts' = Attempts
        /\ failed' \in BOOLEAN /\ asks' = asks
    <3>1. E!FailOver
      BY <1>4
    <3> QED BY <3>1 DEF E!FailOver, E!sn_switch_to
  <2> HIDE DEF n, s
  <2> QED BY <1>1, <1>4, <2>1, <2>2, <2>3, Registers
<1>5. CASE E!Phase5 /\ E!AskBackup /\ E!Counted(1)
  <2>1. /\ Len(list) >= 2 /\ asks' = TRUE /\ attempts' = Attempts
        /\ net' = E!Again(E!Fresh(E!Probed, query), addr)
        /\ wait' = TRUE /\ acked' = FALSE /\ req' = 0 /\ UNCHANGED <<idx, addr, failed>>
    BY <1>5 DEF E!AskBackup
  <2>2. net' \subseteq Requests
    <3>1. query \in Addresses /\ addr \in Addresses
      BY <2>1, <1>0 DEF AddrInv
    <3>2. E!Fresh(E!Probed, query) \subseteq Requests
      BY <3>1, <1>0, ProbedRequests, SentRequests
    <3>3. E!Again(E!Fresh(E!Probed, query), addr) \subseteq Requests
      BY <3>1, <3>2, SentRequests
    <3> QED BY <2>1, <3>3
  <2>3. /\ probeAddr' \in Addresses \cup {NoAddr} /\ probe' \in 0 .. Period + 1
        /\ home' \in Homes /\ report' \in Homes \cup {NoAddr}
        /\ query' = query /\ list' = list
        /\ everOk' \in BOOLEAN /\ learnt' \in BOOLEAN /\ running' \in BOOLEAN /\ ran' \in BOOLEAN
    BY <1>1, NormalFrame
  <2>4. missed' \in 0 .. Attempts + 1 /\ missed' >= 1
    BY <1>0, <1>5, CountedOnce
  <2>5. ListInv' /\ AddrInv'
    BY <1>0, <2>1, <2>2, <2>3 DEF ListInv, AddrInv
  <2>6. FlagInv'
    BY <1>0, <2>1, <2>3 DEF FlagInv
  <2>7. CountInv' /\ WaitInv'
    <3>0. req' \in 0 .. Cooldown + 1 /\ attempts' = Attempts
      BY <2>1, Timers
    <3>1. missed' + attempts' >= Attempts + 1 /\ attempts' \in 0 .. Attempts
      BY <3>0, <2>4, AllLeft
    <3>2. Len(list') >= 2
      BY <2>1, <2>3
    <3> QED BY <3>0, <3>1, <3>2, <2>1, <2>3, <2>4, <1>0 DEF CountInv, WaitInv
  <2> QED BY <2>5, <2>6, <2>7 DEF EdgeInv
<1>6. CASE E!NotDue /\ UNCHANGED missed
  <2>1. net' = E!Probed /\ UNCHANGED <<idx, addr, wait, acked, asks, failed, attempts, req, missed>>
    BY <1>6 DEF E!NotDue
  <2>2. net' \subseteq Requests
    BY <2>1, <1>0, ProbedRequests
  <2>3. /\ probeAddr' \in Addresses \cup {NoAddr} /\ probe' \in 0 .. Period + 1
        /\ home' \in Homes /\ report' \in Homes \cup {NoAddr}
        /\ query' = query /\ list' = list
        /\ everOk' \in BOOLEAN /\ learnt' \in BOOLEAN /\ running' \in BOOLEAN /\ ran' \in BOOLEAN
    BY <1>1, NormalFrame
  <2>4. ListInv' /\ AddrInv'
    BY <1>0, <2>1, <2>2, <2>3 DEF ListInv, AddrInv
  <2>5. FlagInv'
    BY <1>0, <2>1, <2>3 DEF FlagInv
  <2>6. CountInv' /\ WaitInv'
    BY <1>0, <2>1, <2>3 DEF CountInv, WaitInv
  <2> QED BY <2>4, <2>5, <2>6 DEF EdgeInv
<1> QED BY <1>2, <1>3, <1>4, <1>5, <1>6 DEF E!Normal, E!Phase5

\* A punch round or a new NAT type registers at once.
LEMMA ReregisterKeeps ==
    ASSUME EdgeInv, NEW s, E!Reregister(s)
    PROVE  EdgeInv'
<1>0. ListInv /\ AddrInv /\ FlagInv /\ CountInv /\ WaitInv
  BY DEF EdgeInv
<1>1. s \in Addresses
  BY <1>0 DEF AddrInv, E!Reregister
<1>2. E!Fresh(net, s) \subseteq Requests
  BY <1>1, <1>0, SentRequests DEF AddrInv
<1>3. ListInv' /\ AddrInv'
  BY <1>0, <1>2 DEF ListInv, AddrInv, E!Reregister
<1>4. FlagInv'
  BY <1>0 DEF FlagInv, E!Reregister
<1>5. CountInv' /\ WaitInv'
  BY <1>0 DEF CountInv, WaitInv, E!Reregister
<1> QED BY <1>3, <1>4, <1>5 DEF EdgeInv

\* The resolver found other addresses.
LEMMA ReResolveKeeps ==
    ASSUME EdgeInv, E!ReResolve
    PROVE  EdgeInv'
<1>0. ListInv /\ AddrInv /\ FlagInv /\ CountInv /\ WaitInv
  BY DEF EdgeInv
<1>a. E!Resolve(list[idx]) \in Addresses
  BY <1>0, ResolvedEntry DEF AddrInv, ListInv
<1>b. E!Fresh(net, E!Resolve(list[idx])) \subseteq Requests
  BY <1>a, <1>0, SentRequests DEF AddrInv
<1>c. missed' \in 0 .. Attempts + 1 /\ missed' >= 1
  BY <1>0, CountedOnce DEF E!ReResolve
<1>d. missed' + attempts' >= Attempts + 1 /\ attempts' \in 0 .. Attempts
  <2>1. attempts' = Attempts
    BY DEF E!ReResolve
  <2> QED BY <2>1, <1>c, AllLeft
<1>1. ListInv'
  BY <1>0, <1>a, <1>b, <1>c, <1>d DEF E!ReResolve, E!state, E!Register, E!sn_switch_to, ListInv
<1>2. AddrInv'
  BY <1>0, <1>1, <1>a, <1>b, <1>c, <1>d DEF E!ReResolve, E!state, E!Register, E!sn_switch_to, AddrInv, ListInv
<1>3. FlagInv'
  BY <1>0, <1>a, <1>b, <1>c, <1>d DEF E!ReResolve, E!state, E!Register, E!sn_switch_to, FlagInv
<1>4. CountInv'
  BY <1>0, Timers, <1>a, <1>b, <1>c, <1>d DEF E!ReResolve, E!state, E!Register, E!sn_switch_to, CountInv
<1>5. WaitInv'
  BY <1>0, Timers, <1>a, <1>b, <1>c, <1>d DEF E!ReResolve, E!state, E!Register, E!sn_switch_to, WaitInv, CountInv, FlagInv
<1> QED BY <1>1, <1>2, <1>3, <1>4, <1>5 DEF EdgeInv

\* An answer to the failback probe of Phase 3.
LEMMA AckProbeKeeps ==
    ASSUME EdgeInv, NEW r \in net, E!AckProbe(r), UNCHANGED <<probe, home, report, running, ran>>
    PROVE  EdgeInv'
<1>0. ListInv /\ AddrInv /\ FlagInv /\ CountInv /\ WaitInv
  BY DEF EdgeInv
<1>a. probeAddr \in Addresses /\ 1 \in 1 .. Len(list)
  <2>1. r.to \in Addresses
    BY <1>0 DEF AddrInv, Requests
  <2> QED BY <2>1, <1>0, LenProperties DEF E!AckProbe, ListInv
<1>1. ListInv'
  BY <1>0, <1>a DEF E!AckProbe, ListInv
<1>2. AddrInv'
  BY <1>0, <1>1, <1>a DEF E!AckProbe, AddrInv, ListInv
<1>3. FlagInv'
  BY <1>0, <1>a DEF E!AckProbe, FlagInv
<1>4. CountInv'
  BY <1>0, Timers, <1>a DEF E!AckProbe, CountInv
<1>5. WaitInv'
  BY <1>0, Timers, <1>a DEF E!AckProbe, WaitInv, CountInv, FlagInv
<1> QED BY <1>1, <1>2, <1>3, <1>4, <1>5 DEF EdgeInv

\* The first answer while sn2 is asked where sn1 is.
LEMMA AckAskedKeeps ==
    ASSUME EdgeInv, NEW r \in net, E!AckFirst(r, FALSE) \/ E!AckFirst(r, TRUE), E!AckAsked(r),
           everOk' \in BOOLEAN, asks' = FALSE, failed' = FALSE, probeAddr' = probeAddr,
           UNCHANGED <<probe, home, report, running, ran>>
    PROVE  EdgeInv'
<1>0. ListInv /\ AddrInv /\ FlagInv /\ CountInv /\ WaitInv
  BY DEF EdgeInv
<1>1. Len(list) >= 2 /\ 2 \in 1 .. Len(list) /\ 1 \in 1 .. Len(list)
  BY <1>0, LenProperties DEF E!AckAsked, ListInv, WaitInv
<1>2. E!Resolve(list[2]) \in Addresses
  BY <1>1, <1>0, ResolvedEntry DEF AddrInv
<1>3. missed' = 1 /\ UNCHANGED <<list, query, learnt>>
  BY DEF E!AckAsked
<1>4. PICK s \in Addresses, i \in {1, 2} :
        addr' = s /\ idx' = i /\ attempts' = Attempts /\ E!Register(net, s)
  <2>1. CASE r.to = query /\ report \notin {NoAddr, addr}
    <3>1. addr' = report /\ idx' = 1 /\ attempts' = Attempts /\ E!Register(net, report)
      BY <2>1 DEF E!AckAsked
    <3>2. report \in Addresses
      BY <2>1, <1>0, KnownHomes DEF AddrInv
    <3> QED BY <3>1, <3>2
  <2>2. CASE ~(r.to = query /\ report \notin {NoAddr, addr})
    <3>1. E!sn_switch_to(2) /\ E!Register(net, E!Resolve(list[2]))
      BY <2>2 DEF E!AckAsked
    <3> QED BY <3>1, <1>2 DEF E!sn_switch_to
  <2> QED BY <2>1, <2>2
<1>5. net' \subseteq Requests /\ wait' = TRUE /\ acked' = FALSE /\ req' = 0
  <2>1. E!Fresh(net, s) \subseteq Requests
    BY <1>0, SentRequests DEF AddrInv
  <2> QED BY <1>4, <2>1 DEF E!Register
<1>6. missed' + attempts' >= Attempts + 1 /\ attempts' \in 0 .. Attempts /\ missed' \in 0 .. Attempts + 1
  <2>1. 1 \in 0 .. Attempts + 1
    BY Timers
  <2>2. attempts' = Attempts /\ missed' \in 0 .. Attempts + 1 /\ missed' >= 1
    BY <2>1, <1>3, <1>4
  <2> QED BY <2>2, AllLeft
<1>7. ListInv'
  BY <1>0, <1>1, <1>3, <1>4 DEF ListInv
<1>8. AddrInv'
  BY <1>0, <1>3, <1>4, <1>5 DEF AddrInv
<1>9. FlagInv'
  BY <1>0, <1>3, <1>5 DEF FlagInv
<1>10. CountInv'
  BY <1>0, <1>5, <1>6, Timers DEF CountInv
<1>11. WaitInv'
  BY <1>6 DEF WaitInv
<1> QED BY <1>7, <1>8, <1>9, <1>10, <1>11 DEF EdgeInv

\* The backup of sn1 becomes the second entry of the list.
LEMMA Inserted ==
    ASSUME ListInv, Len(list) < Capacity
    PROVE  LET l == E!InsertAt(list, 2, Backup)
           IN  l \in Seq(Names) /\ Len(l) = Len(list) + 1
<1> DEFINE l == SubSeq(list, 1, 2 - 1)
           r == SubSeq(list, 2, Len(list))
<1>1. list \in Seq(Names) /\ Len(list) \in Nat /\ Len(list) >= 1 /\ \A i \in 1 .. Len(list) : list[i] \in Names
  BY LenProperties, ElementOfSeq DEF ListInv
<1>2. l \in Seq(Names) /\ Len(l) = 1
  <2>1. /\ SubSeq(list, 1, 1) \in Seq(Names)
        /\ Len(SubSeq(list, 1, 1)) = IF 1 <= 1 THEN 1 - 1 + 1 ELSE 0
    BY <1>1, SubSeqProperties
  <2>2. (IF 1 <= 1 THEN 1 - 1 + 1 ELSE 0) = 1
    OBVIOUS
  <2>3. l = SubSeq(list, 1, 1)
    OBVIOUS
  <2> QED BY <2>1, <2>2, <2>3
<1>3. r \in Seq(Names) /\ Len(r) = Len(list) - 1
  <2>1. /\ SubSeq(list, 2, Len(list)) \in Seq(Names)
        /\ Len(SubSeq(list, 2, Len(list))) = IF 2 <= Len(list) THEN Len(list) - 2 + 1 ELSE 0
    BY <1>1, SubSeqProperties
  <2>2. \A n \in Nat : n >= 1 => (IF 2 <= n THEN n - 2 + 1 ELSE 0) = n - 1
    OBVIOUS
  <2>3. (IF 2 <= Len(list) THEN Len(list) - 2 + 1 ELSE 0) = Len(list) - 1
    BY <1>1, <2>2
  <2> HIDE DEF r
  <2>4. r = SubSeq(list, 2, Len(list))
    BY DEF r
  <2> QED BY <2>1, <2>3, <2>4
<1>4. <<Backup>> \in Seq(Names) /\ Len(<<Backup>>) = 1
  <2>1. Backup \in Names
    BY ConfiguredNames
  <2> QED BY <2>1
<1> HIDE DEF l, r
<1>5. l \o <<Backup>> \in Seq(Names) /\ Len(l \o <<Backup>>) = 2
  <2>1. /\ l \o <<Backup>> \in Seq(Names)
        /\ Len(l \o <<Backup>>) = Len(l) + Len(<<Backup>>)
    BY <1>2, <1>4, ConcatProperties
  <2>2. \A a, b : a = 1 /\ b = 1 => a + b = 2
    OBVIOUS
  <2> QED BY <1>2, <1>4, <2>1, <2>2
<1>6. (l \o <<Backup>>) \o r \in Seq(Names) /\ Len((l \o <<Backup>>) \o r) = 2 + (Len(list) - 1)
  BY <1>5, <1>3, ConcatProperties
<1>7. E!InsertAt(list, 2, Backup) = (l \o <<Backup>>) \o r
  BY DEF E!InsertAt, l, r
<1>8. 2 + (Len(list) - 1) = Len(list) + 1
  <2>1. \A n \in Nat : 2 + (n - 1) = n + 1
    OBVIOUS
  <2>2. Len(list) \in Nat
    BY <1>1, LenProperties
  <2> QED BY <2>1, <2>2
<1> QED BY <1>6, <1>7, <1>8

\* Any other first answer.
LEMMA AckPlainKeeps ==
    ASSUME EdgeInv, NEW r \in net, NEW names \in BOOLEAN, E!AckPlain(r, names),
           everOk' \in BOOLEAN, asks' = FALSE, failed' = FALSE, probeAddr' = probeAddr,
           UNCHANGED <<probe, home, report, running, ran>>
    PROVE  EdgeInv'
<1>0. ListInv /\ AddrInv /\ FlagInv /\ CountInv /\ WaitInv
  BY DEF EdgeInv
<1>1. /\ wait' = FALSE /\ acked' = TRUE /\ missed' = 0 /\ learnt' = (learnt \/ (idx = 1 /\ names))
      /\ UNCHANGED <<idx, addr, attempts, net, req>>
  BY DEF E!AckPlain
<1>2. learnt' \in BOOLEAN
  BY <1>1
<1>3. list' \in Seq(Names) /\ Len(list') <= Capacity /\ Len(list') >= Len(list)
      /\ query' \in Addresses \cup {NoAddr} /\ (Len(list') >= 2 => query' \in Addresses)
  <2>0. Len(list) \in Nat /\ Capacity \in Nat
    BY <1>0, LenProperties, EdgeConstants DEF ListInv
  <2>1. CASE UNCHANGED <<list, query>>
    BY <2>0, <2>1, <1>0 DEF ListInv, AddrInv
  <2>2. CASE Len(list) < Capacity /\ list' = E!InsertAt(list, 2, Backup) /\ query' = E!Resolve(Backup)
    <3>1. query' \in Addresses
      BY <2>2, <1>0, ConfiguredNames, Resolved DEF AddrInv
    <3>2. list' \in Seq(Names) /\ Len(list') = Len(list) + 1
      BY <2>2, <1>0, Inserted
    <3> QED BY <2>0, <2>2, <3>1, <3>2
  <2> QED BY <2>1, <2>2 DEF E!AckPlain
<1>4. ListInv'
  <2>1. Len(list) \in Nat /\ Len(list') \in Nat
    BY <1>0, <1>3, LenProperties DEF ListInv
  <2> QED BY <2>1, <1>0, <1>1, <1>3 DEF ListInv
<1>5. AddrInv'
  BY <1>0, <1>1, <1>3 DEF AddrInv
<1>6. FlagInv'
  BY <1>0, <1>1, <1>2 DEF FlagInv
<1>7. CountInv'
  <2>1. 0 \in 0 .. Attempts + 1
    BY Timers
  <2> QED BY <2>1, <1>0, <1>1 DEF CountInv
<1>8. WaitInv'
  BY <1>1 DEF WaitInv
<1> QED BY <1>4, <1>5, <1>6, <1>7, <1>8 DEF EdgeInv

\* An answer of any kind.
LEMMA AckKeeps ==
    ASSUME EdgeInv, NEW r \in net, E!Ack(r)
    PROVE  EdgeInv'
<1>1. UNCHANGED <<probe, home, report, running, ran>>
  BY DEF E!Ack
<1>2. CASE E!AckProbe(r)
  BY <1>1, <1>2, AckProbeKeeps
<1>3. ASSUME NEW names \in BOOLEAN, E!AckFirst(r, names) PROVE EdgeInv'
  <2>1. everOk' \in BOOLEAN /\ asks' = FALSE /\ failed' = FALSE /\ probeAddr' = probeAddr
    BY <1>3 DEF E!AckFirst
  <2>2. CASE E!AckAsked(r)
    BY <1>1, <1>3, <2>1, <2>2, AckAskedKeeps
  <2>3. CASE E!AckPlain(r, names)
    BY <1>1, <2>1, <2>3, AckPlainKeeps
  <2> QED BY <1>3, <2>2, <2>3 DEF E!AckFirst
<1> QED BY <1>2, <1>3 DEF E!Ack

\* Time passes.
LEMMA PassKeeps ==
    ASSUME EdgeInv, NEW by \in Nat, E!Pass(by)
    PROVE  EdgeInv'
<1>0. ListInv /\ AddrInv /\ FlagInv /\ CountInv /\ WaitInv
  BY DEF EdgeInv
<1>1. ran' = FALSE /\ UNCHANGED <<E!state, net, home, report, running, missed>>
  BY DEF E!Pass
<1>2. req' \in 0 .. Cooldown + 1
  <2>1. Cooldown + 1 \in Nat /\ req \in 0 .. Cooldown + 1
    BY <1>0, Timers DEF CountInv
  <2> QED BY <2>1, AgeOlder DEF E!Pass
<1>3. probe' \in 0 .. Period + 1
  <2>1. Period + 1 \in Nat /\ probe \in 0 .. Period + 1
    BY <1>0, Timers DEF CountInv
  <2> QED BY <2>1, AgeOlder DEF E!Pass
<1>4. ListInv' /\ AddrInv'
  BY <1>0, <1>1 DEF E!state, ListInv, AddrInv
<1>5. FlagInv' /\ WaitInv'
  BY <1>0, <1>1 DEF E!state, FlagInv, WaitInv
<1>6. CountInv'
  BY <1>0, <1>1, <1>2, <1>3 DEF E!state, CountInv
<1> QED BY <1>4, <1>5, <1>6 DEF EdgeInv

\* Neither the edge's exit nor the world outside moves the edge's own state.
LEMMA WorldKeeps ==
    ASSUME EdgeInv, UNCHANGED <<E!state, req, probe, net, ran, missed>>,
           home' \in Homes, report' \in Homes \cup {NoAddr}, running' \in BOOLEAN
    PROVE  EdgeInv'
<1>0. ListInv /\ AddrInv /\ FlagInv /\ CountInv /\ WaitInv
  BY DEF EdgeInv
<1>1. ListInv' /\ AddrInv'
  BY <1>0 DEF E!state, ListInv, AddrInv
<1>2. FlagInv' /\ CountInv' /\ WaitInv'
  BY <1>0 DEF E!state, FlagInv, CountInv, WaitInv
<1> QED BY <1>1, <1>2 DEF EdgeInv

-----------------------------------------------------------------------------
(* The edge's specification                                                  *)

\* The edge starts with its configured list.
LEMMA EdgeStarts == E!Init => EdgeInv
<1> SUFFICES ASSUME E!Init PROVE EdgeInv
  OBVIOUS
<1>1. ListInv
  BY ConfiguredNames, EdgeConstants DEF E!Init, ListInv
<1>2. AddrInv
  <2>1. home \in Homes /\ home \in Addresses /\ addr = home /\ net = {} /\ report = NoAddr /\ probeAddr = NoAddr
    BY KnownHomes DEF E!Init
  <2>2. CASE Len(Configured) >= 2
    <3>1. Configured[2] \in Names
      <4>1. 2 \in 1 .. Len(Configured)
        BY <2>2, ConfiguredNames
      <4> QED BY <4>1, ConfiguredNames, ElementOfSeq
    <3>2. query \in Addresses
      BY <2>1, <2>2, <3>1, Resolved DEF E!Init
    <3> QED BY <2>1, <3>2 DEF AddrInv
  <2>3. CASE ~(Len(Configured) >= 2)
    BY <2>1, <2>3 DEF E!Init, AddrInv
  <2> QED BY <2>2, <2>3
<1>3. FlagInv
  BY DEF E!Init, FlagInv
<1>4. CountInv /\ WaitInv
  BY Timers DEF E!Init, CountInv, WaitInv
<1> QED BY <1>1, <1>2, <1>3, <1>4 DEF EdgeInv

\* Every step of the edge keeps its invariant.
LEMMA EdgeStep == EdgeInv /\ [E!Next]_edgeVars => EdgeInv'
<1> SUFFICES ASSUME EdgeInv, [E!Next]_edgeVars PROVE EdgeInv'
  OBVIOUS
<1>0. home \in Homes /\ report \in Homes \cup {NoAddr} /\ running \in BOOLEAN
  BY DEF EdgeInv, AddrInv, FlagInv
<1>1. CASE E!MainLoop
  <2>1. ran' = TRUE /\ UNCHANGED <<home, report, running>>
    BY <1>1 DEF E!MainLoop
  <2>2. CASE E!Phase1
    BY <2>1, <2>2, Phase1Keeps
  <2>3. ASSUME NEW rebuilds \in BOOLEAN, E!Phase2(rebuilds) PROVE EdgeInv'
    BY <2>1, <2>3, Phase2Keeps
  <2>4. CASE E!Normal
    BY <2>1, <2>4, NormalKeeps
  <2> QED BY <1>1, <2>2, <2>3, <2>4 DEF E!MainLoop
<1>2. CASE E!Tick
  BY <1>2, PassKeeps DEF E!Tick
<1>3. CASE E!Sleep
  <2>1. Cooldown + 1 \in Nat /\ E!Pass(Cooldown + 1)
    BY <1>3, Timers DEF E!Sleep
  <2> QED BY <2>1, PassKeeps
<1>4. CASE E!ReResolve
  BY <1>4, ReResolveKeeps
<1>5. ASSUME NEW s \in {addr, query}, E!Reregister(s) PROVE EdgeInv'
  BY <1>5, ReregisterKeeps
<1>6. ASSUME NEW r \in net, E!Ack(r) PROVE EdgeInv'
  BY <1>6, AckKeeps
<1>7. ASSUME NEW r \in net, E!Nak(r) PROVE EdgeInv'
  <2>1. UNCHANGED <<E!state, req, probe, net, ran, missed, home, report>> /\ running' \in BOOLEAN
    BY <1>7 DEF E!Nak
  <2> QED BY <1>0, <2>1, WorldKeeps
<1>8. ASSUME NEW a \in Homes, E!Move(a) PROVE EdgeInv'
  <2>1. UNCHANGED <<E!state, req, probe, net, ran, missed, running, report>> /\ home' \in Homes
    BY <1>8 DEF E!Move
  <2> QED BY <1>0, <2>1, WorldKeeps
<1>9. ASSUME NEW a \in Homes \cup {NoAddr}, E!Report(a) PROVE EdgeInv'
  <2>1. UNCHANGED <<E!state, req, probe, net, ran, missed, running, home>> /\ report' \in Homes \cup {NoAddr}
    BY <1>9 DEF E!Report
  <2> QED BY <1>0, <2>1, WorldKeeps
<1>10. CASE UNCHANGED edgeVars
  <2>1. UNCHANGED <<E!state, req, probe, net, ran, missed, running, home, report>>
    BY <1>10 DEF edgeVars, E!state
  <2> QED BY <1>0, <2>1, WorldKeeps
<1> QED BY <1>1, <1>2, <1>3, <1>4, <1>5, <1>6, <1>7, <1>8, <1>9, <1>10 DEF E!Next

\* A step down the list outside ask_backup and the cooldown is a failover, and
\* then no attempt is left.
LEMMA EdgeLoyal ==
    ASSUME EdgeInv, E!Next, idx' > idx, ~asks, ~E!Cooled
    PROVE  missed > Attempts
<1>0. ListInv /\ CountInv /\ WaitInv
  BY DEF EdgeInv
<1>1. idx \in Nat /\ idx >= 1
  BY <1>0, LenProperties DEF ListInv
<1>2. CASE E!MainLoop
  <2>1. CASE E!Normal
    <3>1. ASSUME UNCHANGED idx PROVE FALSE
      BY <3>1, <1>1
    <3>2. CASE E!FailOver /\ E!Phase5
      <4>1. attempts = 0 /\ wait
        BY <3>2 DEF E!FailOver, E!Phase5
      <4>2. missed + attempts >= Attempts + 1 /\ missed \in 0 .. Attempts + 1
        BY <4>1, <1>0 DEF WaitInv, CountInv
      <4> QED BY <4>1, <4>2, Timers
    <3> QED BY <2>1, <3>1, <3>2 DEF E!Normal, E!Phase4, E!Phase5, E!Retry, E!AskBackup, E!NotDue
  <2>2. ~E!Phase1 /\ \A rebuilds : ~E!Phase2(rebuilds)
    BY DEF E!Phase1, E!Phase2
  <2> QED BY <1>2, <2>1, <2>2 DEF E!MainLoop
<1>3. CASE idx' = 1
  BY <1>3, <1>1
<1>4. CASE UNCHANGED idx
  BY <1>4, <1>1
<1>5. ASSUME NEW r \in net, E!Ack(r) PROVE idx' = 1 \/ UNCHANGED idx
  BY <1>5 DEF E!Ack, E!AckProbe, E!AckFirst, E!AckAsked, E!AckPlain
<1>6. E!MainLoop \/ idx' = 1 \/ UNCHANGED idx
  BY <1>5 DEF E!Next, E!Tick, E!Sleep, E!Pass, E!ReResolve, E!Reregister, E!Nak, E!Move, E!Report, E!state
<1> QED BY <1>2, <1>3, <1>4, <1>6

-----------------------------------------------------------------------------
(* The specification that is run                                             *)

\* So does every step of the composition: the supernode's steps leave the edge alone.
LEMMA PartsStep == EdgeInv /\ [PartNext]_all => EdgeInv'
<1> SUFFICES ASSUME EdgeInv, [PartNext]_all PROVE EdgeInv'
  OBVIOUS
<1>1. [E!Next]_edgeVars
  BY DEF PartNext, Serving, Dual, Registering, all
<1> QED BY <1>1, EdgeStep

\* It holds always.
LEMMA EdgeInvAlways == PartSpec => []EdgeInv
<1>1. PartInit => EdgeInv
  BY EdgeStarts DEF PartInit
<1> QED BY <1>1, PartsStep, PTL DEF PartSpec, PartSafe

\* sn_ip_array never outgrows its N2N_EDGE_NUM_SUPERNODES entries though the ACK
\* of sn1 inserts one, sn_idx is the index of an entry, every request goes to an
\* address, and sup_attempts, unsigned, is never counted below zero
\* (update_supernode_reg, the handler of REGISTER_SUPER_ACK).
THEOREM EdgeTypesHold == PartSpec => []EdgeTypes
<1>1. EdgeInv => EdgeTypes
  <2> SUFFICES ASSUME EdgeInv PROVE E!TypeOK
    BY DEF EdgeTypes
  <2>0. ListInv /\ AddrInv /\ FlagInv /\ CountInv
    BY DEF EdgeInv
  <2>1. list \in Seq(E!Names) /\ Len(list) <= Capacity /\ idx \in DOMAIN list
    BY <2>0, LenProperties DEF ListInv, Names
  <2>2. /\ addr \in E!Addresses /\ {query, probeAddr} \subseteq E!Addresses \cup {NoAddr}
        /\ net \subseteq [to : E!Addresses, cookie : {"last", "probe"}]
        /\ home \in Homes /\ report \in Homes \cup {NoAddr}
    BY <2>0 DEF AddrInv, Addresses, Requests
  <2>3. {wait, acked, asks, failed, everOk, learnt, running, ran} \subseteq BOOLEAN
    BY <2>0 DEF FlagInv
  <2> QED BY <2>0, <2>1, <2>2, <2>3 DEF E!TypeOK, CountInv
<1> QED BY <1>1, EdgeInvAlways, PTL

\* A supernode that answers is not left: outside ask_backup and the cooldown the
\* edge moves down its list only when one more registration than its attempts
\* went unanswered in a row (sup_attempts in update_supernode_reg), whatever
\* cookies, probes, moves and late answers were in between.
THEOREM LoyalEdge == PartSpec => Loyal
<1>1. EdgeInv /\ [PartNext]_all => [idx' > idx /\ ~asks /\ ~E!Cooled => missed > Attempts]_E!vars
  <2> SUFFICES ASSUME EdgeInv, [PartNext]_all, ~(UNCHANGED E!vars),
                      idx' > idx, ~asks, ~E!Cooled
               PROVE  missed > Attempts
    OBVIOUS
  <2>1. ~(UNCHANGED edgeVars)
    BY DEF edgeVars, E!vars, E!state
  <2>2. E!Next
    BY <2>1 DEF PartNext, Serving, Dual, Registering, all
  <2> QED BY <2>2, EdgeLoyal
<1> QED BY <1>1, EdgeInvAlways, PTL DEF PartSpec, PartSafe, Loyal, E!Loyal

=============================================================================
