-------------------------- MODULE SnBrothersProofs --------------------------
(***************************************************************************)
(* Who gets past the token check of a backup supernode, for every number   *)
(* of brothers, edges and slots: proofs about SnBrothers.                  *)
(*                                                                         *)
(* VouchedProved is not inductive: that an edge without the token is let   *)
(* in says nothing of the list that let it in.  RecordsProved says that    *)
(* every entry of promoted[] stands for an edge that named a registered    *)
(* big brother, and every function that rewrites the list keeps it.        *)
(***************************************************************************)
EXTENDS SnBrothers, FiniteSetTheorems, WellFoundedInduction, TLAPS

\* A nonempty set of natural numbers has a lowest member.
LEMMA LowestIn ==
    ASSUME NEW S \in SUBSET Nat, S # {}
    PROVE  Lowest(S) \in S
<1>1. PICK x \in S : \A y \in S : ~(<<y, x>> \in OpToRel(<, Nat))
  BY NatLessThanWellFounded, WFMin, Zenon
<1>2. ASSUME NEW y \in S PROVE x <= y
  <2>1. x \in Nat /\ y \in Nat
    OBVIOUS
  <2>2. ~(y < x)
    BY <1>1, <2>1, Zenon DEF OpToRel
  <2> QED
    BY <2>1, <2>2, SMT
<1> QED
  BY <1>2 DEF Lowest

-----------------------------------------------------------------------------
(* A list whose entries are all backed by a set Q of proofs stays one. *)

Lists     == [PromSlots -> Proof \cup {Free}]
Backed(P, Q) == \A i \in PromSlots : P[i] # Free => <<P[i].mac, P[i].comm>> \in Q

\* What was seen now is a known age.
LEMMA ZeroAge == 0 \in Ages
BY BrothersAssumption DEF Ages

\* record_promoted writes an entry for the edge it is given, or renews one.
LEMMA RecordBacked ==
    ASSUME NEW P \in Lists, NEW Q, Backed(P, Q),
           NEW m \in Macs, NEW c \in Communities, <<m, c>> \in Q
    PROVE  record_promoted(P, m, c) \in Lists /\ Backed(record_promoted(P, m, c), Q)
<1> DEFINE own  == PromOf(P, m, c)
           free == {i \in PromSlots : P[i] = Free}
<1>1. CASE own # {}
  <2>1. own \in SUBSET Nat
    BY BrothersAssumption DEF PromOf, PromSlots
  <2>2. Lowest(own) \in own
    BY <1>1, <2>1, LowestIn
  <2> DEFINE k == Lowest(own)
  <2>3. k \in PromSlots /\ P[k] # Free /\ P[k] \in Proof
    BY <2>2 DEF PromOf, Lists
  <2> HIDE DEF k
  <2>4. record_promoted(P, m, c) = [P EXCEPT ![k].age = 0]
    BY <1>1 DEF record_promoted, k
  <2>5. [P[k] EXCEPT !.age = 0] \in Proof
    BY <2>3, ZeroAge DEF Proof
  <2>6. [P[k] EXCEPT !.age = 0].mac = P[k].mac /\ [P[k] EXCEPT !.age = 0].comm = P[k].comm
    BY <2>3 DEF Proof
  <2>7. [P EXCEPT ![k].age = 0] \in Lists
    BY <2>3, <2>5 DEF Lists
  <2>8. Backed([P EXCEPT ![k].age = 0], Q)
    BY <2>3, <2>6 DEF Backed, Lists
  <2> QED
    BY <2>4, <2>7, <2>8
<1>2. CASE own = {} /\ free # {}
  <2>1. free \in SUBSET Nat
    BY BrothersAssumption DEF PromSlots
  <2>2. Lowest(free) \in free
    BY <1>2, <2>1, LowestIn
  <2> DEFINE k == Lowest(free)
             r == [mac |-> m, comm |-> c, age |-> 0]
  <2>3. k \in PromSlots
    BY <2>2
  <2>4. record_promoted(P, m, c) = [P EXCEPT ![k] = r]
    BY <1>2 DEF record_promoted
  <2>5. r \in Proof /\ r.mac = m /\ r.comm = c
    BY ZeroAge DEF Proof
  <2> HIDE DEF k, r
  <2> QED
    BY <2>3, <2>4, <2>5 DEF Lists, Backed
<1>3. CASE own = {} /\ free = {}
  BY <1>3 DEF record_promoted
<1> QED
  BY <1>1, <1>2, <1>3

\* find_promoted frees entries and renews the one it finds.
LEMMA SearchBacked ==
    ASSUME NEW P \in Lists, NEW Q, Backed(P, Q), NEW m, NEW c
    PROVE  Searched(P, m, c) \in Lists /\ Backed(Searched(P, m, c), Q)
<1>1. ASSUME NEW i \in PromSlots
      PROVE  /\ Searched(P, m, c)[i] \in {P[i], Free, [P[i] EXCEPT !.age = 0]}
             /\ Searched(P, m, c)[i] = [P[i] EXCEPT !.age = 0] => P[i] # Free \/ Searched(P, m, c)[i] \in {P[i], Free}
  <2> DEFINE hit == LiveProof(P, m, c)
  <2>1. Searched(P, m, c)[i] = 
           IF i \in hit /\ i = Lowest(hit) THEN [P[i] EXCEPT !.age = 0]
           ELSE IF /\ P[i] # Free /\ P[i].age > PromotedTTL
                   /\ hit # {} => i < Lowest(hit)
             THEN Free ELSE P[i]
    BY DEF Searched
  <2>2. i \in hit => P[i] # Free
    BY DEF LiveProof, PromOf
  <2> HIDE DEF hit
  <2> QED
    BY <2>1, <2>2, Zenon
<1>2. ASSUME NEW i \in PromSlots
      PROVE  /\ Searched(P, m, c)[i] \in Proof \cup {Free}
             /\ Searched(P, m, c)[i] # Free =>
                   <<Searched(P, m, c)[i].mac, Searched(P, m, c)[i].comm>> \in Q
  <2>1. CASE Searched(P, m, c)[i] \in {P[i], Free}
    BY <2>1 DEF Lists, Backed
  <2>2. CASE Searched(P, m, c)[i] = [P[i] EXCEPT !.age = 0] /\ P[i] # Free
    <3>1. P[i] \in Proof
      BY <2>2 DEF Lists
    <3>2. /\ [P[i] EXCEPT !.age = 0] \in Proof
          /\ [P[i] EXCEPT !.age = 0].mac = P[i].mac
          /\ [P[i] EXCEPT !.age = 0].comm = P[i].comm
      BY <3>1, ZeroAge DEF Proof
    <3> QED
      BY <2>2, <3>2 DEF Backed
  <2> QED
    BY <1>1, <2>1, <2>2
<1>3. Searched(P, m, c) = [i \in PromSlots |-> Searched(P, m, c)[i]]
  BY DEF Searched
<1> QED
  BY <1>2, <1>3 DEF Lists, Backed

\* community_sn1_refresh renews entries.
LEMMA RefreshBacked ==
    ASSUME NEW P \in Lists, NEW Q, Backed(P, Q), NEW c
    PROVE  Refreshed(P, c) \in Lists /\ Backed(Refreshed(P, c), Q)
<1>1. ASSUME NEW i \in PromSlots
      PROVE  /\ Refreshed(P, c)[i] \in Proof \cup {Free}
             /\ Refreshed(P, c)[i] # Free =>
                   <<Refreshed(P, c)[i].mac, Refreshed(P, c)[i].comm>> \in Q
  <2>1. CASE i \in OfSn1(P, c)
    <3>1. P[i] # Free /\ P[i] \in Proof
      BY <2>1 DEF OfSn1, Lists
    <3>2. Refreshed(P, c)[i] = [P[i] EXCEPT !.age = 0]
      BY <2>1 DEF Refreshed
    <3>3. /\ [P[i] EXCEPT !.age = 0] \in Proof
          /\ [P[i] EXCEPT !.age = 0].mac = P[i].mac
          /\ [P[i] EXCEPT !.age = 0].comm = P[i].comm
      BY <3>1, ZeroAge DEF Proof
    <3> QED
      BY <3>1, <3>2, <3>3 DEF Backed
  <2>2. CASE i \notin OfSn1(P, c)
    <3>1. Refreshed(P, c)[i] = P[i]
      BY <2>2 DEF Refreshed
    <3> QED
      BY <3>1 DEF Lists, Backed
  <2> QED
    BY <2>1, <2>2
<1>2. Refreshed(P, c) = [i \in PromSlots |-> Refreshed(P, c)[i]]
  BY DEF Refreshed
<1> QED
  BY <1>1, <1>2 DEF Lists, Backed

\* A minute later every entry is what it was, but for its age.
LEMMA OlderAge == \A n \in Ages : Older(n) \in Ages
BY BrothersAssumption DEF Older, Ages

\* Time passes, and a list is as backed as it was.
LEMMA AgedBacked ==
    ASSUME NEW P \in Lists, NEW Q, Backed(P, Q)
    PROVE  Aged(P) \in Lists /\ Backed(Aged(P), Q)
<1>1. DOMAIN P = PromSlots
  BY DEF Lists
<1>2. ASSUME NEW i \in PromSlots
      PROVE  /\ Aged(P)[i] \in Proof \cup {Free}
             /\ Aged(P)[i] # Free => <<Aged(P)[i].mac, Aged(P)[i].comm>> \in Q
  <2>1. Aged(P)[i] = IF P[i] = Free THEN Free ELSE [P[i] EXCEPT !.age = Older(@)]
    BY <1>1 DEF Aged
  <2>2. CASE P[i] = Free
    BY <2>1, <2>2
  <2>3. CASE P[i] # Free
    <3>1. P[i] \in Proof /\ P[i].age \in Ages
      BY <2>3 DEF Lists, Proof
    <3>2. Older(P[i].age) \in Ages
      BY <3>1, OlderAge
    <3>3. Aged(P)[i] = [P[i] EXCEPT !.age = Older(P[i].age)]
      BY <2>1, <2>3
    <3>4. /\ [P[i] EXCEPT !.age = Older(P[i].age)] \in Proof
          /\ [P[i] EXCEPT !.age = Older(P[i].age)].mac = P[i].mac
          /\ [P[i] EXCEPT !.age = Older(P[i].age)].comm = P[i].comm
      BY <3>1, <3>2 DEF Proof
    <3> QED
      BY <2>3, <3>3, <3>4 DEF Backed
  <2> QED
    BY <2>2, <2>3
<1>3. Aged(P) = [i \in PromSlots |-> Aged(P)[i]]
  BY <1>1 DEF Aged
<1> QED
  BY <1>2, <1>3 DEF Lists, Backed

\* What a REGISTER_SUPER leaves of the list is backed by the proofs known after
\* it, and an edge that the list vouches for is one of them.
LEMMA NotedBacked ==
    ASSUME RecordsProved,
           NEW m \in Macs, NEW c \in Communities, NEW b \in Brothers \cup {Nobody}
    PROVE  /\ Noted(m, c, b) \in Lists
           /\ Backed(Noted(m, c, b), Proofs(m, c, b))
           /\ Proofs(m, c, b) \subseteq Macs \X Communities
           /\ Vouched(m, c, b) => <<m, c>> \in Proofs(m, c, b)
<1> DEFINE Q == Proofs(m, c, b)
           P == IF sn1_hint_ok(b) THEN record_promoted(promoted, m, c) ELSE promoted
<1>1. Q \subseteq Macs \X Communities /\ proved \subseteq Q
  BY DEF RecordsProved, TypeOK, Proofs
<1>2. promoted \in Lists /\ Backed(promoted, Q)
  BY <1>1 DEF RecordsProved, TypeOK, Lists, Backed
<1>3. sn1_hint_ok(b) => <<m, c>> \in Q
  BY DEF sn1_hint_ok, Proofs, Big
<1>4. P \in Lists /\ Backed(P, Q)
  <2>1. CASE sn1_hint_ok(b)
    BY <1>2, <1>3, <2>1, RecordBacked
  <2>2. CASE ~sn1_hint_ok(b)
    BY <1>2, <2>2
  <2> QED
    BY <2>1, <2>2
<1>5. Noted(m, c, b) = Searched(P, m, c) /\ (Vouched(m, c, b) <=> LiveProof(P, m, c) # {})
  BY DEF Noted, Vouched
<1> HIDE DEF P, Q
<1>6. Searched(P, m, c) \in Lists /\ Backed(Searched(P, m, c), Q)
  BY <1>4, SearchBacked
<1>7. LiveProof(P, m, c) # {} => <<m, c>> \in Q
  BY <1>4 DEF LiveProof, PromOf, Backed
<1> QED
  BY <1>1, <1>5, <1>6, <1>7 DEF Q

-----------------------------------------------------------------------------
(* The theorems *)

VouchedInv == RecordsProved /\ VouchedProved

\* At first nobody is listed.
LEMMA VouchedInit == Init => VouchedInv
<1> SUFFICES ASSUME Init PROVE VouchedInv
  OBVIOUS
<1>1. TypeOK
  <2>1. Hour + 1 \in Ages
    BY BrothersAssumption DEF Ages
  <2> QED
    BY <2>1 DEF Init, TypeOK, Quiet
<1> QED
  BY <1>1 DEF Init, VouchedInv, RecordsProved, VouchedProved, Quiet

\* What the four outcomes of REGISTER_SUPER have in common.
LEMMA RegisterKeeps ==
    ASSUME VouchedInv,
           NEW m \in Macs, NEW c \in Communities, NEW b \in Brothers \cup {Nobody},
           promoted' \in {Noted(m, c, b), Refreshed(Noted(m, c, b), c)},
           proved' = Proofs(m, c, b),
           DOMAIN edges' \subseteq Macs /\ edges' \in [DOMAIN edges' -> Communities],
           out'.what \in {"rejected", "refused", "admitted", "vouched", "query"},
           out'.mac = m /\ out'.comm = c,
           out'.what = "vouched" => Vouched(m, c, b),
           UNCHANGED <<brothers, lastSeen, newest>>
    PROVE  VouchedInv'
<1>1. /\ Noted(m, c, b) \in Lists
      /\ Backed(Noted(m, c, b), proved')
      /\ proved' \subseteq Macs \X Communities
      /\ Vouched(m, c, b) => <<m, c>> \in proved'
  BY NotedBacked DEF VouchedInv
<1>2. promoted' \in Lists /\ Backed(promoted', proved')
  BY <1>1, RefreshBacked
<1>3. TypeOK'
  BY <1>1, <1>2 DEF VouchedInv, RecordsProved, TypeOK, Lists, BroSlots, PromSlots
<1> QED
  BY <1>1, <1>2, <1>3 DEF VouchedInv, RecordsProved, VouchedProved, Backed

\* The edge table stays one when an edge enters or leaves it.
LEMMA EdgesTyped ==
    ASSUME TypeOK, NEW m \in Macs, NEW c \in Communities
    PROVE  /\ DOMAIN Without(m) \subseteq Macs /\ Without(m) \in [DOMAIN Without(m) -> Communities]
           /\ DOMAIN With(m, c) \subseteq Macs /\ With(m, c) \in [DOMAIN With(m, c) -> Communities]
BY DEF TypeOK, Without, With

\* brother_reg always finds a slot of the table.
LEMMA SlotInTable == \A b : BroSlot(b) \in BroSlots
<1> SUFFICES ASSUME NEW b PROVE BroSlot(b) \in BroSlots
  OBVIOUS
<1>1. BroOf(b) \in SUBSET BroSlots /\ FreeBroSlots \in SUBSET BroSlots
  BY DEF BroOf, FreeBroSlots
<1>2. BroSlots \subseteq Nat /\ 1 \in BroSlots
  BY BrothersAssumption DEF BroSlots
<1>3. BroOf(b) # {} => Lowest(BroOf(b)) \in BroSlots
  BY <1>1, <1>2, LowestIn
<1>4. FreeBroSlots # {} => Lowest(FreeBroSlots) \in BroSlots
  BY <1>1, <1>2, LowestIn
<1> QED
  BY <1>2, <1>3, <1>4 DEF BroSlot

\* Every step keeps what vouches for the brothers' records.
LEMMA VouchedNext == VouchedInv /\ [Next]_vars => VouchedInv'
<1> SUFFICES ASSUME VouchedInv, [Next]_vars PROVE VouchedInv'
  OBVIOUS
<1> USE DEF VouchedInv
<1>0. TypeOK
  BY DEF RecordsProved
<1>1. ASSUME NEW b \in Brothers, NEW a \in V4Addrs \cup V6Addrs,
             NEW own6 \in V6Addrs \cup {NoAddr}, NEW role \in {"big", "little"},
             BrotherReg(b, a, own6, role)
      PROVE  VouchedInv'
  <2> DEFINE k   == BroSlot(b)
             old == SocksAt(k)
             six == ({a} \cap V6Addrs) \cup ({own6} \ {NoAddr})
             r   == [mac  |-> b,
                     v4   |-> IF a \in V4Addrs THEN a ELSE old.v4,
                     v6   |-> IF own6 # NoAddr THEN own6
                              ELSE IF a \in V6Addrs THEN a ELSE old.v6,
                     adv6 |-> IF a \in V6Addrs THEN a ELSE NoAddr,
                     role |-> role,
                     age  |-> 0]
             n   == [v4 |-> IF a \in V4Addrs THEN a ELSE newest[b].v4,
                     v6 |-> IF six # {} THEN six ELSE newest[b].v6]
  <2>1. k \in BroSlots
    BY SlotInTable
  <2>2. old.v4 \in V4Addrs \cup {NoAddr} /\ old.v6 \in V6Addrs \cup {NoAddr}
    <3>1. brothers[k] \in Brother \cup {Free}
      BY <1>0, <2>1 DEF TypeOK
    <3> HIDE DEF k
    <3> QED
      BY <3>1 DEF SocksAt, Brother
  <2>3. r \in Brother
    <3> HIDE DEF old
    <3> QED
      BY <2>2, ZeroAge DEF Brother
  <2>4. brothers' = [brothers EXCEPT ![k] = r] /\ newest' = [newest EXCEPT ![b] = n]
    BY <1>1 DEF BrotherReg
  <2>5. n \in [v4 : V4Addrs \cup {NoAddr}, v6 : SUBSET V6Addrs]
    <3>1. newest[b] \in [v4 : V4Addrs \cup {NoAddr}, v6 : SUBSET V6Addrs]
      BY <1>0 DEF TypeOK
    <3>2. six \in SUBSET V6Addrs
      OBVIOUS
    <3> HIDE DEF six
    <3> QED
      BY <3>1, <3>2
  <2> HIDE DEF k, r, n
  <2>6. /\ brothers' \in [BroSlots -> Brother \cup {Free}]
        /\ newest' \in [Brothers -> [v4 : V4Addrs \cup {NoAddr}, v6 : SUBSET V6Addrs]]
    BY <1>0, <2>3, <2>4, <2>5 DEF TypeOK
  <2>7. lastSeen' = 0 /\ out' = Quiet /\ UNCHANGED <<promoted, edges, proved>>
    BY <1>1 DEF BrotherReg
  <2>8. TypeOK'
    BY <1>0, <2>6, <2>7, ZeroAge DEF TypeOK, Quiet, BroSlots, PromSlots
  <2> QED
    BY <2>7, <2>8 DEF RecordsProved, VouchedProved, Quiet
<1>2. ASSUME NEW m \in Macs, NEW c \in Communities, NEW b \in Brothers \cup {Nobody},
             NEW tok \in BOOLEAN, NEW fromBrother \in BOOLEAN,
             \/ Reject(m, c, b, tok, fromBrother)
             \/ Refuse(m, c, b, tok, fromBrother)
             \/ Admit(m, c, b, tok, fromBrother)
             \/ Query(m, c, b, tok, fromBrother)
      PROVE  VouchedInv'
  <2>1. CASE Reject(m, c, b, tok, fromBrother)
    <3>1. promoted' \in {Noted(m, c, b), Refreshed(Noted(m, c, b), c)}
      BY <2>1, Zenon DEF Reject
    <3>2. edges' \in {Without(m), edges}
      BY <2>1, Zenon DEF Reject
    <3>3. DOMAIN edges' \subseteq Macs /\ edges' \in [DOMAIN edges' -> Communities]
      BY <1>0, <3>2, EdgesTyped DEF TypeOK
    <3>4. out'.what = "rejected" /\ out'.mac = m /\ out'.comm = c
      BY <2>1 DEF Reject, Quiet
    <3>5. proved' = Proofs(m, c, b) /\ UNCHANGED <<brothers, lastSeen, newest>>
      BY <2>1 DEF Reject
    <3> QED
      BY <3>1, <3>3, <3>4, <3>5, RegisterKeeps
  <2>2. CASE Refuse(m, c, b, tok, fromBrother)
    <3>1. promoted' \in {Noted(m, c, b), Refreshed(Noted(m, c, b), c)}
      BY <2>2, Zenon DEF Refuse
    <3>2. DOMAIN edges' \subseteq Macs /\ edges' \in [DOMAIN edges' -> Communities]
      BY <1>0, <2>2, EdgesTyped DEF Refuse
    <3>3. out'.what = "refused" /\ out'.mac = m /\ out'.comm = c
      BY <2>2 DEF Refuse
    <3>4. proved' = Proofs(m, c, b) /\ UNCHANGED <<brothers, lastSeen, newest>>
      BY <2>2 DEF Refuse
    <3> QED
      BY <3>1, <3>2, <3>3, <3>4, RegisterKeeps
  <2>3. CASE Admit(m, c, b, tok, fromBrother)
    <3>1. promoted' = Noted(m, c, b)
      BY <2>3, Zenon DEF Admit
    <3>2. DOMAIN edges' \subseteq Macs /\ edges' \in [DOMAIN edges' -> Communities]
      BY <1>0, <2>3, EdgesTyped DEF Admit
    <3>3. /\ out'.what = IF TokenSet /\ ~tok /\ ~fromBrother THEN "vouched" ELSE "admitted"
          /\ out'.mac = m /\ out'.comm = c
      BY <2>3 DEF Admit
    <3>4. TokenSet /\ ~tok /\ ~fromBrother => Vouched(m, c, b)
      BY <2>3, Zenon DEF Admit, TokenOk
    <3>5. proved' = Proofs(m, c, b) /\ UNCHANGED <<brothers, lastSeen, newest>>
      BY <2>3 DEF Admit
    <3>6. out'.what = "vouched" => Vouched(m, c, b)
      BY <3>3, <3>4
    <3>7. out'.what \in {"admitted", "vouched"}
      BY <3>3
    <3> QED
      BY <3>1, <3>2, <3>3, <3>5, <3>6, <3>7, RegisterKeeps
  <2>4. CASE Query(m, c, b, tok, fromBrother)
    <3>1. promoted' \in {Noted(m, c, b), Refreshed(Noted(m, c, b), c)}
      BY <2>4, Zenon DEF Query
    <3>2. DOMAIN edges' \subseteq Macs /\ edges' \in [DOMAIN edges' -> Communities]
      BY <1>0, <2>4 DEF Query, TypeOK
    <3>3. out'.what = "query" /\ out'.mac = m /\ out'.comm = c
      BY <2>4 DEF Query
    <3>4. proved' = Proofs(m, c, b) /\ UNCHANGED <<brothers, lastSeen, newest>>
      BY <2>4 DEF Query
    <3> QED
      BY <3>1, <3>2, <3>3, <3>4, RegisterKeeps
  <2> QED
    BY <1>2, <2>1, <2>2, <2>3, <2>4
<1>3. ASSUME NEW m \in Macs, EdgeGone(m) PROVE VouchedInv'
  <2>1. DOMAIN edges' \subseteq Macs /\ edges' \in [DOMAIN edges' -> Communities]
    BY <1>0, <1>3 DEF EdgeGone, Without, TypeOK
  <2> QED
    BY <1>0, <1>3, <2>1
    DEF EdgeGone, TypeOK, RecordsProved, VouchedProved, Quiet, BroSlots, PromSlots
<1>4. CASE Tick
  <2>1. promoted' \in Lists /\ Backed(promoted', proved)
    <3>1. promoted \in Lists /\ Backed(promoted, proved)
      BY <1>0 DEF TypeOK, RecordsProved, Lists, Backed
    <3>2. promoted' = Aged(promoted)
      BY <1>4 DEF Tick
    <3> QED
      BY <3>1, <3>2, AgedBacked
  <2>2. brothers' \in [BroSlots -> Brother \cup {Free}]
    <3>1. DOMAIN brothers = BroSlots
      BY <1>0 DEF TypeOK
    <3>2. ASSUME NEW i \in BroSlots PROVE Aged(brothers)[i] \in Brother \cup {Free}
      <4>1. Aged(brothers)[i] =
              IF brothers[i] = Free THEN Free ELSE [brothers[i] EXCEPT !.age = Older(@)]
        BY <3>1 DEF Aged
      <4>2. CASE brothers[i] # Free
        <5>1. brothers[i] \in Brother /\ brothers[i].age \in Ages
          BY <1>0, <4>2 DEF TypeOK, Brother
        <5>2. Older(brothers[i].age) \in Ages
          BY <5>1, OlderAge
        <5>3. [brothers[i] EXCEPT !.age = Older(brothers[i].age)] \in Brother
          BY <5>1, <5>2 DEF Brother
        <5> QED
          BY <4>1, <4>2, <5>3
      <4> QED
        BY <4>1, <4>2
    <3>3. brothers' = [i \in BroSlots |->
             IF Aged(brothers)[i] # Free /\ Aged(brothers)[i].age > Hour /\ peers_idle(Aged(promoted))
             THEN Free ELSE Aged(brothers)[i]]
      BY <1>4 DEF Tick
    <3> QED
      BY <3>2, <3>3
  <2>3. lastSeen' \in Ages
    BY <1>0, <1>4, OlderAge DEF Tick, TypeOK
  <2>4. out' = Quiet /\ UNCHANGED <<edges, proved, newest>>
    BY <1>4 DEF Tick
  <2>5. TypeOK'
    BY <1>0, <2>1, <2>2, <2>3, <2>4 DEF TypeOK, Lists, Quiet, BroSlots, PromSlots
  <2> QED
    BY <2>1, <2>4, <2>5 DEF RecordsProved, VouchedProved, Backed, Quiet
<1>5. CASE UNCHANGED vars
  BY <1>5 DEF vars, RecordsProved, TypeOK, VouchedProved, BroSlots, PromSlots
<1> HIDE DEF VouchedInv
<1>6. CASE Next
  BY <1>1, <1>2, <1>3, <1>4, <1>6 DEF Next
<1> QED
  BY <1>5, <1>6

\* brothers[], promoted[] and the edge table keep their types, and every entry
\* of promoted[] stands for an edge that named a registered big brother of
\* ours, for the community it asked for then.
THEOREM RecordsAreProofs == Spec => []RecordsProved
<1>1. VouchedInv => RecordsProved
  BY DEF VouchedInv
<1> QED
  BY <1>1, VouchedInit, VouchedNext, PTL DEF Spec

\* Whatever brothers come, go and are replaced, and whatever slots the list
\* runs out of: without the token only an edge that named a registered big
\* brother gets in, and only to the community it named it for.
THEOREM OnlyProvedEdgesVouched == Spec => []VouchedProved
<1>1. VouchedInv => VouchedProved
  BY DEF VouchedInv
<1> QED
  BY <1>1, VouchedInit, VouchedNext, PTL DEF Spec
-----------------------------------------------------------------------------
(* No brother has two slots, and no edge two records *)

SlotsApart ==
    \A i, j \in BroSlots :
        brothers[i] # Free /\ brothers[j] # Free /\ brothers[i].mac = brothers[j].mac => i = j

RecordsApart(P) ==
    \A i, j \in PromSlots :
        P[i] # Free /\ P[j] # Free /\ P[i].mac = P[j].mac /\ P[i].comm = P[j].comm => i = j

\* The entries of Q are entries of P at the same places, but for their ages.
Thinned(Q, P) ==
    \A i \in PromSlots :
        Q[i] # Free => P[i] # Free /\ Q[i].mac = P[i].mac /\ Q[i].comm = P[i].comm

\* With fewer records none is doubled, either.
LEMMA ThinnedApart ==
    ASSUME NEW P, NEW Q, RecordsApart(P), Thinned(Q, P)
    PROVE  RecordsApart(Q)
BY Zenon DEF RecordsApart, Thinned

\* A renewed record is the record it was.
LEMMA SameRecord ==
    ASSUME NEW r \in Proof, NEW n
    PROVE  [r EXCEPT !.age = n].mac = r.mac /\ [r EXCEPT !.age = n].comm = r.comm
BY DEF Proof

\* The search only takes records out.
LEMMA SearchThins ==
    ASSUME NEW P \in Lists, NEW m, NEW c
    PROVE  Thinned(Searched(P, m, c), P)
<1> SUFFICES ASSUME NEW i \in PromSlots, Searched(P, m, c)[i] # Free
             PROVE  /\ P[i] # Free
                    /\ Searched(P, m, c)[i].mac = P[i].mac /\ Searched(P, m, c)[i].comm = P[i].comm
  BY DEF Thinned
<1> DEFINE hit == LiveProof(P, m, c)
<1>1. Searched(P, m, c)[i] =
         IF i \in hit /\ i = Lowest(hit) THEN [P[i] EXCEPT !.age = 0]
         ELSE IF /\ P[i] # Free /\ P[i].age > PromotedTTL
                 /\ hit # {} => i < Lowest(hit)
           THEN Free ELSE P[i]
  BY DEF Searched
<1>2. i \in hit => P[i] # Free
  BY DEF LiveProof, PromOf
<1> HIDE DEF hit
<1>3. P[i] # Free /\ Searched(P, m, c)[i] \in {P[i], [P[i] EXCEPT !.age = 0]}
  BY <1>1, <1>2, Zenon
<1>4. P[i] \in Proof
  BY <1>3 DEF Lists
<1>5. [P[i] EXCEPT !.age = 0].mac = P[i].mac /\ [P[i] EXCEPT !.age = 0].comm = P[i].comm
  BY <1>4, SameRecord
<1> QED
  BY <1>3, <1>5, Zenon

\* The refresh only takes records out.
LEMMA RefreshThins ==
    ASSUME NEW P \in Lists, NEW c
    PROVE  Thinned(Refreshed(P, c), P)
<1> SUFFICES ASSUME NEW i \in PromSlots, Refreshed(P, c)[i] # Free
             PROVE  /\ P[i] # Free
                    /\ Refreshed(P, c)[i].mac = P[i].mac /\ Refreshed(P, c)[i].comm = P[i].comm
  BY DEF Thinned
<1>1. Refreshed(P, c)[i] = IF i \in OfSn1(P, c) THEN [P[i] EXCEPT !.age = 0] ELSE P[i]
  BY DEF Refreshed
<1>2. i \in OfSn1(P, c) => P[i] # Free
  BY DEF OfSn1
<1>3. P[i] # Free /\ P[i] \in Proof
  BY <1>1, <1>2 DEF Lists
<1> QED
  BY <1>1, <1>3, SameRecord

\* So does time.
LEMMA AgedThins ==
    ASSUME NEW P \in Lists
    PROVE  Thinned(Aged(P), P)
<1> SUFFICES ASSUME NEW i \in PromSlots, Aged(P)[i] # Free
             PROVE  /\ P[i] # Free
                    /\ Aged(P)[i].mac = P[i].mac /\ Aged(P)[i].comm = P[i].comm
  BY DEF Thinned
<1>1. Aged(P)[i] = IF P[i] = Free THEN Free ELSE [P[i] EXCEPT !.age = Older(@)]
  BY DEF Aged, Lists
<1>2. P[i] # Free /\ P[i] \in Proof
  BY <1>1 DEF Lists
<1> QED
  BY <1>1, <1>2, SameRecord

\* record_promoted makes a record only where the edge has none.
LEMMA RecordApart ==
    ASSUME NEW P \in Lists, RecordsApart(P), NEW m \in Macs, NEW c \in Communities
    PROVE  RecordsApart(record_promoted(P, m, c))
<1> DEFINE own  == PromOf(P, m, c)
           free == {i \in PromSlots : P[i] = Free}
<1>0. PromSlots \in SUBSET Nat
  BY BrothersAssumption DEF PromSlots
<1>1. CASE own # {}
  <2> DEFINE k == Lowest(own)
  <2>1. k \in own
    BY <1>0, <1>1, LowestIn DEF PromOf
  <2>2. k \in PromSlots /\ P[k] # Free /\ P[k] \in Proof
    BY <2>1 DEF PromOf, Lists
  <2>3. record_promoted(P, m, c) = [P EXCEPT ![k].age = 0]
    BY <1>1 DEF record_promoted
  <2> HIDE DEF k
  <2>4. Thinned([P EXCEPT ![k].age = 0], P)
    BY <2>2, SameRecord DEF Thinned, Lists
  <2> QED
    BY <2>3, <2>4, ThinnedApart
<1>2. CASE own = {} /\ free # {}
  <2> DEFINE k == Lowest(free)
             r == [mac |-> m, comm |-> c, age |-> 0]
  <2>1. k \in free
    BY <1>0, <1>2, LowestIn
  <2>2. record_promoted(P, m, c) = [P EXCEPT ![k] = r]
    BY <1>2 DEF record_promoted
  <2>3. r.mac = m /\ r.comm = c
    OBVIOUS
  <2>4. \A i \in PromSlots : P[i] # Free => ~(P[i].mac = m /\ P[i].comm = c)
    BY <1>2 DEF PromOf
  <2> HIDE DEF k, r
  <2> QED
    BY <2>1, <2>2, <2>3, <2>4 DEF RecordsApart, Lists
<1>3. CASE own = {} /\ free = {}
  BY <1>3 DEF record_promoted
<1> QED
  BY <1>1, <1>2, <1>3

\* Whatever a REGISTER_SUPER does to the list, an edge's record stays its only one.
LEMMA NotedApart ==
    ASSUME RecordsProved, RecordsApart(promoted),
           NEW m \in Macs, NEW c \in Communities, NEW b \in Brothers \cup {Nobody}
    PROVE  /\ RecordsApart(Noted(m, c, b))
           /\ RecordsApart(Refreshed(Noted(m, c, b), c))
<1> DEFINE P == IF sn1_hint_ok(b) THEN record_promoted(promoted, m, c) ELSE promoted
<1>1. promoted \in Lists
  BY DEF RecordsProved, TypeOK, Lists
<1>2. Backed(promoted, Macs \X Communities)
  BY <1>1 DEF Lists, Backed, Proof
<1>3. P \in Lists
  BY <1>1, <1>2, RecordBacked
<1>4. RecordsApart(P)
  BY <1>1, RecordApart
<1>5. Noted(m, c, b) = Searched(P, m, c)
  BY DEF Noted
<1> HIDE DEF P
<1>6. RecordsApart(Noted(m, c, b))
  BY <1>3, <1>4, <1>5, SearchThins, ThinnedApart
<1>7. Noted(m, c, b) \in Lists
  BY NotedBacked
<1> QED
  BY <1>6, <1>7, RefreshThins, ThinnedApart

\* What the four outcomes of REGISTER_SUPER leave of the list, and leave alone.
LEMMA RegisterLists ==
    ASSUME NEW m \in Macs, NEW c \in Communities, NEW b \in Brothers \cup {Nobody},
           NEW tok \in BOOLEAN, NEW fromBrother \in BOOLEAN,
           \/ Reject(m, c, b, tok, fromBrother)
           \/ Refuse(m, c, b, tok, fromBrother)
           \/ Admit(m, c, b, tok, fromBrother)
           \/ Query(m, c, b, tok, fromBrother)
    PROVE  /\ promoted' \in {Noted(m, c, b), Refreshed(Noted(m, c, b), c)}
           /\ UNCHANGED <<brothers, newest>>
           /\ out'.answer # Free => out'.sn1 = b /\ out'.answer = Answer(b)
<1>1. CASE Reject(m, c, b, tok, fromBrother)
  <2>1. promoted' \in {Noted(m, c, b), Refreshed(Noted(m, c, b), c)}
    BY <1>1, Zenon DEF Reject
  <2> QED
    BY <1>1, <2>1 DEF Reject, Quiet
<1>2. CASE Refuse(m, c, b, tok, fromBrother)
  <2>1. promoted' \in {Noted(m, c, b), Refreshed(Noted(m, c, b), c)}
    BY <1>2, Zenon DEF Refuse
  <2> QED
    BY <1>2, <2>1 DEF Refuse
<1>3. CASE Admit(m, c, b, tok, fromBrother)
  <2>1. promoted' = Noted(m, c, b)
    BY <1>3, Zenon DEF Admit
  <2> QED
    BY <1>3, <2>1 DEF Admit
<1>4. CASE Query(m, c, b, tok, fromBrother)
  <2>1. promoted' \in {Noted(m, c, b), Refreshed(Noted(m, c, b), c)}
    BY <1>4, Zenon DEF Query
  <2> QED
    BY <1>4, <2>1 DEF Query
<1> QED
  BY <1>1, <1>2, <1>3, <1>4

\* An older table of brothers holds what it held, or less.
LEMMA TickThins ==
    ASSUME TypeOK, Tick
    PROVE  \A i \in BroSlots : brothers'[i] # Free =>
              /\ brothers[i] # Free
              /\ brothers'[i].mac = brothers[i].mac /\ brothers'[i].v4 = brothers[i].v4
              /\ brothers'[i].v6 = brothers[i].v6 /\ brothers'[i].adv6 = brothers[i].adv6
<1> SUFFICES ASSUME NEW i \in BroSlots, brothers'[i] # Free
             PROVE  /\ brothers[i] # Free
                    /\ brothers'[i].mac = brothers[i].mac /\ brothers'[i].v4 = brothers[i].v4
                    /\ brothers'[i].v6 = brothers[i].v6 /\ brothers'[i].adv6 = brothers[i].adv6
  OBVIOUS
<1>1. brothers' = [j \in BroSlots |->
         IF Aged(brothers)[j] # Free /\ Aged(brothers)[j].age > Hour /\ peers_idle(Aged(promoted))
         THEN Free ELSE Aged(brothers)[j]]
  BY DEF Tick
<1>2. brothers'[i] = Aged(brothers)[i] /\ Aged(brothers)[i] # Free
  BY <1>1
<1>3. Aged(brothers)[i] = IF brothers[i] = Free THEN Free ELSE [brothers[i] EXCEPT !.age = Older(@)]
  BY DEF Aged, TypeOK
<1>4. brothers[i] # Free /\ brothers[i] \in Brother
  BY <1>2, <1>3 DEF TypeOK
<1> QED
  BY <1>2, <1>3, <1>4 DEF Brother

\* brother_reg writes the brother's own slot, if it has one.
LEMMA RegSlotsApart ==
    ASSUME TypeOK, SlotsApart, NEW b \in Brothers, NEW r, r.mac = b,
           brothers' = [brothers EXCEPT ![BroSlot(b)] = r]
    PROVE  SlotsApart'
<1> DEFINE k == BroSlot(b)
<1>1. \A i \in BroSlots \ {k} : brothers[i] # Free => brothers[i].mac # b
  <2>1. CASE BroOf(b) = {}
    BY <2>1 DEF BroOf
  <2>2. CASE BroOf(b) # {}
    <3>1. BroOf(b) \in SUBSET Nat
      BY BrothersAssumption DEF BroOf, BroSlots
    <3>2. k \in BroOf(b)
      BY <2>2, <3>1, LowestIn DEF BroSlot
    <3> HIDE DEF k
    <3> QED
      BY <3>2 DEF BroOf, SlotsApart
  <2> QED
    BY <2>1, <2>2
<1>2. brothers' = [brothers EXCEPT ![k] = r]
  OBVIOUS
<1>3. DOMAIN brothers = BroSlots
  BY DEF TypeOK
<1> HIDE DEF k
<1> QED
  BY <1>1, <1>2, <1>3 DEF SlotsApart, BroSlots

ApartInv == SlotsApart /\ RecordsApart(promoted)

\* At first no record is doubled.
LEMMA ApartInit == Init => ApartInv
BY DEF Init, ApartInv, SlotsApart, RecordsApart

\* Every step keeps brothers and promoted edges from being recorded twice.
LEMMA ApartNext == RecordsProved /\ ApartInv /\ [Next]_vars => ApartInv'
<1> SUFFICES ASSUME RecordsProved, ApartInv, [Next]_vars PROVE ApartInv'
  OBVIOUS
<1> USE DEF ApartInv
<1>0. TypeOK
  BY DEF RecordsProved
<1>1. ASSUME NEW b \in Brothers, NEW a \in V4Addrs \cup V6Addrs,
             NEW own6 \in V6Addrs \cup {NoAddr}, NEW role \in {"big", "little"},
             BrotherReg(b, a, own6, role)
      PROVE  ApartInv'
  <2> DEFINE old == SocksAt(BroSlot(b))
             r   == [mac  |-> b,
                     v4   |-> IF a \in V4Addrs THEN a ELSE old.v4,
                     v6   |-> IF own6 # NoAddr THEN own6
                              ELSE IF a \in V6Addrs THEN a ELSE old.v6,
                     adv6 |-> IF a \in V6Addrs THEN a ELSE NoAddr,
                     role |-> role,
                     age  |-> 0]
  <2>1. r.mac = b /\ brothers' = [brothers EXCEPT ![BroSlot(b)] = r]
    BY <1>1 DEF BrotherReg
  <2> HIDE DEF r
  <2>2. SlotsApart'
    BY <1>0, <2>1, RegSlotsApart
  <2>3. promoted' = promoted
    BY <1>1 DEF BrotherReg
  <2> QED
    BY <2>2, <2>3 DEF RecordsApart, PromSlots
<1>2. ASSUME NEW m \in Macs, NEW c \in Communities, NEW b \in Brothers \cup {Nobody},
             NEW tok \in BOOLEAN, NEW fromBrother \in BOOLEAN,
             \/ Reject(m, c, b, tok, fromBrother)
             \/ Refuse(m, c, b, tok, fromBrother)
             \/ Admit(m, c, b, tok, fromBrother)
             \/ Query(m, c, b, tok, fromBrother)
      PROVE  ApartInv'
  <2>1. /\ promoted' \in {Noted(m, c, b), Refreshed(Noted(m, c, b), c)}
        /\ brothers' = brothers
    BY <1>2, RegisterLists
  <2>2. RecordsApart(promoted')
    BY <2>1, NotedApart
  <2> QED
    BY <2>1, <2>2 DEF SlotsApart, BroSlots
<1>3. ASSUME NEW m \in Macs, EdgeGone(m) PROVE ApartInv'
  BY <1>3 DEF EdgeGone, SlotsApart, RecordsApart, BroSlots, PromSlots
<1>4. CASE Tick
  <2>1. SlotsApart'
    BY <1>0, <1>4, TickThins DEF SlotsApart, BroSlots
  <2>2. promoted \in Lists /\ promoted' = Aged(promoted)
    BY <1>0, <1>4 DEF Tick, TypeOK, Lists
  <2>3. RecordsApart(promoted')
    BY <2>2, AgedThins, ThinnedApart
  <2> QED
    BY <2>1, <2>3
<1>5. CASE UNCHANGED vars
  BY <1>5 DEF vars, SlotsApart, RecordsApart, BroSlots, PromSlots
<1> HIDE DEF ApartInv
<1>6. CASE Next
  BY <1>1, <1>2, <1>3, <1>4, <1>6 DEF Next
<1> QED
  BY <1>5, <1>6

\* A set without two different members has at most one.
LEMMA AtMostOne ==
    ASSUME NEW S, \A x, y \in S : x = y
    PROVE  Cardinality(S) <= 1
<1>1. CASE S = {}
  BY <1>1, FS_EmptySet
<1>2. ASSUME NEW x \in S PROVE Cardinality(S) = 1
  <2>1. S = {x}
    OBVIOUS
  <2> QED
    BY <2>1, FS_Singleton
<1> QED
  BY <1>1, <1>2

\* Records apart are one slot for each brother.
LEMMA ApartSuffices == ApartInv => OneSlotEach
<1> SUFFICES ASSUME ApartInv PROVE OneSlotEach
  OBVIOUS
<1>1. ASSUME NEW b \in Brothers PROVE Cardinality(BroOf(b)) <= 1
  <2>1. \A i, j \in BroOf(b) : i = j
    BY DEF BroOf, ApartInv, SlotsApart
  <2> QED
    BY <2>1, AtMostOne
<1>2. ASSUME NEW m \in Macs, NEW c \in Communities PROVE Cardinality(PromOf(promoted, m, c)) <= 1
  <2>1. \A i, j \in PromOf(promoted, m, c) : i = j
    BY DEF PromOf, ApartInv, RecordsApart
  <2> QED
    BY <2>1, AtMostOne
<1> QED
  BY <1>1, <1>2 DEF OneSlotEach

\* However slots are freed, filled and displaced, a supernode never has two of
\* them, nor an edge two records of the same community.
THEOREM OneSlotAlways == Spec => []OneSlotEach
BY ApartInit, ApartNext, ApartSuffices, RecordsAreProofs, PTL DEF Spec
-----------------------------------------------------------------------------
(* What ask_backup answers is current *)

\* There is a slot for every brother.  With more brothers than slots the claim
\* is false: a brother that displaces another keeps that one's addresses.
NoneDisplaced == IsFiniteSet(Brothers) /\ Cardinality(Brothers) <= Slots

CurrentAt(r, n) ==
    /\ r.v4 \in {NoAddr, n.v4}
    /\ r.v6 \in {NoAddr} \cup n.v6 /\ r.adv6 \in {NoAddr} \cup n.v6

\* The inductive invariant: what a slot holds is what its brother said last.
SlotsCurrent == \A i \in BroSlots : brothers[i] # Free => CurrentAt(brothers[i], newest[brothers[i].mac])

\* A table whose slots all belong to other brothers would be too large.
LEMMA RoomForAll ==
    ASSUME TypeOK, SlotsApart, NoneDisplaced, NEW b \in Brothers, BroOf(b) = {}
    PROVE  FreeBroSlots # {}
<1> SUFFICES ASSUME FreeBroSlots = {} PROVE FALSE
  OBVIOUS
<1> DEFINE f == [i \in BroSlots |-> brothers[i].mac]
           T == Brothers \ {b}
<1>1. \A i \in BroSlots : brothers[i] # Free /\ brothers[i] \in Brother /\ brothers[i].mac # b
  BY DEF FreeBroSlots, BroOf, TypeOK
<1>2. f \in Injection(BroSlots, T)
  <2>1. \A i \in BroSlots : brothers[i].mac \in T
    BY <1>1 DEF Brother
  <2>2. \A i, j \in BroSlots : brothers[i].mac = brothers[j].mac => i = j
    BY <1>1 DEF SlotsApart
  <2> QED
    BY <2>1, <2>2 DEF Injection, IsInjective
<1>3. IsFiniteSet(T) /\ Cardinality(T) = Cardinality(Brothers) - 1
  BY FS_RemoveElement DEF NoneDisplaced
<1>4. Cardinality(BroSlots) <= Cardinality(T)
  <2> HIDE DEF f, T
  <2> QED
    BY <1>2, <1>3, FS_Injection
<1>5. Cardinality(BroSlots) = Slots /\ Slots \in Nat
  BY FS_Interval, BrothersAssumption DEF BroSlots
<1>6. Cardinality(Brothers) \in Nat
  BY FS_CardinalityType DEF NoneDisplaced
<1> QED
  BY <1>3, <1>4, <1>5, <1>6 DEF NoneDisplaced

\* brother_reg writes the brother's own slot or an empty one.
LEMMA OwnOrEmpty ==
    ASSUME TypeOK, SlotsApart, NoneDisplaced, NEW b \in Brothers
    PROVE  /\ BroSlot(b) \in BroSlots
           /\ brothers[BroSlot(b)] # Free => brothers[BroSlot(b)].mac = b
<1>1. BroOf(b) \in SUBSET Nat /\ FreeBroSlots \in SUBSET Nat
  BY BrothersAssumption DEF BroOf, FreeBroSlots, BroSlots
<1>2. CASE BroOf(b) # {}
  <2>1. BroSlot(b) \in BroOf(b)
    BY <1>1, <1>2, LowestIn DEF BroSlot
  <2> QED
    BY <2>1 DEF BroOf
<1>3. CASE BroOf(b) = {}
  <2>1. BroSlot(b) \in FreeBroSlots
    BY <1>1, <1>3, RoomForAll, LowestIn DEF BroSlot
  <2> QED
    BY <2>1 DEF FreeBroSlots
<1> QED
  BY <1>2, <1>3

\* A brother's registration: while none is displaced, its slot is its own.
LEMMA RegSlotsCurrent ==
    ASSUME TypeOK, SlotsApart, SlotsCurrent, NoneDisplaced,
           NEW b \in Brothers, NEW a \in V4Addrs \cup V6Addrs,
           NEW own6 \in V6Addrs \cup {NoAddr}, NEW role, BrotherReg(b, a, own6, role)
    PROVE  SlotsCurrent'
<1> DEFINE k   == BroSlot(b)
           old == SocksAt(k)
           six == ({a} \cap V6Addrs) \cup ({own6} \ {NoAddr})
           r   == [mac  |-> b,
                   v4   |-> IF a \in V4Addrs THEN a ELSE old.v4,
                   v6   |-> IF own6 # NoAddr THEN own6
                            ELSE IF a \in V6Addrs THEN a ELSE old.v6,
                   adv6 |-> IF a \in V6Addrs THEN a ELSE NoAddr,
                   role |-> role,
                   age  |-> 0]
           n   == [v4 |-> IF a \in V4Addrs THEN a ELSE newest[b].v4,
                   v6 |-> IF six # {} THEN six ELSE newest[b].v6]
<1>1. brothers' = [brothers EXCEPT ![k] = r] /\ newest' = [newest EXCEPT ![b] = n]
  BY DEF BrotherReg
<1>2. k \in BroSlots /\ (brothers[k] # Free => brothers[k].mac = b)
  BY OwnOrEmpty
<1> HIDE DEF k
<1>3. old.v4 \in {NoAddr, newest[b].v4} /\ old.v6 \in {NoAddr} \cup newest[b].v6
  BY <1>2 DEF SocksAt, SlotsCurrent, CurrentAt
<1>4. r.mac = b
  OBVIOUS
<1>5. CurrentAt(r, n)
  <2>1. r.v4 \in {NoAddr, n.v4}
    BY <1>3
  <2>2. r.adv6 \in {NoAddr} \cup n.v6
    OBVIOUS
  <2>3. r.v6 \in {NoAddr} \cup n.v6
    <3>1. CASE own6 # NoAddr
      <4>1. own6 \in six
        BY <3>1
      <4> QED
        BY <3>1, <4>1
    <3>2. CASE own6 = NoAddr /\ a \in V6Addrs
      <4>1. a \in six
        BY <3>2
      <4> QED
        BY <3>2, <4>1
    <3>3. CASE own6 = NoAddr /\ a \notin V6Addrs
      <4>1. six = {}
        BY <3>3
      <4> QED
        BY <1>3, <3>3, <4>1
    <3> QED
      BY <3>1, <3>2, <3>3
  <2> QED
    BY <2>1, <2>2, <2>3 DEF CurrentAt
<1>6. \A i \in BroSlots \ {k} : brothers[i] # Free => brothers[i].mac # b
  <2>1. CASE brothers[k] # Free
    BY <1>2, <2>1 DEF SlotsApart
  <2>2. CASE brothers[k] = Free
    <3>1. BroOf(b) = {}
      <4> SUFFICES ASSUME BroOf(b) # {} PROVE FALSE
        OBVIOUS
      <4>1. BroOf(b) \in SUBSET Nat
        BY BrothersAssumption DEF BroOf, BroSlots
      <4>2. k \in BroOf(b)
        BY <4>1, LowestIn DEF BroSlot, k
      <4> QED
        BY <2>2, <4>2 DEF BroOf
    <3> QED
      BY <3>1 DEF BroOf
  <2> QED
    BY <2>1, <2>2
<1> HIDE DEF r, n
<1>7. DOMAIN brothers = BroSlots /\ DOMAIN newest = Brothers
  BY DEF TypeOK
<1>8. \A i \in BroSlots : brothers'[i] # Free => CurrentAt(brothers'[i], newest'[brothers'[i].mac])
  <2> SUFFICES ASSUME NEW i \in BroSlots, brothers'[i] # Free
               PROVE  CurrentAt(brothers'[i], newest'[brothers'[i].mac])
    OBVIOUS
  <2>1. CASE i = k
    BY <1>1, <1>2, <1>4, <1>5, <1>7, <2>1
  <2>2. CASE i # k
    <3>1. brothers'[i] = brothers[i]
      BY <1>1, <1>7, <2>2
    <3>2. newest'[brothers[i].mac] = newest[brothers[i].mac]
      BY <1>1, <1>6, <1>7, <2>2, <3>1
    <3> QED
      BY <3>1, <3>2 DEF SlotsCurrent
  <2> QED
    BY <2>1, <2>2
<1> QED
  BY <1>8 DEF SlotsCurrent, CurrentAt, BroSlots

\* An answer is read off a slot of the brother that is asked for.
LEMMA AnswerIsCurrent ==
    ASSUME SlotsCurrent, NEW b, Answer(b) # Free
    PROVE  /\ Answer(b).mac = b
           /\ Answer(b).v4 \in {NoAddr, newest[b].v4}
           /\ Answer(b).v6 \in {NoAddr} \cup newest[b].v6
<1> DEFINE i == Lowest(BroOf(b))
<1>1. BroOf(b) # {} /\ Answer(b) = Told(brothers[i])
  BY DEF Answer
<1>2. BroOf(b) \in SUBSET Nat
  BY BrothersAssumption DEF BroOf, BroSlots
<1>3. i \in BroOf(b)
  BY <1>1, <1>2, LowestIn
<1> HIDE DEF i
<1>4. i \in BroSlots /\ brothers[i] # Free /\ brothers[i].mac = b
  BY <1>3 DEF BroOf
<1>5. CurrentAt(brothers[i], newest[b])
  BY <1>4 DEF SlotsCurrent
<1> QED
  BY <1>1, <1>4, <1>5 DEF Told, CurrentAt

CurrentInv == SlotsCurrent /\ AnswerCurrent

\* At first there is no slot.
LEMMA CurrentInit == Init => CurrentInv
BY DEF Init, CurrentInv, SlotsCurrent, AnswerCurrent, Quiet

\* Every step keeps the slots current, while none is displaced.
LEMMA CurrentNext ==
    NoneDisplaced /\ RecordsProved /\ ApartInv /\ CurrentInv /\ [Next]_vars => CurrentInv'
<1> SUFFICES ASSUME NoneDisplaced, RecordsProved, ApartInv, CurrentInv, [Next]_vars
             PROVE  CurrentInv'
  OBVIOUS
<1> USE DEF CurrentInv
<1>0. TypeOK /\ SlotsApart
  BY DEF RecordsProved, ApartInv
<1>1. ASSUME NEW b \in Brothers, NEW a \in V4Addrs \cup V6Addrs,
             NEW own6 \in V6Addrs \cup {NoAddr}, NEW role \in {"big", "little"},
             BrotherReg(b, a, own6, role)
      PROVE  CurrentInv'
  <2>1. SlotsCurrent'
    BY <1>0, <1>1, RegSlotsCurrent
  <2>2. out' = Quiet
    BY <1>1 DEF BrotherReg
  <2> QED
    BY <2>1, <2>2 DEF AnswerCurrent, Quiet
<1>2. ASSUME NEW m \in Macs, NEW c \in Communities, NEW b \in Brothers \cup {Nobody},
             NEW tok \in BOOLEAN, NEW fromBrother \in BOOLEAN,
             \/ Reject(m, c, b, tok, fromBrother)
             \/ Refuse(m, c, b, tok, fromBrother)
             \/ Admit(m, c, b, tok, fromBrother)
             \/ Query(m, c, b, tok, fromBrother)
      PROVE  CurrentInv'
  <2>1. /\ brothers' = brothers /\ newest' = newest
        /\ out'.answer # Free => out'.sn1 = b /\ out'.answer = Answer(b)
    BY <1>2, RegisterLists
  <2>2. SlotsCurrent'
    BY <2>1 DEF SlotsCurrent, CurrentAt, BroSlots
  <2>3. AnswerCurrent'
    BY <2>1, AnswerIsCurrent DEF AnswerCurrent
  <2> QED
    BY <2>2, <2>3
<1>3. ASSUME NEW m \in Macs, EdgeGone(m) PROVE CurrentInv'
  BY <1>3 DEF EdgeGone, SlotsCurrent, CurrentAt, AnswerCurrent, Quiet, BroSlots
<1>4. CASE Tick
  <2>1. newest' = newest /\ out' = Quiet
    BY <1>4 DEF Tick
  <2>2. \A i \in BroSlots : brothers'[i] # Free => CurrentAt(brothers'[i], newest[brothers'[i].mac])
    BY <1>0, <1>4, TickThins DEF SlotsCurrent, CurrentAt
  <2>3. SlotsCurrent'
    BY <2>1, <2>2 DEF SlotsCurrent, CurrentAt, BroSlots
  <2> QED
    BY <2>1, <2>3 DEF AnswerCurrent, Quiet
<1>5. CASE UNCHANGED vars
  BY <1>5 DEF vars, SlotsCurrent, CurrentAt, AnswerCurrent, BroSlots
<1> HIDE DEF CurrentInv
<1>6. CASE Next
  BY <1>1, <1>2, <1>3, <1>4, <1>6 DEF Next
<1> QED
  BY <1>5, <1>6

\* While the table has a slot for every brother, its slots are apart and an
\* edge that asks for its supernode is told the addresses that one last
\* registered with, through whichever family, restart and expiry.
THEOREM TablesAreSound == NoneDisplaced => (Spec => []TablesSound)
<1> SUFFICES ASSUME NoneDisplaced PROVE Spec => []TablesSound
  OBVIOUS
<1>1. RecordsProved /\ ApartInv /\ CurrentInv /\ [Next]_vars => CurrentInv'
  BY CurrentNext
<1>2. ApartInv /\ CurrentInv => TablesSound
  BY ApartSuffices DEF TablesSound, CurrentInv
<1> QED
  BY <1>1, <1>2, ApartInit, ApartNext, CurrentInit, RecordsAreProofs, PTL DEF Spec
=============================================================================
