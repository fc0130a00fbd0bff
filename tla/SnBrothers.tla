----------------------------- MODULE SnBrothers -----------------------------
(***************************************************************************)
(* A backup supernode (sn2) and the supernodes it backs up (src/src/sn.c): *)
(* the table of brothers that register with it, the list of edges that     *)
(* proved they belong to one of them, and what REGISTER_SUPER does with an *)
(* edge while its own supernode (sn1) is, or is not, alive.                *)
(*                                                                         *)
(* Time is counted in minutes; ages replace time stamps.  The IPv4 and the *)
(* IPv6 registration of a brother share one age, the newer one: every test *)
(* in the code is on the newer of the two.  adv_sock is left out: whenever *)
(* it is set it equals sock.                                               *)
(***************************************************************************)
EXTENDS Integers, FiniteSets

CONSTANTS
    Brothers,       \* MACs of the other supernodes
    V4Addrs, V6Addrs, \* addresses they register from
    NoAddr,         \* family 0
    Macs,           \* MACs of edges
    Communities,
    Slots,          \* MAX_BROTHER_SNS
    Promotions,     \* PROMOTED_LIST_MAX
    Alive,          \* 180 s: a brother's silence that still counts as alive
    PromotedTTL,    \* 180 s
    Hour,           \* 3600 s
    TokenSet,       \* peer_token_set: -E is configured
    Nobody, Free    \* no brother named; an empty slot

ASSUME BrothersAssumption ==
    /\ Slots \in Nat \ {0} /\ Promotions \in Nat \ {0}
    /\ Alive \in Nat /\ PromotedTTL \in Nat /\ Hour \in Nat
    /\ Alive <= Hour /\ PromotedTTL <= Hour
    /\ TokenSet \in BOOLEAN
    /\ Nobody \notin Brothers /\ NoAddr \notin V4Addrs \cup V6Addrs

VARIABLES
    brothers,   \* brothers[]: MAC, sock, sock6, adv_sock6, role and age, or Free
    lastSeen,   \* now - last_brother_seen, Hour + 1 when there was none
    promoted,   \* promoted[]: edge, community and age, or Free
    edges,      \* the registered edges and their communities
    out,        \* the last REGISTER_SUPER: who, and what became of it
    proved,     \* history: edges that named a registered big brother, and their community
    newest      \* history: the IPv4 address each brother last registered from, and the
                \* IPv6 addresses its last registration with IPv6 gave (NoAddr, {}: none)

vars == <<brothers, lastSeen, promoted, edges, out, proved, newest>>

BroSlots  == 1 .. Slots
PromSlots == 1 .. Promotions
Ages      == 0 .. Hour + 1

Lowest(S) == CHOOSE i \in S : \A j \in S : i <= j

-----------------------------------------------------------------------------
(* Brothers *)

BroOf(b)     == {i \in BroSlots : brothers[i] # Free /\ brothers[i].mac = b}
Big(i)       == brothers[i] # Free /\ brothers[i].role = "big"
FreeBroSlots == {i \in BroSlots : brothers[i] = Free}

\* brother_online_sock: some big brother is alive.
sn1_online == \E i \in BroSlots : Big(i) /\ brothers[i].age <= Alive

\* brother_alive in the token check, and the gate of the ask_backup lookup.
brother_alive == lastSeen <= Alive

\* The brother's own slot, the first empty one, or else the first: (time_t)~0
\* is -1, so no slot is ever found to be older.
BroSlot(b) ==
    IF BroOf(b) # {} THEN Lowest(BroOf(b))
    ELSE IF FreeBroSlots # {} THEN Lowest(FreeBroSlots)
    ELSE 1

Quiet == [what |-> "none", mac |-> Nobody, comm |-> Nobody, sn1 |-> Nobody, answer |-> Free]

\* A slot that changes hands is not cleared.
SocksAt(i) == IF brothers[i] = Free THEN [v4 |-> NoAddr, v6 |-> NoAddr]
              ELSE [v4 |-> brothers[i].v4, v6 |-> brothers[i].v6]

\* brother_reg from address a, with the sender's own IPv6 address if it has one.
\* The role is "little" only for an answer from our own -b target.
BrotherReg(b, a, own6, role) ==
    LET old == SocksAt(BroSlot(b))
        six == ({a} \cap V6Addrs) \cup ({own6} \ {NoAddr})
    IN  /\ brothers' = [brothers EXCEPT ![BroSlot(b)] =
                          [mac  |-> b,
                           v4   |-> IF a \in V4Addrs THEN a ELSE old.v4,
                           v6   |-> IF own6 # NoAddr THEN own6
                                    ELSE IF a \in V6Addrs THEN a ELSE old.v6,
                           adv6 |-> IF a \in V6Addrs THEN a ELSE NoAddr,
                           role |-> role,
                           age  |-> 0]]
        /\ newest' = [newest EXCEPT ![b] =
                        [v4 |-> IF a \in V4Addrs THEN a ELSE @.v4,
                         v6 |-> IF six # {} THEN six ELSE @.v6]]
    /\ lastSeen' = 0
    /\ out' = Quiet
    /\ UNCHANGED <<promoted, edges, proved>>

-----------------------------------------------------------------------------
(* Promoted edges *)

PromOf(P, m, c) == {i \in PromSlots : P[i] # Free /\ P[i].mac = m /\ P[i].comm = c}

\* record_promoted: refresh the edge's entry or take the first free slot.  A
\* full list is left alone: as above, no entry counts as the oldest.
record_promoted(P, m, c) ==
    LET own  == PromOf(P, m, c)
        free == {i \in PromSlots : P[i] = Free}
    IN  IF own # {} THEN [P EXCEPT ![Lowest(own)].age = 0]
        ELSE IF free # {} THEN [P EXCEPT ![Lowest(free)] = [mac |-> m, comm |-> c, age |-> 0]]
        ELSE P

\* Mutant: any entry of the edge will do, whatever its community.
LiveProofAnyComm(P, m, c) ==
    {i \in PromSlots : P[i] # Free /\ P[i].mac = m /\ P[i].age <= PromotedTTL}

\* find_promoted: the entries that are found, and the list after the search,
\* which frees the expired entries before the one it finds and refreshes that.
LiveProof(P, m, c) == {i \in PromOf(P, m, c) : P[i].age <= PromotedTTL}

Searched(P, m, c) ==
    LET hit == LiveProof(P, m, c)
    IN  [i \in PromSlots |->
           IF i \in hit /\ i = Lowest(hit) THEN [P[i] EXCEPT !.age = 0]
           ELSE IF /\ P[i] # Free /\ P[i].age > PromotedTTL
                   /\ hit # {} => i < Lowest(hit)
             THEN Free ELSE P[i]]

\* community_sn1_refresh: does the community belong to a brother?  Its live
\* records are refreshed by the question.
OfSn1(P, c) == {i \in PromSlots : P[i] # Free /\ P[i].comm = c /\ P[i].age <= PromotedTTL}

Refreshed(P, c) == [i \in PromSlots |-> IF i \in OfSn1(P, c) THEN [P[i] EXCEPT !.age = 0] ELSE P[i]]

-----------------------------------------------------------------------------
(* REGISTER_SUPER of an edge *)

Without(m) == [x \in DOMAIN edges \ {m} |-> edges[x]]
With(m, c) == [x \in DOMAIN edges \cup {m} |-> IF x = m THEN c ELSE edges[x]]

\* Mutant: any brother vouches for an edge, ours included.
HintAny(b) == BroOf(b) # {}

\* The edge names a big brother that is registered here.
sn1_hint_ok(b) == \E i \in BroOf(b) : Big(i)

\* The list after the hint was recorded and the edge looked up.
Noted(m, c, b) ==
    Searched(IF sn1_hint_ok(b) THEN record_promoted(promoted, m, c) ELSE promoted, m, c)
Vouched(m, c, b) ==
    LiveProof(IF sn1_hint_ok(b) THEN record_promoted(promoted, m, c) ELSE promoted, m, c) # {}

\* The token check passes: an edge that arrives from a brother's own socket, or
\* that is recorded as a peer of one, needs no token.
TokenOk(m, c, b, tok, fromBrother) ==
    TokenSet => tok \/ (fromBrother /\ brother_alive) \/ Vouched(m, c, b)

Proofs(m, c, b) ==
    proved \cup {<<m, c>> : i \in {j \in BroOf(b) : brothers[j].role = "big"}}

\* Bad token: no answer; an entry the edge holds here goes if sn1 is alive.
Reject(m, c, b, tok, fromBrother) ==
    /\ ~TokenOk(m, c, b, tok, fromBrother)
    /\ LET P    == Noted(m, c, b)
           asks == brother_alive /\ ~sn1_hint_ok(b)
       IN  /\ promoted' = IF asks THEN Refreshed(P, c) ELSE P
           /\ edges' = IF brother_alive /\ (sn1_hint_ok(b) \/ OfSn1(P, c) # {})
                         THEN Without(m) ELSE edges
    /\ out' = [Quiet EXCEPT !.what = "rejected", !.mac = m, !.comm = c, !.sn1 = b]
    /\ proved' = Proofs(m, c, b)
    /\ UNCHANGED <<brothers, lastSeen, newest>>

\* What an ACK tells of a brother: sn1_mac, sn_bak and sn_bak_v6.
Told(e) == [mac |-> e.mac, v4 |-> e.v4, v6 |-> IF e.adv6 # NoAddr THEN e.adv6 ELSE e.v6]

\* Mutant: the first brother of the table is as good as any.
AnswerAny(b) ==
    LET S == BroSlots \ FreeBroSlots
    IN  IF b # Nobody /\ brother_alive /\ S # {} THEN Told(brothers[Lowest(S)]) ELSE Free

\* ask_backup: the entry of the brother that is asked for, while any brother is alive.
Answer(b) ==
    IF brother_alive /\ BroOf(b) # {} THEN Told(brothers[Lowest(BroOf(b))]) ELSE Free

\* Does the edge, or its whole community, belong to a brother?  The list is
\* asked only when the packet does not say so itself and a brother is online.
sn1_peer(P, c, b) == b # Nobody \/ (sn1_online /\ OfSn1(P, c) # {})

\* While sn1 is online such an edge gets its answer, and no entry here.
Refuse(m, c, b, tok, fromBrother) ==
    /\ TokenOk(m, c, b, tok, fromBrother)
    /\ sn1_online
    /\ LET P == Noted(m, c, b)
       IN  /\ sn1_peer(P, c, b)
           /\ promoted' = IF b = Nobody THEN Refreshed(P, c) ELSE P
    /\ edges' = Without(m)
    /\ out' = [what |-> "refused", mac |-> m, comm |-> c, sn1 |-> b, answer |-> Answer(b)]
    /\ proved' = Proofs(m, c, b)
    /\ UNCHANGED <<brothers, lastSeen, newest>>

\* Otherwise it is registered.
Admit(m, c, b, tok, fromBrother) ==
    /\ TokenOk(m, c, b, tok, fromBrother)
    /\ LET P == Noted(m, c, b)
       IN  /\ ~(sn1_online /\ sn1_peer(P, c, b))
           /\ promoted' = P
    /\ edges' = With(m, c)
    /\ out' = [what |-> IF TokenSet /\ ~tok /\ ~fromBrother THEN "vouched" ELSE "admitted",
               mac |-> m, comm |-> c, sn1 |-> b, answer |-> Answer(b)]
    /\ proved' = Proofs(m, c, b)
    /\ UNCHANGED <<brothers, lastSeen, newest>>

\* QUERY_ONLY: an answer, and no entry; the list is asked all the same.
Query(m, c, b, tok, fromBrother) ==
    /\ TokenOk(m, c, b, tok, fromBrother)
    /\ LET P == Noted(m, c, b)
       IN  promoted' = IF b = Nobody /\ sn1_online THEN Refreshed(P, c) ELSE P
    /\ out' = [what |-> "query", mac |-> m, comm |-> c, sn1 |-> b, answer |-> Answer(b)]
    /\ proved' = Proofs(m, c, b)
    /\ UNCHANGED <<brothers, lastSeen, edges, newest>>

-----------------------------------------------------------------------------
(* Time *)

\* The edge deregisters or its entry expires.
EdgeGone(m) ==
    /\ m \in DOMAIN edges
    /\ edges' = Without(m)
    /\ out' = Quiet
    /\ UNCHANGED <<brothers, lastSeen, promoted, proved, newest>>

Older(n) == IF n > Hour THEN n ELSE n + 1
Aged(t)  == [i \in DOMAIN t |-> IF t[i] = Free THEN Free ELSE [t[i] EXCEPT !.age = Older(@)]]

\* Brothers are kept while the newest record is younger than an hour.
peers_idle(P) == \A i \in DOMAIN P : P[i] # Free => P[i].age > Hour

Tick ==
    LET B == Aged(brothers)
        P == Aged(promoted)
    IN  /\ brothers' = [i \in BroSlots |->
                          IF B[i] # Free /\ B[i].age > Hour /\ peers_idle(P) THEN Free ELSE B[i]]
        /\ promoted' = P
        /\ lastSeen' = Older(lastSeen)
        /\ out' = Quiet
        /\ UNCHANGED <<edges, proved, newest>>

-----------------------------------------------------------------------------
Init ==
    /\ brothers = [i \in BroSlots |-> Free]
    /\ lastSeen = Hour + 1
    /\ promoted = [i \in PromSlots |-> Free]
    /\ edges = [x \in {} |-> x]
    /\ out = Quiet
    /\ proved = {}
    /\ newest = [b \in Brothers |-> [v4 |-> NoAddr, v6 |-> {}]]

Next ==
    \/ \E b \in Brothers, a \in V4Addrs \cup V6Addrs, own6 \in V6Addrs \cup {NoAddr},
          role \in {"big", "little"} : BrotherReg(b, a, own6, role)
    \/ \E m \in Macs, c \in Communities, b \in Brothers \cup {Nobody},
          tok \in BOOLEAN, fromBrother \in BOOLEAN :
         \/ Reject(m, c, b, tok, fromBrother)
         \/ Refuse(m, c, b, tok, fromBrother)
         \/ Admit(m, c, b, tok, fromBrother)
         \/ Query(m, c, b, tok, fromBrother)
    \/ \E m \in Macs : EdgeGone(m)
    \/ Tick

Spec == Init /\ [][Next]_vars

-----------------------------------------------------------------------------
(* Properties *)

Brother == [mac : Brothers, v4 : V4Addrs \cup {NoAddr}, v6 : V6Addrs \cup {NoAddr},
            adv6 : V6Addrs \cup {NoAddr}, role : {"big", "little"}, age : Ages]
Proof   == [mac : Macs, comm : Communities, age : Ages]

\* Type invariant of brothers[], promoted[] and the edge table.
TypeOK ==
    /\ brothers \in [BroSlots -> Brother \cup {Free}]
    /\ lastSeen \in Ages
    /\ promoted \in [PromSlots -> Proof \cup {Free}]
    /\ DOMAIN edges \subseteq Macs /\ edges \in [DOMAIN edges -> Communities]
    /\ out.what \in {"none", "rejected", "refused", "admitted", "vouched", "query"}
    /\ proved \subseteq Macs \X Communities
    /\ newest \in [Brothers -> [v4 : V4Addrs \cup {NoAddr}, v6 : SUBSET V6Addrs]]

\* A supernode has one slot and an edge one record per community, whatever
\* slots become free in between (brother_reg, record_promoted).
OneSlotEach ==
    /\ \A b \in Brothers : Cardinality(BroOf(b)) <= 1
    /\ \A m \in Macs, c \in Communities : Cardinality(PromOf(promoted, m, c)) <= 1

\* Without the token, only an edge that once named a registered big brother is
\* admitted, and only to the community it was in then.
VouchedProved == out.what = "vouched" => <<out.mac, out.comm>> \in proved

\* The inductive invariant behind it: every record stands for such a proof.
RecordsProved ==
    /\ TypeOK
    /\ \A i \in PromSlots : promoted[i] # Free => <<promoted[i].mac, promoted[i].comm>> \in proved

\* ask_backup sends an edge to the addresses that brother last registered with:
\* "return that brother's current resolved IP and MAC so the edge can reconnect
\* to sn1".
AnswerCurrent ==
    out.answer # Free =>
        /\ out.answer.mac = out.sn1
        /\ out.answer.v4 \in {NoAddr, newest[out.sn1].v4}
        /\ out.answer.v6 \in {NoAddr} \cup newest[out.sn1].v6

\* Both: the tables have no duplicates, and what is answered from them is current.
TablesSound == OneSlotEach /\ AnswerCurrent
=============================================================================
