------------------------------ MODULE SnPunch ------------------------------
(***************************************************************************)
(* Hole punching as the supernode coordinates it (src/src/sn.c): QUERY_PEER *)
(* forms a pair of edges, both re-register in rounds, and when both have,   *)
(* each is handed the other's latest address (PUNCH).  The side that        *)
(* answers faster gets its PUNCH a little later, so that both start at the  *)
(* same time.                                                               *)
(*                                                                         *)
(* The code compares two clocks: time(), in seconds, and a millisecond      *)
(* clock, whose unit here is a pass of the loop.  Time stamps are kept as   *)
(* ages.  a_reg and b_reg are only ever compared with last_exchanged, so    *)
(* what is kept of them is whether they are newer.                          *)
(***************************************************************************)
EXTENDS Integers, Sequences, SequencesExt

CONSTANTS
    Macs,           \* MACs of edges: integers, memcmp orders them
    Communities,
    Asks,           \* who may ask for whom
    Second,         \* units of the fast clock in a second
    PairMax,        \* PUNCH_PAIR_MAX
    Hold,           \* PUNCH_PAIR_HOLD, in seconds
    Refresh,        \* PUNCH_QUERY_REFRESH_SECS
    SyncMin, SyncMax, \* PUNCH_SYNC_MIN_DIFF_MS, PUNCH_SYNC_MAX_DIFF_MS
    MaxDiff,        \* bound: the longest difference that is measured
    MaxPairs        \* bound: pairs in the list

ASSUME PunchAssumption ==
    /\ Macs \subseteq Nat /\ Asks \subseteq Macs \X Macs
    /\ Second \in Nat \ {0} /\ PairMax \in Nat \ {0}
    /\ Hold \in Nat \ {0} /\ Refresh \in Nat \ {0}
    /\ SyncMin \in Nat \ {0} /\ SyncMax \in Nat /\ SyncMax <= Second
    /\ MaxDiff \in Nat /\ MaxDiff >= SyncMax /\ MaxPairs \in Nat

VARIABLES
    edges,      \* the MACs in sss->edges
    pairs,      \* sss->punch_pairs, the head of the list first
    phase,      \* the fast clock within the current second
    out         \* the last handler: who was told of whom; was it an exchange, and
                \* had both sides re-registered since the one before?

vars == <<edges, pairs, phase, out>>

None == -1      \* not measured, not due

Quiet == [exchanged |-> FALSE, both |-> FALSE, told |-> {}]

\* Tell(s, o): edge s is sent the addresses of edge o.
Tell(s, o) == <<s, o>>

-----------------------------------------------------------------------------
(* The list of pairs *)

Least(s, t)    == IF s < t THEN s ELSE t
Greatest(s, t) == IF s < t THEN t ELSE s

\* Pairs are found under (edge_a, edge_b) in the order they are asked for.
sn_pair_find(P, c, a, b) ==
    {i \in DOMAIN P : P[i].comm = c /\ P[i].a = a /\ P[i].b = b}

\* regd is history: the edges that have re-registered since the last exchange.
NewPair(c, s, t) ==
    [comm |-> c, a |-> Least(s, t), b |-> Greatest(s, t),
     act  |-> 0,                    \* now - last_activity
     newA |-> FALSE, newB |-> FALSE, \* a_reg, b_reg > last_exchanged
     ex   |-> FALSE,                \* last_exchanged # 0, and so sync_send_ms # 0
     exAge |-> Refresh,             \* now - last_exchanged, no more than Refresh
     seenA |-> None, seenB |-> None, \* since sync_reg_a_ms, sync_reg_b_ms
     armed |-> FALSE, delay |-> 0, nearA |-> FALSE,
     due  |-> None,                 \* defer_due_ms - now
     regd |-> {}]

\* The pair that goes when the list is too long: the one longest without a
\* query, the nearest to the head of several.  A list in which every pair was
\* touched in this second keeps them all.
Dropped(P) ==
    LET oldest == {i \in DOMAIN P : \A j \in DOMAIN P : P[j].act <= P[i].act}
        i      == CHOOSE x \in oldest : \A y \in oldest : x <= y
    IN  IF Len(P) > PairMax /\ i # 1 THEN RemoveAt(P, i) ELSE P

\* Mutant: the two edges are not put in order.
TouchUnsorted(P, c, s, t) ==
    IF sn_pair_find(P, c, s, t) # {} THEN P
    ELSE Dropped(<<[NewPair(c, s, t) EXCEPT !.a = s, !.b = t]>> \o P)

sn_pair_touch(P, c, s, t) ==
    LET at == sn_pair_find(P, c, Least(s, t), Greatest(s, t))
    IN  IF at # {} THEN [i \in DOMAIN P |-> IF i \in at THEN [P[i] EXCEPT !.act = 0] ELSE P[i]]
        ELSE Dropped(<<NewPair(c, s, t)>> \o P)

-----------------------------------------------------------------------------
(* QUERY_PEER: s asks for t *)

\* The re-registration that came before the pair is entered for a requester
\* that finds its pair: only the lower MAC of the two does.
FoldIn(P, c, s, t) ==
    LET at == sn_pair_find(P, c, s, t)
    IN  [i \in DOMAIN P |->
           IF i \in at THEN [P[i] EXCEPT !.newA = TRUE, !.regd = @ \cup {s}] ELSE P[i]]

\* Mutant: a pair that is known is left to its exchanges.
OldNever(P, c, s, t) == FALSE

\* A known pair whose last exchange is old gets an answer, and so does a
\* requester that does not find its pair.
Old(P, c, s, t) == \A i \in sn_pair_find(P, c, s, t) : P[i].exAge >= Refresh

\* Both sides are told, unless the last exchange is fresh.
QueryPeer(s, t, c) ==
    /\ t \in edges
    /\ LET isNew == sn_pair_find(pairs, c, Least(s, t), Greatest(s, t)) = {}
           P     == sn_pair_touch(pairs, c, s, t)
           Q     == IF isNew THEN FoldIn(P, c, s, t) ELSE P
       IN  /\ Len(P) <= MaxPairs
           /\ pairs' = Q
           /\ out' = [Quiet EXCEPT !.told =
                        IF ~(isNew \/ Old(Q, c, s, t)) THEN {}
                        ELSE {Tell(s, t)} \cup (IF s \in edges THEN {Tell(t, s)} ELSE {})]
    /\ UNCHANGED <<edges, phase>>

-----------------------------------------------------------------------------
(* REGISTER_SUPER: sn_pair_on_register *)

\* The first pair of the list that the edge is in, and only that.
PairsOf(m, c) == {i \in DOMAIN pairs : pairs[i].comm = c /\ m \in {pairs[i].a, pairs[i].b}}
FirstOf(m, c) == CHOOSE i \in PairsOf(m, c) : \A j \in PairsOf(m, c) : i <= j

\* Mutant: the second of the exchange itself counts as later.
ReRegSameSecond(p, m) ==
    LET q == [p EXCEPT !.regd = @ \cup {m}]
    IN  IF m = p.a THEN [q EXCEPT !.newA = TRUE, !.newB = @ \/ p.exAge = 0]
                   ELSE [q EXCEPT !.newB = TRUE, !.newA = @ \/ p.exAge = 0]

\* a_reg or b_reg becomes now: that is newer than an exchange of an earlier second.
ReReg(p, m) ==
    LET newer == ~p.ex \/ p.exAge >= 1
        q     == [p EXCEPT !.regd = @ \cup {m}]
    IN  IF m = p.a THEN [q EXCEPT !.newA = newer] ELSE [q EXCEPT !.newB = newer]

\* After the first exchange the first registration of each side is timed ...
Timed(p, m) ==
    IF ~p.ex \/ p.armed THEN p
    ELSE IF m = p.a /\ p.seenA = None THEN [p EXCEPT !.seenA = 0]
    ELSE IF m = p.b /\ p.seenB = None THEN [p EXCEPT !.seenB = 0]
    ELSE p

AbsDiff(x, y) == IF x < y THEN y - x ELSE x - y

\* Mutant: any difference is compensated.
DelayUncapped(diff) == diff \div 2

HalfDelay(diff) == IF diff \in SyncMin .. SyncMax - 1 THEN diff \div 2 ELSE 0

\* ... and the difference gives the delay, once for all.
Armed(p) ==
    IF ~p.ex \/ p.armed \/ p.seenA = None \/ p.seenB = None THEN p
    ELSE [p EXCEPT !.armed = TRUE,
                   !.delay = HalfDelay(AbsDiff(p.seenA, p.seenB)),
                   !.nearA = p.seenA >= p.seenB,
                   !.seenA = None, !.seenB = None]

Near(p) == IF p.nearA THEN p.a ELSE p.b
Far(p)  == IF p.nearA THEN p.b ELSE p.a

OtherNew(p, m) == IF m = p.a THEN p.newB ELSE p.newA

\* The exchange: both sides at once, or the far one now and the near one later.
\* If one of them is gone nobody is told.
Exchanged(p, both) ==
    [p EXCEPT !.ex = TRUE, !.exAge = 0, !.newA = FALSE, !.newB = FALSE, !.regd = {},
              !.due = IF both /\ p.armed /\ p.delay > 0 THEN p.delay ELSE @]

HandedNow(p, both) ==
    IF ~both THEN {}
    ELSE IF p.armed /\ p.delay > 0 THEN {Tell(Far(p), Near(p))}
    ELSE {Tell(p.a, p.b), Tell(p.b, p.a)}

\* A re-registration of a round (PUNCH_ROUND).
RegisterRound(m, c) ==
    /\ edges' = edges \cup {m}
    /\ IF PairsOf(m, c) = {} THEN pairs' = pairs /\ out' = Quiet
       ELSE LET i    == FirstOf(m, c)
                p    == Armed(Timed(ReReg(pairs[i], m), m))
                both == {p.a, p.b} \subseteq edges'
            IN  IF OtherNew(p, m)
                  THEN /\ pairs' = [pairs EXCEPT ![i] = Exchanged(p, both)]
                       /\ out' = [exchanged |-> TRUE, both |-> p.regd = {p.a, p.b},
                                  told |-> HandedNow(p, both)]
                  ELSE pairs' = [pairs EXCEPT ![i] = p] /\ out' = Quiet
    /\ UNCHANGED phase

\* A plain registration drives nothing.
RegisterPlain(m) ==
    /\ edges' = edges \cup {m}
    /\ out' = Quiet
    /\ UNCHANGED <<pairs, phase>>

\* The edge deregisters, is dropped or expires; its pairs stay.
EdgeGone(m) ==
    /\ m \in edges
    /\ edges' = edges \ {m}
    /\ out' = Quiet
    /\ UNCHANGED <<pairs, phase>>

-----------------------------------------------------------------------------
(* The tail of run_loop, and time *)

Expired(p) == p.act > Hold
Due(p)     == p.due = 0

Live(P) == {i \in DOMAIN P : ~Expired(P[i])}

\* The positions of S in ascending order.
InOrder(S, n) ==
    {at \in [1 .. n -> S] : /\ \A i, j \in 1 .. n : i < j => at[i] < at[j]
                           /\ \A s \in S : \E i \in 1 .. n : at[i] = s}

\* sn_pair_purge and then sn_punch_defer_tick.
LoopTail ==
    /\ \E i \in DOMAIN pairs : Expired(pairs[i]) \/ Due(pairs[i])
    /\ \E n \in 0 .. Len(pairs) : \E at \in InOrder(Live(pairs), n) :
         LET P   == [i \in 1 .. n |-> pairs[at[i]]]
             now == {i \in 1 .. n : Due(P[i])}
         IN  /\ pairs' = [i \in 1 .. n |-> IF i \in now THEN [P[i] EXCEPT !.due = None] ELSE P[i]]
             /\ out' = [Quiet EXCEPT !.told =
                          {Tell(Near(P[i]), Far(P[i])) :
                             i \in {j \in now : {P[j].a, P[j].b} \subseteq edges}}]
    /\ UNCHANGED <<edges, phase>>

CapAt(n, x) == IF x < n THEN x ELSE n

Later(p, secs) ==
    [p EXCEPT !.act = @ + secs,
              !.exAge = CapAt(Refresh, @ + secs),
              !.seenA = IF @ = None THEN None ELSE CapAt(MaxDiff, @ + 1),
              !.seenB = IF @ = None THEN None ELSE CapAt(MaxDiff, @ + 1),
              !.due = IF @ = None THEN None ELSE @ - 1]

\* A unit of the fast clock passes; the loop's tail runs at least once in each.
Tick ==
    /\ \A i \in DOMAIN pairs : ~Expired(pairs[i]) /\ ~Due(pairs[i])
    /\ LET secs == IF phase = Second - 1 THEN 1 ELSE 0
       IN  pairs' = [i \in DOMAIN pairs |-> Later(pairs[i], secs)]
    /\ phase' = (phase + 1) % Second
    /\ out' = Quiet
    /\ UNCHANGED edges

-----------------------------------------------------------------------------
Init ==
    /\ edges = {}
    /\ pairs = <<>>
    /\ phase = 0
    /\ out = Quiet

Next ==
    \/ \E q \in Asks, c \in Communities : QueryPeer(q[1], q[2], c)
    \/ \E m \in Macs, c \in Communities : RegisterRound(m, c)
    \/ \E m \in Macs : RegisterPlain(m) \/ EdgeGone(m)
    \/ LoopTail
    \/ Tick

Spec == Init /\ [][Next]_vars

\* The clock goes on and the loop comes round; nothing is assumed of edges.
FairSpec == Spec /\ WF_vars(Tick) /\ WF_vars(LoopTail)

-----------------------------------------------------------------------------
(* Properties *)

Pair == [comm : Communities, a : Macs, b : Macs, act : 0 .. Hold + 1,
         newA : BOOLEAN, newB : BOOLEAN, ex : BOOLEAN, exAge : 0 .. Refresh,
         seenA : None .. MaxDiff, seenB : None .. MaxDiff,
         armed : BOOLEAN, delay : 0 .. Second, nearA : BOOLEAN, due : None .. Second,
         regd : SUBSET Macs]

\* Type invariant of the edge set and of struct sn_punch_pair.
TypeOK ==
    /\ edges \subseteq Macs
    /\ pairs \in Seq(Pair)
    /\ phase \in 0 .. Second - 1
    /\ out.told \subseteq Macs \X Macs

\* Whoever asks first and whatever goes on meanwhile, two edges have one pair in
\* a community, so that both sides' registrations meet there (sn_pair_touch).
OnePairEach ==
    \A i, j \in DOMAIN pairs :
        /\ pairs[i].comm = pairs[j].comm
        /\ {pairs[i].a, pairs[i].b} = {pairs[j].a, pairs[j].b}
        => i = j

\* "when both pair edges re-registered since the last exchange, hand each the
\* other's latest address": no exchange uses a registration twice, although
\* the two clocks of sn_pair_on_register only tell seconds apart.
ExchangeFresh == out.exchanged => out.both

Owed(s, t) == \E i \in DOMAIN pairs :
                 pairs[i].due # None /\ Near(pairs[i]) = s /\ Far(pairs[i]) = t
Paired(s, t) == \E i \in DOMAIN pairs : {pairs[i].a, pairs[i].b} = {s, t}

\* "so both edges start their round punches simultaneously": the near side gets
\* the PUNCH that was put off, although later exchanges put it off again,
\* unless one of the two leaves or the pair is dropped (sn_punch_defer_tick).
HandoffFires ==
    \A s, t \in Macs :
        Owed(s, t) ~> \/ Tell(s, t) \in out.told
                      \/ ~({s, t} \subseteq edges)
                      \/ ~Paired(s, t)

\* An edge that keeps asking for another one, both being registered, is told of
\* it again and again: exchanges that suppress the answer tell it themselves,
\* and registrations that drive another pair do not keep it waiting.
QuerierTold ==
    \A q \in Asks, c \in Communities :
        []<><<QueryPeer(q[1], q[2], c)>>_vars /\ <>[]({q[1], q[2]} \subseteq edges)
            => []<>(Tell(q[1], q[2]) \in out.told)
=============================================================================
