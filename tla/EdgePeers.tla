----------------------------- MODULE EdgePeers -----------------------------
(***************************************************************************)
(* How an edge reaches the other edges (src/src/edge.c): the two peer lists, *)
(* hole punching in rounds with its LAN phase, keepalive, the fall back to   *)
(* the supernode, and the cache of the last destination.                     *)
(*                                                                         *)
(* The network is the environment: any message may come at any time, from    *)
(* any address, or never.  A unit of time is a second.  Time stamps are kept  *)
(* as ages, no older than the code tells apart; a stamp of 0 is Never.        *)
(* The edge uses UDP: with a WebSocket it has no peers to reach.              *)
(***************************************************************************)
EXTENDS Integers, Functions

CONSTANTS
    Macs,           \* the other edges
    V4, V6,         \* addresses of the two families
    SameNat,        \* the IPv4 addresses behind our own public IP
    NoAddr,         \* family 0
    OwnV6,          \* own_ipv6.family = AF_INET6
    SnV6,           \* sn_ipv6_support
    Rounds, RoundSecs,      \* PUNCH_ROUNDS, PUNCH_ROUND_INTERVAL
    LanSecs,        \* 3: how long the LAN phase lasts
    Retries, RetrySecs,     \* 3 attempts, 40 seconds apart
    Idle, ProbeSecs, MaxFails,  \* KEEPALIVE_IDLE_SECONDS, _RETRY_INTERVAL, _MAX_FAILS
    CacheTtl,       \* CACHE_DST_TTL
    Active,         \* PUNCH_ACTIVE_WINDOW
    Alive,          \* PUNCH_DIRECT_ALIVE_SECS
    Expiry,         \* REGISTRATION_TIMEOUT: a known peer is forgotten
    Stuck           \* 1800: a pending one is

ASSUME EdgeAssumption ==
    /\ V4 \cap V6 = {} /\ NoAddr \notin V4 \cup V6 /\ SameNat \subseteq V4
    /\ OwnV6 \in BOOLEAN /\ SnV6 \in BOOLEAN
    /\ {Rounds, RoundSecs, LanSecs, Retries, RetrySecs, Idle, ProbeSecs, MaxFails,
        CacheTtl, Active, Alive, Expiry, Stuck} \subseteq Nat \ {0}

VARIABLES
    known,      \* eee->known_peers, a function on the MACs in it
    pending,    \* eee->pending_peers
    cache,      \* cached_dst_*: <<[mac, sock, age]>>, <<>> when it is invalid or too old
    ran,        \* has the main loop come round in this second?
    blind       \* history: for how long frames have gone to a peer directly
                \* without any frame of it coming back

vars == <<known, pending, cache, ran, blind>>

Addrs == V4 \cup V6
Never == -1

\* KEEPALIVE_TOTAL_TIMEOUT
Total == Idle + ProbeSecs * MaxFails

\* The longest a peer may be silent while frames still go to it directly and
\* nowhere else: the probes, one loop a second, and then the cache.
Patience == Idle + MaxFails * (ProbeSecs + 1) + CacheTtl - 1

\* struct peer_info after calloc.  A punch is idle (punch_start_time = 0),
\* running, or failed (punch_failed); clock is the time since punch_round_time
\* or punch_reset_time.
Fresh ==
    [sock |-> NoAddr, sock6 |-> NoAddr,
     lan  |-> FALSE,                        \* num_sockets = 2
     seen |-> 0, direct |-> Never, est |-> 1, \* last_seen, direct_seen, p2p_est_time
     punch |-> "idle", round |-> 0, clock |-> 0, retry |-> 0,
     lanStart |-> Never, lanDone |-> FALSE,
     probe |-> Never, fails |-> 0,            \* last_probe_sent, keepalive_fails
     answered |-> FALSE]                      \* direct_seen >= last_probe_sent

\* The slot an address goes to.
Slot(a) == IF a \in V6 THEN "sock6" ELSE "sock"

\* A direct frame came, and whether it leaves a probe out.
DirectNow(p) == [p EXCEPT !.direct = 0, !.answered = p.probe # Never]
NoProbe(p)   == [p EXCEPT !.probe = Never, !.answered = FALSE]

With(f, m, p) == [x \in DOMAIN f \cup {m} |-> IF x = m THEN p ELSE f[x]]
Without(f, m) == Restrict(f, DOMAIN f \ {m})

-----------------------------------------------------------------------------
(* Punching *)

CanPunch(p) == p.sock \in V4 \/ (p.sock6 \in V6 /\ OwnV6)

start_punch(p) ==
    IF p.punch = "idle" /\ CanPunch(p)
    THEN [p EXCEPT !.punch = "running", !.round = 0, !.clock = 0]
    ELSE p

Idled(p) ==
    [p EXCEPT !.punch = "idle", !.round = 0, !.clock = 0, !.retry = 0,
              !.lanStart = Never, !.lanDone = FALSE]

\* A peer that is pending is punched again only at a new address.
try_send_register(P, m, a) ==
    IF m \notin DOMAIN P THEN With(P, m, start_punch([Fresh EXCEPT ![Slot(a)] = a]))
    ELSE LET p == P[m]
         IN  With(P, m, start_punch(
               IF p[Slot(a)] # a THEN Idled([p EXCEPT ![Slot(a)] = a, !.lan = FALSE])
               ELSE p))

\* The LAN address first: the punch waits for the end of the LAN phase.
try_send_register_lan(P, m, a) ==
    LET p == IF m \in DOMAIN P THEN P[m] ELSE Fresh
    IN  With(P, m, [p EXCEPT ![Slot(a)] = a, !.lan = TRUE, !.lanStart = 0,
                             !.lanDone = FALSE,
                             !.punch = "idle", !.round = 0, !.clock = 0])

\* What the supernode tells of a peer: sockets[0], sock6, and whether it has a LAN address.
Infos == [a : Addrs, a6 : V6 \cup {NoAddr}, local : BOOLEAN]

try_peer_lan_ipv4(P, m, info) ==
    IF info.local /\ info.a \in SameNat THEN try_send_register_lan(P, m, info.a)
    ELSE try_send_register(P, m, P[m].sock)

restart_punch_for_peer(P, m, info) ==
    LET p == Idled([P[m] EXCEPT !.lan = FALSE])
        Q == With(P, m, p)
    IN  CASE p.sock6 \in V6 /\ SnV6  -> try_send_register(Q, m, p.sock6)
          [] p.sock6 \in V6 /\ ~SnV6 -> try_send_register(try_peer_lan_ipv4(Q, m, info), m, p.sock6)
          [] OTHER                   -> try_peer_lan_ipv4(Q, m, info)

-----------------------------------------------------------------------------
(* Messages.  Each handler names its sender and the address it came from. *)

Heard(m) == blind' = [blind EXCEPT ![m] = 0]

\* update_peer_address, for a frame that came directly.
update_peer_address(p, a) ==
    LET slot == IF p.sock \in V4 THEN "sock" ELSE "sock6"
    IN  IF p[slot] \notin Addrs THEN p
        ELSE IF (p.sock \in V4) = (a \in V4) THEN [p EXCEPT ![slot] = a, !.seen = 0]
        ELSE [p EXCEPT !.seen = 0]

\* handle_PACKET, a frame that came directly.  A stranger's is delivered and
\* leaves no entry.
PacketDirect(m, a) ==
    LET Live(p)  == [NoProbe(DirectNow(p)) EXCEPT !.fails = 0]
        Moved(p) == \/ p.sock \in V4 /\ p.sock # a /\ a \in V4
                    \/ p.sock6 \in V6 /\ a \in V6 /\ (IF p.sock \in V4 THEN p.sock ELSE p.sock6) # a
    IN  /\ IF m \in DOMAIN known
             THEN LET p == Live(known[m])
                  IN  /\ known' = With(known, m, IF Moved(p) THEN update_peer_address(p, a)
                                                 ELSE [p EXCEPT !.seen = 0])
                      /\ pending' = pending
                      /\ cache' = IF Moved(p) THEN <<>> ELSE cache
             ELSE IF m \in DOMAIN pending
             THEN LET p == Live(pending[m])
                  IN  /\ pending' = With(pending, m, IF Moved(p) THEN p ELSE [p EXCEPT !.seen = 0])
                      /\ known' = known
                      /\ cache' = IF Moved(p) THEN <<>> ELSE cache
             ELSE UNCHANGED <<known, pending, cache>>
        /\ Heard(m)
        /\ UNCHANGED ran

\* handle_PACKET, a frame that the supernode relays: a is where it saw the
\* sender; a broadcast is not for us.  A community relay names no address.
Relayed(p, a, forUs) ==
    LET q == IF p.direct = Never /\ a # NoAddr
             THEN [p EXCEPT ![IF p.sock \in V4 THEN "sock" ELSE "sock6"] = a] ELSE p
    IN  IF forUs THEN [q EXCEPT !.seen = 0] ELSE q

FirstContact(a) ==
    [Fresh EXCEPT !.sock = a, !.sock6 = IF a \in V6 THEN a ELSE NoAddr, !.seen = Active + 1]

PacketRelayed(m, a, forUs) ==
    /\ known' = IF m \in DOMAIN known THEN With(known, m, Relayed(known[m], a, forUs)) ELSE known
    /\ pending' = IF m \in DOMAIN known THEN pending
                  ELSE IF m \in DOMAIN pending THEN With(pending, m, Relayed(pending[m], a, forUs))
                  ELSE IF a = NoAddr THEN pending ELSE With(pending, m, FirstContact(a))
    /\ blind' = IF forUs THEN [blind EXCEPT ![m] = 0] ELSE blind
    /\ UNCHANGED <<cache, ran>>

\* A REGISTER.  withLan: it names a LAN address and came from our own public IP.
Register(m, a, withLan) ==
    /\ withLan => a \in SameNat
    /\ IF m \in DOMAIN known
         THEN LET p == known[m]
                  slot == IF p.sock \in V4 THEN "sock" ELSE "sock6"
              IN  /\ known' = IF (p.sock \in V4) = (a \in V4)
                              THEN With(known, m, [p EXCEPT ![slot] = a, !.seen = 0]) ELSE known
                  /\ pending' = pending
         ELSE /\ pending' = IF withLan THEN try_send_register_lan(pending, m, a)
                            ELSE try_send_register(pending, m, a)
              /\ known' = known
    /\ Heard(m)
    /\ UNCHANGED <<cache, ran>>

\* Mutant: the entry is copied and not taken off the list of pending peers.
OperationalTwice(m, a) ==
    /\ known' = IF m \in DOMAIN pending
                THEN With(known, m, [DirectNow(pending[m]) EXCEPT
                                       !.sock  = IF a \in V4 THEN a ELSE NoAddr,
                                       !.sock6 = IF a \in V6 THEN a ELSE NoAddr,
                                       !.seen = 0, !.est = 0,
                                       !.punch = "idle", !.round = 0, !.clock = 0])
                ELSE known
    /\ pending' = pending

\* A REGISTER_ACK that came directly: the peer is operational, with one address.
set_peer_operational(m, a) ==
    IF m \in DOMAIN pending
    THEN /\ known' = With(known, m,
              [DirectNow(pending[m]) EXCEPT !.sock  = IF a \in V4 THEN a ELSE NoAddr,
                                 !.sock6 = IF a \in V6 THEN a ELSE NoAddr,
                                 !.seen = 0, !.est = 0,
                                 !.punch = "idle", !.round = 0, !.clock = 0])
         /\ pending' = Without(pending, m)
    ELSE /\ known' = IF m \in DOMAIN known /\ known[m].sock = NoAddr
                        /\ known[m].sock6 \in V6 /\ a \in V4
                     THEN With(known, m, [known[m] EXCEPT !.sock = a, !.sock6 = NoAddr, !.seen = 0])
                     ELSE known
         /\ pending' = pending

RegisterAck(m, a) ==
    /\ set_peer_operational(m, a)
    /\ Heard(m)
    /\ UNCHANGED <<cache, ran>>

\* One that the supernode relays proves nothing of the direct path.
RegisterAckRelayed(m) ==
    /\ m \in DOMAIN pending
    /\ pending' = [pending EXCEPT ![m].seen = 0]
    /\ UNCHANGED <<known, cache, ran, blind>>

\* A PROBE: a pending peer's address is learnt, a known peer's is not.
Probe(m, a) ==
    /\ IF m \in DOMAIN known
         THEN /\ known' = With(known, m, [DirectNow(known[m]) EXCEPT !.seen = 0])
              /\ pending' = pending
         ELSE /\ pending' = IF m \in DOMAIN pending
                            THEN [pending EXCEPT ![m][Slot(a)] = a]
                            ELSE try_send_register(pending, m, a)
              /\ known' = known
    /\ Heard(m)
    /\ UNCHANGED <<cache, ran>>

ProbeAck(m, a) ==
    /\ known' = IF m \in DOMAIN known
                THEN With(known, m, [NoProbe(DirectNow(known[m])) EXCEPT !.seen = 0, !.fails = 0])
                ELSE known
    /\ Heard(m)
    /\ UNCHANGED <<pending, cache, ran>>

\* PEER_INFO without PUNCH: the supernode tells of a peer.
Told(p, info) ==
    [p EXCEPT !.lan = @ \/ info.local, !.sock6 = IF info.a6 \in V6 THEN info.a6 ELSE @]

PeerInfo(m, info) ==
    LET isKnown == m \in DOMAIN known
        moved == /\ isKnown
                 /\ \/ info.a \in V4 /\ known[m].sock \in V4 /\ known[m].sock # info.a
                    \/ info.a6 \in V6 /\ known[m].sock6 \in V6 /\ known[m].sock6 # info.a6
        p == IF moved THEN known[m] ELSE pending[m]
        changed == \/ moved
                   \/ info.a \in V4 /\ p.sock # info.a
                   \/ info.a6 \in V6 /\ p.sock6 # info.a6
        q == Told([p EXCEPT !.sock = IF info.a \in V4 THEN info.a ELSE @], info)
        Q == With(pending, m, q)
    IN  /\ IF isKnown /\ ~moved
             THEN /\ known' = With(known, m, Told(known[m], info))
                  /\ UNCHANGED <<pending, cache>>
           ELSE IF ~moved /\ m \notin DOMAIN pending
             THEN /\ pending' = With(pending, m, Told([Fresh EXCEPT !.sock = info.a, !.seen = Active + 1], info))
                  /\ UNCHANGED <<known, cache>>
           ELSE /\ known' = Without(known, m)
                /\ pending' = IF changed /\ (p.direct # Never \/ p.seen <= Active)
                              THEN restart_punch_for_peer(Q, m, info) ELSE Q
                /\ cache' = IF changed THEN <<>> ELSE cache
        /\ UNCHANGED <<ran, blind>>

\* PEER_INFO with PUNCH: the peer is punching now.
LiveDirect(p) == p.direct # Never /\ p.direct < Alive

Punch(m, info) ==
    /\ ~(m \in DOMAIN known /\ LiveDirect(known[m]))
    /\ LET p == CASE m \in DOMAIN known   -> known[m]
                  [] m \in DOMAIN pending -> pending[m]
                  [] OTHER                -> Fresh
           q == [p EXCEPT ![Slot(info.a)] = info.a, !.lan = info.local, !.seen = 0]
           r == [q EXCEPT !.sock6 = IF info.a6 \in V6 THEN info.a6 ELSE @]
           changed == r.sock # p.sock \/ r.sock6 # p.sock6
           running == p.punch # "idle" \/ p.lanStart # Never
           Q == With(pending, m, r)
       IN  pending' = IF changed \/ (~running /\ ~LiveDirect(p))
                      THEN restart_punch_for_peer(Q, m, info) ELSE Q
    /\ known' = Without(known, m)
    /\ UNCHANGED <<cache, ran, blind>>

Deregister(m) ==
    /\ m \in DOMAIN known \cup DOMAIN pending
    /\ known' = Without(known, m)
    /\ pending' = Without(pending, m)
    /\ UNCHANGED <<cache, ran, blind>>

-----------------------------------------------------------------------------
(* Sending *)

\* find_peer_destination: the address a frame goes to directly, or NoAddr.
find_peer_destination(m) ==
    IF m \notin DOMAIN known THEN NoAddr
    ELSE LET p == known[m]
         IN  IF \/ p.punch = "failed" \/ p.direct = Never
                \/ p.est < 1                               \* P2P_EST_GRACE
                \/ p.probe # Never /\ p.direct > Total
             THEN NoAddr
             ELSE IF p.sock \in V4 THEN p.sock
             ELSE IF p.sock6 \in V6 THEN p.sock6 ELSE NoAddr

CacheHit(m) == cache # <<>> /\ cache[1].mac = m

\* send_PACKET: where a unicast frame goes, and whether the supernode gets a
\* copy because a probe is out.
Dest(m)   == IF CacheHit(m) THEN cache[1].sock ELSE find_peer_destination(m)
Probing(m) == m \in DOMAIN known /\ known[m].probe # Never

SendPacket(m) ==
    /\ cache' = IF ~CacheHit(m) /\ Dest(m) # NoAddr
                THEN <<[mac |-> m, sock |-> Dest(m), age |-> 0]>> ELSE cache
    /\ pending' = IF Dest(m) = NoAddr /\ m \notin DOMAIN known \cup DOMAIN pending
                  THEN With(pending, m, Fresh) ELSE pending
    /\ UNCHANGED <<known, ran, blind>>

-----------------------------------------------------------------------------
(* The main loop *)

\* Mutant: the LAN phase is not ended by the clock.
LanForEver(p) ==
    IF p.lan /\ ~p.lanDone /\ p.lanStart # Never THEN [p EXCEPT !.seen = 0] ELSE p

\* The LAN phase of check_punch_timeouts: its retransmissions count as contact.
LanPhase(p) ==
    IF ~(p.lan /\ ~p.lanDone /\ p.lanStart # Never) THEN p
    ELSE IF p.lanStart < LanSecs THEN [p EXCEPT !.seen = 0]
    ELSE start_punch([p EXCEPT !.lanDone = TRUE])

\* Its rounds: the next one, or failure; a failed punch is tried again later.
RoundsPhase(p) ==
    CASE p.punch = "running" /\ p.clock >= RoundSecs ->
           IF p.round >= Rounds - 1 THEN [p EXCEPT !.punch = "failed", !.clock = 0]
           ELSE [p EXCEPT !.round = @ + 1, !.clock = 0]
      [] p.punch = "failed" /\ p.retry < Retries /\ p.clock > RetrySecs ->
           IF p.retry + 1 >= Retries THEN [p EXCEPT !.retry = @ + 1]
           ELSE start_punch([p EXCEPT !.retry = @ + 1, !.punch = "idle",
                                      !.lanDone = FALSE, !.lanStart = Never])
      [] OTHER -> p

check_punch_timeouts(P) ==
    LET Q == [m \in DOMAIN P |-> LanPhase(P[m])]
        Gone(p) == p.punch = "idle" /\ p.seen > Stuck
        stay == {m \in DOMAIN P : ~Gone(Q[m])}
    IN  [m \in stay |-> RoundsPhase(Q[m])]

\* check_keepalive: a direct path from which nothing came is probed, and left
\* when the probes are not answered.
KeepAddr(p) == p.sock \in V4 \/ p.sock6 \in V6

\* Mutant: an unanswered probe is sent again and not counted.
KeepaliveUncounted(p) ==
    IF \/ p.direct = Never \/ p.direct < Idle \/ p.seen < Idle \/ ~KeepAddr(p) THEN p
    ELSE IF p.probe = Never THEN [p EXCEPT !.probe = 0]
    ELSE IF p.answered \/ p.probe >= ProbeSecs THEN NoProbe(p)
    ELSE p

check_keepalive(p) ==
    IF \/ p.direct = Never \/ p.direct < Idle \/ p.seen < Idle \/ ~KeepAddr(p) THEN p
    ELSE IF p.probe = Never THEN [p EXCEPT !.probe = 0]
    ELSE IF p.answered THEN [NoProbe(p) EXCEPT !.fails = 0]
    ELSE IF p.probe < ProbeSecs THEN p
    ELSE IF p.fails + 1 < MaxFails THEN [NoProbe(p) EXCEPT !.fails = @ + 1]
    ELSE start_punch(Idled([NoProbe(p) EXCEPT !.direct = Never, !.fails = 0]))

Purge(P, limit) == Restrict(P, {m \in DOMAIN P : P[m].seen <= limit})

MainLoop ==
    /\ known' = Purge([m \in DOMAIN known |-> check_keepalive(known[m])], Expiry)
    /\ pending' = Purge(check_punch_timeouts(pending), Stuck)
    /\ ran' = TRUE
    /\ UNCHANGED <<cache, blind>>

\* Ages beyond what the code tells apart.
AtLeast(x, y) == IF x < y THEN y ELSE x
SeenMax   == AtLeast(AtLeast(Active, Expiry), Stuck) + 1
DirectMax == AtLeast(Total + 1, Alive)

Older(age, limit) == IF age = Never THEN Never ELSE IF age < limit THEN age + 1 ELSE age

Aged(p) ==
    [p EXCEPT !.seen = Older(@, SeenMax), !.direct = Older(@, DirectMax), !.est = 1,
              !.clock = IF p.punch = "idle" THEN 0
                        ELSE Older(@, IF p.punch = "failed" THEN RetrySecs + 1 ELSE RoundSecs),
              !.lanStart = Older(@, LanSecs), !.probe = Older(@, ProbeSecs)]

\* The main loop comes round every 10 ms, and once a second at the least.
Tick ==
    /\ ran
    /\ ran' = FALSE
    /\ known' = [m \in DOMAIN known |-> Aged(known[m])]
    /\ pending' = [m \in DOMAIN pending |-> Aged(pending[m])]
    /\ cache' = IF cache = <<>> \/ cache[1].age + 1 >= CacheTtl THEN <<>> ELSE [cache EXCEPT ![1].age = @ + 1]
    /\ blind' = [m \in Macs |-> IF Dest(m) = NoAddr THEN 0 ELSE Older(blind[m], Patience + 1)]

-----------------------------------------------------------------------------

Init ==
    /\ known = <<>> /\ pending = <<>> /\ cache = <<>> /\ ran = FALSE
    /\ blind = [m \in Macs |-> 0]

Next ==
    \/ MainLoop \/ Tick
    \/ \E m \in Macs : SendPacket(m) \/ Deregister(m) \/ RegisterAckRelayed(m)
    \/ \E m \in Macs, a \in Addrs :
         \/ PacketDirect(m, a) \/ RegisterAck(m, a) \/ Probe(m, a) \/ ProbeAck(m, a)
         \/ \E b \in BOOLEAN : Register(m, a, b)
    \/ \E m \in Macs, a \in Addrs \cup {NoAddr}, b \in BOOLEAN : PacketRelayed(m, a, b)
    \/ \E m \in Macs, info \in Infos : PeerInfo(m, info) \/ Punch(m, info)

Spec == Init /\ [][Next]_vars

-----------------------------------------------------------------------------
(* Properties *)

PeerOK(p) ==
    /\ {p.sock, p.sock6} \subseteq Addrs \cup {NoAddr}
    /\ {p.lan, p.lanDone, p.answered} \subseteq BOOLEAN
    /\ {p.seen, p.est, p.round, p.clock, p.retry, p.fails} \subseteq Nat
    /\ p.punch \in {"idle", "running", "failed"}
    /\ {p.direct, p.lanStart, p.probe} \subseteq Nat \cup {Never}
    /\ p.round < Rounds /\ p.retry <= Retries /\ p.fails < MaxFails

\* The fields of the two lists have their types, and the counters of rounds,
\* retries and unanswered probes stay below their limits.
TypeOK ==
    /\ DOMAIN known \subseteq Macs /\ DOMAIN pending \subseteq Macs
    /\ \A m \in DOMAIN known : PeerOK(known[m])
    /\ \A m \in DOMAIN pending : PeerOK(pending[m])
    /\ ran \in BOOLEAN

\* A peer is in one of the two lists.  Handlers look in known_peers first: an
\* entry left behind in pending_peers would be punched for ever (edge.c, all
\* the places that move an entry between the lists).
OneList == DOMAIN known \cap DOMAIN pending = {}

\* Both: the lists are disjoint, and their counters below their limits.
ListsSound == TypeOK /\ OneList

\* Frames do not go to a peer directly, without a copy to the supernode, for
\* longer than the probes and the cached destination take when nothing of that
\* peer arrives any more (check_keepalive, send_PACKET's cache).
DirectOnlyFresh ==
    \A m \in Macs : Dest(m) # NoAddr /\ ~Probing(m) => blind[m] <= Patience

\* Once the network falls silent every entry goes: neither the rounds of a punch
\* nor the retransmissions of its LAN phase, which count as contact, keep a peer
\* that is gone in a list (check_punch_timeouts, purge_expired_registrations).
Forgotten == DOMAIN known = {} /\ DOMAIN pending = {} /\ cache = <<>>
Forgets == <>[][MainLoop \/ Tick]_vars => <>[]Forgotten

FairSpec == Spec /\ WF_vars(MainLoop) /\ WF_vars(Tick)

=============================================================================
