----------------------------- MODULE SnRegistry -----------------------------
(***************************************************************************)
(* The supernode's edge table and its virtual-IP allocator (src/src/sn.c,  *)
(* update_edge and the handlers around it; src/src/n2n.c for expiry).      *)
(*                                                                         *)
(* One process owns the table: the select loop run_loop.  Every action     *)
(* below is one whole datagram handler, or the end-of-pass housekeeping    *)
(* after a unit of time, and runs atomically as it does in the code.       *)
(*                                                                         *)
(* Time is counted in purge periods (PURGE_STATS_FREQUENCY, 30 s): an      *)
(* entry's age is the number of periods since last_seen, and Timeout is    *)
(* REGISTRATION_TIMEOUT in the same unit (150 s, i.e. 5).                  *)
(***************************************************************************)
EXTENDS Integers, Sequences, FiniteSets

CONSTANTS
    Macs,           \* hardware addresses of edges (reg.edgeMac)
    Communities,    \* community names
    V4Addrs,        \* IPv4 endpoints a datagram may arrive from (address and port)
    LanAddrs,       \* the private ones among them (is_private_ipv4)
    V6Addrs,        \* IPv6 endpoints
    NoSock,         \* an n2n_sock_t whose family is 0
    ReqIps,         \* what edges put in dev_addr.net_addr; 0 asks for an automatic address
    NatTypes,       \* N2N_NAT_* values edges report
    PoolFirst,      \* 10.64.0.2
    PoolLast,       \* 10.64.0.254
    SafetyLimit,    \* the 65534 of the collision loop
    Timeout,        \* REGISTRATION_TIMEOUT, in purge periods
    StatsEnabled,   \* sss->traffic_stats_enabled
    Moves           \* may an edge that is still registered come back with another community?

ASSUME PoolAssumption == /\ PoolFirst \in Nat \ {0}
                         /\ PoolLast \in Nat
                         /\ PoolFirst <= PoolLast
                         /\ SafetyLimit \in Nat
                         /\ SafetyLimit >= PoolLast - PoolFirst

ASSUME AddrAssumption == /\ LanAddrs \subseteq V4Addrs
                         /\ V4Addrs \cap V6Addrs = {}
                         /\ NoSock \notin V4Addrs \cup V6Addrs

ASSUME InputAssumption == /\ IsFiniteSet(Macs)
                          /\ ReqIps \subseteq Nat
                          /\ NatTypes \subseteq Nat
                          /\ Timeout \in Nat
                          /\ StatsEnabled \in BOOLEAN
                          /\ Moves \in BOOLEAN

VARIABLES
    edges,      \* sss->edges, keyed by MAC (find_peer_by_mac sees one entry per MAC)
    stats,      \* sss->comm_stats, keyed by community: the allocator's part of it
    out,        \* what the last handler sent: the reply, and who was told of whom
    lastAuto,   \* history: the address last assigned automatically to a MAC in a community
    held        \* history: the addresses held in a community when its stats entry was made

vars == <<edges, stats, out, lastAuto, held>>

Addrs    == V4Addrs \cup V6Addrs
Socks    == Addrs \cup {NoSock}
Pool     == PoolFirst .. PoolLast
PoolSize == PoolLast - PoolFirst + 1

NatSymmetric == 2

-----------------------------------------------------------------------------
(* Addresses *)

\* Mutant: connect_family is always IPv4.
FamilyV4(a) == 4

Family(a) == IF a \in V6Addrs THEN 6 ELSE 4

Push(socks, a) == IF a = NoSock THEN socks ELSE Append(socks, a)

\* sockets[] has room for two entries.  A third one lands on the fields that
\* follow the array: nat_type takes the family byte of the LAN socket (AF_INET,
\* which reads as N2N_NAT_SYMMETRIC) and connect_family a zero byte of it.
StoreSockets(e, socks) ==
    IF Len(socks) > 2
      THEN [e EXCEPT !.socks = socks, !.nat = NatSymmetric, !.cfam = 0]
      ELSE [e EXCEPT !.socks = socks]

\* The family of the primary registration, inferred when connect_family is 0.
ExistingFamily(e) ==
    IF e.cfam # 0 THEN e.cfam
    ELSE IF e.sock # NoSock THEN 4
    ELSE IF e.sock6 # NoSock THEN 6 ELSE 0

AddrChanged(e, a) == a # (IF a \in V6Addrs THEN e.sock6 ELSE e.sock)

SetAddr(e, a) == IF a \in V6Addrs THEN [e EXCEPT !.sock6 = a]
                                  ELSE [e EXCEPT !.sock = a]

SeesSameLan(a, local) == local = a /\ a \in LanAddrs

-----------------------------------------------------------------------------
(* The per-community allocator *)

\* The empty table.
Empty == [x \in {} |-> x]

NewStats == [next |-> PoolFirst, map |-> Empty, active |-> FALSE]

StatsOf(c) == IF c \in DOMAIN stats THEN stats[c] ELSE NewStats

\* A function with one more (or one replaced) entry, and one without some.
Put(f, x, v) == [y \in DOMAIN f \cup {x} |-> IF y = x THEN v ELSE f[y]]
Drop(f, S)   == [y \in DOMAIN f \ S |-> f[y]]

HeldIn(c)    == {edges[m].ip : m \in {x \in DOMAIN edges : edges[x].comm = c}}
Taken(m, c)  == {edges[x].ip : x \in {y \in DOMAIN edges \ {m} : edges[y].comm = c}}

\* The address k iterations ahead of next_ip; the last octet wraps to .2.
Slot(next, k) == PoolFirst + ((next - PoolFirst + k) % PoolSize)

\* Mutant: the address is not compared with the ones in use.
StopsUnchecked(next, taken, k) == k = 0

\* The collision loop stops at its iteration k: the first address no other
\* edge of the community holds, or whatever comes when the safety count ends it.
StopsAt(next, taken, k) ==
    /\ \/ Slot(next, k) \notin taken
       \/ k = SafetyLimit
    /\ \A j \in 0 .. (k - 1) : Slot(next, j) \in taken

\* get_community_stats: the entry is made when it is missing, and the history
\* variable notes who holds what at that moment.
TouchStats(c, s) ==
    /\ stats' = Put(stats, c, s)
    /\ held' = IF c \in DOMAIN stats THEN held ELSE [held EXCEPT ![c] = HeldIn(c)]

-----------------------------------------------------------------------------
(* REGISTER_SUPER *)

Quiet == [reply |-> "none", pushed |-> {}]

Others(m, c) == {x \in DOMAIN edges \ {m} : edges[x].comm = c}

Conflict(m, c, req) == req # 0 /\ req \in Taken(m, c)

\* A static request that another member of the community holds is refused.
RegisterNak(m, c, req) ==
    /\ Conflict(m, c, req)
    /\ out' = [reply |-> "nak", pushed |-> {}]
    /\ UNCHANGED <<edges, stats, lastAuto, held>>

NewEdge(c, a, local, gua, nat, ip) ==
    [comm  |-> c,
     ip    |-> ip,
     sock  |-> IF a \in V6Addrs THEN NoSock ELSE a,
     sock6 |-> IF a \in V6Addrs THEN a ELSE gua,
     cfam  |-> Family(a),
     socks |-> Push(<<a>>, local),
     lan   |-> SeesSameLan(a, local),
     nat   |-> nat,
     age   |-> 0]

AckNew == [reply |-> "ack", pushed |-> {}]

\* Unknown MAC, address named by the edge.
RegisterStatic(m, c, a, local, gua, nat, req) ==
    /\ m \notin DOMAIN edges
    /\ req # 0
    /\ ~Conflict(m, c, req)
    /\ edges' = Put(edges, m, NewEdge(c, a, local, gua, nat, req))
    /\ out' = AckNew
    /\ UNCHANGED <<stats, lastAuto, held>>

\* Unknown MAC, automatic address: the community's cached one ...
RegisterCached(m, c, a, local, gua, nat) ==
    /\ m \notin DOMAIN edges
    /\ m \in DOMAIN StatsOf(c).map
    /\ edges' = Put(edges, m, NewEdge(c, a, local, gua, nat, StatsOf(c).map[m]))
    /\ lastAuto' = [lastAuto EXCEPT ![c] = Put(@, m, StatsOf(c).map[m])]
    /\ out' = AckNew
    /\ UNCHANGED <<stats, held>>

\* ... or the next free one of the pool.
RegisterAuto(m, c, a, local, gua, nat) ==
    /\ m \notin DOMAIN edges
    /\ m \notin DOMAIN StatsOf(c).map
    /\ \E k \in 0 .. SafetyLimit :
         LET s  == StatsOf(c)
             ip == Slot(s.next, k)
         IN  /\ StopsAt(s.next, Taken(m, c), k)
             /\ edges' = Put(edges, m, NewEdge(c, a, local, gua, nat, ip))
             /\ TouchStats(c, [s EXCEPT !.next = Slot(s.next, k + 1),
                                        !.map = Put(@, m, ip)])
             /\ lastAuto' = [lastAuto EXCEPT ![c] = Put(@, m, ip)]
    /\ out' = AckNew

\* Known MAC: the reported NAT type and a changed static address are stored
\* first, whatever follows.
Refreshed(e, nat, req) ==
    [e EXCEPT !.nat = IF nat # 0 THEN nat ELSE @,
              !.ip  = IF req # 0 THEN req ELSE @,
              !.age = 0]

\* The other address family of a known edge: its address is stored, the
\* community and the primary family stay.
AltFamily(e, a, local) ==
    LET f == SetAddr(e, a)
    IN  StoreSockets(f, Push(Push(Push(<<>>, f.sock), f.sock6), local))

\* Same family (or no family known): the registration moves.
Moved(e, c, a, local, gua) ==
    LET f == SetAddr([e EXCEPT !.comm = c, !.cfam = Family(a)], a)
        g == IF a \notin V6Addrs /\ f.sock6 = NoSock THEN [f EXCEPT !.sock6 = gua] ELSE f
    IN  [g EXCEPT !.lan = @ \/ SeesSameLan(a, local),
                  !.socks = Push(<<a>>, local)]

\* natDue: has the NAT type not been pushed for five minutes?
RegisterKnown(m, c, a, local, gua, nat, req, natDue) ==
    /\ m \in DOMAIN edges
    /\ Moves \/ edges[m].comm = c
    /\ ~Conflict(m, c, req)
    /\ LET e    == Refreshed(edges[m], nat, req)
           alt  == ExistingFamily(e) # 0 /\ Family(a) # ExistingFamily(e)
           same == e.comm = c /\ ~AddrChanged(e, a)
           push == CASE same -> nat # 0 /\ (nat # edges[m].nat \/ natDue)
                     [] ~same /\ alt -> FALSE
                     [] OTHER -> TRUE
       IN  /\ edges' = [edges EXCEPT ![m] =
                          CASE same -> e
                            [] ~same /\ alt -> AltFamily(e, a, local)
                            [] OTHER -> Moved(e, c, a, local, gua)]
           /\ out' = [reply |-> "ack", pushed |-> IF push THEN Others(m, c) ELSE {}]
    /\ UNCHANGED <<stats, lastAuto, held>>

\* A member of a community that belongs to an online big brother is refused,
\* and an entry it still holds here is dropped at once.
RefuseSn1(m) ==
    /\ m \in DOMAIN edges
    /\ edges' = Drop(edges, {m})
    /\ out' = [reply |-> "ack", pushed |-> {}]
    /\ UNCHANGED <<stats, lastAuto, held>>

-----------------------------------------------------------------------------
(* The other handlers that touch the table *)

Deregister(m) ==
    /\ m \in DOMAIN edges
    /\ edges' = Drop(edges, {m})
    /\ out' = Quiet
    /\ UNCHANGED <<stats, lastAuto, held>>

\* The stored endpoint of the datagram's family follows the data, if there
\* is one; nothing else is refreshed.
FollowSender(e, a) ==
    IF (IF a \in V6Addrs THEN e.sock6 ELSE e.sock) # NoSock /\ AddrChanged(e, a)
      THEN [SetAddr(e, a) EXCEPT !.age = 0]
      ELSE e

\* PACKET of community c, sent by m from address a (a = NoSock: it comes from
\* a supernode and says nothing about m's address).  It always makes the stats
\* entry; counted: was it sent on and charged to the community?
Packet(m, c, a, counted) ==
    /\ edges' = IF m \in DOMAIN edges /\ a # NoSock
                  THEN [edges EXCEPT ![m] = FollowSender(@, a)] ELSE edges
    /\ counted => StatsEnabled /\ DOMAIN edges # {}
    /\ TouchStats(c, [StatsOf(c) EXCEPT !.active = @ \/ counted])
    /\ out' = Quiet
    /\ UNCHANGED lastAuto

-----------------------------------------------------------------------------
(* Housekeeping: a purge period passes and the loop's tail runs. *)

\* Mutant: entries are kept for ever.
ExpiredNever(m) == FALSE

Expired(m) == edges[m].age + 1 > Timeout

\* The count stops one past Timeout (only a mutant gets there).
Aged(E) == [m \in DOMAIN E |-> [E[m] EXCEPT !.age = IF @ > Timeout THEN @ ELSE @ + 1]]

\* idle: the communities whose thirty-day window has just run empty.
Purgeable(idle) == {c \in DOMAIN stats : c \in idle \/ ~stats[c].active}

Tick(idle) ==
    /\ edges' = Aged(Drop(edges, {m \in DOMAIN edges : Expired(m)}))
    /\ stats' = IF StatsEnabled THEN Drop(stats, Purgeable(idle)) ELSE stats
    /\ out' = Quiet
    /\ UNCHANGED <<lastAuto, held>>

-----------------------------------------------------------------------------
Init ==
    /\ edges = Empty
    /\ stats = Empty
    /\ out = Quiet
    /\ lastAuto = [c \in Communities |-> Empty]
    /\ held = [c \in Communities |-> {}]

Register(m, c) ==
    \E a \in Addrs, local \in LanAddrs \cup {NoSock}, gua \in V6Addrs \cup {NoSock},
       nat \in NatTypes, req \in ReqIps :
        \/ RegisterNak(m, c, req)
        \/ RegisterStatic(m, c, a, local, gua, nat, req)
        \/ req = 0 /\ RegisterCached(m, c, a, local, gua, nat)
        \/ req = 0 /\ RegisterAuto(m, c, a, local, gua, nat)
        \/ \E natDue \in BOOLEAN : RegisterKnown(m, c, a, local, gua, nat, req, natDue)

Next ==
    \/ \E m \in Macs, c \in Communities : Register(m, c)
    \/ \E m \in Macs : RefuseSn1(m)
    \/ \E m \in Macs : Deregister(m)
    \/ \E m \in Macs, c \in Communities, a \in Socks, counted \in BOOLEAN :
         Packet(m, c, a, counted)
    \/ \E idle \in SUBSET Communities : Tick(idle)

Spec == Init /\ [][Next]_vars

\* The loop wakes at least every 100 ms and reads the clock, so housekeeping
\* is never put off for ever.  Nothing is assumed of the edges.
FairSpec == Spec /\ WF_vars(\E idle \in SUBSET Communities : Tick(idle))

-----------------------------------------------------------------------------
(* Properties *)

EdgeRec == [comm : Communities, ip : Nat,
            sock : V4Addrs \cup {NoSock}, sock6 : V6Addrs \cup {NoSock},
            cfam : {0, 4, 6}, socks : Seq(Addrs), lan : BOOLEAN,
            nat : NatTypes \cup {NatSymmetric}, age : 0 .. Timeout]

Grants == UNION {[D -> Pool] : D \in SUBSET Macs}

StatsRec == [next : Pool, map : Grants, active : BOOLEAN]

PartialFn(f, S, T) == DOMAIN f \subseteq S /\ f \in [DOMAIN f -> T]

\* Type invariant of the edge table and of the allocator (struct peer_info,
\* struct community_stats).
TypeOK ==
    /\ PartialFn(edges, Macs, EdgeRec)
    /\ PartialFn(stats, Communities, StatsRec)
    /\ out \in [reply : {"none", "ack", "nak"}, pushed : SUBSET Macs]
    /\ lastAuto \in [Communities -> Grants]
    /\ held \in [Communities -> SUBSET Nat]

\* No two registered edges of a community hold the same virtual address:
\* what the conflict checks of update_edge and the NAK of REGISTER_SUPER are for.
UniqueIp ==
    \A m1, m2 \in DOMAIN edges :
        m1 # m2 /\ edges[m1].comm = edges[m2].comm => edges[m1].ip # edges[m2].ip

\* An edge that is assigned an address automatically gets the one it got
\* before in that community (the purpose of mac_ip_map).
StableIp ==
    [][\A c \in Communities : \A m \in DOMAIN lastAuto[c] :
          m \in DOMAIN lastAuto'[c] /\ lastAuto'[c][m] = lastAuto[c][m]]_vars

\* An edge that stops contacting the supernode leaves the table: it is
\* absent, or has just been heard, again and again.
Expires ==
    \A m \in Macs : []<>(m \notin DOMAIN edges \/ edges[m].age = 0)

\* The address the supernode sends to is the one connect_family names:
\* an entry never has a primary family without an endpoint in it.
PrimaryKnown ==
    \A m \in DOMAIN edges :
        /\ edges[m].cfam = 4 => edges[m].sock # NoSock
        /\ edges[m].cfam = 6 => edges[m].sock6 # NoSock
        /\ edges[m].cfam = 0 => edges[m].sock # NoSock /\ edges[m].sock6 # NoSock

-----------------------------------------------------------------------------
(* The inductive invariant behind UniqueIp *)

\* How a deployment avoids duplicate addresses: edges keep their community
\* while registered, static addresses are taken outside the pool, and the pool
\* is more than twice the number of edges that may ever show up.
SafeDeployment ==
    /\ ~Moves
    /\ (ReqIps \ {0}) \cap Pool = {}
    /\ 2 * Cardinality(Macs) < PoolSize

Image(f) == {f[x] : x \in DOMAIN f}

Pooled(m, c) == edges[m].comm = c /\ edges[m].ip \in Pool

\* The state of one community's allocator: addresses granted since the entry
\* was made lie below next_ip, distinct, and whatever else lies below it was
\* held when the entry was made (held); an edge holds its granted address, or,
\* if it has none, one it held before, which was not granted to another.
AllocOK(c, s, h) ==
    /\ \A m \in DOMAIN s.map : s.map[m] < s.next
    /\ \A m1, m2 \in DOMAIN s.map : s.map[m1] = s.map[m2] => m1 = m2
    /\ PoolFirst .. (s.next - 1) \subseteq Image(s.map) \cup h
    /\ IsFiniteSet(h) /\ Cardinality(h) <= Cardinality(Macs)
    /\ \A m \in DOMAIN edges :
         Pooled(m, c) => IF m \in DOMAIN s.map
                           THEN edges[m].ip = s.map[m]
                           ELSE edges[m].ip \in h \ Image(s.map)

\* Inductive under SafeDeployment; the pool never wraps (next_ip stays in it).
AllocInv == /\ TypeOK
            /\ UniqueIp
            /\ \A c \in DOMAIN stats : AllocOK(c, stats[c], held[c])
            /\ \A m \in DOMAIN edges : edges[m].ip \in Pool \cup (ReqIps \ {0})

\* Inductive when entries are never purged: what was ever assigned
\* automatically is still in the community's mac_ip_map.
GrantsKept ==
    \A c \in Communities : \A m \in DOMAIN lastAuto[c] :
        m \in DOMAIN StatsOf(c).map /\ StatsOf(c).map[m] = lastAuto[c][m]
=============================================================================
