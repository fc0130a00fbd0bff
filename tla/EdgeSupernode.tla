--------------------------- MODULE EdgeSupernode ---------------------------
(***************************************************************************)
(* How an edge stays registered (src/src/edge.c, update_supernode_reg and    *)
(* the handler of REGISTER_SUPER_ACK): the list of supernodes, retries,       *)
(* ask_backup, failover to the next supernode and the return to the first.    *)
(*                                                                         *)
(* A request in net may be answered any number of times (the alternate        *)
(* family gets a copy), late, or never.  Only requests that carry one of the  *)
(* two current cookies are kept: the answer to any other is ignored.          *)
(*                                                                         *)
(* The NAT verdict is final, so that no probe of the classifier is out        *)
(* (EdgeNat has those), and the edge uses UDP.  Names resolve at once.        *)
(***************************************************************************)
EXTENDS Integers, Sequences, SequencesExt

CONSTANTS
    Configured,     \* the -l entries, sn_ip_array at the start
    Sn1,            \* the first of them, by name
    Homes,          \* the addresses Sn1 has in turn; any other name is its own address
    Backup,         \* the name of its backup that sn1 puts in its ACK
    NoAddr,
    Domain,         \* re_resolve_supernode_ip: Sn1 is a domain name
    Capacity,       \* N2N_EDGE_NUM_SUPERNODES
    Attempts,       \* N2N_EDGE_SUP_ATTEMPTS
    Fast,           \* register_lifetime / 10: 12 seconds
    Period,         \* 30 seconds
    Cooldown        \* 300 seconds

SupernodeAssumption ==
    /\ Configured \in Seq({Configured[i] : i \in DOMAIN Configured}) \ {<<>>}
    /\ Configured[1] = Sn1 /\ Len(Configured) <= Capacity
    /\ NoAddr \notin Homes /\ Homes # {} /\ Domain \in BOOLEAN
    /\ {Capacity, Attempts, Fast, Period, Cooldown} \subseteq Nat \ {0}
    /\ Fast < Period /\ Period < Cooldown

VARIABLES
    list,       \* sn_ip_array
    idx,        \* sn_idx, from 1
    addr,       \* supernode
    query,      \* sn_query: the address of sn2, once there is one
    wait,       \* sn_wait
    acked,      \* sn_ack_count > 0
    asks,       \* sn_ask_backup
    failed,     \* sn_all_failed
    attempts,   \* sup_attempts
    everOk,     \* sn1_ever_ok
    learnt,     \* sn_ak_parsed
    probeAddr,  \* sn1_probe_addr
    req, probe, \* time since last_register_req and last_primary_probe
    net,        \* requests with a current cookie: "last" is last_cookie, "probe" sn_probe_cookie
    home,       \* where Sn1 is
    report,     \* where its backup believes it is
    running,    \* the edge has not exited
    ran,        \* has the main loop come round since the last tick?
    missed      \* history: registrations since one was answered

state == <<list, idx, addr, query, wait, acked, asks, failed, attempts, everOk, learnt, probeAddr>>
vars  == <<state, req, probe, net, home, report, running, ran, missed>>

\* supernode2addr
Resolve(n) == IF n = Sn1 THEN home ELSE n

Counted(k) == missed' = IF missed + k > Attempts + 1 THEN Attempts + 1 ELSE missed + k

-----------------------------------------------------------------------------
(* send_register_super.  A new cookie makes the answers to the old one stale. *)

To(s, c) == [to |-> s, cookie |-> c]

Fresh(n, s) == {r \in n : r.cookie = "probe"} \cup {To(s, "last")}
Again(n, s) == n \cup {To(s, "last")}

\* A registration with a new cookie at s, after which the edge waits.
Register(n, s) ==
    /\ net' = Fresh(n, s)
    /\ wait' = TRUE /\ acked' = FALSE /\ req' = 0

\* sn_switch_to
sn_switch_to(i) == idx' = i /\ addr' = Resolve(list[i]) /\ attempts' = Attempts

-----------------------------------------------------------------------------
(* update_supernode_reg *)

Cooled == /\ failed /\ idx = 1 /\ Len(list) >= 2 /\ query # NoAddr
          /\ req > Cooldown

\* Phase 1.  The registration with sn1 replaces the cookie that sn2 was asked
\* with.
Phase1 ==
    /\ Cooled
    /\ failed' = FALSE
    /\ IF Domain THEN /\ asks' = TRUE /\ attempts' = Attempts
                      /\ Register(net, addr)
                      /\ UNCHANGED <<idx, addr>>
       ELSE /\ sn_switch_to(2) /\ Register(net, Resolve(list[2]))
            /\ UNCHANGED asks
    /\ Counted(1)
    /\ UNCHANGED <<list, query, everOk, learnt, probeAddr, probe>>

\* Phase 2: sn2 and sn1 are asked with one cookie; after the last attempt the
\* edge fails over.  rebuilds: nat_autorecover finds that its socket is to be
\* renewed and registers with it.
Phase2(rebuilds) ==
    /\ ~Cooled /\ asks
    /\ rebuilds => attempts = 0 /\ req > Period
    /\ IF req <= Period THEN UNCHANGED <<state, req, net, missed>>
       ELSE /\ wait' = TRUE /\ req' = 0
            /\ IF attempts = 0
               THEN /\ sn_switch_to(2) /\ asks' = FALSE
                    /\ IF rebuilds THEN net' = Fresh(net, Resolve(list[2])) /\ acked' = FALSE
                       ELSE net' = Again(Again(net, query), addr) /\ acked' = acked
               ELSE /\ attempts' = attempts - 1
                    /\ net' = Again(Again(net, query), addr)
                    /\ UNCHANGED <<idx, addr, asks, acked>>
            /\ Counted(1)
            /\ UNCHANGED <<list, query, failed, everOk, learnt, probeAddr>>
    /\ UNCHANGED probe

\* Phase 3: away from sn1, it is probed every 30 seconds.
ProbeDue == Len(list) >= 2 /\ idx # 1 /\ probe > Period

Probed == IF ProbeDue THEN {r \in net : r.cookie = "last"} \cup {To(home, "probe")} ELSE net

\* Mutant: the failback probe goes to the supernode in use.
ProbesWhereItIs ==
    /\ probe' = IF ProbeDue THEN 0 ELSE probe
    /\ probeAddr' = IF ProbeDue THEN addr ELSE probeAddr

Phase3 ==
    /\ probe' = IF ProbeDue THEN 0 ELSE probe
    /\ probeAddr' = IF ProbeDue THEN home ELSE probeAddr

\* Phase 4: the registration of every 30 seconds.
Phase4 ==
    /\ req > Period
    /\ attempts' = Attempts
    /\ Register(Probed, addr)
    /\ UNCHANGED <<idx, addr, asks, failed>>

\* Mutant: the attempts are not checked.
RetryForEver ==
    /\ attempts' = attempts - 1
    /\ Register(Probed, addr)
    /\ UNCHANGED <<idx, addr, asks, failed>>

\* Phase 5: no answer yet.  Try again, ask sn2 where sn1 is, or walk the list;
\* at its end start over.
Retry ==
    /\ attempts > 0
    /\ attempts' = attempts - 1
    /\ Register(Probed, addr)
    /\ UNCHANGED <<idx, addr, asks, failed>>

AskBackup ==
    /\ attempts = 0 /\ idx = 1 /\ Len(list) >= 2 /\ everOk /\ Domain
    /\ asks' = TRUE /\ attempts' = Attempts
    /\ net' = Again(Fresh(Probed, query), addr)
    /\ wait' = TRUE /\ acked' = FALSE /\ req' = 0
    /\ UNCHANGED <<idx, addr, failed>>

\* Mutant: the last entry of the list is never reached.
SkipsTheLast == IF idx < Len(list) - 1 THEN idx + 1 ELSE 1

NextOne == IF idx < Len(list) THEN idx + 1 ELSE 1

\* Mutant: the last attempt is not waited for.
FailOverEarly ==
    /\ attempts <= 1 /\ ~(idx = 1 /\ Len(list) >= 2 /\ everOk /\ Domain)
    /\ sn_switch_to(NextOne)
    /\ failed' = (failed \/ idx = Len(list))
    /\ Register(Probed, Resolve(list[NextOne]))
    /\ UNCHANGED asks

FailOver ==
    /\ attempts = 0 /\ ~(idx = 1 /\ Len(list) >= 2 /\ everOk /\ Domain)
    /\ sn_switch_to(NextOne)
    /\ failed' = (failed \/ idx = Len(list))
    /\ Register(Probed, Resolve(list[NextOne]))
    /\ UNCHANGED asks

Phase5 == /\ req <= Period /\ wait /\ req > Fast
          /\ Retry \/ AskBackup \/ FailOver

NotDue == /\ req <= Period /\ ~(wait /\ req > Fast)
          /\ net' = Probed
          /\ UNCHANGED <<idx, addr, wait, acked, asks, failed, attempts, req>>

Normal ==
    /\ ~Cooled /\ ~asks
    /\ Phase3
    /\ \/ (Phase4 \/ Phase5) /\ Counted(1)
       \/ NotDue /\ UNCHANGED missed
    /\ UNCHANGED <<list, query, everOk, learnt>>

MainLoop ==
    /\ running /\ ~ran
    /\ Phase1 \/ (\E rebuilds \in BOOLEAN : Phase2(rebuilds)) \/ Normal
    /\ ran' = TRUE
    /\ UNCHANGED <<home, report, running>>

\* A punch round and the push of a new NAT type register at once; the latter
\* may ask sn2 after that, with another cookie.  The edge does not wait for it.
Reregister(s) ==
    /\ running /\ s \in {addr, query} \ {NoAddr}
    /\ net' = Fresh(net, s)
    /\ acked' = FALSE
    /\ UNCHANGED <<list, idx, addr, query, wait, asks, failed, attempts, everOk, learnt, probeAddr>>
    /\ UNCHANGED <<req, probe, home, report, running, ran, missed>>

\* check_supernode_domain_and_update
ReResolve ==
    /\ running /\ Domain /\ addr # Resolve(list[idx])
    /\ addr' = Resolve(list[idx])
    /\ attempts' = Attempts
    /\ Register(net, Resolve(list[idx]))
    /\ Counted(1)
    /\ UNCHANGED <<list, idx, query, asks, failed, everOk, learnt, probeAddr>>
    /\ UNCHANGED <<probe, home, report, running, ran>>

-----------------------------------------------------------------------------
(* REGISTER_SUPER_ACK *)

Gate == running /\ (wait \/ acked)

\* sn1 answers the probe: back to it.
AckProbe(r) ==
    /\ Gate
    /\ r.cookie = "probe" /\ Len(list) >= 2 /\ idx # 1 /\ r.to # addr /\ r.to = probeAddr
    /\ addr' = probeAddr /\ idx' = 1
    /\ asks' = FALSE /\ acked' = FALSE /\ wait' = FALSE
    /\ attempts' = Attempts
    /\ missed' = 0
    /\ UNCHANGED <<list, query, failed, everOk, learnt, probeAddr, req, net>>

\* The first answer while sn2 is asked where sn1 is.
AckAsked(r) ==
    /\ asks /\ r.to \in {query, addr} /\ (r.to = addr /\ addr # query => idx = 1)
    /\ IF r.to = query /\ report \notin {NoAddr, addr}
       THEN addr' = report /\ idx' = 1 /\ attempts' = Attempts /\ Register(net, report)
       ELSE sn_switch_to(2) /\ Register(net, Resolve(list[2]))
    /\ missed' = 1
    /\ UNCHANGED <<list, query, learnt>>

\* Any other first answer.  names: it holds the name of sn1's backup, which
\* becomes the second of the list.
AckPlain(r, names) ==
    /\ ~(asks /\ r.to \in {query, addr})
    /\ wait' = FALSE /\ acked' = TRUE /\ missed' = 0
    /\ learnt' = (learnt \/ (idx = 1 /\ names))
    /\ IF idx = 1 /\ names /\ ~learnt /\ Len(list) < Capacity /\ ~Contains(list, Backup)
       THEN list' = InsertAt(list, 2, Backup) /\ query' = Resolve(Backup)
       ELSE UNCHANGED <<list, query>>
    /\ UNCHANGED <<idx, addr, attempts, net, req>>

AckFirst(r, names) ==
    /\ Gate /\ ~acked /\ r.cookie = "last"
    /\ everOk' = (everOk \/ idx = 1)
    /\ AckAsked(r) \/ AckPlain(r, names)
    /\ asks' = FALSE /\ failed' = FALSE
    /\ UNCHANGED probeAddr

\* A later answer changes nothing.
Ack(r) ==
    /\ \/ AckProbe(r)
       \/ \E names \in BOOLEAN : AckFirst(r, names)
    /\ UNCHANGED <<probe, home, report, running, ran>>

\* REGISTER_SUPER_NAK: the address is taken, and the edge exits.
Nak(r) ==
    /\ Gate /\ r = To(addr, "last")
    /\ running' = FALSE
    /\ UNCHANGED <<state, req, probe, net, home, report, ran, missed>>

-----------------------------------------------------------------------------
(* Time, and the world *)

Older(age, by, limit) == IF age + by > limit THEN limit ELSE age + by

\* The loop comes round once in a tick at the least.
Pass(by) ==
    /\ running
    /\ ran' = FALSE
    /\ req' = Older(req, by, Cooldown + 1)
    /\ probe' = Older(probe, by, Period + 1)
    /\ UNCHANGED <<state, net, home, report, running, missed>>

Tick  == ran /\ Pass(1)

\* The machine was suspended.
Sleep == Pass(Cooldown + 1)

\* sn1 gets another address.
Move(a) ==
    /\ running /\ Domain /\ a # home
    /\ home' = a
    /\ UNCHANGED <<state, req, probe, net, report, running, ran, missed>>

\* Its backup hears of that, or forgets it.
Report(a) ==
    /\ running /\ a # report
    /\ report' = a
    /\ UNCHANGED <<state, req, probe, net, home, running, ran, missed>>

Init ==
    /\ list = Configured /\ idx = 1 /\ home \in Homes /\ addr = home /\ report = NoAddr
    /\ query = IF Len(Configured) >= 2 THEN Resolve(Configured[2]) ELSE NoAddr
    /\ wait = FALSE /\ acked = FALSE /\ asks = FALSE /\ failed = FALSE
    /\ attempts = Attempts /\ everOk = FALSE /\ learnt = FALSE
    /\ probeAddr = NoAddr
    /\ req = Cooldown + 1 /\ probe = Period + 1 /\ net = {}
    /\ running = TRUE /\ ran = FALSE /\ missed = 0

Next ==
    \/ MainLoop \/ Tick \/ Sleep \/ ReResolve
    \/ \E s \in {addr, query} : Reregister(s)
    \/ \E r \in net : Ack(r) \/ Nak(r)
    \/ \E a \in Homes : Move(a)
    \/ \E a \in Homes \cup {NoAddr} : Report(a)

Spec == Init /\ [][Next]_vars

\* The loop wakes every 10 ms and reads the clock.  Nothing is assumed of the
\* supernodes, the network or the name service.
FairSpec == Spec /\ WF_vars(MainLoop) /\ WF_vars(Tick)

-----------------------------------------------------------------------------
(* Properties *)

Names == {Configured[i] : i \in DOMAIN Configured} \cup {Backup}
Addresses == (Names \ {Sn1}) \cup Homes

\* The list never outgrows sn_ip_array, sn_idx names one of its entries and
\* sup_attempts never passes zero, which as a size_t would be no end of tries.
TypeOK ==
    /\ list \in Seq(Names) /\ Len(list) <= Capacity /\ idx \in DOMAIN list
    /\ addr \in Addresses /\ {query, probeAddr} \subseteq Addresses \cup {NoAddr}
    /\ {wait, acked, asks, failed, everOk, learnt, running, ran} \subseteq BOOLEAN
    /\ attempts \in 0 .. Attempts /\ missed \in 0 .. Attempts + 1
    /\ req \in 0 .. Cooldown + 1 /\ probe \in 0 .. Period + 1
    /\ net \subseteq [to : Addresses, cookie : {"last", "probe"}]
    /\ home \in Homes /\ report \in Homes \cup {NoAddr}

\* A supernode that answers is not left: outside ask_backup and the end of the
\* cooldown, the edge moves down its list only when all its attempts in a row
\* went unanswered, whatever cookies, probes and late answers were in between.
Loyal == [][idx' > idx /\ ~asks /\ ~Cooled => missed > Attempts]_vars

\* From some time on the machine is not suspended and sn1 stays where it is.
Calm == <>[](report \in {home, NoAddr}) /\ <>[][~Sleep /\ <<home, report>>' = <<home, report>>]_vars

\* s answers, sooner or later, registrations or probes that keep coming.
Answered(s, c) == \E r \in net : r = To(s, c) /\ ~asks /\ Ack(r)
AnswersAgain(s) == SF_vars(Answered(s, "last")) /\ SF_vars(Answered(s, "probe"))

\* One supernode of the list that answers is enough: though all the others are
\* silent, the edge is registered again and again.
Reaches == \A s \in {Configured[i] : i \in 2 .. Len(Configured)} :
    Calm /\ AnswersAgain(s) => []<>(missed = 0 \/ ~running)

\* Failback: when sn1 answers again at the address its name resolves to, the
\* edge returns to it and is registered there, wherever it had gone.
Returns == \A a \in Homes :
    Calm /\ <>[](home = a) /\ AnswersAgain(a) => []<>((idx = 1 /\ missed = 0) \/ ~running)

=============================================================================
