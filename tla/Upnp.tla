-------------------------------- MODULE Upnp --------------------------------
(***************************************************************************)
(* The port mapping an edge asks its gateway for: upnp.c and its callers   *)
(* in edge.c.  An attempt tries the three service names of an Internet     *)
(* Gateway Device, each with a search for a port that is not taken, then   *)
(* PCP, then NAT-PMP.  The mapping is a lease that the run loop renews; it *)
(* is removed by a worker thread when the edge exits.                      *)
(* The gateway is external: a table of leases, a set of protocols it       *)
(* speaks, requests and answers that may be lost, another host that takes  *)
(* and releases ports, and an edge that may be carried to another network. *)
(* An attempt takes no time on the scale of a lease, but every request of  *)
(* it is a step between which the other host acts.                         *)
(***************************************************************************)
EXTENDS Naturals, Sequences

CONSTANTS
    LowPort, TopPort,   \* the ports: the search wraps from the last to the first
    LocalPort,          \* the port of the edge's UDP socket
    UPNP_PORT_RETRY_MAX,
    UPNP_LEASE_TIME,
    Gateways,           \* the sets of protocols a gateway may speak
    MaxFaults           \* lost answers and changes of network

Ports == LowPort..TopPort
Services == <<"ip2", "ip1", "ppp">>     \* WANIPConnection:2, :1, WANPPPConnection:1
UPNP_RENEW_THRESHOLD == (UPNP_LEASE_TIME * 4) \div 5

UpnpAssumption ==
    /\ LowPort \in Nat \ {0} /\ TopPort \in Nat /\ LocalPort \in Ports
    \* A lease is renewed a whole second before it runs out (3600 s in the code).
    /\ UPNP_PORT_RETRY_MAX \in Nat \ {0} /\ UPNP_LEASE_TIME \in Nat /\ UPNP_LEASE_TIME > 5 /\ MaxFaults \in Nat
    /\ \A g \in Gateways : g \subseteq {"ip2", "ip1", "ppp", "pcp", "pmp"}

VARIABLES
    lease,      \* the gateway's table: who holds a port and for how long
    speaks,     \* what the gateway speaks
    cached,     \* s_ctrl_host: 0, or the network whose control URL is remembered
    net,        \* the network the edge is in
    mapped,     \* upnp_mapped_port
    last,       \* seconds since lastUpnpRenew
    job,        \* the attempt that is going on
    phase,      \* "start", "run", "exit", "gone"
    faults

vars == <<lease, speaks, cached, net, mapped, last, job, phase, faults>>

Free == [who |-> "nobody", left |-> 0, by |-> "none"]
Ours(p) == p \in Ports /\ lease[p].who = "edge"
NotOthers(p) == lease[p].who # "other"
Granted(by) == [who |-> "edge", left |-> UPNP_LEASE_TIME, by |-> by]

NoJob == [at |-> "none", svc |-> 0, port |-> 0, ext |-> 0, tried |-> 0]

\* upnp_map_port: the port that is asked for, and where the search starts.
Attempt(ext) == [at |-> "discover", svc |-> 1, port |-> ext, ext |-> ext, tried |-> 0]

Lost == faults < MaxFaults /\ faults' = faults + 1
Fine == faults' = faults

\* upnp_get_control_url: the description of the device names one of the services.
HasIgd == speaks \cap {"ip2", "ip1", "ppp"} # {}

\* tcp_request: a connection to the control URL that is remembered.
Reached == cached = net

Init ==
    /\ lease = [p \in Ports |-> Free] /\ speaks \in Gateways /\ cached = 0 /\ net = 1
    /\ mapped = 0 /\ last = UPNP_RENEW_THRESHOLD + 1 /\ phase = "start" /\ faults = 0
    /\ job = Attempt(LocalPort)

-----------------------------------------------------------------------------
(* One attempt, upnp_map_port.                                             *)

\* upnp_discover: a control URL that was found once is used for ever.
Discover ==
    /\ job.at = "discover"
    /\ \/ cached # 0 /\ job' = [job EXCEPT !.at = "check"] /\ Fine /\ UNCHANGED cached
       \/ cached = 0 /\ HasIgd /\ job' = [job EXCEPT !.at = "check"] /\ cached' = net /\ Fine
       \/ cached = 0 /\ (IF HasIgd THEN Lost ELSE Fine) /\ job' = [job EXCEPT !.at = "pcp"] /\ UNCHANGED cached
    /\ UNCHANGED <<lease, speaks, net, mapped, last, phase>>

\* upnp_igd_map: the next service, with the search from the start, or the next
\* protocol.
NextService ==
    IF job.svc < Len(Services)
    THEN [job EXCEPT !.at = "check", !.svc = @ + 1, !.port = job.ext, !.tried = 0]
    ELSE [job EXCEPT !.at = "pcp"]

\* The next port after one that is taken, while tries are left.
NextPort ==
    IF job.tried + 1 < UPNP_PORT_RETRY_MAX
    THEN [job EXCEPT !.port = IF @ < TopPort THEN @ + 1 ELSE LowPort, !.tried = @ + 1]
    ELSE NextService

\* upnp_igd_check_port: every answer but "mapped" means that the port is free,
\* also the fault of a gateway that does not know the service; no answer means
\* that it is not.
CheckPort ==
    /\ job.at = "check"
    /\ \/ /\ Reached /\ Fine
          /\ job' = IF Services[job.svc] \notin speaks \/ NotOthers(job.port)
                    THEN [job EXCEPT !.at = "add"] ELSE NextPort
       \/ (IF Reached THEN Lost ELSE Fine) /\ job' = NextPort
    /\ UNCHANGED <<lease, speaks, cached, net, mapped, last, phase>>

\* The attempt succeeds.  At start-up the port is remembered; a renewal drops
\* the port it was given (upnp_renew_port) and only notes the time.
Success(p) ==
    /\ job' = NoJob /\ phase' = "run" /\ mapped' = (IF phase = "start" THEN p ELSE mapped)
    /\ last' = IF phase = "start" THEN last ELSE 0

\* AddPortMapping.  A gateway refuses a service it does not have and a port of
\* another host.
upnp_soap_action(svc, p) == Reached /\ Services[svc] \in speaks /\ NotOthers(p)

AddPortMapping ==
    LET ok == upnp_soap_action(job.svc, job.port)
        made == [lease EXCEPT ![job.port] = Granted("igd")]
    IN  /\ job.at = "add"
        /\ \/ ok /\ lease' = made /\ Fine /\ Success(job.port)
           \/ /\ IF ok THEN lease' \in {made, lease} /\ Lost ELSE lease' = lease /\ Fine
              /\ job' = NextService /\ UNCHANGED <<mapped, last, phase>>
        /\ UNCHANGED <<speaks, cached, net>>

\* The port a PCP or NAT-PMP gateway gives: the one asked for, or one of its
\* own choice when another host has it.
Assigned == IF NotOthers(job.ext) THEN {job.ext} ELSE {p \in Ports : NotOthers(p)}

\* The attempt has failed.
Failure ==
    /\ job' = NoJob /\ phase' = "run" /\ mapped' = mapped
    /\ last' = IF phase = "start" THEN last ELSE 0

PcpFails == job' = [job EXCEPT !.at = "pmp"] /\ UNCHANGED <<mapped, last, phase>>

\* Two datagrams, then the next protocol.  An edge without a default gateway is
\* one whose gateway does not speak.
MapBy(proto, fails) ==
    /\ job.at = proto
    /\ \/ /\ proto \in speaks
          /\ \E p \in Assigned :
                /\ lease' = [lease EXCEPT ![p] = Granted(proto)]
                /\ (Fine /\ Success(p)) \/ (Lost /\ fails)
       \/ (IF proto \in speaks THEN Lost ELSE Fine) /\ fails /\ UNCHANGED lease
    /\ UNCHANGED <<speaks, cached, net>>

pcp_map == MapBy("pcp", PcpFails)
natpmp_map == MapBy("pmp", Failure)

-----------------------------------------------------------------------------
(* The run loop and the exit.                                              *)

\* Mutant: the lease is renewed when it has run out.
RenewLate == last > UPNP_LEASE_TIME

RenewDue == last > UPNP_RENEW_THRESHOLD

Renew ==
    /\ phase = "run" /\ job = NoJob /\ mapped # 0 /\ RenewDue
    /\ job' = Attempt(mapped)
    /\ UNCHANGED <<lease, speaks, cached, net, mapped, last, phase, faults>>

\* upnp_unmap_worker: the port that DeletePortMapping, PCP and NAT-PMP are given.
Deleted == mapped

\* edge_deinit starts the worker, if there is a mapping.
Exit ==
    /\ phase = "run" /\ job = NoJob
    /\ phase' = (IF mapped = 0 THEN "gone" ELSE "exit")
    /\ job' = IF mapped = 0 THEN job ELSE [NoJob EXCEPT !.at = "delete", !.port = Deleted]
    /\ mapped' = 0
    /\ UNCHANGED <<lease, speaks, cached, net, last, faults>>

Remove(p, by) == lease' = IF Ours(p) /\ lease[p].by = by THEN [lease EXCEPT ![p] = Free] ELSE lease

\* DeletePortMapping is asked of the first service only.
Delete ==
    /\ job.at = "delete"
    /\ \/ "ip2" \in speaks /\ cached \in {0, net} /\ Remove(job.port, "igd") /\ Fine
       \/ (IF "ip2" \in speaks /\ cached \in {0, net} THEN Lost ELSE Fine) /\ UNCHANGED lease
    /\ job' = [job EXCEPT !.at = "delete_pmp"]
    /\ UNCHANGED <<speaks, cached, net, mapped, last, phase>>

\* PCP and NAT-PMP name a mapping by its internal port; the worker gives the
\* external one.  PCP also wants the nonce the mapping was made with, which is
\* made anew for every request, and refuses.
DeletePmp ==
    /\ job.at = "delete_pmp"
    /\ \/ "pmp" \in speaks /\ job.port = LocalPort /\ Remove(LocalPort, "pmp") /\ Fine
       \/ (IF "pmp" \in speaks /\ job.port = LocalPort THEN Lost ELSE Fine) /\ UNCHANGED lease
    /\ job' = NoJob /\ phase' = "gone"
    /\ UNCHANGED <<speaks, cached, net, mapped, last>>

\* The process ends a second later, whether the worker is done or not.
GiveUp ==
    /\ phase = "exit" /\ Lost
    /\ job' = NoJob /\ phase' = "gone"
    /\ UNCHANGED <<lease, speaks, cached, net, mapped, last>>

-----------------------------------------------------------------------------
(* The gateway, the other host and the network.                            *)

Aged(l) == IF l.left > 1 THEN [l EXCEPT !.left = @ - 1] ELSE Free

\* A renewal that is due starts before the next second.
Tick ==
    /\ phase \in {"run", "gone"} /\ job = NoJob /\ ~(phase = "run" /\ mapped # 0 /\ RenewDue)
    /\ lease' = [p \in Ports |-> IF lease[p].who = "edge" THEN Aged(lease[p]) ELSE lease[p]]
    /\ last' = IF last > UPNP_LEASE_TIME THEN last ELSE last + 1
    /\ UNCHANGED <<speaks, cached, net, mapped, job, phase, faults>>

Other(p) ==
    /\ lease' = [lease EXCEPT ![p] = IF @ = Free THEN [who |-> "other", left |-> 1, by |-> "igd"] ELSE Free]
    /\ lease[p].who # "edge"
    /\ UNCHANGED <<speaks, cached, net, mapped, last, job, phase, faults>>

Moved ==
    /\ phase = "run" /\ job = NoJob /\ Lost
    /\ net' = net + 1 /\ lease' = [p \in Ports |-> Free]
    /\ UNCHANGED <<speaks, cached, mapped, last, job, phase>>

Next ==
    \/ Discover \/ CheckPort \/ AddPortMapping \/ pcp_map \/ natpmp_map
    \/ Renew \/ Exit \/ Delete \/ DeletePmp \/ GiveUp
    \/ Tick \/ Moved \/ \E p \in Ports : Other(p)

Spec == Init /\ [][Next]_vars

-----------------------------------------------------------------------------

TypeOK ==
    /\ mapped \in Ports \cup {0} /\ last \in 0..(UPNP_LEASE_TIME + 1)
    /\ \A p \in Ports : lease[p].left \in 0..UPNP_LEASE_TIME

\* As long as the gateway answers, the port the edge was given stays its own
\* until it exits: the renewals come before the lease runs out, find the port
\* again with whatever protocol gave it, and are not led to another one.
Held == faults = 0 /\ phase = "run" /\ mapped # 0 => Ours(mapped)

\* An edge that could talk to its gateway to the end leaves no mapping behind on
\* a device of the current generation, on whatever port its search ended.
LeavesNothing ==
    faults = 0 /\ phase = "gone" /\ "ip2" \in speaks => \A p \in Ports : Ours(p) => lease[p].by # "igd"
=============================================================================
