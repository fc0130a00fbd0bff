------------------------------ MODULE EdgeNat ------------------------------
(***************************************************************************)
(* How an edge finds out what its NAT is like (src/src/edge.c: nat_classify   *)
(* and the handlers that collect its evidence; src/src/sn.c: the helper       *)
(* bounce and the full-cone probe of the brother supernode).                  *)
(*                                                                         *)
(* The NAT itself is in the model: which port it shows to which destination,  *)
(* and whom it lets in.  The edge never sees it; the properties compare it    *)
(* with the verdict.                                                          *)
(*                                                                         *)
(* The edge stays on sn1 and reaches it over UDP (EdgeSupernode has failover).*)
(* A supernode answers a request when it is sent; the answers come in any      *)
(* order, late, or never: a lost one stays in net.  Timers may run out at any  *)
(* time after they are set.                                                   *)
(***************************************************************************)
EXTENDS Integers

CONSTANTS
    Nats,           \* the NATs: what the mapping and what the filter depends on; is sn1 on the
                    \* edge's own LAN; has the edge a fixed port (local_port # 0)
    MaxTries,       \* NAT_SYM_MAX_TRIES
    MaxRebuilds,    \* NAT_REBUILD_MAX_TRIES
    Troubles        \* bound: how often the user asks for a refresh or the NAT loses its mapping

ASSUME NatAssumption ==
    /\ Nats \subseteq [map : {"any", "ip", "port"}, filter : {"any", "ip", "port"},
                        inside : BOOLEAN, fixed : BOOLEAN]
    /\ MaxTries \in Nat \ {0} /\ {MaxRebuilds, Troubles} \subseteq Nat

\* Endpoints of the supernodes: the main ports, sn1's second port, the helper sockets.
Dests   == {"main1", "alt1", "main2"}
Ip(d)   == IF d \in {"main1", "alt1", "helper1"} THEN "sn1" ELSE "sn2"

None   == <<>>
Types  == {"unknown", "full", "restricted", "port", "symmetric"}

VARIABLES
    nat,    \* the NAT, sn1's place and the edge's -p option; never changes
    gen,    \* the mapping's generation: a new socket, or the NAT lost the old mapping
    sent,   \* whom the edge has sent to in this generation
    rec,    \* the endpoint sn1 has on record for the edge
    e,      \* the edge
    net,    \* answers on their way to the edge
    asked, dropped  \* count the refreshes and the lost mappings

vars == <<nat, gen, sent, rec, e, net, asked, dropped>>

\* The public endpoint that d sees the edge at; on the LAN it is the private one.
Seen(g, d) == IF nat.inside /\ Ip(d) = "sn1" THEN <<g, "private">>
              ELSE CASE nat.map = "any"  -> <<g, "">>
                     [] nat.map = "ip"   -> <<g, Ip(d)>>
                     [] nat.map = "port" -> <<g, d>>

\* nat_addr_private
Public(o) == o # None /\ o[2] # "private"

\* Is a packet from s to the endpoint let through?
Admits(m) ==
    LET via == {d \in sent : Seen(gen, d) = m.to}
    IN  /\ via # {}
        /\ \/ ~Public(m.to) \/ nat.filter = "any"
           \/ nat.filter = "ip" /\ \E d \in via : Ip(d) = Ip(m.from)
           \/ nat.filter = "port" /\ m.from \in via

-----------------------------------------------------------------------------
\* The operators below work on w, the part of the state that a handler changes.
Now     == [gen |-> gen, sent |-> sent, rec |-> rec, e |-> e, net |-> net]
Become(w) == /\ gen' = w.gen /\ sent' = w.sent /\ rec' = w.rec /\ e' = w.e /\ net' = w.net

\* What the supernode at d sends back: its ACK and, when asked, the helper's bounce, which
\* is left out where the NAT would never let it in.
Replies(w, d, cookie) ==
    LET o == Seen(w.gen, d)
    IN  {[k |-> "ack", from |-> d, cookie |-> cookie, to |-> o]}
        \cup IF w.e.bounce \/ nat.filter = "port" THEN {}
             ELSE {[k |-> "bounce", from |-> IF Ip(d) = "sn1" THEN "helper1" ELSE "helper2", to |-> o]}

\* sn1 registers the edge; for a new endpoint or on request it has its little brother probe it.
Probes(w, reprobe) ==
    LET o == Seen(w.gen, "main1")
    IN  IF (w.rec # o \/ reprobe) /\ Public(o)
        THEN {[k |-> "fc", from |-> s, to |-> o] :
                  s \in {"main2"} \cup IF nat.filter = "port" THEN {} ELSE {"helper2"}}
        ELSE {}

\* The cookie of earlier requests is forgotten, so their ACKs are as good as lost.
Forget(n, cookie) == {m \in n : m.k # "ack" \/ m.cookie # cookie}

\* send_register_super to sn1 with a new cookie.
RegisterSn1(w) ==
    [w EXCEPT !.sent = @ \cup {"main1"}, !.rec = Seen(w.gen, "main1"),
              !.net  = Forget(@, "last") \cup Replies(w, "main1", "last") \cup Probes(w, w.e.reprobe),
              !.e    = [@ EXCEPT !.reprobe = FALSE, !.acked = FALSE]]

\* The same to sn2, which is only told: sn2 ceases to be a stranger.
TellSn2(w) ==
    IF w.e.window THEN w
    ELSE [w EXCEPT !.sent = @ \cup {"main2"},
                   !.net  = Forget(@, "last") \cup Replies(w, "main2", "last"),
                   !.e    = [@ EXCEPT !.acked = FALSE]]

\* A new UDP socket: the NAT has no mapping for it yet.
NewSocket(w) == [w EXCEPT !.gen = @ + 1, !.sent = {}, !.net = {}]

Verdict(r) ==
    LET twins == Public(r.s1) /\ Public(r.s2)
        both  == r.s2 # None /\ r.alt # None
        reuse == both /\ r.s2 = r.alt
        cross == r.cross # None /\ r.s2 # None /\ r.cross # r.s2
    IN  IF twins /\ ~reuse /\ (both \/ r.s1 # r.s2) THEN "symmetric"
        ELSE IF r.fc /\ ~cross THEN "full"
        ELSE IF r.bounce THEN "restricted"
        ELSE IF twins THEN "port" ELSE "unknown"

nat_classify(w) ==
    LET t == Verdict(w.e)
    IN  IF w.e.final \/ (w.e.s1 = None /\ w.e.s2 = None) \/ t \in {w.e.type, "unknown"} THEN w
        ELSE TellSn2(RegisterSn1([w EXCEPT !.e.type = t]))

\* A packet from a port never written to got in; only a "port" verdict is reopened for it.
nat_note_helper_port(w) ==
    LET b == [w EXCEPT !.e.bounce = TRUE]
    IN  IF w.e.bounce THEN w
        ELSE IF ~w.e.final THEN nat_classify(b)
        ELSE IF w.e.type # "port" THEN b
        ELSE [nat_classify([b EXCEPT !.e.final = FALSE]) EXCEPT !.e.final = TRUE]

-----------------------------------------------------------------------------
\* Everything the edge has found out about its NAT is forgotten.
NoEvidence(r) ==
    [r EXCEPT !.type = "unknown", !.s1 = None, !.s2 = None, !.alt = None, !.cross = None,
              !.bounce = FALSE, !.fc = FALSE, !.window = TRUE, !.crossing = FALSE,
              !.tries = 0, !.final = FALSE]

Init ==
    /\ nat \in Nats
    /\ gen = 0 /\ sent = {} /\ rec = None /\ net = {} /\ asked = 0 /\ dropped = 0
    /\ e = [type |-> "unknown", s1 |-> None, s2 |-> None, alt |-> None, cross |-> None,
            bounce |-> FALSE, fc |-> FALSE, window |-> TRUE, crossing |-> FALSE,
            tries |-> 0, final |-> FALSE, pub |-> None, pending |-> FALSE,
            reprobe |-> FALSE, suppress |-> FALSE, revert |-> FALSE, rebuilds |-> 0,
            wait |-> FALSE, acked |-> FALSE]

\* update_supernode_reg, Phase 5: the periodic registration.
Keepalive ==
    /\ Become([RegisterSn1(Now) EXCEPT !.e.wait = TRUE])
    /\ UNCHANGED <<nat, asked, dropped>>

\* One more attempt; it closes the stranger window unless sn2's probe came through.
Attempt(r) ==
    [r EXCEPT !.tries = @ + 1, !.pending = TRUE, !.crossing = ~r.fc, !.window = @ /\ r.fc]

\* The twin probe, and the one to sn2 unless its own probe already came through.
SendTwins(w) ==
    LET cross == ~w.e.fc
    IN  [w EXCEPT !.sent = @ \cup {"main1", "alt1"} \cup IF cross THEN {"main2"} ELSE {},
                  !.net  = Forget(@, "probe") \cup Replies(w, "main1", "probe")
                           \cup Replies(w, "alt1", "probe")
                           \cup IF cross THEN Replies(w, "main2", "probe") ELSE {},
                  !.e    = Attempt(@)]

\* The end of an attempt; after the last one the verdict stays what it is.
GiveUp(r) == [r EXCEPT !.pending = FALSE, !.final = r.tries >= MaxTries]

\* Phase 2.5.  late: the attempt is older than NAT_SYM_RETRY_SECS; over: the stranger
\* window was opened more than NAT_STRANGER_SECS ago.
SymCheck(late, over) ==
    LET r == IF e.pending /\ late THEN GiveUp(e) ELSE e
        w == [Now EXCEPT !.e = r]
    IN  /\ e.s1 # None /\ ~e.final
        /\ Become(IF ~r.pending /\ over THEN SendTwins(w) ELSE w)
        /\ UNCHANGED <<nat, asked, dropped>>

-----------------------------------------------------------------------------
\* The ACK of a probe: which of the three observations it is depends on its sender.
ProbeEcho(w, m) ==
    LET c == CASE m.from = "main1" -> nat_classify([w EXCEPT !.e.s2 = m.to])
               [] m.from = "alt1"  -> nat_classify([w EXCEPT !.e.alt = m.to])
               [] m.from = "main2" -> IF w.e.crossing THEN nat_classify([w EXCEPT !.e.cross = m.to])
                                      ELSE w
    IN  IF c.e.s2 # None /\ c.e.alt # None
        THEN [c EXCEPT !.e.pending = FALSE, !.e.final = TRUE] ELSE c

\* Mutant: every first ACK counts as a change of our endpoint.
EveryAckResets(w, m) ==
    nat_classify([w EXCEPT !.e = [NoEvidence(w.e) EXCEPT !.acked = TRUE, !.wait = FALSE,
                                                           !.pub = m.to, !.s1 = m.to]])

\* The first ACK of a registration: has our public endpoint changed?
FirstAck(w, m) ==
    LET changed == w.e.pub # None /\ w.e.pub # m.to
        keep    == changed /\ w.e.suppress
        r == [w.e EXCEPT !.acked = TRUE, !.wait = FALSE, !.pub = m.to]
        a == [w EXCEPT !.e = IF changed THEN NoEvidence(r) ELSE r]
    IN  IF keep THEN [w EXCEPT !.e = [r EXCEPT !.suppress = FALSE]]
        ELSE IF m.from = "main2" THEN nat_classify([a EXCEPT !.e.s2 = m.to])
        ELSE nat_classify([a EXCEPT !.e.s1 = m.to])

Take(m) == [Now EXCEPT !.net = @ \ {m}]

RecvAck(m) ==
    /\ m.k = "ack" /\ Admits(m)
    /\ Become(IF m.cookie = "probe" /\ e.pending THEN ProbeEcho(Take(m), m)
              ELSE IF m.cookie = "last" /\ ~e.acked /\ (e.wait \/ e.pending)
              THEN FirstAck(Take(m), m) ELSE Take(m))
    /\ UNCHANGED <<nat, asked, dropped>>

\* handle_nat_bounce
RecvBounce(m) ==
    /\ m.k = "bounce" /\ Admits(m)
    /\ Become(IF nat.inside /\ Ip(m.from) = "sn1" THEN Take(m) ELSE nat_note_helper_port(Take(m)))
    /\ UNCHANGED <<nat, asked, dropped>>

\* Mutant: N2NF is taken for a stranger's packet whoever wrote to sn2 before.
AnyProbeCounts(w, m) == IF w.e.fc THEN w ELSE nat_classify([w EXCEPT !.e.fc = TRUE])

\* What N2NF proves: everything while sn2 is a stranger, afterwards what a bounce does.
handle_nat_fc(w, m) ==
    IF ~w.e.window THEN (IF m.from = "helper2" THEN nat_note_helper_port(w) ELSE w)
    ELSE IF w.e.fc THEN w ELSE nat_classify([w EXCEPT !.e.fc = TRUE])

\* sn2's main socket sends its probe three times: the message stays.
RecvFc(m) ==
    /\ m.k = "fc" /\ Admits(m)
    /\ Become(handle_nat_fc(IF m.from = "main2" THEN Now ELSE Take(m), m))
    /\ UNCHANGED <<nat, asked, dropped>>

-----------------------------------------------------------------------------
\* nat_refresh_rebuild.  bound: a random port could be bound; otherwise the old one is.
nat_refresh_rebuild(w, bound) ==
    LET r == [NoEvidence(w.e) EXCEPT !.pub = None, !.pending = FALSE, !.suppress = FALSE,
                                       !.reprobe = bound, !.revert = bound]
        n == NewSocket([w EXCEPT !.e = r])
    IN  IF bound THEN RegisterSn1(n) ELSE n

\* The management command "n".
Refresh(bound) ==
    /\ asked + dropped < Troubles /\ asked' = asked + 1
    /\ Become(nat_refresh_rebuild([Now EXCEPT !.e.rebuilds = 0], bound))
    /\ UNCHANGED <<nat, dropped>>

\* Evidence may still come: once more, from the beginning of the stranger window.
Extend(w) ==
    IF w.e.window THEN RegisterSn1([w EXCEPT !.e.pending = FALSE, !.e.tries = 0, !.e.reprobe = TRUE])
    ELSE w

\* The refresh is over: keep the verdict, forget the evidence, back to the fixed port.
Freeze(w) ==
    LET r == [w.e EXCEPT !.revert = FALSE, !.s1 = None, !.s2 = None, !.alt = None, !.cross = None,
                         !.bounce = FALSE, !.crossing = FALSE, !.final = TRUE, !.pending = FALSE]
        n == [w EXCEPT !.e = r]
    IN  IF ~nat.fixed THEN n
        ELSE [RegisterSn1(NewSocket([n EXCEPT !.e.suppress = TRUE])) EXCEPT !.e.wait = TRUE]

\* Mutant: an extension is not limited in time.
RevertUncapped(capped, bound) ==
    LET more == e.type = "unknown" /\ ~e.final /\ (e.fc \/ e.window)
    IN  /\ e.revert
        /\ Become(IF more THEN Extend(Now) ELSE Freeze(Now))
        /\ UNCHANGED <<nat, asked, dropped>>

\* run_loop, when nat_revert_at has come.  capped: NAT_REVERT_MAX_SECS are over.
Revert(capped, bound) ==
    LET more == /\ e.type = "unknown" /\ ~e.final /\ ~capped
                /\ e.fc \/ e.window \/ e.rebuilds < MaxRebuilds
    IN  /\ e.revert
        /\ Become(CASE more /\ (e.fc \/ e.window)  -> Extend(Now)
                    [] more /\ ~(e.fc \/ e.window) ->
                          nat_refresh_rebuild([Now EXCEPT !.e.rebuilds = @ + 1], bound)
                    [] ~more /\ e.pending /\ ~capped -> Now
                    [] OTHER -> Freeze(Now))
        /\ UNCHANGED <<nat, asked, dropped>>

\* The NAT forgets the mapping: an idle timeout, or it restarts.
Remap ==
    /\ asked + dropped < Troubles /\ dropped' = dropped + 1
    /\ gen' = gen + 1 /\ sent' = {} /\ net' = {}
    /\ UNCHANGED <<nat, rec, e, asked>>

Next ==
    \/ Keepalive
    \/ \E late, over \in BOOLEAN : SymCheck(late, over)
    \/ \E m \in net : RecvAck(m) \/ RecvBounce(m) \/ RecvFc(m)
    \/ \E bound \in BOOLEAN : Refresh(bound)
    \/ \E capped, bound \in BOOLEAN : Revert(capped, bound)
    \/ Remap

Spec == Init /\ [][Next]_vars

\* The registrations go on, and their answers get through in the end; time passes.
FairSpec ==
    /\ Spec
    /\ WF_vars(Keepalive) /\ WF_vars(SymCheck(TRUE, TRUE)) /\ WF_vars(Revert(TRUE, TRUE))
    /\ SF_vars(\E m \in net : m.k = "ack" /\ m.from = "main1" /\ m.cookie = "last" /\ RecvAck(m))

-----------------------------------------------------------------------------
Observations == {None} \cup {<<g, v>> : g \in 0 .. gen, v \in {"", "private", "sn1", "sn2"} \cup Dests}

(* The types.  The twin probe is sent at most once more than it is meant to be: *)
(* Phase 2.5 freezes the verdict and sends the next probe in the same call.     *)
TypeOK ==
    /\ e.type \in Types /\ e.tries \in 0 .. MaxTries + 1 /\ e.rebuilds \in 0 .. MaxRebuilds
    /\ {e.s1, e.s2, e.alt, e.cross, e.pub, rec} \subseteq Observations
    /\ sent \subseteq Dests /\ gen \in Nat
    /\ \A m \in net : m.to \in Observations \ {None}

(* A verdict is never better than the NAT: an edge that says "restricted" is     *)
(* reachable from any port of a host it wrote to; and as long as the NAT keeps   *)
(* its mappings, one that says "full cone" is reachable by strangers, and        *)
(* "symmetric" is only said of a NAT that changes the port within one host.      *)
VerdictSound ==
    /\ e.type = "restricted" => nat.filter # "port"
    /\ dropped = 0 => /\ e.type = "full" => nat.filter = "any"
                      /\ e.type = "symmetric" => nat.map = "port"

(* Both, with the counters of the probes within their bounds.                   *)
VerdictHolds == TypeOK /\ VerdictSound

(* A refresh ends: the edge does not stay on the random port.                   *)
Restores == e.revert ~> ~e.revert

(* Behind a NAT that shows one port to both supernodes, the verdict is final in  *)
(* end.  (One that shows sn1 and sn2 different ports can lose its verdict again  *)
(* and again: the answer of sn2 looks like a new mapping.)                       *)
Settles == nat.map = "any" /\ ~nat.inside => <>[](e.final)
=============================================================================
