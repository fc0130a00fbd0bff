-------------------------------- MODULE Kcp --------------------------------
(***************************************************************************)
(* The reliable transport under the split tunnel (src/src/ikcp.c): two ends   *)
(* with their send and receive windows, over a network that loses, repeats    *)
(* and reorders datagrams.                                                  *)
(*                                                                         *)
(* The connection is set up as bypass_kcp_init does it: message mode and no   *)
(* congestion window, so that cwnd, ssthresh and incr decide nothing.  Round   *)
(* trip times are left out: a timer may run out at any time, and a segment     *)
(* that a later one overtook may be sent again or not.                       *)
(***************************************************************************)
EXTENDS Integers, Sequences, FiniteSets, SequencesExt

CONSTANTS
    Ends,           \* the two ends of the connection
    Parts,          \* Parts[p][k]: how many segments the k-th message of p takes
    W,              \* sequence numbers are modulo W: 2^32
    Start,          \* segments that each end has sent before, all acknowledged
    SndWnd,         \* snd_wnd
    RcvWnd,         \* rcv_wnd, at the least IKCP_WND_RCV
    Channel,        \* bound on the datagrams under way to one end
    Faults          \* bound on the datagrams lost or repeated and the timers that run out early

ASSUME KcpAssumption ==
    /\ IsFiniteSet(Ends) /\ Cardinality(Ends) = 2 /\ Parts \in [Ends -> Seq(Nat \ {0})]
    /\ {SndWnd, RcvWnd, Channel} \subseteq Nat \ {0} /\ Faults \in Nat
    /\ W \in Nat /\ W % 2 = 0 /\ W >= 4 * RcvWnd /\ SndWnd < W \div 2 /\ Start \in 0 .. W - 1
    /\ \A p \in Ends : \A k \in DOMAIN Parts[p] : Parts[p][k] < RcvWnd

VARIABLES
    snd_queue,      \* segments that have no number yet
    snd_buf,        \* segments sent and not acknowledged, by number
    snd_una, snd_nxt, rmt_wnd,
    asking,         \* probe_wait and ts_probe: "off", "armed" or "due"
    rcv_nxt, rcv_buf, rcv_queue,
    acklist,        \* the segments to acknowledge
    tell,           \* IKCP_ASK_TELL is set in probe
    net,            \* datagrams on their way to an end
    faults,         \* how many there have been
    sent, got       \* history, by sender: messages accepted, and handed over at the other end

sender   == <<snd_queue, snd_buf, snd_una, snd_nxt, rmt_wnd, asking>>
receiver == <<rcv_nxt, rcv_buf, rcv_queue, acklist, tell>>
vars     == <<sender, receiver, net, faults, sent, got>>

Other(p) == CHOOSE q \in Ends : q # p

\* itimediff: the difference as a signed number.
itimediff(a, b) == ((a - b + W + W \div 2) % W) - W \div 2

\* The elements of s that are in S, in order.
KeepIf(S, acc, x) == IF x \in S THEN Append(acc, x) ELSE acc

Kept(s, S) == FoldLeft(LAMBDA acc, x : KeepIf(S, acc, x), <<>>, s)

-----------------------------------------------------------------------------
(* ikcp_send, ikcp_recv *)

\* The k-th message of p: what its segments carry.
Message(p, k) == [i \in 1 .. Parts[p][k] |-> <<p, k, i>>]

\* A message of too many segments is refused.
ikcp_send(p) ==
    /\ Len(sent[p]) < Len(Parts[p])
    /\ LET m == Message(p, Len(sent[p]) + 1)
       IN /\ Len(m) < RcvWnd
          /\ snd_queue' = [snd_queue EXCEPT ![p] = @ \o [i \in DOMAIN m |-> [frg |-> Len(m) - i, data |-> m[i]]]]
          /\ sent' = [sent EXCEPT ![p] = Append(@, m)]
    /\ UNCHANGED <<snd_buf, snd_una, snd_nxt, rmt_wnd, asking, receiver, net, faults, got>>

\* How many segments, from nxt on, are in buf and have room in the queue.
InOrder(buf, nxt, room) ==
    CHOOSE n \in 0 .. room :
        /\ \A i \in 0 .. n - 1 : \E s \in buf : s.sn = (nxt + i) % W
        /\ n = room \/ \A s \in buf : s.sn # (nxt + n) % W

\* "move available data from rcv_buf -> rcv_queue"
Moved(p, buf, queue) ==
    LET n == InOrder(buf, rcv_nxt[p], RcvWnd - Len(queue))
        Nth(i) == CHOOSE s \in buf : s.sn = (rcv_nxt[p] + i - 1) % W
    IN /\ rcv_buf' = [rcv_buf EXCEPT ![p] = buf \ {Nth(i) : i \in 1 .. n}]
       /\ rcv_queue' = [rcv_queue EXCEPT ![p] = queue \o [i \in 1 .. n |-> Nth(i)]]
       /\ rcv_nxt' = [rcv_nxt EXCEPT ![p] = (@ + n) % W]

\* ikcp_peeksize: is the first message complete?
Complete(queue) == queue # <<>> /\ Len(queue) >= Head(queue).frg + 1

ikcp_recv(p) ==
    /\ Complete(rcv_queue[p])
    /\ LET queue == rcv_queue[p]
           last == CHOOSE i \in DOMAIN queue : queue[i].frg = 0 /\ \A j \in 1 .. i - 1 : queue[j].frg # 0
           rest == SubSeq(queue, last + 1, Len(queue))
       IN /\ got' = [got EXCEPT ![Other(p)] = Append(@, [i \in 1 .. last |-> queue[i].data])]
          /\ Moved(p, rcv_buf[p], rest)
          /\ tell' = [tell EXCEPT ![p] = @ \/ (Len(queue) >= RcvWnd /\ Len(rcv_queue'[p]) < RcvWnd)]
    /\ UNCHANGED <<sender, acklist, net, faults, sent>>

-----------------------------------------------------------------------------
(* ikcp_flush.  Each segment of data goes in a datagram; acknowledgements and *)
(* probes go with the first of them, or alone.                             *)

ikcp_wnd_unused(p) == RcvWnd - Len(rcv_queue[p])

\* What every segment of a datagram says, and what it carries.
Datagram(p, acks, ask, tells, push) ==
    [una |-> rcv_nxt[p], wnd |-> ikcp_wnd_unused(p), acks |-> acks, ask |-> ask, tell |-> tells, push |-> push]

\* "move data from snd_queue to snd_buf": as many as the windows let.
Fits(p) ==
    LET window == IF SndWnd < rmt_wnd[p] THEN SndWnd ELSE rmt_wnd[p]
        free   == -itimediff(snd_nxt[p], (snd_una[p] + window) % W)
    IN IF free < 0 THEN 0 ELSE IF free < Len(snd_queue[p]) THEN free ELSE Len(snd_queue[p])

Numbered(p) ==
    snd_buf[p] \o [i \in 1 .. Fits(p) |->
        [sn |-> (snd_nxt[p] + i - 1) % W, frg |-> snd_queue[p][i].frg, data |-> snd_queue[p][i].data, due |-> TRUE]]

\* The segments to send, or resend.
Sent(p) ==
    LET due == Kept(Numbered(p), {seg \in Range(Numbered(p)) : seg.due})
    IN [i \in DOMAIN due |-> {[sn |-> due[i].sn, frg |-> due[i].frg, data |-> due[i].data]}]

\* Mutant: a closed window is never asked about.
NeverAsks(p) == FALSE

\* "probe window size (if remote window size equals zero)"
Asks(p) == rmt_wnd[p] = 0 /\ asking[p] = "due"

Output(p) ==
    LET control == acklist[p] # {} \/ Asks(p) \/ tell[p]
        bursts  == IF control /\ Sent(p) = <<>> THEN <<{}>> ELSE Sent(p)
    IN [i \in DOMAIN bursts |-> IF i = 1 THEN Datagram(p, acklist[p], Asks(p), tell[p], bursts[i])
                                ELSE Datagram(p, {}, FALSE, FALSE, bursts[i])]

ikcp_flush(p) ==
    /\ Len(net[Other(p)] \o Output(p)) <= Channel
    /\ net' = [net EXCEPT ![Other(p)] = @ \o Output(p)]
    /\ acklist' = [acklist EXCEPT ![p] = {}]
    /\ tell' = [tell EXCEPT ![p] = FALSE]
    /\ asking' = [asking EXCEPT ![p] = IF rmt_wnd[p] # 0 THEN "off" ELSE IF @ = "off" \/ Asks(p) THEN "armed" ELSE @]
    /\ snd_buf' = [snd_buf EXCEPT ![p] = [i \in DOMAIN Numbered(p) |-> [Numbered(p)[i] EXCEPT !.due = FALSE]]]
    /\ snd_queue' = [snd_queue EXCEPT ![p] = SubSeq(@, Fits(p) + 1, Len(@))]
    /\ snd_nxt' = [snd_nxt EXCEPT ![p] = (@ + Fits(p)) % W]
    /\ UNCHANGED <<snd_una, rmt_wnd, rcv_nxt, rcv_buf, rcv_queue, faults, sent, got>>

Quiet == \A p \in Ends : net[p] = <<>> /\ acklist[p] = {}

\* resendts of the i-th segment passes, as a rule after the answer had time to
\* come.
Expire(p, i) ==
    /\ i \in DOMAIN snd_buf[p] /\ ~snd_buf[p][i].due
    /\ IF Quiet THEN UNCHANGED faults ELSE faults < Faults /\ faults' = faults + 1
    /\ snd_buf' = [snd_buf EXCEPT ![p][i].due = TRUE]
    /\ UNCHANGED <<snd_queue, snd_una, snd_nxt, rmt_wnd, asking, receiver, net, sent, got>>

\* ts_probe passes.
ProbeTime(p) ==
    /\ asking[p] = "armed"
    /\ asking' = [asking EXCEPT ![p] = "due"]
    /\ UNCHANGED <<snd_queue, snd_buf, snd_una, snd_nxt, rmt_wnd, receiver, net, faults, sent, got>>

-----------------------------------------------------------------------------
(* ikcp_input *)

\* ikcp_parse_una, ikcp_parse_ack: what stays in the send buffer.
Unacked(p, d) ==
    Kept(snd_buf[p], {seg \in Range(snd_buf[p]) : itimediff(d.una, seg.sn) <= 0 /\ seg.sn \notin d.acks})

\* ikcp_parse_fastack: the segments before the last of those acknowledged, of
\* which some have been overtaken often enough to be sent again.
Overtaken(p, d) ==
    LET known == {sn \in d.acks : itimediff(sn, snd_una[p]) >= 0 /\ itimediff(sn, snd_nxt[p]) < 0}
    IN {i \in DOMAIN Unacked(p, d) : \E sn \in known : itimediff(sn, Unacked(p, d)[i].sn) > 0}

\* ikcp_shrink_buf
FirstOf(buf, nxt) == IF buf = <<>> THEN nxt ELSE Head(buf).sn

Window(p, seg) == itimediff(seg.sn, (rcv_nxt[p] + RcvWnd) % W) < 0
Ahead(p, seg)  == itimediff(seg.sn, rcv_nxt[p]) >= 0

\* Mutant: a segment that finds the queue full is dropped and yet acknowledged.
DropsWhenFull(p, push) ==
    LET new == {seg \in push : Window(p, seg) /\ Ahead(p, seg) /\ Len(rcv_queue[p]) < RcvWnd
                                /\ \A s \in rcv_buf[p] : s.sn # seg.sn}
    IN Moved(p, rcv_buf[p] \cup new, rcv_queue[p])

\* ikcp_parse_data
Data(p, push) ==
    LET new == {seg \in push : Window(p, seg) /\ Ahead(p, seg) /\ \A s \in rcv_buf[p] : s.sn # seg.sn}
    IN Moved(p, rcv_buf[p] \cup new, rcv_queue[p])

ikcp_input(p, d) ==
    /\ rmt_wnd' = [rmt_wnd EXCEPT ![p] = d.wnd]
    /\ \E again \in {{}, Overtaken(p, d)} :
         snd_buf' = [snd_buf EXCEPT ![p] =
             [i \in DOMAIN Unacked(p, d) |-> [Unacked(p, d)[i] EXCEPT !.due = @ \/ i \in again]]]
    /\ snd_una' = [snd_una EXCEPT ![p] = FirstOf(Unacked(p, d), snd_nxt[p])]
    /\ acklist' = [acklist EXCEPT ![p] = @ \cup {seg.sn : seg \in {s \in d.push : Window(p, s)}}]
    /\ tell' = [tell EXCEPT ![p] = @ \/ d.ask]
    /\ Data(p, d.push)
    /\ UNCHANGED <<snd_queue, snd_nxt, asking, sent, got>>

-----------------------------------------------------------------------------
(* The network *)

Without(s, i) == SubSeq(s, 1, i - 1) \o SubSeq(s, i + 1, Len(s))

\* A datagram arrives, in any order.
Arrive(p, i) ==
    /\ i \in DOMAIN net[p]
    /\ ikcp_input(p, net[p][i])
    /\ net' = [net EXCEPT ![p] = Without(@, i)]
    /\ UNCHANGED faults

Repeat(p, i) ==
    /\ faults < Faults /\ i \in DOMAIN net[p]
    /\ ikcp_input(p, net[p][i])
    /\ faults' = faults + 1
    /\ UNCHANGED net

Lose(p, i) ==
    /\ faults < Faults /\ i \in DOMAIN net[p]
    /\ net' = [net EXCEPT ![p] = Without(@, i)]
    /\ faults' = faults + 1
    /\ UNCHANGED <<sender, receiver, sent, got>>

\* ikcp_create, or what a connection that was idle for a while has come to.
Init ==
    /\ snd_queue = [p \in Ends |-> <<>>] /\ snd_buf = [p \in Ends |-> <<>>]
    /\ snd_una = [p \in Ends |-> Start] /\ snd_nxt = snd_una
    /\ rmt_wnd = [p \in Ends |-> RcvWnd] /\ asking = [p \in Ends |-> "off"]
    /\ rcv_nxt = snd_nxt /\ rcv_buf = [p \in Ends |-> {}] /\ rcv_queue = [p \in Ends |-> <<>>]
    /\ acklist = [p \in Ends |-> {}] /\ tell = [p \in Ends |-> FALSE]
    /\ net = [p \in Ends |-> <<>>] /\ faults = 0
    /\ sent = [p \in Ends |-> <<>>] /\ got = [p \in Ends |-> <<>>]

Step(p) ==
    \/ ikcp_send(p) \/ ikcp_recv(p) \/ ikcp_flush(p) \/ ProbeTime(p)
    \/ \E i \in 1 .. SndWnd : Expire(p, i)
    \/ \E i \in 1 .. Channel : Arrive(p, i) \/ Repeat(p, i) \/ Lose(p, i)

Next == \E p \in Ends : Step(p)

\* The loop of the edge calls ikcp_update and drains the connection every 10
\* ms; timers run out; the network delivers what it does not lose, and in the
\* bounded instance it loses Faults datagrams.
Spec ==
    /\ Init /\ [][Next]_vars
    /\ \A p \in Ends :
         /\ WF_vars(ikcp_recv(p)) /\ WF_vars(ikcp_flush(p)) /\ WF_vars(ProbeTime(p))
         /\ WF_vars(Arrive(p, 1))
         /\ \A i \in 1 .. SndWnd : WF_vars(Expire(p, i))

-----------------------------------------------------------------------------
(* Properties *)

\* The receive queue and buffer stay within the window that was announced,
\* whatever arrives, and the numbers within their width.
TypeOK ==
    \A p \in Ends :
        /\ Len(rcv_queue[p]) <= RcvWnd /\ rmt_wnd[p] \in 0 .. RcvWnd
        /\ Cardinality(rcv_buf[p]) <= RcvWnd
        /\ {snd_una[p], snd_nxt[p], rcv_nxt[p]} \subseteq 0 .. W - 1
        /\ acklist[p] \subseteq 0 .. W - 1 /\ asking[p] \in {"off", "armed", "due"}

\* No segment is forgotten: one that has a number and is still missing at the
\* receiver is in the send buffer, or waits in the receive buffer; and the
\* numbers in use are so few that itimediff tells old from new.
NoneForgotten ==
    \A p \in Ends : LET q == Other(p) IN
        /\ itimediff(snd_nxt[p], rcv_nxt[q]) \in 0 .. SndWnd + RcvWnd
        /\ \A i \in 0 .. itimediff(snd_nxt[p], rcv_nxt[q]) - 1 :
              LET sn == (rcv_nxt[q] + i) % W
              IN \/ \E j \in DOMAIN snd_buf[p] : snd_buf[p][j].sn = sn
                 \/ \E s \in rcv_buf[q] : s.sn = sn

\* Both: the windows are kept, and nothing within them is lost.
WindowsSound == TypeOK /\ NoneForgotten

Messages == UNION {{Message(p, k) : k \in DOMAIN Parts[p]} : p \in Ends}
Stream == INSTANCE Fifo WITH Payload <- Messages

\* KCP is a reliable stream: it implements Fifo, its liveness included.  No
\* message is lost, repeated, reordered, torn or joined with another, and none
\* is held up for ever, by a closed window least of all.
Reliable == Stream!Spec

=============================================================================
