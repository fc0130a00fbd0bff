------------------------------ MODULE SnShaper ------------------------------
(***************************************************************************)
(* One community's rate limiter in the supernode (src/src/sn.c): the token *)
(* bucket with overdraft (token_refill, rate_admit) and the shaper queue   *)
(* (shaper_enqueue, shaper_drain) on the unicast path (try_forward) and in *)
(* the select loop.                                                        *)
(*                                                                         *)
(* The iterations of the drain loop are separate steps, between which      *)
(* nothing else of the process runs: busy is what the loop returns to.     *)
(* Whether the community is over its 24-hour cap is an input here          *)
(* (SnStats has the window): forwarding may raise it, time may lower it.   *)
(***************************************************************************)
EXTENDS Integers, Sequences

CONSTANTS
    Dsts,           \* destination MACs
    Sizes,          \* packet lengths, at most MinBucket (N2N_SN_PKTBUF_SIZE < 4096)
    Rates,          \* rate_limit_bps of the rules a reload may bring; 0 blocks
    TopRate,        \* the highest of them
    Slots,          \* SHAPER_SLOTS
    MinBucket,      \* 4096
    MinDebt,        \* 16384
    DebtSeconds,    \* RATE_DEBT_SECONDS
    MsPerSecond,    \* 1000
    MaxWait,        \* bound: ms between two looks at the bucket
    NoPkt, Loop     \* busy: idle, or draining for the loop itself

ASSUME ShaperAssumption ==
    /\ Sizes \subseteq 1 .. MinBucket
    /\ TopRate \in Nat /\ Rates \subseteq 0 .. TopRate
    /\ \A r \in Rates : r = 0 \/ r >= MsPerSecond     \* whole KB/s
    /\ Slots \in Nat \ {0}
    /\ MinBucket \in Nat \ {0} /\ MinDebt \in Nat
    /\ DebtSeconds \in Nat /\ MsPerSecond \in Nat \ {0} /\ MaxWait \in Nat

VARIABLES
    rate,       \* rate_limit_bps
    over,       \* max_24h_bytes > 0 and last_24h_bytes >= max_24h_bytes
    tokens,     \* the bucket; negative = overdraft
    primed,     \* last_token_refill_ms # 0
    since,      \* ms since last_token_refill_ms
    q,          \* the ring q, q_r, q_n as a sequence
    known,      \* destinations that are registered
    busy,       \* the packet try_forward is working on, Loop, or NoPkt
    left,       \* history: did the last step take a packet out of the queue?
    burst       \* history: the most that was charged beyond TopRate x time, over all
                \* intervals that end now, in bytes x MsPerSecond

vars == <<rate, over, tokens, primed, since, q, known, busy, left, burst>>

Packets == [len : Sizes, mac : Dsts]

-----------------------------------------------------------------------------
(* The token bucket *)

BiggerOf(a, b) == IF a > b THEN a ELSE b
SmallerOf(a, b) == IF a < b THEN a ELSE b

token_bucket_max(r) == BiggerOf(r, MinBucket)
DebtMax(r)          == BiggerOf(r * DebtSeconds, MinDebt)
Charge(r, len)      == SmallerOf(len, token_bucket_max(r))

\* Mutants: the quotient is rounded up; only whole seconds count.
GrantUp    == (since * rate + MsPerSecond - 1) \div MsPerSecond
GrantWhole == (since \div MsPerSecond) * rate

\* Bytes granted for the time since the last refill; the quotient is floored.
Grant == (since * rate) \div MsPerSecond

\* The bucket after token_refill.
Refilled ==
    IF ~primed THEN token_bucket_max(rate)
    ELSE IF since = 0 THEN tokens
    ELSE SmallerOf(tokens + Grant, token_bucket_max(rate))

\* Mutant: the overdraft has no limit.
AdmitsAlways(len) == ~over \/ rate # 0

\* rate_admit(len) says yes.
Admits(len) ==
    \/ ~over
    \/ rate # 0 /\ Refilled - Charge(rate, len) >= -DebtMax(rate)

\* What rate_admit leaves behind: throttled, the bucket is refilled, and
\* charged if it admits; otherwise the bucket is not looked at.
RateAdmit(len) ==
    IF over /\ rate # 0
      THEN /\ primed' = TRUE
           /\ since' = 0
           /\ LET c == IF Admits(len) THEN Charge(rate, len) ELSE 0
              IN  /\ tokens' = Refilled - c
                  /\ burst' = burst + c * MsPerSecond
      ELSE UNCHANGED <<tokens, primed, since, burst>>

\* A packet was sent and counted: the community may have reached its cap.
\* (A community without a cap never does; both are outcomes of the input.)
Counted == over' \in {over, TRUE}

-----------------------------------------------------------------------------
(* The unicast path *)

\* try_forward: an unknown destination is dropped before anything is touched,
\* else the queue is drained first.
Forward(p) ==
    /\ busy = NoPkt
    /\ p.mac \in known
    /\ busy' = p
    /\ left' = FALSE
    /\ UNCHANGED <<rate, over, tokens, primed, since, q, known, burst>>

\* The select loop drains every community's queue on each pass.
LoopDrain ==
    /\ busy = NoPkt
    /\ q # <<>>
    /\ busy' = Loop
    /\ left' = FALSE
    /\ UNCHANGED <<rate, over, tokens, primed, since, q, known, burst>>

\* One iteration of shaper_drain: the destination vanished ...
DrainGone ==
    /\ busy # NoPkt /\ q # <<>>
    /\ Head(q).mac \notin known
    /\ q' = Tail(q)
    /\ left' = TRUE
    /\ UNCHANGED <<rate, over, tokens, primed, since, known, busy, burst>>

\* ... or the head is admitted and sent.
DrainSend ==
    /\ busy # NoPkt /\ q # <<>>
    /\ Head(q).mac \in known
    /\ Admits(Head(q).len)
    /\ RateAdmit(Head(q).len)
    /\ Counted
    /\ q' = Tail(q)
    /\ left' = TRUE
    /\ UNCHANGED <<rate, known, busy>>

\* The drain is over when the queue is empty or its head must wait; the
\* refused rate_admit has refilled the bucket.
HeadWaits == q # <<>> /\ Head(q).mac \in known /\ ~Admits(Head(q).len)

LoopDrainEnds ==
    /\ busy = Loop
    /\ q = <<>> \/ HeadWaits
    /\ IF HeadWaits THEN RateAdmit(Head(q).len)
                    ELSE UNCHANGED <<tokens, primed, since, burst>>
    /\ busy' = NoPkt
    /\ left' = FALSE
    /\ UNCHANGED <<rate, over, q, known>>

\* shaper_enqueue: a packet is parked unless the ring is full; a community
\* that is blocked outright parks nothing.
Parked(p) == IF rate > 0 /\ Len(q) < Slots THEN Append(q, p) ELSE q

\* After the drain the new packet is admitted past the queue, queued, or
\* dropped.
ForwardEnds ==
    /\ busy \notin {NoPkt, Loop}
    /\ q = <<>> \/ HeadWaits
    /\ RateAdmit(busy.len)
    /\ \/ /\ Admits(busy.len)
          /\ Counted
          /\ UNCHANGED q
       \/ /\ ~Admits(busy.len)
          /\ q' = Parked(busy)
          /\ UNCHANGED over
    /\ busy' = NoPkt
    /\ left' = FALSE
    /\ UNCHANGED <<rate, known>>

-----------------------------------------------------------------------------
(* Around it *)

\* A millisecond passes; the bound only stops the count of idle time.
Tick ==
    /\ busy = NoPkt
    /\ IF primed /\ since < MaxWait
         THEN since' = since + 1 /\ burst' = BiggerOf(0, burst - TopRate)
         ELSE UNCHANGED <<since, burst>>
    /\ left' = FALSE
    /\ UNCHANGED <<rate, over, tokens, primed, q, known, busy>>

\* The 24-hour window decays below the cap.
Decay ==
    /\ busy = NoPkt
    /\ over' = FALSE
    /\ left' = FALSE
    /\ UNCHANGED <<rate, tokens, primed, since, q, known, busy, burst>>

\* A destination registers or goes.
Membership(d) ==
    /\ busy = NoPkt
    /\ known' = IF d \in known THEN known \ {d} ELSE known \cup {d}
    /\ left' = FALSE
    /\ UNCHANGED <<rate, over, tokens, primed, since, q, busy, burst>>

\* The configuration is read again: rate and cap may change, tokens and queue
\* are left as they are.
Reload(r) ==
    /\ busy = NoPkt
    /\ rate' = r
    /\ over' \in BOOLEAN
    /\ left' = FALSE
    /\ UNCHANGED <<tokens, primed, since, q, known, busy, burst>>

-----------------------------------------------------------------------------
Init ==
    /\ rate \in Rates
    /\ over = FALSE
    /\ tokens = 0 /\ primed = FALSE /\ since = 0
    /\ q = <<>>
    /\ known = Dsts
    /\ busy = NoPkt
    /\ left = FALSE
    /\ burst = 0

DrainStep == DrainGone \/ DrainSend \/ LoopDrainEnds \/ ForwardEnds

Next ==
    \/ \E p \in Packets : Forward(p)
    \/ LoopDrain
    \/ DrainStep
    \/ Tick
    \/ Decay
    \/ \E d \in Dsts : Membership(d)
    \/ \E r \in Rates : Reload(r)

Spec == Init /\ [][Next]_vars

\* The loop wakes every 100 ms and drains on each pass, however many packets
\* arrive in between; its handlers run to their end; the clock advances.
FairSpec == Spec /\ SF_vars(LoopDrain) /\ WF_vars(DrainStep) /\ SF_vars(Tick)

-----------------------------------------------------------------------------
(* Properties *)

TopBucket == token_bucket_max(TopRate)
TopDebt   == DebtMax(TopRate)

\* Type invariant of the rate limiter's part of struct community_stats.
TypeOK ==
    /\ rate \in Rates
    /\ over \in BOOLEAN /\ primed \in BOOLEAN /\ left \in BOOLEAN
    /\ tokens \in Int /\ since \in Nat /\ burst \in Nat
    /\ q \in Seq(Packets)
    /\ known \subseteq Dsts
    /\ busy \in Packets \cup {NoPkt, Loop}

\* The ring never holds more than its slots (shaper_enqueue drops the newcomer).
QueueBounded == Len(q) <= Slots

\* The bucket never exceeds its cap nor the overdraft, also across reloads of
\* the rules (token_refill clamps one side, rate_admit checks the other).
TokensBounded == -TopDebt <= tokens /\ tokens <= TopBucket

\* Over every interval, the traffic that rate_admit charges exceeds the rate
\* times the interval by at most the bucket and the overdraft together, also
\* when the rules change in between.
Conforms == burst <= (TopBucket + TopDebt) * MsPerSecond

\* The inductive invariant behind Conforms: what was charged in excess is
\* missing from the bucket, or is paid by time that is not yet refilled.
BucketInv ==
    /\ TypeOK
    /\ TokensBounded
    /\ ~primed => burst = 0 /\ since = 0 /\ tokens = 0
    /\ \/ burst = 0
       \/ burst + since * TopRate <= (TopBucket - tokens) * MsPerSecond

\* The two resources of a community, bucket and ring, together.
ShaperSound == BucketInv /\ QueueBounded

\* "released FIFO as the bucket refills": a parked packet does not wait for ever
\* as long as its community is not blocked outright.
HeadReleased == []<>(q = <<>> \/ left \/ rate = 0)
=============================================================================
