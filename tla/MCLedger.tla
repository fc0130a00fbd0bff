------------------------------ MODULE MCLedger ------------------------------
(***************************************************************************)
(* What a supernode keeps of a community's traffic, for TLC: the bucket    *)
(* and the shaper queue (SnShaper), the sliding windows (SnStats) and the  *)
(* rules of its file (SnRules).  The three share no state but the limits,  *)
(* which are inputs of the first two, so a behaviour is one of one of      *)
(* them: part says which, and the others' variables stay as they start.    *)
(* "drain" is the shaper again, one destination, one rate and one size.    *)
(***************************************************************************)
EXTENDS SnShaper

CONSTANTS
    Slow,                                   \* the rate of "drain"
    Minutes, MinuteLen, Days, DayLen, IdleLimit, SaveEvery, Late, Bytes, Cap, Throttled,
    Horizon, MaxBytes, BackSteps, BackBy, None,
    Communities, Wild, Caps, RateCols, Columns, MaxLines, NoRule, NoUse

VARIABLES
    part,
    entry, file, up, purgeAge, saveAge, sent, backs, torn, log, fileLog,
    rules, limits, used

OneDst == {CHOOSE d \in Dsts : TRUE}

D == INSTANCE SnShaper WITH Dsts <- OneDst, Sizes <- {MinBucket}, Rates <- {Slow}
S == INSTANCE SnStats WITH Sizes <- Bytes
R == INSTANCE SnRules

ASSUME LedgerAssumed == S!StatsAssumption /\ R!RulesAssumption

statVars == <<entry, file, up, purgeAge, saveAge, sent, backs, torn, log, fileLog>>
ruleVars == <<rules, limits, used>>
all      == <<vars, statVars, ruleVars, part>>

Draining(A) == part = "drain" /\ A /\ UNCHANGED <<statVars, ruleVars, part>>

PartInit ==
    /\ S!Init /\ R!Init
    /\ \/ part = "shaper" /\ Init
       \/ part \in {"drain", "stats", "rules"} /\ D!Init

PartNext ==
    \/ part = "shaper" /\ Next /\ UNCHANGED <<statVars, ruleVars, part>>
    \/ Draining(D!Next)
    \/ part = "stats" /\ S!Next /\ UNCHANGED <<vars, ruleVars, part>>
    \/ part = "rules" /\ R!Next /\ UNCHANGED <<vars, statVars, part>>

PartSafe == PartInit /\ [][PartNext]_all

\* SnShaper's fairness, for the part whose liveness is checked.
PartFair ==
    SF_all(Draining(D!LoopDrain)) /\ WF_all(Draining(D!DrainStep)) /\ SF_all(Draining(D!Tick))

PartSpec == PartSafe /\ PartFair

\* "released FIFO as the bucket refills": a parked packet does not wait for ever.
Drains == part = "drain" => HeadReleased

\* The sliding windows: totals are the sums of their buckets (WindowSum), nothing
\* is forgotten early (WindowCovers), nothing is remembered for ever
\* (WindowDecays), across restarts, saves cut short and clocks set back.
WindowHolds == S!TypeOK /\ S!WindowSum /\ S!WindowCovers /\ S!WindowDecays

\* A purge never gives a community its quota back (purge_expired_community_stats).
PurgeKeepsQuota == S!PurgeKeepsQuota

\* The blacklist denies whom it names, and a packet is admitted under the limits
\* of the rules in force, whatever edits, reloads and purges came before.
RulesHold == R!TypeOK /\ R!BlacklistHolds /\ R!LimitsCurrent
=============================================================================
