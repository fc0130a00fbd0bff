------------------------------ MODULE SnStats ------------------------------
(***************************************************************************)
(* One community's traffic accounting in the supernode (src/src/sn.c): the *)
(* 24-hour and 30-day sliding windows behind the cap, the periodic purge   *)
(* that lets them decay, and the file they are saved to and loaded from.   *)
(*                                                                         *)
(* Time is counted in units of PURGE_STATS_FREQUENCY (30 s): a minute      *)
(* bucket is MinuteLen of them.  Timestamps are kept as ages: a window's   *)
(* age is now - last_minute (now - last_day), which the wall clock makes   *)
(* negative when it is set back.                                           *)
(***************************************************************************)
EXTENDS Integers, FiniteSetsExt

CONSTANTS
    Minutes, MinuteLen,     \* COMM_STATS_MINUTES buckets of 60 s
    Days, DayLen,           \* COMM_STATS_DAYS buckets of 86400 s
    IdleLimit,              \* 30 * 86400 s
    SaveEvery,              \* 300 s
    Late,                   \* how much later than due the loop's tail may run
    Sizes,                  \* bytes of a forwarded packet
    Cap,                    \* max_24h_bytes
    Throttled,              \* rate_limit_bps > 0: over the cap, traffic is slowed, not blocked
    Horizon,                \* bound: how far back the history remembers
    MaxBytes,               \* bound: what either window counts
    BackSteps,              \* how often the wall clock may be set back, and by how
    BackBy,                 \* much
    None                    \* no entry, no file

Window(n) == [b : [0 .. n - 1 -> Nat], idx : 0 .. n - 1, age : Int, total : Nat]
Entry     == [min : Window(Minutes), day : Window(Days), idle : Int]

SmallerOf(a, b) == IF a < b THEN a ELSE b
BiggerOf(a, b)  == IF a > b THEN a ELSE b

\* The longest a minute bucket lives: the tail of the loop looks at it just
\* before it is full and then late, or a restart loses what is left of a minute.
BucketLife == BiggerOf(MinuteLen + Late, 2 * MinuteLen - 1)

\* The longest a byte counts towards the cap.  Two days at most: the history
\* remembers as far back, and the 30-day window and the purge's limit are longer.
Longest == Minutes * BucketLife + BackSteps * BackBy

StatsAssumption ==
    /\ Minutes \in Nat \ {0} /\ MinuteLen \in Nat \ {0}
    /\ Days \in Nat \ {0} /\ DayLen \in Nat \ {0}
    /\ IdleLimit \in Nat /\ SaveEvery \in Nat \ {0} /\ Late \in Nat
    /\ Sizes \subseteq Nat \ {0} /\ Cap \in Nat \ {0}
    /\ Throttled \in BOOLEAN
    /\ Horizon \in Nat /\ MaxBytes \in Nat /\ BackSteps \in Nat /\ BackBy \in Nat
    /\ None \notin Entry
    /\ Horizon >= Longest /\ (Days - 1) * DayLen > Longest
    /\ IdleLimit >= (Days - 1) * DayLen

VARIABLES
    entry,      \* the community_stats entry, or None
    file,       \* what the .dat file says, or None; its ages grow with the clock
    up,         \* is the process running?
    purgeAge,   \* now - last_stats_purge
    saveAge,    \* now - last_save
    sent,       \* has something been sent in this unit of time? (bounds the traffic)
    backs,      \* how often the clock was set back
    torn,       \* history: was a save ever cut short?
    log,        \* history: bytes counted in each of the last units of time
    fileLog     \* history: the log as it was when the file was written

vars == <<entry, file, up, purgeAge, saveAge, sent, backs, torn, log, fileLog>>

SumOver(f, S) == MapThenSumSet(LAMBDA i : f[i], S)

-----------------------------------------------------------------------------
(* The windows *)

NewWindow(n) == [b |-> [i \in 0 .. n - 1 |-> 0], idx |-> 0, age |-> 0, total |-> 0]

\* get_community_stats: an entry's windows begin now.
NewEntry == [min |-> NewWindow(Minutes), day |-> NewWindow(Days), idle |-> 0]

\* Whole buckets that have passed are emptied and leave the total; what is
\* left of the age is forgotten.
Roll(w, n, len) ==
    IF w.age < len THEN w
    ELSE LET k    == SmallerOf(w.age \div len, n)
             gone == {(w.idx + j) % n : j \in 1 .. k}
         IN  [b     |-> [i \in DOMAIN w.b |-> IF i \in gone THEN 0 ELSE w.b[i]],
              idx   |-> (w.idx + k) % n,
              age   |-> 0,
              total |-> BiggerOf(0, w.total - SumOver(w.b, gone))]

\* Mutant: a clock that went back empties the window.
RestartWindow(w) == IF w.age < 0 THEN NewWindow(Minutes) ELSE Roll(w, Minutes, MinuteLen)

\* A clock that went back makes the minute window start over with its buckets.
advance_24h_buckets(w) ==
    IF w.age < 0 THEN [w EXCEPT !.total = SumOver(w.b, DOMAIN w.b), !.age = 0]
                 ELSE Roll(w, Minutes, MinuteLen)

advance_30d_buckets(w) == Roll(w, Days, DayLen)

Count(w, bytes) == [w EXCEPT !.b[w.idx] = @ + bytes, !.total = @ + bytes]

update_community_traffic(e, bytes) ==
    [min  |-> Count(advance_24h_buckets(e.min), bytes),
     day  |-> Count(advance_30d_buckets(e.day), bytes),
     idle |-> 0]

\* Over the cap, as rate_admit and try_broadcast see it: the total is not
\* brought up to date before it is compared.
Over(e) == e # None /\ e.min.total >= Cap

\* Mutant: an entry goes as soon as its day is over.
PurgedEarly(e) ==
    IF e = None THEN None ELSE IF e.idle >= DayLen THEN None ELSE e

\* purge_expired_community_stats on one entry.
Purged(e) ==
    IF e = None THEN None
    ELSE IF e.idle >= IdleLimit THEN None
    ELSE LET f == [e EXCEPT !.min = advance_24h_buckets(@),
                            !.day = advance_30d_buckets(@)]
         IN  IF f.day.total = 0 THEN None ELSE f

-----------------------------------------------------------------------------
(* The file *)

\* A save that is cut short after k of the minute buckets (fopen truncates the
\* old file first; without the header and the day row nothing is loaded).
Torn(e, k) == [e EXCEPT !.min.b = [i \in DOMAIN @ |-> IF i < k THEN @[i] ELSE 0]]

\* load_community_stats: the windows are rolled forward to the present.
Loaded(f) ==
    IF f = None THEN None
    ELSE [f EXCEPT !.min = advance_24h_buckets(@), !.day = advance_30d_buckets(@)]

-----------------------------------------------------------------------------
(* Actions *)

\* A packet is forwarded and counted (rate_admit has let it pass).
Traffic(bytes) ==
    /\ up /\ ~sent
    /\ Over(entry) => Throttled
    /\ entry # None => BiggerOf(entry.min.total, entry.day.total) + bytes <= MaxBytes
    /\ entry' = update_community_traffic(IF entry = None THEN NewEntry ELSE entry, bytes)
    /\ sent' = TRUE
    /\ log' = [log EXCEPT ![0] = @ + bytes]
    /\ UNCHANGED <<file, up, purgeAge, saveAge, backs, torn, fileLog>>

PurgeDue == purgeAge >= 1
SaveDue  == saveAge >= SaveEvery

\* The tail of run_loop: purge, then save, each if it is due.
LoopTail ==
    /\ up
    /\ PurgeDue \/ SaveDue
    /\ entry' = IF PurgeDue THEN Purged(entry) ELSE entry
    /\ purgeAge' = IF PurgeDue THEN 0 ELSE purgeAge
    /\ IF SaveDue THEN file' = entry' /\ fileLog' = log /\ saveAge' = 0
                  ELSE UNCHANGED <<file, fileLog, saveAge>>
    /\ UNCHANGED <<up, sent, backs, torn, log>>

\* The process is gone and its memory with it; both timers start at the epoch,
\* so that its successor purges and saves on its first pass.
Die ==
    /\ up
    /\ up' = FALSE
    /\ entry' = None
    /\ purgeAge' = 1 /\ saveAge' = SaveEvery

\* It dies while the file is being written.
DieSaving ==
    /\ SaveDue
    /\ Die
    /\ LET e == IF PurgeDue THEN Purged(entry) ELSE entry
       IN  \/ file' = None
           \/ e # None /\ \E k \in 0 .. Minutes - 1 : file' = Torn(e, k)
    /\ torn' = TRUE
    /\ fileLog' = log
    /\ UNCHANGED <<sent, backs, log>>

Crash ==
    /\ Die
    /\ UNCHANGED <<file, sent, backs, torn, log, fileLog>>

Restart ==
    /\ ~up
    /\ up' = TRUE
    /\ entry' = Loaded(file)
    /\ log' = IF file = None THEN [k \in 0 .. Horizon |-> 0] ELSE fileLog
    /\ UNCHANGED <<file, purgeAge, saveAge, sent, backs, torn, fileLog>>

-----------------------------------------------------------------------------
(* Time *)

Shift(l) == [k \in DOMAIN l |-> IF k = 0 THEN 0 ELSE l[k - 1]]

\* Ages beyond the whole window make no difference, whatever the clock may
\* still be set back by.
Slack == BackSteps * BackBy

Older(e, by) ==
    IF e = None THEN None
    ELSE [e EXCEPT !.min.age = SmallerOf(@ + by, Minutes * MinuteLen + Slack),
                   !.day.age = SmallerOf(@ + by, Days * DayLen + Slack),
                   !.idle    = SmallerOf(@ + by, IdleLimit + Slack)]

\* The loop wakes ten times a second: its tail runs when due, or a little late
\* when a handler blocks.
Tick ==
    /\ up => purgeAge < 1 + Late /\ saveAge < SaveEvery + Late
    /\ entry' = Older(entry, 1)
    /\ file' = Older(file, 1)
    /\ IF up THEN purgeAge' = purgeAge + 1 /\ saveAge' = saveAge + 1
             ELSE UNCHANGED <<purgeAge, saveAge>>
    /\ sent' = FALSE
    /\ log' = Shift(log)
    /\ fileLog' = Shift(fileLog)
    /\ UNCHANGED <<up, backs, torn>>

\* The wall clock is set back.
ClockBack ==
    /\ backs < BackSteps
    /\ backs' = backs + 1
    /\ entry' = Older(entry, -BackBy)
    /\ file' = Older(file, -BackBy)
    /\ IF up THEN purgeAge' = purgeAge - BackBy /\ saveAge' = saveAge - BackBy
             ELSE UNCHANGED <<purgeAge, saveAge>>
    /\ UNCHANGED <<up, sent, torn, log, fileLog>>

-----------------------------------------------------------------------------
Init ==
    /\ entry = None /\ file = None
    /\ up = TRUE
    /\ purgeAge = 1 /\ saveAge = SaveEvery
    /\ sent = FALSE /\ backs = 0 /\ torn = FALSE
    /\ log = [k \in 0 .. Horizon |-> 0]
    /\ fileLog = [k \in 0 .. Horizon |-> 0]

Next ==
    \/ \E bytes \in Sizes : Traffic(bytes)
    \/ LoopTail
    \/ DieSaving
    \/ Crash
    \/ Restart
    \/ Tick
    \/ ClockBack

Spec == Init /\ [][Next]_vars

-----------------------------------------------------------------------------
(* Properties *)

\* Type invariant of the accounting part of struct community_stats.
TypeOK ==
    /\ entry \in Entry \cup {None} /\ file \in Entry \cup {None}
    /\ up \in BOOLEAN /\ sent \in BOOLEAN /\ torn \in BOOLEAN
    /\ purgeAge \in Int /\ saveAge \in Int /\ backs \in 0 .. BackSteps
    /\ log \in [0 .. Horizon -> Nat] /\ fileLog \in [0 .. Horizon -> Nat]

Recent(span) == SumOver(log, 0 .. SmallerOf(span, Horizon))

\* The running totals are the sums of their buckets, in memory and after a
\* restart: the subtraction in advance_24h_buckets and advance_30d_buckets
\* never has to saturate (unless a save was ever cut short).
WindowSum ==
    up /\ entry # None /\ ~torn =>
        /\ entry.min.total = SumOver(entry.min.b, DOMAIN entry.min.b)
        /\ entry.day.total = SumOver(entry.day.b, DOMAIN entry.day.b)

\* Nothing is forgotten early: the traffic of the last Minutes - 1 minutes
\* counts towards the cap (a missing entry counts nothing), also after a save
\* that was cut short, or a clock that was set back, though not after both: the
\* total is then summed up again from buckets the file did not have.
WindowCovers ==
    up /\ (torn => backs = 0) => (IF entry = None THEN 0 ELSE entry.min.total)
            >= Recent((Minutes - 1) * MinuteLen - 1)

\* Nothing is remembered for ever: "24h minute buckets: must be persisted, else
\* the sliding window cannot decay across restarts and the 24h rate limit would
\* stick": only the traffic of the last Minutes buckets counts, each the longer
\* for a clock that was set back.  A save that is cut short does lose buckets,
\* and its total sticks.
WindowDecays ==
    up /\ entry # None /\ ~torn =>
        entry.min.total <= Recent(Minutes * BucketLife + backs * BackBy)

\* purge_expired_community_stats never gives a community its quota back by
\* dropping an entry that still counts something (unless a save was cut short).
PurgeKeepsQuota ==
    [][up /\ up' /\ ~torn /\ entry # None /\ entry' = None => entry.min.total = 0]_vars
=============================================================================
