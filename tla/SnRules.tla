------------------------------ MODULE SnRules ------------------------------
(***************************************************************************)
(* The supernode's rules file (src/src/sn.c, parse_rate_limit_config): how *)
(* a line becomes a rule, which rule a community gets, who may register,   *)
(* and how edits reach the communities that are already known.             *)
(***************************************************************************)
EXTENDS Integers, Sequences, SequencesExt

CONSTANTS
    Communities,    \* community names
    Wild,           \* the name "*"
    Caps,           \* max_24h_GB columns; 0 = unlimited
    RateCols,       \* rate_limit_KB/s columns
    Columns,        \* how many numeric columns a line may have
    MaxLines,       \* bound: lines of the file
    NoRule, NoUse

RulesAssumption ==
    /\ Wild \notin Communities
    /\ 0 \in Caps /\ Caps \subseteq Nat
    /\ 0 \in RateCols /\ RateCols \subseteq Nat
    /\ Columns \subseteq Nat /\ MaxLines \in Nat

VARIABLES
    rules,      \* sss->rate_rules: the rules in force
    limits,     \* max_24h_bytes and rate_limit_bps of the known communities
    used        \* the last admission: community and limits, or NoUse

vars == <<rules, limits, used>>

\* A line: a name, some numeric columns (the first two are cap and rate, the
\* third is broadcast_members), and perhaps a trailing x (a y is the default).
Line  == [name : Communities \cup {Wild}, cols : Columns, cap : Caps, rate : RateCols,
          act : {"", "x"}]
Limit == [cap : Caps, rate : RateCols]
Rule  == [name : Communities \cup {Wild}, lim : Limit, deny : BOOLEAN]

NoLimit == [cap |-> 0, rate |-> 0]

-----------------------------------------------------------------------------
(* Reading the file *)

\* Name alone, or with cap and rate and perhaps broadcast_members; a line with
\* another number of columns is skipped.
RuleOf(l) ==
    IF l.cols \notin {0, 2, 3} THEN NoRule
    ELSE [name |-> l.name,
          lim  |-> IF l.cols = 0 THEN NoLimit ELSE [cap |-> l.cap, rate |-> l.rate],
          deny |-> l.act = "x"]

\* A line that makes a rule adds it to the end of the list.
ReadLine(rs, l) == IF RuleOf(l) = NoRule THEN rs ELSE Append(rs, RuleOf(l))

parse_rate_limit_config(ls) == FoldLeft(ReadLine, <<>>, ls)

-----------------------------------------------------------------------------
(* Which rule applies *)

\* The rules are visited in order; each match replaces the last one, and one
\* that names the community ends the search.
NextMatch(c, acc, r) ==
    IF acc.done \/ r.name \notin {c, Wild} THEN acc
    ELSE [lim |-> r.lim, done |-> r.name = c]

apply_rules_to_stats(c, rs) ==
    FoldLeft(LAMBDA acc, r : NextMatch(c, acc, r), [lim |-> NoLimit, done |-> FALSE], rs).lim

\* How well a rule fits a community: by its name, by the wildcard, or not.
Level(c, r) == IF r.name = c THEN 2 ELSE IF r.name = Wild THEN 1 ELSE 0

\* A better match makes the verdict start over; a deny on any level sets it.
NextVerdict(c, acc, r) ==
    LET fresh == IF Level(c, r) > acc.level THEN [level |-> Level(c, r), denied |-> FALSE] ELSE acc
    IN  IF Level(c, r) = 0 THEN acc ELSE [fresh EXCEPT !.denied = @ \/ r.deny]

\* May the community not register?
community_denied(rs, c) ==
    FoldLeft(LAMBDA acc, r : NextVerdict(c, acc, r), [level |-> 0, denied |-> FALSE], rs).denied

-----------------------------------------------------------------------------
(* The file and the running supernode *)

\* Mutant: known communities keep the limits they have.
ReloadLazy(lines) ==
    /\ rules' = parse_rate_limit_config(lines)
    /\ used' = NoUse
    /\ UNCHANGED limits

\* Every five minutes the file is read again, with whatever lines somebody has
\* put there, and every known community gets its new limits.
Reload(lines) ==
    /\ rules' = parse_rate_limit_config(lines)
    /\ limits' = [c \in DOMAIN limits |->
                    apply_rules_to_stats(c, parse_rate_limit_config(lines))]
    /\ used' = NoUse

\* The purge pass refreshes the limits of the entries it keeps.
Purge(gone) ==
    /\ limits' = [c \in DOMAIN limits \ gone |-> apply_rules_to_stats(c, rules)]
    /\ UNCHANGED <<rules, used>>

Known(c) == IF c \in DOMAIN limits THEN limits[c] ELSE NoLimit

With(c, lim) == [d \in DOMAIN limits \cup {c} |-> IF d = c THEN lim ELSE limits[d]]

\* An entry is made by a registration or a legacy packet; rules are not looked at.
Touch(c) ==
    /\ limits' = With(c, Known(c))
    /\ UNCHANGED <<rules, used>>

\* A packet is admitted (try_forward, try_broadcast): an entry without limits
\* gets them first.
Admit(c) ==
    LET lim == IF Known(c) = NoLimit THEN apply_rules_to_stats(c, rules) ELSE Known(c)
    IN  /\ limits' = With(c, lim)
        /\ used' = [comm |-> c, lim |-> lim]
        /\ UNCHANGED rules

Init ==
    /\ rules = <<>>
    /\ limits = [c \in {} |-> NoLimit]
    /\ used = NoUse

Next ==
    \/ \E lines \in SeqOf(Line, MaxLines) : Reload(lines)
    \/ \E gone \in SUBSET DOMAIN limits : Purge(gone)
    \/ \E c \in Communities : Touch(c) \/ Admit(c)

Spec == Init /\ [][Next]_vars

-----------------------------------------------------------------------------
(* Properties *)

\* Type invariant of the rules and of the limits of struct community_stats.
TypeOK ==
    /\ rules \in Seq(Rule)
    /\ DOMAIN limits \subseteq Communities /\ limits \in [DOMAIN limits -> Limit]
    /\ used \in [comm : Communities, lim : Limit] \cup {NoUse}

Matches(name, deny) == \E i \in DOMAIN rules : rules[i].name = name /\ rules[i].deny = deny

\* The blacklist works: an exact x denies whatever else the file says, a
\* wildcard x denies what no line names, and without an x nobody is denied
\* (community_denied).
BlacklistHolds ==
    \A c \in Communities :
        /\ Matches(c, TRUE) => community_denied(rules, c)
        /\ Matches(Wild, TRUE) /\ ~Matches(c, FALSE) => community_denied(rules, c)
        /\ ~Matches(c, TRUE) /\ ~Matches(Wild, TRUE) => ~community_denied(rules, c)

\* A packet is admitted under the limits the rules in force give its community,
\* whatever edits, reloads, purges and registrations came before ("so changed,
\* added and removed limits take effect immediately").
LimitsCurrent ==
    used # NoUse => used.lim = apply_rules_to_stats(used.comm, rules)

=============================================================================
