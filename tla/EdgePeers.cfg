SPECIFICATION FairSpec
CONSTANTS
    Macs = {p}
    V4 = {a1, a2}
    V6 = {b1}
    SameNat = {a2}
    NoAddr = NoAddr
    OwnV6 = TRUE
    SnV6 = FALSE
    Rounds = 2
    RoundSecs = 1
    LanSecs = 1
    Retries = 2
    RetrySecs = 1
    Idle = 2
    ProbeSecs = 1
    MaxFails = 2
    CacheTtl = 1
    Active = 2
    Alive = 4
    Expiry = 6
    Stuck = 3
INVARIANTS ListsSound DirectOnlyFresh
CHECK_DEADLOCK FALSE
PROPERTY Forgets
