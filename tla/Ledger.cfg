SPECIFICATION PartSpec
CONSTANTS
    Dsts = {d1, d2}
    Sizes = {1, 3}
    Rates = {0, 2, 3}
    TopRate = 3
    Slots = 2
    MinBucket = 3
    MinDebt = 3
    DebtSeconds = 2
    MsPerSecond = 2
    MaxWait = 3
    NoPkt = NoPkt
    Loop = Loop
    Slow = 2
    Minutes = 2
    MinuteLen = 2
    Days = 2
    DayLen = 9
    IdleLimit = 18
    SaveEvery = 2
    Late = 1
    Bytes = {1}
    Cap = 2
    Throttled = TRUE
    Horizon = 8
    MaxBytes = 2
    BackSteps = 1
    BackBy = 2
    None = None
    Communities = {c1, c2}
    Wild = Wild
    Caps = {0, 1}
    RateCols = {0}
    Columns = {0, 1, 3}
    MaxLines = 2
    NoRule = NoRule
    NoUse = NoUse
INVARIANTS ShaperSound Conforms  
PROPERTIES Drains PurgeKeepsQuota
