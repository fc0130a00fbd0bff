SPECIFICATION PartSpec
CONSTANTS
    Macs = {1, 2}
    Communities = {c1}
    Asks <- BothAsk
    Second = 3
    PairMax = 1
    Hold = 2
    Refresh = 2
    SyncMin = 1
    SyncMax = 3
    MaxDiff = 6
    MaxPairs = 2
    r1 = r1
    r2 = r2
    b = b
    Relays = {r1, r2}
    Peer = b
    NoRelay = NoRelay
    Known = {r2}
    Enabled = TRUE
    Proven = 1
    AckSecs = 2
    Member = 1
    GateSecs = 1
    Throttle = 1
    Crashes = 1
INVARIANTS Shape ExchangeFresh
PROPERTIES HandoffFires  FallsBack Recovers
