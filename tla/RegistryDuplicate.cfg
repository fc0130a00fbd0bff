SPECIFICATION Spec
CONSTANTS
    Macs = {m1, m2}
    Communities = {c1}
    V4Addrs = {a1}
    LanAddrs = {}
    V6Addrs = {}
    NoSock = NoSock
    ReqIps = {0, 2}
    NatTypes = {0}
    PoolFirst = 2
    PoolLast = 6
    SafetyLimit = 5
    Timeout = 1
    StatsEnabled = FALSE
    Moves = FALSE
INVARIANTS UniqueIp
SYMMETRY MacSymmetry
