SPECIFICATION PartSpec
CONSTANTS
    Macs = {m1, m2}
    Communities = {c1}
    V4Addrs = {a1}
    LanAddrs = {}
    Lan = l1
    V6Addrs = {}
    Six = b1
    NoSock = NoSock
    ReqIps = {0, 20, 21}
    NatTypes = {0}
    PoolFirst = 2
    PoolLast = 6
    SafetyLimit = 5
    Timeout = 1
    StatsEnabled = TRUE
    Moves = FALSE
    s1 = s1
    s2 = s2
    Configured <- OneMore
    Sn1 = s1
    Homes = {h1, h2}
    Backup = b
    NoAddr = NoAddr
    Domain = TRUE
    Capacity = 3
    Attempts = 1
    Fast = 1
    Period = 2
    Cooldown = 3
INVARIANTS UniqueIp PrimaryKnown EdgeTypes
PROPERTIES Expires Loyal Reaches Returns
CHECK_DEADLOCK FALSE
