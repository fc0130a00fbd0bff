SPECIFICATION PartSpec
CONSTANTS
    Hosts = {a, b}
    Configs <- SomeConfigs
    Kinds = {"routed", "arp", "mcast"}
    Sizes = {48, 4096}
    N2N_PKT_BUF_SIZE = 4096
    N2N_TRANSFORM_BUF_SIZE = 16384
    MaxTap = 1
    MaxNet = 1
    Edge = edge
    Sn = sn
    Lengths = {1}
    RxBuf = 6
    InFlight = 4
    PingEvery = 1
    IdleAfter = 2
    StaleAfter = 4
    MaxPackets = 2
    MaxStalls = 1
    MaxConnects = 2
    Gateways <- AllGateways
    LowPort = 1
    TopPort = 3
    LocalPort = 3
    UPNP_PORT_RETRY_MAX = 2
    UPNP_LEASE_TIME = 10
    MaxFaults = 2
INVARIANTS Understood Delivered Whole Kept 
CHECK_DEADLOCK FALSE
