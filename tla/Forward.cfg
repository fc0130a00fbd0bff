SPECIFICATION ForwardSpec
CONSTANTS
    c1 = c1
    Members = {l, e, w}
    NoOne = NoOne
    Comm <- OneCommunity
    Legacy = {l}
    Eager = {e}
    OnWs = {w}
    Endpoints = {x, y, z}
    TcpAddr = TcpAddr
    Slots = {1}
    FanOuts = {1, 3}
    Buffer = 1
 
PROPERTIES DeadDropped
