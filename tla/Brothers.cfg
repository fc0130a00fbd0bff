SPECIFICATION Spec
CONSTANTS
    Brothers = {b1, b2}
    V4Addrs = {}
    V6Addrs = {x1, x2}
    NoAddr = NoAddr
    Macs = {m1}
    Communities = {c1, c2}
    Slots = 2
    Promotions = 2
    Alive = 0
    PromotedTTL = 0
    Hour = 1
    TokenSet = TRUE
    Nobody = Nobody
    Free = Free
SYMMETRY BrotherSymmetry
INVARIANTS TablesSound VouchedProved RecordsProved
