SPECIFICATION Spec
CONSTANTS
    a = a
    b = b
    Ends = {a, b}
    Parts <- OneWay
    W = 16
    Start = 14
    SndWnd = 2
    RcvWnd = 3
    Channel = 2
    Faults = 1
INVARIANTS WindowsSound
PROPERTIES Reliable
