SPECIFICATION Spec
CONSTANTS
    Edges = {a, b}
    Slots = {s1}
    Retries = 1
    Room = 2
    Openers = {a}
    Conns = 1
    Changes = 1
    Faults = 1
INVARIANTS EntriesSound OursAreSafe
PROPERTIES Agreed
CHECK_DEADLOCK FALSE
