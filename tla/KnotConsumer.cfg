SPECIFICATION FairSpec
CONSTANTS
    k1 = k1
    c1 = c1
    c2 = c2
    Knot <- OneKnot
    Caller <- TwoCallers
    Capacity = 1
    MaxEvents = 2
    Other = {1}
    MaxMoves = 2
INVARIANTS
    EntryOwnsTask
    AtMostOnce
PROPERTIES
    EventArrives
    LockComesBack
CHECK_DEADLOCK FALSE
