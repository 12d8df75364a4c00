SPECIFICATION FairEventsSpec
CONSTANTS
    e1 = e1
    e2 = e2
    c1 = c1
    Emitter <- TwoEmitters
    Client <- OneClient
    Capacity = 2
    Limit = 2
    MaxEvents = 3
    MaxDrops = 1
    MaxCrashes = 1
INVARIANTS
    OnceInOrder
    CursorTruthful
PROPERTY EventArrives
CHECK_DEADLOCK FALSE
