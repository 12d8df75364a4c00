SPECIFICATION FairSpec
CONSTANTS
    j1 = j1
    j2 = j2
    j3 = j3
    j4 = j4
    j5 = j5
    Job <- FiveJobs
    MaxJobs = 2
    QueueSize = 2
INVARIANTS
    PermitsAccounted
    OnePlacePerJob
    LostOnlyByClosing
PROPERTIES
    ImplementsPool
    AcceptedIsServed
    ShutdownStops
CHECK_DEADLOCK FALSE
