SPECIFICATION Spec
CONSTANTS
    d1 = d1
    d2 = d2
    d3 = d3
    Delivery <- Pair
    PipelineOf <- PairPipelines
    Manifests <- PairManifests
    Tracked = {d1, d2}
    MaxJobs = 1
    QueueSize = 1
    MaxFaults = 0
    MaxCancels = 0
    MaxRestarts = 0
INVARIANTS
    WorkUnderPermit
    SomebodyHasIt
    EventsInOrder
    EnvDestroyed
PROPERTIES
    RowsLiveOneLife
    QueueUnderContract
CHECK_DEADLOCK FALSE
