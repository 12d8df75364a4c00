SPECIFICATION FairSpec
CONSTANTS
    d1 = d1
    d2 = d2
    d3 = d3
    Delivery <- Mixed
    PipelineOf <- MixedPipelines
    Manifests <- MixedManifests
    Tracked = {d1, d2}
    MaxJobs = 1
    QueueSize = 1
    MaxFaults = 0
    MaxCancels = 1
    MaxRestarts = 0
PROPERTY TerminalIsFinal
CHECK_DEADLOCK FALSE
