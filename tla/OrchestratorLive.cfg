SPECIFICATION FairSpec
CONSTANTS
    d1 = d1
    d2 = d2
    d3 = d3
    Delivery <- Mixed
    PipelineOf <- MixedPipelines
    Manifests <- MixedManifests
    Tracked = {d1, d2}
    MaxJobs = 1
    QueueSize = 1
    MaxFaults = 1
    MaxCancels = 1
    MaxRestarts = 1
INVARIANT EventsFollowRows
PROPERTIES
    ResultsSurvive
    PermitComesBack
    TasksEnd
    WorkflowsSettle
CHECK_DEADLOCK FALSE
