SPECIFICATION Spec
CONSTANTS
    s1 = s1
    s2 = s2
    s3 = s3
    l1 = l1
    l2 = l2
    l3 = l3
    l4 = l4
    Job <- MCJob
    Local <- MCLocal
    Groups <- MCGroups
    Files <- MCFiles
    DryRun <- MCDryRun
    Triggers <- MCTriggers
    ProcessVars <- MCProcessVars
    SecretVars <- MCSecretVars
    SourceOrder <- MCSourceOrder
    SourceBytes <- MCSourceBytes
    PackageBytes <- MCPackageBytes
    VarOf <- MCVarOf
    InputName <- MCInputName
    Dev = TRUE
    MaxMoves = 2
INVARIANTS
    EnvIsOwn
    StepEnvironment
    ExitTellsFailure
CHECK_DEADLOCK FALSE
