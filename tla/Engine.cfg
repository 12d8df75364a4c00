SPECIFICATION FairSpec
CONSTANTS
    r1 = r1
    r2 = r2
    build = build
    unnamed = unnamed
    Run = {r1, r2}
    Wid = {build, unnamed}
    Naming <- AnyNaming
    Steps <- Lengths
    Absent = Absent
    Taken = Taken
    MaxFaults = 1
    MaxSpoofed = 1
    MaxUnread = 1
INVARIANTS
    OneOwner
    StepFindsContainer
    CleanAfter
PROPERTY StragglersDie
CHECK_DEADLOCK FALSE
