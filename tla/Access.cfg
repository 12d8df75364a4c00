SPECIFICATION FairSpec
CONSTANTS
    owner = owner
    other = other
    third = third
    repo = repo
    Owner = owner
    Did <- ThreeDids
    Name <- OneName
    Logs <- Histories
    SaveEvery = 2
    Capacity = 1
    MaxMoves = 2
INVARIANTS
    RolesFollowTables
    CursorCovers
    ReplayConverges
PROPERTIES
    EventHeard
CHECK_DEADLOCK FALSE
