SPECIFICATION Spec
CONSTANTS
    owner = owner
    other = other
    third = third
    repo = repo
    Owner = owner
    Did <- TwoDids
    Name <- OneName
    Logs <- OneHistory
    SaveEvery = 2
    Capacity = 1
    MaxMoves = 0
INVARIANT
    DeletedIsNoMember
CHECK_DEADLOCK FALSE
