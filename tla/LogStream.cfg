SPECIFICATION FairSpec
CONSTANTS
    Steps = 2
    MaxOutput = 2
    MaxMoves = 2
INVARIANTS
    StepsKeepTheirOutput
    ClientGetsTheLog
PROPERTIES
    StreamEnds
CHECK_DEADLOCK FALSE
