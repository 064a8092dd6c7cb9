\* The child and one descendant; limit and grace pass, the client may leave.
CONSTANTS
    Leader = Leader
    d1 = d1
    Descendants = {d1}
    Limit = 1
    Grace = 1
    MaxTime = 2
SPECIFICATION FairSpec
INVARIANTS
    GroupEnds
    NaturalExitIsTrue
    ForegroundReturned
PROPERTIES
    RunKeepsContract
    ShutdownEndsRun
    OnlyOutputDelays
CHECK_DEADLOCK FALSE
