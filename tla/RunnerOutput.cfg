\* Shutdown is requested between two looks of one poll.
CONSTANTS
    Leader = Leader
    d1 = d1
    Descendants = {d1}
    Limit = 1
    Grace = 1
    MaxTime = 2
SPECIFICATION Spec
INVARIANTS
    NaturalExitAfterStreams
CHECK_DEADLOCK FALSE
