\* A descendant outside of the group keeps an output pipe.
CONSTANTS
    Leader = Leader
    d1 = d1
    Descendants = {d1}
    Limit = 1
    Grace = 1
    MaxTime = 2
SPECIFICATION FairSpec
PROPERTIES
    ProbeEnds
CHECK_DEADLOCK FALSE
