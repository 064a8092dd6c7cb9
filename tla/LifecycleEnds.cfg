\* Two starts and a stop; one broker may die, one client leave, or one
\* connection find every slot held.
CONSTANTS
    a1 = a1
    a2 = a2
    s1 = s1
    s2 = s2
    Starts = {a1, a2}
    Stops = {s1}
    None = None
    MaxFaults = 1
SPECIFICATION FairSpec
PROPERTIES
    BrokerStops
    ClientsFinish
CHECK_DEADLOCK FALSE
