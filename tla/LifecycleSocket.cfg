\* Two starts and a stop; nothing fails.
CONSTANTS
    a1 = a1
    a2 = a2
    s1 = s1
    s2 = s2
    Starts = {a1, a2}
    Stops = {s1}
    None = None
    MaxFaults = 0
SPECIFICATION Spec
INVARIANTS
    ServingBrokerIsReachable
CHECK_DEADLOCK FALSE
