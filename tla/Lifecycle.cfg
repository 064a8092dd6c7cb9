\* Two starts and two stops; one broker may die, one client leave, or one
\* connection find every slot held.
CONSTANTS
    a1 = a1
    a2 = a2
    s1 = s1
    s2 = s2
    Starts = {a1, a2}
    Stops = {s1, s2}
    None = None
    MaxFaults = 1
SPECIFICATION Spec
SYMMETRY Interchangeable
INVARIANTS
    OneExecutor
    StoppedIsDown
    LoneStopSucceeds
PROPERTIES
    OnlyStaleRemoved
CHECK_DEADLOCK FALSE
