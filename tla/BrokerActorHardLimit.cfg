\* The hard limit passes between a look at the records and the start that it is for.
CONSTANTS
    c1 = c1
    c2 = c2
    a1 = a1
    a2 = a2
    Clients = {c1, c2}
    Accounts = {a1, a2}
    Stop = Stop
    NoClient = NoClient
    HardLimit = 2
    MaintenanceInterval = 1
    CheckTimeout = 1
    ExplicitTimeout = 1
    CommandTimeout = 1
    MaxTime = 2
SYMMETRY Interchangeable
SPECIFICATION Spec
PROPERTIES
    NothingStartsAfterHardLimit
CHECK_DEADLOCK FALSE
