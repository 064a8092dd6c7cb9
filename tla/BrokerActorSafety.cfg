\* Two connections, two accounts; a check may outlive the hard limit; every
\* behaviour is mapped to AuthorizationContract.
CONSTANTS
    c1 = c1
    c2 = c2
    a1 = a1
    a2 = a2
    Clients = {c1, c2}
    Accounts = {a1, a2}
    Stop = Stop
    NoClient = NoClient
    HardLimit = 2
    MaintenanceInterval = 1
    CheckTimeout = 1
    ExplicitTimeout = 1
    CommandTimeout = 1
    MaxTime = 1
SYMMETRY Interchangeable
SPECIFICATION Spec
INVARIANTS
    PendingInOnePlace
    AtMostOneLateChild
PROPERTIES
    FailedCheckRevokesAll
    HardLimitNeverMoves
    ContractHolds
CHECK_DEADLOCK FALSE
