\* Two connections, one account, a grant that ends with its first interval, so
\* that children may start behind it; every behaviour is mapped to the other
\* contracts, and the liveness properties name the fairness they need.
CONSTANTS
    c1 = c1
    c2 = c2
    a1 = a1
    a2 = a2
    Clients = {c1, c2}
    Accounts = {a1}
    Stop = Stop
    NoClient = NoClient
    HardLimit = 1
    MaintenanceInterval = 1
    CheckTimeout = 1
    ExplicitTimeout = 1
    CommandTimeout = 1
    MaxTime = 1
SPECIFICATION Spec
INVARIANTS
    FewChildrenBehindLimit
PROPERTIES
    ChildrenKeepContract
    RequestsKeepContract
    QueueKeepsContract
    ActiveAnswersAreCurrent
    StopCompletes
    EveryRequestSettles
CHECK_DEADLOCK FALSE
