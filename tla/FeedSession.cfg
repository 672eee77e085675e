SPECIFICATION Spec
CONSTANTS
    r1 = r1
    r2 = r2
    token = token
    Client <- TwoClients
    Restorer <- TwoRestorers
    Refresher <- OneRefresher
    DegradeAt = 2
    CircuitAt = 3
    MaxDrops = 2
    MaxFails = 2
    MaxRefreshes = 1
    MaxPreempts = 1
    MaxSilences = 1
SYMMETRY Symmetry
CHECK_DEADLOCK FALSE
INVARIANTS
    ReauthExclusive
    OperationalIsAuthorised
