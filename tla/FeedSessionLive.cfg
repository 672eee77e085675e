SPECIFICATION FairSpec
CONSTANTS
    r1 = r1
    r2 = r2
    token = token
    Client <- TwoClients
    Restorer <- TwoRestorers
    Refresher <- OneRefresher
    DegradeAt = 2
    CircuitAt = 3
    MaxDrops = 1
    MaxFails = 1
    MaxRefreshes = 1
    MaxPreempts = 1
    MaxSilences = 0
CHECK_DEADLOCK FALSE
PROPERTY LockFreed
