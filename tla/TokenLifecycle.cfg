SPECIFICATION FairSpec
CONSTANTS
    Process = {"engine", "script"}
    Threshold = 2
    MaxGrants = 2
INVARIANTS
    EnvCurrent
    CacheFollowsEnv
PROPERTIES
    RefreshEnds
