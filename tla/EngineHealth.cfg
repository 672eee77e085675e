SPECIFICATION FairSpec
CONSTANTS
    MaxAttempts = 4
    Required = 3
    Window = 3
    Stale = 3
    Stuck = 3
    Base = 1
    MaxDelay = 4
INVARIANT TypeOK
PROPERTIES SnapshotsDoNotCount SilenceEnds StuckIsRescued
