SPECIFICATION FairGuardSpec
CONSTANTS
    p1 = p1
    p2 = p2
    p3 = p3
    i1 = i1
    i2 = i2
    i3 = i3
    i4 = i4
    Nil = Nil
    Proc <- MCProc
    Inode <- MCInode
    MaxTries = 3
CHECK_DEADLOCK FALSE
INVARIANTS
    RunnerPidIntact
    SoleHolderPerFile
PROPERTY StartersSettle
