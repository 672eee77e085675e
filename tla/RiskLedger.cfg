SPECIFICATION FairSpec
CONSTANTS
    MaxSignals = 2
    Symbol <- SymbolOf
    Sizes = {3}
    Base = 2
    MaxOpen = 5
    DailyCap = 6
    Loss = {0, 1}
    MaxTime = 2
    MaxSkew = 2
    MaxDays = 1
    MaxRestarts = 1
CHECK_DEADLOCK FALSE
INVARIANTS
    TypeOK
    HeldIsReachable
    
PROPERTIES
    
    DriftRepaired
