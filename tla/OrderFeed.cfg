SPECIFICATION Spec
CONSTANTS
    o1 = o1
    Order <- OneOrder
    Foreign = 1
    Fates <- AllFates
    Forms <- AnyId
    Contradictory = FALSE
    MaxDeliver = 3
    MaxDisconnect = 2
CHECK_DEADLOCK FALSE
INVARIANTS
    ExecFillOnce
    ErrorRejectOnce
    
    PendingIsTracked
 
