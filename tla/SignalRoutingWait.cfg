SPECIFICATION Spec
CONSTANTS
    EURUSD = EURUSD
    GBPUSD = GBPUSD
    bos = bos
    smc = smc
    LONG = LONG
    SHORT = SHORT
    Symbols <- MCSymbols
    Strategies <- MCStrategies
    Directions <- MCDirections
    Emits <- MCEmits
    MaxAtRisk = 2
    MaxSignals = 3
    MaxDays = 1
INVARIANT SentWhileWaiting
CHECK_DEADLOCK FALSE
