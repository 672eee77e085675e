SPECIFICATION Spec
CONSTANTS
    engine = engine
    paper = paper
    cli = cli
    Manager <- EngineAndCli
    Disabled <- OnlyCli
CHECK_DEADLOCK FALSE
INVARIANTS
    FlagsAgree
    FileHoldsState
    KillOutlivesCrash
PROPERTIES
    NeverTorn
    RegisterSpec
    EscalationHasNoGap
