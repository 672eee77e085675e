SPECIFICATION Spec
CONSTANTS
    Process = {"engine", "script"}
    Threshold = 2
    MaxGrants = 2
INVARIANTS
    DeadTokenNeverSent
