CONSTANTS
    MaxProcs = 4
    MaxGauges = 5
    None = None
SPECIFICATION Spec
CHECK_DEADLOCK FALSE
INVARIANTS
    TypeOK
    
    OnlyCurrentUnkilled
    CurrentMatchesConfig
    GaugesHaveProcess
PROPERTIES
    LifecycleRefined
