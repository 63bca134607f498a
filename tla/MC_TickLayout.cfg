CONSTANTS
    Configs <- MC_Configs
    ZeroTickAngle = 60
    MaxTickAngle = 300
SPECIFICATION Spec
CHECK_DEADLOCK FALSE
INVARIANTS
    TickTypeOK
    LabelsAtMajorTicks
