CONSTANTS
    Values <- MC_Values
    MaxCount = 3
    MinVal = 0
    MaxVal <- MC_MaxVal
    NeedleVal0 = 0
    ZeroTickAngle = 60
    MaxTickAngle = 300
    ZeroNeedleAngle = 40
    MaxNeedleAngle = 320
    Undef = Undef
SPECIFICATION Spec
CHECK_DEADLOCK FALSE
INVARIANTS
    TypeOK
    MaxIsGreatest
    MinIsLeastWithoutZero
    NeedleMatchesValue
