CONSTANTS
    MaxProcs = 2
    MaxGauges = 3
    MaxLines = 2
    None = None
SPECIFICATION DSpec
CHECK_DEADLOCK FALSE
PROPERTIES
    SamplesFromCurrentRun
