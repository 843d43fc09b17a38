CONSTANTS
    Causes = {"crash"}
    Threshold = 2
    Window = 2
    MaxTime = 3
    MaxLog = 4
    MaxBreaks = 2
    MaxFaults = 0
SPECIFICATION Spec
INVARIANTS LoopHasDeathsOrRestarts
CHECK_DEADLOCK FALSE
