CONSTANTS
    Causes = {"crash", "oom", "command"}
    Threshold = 2
    Window = 2
    MaxTime = 2
    MaxLog = 4
    MaxBreaks = 2
    MaxFaults = 1
SPECIFICATION FairSpec
INVARIANTS NoGaps HandledIsStored
PROPERTIES HandledInTheEnd
CHECK_DEADLOCK FALSE
