CONSTANTS
    Containers = {"a", "b"}
    Started = {"a"}
    StatsWorkers = 1
    MaxChanges = 2
    MaxFaults = 1
    FaultKinds = {"call", "deadline", "list", "inspect", "restart"}
SPECIFICATION FairSpec
PROPERTIES RateWithinALife CycleEnds LeftoversGo SourceComesBack
