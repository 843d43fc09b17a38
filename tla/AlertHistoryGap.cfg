CONSTANTS
    cpu = cpu
    restarts = restarts
    stats = stats
    events = events
    NoOne = NoOne
    HasNotifier = TRUE
    Keys <- LoopKey
    BandKeys = {}
    RestartKeys = {restarts}
    Evaluators <- OneLoop
    HoldFor <- HoldTwo
    Debounce = 2
    QueueCap = 1
    MaxTries = 1
    FaultKinds = {}
    Watched = {"flip"}
    MaxLag = 1
    MaxAge = 3
    MaxFlips = 4
    MaxFaults = 0
SPECIFICATION HistorySpec
PROPERTY GapBetweenFlips
