CONSTANTS
    cpu = cpu
    restarts = restarts
    stats = stats
    events = events
    NoOne = NoOne
    HasNotifier = TRUE
    Keys <- OneKey
    BandKeys = {}
    RestartKeys = {}
    Evaluators <- TwoLoops
    HoldFor <- HoldTwo
    Debounce = 2
    QueueCap = 1
    MaxTries = 2
    FaultKinds = {"open", "refused", "resolve", "restore", "crash"}
    Watched = {"contrary"}
    MaxLag = 1
    MaxAge = 3
    MaxFlips = 2
    MaxFaults = 1
SPECIFICATION FairHistorySpec
PROPERTIES FiresInTheEnd ResolvesInTheEnd QueuedIsDelivered HeldButForLag ClearButForLag
