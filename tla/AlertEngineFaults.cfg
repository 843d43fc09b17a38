CONSTANTS
    cpu = cpu
    restarts = restarts
    stats = stats
    events = events
    NoOne = NoOne
    HasNotifier = TRUE
    Keys <- BothKeys
    BandKeys = {cpu}
    RestartKeys = {restarts}
    Evaluators <- TwoLoops
    HoldFor <- HoldOne
    Debounce = 1
    QueueCap = 2
    MaxTries = 1
    FaultKinds = {"count", "open", "resolve", "refused", "lost", "mark", "crash"}
    MaxLag = 1
    MaxAge = 2
    MaxFlips = 2
    MaxFaults = 1
SPECIFICATION Spec
INVARIANTS TrackedRowFires NotifiedWasDelivered DebounceTestIsIdle OneFiringRow NotResent
PROPERTIES LifecycleSpec NoticesInOrder
SYMMETRY Symmetric
