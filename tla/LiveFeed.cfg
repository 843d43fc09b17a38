CONSTANTS
    Alerts = {1}
    Buffer = 2
    Callers = {"inventory", "updates"}
    MaxChanges = 1
    MaxConns <- Enough
    MaxFaults = 1
SPECIFICATION ScenarioSpec
INVARIANTS FeedTypeOK AlertsAreRight
PROPERTIES ContainersConverge OneSubscription
