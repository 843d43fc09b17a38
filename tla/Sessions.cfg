CONSTANTS
    c1 = c1
    c2 = c2
    t1 = t1
    r1 = r1
    r2 = r2
    Clients <- TwoClients
    Tokens = {t1}
    Requests <- TwoRequests
    Limit = 2
    Window = 2
    Capacity = 1
    TTL = 1
    MaxTime = 4
    MaxRestarts = 1
SPECIFICATION Spec
INVARIANTS WithinLimit RefusesOnlyExcess
PROPERTY LoggedOutIsRefused
SYMMETRY Symmetric
