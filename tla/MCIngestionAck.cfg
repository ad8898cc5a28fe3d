CONSTANTS
    s1 = s1
    s2 = s2
    v1 = v1
    v2 = v2
    floor = floor
    till = till
    r1 = r1
    r2 = r2
    r3 = r3
    e1 = e1
    e2 = e2
    e3 = e3
    e4 = e4
    e5 = e5
    e6 = e6
    e7 = e7
    e8 = e8
    e9 = e9
    e10 = e10
    e11 = e11
    NoZone = NoZone
    NoRow = NoRow
    NoAnswer = NoAnswer
    ServerError = ServerError
    Ids <- MCIds
    Stores <- MCStores
    Visitors <- MCVisitors
    Zones <- MCZones
    BillingZones <- MCBillingZones
    MaxDepth = 1
    MaxTime = 4
    MaxBatch = 3
    Requests = {r1, r2}
    Clients = {r1, r2}
    Batches <- RetryBatches
    Events <- RetryEvents
    MaxFails = 1
SPECIFICATION Spec
SYMMETRY SymmetricRequests
INVARIANTS
    AcknowledgedEventsApplied
