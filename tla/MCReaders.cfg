CONSTANTS
    s1 = s1
    v1 = v1
    v2 = v2
    aisle = aisle
    till = till
    r1 = r1
    r2 = r2
    l1 = l1
    c1 = c1
    e1 = e1
    e2 = e2
    e3 = e3
    e4 = e4
    e5 = e5
    e6 = e6
    e7 = e7
    e8 = e8
    e9 = e9
    e10 = e10
    e11 = e11
    NoZone = NoZone
    NoRow = NoRow
    NoAnswer = NoAnswer
    ServerError = ServerError
    Ids <- MCIds
    Stores <- MCStores
    Visitors <- MCVisitors
    Zones <- MCZones
    BillingZones <- MCBillingZones
    KnownZones = {till}
    MaxDepth = 2
    MaxTime = 2
    Window = 1
    MaxBatch = 4
    Requests = {r1, r2}
    Loads = {l1}
    Calls = {c1}
    Clients = {r1, r2, l1}
    Batches <- MCBatches
    Events <- MCEvents
    Payloads <- MCPayloads
    Transactions <- MCTransactions
    MaxFails = 0
    MaxLoadFails = 0
    Enough = 2
    Long = 2
    VeryLong = 3
    Recent = 0
    Week = 1
    Day = 1
SPECIFICATION MCSpec
SYMMETRY SymmetricRequests
INVARIANTS
    InsightsTypeOK
    VisitorsNotInflated
    FunnelNarrows
    LastEventStored
    DwellDriftBounded
    QueueDepthWitnessed
    DeadAmidTraffic
