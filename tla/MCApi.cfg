CONSTANTS
    s1 = s1
    s2 = s2
    v1 = v1
    v2 = v2
    floor = floor
    till = till
    r1 = r1
    r2 = r2
    l1 = l1
    l2 = l2
    e1 = e1
    e2 = e2
    e3 = e3
    e4 = e4
    e5 = e5
    e6 = e6
    NoZone = NoZone
    NoRow = NoRow
    NoAnswer = NoAnswer
    ServerError = ServerError
    Ids <- MCIds
    Stores <- MCStores
    Visitors <- MCVisitors
    Zones <- MCZones
    BillingZones <- MCBillingZones
    MaxDepth = 1
    MaxTime = 3
    Window = 1
    MaxBatch = 4
    Requests = {r1}
    Loads = {l1, l2}
    Clients = {r1, l1, l2}
    Batches <- TillBatches
    Events <- TillEvents
    Payloads <- TillPayloads
    Transactions <- TillTransactions
    MaxFails = 0
    MaxLoadFails = 1
SPECIFICATION TillSpec
SYMMETRY Symmetric
INVARIANTS
    ApiTypeOK
    ConversionsReconcile
    ConversionCountNotAhead
    LoadedOnce
PROPERTIES
    ConversionsJustified
    NoLostUpdate
