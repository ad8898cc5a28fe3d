CONSTANTS
    s1 = s1
    v1 = v1
    v2 = v2
    v3 = v3
    v4 = v4
    floor = floor
    till = till
    p1 = p1
    p2 = p2
    q1 = q1
    q2 = q2
    e1 = e1
    e2 = e2
    e3 = e3
    NoZone = NoZone
    NoRow = NoRow
    NoAnswer = NoAnswer
    ServerError = ServerError
    NoId = NoId
    NoVisitor = NoVisitor
    NoDepth = NoDepth
    Ids <- MCIds
    Stores <- MCStores
    Visitors <- MCVisitors
    Zones <- MCZones
    BillingZones <- MCBillingZones
    MaxDepth = 1
    MaxTime = 4
    Window = 1
    MaxBatch = 4
    Requests <- MCRequests
    Loads <- MCLoads
    Clients <- MCClients
    Batches <- MCBatches
    Events <- MCEvents
    Payloads <- MCPayloads
    Transactions <- MCTransactions
    MaxFails = 1
    MaxLoadFails = 1
    Loaders <- MCLoaders
    Files <- MCFiles
    Slice = 2
    MaxSlices = 2
    Sims = {s1}
    Drawable <- MCDrawable
    SimZones = {floor}
    Checkout = till
    Interval = 2
    Step = 1
    Duration = 3
    MaxDwells = 1
    Replays <- MCReplays
    Samples <- MCSamples
    ReplaySlice = 2
    MaxPosts = 2
SPECIFICATION MCSpec
SYMMETRY Symmetric
INVARIANTS
    SendersTypeOK
    LoaderHonest
    JourneysTold
    ReplayHonest
