CONSTANTS
    k1 = k1
    k2 = k2
    v1 = v1
    v2 = v2
    v3 = v3
    red = red
    blue = blue
    door = door
    stock = stock
    cam1 = cam1
    cam2 = cam2
    cam3 = cam3
    cam4 = cam4
    cam5 = cam5
    floor = floor
    billing = billing
    korean = korean
    dermdoc = dermdoc
    cash = cash
    foh = foh
    pmu = pmu
    alps = alps
    swiss = swiss
    faces = faces
    maybelline = maybelline
    entry = entry
    queue = queue
    haircare = haircare
    NoZone = NoZone
    NoLook = NoLook
    NoSession = NoSession
    NoRecord = NoRecord
    Tracks = {k1, k2}
    Visitors <- MCVisitors
    Cameras = {door}
    EntryCameras = {door}
    Camera = door
    Buffer = 2
    Zones = {floor, billing}
    BillingNamed = {billing}
    Layout <- DoorLayout
    Points <- DoorPoints
    Looks = {red}
    SamePerson <- MCSimilar
    SameBody <- MCSimilar
    Uniform <- MCUniform
    MinZonesStaff = 5
    HalfHour = 2
    StaffDuration = 3
    ReentryTtl = 2
    CrossCamTtl = 1
    DwellEvery = 1
    Wall <- MCWall
    LastFrame = 4
SPECIFICATION ClipSpec
SYMMETRY Symmetric
INVARIANTS
    StaffExcluded
