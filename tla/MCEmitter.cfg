CONSTANTS
    FlushEvery = 2
    MaxBatch = 2
    MaxPerFrame = 2
    MaxEvents = 4
    NoReply = NoReply
SPECIFICATION FairSpec
INVARIANTS
    EmitterTypeOK
    PostedInOrder
    NothingLeftBehind
    OvertakenOnlyIfGivenUp
    LossesKnown
PROPERTIES
    EveryEventPosted
