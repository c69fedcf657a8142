SPECIFICATION MCSpec
CONSTANTS
    c1 = c1
    c2 = c2
    Channels = {c1, c2}
    Bandwidth = 3
    OthersWant <- BandwidthAndChannel
    MaxGeneration = 3
    MaxMoves = 3
    Requests <- MCRequests
    Races = {"staleThread"}
    Types <- MCTypes
    Buffers = {b1}
    Callbacks = {p1, p2}
    none = none
    MaxNotified = 2
    MaxEdits = 3
    ProgramRisks = {}
    MaxCommands = 4
    MaxUpdates = 2
    MaxJumpEdits = 2
    LegacyRisks = {}
    PoolThreads = {t1, t2}
    StorageSize = 9
    CommandSizes = {2, 3}
    GrownSize = 10
    PoolRisks = {}
    PageSize = 2
    LastAddress = 9
    MaxBuffers = 3
    BufferRisks = {}
CHECK_DEADLOCK FALSE
INVARIANTS OwnResourcesOnly HeldWhileAllocated ProgramsRunAsTold MemoryIsSound
PROPERTIES LossesAreTold
