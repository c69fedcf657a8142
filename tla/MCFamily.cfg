SPECIFICATION MCSpec
CONSTANTS
    kScanBusDelay = 1
    kBusResetStartTimeout = 8
    kBusResetTimeout = 2
    kSelfIDTimeout = 2
    kRepeatResetDelay = 4
    kNormalDevicePruneDelay = 2
    kOnlyNodeDevicePruneDelay = 5
    kWakeDevicePruneDelay = 6
    kWakeDevicePruneDelayBusy = 7
    kMaxWaitForValidSelfID = 1
    MaxRemoteNodes = 2
    MaxDisabled = 2
    MaxTrouble = 4
    Faults = {"fail", "lose", "late", "noSelfIDs"}
    TransferKinds <- TransferKindNames
    LastQuadlet = 2
    Packs = {2, 3}
    DevicePacks = {1, 3}
    TransferRetries = 1
    MaxSubmits = 2
    MaxLosses = 3
    TransferRisks = {}
    Layouts <- MCLayouts
    AddressMask = 7
    MapperShift = 2
    MaxChanges = 2
    PhysicalRisks = {}
    Notifiers <- NotifierKinds
    MaxTurns = 5
    MaxNews = 2
    NotificationRisks = {}
    Words = {1}
    Values = {0, 1, 2}
    LockModes = {"user", "auto", "autoRead"}
    MaxRequests = 3
    MaxLockResets = 1
    LockRisks = {}
    MaxBusGeneration = 3
    Threads = {t1}
    MaxGenerations = 2
    kFWCmdDefaultRetries = 1
    LearnsEarly = FALSE
    NodeIDs = {0, 1}
    ReaderThreads = {d1, d2}
    CallsOf <- MCCallsOf
    d1 = d1
    d2 = d2
    NoObject = NoObject
    InitialCapacity = 2
    MaxCapacity = 3
CHECK_DEADLOCK FALSE
INVARIANTS
    ResetsAreTimed
    PruneAfterScan
    TransfersAreTrue
    PhysicalSpacesAreReached
    NotificationsAreSound
    UserLocksAreSound
    AnswersAreOfTheirGeneration
    CallersAreServed
PROPERTIES
    ResetsRespectCriticalSections
