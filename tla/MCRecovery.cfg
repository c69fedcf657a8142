SPECIFICATION MCSpec
CONSTANTS
    kScanBusDelay = 1
    kBusResetStartTimeout = 8
    kBusResetTimeout = 2
    kSelfIDTimeout = 2
    kRepeatResetDelay = 4
    kNormalDevicePruneDelay = 2
    kOnlyNodeDevicePruneDelay = 5
    kWakeDevicePruneDelay = 6
    kWakeDevicePruneDelayBusy = 7
    kMaxWaitForValidSelfID = 1
    MaxRemoteNodes = 2
    MaxDisabled = 2
    MaxTrouble = 2
    Faults = {"late", "noSelfIDs"}
    Units = {u1, u2}
    Readers = {r1}
    MaxGeneration = 3
    MaxUpdates = 2
    MaxResets = 1
    MaxAdds = 2
    ROMRisks = {}
    LoopThreads = {pm, t1, t2}
    PowerThread = pm
    Nobody = Nobody
    EventSources = {s1, s2}
    ChannelNumbers = {30, 31}
    Broadcast = 31
    IDs = {0, 1, 2}
    kFWBadNodeID = 65535
    LockRetries = 2
    MaxIRMResets = 3
CHECK_DEADLOCK FALSE
INVARIANTS
    RecoveryIsSound
PROPERTIES
    BusRecovers
