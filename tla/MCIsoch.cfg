SPECIFICATION MCSpec
CONSTANTS
    c1 = c1
    c2 = c2
    Channels = {c1, c2}
    NoChannel = NoChannel
    Bandwidth = 3
    OthersWant <- BandwidthAndChannel
    MaxGeneration = 3
    MaxMoves = 2
    bandwidth = 2
    inAllowedChans = {c1, c2}
    DelayRetries = 2
    Races = {"staleThread"}
    FailingSteps = {"read","bandwidth","releaseBandwidth","releaseChannel","reallocBandwidth","reallocChannel"}
    l1 = l1
    l2 = l2
    r1 = r1
    LocalPorts = {l1, l2}
    RemotePorts = {r1}
    mTalker = l2
    mListeners <- MCListeners
    MaxStarts = 2
    MaxCallbacks = 1
    MaxChannelResets = 1
    PortRaces = {}
CHECK_DEADLOCK FALSE
INVARIANTS HoldsWhatItBelieves PortsEndProperly
PROPERTIES SettlesInTheEnd
