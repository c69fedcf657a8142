SPECIFICATION MCSpec
CONSTANTS
    c1 = c1
    c2 = c2
    b1 = b1
    b2 = b2
    Commands = {c1, c2}
    Types <- MCTypes
    Buffers = {b1, b2}
    Vector = Vector
    None = None
    Races = {}
    MaxCalls = 3
    h1 = h1
    h2 = h2
    h3 = h3
    h4 = h4
    Headers = {h1, h2, h3, h4}
    NoHeader = NoHeader
    Sizes <- HalfBufferAtMost
    fBufferSize = 5
    ByteCounts = 16
    EarlyPackets = FALSE
    MaxSwitches = 3
CHECK_DEADLOCK FALSE
INVARIANTS
    CommandsAgree
    QueuedPacketsAreKept
PROPERTIES
    EveryCallback
    ImplementsPacketQueue
