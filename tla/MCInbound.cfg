SPECIFICATION MCSpec
CONSTANTS
    Nodes = {n1, n2}
    Labels = {1}
    Spaces = {s1, s2}
    AddressSize = 8
    FullLength = 3
    kCSRRegisterSpaceBaseAddressHi = 9
    PseudoShapes <- MCPseudoShapes
    FixedShapes <- MCFixedShapes
    RequestShapes <- MCRequestShapes
    MaxRequests = 2
    MaxInboundResets = 1
    InboundRaces = {}
    queue_count = 4
    MaxPHYPackets = 5
    MaxSwitches = 4
    PHYRaces = {}
    Channels = {1, 2}
    Receivers = {r1, r2}
    NoReceiver = NoReceiver
    KernelListeners = {k1}
    User = User
    Headers = {h1, h2, h3}
    NoHeader = NoHeader
    fBufferSize = 4
    Sizes = {1, 2}
    MaxPackets = 4
    StreamRaces = {}
CHECK_DEADLOCK FALSE
INVARIANTS AddressesApart AnsweredByItsSpace ListenersGetEveryPacket
PROPERTIES AllAnswered
