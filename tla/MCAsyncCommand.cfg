SPECIFICATION FairSpec
CONSTANTS
    c2 = c2
    c3 = c3
    d1 = d1
    d2 = d2
    l1 = l1
    Commands = {c2, c3}
    Devices = {d1, d2}
    fDevice <- MCDevice
    FailOnReset = {c3}
    Reads = {c2}
    UserCommands = {c3}
    Labels = {l1}
    NoLabel = NoLabel
    NoCommand = NoCommand
    fMaxRetries = 1
    MaxPackets <- MCMaxPackets
    MaxTrouble = 2
CHECK_DEADLOCK FALSE
INVARIANTS
    LabelsAndQueues
    AnsweredTruly
PROPERTIES
    DroppedOnlyUnsettled
    Answers
