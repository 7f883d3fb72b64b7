CONSTANTS
    a = a
    a1 = a1
    a2 = a2
    a3 = a3
    skip = skip
    reject = reject
    mark = mark
    NoPacket = NoPacket
    NoMark = NoMark
    IPs <- MCIP
    Flows <- MCFlows
    Inputs <- OneAddress
    Packet = "syn"
    MarkBits <- MCMarkBits
    SkipMarkEnabled = FALSE
    SkipMarkValue <- MCSkipMark
    SkipMarkMask <- MCSkipMark
    RejectMarkEnabled = FALSE
    RejectMarkValue <- MCRejectMark
    Whitelist <- MCNoWhitelist
    MaxPackets = 3
    MaxTime = 4
    MaxLost = 0
    BurstInterval = 2
    BurstMaxDelay = 0
    MaxPendingDelays = 2
    CleanupAfter = 1
SPECIFICATION Spec
INVARIANTS PendingCountExact NoStuckPending FlowsMatchWorkers SpacingBehindAccept
PROPERTIES LastReleaseMonotone
SYMMETRY FlowSymmetry
