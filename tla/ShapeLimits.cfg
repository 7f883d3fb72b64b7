CONSTANTS
    a = a
    a1 = a1
    a2 = a2
    a3 = a3
    skip = skip
    reject = reject
    mark = mark
    NoPacket = NoPacket
    NoMark = NoMark
    IPs <- MCIP
    Flows <- MCFlows
    Inputs <- MarkedPackets
    Packet = "syn"
    MarkBits <- MCMarkBits
    SkipMarkEnabled = TRUE
    SkipMarkValue <- MCSkipMark
    SkipMarkMask <- MCSkipMark
    RejectMarkEnabled = TRUE
    RejectMarkValue <- MCRejectMark
    Whitelist <- MCNoWhitelist
    MaxPackets = 3
    MaxTime = 2
    MaxLost = 1
    BurstInterval = 1
    BurstMaxDelay = 1
    MaxPendingDelays = 1
    CleanupAfter = 0
SPECIFICATION FairSpec
INVARIANTS PendingWithinLimit CountersAgree
PROPERTIES ImplementsGate EveryPacketAnswered PacersReclaimed 
