CONSTANTS
    a = a
    b = b
    fa = fa
    fb = fb
    skip = skip
    reject = reject
    mark = mark
    NoPacket = NoPacket
    NoMark = NoMark
    NoClient = NoClient
    IPs <- MCIP
    Flows <- MCFlows
    Inputs <- OneAddress
    Packet = "syn"
    MarkBits <- MCMarkBits
    SkipMarkEnabled = FALSE
    SkipMarkValue <- MCSkipMark
    SkipMarkMask <- MCSkipMark
    RejectMarkEnabled = FALSE
    RejectMarkValue <- MCRejectMark
    Whitelist <- MCNoWhitelist
    MaxPackets = 5
    MaxTime = 6
    MaxLost = 0
    Cooldowns <- Jittered
    MaxDropsPerIP = 1
    CleanupAfter = 3
SPECIFICATION Spec
INVARIANT DropsWithinLimit
