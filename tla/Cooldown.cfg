CONSTANTS
    a = a
    b = b
    fa = fa
    fb = fb
    skip = skip
    reject = reject
    mark = mark
    NoPacket = NoPacket
    NoMark = NoMark
    NoClient = NoClient
    IPs <- MCIPs
    Flows <- MCFlows
    Inputs <- Prelude
    Packet = "syn"
    MarkBits <- MCMarkBits
    SkipMarkEnabled = TRUE
    SkipMarkValue <- MCSkipMark
    SkipMarkMask <- MCSkipMark
    RejectMarkEnabled = TRUE
    RejectMarkValue <- MCRejectMark
    Whitelist <- MCWhitelist
    MaxPackets = 3
    MaxTime = 6
    MaxLost = 1
    Cooldowns <- Jittered
    MaxDropsPerIP = 1
    CleanupAfter = 3
SPECIFICATION FairSpec
INVARIANTS DropsBounded CountersAgree
PROPERTIES CooldownKept ClientsReclaimed ImplementsGate
