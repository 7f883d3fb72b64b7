CONSTANTS
    f = f
    c = c
    skip = skip
    split = split
    mark = mark
    NoPacket = NoPacket
    NoKey = NoKey
    NoMark = NoMark
    Flows <- MCFlow
    Clients <- MCClients
    ClientOf <- MCClientOf
    SeqSpace = 4
    MaxLen = 3
    Inputs <- Prelude
    MarkBits <- MCMarkBits
    SkipMarkEnabled = TRUE
    SkipMarkValue <- MCSkipMark
    SkipMarkMask <- MCSkipMark
    SplitMarkValue <- MCSplitMark
    SplitAt = 1
    SplitDelay = 1
    SplitSeenTTL = 1
    TLSHeaderLen = 2
    FakeLength = 0
    FakeDelay = 0
    MaxPackets = 2
    MaxTime = 2
    MaxFails = 1
    MaxLost = 1
    Options <- LiveModes
SPECIFICATION FairSpec
PROPERTIES EveryPacketAnswered SecondFollows MapsReclaimed ImplementsGate
CHECK_DEADLOCK FALSE
