CONSTANTS
    f = f
    c = c
    skip = skip
    split = split
    mark = mark
    NoPacket = NoPacket
    NoKey = NoKey
    NoMark = NoMark
    Flows <- MCFlow
    Clients <- MCClients
    ClientOf <- MCClientOf
    SeqSpace = 4
    MaxLen = 3
    Inputs <- TwoParts
    MarkBits <- MCMarkBits
    SkipMarkEnabled = TRUE
    SkipMarkValue <- MCSkipMark
    SkipMarkMask <- MCSkipMark
    SplitMarkValue <- MCSplitMark
    SplitAt = 1
    SplitDelay = 1
    SplitSeenTTL = 1
    TLSHeaderLen = 2
    FakeLength = 0
    FakeDelay = 0
    MaxPackets = 3
    MaxTime = 4
    MaxFails = 1
    MaxLost = 0
    Options <- OnlyInOrder
SPECIFICATION Spec
INVARIANTS SecondRemembered
CHECK_DEADLOCK FALSE
