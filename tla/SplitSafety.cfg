CONSTANTS
    f = f
    c = c
    skip = skip
    split = split
    mark = mark
    NoPacket = NoPacket
    NoKey = NoKey
    NoMark = NoMark
    Flows <- MCFlow
    Clients <- MCClients
    ClientOf <- MCClientOf
    SeqSpace = 4
    MaxLen = 3
    Inputs <- Resent
    MarkBits <- MCMarkBits
    SkipMarkEnabled = TRUE
    SkipMarkValue <- MCSkipMark
    SkipMarkMask <- MCSkipMark
    SplitMarkValue <- MCSplitMark
    SplitAt = 1
    SplitDelay = 1
    SplitSeenTTL = 2
    TLSHeaderLen = 2
    FakeLength = 0
    FakeDelay = 0
    MaxPackets = 3
    MaxTime = 3
    MaxFails = 1
    MaxLost = 0
    Options <- CuttingModes
SPECIFICATION Spec
INVARIANTS NoSecondCut PartsBelongTogether KeysHaveReason PassedStaysWhole
PROPERTIES PassesSpaced
CHECK_DEADLOCK FALSE
