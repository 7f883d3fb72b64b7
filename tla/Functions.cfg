\* Algorithm with 5-bit integers.
CONSTANTS
    Packets <- MCPackets
    Offsets = {1, 2, 5}
    FakeLengths = {0, 1, 5}
    SeqSpace = 16
    LenSpace = 64
    Byte = 4
    MaxBytes = 6
    MaxInt64 = 15
SPECIFICATION SidesSpec
INVARIANTS InBounds SameStream PartsParse FakeParses
    FixedVerifies FakeRefusedUnlessZero
    ResultInRange Unbiased MostlyAccepted WholeRangeDrawn
CHECK_DEADLOCK FALSE
