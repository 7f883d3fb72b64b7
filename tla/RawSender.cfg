CONSTANTS
    Callers = {callback, goroutine, closer}
    Packets = {p, fragment}
    Complete = {p}
    Marks = {m1, m2}
    Nobody = Nobody
    NoRequest = NoRequest
    NoMark = NoMark
SPECIFICATION FairSpec
INVARIANT OnlyOpenSocket
PROPERTIES CallsReturn ImplementsRawSend
