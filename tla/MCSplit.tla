------------------------------- MODULE MCSplit -------------------------------
(***************************************************************************)
(* Instances of Split for TLC.                                             *)
(***************************************************************************)
EXTENDS Split

CONSTANTS f,                \* a flow
          c,                \* its client
          skip, split, mark \* bits of a mark

MCFlow == {f}
MCClients == {c}
MCClientOf == [fl \in Flows |-> c]
MCMarkBits == {skip, split, mark}
MCSkipMark == {skip}
MCSplitMark == {split}

Seg(seq, len, m) ==
    [parsed |-> TRUE, key |-> [flow |-> f, seq |-> seq, len |-> len], mark |-> m]

\* A segment at the end of the sequence space, what its second part looks like
\* when it is sent again, and with it a segment too short to be cut.
Resent == {Seg(3, 3, NoMark), Seg(0, 2, NoMark), Seg(1, 1, NoMark)}
\* A segment and its second part.
TwoParts == {Seg(0, 3, NoMark), Seg(1, 2, NoMark)}
\* What the callback tells apart first: marks, and packets it does not parse.
Prelude == {Seg(3, 3, {mark}), Seg(0, 2, NoMark), Seg(1, 1, NoMark),
            Seg(0, 2, {skip, mark}), [Seg(0, 1, NoMark) EXCEPT !.parsed = FALSE]}

\* Ways to run the action: parts in order, a fake in their place, a fake and then
\* the parts in reverse, only inside windows, only the first part.
InOrderMode == [SplitProbe |-> FALSE, SplitReverse |-> FALSE, FakeBadChecksum |-> FALSE,
                FakeTLS |-> FALSE, PassWindow |-> 0]
FakeMode == [InOrderMode EXCEPT !.FakeBadChecksum = TRUE]
FakeReverseMode == [FakeMode EXCEPT !.SplitReverse = TRUE, !.FakeTLS = TRUE]
WindowMode == [InOrderMode EXCEPT !.PassWindow = 2]
ProbeMode == [WindowMode EXCEPT !.SplitProbe = TRUE]

OnlyInOrder == {InOrderMode}
CuttingModes == {InOrderMode, FakeReverseMode, WindowMode}
LiveModes == {InOrderMode, FakeMode, FakeReverseMode, ProbeMode}
=============================================================================
