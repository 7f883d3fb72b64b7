------------------------------- MODULE MCShape -------------------------------
(***************************************************************************)
(* Instances of Shape for TLC.                                             *)
(***************************************************************************)
EXTENDS Shape, TLC

CONSTANTS a,                \* the address
          a1, a2, a3,       \* its flows
          skip, reject, mark \* bits of a mark

Syn(ip, flow, m) == [ip |-> ip, flow |-> flow, kind |-> "syn", mark |-> m]

MCIP == {a}
MCFlows == {a1, a2, a3}
MCMarkBits == {skip, reject, mark}
MCSkipMark == {skip}
MCRejectMark == {reject}
MCNoWhitelist == {}

\* Two flows of one address: the whole of the pacer's life; other packets.
OneAddress == {Syn(a, a1, NoMark), Syn(a, a2, NoMark),
               [Syn(a, a3, NoMark) EXCEPT !.kind = "other"]}
FlowSymmetry == Permutations({a1, a2})
\* Marked and unmarked packets of one address, one of them with the skip mark.
MarkedPackets == {Syn(a, a1, {mark}), Syn(a, a2, NoMark), Syn(a, a3, {skip, mark})}

\* The callback takes no time: what goes wrong here is not a matter of a
\* callback that was slow between reading its clock and using it.
PromptSpec == Init /\ [][Next /\ (pc # "idle" => UNCHANGED clock)]_vars
=============================================================================
