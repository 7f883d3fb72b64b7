----------------------------- MODULE MCCooldown -----------------------------
(***************************************************************************)
(* Instances of Cooldown for TLC.                                          *)
(***************************************************************************)
EXTENDS Cooldown

CONSTANTS a, b,                 \* addresses
          fa, fb,               \* flows play no part in this policy
          skip, reject, mark    \* bits of a mark

Syn(ip, m) == [ip |-> ip, flow |-> IF ip = a THEN fa ELSE fb, kind |-> "syn",
               mark |-> m]

MCIPs == {a, b}
MCIP == {a}
MCFlows == {fa, fb}
MCMarkBits == {skip, reject, mark}
MCSkipMark == {skip}
MCRejectMark == {reject}
MCWhitelist == {b}
MCNoWhitelist == {}

OneAddress == {Syn(a, NoMark)}
\* What the prelude tells apart: a marked packet, one that carries the skip
\* mark, one of another kind, one of a trusted address.
Prelude == {Syn(a, {mark}), Syn(a, {skip, mark}), Syn(b, NoMark),
            [Syn(a, NoMark) EXCEPT !.kind = "other"]}

Jittered == {0, 1, 3}
=============================================================================
