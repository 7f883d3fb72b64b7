------------------------------- MODULE NfqGate -------------------------------
(***************************************************************************)
(* What the kernel sees of nfqcooldown, whatever the policy: packets are   *)
(* taken from the queue one at a time; each gets one verdict, which is     *)
(* final; a packet may be held back while later ones are taken, but then   *)
(* it is let through in the end and never dropped, and no more than        *)
(* HoldLimit packets are held (0: no limit).                               *)
(***************************************************************************)
EXTENDS Naturals, FiniteSets

CONSTANTS
    MaxPackets,     \* bound: packets delivered
    HoldLimit,
    Unanswered,     \* verdict[id] of a packet that has none
    Answers,        \* the verdicts a packet may get
    Accepts         \* those of them a packet may get that was held back

VARIABLES rcvd, verdict, held

gateVars == <<rcvd, verdict, held>>

\* The packet the callback is working on: taken, not answered, not held.
InHand == {id \in 1..rcvd : verdict[id] = Unanswered /\ id \notin held}

GateInit ==
    /\ rcvd = 0
    /\ verdict = [id \in 1..MaxPackets |-> Unanswered]
    /\ held = {}

Take ==
    /\ InHand = {}
    /\ rcvd < MaxPackets
    /\ rcvd' = rcvd + 1
    /\ UNCHANGED held

Answer(id, S) == \E v \in S : verdict' = [verdict EXCEPT ![id] = v]

TakeAndHandle == Take /\ UNCHANGED verdict

TakeAndAccept == Take /\ Answer(rcvd + 1, Accepts)

Decide ==
    /\ \E id \in InHand : Answer(id, Answers)
    /\ UNCHANGED <<rcvd, held>>

Hold ==
    /\ HoldLimit > 0 => Cardinality(held) < HoldLimit
    /\ \E id \in InHand : held' = held \cup {id}
    /\ UNCHANGED <<rcvd, verdict>>

LetThrough ==
    /\ \E id \in held : Answer(id, Accepts) /\ held' = held \ {id}
    /\ UNCHANGED rcvd

GateNext == TakeAndHandle \/ TakeAndAccept \/ Decide \/ Hold \/ LetThrough

GateSpec == GateInit /\ [][GateNext]_gateVars
=============================================================================
