------------------------------- MODULE Ingress -------------------------------
(***************************************************************************)
(* What the NFQUEUE callback of cmd/nfqcooldown/main.go does with a SYN or *)
(* SYN/ACK packet before one of the two policies (shape, drop) sees it,    *)
(* and the state both policies share: the packets and the verdicts given   *)
(* on them, the counters, the last event, the clock.                       *)
(*                                                                         *)
(* go-nfqueue calls the callback from one goroutine, so packets are        *)
(* handled one after the other; the packet in hand is number `rcvd'.       *)
(***************************************************************************)
EXTENDS Integers, FiniteSets

CONSTANTS
    IPs,                \* client addresses (the strings used as map keys)
    Flows,              \* shapeFlowKey values
    Inputs,             \* the packets the environment may deliver
    NoPacket,           \* pkts[id] of an id that has not been delivered
    Packet,             \* cfg.Packet, of the two kinds these policies accept
    MarkBits,           \* the bits of a packet mark
    NoMark,             \* Attribute.Mark == nil
    SkipMarkEnabled, SkipMarkValue, SkipMarkMask,
    RejectMarkEnabled, RejectMarkValue,
    Whitelist,          \* the addresses Whitelist.Contains accepts
    MaxPackets,         \* bound: packets delivered
    MaxTime,            \* bound: the time of the last delivery
    MaxLost             \* bound: verdicts lost on the netlink socket

VARIABLES
    clock,              \* time.Now(); starts at 1, 0 is time.Time{}
    rcvd,               \* packets delivered to the callback so far
    pkts,               \* pkts[id]: what packet id is
    verdict,            \* verdict[id]: what the kernel was told
    lost,               \* number of verdicts that did not reach the kernel
    counters,           \* core.Counters
    lastEvent           \* State.lastEvent

ingressVars == <<rcvd, pkts, verdict, lost, counters, lastEvent>>

Ids == 1..MaxPackets
ZeroTime == 0

\* A mark is the set of its bits, or nil.
Marks == {NoMark} \cup SUBSET MarkBits

\* What the parsers and the mark attribute tell about a packet.  "other"
\* stands for every packet that is not a matching TCP segment or that has no
\* payload attribute.
PacketInfo == [ip : IPs, flow : Flows, kind : {"syn", "synack", "other"},
               mark : Marks]

ASSUME IngressAssumption ==
    /\ MaxPackets \in Nat /\ MaxTime \in Nat /\ MaxLost \in Nat
    /\ Inputs \subseteq PacketInfo
    /\ NoPacket \notin PacketInfo
    /\ \A p, q \in Inputs : p.flow = q.flow => p.ip = q.ip
    /\ Packet \in {"syn", "synack"}
    /\ \A m \in SUBSET MarkBits : m # NoMark
    /\ SkipMarkEnabled \in BOOLEAN /\ RejectMarkEnabled \in BOOLEAN
    /\ SkipMarkValue \subseteq MarkBits /\ SkipMarkMask \subseteq MarkBits
    /\ RejectMarkValue \subseteq MarkBits
    /\ Whitelist \subseteq IPs

Unanswered == [action |-> "none", mark |-> NoMark]
NfAccept == [action |-> "accept", mark |-> NoMark]
NfDrop == [action |-> "drop", mark |-> NoMark]
Lost == [action |-> "lost", mark |-> NoMark]
Verdict == [action : {"none", "accept", "drop", "lost"}, mark : Marks]

CounterNames ==
    {"Accepted", "Dropped", "Delayed", "Rejected", "DelayOverflowDropped"}

EventTypes ==
    {"none", "ACCEPT-SKIP-MARK", "ACCEPT-WHITELIST", "ACCEPT-FIRST", "ACCEPT",
     "INSIDE-COOLDOWN", "FORCE-ACCEPT", "DROP", "SHAPE-ACCEPT",
     "SHAPE-FLOW-PENDING-DROP", "SHAPE-OVERFLOW-DROP",
     "SHAPE-IP-PENDING-DROP", "SHAPE-DELAY"}

IngressTypeOK ==
    /\ clock \in Nat \ {0}
    /\ rcvd \in 0..MaxPackets
    /\ pkts \in [Ids -> Inputs \cup {NoPacket}]
    /\ \A id \in Ids : pkts[id] \in Inputs <=> id <= rcvd
    /\ verdict \in [Ids -> Verdict]
    /\ lost \in 0..MaxLost
    /\ counters \in [CounterNames -> Nat]
    /\ lastEvent \in [Type : EventTypes, PacketID : 0..MaxPackets]

IngressInit ==
    /\ clock = 1
    /\ rcvd = 0
    /\ pkts = [id \in Ids |-> NoPacket]
    /\ verdict = [id \in Ids |-> Unanswered]
    /\ lost = 0
    /\ counters = [c \in CounterNames |-> 0]
    /\ lastEvent = [Type |-> "none", PacketID |-> 0]
-----------------------------------------------------------------------------
Inc(c) == counters' = [counters EXCEPT ![c] = @ + 1]

RememberEvent(type, id) == lastEvent' = [Type |-> type, PacketID |-> id]

\* Every caller ignores the error of SetVerdict: a verdict whose write times
\* out is lost and the packet stays in the kernel's queue.
SetVerdict(id, v) ==
    \/ /\ verdict' = [verdict EXCEPT ![id] = v]
       /\ UNCHANGED lost
    \/ /\ lost < MaxLost
       /\ lost' = lost + 1
       /\ verdict' = [verdict EXCEPT ![id] = Lost]

\* Bitwise or of the reject mark and the mark the packet came with.
RejectMark(p) == RejectMarkValue \cup (IF p.mark = NoMark THEN {} ELSE p.mark)

DropOrReject(id) ==
    SetVerdict(id, IF RejectMarkEnabled
                   THEN [action |-> "accept", mark |-> RejectMark(pkts[id])]
                   ELSE NfDrop)

\* *a.Mark & mask == value & mask
SkipMark(p) ==
    /\ SkipMarkEnabled
    /\ p.mark # NoMark
    /\ p.mark \cap SkipMarkMask = SkipMarkValue \cap SkipMarkMask

Matched(p) == p.kind = Packet
Whitelisted(p) == p.ip \in Whitelist
Bypassed(p) == SkipMark(p) \/ Whitelisted(p)

\* The bounds say how long packets keep coming, and how many.
Deliver(p) ==
    /\ rcvd < MaxPackets
    /\ clock <= MaxTime
    /\ rcvd' = rcvd + 1
    /\ pkts' = [pkts EXCEPT ![rcvd + 1] = p]

\* Not a packet of the configured kind: accepted, and neither counted nor
\* remembered.
AcceptUnmatched(p) ==
    /\ Deliver(p)
    /\ ~Matched(p)
    /\ SetVerdict(rcvd + 1, NfAccept)
    /\ UNCHANGED <<clock, counters, lastEvent>>

AcceptBypassed(p) ==
    /\ Deliver(p)
    /\ Matched(p)
    /\ Bypassed(p)
    /\ RememberEvent(IF SkipMark(p) THEN "ACCEPT-SKIP-MARK"
                                    ELSE "ACCEPT-WHITELIST", rcvd + 1)
    /\ Inc("Accepted")
    /\ SetVerdict(rcvd + 1, NfAccept)
    /\ UNCHANGED clock

\* The packet goes on to the policy.
HandToPolicy(p) ==
    /\ Deliver(p)
    /\ Matched(p)
    /\ ~Bypassed(p)
    /\ UNCHANGED <<clock, verdict, lost, counters, lastEvent>>
=============================================================================
