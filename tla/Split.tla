-------------------------------- MODULE Split --------------------------------
(***************************************************************************)
(* --packet payload --action split of cmd/nfqcooldown/main.go: the callback *)
(* cuts a TCP segment in two, lets the first part through as the verdict   *)
(* and sends the second one itself, at once or from a goroutine; it may    *)
(* send a fake first.  splitSeen remembers what was cut, so that           *)
(* retransmissions pass unchanged; splitPayloadWindow says whether to cut  *)
(* at all; two loops clean these maps up.                                  *)
(*                                                                         *)
(* A raw send is one step here: RawSender shows that it may be.            *)
(***************************************************************************)
EXTENDS Integers, FiniteSets

CONSTANTS
    Flows,              \* source address, destination address and ports
    Clients, ClientOf,  \* the destination address of a flow
    SeqSpace,           \* sequence numbers are taken modulo this (2^32)
    MaxLen,             \* the longest payload
    Inputs,             \* the packets the environment may deliver
    NoPacket, NoKey,
    MarkBits, NoMark,   \* a mark is the set of its bits, or nil
    SkipMarkEnabled, SkipMarkValue, SkipMarkMask,
    SplitMarkValue, SplitAt, SplitDelay, SplitSeenTTL,
    TLSHeaderLen,       \* the 5 bytes of a TLS record header
    FakeLength, FakeDelay,
    Options,            \* the combinations of the options that choose the path
    MaxPackets,         \* bound: packets delivered
    MaxTime,            \* bound: the time of the last delivery
    MaxFails,           \* bound: raw sends and modified verdicts that fail
    MaxLost             \* bound: plain verdicts lost on the netlink socket

VARIABLES
    opts,               \* the options this process was started with
    clock,              \* time.Now(); starts at 1, 0 is "no entry"
    rcvd, pkts, verdict, \* packets delivered, and what the kernel was told
    splitSeen,          \* splitSeen[key]: when the key was stored
    lastPass,           \* splitPayloadWindow.lastPass
    pc, now, wake,      \* the callback: where it is, its clock, its sleep
    sender,             \* sender[id]: the goroutine of the second part
    due,                \* due[id]: when that goroutine's sleep ends
    hand,               \* the key splitSeenCleanupLoop is about to delete
    wire,               \* wire[id]: the raw packets sent for packet id
    fails, lost,
    cutAt, passAt       \* history: when id was stored to be cut; window passes

traffic == <<rcvd, pkts>>
answers == <<verdict, fails, lost>>
maps == <<splitSeen, lastPass>>
locals == <<now, wake>>
senders == <<sender, due>>
history == <<cutAt, passAt>>

vars == <<opts, clock, traffic, answers, maps, pc, locals, senders, hand, wire, history>>

Ids == 1..MaxPackets
Keys == [flow : Flows, seq : 0..(SeqSpace - 1), len : 1..MaxLen]
Marks == {NoMark} \cup SUBSET MarkBits
\* parsed: ParseIPv4TCPPayload accepts the packet (and it has a payload).
Packets == [parsed : BOOLEAN, key : Keys, mark : Marks]

OptionType ==
    [SplitProbe : BOOLEAN, SplitReverse : BOOLEAN, FakeBadChecksum : BOOLEAN,
     FakeTLS : BOOLEAN,     \* FakePayload is "tls-invalid-length", not "copy"
     PassWindow : Nat]
SplitProbe == opts.SplitProbe
SplitReverse == opts.SplitReverse
FakeBadChecksum == opts.FakeBadChecksum
FakeTLS == opts.FakeTLS
PassWindow == opts.PassWindow

ASSUME SplitAssumption ==
    /\ SeqSpace \in Nat \ {0} /\ MaxLen \in Nat
    /\ ClientOf \in [Flows -> Clients]
    /\ Inputs \subseteq Packets /\ NoPacket \notin Packets /\ NoKey \notin Keys
    /\ \A m \in SUBSET MarkBits : m # NoMark
    /\ SkipMarkEnabled \in BOOLEAN
    /\ SkipMarkValue \subseteq MarkBits /\ SkipMarkMask \subseteq MarkBits
    /\ SplitMarkValue \subseteq MarkBits
    /\ SplitAt \in Nat \ {0} /\ SplitSeenTTL \in Nat \ {0}
    /\ {SplitDelay, FakeDelay, FakeLength, TLSHeaderLen} \subseteq Nat
    /\ Options \subseteq OptionType
    /\ \A o \in Options :
        ~(o.SplitProbe /\ o.SplitReverse) /\ ~(o.FakeBadChecksum /\ o.SplitProbe)
    /\ {MaxPackets, MaxTime, MaxFails, MaxLost} \subseteq Nat

\* A verdict lets a part of the packet through with a mark.
Unanswered == [part |-> "none", mark |-> NoMark]
Whole == [part |-> "whole", mark |-> NoMark]
Lost == [part |-> "lost", mark |-> NoMark]
Verdict == [part : {"none", "lost", "whole", "first"}, mark : Marks]

PcStates == {"idle", "load", "window", "passed", "store", "fake", "faked",
             "split", "raw", "reversed", "spawn"}

TypeOK ==
    /\ opts \in Options
    /\ clock \in Nat \ {0} /\ now \in Nat /\ wake \in Nat
    /\ rcvd \in 0..MaxPackets
    /\ pkts \in [Ids -> Inputs \cup {NoPacket}]
    /\ \A id \in Ids : pkts[id] \in Inputs <=> id <= rcvd
    /\ verdict \in [Ids -> Verdict]
    /\ splitSeen \in [Keys -> Nat]
    /\ lastPass \in [Clients -> Nat]
    /\ pc \in PcStates
    /\ sender \in [Ids -> {"none", "asleep", "done"}]
    /\ due \in [Ids -> Nat]
    /\ hand \in Keys \cup {NoKey}
    /\ wire \in [Ids -> SUBSET {"fake", "second"}]
    /\ fails \in 0..MaxFails /\ lost \in 0..MaxLost
    /\ cutAt \in [Ids -> Nat] /\ passAt \in [Ids -> Nat]

Init ==
    /\ opts \in Options
    /\ clock = 1 /\ now = 0 /\ wake = 0
    /\ rcvd = 0
    /\ pkts = [id \in Ids |-> NoPacket]
    /\ verdict = [id \in Ids |-> Unanswered]
    /\ splitSeen = [k \in Keys |-> 0]
    /\ lastPass = [c \in Clients |-> 0]
    /\ pc = "idle"
    /\ sender = [id \in Ids |-> "none"]
    /\ due = [id \in Ids |-> 0]
    /\ hand = NoKey
    /\ wire = [id \in Ids |-> {}]
    /\ fails = 0 /\ lost = 0
    /\ cutAt = [id \in Ids |-> 0] /\ passAt = [id \in Ids |-> 0]
-----------------------------------------------------------------------------
\* The key of packet id, its client, and the key of its second part.
Key(id) == pkts[id].key
Client(id) == ClientOf[Key(id).flow]
SecondKey(id) ==
    [Key(id) EXCEPT !.seq = (@ + SplitAt) % SeqSpace, !.len = @ - SplitAt]

SplitMark(id) ==
    SplitMarkValue \cup (IF pkts[id].mark = NoMark THEN {} ELSE pkts[id].mark)

SkipMark(p) ==
    /\ SkipMarkEnabled
    /\ p.mark # NoMark
    /\ p.mark \cap SkipMarkMask = SkipMarkValue \cap SkipMarkMask

Store(k) == splitSeen' = [splitSeen EXCEPT ![k] = clock]
\* Mutant: nothing is deleted.
KeepAll(K) == UNCHANGED splitSeen
Delete(K) == splitSeen' = [k \in Keys |-> IF k \in K THEN 0 ELSE splitSeen[k]]

\* SetVerdict(id, NfAccept), the error of which is ignored.
Accept(id) ==
    \/ /\ verdict' = [verdict EXCEPT ![id] = Whole]
       /\ UNCHANGED lost
    \/ /\ lost < MaxLost
       /\ lost' = lost + 1
       /\ verdict' = [verdict EXCEPT ![id] = Lost]

\* Mutant: no verdict.
AcceptNothing(part) == UNCHANGED answers
\* SetVerdictModPacketWithConnMark with the whole packet or its first part.
AcceptPart(part) ==
    /\ verdict' = [verdict EXCEPT ![rcvd] = [part |-> part, mark |-> SplitMark(rcvd)]]
    /\ UNCHANGED <<fails, lost>>

\* A raw send or a modified verdict returns an error.
Fail == fails < MaxFails /\ fails' = fails + 1

\* A step of the callback, up to where it can meet another goroutine again.
Goto(to) == pc' = to /\ UNCHANGED <<opts, clock, traffic, hand>>

\* The callback gives a packet back that it had begun to cut: it forgets the
\* keys and accepts the packet as it is.
GiveUp(K) ==
    /\ Delete(K)
    /\ Accept(rcvd)
    /\ Goto("idle")
    /\ cutAt' = [cutAt EXCEPT ![rcvd] = 0]
    /\ UNCHANGED <<lastPass, locals, senders, wire, passAt>>

Awake == clock >= wake
-----------------------------------------------------------------------------
(***************************************************************************)
(* The callback.                                                           *)
(***************************************************************************)
Deliver(p) ==
    /\ pc = "idle"
    /\ rcvd < MaxPackets
    /\ clock <= MaxTime
    /\ rcvd' = rcvd + 1
    /\ pkts' = [pkts EXCEPT ![rcvd + 1] = p]
    /\ UNCHANGED <<opts, clock, fails, maps, locals, senders, hand, wire, history>>

\* No payload attribute, not a TCP segment with data, or the skip mark.
AcceptUntouched(p) ==
    /\ Deliver(p)
    /\ ~p.parsed \/ SkipMark(p)
    /\ Accept(rcvd + 1)
    /\ UNCHANGED pc

Receive(p) ==
    /\ Deliver(p)
    /\ p.parsed /\ ~SkipMark(p)
    /\ pc' = "load"
    /\ UNCHANGED <<verdict, lost>>

PassRetransmit ==
    /\ pc = "load"
    /\ splitSeen[Key(rcvd)] # 0
    /\ Accept(rcvd)
    /\ Goto("idle")
    /\ UNCHANGED <<fails, maps, locals, senders, wire, history>>

\* The segment is new; the time for decide is read before its lock is taken.
NewSegment ==
    /\ pc = "load"
    /\ splitSeen[Key(rcvd)] = 0
    /\ Goto(IF PassWindow > 0 THEN "window" ELSE "store")
    /\ now' = clock
    /\ UNCHANGED <<answers, maps, wake, senders, wire, history>>

\* splitPayloadWindowState.decide.  A client without an entry has the zero time, from
\* which now.Sub saturates: IsZero and the comparison agree on it, and the first
\* disjunct stands for both.
WindowOver(c) == lastPass[c] = 0 \/ now - lastPass[c] >= PassWindow

DecidePass ==
    /\ pc = "window"
    /\ WindowOver(Client(rcvd))
    /\ lastPass' = [lastPass EXCEPT ![Client(rcvd)] = now]
    /\ passAt' = [passAt EXCEPT ![rcvd] = now]
    /\ Goto("passed")
    /\ UNCHANGED <<answers, splitSeen, locals, senders, wire, cutAt>>

DecideSplit ==
    /\ pc = "window"
    /\ ~WindowOver(Client(rcvd))
    /\ Goto("store")
    /\ UNCHANGED <<answers, maps, locals, senders, wire, history>>

\* Mutant: a segment that passes is not remembered.
PassedForgotten ==
    /\ pc = "passed"
    /\ Accept(rcvd)
    /\ Goto("idle")
    /\ UNCHANGED <<fails, maps, locals, senders, wire, history>>
\* A segment that passes because of the window is remembered too.
RememberPassed ==
    /\ pc = "passed"
    /\ Store(Key(rcvd))
    /\ Accept(rcvd)
    /\ Goto("idle")
    /\ UNCHANGED <<fails, lastPass, locals, senders, wire, history>>

Remember ==
    /\ pc = "store"
    /\ Store(Key(rcvd))
    /\ cutAt' = [cutAt EXCEPT ![rcvd] = clock]
    /\ Goto(IF FakeBadChecksum THEN "fake" ELSE "split")
    /\ UNCHANGED <<answers, lastPass, locals, senders, wire, passAt>>

\* cloneWithFakePayloadAndBadTCPChecksum refuses a fake too short for its header.  It
\* takes the length from the slice; the packets of this module are ones the kernel
\* has trimmed to their declared length, so that the two agree (Segment has others).
FakePayloadLen(len) == IF FakeLength \in 1..(len - 1) THEN FakeLength ELSE len
NoFake == FakeTLS /\ FakePayloadLen(Key(rcvd).len) < TLSHeaderLen

FakeFails ==
    /\ pc = "fake"
    /\ \/ NoFake /\ UNCHANGED fails
       \/ ~NoFake /\ Fail
    /\ GiveUp({Key(rcvd)})

\* A raw packet leaves, and the callback sleeps in place: no packet is taken
\* meanwhile.
SendAndSleep(part, delay) ==
    /\ wire' = [wire EXCEPT ![rcvd] = @ \cup {part}]
    /\ wake' = clock + delay
    /\ UNCHANGED <<answers, maps, now, senders, history>>

FakeSent ==
    /\ pc = "fake"
    /\ ~NoFake
    /\ SendAndSleep("fake", FakeDelay)
    /\ Goto("faked")

\* The packet, or its first part, is let through with the split mark.
LetThrough(part) ==
    /\ AcceptPart(part)
    /\ UNCHANGED <<maps, locals, senders, wire, history>>

\* Without --split-reverse a fake takes the place of the split.
AtOriginal == pc = "faked" /\ Awake /\ ~SplitReverse
OriginalFails == AtOriginal /\ Fail /\ GiveUp({Key(rcvd)})
OriginalAfterFake == AtOriginal /\ LetThrough("whole") /\ Goto("idle")

AtSplit == pc = "split" \/ (pc = "faked" /\ Awake /\ SplitReverse)
\* SplitIPv4TCPPacket refuses an offset outside the payload.
Splittable == SplitAt < Key(rcvd).len

SplitFails ==
    /\ AtSplit
    /\ ~Splittable
    /\ UNCHANGED fails
    /\ GiveUp({Key(rcvd)})

ReverseStore ==
    /\ AtSplit /\ Splittable /\ SplitReverse
    /\ Store(SecondKey(rcvd))
    /\ Goto("raw")
    /\ UNCHANGED <<answers, lastPass, locals, senders, wire, history>>

ReverseSend == pc = "raw" /\ SendAndSleep("second", SplitDelay) /\ Goto("reversed")

\* Mutant: the key of the second part is left behind.
ReverseForgetsOne == pc = "raw" /\ Fail /\ GiveUp({Key(rcvd)})
ReverseSendFails == pc = "raw" /\ Fail /\ GiveUp({Key(rcvd), SecondKey(rcvd)})

\* When this fails the second part is out, the whole packet follows it, and
\* only the key of the packet is forgotten.
AtReversed == pc = "reversed" /\ Awake
ReverseVerdictFails == AtReversed /\ Fail /\ GiveUp({Key(rcvd)})
ReverseVerdict == AtReversed /\ LetThrough("first") /\ Goto("idle")

InOrder == AtSplit /\ Splittable /\ ~SplitReverse
VerdictFails == InOrder /\ Fail /\ GiveUp({Key(rcvd)})
\* Mutant: the second part is forgotten.
FirstOnly == InOrder /\ LetThrough("first") /\ Goto("idle")
FirstVerdict ==
    InOrder /\ LetThrough("first") /\ Goto(IF SplitProbe THEN "idle" ELSE "spawn")

SpawnSender ==
    /\ pc = "spawn"
    /\ Store(SecondKey(rcvd))
    /\ sender' = [sender EXCEPT ![rcvd] = "asleep"]
    /\ due' = [due EXCEPT ![rcvd] = clock + SplitDelay]
    /\ Goto("idle")
    /\ UNCHANGED <<answers, lastPass, locals, wire, history>>
-----------------------------------------------------------------------------
(***************************************************************************)
(* The goroutine that sends the second part of packet id.                  *)
(***************************************************************************)
SenderWakes(id) ==
    /\ sender[id] = "asleep"
    /\ clock >= due[id]
    /\ sender' = [sender EXCEPT ![id] = "done"]
    /\ UNCHANGED <<opts, clock, traffic, verdict, lost, lastPass, pc, locals, due,
                   hand, history>>

SendSecond(id) ==
    /\ SenderWakes(id)
    /\ wire' = [wire EXCEPT ![id] = @ \cup {"second"}]
    /\ UNCHANGED <<splitSeen, fails>>

SendSecondFails(id) ==
    /\ SenderWakes(id)
    /\ Fail
    /\ Delete({SecondKey(id)})
    /\ UNCHANGED wire
-----------------------------------------------------------------------------
(***************************************************************************)
(* The cleanup loops.  t is the time the ticker sent, which may be old.  A *)
(* key is deleted after the value Range gave was compared.                 *)
(***************************************************************************)
\* Mutant: a key is old a moment too early.
StaleEarly(k, t) == splitSeen[k] # 0 /\ t - splitSeen[k] >= SplitSeenTTL
Stale(k, t) == splitSeen[k] # 0 /\ t - splitSeen[k] > SplitSeenTTL

Background == UNCHANGED <<opts, traffic, answers, pc, locals, senders, wire, history>>

SeenVisit ==
    /\ hand = NoKey
    /\ \E t \in 1..clock, k \in Keys : Stale(k, t) /\ hand' = k
    /\ UNCHANGED <<clock, maps>>
    /\ Background

SeenDelete ==
    /\ hand # NoKey
    /\ Delete({hand})
    /\ hand' = NoKey
    /\ UNCHANGED <<clock, lastPass>>
    /\ Background

\* Mutant: without the ttl.
PassStaleAtOnce(c, t) == lastPass[c] # 0 /\ t - lastPass[c] > 0
\* splitPayloadWindowState.cleanup; the loop runs when there is a window.
PassStale(c, t) == lastPass[c] # 0 /\ t - lastPass[c] > PassWindow

WindowCleanup ==
    /\ PassWindow > 0
    /\ \E t \in 1..clock :
        /\ \E c \in Clients : PassStale(c, t)
        /\ lastPass' = [c \in Clients |-> IF PassStale(c, t) THEN 0 ELSE lastPass[c]]
    /\ UNCHANGED <<clock, splitSeen, hand>>
    /\ Background

\* Time passes; after MaxTime only as long as something waits for it.
Waiting ==
    \/ pc \in {"faked", "reversed"} /\ ~Awake
    \/ \E id \in Ids : sender[id] = "asleep" /\ clock < due[id]
    \/ \E k \in Keys : splitSeen[k] # 0 /\ ~Stale(k, clock)
    \/ \E c \in Clients : lastPass[c] # 0 /\ ~PassStale(c, clock)

Tick ==
    /\ clock <= MaxTime \/ Waiting
    /\ clock' = clock + 1
    /\ UNCHANGED <<maps, hand>>
    /\ Background
-----------------------------------------------------------------------------
Handle ==
    \/ PassRetransmit \/ NewSegment \/ DecidePass \/ DecideSplit
    \/ RememberPassed \/ Remember
    \/ FakeFails \/ FakeSent \/ OriginalFails \/ OriginalAfterFake
    \/ SplitFails
    \/ ReverseStore \/ ReverseSendFails \/ ReverseSend
    \/ ReverseVerdictFails \/ ReverseVerdict
    \/ VerdictFails \/ FirstVerdict \/ SpawnSender

Sender(id) == SendSecond(id) \/ SendSecondFails(id)
SeenCleanup == SeenVisit \/ SeenDelete

Next ==
    \/ \E p \in Inputs : AcceptUntouched(p) \/ Receive(p)
    \/ Handle
    \/ \E id \in Ids : Sender(id)
    \/ SeenCleanup \/ WindowCleanup
    \/ Tick

Spec == Init /\ [][Next]_vars

\* The runtime runs every goroutine that can run; packets need not come.
FairSpec ==
    /\ Spec
    /\ WF_vars(Handle) /\ WF_vars(SeenCleanup) /\ WF_vars(WindowCleanup)
    /\ WF_vars(Tick)
    /\ \A id \in Ids : WF_vars(Sender(id))
-----------------------------------------------------------------------------
(***************************************************************************)
(* Properties.                                                             *)
(***************************************************************************)
\* --split-seen-ttl: as long as nothing failed, no segment is cut a second time
\* within SplitSeenTTL, however the cleanup loop, which deletes a key it found
\* old a moment ago, and the callback, which looks a key up before it stores it,
\* interleave.
NoSecondCut ==
    fails = 0 =>
        \A i, j \in 1..rcvd :
            i < j /\ Key(i) = Key(j) /\ cutAt[i] # 0 /\ cutAt[j] # 0 =>
                cutAt[j] - cutAt[i] > SplitSeenTTL

\* Nothing of a packet is swallowed and no part goes out that does not belong:
\* in order, the second part is sent only after the first was let through; in
\* reverse order, the first part is let through only after the second was sent, and
\* a second part on the wire is followed by the first, or by the whole packet (or a
\* lost verdict) when the verdict for the first failed; and a packet of which only
\* the first part was let through has its second part sent, or on its way, or its
\* send has failed, unless --split-probe asks for it.
PartsBelongTogether ==
    \A id \in 1..rcvd :
        /\ "second" \in wire[id] /\ ~SplitReverse => verdict[id].part = "first"
        /\ "second" \in wire[id] /\ SplitReverse =>
            \/ verdict[id].part = "first"
            \/ id = rcvd /\ pc = "reversed"
            \/ fails > 0 /\ verdict[id].part \in {"whole", "lost"}
        /\ verdict[id].part = "first" =>
            \/ "second" \in wire[id]
            \/ SplitProbe
            \/ ~SplitReverse /\ sender[id] = "asleep"
            \/ ~SplitReverse /\ id = rcvd /\ pc = "spawn"
            \/ ~SplitReverse /\ fails > 0 /\ sender[id] = "done"

\* --pass-window: when a packet passes, every packet of the same client that
\* passed before read its clock at least PassWindow ago, although the cleanup
\* loop forgets clients in between and decide works with a time read before it
\* took the lock.
PassesSpaced ==
    [][\A j \in Ids : passAt'[j] # passAt[j] =>
            \A i \in 1..rcvd : i # j /\ passAt[i] # 0 /\ Client(i) = Client(j) =>
                clock - passAt[i] >= PassWindow]_vars

\* A segment the splitter or the fake refuses is stored and forgotten again.
Cuttable(o, k) ==
    /\ o.FakeBadChecksum /\ o.FakeTLS => FakePayloadLen(k.len) >= TLSHeaderLen
    /\ (o.FakeBadChecksum /\ ~o.SplitReverse) \/ SplitAt < k.len

\* A segment passed because of the window: "Its TCP retransmission must remain
\* unchanged instead of being split inside the active window."  That holds, as
\* long as nothing fails, when it is remembered at least as long as the window;
\* nothing makes sure that --split-seen-ttl is not below --pass-window.  (A
\* segment that is refused needs no such care, and does not always get it: its
\* key can be deleted by the cleanup loop that found it before it was refused.)
PassedStaysWhole ==
    fails = 0 /\ SplitSeenTTL >= PassWindow =>
        \A i, j \in 1..rcvd :
            /\ i < j /\ Key(i) = Key(j) /\ Cuttable(opts, Key(j))
            /\ passAt[i] # 0 /\ cutAt[j] # 0
            => cutAt[j] - passAt[i] >= PassWindow

Cutting == {"fake", "faked", "split", "raw", "reversed"}

\* The segment with key k that was stored at time t is known for a reason: it was
\* cut or passed behind a fake (it has the marked verdict of that, or is in hand on
\* the way to it), it passed because of the window, or it is the second part of a
\* packet, sent or about to be.
Reason(id, k, t) ==
    \/ /\ Key(id) = k /\ cutAt[id] = t
       /\ verdict[id].mark # NoMark \/ (id = rcvd /\ pc \in Cutting)
    \/ Key(id) = k /\ passAt[id] # 0 /\ passAt[id] <= t
    \/ /\ SecondKey(id) = k
       /\ \/ "second" \in wire[id] \/ sender[id] = "asleep"
          \/ id = rcvd /\ pc = "raw"

\* The ways out of the branch undo what was stored before: whatever failed and in
\* whatever order, splitSeen holds no segment that was neither cut nor let pass on
\* purpose, which would make its retransmission pass uncut.
KeysHaveReason ==
    \A k \in Keys : splitSeen[k] # 0 => \E id \in 1..rcvd : Reason(id, k, splitSeen[k])

Answered(id) == verdict[id] # Unanswered

\* Every packet the kernel hands over gets a verdict, whatever fails on the way
\* and although the callback sleeps in between.
EveryPacketAnswered == \A id \in Ids : (rcvd >= id) ~> Answered(id)

\* The second part follows the first unless its send fails.
SecondFollows ==
    \A id \in Ids : (verdict[id].part = "first") ~>
        ("second" \in wire[id] \/ sender[id] = "done" \/ SplitProbe)

\* Once packets stop coming, splitSeen and lastPass become empty: no key stays
\* behind on one of the ways out, not even that of a second part whose first
\* part failed.
MapsReclaimed ==
    <>[](/\ \A k \in Keys : splitSeen[k] = 0
         /\ \A c \in Clients : lastPass[c] = 0)
-----------------------------------------------------------------------------
(***************************************************************************)
(* The inductive invariant behind the safety properties.                   *)
(***************************************************************************)
\* Where the packets are: those not yet delivered, the one in hand (answered in
\* its last state), the others; and what a goroutine's packet is.
Progress ==
    /\ \A id \in Ids : id > rcvd =>
            /\ verdict[id] = Unanswered
            /\ sender[id] = "none" /\ wire[id] = {}
            /\ cutAt[id] = 0 /\ passAt[id] = 0
    /\ \A id \in 1..rcvd :
            verdict[id] = Unanswered <=> id = rcvd /\ pc \notin {"idle", "spawn"}
    /\ pc # "idle" => rcvd \in Ids
    /\ pc = "spawn" => verdict[rcvd].part = "first" /\ ~SplitReverse
    /\ pc \in {"raw", "reversed"} => SplitReverse
    /\ pc = "reversed" => "second" \in wire[rcvd]
    /\ \A id \in Ids : sender[id] # "none" => verdict[id].part = "first" /\ ~SplitReverse

\* Stamps are not ahead of the clocks they were read from.
StampsPast ==
    /\ now <= clock
    /\ \A k \in Keys : splitSeen[k] <= clock
    /\ \A id \in Ids : cutAt[id] <= clock /\ passAt[id] <= now

\* The segment in hand is new until it is stored; one that is being cut has been
\* stored; one that cannot be cut does not stay cut.
CutState ==
    /\ pc \in {"window", "passed", "store"} =>
            splitSeen[Key(rcvd)] = 0 /\ cutAt[rcvd] = 0
    /\ pc \in Cutting => cutAt[rcvd] # 0
    /\ pc = "load" => cutAt[rcvd] = 0
    /\ pc = "window" => now # 0
    /\ pc = "passed" => passAt[rcvd] # 0
    /\ pc \in {"raw", "reversed", "spawn"} => Cuttable(opts, Key(rcvd))
    /\ pc = "faked" /\ FakeTLS => FakePayloadLen(Key(rcvd).len) >= TLSHeaderLen
    /\ pc = "split" => ~FakeBadChecksum
    /\ pc \in {"fake", "faked"} => FakeBadChecksum
    /\ \A id \in 1..rcvd : cutAt[id] # 0 =>
            Cuttable(opts, Key(id)) \/ (id = rcvd /\ pc \in {"fake", "faked", "split"})

Old(id) == clock - cutAt[id] > SplitSeenTTL

\* As long as nothing failed, splitSeen knows every segment that was cut for as
\* long as it has to, and the key about to be deleted is that of old ones only:
\* it cannot have been stored anew, for a key that is there is not stored by the
\* callback that looks it up.
CutsRemembered ==
    fails = 0 =>
        /\ \A id \in 1..rcvd : cutAt[id] # 0 /\ Cuttable(opts, Key(id)) =>
                IF splitSeen[Key(id)] = 0 THEN Old(id)
                                          ELSE cutAt[id] <= splitSeen[Key(id)]
        /\ hand # NoKey /\ Cuttable(opts, hand) =>
                /\ splitSeen[hand] # 0
                /\ \A id \in 1..rcvd : cutAt[id] # 0 /\ Key(id) = hand => Old(id)

\* The same of the segments that passed because of the window, once they are
\* stored.
PassedOld(id) == clock - passAt[id] > SplitSeenTTL
PassedRemembered ==
    fails = 0 =>
        /\ \A id \in 1..rcvd :
                /\ passAt[id] # 0 /\ Cuttable(opts, Key(id))
                /\ id # rcvd \/ pc # "passed"
                => IF splitSeen[Key(id)] = 0 THEN PassedOld(id)
                                             ELSE passAt[id] <= splitSeen[Key(id)]
        /\ hand # NoKey /\ Cuttable(opts, hand) =>
                \A id \in 1..rcvd : passAt[id] # 0 /\ Key(id) = hand => PassedOld(id)

\* And of the windows: lastPass is the last pass, or the window is over.
PassesRemembered ==
    \A id \in 1..rcvd : passAt[id] # 0 =>
        IF lastPass[Client(id)] = 0 THEN clock - passAt[id] >= PassWindow
                                    ELSE passAt[id] <= lastPass[Client(id)]

\* The inductive invariant: where packets are, and what the two maps remember.
IndInv ==
    /\ TypeOK /\ Progress /\ StampsPast
    /\ CutState /\ CutsRemembered /\ NoSecondCut
    /\ PassedRemembered /\ PassedStaysWhole
    /\ PassesRemembered
    /\ PartsBelongTogether /\ KeysHaveReason
-----------------------------------------------------------------------------
Gate == INSTANCE NfqGate WITH
    HoldLimit <- 0,
    Answers <- {v \in Verdict : v.part # "none"},
    Accepts <- {Whole, Lost},
    held <- {}

\* The split action implements the gate: a packet gets one verdict, which is
\* final although a first try may fail, and no packet is taken before that.
ImplementsGate == Gate!GateSpec
-----------------------------------------------------------------------------
(***************************************************************************)
(* What comments and the flags' help say and the code does not do.         *)
(***************************************************************************)
\* "remember split TCP segments for this duration and pass retransmissions
\* unchanged": the retransmission of the second part of a segment is not cut
\* within SplitSeenTTL, as long as nothing failed.
SecondRemembered ==
    fails = 0 =>
        \A i, j \in 1..rcvd :
            i < j /\ sender[i] # "none" /\ SecondKey(i) = Key(j) /\ cutAt[j] # 0 =>
                cutAt[j] - (due[i] - SplitDelay) > SplitSeenTTL
=============================================================================
