----------------------------- MODULE SplitProofs -----------------------------
(***************************************************************************)
(* Proofs about Split, for every value of its constants.                   *)
(***************************************************************************)
EXTENDS Split, TLAPS

USE SplitAssumption DEF SplitProbe, SplitReverse, FakeBadChecksum, FakeTLS, PassWindow

\* The options do not change.
LEMMA OptionsStay ==
    ASSUME [Next]_vars
    PROVE  opts' = opts
  BY DEF Next, vars, Deliver, AcceptUntouched, Receive, Handle, Goto,
         PassRetransmit, NewSegment, DecidePass, DecideSplit, RememberPassed, Remember,
         FakeFails, GiveUp, FakeSent, OriginalFails, OriginalAfterFake, SplitFails,
         ReverseStore, ReverseSendFails, ReverseSend, ReverseVerdictFails,
         ReverseVerdict, VerdictFails, FirstVerdict, SpawnSender, Sender, SendSecond,
         SendSecondFails, SenderWakes, SeenCleanup, SeenVisit, SeenDelete,
         WindowCleanup, Tick, Background

\* What parseConfig makes sure of.
LEMMA OptionTypes ==
    ASSUME TypeOK
    PROVE  /\ opts.PassWindow \in Nat
           /\ ~(opts.SplitProbe /\ opts.SplitReverse)
           /\ ~(opts.FakeBadChecksum /\ opts.SplitProbe)
  BY DEF TypeOK, OptionType

\* What a delivered packet is made of.
LEMMA KeyTypes ==
    ASSUME TypeOK, NEW id \in 1..rcvd
    PROVE  /\ id \in Ids /\ pkts[id] \in Packets
           /\ Key(id) \in Keys /\ Key(id).len \in 1..MaxLen
           /\ Client(id) \in Clients
  <1>1. id \in Ids /\ id <= rcvd
    BY DEF TypeOK, Ids
  <1>2. pkts[id] \in Packets
    BY <1>1 DEF TypeOK
  <1> QED
    BY <1>1, <1>2 DEF Packets, Key, Keys, Client

\* The six ways in which the callback gives a packet back.
GiveUps ==
    \/ FakeFails \/ OriginalFails \/ SplitFails
    \/ ReverseSendFails \/ ReverseVerdictFails \/ VerdictFails

Arrives == \E p \in Inputs : AcceptUntouched(p) \/ Receive(p)

\* The steps, with the ways to give up taken together.
LEMMA NextCases ==
    ASSUME [Next]_vars
    PROVE  \/ Arrives \/ GiveUps
           \/ PassRetransmit \/ NewSegment \/ DecidePass \/ DecideSplit
           \/ RememberPassed \/ Remember \/ FakeSent \/ OriginalAfterFake
           \/ ReverseStore \/ ReverseSend \/ ReverseVerdict
           \/ FirstVerdict \/ SpawnSender
           \/ (\E id \in Ids : SendSecond(id)) \/ (\E id \in Ids : SendSecondFails(id))
           \/ SeenVisit \/ SeenDelete \/ WindowCleanup \/ Tick
           \/ UNCHANGED vars
  BY DEF Next, Handle, Sender, SeenCleanup, GiveUps, Arrives

\* What accepting a packet does.
LEMMA AcceptFacts ==
    ASSUME TypeOK, NEW id \in Ids, Accept(id)
    PROVE  /\ verdict' \in [Ids -> Verdict] /\ lost' \in 0..MaxLost
           /\ verdict'[id] \in {Whole, Lost}
           /\ \A o \in Ids \ {id} : verdict'[o] = verdict[o]
  <1>1. Whole \in Verdict /\ Lost \in Verdict
    BY DEF Whole, Lost, Verdict, Marks
  <1> QED
    BY <1>1 DEF Accept, TypeOK

\* What a packet's arrival does.
LEMMA ArriveFacts ==
    ASSUME TypeOK, Arrives
    PROVE  /\ pc = "idle" /\ rcvd' = rcvd + 1 /\ rcvd' \in Ids
           /\ pkts' \in [Ids -> Inputs \cup {NoPacket}]
           /\ \A id \in Ids : pkts'[id] \in Inputs <=> id <= rcvd'
           /\ \A id \in 1..rcvd : pkts'[id] = pkts[id]
           /\ verdict' \in [Ids -> Verdict] /\ lost' \in 0..MaxLost
           /\ \A id \in Ids \ {rcvd'} : verdict'[id] = verdict[id]
           /\ \/ pc' = "idle" /\ verdict'[rcvd'] \in {Whole, Lost}
              \/ pc' = "load" /\ verdict'[rcvd'] = verdict[rcvd']
           /\ UNCHANGED <<clock, fails, maps, locals, senders, hand, wire, history>>
  <1>1. PICK p \in Inputs : AcceptUntouched(p) \/ Receive(p)
    BY DEF Arrives
  <1>2. Deliver(p)
    BY <1>1 DEF AcceptUntouched, Receive
  <1>3. /\ pc = "idle" /\ rcvd' = rcvd + 1 /\ rcvd' \in Ids /\ rcvd + 1 \in Ids
        /\ pkts' \in [Ids -> Inputs \cup {NoPacket}]
        /\ \A id \in Ids : pkts'[id] \in Inputs <=> id <= rcvd'
        /\ \A id \in 1..rcvd : pkts'[id] = pkts[id]
    <2>1. /\ pc = "idle" /\ rcvd' = rcvd + 1 /\ rcvd + 1 \in Ids
          /\ pkts' = [pkts EXCEPT ![rcvd + 1] = p]
      BY <1>2 DEF Deliver, TypeOK, Ids
    <2>2. \A id \in 1..rcvd : id \in Ids /\ id # rcvd + 1
      BY DEF TypeOK, Ids
    <2>3. \A id \in Ids : id <= rcvd + 1 <=> id <= rcvd \/ id = rcvd + 1
      BY DEF TypeOK, Ids
    <2> QED
      BY <2>1, <2>2, <2>3 DEF TypeOK
  <1>4. CASE AcceptUntouched(p)
    <2>1. /\ verdict' \in [Ids -> Verdict] /\ lost' \in 0..MaxLost
          /\ verdict'[rcvd'] \in {Whole, Lost}
          /\ \A o \in Ids \ {rcvd'} : verdict'[o] = verdict[o]
      BY <1>3, <1>4, AcceptFacts DEF AcceptUntouched
    <2> QED
      BY <1>2, <1>3, <1>4, <2>1 DEF AcceptUntouched, Deliver
  <1>5. CASE Receive(p)
    BY <1>2, <1>3, <1>5 DEF Receive, Deliver, TypeOK
  <1> QED
    BY <1>1, <1>4, <1>5

\* What giving up does: as long as nothing fails, it only forgets a segment that
\* cannot be cut.
LEMMA GiveUpFacts ==
    ASSUME IndInv, GiveUps
    PROVE  /\ pc \in Cutting /\ pc' = "idle" /\ rcvd \in Ids
           /\ verdict' \in [Ids -> Verdict] /\ lost' \in 0..MaxLost
           /\ verdict'[rcvd] \in {Whole, Lost}
           /\ \A o \in Ids \ {rcvd} : verdict'[o] = verdict[o]
           /\ splitSeen' \in [Keys -> Nat]
           /\ \A k \in Keys : splitSeen'[k] \in {0, splitSeen[k]}
           /\ fails' \in 0..MaxFails /\ fails' >= fails
           /\ fails' = fails => /\ ~Cuttable(opts, Key(rcvd))
                                /\ \A k \in Keys \ {Key(rcvd)} : splitSeen'[k] = splitSeen[k]
           /\ pc = "reversed" => fails' > 0
           /\ \A k \in Keys : k = Key(rcvd) \/ (pc = "raw" /\ k = SecondKey(rcvd))
                               => splitSeen'[k] = 0
           /\ cutAt' = [cutAt EXCEPT ![rcvd] = 0]
           /\ UNCHANGED <<clock, traffic, lastPass, locals, senders, hand, wire, passAt>>
  <1>0. TypeOK /\ Progress /\ CutState
    BY DEF IndInv
  <1>1. pc \in Cutting
    BY DEF GiveUps, Cutting, FakeFails, OriginalFails, AtOriginal, SplitFails, AtSplit,
           ReverseSendFails, ReverseVerdictFails, AtReversed, VerdictFails, InOrder
  <1>2. rcvd \in Ids
    BY <1>0, <1>1 DEF Progress, Cutting
  <1>3. PICK K : GiveUp(K)
    BY DEF GiveUps, FakeFails, OriginalFails, SplitFails, ReverseSendFails,
           ReverseVerdictFails, VerdictFails
  <1>4. /\ pc' = "idle" /\ cutAt' = [cutAt EXCEPT ![rcvd] = 0]
        /\ UNCHANGED <<clock, traffic, lastPass, locals, senders, hand, wire, passAt>>
        /\ Accept(rcvd) /\ Delete(K)
    BY <1>3 DEF GiveUp, Goto
  <1>5. /\ splitSeen' \in [Keys -> Nat]
        /\ \A k \in Keys : splitSeen'[k] \in {0, splitSeen[k]}
    BY <1>0, <1>4 DEF Delete, TypeOK
  <1>6. /\ fails' \in 0..MaxFails /\ fails' >= fails
        /\ fails' = fails => \/ FakeFails /\ NoFake
                             \/ SplitFails
    BY <1>0 DEF GiveUps, FakeFails, OriginalFails, SplitFails, ReverseSendFails,
                ReverseVerdictFails, VerdictFails, Fail, TypeOK
  <1>7. ASSUME (FakeFails /\ NoFake) \/ SplitFails
        PROVE  /\ ~Cuttable(opts, Key(rcvd))
               /\ \A k \in Keys \ {Key(rcvd)} : splitSeen'[k] = splitSeen[k]
    <2>1. Delete({Key(rcvd)})
      BY <1>7 DEF FakeFails, SplitFails, GiveUp
    <2>2. ~Cuttable(opts, Key(rcvd))
      <3>1. Key(rcvd).len \in 1..MaxLen
        <4>1. rcvd \in 1..rcvd
          BY <1>0, <1>2 DEF Ids, TypeOK
        <4> QED
          BY <1>0, <4>1, KeyTypes
      <3>2. FakePayloadLen(Key(rcvd).len) \in Nat
        BY <3>1 DEF FakePayloadLen
      <3>3. CASE FakeFails /\ NoFake
        BY <1>0, <3>2, <3>3 DEF CutState, FakeFails, NoFake, Cuttable
      <3>4. CASE SplitFails
        BY <1>0, <3>1, <3>4 DEF CutState, SplitFails, AtSplit, Splittable, Cuttable
      <3> QED
        BY <1>7, <3>3, <3>4
    <2> QED
      BY <2>1, <2>2 DEF Delete
  <1>8. pc = "reversed" => fails' > 0
    BY <1>0 DEF GiveUps, FakeFails, OriginalFails, AtOriginal, SplitFails, AtSplit,
                ReverseSendFails, ReverseVerdictFails, VerdictFails, InOrder, Fail, TypeOK
  <1>9. ASSUME NEW k \in Keys, k = Key(rcvd) \/ (pc = "raw" /\ k = SecondKey(rcvd))
        PROVE  splitSeen'[k] = 0
    <2>1. CASE ReverseSendFails
      BY <1>9, <2>1 DEF ReverseSendFails, GiveUp, Delete
    <2>2. CASE ~ReverseSendFails
      <3>1. Delete({Key(rcvd)}) /\ pc # "raw"
        BY <2>2 DEF GiveUps, FakeFails, OriginalFails, AtOriginal, SplitFails, AtSplit,
                    ReverseVerdictFails, AtReversed, VerdictFails, InOrder, GiveUp
      <3> QED
        BY <1>9, <3>1 DEF Delete
    <2> QED
      BY <2>1, <2>2
  <1> QED
    BY <1>0, <1>1, <1>2, <1>4, <1>5, <1>6, <1>7, <1>8, <1>9, AcceptFacts

\* The packet in hand is one that was delivered.
LEMMA InHandFacts ==
    ASSUME TypeOK, Progress, pc # "idle"
    PROVE  /\ rcvd \in Ids /\ rcvd \in 1..rcvd
           /\ Key(rcvd) \in Keys /\ Key(rcvd).len \in 1..MaxLen
           /\ Client(rcvd) \in Clients
  <1>1. rcvd \in Ids /\ rcvd \in 1..rcvd
    BY DEF TypeOK, Progress, Ids
  <1> QED
    BY <1>1, KeyTypes

\* Type correctness is kept by every step.
LEMMA TypeStep == IndInv /\ [Next]_vars => TypeOK'
  <1> SUFFICES ASSUME IndInv, [Next]_vars, opts' = opts PROVE TypeOK'
    BY OptionsStay
  <1>0. TypeOK /\ Progress /\ (pc # "idle" => rcvd \in Ids)
    BY DEF IndInv, Progress
  <1>1. CASE Arrives
    <2>1. rcvd' \in 0..MaxPackets /\ pc' \in PcStates
      BY <1>0, <1>1, ArriveFacts DEF PcStates, Ids
    <2>2. /\ pkts' \in [Ids -> Inputs \cup {NoPacket}]
          /\ \A id \in Ids : pkts'[id] \in Inputs <=> id <= rcvd'
          /\ verdict' \in [Ids -> Verdict] /\ lost' \in 0..MaxLost
          /\ UNCHANGED <<clock, fails, maps, locals, senders, hand, wire, history>>
      BY <1>0, <1>1, ArriveFacts
    <2> QED
      BY <1>0, <2>1, <2>2 DEF TypeOK, maps, locals, senders, history
  <1>2. CASE GiveUps
    BY <1>0, <1>2, GiveUpFacts
       DEF TypeOK, PcStates, traffic, locals, senders
  <1> USE DEF TypeOK, PcStates, Goto, Store, Delete, traffic, answers, maps, locals,
              senders, history
  <1>3. CASE PassRetransmit \/ RememberPassed
    <2>1. rcvd \in Ids /\ Accept(rcvd)
      BY <1>0, <1>3 DEF PassRetransmit, RememberPassed
    <2>2. verdict' \in [Ids -> Verdict] /\ lost' \in 0..MaxLost
      BY <1>0, <2>1, AcceptFacts
    <2> QED
      BY <1>0, <1>3, <2>2 DEF PassRetransmit, RememberPassed
  <1>4. CASE NewSegment \/ DecidePass \/ DecideSplit
    BY <1>0, <1>4 DEF NewSegment, DecidePass, DecideSplit
  <1>5. CASE Remember \/ ReverseStore
    BY <1>0, <1>5 DEF Remember, ReverseStore
  <1>6. CASE FakeSent \/ ReverseSend
    BY <1>0, <1>6 DEF FakeSent, ReverseSend, SendAndSleep
  <1>7. CASE OriginalAfterFake \/ ReverseVerdict \/ FirstVerdict
    <2>1. pc # "idle"
      BY <1>7 DEF OriginalAfterFake, ReverseVerdict, FirstVerdict,
                  AtOriginal, AtReversed, InOrder, AtSplit
    <2>2. SplitMark(rcvd) \in Marks
      <3>1. pkts[rcvd] \in Packets
        BY <1>0, <2>1, InHandFacts, KeyTypes
      <3> QED
        BY <3>1 DEF SplitMark, Packets, Marks
    <2>3. verdict' \in [Ids -> Verdict] /\ UNCHANGED <<fails, lost>>
      <3>1. PICK part \in {"whole", "first"} : AcceptPart(part)
        BY <1>7 DEF OriginalAfterFake, ReverseVerdict, FirstVerdict, LetThrough
      <3>2. [part |-> part, mark |-> SplitMark(rcvd)] \in Verdict
        BY <2>2 DEF Verdict
      <3> QED
        BY <1>0, <3>1, <3>2 DEF AcceptPart
    <2> QED
      BY <1>0, <1>7, <2>3
         DEF OriginalAfterFake, ReverseVerdict, FirstVerdict, LetThrough
  <1>8. CASE SpawnSender
    <2>1. clock + SplitDelay \in Nat
      BY <1>0
    <2>2. splitSeen' \in [Keys -> Nat]
      BY <1>0, <1>8 DEF SpawnSender
    <2>3. /\ sender' \in [Ids -> {"none", "asleep", "done"}] /\ due' \in [Ids -> Nat]
          /\ pc' = "idle"
          /\ UNCHANGED <<clock, traffic, answers, lastPass, locals, hand, wire, history>>
      BY <1>0, <1>8, <2>1 DEF SpawnSender
    <2> QED
      BY <1>0, <2>2, <2>3
  <1>9. ASSUME NEW id \in Ids, SendSecond(id) \/ SendSecondFails(id) PROVE TypeOK'
    BY <1>0, <1>9 DEF SendSecond, SendSecondFails, SenderWakes, Fail
  <1>10. CASE SeenVisit \/ SeenDelete
    BY <1>0, <1>10 DEF SeenVisit, SeenDelete, Background
  <1>11. CASE WindowCleanup
    BY <1>0, <1>11 DEF WindowCleanup, Background
  <1>12. CASE Tick
    BY <1>0, <1>12 DEF Tick, Background
  <1>13. CASE UNCHANGED vars
    BY <1>0, <1>13 DEF vars
  <1> QED
    BY NextCases, <1>1, <1>2, <1>3, <1>4, <1>5, <1>6, <1>7, <1>8, <1>9, <1>10, <1>11,
       <1>12, <1>13

\* The packet in hand gets its verdict.
LEMMA AnswerProgress ==
    ASSUME TypeOK, Progress, pc \notin {"idle", "spawn"}, rcvd \in Ids,
           verdict'[rcvd] # Unanswered,
           \A o \in Ids \ {rcvd} : verdict'[o] = verdict[o],
           \/ pc' = "idle"
           \/ pc' = "spawn" /\ verdict'[rcvd].part = "first" /\ ~SplitReverse,
           \A o \in Ids \ {rcvd} : cutAt'[o] = cutAt[o],
           UNCHANGED <<opts, rcvd, sender, wire, passAt>>
    PROVE  Progress'
  <1>1. \A id \in 1..rcvd : id \in Ids
    BY DEF TypeOK, Ids
  <1>2. \A id \in Ids : id > rcvd => id # rcvd
    BY DEF Ids
  <1>3. rcvd \in 1..rcvd
    BY DEF Ids, TypeOK
  <1>4. sender[rcvd] = "none"
    BY <1>3 DEF Progress, Unanswered
  <1>5. \A id \in 1..rcvd : verdict'[id] # Unanswered
    BY <1>1 DEF Progress
  <1> QED
    BY <1>2, <1>4, <1>5 DEF Progress

\* Where the packets are.
LEMMA ProgressStep == IndInv /\ [Next]_vars => Progress'
  <1> SUFFICES ASSUME IndInv, [Next]_vars, opts' = opts PROVE Progress'
    BY OptionsStay
  <1>0. TypeOK /\ Progress /\ (pc # "idle" => rcvd \in Ids /\ rcvd \in 1..rcvd)
    BY InHandFacts DEF IndInv
  <1>00. \A v \in {Whole, Lost} : v # Unanswered /\ v.part # "first"
    BY DEF Whole, Lost, Unanswered
  <1>1. CASE Arrives
    <2>0. rcvd \in Nat /\ rcvd' = rcvd + 1 /\ rcvd' \in Ids
      BY <1>0, <1>1, ArriveFacts DEF TypeOK
    <2>1. \A id \in 1..rcvd' : id \in Ids /\ (id = rcvd' \/ id \in 1..rcvd)
      BY <2>0 DEF Ids
    <2>2. /\ \A id \in Ids : id > rcvd' => id > rcvd /\ id # rcvd'
          /\ \A id \in 1..rcvd : id # rcvd'
          /\ rcvd' > rcvd
      BY <2>0 DEF Ids
    <2>3. /\ pc = "idle" /\ pc' \in {"idle", "load"}
          /\ \A id \in Ids \ {rcvd'} : verdict'[id] = verdict[id]
          /\ verdict'[rcvd'] = Unanswered <=> pc' = "load"
          /\ UNCHANGED <<senders, wire, history>>
      BY <1>0, <1>00, <1>1, <2>0, <2>2, ArriveFacts DEF Progress
    <2>4. \A id \in Ids : sender[id] # "none" => id # rcvd'
      BY <1>0, <2>0, <2>2 DEF Progress
    <2> QED
      BY <1>0, <2>0, <2>1, <2>2, <2>3, <2>4 DEF Progress, senders, history
  <1>2. CASE GiveUps
    <2>1. \A o \in Ids \ {rcvd} : cutAt'[o] = cutAt[o]
      BY <1>0, <1>2, GiveUpFacts DEF TypeOK
    <2> QED
      BY <1>0, <1>00, <1>2, <2>1, GiveUpFacts, AnswerProgress DEF Cutting, traffic, senders
  <1> USE DEF Goto, Store, Delete, traffic, answers, maps, locals, senders, history
  <1>3. CASE PassRetransmit \/ RememberPassed
    <2>1. /\ rcvd \in Ids /\ Accept(rcvd) /\ pc \in {"load", "passed"} /\ pc' = "idle"
          /\ UNCHANGED <<traffic, senders, wire, history>>
      BY <1>0, <1>3 DEF PassRetransmit, RememberPassed
    <2>2. /\ verdict'[rcvd] \in {Whole, Lost}
          /\ \A o \in Ids \ {rcvd} : verdict'[o] = verdict[o]
      BY <1>0, <2>1, AcceptFacts
    <2> QED
      BY <1>0, <1>00, <2>1, <2>2, AnswerProgress
  <1>4. CASE NewSegment \/ DecidePass \/ DecideSplit \/ Remember
    BY <1>0, <1>4 DEF NewSegment, DecidePass, DecideSplit, Remember, Progress, TypeOK
  <1>5. CASE ReverseStore
    BY <1>0, <1>5 DEF ReverseStore, AtSplit, Progress, TypeOK
  <1>6. CASE FakeSent \/ ReverseSend
    BY <1>0, <1>6 DEF FakeSent, ReverseSend, SendAndSleep, Progress, TypeOK
  <1>7. CASE OriginalAfterFake \/ ReverseVerdict \/ FirstVerdict
    <2>1. /\ pc \in {"faked", "reversed", "split"} /\ rcvd \in Ids
          /\ pc' = "idle" \/ (FirstVerdict /\ pc' = "spawn" /\ ~SplitReverse)
          /\ UNCHANGED <<traffic, senders, wire, history>>
      BY <1>0, <1>7
         DEF OriginalAfterFake, ReverseVerdict, FirstVerdict, AtOriginal, AtReversed,
             InOrder, AtSplit, LetThrough
    <2>2. PICK part \in {"whole", "first"} :
            AcceptPart(part) /\ (FirstVerdict => part = "first")
      BY <1>7, <2>1 DEF OriginalAfterFake, ReverseVerdict, FirstVerdict, LetThrough
    <2>3. /\ verdict'[rcvd].part = part /\ verdict'[rcvd] # Unanswered
          /\ \A o \in Ids \ {rcvd} : verdict'[o] = verdict[o]
      BY <1>0, <2>1, <2>2 DEF AcceptPart, TypeOK, Unanswered
    <2> QED
      BY <1>0, <2>1, <2>2, <2>3, AnswerProgress
  <1>8. CASE SpawnSender
    BY <1>0, <1>8 DEF SpawnSender, Progress, TypeOK, Unanswered
  <1>9. ASSUME NEW id \in Ids, SendSecond(id) \/ SendSecondFails(id) PROVE Progress'
    BY <1>0, <1>9 DEF SendSecond, SendSecondFails, SenderWakes, Progress, TypeOK
  <1>10. CASE SeenVisit \/ SeenDelete \/ WindowCleanup \/ Tick
    BY <1>0, <1>10 DEF SeenVisit, SeenDelete, WindowCleanup, Tick, Background, Progress
  <1>11. CASE UNCHANGED vars
    BY <1>0, <1>11 DEF vars, Progress
  <1> QED
    BY NextCases, <1>1, <1>2, <1>3, <1>4, <1>5, <1>6, <1>7, <1>8, <1>9, <1>10, <1>11

\* Stamps stay in the past.
LEMMA StampsStep == IndInv /\ [Next]_vars => StampsPast'
  <1> SUFFICES ASSUME IndInv, [Next]_vars, opts' = opts PROVE StampsPast'
    BY OptionsStay
  <1>0. /\ TypeOK /\ StampsPast
        /\ clock \in Nat /\ now \in Nat /\ splitSeen \in [Keys -> Nat]
        /\ cutAt \in [Ids -> Nat] /\ passAt \in [Ids -> Nat]
    BY DEF IndInv, TypeOK
  <1> USE DEF StampsPast, Goto, Store, Delete, traffic, answers, maps, locals, senders,
              history
  <1>1. CASE Arrives
    BY <1>0, <1>1, ArriveFacts
  <1>2. CASE GiveUps
    BY <1>0, <1>2, GiveUpFacts
  <1>3. CASE PassRetransmit \/ NewSegment \/ DecidePass \/ DecideSplit
    BY <1>0, <1>3 DEF PassRetransmit, NewSegment, DecidePass, DecideSplit
  <1>4. CASE RememberPassed \/ Remember \/ ReverseStore \/ SpawnSender
    BY <1>0, <1>4 DEF RememberPassed, Remember, ReverseStore, SpawnSender
  <1>5. CASE FakeSent \/ ReverseSend \/ OriginalAfterFake \/ ReverseVerdict \/ FirstVerdict
    BY <1>0, <1>5 DEF FakeSent, ReverseSend, SendAndSleep, OriginalAfterFake,
                      ReverseVerdict, FirstVerdict, LetThrough
  <1>6. ASSUME NEW id \in Ids, SendSecond(id) \/ SendSecondFails(id) PROVE StampsPast'
    BY <1>0, <1>6 DEF SendSecond, SendSecondFails, SenderWakes
  <1>7. CASE SeenVisit \/ SeenDelete \/ WindowCleanup
    BY <1>0, <1>7 DEF SeenVisit, SeenDelete, WindowCleanup, Background
  <1>8. CASE Tick
    BY <1>0, <1>8 DEF Tick, Background
  <1>9. CASE UNCHANGED vars
    BY <1>0, <1>9 DEF vars
  <1> QED
    BY NextCases, <1>1, <1>2, <1>3, <1>4, <1>5, <1>6, <1>7, <1>8, <1>9

\* What is known of the packet in hand.
LEMMA CutStateStep == IndInv /\ [Next]_vars => CutState'
  <1> SUFFICES ASSUME IndInv, [Next]_vars, opts' = opts PROVE CutState'
    BY OptionsStay
  <1>0. /\ TypeOK /\ Progress /\ CutState /\ clock \in Nat \ {0}
        /\ (pc # "idle" => rcvd \in Ids /\ rcvd \in 1..rcvd /\ Key(rcvd) \in Keys
                           /\ Key(rcvd).len \in 1..MaxLen)
        /\ splitSeen \in [Keys -> Nat] /\ cutAt \in [Ids -> Nat]
    BY InHandFacts DEF IndInv, TypeOK
  <1>1. CASE Arrives
    <2>0. rcvd \in Nat /\ rcvd' = rcvd + 1 /\ rcvd' \in Ids
      BY <1>0, <1>1, ArriveFacts DEF TypeOK
    <2>1. \A id \in 1..rcvd' : id = rcvd' \/ id \in 1..rcvd
      BY <2>0
    <2>2. cutAt[rcvd'] = 0
      BY <1>0, <2>0 DEF Progress
    <2>3. \A id \in 1..rcvd : Key(id)' = Key(id)
      BY <1>0, <1>1, ArriveFacts DEF Key
    <2>4. pc = "idle" /\ pc' \in {"idle", "load"} /\ cutAt' = cutAt
      BY <1>0, <1>1, ArriveFacts DEF history
    <2>5. \A id \in 1..rcvd : cutAt[id] # 0 => Cuttable(opts, Key(id))
      BY <1>0, <2>4 DEF CutState
    <2> QED
      BY <2>1, <2>2, <2>3, <2>4, <2>5 DEF CutState, Cutting
  <1>2. CASE GiveUps
    <2>1. /\ pc' = "idle" /\ UNCHANGED traffic /\ rcvd \in Ids
          /\ cutAt' = [cutAt EXCEPT ![rcvd] = 0]
      BY <1>2, GiveUpFacts
    <2>2. \A id \in 1..rcvd : cutAt'[id] # 0 => id # rcvd /\ cutAt[id] # 0
      BY <1>0, <2>1 DEF TypeOK, Ids
    <2> QED
      BY <1>0, <2>1, <2>2 DEF CutState, Cutting, Key, traffic
  <1> USE DEF CutState, Cutting, Key, Goto, Store, Delete, traffic, answers, maps, locals,
              senders, history
  <1>3. CASE PassRetransmit \/ RememberPassed
    BY <1>0, <1>3 DEF PassRetransmit, RememberPassed
  <1>4. CASE NewSegment \/ DecidePass \/ DecideSplit
    <2>1. CASE DecidePass
      <3>1. passAt'[rcvd] # 0
        BY <1>0, <2>1 DEF DecidePass, TypeOK
      <3> QED
        BY <1>0, <2>1, <3>1 DEF DecidePass
    <2>2. CASE NewSegment \/ DecideSplit
      BY <1>0, <2>2 DEF NewSegment, DecideSplit
    <2> QED
      BY <1>4, <2>1, <2>2
  <1>5. CASE Remember
    BY <1>0, <1>5 DEF Remember
  <1>6. CASE ReverseStore
    <2>1. Cuttable(opts, Key(rcvd))
      BY <1>0, <1>6 DEF ReverseStore, AtSplit, Splittable, Cuttable
    <2> QED
      BY <1>0, <1>6, <2>1 DEF ReverseStore, AtSplit
  <1>7. CASE FakeSent \/ ReverseSend
    <2>1. FakePayloadLen(Key(rcvd).len) \in Nat
      BY <1>0, <1>7 DEF FakePayloadLen, FakeSent, ReverseSend
    <2> QED
      BY <1>0, <1>7, <2>1 DEF FakeSent, ReverseSend, SendAndSleep, NoFake
  <1>8. CASE OriginalAfterFake \/ ReverseVerdict \/ FirstVerdict
    <2>1. Cuttable(opts, Key(rcvd))
      BY <1>0, <1>8 DEF OriginalAfterFake, AtOriginal, ReverseVerdict, AtReversed,
                        FirstVerdict, InOrder, AtSplit, Splittable, Cuttable
    <2> QED
      BY <1>0, <1>8, <2>1 DEF OriginalAfterFake, ReverseVerdict, FirstVerdict, LetThrough
  <1>9. CASE SpawnSender
    BY <1>0, <1>9 DEF SpawnSender
  <1>10. ASSUME NEW id \in Ids, SendSecond(id) \/ SendSecondFails(id) PROVE CutState'
    BY <1>0, <1>10 DEF SendSecond, SendSecondFails, SenderWakes
  <1>11. CASE SeenVisit \/ SeenDelete \/ WindowCleanup \/ Tick
    BY <1>0, <1>11 DEF SeenVisit, SeenDelete, WindowCleanup, Tick, Background
  <1>12. CASE UNCHANGED vars
    BY <1>0, <1>12 DEF vars
  <1> QED
    BY NextCases, <1>1, <1>2, <1>3, <1>4, <1>5, <1>6, <1>7, <1>8, <1>9, <1>10, <1>11, <1>12

\* A step that stores one key, deletes none and records no cut.
LEMMA StoreRemembers ==
    ASSUME TypeOK, StampsPast, CutsRemembered, NEW k, Store(k),
           UNCHANGED <<opts, clock, rcvd, pkts, hand, cutAt, fails>>
    PROVE  CutsRemembered'
  <1>1. \A id \in 1..rcvd : id \in Ids /\ Key(id) \in Keys
    BY KeyTypes
  <1>2. /\ clock \in Nat \ {0} /\ splitSeen \in [Keys -> Nat] /\ cutAt \in [Ids -> Nat]
        /\ hand \in Keys \cup {NoKey}
    BY DEF TypeOK
  <1>3. \A o \in Keys : splitSeen'[o] = IF o = k THEN clock ELSE splitSeen[o]
    BY <1>2 DEF Store
  <1> QED
    BY <1>1, <1>2, <1>3 DEF CutsRemembered, StampsPast, Key, Old

\* A step that has nothing to do with cuts; time may pass.
LEMMA OthersRemember ==
    ASSUME TypeOK, CutsRemembered, clock' \in Nat, clock' >= clock,
           UNCHANGED <<opts, rcvd, pkts, hand, cutAt, fails, splitSeen>>
    PROVE  CutsRemembered'
  <1>1. \A id \in 1..rcvd : id \in Ids /\ Key(id) \in Keys
    BY KeyTypes
  <1>2. /\ clock \in Nat /\ cutAt \in [Ids -> Nat]
    BY DEF TypeOK
  <1>3. \A id \in 1..rcvd : Old(id) => Old(id)'
    BY <1>1, <1>2 DEF Old
  <1> QED
    BY <1>1, <1>3 DEF CutsRemembered, Key

\* splitSeen knows what was cut.
LEMMA CutsRememberedStep == IndInv /\ [Next]_vars => CutsRemembered'
  <1> SUFFICES ASSUME IndInv, [Next]_vars, opts' = opts PROVE CutsRemembered'
    BY OptionsStay
  <1>0. /\ TypeOK /\ Progress /\ StampsPast /\ CutState /\ CutsRemembered
        /\ clock \in Nat \ {0} /\ splitSeen \in [Keys -> Nat] /\ cutAt \in [Ids -> Nat]
        /\ hand \in Keys \cup {NoKey} /\ fails \in Nat
        /\ (pc # "idle" => rcvd \in Ids /\ rcvd \in 1..rcvd /\ Key(rcvd) \in Keys)
    BY InHandFacts DEF IndInv, TypeOK
  <1>00. \A id \in 1..rcvd : id \in Ids /\ Key(id) \in Keys
    BY <1>0, KeyTypes
  <1>1. CASE Arrives
    <2>0. rcvd \in Nat /\ rcvd' = rcvd + 1 /\ rcvd' \in Ids
      BY <1>0, <1>1, ArriveFacts DEF TypeOK
    <2>1. \A id \in 1..rcvd' : id = rcvd' \/ id \in 1..rcvd
      BY <2>0
    <2>2. cutAt[rcvd'] = 0
      BY <1>0, <2>0 DEF Progress
    <2>3. \A id \in 1..rcvd : Key(id)' = Key(id)
      BY <1>0, <1>1, ArriveFacts DEF Key
    <2>4. UNCHANGED <<clock, fails, splitSeen, hand, cutAt>>
      BY <1>0, <1>1, ArriveFacts DEF history, maps
    <2> QED
      BY <1>0, <2>1, <2>2, <2>3, <2>4 DEF CutsRemembered, Old
  <1>2. CASE GiveUps
    <2>1. /\ UNCHANGED <<clock, traffic, hand>> /\ rcvd \in Ids /\ fails' >= fails
          /\ cutAt' = [cutAt EXCEPT ![rcvd] = 0] /\ fails' \in Nat
      BY <1>2, GiveUpFacts
    <2>2. \A id \in 1..rcvd : cutAt'[id] # 0 => cutAt'[id] = cutAt[id]
      BY <1>0, <1>00, <2>1
    <2>3. fails' = 0 => /\ fails = 0 /\ ~Cuttable(opts, Key(rcvd))
                        /\ \A k \in Keys : Cuttable(opts, k) => splitSeen'[k] = splitSeen[k]
      BY <1>0, <1>2, <2>1, GiveUpFacts
    <2>4. \A id \in 1..rcvd : Key(id)' = Key(id)
      BY <2>1 DEF Key, traffic
    <2> QED
      BY <1>0, <1>00, <2>1, <2>2, <2>3, <2>4 DEF CutsRemembered, Old, traffic
  <1> USE DEF Goto, traffic, answers, maps, locals, senders, history
  <1>3. CASE PassRetransmit \/ NewSegment \/ DecidePass \/ DecideSplit
    BY <1>0, <1>3, OthersRemember DEF PassRetransmit, NewSegment, DecidePass, DecideSplit
  <1>4. CASE RememberPassed \/ ReverseStore \/ SpawnSender
    BY <1>0, <1>4, StoreRemembers DEF RememberPassed, ReverseStore, SpawnSender
  <1>5. CASE Remember
    <2>1. /\ splitSeen[Key(rcvd)] = 0 /\ rcvd \in Ids /\ Key(rcvd) \in Keys
          /\ cutAt' = [cutAt EXCEPT ![rcvd] = clock]
          /\ splitSeen' = [splitSeen EXCEPT ![Key(rcvd)] = clock]
          /\ UNCHANGED <<clock, traffic, hand, fails>>
      BY <1>0, <1>5 DEF Remember, CutState, Store
    <2>2. \A id \in 1..rcvd : Key(id)' = Key(id)
      BY <2>1 DEF Key
    <2>3. fails = 0 /\ hand # NoKey /\ Cuttable(opts, hand) => hand # Key(rcvd)
      BY <1>0, <2>1 DEF CutsRemembered
    <2>4. \A k \in Keys : splitSeen'[k] = IF k = Key(rcvd) THEN clock ELSE splitSeen[k]
      BY <1>0, <2>1
    <2>5. \A id \in 1..rcvd : cutAt'[id] = IF id = rcvd THEN clock ELSE cutAt[id]
      BY <1>0, <1>00, <2>1
    <2>6. \A id \in 1..rcvd : cutAt[id] <= clock
      BY <1>0, <1>00 DEF StampsPast
    <2> QED
      BY <1>0, <1>00, <2>1, <2>2, <2>3, <2>4, <2>5, <2>6 DEF CutsRemembered, Old
  <1>6. CASE FakeSent \/ ReverseSend \/ OriginalAfterFake \/ ReverseVerdict \/ FirstVerdict
    BY <1>0, <1>6, OthersRemember
       DEF FakeSent, ReverseSend, SendAndSleep, OriginalAfterFake, ReverseVerdict,
           FirstVerdict, LetThrough, AcceptPart
  <1>7. ASSUME NEW id \in Ids, SendSecond(id) PROVE CutsRemembered'
    BY <1>0, <1>7, OthersRemember DEF SendSecond, SenderWakes
  <1>8. ASSUME NEW id \in Ids, SendSecondFails(id) PROVE CutsRemembered'
    BY <1>0, <1>8 DEF SendSecondFails, Fail, CutsRemembered
  <1>9. CASE SeenVisit
    <2>1. PICK t \in 1..clock, k \in Keys : Stale(k, t) /\ hand' = k
      BY <1>9 DEF SeenVisit
    <2>2. /\ splitSeen[k] # 0 /\ clock - splitSeen[k] > SplitSeenTTL
      BY <1>0, <2>1 DEF Stale
    <2>3. UNCHANGED <<clock, traffic, fails, cutAt, splitSeen>>
      BY <1>9 DEF SeenVisit, Background
    <2>4. ASSUME fails = 0, Cuttable(opts, k), NEW id \in 1..rcvd, cutAt[id] # 0, Key(id) = k
          PROVE  Old(id)
      <3>1. cutAt[id] <= splitSeen[k]
        BY <1>0, <1>00, <2>2, <2>4 DEF CutsRemembered
      <3> QED
        BY <1>0, <1>00, <2>2, <3>1 DEF Old
    <2> QED
      BY <1>0, <2>1, <2>2, <2>3, <2>4 DEF CutsRemembered, Key, Old
  <1>10. CASE SeenDelete
    <2>1. /\ hand # NoKey /\ hand' = NoKey
          /\ splitSeen' = [k \in Keys |-> IF k \in {hand} THEN 0 ELSE splitSeen[k]]
          /\ UNCHANGED <<clock, traffic, fails, cutAt>>
      BY <1>10 DEF SeenDelete, Delete, Background
    <2>2. \A k \in Keys : splitSeen'[k] = IF k = hand THEN 0 ELSE splitSeen[k]
      BY <2>1
    <2> QED
      BY <1>0, <1>00, <2>1, <2>2 DEF CutsRemembered, Key, Old
  <1>11. CASE WindowCleanup \/ Tick
    BY <1>0, <1>11, OthersRemember DEF WindowCleanup, Tick, Background
  <1>12. CASE UNCHANGED vars
    BY <1>0, <1>12, OthersRemember DEF vars
  <1> QED
    BY NextCases, <1>1, <1>2, <1>3, <1>4, <1>5, <1>6, <1>7, <1>8, <1>9, <1>10, <1>11, <1>12

\* What the properties below say of a packet does not change with its number: a
\* step other than an arrival leaves rcvd and pkts alone.
LEMMA SameTraffic ==
    ASSUME IndInv, [Next]_vars, ~Arrives
    PROVE  UNCHANGED <<rcvd, pkts>>
  <1> USE DEF Goto, traffic, answers, maps, locals, senders, history
  <1>1. CASE GiveUps
    BY <1>1, GiveUpFacts
  <1>2. CASE \/ PassRetransmit \/ NewSegment \/ DecidePass \/ DecideSplit
             \/ RememberPassed \/ Remember \/ FakeSent \/ OriginalAfterFake
             \/ ReverseStore \/ ReverseSend \/ ReverseVerdict
             \/ FirstVerdict \/ SpawnSender
    BY <1>2 DEF PassRetransmit, NewSegment, DecidePass, DecideSplit, RememberPassed,
                Remember, FakeSent, OriginalAfterFake, ReverseStore, ReverseSend,
                ReverseVerdict, FirstVerdict, SpawnSender
  <1>3. ASSUME NEW id \in Ids, SendSecond(id) \/ SendSecondFails(id)
        PROVE  UNCHANGED <<rcvd, pkts>>
    BY <1>3 DEF SendSecond, SendSecondFails, SenderWakes
  <1>4. CASE SeenVisit \/ SeenDelete \/ WindowCleanup \/ Tick
    BY <1>4 DEF SeenVisit, SeenDelete, WindowCleanup, Tick, Background
  <1>5. CASE UNCHANGED vars
    BY <1>5 DEF vars
  <1> QED
    BY NextCases, <1>1, <1>2, <1>3, <1>4, <1>5

\* What an arrival leaves alone.
LEMMA ArrivalKeeps ==
    ASSUME TypeOK, Progress, Arrives
    PROVE  /\ \A id \in 1..rcvd' : id = rcvd' \/ id \in 1..rcvd
           /\ 1..rcvd \subseteq 1..rcvd'
           /\ cutAt[rcvd'] = 0 /\ passAt[rcvd'] = 0
           /\ wire[rcvd'] = {} /\ sender[rcvd'] = "none"
           /\ \A id \in 1..rcvd : Key(id)' = Key(id) /\ Client(id)' = Client(id)
           /\ pc' \in {"idle", "load"}
           /\ UNCHANGED <<clock, fails, maps, locals, senders, hand, wire, history>>
  <1>1. rcvd \in Nat /\ rcvd' = rcvd + 1 /\ rcvd' \in Ids
    BY ArriveFacts DEF TypeOK
  <1>2. rcvd' > rcvd
    BY <1>1
  <1>3. /\ \A id \in 1..rcvd' : id = rcvd' \/ id \in 1..rcvd
        /\ 1..rcvd \subseteq 1..rcvd'
    BY <1>1
  <1>4. /\ cutAt[rcvd'] = 0 /\ passAt[rcvd'] = 0
        /\ wire[rcvd'] = {} /\ sender[rcvd'] = "none"
    BY <1>1, <1>2 DEF Progress
  <1>5. \A id \in 1..rcvd : Key(id)' = Key(id) /\ Client(id)' = Client(id)
    BY ArriveFacts DEF Key, Client
  <1> QED
    BY <1>3, <1>4, <1>5, ArriveFacts

\* Only Remember records a cut, and only giving up withdraws one.
LEMMA CutAtStep ==
    ASSUME IndInv, [Next]_vars, ~Remember, ~GiveUps
    PROVE  cutAt' = cutAt /\ (fails' = 0 => fails = 0)
  <1>0. fails \in Nat
    BY DEF IndInv, TypeOK
  <1> USE DEF Goto, traffic, answers, maps, locals, senders, history
  <1>1. CASE Arrives
    BY <1>1, ArriveFacts DEF IndInv
  <1>2. CASE \/ PassRetransmit \/ NewSegment \/ DecidePass \/ DecideSplit
             \/ RememberPassed \/ FakeSent \/ OriginalAfterFake
             \/ ReverseStore \/ ReverseSend \/ ReverseVerdict
             \/ FirstVerdict \/ SpawnSender
    BY <1>2 DEF PassRetransmit, NewSegment, DecidePass, DecideSplit, RememberPassed,
                FakeSent, OriginalAfterFake, ReverseStore, ReverseSend,
                ReverseVerdict, FirstVerdict, SpawnSender, SendAndSleep, LetThrough,
                AcceptPart
  <1>3. ASSUME NEW id \in Ids, SendSecond(id) \/ SendSecondFails(id)
        PROVE  cutAt' = cutAt /\ (fails' = 0 => fails = 0)
    BY <1>0, <1>3 DEF SendSecond, SendSecondFails, SenderWakes, Fail
  <1>4. CASE SeenVisit \/ SeenDelete \/ WindowCleanup \/ Tick
    BY <1>4 DEF SeenVisit, SeenDelete, WindowCleanup, Tick, Background
  <1>5. CASE UNCHANGED vars
    BY <1>5 DEF vars
  <1> QED
    BY NextCases, <1>1, <1>2, <1>3, <1>4, <1>5

\* No segment is cut twice within the ttl.
LEMMA NoSecondCutStep == IndInv /\ [Next]_vars => NoSecondCut'
  <1> SUFFICES ASSUME IndInv, [Next]_vars, opts' = opts PROVE NoSecondCut'
    BY OptionsStay
  <1>0. /\ TypeOK /\ Progress /\ CutState /\ CutsRemembered /\ NoSecondCut
        /\ clock \in Nat \ {0} /\ cutAt \in [Ids -> Nat] /\ rcvd \in Nat
        /\ (pc # "idle" => rcvd \in Ids /\ rcvd \in 1..rcvd /\ Key(rcvd) \in Keys)
        /\ \A id \in 1..rcvd : id \in Ids
    BY InHandFacts, KeyTypes DEF IndInv, TypeOK
  <1>1. CASE Arrives
    BY <1>0, <1>1, ArrivalKeeps DEF NoSecondCut, history
  <1>2. CASE GiveUps
    <2>1. /\ UNCHANGED <<rcvd, pkts>> /\ rcvd \in Ids
          /\ cutAt' = [cutAt EXCEPT ![rcvd] = 0] /\ fails' \in Nat /\ fails' >= fails
      BY <1>2, GiveUpFacts DEF traffic
    <2>2. \A id \in 1..rcvd : cutAt'[id] # 0 => cutAt'[id] = cutAt[id]
      BY <1>0, <2>1
    <2>3. fails' = 0 => fails = 0
      BY <2>1 DEF IndInv, TypeOK
    <2> QED
      BY <1>0, <2>1, <2>2, <2>3 DEF NoSecondCut, Key
  <1>3. CASE Remember
    <2>1. /\ splitSeen[Key(rcvd)] = 0 /\ rcvd \in Ids /\ rcvd \in 1..rcvd
          /\ pc = "store"
          /\ cutAt' = [cutAt EXCEPT ![rcvd] = clock]
          /\ UNCHANGED <<rcvd, pkts, fails>>
      BY <1>0, <1>3 DEF Remember, CutState, Goto, traffic, answers
    <2>2. \A id \in 1..rcvd : cutAt'[id] = IF id = rcvd THEN clock ELSE cutAt[id]
      BY <1>0, <2>1
    <2>3. ASSUME NEW i \in 1..rcvd, i < rcvd, fails = 0, Key(i) = Key(rcvd), cutAt[i] # 0
          PROVE  clock - cutAt[i] > SplitSeenTTL
      <3>1. Cuttable(opts, Key(i))
        BY <1>0, <2>1, <2>3 DEF CutState
      <3> QED
        BY <1>0, <2>1, <2>3, <3>1 DEF CutsRemembered, Old
    <2>4. \A i, j \in 1..rcvd : i < j => i < rcvd /\ i # rcvd
      BY <1>0
    <2> QED
      BY <1>0, <2>1, <2>2, <2>3, <2>4 DEF NoSecondCut, Key
  <1>4. CASE ~Arrives /\ ~Remember /\ ~GiveUps
    BY <1>0, <1>4, CutAtStep, SameTraffic DEF NoSecondCut, Key
  <1> QED
    BY <1>1, <1>2, <1>3, <1>4

\* Only decide and its cleanup touch the windows.
LEMMA WindowsStep ==
    ASSUME IndInv, [Next]_vars, ~DecidePass, ~WindowCleanup
    PROVE  UNCHANGED <<lastPass, passAt>>
  <1> USE DEF Goto, traffic, answers, maps, locals, senders, history
  <1>1. CASE Arrives
    BY <1>1, ArriveFacts DEF IndInv
  <1>2. CASE GiveUps
    BY <1>2, GiveUpFacts
  <1>3. CASE \/ PassRetransmit \/ NewSegment \/ DecideSplit
             \/ RememberPassed \/ Remember \/ FakeSent \/ OriginalAfterFake
             \/ ReverseStore \/ ReverseSend \/ ReverseVerdict
             \/ FirstVerdict \/ SpawnSender
    BY <1>3 DEF PassRetransmit, NewSegment, DecideSplit, RememberPassed, Remember,
                FakeSent, OriginalAfterFake, ReverseStore, ReverseSend,
                ReverseVerdict, FirstVerdict, SpawnSender, SendAndSleep, LetThrough
  <1>4. ASSUME NEW id \in Ids, SendSecond(id) \/ SendSecondFails(id)
        PROVE  UNCHANGED <<lastPass, passAt>>
    BY <1>4 DEF SendSecond, SendSecondFails, SenderWakes
  <1>5. CASE SeenVisit \/ SeenDelete \/ Tick
    BY <1>5 DEF SeenVisit, SeenDelete, Tick, Background
  <1>6. CASE UNCHANGED vars
    BY <1>6 DEF vars
  <1> QED
    BY NextCases, <1>1, <1>2, <1>3, <1>4, <1>5, <1>6

\* Time does not go back.
LEMMA ClockStep ==
    ASSUME IndInv, [Next]_vars
    PROVE  clock' \in {clock, clock + 1}
  <1> USE DEF Goto, traffic, answers, maps, locals, senders, history
  <1>1. CASE Arrives
    BY <1>1, ArriveFacts DEF IndInv
  <1>2. CASE GiveUps
    BY <1>2, GiveUpFacts
  <1>3. CASE \/ PassRetransmit \/ NewSegment \/ DecidePass \/ DecideSplit
             \/ RememberPassed \/ Remember \/ FakeSent \/ OriginalAfterFake
             \/ ReverseStore \/ ReverseSend \/ ReverseVerdict
             \/ FirstVerdict \/ SpawnSender
    BY <1>3 DEF PassRetransmit, NewSegment, DecidePass, DecideSplit, RememberPassed,
                Remember, FakeSent, OriginalAfterFake, ReverseStore, ReverseSend,
                ReverseVerdict, FirstVerdict, SpawnSender
  <1>4. ASSUME NEW id \in Ids, SendSecond(id) \/ SendSecondFails(id)
        PROVE  clock' = clock
    BY <1>4 DEF SendSecond, SendSecondFails, SenderWakes
  <1>5. CASE SeenVisit \/ SeenDelete \/ WindowCleanup \/ Tick
    BY <1>5 DEF SeenVisit, SeenDelete, WindowCleanup, Tick, Background
  <1>6. CASE UNCHANGED vars
    BY <1>6 DEF vars
  <1> QED
    BY NextCases, <1>1, <1>2, <1>3, <1>4, <1>5, <1>6

\* lastPass knows the last pass of every client whose window is open.
LEMMA PassesStep == IndInv /\ [Next]_vars => PassesRemembered'
  <1> SUFFICES ASSUME IndInv, [Next]_vars, opts' = opts PROVE PassesRemembered'
    BY OptionsStay
  <1>0. /\ TypeOK /\ Progress /\ StampsPast /\ PassesRemembered
        /\ clock \in Nat \ {0} /\ now \in Nat /\ rcvd \in Nat
        /\ passAt \in [Ids -> Nat] /\ lastPass \in [Clients -> Nat]
        /\ (pc # "idle" => rcvd \in Ids /\ rcvd \in 1..rcvd /\ Client(rcvd) \in Clients)
        /\ \A id \in 1..rcvd : id \in Ids /\ Client(id) \in Clients
    BY InHandFacts, KeyTypes DEF IndInv, TypeOK
  <1>1. CASE Arrives
    <2>1. /\ \A id \in 1..rcvd' : passAt[id] # 0 => id \in 1..rcvd
          /\ 1..rcvd \subseteq 1..rcvd'
          /\ \A id \in 1..rcvd : Client(id)' = Client(id)
          /\ UNCHANGED <<clock, lastPass, passAt>>
      BY <1>0, <1>1, ArrivalKeeps DEF maps, history
    <2> QED
      BY <1>0, <2>1 DEF PassesRemembered
  <1>2. CASE DecidePass
    <2>1. /\ rcvd \in Ids /\ rcvd \in 1..rcvd /\ Client(rcvd) \in Clients
          /\ lastPass' = [lastPass EXCEPT ![Client(rcvd)] = now]
          /\ passAt' = [passAt EXCEPT ![rcvd] = now]
          /\ UNCHANGED <<clock, rcvd, pkts>>
      BY <1>0, <1>2 DEF DecidePass, Goto, traffic
    <2>2. \A id \in 1..rcvd : /\ passAt'[id] = IF id = rcvd THEN now ELSE passAt[id]
                              /\ passAt[id] <= now
      BY <1>0, <2>1 DEF StampsPast
    <2>3. \A c \in Clients : lastPass'[c] = IF c = Client(rcvd) THEN now ELSE lastPass[c]
      BY <1>0, <2>1
    <2>4. \A id \in 1..rcvd : Client(id)' = Client(id)
      BY <2>1 DEF Client, Key
    <2>5. now <= clock
      BY <1>0 DEF StampsPast
    <2> QED
      BY <1>0, <2>1, <2>2, <2>3, <2>4, <2>5 DEF PassesRemembered
  <1>3. CASE WindowCleanup
    <2>1. /\ UNCHANGED <<clock, rcvd, pkts, passAt>>
          /\ \A c \in Clients :
                \/ lastPass'[c] = lastPass[c]
                \/ /\ lastPass'[c] = 0 /\ lastPass[c] # 0
                   /\ clock - lastPass[c] > PassWindow
      BY <1>0, <1>3, OptionTypes DEF WindowCleanup, Background, PassStale, traffic, history
    <2>2. \A id \in 1..rcvd : Client(id)' = Client(id)
      BY <2>1 DEF Client, Key
    <2> QED
      BY <1>0, <2>1, <2>2, OptionTypes DEF PassesRemembered
  <1>4. CASE ~Arrives /\ ~DecidePass /\ ~WindowCleanup
    <2>1. UNCHANGED <<rcvd, pkts, lastPass, passAt>> /\ clock' \in {clock, clock + 1}
      BY <1>4, SameTraffic, WindowsStep, ClockStep
    <2>2. \A id \in 1..rcvd : Client(id)' = Client(id)
      BY <2>1 DEF Client, Key
    <2> QED
      BY <1>0, <2>1, <2>2, OptionTypes DEF PassesRemembered
  <1> QED
    BY <1>1, <1>2, <1>3, <1>4

\* The parts of a packet belong together.
LEMMA PartsStep == IndInv /\ [Next]_vars => PartsBelongTogether'
  <1> SUFFICES ASSUME IndInv, [Next]_vars, opts' = opts PROVE PartsBelongTogether'
    BY OptionsStay
  <1>0. /\ TypeOK /\ Progress /\ PartsBelongTogether
        /\ wire \in [Ids -> SUBSET {"fake", "second"}] /\ verdict \in [Ids -> Verdict]
        /\ sender \in [Ids -> {"none", "asleep", "done"}] /\ fails \in Nat
        /\ (pc # "idle" => rcvd \in Ids /\ rcvd \in 1..rcvd)
        /\ \A id \in 1..rcvd : id \in Ids
    BY InHandFacts, KeyTypes DEF IndInv, TypeOK
  <1>00. \A v \in {Whole, Lost, Unanswered} : v.part # "first"
    BY DEF Whole, Lost, Unanswered
  \* The packet in hand is unanswered, so its second part is not out yet, unless the
  \* callback is about to let the first one follow.
  <1>000. pc \notin {"idle", "spawn"} =>
            /\ verdict[rcvd] = Unanswered
            /\ "second" \in wire[rcvd] => SplitReverse /\ pc = "reversed"
    BY <1>0, <1>00 DEF Progress, PartsBelongTogether, Unanswered
  <1>1. CASE Arrives
    <2>1. /\ pc = "idle"
          /\ \A id \in 1..rcvd : verdict'[id] = verdict[id]
      <3>1. \A id \in 1..rcvd : id \in Ids \ {rcvd'}
        BY <1>0, <1>1, ArriveFacts DEF TypeOK
      <3> QED
        BY <1>0, <1>1, <3>1, ArriveFacts
    <2>2. verdict'[rcvd'].part # "first"
      <3>1. rcvd' \in Ids /\ rcvd' > rcvd
        BY <1>0, <1>1, ArriveFacts DEF TypeOK
      <3>2. verdict[rcvd'] = Unanswered
        BY <1>0, <3>1 DEF Progress
      <3> QED
        BY <1>0, <1>00, <1>1, <3>2, ArriveFacts
    <2> QED
      BY <1>0, <1>1, <2>1, <2>2, ArrivalKeeps DEF PartsBelongTogether, senders
  <1>2. CASE GiveUps
    <2>1. /\ verdict'[rcvd].part \in {"whole", "lost"} /\ pc \in Cutting
          /\ \A id \in Ids \ {rcvd} : verdict'[id] = verdict[id]
          /\ fails' >= fails /\ fails' \in Nat /\ (pc = "reversed" => fails' > 0)
          /\ UNCHANGED <<rcvd, wire, sender>>
      BY <1>00, <1>2, GiveUpFacts DEF traffic, senders, Whole, Lost
    <2> QED
      BY <1>0, <1>000, <2>1 DEF PartsBelongTogether, Cutting
  <1> USE DEF Goto, traffic, answers, maps, locals, senders, history
  <1>3. CASE PassRetransmit \/ RememberPassed
    <2>1. /\ rcvd \in Ids /\ Accept(rcvd) /\ pc \in {"load", "passed"}
          /\ UNCHANGED <<rcvd, fails, wire, sender>>
      BY <1>0, <1>3 DEF PassRetransmit, RememberPassed
    <2>2. /\ verdict'[rcvd].part # "first"
          /\ \A o \in Ids \ {rcvd} : verdict'[o] = verdict[o]
      BY <1>0, <1>00, <2>1, AcceptFacts
    <2> QED
      BY <1>0, <1>000, <2>1, <2>2 DEF PartsBelongTogether
  <1>4. CASE \/ NewSegment \/ DecidePass \/ DecideSplit \/ Remember \/ ReverseStore
    BY <1>0, <1>000, <1>4 DEF NewSegment, DecidePass, DecideSplit, Remember,
                              ReverseStore, AtSplit, PartsBelongTogether
  <1>5. CASE FakeSent \/ ReverseSend
    <2>1. /\ pc \in {"fake", "raw"}
          /\ \A id \in 1..rcvd :
                \/ wire'[id] = wire[id]
                \/ id = rcvd /\ wire'[id] = wire[id] \cup {"fake"}
                \/ /\ SplitReverse /\ wire[id] \subseteq wire'[id]
                   /\ id = rcvd /\ pc' = "reversed"
          /\ UNCHANGED <<rcvd, verdict, fails, sender>>
      BY <1>0, <1>5 DEF FakeSent, ReverseSend, SendAndSleep, Progress
    <2> QED
      BY <1>0, <1>000, <2>1 DEF PartsBelongTogether
  <1>6. CASE OriginalAfterFake
    <2>1. /\ pc = "faked" /\ rcvd \in Ids /\ AcceptPart("whole")
          /\ UNCHANGED <<rcvd, fails, wire, sender>>
      BY <1>0, <1>6 DEF OriginalAfterFake, AtOriginal, LetThrough, AcceptPart
    <2>2. /\ verdict'[rcvd].part # "first"
          /\ \A o \in Ids \ {rcvd} : verdict'[o] = verdict[o]
      BY <1>0, <2>1 DEF AcceptPart
    <2> QED
      BY <1>0, <1>000, <2>1, <2>2 DEF PartsBelongTogether
  <1>7. CASE ReverseVerdict
    <2>1. /\ SplitReverse /\ "second" \in wire[rcvd] /\ rcvd \in Ids
          /\ pc = "reversed" /\ AcceptPart("first")
          /\ UNCHANGED <<rcvd, fails, wire, sender>>
      BY <1>0, <1>7 DEF ReverseVerdict, AtReversed, LetThrough, AcceptPart, Progress
    <2>2. /\ verdict'[rcvd].part = "first"
          /\ \A o \in Ids \ {rcvd} : verdict'[o] = verdict[o]
      BY <1>0, <2>1 DEF AcceptPart
    <2> QED
      BY <1>0, <2>1, <2>2 DEF PartsBelongTogether
  <1>8. CASE FirstVerdict
    <2>1. /\ ~SplitReverse /\ rcvd \in Ids /\ pc \in {"split", "faked"}
          /\ SplitProbe \/ pc' = "spawn"
          /\ AcceptPart("first")
          /\ UNCHANGED <<rcvd, fails, wire, sender>>
      BY <1>0, <1>8 DEF FirstVerdict, InOrder, AtSplit, LetThrough, AcceptPart
    <2>2. /\ verdict'[rcvd].part = "first"
          /\ \A o \in Ids \ {rcvd} : verdict'[o] = verdict[o]
      BY <1>0, <2>1 DEF AcceptPart
    <2> QED
      BY <1>0, <2>1, <2>2 DEF PartsBelongTogether
  <1>9. CASE SpawnSender
    BY <1>0, <1>9 DEF SpawnSender, PartsBelongTogether
  <1>10. ASSUME NEW id \in Ids, SendSecond(id) PROVE PartsBelongTogether'
    <2>1. verdict[id].part = "first"
      BY <1>0, <1>10 DEF SendSecond, SenderWakes, Progress
    <2>2. /\ wire' = [wire EXCEPT ![id] = @ \cup {"second"}]
          /\ sender' = [sender EXCEPT ![id] = "done"]
          /\ UNCHANGED <<rcvd, pc, verdict, fails>>
      BY <1>10 DEF SendSecond, SenderWakes
    <2>3. \A o \in Ids : /\ wire'[o] = IF o = id THEN wire[o] \cup {"second"} ELSE wire[o]
                         /\ sender'[o] = IF o = id THEN "done" ELSE sender[o]
      BY <1>0, <2>2
    <2> QED
      BY <1>0, <2>1, <2>2, <2>3 DEF PartsBelongTogether
  <1>11. ASSUME NEW id \in Ids, SendSecondFails(id) PROVE PartsBelongTogether'
    <2>1. verdict[id].part = "first" /\ ~SplitReverse
      BY <1>0, <1>11 DEF SendSecondFails, SenderWakes, Progress
    <2>2. /\ sender' = [sender EXCEPT ![id] = "done"] /\ fails' > 0
          /\ UNCHANGED <<rcvd, pc, verdict, wire>>
      BY <1>0, <1>11 DEF SendSecondFails, SenderWakes, Fail
    <2>3. \A o \in Ids : sender'[o] = IF o = id THEN "done" ELSE sender[o]
      BY <1>0, <2>2
    <2> QED
      BY <1>0, <2>1, <2>2, <2>3 DEF PartsBelongTogether
  <1>12. CASE SeenVisit \/ SeenDelete \/ WindowCleanup \/ Tick
    BY <1>0, <1>12 DEF SeenVisit, SeenDelete, WindowCleanup, Tick, Background,
                       PartsBelongTogether
  <1>13. CASE UNCHANGED vars
    BY <1>0, <1>13 DEF vars, PartsBelongTogether
  <1> QED
    BY NextCases, <1>1, <1>2, <1>3, <1>4, <1>5, <1>6, <1>7, <1>8, <1>9, <1>10, <1>11,
       <1>12, <1>13

\* A segment that is known stays known for its reason.
LEMMA KeysStep == IndInv /\ [Next]_vars => KeysHaveReason'
  <1> SUFFICES ASSUME IndInv, [Next]_vars, NEW k \in Keys, NEW t, t = splitSeen'[k], t # 0
               PROVE  \E id \in 1..rcvd' : Reason(id, k, t)'
    BY DEF KeysHaveReason, Reason
  <1>0. /\ TypeOK /\ Progress /\ StampsPast /\ CutState
        /\ clock \in Nat \ {0} /\ rcvd \in Nat /\ splitSeen \in [Keys -> Nat]
        /\ wire \in [Ids -> SUBSET {"fake", "second"}] /\ verdict \in [Ids -> Verdict]
        /\ sender \in [Ids -> {"none", "asleep", "done"}]
        /\ cutAt \in [Ids -> Nat] /\ passAt \in [Ids -> Nat] /\ now \in Nat
        /\ (pc # "idle" => rcvd \in Ids /\ rcvd \in 1..rcvd /\ Key(rcvd) \in Keys)
        /\ \A id \in 1..rcvd : id \in Ids
    BY InHandFacts, KeyTypes DEF IndInv, TypeOK
  <1>00. t = splitSeen[k] => \E id \in 1..rcvd : Reason(id, k, t)
    BY DEF IndInv, KeysHaveReason
  <1>1. CASE Arrives
    <2>1. /\ pc = "idle" /\ 1..rcvd \subseteq 1..rcvd'
          /\ \A id \in 1..rcvd : Key(id)' = Key(id)
          /\ UNCHANGED <<maps, wire, senders, history>>
      BY <1>0, <1>1, ArriveFacts, ArrivalKeeps
    <2>2. PICK id \in 1..rcvd : Reason(id, k, t)
      BY <1>00, <2>1 DEF maps
    <2>3. verdict'[id] = verdict[id] /\ id \in 1..rcvd'
      <3>1. id \in Ids \ {rcvd'}
        BY <1>0, <1>1, ArriveFacts
      <3> QED
        BY <1>0, <1>1, <2>1, <3>1, ArriveFacts
    <2>4. Key(id)' = Key(id) /\ SecondKey(id)' = SecondKey(id)
      BY <2>1 DEF SecondKey
    <2>5. Reason(id, k, t)'
      BY <2>1, <2>2, <2>3, <2>4 DEF Reason, Cutting, senders, history
    <2> QED
      BY <2>3, <2>5
  <1>2. CASE GiveUps
    <2>1. /\ UNCHANGED <<traffic, senders, wire, passAt>> /\ splitSeen[k] = t
          /\ k # Key(rcvd) /\ (pc = "raw" => k # SecondKey(rcvd))
          /\ cutAt' = [cutAt EXCEPT ![rcvd] = 0]
          /\ \A o \in Ids \ {rcvd} : verdict'[o] = verdict[o]
      BY <1>2, GiveUpFacts
    <2>2. PICK id \in 1..rcvd : Reason(id, k, t)
      BY <1>00, <2>1
    <2>3. id \in Ids /\ Key(id)' = Key(id) /\ SecondKey(id)' = SecondKey(id)
      BY <1>0, <2>1 DEF SecondKey, Key, traffic
    <2>4. id # rcvd => verdict'[id] = verdict[id] /\ cutAt'[id] = cutAt[id]
      BY <1>0, <2>1, <2>3
    <2>5. Reason(id, k, t)'
      BY <2>1, <2>2, <2>3, <2>4 DEF Reason, senders
    <2> QED
      BY <2>1, <2>5 DEF traffic
  <1>3. CASE ~Arrives /\ ~GiveUps
    <2>1. UNCHANGED <<rcvd, pkts>>
      BY <1>3, SameTraffic
    <2>2. \A id \in 1..rcvd : Key(id)' = Key(id) /\ SecondKey(id)' = SecondKey(id)
      BY <2>1 DEF Key, SecondKey
    <2> DEFINE Goal == \E id \in 1..rcvd : Reason(id, k, t)'
    <2> SUFFICES Goal
      BY <2>1
    <2> USE DEF Goto, answers, maps, locals, senders, history
    <2>3. CASE PassRetransmit
      <3>1. /\ cutAt[rcvd] = 0 /\ pc = "load" /\ Accept(rcvd) /\ rcvd \in Ids
            /\ UNCHANGED <<splitSeen, wire, senders, history>>
        BY <1>0, <2>3 DEF PassRetransmit, CutState
      <3>2. PICK id \in 1..rcvd : Reason(id, k, t)
        BY <1>00, <3>1
      <3>3. id # rcvd => verdict'[id] = verdict[id]
        BY <1>0, <3>1, AcceptFacts
      <3> QED
        BY <1>0, <2>2, <3>1, <3>2, <3>3 DEF Reason, Cutting
    <2>4. CASE NewSegment \/ DecideSplit
      <3>1. /\ pc \in {"load", "window"}
            /\ UNCHANGED <<splitSeen, wire, senders, history, verdict>>
        BY <2>4 DEF NewSegment, DecideSplit
      <3> QED
        BY <1>00, <2>1, <2>2, <3>1 DEF Reason, Cutting
    <2>5. CASE DecidePass
      <3>1. /\ pc = "window" /\ splitSeen[Key(rcvd)] = 0 /\ rcvd \in Ids
            /\ passAt' = [passAt EXCEPT ![rcvd] = now]
            /\ UNCHANGED <<splitSeen, wire, senders, cutAt, verdict>>
        BY <1>0, <2>5 DEF DecidePass, CutState
      <3>2. PICK id \in 1..rcvd : Reason(id, k, t)
        BY <1>00, <3>1
      <3>3. Key(id) = k => id # rcvd
        BY <3>1
      <3>4. id # rcvd => passAt'[id] = passAt[id]
        BY <1>0, <3>1
      <3> QED
        BY <2>2, <3>1, <3>2, <3>3, <3>4 DEF Reason, Cutting
    <2>6. CASE RememberPassed
      <3>1. /\ cutAt[rcvd] = 0 /\ pc = "passed" /\ Accept(rcvd) /\ Store(Key(rcvd))
            /\ passAt[rcvd] # 0 /\ passAt[rcvd] <= clock
            /\ rcvd \in Ids /\ rcvd \in 1..rcvd /\ Key(rcvd) \in Keys
            /\ UNCHANGED <<wire, senders, history>>
        BY <1>0, <2>6 DEF RememberPassed, CutState, StampsPast
      <3>2. CASE k = Key(rcvd)
        <4>1. t = clock
          BY <1>0, <3>1, <3>2 DEF Store
        <4>2. PICK id \in 1..rcvd : id = rcvd
          BY <3>1
        <4>3. Reason(id, k, t)'
          BY <2>2, <3>1, <3>2, <4>1, <4>2 DEF Reason
        <4> QED
          BY <4>3
      <3>3. CASE k # Key(rcvd)
        <4>1. t = splitSeen[k]
          BY <1>0, <3>1, <3>3 DEF Store
        <4>2. PICK id \in 1..rcvd : Reason(id, k, t)
          BY <1>00, <4>1
        <4>3. id # rcvd => verdict'[id] = verdict[id]
          BY <1>0, <3>1, AcceptFacts
        <4> QED
          BY <2>2, <3>1, <3>3, <4>2, <4>3 DEF Reason, Cutting
      <3> QED
        BY <3>2, <3>3
    <2>7. CASE Remember
      <3>1. /\ pc = "store" /\ Store(Key(rcvd)) /\ pc' \in Cutting
            /\ cutAt' = [cutAt EXCEPT ![rcvd] = clock]
            /\ rcvd \in Ids /\ rcvd \in 1..rcvd /\ Key(rcvd) \in Keys
            /\ UNCHANGED <<wire, senders, passAt, verdict>>
        BY <1>0, <2>7 DEF Remember, Cutting
      <3>2. CASE k = Key(rcvd)
        <4>1. t = clock /\ cutAt'[rcvd] = clock
          BY <1>0, <3>1, <3>2 DEF Store
        <4>2. PICK id \in 1..rcvd : id = rcvd
          BY <3>1
        <4>3. Reason(id, k, t)'
          BY <2>1, <2>2, <3>1, <3>2, <4>1, <4>2 DEF Reason
        <4> QED
          BY <4>3
      <3>3. CASE k # Key(rcvd)
        <4>1. t = splitSeen[k]
          BY <1>0, <3>1, <3>3 DEF Store
        <4>2. PICK id \in 1..rcvd : Reason(id, k, t)
          BY <1>00, <4>1
        <4>3. id # rcvd => cutAt'[id] = cutAt[id]
          BY <1>0, <3>1
        <4> QED
          BY <2>2, <3>1, <3>3, <4>2, <4>3 DEF Reason, Cutting
      <3> QED
        BY <3>2, <3>3
    <2>8. CASE FakeSent \/ ReverseSend
      <3>1. /\ pc \in {"fake", "raw"} /\ pc' \in Cutting /\ rcvd \in Ids
            /\ \A id \in Ids : wire[id] \subseteq wire'[id]
            /\ pc = "raw" => "second" \in wire'[rcvd]
            /\ UNCHANGED <<splitSeen, senders, history, verdict>>
        BY <1>0, <2>8 DEF FakeSent, ReverseSend, SendAndSleep, Cutting
      <3>2. PICK id \in 1..rcvd : Reason(id, k, t)
        BY <1>00, <3>1
      <3> QED
        BY <1>0, <2>1, <2>2, <3>1, <3>2 DEF Reason
    <2>9. CASE OriginalAfterFake \/ ReverseVerdict \/ FirstVerdict
      <3>1. /\ pc \in {"faked", "reversed", "split"} /\ rcvd \in Ids
            /\ \E part \in {"whole", "first"} : AcceptPart(part)
            /\ UNCHANGED <<splitSeen, wire, senders, history>>
        BY <1>0, <2>9
           DEF OriginalAfterFake, ReverseVerdict, FirstVerdict, AtOriginal, AtReversed,
               InOrder, AtSplit, LetThrough
      <3>2. SplitMark(rcvd) # NoMark
        <4>1. pkts[rcvd] \in Packets
          BY <1>0, <3>1, KeyTypes
        <4>2. SplitMark(rcvd) \in SUBSET MarkBits
          BY <4>1 DEF SplitMark, Packets, Marks
        <4> QED
          BY <4>2
      <3>3. /\ verdict'[rcvd].mark # NoMark
            /\ \A o \in Ids \ {rcvd} : verdict'[o] = verdict[o]
        BY <1>0, <3>1, <3>2 DEF AcceptPart
      <3>4. PICK id \in 1..rcvd : Reason(id, k, t)
        BY <1>00, <3>1
      <3> QED
        BY <1>0, <2>2, <3>1, <3>3, <3>4 DEF Reason
    <2>10. CASE ReverseStore \/ SpawnSender
      <3>1. /\ Store(SecondKey(rcvd)) /\ rcvd \in Ids /\ rcvd \in 1..rcvd
            /\ pc' = "raw" \/ (pc = "spawn" /\ sender'[rcvd] = "asleep")
            /\ pc # "raw"
            /\ \A id \in Ids \ {rcvd} : sender'[id] = sender[id]
            /\ sender[rcvd] = "asleep" => sender'[rcvd] = "asleep"
            /\ UNCHANGED <<wire, history, verdict>>
        BY <1>0, <2>10 DEF ReverseStore, SpawnSender, AtSplit
      <3>2. CASE k = SecondKey(rcvd)
        <4>1. PICK id \in 1..rcvd : id = rcvd
          BY <3>1
        <4>2. Reason(id, k, t)'
          BY <2>1, <2>2, <3>1, <3>2, <4>1 DEF Reason
        <4> QED
          BY <4>2
      <3>3. CASE k # SecondKey(rcvd)
        <4>1. t = splitSeen[k]
          BY <1>0, <3>1, <3>3 DEF Store
        <4>2. PICK id \in 1..rcvd : Reason(id, k, t)
          BY <1>00, <4>1
        <4> QED
          BY <1>0, <2>1, <2>2, <3>1, <3>3, <4>2 DEF Reason, Cutting
      <3> QED
        BY <3>2, <3>3
    <2>11. ASSUME NEW o \in Ids, SendSecond(o) \/ SendSecondFails(o) PROVE Goal
      <3>1. /\ sender' = [sender EXCEPT ![o] = "done"]
            /\ \/ splitSeen' = splitSeen /\ wire' = [wire EXCEPT ![o] = @ \cup {"second"}]
               \/ Delete({SecondKey(o)}) /\ wire' = wire
            /\ UNCHANGED <<verdict, history, pc>>
        BY <2>11 DEF SendSecond, SendSecondFails, SenderWakes
      <3>2. /\ t = splitSeen[k]
            /\ \A id \in Ids : wire[id] \subseteq wire'[id]
            /\ "second" \in wire'[o] \/ k # SecondKey(o)
            /\ \A id \in Ids \ {o} : sender'[id] = sender[id]
        BY <1>0, <3>1 DEF Delete
      <3>3. PICK id \in 1..rcvd : Reason(id, k, t)
        BY <1>00, <3>2
      <3> QED
        BY <1>0, <2>1, <2>2, <3>1, <3>2, <3>3 DEF Reason
    <2>12. CASE SeenVisit \/ SeenDelete \/ WindowCleanup \/ Tick
      <3>1. /\ t = splitSeen[k]
            /\ UNCHANGED <<verdict, wire, senders, history, pc>>
        BY <1>0, <2>12 DEF SeenVisit, SeenDelete, WindowCleanup, Tick, Background, Delete
      <3> QED
        BY <1>00, <2>1, <2>2, <3>1 DEF Reason
    <2>13. CASE UNCHANGED vars
      BY <1>00, <2>2, <2>13 DEF vars, traffic, Reason
    <2> QED
      BY NextCases, <1>3, <2>3, <2>4, <2>5, <2>6, <2>7, <2>8, <2>9, <2>10, <2>11, <2>12,
         <2>13
  <1> QED
    BY <1>1, <1>2, <1>3
-----------------------------------------------------------------------------
(***************************************************************************)
(* The segments that passed because of the window.                         *)
(***************************************************************************)
\* A step that stores a key: that of the packet in hand, if that has just passed.
LEMMA StoreKeepsPassed ==
    ASSUME TypeOK, StampsPast, PassedRemembered, NEW k, Store(k),
           pc # "passed" \/ k = Key(rcvd),
           UNCHANGED <<opts, clock, rcvd, pkts, hand, passAt, fails>>
    PROVE  PassedRemembered'
  <1>1. \A id \in 1..rcvd : id \in Ids /\ Key(id) \in Keys
    BY KeyTypes
  <1>2. /\ clock \in Nat \ {0} /\ splitSeen \in [Keys -> Nat] /\ passAt \in [Ids -> Nat]
        /\ hand \in Keys \cup {NoKey} /\ now \in Nat
    BY DEF TypeOK
  <1>3. \A o \in Keys : splitSeen'[o] = IF o = k THEN clock ELSE splitSeen[o]
    BY <1>2 DEF Store
  <1>4. \A id \in 1..rcvd : passAt[id] <= clock
    BY <1>1, <1>2 DEF StampsPast
  <1>5. \A id \in 1..rcvd : Key(id)' = Key(id) /\ (PassedOld(id)' <=> PassedOld(id))
    BY DEF Key, PassedOld
  <1> QED
    BY <1>1, <1>2, <1>3, <1>4, <1>5 DEF PassedRemembered

\* A step that has nothing to do with passes; time may go on.
LEMMA OthersKeepPassed ==
    ASSUME TypeOK, PassedRemembered, clock' \in Nat, clock' >= clock,
           pc' = pc \/ (pc # "passed" /\ pc' # "passed"),
           UNCHANGED <<opts, rcvd, pkts, hand, passAt, fails, splitSeen>>
    PROVE  PassedRemembered'
  <1>1. \A id \in 1..rcvd : id \in Ids /\ Key(id) \in Keys
    BY KeyTypes
  <1>2. clock \in Nat /\ passAt \in [Ids -> Nat]
    BY DEF TypeOK
  <1>3. \A id \in 1..rcvd : Key(id)' = Key(id) /\ (PassedOld(id) => PassedOld(id)')
    BY <1>1, <1>2 DEF Key, PassedOld
  <1> QED
    BY <1>1, <1>3 DEF PassedRemembered

\* splitSeen knows what has passed.
LEMMA PassedRememberedStep == IndInv /\ [Next]_vars => PassedRemembered'
  <1> SUFFICES ASSUME IndInv, [Next]_vars, opts' = opts PROVE PassedRemembered'
    BY OptionsStay
  <1>0. /\ TypeOK /\ Progress /\ StampsPast /\ CutState /\ CutsRemembered
        /\ PassedRemembered
        /\ clock \in Nat \ {0} /\ splitSeen \in [Keys -> Nat] /\ passAt \in [Ids -> Nat]
        /\ hand \in Keys \cup {NoKey} /\ fails \in Nat
        /\ (pc # "idle" => rcvd \in Ids /\ rcvd \in 1..rcvd /\ Key(rcvd) \in Keys)
    BY InHandFacts DEF IndInv, TypeOK
  <1>00. \A id \in 1..rcvd : id \in Ids /\ Key(id) \in Keys
    BY <1>0, KeyTypes
  <1>1. CASE Arrives
    <2>1. /\ \A id \in 1..rcvd' : id = rcvd' \/ id \in 1..rcvd
          /\ passAt[rcvd'] = 0 /\ pc' # "passed"
          /\ \A id \in 1..rcvd : Key(id)' = Key(id)
          /\ UNCHANGED <<clock, fails, splitSeen, hand, passAt>>
      BY <1>0, <1>1, ArrivalKeeps DEF maps, history
    <2>2. pc = "idle"
      BY <1>0, <1>1, ArriveFacts
    <2> QED
      BY <1>0, <2>1, <2>2 DEF PassedRemembered, PassedOld
  <1>2. CASE GiveUps
    <2>1. /\ UNCHANGED <<clock, traffic, hand, passAt>> /\ fails' >= fails
          /\ fails' \in Nat /\ pc # "passed" /\ pc' # "passed"
      BY <1>2, GiveUpFacts DEF Cutting
    <2>2. fails' = 0 =>
            /\ fails = 0
            /\ \A k \in Keys : Cuttable(opts, k) => splitSeen'[k] = splitSeen[k]
      BY <1>0, <1>2, <2>1, GiveUpFacts
    <2>3. \A id \in 1..rcvd : Key(id)' = Key(id)
      BY <2>1 DEF Key, traffic
    <2> QED
      BY <1>0, <1>00, <2>1, <2>2, <2>3 DEF PassedRemembered, PassedOld, traffic
  <1> USE DEF Goto, traffic, answers, maps, locals, senders, history
  <1>3. CASE PassRetransmit \/ NewSegment \/ DecideSplit
    BY <1>0, <1>3, OthersKeepPassed DEF PassRetransmit, NewSegment, DecideSplit
  <1>4. CASE DecidePass
    <2>1. /\ pc = "window" /\ pc' = "passed" /\ splitSeen[Key(rcvd)] = 0
          /\ passAt' = [passAt EXCEPT ![rcvd] = now]
          /\ UNCHANGED <<clock, rcvd, pkts, hand, fails, splitSeen>>
      BY <1>0, <1>4 DEF DecidePass, CutState
    <2>2. \A id \in 1..rcvd : id # rcvd => passAt'[id] = passAt[id]
      BY <1>0, <1>00, <2>1
    <2>3. fails = 0 /\ hand # NoKey /\ Cuttable(opts, hand) => Key(rcvd) # hand
      BY <1>0, <2>1 DEF CutsRemembered
    <2>4. \A id \in 1..rcvd : Key(id)' = Key(id)
      BY <2>1 DEF Key
    <2> QED
      BY <1>0, <2>1, <2>2, <2>3, <2>4 DEF PassedRemembered, PassedOld
  <1>5. CASE RememberPassed \/ Remember \/ ReverseStore \/ SpawnSender
    BY <1>0, <1>5, StoreKeepsPassed
       DEF RememberPassed, Remember, ReverseStore, AtSplit, SpawnSender
  <1>6. CASE FakeSent \/ ReverseSend \/ OriginalAfterFake \/ ReverseVerdict \/ FirstVerdict
    BY <1>0, <1>6, OthersKeepPassed
       DEF FakeSent, ReverseSend, SendAndSleep, OriginalAfterFake, AtOriginal,
           ReverseVerdict, AtReversed, FirstVerdict, InOrder, AtSplit, LetThrough,
           AcceptPart
  <1>7. ASSUME NEW id \in Ids, SendSecond(id) PROVE PassedRemembered'
    BY <1>0, <1>7, OthersKeepPassed DEF SendSecond, SenderWakes
  <1>8. ASSUME NEW id \in Ids, SendSecondFails(id) PROVE PassedRemembered'
    BY <1>0, <1>8 DEF SendSecondFails, Fail, PassedRemembered
  <1>9. CASE SeenVisit
    <2>1. PICK t \in 1..clock, k \in Keys : Stale(k, t) /\ hand' = k
      BY <1>9 DEF SeenVisit
    <2>2. splitSeen[k] # 0 /\ clock - splitSeen[k] > SplitSeenTTL
      BY <1>0, <2>1 DEF Stale
    <2>3. UNCHANGED <<clock, traffic, fails, passAt, splitSeen, pc>>
      BY <1>9 DEF SeenVisit, Background
    <2>4. ASSUME fails = 0, Cuttable(opts, k), NEW id \in 1..rcvd, passAt[id] # 0,
                 Key(id) = k
          PROVE  PassedOld(id)
      <3>1. id # rcvd \/ pc # "passed"
        BY <1>0, <2>2, <2>4 DEF CutState
      <3>2. passAt[id] <= splitSeen[k]
        BY <1>0, <2>2, <2>4, <3>1 DEF PassedRemembered
      <3> QED
        BY <1>0, <1>00, <2>2, <3>2 DEF PassedOld
    <2> QED
      BY <1>0, <2>1, <2>3, <2>4 DEF PassedRemembered, Key, PassedOld
  <1>10. CASE SeenDelete
    <2>1. /\ hand # NoKey /\ hand' = NoKey
          /\ splitSeen' = [k \in Keys |-> IF k \in {hand} THEN 0 ELSE splitSeen[k]]
          /\ UNCHANGED <<clock, traffic, fails, passAt, pc>>
      BY <1>10 DEF SeenDelete, Delete, Background
    <2>2. \A k \in Keys : splitSeen'[k] = IF k = hand THEN 0 ELSE splitSeen[k]
      BY <2>1
    <2>3. \A id \in 1..rcvd : Key(id)' = Key(id) /\ (PassedOld(id)' <=> PassedOld(id))
      BY <2>1 DEF Key, PassedOld
    <2> QED
      BY <1>0, <1>00, <2>1, <2>2, <2>3 DEF PassedRemembered
  <1>11. CASE WindowCleanup \/ Tick
    BY <1>0, <1>11, OthersKeepPassed DEF WindowCleanup, Tick, Background
  <1>12. CASE UNCHANGED vars
    BY <1>0, <1>12, OthersKeepPassed DEF vars
  <1> QED
    BY NextCases, <1>1, <1>2, <1>3, <1>4, <1>5, <1>6, <1>7, <1>8, <1>9, <1>10, <1>11, <1>12

\* A segment that passed is not cut in its window.
LEMMA PassedStaysStep == IndInv /\ [Next]_vars => PassedStaysWhole'
  <1> SUFFICES ASSUME IndInv, [Next]_vars, opts' = opts, SplitSeenTTL >= PassWindow
               PROVE  PassedStaysWhole'
    BY OptionsStay DEF PassedStaysWhole, PassWindow
  <1>0. /\ TypeOK /\ Progress /\ CutState /\ PassedRemembered /\ PassedStaysWhole
        /\ clock \in Nat \ {0} /\ cutAt \in [Ids -> Nat] /\ passAt \in [Ids -> Nat]
        /\ rcvd \in Nat /\ PassWindow \in Nat /\ PassWindow' = PassWindow
        /\ (pc # "idle" => rcvd \in Ids /\ rcvd \in 1..rcvd /\ Key(rcvd) \in Keys)
        /\ \A id \in 1..rcvd : id \in Ids
    BY InHandFacts, KeyTypes, OptionTypes DEF IndInv, TypeOK, PassWindow
  <1>1. CASE Arrives
    BY <1>0, <1>1, ArrivalKeeps DEF PassedStaysWhole, history
  <1>2. CASE GiveUps
    <2>1. /\ UNCHANGED <<rcvd, pkts, passAt>> /\ rcvd \in Ids
          /\ cutAt' = [cutAt EXCEPT ![rcvd] = 0] /\ fails' \in Nat /\ fails' >= fails
      BY <1>2, GiveUpFacts DEF traffic
    <2>2. \A id \in 1..rcvd : cutAt'[id] # 0 => cutAt'[id] = cutAt[id]
      BY <1>0, <2>1
    <2>3. fails' = 0 => fails = 0
      BY <2>1 DEF IndInv, TypeOK
    <2> QED
      BY <1>0, <2>1, <2>2, <2>3 DEF PassedStaysWhole, Key
  <1>3. CASE Remember
    <2>1. /\ splitSeen[Key(rcvd)] = 0 /\ rcvd \in Ids /\ rcvd \in 1..rcvd
          /\ pc = "store"
          /\ cutAt' = [cutAt EXCEPT ![rcvd] = clock]
          /\ UNCHANGED <<rcvd, pkts, fails, passAt>>
      BY <1>0, <1>3 DEF Remember, CutState, Goto, traffic, answers
    <2>2. \A id \in 1..rcvd : cutAt'[id] = IF id = rcvd THEN clock ELSE cutAt[id]
      BY <1>0, <2>1
    <2>3. ASSUME NEW i \in 1..rcvd, fails = 0, Key(i) = Key(rcvd),
                 Cuttable(opts, Key(rcvd)), passAt[i] # 0
          PROVE  clock - passAt[i] >= PassWindow
      <3>1. PassedOld(i)
        BY <1>0, <2>1, <2>3 DEF PassedRemembered
      <3> QED
        BY <1>0, <3>1 DEF PassedOld
    <2>4. \A i, j \in 1..rcvd : i < j => i # rcvd
      BY <1>0
    <2> QED
      BY <1>0, <2>1, <2>2, <2>3, <2>4 DEF PassedStaysWhole, Key
  <1>4. CASE DecidePass
    <2>1. /\ rcvd \in Ids /\ passAt' = [passAt EXCEPT ![rcvd] = now]
          /\ UNCHANGED <<rcvd, pkts, fails, cutAt>>
      BY <1>0, <1>4 DEF DecidePass, Goto, traffic, answers
    <2>2. \A i, j \in 1..rcvd : i < j => i # rcvd
      BY <1>0
    <2>3. \A id \in 1..rcvd : id # rcvd => passAt'[id] = passAt[id]
      BY <1>0, <2>1
    <2> QED
      BY <1>0, <2>1, <2>2, <2>3 DEF PassedStaysWhole, Key
  <1>5. CASE WindowCleanup
    BY <1>0, <1>5 DEF WindowCleanup, Background, PassedStaysWhole, Key, traffic, answers,
                      history
  <1>6. CASE ~Arrives /\ ~Remember /\ ~GiveUps /\ ~DecidePass /\ ~WindowCleanup
    BY <1>0, <1>6, CutAtStep, SameTraffic, WindowsStep DEF PassedStaysWhole, Key
  <1> QED
    BY <1>1, <1>2, <1>3, <1>4, <1>5, <1>6
-----------------------------------------------------------------------------
\* The initial states.
LEMMA InvInit == Init => IndInv
  <1> SUFFICES ASSUME Init PROVE IndInv
    OBVIOUS
  <1>1. 1..rcvd = {} /\ rcvd = 0
    BY DEF Init
  <1>2. TypeOK
    <2>1. Unanswered \in Verdict
      BY DEF Unanswered, Verdict, Marks
    <2>2. NoPacket \notin Inputs
      OBVIOUS
    <2> QED
      BY <2>1, <2>2 DEF Init, TypeOK, PcStates, Ids
  <1>3. Progress /\ StampsPast /\ CutState
    BY <1>1 DEF Init, Progress, StampsPast, CutState, Cutting, Ids
  <1>4. /\ CutsRemembered /\ NoSecondCut /\ PassesRemembered
        /\ PassedRemembered /\ PassedStaysWhole
    BY <1>1 DEF Init, CutsRemembered, NoSecondCut, PassesRemembered, PassedRemembered,
                PassedStaysWhole
  <1>5. PartsBelongTogether /\ KeysHaveReason
    BY <1>1 DEF Init, PartsBelongTogether, KeysHaveReason
  <1> QED
    BY <1>2, <1>3, <1>4, <1>5 DEF IndInv

\* The inductive invariant holds in every reachable state of the split action,
\* for every configuration and every bound.
THEOREM Invariance == Spec => []IndInv
  <1>1. IndInv /\ [Next]_vars => IndInv'
    BY TypeStep, ProgressStep, StampsStep, CutStateStep, CutsRememberedStep,
       NoSecondCutStep, PassedRememberedStep, PassedStaysStep, PassesStep,
       PartsStep, KeysStep DEF IndInv
  <1> QED
    BY <1>1, InvInit, PTL DEF Spec

\* splitSeen keeps its promise: without failures no segment is cut twice within
\* the ttl.
THEOREM NoSegmentCutTwice == Spec => []NoSecondCut
  <1>1. IndInv => NoSecondCut
    BY DEF IndInv
  <1> QED
    BY <1>1, Invariance, PTL

\* Without failures, and when --split-seen-ttl is not below --pass-window, a
\* segment that passed because of the window is not cut before the window is over.
THEOREM PassedSegmentsStayWhole == Spec => []PassedStaysWhole
  <1>1. IndInv => PassedStaysWhole
    BY DEF IndInv
  <1> QED
    BY <1>1, Invariance, PTL

\* Failed sends of a goroutine aside, no first part is let through without its second
\* part; in order, no second part leaves without its first; in reverse order the
\* first, or after a failed verdict the whole packet or a lost verdict, follows it.
THEOREM PartsStayTogether == Spec => []PartsBelongTogether
  <1>1. IndInv => PartsBelongTogether
    BY DEF IndInv
  <1> QED
    BY <1>1, Invariance, PTL

\* splitSeen holds only segments that were cut or let pass on purpose, and second
\* parts that were sent or are about to be: the ways out undo what they must.
THEOREM StoredKeysHaveReason == Spec => []KeysHaveReason
  <1>1. IndInv => KeysHaveReason
    BY DEF IndInv
  <1> QED
    BY <1>1, Invariance, PTL

\* A step that passes a packet does so a window after the last pass.
LEMMA SpacedStep ==
    ASSUME IndInv, [Next]_vars, NEW j \in Ids, passAt'[j] # passAt[j],
           NEW i \in 1..rcvd, i # j, passAt[i] # 0, Client(i) = Client(j)
    PROVE  clock - passAt[i] >= PassWindow
  <1>0. /\ TypeOK /\ Progress /\ StampsPast /\ PassesRemembered
        /\ clock \in Nat /\ now \in Nat /\ passAt \in [Ids -> Nat] /\ i \in Ids
        /\ lastPass \in [Clients -> Nat] /\ Client(i) \in Clients
    BY KeyTypes DEF IndInv, TypeOK
  <1>1. DecidePass
    <2>1. CASE WindowCleanup
      BY <2>1 DEF WindowCleanup, Background, history
    <2> QED
      BY <2>1, WindowsStep
  <1>2. j = rcvd
    BY <1>0, <1>1 DEF DecidePass
  <1>3. now <= clock /\ passAt[i] <= now
    BY <1>0 DEF StampsPast
  <1>4. \/ lastPass[Client(i)] = 0 /\ clock - passAt[i] >= PassWindow
        \/ now - lastPass[Client(i)] >= PassWindow /\ passAt[i] <= lastPass[Client(i)]
    BY <1>0, <1>1, <1>2 DEF DecidePass, WindowOver, PassesRemembered
  <1> QED
    BY <1>0, <1>3, <1>4, OptionTypes

\* Two packets of a client that pass are a window apart.
THEOREM PassesAreSpaced == Spec => PassesSpaced
  <1>1. IndInv /\ [Next]_vars =>
            [\A j \in Ids : passAt'[j] # passAt[j] =>
                \A i \in 1..rcvd : i # j /\ passAt[i] # 0 /\ Client(i) = Client(j) =>
                    clock - passAt[i] >= PassWindow]_vars
    BY SpacedStep
  <1> QED
    BY <1>1, Invariance, PTL DEF Spec, PassesSpaced
-----------------------------------------------------------------------------
\* Every step is one of the gate, or one the kernel does not see.
LEMMA GateStep ==
    ASSUME IndInv, [Next]_vars
    PROVE  [Gate!GateNext]_(Gate!gateVars)
  <1> DEFINE GateAnswers == {v \in Verdict : v.part # "none"}
  <1>0. TypeOK /\ Progress
    BY DEF IndInv
  <1>00. {Whole, Lost} \subseteq GateAnswers
    BY DEF Whole, Lost, Verdict, Marks
  <1>a. pc \in {"idle", "spawn"} => Gate!InHand = {}
    BY <1>0 DEF Progress, Gate!InHand
  <1>b. pc \notin {"idle", "spawn"} => rcvd \in Gate!InHand /\ rcvd \in Ids
    BY <1>0, InHandFacts DEF Progress, Gate!InHand
  <1>1. CASE Arrives
    <2>1. PICK p \in Inputs : AcceptUntouched(p) \/ Receive(p)
      BY <1>1 DEF Arrives
    <2>2. Gate!Take
      BY <1>a, <2>1 DEF AcceptUntouched, Receive, Deliver, Gate!Take
    <2>3. CASE AcceptUntouched(p)
      BY <2>2, <2>3 DEF AcceptUntouched, Accept, Gate!Answer, Gate!TakeAndAccept,
                        Gate!GateNext
    <2>4. CASE Receive(p)
      BY <2>2, <2>4 DEF Receive, Gate!TakeAndHandle, Gate!GateNext
    <2> QED
      BY <2>1, <2>3, <2>4
  <1>2. ASSUME pc \notin {"idle", "spawn"}, rcvd' = rcvd,
               \E v \in GateAnswers : verdict' = [verdict EXCEPT ![rcvd] = v]
        PROVE  Gate!GateNext
    BY <1>2, <1>b DEF Gate!Answer, Gate!Decide, Gate!GateNext
  <1> USE DEF Goto, traffic, answers, maps, locals, senders, history
  <1>3. CASE GiveUps
    <2>1. pc \in Cutting /\ rcvd' = rcvd
      BY <1>3, GiveUpFacts
    <2>2. Accept(rcvd)
      BY <1>3 DEF GiveUps, FakeFails, OriginalFails, SplitFails, ReverseSendFails,
                  ReverseVerdictFails, VerdictFails, GiveUp
    <2> QED
      BY <1>00, <1>2, <2>1, <2>2 DEF Accept, Cutting
  <1>4. CASE PassRetransmit \/ RememberPassed
    <2>1. pc \in {"load", "passed"} /\ rcvd' = rcvd /\ Accept(rcvd)
      BY <1>4 DEF PassRetransmit, RememberPassed
    <2> QED
      BY <1>00, <1>2, <2>1 DEF Accept
  <1>5. CASE OriginalAfterFake \/ ReverseVerdict \/ FirstVerdict
    <2>1. /\ pc \in {"faked", "reversed", "split"} /\ rcvd' = rcvd
          /\ \E part \in {"whole", "first"} : AcceptPart(part)
      BY <1>5 DEF OriginalAfterFake, ReverseVerdict, FirstVerdict, AtOriginal, AtReversed,
                  InOrder, AtSplit, LetThrough
    <2>2. SplitMark(rcvd) \in Marks
      <3>1. pkts[rcvd] \in Packets
        BY <1>0, <2>1, InHandFacts, KeyTypes
      <3> QED
        BY <3>1 DEF SplitMark, Packets, Marks
    <2>3. \A part \in {"whole", "first"} :
            [part |-> part, mark |-> SplitMark(rcvd)] \in GateAnswers
      BY <2>2 DEF Verdict
    <2> QED
      BY <1>2, <2>1, <2>3 DEF AcceptPart
  <1>6. CASE \/ NewSegment \/ DecidePass \/ DecideSplit \/ Remember \/ FakeSent
             \/ ReverseStore \/ ReverseSend \/ SpawnSender
    BY <1>6 DEF NewSegment, DecidePass, DecideSplit, Remember, FakeSent, ReverseStore,
                ReverseSend, SendAndSleep, SpawnSender, Gate!gateVars
  <1>7. ASSUME NEW id \in Ids, SendSecond(id) \/ SendSecondFails(id)
        PROVE  UNCHANGED Gate!gateVars
    BY <1>7 DEF SendSecond, SendSecondFails, SenderWakes, Gate!gateVars
  <1>8. CASE SeenVisit \/ SeenDelete \/ WindowCleanup \/ Tick
    BY <1>8 DEF SeenVisit, SeenDelete, WindowCleanup, Tick, Background, Gate!gateVars
  <1>9. CASE UNCHANGED vars
    BY <1>9 DEF vars, Gate!gateVars
  <1> QED
    BY NextCases, <1>1, <1>3, <1>4, <1>5, <1>6, <1>7, <1>8, <1>9

\* The split action implements the verdict gate: one final verdict for each
\* packet, before the next one is taken.
THEOREM SplitRefinesGate == Spec => ImplementsGate
  <1>1. Init => Gate!GateInit
    BY DEF Init, Gate!GateInit, Ids
  <1>2. IndInv /\ [Next]_vars => [Gate!GateNext]_(Gate!gateVars)
    BY GateStep
  <1> QED
    BY <1>1, <1>2, Invariance, PTL DEF Spec, ImplementsGate, Gate!GateSpec
=============================================================================
