---------------------------- MODULE IngressProofs ----------------------------
(***************************************************************************)
(* Lemmas about Ingress that the proofs of both policies rest on: what a   *)
(* delivery, a counter, an event and a verdict do to the shared state.     *)
(***************************************************************************)
EXTENDS Ingress, TLAPS

USE IngressAssumption

\* The shared state has its type at the start.
LEMMA IngressTypeInit == IngressInit => IngressTypeOK
  <1> SUFFICES ASSUME IngressInit PROVE IngressTypeOK
    OBVIOUS
  <1>1. NoPacket \notin Inputs
    OBVIOUS
  <1>2. Unanswered \in Verdict
    BY DEF Unanswered, Verdict, Marks
  <1> QED
    BY <1>1, <1>2 DEF IngressInit, IngressTypeOK, Ids, EventTypes, CounterNames

\* A verdict, delivered or lost, keeps the types of what it changes.
LEMMA SetVerdictType ==
    ASSUME IngressTypeOK, NEW id \in Ids, NEW v \in Verdict, SetVerdict(id, v)
    PROVE  verdict' \in [Ids -> Verdict] /\ lost' \in 0..MaxLost
  <1>1. Lost \in Verdict
    BY DEF Lost, Verdict, Marks
  <1> QED
    BY <1>1 DEF SetVerdict, IngressTypeOK

\* So does dropOrReject, whose mark is made of the packet's and the option's.
LEMMA DropOrRejectType ==
    ASSUME IngressTypeOK, NEW id \in Ids, id <= rcvd, DropOrReject(id)
    PROVE  verdict' \in [Ids -> Verdict] /\ lost' \in 0..MaxLost
  <1>1. pkts[id] \in PacketInfo
    BY DEF IngressTypeOK
  <1>2. pkts[id].mark \in Marks
    BY <1>1 DEF PacketInfo
  <1>3. RejectMark(pkts[id]) \in Marks
    BY <1>2 DEF RejectMark, Marks
  <1>4. [action |-> "accept", mark |-> RejectMark(pkts[id])] \in Verdict
    BY <1>3 DEF Verdict
  <1>5. NfDrop \in Verdict
    BY DEF NfDrop, Verdict, Marks
  <1> QED
    BY <1>4, <1>5, SetVerdictType DEF DropOrReject

\* A delivery adds packet rcvd + 1 and leaves the earlier ones alone.
LEMMA DeliverType ==
    ASSUME IngressTypeOK, NEW p \in Inputs, Deliver(p)
    PROVE  /\ rcvd' = rcvd + 1 /\ rcvd + 1 \in Ids /\ rcvd' \in 0..MaxPackets
           /\ pkts' \in [Ids -> Inputs \cup {NoPacket}]
           /\ \A id \in Ids : pkts'[id] \in Inputs <=> id <= rcvd'
           /\ \A id \in 1..rcvd : pkts'[id] = pkts[id]
           /\ pkts'[rcvd + 1] = p
  BY DEF Deliver, IngressTypeOK, Ids

\* A counter stays a number.
LEMMA IncType ==
    ASSUME IngressTypeOK, NEW c \in CounterNames, Inc(c)
    PROVE  counters' \in [CounterNames -> Nat]
  <1>1. counters \in [CounterNames -> Nat] /\ counters[c] + 1 \in Nat
    BY DEF IngressTypeOK
  <1> QED
    BY <1>1 DEF Inc

\* RememberEvent leaves an event of one of the known types.
LEMMA RememberType ==
    ASSUME NEW t \in EventTypes, NEW id \in Ids, RememberEvent(t, id)
    PROVE  lastEvent' \in [Type : EventTypes, PacketID : 0..MaxPackets]
  BY DEF RememberEvent, Ids

\* NF_ACCEPT is a verdict.
LEMMA NfAcceptType == NfAccept \in Verdict
  BY DEF NfAccept, Verdict, Marks

\* SetVerdict gives the packet an answer, if only a lost one, and touches no
\* other packet.
LEMMA SetVerdictAnswers ==
    ASSUME IngressTypeOK, NEW id \in Ids, NEW v, v # Unanswered, SetVerdict(id, v)
    PROVE  /\ verdict'[id] # Unanswered
           /\ \A other \in Ids \ {id} : verdict'[other] = verdict[other]
  BY DEF SetVerdict, IngressTypeOK, Lost, Unanswered

\* The same of dropOrReject, whichever verdict it gives.
LEMMA DropOrRejectAnswers ==
    ASSUME IngressTypeOK, NEW id \in Ids, DropOrReject(id)
    PROVE  /\ verdict'[id] # Unanswered
           /\ \A other \in Ids \ {id} : verdict'[other] = verdict[other]
  <1>1. NfDrop # Unanswered
    BY DEF NfDrop, Unanswered
  <1>2. [action |-> "accept", mark |-> RejectMark(pkts[id])] # Unanswered
    BY DEF Unanswered
  <1> QED
    BY <1>1, <1>2, SetVerdictAnswers DEF DropOrReject

\* NF_ACCEPT is an answer.
LEMMA NfAcceptAnswers == NfAccept # Unanswered
  BY DEF NfAccept, Unanswered

\* The verdicts a packet may get.
GateAnswers == {v \in Verdict : v.action # "none"}

\* dropOrReject gives a packet one of the answers the gate knows.
LEMMA DropOrRejectIsAnswer ==
    ASSUME IngressTypeOK, NEW id \in Ids, id <= rcvd, DropOrReject(id)
    PROVE  \E v \in GateAnswers : verdict' = [verdict EXCEPT ![id] = v]
  <1>1. pkts[id] \in PacketInfo
    BY DEF IngressTypeOK
  <1>2. RejectMark(pkts[id]) \in Marks
    BY <1>1 DEF RejectMark, Marks, PacketInfo
  <1>3. [action |-> "accept", mark |-> RejectMark(pkts[id])] \in GateAnswers
    BY <1>2 DEF GateAnswers, Verdict
  <1>4. NfDrop \in GateAnswers /\ Lost \in GateAnswers
    BY DEF NfDrop, Lost, GateAnswers, Verdict, Marks
  <1> QED
    BY <1>3, <1>4 DEF DropOrReject, SetVerdict

\* Accepting a packet ends in NF_ACCEPT or in a lost verdict.
LEMMA AcceptIsAnswer ==
    ASSUME NEW id, SetVerdict(id, NfAccept)
    PROVE  \E v \in {NfAccept, Lost} : verdict' = [verdict EXCEPT ![id] = v]
  BY DEF SetVerdict

\* Both of them are answers the gate knows.
LEMMA AcceptsAreAnswers == {NfAccept, Lost} \subseteq GateAnswers
  BY DEF NfAccept, Lost, GateAnswers, Verdict, Marks
=============================================================================
