--------------------------- MODULE CooldownProofs ---------------------------
(***************************************************************************)
(* Proofs about Cooldown, for every value of its constants.                *)
(***************************************************************************)
EXTENDS Cooldown, IngressProofs, FiniteSetTheorems, TLAPS

USE IngressAssumption, CooldownAssumption

\* The packet in hand has an address of IPs.
LEMMA MyIPType ==
    ASSUME TypeOK, rcvd \in Ids
    PROVE  MyIP \in IPs
  <1>1. pkts[rcvd] \in PacketInfo
    BY DEF TypeOK, IngressTypeOK
  <1> QED
    BY <1>1 DEF MyIP, InHand, PacketInfo

\* What StartCooldown leaves behind, for the address and for the others.
LEMMA StartCooldownFacts ==
    ASSUME TypeOK, NEW ip \in IPs, NEW t \in Nat, StartCooldown(ip, t)
    PROVE  /\ clients' \in [IPs -> ClientState \cup {NoClient}]
           /\ quiet' \in [IPs -> Nat] /\ streak' \in [IPs -> Nat]
           /\ clients'[ip] # NoClient
           /\ clients'[ip].LastSeen = t /\ clients'[ip].DropCount = 0
           /\ quiet'[ip] = clients'[ip].LastSeen + clients'[ip].Cooldown
           /\ streak'[ip] = 0
           /\ \A o \in IPs \ {ip} : /\ clients'[o] = clients[o]
                                    /\ quiet'[o] = quiet[o]
                                    /\ streak'[o] = streak[o]
  <1>1. PICK cd \in Cooldowns :
            /\ clients' = [clients EXCEPT ![ip] =
                              [LastSeen |-> t, Cooldown |-> cd, DropCount |-> 0]]
            /\ quiet' = [quiet EXCEPT ![ip] = t + cd]
            /\ streak' = [streak EXCEPT ![ip] = 0]
    BY DEF StartCooldown
  <1>2. [LastSeen |-> t, Cooldown |-> cd, DropCount |-> 0] \in ClientState
    BY DEF ClientState
  <1>3. t + cd \in Nat
    OBVIOUS
  <1>4. /\ clients \in [IPs -> ClientState \cup {NoClient}]
        /\ quiet \in [IPs -> Nat] /\ streak \in [IPs -> Nat]
    BY DEF TypeOK
  <1> QED
    BY <1>1, <1>2, <1>3, <1>4

\* An entry's fields.
LEMMA ClientType ==
    ASSUME TypeOK, NEW ip \in IPs, Tracked(ip)
    PROVE  /\ clients[ip] \in ClientState
           /\ clients[ip].LastSeen \in Nat /\ clients[ip].Cooldown \in Nat
           /\ clients[ip].Cooldown \in Cooldowns /\ clients[ip].DropCount \in Nat
  BY DEF TypeOK, Tracked, ClientState

\* What IncDrop does to the entries.
LEMMA IncDropFacts ==
    ASSUME TypeOK, rcvd \in Ids, IncDrop
    PROVE  /\ clients' \in [IPs -> ClientState \cup {NoClient}]
           /\ dropCount' \in Nat
           /\ \A o \in IPs \ {MyIP} : clients'[o] = clients[o]
           /\ Tracked(MyIP) =>
                 /\ clients'[MyIP] # NoClient
                 /\ clients'[MyIP].LastSeen = clients[MyIP].LastSeen
                 /\ clients'[MyIP].Cooldown = clients[MyIP].Cooldown
                 /\ clients'[MyIP].DropCount = clients[MyIP].DropCount + 1
                 /\ dropCount' = clients[MyIP].DropCount + 1
           /\ ~Tracked(MyIP) => clients' = clients
  <1>1. MyIP \in IPs
    BY MyIPType
  <1>2. clients \in [IPs -> ClientState \cup {NoClient}]
    BY DEF TypeOK
  <1>3. CASE Tracked(MyIP)
    <2>1. clients[MyIP] \in ClientState /\ clients[MyIP].DropCount \in Nat
      BY <1>1, <1>3, ClientType
    <2>2. [clients[MyIP] EXCEPT !.DropCount = @ + 1] \in ClientState
      BY <2>1 DEF ClientState
    <2>3. clients' = [clients EXCEPT ![MyIP] =
                         [clients[MyIP] EXCEPT !.DropCount = @ + 1]]
      BY <1>1, <1>2, <1>3 DEF IncDrop
    <2>4. dropCount' = clients[MyIP].DropCount + 1
      BY <1>3 DEF IncDrop
    <2>5. clients'[MyIP] = [clients[MyIP] EXCEPT !.DropCount = @ + 1]
      BY <1>1, <1>2, <2>3
    <2> QED
      BY <1>1, <1>2, <1>3, <2>1, <2>2, <2>3, <2>4, <2>5 DEF ClientState
  <1>4. CASE ~Tracked(MyIP)
    BY <1>2, <1>4 DEF IncDrop, MissingCount
  <1> QED
    BY <1>3, <1>4
-----------------------------------------------------------------------------
\* Type correctness holds at the start.
LEMMA TypeInit == Init => TypeOK
  BY IngressTypeInit DEF Init, TypeOK

\* The options do not change.
LEMMA OptionsStep == [Next]_vars => forgetOnDrop' = forgetOnDrop
  BY DEF Next, vars, HandlerStep, CleanerStep, ReceiveUnmatched, ReceiveBypassed,
         Receive, DecideFirst, DecideAccept, DecideInside, IncDrop, ForceAccept, Drop,
         Forget, StateStep, AnswerAccept, AnswerDrop, Answer, CleanupStart,
         CleanupDelete, Tick

\* Type correctness is kept by every step.
LEMMA TypeStep == IndInv /\ [Next]_vars => TypeOK'
  <1> SUFFICES ASSUME IndInv, [Next]_vars PROVE TypeOK'
    OBVIOUS
  <1>0. TypeOK /\ Progress /\ IngressTypeOK /\ (pc # "idle" => rcvd \in Ids)
    BY DEF IndInv, TypeOK, Progress
  <1>1. CASE ReceiveUnmatched
    <2>1. PICK p \in Inputs : AcceptUnmatched(p)
      BY <1>1 DEF ReceiveUnmatched
    <2>2. /\ rcvd' \in 0..MaxPackets /\ rcvd + 1 \in Ids
          /\ pkts' \in [Ids -> Inputs \cup {NoPacket}]
          /\ \A id \in Ids : pkts'[id] \in Inputs <=> id <= rcvd'
      BY <1>0, <2>1, DeliverType DEF AcceptUnmatched
    <2>3. verdict' \in [Ids -> Verdict] /\ lost' \in 0..MaxLost
      BY <1>0, <2>1, <2>2, NfAcceptType, SetVerdictType DEF AcceptUnmatched
    <2>4. IngressTypeOK'
      BY <1>0, <2>1, <2>2, <2>3 DEF AcceptUnmatched, IngressTypeOK
    <2> QED
      BY <1>0, <1>1, <2>4 DEF ReceiveUnmatched, TypeOK, handlerVars, cleanerVars,
                         historyVars
  <1>2. CASE ReceiveBypassed
    <2>1. PICK p \in Inputs : AcceptBypassed(p)
      BY <1>2 DEF ReceiveBypassed
    <2>2. /\ rcvd' \in 0..MaxPackets /\ rcvd + 1 \in Ids
          /\ pkts' \in [Ids -> Inputs \cup {NoPacket}]
          /\ \A id \in Ids : pkts'[id] \in Inputs <=> id <= rcvd'
      BY <1>0, <2>1, DeliverType DEF AcceptBypassed
    <2>3. verdict' \in [Ids -> Verdict] /\ lost' \in 0..MaxLost
      BY <1>0, <2>1, <2>2, NfAcceptType, SetVerdictType DEF AcceptBypassed
    <2>4. counters' \in [CounterNames -> Nat]
      BY <1>0, <2>1, IncType DEF AcceptBypassed, CounterNames
    <2>5. lastEvent' \in [Type : EventTypes, PacketID : 0..MaxPackets]
      BY <2>1, <2>2, RememberType DEF AcceptBypassed, EventTypes
    <2>6. IngressTypeOK'
      BY <1>0, <2>1, <2>2, <2>3, <2>4, <2>5 DEF AcceptBypassed, IngressTypeOK
    <2> QED
      BY <1>0, <1>2, <2>6 DEF ReceiveBypassed, TypeOK, handlerVars, cleanerVars,
                         historyVars
  <1>3. CASE Receive
    <2>1. PICK p \in Inputs : HandToPolicy(p)
      BY <1>3 DEF Receive
    <2>2. /\ rcvd' \in 0..MaxPackets
          /\ pkts' \in [Ids -> Inputs \cup {NoPacket}]
          /\ \A id \in Ids : pkts'[id] \in Inputs <=> id <= rcvd'
      BY <1>0, <2>1, DeliverType DEF HandToPolicy
    <2>3. IngressTypeOK'
      BY <1>0, <2>1, <2>2 DEF HandToPolicy, IngressTypeOK
    <2> QED
      BY <1>0, <1>3, <2>3 DEF Receive, TypeOK, IngressTypeOK, cleanerVars, historyVars
  <1>4. CASE DecideFirst \/ DecideAccept \/ ForceAccept
    <2>1. /\ rcvd \in Ids /\ now \in Nat /\ clock \in Nat
          /\ UNCHANGED <<clock, rcvd, pkts, verdict, lost, now, cpc, cutoff, counters>>
          /\ pc' = "accept"
      BY <1>0, <1>4 DEF DecideFirst, DecideAccept, ForceAccept, StateStep, TypeOK,
                   IngressTypeOK, cleanerVars
    <2>2. MyIP \in IPs
      BY <1>0, <2>1, MyIPType
    <2>3. /\ clients' \in [IPs -> ClientState \cup {NoClient}]
          /\ quiet' \in [IPs -> Nat] /\ streak' \in [IPs -> Nat]
      BY <1>0, <1>4, <2>1, <2>2, StartCooldownFacts
         DEF DecideFirst, DecideAccept, ForceAccept
    <2>4. lastEvent' \in [Type : EventTypes, PacketID : 0..MaxPackets]
      BY <1>4, <2>1, RememberType
         DEF DecideFirst, DecideAccept, ForceAccept, EventTypes
    <2>5. dropCount' \in Nat
      BY <1>0, <1>4 DEF DecideFirst, DecideAccept, ForceAccept, TypeOK
    <2> QED
      BY <1>0, <2>1, <2>3, <2>4, <2>5, OptionsStep DEF TypeOK, IngressTypeOK
  <1>5. CASE DecideInside
    <2>1. rcvd \in Ids /\ MyIP \in IPs
      BY <1>0, <1>5, MyIPType DEF DecideInside, StateStep
    <2>2. lastEvent' \in [Type : EventTypes, PacketID : 0..MaxPackets]
      BY <1>5, <2>1, RememberType DEF DecideInside, EventTypes
    <2> QED
      BY <1>0, <1>5, <2>2
         DEF DecideInside, StateStep, TypeOK, IngressTypeOK, cleanerVars
  <1>6. CASE IncDrop
    <2>1. rcvd \in Ids
      BY <1>0, <1>6 DEF IncDrop, StateStep
    <2>2. clients' \in [IPs -> ClientState \cup {NoClient}] /\ dropCount' \in Nat
      BY <1>0, <1>6, <2>1, IncDropFacts
    <2> QED
      BY <1>0, <1>6, <2>2
         DEF IncDrop, StateStep, TypeOK, IngressTypeOK, cleanerVars, historyVars
  <1>7. CASE Drop
    <2>1. rcvd \in Ids /\ MyIP \in IPs
      BY <1>0, <1>7, MyIPType DEF Drop, StateStep
    <2>2. lastEvent' \in [Type : EventTypes, PacketID : 0..MaxPackets]
      BY <1>7, <2>1, RememberType DEF Drop, EventTypes
    <2>3. counters' \in [CounterNames -> Nat]
      BY <1>0, <1>7, IncType DEF Drop, CounterNames
    <2>4. streak' \in [IPs -> Nat]
      BY <1>0, <1>7, <2>1 DEF Drop, TypeOK
    <2> QED
      BY <1>0, <1>7, <2>2, <2>3, <2>4
         DEF Drop, StateStep, TypeOK, IngressTypeOK, cleanerVars
  <1>8. CASE Forget
    BY <1>0, <1>8 DEF Forget, StateStep, TypeOK, IngressTypeOK, cleanerVars, historyVars
  <1>9. CASE AnswerAccept \/ AnswerDrop
    <2>1. rcvd \in Ids /\ rcvd <= rcvd
      BY <1>0, <1>9 DEF AnswerAccept, AnswerDrop, Answer, Ids
    <2>2. verdict' \in [Ids -> Verdict] /\ lost' \in 0..MaxLost
      BY <1>0, <1>9, <2>1, NfAcceptType, SetVerdictType, DropOrRejectType
         DEF AnswerAccept, AnswerDrop, DropVerdict
    <2>3. counters' \in [CounterNames -> Nat]
      <3>1. CASE AnswerAccept
        BY <1>0, <3>1, IncType DEF AnswerAccept, CountAccept, CounterNames
      <3>2. CASE AnswerDrop
        BY <1>0, <3>2 DEF AnswerDrop, IngressTypeOK
      <3> QED
        BY <1>9, <3>1, <3>2
    <2>4. /\ pc' = "idle" /\ now' = 0
          /\ UNCHANGED <<clock, rcvd, pkts, lastEvent, dropCount, clients, cpc, cutoff,
                         quiet, streak>>
      BY <1>9 DEF AnswerAccept, AnswerDrop, Answer, cleanerVars, historyVars
    <2> QED
      BY <1>0, <2>2, <2>3, <2>4, OptionsStep DEF TypeOK, IngressTypeOK
  <1>10. CASE CleanerStep
    <2>1. clients' \in [IPs -> ClientState \cup {NoClient}]
      BY <1>0, <1>10 DEF CleanerStep, CleanupStart, CleanupDelete, TypeOK
    <2>2. cutoff' \in Int /\ cpc' \in {"idle", "lock"}
      BY <1>0, <1>10 DEF CleanerStep, CleanupStart, CleanupDelete, IngressTypeOK
    <2> QED
      BY <1>0, <1>10, <2>1, <2>2
         DEF CleanerStep, CleanupStart, CleanupDelete, TypeOK, IngressTypeOK,
             ingressVars, handlerVars, historyVars
  <1>11. CASE Tick
    BY <1>0, <1>11 DEF Tick, TypeOK, IngressTypeOK, ingressVars, handlerVars,
                  cleanerVars, historyVars
  <1>12. CASE UNCHANGED vars
    BY <1>0, <1>12 DEF vars, TypeOK, IngressTypeOK, ingressVars, handlerVars,
                  cleanerVars, historyVars
  <1> QED
    BY <1>1, <1>2, <1>3, <1>4, <1>5, <1>6, <1>7, <1>8, <1>9, <1>10, <1>11, <1>12
       DEF Next, HandlerStep
-----------------------------------------------------------------------------
\* The clock is a natural number and never goes back.
LEMMA ClockStep == IndInv /\ [Next]_vars => clock \in Nat /\ clock' \in Nat /\ clock' >= clock
  <1> SUFFICES ASSUME IndInv, [Next]_vars
               PROVE  clock \in Nat /\ clock' \in Nat /\ clock' >= clock
    OBVIOUS
  <1>1. clock \in Nat
    BY DEF IndInv, TypeOK, IngressTypeOK
  <1>2. clock' = clock \/ clock' = clock + 1
    BY DEF Next, vars, HandlerStep, CleanerStep, ReceiveUnmatched, ReceiveBypassed,
           Receive, AcceptUnmatched, AcceptBypassed, HandToPolicy, DecideFirst,
           DecideAccept, DecideInside, IncDrop, ForceAccept, Drop, Forget, StateStep,
           AnswerAccept, AnswerDrop, Answer, CleanupStart, CleanupDelete, Tick
  <1> QED
    BY <1>1, <1>2

\* Where the entries of the map come from: a cooldown that is started, a counted
\* drop, a deletion, or nothing.
LEMMA WhoChangesClients ==
    ASSUME IndInv, [Next]_vars
    PROVE  \/ /\ DecideFirst \/ DecideAccept
              /\ StartCooldown(MyIP, now)
           \/ ForceAccept /\ StartCooldown(MyIP, clock)
           \/ IncDrop
           \/ Forget
           \/ CleanupDelete
           \/ Drop /\ UNCHANGED <<clients, quiet>>
           \/ UNCHANGED <<clients, quiet, streak>>
  BY DEF Next, vars, HandlerStep, CleanerStep, ReceiveUnmatched, ReceiveBypassed,
         Receive, DecideFirst, DecideAccept, DecideInside, ForceAccept, Drop,
         AnswerAccept, AnswerDrop, Answer, CleanupStart, Tick, historyVars

\* Progress, the part about the packet in hand, is kept by every step.
LEMMA InHandStep ==
    IndInv /\ [Next]_vars =>
        /\ pc' # "idle" => /\ rcvd' \in Ids /\ now' <= clock'
                           /\ verdict'[rcvd'] = Unanswered
        /\ \A id \in 1..rcvd' : verdict'[id] = Unanswered => id = rcvd' /\ pc' # "idle"
  <1> SUFFICES ASSUME IndInv, [Next]_vars
               PROVE  /\ pc' # "idle" => /\ rcvd' \in Ids /\ now' <= clock'
                                         /\ verdict'[rcvd'] = Unanswered
                      /\ \A id \in 1..rcvd' :
                            verdict'[id] = Unanswered => id = rcvd' /\ pc' # "idle"
    OBVIOUS
  <1>0. /\ TypeOK /\ IngressTypeOK /\ rcvd \in 0..MaxPackets
        /\ clock \in Nat /\ clock' \in Nat /\ clock' >= clock /\ now \in Nat
        /\ pc # "idle" => rcvd \in Ids /\ now <= clock /\ verdict[rcvd] = Unanswered
        /\ \A id \in 1..rcvd : verdict[id] = Unanswered => id = rcvd /\ pc # "idle"
    BY ClockStep DEF IndInv, TypeOK, IngressTypeOK, Progress
  <1>1. CASE ReceiveUnmatched \/ ReceiveBypassed
    <2>1. pc = "idle" /\ pc' = "idle"
      BY <1>1 DEF ReceiveUnmatched, ReceiveBypassed, handlerVars
    <2>2. PICK p \in Inputs : Deliver(p) /\ SetVerdict(rcvd + 1, NfAccept)
      BY <1>1 DEF ReceiveUnmatched, ReceiveBypassed, AcceptUnmatched, AcceptBypassed
    <2>3. rcvd' = rcvd + 1 /\ rcvd + 1 \in Ids
      BY <1>0, <2>2, DeliverType
    <2>4. /\ verdict'[rcvd + 1] # Unanswered
          /\ \A other \in Ids \ {rcvd + 1} : verdict'[other] = verdict[other]
      BY <1>0, <2>2, <2>3, SetVerdictAnswers, NfAcceptAnswers
    <2> QED
      BY <1>0, <2>1, <2>3, <2>4 DEF Ids
  <1>2. CASE Receive
    <2>1. PICK p \in Inputs : Deliver(p) /\ UNCHANGED <<clock, verdict>>
      BY <1>2 DEF Receive, HandToPolicy
    <2>2. rcvd' = rcvd + 1 /\ rcvd + 1 \in Ids
      BY <1>0, <2>1, DeliverType
    <2>3. verdict[rcvd + 1] = Unanswered
      BY <1>0, <2>2 DEF IndInv, Undelivered
    <2> QED
      BY <1>0, <1>2, <2>1, <2>2, <2>3 DEF Receive, Ids
  <1>3. CASE AnswerAccept \/ AnswerDrop
    <2>1. rcvd \in Ids /\ pc' = "idle" /\ rcvd' = rcvd
      BY <1>0, <1>3 DEF AnswerAccept, AnswerDrop, Answer
    <2>2. /\ verdict'[rcvd] # Unanswered
          /\ \A other \in Ids \ {rcvd} : verdict'[other] = verdict[other]
      BY <1>0, <1>3, <2>1, SetVerdictAnswers, DropOrRejectAnswers, NfAcceptAnswers
         DEF AnswerAccept, AnswerDrop, DropVerdict
    <2> QED
      BY <1>0, <2>1, <2>2 DEF Ids
  <1>4. CASE /\ UNCHANGED <<rcvd, verdict, now>>
             /\ (pc = "idle") = (pc' = "idle")
    BY <1>0, <1>4
  <1> QED
    BY <1>1, <1>2, <1>3, <1>4
       DEF Next, vars, HandlerStep, CleanerStep, DecideFirst, DecideAccept,
           DecideInside, IncDrop, ForceAccept, Drop, Forget, StateStep, CleanupStart,
           CleanupDelete, Tick, ingressVars, handlerVars

\* A packet that was not delivered has no verdict.
LEMMA UndeliveredStep == IndInv /\ [Next]_vars => Undelivered'
  <1> SUFFICES ASSUME IndInv, [Next]_vars PROVE Undelivered'
    OBVIOUS
  <1>0. /\ IngressTypeOK /\ rcvd \in 0..MaxPackets /\ Undelivered
        /\ pc # "idle" => rcvd \in Ids
    BY DEF IndInv, TypeOK, IngressTypeOK, Progress
  <1>1. CASE ReceiveUnmatched \/ ReceiveBypassed
    <2>1. PICK p \in Inputs : Deliver(p) /\ SetVerdict(rcvd + 1, NfAccept)
      BY <1>1 DEF ReceiveUnmatched, ReceiveBypassed, AcceptUnmatched, AcceptBypassed
    <2>2. rcvd' = rcvd + 1 /\ rcvd + 1 \in Ids
      BY <1>0, <2>1, DeliverType
    <2>3. \A other \in Ids \ {rcvd + 1} : verdict'[other] = verdict[other]
      BY <1>0, <2>1, <2>2, SetVerdictAnswers, NfAcceptAnswers
    <2> QED
      BY <1>0, <2>2, <2>3 DEF Undelivered, Ids
  <1>2. CASE Receive
    <2>1. PICK p \in Inputs : Deliver(p) /\ UNCHANGED verdict
      BY <1>2 DEF Receive, HandToPolicy
    <2>2. rcvd' = rcvd + 1
      BY <1>0, <2>1, DeliverType
    <2> QED
      BY <1>0, <2>1, <2>2 DEF Undelivered, Ids
  <1>3. CASE AnswerAccept \/ AnswerDrop
    <2>1. rcvd \in Ids /\ rcvd' = rcvd
      BY <1>0, <1>3 DEF AnswerAccept, AnswerDrop, Answer
    <2>2. \A other \in Ids \ {rcvd} : verdict'[other] = verdict[other]
      BY <1>0, <1>3, <2>1, SetVerdictAnswers, DropOrRejectAnswers, NfAcceptAnswers
         DEF AnswerAccept, AnswerDrop, DropVerdict
    <2> QED
      BY <1>0, <2>1, <2>2 DEF Undelivered, Ids
  <1>4. CASE UNCHANGED <<rcvd, verdict>>
    BY <1>0, <1>4 DEF Undelivered
  <1> QED
    BY <1>1, <1>2, <1>3, <1>4
       DEF Next, vars, HandlerStep, CleanerStep, DecideFirst, DecideAccept,
           DecideInside, IncDrop, ForceAccept, Drop, Forget, StateStep, CleanupStart,
           CleanupDelete, Tick, ingressVars

\* The rest of Progress is kept: no entry and no cutoff is ahead of the clock.
LEMMA ProgressStep == IndInv /\ [Next]_vars => Progress'
  <1> SUFFICES ASSUME IndInv, [Next]_vars PROVE Progress'
    OBVIOUS
  <1>0. /\ TypeOK /\ Progress /\ now \in Nat /\ cutoff \in Int
        /\ clock \in Nat /\ clock' \in Nat /\ clock' >= clock
        /\ pc # "idle" => rcvd \in Ids /\ now <= clock
    BY ClockStep DEF IndInv, TypeOK, Progress
  <1>1. \A ip \in IPs : Tracked(ip)' => clients'[ip].LastSeen <= clock'
    <2> SUFFICES ASSUME NEW ip \in IPs, clients'[ip] # NoClient
                 PROVE  clients'[ip].LastSeen <= clock'
      BY DEF Tracked
    <2>0. clients[ip] # NoClient =>
              clients[ip].LastSeen \in Nat /\ clients[ip].LastSeen <= clock
      BY <1>0, ClientType DEF Progress, Tracked
    <2>1. CASE (DecideFirst \/ DecideAccept) /\ StartCooldown(MyIP, now)
      <3>1. rcvd \in Ids /\ now <= clock /\ MyIP \in IPs
        BY <1>0, <2>1, MyIPType DEF DecideFirst, DecideAccept, StateStep
      <3> QED
        BY <1>0, <2>0, <2>1, <3>1, StartCooldownFacts
    <2>2. CASE ForceAccept /\ StartCooldown(MyIP, clock)
      <3>1. MyIP \in IPs
        BY <1>0, <2>2, MyIPType DEF ForceAccept, StateStep
      <3> QED
        BY <1>0, <2>0, <2>2, <3>1, StartCooldownFacts
    <2>3. CASE IncDrop
      <3>1. rcvd \in Ids /\ MyIP \in IPs
        BY <1>0, <2>3, MyIPType DEF IncDrop, StateStep
      <3> QED
        BY <1>0, <2>0, <2>3, <3>1, IncDropFacts DEF Tracked
    <2>4. CASE Forget \/ CleanupDelete \/ UNCHANGED clients
      <3>1. clients'[ip] = clients[ip]
        BY <1>0, <2>4 DEF Forget, CleanupDelete, TypeOK
      <3> QED
        BY <1>0, <2>0, <3>1
    <2> QED
      BY <2>1, <2>2, <2>3, <2>4, WhoChangesClients
  <1>2. cpc' = "lock" => cutoff' <= clock' - CleanupAfter
    <2>1. \/ CleanupStart
          \/ cpc' = "idle"
          \/ UNCHANGED <<cpc, cutoff>>
      BY DEF Next, vars, HandlerStep, CleanerStep, ReceiveUnmatched, ReceiveBypassed,
             Receive, DecideFirst, DecideAccept, DecideInside, IncDrop, ForceAccept,
             Drop, Forget, StateStep, AnswerAccept, AnswerDrop, Answer, CleanupDelete,
             Tick, cleanerVars
    <2> QED
      BY <1>0, <2>1 DEF CleanupStart, Progress
  <1> QED
    BY <1>1, <1>2, InHandStep DEF Progress
-----------------------------------------------------------------------------
\* The entries record when the cooldowns end, and an entry that is cleaned up
\* has outlived its cooldown.
LEMMA RecordedStep == IndInv /\ [Next]_vars => CooldownRecorded'
  <1> SUFFICES ASSUME IndInv, [Next]_vars, NEW ip \in IPs
               PROVE  /\ Tracked(ip)' =>
                            quiet'[ip] = clients'[ip].LastSeen + clients'[ip].Cooldown
                      /\ ~Tracked(ip)' /\ CleanupIsLateEnough => quiet'[ip] <= clock'
    BY OptionsStep DEF CooldownRecorded, CleanupIsLateEnough
  <1>0. /\ TypeOK /\ Progress /\ cutoff \in Int /\ now \in Nat
        /\ quiet[ip] \in Nat
        /\ clock \in Nat /\ clock' \in Nat /\ clock' >= clock
        /\ pc # "idle" => rcvd \in Ids
        /\ Tracked(ip) => quiet[ip] = clients[ip].LastSeen + clients[ip].Cooldown
        /\ ~Tracked(ip) /\ CleanupIsLateEnough => quiet[ip] <= clock
    BY ClockStep DEF IndInv, TypeOK, Progress, CooldownRecorded
  <1>1. CASE (DecideFirst \/ DecideAccept) /\ StartCooldown(MyIP, now)
    <2>1. MyIP \in IPs
      BY <1>0, <1>1, MyIPType DEF DecideFirst, DecideAccept, StateStep
    <2> QED
      BY <1>0, <1>1, <2>1, StartCooldownFacts DEF Tracked
  <1>2. CASE ForceAccept /\ StartCooldown(MyIP, clock)
    <2>1. MyIP \in IPs
      BY <1>0, <1>2, MyIPType DEF ForceAccept, StateStep
    <2> QED
      BY <1>0, <1>2, <2>1, StartCooldownFacts DEF Tracked
  <1>3. CASE IncDrop
    <2>1. rcvd \in Ids /\ MyIP \in IPs /\ UNCHANGED quiet
      BY <1>0, <1>3, MyIPType DEF IncDrop, StateStep, historyVars
    <2>2. /\ Tracked(ip)' = Tracked(ip)
          /\ Tracked(ip) => /\ clients'[ip].LastSeen = clients[ip].LastSeen
                            /\ clients'[ip].Cooldown = clients[ip].Cooldown
      BY <1>0, <1>3, <2>1, IncDropFacts DEF Tracked
    <2> QED
      BY <1>0, <2>1, <2>2
  <1>4. CASE Forget
    <2>1. forgetOnDrop
      BY <1>4 DEF IndInv, ForgetReached, Forget, StateStep
    <2>2. clients'[ip] \in {clients[ip], NoClient} /\ UNCHANGED quiet
      BY <1>0, <1>4 DEF Forget, TypeOK, historyVars
    <2> QED
      BY <1>0, <2>1, <2>2 DEF Tracked, CleanupIsLateEnough
  <1>5. CASE CleanupDelete
    <2>1. UNCHANGED <<quiet, clock>>
      BY <1>5 DEF CleanupDelete, historyVars
    <2>2. CASE StaleClient(clients[ip])
      <3>1. clients'[ip] = NoClient
        BY <1>5, <2>2 DEF CleanupDelete
      <3>2. /\ Tracked(ip) /\ clients[ip].LastSeen < cutoff
            /\ cutoff <= clock - CleanupAfter
        BY <1>0, <1>5, <2>2 DEF StaleClient, Tracked, CleanupDelete, Progress
      <3>3. clients[ip].LastSeen \in Nat /\ clients[ip].Cooldown \in Cooldowns
        BY <1>0, <3>2, ClientType
      <3>4. CleanupIsLateEnough => clients[ip].Cooldown <= CleanupAfter
        BY <3>3 DEF CleanupIsLateEnough
      <3>5. clients[ip].Cooldown \in Nat
        BY <3>3
      <3> QED
        BY <1>0, <2>1, <3>1, <3>2, <3>3, <3>4, <3>5 DEF Tracked
    <2>3. CASE ~StaleClient(clients[ip])
      <3>1. clients'[ip] = clients[ip]
        BY <1>5, <2>3 DEF CleanupDelete
      <3> QED
        BY <1>0, <2>1, <3>1 DEF Tracked
    <2> QED
      BY <2>2, <2>3
  <1>6. CASE UNCHANGED <<clients, quiet>>
    BY <1>0, <1>6 DEF Tracked
  <1> QED
    BY <1>1, <1>2, <1>3, <1>4, <1>5, <1>6, WhoChangesClients
-----------------------------------------------------------------------------
\* DropsCounted for one address.
DropsCountedFor(ip) ==
    /\ streak[ip] <= MaxDropsPerIP + 1
    /\ Tracked(ip) => streak[ip] <= MaxDropsPerIP
    /\ pc \in {"incdrop", "dropped"} /\ ip = MyIP => streak[ip] <= MaxDropsPerIP
    /\ Tracked(ip) =>
           IF pc = "dropped" /\ ip = MyIP
           THEN /\ dropCount = clients[ip].DropCount
                /\ clients[ip].DropCount = streak[ip] + 1
           ELSE clients[ip].DropCount = streak[ip]

\* The drops in a row are counted correctly after every step.
LEMMA DropsStep == IndInv /\ [Next]_vars => DropsCounted'
  <1> SUFFICES ASSUME IndInv, [Next]_vars, MaxDropsPerIP > 0, NEW ip \in IPs
               PROVE  DropsCountedFor(ip)'
    BY DEF DropsCounted, DropsCountedFor, MyIP, InHand
  <1>0. /\ TypeOK /\ streak[ip] \in Nat /\ now \in Nat /\ clock \in Nat
        /\ pc # "idle" => rcvd \in Ids /\ MyIP \in IPs
        /\ DropsCountedFor(ip)
    BY ClockStep, MyIPType DEF IndInv, TypeOK, Progress, DropsCounted, DropsCountedFor
  <1>1. Tracked(ip) => clients[ip].DropCount \in Nat
    BY <1>0, ClientType
  <1>2. CASE (DecideFirst \/ DecideAccept) /\ StartCooldown(MyIP, now)
    <2>1. MyIP \in IPs /\ pc = "decide" /\ pc' = "accept"
      BY <1>0, <1>2 DEF DecideFirst, DecideAccept, StateStep
    <2> QED
      BY <1>0, <1>2, <2>1, StartCooldownFacts DEF DropsCountedFor, Tracked
  <1>3. CASE ForceAccept /\ StartCooldown(MyIP, clock)
    <2>1. MyIP \in IPs /\ pc = "dropped" /\ pc' = "accept"
      BY <1>0, <1>3 DEF ForceAccept, StateStep
    <2> QED
      BY <1>0, <1>3, <2>1, StartCooldownFacts DEF DropsCountedFor, Tracked
  <1>4. CASE DecideInside
    <2>1. /\ pc = "decide" /\ pc' = "incdrop" /\ Tracked(MyIP)
          /\ MyIP' = MyIP
          /\ UNCHANGED <<clients, streak>>
      BY <1>4 DEF DecideInside, StateStep, MyIP, InHand
    <2> QED
      BY <1>0, <2>1 DEF DropsCountedFor, Tracked
  <1>5. CASE IncDrop
    <2>1. /\ pc = "incdrop" /\ pc' = "dropped" /\ rcvd \in Ids /\ MyIP \in IPs
          /\ MyIP' = MyIP /\ streak' = streak
      BY <1>0, <1>5 DEF IncDrop, StateStep, MyIP, InHand, historyVars
    <2>2. /\ Tracked(ip)' = Tracked(ip)
          /\ Tracked(ip) => clients'[ip].DropCount = IF ip = MyIP
                                                     THEN clients[ip].DropCount + 1
                                                     ELSE clients[ip].DropCount
          /\ Tracked(ip) /\ ip = MyIP => dropCount' = clients[ip].DropCount + 1
      BY <1>0, <1>5, <2>1, IncDropFacts DEF Tracked
    <2> QED
      BY <1>0, <1>1, <2>1, <2>2 DEF DropsCountedFor
  <1>6. CASE Drop
    <2>1. /\ pc = "dropped" /\ pc' \notin {"incdrop", "dropped"} /\ MyIP \in IPs
          /\ clients' = clients /\ dropCount <= MaxDropsPerIP
          /\ streak' = [streak EXCEPT ![MyIP] = @ + 1]
      BY <1>0, <1>6 DEF Drop, StateStep, Forces, TypeOK
    <2>2. streak'[ip] = IF ip = MyIP THEN streak[ip] + 1 ELSE streak[ip]
      BY <1>0, <2>1 DEF TypeOK
    <2> QED
      BY <1>0, <1>1, <2>1, <2>2 DEF DropsCountedFor, Tracked
  <1>7. CASE Forget \/ CleanupDelete
    <2>1. /\ clients'[ip] \in {clients[ip], NoClient}
          /\ streak' = streak
      BY <1>0, <1>7 DEF Forget, CleanupDelete, TypeOK, historyVars
    <2>2. \/ pc = "forget" /\ pc' = "answer"
          \/ UNCHANGED <<pc, dropCount>> /\ MyIP' = MyIP
      BY <1>7 DEF Forget, StateStep, CleanupDelete, handlerVars, ingressVars, MyIP, InHand
    <2> QED
      BY <1>0, <2>1, <2>2 DEF DropsCountedFor, Tracked
  <1>8. CASE UNCHANGED <<clients, quiet, streak>>
    <2>1. CASE UNCHANGED <<pc, rcvd, pkts, dropCount>>
      BY <1>0, <1>8, <2>1 DEF DropsCountedFor, Tracked, MyIP, InHand
    <2>2. CASE pc' \notin {"incdrop", "dropped"} /\ pc # "dropped"
      BY <1>0, <1>8, <2>2 DEF DropsCountedFor, Tracked
    <2>3. \/ DecideInside \/ IncDrop \/ ForceAccept \/ Drop
          \/ UNCHANGED <<pc, rcvd, pkts, dropCount>>
          \/ pc' \notin {"incdrop", "dropped"} /\ pc # "dropped"
      BY DEF Next, vars, HandlerStep, CleanerStep, ReceiveUnmatched, ReceiveBypassed,
             Receive, DecideFirst, DecideAccept, Forget, StateStep, AnswerAccept,
             AnswerDrop, Answer, CleanupStart, CleanupDelete, Tick, ingressVars,
             handlerVars
    <2>4. ForceAccept => StartCooldown(MyIP, clock)
      BY DEF ForceAccept
    <2> QED
      BY <1>3, <1>4, <1>5, <1>6, <2>1, <2>2, <2>3, <2>4
  <1> QED
    BY <1>2, <1>3, <1>5, <1>6, <1>7, <1>8, WhoChangesClients
-----------------------------------------------------------------------------
\* The invariant holds at the start.
LEMMA IndInvInit == Init => IndInv
  <1> SUFFICES ASSUME Init PROVE IndInv
    OBVIOUS
  <1>1. /\ pc = "idle" /\ cpc = "idle" /\ rcvd = 0 /\ clock = 1
        /\ \A ip \in IPs : ~Tracked(ip) /\ quiet[ip] = 0 /\ streak[ip] = 0
        /\ \A id \in Ids : verdict[id] = Unanswered
    BY DEF Init, IngressInit, Tracked
  <1> QED
    BY <1>1, TypeInit DEF IndInv, Progress, Undelivered, ForgetReached,
                          CooldownRecorded, DropsCounted

\* The invariant is kept by every step.
LEMMA IndInvStep == IndInv /\ [Next]_vars => IndInv'
  <1> SUFFICES ASSUME IndInv, [Next]_vars PROVE IndInv'
    OBVIOUS
  <1>1. ForgetReached'
    BY DEF IndInv, ForgetReached, Next, vars, HandlerStep, CleanerStep,
           ReceiveUnmatched, ReceiveBypassed, Receive, DecideFirst, DecideAccept,
           DecideInside, IncDrop, ForceAccept, Drop, Forget, StateStep, AnswerAccept,
           AnswerDrop, Answer, CleanupStart, CleanupDelete, Tick, handlerVars
  <1> QED
    BY <1>1, TypeStep, ProgressStep, UndeliveredStep, RecordedStep, DropsStep
       DEF IndInv

\* Every behaviour of the drop policy keeps the inductive invariant.
THEOREM Invariance == Spec => []IndInv
  BY IndInvInit, IndInvStep, PTL DEF Spec

\* Type correctness of the drop policy, for every configuration.
THEOREM TypeCorrect == Spec => []TypeOK
  <1>1. IndInv => TypeOK
    BY DEF IndInv
  <1> QED
    BY <1>1, Invariance, PTL

\* --max-drops-per-ip: however the callback and cleanupLoop interleave, an address
\* that has an entry sees no more than MaxDropsPerIP drops in a row, and one that
\* has lost it no more than one more.
THEOREM DropsAreBounded == Spec => []DropsBounded
  <1>1. IndInv => DropsBounded
    BY DEF IndInv, DropsCounted, DropsBounded
  <1> QED
    BY <1>1, Invariance, PTL

\* With --cleanup-after at least the longest cooldown, no step of Decide accepts
\* a packet while the cooldown of its address runs, for any algorithm.
THEOREM CooldownHolds == Spec => CooldownKept
  <1>1. ASSUME IndInv, [Next]_vars, CleanupIsLateEnough,
               pc = "decide", pc' = "accept"
        PROVE  clock >= quiet[MyIP]
    <2>1. DecideFirst \/ DecideAccept
      BY <1>1 DEF Next, vars, HandlerStep, CleanerStep, ReceiveUnmatched,
                  ReceiveBypassed, Receive, DecideInside, IncDrop, ForceAccept, Drop,
                  Forget, StateStep, AnswerAccept, AnswerDrop, Answer, CleanupStart,
                  CleanupDelete, Tick, handlerVars
    <2>2. /\ TypeOK /\ rcvd \in Ids /\ now \in Nat /\ clock \in Nat /\ now <= clock
      BY <1>1 DEF IndInv, TypeOK, IngressTypeOK, Progress
    <2>3. MyIP \in IPs
      BY <2>2, MyIPType
    <2>4. quiet[MyIP] \in Nat
      BY <2>2, <2>3 DEF TypeOK
    <2>5. CASE DecideFirst
      BY <1>1, <2>2, <2>3, <2>4, <2>5 DEF IndInv, CooldownRecorded, DecideFirst
    <2>6. CASE DecideAccept
      <3>1. /\ Tracked(MyIP) /\ Expired(clients[MyIP], now)
            /\ quiet[MyIP] = clients[MyIP].LastSeen + clients[MyIP].Cooldown
        BY <1>1, <2>3, <2>6 DEF IndInv, CooldownRecorded, DecideAccept
      <3>2. clients[MyIP].LastSeen \in Nat /\ clients[MyIP].Cooldown \in Nat
        BY <2>2, <2>3, <3>1, ClientType
      <3> QED
        BY <2>2, <3>1, <3>2 DEF Expired
    <2> QED
      BY <2>1, <2>5, <2>6
  <1>2. IndInv /\ [Next]_vars =>
            [(CleanupIsLateEnough /\ pc = "decide" /\ pc' = "accept")
                => clock >= quiet[MyIP]]_vars
    BY <1>1
  <1> QED
    BY <1>2, Invariance, PTL DEF Spec, CooldownKept
-----------------------------------------------------------------------------
\* What the callback does is a step of the gate, or none.
LEMMA GateStep == IndInv /\ [Next]_vars => [Gate!GateNext]_(Gate!gateVars)
  <1> SUFFICES ASSUME IndInv, [Next]_vars
               PROVE  Gate!GateNext \/ UNCHANGED Gate!gateVars
    OBVIOUS
  <1>0. /\ IngressTypeOK /\ rcvd \in 0..MaxPackets /\ Progress
        /\ pc = "idle" => Gate!InHand = {}
        /\ pc # "idle" => rcvd \in Ids /\ rcvd \in Gate!InHand
    BY DEF IndInv, TypeOK, IngressTypeOK, Progress, Gate!InHand, Ids
  <1>1. CASE ReceiveUnmatched \/ ReceiveBypassed
    <2>1. PICK p \in Inputs : Deliver(p) /\ SetVerdict(rcvd + 1, NfAccept)
      BY <1>1 DEF ReceiveUnmatched, ReceiveBypassed, AcceptUnmatched, AcceptBypassed
    <2>2. Gate!Take
      BY <1>0, <1>1, <2>1 DEF ReceiveUnmatched, ReceiveBypassed, Deliver, Gate!Take
    <2>3. Gate!Answer(rcvd + 1, {NfAccept, Lost})
      BY <2>1, AcceptIsAnswer DEF Gate!Answer
    <2> QED
      BY <2>2, <2>3 DEF Gate!TakeAndAccept, Gate!GateNext
  <1>2. CASE Receive
    <2>1. PICK p \in Inputs : Deliver(p) /\ UNCHANGED verdict
      BY <1>2 DEF Receive, HandToPolicy
    <2> QED
      BY <1>0, <1>2, <2>1
         DEF Receive, Deliver, Gate!Take, Gate!TakeAndHandle, Gate!GateNext
  <1>3. CASE AnswerAccept \/ AnswerDrop
    <2>1. rcvd \in Gate!InHand /\ rcvd \in Ids /\ rcvd <= rcvd /\ UNCHANGED rcvd
      BY <1>0, <1>3 DEF AnswerAccept, AnswerDrop, Answer, Ids
    <2>2. \E v \in GateAnswers : verdict' = [verdict EXCEPT ![rcvd] = v]
      BY <1>0, <1>3, <2>1, DropOrRejectIsAnswer, AcceptIsAnswer, AcceptsAreAnswers
         DEF AnswerAccept, AnswerDrop, DropVerdict
    <2>3. Gate!Answer(rcvd, {v \in Verdict : v.action # "none"})
      BY <2>2 DEF GateAnswers, Gate!Answer
    <2> QED
      BY <2>1, <2>3 DEF Gate!Decide, Gate!GateNext
  <1>4. CASE UNCHANGED <<rcvd, verdict>>
    BY <1>4 DEF Gate!gateVars
  <1> QED
    BY <1>1, <1>2, <1>3, <1>4
       DEF Next, vars, HandlerStep, CleanerStep, DecideFirst, DecideAccept,
           DecideInside, IncDrop, ForceAccept, Drop, Forget, StateStep, CleanupStart,
           CleanupDelete, Tick, ingressVars

\* The drop policy is a gate that holds nothing back.
THEOREM CooldownRefinesGate == Spec => ImplementsGate
  <1>1. Init => Gate!GateInit
    BY DEF Init, IngressInit, Gate!GateInit, Ids
  <1> QED
    BY <1>1, GateStep, Invariance, PTL DEF Spec, ImplementsGate, Gate!GateSpec
-----------------------------------------------------------------------------
\* What every step keeps of the counters: the matching packets are those counted
\* and the one in hand before its count.
MatchedIds == {id \in 1..rcvd : Matched(pkts[id])}
Uncounted == IF pc \in {"decide", "incdrop", "dropped", "accept"} THEN 1 ELSE 0
CountedOnce ==
    counters["Accepted"] + counters["Dropped"] + Uncounted = Cardinality(MatchedIds)

\* The matching packets after an arrival.
LEMMA MatchedArrival ==
    ASSUME IngressTypeOK, NEW p \in Inputs, Deliver(p)
    PROVE  /\ Cardinality(MatchedIds) \in Nat
           /\ Matched(p) => Cardinality(MatchedIds') = Cardinality(MatchedIds) + 1
           /\ ~Matched(p) => MatchedIds' = MatchedIds
  <1>0. rcvd \in Nat
    BY DEF IngressTypeOK
  <1>1. IsFiniteSet(MatchedIds)
    <2>1. IsFiniteSet(1..rcvd) /\ MatchedIds \subseteq 1..rcvd
      BY <1>0, FS_Interval DEF MatchedIds
    <2> QED
      BY <2>1, FS_Subset
  <1>2. /\ rcvd' = rcvd + 1 /\ pkts'[rcvd + 1] = p
        /\ \A id \in 1..rcvd : pkts'[id] = pkts[id]
    BY DeliverType
  <1>3. /\ \A id \in 1..rcvd' : id = rcvd + 1 \/ id \in 1..rcvd
        /\ rcvd + 1 \in 1..rcvd' /\ 1..rcvd \subseteq 1..rcvd'
        /\ rcvd + 1 \notin 1..rcvd
    BY <1>0, <1>2
  <1>4. /\ Matched(p) => MatchedIds' = MatchedIds \cup {rcvd + 1}
        /\ ~Matched(p) => MatchedIds' = MatchedIds
        /\ rcvd + 1 \notin MatchedIds
    BY <1>2, <1>3 DEF MatchedIds, Matched
  <1>5. Cardinality(MatchedIds \cup {rcvd + 1}) = Cardinality(MatchedIds) + 1
    BY <1>1, <1>4, FS_AddElement
  <1> QED
    BY <1>1, <1>4, <1>5, FS_CardinalityType

\* Every step keeps the count.
LEMMA CountStep == IndInv /\ CountedOnce /\ [Next]_vars => CountedOnce'
  <1> SUFFICES ASSUME IndInv, CountedOnce, [Next]_vars PROVE CountedOnce'
    OBVIOUS
  <1>0. /\ IngressTypeOK /\ counters \in [CounterNames -> Nat]
        /\ {"Accepted", "Dropped"} \subseteq CounterNames
        /\ counters["Accepted"] \in Nat /\ counters["Dropped"] \in Nat
    BY DEF IndInv, TypeOK, IngressTypeOK, CounterNames
  <1>1. CASE ReceiveUnmatched
    <2>1. PICK p \in Inputs : AcceptUnmatched(p)
      BY <1>1 DEF ReceiveUnmatched
    <2>2. MatchedIds' = MatchedIds
      BY <1>0, <2>1, MatchedArrival DEF AcceptUnmatched
    <2> QED
      BY <1>1, <2>1, <2>2 DEF ReceiveUnmatched, AcceptUnmatched, CountedOnce, Uncounted,
                              handlerVars
  <1>2. CASE ReceiveBypassed
    <2>1. PICK p \in Inputs : AcceptBypassed(p)
      BY <1>2 DEF ReceiveBypassed
    <2>2. /\ Cardinality(MatchedIds') = Cardinality(MatchedIds) + 1
          /\ Cardinality(MatchedIds) \in Nat
      BY <1>0, <2>1, MatchedArrival DEF AcceptBypassed
    <2>3. /\ counters'["Accepted"] = counters["Accepted"] + 1
          /\ counters'["Dropped"] = counters["Dropped"]
      BY <1>0, <2>1 DEF AcceptBypassed, Inc
    <2>4. Uncounted' = 0 /\ Uncounted = 0
      BY <1>2 DEF ReceiveBypassed, Uncounted, handlerVars
    <2> QED
      BY <1>0, <2>2, <2>3, <2>4 DEF CountedOnce
  <1>3. CASE Receive
    <2>1. PICK p \in Inputs : HandToPolicy(p)
      BY <1>3 DEF Receive
    <2>2. /\ Cardinality(MatchedIds') = Cardinality(MatchedIds) + 1
          /\ Cardinality(MatchedIds) \in Nat
      BY <1>0, <2>1, MatchedArrival DEF HandToPolicy
    <2>3. counters' = counters /\ Uncounted' = 1 /\ Uncounted = 0
      BY <1>3, <2>1 DEF HandToPolicy, Receive, Uncounted
    <2> QED
      BY <1>0, <2>2, <2>3 DEF CountedOnce
  <1>4. CASE AnswerAccept
    <2>1. /\ counters'["Accepted"] = counters["Accepted"] + 1
          /\ counters'["Dropped"] = counters["Dropped"]
      BY <1>0, <1>4 DEF AnswerAccept, CountAccept, Inc
    <2>2. Uncounted' = 0 /\ Uncounted = 1 /\ MatchedIds' = MatchedIds
      BY <1>4 DEF AnswerAccept, Answer, Uncounted, MatchedIds
    <2> QED
      BY <1>0, <2>1, <2>2 DEF CountedOnce
  <1>5. CASE Drop
    <2>1. /\ counters'["Dropped"] = counters["Dropped"] + 1
          /\ counters'["Accepted"] = counters["Accepted"]
      BY <1>0, <1>5 DEF Drop, Inc
    <2>2. Uncounted' = 0 /\ Uncounted = 1 /\ MatchedIds' = MatchedIds
      BY <1>5 DEF Drop, StateStep, Uncounted, MatchedIds
    <2> QED
      BY <1>0, <2>1, <2>2 DEF CountedOnce
  <1>6. CASE \/ DecideFirst \/ DecideAccept \/ DecideInside \/ IncDrop \/ ForceAccept
             \/ Forget \/ AnswerDrop
    <2>1. Uncounted' = Uncounted /\ MatchedIds' = MatchedIds /\ counters' = counters
      BY <1>6 DEF DecideFirst, DecideAccept, DecideInside, IncDrop, ForceAccept, Forget,
                  AnswerDrop, Answer, StateStep, Uncounted, MatchedIds
    <2> QED
      BY <2>1 DEF CountedOnce
  <1>7. CASE CleanerStep \/ Tick \/ UNCHANGED vars
    <2>1. UNCHANGED <<pc, rcvd, pkts, counters>>
      BY <1>7 DEF CleanerStep, CleanupStart, CleanupDelete, Tick, vars, ingressVars,
                  handlerVars
    <2> QED
      BY <2>1 DEF CountedOnce, Uncounted, MatchedIds
  <1> QED
    BY <1>1, <1>2, <1>3, <1>4, <1>5, <1>6, <1>7 DEF Next, HandlerStep

\* Between two packets the statistics of the drop policy add up.
THEOREM StatisticsAddUp == Spec => []CountersAgree
  <1>1. Init => CountedOnce
    <2> SUFFICES ASSUME Init PROVE CountedOnce
      OBVIOUS
    <2>1. MatchedIds = {}
      BY DEF Init, IngressInit, MatchedIds
    <2>2. /\ counters["Accepted"] = 0 /\ counters["Dropped"] = 0 /\ Uncounted = 0
      BY DEF Init, IngressInit, CounterNames, Uncounted
    <2> QED
      BY <2>1, <2>2, FS_EmptySet DEF CountedOnce
  <1>2. IndInv /\ CountedOnce => CountersAgree
    <2> SUFFICES ASSUME IndInv, CountedOnce, pc = "idle"
                 PROVE  counters["Accepted"] + counters["Dropped"] = Cardinality(MatchedIds)
      BY DEF CountersAgree, PrintedStats, MatchedIds
    <2>1. counters["Accepted"] \in Nat /\ counters["Dropped"] \in Nat /\ Uncounted = 0
      BY DEF IndInv, TypeOK, IngressTypeOK, CounterNames, Uncounted
    <2> QED
      BY <2>1 DEF CountedOnce
  <1>3. Spec => []CountedOnce
    BY <1>1, CountStep, Invariance, PTL DEF Spec
  <1> QED
    BY <1>2, <1>3, Invariance, PTL
=============================================================================
