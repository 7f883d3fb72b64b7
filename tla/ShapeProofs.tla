----------------------------- MODULE ShapeProofs -----------------------------
(***************************************************************************)
(* Proofs about Shape, for every value of its constants.                   *)
(***************************************************************************)
EXTENDS Shape, IngressProofs, FiniteSetTheorems, TLAPS

USE IngressAssumption, ShapeAssumption DEF historyVars
-----------------------------------------------------------------------------
(***************************************************************************)
(* Type correctness.  That pendingDelays stays a natural number is not a   *)
(* local matter: it needs that a worker about to subtract is counted.      *)
(***************************************************************************)
LEMMA IdsFinite == IsFiniteSet(Ids)
  BY FS_Interval DEF Ids

\* Finitely many packets are held, and finitely many workers live.
LEMMA LiveFinite == IsFiniteSet(LiveWorkers) /\ IsFiniteSet(Held)
  <1>1. LiveWorkers \subseteq Ids /\ Held \subseteq Ids
    BY DEF LiveWorkers, Held, InStates
  <1> QED
    BY <1>1, IdsFinite, FS_Subset

\* A worker that has not returned is counted.
LEMMA LiveIsCounted ==
    ASSUME PendingCountExact, NEW id \in LiveWorkers
    PROVE  pendingDelays \in Nat /\ pendingDelays >= 1
  <1>1. Cardinality(LiveWorkers) \in Nat
    BY LiveFinite, FS_CardinalityType
  <1>2. LiveWorkers # {}
    OBVIOUS
  <1>3. Cardinality(LiveWorkers) # 0
    BY <1>2, LiveFinite, FS_EmptySet
  <1> QED
    BY <1>1, <1>3 DEF PendingCountExact

\* Type correctness holds at the start.
LEMMA TypeInit == Init => TypeOK
  <1> SUFFICES ASSUME Init PROVE TypeOK
    OBVIOUS
  <1>1. IngressTypeOK
    BY IngressTypeInit DEF Init
  <1>2. NewPacer \in PacerState
    BY DEF NewPacer, PacerState, ZeroTime
  <1> QED
    BY <1>1, <1>2 DEF Init, TypeOK, HandlerTypeOK, SharedTypeOK, WorkerTypeOK,
                      CleanerTypeOK, Ids

\* Type correctness is kept by every step.
LEMMA TypeStep == IndInv /\ [Next]_vars => TypeOK'
  <1> SUFFICES ASSUME IndInv, [Next]_vars PROVE TypeOK'
    OBVIOUS
  <1>0. /\ TypeOK /\ Progress /\ PendingCountExact
        /\ IngressTypeOK /\ HandlerTypeOK /\ SharedTypeOK /\ WorkerTypeOK
        /\ CleanerTypeOK
    BY DEF IndInv, TypeOK
  <1> USE DEF TypeOK, HandlerTypeOK, SharedTypeOK, WorkerTypeOK, CleanerTypeOK
  <1>1. CASE ReceiveUnmatched
    <2>1. PICK p \in Inputs : AcceptUnmatched(p)
      BY <1>1 DEF ReceiveUnmatched
    <2>2. /\ rcvd' \in 0..MaxPackets /\ rcvd + 1 \in Ids
          /\ pkts' \in [Ids -> Inputs \cup {NoPacket}]
          /\ \A id \in Ids : pkts'[id] \in Inputs <=> id <= rcvd'
      BY <1>0, <2>1, DeliverType DEF AcceptUnmatched
    <2>3. verdict' \in [Ids -> Verdict] /\ lost' \in 0..MaxLost
      BY <1>0, <2>1, <2>2, NfAcceptType, SetVerdictType DEF AcceptUnmatched
    <2>4. IngressTypeOK'
      BY <1>0, <2>1, <2>2, <2>3 DEF AcceptUnmatched, IngressTypeOK
    <2> QED
      BY <1>0, <1>1, <2>4 DEF ReceiveUnmatched, handlerVars, sharedVars, workerVars,
                        cleanerVars
  <1>2. CASE ReceiveBypassed
    <2>1. PICK p \in Inputs : AcceptBypassed(p)
      BY <1>2 DEF ReceiveBypassed
    <2>2. /\ rcvd' \in 0..MaxPackets /\ rcvd + 1 \in Ids
          /\ pkts' \in [Ids -> Inputs \cup {NoPacket}]
          /\ \A id \in Ids : pkts'[id] \in Inputs <=> id <= rcvd'
      BY <1>0, <2>1, DeliverType DEF AcceptBypassed
    <2>3. verdict' \in [Ids -> Verdict] /\ lost' \in 0..MaxLost
      BY <1>0, <2>1, <2>2, NfAcceptType, SetVerdictType DEF AcceptBypassed
    <2>4. counters' \in [CounterNames -> Nat]
      BY <1>0, <2>1, IncType DEF AcceptBypassed, CounterNames
    <2>5. lastEvent' \in [Type : EventTypes, PacketID : 0..MaxPackets]
      BY <2>1, <2>2, RememberType DEF AcceptBypassed, EventTypes
    <2>6. IngressTypeOK'
      BY <1>0, <2>1, <2>2, <2>3, <2>4, <2>5 DEF AcceptBypassed, IngressTypeOK
    <2> QED
      BY <1>0, <1>2, <2>6 DEF ReceiveBypassed, handlerVars, sharedVars, workerVars,
                        cleanerVars
  <1>3. CASE Receive
    <2>1. PICK p \in Inputs : HandToPolicy(p)
      BY <1>3 DEF Receive
    <2>2. /\ rcvd' \in 0..MaxPackets
          /\ pkts' \in [Ids -> Inputs \cup {NoPacket}]
          /\ \A id \in Ids : pkts'[id] \in Inputs <=> id <= rcvd'
      BY <1>0, <2>1, DeliverType DEF HandToPolicy
    <2>3. IngressTypeOK'
      BY <1>0, <2>1, <2>2 DEF HandToPolicy, IngressTypeOK
    <2> QED
      BY <1>0, <1>3, <2>3 DEF Receive, IngressTypeOK, sharedVars, workerVars, cleanerVars
  <1>4. CASE FlowPendingDrop \/ AnswerDrop \/ AnswerAccept
    <2>1. rcvd \in Ids /\ rcvd <= rcvd
      BY <1>0, <1>4 DEF Progress, FlowPendingDrop, AnswerDrop, AnswerAccept,
                   DropDecisions, Decisions, Ids
    <2>2. verdict' \in [Ids -> Verdict] /\ lost' \in 0..MaxLost
      BY <1>0, <1>4, <2>1, DropOrRejectType, SetVerdictType, NfAcceptType
         DEF FlowPendingDrop, AnswerDrop, AnswerAccept
    <2>3. counters' \in [CounterNames -> Nat]
      BY <1>0, <1>4, IncType DEF FlowPendingDrop, AnswerDrop, AnswerAccept, CounterNames
    <2>4. lastEvent' \in [Type : EventTypes, PacketID : 0..MaxPackets]
      <3>1. CASE UNCHANGED lastEvent
        BY <1>0, <3>1 DEF IngressTypeOK
      <3>2. CASE \E t \in EventTypes : RememberEvent(t, rcvd)
        BY <2>1, <3>2, RememberType
      <3> QED
        BY <1>4, <3>1, <3>2 DEF FlowPendingDrop, AnswerDrop, AnswerAccept, EventTypes,
                           DropDecisions, Decisions
    <2>5. IngressTypeOK'
      BY <1>0, <1>4, <2>2, <2>3, <2>4
         DEF FlowPendingDrop, AnswerDrop, AnswerAccept, IngressTypeOK
    <2>6. releasedAt' \in [Ids -> Nat] /\ UNCHANGED stampedAt
      BY <1>0, <1>4, <2>1 DEF FlowPendingDrop, AnswerDrop, AnswerAccept, IngressTypeOK
    <2> QED
      BY <1>0, <1>4, <2>5, <2>6 DEF FlowPendingDrop, AnswerDrop, AnswerAccept, Return,
                        sharedVars, workerVars, cleanerVars
  <1>5. CASE LoadPacer
    <2>1. rcvd \in Ids
      BY <1>0, <1>5 DEF Progress, LoadPacer
    <2>2. InHand.ip \in IPs
      BY <1>0, <2>1 DEF InHand, IngressTypeOK, PacketInfo, Ids
    <2> QED
      BY <1>0, <1>5, <2>1, <2>2 DEF LoadPacer, ingressVars, IngressTypeOK, workerVars,
                              cleanerVars
  <1>6. CASE DecideAccept \/ DecideOverflow \/ DecideIPPending \/ DecideLimit
             \/ DecideDelay
    <2>1. rcvd \in Ids /\ pacerOf[rcvd] \in Ids
      BY <1>0, <1>6 DEF Progress, DecideAccept, DecideOverflow, DecideIPPending,
                   DecideLimit, DecideDelay, Decide
    <2>2. MyPacer \in PacerState
      BY <1>0, <2>1 DEF MyPacer
    <2>3. /\ Touched \in PacerState
          /\ [Touched EXCEPT !.Pending = TRUE] \in PacerState
          /\ [LastRelease |-> now, LastSeen |-> now, Pending |-> FALSE] \in PacerState
      BY <1>0, <2>2 DEF Touched, PacerState
    <2>4. pacers' \in [Ids -> PacerState]
      <3>1. \E q \in PacerState : SetPacer(q)
        BY <1>6, <2>3 DEF DecideAccept, DecideOverflow, DecideIPPending, DecideLimit,
                          DecideDelay
      <3> QED
        BY <1>0, <2>1, <3>1 DEF SetPacer
    <2>5. ActualDelay(MyPacer, now) \in Nat
      BY <1>0, <2>2 DEF ActualDelay, PacerState
    <2>6. delay' \in Nat /\ stampedAt' \in [Ids -> Nat] /\ UNCHANGED releasedAt
      BY <1>0, <1>6, <2>1, <2>5 DEF DecideAccept, DecideOverflow, DecideIPPending,
                   DecideLimit, DecideDelay, NotReady
    <2>7. /\ pc' \in Decisions
          /\ UNCHANGED <<clock, ingressVars, now, pacerOf, burstPacerByIP,
                   shapePendingFlows, pendingDelays, workerVars, cleanerVars>>
      BY <1>6 DEF DecideAccept, DecideOverflow, DecideIPPending,
                   DecideLimit, DecideDelay, Decide, Decisions
    <2> QED
      BY <1>0, <2>4, <2>6, <2>7 DEF ingressVars, IngressTypeOK, workerVars, cleanerVars
  <1>7. CASE SpawnWorker
    <2>1. rcvd \in Ids
      BY <1>0, <1>7 DEF Progress, SpawnWorker
    <2>2. InHand.flow \in Flows
      BY <1>0, <2>1 DEF InHand, IngressTypeOK, PacketInfo, Ids
    <2>3. IngressTypeOK'
      BY <1>0, <1>7, <2>1 DEF SpawnWorker, IngressTypeOK, Inc, RememberEvent,
                         EventTypes, CounterNames
    <2>4. clock + delay \in Nat
      BY <1>0 DEF IngressTypeOK
    <2>5. WorkerTypeOK'
      BY <1>0, <1>7, <2>1, <2>4 DEF SpawnWorker, StartWorker
    <2> QED
      BY <1>0, <1>7, <2>2, <2>3, <2>5 DEF SpawnWorker, Return, cleanerVars
  <1>8. ASSUME NEW id \in Ids, WorkerStep(id) PROVE TypeOK'
    <2>1. CASE Release(id)
      <3>1. pacerOf[id] \in Ids
        BY <1>0, <2>1 DEF Release, WorkerGoes, Progress
      <3>2. Released(pacers[pacerOf[id]], clock, wakeAt[id]) \in PacerState
        BY <1>0 DEF Released, PacerState, IngressTypeOK
      <3> QED
        BY <1>0, <2>1, <3>1, <3>2 DEF Release, WorkerGoes, IngressTypeOK, handlerVars,
                                 cleanerVars
    <2>2. CASE DeleteFlow(id)
      BY <1>0, <2>2 DEF DeleteFlow, WorkerGoes, IngressTypeOK, handlerVars, cleanerVars
    <2>3. CASE AnswerDelayed(id)
      <3>1. verdict' \in [Ids -> Verdict] /\ lost' \in 0..MaxLost
        BY <1>0, <2>3, SetVerdictType, NfAcceptType DEF AnswerDelayed
      <3>2. counters' \in [CounterNames -> Nat]
        BY <1>0, <2>3, IncType DEF AnswerDelayed, CountRelease, CounterNames
      <3>3. IngressTypeOK'
        BY <1>0, <2>3, <3>1, <3>2 DEF AnswerDelayed, WorkerGoes, IngressTypeOK
      <3>4. releasedAt' \in [Ids -> Nat]
        BY <1>0, <2>3 DEF AnswerDelayed, IngressTypeOK
      <3> QED
        BY <1>0, <2>3, <3>3, <3>4 DEF AnswerDelayed, WorkerGoes, handlerVars, cleanerVars
    <2>4. CASE Decrement(id)
      <3>1. id \in LiveWorkers
        BY <2>4 DEF Decrement, WorkerGoes, LiveWorkers, InStates
      <3>2. pendingDelays' \in Nat
        BY <1>0, <2>4, <3>1, LiveIsCounted DEF Decrement, AfterDecrement
      <3> QED
        BY <1>0, <2>4, <3>2 DEF Decrement, WorkerGoes, IngressTypeOK, handlerVars,
                           cleanerVars
    <2> QED
      BY <1>8, <2>1, <2>2, <2>3, <2>4 DEF WorkerStep
  <1>9. CASE CleanerStep
    BY <1>0, <1>9 DEF CleanerStep, CleanupTick, CleanupVisit, CleanupDelete, CleanupEnd,
                 CleanerUnchanged, ingressVars, IngressTypeOK, handlerVars, workerVars,
                 NoPacer
  <1>10. CASE Tick
    BY <1>0, <1>10 DEF Tick, ingressVars, IngressTypeOK, handlerVars, sharedVars,
                  workerVars, cleanerVars
  <1>11. CASE UNCHANGED vars
    BY <1>0, <1>11 DEF vars, ingressVars, IngressTypeOK, handlerVars, sharedVars,
                  workerVars, cleanerVars
  <1> QED
    BY <1>1, <1>2, <1>3, <1>4, <1>5, <1>6, <1>7, <1>8, <1>9, <1>10, <1>11
       DEF Next, HandlerStep
-----------------------------------------------------------------------------
(***************************************************************************)
(* The count of live workers, and the limit on it.                         *)
(***************************************************************************)
\* Only the callback that starts a worker and the workers themselves touch the
\* workers' state, the counter and the set of pending flows.
LEMMA WhoChangesWorkers ==
    ASSUME [Next]_vars
    PROVE  \/ SpawnWorker
           \/ \E id \in Ids : WorkerStep(id)
           \/ UNCHANGED <<wpc, wakeAt, pendingDelays, shapePendingFlows>>
  BY DEF Next, vars, HandlerStep, CleanerStep, ReceiveUnmatched, ReceiveBypassed,
         Receive, FlowPendingDrop, LoadPacer, DecideAccept, DecideOverflow,
         DecideIPPending, DecideLimit, DecideDelay, Decide, AnswerAccept, AnswerDrop,
         CleanupTick, CleanupVisit, CleanupDelete, CleanupEnd, CleanerUnchanged, Tick,
         sharedVars, workerVars

\* pendingDelays stays the number of live workers: SpawnWorker adds the packet
\* it starts a worker for, Decrement takes off the one that ends.
LEMMA CountStep == IndInv /\ [Next]_vars => PendingCountExact'
  <1> SUFFICES ASSUME IndInv, [Next]_vars PROVE PendingCountExact'
    OBVIOUS
  <1>0. TypeOK /\ WorkerTypeOK /\ Progress /\ PendingCountExact
    BY DEF IndInv, TypeOK
  <1> DEFINE L == LiveWorkers
  <1>a. pendingDelays = Cardinality(L) /\ IsFiniteSet(L) /\ Cardinality(L) \in Nat
    BY <1>0, LiveFinite, FS_CardinalityType DEF PendingCountExact
  <1>1. CASE SpawnWorker
    <2>1. rcvd \in Ids /\ rcvd \notin L
      BY <1>0, <1>1 DEF Progress, SpawnWorker, LiveWorkers, Held, InStates
    <2>2. LiveWorkers' = L \cup {rcvd}
      BY <1>0, <1>1, <2>1 DEF SpawnWorker, StartWorker, LiveWorkers, Held, InStates,
                         WorkerTypeOK
    <2>3. Cardinality(L \cup {rcvd}) = Cardinality(L) + 1
      BY <1>a, <2>1, FS_AddElement
    <2> QED
      BY <1>1, <1>a, <2>2, <2>3 DEF SpawnWorker, PendingCountExact
  <1>2. ASSUME NEW id \in Ids, Release(id) \/ DeleteFlow(id) \/ AnswerDelayed(id)
        PROVE  PendingCountExact'
    <2>1. LiveWorkers' = L /\ pendingDelays' = pendingDelays
      BY <1>0, <1>2 DEF Release, DeleteFlow, AnswerDelayed, WorkerGoes, LiveWorkers, Held,
                   InStates, WorkerTypeOK
    <2> QED
      BY <1>a, <2>1 DEF PendingCountExact
  <1>3. ASSUME NEW id \in Ids, Decrement(id) PROVE PendingCountExact'
    <2>1. id \in L /\ LiveWorkers' = L \ {id}
      BY <1>0, <1>3 DEF Decrement, WorkerGoes, LiveWorkers, Held, InStates, WorkerTypeOK
    <2>2. Cardinality(L \ {id}) = Cardinality(L) - 1
      BY <1>a, <2>1, FS_RemoveElement
    <2> QED
      BY <1>3, <1>a, <2>1, <2>2 DEF Decrement, AfterDecrement, PendingCountExact
  <1>4. CASE UNCHANGED <<wpc, wakeAt, pendingDelays, shapePendingFlows>>
    <2>1. LiveWorkers' = L
      BY <1>4 DEF LiveWorkers, Held, InStates
    <2> QED
      BY <1>4, <1>a, <2>1 DEF PendingCountExact
  <1> QED
    BY <1>1, <1>2, <1>3, <1>4, WhoChangesWorkers DEF WorkerStep

\* The limit is kept with the callback's reservation counted: only the callback
\* adds, and between its test and its addition the workers only subtract.
LEMMA LimitStep == IndInv /\ [Next]_vars => LimitKept'
  <1> SUFFICES ASSUME IndInv, [Next]_vars, MaxPendingDelays > 0 PROVE LimitKept'
    BY DEF LimitKept
  <1>0. pendingDelays \in Nat /\ LimitKept
    BY DEF IndInv, TypeOK, SharedTypeOK
  <1>1. CASE SpawnWorker
    BY <1>0, <1>1 DEF SpawnWorker, Return, LimitKept
  <1>2. ASSUME NEW id \in Ids, WorkerStep(id) PROVE LimitKept'
    <2>1. /\ pc' = pc
          /\ pendingDelays' = pendingDelays \/ pendingDelays' = pendingDelays - 1
      BY <1>0, <1>2 DEF WorkerStep, Release, DeleteFlow, AnswerDelayed, Decrement,
                   WorkerGoes, AfterDecrement, handlerVars
    <2>2. CASE pc = "SHAPE-DELAY"
      BY <1>0, <2>1, <2>2 DEF LimitKept
    <2>3. CASE pc # "SHAPE-DELAY"
      BY <1>0, <2>1, <2>3 DEF LimitKept
    <2> QED
      BY <2>2, <2>3
  <1>3. CASE DecideDelay
    BY <1>0, <1>3 DEF DecideDelay, Decide, LimitReached, LimitKept
  <1>4. CASE /\ UNCHANGED <<wpc, wakeAt, pendingDelays, shapePendingFlows>>
             /\ ~DecideDelay
    <2>1. pc' = pc \/ pc' # "SHAPE-DELAY"
      BY <1>4 DEF Next, vars, HandlerStep, CleanerStep, ReceiveUnmatched,
         ReceiveBypassed, Receive, FlowPendingDrop, LoadPacer, DecideAccept,
         DecideOverflow, DecideIPPending, DecideLimit, Decide, AnswerAccept, AnswerDrop,
         SpawnWorker, WorkerStep, Release, DeleteFlow, AnswerDelayed, Decrement,
         WorkerGoes, CleanupTick, CleanupVisit, CleanupDelete, CleanupEnd,
         CleanerUnchanged, Tick, handlerVars, Return
    <2> QED
      BY <1>0, <1>4, <2>1 DEF LimitKept
  <1> QED
    BY <1>1, <1>2, <1>3, <1>4, WhoChangesWorkers
-----------------------------------------------------------------------------
(***************************************************************************)
(* The pending flows.                                                      *)
(***************************************************************************)
\* What is known of a delivered packet does not change.
LEMMA PktsStep ==
    ASSUME IngressTypeOK, [Next]_vars
    PROVE  \A id \in 1..rcvd : pkts'[id] = pkts[id]
  <1>1. CASE ReceiveUnmatched \/ ReceiveBypassed \/ Receive
    <2>1. PICK p \in Inputs : Deliver(p)
      BY <1>1 DEF ReceiveUnmatched, ReceiveBypassed, Receive, AcceptUnmatched,
             AcceptBypassed, HandToPolicy
    <2> QED
      BY <2>1, DeliverType
  <1>2. CASE UNCHANGED pkts
    BY <1>2
  <1> QED
    BY <1>1, <1>2
       DEF Next, vars, HandlerStep, CleanerStep, FlowPendingDrop, LoadPacer,
         DecideAccept, DecideOverflow, DecideIPPending, DecideLimit, DecideDelay,
         Decide, AnswerAccept, AnswerDrop, SpawnWorker, WorkerStep, Release, DeleteFlow,
         AnswerDelayed, Decrement, WorkerGoes, CleanupTick, CleanupVisit, CleanupDelete,
         CleanupEnd, CleanerUnchanged, Tick, ingressVars

\* shapePendingFlows stays the set of the flows of sleeping workers.
LEMMA FlowStep == IndInv /\ [Next]_vars => FlowsMatchWorkers'
  <1> SUFFICES ASSUME IndInv, [Next]_vars PROVE FlowsMatchWorkers'
    OBVIOUS
  <1>0. /\ IngressTypeOK /\ WorkerTypeOK /\ Progress /\ FlowsMatchWorkers
        /\ rcvd \in 0..MaxPackets
    BY DEF IndInv, TypeOK, IngressTypeOK
  <1> DEFINE W == InStates({"asleep", "released"})
  <1>a. /\ shapePendingFlows = {pkts[id].flow : id \in W}
        /\ \A i, j \in W : pkts[i].flow = pkts[j].flow => i = j
        /\ W \subseteq Ids
    BY <1>0 DEF FlowsMatchWorkers, InStates
  <1>b. \A id \in W : pkts'[id] = pkts[id]
    <2>1. W \subseteq 1..rcvd
      BY <1>0 DEF Progress, InStates, Ids
    <2> QED
      BY <1>0, <2>1, PktsStep
  <1>1. CASE SpawnWorker
    <2>1. /\ rcvd \in Ids /\ pkts' = pkts
          /\ pkts[rcvd].flow \notin shapePendingFlows
      BY <1>0, <1>1 DEF Progress, SpawnWorker
    <2>2. W' = W \cup {rcvd}
      BY <1>0, <1>1, <2>1 DEF SpawnWorker, StartWorker, InStates, WorkerTypeOK
    <2>3. shapePendingFlows' = shapePendingFlows \cup {pkts[rcvd].flow}
      BY <1>1 DEF SpawnWorker, InHand
    <2> QED
      BY <1>a, <2>1, <2>2, <2>3 DEF FlowsMatchWorkers
  <1>2. ASSUME NEW id \in Ids, WorkerStep(id) PROVE FlowsMatchWorkers'
    <2>1. CASE DeleteFlow(id)
      <3>1. /\ pkts' = pkts /\ id \in W /\ W' = W \ {id}
            /\ shapePendingFlows' = shapePendingFlows \ {pkts[id].flow}
        BY <1>0, <2>1 DEF DeleteFlow, WorkerGoes, InStates, WorkerTypeOK
      <3> QED
        BY <1>a, <3>1 DEF FlowsMatchWorkers
    <2>2. CASE Release(id) \/ AnswerDelayed(id) \/ Decrement(id)
      <3>1. pkts' = pkts /\ W' = W /\ shapePendingFlows' = shapePendingFlows
        BY <1>0, <2>2 DEF Release, AnswerDelayed, Decrement, WorkerGoes, InStates,
                     WorkerTypeOK
      <3> QED
        BY <1>a, <3>1 DEF FlowsMatchWorkers
    <2> QED
      BY <1>2, <2>1, <2>2 DEF WorkerStep
  <1>3. CASE UNCHANGED <<wpc, wakeAt, pendingDelays, shapePendingFlows>>
    <2>1. W' = W
      BY <1>3 DEF InStates
    <2> QED
      BY <1>3, <1>a, <1>b, <2>1 DEF FlowsMatchWorkers
  <1> QED
    BY <1>1, <1>2, <1>3, WhoChangesWorkers
-----------------------------------------------------------------------------
(***************************************************************************)
(* How far every packet is.                                                *)
(***************************************************************************)

\* What is known of the packet in hand and of the held ones is kept.
LEMMA ProgressStep == IndInv /\ [Next]_vars => Progress'
  <1> SUFFICES ASSUME IndInv, [Next]_vars PROVE Progress'
    OBVIOUS
  <1>0. /\ IngressTypeOK /\ HandlerTypeOK /\ WorkerTypeOK /\ SharedTypeOK
        /\ Progress /\ OpenPackets /\ FlowsMatchWorkers
        /\ rcvd \in 0..MaxPackets /\ clock \in Nat \ {0}
    BY DEF IndInv, TypeOK, IngressTypeOK
  <1>1. CASE ReceiveUnmatched \/ ReceiveBypassed
    <2>1. /\ pc = "idle" /\ pc' = "idle"
          /\ UNCHANGED <<handlerVars, sharedVars, workerVars, stampedAt>>
      BY <1>1 DEF ReceiveUnmatched, ReceiveBypassed, handlerVars
    <2>2. PICK p \in Inputs : Deliver(p) /\ SetVerdict(rcvd + 1, NfAccept)
      BY <1>1 DEF ReceiveUnmatched, ReceiveBypassed, AcceptUnmatched, AcceptBypassed
    <2>3. rcvd' = rcvd + 1 /\ rcvd + 1 \in Ids
      BY <1>0, <2>2, DeliverType
    <2>4. \A other \in Ids \ {rcvd + 1} : verdict'[other] = verdict[other]
      BY <1>0, <2>2, <2>3, SetVerdictAnswers, NfAcceptAnswers
    <2> QED
      BY <1>0, <2>1, <2>3, <2>4 DEF Progress, handlerVars, sharedVars, workerVars, Ids
  <1>2. CASE Receive
    <2>1. PICK p \in Inputs : Deliver(p) /\ UNCHANGED <<clock, verdict>>
      BY <1>2 DEF Receive, HandToPolicy
    <2>2. rcvd' = rcvd + 1 /\ rcvd + 1 \in Ids
      BY <1>0, <2>1, DeliverType
    <2> QED
      BY <1>0, <1>2, <2>1, <2>2 DEF Receive, Progress, sharedVars, workerVars, Ids
  <1>3. CASE FlowPendingDrop \/ AnswerDrop \/ AnswerAccept
    <2>1. rcvd \in Ids
      BY <1>0, <1>3 DEF Progress, FlowPendingDrop, AnswerDrop, AnswerAccept,
                   DropDecisions, Decisions
    <2>2. \A other \in Ids \ {rcvd} : verdict'[other] = verdict[other]
      BY <1>0, <1>3, <2>1, SetVerdictAnswers, DropOrRejectAnswers, NfAcceptAnswers
         DEF FlowPendingDrop, AnswerDrop, AnswerAccept
    <2>3. /\ pc' = "idle"
          /\ UNCHANGED <<rcvd, pacerOf, wpc, stampedAt, shapePendingFlows>>
      BY <1>3 DEF FlowPendingDrop, AnswerDrop, AnswerAccept, Return, workerVars,
             sharedVars
    <2> QED
      BY <1>0, <2>1, <2>2, <2>3 DEF Progress, Ids
  <1>4. CASE LoadPacer
    <2>1. rcvd \in Ids /\ rcvd # NoPacer
      BY <1>0, <1>4 DEF Progress, LoadPacer, NoPacer, Ids
    <2>2. /\ pc = "flow" /\ pc' = "lock"
          /\ pkts[rcvd].flow \notin shapePendingFlows
          /\ UNCHANGED <<clock, rcvd, pkts, verdict, now, wpc, stampedAt,
                         shapePendingFlows>>
      BY <1>4 DEF LoadPacer, FlowPending, InHand, ingressVars, workerVars
    <2>3. PICK o \in Ids : pacerOf' = [pacerOf EXCEPT ![rcvd] = o]
      <3>1. InHand.ip \in IPs
        BY <1>0, <2>1 DEF InHand, IngressTypeOK, PacketInfo, Ids
      <3> QED
        BY <1>0, <1>4, <2>1, <3>1 DEF LoadPacer, SharedTypeOK
    <2>4. o # NoPacer
      BY <2>3 DEF Ids, NoPacer
    <2>5. pacerOf'[rcvd] = o /\ \A id \in Ids \ {rcvd} : pacerOf'[id] = pacerOf[id]
      BY <1>0, <2>1, <2>3 DEF HandlerTypeOK
    <2> QED
      BY <1>0, <2>1, <2>2, <2>4, <2>5 DEF Progress, Ids
  <1>5. CASE DecideAccept \/ DecideOverflow \/ DecideIPPending \/ DecideLimit
             \/ DecideDelay
    <2>1. /\ pc = "lock" /\ pc' \in Decisions /\ (pc' = "SHAPE-ACCEPT" <=> DecideAccept)
          /\ UNCHANGED <<clock, rcvd, pkts, verdict, now, pacerOf, shapePendingFlows,
                         wpc>>
      BY <1>5 DEF DecideAccept, DecideOverflow, DecideIPPending, DecideLimit,
             DecideDelay, Decide, Decisions, ingressVars, workerVars
    <2>2. IF DecideAccept THEN stampedAt' = [stampedAt EXCEPT ![rcvd] = now]
                          ELSE stampedAt' = stampedAt
      BY <1>5, <2>1 DEF DecideAccept, DecideOverflow, DecideIPPending, DecideLimit,
             DecideDelay, NotReady
    <2>3. pc' # "idle" /\ pc' # "flow"
      BY <2>1 DEF Decisions
    <2>4. rcvd \in Ids
      BY <1>0, <2>1 DEF Progress
    <2>5. /\ \A id \in Ids \ {rcvd} : stampedAt'[id] = stampedAt[id]
          /\ ~DecideAccept => stampedAt'[rcvd] = stampedAt[rcvd]
      BY <1>0, <2>2 DEF WorkerTypeOK
    <2> QED
      BY <1>0, <2>1, <2>3, <2>4, <2>5 DEF Progress, Ids
  <1>6. CASE SpawnWorker
    <2>1. /\ pc = "SHAPE-DELAY" /\ pc' = "idle" /\ rcvd \in Ids
          /\ UNCHANGED <<rcvd, verdict, pacerOf, stampedAt>>
      BY <1>0, <1>6 DEF SpawnWorker, Return, Progress
    <2>2. /\ wpc'[rcvd] = "asleep"
          /\ \A id \in Ids \ {rcvd} : wpc'[id] = wpc[id]
      BY <1>0, <1>6, <2>1 DEF SpawnWorker, StartWorker, WorkerTypeOK
    <2> QED
      BY <1>0, <2>1, <2>2 DEF Progress, Ids
  <1>7. ASSUME NEW id \in Ids, WorkerStep(id) PROVE Progress'
    <2>1. /\ wpc[id] # "none" /\ wpc'[id] # "none" /\ wpc'[id] # "asleep"
          /\ \A other \in Ids \ {id} : wpc'[other] = wpc[other]
          /\ UNCHANGED <<clock, rcvd, pkts, pc, now, pacerOf>>
      BY <1>0, <1>7 DEF WorkerStep, Release, DeleteFlow, AnswerDelayed, Decrement,
                   WorkerGoes, WorkerTypeOK, handlerVars
    <2>2. id <= rcvd /\ (pc # "idle" => id # rcvd) /\ pacerOf[id] # NoPacer
      BY <1>0, <2>1 DEF Progress, Ids
    <2>3. \A other \in Ids \ {id} : verdict'[other] = verdict[other]
      <3>1. CASE AnswerDelayed(id)
        BY <1>0, <3>1, SetVerdictAnswers, NfAcceptAnswers DEF AnswerDelayed
      <3>2. CASE UNCHANGED verdict
        BY <3>2
      <3> QED
        BY <1>7, <3>1, <3>2 DEF WorkerStep, Release, DeleteFlow, Decrement
    <2>4. \A other \in Ids \ {id} : stampedAt'[other] = stampedAt[other]
      BY <1>0, <1>7 DEF WorkerStep, Release, DeleteFlow, AnswerDelayed, Decrement,
                   WorkerTypeOK
    <2>5. shapePendingFlows' \subseteq shapePendingFlows
      BY <1>7 DEF WorkerStep, Release, DeleteFlow, AnswerDelayed, Decrement
    <2> QED
      BY <1>0, <2>1, <2>2, <2>3, <2>4, <2>5 DEF Progress, Ids
  <1>8. CASE CleanerStep
    <2>1. UNCHANGED <<clock, rcvd, pkts, verdict, pc, now, pacerOf, wpc, stampedAt,
                      shapePendingFlows>>
      BY <1>8 DEF CleanerStep, CleanupTick, CleanupVisit, CleanupDelete, CleanupEnd,
             CleanerUnchanged, ingressVars, handlerVars, workerVars
    <2> QED
      BY <1>0, <2>1 DEF Progress
  <1>9. CASE Tick
    BY <1>0, <1>9 DEF Tick, Progress, ingressVars, handlerVars, sharedVars, workerVars,
                 HandlerTypeOK
  <1>10. CASE UNCHANGED vars
    BY <1>0, <1>10 DEF vars, Progress, ingressVars, handlerVars, sharedVars, workerVars
  <1> QED
    BY <1>1, <1>2, <1>3, <1>4, <1>5, <1>6, <1>7, <1>8, <1>9, <1>10
       DEF Next, HandlerStep

\* The packets without a verdict are still the one in hand and the held ones.
LEMMA OpenStep == IndInv /\ [Next]_vars => OpenPackets'
  <1> SUFFICES ASSUME IndInv, [Next]_vars PROVE OpenPackets'
    OBVIOUS
  <1>0. /\ IngressTypeOK /\ HandlerTypeOK /\ WorkerTypeOK
        /\ Progress /\ OpenPackets
        /\ rcvd \in 0..MaxPackets
    BY DEF IndInv, TypeOK, IngressTypeOK
  <1> USE DEF Held, InStates
  <1>1. CASE ReceiveUnmatched \/ ReceiveBypassed
    <2>1. pc = "idle" /\ pc' = "idle" /\ wpc' = wpc
      BY <1>1 DEF ReceiveUnmatched, ReceiveBypassed, handlerVars, workerVars
    <2>2. PICK p \in Inputs : Deliver(p) /\ SetVerdict(rcvd + 1, NfAccept)
      BY <1>1 DEF ReceiveUnmatched, ReceiveBypassed, AcceptUnmatched, AcceptBypassed
    <2>3. rcvd' = rcvd + 1 /\ rcvd + 1 \in Ids
      BY <1>0, <2>2, DeliverType
    <2>4. /\ verdict'[rcvd + 1] # Unanswered
          /\ \A other \in Ids \ {rcvd + 1} : verdict'[other] = verdict[other]
      BY <1>0, <2>2, <2>3, SetVerdictAnswers, NfAcceptAnswers
    <2> QED
      BY <1>0, <2>1, <2>3, <2>4 DEF OpenPackets, Progress, Ids
  <1>2. CASE Receive
    <2>1. PICK p \in Inputs : Deliver(p) /\ UNCHANGED verdict
      BY <1>2 DEF Receive, HandToPolicy
    <2>2. rcvd' = rcvd + 1 /\ rcvd + 1 \in Ids
      BY <1>0, <2>1, DeliverType
    <2> QED
      BY <1>0, <1>2, <2>1, <2>2 DEF Receive, OpenPackets, Progress, workerVars, Ids
  <1>3. CASE FlowPendingDrop \/ AnswerDrop \/ AnswerAccept
    <2>1. rcvd \in Ids /\ pc # "idle" /\ wpc[rcvd] = "none"
      BY <1>0, <1>3 DEF Progress, FlowPendingDrop, AnswerDrop, AnswerAccept,
                   DropDecisions, Decisions
    <2>2. /\ verdict'[rcvd] # Unanswered
          /\ \A other \in Ids \ {rcvd} : verdict'[other] = verdict[other]
      BY <1>0, <1>3, <2>1, SetVerdictAnswers, DropOrRejectAnswers, NfAcceptAnswers
         DEF FlowPendingDrop, AnswerDrop, AnswerAccept
    <2>3. pc' = "idle" /\ rcvd' = rcvd /\ wpc' = wpc
      BY <1>3 DEF FlowPendingDrop, AnswerDrop, AnswerAccept, Return, workerVars
    <2> QED
      BY <1>0, <2>1, <2>2, <2>3 DEF OpenPackets, Ids
  <1>4. CASE LoadPacer \/ DecideAccept \/ DecideOverflow \/ DecideIPPending
             \/ DecideLimit \/ DecideDelay
    <2>1. pc # "idle" /\ pc' # "idle" /\ UNCHANGED <<rcvd, verdict, wpc>>
      BY <1>4 DEF LoadPacer, DecideAccept, DecideOverflow, DecideIPPending, DecideLimit,
             DecideDelay, Decide, ingressVars, workerVars
    <2> QED
      BY <1>0, <2>1 DEF OpenPackets
  <1>5. CASE SpawnWorker
    <2>1. /\ pc = "SHAPE-DELAY" /\ pc' = "idle" /\ rcvd \in Ids
          /\ verdict[rcvd] = Unanswered /\ UNCHANGED <<rcvd, verdict>>
      BY <1>0, <1>5 DEF SpawnWorker, Return, Progress
    <2>2. /\ wpc'[rcvd] = "asleep"
          /\ \A id \in Ids \ {rcvd} : wpc'[id] = wpc[id]
      BY <1>0, <1>5, <2>1 DEF SpawnWorker, StartWorker, WorkerTypeOK
    <2> QED
      BY <1>0, <2>1, <2>2 DEF OpenPackets, Ids
  <1>6. ASSUME NEW id \in Ids, WorkerStep(id) PROVE OpenPackets'
    <2>1. /\ wpc[id] # "none"
          /\ \A other \in Ids \ {id} : wpc'[other] = wpc[other]
          /\ UNCHANGED <<rcvd, pc>>
      BY <1>0, <1>6 DEF WorkerStep, Release, DeleteFlow, AnswerDelayed, Decrement,
                   WorkerGoes, WorkerTypeOK, handlerVars
    <2>2. pc # "idle" => id # rcvd
      BY <1>0, <2>1 DEF Progress
    <2>3. CASE AnswerDelayed(id)
      <3>1. /\ verdict'[id] # Unanswered
            /\ \A other \in Ids \ {id} : verdict'[other] = verdict[other]
        BY <1>0, <2>3, SetVerdictAnswers, NfAcceptAnswers DEF AnswerDelayed
      <3>2. wpc'[id] = "answered"
        BY <1>0, <2>3 DEF AnswerDelayed, WorkerGoes, WorkerTypeOK
      <3> QED
        BY <1>0, <2>1, <2>2, <3>1, <3>2 DEF OpenPackets, Ids
    <2>4. CASE Release(id) \/ DeleteFlow(id) \/ Decrement(id)
      <3>1. /\ verdict' = verdict
            /\ \/ wpc[id] = "asleep" /\ wpc'[id] = "released"
               \/ wpc[id] = "released" /\ wpc'[id] = "forgotten"
               \/ wpc[id] = "answered" /\ wpc'[id] = "done"
        BY <1>0, <2>4 DEF Release, DeleteFlow, Decrement, WorkerGoes, WorkerTypeOK
      <3> QED
        BY <1>0, <2>1, <3>1 DEF OpenPackets, Ids
    <2> QED
      BY <1>6, <2>3, <2>4 DEF WorkerStep
  <1>7. CASE CleanerStep \/ Tick \/ UNCHANGED vars
    <2>1. UNCHANGED <<rcvd, verdict, pc, wpc>>
      BY <1>7 DEF CleanerStep, CleanupTick, CleanupVisit, CleanupDelete, CleanupEnd,
             CleanerUnchanged, Tick, vars, ingressVars, handlerVars, workerVars
    <2> QED
      BY <1>0, <2>1 DEF OpenPackets
  <1> QED
    BY <1>1, <1>2, <1>3, <1>4, <1>5, <1>6, <1>7 DEF Next, HandlerStep
-----------------------------------------------------------------------------
(***************************************************************************)
(* The pacers.  Two steps stamp LastRelease, two set or clear Pending; all *)
(* the others leave both fields of every pacer alone.                      *)
(***************************************************************************)
\* A decision not to accept leaves LastRelease; only DecideDelay sets Pending.
LEMMA TouchPacer ==
    ASSUME IndInv, DecideOverflow \/ DecideIPPending \/ DecideLimit \/ DecideDelay
    PROVE  /\ \A o \in Ids : pacers'[o].LastRelease = pacers[o].LastRelease
           /\ \A o \in Ids : pacers'[o].Pending =>
                 pacers[o].Pending \/ (DecideDelay /\ o = pacerOf[rcvd])
           /\ rcvd \in Ids /\ pacerOf[rcvd] \in Ids
  <1>1. rcvd \in Ids /\ pacerOf[rcvd] \in Ids /\ pacers \in [Ids -> PacerState]
    BY DEF IndInv, TypeOK, HandlerTypeOK, SharedTypeOK, Progress, DecideOverflow,
           DecideIPPending, DecideLimit, DecideDelay, Decide
  <1>2. MyPacer \in PacerState
    BY <1>1 DEF MyPacer
  <1>3. /\ Touched.LastRelease = MyPacer.LastRelease
        /\ Touched.Pending = MyPacer.Pending
        /\ [Touched EXCEPT !.Pending = TRUE].LastRelease = MyPacer.LastRelease
    BY <1>2 DEF Touched, PacerState
  <1>4. CASE DecideDelay
    BY <1>1, <1>3, <1>4 DEF DecideDelay, SetPacer, MyPacer
  <1>5. CASE DecideOverflow \/ DecideIPPending \/ DecideLimit
    BY <1>1, <1>3, <1>5 DEF DecideOverflow, DecideIPPending, DecideLimit, SetPacer, MyPacer
  <1> QED
    BY <1>1, <1>4, <1>5

\* What DecideAccept leaves in the pacers.
LEMMA AcceptPacer ==
    ASSUME IndInv, DecideAccept
    PROVE  /\ rcvd \in Ids /\ pacerOf[rcvd] \in Ids
           /\ pacers'[pacerOf[rcvd]].LastRelease = now
           /\ ~pacers'[pacerOf[rcvd]].Pending
           /\ \A o \in Ids \ {pacerOf[rcvd]} : pacers'[o] = pacers[o]
           /\ 1 <= now /\ now <= clock
           /\ pacers[pacerOf[rcvd]].LastRelease \in Nat
           /\ \/ pacers[pacerOf[rcvd]].LastRelease = 0
              \/ now >= pacers[pacerOf[rcvd]].LastRelease + BurstInterval
  <1>1. /\ rcvd \in Ids /\ pacerOf[rcvd] \in Ids /\ pacers \in [Ids -> PacerState]
        /\ 1 <= now /\ now <= clock /\ now \in Nat
    BY DEF IndInv, TypeOK, HandlerTypeOK, SharedTypeOK, Progress, DecideAccept, Decide
  <1>2. pacers[pacerOf[rcvd]].LastRelease \in Nat
    BY <1>1 DEF PacerState
  <1> QED
    BY <1>1, <1>2 DEF DecideAccept, SetPacer, Ready, MyPacer, ZeroTime

\* What a worker leaves in the pacers.
LEMMA ReleasePacer ==
    ASSUME IndInv, NEW id \in Ids, Release(id)
    PROVE  /\ pacerOf[id] \in Ids
           /\ pacers'[pacerOf[id]].LastRelease = clock
           /\ ~pacers'[pacerOf[id]].Pending
           /\ \A o \in Ids \ {pacerOf[id]} : pacers'[o] = pacers[o]
  <1>1. pacerOf[id] \in Ids /\ pacers \in [Ids -> PacerState]
    BY DEF IndInv, TypeOK, HandlerTypeOK, SharedTypeOK, Progress, Release, WorkerGoes
  <1> QED
    BY <1>1 DEF Release, Released

\* Only DecideAccept, the other decisions and Release write to a pacer.
LEMMA WhoChangesPacers ==
    ASSUME [Next]_vars
    PROVE  \/ DecideAccept
           \/ DecideOverflow \/ DecideIPPending \/ DecideLimit \/ DecideDelay
           \/ \E id \in Ids : Release(id)
           \/ UNCHANGED pacers
  BY DEF Next, vars, HandlerStep, CleanerStep, ReceiveUnmatched, ReceiveBypassed,
         Receive, FlowPendingDrop, LoadPacer, AnswerAccept, AnswerDrop, SpawnWorker,
         WorkerStep, DeleteFlow, AnswerDelayed, Decrement, CleanupTick, CleanupVisit,
         CleanupDelete, CleanupEnd, CleanerUnchanged, Tick, sharedVars

\* The clock never goes back.
LEMMA ClockStep == IndInv /\ [Next]_vars => clock' >= clock /\ clock' \in Nat
  <1> SUFFICES ASSUME IndInv, [Next]_vars PROVE clock' >= clock /\ clock' \in Nat
    OBVIOUS
  <1>1. clock \in Nat
    BY DEF IndInv, TypeOK, IngressTypeOK
  <1>2. clock' = clock \/ clock' = clock + 1
    BY DEF Next, vars, HandlerStep, CleanerStep, ReceiveUnmatched, ReceiveBypassed,
         Receive, AcceptUnmatched, AcceptBypassed, HandToPolicy, FlowPendingDrop,
         LoadPacer, DecideAccept, DecideOverflow, DecideIPPending, DecideLimit,
         DecideDelay, Decide, AnswerAccept, AnswerDrop, SpawnWorker, WorkerStep, Release,
         DeleteFlow, AnswerDelayed, Decrement, WorkerGoes, CleanupTick, CleanupVisit,
         CleanupDelete, CleanupEnd, CleanerUnchanged, Tick
  <1> QED
    BY <1>1, <1>2

\* No pacer is stamped with a time to come.
LEMMA StampsStep == IndInv /\ [Next]_vars => StampsPast'
  <1> SUFFICES ASSUME IndInv, [Next]_vars, NEW o \in Ids
               PROVE  pacers'[o].LastRelease <= clock'
    BY DEF StampsPast
  <1>0. /\ clock \in Nat /\ clock' \in Nat /\ clock' >= clock
        /\ pacers[o].LastRelease \in Nat /\ pacers[o].LastRelease <= clock
    BY ClockStep DEF IndInv, TypeOK, IngressTypeOK, SharedTypeOK, PacerState, StampsPast
  <1>1. CASE DecideAccept
    <2>1. now \in Nat
      BY DEF IndInv, TypeOK, HandlerTypeOK
    <2> QED
      BY <1>0, <1>1, <2>1, AcceptPacer
  <1>2. CASE DecideOverflow \/ DecideIPPending \/ DecideLimit \/ DecideDelay
    BY <1>0, <1>2, TouchPacer
  <1>3. ASSUME NEW id \in Ids, Release(id) PROVE pacers'[o].LastRelease <= clock'
    BY <1>0, <1>3, ReleasePacer
  <1>4. CASE UNCHANGED pacers
    BY <1>0, <1>4
  <1> QED
    BY <1>1, <1>2, <1>3, <1>4, WhoChangesPacers

\* A stamp never goes back: an accept comes BurstInterval after the last stamp,
\* a worker stamps the present.
LEMMA MonotoneStep ==
    IndInv /\ [Next]_vars =>
        \A o \in Ids : pacers'[o].LastRelease >= pacers[o].LastRelease
  <1> SUFFICES ASSUME IndInv, [Next]_vars, NEW o \in Ids
               PROVE  pacers'[o].LastRelease >= pacers[o].LastRelease
    OBVIOUS
  <1>0. /\ clock \in Nat /\ now \in Nat
        /\ pacers[o].LastRelease \in Nat /\ pacers[o].LastRelease <= clock
    BY DEF IndInv, TypeOK, IngressTypeOK, HandlerTypeOK, SharedTypeOK, PacerState,
           StampsPast
  <1>1. CASE DecideAccept
    BY <1>0, <1>1, AcceptPacer
  <1>2. CASE DecideOverflow \/ DecideIPPending \/ DecideLimit \/ DecideDelay
    BY <1>0, <1>2, TouchPacer
  <1>3. ASSUME NEW id \in Ids, Release(id)
        PROVE  pacers'[o].LastRelease >= pacers[o].LastRelease
    BY <1>0, <1>3, ReleasePacer
  <1>4. CASE UNCHANGED pacers
    BY <1>0, <1>4
  <1> QED
    BY <1>1, <1>2, <1>3, <1>4, WhoChangesPacers

\* A pacer that says Pending keeps somebody to clear it.
LEMMA StuckStep == IndInv /\ [Next]_vars => NoStuckPending'
  <1> SUFFICES ASSUME IndInv, [Next]_vars, NEW o \in Ids, pacers'[o].Pending
               PROVE  \/ pc' = "SHAPE-DELAY" /\ pacerOf'[rcvd'] = o
                      \/ \E id \in Ids : wpc'[id] = "asleep" /\ pacerOf'[id] = o
    BY DEF NoStuckPending, InStates
  <1>0. /\ HandlerTypeOK /\ WorkerTypeOK /\ Progress
        /\ pacers[o].Pending =>
              \/ pc = "SHAPE-DELAY" /\ pacerOf[rcvd] = o
              \/ \E id \in Ids : wpc[id] = "asleep" /\ pacerOf[id] = o
    BY DEF IndInv, TypeOK, NoStuckPending, InStates
  <1>1. CASE DecideAccept
    <2>1. pacers[o].Pending /\ UNCHANGED <<wpc, pacerOf>> /\ pc = "lock"
      BY <1>1, AcceptPacer DEF DecideAccept, Decide, workerVars
    <2> QED
      BY <1>0, <2>1
  <1>2. CASE DecideOverflow \/ DecideIPPending \/ DecideLimit \/ DecideDelay
    <2>1. /\ pacers[o].Pending \/ (DecideDelay /\ o = pacerOf[rcvd])
          /\ UNCHANGED <<wpc, pacerOf, rcvd>> /\ pc = "lock"
          /\ DecideDelay => pc' = "SHAPE-DELAY"
      BY <1>2, TouchPacer DEF DecideOverflow, DecideIPPending, DecideLimit, DecideDelay,
                          Decide, ingressVars, workerVars
    <2> QED
      BY <1>0, <2>1
  <1>3. ASSUME NEW id \in Ids, Release(id)
        PROVE  \/ pc' = "SHAPE-DELAY" /\ pacerOf'[rcvd'] = o
               \/ \E i \in Ids : wpc'[i] = "asleep" /\ pacerOf'[i] = o
    <2>1. o # pacerOf[id] /\ pacers[o].Pending
      BY <1>3, ReleasePacer
    <2>2. /\ UNCHANGED <<pc, rcvd, pacerOf>>
          /\ \A i \in Ids \ {id} : wpc'[i] = wpc[i]
      BY <1>0, <1>3 DEF Release, WorkerGoes, handlerVars, WorkerTypeOK
    <2> QED
      BY <1>0, <2>1, <2>2
  <1>4. CASE UNCHANGED pacers
    <2>0. pacers[o].Pending
      BY <1>4
    <2>1. CASE SpawnWorker
      <3>1. pacerOf' = pacerOf /\ rcvd \in Ids
        BY <1>0, <2>1 DEF SpawnWorker, Return, Progress
      <3>2. wpc'[rcvd] = "asleep" /\ \A id \in Ids \ {rcvd} : wpc'[id] = wpc[id]
        BY <1>0, <2>1, <3>1 DEF SpawnWorker, StartWorker, WorkerTypeOK
      <3> QED
        BY <1>0, <2>0, <3>1, <3>2
    <2>2. ASSUME NEW id \in Ids, WorkerStep(id), ~Release(id)
          PROVE  \/ pc' = "SHAPE-DELAY" /\ pacerOf'[rcvd'] = o
                 \/ \E i \in Ids : wpc'[i] = "asleep" /\ pacerOf'[i] = o
      <3>1. /\ wpc[id] # "asleep" /\ UNCHANGED <<pc, rcvd, pacerOf>>
            /\ \A i \in Ids \ {id} : wpc'[i] = wpc[i]
        BY <1>0, <2>2 DEF WorkerStep, DeleteFlow, AnswerDelayed, Decrement, WorkerGoes,
                     handlerVars, WorkerTypeOK
      <3> QED
        BY <1>0, <2>0, <3>1
    <2>3. CASE LoadPacer
      <3>1. /\ pc = "flow" /\ wpc' = wpc /\ wpc[rcvd] = "none" /\ rcvd \in Ids
            /\ \A id \in Ids \ {rcvd} : pacerOf'[id] = pacerOf[id]
        BY <1>0, <2>3 DEF LoadPacer, Progress, workerVars, HandlerTypeOK
      <3> QED
        BY <1>0, <2>0, <3>1
    <2>4. CASE /\ UNCHANGED <<wpc, pacerOf>>
               /\ pc # "SHAPE-DELAY" \/ UNCHANGED <<pc, rcvd>>
      BY <1>0, <2>0, <2>4
    <2> QED
      BY <1>1, <1>2, <1>3, <2>1, <2>2, <2>3, <2>4
         DEF Next, vars, HandlerStep, CleanerStep, ReceiveUnmatched, ReceiveBypassed,
             Receive, FlowPendingDrop, AnswerAccept, AnswerDrop, DropDecisions,
             CleanupTick, CleanupVisit, CleanupDelete, CleanupEnd, CleanerUnchanged,
             Tick, ingressVars, handlerVars, workerVars, Return, WorkerStep
  <1> QED
    BY <1>1, <1>2, <1>3, <1>4, WhoChangesPacers
-----------------------------------------------------------------------------
(***************************************************************************)
(* The interval behind a packet that was accepted at once.                 *)
(***************************************************************************)
\* What the argument needs of a step: a packet becomes immediate in DecideAccept
\* only, and once immediate it keeps its stamp and its pacer.
LEMMA ImmediateStep ==
    ASSUME IndInv, [Next]_vars, NEW i \in Ids, Immediate(i)'
    PROVE  \/ /\ Immediate(i) /\ pacerOf[i] # NoPacer
              /\ stampedAt'[i] = stampedAt[i] /\ pacerOf'[i] = pacerOf[i]
           \/ /\ DecideAccept /\ i = rcvd /\ stampedAt'[i] = now
              /\ pacerOf'[i] = pacerOf[i]
  <1>0. HandlerTypeOK /\ WorkerTypeOK /\ Progress
    BY DEF IndInv, TypeOK
  <1>1. wpc'[i] = "none" /\ stampedAt'[i] # 0
    BY DEF Immediate
  <1>2. CASE DecideAccept
    BY <1>0, <1>1, <1>2 DEF DecideAccept, Decide, Immediate, Progress, workerVars,
                       WorkerTypeOK
  <1>3. CASE LoadPacer
    BY <1>0, <1>1, <1>3 DEF LoadPacer, Immediate, Progress, workerVars, HandlerTypeOK
  <1>4. CASE SpawnWorker
    BY <1>0, <1>1, <1>4 DEF SpawnWorker, StartWorker, Immediate, Progress, Return,
                       WorkerTypeOK
  <1>5. ASSUME NEW id \in Ids, WorkerStep(id)
        PROVE  /\ Immediate(i) /\ pacerOf[i] # NoPacer
               /\ stampedAt'[i] = stampedAt[i] /\ pacerOf'[i] = pacerOf[i]
    <2>1. wpc'[id] # "none"
      BY <1>0, <1>5 DEF WorkerStep, Release, DeleteFlow, AnswerDelayed, Decrement,
                   WorkerGoes, WorkerTypeOK
    <2> QED
      BY <1>0, <1>1, <1>5, <2>1
         DEF WorkerStep, Release, DeleteFlow, AnswerDelayed, Decrement, WorkerGoes,
             WorkerTypeOK, Immediate, Progress, handlerVars
  <1>6. CASE UNCHANGED <<wpc, stampedAt, pacerOf>>
    BY <1>0, <1>1, <1>6 DEF Immediate, Progress
  <1> QED
    BY <1>2, <1>3, <1>4, <1>5, <1>6
       DEF Next, vars, HandlerStep, CleanerStep, ReceiveUnmatched, ReceiveBypassed,
           Receive, FlowPendingDrop, DecideOverflow, DecideIPPending, DecideLimit,
           DecideDelay, NotReady, Decide, AnswerAccept, AnswerDrop, CleanupTick,
           CleanupVisit, CleanupDelete, CleanupEnd, CleanerUnchanged, Tick, handlerVars,
           workerVars, Return

\* LastRelease never falls behind a packet that was accepted at once.
LEMMA RememberedStep == IndInv /\ [Next]_vars => AcceptRemembered'
  <1> SUFFICES ASSUME IndInv, [Next]_vars, NEW i \in Ids, Immediate(i)'
               PROVE  stampedAt'[i] <= pacers'[pacerOf'[i]].LastRelease
    BY DEF AcceptRemembered
  <1>1. CASE /\ Immediate(i) /\ pacerOf[i] # NoPacer
             /\ stampedAt'[i] = stampedAt[i] /\ pacerOf'[i] = pacerOf[i]
    <2>1. pacerOf[i] \in Ids /\ stampedAt[i] \in Nat
      BY <1>1 DEF IndInv, TypeOK, HandlerTypeOK, WorkerTypeOK
    <2>2. /\ stampedAt[i] <= pacers[pacerOf[i]].LastRelease
          /\ pacers[pacerOf[i]].LastRelease \in Nat
      BY <1>1, <2>1 DEF IndInv, AcceptRemembered, TypeOK, SharedTypeOK, PacerState
    <2>3. /\ pacers'[pacerOf[i]].LastRelease >= pacers[pacerOf[i]].LastRelease
          /\ pacers'[pacerOf[i]].LastRelease \in Nat
      BY <2>1, MonotoneStep, TypeStep DEF TypeOK, SharedTypeOK, PacerState
    <2> QED
      BY <1>1, <2>1, <2>2, <2>3
  <1>2. CASE /\ DecideAccept /\ i = rcvd /\ stampedAt'[i] = now
             /\ pacerOf'[i] = pacerOf[i]
    <2>1. now \in Nat
      BY DEF IndInv, TypeOK, HandlerTypeOK
    <2> QED
      BY <1>2, <2>1, AcceptPacer
  <1> QED
    BY <1>1, <1>2, ImmediateStep

\* What follows an accepted packet comes out BurstInterval later or more.
LEMMA BehindStep == IndInv /\ [Next]_vars => BehindAccept'
  <1> SUFFICES ASSUME IndInv, [Next]_vars, NEW i \in Ids, NEW j \in Ids, i < j,
                      pacerOf'[i] = pacerOf'[j], pacerOf'[i] # NoPacer, Immediate(i)'
               PROVE  /\ wpc'[j] = "asleep" =>
                            wakeAt'[j] >= stampedAt'[i] + BurstInterval
                      /\ j = rcvd' /\ pc' = "SHAPE-DELAY" =>
                            now' + delay' >= stampedAt'[i] + BurstInterval
                      /\ stampedAt'[j] # 0 =>
                            stampedAt'[j] >= stampedAt'[i] + BurstInterval
    BY DEF BehindAccept
  <1>0. /\ HandlerTypeOK /\ WorkerTypeOK /\ SharedTypeOK /\ Progress
        /\ clock \in Nat /\ rcvd \in 0..MaxPackets
        /\ now \in Nat /\ delay \in Nat
        /\ wakeAt[j] \in Nat /\ stampedAt[j] \in Nat
    BY DEF IndInv, TypeOK, IngressTypeOK, HandlerTypeOK, WorkerTypeOK
  <1>1. Immediate(i) /\ stampedAt'[i] = stampedAt[i] /\ pacerOf'[i] = pacerOf[i]
    <2>1. CASE DecideAccept /\ i = rcvd
      <3>1. pacerOf[j] = NoPacer /\ pacerOf' = pacerOf
        BY <1>0, <2>1 DEF Progress, DecideAccept, Decide, Ids
      <3> QED
        BY <3>1
    <2> QED
      BY <2>1, ImmediateStep
  <1> DEFINE R == stampedAt[i]
             LR == pacers[pacerOf[i]].LastRelease
  <1>2. /\ R \in Nat /\ R >= 1 /\ LR \in Nat /\ R <= LR /\ pacerOf[i] \in Ids
    <2>1. R \in Nat /\ R # 0 /\ pacerOf[i] \in Ids
      BY <1>0, <1>1 DEF Immediate, WorkerTypeOK, HandlerTypeOK
    <2>2. LR \in Nat /\ R <= LR
      BY <1>0, <1>1, <2>1 DEF IndInv, AcceptRemembered, SharedTypeOK, PacerState
    <2> QED
      BY <2>1, <2>2
  <1>3. pacerOf[i] = pacerOf[j] =>
           /\ wpc[j] = "asleep" => wakeAt[j] >= R + BurstInterval
           /\ j = rcvd /\ pc = "SHAPE-DELAY" => now + delay >= R + BurstInterval
           /\ stampedAt[j] # 0 => stampedAt[j] >= R + BurstInterval
    BY <1>1, <1>2 DEF IndInv, BehindAccept, NoPacer, Ids
  <1>4. CASE DecideAccept
    <2>1. /\ pc' = "SHAPE-ACCEPT" /\ UNCHANGED <<wpc, wakeAt, pacerOf>>
          /\ stampedAt' = [stampedAt EXCEPT ![rcvd] = now]
      BY <1>4 DEF DecideAccept, Decide, workerVars
    <2>2. j = rcvd => now >= R + BurstInterval
      <3> SUFFICES ASSUME j = rcvd PROVE now >= R + BurstInterval
        OBVIOUS
      <3>1. pacers[pacerOf[rcvd]].LastRelease = LR
        BY <1>1, <2>1
      <3>2. LR = 0 \/ now >= LR + BurstInterval
        BY <1>4, <3>1, AcceptPacer
      <3> QED
        BY <1>0, <1>2, <3>2
    <2>3. stampedAt'[j] # 0 => stampedAt'[j] >= R + BurstInterval
      <3>1. CASE j = rcvd
        BY <1>0, <2>1, <2>2, <3>1 DEF WorkerTypeOK
      <3>2. CASE j # rcvd
        BY <1>0, <1>3, <2>1, <3>2 DEF WorkerTypeOK
      <3> QED
        BY <3>1, <3>2
    <2> QED
      BY <1>1, <1>3, <2>1, <2>3
  <1>5. CASE DecideDelay
    <2>1. /\ UNCHANGED <<wpc, wakeAt, pacerOf, stampedAt, rcvd, now>>
          /\ ~Ready(MyPacer, now) /\ delay' = ActualDelay(MyPacer, now)
      BY <1>5 DEF DecideDelay, Decide, NotReady, ingressVars, workerVars
    <2>2. j = rcvd => now + delay' = LR + BurstInterval
      <3> SUFFICES ASSUME j = rcvd PROVE now + delay' = LR + BurstInterval
        OBVIOUS
      <3>1. MyPacer.LastRelease = LR
        BY <1>1, <2>1 DEF MyPacer
      <3>2. now - LR < BurstInterval
        BY <1>0, <1>2, <2>1, <3>1 DEF Ready
      <3> QED
        BY <1>0, <1>2, <2>1, <3>1, <3>2 DEF ActualDelay
    <2>3. j = rcvd => now' + delay' >= R + BurstInterval
      BY <1>0, <1>2, <2>1, <2>2
    <2> QED
      BY <1>1, <1>3, <2>1, <2>3
  <1>6. CASE SpawnWorker
    <2>1. /\ pc = "SHAPE-DELAY" /\ pc' = "idle" /\ UNCHANGED <<pacerOf, stampedAt>>
          /\ wpc' = [wpc EXCEPT ![rcvd] = "asleep"]
          /\ wakeAt' = [wakeAt EXCEPT ![rcvd] = clock + delay]
          /\ now <= clock
      BY <1>0, <1>6 DEF SpawnWorker, StartWorker, Return, Progress
    <2>2. CASE j = rcvd
      <3>1. wakeAt'[j] = clock + delay /\ stampedAt[j] = 0
        BY <1>0, <2>1, <2>2 DEF WorkerTypeOK, Progress
      <3>2. clock + delay >= R + BurstInterval
        <4>1. now + delay >= R + BurstInterval
          BY <1>1, <1>3, <2>1, <2>2
        <4> QED
          BY <1>0, <1>2, <2>1, <4>1
      <3> QED
        BY <1>1, <2>1, <3>1, <3>2
    <2>3. CASE j # rcvd
      BY <1>0, <1>1, <1>3, <2>1, <2>3 DEF WorkerTypeOK
    <2> QED
      BY <2>2, <2>3
  <1>7. ASSUME NEW id \in Ids, Release(id)
        PROVE  /\ wpc'[j] = "asleep" => wakeAt'[j] >= R + BurstInterval
               /\ j = rcvd' /\ pc' = "SHAPE-DELAY" => now' + delay' >= R + BurstInterval
               /\ stampedAt'[j] # 0 => stampedAt'[j] >= R + BurstInterval
    <2>1. /\ UNCHANGED <<pacerOf, pc, rcvd, now, delay>>
          /\ wpc[id] = "asleep" /\ clock >= wakeAt[id]
          /\ wpc' = [wpc EXCEPT ![id] = "released"]
          /\ wakeAt' = [wakeAt EXCEPT ![id] = 0]
          /\ stampedAt' = [stampedAt EXCEPT ![id] = clock]
      BY <1>7 DEF Release, WorkerGoes, handlerVars
    <2>2. CASE j = id
      <3>1. /\ stampedAt'[j] = clock /\ wpc'[j] = "released"
            /\ pc # "idle" => j # rcvd
        BY <1>0, <2>1, <2>2 DEF WorkerTypeOK, Progress
      <3>2. clock >= R + BurstInterval
        <4>1. wakeAt[j] >= R + BurstInterval /\ clock >= wakeAt[j]
          BY <1>1, <1>3, <2>1, <2>2
        <4> QED
          BY <1>0, <1>2, <4>1
      <3> QED
        BY <2>1, <3>1, <3>2
    <2>3. CASE j # id
      BY <1>0, <1>1, <1>3, <2>1, <2>3 DEF WorkerTypeOK
    <2> QED
      BY <2>2, <2>3
  <1>8. ASSUME NEW id \in Ids, DeleteFlow(id) \/ AnswerDelayed(id) \/ Decrement(id)
        PROVE  /\ wpc'[j] = "asleep" => wakeAt'[j] >= R + BurstInterval
               /\ j = rcvd' /\ pc' = "SHAPE-DELAY" => now' + delay' >= R + BurstInterval
               /\ stampedAt'[j] # 0 => stampedAt'[j] >= R + BurstInterval
    <2>1. /\ UNCHANGED <<pacerOf, pc, rcvd, now, delay, stampedAt>>
          /\ wakeAt' = [wakeAt EXCEPT ![id] = 0]
          /\ wpc'[id] # "asleep" /\ \A k \in Ids \ {id} : wpc'[k] = wpc[k]
      BY <1>0, <1>8 DEF DeleteFlow, AnswerDelayed, Decrement, WorkerGoes, handlerVars,
                   WorkerTypeOK
    <2> QED
      BY <1>0, <1>1, <1>3, <2>1 DEF WorkerTypeOK
  <1>9. CASE LoadPacer
    <2>1. /\ pc' = "lock" /\ UNCHANGED <<wpc, wakeAt, stampedAt>>
          /\ wpc[rcvd] = "none" /\ stampedAt[rcvd] = 0
          /\ \A k \in Ids \ {rcvd} : pacerOf'[k] = pacerOf[k]
      BY <1>0, <1>9 DEF LoadPacer, Progress, workerVars, HandlerTypeOK
    <2> QED
      BY <1>0, <1>1, <1>3, <2>1
  <1>10. CASE /\ UNCHANGED <<pacerOf, wpc, wakeAt, stampedAt>>
              /\ pc' # "SHAPE-DELAY" \/ UNCHANGED <<pc, rcvd, now, delay>>
    BY <1>1, <1>3, <1>10
  <1>11. \/ DecideAccept \/ DecideDelay \/ SpawnWorker \/ LoadPacer
         \/ \E id \in Ids : WorkerStep(id)
         \/ /\ UNCHANGED <<pacerOf, wpc, wakeAt, stampedAt>>
            /\ pc' # "SHAPE-DELAY" \/ UNCHANGED <<pc, rcvd, now, delay>>
    BY DEF Next, vars, HandlerStep, CleanerStep, ReceiveUnmatched, ReceiveBypassed,
           Receive, FlowPendingDrop, DecideOverflow, DecideIPPending, DecideLimit,
           NotReady, Decide, AnswerAccept, AnswerDrop, CleanupTick, CleanupVisit,
           CleanupDelete, CleanupEnd, CleanerUnchanged, Tick, ingressVars, handlerVars,
           workerVars, Return
  <1> QED
    BY <1>1, <1>4, <1>5, <1>6, <1>7, <1>8, <1>9, <1>10, <1>11 DEF WorkerStep

\* A verdict that lets a packet through comes after its stamp.
LEMMA VerdictTimesStep == IndInv /\ [Next]_vars => VerdictTimes'
  <1> SUFFICES ASSUME IndInv, [Next]_vars PROVE VerdictTimes'
    OBVIOUS
  <1>0. /\ Progress /\ VerdictTimes /\ clock \in Nat \ {0} /\ now \in Nat
        /\ wpc \in [Ids -> {"none", "asleep", "released", "forgotten", "answered", "done"}]
        /\ stampedAt \in [Ids -> Nat] /\ releasedAt \in [Ids -> Nat]
    BY DEF IndInv, TypeOK, IngressTypeOK, HandlerTypeOK, WorkerTypeOK
  <1>c. clock' >= clock /\ clock' \in Nat
    BY ClockStep
  <1>1. CASE DecideAccept
    <2>1. /\ pc = "lock" /\ UNCHANGED <<clock, rcvd, wpc, releasedAt>>
          /\ stampedAt' = [stampedAt EXCEPT ![rcvd] = now]
      BY <1>1 DEF DecideAccept, Decide, ingressVars, workerVars
    <2>2. /\ rcvd \in Ids /\ 1 <= now /\ now <= clock
          /\ releasedAt[rcvd] = 0
      BY <1>0, <2>1 DEF Progress, VerdictTimes
    <2> QED
      BY <1>0, <2>1, <2>2 DEF VerdictTimes
  <1>2. CASE AnswerAccept
    <2>1. /\ pc = "SHAPE-ACCEPT" /\ pc' = "idle" /\ UNCHANGED <<clock, rcvd, wpc, stampedAt>>
          /\ releasedAt' = [releasedAt EXCEPT ![rcvd] = clock]
      BY <1>2 DEF AnswerAccept, Return, workerVars
    <2>2. rcvd \in Ids
      BY <1>0, <2>1 DEF Progress
    <2> QED
      BY <1>0, <2>1, <2>2 DEF VerdictTimes
  <1>3. CASE SpawnWorker
    <2>1. /\ pc' = "idle" /\ UNCHANGED <<clock, rcvd, stampedAt, releasedAt>>
          /\ wpc' = [wpc EXCEPT ![rcvd] = "asleep"]
      BY <1>3 DEF SpawnWorker, StartWorker, Return
    <2>2. \A id \in Ids : wpc'[id] \in {"released", "forgotten"} => wpc'[id] = wpc[id]
      BY <1>0, <2>1
    <2> QED
      BY <1>0, <2>1, <2>2 DEF VerdictTimes
  <1>4. ASSUME NEW id \in Ids, WorkerStep(id) PROVE VerdictTimes'
    <2>1. /\ UNCHANGED <<clock, rcvd, pc>>
          /\ \A k \in Ids : k # id => wpc'[k] = wpc[k]
      BY <1>0, <1>4 DEF WorkerStep, Release, DeleteFlow, AnswerDelayed, Decrement,
                        WorkerGoes, handlerVars
    <2>2. pc # "idle" => rcvd # id /\ rcvd \in Ids
      BY <1>0, <1>4 DEF WorkerStep, Release, DeleteFlow, AnswerDelayed, Decrement,
                        WorkerGoes, Progress
    <2>3. CASE Release(id)
      <3>1. /\ wpc[id] = "asleep" /\ UNCHANGED releasedAt
            /\ stampedAt' = [stampedAt EXCEPT ![id] = clock]
        BY <2>3 DEF Release, WorkerGoes
      <3>2. releasedAt[id] = 0
        BY <1>0, <3>1 DEF Progress, VerdictTimes
      <3> QED
        BY <1>0, <2>1, <2>2, <3>1, <3>2 DEF VerdictTimes
    <2>4. CASE AnswerDelayed(id)
      <3>1. /\ wpc[id] = "forgotten" /\ wpc' = [wpc EXCEPT ![id] = "answered"]
            /\ UNCHANGED stampedAt /\ releasedAt' = [releasedAt EXCEPT ![id] = clock]
        BY <2>4 DEF AnswerDelayed, WorkerGoes
      <3> QED
        BY <1>0, <2>1, <2>2, <3>1 DEF VerdictTimes
    <2>5. CASE DeleteFlow(id) \/ Decrement(id)
      <3>1. /\ UNCHANGED <<stampedAt, releasedAt>>
            /\ wpc'[id] \in {"released", "forgotten"} => wpc[id] = "released"
        BY <1>0, <2>5 DEF DeleteFlow, Decrement, WorkerGoes
      <3> QED
        BY <1>0, <2>1, <2>2, <3>1 DEF VerdictTimes
    <2> QED
      BY <1>4, <2>3, <2>4, <2>5 DEF WorkerStep
  <1>5. CASE /\ UNCHANGED <<wpc, stampedAt, releasedAt>>
             /\ pc' = "SHAPE-ACCEPT" => pc' = pc /\ rcvd' = rcvd
    <2>1. \A id \in Ids : stampedAt[id] <= clock'
      BY <1>0, <1>c DEF VerdictTimes
    <2> QED
      BY <1>0, <1>5, <2>1 DEF VerdictTimes
  <1> QED
    BY <1>1, <1>2, <1>3, <1>4, <1>5
       DEF Next, vars, HandlerStep, CleanerStep, ReceiveUnmatched, ReceiveBypassed,
           Receive, FlowPendingDrop, LoadPacer, DecideOverflow, DecideIPPending,
           DecideLimit, DecideDelay, NotReady, Decide, AnswerDrop, CleanupTick,
           CleanupVisit, CleanupDelete, CleanupEnd, CleanerUnchanged, Tick, Return,
           ingressVars, handlerVars, workerVars
-----------------------------------------------------------------------------
(***************************************************************************)
(* The theorems.                                                           *)
(***************************************************************************)
LEMMA IndInvInit == Init => IndInv
  <1> SUFFICES ASSUME Init PROVE IndInv
    OBVIOUS
  <1>1. TypeOK
    BY TypeInit
  <1>2. /\ pc = "idle" /\ rcvd = 0 /\ clock = 1 /\ pendingDelays = 0
        /\ shapePendingFlows = {}
        /\ \A id \in Ids : /\ verdict[id] = Unanswered /\ wpc[id] = "none"
                           /\ stampedAt[id] = 0 /\ releasedAt[id] = 0
                           /\ pacerOf[id] = NoPacer
                           /\ pacers[id].LastRelease = 0 /\ ~pacers[id].Pending
    BY DEF Init, IngressInit, NewPacer, ZeroTime
  <1>3. LiveWorkers = {} /\ InStates({"asleep", "released"}) = {}
    BY <1>2 DEF LiveWorkers, Held, InStates
  <1>4. PendingCountExact
    BY <1>2, <1>3, FS_EmptySet DEF PendingCountExact
  <1>5. FlowsMatchWorkers
    BY <1>2, <1>3 DEF FlowsMatchWorkers
  <1>6. Progress /\ OpenPackets /\ LimitKept
    BY <1>2 DEF Progress, OpenPackets, LimitKept
  <1>7. /\ NoStuckPending /\ StampsPast /\ VerdictTimes /\ AcceptRemembered
        /\ BehindAccept
    BY <1>2 DEF NoStuckPending, StampsPast, VerdictTimes, AcceptRemembered,
                BehindAccept, Immediate
  <1> QED
    BY <1>1, <1>4, <1>5, <1>6, <1>7 DEF IndInv

\* The invariant is kept by every step.
LEMMA IndInvStep == IndInv /\ [Next]_vars => IndInv'
  BY TypeStep, ProgressStep, OpenStep, CountStep, LimitStep, FlowStep, StuckStep,
     StampsStep, VerdictTimesStep, RememberedStep, BehindStep DEF IndInv

\* IndInv holds in every reachable state, for every value of the constants.
THEOREM Invariance == Spec => []IndInv
  BY IndInvInit, IndInvStep, PTL DEF Spec

\* Every variable keeps its type; pendingDelays never becomes negative.
THEOREM TypeCorrect == Spec => []TypeOK
  <1>1. IndInv => TypeOK
    BY DEF IndInv
  <1> QED
    BY <1>1, Invariance, PTL

\* --max-pending-delays is never exceeded, however the callback's test and its
\* addition interleave with the workers' subtractions.
THEOREM LimitHolds == Spec => []PendingWithinLimit
  <1>1. ASSUME IndInv PROVE PendingWithinLimit
    <2>1. Held \subseteq LiveWorkers /\ IsFiniteSet(LiveWorkers) /\ IsFiniteSet(Held)
      BY LiveFinite DEF LiveWorkers
    <2>2. /\ Cardinality(Held) <= Cardinality(LiveWorkers)
          /\ Cardinality(Held) \in Nat /\ Cardinality(LiveWorkers) \in Nat
      BY <2>1, FS_Subset, FS_CardinalityType
    <2>3. MaxPendingDelays > 0 => Cardinality(LiveWorkers) <= MaxPendingDelays
      BY <1>1, <2>2 DEF IndInv, LimitKept, PendingCountExact
    <2> QED
      BY <2>2, <2>3 DEF PendingWithinLimit
  <1> QED
    BY <1>1, Invariance, PTL

\* pendingDelays is the number of workers that have not subtracted themselves yet.
THEOREM CounterIsExact == Spec => []PendingCountExact
  <1>1. IndInv => PendingCountExact
    BY DEF IndInv
  <1> QED
    BY <1>1, Invariance, PTL

\* A pacer never keeps Pending when nothing is on its way to clear it.
THEOREM PendingIsCleared == Spec => []NoStuckPending
  <1>1. IndInv => NoStuckPending
    BY DEF IndInv
  <1> QED
    BY <1>1, Invariance, PTL

\* shapePendingFlows is the set of flows of the packets whose worker has not
\* deleted its flow yet, one packet per flow.
THEOREM FlowsAreExact == Spec => []FlowsMatchWorkers
  <1>1. IndInv => FlowsMatchWorkers
    BY DEF IndInv
  <1> QED
    BY <1>1, Invariance, PTL

\* The verdict on a packet accepted at once and the verdict on whatever passes its
\* pacer afterwards are BurstInterval apart, short by no more than the time the
\* callback took from reading `now' to the first verdict.
THEOREM SpacingHolds == Spec => []SpacingBehindAccept
  <1>1. IndInv => SpacingBehindAccept
    <2> SUFFICES ASSUME IndInv, NEW i \in Ids, NEW j \in Ids,
                        i < j, pacerOf[i] = pacerOf[j], pacerOf[i] # NoPacer,
                        Immediate(i), releasedAt[i] # 0, releasedAt[j] # 0
                 PROVE  releasedAt[j] - releasedAt[i] >= BurstInterval - Lateness(i)
      BY DEF SpacingBehindAccept
    <2>1. stampedAt[j] # 0 /\ releasedAt[j] >= stampedAt[j]
      BY DEF IndInv, VerdictTimes
    <2>2. stampedAt[j] >= stampedAt[i] + BurstInterval
      BY <2>1 DEF IndInv, BehindAccept
    <2>3. {releasedAt[i], releasedAt[j], stampedAt[i], stampedAt[j]} \subseteq Nat
      BY DEF IndInv, TypeOK, WorkerTypeOK
    <2> QED
      BY <2>1, <2>2, <2>3 DEF Lateness
  <1> QED
    BY <1>1, Invariance, PTL

\* No step turns LastRelease of a pacer back.
THEOREM StampsAreMonotone == Spec => LastReleaseMonotone
  <1>1. IndInv /\ [Next]_vars =>
           [\A o \in Ids : pacers'[o].LastRelease >= pacers[o].LastRelease]_vars
    BY MonotoneStep
  <1> QED
    BY <1>1, Invariance, PTL DEF Spec, LastReleaseMonotone
-----------------------------------------------------------------------------
(***************************************************************************)
(* Refinement of NfqGate.                                                  *)
(***************************************************************************)

\* Every step of the shaping policy is a step of the gate, or none.
LEMMA GateStep ==
    IndInv /\ [Next]_vars => [Gate!GateNext]_<<rcvd, verdict, Held>>
  <1> SUFFICES ASSUME IndInv, [Next]_vars
               PROVE  Gate!GateNext \/ UNCHANGED <<rcvd, verdict, Held>>
    OBVIOUS
  <1>0. /\ IngressTypeOK /\ HandlerTypeOK /\ WorkerTypeOK
        /\ Progress /\ OpenPackets /\ rcvd \in 0..MaxPackets
    BY DEF IndInv, TypeOK, IngressTypeOK
  <1>a. pc = "idle" => Gate!InHand = {}
    BY <1>0 DEF OpenPackets, Gate!InHand
  <1>b. pc # "idle" => rcvd \in Ids /\ rcvd \in Gate!InHand
    BY <1>0 DEF Progress, Gate!InHand, Held, InStates, Ids
  <1>1. CASE ReceiveUnmatched \/ ReceiveBypassed
    <2>1. pc = "idle" /\ wpc' = wpc
      BY <1>1 DEF ReceiveUnmatched, ReceiveBypassed, workerVars
    <2>2. PICK p \in Inputs : Deliver(p) /\ SetVerdict(rcvd + 1, NfAccept)
      BY <1>1 DEF ReceiveUnmatched, ReceiveBypassed, AcceptUnmatched, AcceptBypassed
    <2>3. Held' = Held
      BY <2>1 DEF Held, InStates
    <2>4. Gate!Take
      BY <1>a, <2>1, <2>2, <2>3 DEF Gate!Take, Deliver
    <2>5. Gate!Answer(rcvd + 1, {NfAccept, Lost})
      BY <2>2, AcceptIsAnswer DEF Gate!Answer
    <2> QED
      BY <2>4, <2>5 DEF Gate!TakeAndAccept, Gate!GateNext
  <1>2. CASE Receive
    <2>1. pc = "idle" /\ wpc' = wpc
      BY <1>2 DEF Receive, workerVars
    <2>2. PICK p \in Inputs : Deliver(p) /\ UNCHANGED verdict
      BY <1>2 DEF Receive, HandToPolicy
    <2>3. Held' = Held
      BY <2>1 DEF Held, InStates
    <2>4. Gate!Take
      BY <1>a, <2>1, <2>2, <2>3 DEF Gate!Take, Deliver
    <2> QED
      BY <2>2, <2>4 DEF Gate!TakeAndHandle, Gate!GateNext
  <1>3. CASE FlowPendingDrop \/ AnswerDrop \/ AnswerAccept
    <2>1. pc # "idle" /\ rcvd' = rcvd /\ wpc' = wpc
      BY <1>3 DEF FlowPendingDrop, AnswerDrop, AnswerAccept, DropDecisions, Decisions,
             workerVars
    <2>2. \E v \in GateAnswers : verdict' = [verdict EXCEPT ![rcvd] = v]
      BY <1>0, <1>3, <1>b, <2>1, DropOrRejectIsAnswer, AcceptIsAnswer, AcceptsAreAnswers
         DEF FlowPendingDrop, AnswerDrop, AnswerAccept, Ids
    <2>3. Gate!Answer(rcvd, GateAnswers)
      BY <2>2 DEF Gate!Answer
    <2>4. Held' = Held
      BY <2>1 DEF Held, InStates
    <2> QED
      BY <1>b, <2>1, <2>3, <2>4 DEF Gate!Decide, Gate!GateNext, GateAnswers
  <1>4. CASE SpawnWorker
    <2>1. pc = "SHAPE-DELAY" /\ UNCHANGED <<rcvd, verdict>>
      BY <1>4 DEF SpawnWorker
    <2>2. Held' = Held \cup {rcvd}
      BY <1>0, <1>4, <1>b, <2>1 DEF SpawnWorker, StartWorker, Held, InStates, WorkerTypeOK
    <2>3. MaxPendingDelays > 0 => Cardinality(Held) < MaxPendingDelays
      <3>1. Held \subseteq LiveWorkers /\ IsFiniteSet(LiveWorkers) /\ IsFiniteSet(Held)
        BY LiveFinite DEF LiveWorkers
      <3>2. /\ Cardinality(Held) <= Cardinality(LiveWorkers)
            /\ Cardinality(Held) \in Nat /\ Cardinality(LiveWorkers) \in Nat
        BY <3>1, FS_Subset, FS_CardinalityType
      <3>3. MaxPendingDelays > 0 => Cardinality(LiveWorkers) + 1 <= MaxPendingDelays
        BY <2>1, <3>2 DEF IndInv, LimitKept, PendingCountExact
      <3> QED
        BY <3>2, <3>3
    <2>4. \E id \in Gate!InHand : Held' = Held \cup {id}
      BY <1>b, <2>1, <2>2
    <2>5. Gate!Cardinality(Held) = Cardinality(Held)
      BY DEF Gate!Cardinality, Cardinality
    <2>6. Gate!Hold
      BY <2>1, <2>3, <2>4, <2>5 DEF Gate!Hold
    <2> QED
      BY <2>6 DEF Gate!GateNext
  <1>5. ASSUME NEW id \in Ids, AnswerDelayed(id) PROVE Gate!GateNext
    <2>1. id \in Held /\ Held' = Held \ {id} /\ rcvd' = rcvd
      BY <1>0, <1>5 DEF AnswerDelayed, WorkerGoes, Held, InStates, WorkerTypeOK
    <2>2. Gate!Answer(id, {NfAccept, Lost})
      BY <1>5, AcceptIsAnswer DEF AnswerDelayed, Gate!Answer
    <2> QED
      BY <2>1, <2>2 DEF Gate!LetThrough, Gate!GateNext
  <1>6. ASSUME NEW id \in Ids, Release(id) \/ DeleteFlow(id) \/ Decrement(id)
        PROVE  UNCHANGED <<rcvd, verdict, Held>>
    BY <1>0, <1>6 DEF Release, DeleteFlow, Decrement, WorkerGoes, Held, InStates,
                 WorkerTypeOK
  <1>7. CASE UNCHANGED <<rcvd, verdict, wpc>>
    BY <1>7 DEF Held, InStates
  <1> QED
    BY <1>1, <1>2, <1>3, <1>4, <1>5, <1>6, <1>7
       DEF Next, vars, HandlerStep, WorkerStep, CleanerStep, LoadPacer, DecideAccept,
           DecideOverflow, DecideIPPending, DecideLimit, DecideDelay, Decide,
           CleanupTick, CleanupVisit, CleanupDelete, CleanupEnd, CleanerUnchanged, Tick,
           ingressVars, workerVars

\* The shaping policy implements the gate.
THEOREM ShapeRefinesGate == Spec => ImplementsGate
  <1>1. Init => Gate!GateInit
    BY DEF Init, IngressInit, Gate!GateInit, Held, InStates, Ids
  <1>2. IndInv /\ [Next]_vars => [Gate!GateNext]_(Gate!gateVars)
    BY GateStep DEF Gate!gateVars
  <1> QED
    BY <1>1, <1>2, Invariance, PTL DEF Spec, ImplementsGate, Gate!GateSpec
-----------------------------------------------------------------------------
(***************************************************************************)
(* The statistics.  Shaped is kept next to IndInv; then every step leaves  *)
(* the sets the counters are compared with alone, or adds one packet to    *)
(* one of them and counts it.                                              *)
(***************************************************************************)
\* Shaped holds in every reachable state.
LEMMA ShapedStep == IndInv /\ Shaped /\ [Next]_vars => Shaped'
  <1> SUFFICES ASSUME IndInv, Shaped, [Next]_vars PROVE Shaped'
    OBVIOUS
  <1>0. /\ IngressTypeOK /\ HandlerTypeOK /\ WorkerTypeOK /\ Progress
        /\ rcvd \in 0..MaxPackets
        /\ wpc \in [Ids -> {"none", "asleep", "released", "forgotten", "answered", "done"}]
        /\ stampedAt \in [Ids -> Nat]
    BY DEF IndInv, TypeOK, IngressTypeOK, CounterNames, WorkerTypeOK
  <1>a. \A id \in Ids : wpc[id] # "none" \/ stampedAt[id] # 0 => id \in 1..rcvd
    BY <1>0 DEF Progress, Ids
  <1>b. \A id \in Ids : wpc[id] # "none" \/ stampedAt[id] # 0 =>
           Matched(pkts'[id]) /\ ~Bypassed(pkts'[id])
    BY <1>0, <1>a, PktsStep DEF Shaped
  <1>1. CASE ReceiveUnmatched \/ ReceiveBypassed
    BY <1>1, <1>b DEF ReceiveUnmatched, ReceiveBypassed, Shaped, handlerVars,
                            workerVars
  <1>2. CASE Receive
    <2>1. PICK p \in Inputs : HandToPolicy(p)
      BY <1>2 DEF Receive
    <2>2. pkts'[rcvd'] = p
      BY <1>0, <2>1, DeliverType DEF HandToPolicy
    <2> QED
      BY <1>2, <1>b, <2>1, <2>2 DEF Receive, HandToPolicy, Shaped, workerVars
  <1>3. CASE DecideAccept
    <2>1. /\ pc = "lock" /\ UNCHANGED <<rcvd, pkts, wpc>>
          /\ stampedAt' = [stampedAt EXCEPT ![rcvd] = now]
      BY <1>3 DEF DecideAccept, Decide, ingressVars, workerVars
    <2>2. rcvd \in Ids /\ now # 0 /\ Matched(pkts[rcvd]) /\ ~Bypassed(pkts[rcvd])
      BY <1>0, <2>1 DEF Progress, Shaped
    <2>3. \A id \in Ids : id # rcvd => stampedAt'[id] = stampedAt[id]
      BY <1>0, <2>1
    <2>4. stampedAt'[rcvd] # 0
      BY <1>0, <2>1, <2>2
    <2> QED
      BY <2>1, <2>2, <2>3, <2>4 DEF Shaped
  <1>4. CASE SpawnWorker
    <2>1. /\ pc = "SHAPE-DELAY" /\ pc' = "idle" /\ UNCHANGED <<rcvd, pkts, stampedAt>>
          /\ wpc' = [wpc EXCEPT ![rcvd] = "asleep"]
      BY <1>4 DEF SpawnWorker, StartWorker, Return
    <2>2. \A id \in Ids : id # rcvd => wpc'[id] = wpc[id]
      BY <1>0, <2>1
    <2> QED
      BY <2>1, <2>2 DEF Shaped
  <1>5. ASSUME NEW id \in Ids, WorkerStep(id) PROVE Shaped'
    <2>1. /\ UNCHANGED <<pc, rcvd, pkts>> /\ wpc[id] # "none"
          /\ \A k \in Ids : k # id => wpc'[k] = wpc[k] /\ stampedAt'[k] = stampedAt[k]
      BY <1>0, <1>5 DEF WorkerStep, Release, DeleteFlow, AnswerDelayed, Decrement,
                        WorkerGoes, handlerVars
    <2>2. pc # "idle" => rcvd # id /\ rcvd \in Ids
      BY <1>0, <2>1 DEF Progress
    <2> QED
      BY <2>1, <2>2 DEF Shaped
  <1>6. CASE /\ UNCHANGED <<rcvd, pkts, wpc, stampedAt>>
             /\ \/ pc' \in {"idle", pc}
                \/ pc # "idle" /\ pc' # "SHAPE-ACCEPT"
    BY <1>6 DEF Shaped
  <1> QED
    BY <1>1, <1>2, <1>3, <1>4, <1>5, <1>6
       DEF Next, vars, HandlerStep, CleanerStep, FlowPendingDrop, LoadPacer,
           DecideOverflow, DecideIPPending, DecideLimit, DecideDelay, NotReady, Decide,
           AnswerAccept, AnswerDrop, CleanupTick, CleanupVisit, CleanupDelete,
           CleanupEnd, CleanerUnchanged, Tick, Return, ingressVars, handlerVars,
           workerVars

\* The sets of CountersAgree are finite.
LEMMA SeenFinite ==
    ASSUME IngressTypeOK
    PROVE  /\ IsFiniteSet(Drops) /\ IsFiniteSet(Passes) /\ IsFiniteSet(Delays)
           /\ Cardinality(Drops) \in Nat /\ Cardinality(Passes) \in Nat
           /\ Cardinality(Delays) \in Nat
  <1>1. IsFiniteSet(1..rcvd)
    BY FS_Interval DEF IngressTypeOK
  <1>2. /\ Drops \subseteq 1..rcvd /\ Passes \subseteq 1..rcvd
        /\ Delays \subseteq Ids
    BY DEF Drops, Passes, Seen, Delays
  <1>3. IsFiniteSet(Drops) /\ IsFiniteSet(Passes) /\ IsFiniteSet(Delays)
    BY <1>1, <1>2, IdsFinite, FS_Subset
  <1> QED
    BY <1>3, FS_CardinalityType

\* A step that answers no matching packet, and touches no answered one, leaves
\* the sets of answered packets alone.
LEMMA NoneAnswered ==
    ASSUME \A id \in 1..rcvd : pkts'[id] = pkts[id] /\ verdict'[id] = verdict[id],
           \A id \in Seen : wpc'[id] = wpc[id] /\ stampedAt'[id] = stampedAt[id],
           1..rcvd \subseteq 1..rcvd',
           \A id \in 1..rcvd' : id \in 1..rcvd \/ ~Matched(pkts'[id])
                                \/ verdict'[id] = Unanswered
    PROVE  Drops' = Drops /\ Passes' = Passes
  <1>1. Seen' = Seen
    BY DEF Seen, Answered
  <1>2. \A id \in Seen : pkts'[id] = pkts[id]
    BY DEF Seen
  <1>3. Drops' = Drops
    BY <1>1, <1>2 DEF Drops, WasDropped
  <1> QED
    BY <1>1, <1>3 DEF Passes

\* A step that answers packet x, and touches no other, adds it to one of them.
LEMMA OneAnswered ==
    ASSUME NEW x \in 1..rcvd',
           x \notin Seen, Matched(pkts'[x]), verdict'[x] # Unanswered,
           1..rcvd \subseteq 1..rcvd',
           \A id \in 1..rcvd' : id = x \/ id \in 1..rcvd,
           \A id \in 1..rcvd : id # x =>
               /\ pkts'[id] = pkts[id] /\ verdict'[id] = verdict[id]
               /\ wpc'[id] = wpc[id] /\ stampedAt'[id] = stampedAt[id]
    PROVE  /\ WasDropped(x)' =>
                  Drops' = Drops \cup {x} /\ x \notin Drops /\ Passes' = Passes
           /\ ~WasDropped(x)' =>
                  Passes' = Passes \cup {x} /\ x \notin Passes /\ Drops' = Drops
  <1>1. Seen' = Seen \cup {x}
    BY DEF Seen, Answered
  <1>2. \A id \in Seen : WasDropped(id)' <=> WasDropped(id)
    BY DEF Seen, WasDropped
  <1>3. /\ WasDropped(x)' => Drops' = Drops \cup {x}
        /\ ~WasDropped(x)' => Drops' = Drops
        /\ x \notin Drops
    BY <1>1, <1>2 DEF Drops
  <1> QED
    BY <1>1, <1>3 DEF Passes, Drops

\* The counters keep up with the sets.
LEMMA CountedStep == IndInv /\ Shaped /\ CountersAgree /\ [Next]_vars => CountersAgree'
  <1> SUFFICES ASSUME IndInv, Shaped, CountersAgree, [Next]_vars PROVE CountersAgree'
    OBVIOUS
  <1>0. /\ IngressTypeOK /\ HandlerTypeOK /\ WorkerTypeOK /\ Progress /\ OpenPackets
        /\ rcvd \in 0..MaxPackets /\ counters \in [CounterNames -> Nat]
        /\ {"Accepted", "Delayed", "DelayOverflowDropped"} \subseteq CounterNames
        /\ wpc \in [Ids -> {"none", "asleep", "released", "forgotten", "answered", "done"}]
        /\ stampedAt \in [Ids -> Nat]
    BY DEF IndInv, TypeOK, IngressTypeOK, CounterNames, WorkerTypeOK
  <1>f. /\ IsFiniteSet(Drops) /\ IsFiniteSet(Passes) /\ IsFiniteSet(Delays)
        /\ Cardinality(Drops) \in Nat /\ Cardinality(Passes) \in Nat
        /\ Cardinality(Delays) \in Nat
    BY <1>0, SeenFinite
  <1>s. \A id \in Seen : /\ id \in Ids /\ id <= rcvd /\ verdict[id] # Unanswered
                            /\ id \notin Held /\ (pc # "idle" => id # rcvd)
    BY <1>0 DEF Seen, Answered, OpenPackets, Ids
  <1>i. 1..rcvd \subseteq Ids
    BY <1>0 DEF Ids
  <1>1. CASE ReceiveUnmatched
    <2>1. PICK p \in Inputs : AcceptUnmatched(p)
      BY <1>1 DEF ReceiveUnmatched
    <2>2. /\ Deliver(p) /\ ~Matched(p) /\ SetVerdict(rcvd + 1, NfAccept)
          /\ UNCHANGED <<counters, wpc, stampedAt>>
      BY <1>1, <2>1 DEF ReceiveUnmatched, AcceptUnmatched, workerVars
    <2>3. /\ rcvd' = rcvd + 1 /\ rcvd + 1 \in Ids /\ pkts'[rcvd + 1] = p
          /\ \A id \in 1..rcvd : pkts'[id] = pkts[id]
      BY <1>0, <2>2, DeliverType
    <2>4. \A id \in 1..rcvd : verdict'[id] = verdict[id]
      BY <1>0, <1>i, <2>2, <2>3, SetVerdictAnswers, NfAcceptAnswers
    <2>5. /\ 1..rcvd \subseteq 1..rcvd'
          /\ \A id \in 1..rcvd' : id \in 1..rcvd \/ id = rcvd + 1
      BY <1>0, <2>3
    <2>6. Drops' = Drops /\ Passes' = Passes
      BY <2>2, <2>3, <2>4, <2>5, NoneAnswered
    <2> QED
      BY <2>2, <2>6 DEF CountersAgree, Delays, InStates
  <1>2. CASE ReceiveBypassed
    <2>1. PICK p \in Inputs : AcceptBypassed(p)
      BY <1>2 DEF ReceiveBypassed
    <2>2. /\ Deliver(p) /\ Matched(p) /\ Bypassed(p) /\ SetVerdict(rcvd + 1, NfAccept)
          /\ Inc("Accepted") /\ UNCHANGED <<wpc, stampedAt>>
      BY <1>2, <2>1 DEF ReceiveBypassed, AcceptBypassed, workerVars
    <2>3. /\ rcvd' = rcvd + 1 /\ rcvd + 1 \in Ids /\ pkts'[rcvd + 1] = p
          /\ \A id \in 1..rcvd : pkts'[id] = pkts[id]
      BY <1>0, <2>2, DeliverType
    <2>4. /\ \A id \in 1..rcvd : verdict'[id] = verdict[id]
          /\ verdict'[rcvd + 1] # Unanswered
      BY <1>0, <1>i, <2>2, <2>3, SetVerdictAnswers, NfAcceptAnswers
    <2>5. PICK x \in Ids : x = rcvd + 1
      BY <2>3
    <2>6. /\ x \in 1..rcvd' /\ x \notin 1..rcvd
          /\ 1..rcvd \subseteq 1..rcvd'
          /\ \A id \in 1..rcvd' : id = x \/ id \in 1..rcvd
      BY <1>0, <2>3, <2>5
    <2>7. /\ x \notin Seen /\ Matched(pkts'[x]) /\ ~WasDropped(x)'
          /\ verdict'[x] # Unanswered
      BY <2>2, <2>3, <2>4, <2>5, <2>6 DEF WasDropped, Seen
    <2>8. /\ Passes' = Passes \cup {x} /\ x \notin Passes
          /\ Drops' = Drops
      BY <2>2, <2>3, <2>4, <2>6, <2>7, OneAnswered
    <2>9. Cardinality(Passes') = Cardinality(Passes) + 1
      BY <1>f, <2>8, FS_AddElement
    <2> QED
      BY <1>0, <2>2, <2>8, <2>9 DEF CountersAgree, Inc, Delays, InStates
  <1>3. CASE Receive
    <2>1. PICK p \in Inputs : HandToPolicy(p)
      BY <1>3 DEF Receive
    <2>2. Deliver(p) /\ UNCHANGED <<counters, verdict, wpc, stampedAt>>
      BY <1>3, <2>1 DEF Receive, HandToPolicy, workerVars
    <2>3. /\ rcvd' = rcvd + 1 /\ rcvd + 1 \in Ids
          /\ \A id \in 1..rcvd : pkts'[id] = pkts[id]
      BY <1>0, <2>2, DeliverType
    <2>4. verdict[rcvd + 1] = Unanswered
      BY <1>0, <2>3 DEF Progress
    <2>5. /\ 1..rcvd \subseteq 1..rcvd'
          /\ \A id \in 1..rcvd' : id \in 1..rcvd \/ id = rcvd + 1
      BY <1>0, <2>3
    <2>6. Drops' = Drops /\ Passes' = Passes
      BY <2>2, <2>3, <2>4, <2>5, NoneAnswered
    <2> QED
      BY <2>2, <2>6 DEF CountersAgree, Delays, InStates
  <1>4. CASE FlowPendingDrop \/ AnswerDrop
    <2>1. /\ pc # "idle" /\ pc # "SHAPE-ACCEPT" /\ DropOrReject(rcvd)
          /\ Inc("DelayOverflowDropped") /\ UNCHANGED <<rcvd, pkts, wpc, stampedAt>>
      BY <1>4 DEF FlowPendingDrop, AnswerDrop, DropDecisions, Decisions, workerVars
    <2>2. /\ rcvd \in Ids /\ rcvd \in 1..rcvd' /\ rcvd \notin Seen
          /\ Matched(pkts'[rcvd]) /\ WasDropped(rcvd)'
      BY <1>0, <1>s, <2>1 DEF Progress, Shaped, WasDropped, Ids
    <2>3. /\ verdict'[rcvd] # Unanswered
          /\ \A id \in 1..rcvd : id # rcvd => verdict'[id] = verdict[id]
      BY <1>0, <1>i, <2>1, <2>2, DropOrRejectAnswers
    <2>4. Drops' = Drops \cup {rcvd} /\ rcvd \notin Drops /\ Passes' = Passes
      BY <2>1, <2>2, <2>3, OneAnswered
    <2>5. Cardinality(Drops') = Cardinality(Drops) + 1
      BY <1>f, <2>4, FS_AddElement
    <2> QED
      BY <1>0, <2>1, <2>4, <2>5 DEF CountersAgree, Inc, Delays, InStates
  <1>5. CASE AnswerAccept
    <2>1. /\ pc = "SHAPE-ACCEPT" /\ SetVerdict(rcvd, NfAccept)
          /\ Inc("Accepted") /\ UNCHANGED <<rcvd, pkts, wpc, stampedAt>>
      BY <1>5 DEF AnswerAccept, workerVars
    <2>2. /\ rcvd \in Ids /\ rcvd \in 1..rcvd' /\ rcvd \notin Seen
          /\ Matched(pkts'[rcvd]) /\ ~WasDropped(rcvd)'
      BY <1>0, <1>s, <2>1 DEF IndInv, VerdictTimes, Progress, Shaped, WasDropped, Ids
    <2>3. /\ verdict'[rcvd] # Unanswered
          /\ \A id \in 1..rcvd : id # rcvd => verdict'[id] = verdict[id]
      BY <1>0, <1>i, <2>1, <2>2, SetVerdictAnswers, NfAcceptAnswers
    <2>4. Passes' = Passes \cup {rcvd} /\ rcvd \notin Passes /\ Drops' = Drops
      BY <2>1, <2>2, <2>3, OneAnswered
    <2>5. Cardinality(Passes') = Cardinality(Passes) + 1
      BY <1>f, <2>4, FS_AddElement
    <2> QED
      BY <1>0, <2>1, <2>4, <2>5 DEF CountersAgree, Inc, Delays, InStates
  <1>6. CASE DecideAccept
    <2>1. /\ pc # "idle" /\ UNCHANGED <<rcvd, pkts, verdict, counters, wpc>>
          /\ stampedAt' = [stampedAt EXCEPT ![rcvd] = now]
      BY <1>6 DEF DecideAccept, Decide, ingressVars, workerVars
    <2>2. \A id \in Seen : stampedAt'[id] = stampedAt[id]
      BY <1>0, <1>s, <2>1
    <2>3. Drops' = Drops /\ Passes' = Passes
      BY <2>1, <2>2, NoneAnswered
    <2> QED
      BY <2>1, <2>3 DEF CountersAgree, Delays, InStates
  <1>7. CASE SpawnWorker
    <2>1. /\ pc # "idle" /\ UNCHANGED <<rcvd, pkts, verdict, stampedAt>>
          /\ wpc' = [wpc EXCEPT ![rcvd] = "asleep"] /\ Inc("Delayed")
      BY <1>7 DEF SpawnWorker, StartWorker
    <2>2. rcvd \in Ids /\ wpc[rcvd] = "none"
      BY <1>0, <2>1 DEF Progress
    <2>3. \A id \in Seen : wpc'[id] = wpc[id]
      BY <1>0, <1>s, <2>1
    <2>4. Drops' = Drops /\ Passes' = Passes
      BY <2>1, <2>3, NoneAnswered
    <2>5. Delays' = Delays \cup {rcvd} /\ rcvd \notin Delays
      BY <1>0, <2>1, <2>2 DEF Delays, InStates
    <2>6. Cardinality(Delays') = Cardinality(Delays) + 1
      BY <1>f, <2>5, FS_AddElement
    <2> QED
      BY <1>0, <2>1, <2>4, <2>6 DEF CountersAgree, Inc
  <1>8. ASSUME NEW id \in Ids, WorkerStep(id) PROVE CountersAgree'
    <2>0. /\ UNCHANGED <<rcvd, pkts>> /\ wpc[id] # "none" /\ wpc'[id] # "none"
          /\ \A k \in Ids : k # id => wpc'[k] = wpc[k] /\ stampedAt'[k] = stampedAt[k]
      BY <1>0, <1>8 DEF WorkerStep, Release, DeleteFlow, AnswerDelayed, Decrement,
                        WorkerGoes
    <2>1. Delays' = Delays
      BY <2>0 DEF Delays, InStates
    <2>2. CASE Release(id) \/ DeleteFlow(id)
      <3>1. /\ id \in Held /\ UNCHANGED <<verdict, counters>>
        BY <2>2 DEF Release, DeleteFlow, WorkerGoes, Held, InStates
      <3>2. \A k \in Seen : wpc'[k] = wpc[k] /\ stampedAt'[k] = stampedAt[k]
        BY <1>s, <2>0, <3>1
      <3>3. Drops' = Drops /\ Passes' = Passes
        BY <2>0, <3>1, <3>2, NoneAnswered
      <3> QED
        BY <2>1, <3>1, <3>3 DEF CountersAgree
    <2>3. CASE AnswerDelayed(id)
      <3>1. id \in Held /\ SetVerdict(id, NfAccept) /\ Inc("Accepted")
        BY <2>3 DEF AnswerDelayed, CountRelease, WorkerGoes, Held, InStates
      <3>2. /\ id \in 1..rcvd' /\ id \notin Seen
            /\ Matched(pkts'[id]) /\ ~WasDropped(id)'
        BY <1>0, <1>s, <2>0, <3>1 DEF Progress, Shaped, WasDropped, Ids
      <3>3. /\ verdict'[id] # Unanswered
            /\ \A k \in 1..rcvd : k # id => verdict'[k] = verdict[k]
        BY <1>0, <1>i, <3>1, SetVerdictAnswers, NfAcceptAnswers
      <3>4. Passes' = Passes \cup {id} /\ id \notin Passes /\ Drops' = Drops
        BY <1>i, <2>0, <3>2, <3>3, OneAnswered
      <3>5. Cardinality(Passes') = Cardinality(Passes) + 1
        BY <1>f, <3>4, FS_AddElement
      <3> QED
        BY <1>0, <2>1, <3>1, <3>4, <3>5 DEF CountersAgree, Inc
    <2>4. CASE Decrement(id)
      <3>1. /\ wpc[id] = "answered" /\ UNCHANGED <<rcvd, pkts, verdict, counters, stampedAt>>
        BY <2>4 DEF Decrement, WorkerGoes
      <3>2. Seen' = Seen
        BY <3>1 DEF Seen, Answered
      <3>3. \A k \in Seen : WasDropped(k)' <=> WasDropped(k)
        BY <1>s, <2>0, <3>1 DEF WasDropped
      <3>4. Drops' = Drops /\ Passes' = Passes
        BY <3>2, <3>3 DEF Drops, Passes
      <3> QED
        BY <2>1, <3>1, <3>4 DEF CountersAgree
    <2> QED
      BY <1>8, <2>2, <2>3, <2>4 DEF WorkerStep
  <1>9. CASE UNCHANGED <<rcvd, pkts, verdict, counters, wpc, stampedAt>>
    BY <1>9 DEF CountersAgree, Drops, Passes, Seen, WasDropped, Answered, Delays,
                InStates
  <1> QED
    BY <1>1, <1>2, <1>3, <1>4, <1>5, <1>6, <1>7, <1>8, <1>9
       DEF Next, vars, HandlerStep, CleanerStep, LoadPacer, DecideOverflow,
           DecideIPPending, DecideLimit, DecideDelay, NotReady, Decide, CleanupTick,
           CleanupVisit, CleanupDelete, CleanupEnd, CleanerUnchanged, Tick, ingressVars,
           workerVars

\* The statistics of the shaping policy are right in every reachable state: each
\* answered packet is counted once, under what was done with it, whether the
\* callback or a worker answered it and whether or not the verdict was lost.
THEOREM StatisticsAreRight == Spec => []CountersAgree
  <1>1. Init => Shaped /\ CountersAgree
    <2> SUFFICES ASSUME Init PROVE Shaped /\ CountersAgree
      OBVIOUS
    <2>1. /\ pc = "idle" /\ rcvd = 0
          /\ \A id \in Ids : wpc[id] = "none" /\ stampedAt[id] = 0
          /\ \A c \in CounterNames : counters[c] = 0
      BY DEF Init, IngressInit
    <2>2. Drops = {} /\ Passes = {} /\ Delays = {}
      BY <2>1 DEF Drops, Passes, Seen, Delays, InStates
    <2> QED
      BY <2>1, <2>2, FS_EmptySet DEF Shaped, CountersAgree, CounterNames
  <1>2. IndInv /\ (Shaped /\ CountersAgree) /\ [Next]_vars => (Shaped /\ CountersAgree)'
    BY ShapedStep, CountedStep
  <1>3. Spec => [](Shaped /\ CountersAgree)
    BY <1>1, <1>2, Invariance, PTL DEF Spec
  <1> QED
    BY <1>3, PTL
=============================================================================
