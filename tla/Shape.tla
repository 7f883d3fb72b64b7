-------------------------------- MODULE Shape --------------------------------
(***************************************************************************)
(* --action shape of cmd/nfqcooldown/main.go: SYN packets of one address   *)
(* are released at least BurstInterval apart, the early ones by holding    *)
(* them back in a goroutine of their own.                                  *)
(*                                                                         *)
(* Three kinds of goroutines interleave:                                   *)
(*   - the callback (pc, now, delay), one packet at a time;                *)
(*   - one release worker per delayed packet (wpc, wakeAt);                *)
(*   - shapeCleanupLoop (cpc, cnow, ctodo, ckey).                          *)
(* They share burstPacerByIP, the pacers it points to (each behind its own *)
(* mutex, so a critical section is one step), shapePendingFlows and        *)
(* pendingDelays.  A pacer is named by the packet that allocated it.       *)
(***************************************************************************)
EXTENDS Ingress

CONSTANTS
    BurstInterval, BurstMaxDelay, MaxPendingDelays, CleanupAfter

VARIABLES
    pc,                 \* where the callback is; a log tag once it decided
    now,                \* its `now'
    delay,              \* its actualDelay
    pacerOf,            \* pacerOf[id]: the pacer packet id was given
    pacers,             \* the heap of burstPacerState
    burstPacerByIP, shapePendingFlows, pendingDelays,
    wpc,                \* where the release worker of packet id is
    wakeAt,             \* when its time.Sleep is over; 0 unless asleep
    stampedAt,          \* history: the time LastRelease was set to for packet id
    releasedAt,         \* history: when the verdict was given that lets it through
    cpc, cnow, ctodo, ckey

handlerVars == <<pc, now, delay, pacerOf>>
workerVars == <<wpc, wakeAt>>
cleanerVars == <<cpc, cnow, ctodo, ckey>>
historyVars == <<stampedAt, releasedAt>>
sharedVars == <<pacers, burstPacerByIP, shapePendingFlows, pendingDelays>>
vars == <<clock, ingressVars, handlerVars, sharedVars, workerVars, historyVars,
          cleanerVars>>

ASSUME ShapeAssumption ==
    /\ Packet = "syn"
    /\ BurstInterval \in Nat \ {0}
    /\ BurstMaxDelay \in Nat
    /\ MaxPendingDelays \in Nat
    /\ CleanupAfter \in Int

NoPacer == 0
NewPacer == [LastRelease |-> ZeroTime, LastSeen |-> ZeroTime, Pending |-> FALSE]
PacerState == [LastRelease : Nat, LastSeen : Nat, Pending : BOOLEAN]

Decisions == {"SHAPE-ACCEPT", "SHAPE-OVERFLOW-DROP", "SHAPE-IP-PENDING-DROP",
              "SHAPE-PENDING-DROP", "SHAPE-DELAY"}
DropDecisions == Decisions \ {"SHAPE-ACCEPT", "SHAPE-DELAY"}

HandlerTypeOK ==
    /\ pc \in {"idle", "flow", "lock"} \cup Decisions
    /\ now \in Nat
    /\ delay \in Nat
    /\ pacerOf \in [Ids -> Ids \cup {NoPacer}]

SharedTypeOK ==
    /\ pacers \in [Ids -> PacerState]
    /\ burstPacerByIP \in [IPs -> Ids \cup {NoPacer}]
    /\ shapePendingFlows \in SUBSET Flows
    /\ pendingDelays \in Nat

WorkerTypeOK ==
    /\ wpc \in [Ids -> {"none", "asleep", "released", "forgotten", "answered",
                        "done"}]
    /\ wakeAt \in [Ids -> Nat]
    /\ stampedAt \in [Ids -> Nat] /\ releasedAt \in [Ids -> Nat]

CleanerTypeOK ==
    /\ cpc \in {"idle", "range", "delete"}
    /\ cnow \in Nat
    /\ ctodo \in SUBSET IPs
    /\ ckey \in IPs

\* Every variable has its type; in particular the atomic counter
\* pendingDelays, which goroutines add to and subtract from without a lock,
\* never goes below zero.
TypeOK == IngressTypeOK /\ HandlerTypeOK /\ SharedTypeOK /\ WorkerTypeOK
          /\ CleanerTypeOK

Init ==
    /\ IngressInit
    /\ pc = "idle" /\ now = 0 /\ delay = 0
    /\ pacerOf = [id \in Ids |-> NoPacer]
    /\ pacers = [id \in Ids |-> NewPacer]
    /\ burstPacerByIP = [ip \in IPs |-> NoPacer]
    /\ shapePendingFlows = {}
    /\ pendingDelays = 0
    /\ wpc = [id \in Ids |-> "none"]
    /\ wakeAt = [id \in Ids |-> 0]
    /\ stampedAt = [id \in Ids |-> 0] /\ releasedAt = [id \in Ids |-> 0]
    /\ cpc = "idle" /\ cnow = 0 /\ ctodo = {} /\ ckey \in IPs
-----------------------------------------------------------------------------
(***************************************************************************)
(* The callback.                                                           *)
(***************************************************************************)
ReceiveUnmatched ==
    /\ pc = "idle"
    /\ \E p \in Inputs : AcceptUnmatched(p)
    /\ UNCHANGED <<handlerVars, sharedVars, workerVars, historyVars, cleanerVars>>

ReceiveBypassed ==
    /\ pc = "idle"
    /\ \E p \in Inputs : AcceptBypassed(p)
    /\ UNCHANGED <<handlerVars, sharedVars, workerVars, historyVars, cleanerVars>>

Receive ==
    /\ pc = "idle"
    /\ \E p \in Inputs : HandToPolicy(p)
    /\ pc' = "flow"
    /\ now' = clock
    /\ UNCHANGED <<delay, pacerOf, sharedVars, workerVars, historyVars,
                   cleanerVars>>

\* The packet in hand, its flow key and its pacer.
InHand == pkts[rcvd]
MyPacer == pacers[pacerOf[rcvd]]

\* The callback returns.
Return ==
    /\ pc' = "idle" /\ now' = 0 /\ delay' = 0
    /\ UNCHANGED pacerOf

FlowNeverPending(p) == FALSE
FlowPending(p) == p.flow \in shapePendingFlows

FlowPendingDrop ==
    /\ pc = "flow"
    /\ FlowPending(InHand)
    /\ Inc("DelayOverflowDropped")
    /\ RememberEvent("SHAPE-FLOW-PENDING-DROP", rcvd)
    /\ DropOrReject(rcvd)
    /\ Return
    /\ UNCHANGED <<clock, rcvd, pkts, sharedVars, workerVars, historyVars,
                   cleanerVars>>

\* burstPacerByIP.LoadOrStore(srcIP, &burstPacerState{})
LoadPacer ==
    /\ pc = "flow"
    /\ ~FlowPending(InHand)
    /\ IF burstPacerByIP[InHand.ip] = NoPacer
       THEN /\ burstPacerByIP' = [burstPacerByIP EXCEPT ![InHand.ip] = rcvd]
            /\ pacerOf' = [pacerOf EXCEPT ![rcvd] = rcvd]
       ELSE /\ pacerOf' =
                   [pacerOf EXCEPT ![rcvd] = burstPacerByIP[InHand.ip]]
            /\ UNCHANGED burstPacerByIP
    /\ pc' = "lock"
    /\ UNCHANGED <<clock, ingressVars, now, delay, pacers, shapePendingFlows,
                   pendingDelays, workerVars, historyVars, cleanerVars>>

ReadyTooEarly(p, t) ==
    p.LastRelease = ZeroTime \/ t - p.LastRelease >= BurstInterval - 1
\* LastRelease.IsZero() says first packet; the subtraction would say the same of
\* it in Go, where the distance from the zero time saturates.
Ready(p, t) == p.LastRelease = ZeroTime \/ t - p.LastRelease >= BurstInterval

\* now may be older than LastRelease: a worker can release between the two.
ActualDelay(p, t) ==
    LET d == BurstInterval - (t - p.LastRelease) IN IF d < 0 THEN 0 ELSE d

Overflows(d) == BurstMaxDelay > 0 /\ d > BurstMaxDelay

LimitReachedLate(n) == MaxPendingDelays > 0 /\ n > MaxPendingDelays
LimitReached(n) == MaxPendingDelays > 0 /\ n >= MaxPendingDelays

\* The critical section under pacer.mu, whose five ways out are the five
\* actions below.  Each of them starts with pacer.LastSeen = now.
SetPacer(p) == pacers' = [pacers EXCEPT ![pacerOf[rcvd]] = p]
Touched == [MyPacer EXCEPT !.LastSeen = now]

Decide(tag) ==
    /\ pc = "lock"
    /\ pc' = tag
    /\ UNCHANGED <<clock, ingressVars, now, pacerOf, burstPacerByIP,
                   shapePendingFlows, pendingDelays, workerVars, cleanerVars>>

DecideAccept ==
    /\ Decide("SHAPE-ACCEPT")
    /\ Ready(MyPacer, now)
    /\ SetPacer([LastRelease |-> now, LastSeen |-> now, Pending |-> FALSE])
    /\ stampedAt' = [stampedAt EXCEPT ![rcvd] = now]
    /\ UNCHANGED <<delay, releasedAt>>

NotReady ==
    /\ ~Ready(MyPacer, now)
    /\ delay' = ActualDelay(MyPacer, now)
    /\ UNCHANGED historyVars

DecideOverflow ==
    /\ Decide("SHAPE-OVERFLOW-DROP")
    /\ NotReady
    /\ Overflows(delay')
    /\ SetPacer(Touched)

DecideIPPending ==
    /\ Decide("SHAPE-IP-PENDING-DROP")
    /\ NotReady
    /\ ~Overflows(delay')
    /\ MyPacer.Pending
    /\ SetPacer(Touched)

DecideLimit ==
    /\ Decide("SHAPE-PENDING-DROP")
    /\ NotReady
    /\ ~Overflows(delay')
    /\ ~MyPacer.Pending
    /\ LimitReached(pendingDelays)
    /\ SetPacer(Touched)

DecideDelay ==
    /\ Decide("SHAPE-DELAY")
    /\ NotReady
    /\ ~Overflows(delay')
    /\ ~MyPacer.Pending
    /\ ~LimitReached(pendingDelays)
    /\ SetPacer([Touched EXCEPT !.Pending = TRUE])

\* After the unlock: count, remember, answer.
AnswerAccept ==
    /\ pc = "SHAPE-ACCEPT"
    /\ Inc("Accepted")
    /\ RememberEvent(pc, rcvd)
    /\ SetVerdict(rcvd, NfAccept)
    /\ releasedAt' = [releasedAt EXCEPT ![rcvd] = clock]
    /\ Return
    /\ UNCHANGED <<clock, rcvd, pkts, sharedVars, workerVars, stampedAt,
                   cleanerVars>>

\* The drop for MaxPendingDelays is the one decision that is not remembered.
AnswerDrop ==
    /\ pc \in DropDecisions
    /\ Inc("DelayOverflowDropped")
    /\ IF pc = "SHAPE-PENDING-DROP" THEN UNCHANGED lastEvent
                                    ELSE RememberEvent(pc, rcvd)
    /\ DropOrReject(rcvd)
    /\ Return
    /\ UNCHANGED <<clock, rcvd, pkts, sharedVars, workerVars, historyVars,
                   cleanerVars>>

StartNothing(id, t) == UNCHANGED workerVars
StartWorker(id, t) ==
    /\ wpc' = [wpc EXCEPT ![id] = "asleep"]
    /\ wakeAt' = [wakeAt EXCEPT ![id] = t]

\* The packet is left to a worker, whose sleep begins now, not at `now'.  One
\* step: what the other goroutines do meanwhile (subtract from pendingDelays,
\* delete other flows) commutes with each part of it.
SpawnWorker ==
    /\ pc = "SHAPE-DELAY"
    /\ shapePendingFlows' = shapePendingFlows \cup {InHand.flow}
    /\ Inc("Delayed")
    /\ pendingDelays' = pendingDelays + 1
    /\ RememberEvent(pc, rcvd)
    /\ StartWorker(rcvd, clock + delay)
    /\ Return
    /\ UNCHANGED <<clock, rcvd, pkts, verdict, lost, pacers, burstPacerByIP,
                   historyVars, cleanerVars>>
-----------------------------------------------------------------------------
(***************************************************************************)
(* The release worker of packet id.                                        *)
(***************************************************************************)
WorkerGoes(id, from, to) ==
    /\ wpc[id] = from
    /\ wpc' = [wpc EXCEPT ![id] = to]
    /\ wakeAt' = [wakeAt EXCEPT ![id] = 0]
    /\ UNCHANGED <<clock, rcvd, pkts, lastEvent, handlerVars, burstPacerByIP,
                   cleanerVars>>

\* What the worker leaves in its pacer p at time t, having slept until w.
StillPending(p, t, w) == [LastRelease |-> t, LastSeen |-> t, Pending |-> p.Pending]
StampedAtDeadline(p, t, w) == [LastRelease |-> w, LastSeen |-> w, Pending |-> FALSE]
Released(p, t, w) == [LastRelease |-> t, LastSeen |-> t, Pending |-> FALSE]

\* Sleep is over at wakeAt, but the goroutine may run any time after that.
Release(id) ==
    /\ WorkerGoes(id, "asleep", "released")
    /\ clock >= wakeAt[id]
    /\ pacers' = [pacers EXCEPT ![pacerOf[id]] =
                      Released(pacers[pacerOf[id]], clock, wakeAt[id])]
    /\ stampedAt' = [stampedAt EXCEPT ![id] = clock]
    /\ UNCHANGED <<verdict, lost, counters, shapePendingFlows, pendingDelays,
                   releasedAt>>

DeleteFlow(id) ==
    /\ WorkerGoes(id, "released", "forgotten")
    /\ shapePendingFlows' = shapePendingFlows \ {pkts[id].flow}
    /\ UNCHANGED <<verdict, lost, counters, pacers, pendingDelays, historyVars>>

CountNothing == UNCHANGED counters
CountRelease == Inc("Accepted")

AnswerDelayed(id) ==
    /\ WorkerGoes(id, "forgotten", "answered")
    /\ CountRelease
    /\ SetVerdict(id, NfAccept)
    /\ releasedAt' = [releasedAt EXCEPT ![id] = clock]
    /\ UNCHANGED <<pacers, shapePendingFlows, pendingDelays, stampedAt>>

LoseDecrement(n) == n
AfterDecrement(n) == n - 1

\* defer atomic.AddInt64(&pendingDelays, -1)
Decrement(id) ==
    /\ WorkerGoes(id, "answered", "done")
    /\ pendingDelays' = AfterDecrement(pendingDelays)
    /\ UNCHANGED <<verdict, lost, counters, pacers, shapePendingFlows,
                   historyVars>>
-----------------------------------------------------------------------------
(***************************************************************************)
(* shapeCleanupLoop: Range visits every key once, in any order.  The key   *)
(* is deleted after pacer.mu was released.                                 *)
(***************************************************************************)
CleanerUnchanged == UNCHANGED <<clock, ingressVars, handlerVars, pacers,
                        shapePendingFlows, pendingDelays, workerVars, historyVars>>

CleanupTick ==
    /\ cpc = "idle"
    /\ cpc' = "range" /\ cnow' = clock /\ ctodo' = IPs
    /\ UNCHANGED <<ckey, burstPacerByIP>>
    /\ CleanerUnchanged

Stale(p, t) ==
    ~p.Pending /\ p.LastSeen # ZeroTime /\ t - p.LastSeen > CleanupAfter

StaleKey(ip) ==
    /\ burstPacerByIP[ip] # NoPacer
    /\ Stale(pacers[burstPacerByIP[ip]], cnow)

CleanupVisit(ip) ==
    /\ cpc = "range"
    /\ ip \in ctodo
    /\ ctodo' = ctodo \ {ip}
    /\ IF StaleKey(ip) THEN cpc' = "delete" /\ ckey' = ip
                       ELSE UNCHANGED <<cpc, ckey>>
    /\ UNCHANGED <<cnow, burstPacerByIP>>
    /\ CleanerUnchanged

CleanupDelete ==
    /\ cpc = "delete"
    /\ burstPacerByIP' = [burstPacerByIP EXCEPT ![ckey] = NoPacer]
    /\ cpc' = "range"
    /\ UNCHANGED <<cnow, ctodo, ckey>>
    /\ CleanerUnchanged

CleanupEnd ==
    /\ cpc = "range"
    /\ ctodo = {}
    /\ cpc' = "idle" /\ cnow' = 0
    /\ UNCHANGED <<ctodo, ckey, burstPacerByIP>>
    /\ CleanerUnchanged
-----------------------------------------------------------------------------
\* What statsLoop prints when its ticker fires: state.clients stays empty (no
\* call of Decide), and DelayOverflowDropped is not part of Snapshot.
PrintedStats ==
    [accepted |-> counters["Accepted"], delayed |-> counters["Delayed"],
     dropped |-> counters["Dropped"], tracked |-> 0, last |-> lastEvent.Type]

\* Time runs on after MaxTime until every sleep is over and every pacer can be
\* found stale.
Tick ==
    /\ \/ clock < MaxTime
       \/ \E id \in Ids : wpc[id] = "asleep" /\ clock < wakeAt[id]
       \/ \E ip \in IPs :
             /\ burstPacerByIP[ip] # NoPacer
             /\ clock - pacers[burstPacerByIP[ip]].LastSeen <= CleanupAfter
    /\ clock' = clock + 1
    /\ UNCHANGED <<ingressVars, handlerVars, sharedVars, workerVars, historyVars,
                   cleanerVars>>

HandlerStep ==
    \/ FlowPendingDrop \/ LoadPacer
    \/ DecideAccept \/ DecideOverflow \/ DecideIPPending \/ DecideLimit
    \/ DecideDelay
    \/ AnswerAccept \/ AnswerDrop \/ SpawnWorker

WorkerStep(id) ==
    Release(id) \/ DeleteFlow(id) \/ AnswerDelayed(id) \/ Decrement(id)

CleanerStep ==
    \/ CleanupTick
    \/ \E ip \in IPs : CleanupVisit(ip)
    \/ CleanupDelete
    \/ CleanupEnd

Next ==
    \/ ReceiveUnmatched \/ ReceiveBypassed \/ Receive
    \/ HandlerStep
    \/ \E id \in Ids : WorkerStep(id)
    \/ CleanerStep
    \/ Tick

\* The Go scheduler runs every runnable goroutine sooner or later, the cleanup
\* ticker keeps ticking and time passes.  Nothing says that packets keep coming.
Fairness ==
    /\ WF_vars(HandlerStep)
    /\ \A id \in Ids : WF_vars(WorkerStep(id))
    /\ WF_vars(CleanerStep)
    /\ WF_vars(Tick)

Spec == Init /\ [][Next]_vars
FairSpec == Spec /\ Fairness
-----------------------------------------------------------------------------
(***************************************************************************)
(* Properties.                                                             *)
(***************************************************************************)
InStates(S) == {id \in Ids : wpc[id] \in S}

\* Packets that wait in a worker for their verdict.
Held == InStates({"asleep", "released", "forgotten"})
\* Workers that have not returned.
LiveWorkers == Held \cup InStates({"answered"})

\* --max-pending-delays, "maximum pending shaped packets globally": never more
\* than MaxPendingDelays packets wait for a worker, although the callback tests
\* the counter first and adds to it after it has given up the lock.
PendingWithinLimit ==
    MaxPendingDelays > 0 => Cardinality(Held) <= MaxPendingDelays

\* The counter that is compared with the limit is exactly the number of workers
\* that have not returned: no add or deferred subtraction is missed or doubled.
PendingCountExact == pendingDelays = Cardinality(LiveWorkers)

\* A pacer that says Pending has a packet on its way that will clear it: one
\* whose worker still sleeps, or one the callback is about to start a worker
\* for.  Otherwise the address would be dropped (SHAPE-IP-PENDING-DROP) for
\* nothing, and the pacer would never be cleaned up.
NoStuckPending ==
    \A o \in Ids : pacers[o].Pending =>
        \/ pc = "SHAPE-DELAY" /\ pacerOf[rcvd] = o
        \/ \E id \in InStates({"asleep"}) : pacerOf[id] = o

\* shapePendingFlows holds exactly the flows of the packets whose worker has
\* not come to its Delete, and no flow has two such packets (the second worker
\* would release a retransmission that was to be dropped).
FlowsMatchWorkers ==
    LET W == InStates({"asleep", "released"})
    IN  /\ shapePendingFlows = {pkts[id].flow : id \in W}
        /\ \A i, j \in W : pkts[i].flow = pkts[j].flow => i = j

Immediate(id) == wpc[id] = "none" /\ stampedAt[id] # 0

\* How long the callback took from reading its clock to the verdict.
Lateness(id) == releasedAt[id] - stampedAt[id]

\* --burst-interval, the half of it that the code does keep: behind a packet that
\* was accepted at once (SHAPE-ACCEPT), every later packet given the same pacer gets
\* its verdict at least BurstInterval later, whether at once or from a worker and
\* whatever other workers of that pacer do in between, short by no more than the
\* time the callback took over the first one: LastRelease is not the time of the
\* verdict but the `now' that was read before the pacer was loaded.
SpacingBehindAccept ==
    \A i, j \in Ids :
        /\ i < j
        /\ pacerOf[i] = pacerOf[j] /\ pacerOf[i] # NoPacer
        /\ Immediate(i)
        /\ releasedAt[i] # 0 /\ releasedAt[j] # 0
        => releasedAt[j] - releasedAt[i] >= BurstInterval - Lateness(i)

\* LastRelease of a pacer never goes back, although the callback writes a `now'
\* it read before it took the lock and late workers write their own time.
LastReleaseMonotone ==
    [][\A o \in Ids : pacers'[o].LastRelease >= pacers[o].LastRelease]_vars

Answered(id) == verdict[id] # Unanswered

\* The matching packets that were answered, those of them that were dropped and that
\* were let through; the packets that were delayed.
Seen == {id \in 1..rcvd : Matched(pkts[id]) /\ Answered(id)}
WasDropped(id) == wpc[id] = "none" /\ stampedAt[id] = 0 /\ ~Bypassed(pkts[id])
Drops == {id \in Seen : WasDropped(id)}
Passes == Seen \ Drops
Delays == Ids \ InStates({"none"})

\* The counters agree with what the callback and the workers did (the model counts
\* and answers in one step): each matching packet that was answered, whether or not
\* the kernel learnt of it, was counted once, as accepted or as an overflow drop,
\* and a delayed one before that once as delayed.
CountersAgree ==
    /\ counters["DelayOverflowDropped"] = Cardinality(Drops)
    /\ counters["Accepted"] = Cardinality(Passes)
    /\ counters["Delayed"] = Cardinality(Delays)

\* Every packet the kernel hands over gets a verdict (which the kernel receives
\* unless the write fails): none is forgotten on one of the early returns or in
\* a worker.
EveryPacketAnswered ==
    \A id \in Ids : (rcvd >= id) ~> Answered(id)

\* Once packets stop coming, every pacer is cleaned up: the map does not leak,
\* which needs that no pacer keeps Pending for ever.
PacersReclaimed ==
    <>[](\A ip \in IPs : burstPacerByIP[ip] = NoPacer)
-----------------------------------------------------------------------------
(***************************************************************************)
(* The inductive invariant behind the safety properties.                   *)
(***************************************************************************)
\* How far a packet has come: what is known of the one in hand, of the ones not
\* yet delivered, and of the ones that have a worker.
Progress ==
    /\ pc # "idle" => /\ rcvd \in Ids
                      /\ 1 <= now /\ now <= clock
                      /\ verdict[rcvd] = Unanswered
                      /\ wpc[rcvd] = "none"
                      /\ pkts[rcvd].flow \notin shapePendingFlows \/ pc = "flow"
                      /\ pc # "SHAPE-ACCEPT" => stampedAt[rcvd] = 0
                      /\ pc # "flow" => pacerOf[rcvd] # NoPacer
                      /\ pc = "flow" => pacerOf[rcvd] = NoPacer
    /\ \A id \in Ids : id > rcvd => /\ verdict[id] = Unanswered
                                    /\ wpc[id] = "none"
                                    /\ stampedAt[id] = 0
                                    /\ pacerOf[id] = NoPacer
    /\ \A id \in Ids : wpc[id] # "none" => pacerOf[id] # NoPacer
    /\ \A id \in Ids : wpc[id] = "asleep" => stampedAt[id] = 0
    /\ \A id \in Ids : stampedAt[id] # 0 => pacerOf[id] # NoPacer

\* A packet that is let through was stamped before, and not with a time to come.
VerdictTimes ==
    /\ pc = "SHAPE-ACCEPT" => stampedAt[rcvd] # 0
    /\ \A id \in Ids : wpc[id] \in {"released", "forgotten"} => stampedAt[id] # 0
    /\ \A id \in Ids : stampedAt[id] <= clock
    /\ \A id \in Ids : releasedAt[id] # 0 =>
           stampedAt[id] # 0 /\ releasedAt[id] >= stampedAt[id]

\* The packets without a verdict are the one in hand and the ones held.
OpenPackets ==
    \A id \in 1..rcvd :
        verdict[id] = Unanswered <=> (id = rcvd /\ pc # "idle") \/ id \in Held

\* The place the callback has promised itself between its test of pendingDelays
\* and its addition is counted too.
LimitKept ==
    MaxPendingDelays > 0 =>
        pendingDelays + (IF pc = "SHAPE-DELAY" THEN 1 ELSE 0) <= MaxPendingDelays

\* No pacer is stamped with a time to come.
StampsPast == \A o \in Ids : pacers[o].LastRelease <= clock

\* A packet accepted at once is remembered by its pacer for good, and whatever
\* is on its way behind it will come out BurstInterval later or more.
AcceptRemembered ==
    \A i \in Ids : Immediate(i) => stampedAt[i] <= pacers[pacerOf[i]].LastRelease

BehindAccept ==
    \A i, j \in Ids :
        i < j /\ pacerOf[i] = pacerOf[j] /\ pacerOf[i] # NoPacer /\ Immediate(i) =>
            /\ wpc[j] = "asleep" => wakeAt[j] >= stampedAt[i] + BurstInterval
            /\ j = rcvd /\ pc = "SHAPE-DELAY" =>
                   now + delay >= stampedAt[i] + BurstInterval
            /\ stampedAt[j] # 0 => stampedAt[j] >= stampedAt[i] + BurstInterval

\* The inductive invariant: where every packet is (Progress, OpenPackets,
\* PendingCountExact, FlowsMatchWorkers, NoStuckPending), that the limit is kept
\* with the reservation counted, and what the pacers' stamps promise.
IndInv ==
    /\ TypeOK /\ Progress /\ OpenPackets
    /\ PendingCountExact /\ LimitKept
    /\ FlowsMatchWorkers /\ NoStuckPending
    /\ StampsPast /\ VerdictTimes /\ AcceptRemembered /\ BehindAccept

\* What CountersAgree needs beyond IndInv: only a packet that matches and is not
\* let past comes to the policy.
Shaped ==
    /\ pc # "idle" => Matched(pkts[rcvd]) /\ ~Bypassed(pkts[rcvd])
    /\ \A id \in Ids : wpc[id] # "none" \/ stampedAt[id] # 0 =>
           Matched(pkts[id]) /\ ~Bypassed(pkts[id])
-----------------------------------------------------------------------------
Gate == INSTANCE NfqGate WITH
    HoldLimit <- MaxPendingDelays,
    Answers <- {v \in Verdict : v.action # "none"},
    Accepts <- {NfAccept, Lost},
    held <- Held

\* The shaping policy implements the gate: verdicts are given once and never
\* changed, the callback takes no packet before it is done with the last one, a
\* delayed packet is never dropped, and the limit on delayed packets is kept.
ImplementsGate == Gate!GateSpec
-----------------------------------------------------------------------------
(***************************************************************************)
(* What the flags' help says and the code does not do.                     *)
(***************************************************************************)
\* "minimum interval between released SYN packets per IP in shape mode", between
\* the times the two verdicts were given.
ReleaseSpacing ==
    \A i, j \in Ids :
        /\ i # j
        /\ releasedAt[i] # 0 /\ releasedAt[j] # 0
        /\ pkts[i].ip = pkts[j].ip
        => \/ releasedAt[i] >= releasedAt[j] + BurstInterval
           \/ releasedAt[j] >= releasedAt[i] + BurstInterval

\* "accepted=51 delayed=7 dropped=3 ... action=shape": the statistics line shows
\* the packets that were dropped.
DropsShown == PrintedStats.dropped = Cardinality(Drops)
=============================================================================
