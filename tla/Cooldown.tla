------------------------------ MODULE Cooldown ------------------------------
(***************************************************************************)
(* --action drop of cmd/nfqcooldown/main.go and internal/state.go: after a *)
(* packet of an address was accepted, the address must stay silent for the *)
(* cooldown the algorithm chose; what comes earlier is dropped, up to      *)
(* MaxDropsPerIP packets in a row.                                         *)
(*                                                                         *)
(* The callback (pc, now, dropCount) and cleanupLoop (cpc, cutoff) share   *)
(* State.  Each method of State holds State.mu throughout and is one step; *)
(* the callback calls several of them for one packet, and the cleanup can  *)
(* come between any two.                                                   *)
(***************************************************************************)
EXTENDS Ingress

CONSTANTS
    Cooldowns,          \* what Algorithm.Next may return
    MaxDropsPerIP, CleanupAfter,
    NoClient            \* clients[ip] of an address that is not in the map

VARIABLES
    forgetOnDrop,       \* cfg.ForgetOnDrop
    pc, now, dropCount,
    clients,            \* State.clients
    cpc, cutoff,
    quiet,              \* history: when the last cooldown of an address ends
    streak              \* history: drops of an address since its last accept

handlerVars == <<pc, now, dropCount>>
cleanerVars == <<cpc, cutoff>>
historyVars == <<quiet, streak>>
vars == <<forgetOnDrop, clock, ingressVars, handlerVars, clients, cleanerVars,
          historyVars>>

ClientState == [LastSeen : Nat, Cooldown : Cooldowns, DropCount : Nat]

ASSUME CooldownAssumption ==
    /\ Cooldowns \subseteq Nat
    /\ MaxDropsPerIP \in Nat
    /\ CleanupAfter \in Int
    /\ NoClient \notin ClientState

\* Every variable has its type.
TypeOK ==
    /\ IngressTypeOK
    /\ forgetOnDrop \in BOOLEAN
    /\ pc \in {"idle", "decide", "accept", "incdrop", "dropped", "forget", "answer"}
    /\ now \in Nat /\ dropCount \in Nat
    /\ clients \in [IPs -> ClientState \cup {NoClient}]
    /\ cpc \in {"idle", "lock"} /\ cutoff \in Int
    /\ quiet \in [IPs -> Nat] /\ streak \in [IPs -> Nat]

Init ==
    /\ IngressInit
    /\ forgetOnDrop \in BOOLEAN
    /\ pc = "idle" /\ now = 0 /\ dropCount = 0
    /\ clients = [ip \in IPs |-> NoClient]
    /\ cpc = "idle" /\ cutoff = 0
    /\ quiet = [ip \in IPs |-> 0]
    /\ streak = [ip \in IPs |-> 0]
-----------------------------------------------------------------------------
(***************************************************************************)
(* The callback.                                                           *)
(***************************************************************************)
ReceiveUnmatched ==
    /\ pc = "idle"
    /\ \E p \in Inputs : AcceptUnmatched(p)
    /\ UNCHANGED <<forgetOnDrop, handlerVars, clients, cleanerVars, historyVars>>

ReceiveBypassed ==
    /\ pc = "idle"
    /\ \E p \in Inputs : AcceptBypassed(p)
    /\ UNCHANGED <<forgetOnDrop, handlerVars, clients, cleanerVars, historyVars>>

Receive ==
    /\ pc = "idle"
    /\ \E p \in Inputs : HandToPolicy(p)
    /\ pc' = "decide"
    /\ now' = clock
    /\ UNCHANGED <<forgetOnDrop, dropCount, clients, cleanerVars, historyVars>>

InHand == pkts[rcvd]
MyIP == InHand.ip
Tracked(ip) == clients[ip] # NoClient

\* A step of the callback on State; the packet in hand has no verdict yet.
StateStep(from, to) ==
    /\ pc = from
    /\ pc' = to
    /\ UNCHANGED <<forgetOnDrop, clock, rcvd, pkts, verdict, lost, now, cleanerVars>>

ExpiredTooEarly(c, t) == t - c.LastSeen >= c.Cooldown - 1
Expired(c, t) == t - c.LastSeen >= c.Cooldown

\* clients[ip] = ClientState{LastSeen: t, Cooldown: cd}, cd from the algorithm.
StartCooldown(ip, t) ==
    \E cd \in Cooldowns :
        /\ clients' = [clients EXCEPT ![ip] =
                           [LastSeen |-> t, Cooldown |-> cd, DropCount |-> 0]]
        /\ quiet' = [quiet EXCEPT ![ip] = t + cd]
        /\ streak' = [streak EXCEPT ![ip] = 0]

\* State.Decide, its three ways out.
DecideFirst ==
    /\ StateStep("decide", "accept")
    /\ ~Tracked(MyIP)
    /\ StartCooldown(MyIP, now)
    /\ RememberEvent("ACCEPT-FIRST", rcvd)
    /\ UNCHANGED <<counters, dropCount>>

DecideAccept ==
    /\ StateStep("decide", "accept")
    /\ Tracked(MyIP)
    /\ Expired(clients[MyIP], now)
    /\ StartCooldown(MyIP, now)
    /\ RememberEvent("ACCEPT", rcvd)
    /\ UNCHANGED <<counters, dropCount>>

DecideInside ==
    /\ StateStep("decide", "incdrop")
    /\ Tracked(MyIP)
    /\ ~Expired(clients[MyIP], now)
    /\ RememberEvent("INSIDE-COOLDOWN", rcvd)
    /\ UNCHANGED <<counters, dropCount, clients, quiet, streak>>

\* State.IncDrop: the address may have been cleaned up since Decide.
MissingCount == 0
IncDrop ==
    /\ StateStep("incdrop", "dropped")
    /\ IF Tracked(MyIP)
       THEN /\ dropCount' = clients[MyIP].DropCount + 1
            /\ clients' = [clients EXCEPT ![MyIP].DropCount = @ + 1]
       ELSE /\ dropCount' = MissingCount
            /\ UNCHANGED clients
    /\ UNCHANGED <<counters, lastEvent, historyVars>>

ForcesLate(n) == MaxDropsPerIP > 0 /\ n > MaxDropsPerIP + 1
Forces(n) == MaxDropsPerIP > 0 /\ n > MaxDropsPerIP

\* State.ForceAccept, with a clock read of its own.
ForceAccept ==
    /\ StateStep("dropped", "accept")
    /\ Forces(dropCount)
    /\ StartCooldown(MyIP, clock)
    /\ RememberEvent("FORCE-ACCEPT", rcvd)
    /\ dropCount' = 0
    /\ UNCHANGED counters

Drop ==
    /\ StateStep("dropped", IF forgetOnDrop THEN "forget" ELSE "answer")
    /\ ~Forces(dropCount)
    /\ Inc("Dropped")
    /\ RememberEvent("DROP", rcvd)
    /\ dropCount' = 0
    /\ streak' = [streak EXCEPT ![MyIP] = @ + 1]
    /\ UNCHANGED <<clients, quiet>>

\* State.Forget
Forget ==
    /\ StateStep("forget", "answer")
    /\ clients' = [clients EXCEPT ![MyIP] = NoClient]
    /\ UNCHANGED <<counters, lastEvent, dropCount, historyVars>>

Answer(from) ==
    /\ pc = from
    /\ pc' = "idle" /\ now' = 0
    /\ UNCHANGED <<forgetOnDrop, clock, rcvd, pkts, lastEvent, dropCount, clients,
                   cleanerVars, historyVars>>

CountTwice == counters' = [counters EXCEPT !["Accepted"] = @ + 2]
CountAccept == Inc("Accepted")

AnswerAccept ==
    /\ Answer("accept")
    /\ CountAccept
    /\ SetVerdict(rcvd, NfAccept)

VerdictForgotten == UNCHANGED <<verdict, lost>>
DropVerdict == DropOrReject(rcvd)

AnswerDrop ==
    /\ Answer("answer")
    /\ DropVerdict
    /\ UNCHANGED counters
-----------------------------------------------------------------------------
(***************************************************************************)
(* cleanupLoop: State.Cleanup reads the clock before it takes the lock.    *)
(***************************************************************************)
CleanupStart ==
    /\ cpc = "idle"
    /\ cpc' = "lock"
    /\ cutoff' = clock - CleanupAfter
    /\ UNCHANGED <<forgetOnDrop, clock, ingressVars, handlerVars, clients, historyVars>>

StaleSwapped(c) == c # NoClient /\ cutoff < c.LastSeen
StaleClient(c) == c # NoClient /\ c.LastSeen < cutoff

CleanupDelete ==
    /\ cpc = "lock"
    /\ cpc' = "idle" /\ cutoff' = 0
    /\ clients' = [ip \in IPs |-> IF StaleClient(clients[ip]) THEN NoClient
                                                             ELSE clients[ip]]
    /\ UNCHANGED <<forgetOnDrop, clock, ingressVars, handlerVars, historyVars>>

\* What statsLoop prints: the counters, the tracked addresses, the last event.
PrintedStats ==
    [accepted |-> counters["Accepted"], dropped |-> counters["Dropped"],
     tracked |-> Cardinality({ip \in IPs : Tracked(ip)}), last |-> lastEvent.Type]

\* Time runs on after MaxTime until every client can be found stale.
Tick ==
    /\ \/ clock < MaxTime
       \/ \E ip \in IPs : /\ Tracked(ip)
                          /\ clock - CleanupAfter <= clients[ip].LastSeen
    /\ clock' = clock + 1
    /\ UNCHANGED <<forgetOnDrop, ingressVars, handlerVars, clients, cleanerVars,
                   historyVars>>

HandlerStep ==
    \/ DecideFirst \/ DecideAccept \/ DecideInside
    \/ IncDrop \/ ForceAccept \/ Drop \/ Forget
    \/ AnswerAccept \/ AnswerDrop

CleanerStep == CleanupStart \/ CleanupDelete

Next ==
    \/ ReceiveUnmatched \/ ReceiveBypassed \/ Receive
    \/ HandlerStep
    \/ CleanerStep
    \/ Tick

\* As in Shape: goroutines run, the ticker ticks, time passes.
Fairness == WF_vars(HandlerStep) /\ WF_vars(CleanerStep) /\ WF_vars(Tick)

Spec == Init /\ [][Next]_vars
FairSpec == Spec /\ Fairness
-----------------------------------------------------------------------------
(***************************************************************************)
(* Properties.                                                             *)
(***************************************************************************)
\* The cleanup leaves an entry alone as long as its cooldown can run.
CleanupIsLateEnough == ~forgetOnDrop /\ \A cd \in Cooldowns : cd <= CleanupAfter

\* Unless entries are forgotten on purpose or --cleanup-after is shorter than a
\* cooldown, Decide accepts a packet of an address only when the cooldown chosen
\* at the last accept of that address is over, also when the entry was cleaned
\* up in the meantime.
CooldownKept ==
    [][(CleanupIsLateEnough /\ pc = "decide" /\ pc' = "accept")
        => clock >= quiet[MyIP]]_vars

\* --max-drops-per-ip: no more drops in a row than the option says, as long as the
\* address has an entry.  It loses it when the cleanup comes between Decide and
\* IncDrop, which then does not count: one more packet is dropped, and the next one
\* finds no entry and is accepted.
DropsBounded ==
    MaxDropsPerIP > 0 =>
        \A ip \in IPs :
            streak[ip] <= MaxDropsPerIP + (IF Tracked(ip) THEN 0 ELSE 1)

\* Between two packets, what the statistics line shows adds up: every matching
\* packet was counted exactly once, as accepted or as dropped.
CountersAgree ==
    pc = "idle" =>
        PrintedStats.accepted + PrintedStats.dropped =
            Cardinality({id \in 1..rcvd : Matched(pkts[id])})

\* Once packets stop coming, every address is forgotten.
ClientsReclaimed == <>[](\A ip \in IPs : ~Tracked(ip))

Gate == INSTANCE NfqGate WITH
    HoldLimit <- 1,
    Answers <- {v \in Verdict : v.action # "none"},
    Accepts <- {NfAccept, Lost},
    held <- {}

\* The drop policy implements the gate and never holds a packet back: verdicts
\* are final, in the order of arrival.
ImplementsGate == Gate!GateSpec
-----------------------------------------------------------------------------
(***************************************************************************)
(* The inductive invariant behind the safety properties.                   *)
(***************************************************************************)
\* The packet in hand, and that time does not run backwards for Decide.
Progress ==
    /\ pc # "idle" => /\ rcvd \in Ids /\ now <= clock
                      /\ verdict[rcvd] = Unanswered
    /\ \A id \in 1..rcvd : verdict[id] = Unanswered => id = rcvd /\ pc # "idle"
    /\ \A ip \in IPs : Tracked(ip) => clients[ip].LastSeen <= clock
    /\ cpc = "lock" => cutoff <= clock - CleanupAfter

\* A packet that was not delivered has no verdict.
Undelivered == \A id \in Ids : id > rcvd => verdict[id] = Unanswered

\* Only --forget-on-drop leads to State.Forget.
ForgetReached == pc = "forget" => forgetOnDrop

\* An entry says when the cooldown ends; without an entry it is over.
CooldownRecorded ==
    \A ip \in IPs :
        /\ Tracked(ip) => quiet[ip] = clients[ip].LastSeen + clients[ip].Cooldown
        /\ ~Tracked(ip) /\ CleanupIsLateEnough => quiet[ip] <= clock

\* DropCount counts the drops in a row, the one being decided included; only an
\* address that has lost its entry can have one more than the limit.
DropsCounted ==
    MaxDropsPerIP > 0 =>
        \A ip \in IPs :
            /\ streak[ip] <= MaxDropsPerIP + 1
            /\ Tracked(ip) => streak[ip] <= MaxDropsPerIP
            /\ pc \in {"incdrop", "dropped"} /\ ip = MyIP =>
                   streak[ip] <= MaxDropsPerIP
            /\ Tracked(ip) =>
                   IF pc = "dropped" /\ ip = MyIP
                   THEN /\ dropCount = clients[ip].DropCount
                        /\ clients[ip].DropCount = streak[ip] + 1
                   ELSE clients[ip].DropCount = streak[ip]

\* The inductive invariant.
IndInv ==
    /\ TypeOK /\ Progress /\ Undelivered /\ ForgetReached
    /\ CooldownRecorded /\ DropsCounted
-----------------------------------------------------------------------------
(***************************************************************************)
(* What the flags' help says and the code does not do.                     *)
(***************************************************************************)
\* "force accept after N consecutive drops from same IP".
DropsWithinLimit ==
    MaxDropsPerIP > 0 => \A ip \in IPs : streak[ip] <= MaxDropsPerIP
=============================================================================
