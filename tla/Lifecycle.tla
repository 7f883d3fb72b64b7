------------------------------ MODULE Lifecycle ------------------------------
(***************************************************************************)
(* The life of the process: main of cmd/nfqcooldown/main.go from the flags *)
(* to the return, with parseConfig and NewWhitelist.  What the callback    *)
(* and the workers do while it lives is the abstract gate that the three   *)
(* actions implement.                                                      *)
(***************************************************************************)
EXTENDS Integers, FiniteSets

CONSTANTS
    Options,        \* the command lines
    QueueSpace,     \* the kernel numbers queues modulo this (2^16)
    MaxPackets, Unanswered, Answers, Accepts     \* of the gate

VARIABLES
    opts,           \* the command line of this process
    phase,          \* where main is
    rawSender,      \* nil, or the state of the raw socket
    listening,      \* the number of the queue that is open, -1: none
    tickers,        \* loops whose time.NewTicker has not been called yet
    rcvd, verdict, held

gateVars == <<rcvd, verdict, held>>
vars == <<opts, phase, rawSender, listening, tickers, gateVars>>

\* The limit on held packets is an option here: see Hold.
Gate == INSTANCE NfqGate WITH HoldLimit <- 0

Positive == {"SplitAt", "SplitSeenTTL", "BurstInterval"}
NonNegative == {"SplitDelay", "FakeLength", "FakeDelay", "PassWindow",
                "MaxDropsPerIP", "MaxPendingDelays", "BurstMaxDelay"}
\* Taken as they are.
Unchecked == {"StatsEvery", "CleanupEvery", "CleanupAfter"}
Numbers == Positive \cup NonNegative \cup Unchecked

\* A mark on the command line, as mustMark and mustMarkSpec tell it apart.
MarkSpecs == {"empty", "bad", "zero", "mark", "mark/mask", "mark/zero"}
\* An item of the whitelist.
Items == {"blank", "ipv4", "cidr4", "ipv6", "bad"}

OptionType ==
    [Action : STRING, Packet : STRING, Mode : STRING, FakePayload : STRING,
     Queue : Nat, Number : [Numbers -> Int],
     SkipMark : MarkSpecs, RejectMark : MarkSpecs, SplitMark : MarkSpecs,
     Whitelist : SUBSET Items, AlgorithmValid : BOOLEAN,
     Inform : BOOLEAN,          \* --help or --version is on the command line
     DurationsParse : BOOLEAN,  \* time.ParseDuration takes every duration
     SplitProbe : BOOLEAN, SplitReverse : BOOLEAN, FakeBadChecksum : BOOLEAN]

ASSUME LifecycleAssumption ==
    /\ MaxPackets \in Nat /\ QueueSpace \in Nat \ {0}
    /\ \A o \in Options :
        o.Queue \in Nat /\ o.Number \in [Numbers -> Int] /\ o.Whitelist \subseteq Items
    /\ Unanswered \notin Answers /\ Accepts \subseteq Answers
-----------------------------------------------------------------------------
(***************************************************************************)
(* parseConfig: everything fatalf is called for.                           *)
(***************************************************************************)
MarkSpecValid(m) == m \notin {"bad", "mark/zero"}
MarkValid(m) == m \in {"empty", "mark"}
MarkEnabled(m) == m # "empty"

NamesValid(o) ==
    /\ o.Action \in {"drop", "shape", "split"}
    /\ o.Mode \in {"fixed", "random", "jitter"}
    /\ o.Packet \in {"syn", "synack", "payload"}
    /\ o.FakePayload \in {"copy", "tls-invalid-length"}
NumbersValid(o) ==
    /\ \A n \in Positive : o.Number[n] > 0
    /\ \A n \in NonNegative : o.Number[n] >= 0
    /\ ~(/\ o.FakePayload = "tls-invalid-length"
         /\ o.Number["FakeLength"] > 0 /\ o.Number["FakeLength"] < 5)
MarksValid(o) ==
    /\ MarkSpecValid(o.SkipMark) /\ MarkValid(o.RejectMark) /\ MarkValid(o.SplitMark)
    /\ o.Action = "split" => MarkEnabled(o.SplitMark)
\* Mutant: payload packets with an action that does not split.
PayloadAnyAction(o) ==
    /\ o.Action = "shape" => o.Packet = "syn"
    /\ o.Action = "split" => o.Packet = "payload"
    /\ ~(o.SplitProbe /\ o.SplitReverse)
    /\ ~(o.FakeBadChecksum /\ o.SplitProbe)
CombinationsValid(o) ==
    /\ o.Action = "shape" => o.Packet = "syn"
    /\ o.Action = "split" => o.Packet = "payload"
    /\ o.Packet = "payload" => o.Action = "split"
    /\ ~(o.SplitProbe /\ o.SplitReverse)
    /\ ~(o.FakeBadChecksum /\ o.SplitProbe)

ConfigValid(o) ==
    /\ o.DurationsParse
    /\ NamesValid(o) /\ NumbersValid(o) /\ MarksValid(o) /\ CombinationsValid(o)

\* NewWhitelist: blank items are skipped, addresses and networks must be IPv4.
WhitelistValid(o) == o.Whitelist \subseteq {"blank", "ipv4", "cidr4"}

\* The loops, each with a ticker of its own.
Loops(o) ==
    {"cleanup", "shapeCleanup", "splitSeenCleanup", "stats"}
    \cup (IF o.Number["PassWindow"] > 0 THEN {"splitPayloadWindowCleanup"} ELSE {})
Interval(o, loop) == o.Number[IF loop = "stats" THEN "StatsEvery" ELSE "CleanupEvery"]
-----------------------------------------------------------------------------
Init ==
    /\ opts \in Options
    /\ phase = "flags"
    /\ rawSender = "nil" /\ listening = -1 /\ tickers = {}
    /\ Gate!GateInit

Main(from, to) == phase = from /\ phase' = to /\ UNCHANGED <<opts, gateVars>>

\* os.Exit: deferred calls do not run, the kernel closes what is open.
Fatal(as) == phase' = as /\ UNCHANGED <<opts, gateVars, rawSender, listening, tickers>>

\* Looked for before the flags are parsed.
PrintAndExit == phase = "flags" /\ opts.Inform /\ Fatal("informed")

ParseFails ==
    /\ phase = "flags"
    /\ ~opts.Inform /\ ~ConfigValid(opts)
    /\ Fatal("refused")
ParseConfig ==
    /\ ~opts.Inform /\ ConfigValid(opts)
    /\ Main("flags", "configured")
    /\ UNCHANGED <<rawSender, listening, tickers>>

BuildFails ==
    /\ phase = "configured"
    /\ ~opts.AlgorithmValid \/ ~WhitelistValid(opts)
    /\ Fatal("refused")

\* nfqueue.Open, with the number cut to 16 bits.
OpenQueue ==
    /\ opts.AlgorithmValid /\ WhitelistValid(opts)
    /\ Main("configured", "open")
    /\ listening' = opts.Queue % QueueSpace
    /\ UNCHANGED <<rawSender, tickers>>
OpenFails ==
    /\ phase = "configured"
    /\ opts.AlgorithmValid /\ WhitelistValid(opts)
    /\ Fatal("fatal")

NeedsRawSender(o) == o.Action = "split" /\ ~o.SplitProbe

OpenRawSender ==
    /\ Main("open", "loops")
    /\ rawSender' = IF NeedsRawSender(opts) THEN "open" ELSE "nil"
    /\ UNCHANGED <<listening, tickers>>
OpenRawFails == phase = "open" /\ NeedsRawSender(opts) /\ Fatal("fatal")

StartLoops ==
    /\ Main("loops", "register")
    /\ tickers' = Loops(opts)
    /\ UNCHANGED <<rawSender, listening>>

Register == Main("register", "running") /\ UNCHANGED <<rawSender, listening, tickers>>
RegisterFails == phase = "register" /\ Fatal("fatal")

Alive == phase \in {"register", "running", "stopping", "closing"}

\* A loop's goroutine begins; a panic in it ends the process.
StartTicker(loop) ==
    /\ Alive
    /\ loop \in tickers
    /\ tickers' = tickers \ {loop}
    /\ phase' = IF Interval(opts, loop) > 0 THEN phase ELSE "panicked"
    /\ UNCHANGED <<opts, rawSender, listening, gateVars>>

\* The callback takes packets until the context is cancelled; it finishes the
\* one in hand, and the workers go on, until the queue is closed.
Take ==
    /\ phase = "running"
    /\ Gate!TakeAndHandle \/ Gate!TakeAndAccept
    /\ UNCHANGED <<opts, phase, rawSender, listening, tickers>>
\* Only shape holds packets back, up to --max-pending-delays; 0 is no limit.
Hold ==
    /\ opts.Action = "shape"
    /\ \/ opts.Number["MaxPendingDelays"] = 0
       \/ Cardinality(held) < opts.Number["MaxPendingDelays"]
    /\ Gate!Hold
Serve ==
    /\ phase \in {"running", "stopping", "closing"}
    /\ Gate!Decide \/ Hold \/ Gate!LetThrough
    /\ UNCHANGED <<opts, phase, rawSender, listening, tickers>>

\* SIGINT or SIGTERM cancels the context.
Signal == Main("running", "stopping") /\ UNCHANGED <<rawSender, listening, tickers>>

\* main returns: the deferred calls run, the last one first; with main the other
\* goroutines end.
CloseRawSender ==
    /\ Main("stopping", "closing")
    /\ rawSender' = IF rawSender = "open" THEN "closed" ELSE rawSender
    /\ UNCHANGED <<listening, tickers>>
Exit ==
    /\ Main("closing", "exited")
    /\ listening' = -1
    /\ UNCHANGED <<rawSender, tickers>>
-----------------------------------------------------------------------------
MainStep ==
    \/ PrintAndExit \/ ParseFails \/ ParseConfig \/ BuildFails
    \/ OpenQueue \/ OpenFails
    \/ OpenRawSender \/ OpenRawFails \/ StartLoops \/ Register \/ RegisterFails
    \/ CloseRawSender \/ Exit

Next ==
    \/ MainStep
    \/ \E loop \in tickers : StartTicker(loop)
    \/ Take \/ Serve \/ Signal

Spec == Init /\ [][Next]_vars
-----------------------------------------------------------------------------
TypeOK ==
    /\ opts \in Options
    /\ phase \in {"flags", "configured", "open", "loops", "register", "running",
                  "stopping", "closing", "exited", "informed", "refused", "fatal",
                  "panicked"}
    /\ rawSender \in {"nil", "open", "closed"}
    /\ listening \in -1..(QueueSpace - 1)
    /\ tickers \subseteq Loops(opts)
    /\ rcvd \in 0..MaxPackets
    /\ verdict \in [1..MaxPackets -> Answers \cup {Unanswered}]
    /\ held \subseteq 1..rcvd

\* What the handler does for the options of a running process: packets of kind
\* "payload" are split, all others go to the policy of the action.
SplitPath(o) == o.Packet = "payload"
\* Where it calls rawSender.Send: the fake, the second part in reverse order, the
\* second part in order.
SendsFake(o) == o.FakeBadChecksum
SendsReversed(o) == o.SplitReverse
SendsSecond(o) == ~o.SplitReverse /\ ~o.SplitProbe
Sends(o) == SplitPath(o) /\ (SendsFake(o) \/ SendsReversed(o) \/ SendsSecond(o))

\* The checks of single flags add up: whichever options passed, a packet is
\* handled by the action that was asked for, and where that handler sends raw
\* packets there is a sender, open as long as packets are taken.
HandlerHasWhatItNeeds ==
    phase = "running" =>
        /\ SplitPath(opts) <=> opts.Action = "split"
        /\ opts.Action = "shape" => opts.Packet = "syn"
        /\ Sends(opts) => rawSender = "open"
        /\ listening # -1

\* The inductive invariant: what main has established when it is in a phase.
Established ==
    /\ phase \notin {"flags", "informed", "refused"} => ConfigValid(opts)
    /\ phase \in {"open", "loops", "register", "running"} => listening # -1
    /\ phase \in {"loops", "register", "running"} =>
            rawSender = IF NeedsRawSender(opts) THEN "open" ELSE "nil"
IndInv == TypeOK /\ Established
=============================================================================
