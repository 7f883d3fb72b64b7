--------------------------- MODULE LifecycleProofs ---------------------------
(***************************************************************************)
(* Proofs about Lifecycle, for every set of command lines and every gate.  *)
(***************************************************************************)
EXTENDS Lifecycle, TLAPS

USE LifecycleAssumption

\* The steps of main do not touch packets.
LEMMA MainKeeps ==
    ASSUME MainStep \/ Signal
    PROVE  UNCHANGED <<opts, gateVars>>
  BY DEF MainStep, Signal, Main, Fatal, PrintAndExit, ParseFails, ParseConfig,
         BuildFails, OpenQueue, OpenFails, OpenRawSender, OpenRawFails, StartLoops,
         Register, RegisterFails, CloseRawSender, Exit

\* What an answer of the gate does to the verdicts.
LEMMA AnswerTypes ==
    ASSUME TypeOK, NEW id, NEW S \in SUBSET Answers, Gate!Answer(id, S)
    PROVE  verdict' \in [1..MaxPackets -> Answers \cup {Unanswered}]
  BY DEF Gate!Answer, TypeOK

\* Taking, answering and holding packets keeps their types.
LEMMA GateTypes ==
    ASSUME TypeOK, Take \/ Serve
    PROVE  TypeOK'
  <1>1. UNCHANGED <<opts, phase, rawSender, listening, tickers>>
    BY DEF Take, Serve
  <1>2. verdict' \in [1..MaxPackets -> Answers \cup {Unanswered}]
    <2>1. CASE UNCHANGED verdict
      BY <2>1 DEF TypeOK
    <2>2. CASE Gate!TakeAndAccept
      BY <2>2, AnswerTypes DEF Gate!TakeAndAccept
    <2>3. CASE Gate!Decide
      <3>1. PICK id \in Gate!InHand : Gate!Answer(id, Answers)
        BY <2>3 DEF Gate!Decide
      <3> QED
        BY <3>1, AnswerTypes
    <2>4. CASE Gate!LetThrough
      <3>1. PICK id \in held : Gate!Answer(id, Accepts)
        BY <2>4 DEF Gate!LetThrough
      <3> QED
        BY <3>1, AnswerTypes
    <2> QED
      BY <2>1, <2>2, <2>3, <2>4 DEF Take, Serve, Hold, Gate!TakeAndHandle, Gate!Hold
  <1>3. rcvd' \in 0..MaxPackets /\ held' \subseteq 1..rcvd'
    <2>1. CASE Take
      <3>1. rcvd' = rcvd + 1 /\ rcvd < MaxPackets /\ held' = held
        BY <2>1 DEF Take, Gate!Take, Gate!TakeAndHandle, Gate!TakeAndAccept
      <3>2. rcvd \in Nat /\ rcvd \in 0..MaxPackets /\ held \subseteq 1..rcvd
        BY DEF TypeOK
      <3>3. rcvd' \in 0..MaxPackets
        BY <3>1, <3>2
      <3>4. 1..rcvd \subseteq 1..(rcvd + 1)
        BY <3>2
      <3> QED
        BY <3>1, <3>2, <3>3, <3>4
    <2>2. CASE Serve
      BY <2>2 DEF Serve, Hold, Gate!Decide, Gate!Hold, Gate!LetThrough, Gate!InHand, TypeOK
    <2> QED
      BY <2>1, <2>2
  <1> QED
    BY <1>1, <1>2, <1>3 DEF TypeOK

\* Every step keeps the invariant.
LEMMA InvStep == IndInv /\ [Next]_vars => IndInv'
  <1> SUFFICES ASSUME IndInv, [Next]_vars PROVE IndInv'
    OBVIOUS
  <1>0. TypeOK /\ Established /\ opts \in Options
    BY DEF IndInv, TypeOK
  <1>1. CASE MainStep \/ Signal
    <2>1. UNCHANGED <<opts, rcvd, verdict, held>>
      BY <1>1, MainKeeps DEF gateVars
    <2>2. opts.Queue % QueueSpace \in 0..(QueueSpace - 1)
      BY <1>0
    <2>3. TypeOK' /\ Established'
      BY <1>0, <1>1, <2>1, <2>2
         DEF TypeOK, Established, MainStep, Signal, Main, Fatal,
             PrintAndExit, ParseFails, ParseConfig, BuildFails, OpenQueue, OpenFails,
             OpenRawSender, OpenRawFails, StartLoops, Register, RegisterFails,
             CloseRawSender, Exit
    <2> QED
      BY <2>3 DEF IndInv
  <1>2. ASSUME NEW loop \in tickers, StartTicker(loop) PROVE IndInv'
    BY <1>0, <1>2 DEF StartTicker, IndInv, TypeOK, Established, Alive, gateVars
  <1>3. CASE Take \/ Serve
    <2>1. UNCHANGED <<opts, phase, rawSender, listening>>
      BY <1>3 DEF Take, Serve
    <2> QED
      BY <1>0, <1>3, <2>1, GateTypes DEF IndInv, Established
  <1>4. CASE UNCHANGED vars
    BY <1>0, <1>4 DEF vars, gateVars, IndInv, TypeOK, Established
  <1> QED
    BY <1>1, <1>2, <1>3, <1>4 DEF Next

\* The invariant of the process holds from the command line to the exit.
THEOREM Invariance == Spec => []IndInv
  <1>1. Init => IndInv
    BY DEF Init, Gate!GateInit, IndInv, TypeOK, Established
  <1> QED
    BY <1>1, InvStep, PTL DEF Spec

\* Whatever command line parseConfig lets through, the handler that runs has what
\* it needs.
THEOREM OptionsSuffice == Spec => []HandlerHasWhatItNeeds
  <1>1. IndInv => HandlerHasWhatItNeeds
    BY DEF IndInv, Established, HandlerHasWhatItNeeds, ConfigValid, NamesValid,
           CombinationsValid, NeedsRawSender, SplitPath, Sends, SendsFake,
           SendsReversed, SendsSecond
  <1> QED
    BY <1>1, Invariance, PTL
=============================================================================
