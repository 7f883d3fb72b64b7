-------------------------- MODULE RawSenderProofs ---------------------------
(***************************************************************************)
(* Proofs about RawSender, for every value of its constants.               *)
(***************************************************************************)
EXTENDS RawSender, TLAPS

USE RawSenderAssumption

\* Types and mutex at the start.
LEMMA InvInit == Init => IndInv
  BY DEF Init, IndInv, TypeOK, MutexHeld, SendStates, CloseStates

\* Type correctness is kept by every step.
LEMMA TypeStep == IndInv /\ [Next]_vars => TypeOK'
  <1> SUFFICES ASSUME IndInv, [Next]_vars PROVE TypeOK'
    OBVIOUS
  <1>0. TypeOK
    BY DEF IndInv
  <1> USE DEF TypeOK, SendStates, CloseStates, At, Go, Return, Requests
  <1>1. CASE NewRawIPv4Sender
    BY <1>0, <1>1 DEF NewRawIPv4Sender
  <1>2. ASSUME NEW c \in Callers, NEW r \in Requests, CallSend(c, r) PROVE TypeOK'
    BY <1>0, <1>2 DEF CallSend
  <1>3. ASSUME NEW c \in Callers, CallClose(c) PROVE TypeOK'
    BY <1>0, <1>3 DEF CallClose
  <1>4. ASSUME NEW c \in Callers, Locks(c) PROVE TypeOK'
    BY <1>0, <1>4 DEF Locks, SendLock, CloseLock
  <1>5. ASSUME NEW c \in Callers, Steps(c) PROVE TypeOK'
    <2>1. CASE SendRefused(c)
      BY <1>0, <2>1 DEF SendRefused
    <2>2. CASE SetMark(c)
      BY <1>0, <2>2 DEF SetMark
    <2>3. CASE Sendto(c)
      BY <1>0, <2>3, IndInv DEF Sendto, IndInv, MutexHeld
    <2>4. CASE SendFails(c)
      BY <1>0, <2>4 DEF SendFails
    <2>5. CASE CloseSocket(c) \/ CloseDone(c)
      BY <1>0, <2>5 DEF CloseSocket, CloseDone
    <2> QED
      BY <1>5, <2>1, <2>2, <2>3, <2>4, <2>5 DEF Steps
  <1>6. CASE UNCHANGED vars
    BY <1>0, <1>6 DEF vars
  <1> QED
    BY <1>1, <1>2, <1>3, <1>4, <1>5, <1>6 DEF Next

\* Only one caller is between its system calls: the others are not disturbed.
LEMMA MutexStep == IndInv /\ [Next]_vars => MutexHeld'
  <1> SUFFICES ASSUME IndInv, [Next]_vars PROVE MutexHeld'
    OBVIOUS
  <1>0. TypeOK /\ MutexHeld
    BY DEF IndInv
  <1> USE DEF TypeOK, MutexHeld, SendStates, CloseStates, At, Go, Return, Requests
  <1>1. CASE NewRawIPv4Sender
    BY <1>0, <1>1 DEF NewRawIPv4Sender
  <1>2. ASSUME NEW c \in Callers, NEW r \in Requests, CallSend(c, r) PROVE MutexHeld'
    BY <1>0, <1>2 DEF CallSend
  <1>3. ASSUME NEW c \in Callers, CallClose(c) PROVE MutexHeld'
    BY <1>0, <1>3 DEF CallClose
  <1>4. ASSUME NEW c \in Callers, Locks(c) PROVE MutexHeld'
    <2>1. CASE SendLock(c)
      BY <1>0, <2>1 DEF SendLock
    <2>2. CASE CloseLock(c)
      BY <1>0, <2>2 DEF CloseLock
    <2> QED
      BY <1>4, <2>1, <2>2 DEF Locks
  <1>5. ASSUME NEW c \in Callers, Steps(c) PROVE MutexHeld'
    <2>1. CASE SendRefused(c)
      BY <1>0, <2>1 DEF SendRefused
    <2>2. CASE SetMark(c)
      BY <1>0, <2>2 DEF SetMark
    <2>3. CASE Sendto(c)
      BY <1>0, <2>3 DEF Sendto
    <2>4. CASE SendFails(c)
      BY <1>0, <2>4 DEF SendFails
    <2>5. CASE CloseSocket(c)
      BY <1>0, <2>5 DEF CloseSocket
    <2>6. CASE CloseDone(c)
      BY <1>0, <2>6 DEF CloseDone
    <2> QED
      BY <1>5, <2>1, <2>2, <2>3, <2>4, <2>5, <2>6 DEF Steps
  <1>6. CASE UNCHANGED vars
    BY <1>0, <1>6 DEF vars
  <1> QED
    BY <1>1, <1>2, <1>3, <1>4, <1>5, <1>6 DEF Next

\* The inductive invariant: between the system calls of a Send or a Close the
\* mutex is held, for any number of callers.
THEOREM Invariance == Spec => []IndInv
  <1>1. IndInv /\ [Next]_vars => IndInv'
    BY TypeStep, MutexStep DEF IndInv
  <1> QED
    BY InvInit, <1>1, PTL DEF Spec

\* No system call is made on a socket that is not open, whoever else sends or
\* closes: raw_linux.go reads fd again once it has the mutex.
THEOREM SocketIsOpen == Spec => []OnlyOpenSocket
  <1>1. IndInv => OnlyOpenSocket
    BY DEF IndInv, TypeOK, MutexHeld, OnlyOpenSocket
  <1> QED
    BY Invariance, <1>1, PTL

\* A step of the sender is a step of the atomic one, or nothing it sees.
LEMMA SendStep == IndInv /\ [Next]_vars => [Atomic!SendNext]_(Atomic!sendVars)
  <1> SUFFICES ASSUME IndInv, [Next]_vars
               PROVE  Atomic!SendNext \/ UNCHANGED <<socket, arg, sent>>
    BY DEF Atomic!sendVars
  <1>0. TypeOK /\ MutexHeld
    BY DEF IndInv
  <1> USE DEF TypeOK, MutexHeld, SendStates, CloseStates, At, Go, Return
  <1>1. CASE NewRawIPv4Sender
    <2>1. Atomic!Open
      BY <1>0, <1>1 DEF NewRawIPv4Sender, Atomic!Open
    <2> QED
      BY <2>1 DEF Atomic!SendNext
  <1>2. ASSUME NEW c \in Callers, NEW r \in Requests, CallSend(c, r)
        PROVE  Atomic!SendNext
    <2>1. Atomic!Submit(c, r)
      BY <1>0, <1>2 DEF CallSend, Atomic!Submit
    <2> QED
      BY <2>1 DEF Atomic!SendNext
  <1>3. ASSUME NEW c \in Callers, CallClose(c) PROVE UNCHANGED <<socket, arg, sent>>
    BY <1>3 DEF CallClose
  <1>4. ASSUME NEW c \in Callers, SendRefused(c) \/ SendLock(c) \/ SendFails(c)
        PROVE  Atomic!Failed(c) \/ UNCHANGED <<socket, arg, sent>>
    BY <1>0, <1>4 DEF SendRefused, SendLock, SendFails, Atomic!Failed, Atomic!Finish
  <1>5. ASSUME NEW c \in Callers, Sendto(c) PROVE Atomic!SendNext
    <2>1. arg[c] \in Requests /\ soMark = arg[c].mark /\ socket = "open"
      BY <1>0, <1>5 DEF Sendto
    <2>2. [arg[c] EXCEPT !.mark = soMark] = arg[c]
      BY <2>1 DEF Requests
    <2>3. Atomic!Sent(c)
      BY <1>0, <1>5, <2>1, <2>2 DEF Sendto, Atomic!Sent, Atomic!Finish
    <2> QED
      BY <2>3 DEF Atomic!SendNext
  <1>6. ASSUME NEW c \in Callers, CloseSocket(c) PROVE Atomic!SendNext
    <2>1. Atomic!Close
      BY <1>0, <1>6 DEF CloseSocket, Atomic!Close
    <2> QED
      BY <2>1 DEF Atomic!SendNext
  <1>7. ASSUME NEW c \in Callers, SetMark(c) \/ CloseLock(c) \/ CloseDone(c)
        PROVE  UNCHANGED <<socket, arg, sent>>
    <2>1. arg[c] = NoRequest => [arg EXCEPT ![c] = NoRequest] = arg
      BY <1>0
    <2> QED
      BY <1>0, <1>7, <2>1 DEF SetMark, CloseLock, CloseDone
  <1>8. CASE UNCHANGED vars
    BY <1>8 DEF vars
  <1> QED
    BY <1>1, <1>2, <1>3, <1>4, <1>5, <1>6, <1>7, <1>8
       DEF Next, Locks, Steps, Atomic!SendNext

\* The sender of raw_linux.go implements atomic sends: setting the mark of the
\* socket and sending cannot be taken apart by another Send or by Close.
THEOREM SenderIsAtomic == Spec => ImplementsRawSend
  <1>1. Init => Atomic!SendInit
    BY DEF Init, Atomic!SendInit
  <1>2. IndInv /\ [Next]_vars => [Atomic!SendNext]_(Atomic!sendVars)
    BY SendStep
  <1> QED
    BY <1>1, <1>2, Invariance, PTL DEF Spec, ImplementsRawSend, Atomic!SendSpec
=============================================================================
