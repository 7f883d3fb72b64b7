------------------------------ MODULE RawSender ------------------------------
(***************************************************************************)
(* RawIPv4Sender of internal/raw_linux.go: one raw socket shared by the    *)
(* callback and the goroutines that send second parts, closed by main.     *)
(* The mark of a packet is a property of the socket, so that setting it    *)
(* and sending are two system calls under one mutex.  Close looks at fd    *)
(* before it takes the mutex.                                              *)
(***************************************************************************)
CONSTANTS
    Callers,        \* goroutines that call Send and Close
    Packets, Marks,
    Complete,       \* the packets that are complete IPv4 packets
    Nobody, NoRequest, NoMark

VARIABLES
    fd,             \* s.fd: "nil" before there is a sender, then "open", "closed"
    socket,         \* the kernel's socket
    soMark,         \* its SO_MARK
    mu,             \* who holds s.mu
    pc, arg,        \* of each caller
    sent            \* the packets that left, with the mark they carried

vars == <<fd, socket, soMark, mu, pc, arg, sent>>

Requests == [packet : Packets, mark : Marks]

ASSUME RawSenderAssumption ==
    /\ Nobody \notin Callers
    /\ NoRequest \notin Requests
    /\ Complete \subseteq Packets

SendStates == {"send", "setmark", "sendto"}
CloseStates == {"close", "closing", "setfd"}

TypeOK ==
    /\ fd \in {"nil", "open", "closed"}
    /\ socket \in {"none", "open", "closed"}
    /\ soMark \in Marks \cup {NoMark}
    /\ mu \in Callers \cup {Nobody}
    /\ pc \in [Callers -> {"idle"} \cup SendStates \cup CloseStates]
    /\ arg \in [Callers -> Requests \cup {NoRequest}]
    /\ \A c \in Callers : pc[c] \in SendStates <=> arg[c] # NoRequest
    /\ sent \in SUBSET Requests

Init ==
    /\ fd = "nil" /\ socket = "none" /\ soMark = NoMark
    /\ mu = Nobody
    /\ pc = [c \in Callers |-> "idle"]
    /\ arg = [c \in Callers |-> NoRequest]
    /\ sent = {}
-----------------------------------------------------------------------------
At(c, from) == pc[c] = from
Go(c, to) == pc' = [pc EXCEPT ![c] = to]
\* A call returns; the deferred Unlock runs.
Return(c) ==
    /\ Go(c, "idle")
    /\ arg' = [arg EXCEPT ![c] = NoRequest]
    /\ mu' = Nobody

\* When a system call fails there is no sender, and main ends the program.
NewRawIPv4Sender ==
    /\ fd = "nil"
    /\ fd' = "open" /\ socket' = "open"
    /\ UNCHANGED <<soMark, mu, pc, arg, sent>>

CallSend(c, r) ==
    /\ At(c, "idle")
    /\ Go(c, "send")
    /\ arg' = [arg EXCEPT ![c] = r]
    /\ UNCHANGED <<fd, socket, soMark, mu, sent>>

\* There is no sender, or the packet is refused, before the mutex is taken.
SendRefused(c) ==
    /\ At(c, "send")
    /\ fd = "nil" \/ arg[c].packet \notin Complete
    /\ Go(c, "idle")
    /\ arg' = [arg EXCEPT ![c] = NoRequest]
    /\ UNCHANGED <<fd, socket, soMark, mu, sent>>

\* Mutant: no mutex.
SendUnlocked(c) ==
    /\ At(c, "send")
    /\ fd = "open" /\ arg[c].packet \in Complete
    /\ Go(c, "setmark")
    /\ UNCHANGED <<fd, socket, soMark, mu, arg, sent>>
SendLock(c) ==
    /\ At(c, "send")
    /\ fd # "nil" /\ arg[c].packet \in Complete
    /\ mu = Nobody
    /\ \/ fd = "open" /\ Go(c, "setmark") /\ mu' = c /\ UNCHANGED arg
       \/ fd = "closed" /\ Return(c)
    /\ UNCHANGED <<fd, socket, soMark, sent>>

SetMark(c) ==
    /\ At(c, "setmark")
    /\ soMark' = arg[c].mark
    /\ Go(c, "sendto")
    /\ UNCHANGED <<fd, socket, mu, arg, sent>>

Sendto(c) ==
    /\ At(c, "sendto")
    /\ sent' = sent \cup {[arg[c] EXCEPT !.mark = soMark]}
    /\ Return(c)
    /\ UNCHANGED <<fd, socket, soMark>>

\* Mutant: the way out of a failed call does not unlock.
SendFailsLocked(c) ==
    /\ pc[c] \in {"setmark", "sendto"}
    /\ Go(c, "idle")
    /\ arg' = [arg EXCEPT ![c] = NoRequest]
    /\ UNCHANGED <<fd, socket, soMark, mu, sent>>
\* One of the two system calls fails.
SendFails(c) ==
    /\ pc[c] \in {"setmark", "sendto"}
    /\ Return(c)
    /\ UNCHANGED <<fd, socket, soMark, sent>>

\* Close reads fd without the mutex, and again with it.
CallClose(c) ==
    /\ At(c, "idle")
    /\ fd = "open"
    /\ Go(c, "close")
    /\ UNCHANGED <<fd, socket, soMark, mu, arg, sent>>

\* Mutant: fd is not read again.
CloseUnchecked(c) ==
    /\ At(c, "close")
    /\ mu = Nobody /\ mu' = c
    /\ Go(c, "closing")
    /\ UNCHANGED <<fd, socket, soMark, arg, sent>>
CloseLock(c) ==
    /\ At(c, "close")
    /\ mu = Nobody
    /\ \/ fd = "open" /\ Go(c, "closing") /\ mu' = c /\ UNCHANGED arg
       \/ fd = "closed" /\ Return(c)
    /\ UNCHANGED <<fd, socket, soMark, sent>>

CloseSocket(c) ==
    /\ At(c, "closing")
    /\ socket' = "closed"
    /\ Go(c, "setfd")
    /\ UNCHANGED <<fd, soMark, mu, arg, sent>>

CloseDone(c) ==
    /\ At(c, "setfd")
    /\ fd' = "closed"
    /\ Return(c)
    /\ UNCHANGED <<socket, soMark, sent>>
-----------------------------------------------------------------------------
Locks(c) == SendLock(c) \/ CloseLock(c)
Steps(c) ==
    \/ SendRefused(c) \/ SetMark(c) \/ Sendto(c) \/ SendFails(c)
    \/ CloseSocket(c) \/ CloseDone(c)

Next ==
    \/ NewRawIPv4Sender
    \/ \E c \in Callers :
        \/ (\E r \in Requests : CallSend(c, r)) \/ CallClose(c)
        \/ Locks(c) \/ Steps(c)

Spec == Init /\ [][Next]_vars

\* Go's mutex hands itself over to a goroutine that has waited too long: strong
\* fairness for taking it.
FairSpec ==
    /\ Spec
    /\ \A c \in Callers : SF_vars(Locks(c)) /\ WF_vars(Steps(c))
-----------------------------------------------------------------------------
\* System calls are made on the socket only while it is open: the kernel may
\* have given the number of a closed one to another file.  In particular it is
\* closed once, although Close looks at fd without the mutex first.
OnlyOpenSocket ==
    \A c \in Callers :
        pc[c] \in {"setmark", "sendto", "closing"} => socket = "open"

\* The mutex is released on every way out, also that of a failed system call or of a
\* socket that was closed meanwhile: every Send and every Close returns.
CallsReturn == \A c \in Callers : (pc[c] # "idle") ~> (pc[c] = "idle")

\* Where the mutex is held, and how s.fd lags behind the socket.
MutexHeld ==
    /\ \A c \in Callers :
        /\ pc[c] \in {"setmark", "sendto", "closing", "setfd"} <=> mu = c
        /\ mu = c => fd = "open"
        /\ pc[c] = "sendto" => soMark = arg[c].mark
    /\ socket = CASE fd = "nil" -> "none"
                  [] fd = "closed" -> "closed"
                  [] OTHER -> IF \E c \in Callers : pc[c] = "setfd"
                              THEN "closed" ELSE "open"

\* The inductive invariant: whoever is between the system calls of a Send or a
\* Close holds the mutex, and s.fd is the socket's state but for one moment.
IndInv == TypeOK /\ MutexHeld

Atomic == INSTANCE RawSend WITH pending <- arg

\* The sender implements atomic sends: a packet leaves with its own mark and
\* never with the one of a Send that runs at the same time, and none leaves once
\* the socket is closed.
ImplementsRawSend == Atomic!SendSpec
=============================================================================
