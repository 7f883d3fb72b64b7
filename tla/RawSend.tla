------------------------------- MODULE RawSend -------------------------------
(***************************************************************************)
(* What the raw sender promises its callers: a Send is one step.  It fails *)
(* without effect, or its packet leaves with its own mark through a socket *)
(* that is open.                                                           *)
(***************************************************************************)
CONSTANTS Callers, Requests, NoRequest

VARIABLES socket, pending, sent

sendVars == <<socket, pending, sent>>

SendInit ==
    /\ socket = "none"
    /\ pending = [c \in Callers |-> NoRequest]
    /\ sent = {}

Open == socket = "none" /\ socket' = "open" /\ UNCHANGED <<pending, sent>>

Close == socket = "open" /\ socket' = "closed" /\ UNCHANGED <<pending, sent>>

Submit(c, r) ==
    /\ pending[c] = NoRequest
    /\ pending' = [pending EXCEPT ![c] = r]
    /\ UNCHANGED <<socket, sent>>

Finish(c) ==
    /\ pending[c] # NoRequest
    /\ pending' = [pending EXCEPT ![c] = NoRequest]
    /\ UNCHANGED socket

Sent(c) == Finish(c) /\ socket = "open" /\ sent' = sent \cup {pending[c]}
Failed(c) == Finish(c) /\ UNCHANGED sent

SendNext ==
    \/ Open \/ Close
    \/ \E c \in Callers :
        (\E r \in Requests : Submit(c, r)) \/ Sent(c) \/ Failed(c)

SendSpec == SendInit /\ [][SendNext]_sendVars
=============================================================================
