------------------------------ MODULE WriteAcks ------------------------------
(***************************************************************************)
(* What the Firestore client promises about the completion blocks of       *)
(* writes, whatever happens to streams, credentials and connections: each  *)
(* block runs at most once, the blocks run in the order the writes were    *)
(* issued, and each is told what the backend decided about its write.  A   *)
(* process that dies takes its blocks with it.  The module Firestore gives *)
(* AuthManager the same queue: Acknowledge, Arrives and LoseMemory there.  *)
(***************************************************************************)
EXTENDS Naturals, Sequences

CONSTANT Refused  \* the writes the backend refuses, by their number

VARIABLES
    issued,     \* number of writes issued so far
    unacked,    \* writes whose blocks wait for the backend, oldest first
    callbacks   \* blocks that are about to run, with their outcome

ackVars == <<issued, unacked, callbacks>>

AcksInit == issued = 0 /\ unacked = <<>> /\ callbacks = <<>>

IssueWrite ==
    /\ issued' = issued + 1
    /\ unacked' = Append(unacked, issued')
    /\ UNCHANGED callbacks

\* The backend has decided about the oldest write.
Decide ==
    /\ unacked # <<>>
    /\ callbacks' = Append(callbacks, [write |-> Head(unacked), ok |-> Head(unacked) \notin Refused])
    /\ unacked' = Tail(unacked)
    /\ UNCHANGED issued

RunBlock ==
    /\ callbacks # <<>>
    /\ callbacks' = Tail(callbacks)
    /\ UNCHANGED <<issued, unacked>>

LoseBlocks == unacked' = <<>> /\ callbacks' = <<>> /\ UNCHANGED issued

AcksNext == IssueWrite \/ Decide \/ RunBlock \/ LoseBlocks

AcksSpec == AcksInit /\ [][AcksNext]_ackVars
=============================================================================
