------------------------------ MODULE MsgQueue ------------------------------
(***************************************************************************)
(* src/process/posix-ipc/msg-queue: every process creates or opens the     *)
(* queue, asks how many messages it holds, and sends one if there is none, *)
(* or else receives one.  Asking and acting are two steps.  The creator    *)
(* has the queue open for writing only and cannot receive.  Nobody unlinks *)
(* the queue, so it may be there from earlier runs, with a message.        *)
(***************************************************************************)
EXTENDS Integers

CONSTANTS MqProc, MaxMsg  \* the kernel's mq_maxmsg

ASSUME MqAssumption == MaxMsg \in Nat

VARIABLES exists, creator,
          curmsgs,        \* messages in the queue
          mqPc,
          seen,           \* seen[p]: what mq_getattr told p
          since           \* since[p]: messages others have received after that

mqVars == <<exists, creator, curmsgs, mqPc, seen, since>>

MqInit == /\ exists \in BOOLEAN /\ creator = {}
          /\ curmsgs \in 0..MaxMsg /\ (~exists => curmsgs = 0)
          /\ mqPc = [p \in MqProc |-> "open"]
          /\ seen = [p \in MqProc |-> 0] /\ since = [p \in MqProc |-> 0]

MqGoto(p, from, to) == mqPc[p] = from /\ mqPc' = [mqPc EXCEPT ![p] = to]
-----------------------------------------------------------------------------
MqOpen(p) == /\ \/ /\ MqGoto(p, "open", "getattr") /\ exists' = TRUE
                   /\ creator' = IF exists THEN creator ELSE {p}
                \/ MqGoto(p, "open", "fail") /\ UNCHANGED <<exists, creator>>
             /\ UNCHANGED <<curmsgs, seen, since>>

\* Mutant: the test of mq_curmsgs is the wrong way round.
GetattrInverted(p) ==
    /\ MqGoto(p, "getattr", IF curmsgs = 0 THEN "receive" ELSE "send")
    /\ seen' = [seen EXCEPT ![p] = curmsgs] /\ since' = [since EXCEPT ![p] = 0]
    /\ UNCHANGED <<exists, creator, curmsgs>>
Getattr(p) ==
    /\ MqGoto(p, "getattr", IF curmsgs = 0 THEN "send" ELSE "receive")
    /\ seen' = [seen EXCEPT ![p] = curmsgs] /\ since' = [since EXCEPT ![p] = 0]
    /\ UNCHANGED <<exists, creator, curmsgs>>

MqSend(p) == /\ MqGoto(p, "send", "sent")
             /\ curmsgs < MaxMsg /\ curmsgs' = curmsgs + 1
             /\ UNCHANGED <<exists, creator, seen, since>>

MqReceive(p) ==
    /\ \/ /\ p \notin creator /\ MqGoto(p, "receive", "received")
          /\ curmsgs > 0 /\ curmsgs' = curmsgs - 1
          /\ since' = [q \in MqProc |-> IF q = p THEN since[q] ELSE since[q] + 1]
       \/ /\ p \in creator /\ MqGoto(p, "receive", "fail")      \* EBADF
          /\ UNCHANGED <<curmsgs, since>>
    /\ UNCHANGED <<exists, creator, seen>>

MqRun(p) == MqOpen(p) \/ Getattr(p) \/ MqSend(p) \/ MqReceive(p)
MqNext == \E p \in MqProc : MqRun(p)
MqSpec == MqInit /\ [][MqNext]_mqVars
-----------------------------------------------------------------------------
(* A process waits in mq_receive (main.c:57) only for messages that were     *)
(* there when it looked and that others have received since.                 *)
WaitsForTaken ==
    \A p \in MqProc : mqPc[p] = "receive" => /\ seen[p] > 0
                                             /\ curmsgs + since[p] >= seen[p]

(* In the end only those wait whose count had become stale: receivers of an  *)
(* empty queue, or senders of a full one.                                    *)
MqEnds == <>[](\A p \in MqProc :
                  \/ mqPc[p] \in {"sent", "received", "fail"}
                  \/ mqPc[p] = "receive" /\ curmsgs = 0
                  \/ mqPc[p] = "send" /\ curmsgs = MaxMsg)
=============================================================================
