------------------------------- MODULE MCIpc -------------------------------
(***************************************************************************)
(* Objects with a name or a key.  A behaviour is one of the POSIX shared   *)
(* memory programs, the System V one, the message queue or the named       *)
(* semaphore; the other modules stay in their initial state.               *)
(***************************************************************************)
EXTENDS PosixShm, MsgQueue, NamedSem

CONSTANT MaxDead
VARIABLES ipc,                                     \* "posix", "sysv", "mq" or "sem"
          key, removed, freed, sNumber, shmId, attached, sPc, sI, sPrinted, rmid

sysvVars == <<key, removed, freed, sNumber, shmId, attached, sPc, sI, sPrinted, rmid>>
SysV == INSTANCE SysVShm WITH number <- sNumber, pc <- sPc, i <- sI, printed <- sPrinted

MCInit == /\ ipc \in {"posix", "sysv", "mq", "sem"}
          /\ Init /\ SysV!Init /\ MqInit /\ SemInit
          /\ ipc # "posix" => withSem
          /\ ipc # "mq" => ~exists

(* The step A of the program that runs.                                      *)
PosixStep(A) == ipc = "posix" /\ A /\ UNCHANGED ipc /\ UNCHANGED <<sysvVars, mqVars, semVars>>
SysVStep(A) == ipc = "sysv" /\ A /\ UNCHANGED ipc /\ UNCHANGED <<vars, mqVars, semVars>>
MqStep(A) == ipc = "mq" /\ A /\ UNCHANGED ipc /\ UNCHANGED <<vars, sysvVars, semVars>>
SemStep(A) == ipc = "sem" /\ A /\ UNCHANGED ipc /\ UNCHANGED <<vars, sysvVars, mqVars>>

MCSpec == /\ MCInit
          /\ [][\/ PosixStep(Next) \/ SysVStep(SysV!Next)
               \/ MqStep(MqNext) \/ SemStep(SemNext)]_<<ipc, vars, sysvVars, mqVars, semVars>>
          /\ \A p \in Proc : WF_vars(PosixStep(Run(p)))
          /\ \A p \in MqProc : WF_mqVars(MqStep(MqRun(p)))

(* NoLeak and CountExact of SysVShm: whoever removes a segment under the     *)
(* feet of others, its int stays exact, and none is left behind.             *)
SysVLifetime == SysV!NoLeak /\ SysV!CountExact

(* AllEnd of PosixShm, MqEnds of MsgQueue.                                   *)
IpcEnds == (ipc = "posix" => AllEnd) /\ (ipc = "mq" => MqEnds)
=============================================================================
