------------------------------ MODULE SysVShm ------------------------------
(***************************************************************************)
(* src/process/system-v-ipc/shared-memory: every process creates or opens  *)
(* the segment of one key, attaches it, adds to the int in it, detaches    *)
(* and removes the segment, whoever created it and whoever still uses it.  *)
(*                                                                         *)
(* The segment created by process o is called o.  The kernel (external)    *)
(* takes a removed segment off its key at once and frees it with the last  *)
(* detach; a segment that is removed but not yet freed can be attached.    *)
(***************************************************************************)
EXTENDS Integers, FiniteSets

CONSTANTS Proc, None,
          MaxTestCount,
          MaxDead         \* bound: processes that may be killed

VARIABLES key,            \* the segment the key names, or None
          removed, freed, \* segments after IPC_RMID, after the last detach
          number,         \* number[o]: the int in segment o
          shmId,          \* shmId[p]: the segment p got from shmget, or None
          attached,       \* processes that have their segment attached
          pc, i,
          printed,        \* printed[p]: "finish test, number is", -1 before
          rmid            \* rmid[p]: what shmctl(IPC_RMID) said to p

vars == <<key, removed, freed, number, shmId, attached, pc, i, printed, rmid>>

Init == /\ key = None /\ removed = {} /\ freed = {}
        /\ number = [o \in Proc |-> 0]
        /\ shmId = [p \in Proc |-> None]
        /\ attached = {}
        /\ pc = [p \in Proc |-> "shmget"]
        /\ i = [p \in Proc |-> 0]
        /\ printed = [p \in Proc |-> -1]
        /\ rmid = [p \in Proc |-> "none"]

Ended == {"done", "failed", "killed"}
Goto(p, from, to) == pc[p] = from /\ pc' = [pc EXCEPT ![p] = to]
Users(o) == {p \in Proc : shmId[p] = o}
-----------------------------------------------------------------------------
(* The kernel: p lets go of its segment, which is freed if it was removed   *)
(* and nobody else has it attached.                                         *)
Detach(p) ==
    /\ attached' = attached \ {p}
    /\ freed' = freed \cup {o \in removed \cap {shmId[p]} : Users(o) \cap attached' = {}}

(* IPC_RMID.  Removing a segment again is no error as long as it is not     *)
(* freed.                                                                   *)
Remove(p) ==
    LET o == shmId[p] IN
    \/ /\ o \notin freed
       /\ rmid' = [rmid EXCEPT ![p] = "succeeded"]
       /\ removed' = removed \cup {o}
       /\ key' = IF key = o THEN None ELSE key
       /\ freed' = IF Users(o) \cap attached = {} THEN freed \cup {o} ELSE freed
    \/ /\ o \in freed
       /\ rmid' = [rmid EXCEPT ![p] = "failed"]
       /\ UNCHANGED <<key, removed, freed>>
-----------------------------------------------------------------------------
ShmgetExcl(p) ==
    /\ \/ /\ key = None /\ Goto(p, "shmget", "shmat")
          /\ key' = p /\ shmId' = [shmId EXCEPT ![p] = p]
       \/ /\ key # None /\ Goto(p, "shmget", "open")                   \* EEXIST
          /\ UNCHANGED <<key, shmId>>
       \/ /\ key = None /\ Goto(p, "shmget", "failed")                 \* ENOSPC...
          /\ UNCHANGED <<key, shmId>>
    /\ UNCHANGED <<removed, freed, number, attached, i, printed, rmid>>

ShmgetOpen(p) ==
    /\ \/ /\ key # None /\ Goto(p, "open", "shmat")
          /\ shmId' = [shmId EXCEPT ![p] = key]
       \/ key = None /\ Goto(p, "open", "failed") /\ UNCHANGED shmId
    /\ UNCHANGED <<key, removed, freed, number, attached, i, printed, rmid>>

(* The identifier may be gone by now, the creator's own segment included;   *)
(* a process that cannot attach leaves the segment as it is.                *)
Shmat(p) ==
    /\ \/ shmId[p] \notin freed /\ Goto(p, "shmat", "loop") /\ attached' = attached \cup {p}
       \/ Goto(p, "shmat", "failed") /\ UNCHANGED attached
    /\ UNCHANGED <<key, removed, freed, number, shmId, i, printed, rmid>>

(* atomicAddValue(number, 1) *)
Add(p) ==
    /\ i[p] < MaxTestCount /\ Goto(p, "loop", "loop")
    /\ number' = [number EXCEPT ![shmId[p]] = @ + 1]
    /\ i' = [i EXCEPT ![p] = @ + 1]
    /\ UNCHANGED <<key, removed, freed, shmId, attached, printed, rmid>>

Finish(p) ==
    /\ i[p] = MaxTestCount /\ Goto(p, "loop", "shmdt")
    /\ printed' = [printed EXCEPT ![p] = number[shmId[p]]]
    /\ UNCHANGED <<key, removed, freed, number, shmId, attached, i, rmid>>

Shmdt(p) ==
    /\ Goto(p, "shmdt", "rmid") /\ Detach(p)
    /\ UNCHANGED <<key, removed, number, shmId, i, printed, rmid>>

\* Mutant: only the creator removes the segment.
ShmctlRmidCreator(p) ==
    /\ Goto(p, "rmid", "done")
    /\ \/ shmId[p] = p /\ Remove(p)
       \/ shmId[p] # p /\ UNCHANGED <<key, removed, freed, rmid>>
    /\ UNCHANGED <<number, shmId, attached, i, printed>>
ShmctlRmid(p) ==
    /\ Goto(p, "rmid", "done") /\ Remove(p)
    /\ UNCHANGED <<number, shmId, attached, i, printed>>

Killed == {p \in Proc : pc[p] = "killed"}
Kill(p) ==
    /\ pc[p] \notin Ended /\ Cardinality(Killed) < MaxDead
    /\ pc' = [pc EXCEPT ![p] = "killed"] /\ Detach(p)
    /\ UNCHANGED <<key, removed, number, shmId, i, printed, rmid>>

Run(p) == \/ ShmgetExcl(p) \/ ShmgetOpen(p) \/ Shmat(p) \/ Add(p) \/ Finish(p)
          \/ Shmdt(p) \/ ShmctlRmid(p)
Next == \E p \in Proc : Run(p) \/ Kill(p)
Spec == Init /\ [][Next]_vars
-----------------------------------------------------------------------------
(* The additions to a segment, each known by who made it in which turn.      *)
Additions(o) == {a \in Users(o) \X (1..MaxTestCount) : a[2] <= i[a[1]]}

(* The program never sets the int: it relies on the kernel's zeroed pages,   *)
(* so there is no moment at which an opener can come too early.  The int is  *)
(* what the users of the segment added, before and after its removal, and    *)
(* when all of them have come to their end one of them has printed it.       *)
CountExact ==
    \A o \in Proc :
       /\ number[o] = Cardinality(Additions(o))
       /\ Users(o) # {} /\ (\A p \in Users(o) : pc[p] = "done") =>
             \E p \in Users(o) : printed[p] = number[o]

(* IPC_RMID by everybody (main.c:86) lets any survivor clean up: when all    *)
(* have ended, a segment is left only if none of its users came to its end   *)
(* (main.c:58-59 returns without removing; others were killed).              *)
NoLeak ==
    \A o \in Proc :
       (\A p \in Proc : pc[p] \in Ended) /\ (\E p \in Users(o) : pc[p] = "done")
          => o \in freed
=============================================================================
