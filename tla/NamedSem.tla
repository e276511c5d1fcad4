------------------------------ MODULE NamedSem ------------------------------
(***************************************************************************)
(* src/process/posix-ipc/semaphore/named.c: every process creates or opens *)
(* the semaphore, tries to take a unit, posts one, and tries again.  Unlike*)
(* shm_open, sem_open creates and initialises in one step.  The semaphore  *)
(* created by o is called o; it outlives its name.                         *)
(***************************************************************************)
EXTENDS Integers, FiniteSets

CONSTANTS SemProc, NoSem,
          MaxKilled       \* bound: processes that are killed

ASSUME SemAssumption == IsFiniteSet(SemProc) /\ NoSem \notin SemProc /\ MaxKilled \in Nat

VARIABLES semName,        \* the semaphore that has the name, or NoSem
          val,            \* val[o]: its value
          semOf, semPc,
          took, missed,   \* whose first sem_trywait succeeded, whose second failed
          killed

semVars == <<semName, val, semOf, semPc, took, missed, killed>>

SemInit == /\ semName = NoSem
           /\ val = [o \in SemProc |-> 0]
           /\ semOf = [p \in SemProc |-> NoSem]
           /\ semPc = [p \in SemProc |-> "create"]
           /\ took = {} /\ missed = {} /\ killed = {}

SemGoto(p, from, to) ==
    p \notin killed /\ semPc[p] = from /\ semPc' = [semPc EXCEPT ![p] = to]
-----------------------------------------------------------------------------
SemCreate(p) ==
    /\ \/ /\ semName = NoSem /\ SemGoto(p, "create", "try1")
          /\ semName' = p /\ semOf' = [semOf EXCEPT ![p] = p]
       \/ /\ semName # NoSem /\ SemGoto(p, "create", "open")
          /\ UNCHANGED <<semName, semOf>>
    /\ UNCHANGED <<val, took, missed, killed>>

(* The name may be gone again.                                              *)
SemOpen(p) ==
    /\ \/ /\ semName # NoSem /\ SemGoto(p, "open", "try1")
          /\ semOf' = [semOf EXCEPT ![p] = semName]
       \/ semName = NoSem /\ SemGoto(p, "open", "failed") /\ UNCHANGED semOf
    /\ UNCHANGED <<semName, val, took, missed, killed>>

TryFirst(p) ==
    /\ SemGoto(p, "try1", "post")
    /\ \/ /\ val[semOf[p]] > 0 /\ took' = took \cup {p}
          /\ val' = [val EXCEPT ![semOf[p]] = @ - 1]
       \/ val[semOf[p]] = 0 /\ UNCHANGED <<val, took>>
    /\ UNCHANGED <<semName, semOf, missed, killed>>

\* Mutant: the unit is posted only when the first sem_trywait succeeded.
PostIfTaken(p) ==
    /\ SemGoto(p, "post", "try2")
    /\ val' = [val EXCEPT ![semOf[p]] = IF p \in took THEN @ + 1 ELSE @]
    /\ UNCHANGED <<semName, semOf, took, missed, killed>>
Post(p) ==
    /\ SemGoto(p, "post", "try2")
    /\ val' = [val EXCEPT ![semOf[p]] = @ + 1]
    /\ UNCHANGED <<semName, semOf, took, missed, killed>>

TrySecond(p) ==
    /\ SemGoto(p, "try2", "close")
    /\ \/ val[semOf[p]] > 0 /\ val' = [val EXCEPT ![semOf[p]] = @ - 1] /\ UNCHANGED missed
       \/ val[semOf[p]] = 0 /\ missed' = missed \cup {p} /\ UNCHANGED val
    /\ UNCHANGED <<semName, semOf, took, killed>>

(* sem_close, and sem_unlink when createNew.                                *)
SemClose(p) ==
    /\ SemGoto(p, "close", "done")
    /\ semName' = IF semOf[p] = p THEN NoSem ELSE semName
    /\ UNCHANGED <<val, semOf, took, missed, killed>>

KillSem(p) ==
    /\ p \notin killed /\ semPc[p] \notin {"failed", "done"}
    /\ Cardinality(killed) < MaxKilled /\ killed' = killed \cup {p}
    /\ UNCHANGED <<semName, val, semOf, semPc, took, missed>>

SemRun(p) == \/ SemCreate(p) \/ SemOpen(p) \/ TryFirst(p) \/ Post(p)
             \/ TrySecond(p) \/ SemClose(p)
SemNext == \E p \in SemProc : SemRun(p) \/ KillSem(p)
SemSpec == SemInit /\ [][SemNext]_semVars
-----------------------------------------------------------------------------
(* A process can miss with its second sem_trywait (named.c:57) although it   *)
(* has just posted, but no more do than took a unit with their first, one    *)
(* that others had posted.  And the units that are there are those of        *)
(* processes about to try again: when all have ended none is left, unless a  *)
(* process was killed in between.                                            *)
UnitsMatch ==
    \A o \in SemProc :
        LET Users == {p \in SemProc : semOf[p] = o} IN
        /\ Cardinality(Users \cap missed) <= Cardinality(Users \cap took)
        /\ val[o] <= Cardinality({p \in Users : semPc[p] = "try2"})
=============================================================================
