------------------------------ MODULE SysVSem ------------------------------
(***************************************************************************)
(* src/process/system-v-ipc/semaphore: any number of processes race to     *)
(* create one System V semaphore set, initialise it with SETVAL 0 and      *)
(* semop +1, or wait for sem_otime to show that somebody has; each then    *)
(* waits, posts, waits again and exits holding it, leaving the release to  *)
(* SEM_UNDO.  The set is never removed.                                    *)
(***************************************************************************)
EXTENDS Integers

CONSTANTS Proc,     \* the processes that run main()
          Polls     \* how often an opener looks at sem_otime: 3

ASSUME PollsAssumption == Polls \in Nat \ {0}

VARIABLES exists,   \* the set has been created
          otime,    \* sem_otime # 0: a semop has succeeded on it
          sval,     \* the value of the semaphore
          adj,      \* adj[p]: what the kernel adds when p ends (SEM_UNDO)
          j,        \* j[p]: polls of sem_otime so far
          pc,
          logged,   \* processes whose _trySemWait logged "return true"
          tried     \* processes whose _trySemWait returned true

vars == <<exists, otime, sval, adj, j, pc, logged, tried>>

Opening == {"semget", "setval", "init", "get", "stat"}
Using   == {"wait", "post", "wait2", "try", "exit"}
Holding == {"post", "try", "exit"}
Ended   == {"done", "failed", "killed"}

Init == /\ exists = FALSE /\ otime = FALSE /\ sval = 0
        /\ adj = [p \in Proc |-> 0]
        /\ j = [p \in Proc |-> 0]
        /\ pc = [p \in Proc |-> "semget"]
        /\ logged = {} /\ tried = {}

Goto(p, from, to) == pc[p] = from /\ pc' = [pc EXCEPT ![p] = to]
-----------------------------------------------------------------------------
(* _semCreateOrGet *)
SemgetExcl(p) ==
    /\ \/ ~exists /\ exists' = TRUE /\ Goto(p, "semget", "setval")
       \/ exists /\ Goto(p, "semget", "get") /\ UNCHANGED exists        \* EEXIST
       \/ ~exists /\ Goto(p, "semget", "failed") /\ UNCHANGED exists    \* ENOSPC...
    /\ UNCHANGED <<otime, sval, adj, j, logged, tried>>

\* Mutant: SETVAL already stores initValue.
SetValOne(p) ==
    /\ Goto(p, "setval", "init")
    /\ sval' = 1 /\ adj' = [q \in Proc |-> 0]
    /\ UNCHANGED <<exists, otime, j, logged, tried>>

SetVal(p) ==                                 \* SETVAL clears every adjustment
    /\ Goto(p, "setval", "init")
    /\ sval' = 0 /\ adj' = [q \in Proc |-> 0]
    /\ UNCHANGED <<exists, otime, j, logged, tried>>

InitOp(p) ==
    /\ Goto(p, "init", "wait")
    /\ sval' = sval + 1 /\ otime' = TRUE
    /\ UNCHANGED <<exists, adj, j, logged, tried>>

SemgetOpen(p) ==
    /\ exists /\ Goto(p, "get", "stat")
    /\ UNCHANGED <<exists, otime, sval, adj, j, logged, tried>>

\* Mutant: the last poll is trusted whatever it says.
StatTrusting(p) ==
    /\ j' = [j EXCEPT ![p] = @ + 1]
    /\ \/ (otime \/ j'[p] = Polls) /\ Goto(p, "stat", "wait")
       \/ ~otime /\ j'[p] < Polls /\ Goto(p, "stat", "stat")
    /\ UNCHANGED <<exists, otime, sval, adj, logged, tried>>

(* The answer of IPC_STAT is what counts, also after the sleep(1): a set    *)
(* initialised after the last poll is still reported as not initialised.    *)
Stat(p) ==
    /\ j' = [j EXCEPT ![p] = @ + 1]
    /\ \/ otime /\ Goto(p, "stat", "wait")
       \/ ~otime /\ j'[p] < Polls /\ Goto(p, "stat", "stat")
       \/ ~otime /\ j'[p] = Polls /\ Goto(p, "stat", "failed")
    /\ UNCHANGED <<exists, otime, sval, adj, logged, tried>>
-----------------------------------------------------------------------------
\* Mutant: no SEM_UNDO.
TakeNoUndo(p, from, to) ==
    /\ sval >= 1 /\ Goto(p, from, to)
    /\ sval' = sval - 1 /\ otime' = TRUE
    /\ UNCHANGED <<exists, adj, j, logged, tried>>

(* _semWait: semop -1 with SEM_UNDO.                                        *)
Take(p, from, to) ==
    /\ sval >= 1 /\ Goto(p, from, to)
    /\ sval' = sval - 1 /\ otime' = TRUE
    /\ adj' = [adj EXCEPT ![p] = @ + 1]
    /\ UNCHANGED <<exists, j, logged, tried>>

SemWait(p) == Take(p, "wait", "post")
SemWaitAgain(p) == Take(p, "wait2", "try")

SemPost(p) ==
    /\ Goto(p, "post", "wait2")
    /\ sval' = sval + 1 /\ otime' = TRUE
    /\ adj' = [adj EXCEPT ![p] = @ - 1]
    /\ UNCHANGED <<exists, j, logged, tried>>

TrySemWait(p) ==
    /\ Goto(p, "try", "exit")
    /\ logged' = IF sval > 0 THEN logged \cup {p} ELSE logged
    /\ tried' = IF sval > 1 THEN tried \cup {p} ELSE tried
    /\ UNCHANGED <<exists, otime, sval, adj, j>>

(* Leaving main, or being killed: the kernel applies the adjustment.        *)
Undo(p) == /\ sval' = sval + adj[p]
           /\ adj' = [adj EXCEPT ![p] = 0]
           /\ UNCHANGED <<exists, otime, j, logged, tried>>

Exit(p) == Goto(p, "exit", "done") /\ Undo(p)

Kill(p) == /\ pc[p] \in Opening \cup Using
           /\ pc' = [pc EXCEPT ![p] = "killed"]
           /\ Undo(p)

Run(p) == \/ SemgetExcl(p) \/ SetVal(p) \/ InitOp(p) \/ SemgetOpen(p) \/ Stat(p)
          \/ SemWait(p) \/ SemPost(p) \/ SemWaitAgain(p) \/ TrySemWait(p) \/ Exit(p)

Next == \E p \in Proc : Run(p) \/ Kill(p)
Spec == Init /\ [][Next]_vars
FairSpec == Spec /\ \A p \in Proc : WF_vars(Run(p))
-----------------------------------------------------------------------------
TypeOK == /\ exists \in BOOLEAN /\ otime \in BOOLEAN
          /\ sval \in 0..1
          /\ adj \in [Proc -> 0..1]
          /\ j \in [Proc -> 0..Polls]
          /\ pc \in [Proc -> Opening \cup Using \cup Ended]
          /\ logged \subseteq Proc /\ tried \subseteq Proc

Holds(p) == pc[p] \in Holding

(* main.c:77 "must wait sem_otime != 0": no process operates on the         *)
(* semaphore before its creator's semop has given it the value 1.           *)
UsedInitialised == \A p \in Proc : pc[p] \in Using => otime

(* Once the semaphore is initialised its one unit is never lost and never   *)
(* doubled: it is in the value or with exactly one process, and SEM_UNDO    *)
(* (main.c:123, 152) gives it back for a process that dies at any point.    *)
UnitConserved ==
    otime => \/ sval = 1 /\ \A p \in Proc : ~Holds(p)
             \/ sval = 0 /\ \E p \in Proc : \A q \in Proc : Holds(q) <=> q = p

(* The semaphore implements a lock with at most one holder.                 *)
Excl == INSTANCE Exclusion WITH
           Client <- Proc, Resource <- {"set"},
           holder <- [r \in {"set"} |-> {p \in Proc : Holds(p)}]
IsExclusive == Excl!Spec

(* _trySemWait logs "true" for a value above 0 and returns true for a value *)
(* above 1 (main.c:143-144).  The two agree in every run of this program,   *)
(* because its caller holds the semaphore.                                  *)
TryMatchesLog == logged = tried

(* Every process ends, also when any others are killed at any point.        *)
AllEnd == \A p \in Proc : <>(pc[p] \in Ended)
=============================================================================
