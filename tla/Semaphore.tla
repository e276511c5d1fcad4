----------------------------- MODULE Semaphore -----------------------------
(***************************************************************************)
(* The process-shared semaphore of src/thread/semaphore: a mutex, a        *)
(* condition variable and a count in a file every process maps, and the    *)
(* program main.c that creates or opens it, waits, sleeps, posts, closes   *)
(* and (the creator) unlinks the path.                                     *)
(*                                                                         *)
(* A process creates at most one file, so the file created by process o is *)
(* called o.  The file outlives its path: a process keeps using what it    *)
(* mapped after unlink().  "raced" remembers the files that some process   *)
(* opened before semaphore_create had returned; glibc promises nothing     *)
(* about them, so their mutex and condition variable are modelled by the   *)
(* bytes semaphore_create overwrites.                                      *)
(***************************************************************************)
EXTENDS Integers, FiniteSets

CONSTANTS Proc,         \* the processes that run main()
          None,         \* no file, no owner
          UIntMax,      \* largest value of the unsigned count
          MaxDead,      \* bound: processes that may be killed
          MaxSpurious   \* bound: spurious wake-ups of pthread_cond_wait

ASSUME NoneAssumption == None \notin Proc
ASSUME UIntAssumption == UIntMax \in Nat \ {0}
ASSUME BoundAssumption == MaxDead \in Nat /\ MaxSpurious \in Nat

VARIABLES name,      \* the file the path "/tmp/semaphore" names, or None
          sized,     \* files that ftruncate has given their size
          ready,     \* files whose semaphore_create has returned
          raced,     \* files opened before they were ready
          count,     \* count[o]: sem->count
          lock,      \* lock[o]: owner of sem->lock, or None
          sem,       \* sem[p]: the file p has mapped, or None
          pc,        \* pc[p]: where p is
          dead,      \* processes that were killed; their pc stays put
          spurious   \* spurious wake-ups so far

vars == <<name, sized, ready, raced, count, lock, sem, pc, dead, spurious>>

Building == {"ftruncate", "count", "mutex_init", "cond_init"}
Locked   == {"test", "take", "signal"}     \* between lock and unlock
Holding  == {"inside", "signal"}           \* between the decrement and the increment
Ended    == {"done", "failed", "sigbus"}
Places   == Building \cup Locked \cup Holding \cup Ended \cup
            {"create", "open", "wait", "sleep", "lost", "relock", "close"}

Holds(p, o) == sem[p] = o /\ pc[p] \in Holding
Holders(o) == {p \in Proc : Holds(p, o)}

Init == /\ name = None /\ sized = {} /\ ready = {} /\ raced = {}
        /\ count = [o \in Proc |-> 0]
        /\ lock = [o \in Proc |-> None]
        /\ sem = [p \in Proc |-> None]
        /\ pc = [p \in Proc |-> "create"]
        /\ dead = {} /\ spurious = 0

At(p, place) == pc[p] = place /\ p \notin dead
Goto(p, place) == pc' = [pc EXCEPT ![p] = place]
-----------------------------------------------------------------------------
(* semaphore_create: open(O_CREAT | O_EXCL), then the four writes that make *)
(* the file a semaphore.                                                    *)
CreateExcl(p) ==
    /\ At(p, "create")
    /\ \/ /\ name = None
          /\ name' = p
          /\ sem' = [sem EXCEPT ![p] = p]
          /\ Goto(p, "ftruncate")
       \/ /\ name # None
          /\ Goto(p, "open")
          /\ UNCHANGED <<name, sem>>
    /\ UNCHANGED <<sized, ready, raced, count, lock, dead, spurious>>

Ftruncate(p) ==
    /\ At(p, "ftruncate")
    /\ sized' = sized \cup {p}
    /\ Goto(p, "count")
    /\ UNCHANGED <<name, ready, raced, count, lock, sem, dead, spurious>>

StoreCount(p) ==
    /\ At(p, "count")
    /\ count' = [count EXCEPT ![p] = 1]
    /\ Goto(p, "mutex_init")
    /\ UNCHANGED <<name, sized, ready, raced, lock, sem, dead, spurious>>

MutexInit(p) ==
    /\ At(p, "mutex_init")
    /\ lock' = [lock EXCEPT ![p] = None]
    /\ Goto(p, "cond_init")
    /\ UNCHANGED <<name, sized, ready, raced, count, sem, dead, spurious>>

(* pthread_cond_init forgets whoever already sleeps on the condition.       *)
CondInit(p) ==
    /\ At(p, "cond_init")
    /\ ready' = ready \cup {p}
    /\ pc' = [q \in Proc |-> IF q = p THEN "wait"
                             ELSE IF sem[q] = p /\ pc[q] = "sleep" THEN "lost"
                             ELSE pc[q]]
    /\ UNCHANGED <<name, sized, raced, count, lock, sem, dead, spurious>>

(* semaphore_open: nothing tells it whether the creator is done.            *)
Open(p) ==
    /\ At(p, "open")
    /\ \/ /\ name = None
          /\ Goto(p, "failed")
          /\ UNCHANGED <<sem, raced>>
       \/ /\ name # None
          /\ sem' = [sem EXCEPT ![p] = name]
          /\ raced' = raced \cup ({name} \ ready)
          /\ Goto(p, "wait")
    /\ UNCHANGED <<name, sized, ready, count, lock, dead, spurious>>
-----------------------------------------------------------------------------
(* pthread_mutex_lock(&sem->lock), from one place of the code to the next.  *)
LockAndGo(p, from, to) ==
    /\ At(p, from)
    /\ lock[sem[p]] = None
    /\ lock' = [lock EXCEPT ![sem[p]] = p]
    /\ Goto(p, to)
    /\ UNCHANGED <<name, sized, ready, raced, count, sem, dead, spurious>>

(* semaphore_wait: touching a file without its size is a SIGBUS.            *)
WaitLock(p) ==
    \/ sem[p] \in sized /\ LockAndGo(p, "wait", "test")
    \/ /\ At(p, "wait")
       /\ sem[p] \notin sized
       /\ Goto(p, "sigbus")
       /\ UNCHANGED <<name, sized, ready, raced, count, lock, sem, dead, spurious>>

Test(p) ==
    /\ At(p, "test")
    /\ \/ /\ count[sem[p]] = 0                       \* pthread_cond_wait
          /\ lock' = [lock EXCEPT ![sem[p]] = None]
          /\ Goto(p, "sleep")
       \/ /\ count[sem[p]] # 0
          /\ Goto(p, "take")
          /\ UNCHANGED lock
    /\ UNCHANGED <<name, sized, ready, raced, count, sem, dead, spurious>>

\* Mutant: "if" in place of "while" around pthread_cond_wait.
RelockNoRetest(p) == LockAndGo(p, "relock", "take")
Relock(p) == LockAndGo(p, "relock", "test")

Take(p) ==
    /\ At(p, "take")
    /\ count' = [count EXCEPT ![sem[p]] = (@ + UIntMax) % (UIntMax + 1)]
    /\ lock' = [lock EXCEPT ![sem[p]] = None]
    /\ Goto(p, "inside")
    /\ UNCHANGED <<name, sized, ready, raced, sem, dead, spurious>>

(* semaphore_post, after the sleep(3) of main.                              *)
PostLock(p) == LockAndGo(p, "inside", "signal")

Sleepers(o) == {q \in Proc : sem[q] = o /\ pc[q] = "sleep"}
Lost(o) == {q \in Proc : sem[q] = o /\ pc[q] = "lost"}

\* Mutant: the test for 0 comes after the increment, so nothing is signalled.
PostUnsignalled(p) ==
    /\ At(p, "signal")
    /\ count' = [count EXCEPT ![sem[p]] = (@ + 1) % (UIntMax + 1)]
    /\ lock' = [lock EXCEPT ![sem[p]] = None]
    /\ Goto(p, "close")
    /\ UNCHANGED <<name, sized, ready, raced, sem, dead, spurious>>

(* pthread_cond_signal wakes one registered sleeper; a sleeper the          *)
(* re-initialised condition forgot may take the wake-up instead.            *)
Post(p) ==
    /\ At(p, "signal")
    /\ LET o == sem[p] IN
       /\ \/ /\ count[o] = 0 /\ Sleepers(o) # {}
             /\ \E q \in Sleepers(o) \cup Lost(o) :
                   pc' = [pc EXCEPT ![q] = "relock", ![p] = "close"]
          \/ /\ count[o] # 0 \/ Sleepers(o) = {}
             /\ Goto(p, "close")
       /\ count' = [count EXCEPT ![o] = (@ + 1) % (UIntMax + 1)]
       /\ lock' = [lock EXCEPT ![o] = None]
    /\ UNCHANGED <<name, sized, ready, raced, sem, dead, spurious>>

(* semaphore_close, and unlink(semName) when createNew.                     *)
Close(p) ==
    /\ At(p, "close")
    /\ name' = IF sem[p] = p THEN None ELSE name
    /\ Goto(p, "done")
    /\ UNCHANGED <<sized, ready, raced, count, lock, sem, dead, spurious>>
-----------------------------------------------------------------------------
(* The environment: a spurious wake-up, and the death of a process.         *)
SpuriousWakeup(p) ==
    /\ At(p, "sleep")
    /\ spurious < MaxSpurious
    /\ spurious' = spurious + 1
    /\ Goto(p, "relock")
    /\ UNCHANGED <<name, sized, ready, raced, count, lock, sem, dead>>

Kill(p) ==
    /\ p \notin dead /\ pc[p] \notin Ended
    /\ Cardinality(dead) < MaxDead
    /\ dead' = dead \cup {p}
    /\ UNCHANGED <<name, sized, ready, raced, count, lock, sem, pc, spurious>>

Run(p) == \/ CreateExcl(p) \/ Ftruncate(p) \/ StoreCount(p) \/ MutexInit(p)
          \/ CondInit(p) \/ Open(p) \/ WaitLock(p) \/ Test(p) \/ Relock(p)
          \/ Take(p) \/ PostLock(p) \/ Post(p) \/ Close(p)

Next == \E p \in Proc : Run(p) \/ SpuriousWakeup(p) \/ Kill(p)

Spec == Init /\ [][Next]_vars
FairSpec == Spec /\ \A p \in Proc : WF_vars(Run(p))
-----------------------------------------------------------------------------
TypeOK == /\ name \in Proc \cup {None}
          /\ sized \subseteq Proc /\ ready \subseteq Proc /\ raced \subseteq Proc
          /\ count \in [Proc -> 0..UIntMax]
          /\ lock \in [Proc -> Proc \cup {None}]
          /\ sem \in [Proc -> Proc \cup {None}]
          /\ pc \in [Proc -> Places]
          /\ dead \subseteq Proc
          /\ spurious \in 0..MaxSpurious

(* Every semaphore that nobody opened too early is a mutual exclusion lock: *)
(* the processes between semaphore_wait and semaphore_post (sem.c:52-68)    *)
(* implement Exclusion, whoever barges in between a signal and the wake-up, *)
(* and whoever is killed.                                                   *)
HoldsClean(p, o) == o \notin raced /\ Holds(p, o)
Excl == INSTANCE Exclusion WITH
           Client <- Proc, Resource <- Proc,
           holder <- [o \in Proc |-> {p \in Proc : HoldsClean(p, o)}]
IsExclusive == Excl!Spec

(* semaphore_post signals only when count was 0 (sem.c:55-57).  That is     *)
(* enough: when the count is positive and a live process sleeps, another    *)
(* live one is on its way to test the count again, and the mutex it has to  *)
(* pass is not a dead one's.  The exception is the death of a process in    *)
(* semaphore_wait before its unlock (sem.c:63-67): killed asleep it may be  *)
(* the one the signal is spent on, killed later it takes the wake-up or     *)
(* the mutex with it, and the sleepers then have a positive count beside    *)
(* them and nobody to tell them.  Deaths elsewhere do no such harm.         *)
OnTheWay(o) == {q \in Proc : sem[q] = o /\ pc[q] \in {"relock", "test", "take"}}
NoLostWakeup ==
    \A o \in Proc \ raced :
       /\ count[o] # 0
       /\ Sleepers(o) \ dead # {}
       /\ OnTheWay(o) \cap dead = {}
       => OnTheWay(o) \ dead # {} /\ lock[o] \notin dead

(* The path goes away only in the creator's own close (main.c:44-47): no    *)
(* process removes a semaphore another one created.                         *)
UnlinkedByCreator ==
    [][name # None /\ name' # name => pc[name] = "close" /\ pc'[name] = "done"]_vars

(* When nobody opens too early and nobody is killed, every process returns  *)
(* from main: no waiter is forgotten.                                       *)
Terminates ==
    <>[](\A p \in Proc : pc[p] \in Ended) \/ <>(raced # {} \/ dead # {})

(* sem.h:11 "init count is 1": when semaphore_create has returned (and its   *)
(* caller has not waited yet) the count is 1, less the processes that       *)
(* already hold the semaphore.                                              *)
InitCountIsOne ==
    \A p \in Proc : pc[p] = "wait" /\ sem[p] = p =>
       count[p] + Cardinality(Holders(p)) = 1
=============================================================================
