------------------------------ MODULE PosixShm ------------------------------
(***************************************************************************)
(* src/process/posix-ipc/shared-memory and .../semaphore/unnamed.c: every  *)
(* process creates or opens one shared memory object and adds to the int   *)
(* in it.  The first program adds atomically after the creator has set the *)
(* int to 0; the second adds with a load and a store between sem_wait and  *)
(* sem_post of a semaphore the creator initialises in the object.          *)
(*                                                                         *)
(* The object created by process o is called o; it outlives its name.      *)
(* "raced" remembers the objects opened before the creator had set them    *)
(* up, about which nothing is promised.                                    *)
(***************************************************************************)
EXTENDS Integers, FiniteSets

CONSTANTS Proc, None, MaxTestCount

ASSUME ConstAssumption == /\ None \notin Proc /\ IsFiniteSet(Proc)
                          /\ MaxTestCount \in Nat \ {0}

VARIABLES withSem,        \* FALSE: shared-memory/main.c, TRUE: semaphore/unnamed.c
          name,           \* the object the name refers to, or None
          sized, ready,   \* objects past ftruncate, past their set-up
          raced,
          number,         \* number[o]: the int
          semval,         \* semval[o]: the semaphore
          map,            \* map[p]: the object p has mapped, or None
          pc, i, reg,     \* per process: place, loop variable, loaded number
          printed         \* printed[p]: "finish test, number is", -1 before

vars == <<withSem, name, sized, ready, raced, number, semval, map, pc, i, reg, printed>>

Init == /\ withSem \in BOOLEAN
        /\ name = None /\ sized = {} /\ ready = {} /\ raced = {}
        /\ number = [o \in Proc |-> 0]
        /\ semval = [o \in Proc |-> 0]
        /\ map = [p \in Proc |-> None]
        /\ pc = [p \in Proc |-> "create"]
        /\ i = [p \in Proc |-> 0]
        /\ reg = [p \in Proc |-> 0]
        /\ printed = [p \in Proc |-> -1]

Ended == {"done", "failed", "sigbus"}
Goto(p, from, to) == pc[p] = from /\ pc' = [pc EXCEPT ![p] = to]
Users(o) == {p \in Proc : map[p] = o}
At(o, place) == {p \in Users(o) : pc[p] = place}
-----------------------------------------------------------------------------
(* _mapSharedMemory *)
Create(p) ==
    /\ \/ /\ name = None /\ Goto(p, "create", "ftruncate")
          /\ name' = p /\ map' = [map EXCEPT ![p] = p]
       \/ name # None /\ Goto(p, "create", "open") /\ UNCHANGED <<name, map>>
    /\ UNCHANGED <<withSem, sized, ready, raced, number, semval, i, reg, printed>>

Open(p) ==
    /\ \/ name = None /\ Goto(p, "open", "failed") /\ UNCHANGED <<map, raced>>
       \/ /\ name # None /\ Goto(p, "open", "loop")
          /\ map' = [map EXCEPT ![p] = name]
          /\ raced' = raced \cup ({name} \ ready)
    /\ UNCHANGED <<withSem, name, sized, ready, number, semval, i, reg, printed>>

Ftruncate(p) ==
    /\ Goto(p, "ftruncate", "setup") /\ sized' = sized \cup {p}
    /\ UNCHANGED <<withSem, name, ready, raced, number, semval, map, i, reg, printed>>

(* The creator sets the int to 0, or initialises the semaphore to 1, which   *)
(* forgets whoever is already blocked on it.                                 *)
SetUp(p) ==
    /\ pc[p] = "setup" /\ ready' = ready \cup {p}
    /\ IF withSem
       THEN /\ semval' = [semval EXCEPT ![p] = 1] /\ UNCHANGED number
            /\ pc' = [q \in Proc |-> IF q = p THEN "loop"
                                     ELSE IF q \in At(p, "blocked") THEN "lost"
                                     ELSE pc[q]]
       ELSE /\ number' = [number EXCEPT ![p] = 0] /\ UNCHANGED semval
            /\ Goto(p, "setup", "loop")
    /\ UNCHANGED <<withSem, name, sized, raced, map, i, reg, printed>>

(* Touching an object that has no size yet is a SIGBUS.                      *)
Sigbus(p) ==
    /\ map[p] \notin sized /\ Goto(p, "loop", "sigbus")
    /\ UNCHANGED <<withSem, name, sized, ready, raced, number, semval, map, i, reg, printed>>
-----------------------------------------------------------------------------
InLoop(p) == map[p] \in sized /\ i[p] < MaxTestCount

\* Mutant: a plain ++ in place of atomicAddValue.
PlainAdd(p) ==
    /\ InLoop(p) /\ ~withSem
    /\ \/ /\ Goto(p, "loop", "store") /\ reg' = [reg EXCEPT ![p] = number[map[p]]]
          /\ UNCHANGED <<number, i>>
       \/ /\ Goto(p, "store", "loop") /\ number' = [number EXCEPT ![map[p]] = reg[p] + 1]
          /\ i' = [i EXCEPT ![p] = @ + 1] /\ UNCHANGED reg
    /\ UNCHANGED <<withSem, name, sized, ready, raced, semval, map, printed>>
(* atomicAddValue(number, 1) *)
AtomicAdd(p) ==
    /\ ~withSem /\ InLoop(p) /\ Goto(p, "loop", "loop")
    /\ number' = [number EXCEPT ![map[p]] = @ + 1]
    /\ i' = [i EXCEPT ![p] = @ + 1]
    /\ UNCHANGED <<withSem, name, sized, ready, raced, semval, map, reg, printed>>

(* sem_wait, the increment as a load and a store, sem_post.                  *)
SemWait(p) ==
    /\ withSem /\ InLoop(p)
    /\ \/ /\ semval[map[p]] > 0 /\ Goto(p, "loop", "load")
          /\ semval' = [semval EXCEPT ![map[p]] = @ - 1]
       \/ semval[map[p]] = 0 /\ Goto(p, "loop", "blocked") /\ UNCHANGED semval
    /\ UNCHANGED <<withSem, name, sized, ready, raced, number, map, i, reg, printed>>

Load(p) ==
    /\ Goto(p, "load", "store") /\ reg' = [reg EXCEPT ![p] = number[map[p]]]
    /\ UNCHANGED <<withSem, name, sized, ready, raced, number, semval, map, i, printed>>
StoreNumber(p) ==
    /\ withSem /\ Goto(p, "store", "post")
    /\ number' = [number EXCEPT ![map[p]] = reg[p] + 1]
    /\ UNCHANGED <<withSem, name, sized, ready, raced, semval, map, i, reg, printed>>

\* Mutant: sem_post leaves the sleepers alone.
SemPostSilent(p) ==
    /\ Goto(p, "post", "loop")
    /\ semval' = [semval EXCEPT ![map[p]] = @ + 1]
    /\ i' = [i EXCEPT ![p] = @ + 1]
    /\ UNCHANGED <<withSem, name, sized, ready, raced, number, map, reg, printed>>
SemPost(p) ==
    LET o == map[p] IN
    /\ pc[p] = "post"
    /\ \/ At(o, "blocked") = {} /\ Goto(p, "post", "loop")
       \/ \E q \in At(o, "blocked") \cup At(o, "lost") :
             /\ At(o, "blocked") # {}
             /\ pc' = [pc EXCEPT ![p] = "loop", ![q] = "loop"]
    /\ semval' = [semval EXCEPT ![o] = @ + 1]
    /\ i' = [i EXCEPT ![p] = @ + 1]
    /\ UNCHANGED <<withSem, name, sized, ready, raced, number, map, reg, printed>>

Finish(p) ==
    /\ map[p] \in sized /\ i[p] = MaxTestCount /\ Goto(p, "loop", "unlink")
    /\ printed' = [printed EXCEPT ![p] = number[map[p]]]
    /\ UNCHANGED <<withSem, name, sized, ready, raced, number, semval, map, i, reg>>

(* munmap, close and, for the creator, shm_unlink.                           *)
Unlink(p) ==
    /\ Goto(p, "unlink", "done")
    /\ name' = IF map[p] = p THEN None ELSE name
    /\ UNCHANGED <<withSem, sized, ready, raced, number, semval, map, i, reg, printed>>

Run(p) == \/ Create(p) \/ Open(p) \/ Ftruncate(p) \/ SetUp(p) \/ Sigbus(p)
          \/ AtomicAdd(p) \/ SemWait(p) \/ Load(p) \/ StoreNumber(p) \/ SemPost(p)
          \/ Finish(p) \/ Unlink(p)
Next == \E p \in Proc : Run(p)
Spec == Init /\ [][Next]_vars
FairSpec == Spec /\ \A p \in Proc : WF_vars(Run(p))
-----------------------------------------------------------------------------
(* The additions to an object so far, each known by who made it in which     *)
(* turn of its loop; one that sem_post has yet to end is included.           *)
Turns(p) == i[p] + (IF pc[p] = "post" THEN 1 ELSE 0)
Additions(o) == {a \in Users(o) \X (1..MaxTestCount) : a[2] <= Turns(a[1])}

(* No addition is lost in an object nobody opened too early: the int is the  *)
(* number of its users' additions, and no user reports less than its own     *)
(* share.  With atomic additions the creator never does, even if others came *)
(* early: it sets the int up before it adds (shared-memory/main.c:48-51).    *)
NothingLost ==
    /\ \A o \in Proc \ raced : number[o] = Cardinality(Additions(o))
    /\ \A p \in Proc : printed[p] # -1 /\ (map[p] \notin raced \/ (map[p] = p /\ ~withSem))
                       => printed[p] >= MaxTestCount

(* Every process ends, unless one opened an object too early.                *)
AllEnd == <>[](\A p \in Proc : pc[p] \in Ended) \/ <>(raced # {})
=============================================================================
