--------------------------- MODULE LockedCounter ---------------------------
(***************************************************************************)
(* src/thread/mutex and src/thread/spin-lock: two threads add to a shared  *)
(* counter under one lock.  The mutex program first locks its recursive    *)
(* mutex twice in main and unlocks it twice; the spin-lock program only    *)
(* initialises its lock.  counter++ is a load and a store.                 *)
(***************************************************************************)
EXTENDS Integers

CONSTANTS Max,         \* maxTestNumber
          Recursive    \* TRUE: the mutex program; FALSE: the spin-lock program

ASSUME MaxAssumption == Max \in Nat \ {0}
ASSUME RecursiveAssumption == Recursive \in BOOLEAN

Thread == {1, 2}

VARIABLES counter,
          owner, depth,   \* of the lock: owner 0 when it is free
          pc, i, reg,     \* per thread: place, loop variable, loaded counter
          main,           \* where main is
          printed         \* the counter main printed, -1 before

vars == <<counter, owner, depth, pc, i, reg, main, printed>>
MainId == 3               \* main as an owner of the lock

Init == /\ counter = 0 /\ owner = 0 /\ depth = 0
        /\ pc = [t \in Thread |-> "none"]
        /\ i = [t \in Thread |-> 0]
        /\ reg = [t \in Thread |-> 0]
        /\ main = IF Recursive THEN "lock" ELSE "create1"
        /\ printed = -1
-----------------------------------------------------------------------------
(* The lock: a recursive mutex, or a spin lock that is never taken twice.   *)
Acquire(t) == /\ owner \in IF Recursive THEN {0, t} ELSE {0}
              /\ owner' = t /\ depth' = depth + 1
Release == depth' = depth - 1 /\ owner' = IF depth = 1 THEN 0 ELSE owner
-----------------------------------------------------------------------------
(* _func *)
Goto(t, from, to) == pc[t] = from /\ pc' = [pc EXCEPT ![t] = to]

\* Mutant: the loop body runs without the lock.
LockSkipped(t) == /\ i[t] < Max /\ Goto(t, "lock", "load")
                  /\ UNCHANGED <<counter, owner, depth, i, reg, main, printed>>
Lock(t) == /\ i[t] < Max /\ Goto(t, "lock", "load") /\ Acquire(t)
           /\ UNCHANGED <<counter, i, reg, main, printed>>

Load(t) == /\ Goto(t, "load", "store")
           /\ reg' = [reg EXCEPT ![t] = counter]
           /\ UNCHANGED <<counter, owner, depth, i, main, printed>>

Store(t) == /\ Goto(t, "store", "unlock")
            /\ counter' = reg[t] + 1
            /\ UNCHANGED <<owner, depth, i, reg, main, printed>>

Unlock(t) == /\ Goto(t, "unlock", "lock") /\ Release
             /\ i' = [i EXCEPT ![t] = @ + 1]
             /\ UNCHANGED <<counter, reg, main, printed>>

Return(t) == /\ i[t] = Max /\ Goto(t, "lock", "done")
             /\ UNCHANGED <<counter, owner, depth, i, reg, main, printed>>

Func(t) == Lock(t) \/ Load(t) \/ Store(t) \/ Unlock(t) \/ Return(t)
-----------------------------------------------------------------------------
(* main *)
MainGoto(from, to) == main = from /\ main' = to
MainLocks ==
    /\ MainGoto("lock", "trylock") \/ MainGoto("trylock", "unlock1")
    /\ Acquire(MainId)
    /\ UNCHANGED <<counter, pc, i, reg, printed>>

\* Mutant: the unlock that belongs to the trylock is forgotten.
MainUnlockOnce ==
    /\ MainGoto("unlock1", "create1") /\ Release
    /\ UNCHANGED <<counter, pc, i, reg, printed>>
MainUnlocks ==
    /\ MainGoto("unlock1", "unlock2") \/ MainGoto("unlock2", "create1")
    /\ Release
    /\ UNCHANGED <<counter, pc, i, reg, printed>>

Create(t) ==
    /\ MainGoto(IF t = 1 THEN "create1" ELSE "create2", IF t = 1 THEN "create2" ELSE "join")
    /\ Goto(t, "none", "lock")
    /\ UNCHANGED <<counter, owner, depth, i, reg, printed>>

(* Both joins, the output, and the end of the lock.                         *)
Join == /\ \A t \in Thread : pc[t] = "done"
        /\ MainGoto("join", "destroyed")
        /\ printed' = counter
        /\ UNCHANGED <<counter, owner, depth, pc, i, reg>>

Main == MainLocks \/ MainUnlocks \/ Create(1) \/ Create(2) \/ Join
Next == Main \/ \E t \in Thread : Func(t)
Spec == Init /\ [][Next]_vars
FairSpec == Spec /\ WF_vars(Main) /\ \A t \in Thread : WF_vars(Func(t))
-----------------------------------------------------------------------------
Critical(t) == pc[t] \in {"load", "store", "unlock"}

TypeOK == /\ counter \in Nat
          /\ owner \in 0..3 /\ depth \in 0..2
          /\ pc \in [Thread -> {"none", "lock", "load", "store", "unlock", "done"}]
          /\ i \in [Thread -> 0..Max]
          /\ reg \in [Thread -> Nat]
          /\ main \in {"lock", "trylock", "unlock1", "unlock2", "create1",
                       "create2", "join", "destroyed"}
          /\ printed \in Int

(* No increment is lost: "counter is" (mutex 99, spin-lock 57) prints twice  *)
(* maxTestNumber.                                                            *)
FinalCount == printed # -1 => printed = 2 * Max

(* The lock is destroyed (mutex 101-102, spin-lock 59) when no thread is     *)
(* inside it or will still come for it, and it is free.                      *)
DestroyedIdle ==
    main = "destroyed" => owner = 0 /\ \A t \in Thread : pc[t] = "done"

(* The loop body is a critical section of its threads.                       *)
Excl == INSTANCE Exclusion WITH
           Client <- Thread, Resource <- {"lock"},
           holder <- [r \in {"lock"} |-> {t \in Thread : Critical(t)}]
IsExclusive == Excl!Spec

(* main gives the mutex back as often as it took it, so both threads run to  *)
(* the end and main returns.                                                 *)
Terminates == <>(main = "destroyed")
=============================================================================
