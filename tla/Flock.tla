------------------------------- MODULE Flock -------------------------------
(***************************************************************************)
(* src/io/file_lock/flock: processes that flock() one file.  main() takes  *)
(* a shared or exclusive lock, sleeps, unlocks, and then runs _otherTest   *)
(* three times: open the file twice, lock fd1, perhaps unlock it through a *)
(* duplicate or close it, and try to lock fd2.  A lock belongs to an open  *)
(* file description ("0" of main, "1" and "2" of the test), which lives as *)
(* long as some descriptor refers to it.                                   *)
(***************************************************************************)
EXTENDS Integers

CONSTANTS Proc,
          Args   \* argument lists, records [lockType, nb]

OFD == {"0", "1", "2"}
FD == {"fd", "fd1", "fd2", "fd3"}

VARIABLES args,
          fds,     \* fds[p][f]: the description descriptor f refers to, or "none"
          lock,    \* lock[p][d]: "un", "sh" or "ex"
          test,    \* test[p]: which call of _otherTest p is in (1..3), 0 before
          got2,    \* got2[p][k]: what locking fd2 returned in test k
          pc

vars == <<args, fds, lock, test, got2, pc>>

Init == /\ args \in [Proc -> Args]
        /\ fds = [p \in Proc |-> [f \in FD |-> "none"]]
        /\ lock = [p \in Proc |-> [d \in OFD |-> "un"]]
        /\ test = [p \in Proc |-> 0]
        /\ got2 = [p \in Proc |-> [k \in 1..3 |-> "none"]]
        /\ pc = [p \in Proc |-> "open"]

Goto(p, from, to) == pc[p] = from /\ pc' = [pc EXCEPT ![p] = to]
-----------------------------------------------------------------------------
(* The kernel's flock().                                                    *)
Free(p, d, mode) ==
    \A q \in Proc, e \in OFD : <<q, e>> # <<p, d>> =>
       lock[q][e] = "un" \/ (mode = "sh" /\ lock[q][e] = "sh")
SetLock(p, d, mode) == lock' = [lock EXCEPT ![p][d] = mode]

(* Closing descriptors: a description nobody refers to loses its lock.      *)
CloseAll(p, F) ==
    LET kept == [f \in FD |-> IF f \in F THEN "none" ELSE fds[p][f]]
    IN /\ fds' = [fds EXCEPT ![p] = kept]
       /\ lock' = [lock EXCEPT ![p] = [d \in OFD |->
                      IF \E f \in FD : kept[f] = d THEN @[d] ELSE "un"]]

(* Back in main after a call of _otherTest.                                 *)
Return(p) == IF test[p] = 3 THEN "done" ELSE "test"
-----------------------------------------------------------------------------
(* main *)
Open(p) ==
    /\ Goto(p, "open", "lock")
    /\ fds' = [fds EXCEPT ![p]["fd"] = "0"]
    /\ UNCHANGED <<args, lock, test, got2>>

Lock(p) ==
    /\ \/ Goto(p, "lock", "sleep") /\ Free(p, "0", args[p].lockType)
          /\ SetLock(p, "0", args[p].lockType) /\ UNCHANGED fds
       \/ /\ Goto(p, "lock", "done") /\ args[p].nb                 \* EWOULDBLOCK
          /\ ~Free(p, "0", args[p].lockType) /\ CloseAll(p, FD)
    /\ UNCHANGED <<args, test, got2>>

Unlock(p) ==
    /\ Goto(p, "sleep", "test") /\ CloseAll(p, {"fd"})
    /\ UNCHANGED <<args, test, got2>>
-----------------------------------------------------------------------------
(* _otherTest *)
OpenTwice(p) ==
    /\ Goto(p, "test", "lock1")
    /\ test' = [test EXCEPT ![p] = @ + 1]
    /\ fds' = [fds EXCEPT ![p]["fd1"] = "1", ![p]["fd2"] = "2"]
    /\ UNCHANGED <<args, lock, got2>>

Locked1(p) == CASE test[p] = 1 -> "lock2" [] test[p] = 2 -> "dup" [] test[p] = 3 -> "close1"
Lock1(p) ==
    /\ \/ Free(p, "1", "ex") /\ Goto(p, "lock1", Locked1(p)) /\ SetLock(p, "1", "ex")
          /\ UNCHANGED fds
       \/ ~Free(p, "1", "ex") /\ Goto(p, "lock1", Return(p)) /\ CloseAll(p, {"fd1", "fd2"})
    /\ UNCHANGED <<args, test, got2>>

Dup(p) ==
    /\ Goto(p, "dup", "lock2")
    /\ fds' = [fds EXCEPT ![p]["fd3"] = fds[p]["fd1"]]
    /\ SetLock(p, fds'[p]["fd3"], "un")
    /\ UNCHANGED <<args, test, got2>>

Close1(p) ==
    /\ Goto(p, "close1", "lock2") /\ CloseAll(p, {"fd1"})
    /\ UNCHANGED <<args, test, got2>>

\* Mutant: LOCK_NB is left out for fd2.
Lock2Blocking(p) ==
    /\ Free(p, "2", "ex") /\ SetLock(p, "2", "ex") /\ Goto(p, "lock2", "close")
    /\ got2' = [got2 EXCEPT ![p][test[p]] = "ok"]
    /\ UNCHANGED <<args, fds, test>>
Lock2(p) ==
    /\ Goto(p, "lock2", "close")
    /\ \/ /\ Free(p, "2", "ex") /\ SetLock(p, "2", "ex")
          /\ got2' = [got2 EXCEPT ![p][test[p]] = "ok"]
       \/ /\ ~Free(p, "2", "ex") /\ UNCHANGED lock
          /\ got2' = [got2 EXCEPT ![p][test[p]] = "failed"]
    /\ UNCHANGED <<args, fds, test>>

\* Mutant: fd2 is left open.
CloseTwo(p) ==
    /\ Goto(p, "close", Return(p)) /\ CloseAll(p, {"fd1", "fd3"})
    /\ UNCHANGED <<args, test, got2>>
Close(p) ==
    /\ Goto(p, "close", Return(p)) /\ CloseAll(p, {"fd1", "fd2", "fd3"})
    /\ UNCHANGED <<args, test, got2>>

Run(p) == \/ Open(p) \/ Lock(p) \/ Unlock(p) \/ OpenTwice(p) \/ Lock1(p)
          \/ Dup(p) \/ Close1(p) \/ Lock2(p) \/ Close(p)
Next == \E p \in Proc : Run(p)
Spec == Init /\ [][Next]_vars
FairSpec == Spec /\ \A p \in Proc : WF_vars(Run(p))
-----------------------------------------------------------------------------
(* Whatever path _otherTest leaves by (main.c:28-30, 65-71), the next call   *)
(* starts without a lock and without a descriptor of the one before.         *)
NothingLeft ==
    \A p \in Proc : pc[p] \in {"test", "done"} =>
       /\ \A d \in OFD : lock[p][d] = "un"
       /\ \A f \in FD : fds[p][f] = "none"

(* Two opens are two lock owners, even within a process: with fd1 locked the *)
(* first test never gets fd2; and without contention the other two do, the   *)
(* third because close(fd1) closes the last descriptor of the description.   *)
TestOutcome ==
    \A p \in Proc :
       /\ got2[p][1] # "ok"
       /\ pc[p] = "lock2" /\ test[p] # 1 /\ (\A q \in Proc \ {p} : pc[q] \in {"open", "done"})
             => Free(p, "2", "ex")

(* main.c:51 "close fd1, will not unlock fd1": after close(fd1) the third    *)
(* test still has the lock.                                                  *)
CloseKeepsLock ==
    \A p \in Proc : pc[p] = "lock2" /\ test[p] = 3 => lock[p]["1"] = "ex"

(* Every process ends: LOCK_NB keeps it from waiting for its own lock, and   *)
(* the locks others wait for are released.                                   *)
AllEnd == \A p \in Proc : <>(pc[p] = "done")
=============================================================================
