-------------------------- MODULE SemaphoreProofs --------------------------
(***************************************************************************)
(* Machine-checked proofs about Semaphore, for any set of processes, any   *)
(* width of the count and any number of deaths and spurious wake-ups.      *)
(***************************************************************************)
EXTENDS Semaphore, TLAPS

(* Who has which file mapped.                                               *)
Mapped ==
    /\ \A p \in Proc : sem[p] = None <=> pc[p] \in {"create", "open", "failed"}
    /\ \A p \in Proc : pc[p] \in Building => sem[p] = p
    /\ \A p \in Proc : p \in ready <=> sem[p] = p /\ pc[p] \notin Building
    /\ \A p \in Proc : sem[p] # None /\ sem[p] \notin ready \cup raced => sem[p] = p
    /\ name # None => sem[name] = name
    /\ \A p \in Proc : sem[p] = p /\ pc[p] # "done" => name = p

(* A file nobody opened too early and that is still being built.            *)
Fresh ==
    \A o \in Proc \ raced :
       /\ o \notin ready => lock[o] = None
       /\ pc[o] \in {"mutex_init", "cond_init"} => count[o] = 1

(* A file that became a semaphore before anybody opened it.                 *)
Clean == ready \ raced
Guarded ==
    /\ \A o \in Clean : count[o] \in {0, 1}
    /\ \A o \in Clean : lock[o] # None => sem[lock[o]] = o /\ pc[lock[o]] \in Locked
    /\ \A p \in Proc : sem[p] \in Clean =>
          /\ pc[p] \in Locked => lock[sem[p]] = p
          /\ pc[p] = "take" => count[sem[p]] = 1
          /\ pc[p] \in Holding => count[sem[p]] = 0
    /\ \A p, q \in Proc :
          sem[p] \in Clean /\ sem[p] = sem[q] /\ {pc[p], pc[q]} \subseteq Holding
             => p = q

(* Beside a positive count and a sleeper there is somebody, perhaps dead,   *)
(* whom the last post woke or who found the count positive.                 *)
Signalled ==
    \A o \in Proc \ raced : count[o] # 0 /\ Sleepers(o) # {} => OnTheWay(o) # {}

IInv == TypeOK /\ Mapped /\ Fresh /\ Guarded /\ Signalled
-----------------------------------------------------------------------------
(* The decrement and the increment of an unsigned count, without wrapping.  *)
LEMMA CountArithmetic ==
    /\ (1 + UIntMax) % (UIntMax + 1) = 0
    /\ (0 + 1) % (UIntMax + 1) = 1
    /\ \A n \in Nat : n % (UIntMax + 1) \in 0..UIntMax
BY UIntAssumption, SMT

(* The initial state, before any process has run, satisfies the invariant.  *)
LEMMA InitInv == Init => IInv
BY NoneAssumption, UIntAssumption, BoundAssumption
DEF Init, IInv, TypeOK, Mapped, Fresh, Guarded, Clean, Signalled, OnTheWay, Sleepers,
    Places, Building, Locked, Holding, Ended

(* Every step of a process and of the environment preserves the invariant.  *)
LEMMA NextInv == IInv /\ [Next]_vars => IInv'
<1> SUFFICES ASSUME IInv, [Next]_vars PROVE IInv'
  OBVIOUS
<1> USE NoneAssumption, UIntAssumption, BoundAssumption
    DEF IInv, TypeOK, Mapped, At, Goto, Places, Building, Locked, Holding, Ended
<1>1. ASSUME NEW p \in Proc, CreateExcl(p) PROVE IInv'
  BY <1>1 DEF CreateExcl, Fresh, Guarded, Clean, Signalled, OnTheWay, Sleepers
<1>2. ASSUME NEW p \in Proc, Ftruncate(p) PROVE IInv'
  BY <1>2 DEF Ftruncate, Fresh, Guarded, Clean, Signalled, OnTheWay, Sleepers
<1>3. ASSUME NEW p \in Proc, StoreCount(p) PROVE IInv'
  BY <1>3 DEF StoreCount, Fresh, Guarded, Clean, Signalled, OnTheWay, Sleepers
<1>4. ASSUME NEW p \in Proc, MutexInit(p) PROVE IInv'
  BY <1>4 DEF MutexInit, Fresh, Guarded, Clean, Signalled, OnTheWay, Sleepers
<1>5. ASSUME NEW p \in Proc, CondInit(p) PROVE IInv'
  <2>1. TypeOK' /\ Mapped'
    BY <1>5 DEF CondInit, Sleepers
  <2>2. Fresh' /\ Guarded'
    BY <1>5 DEF CondInit, Fresh, Guarded, Clean, Sleepers
  <2>3. Signalled'
    BY <1>5 DEF CondInit, Fresh, Guarded, Clean, Signalled, OnTheWay, Sleepers
  <2> QED BY <2>1, <2>2, <2>3
<1>6. ASSUME NEW p \in Proc, Open(p) PROVE IInv'
  <2>1. TypeOK' /\ Mapped'
    BY <1>6 DEF Open, Sleepers
  <2>2. Fresh' /\ Guarded'
    BY <1>6 DEF Open, Fresh, Guarded, Clean, Sleepers
  <2>3. Signalled'
    BY <1>6 DEF Open, Fresh, Guarded, Clean, Signalled, OnTheWay, Sleepers
  <2> QED BY <2>1, <2>2, <2>3
<1>7. ASSUME NEW p \in Proc, WaitLock(p) PROVE IInv'
  BY <1>7 DEF WaitLock, LockAndGo, Fresh, Guarded, Clean, Signalled, OnTheWay, Sleepers
<1>8. ASSUME NEW p \in Proc, Test(p) PROVE IInv'
  <2>1. TypeOK' /\ Mapped'
    BY <1>8 DEF Test, Sleepers
  <2>2. Fresh' /\ Guarded'
    BY <1>8 DEF Test, Fresh, Guarded, Clean, Sleepers
  <2>3. Signalled'
    BY <1>8 DEF Test, Fresh, Guarded, Clean, Signalled, OnTheWay, Sleepers
  <2> QED BY <2>1, <2>2, <2>3
<1>9. ASSUME NEW p \in Proc, Relock(p) PROVE IInv'
  BY <1>9 DEF Relock, LockAndGo, Fresh, Guarded, Clean, Signalled, OnTheWay, Sleepers
<1>10. ASSUME NEW p \in Proc, Take(p) PROVE IInv'
  <2>1. TypeOK' /\ Mapped'
    BY CountArithmetic, <1>10 DEF Take, Sleepers
  <2>2. Fresh' /\ Guarded'
    BY CountArithmetic, <1>10 DEF Take, Fresh, Guarded, Clean, Sleepers
  <2>3. Signalled'
    BY CountArithmetic, <1>10 DEF Take, Fresh, Guarded, Clean, Signalled, OnTheWay, Sleepers
  <2> QED BY <2>1, <2>2, <2>3
<1>11. ASSUME NEW p \in Proc, PostLock(p) PROVE IInv'
  BY <1>11 DEF PostLock, LockAndGo, Fresh, Guarded, Clean, Signalled, OnTheWay, Sleepers
<1>12. ASSUME NEW p \in Proc, Post(p) PROVE IInv'
  <2>1. TypeOK' /\ Mapped'
    BY CountArithmetic, <1>12 DEF Post, Lost, Sleepers
  <2>2. Fresh' /\ Guarded'
    BY CountArithmetic, <1>12 DEF Post, Lost, Fresh, Guarded, Clean, Sleepers
  <2>3. Signalled'
    BY CountArithmetic, <1>12 DEF Post, Lost, Fresh, Guarded, Clean, Signalled, OnTheWay, Sleepers
  <2> QED BY <2>1, <2>2, <2>3
<1>13. ASSUME NEW p \in Proc, Close(p) PROVE IInv'
  BY <1>13 DEF Close, Fresh, Guarded, Clean, Signalled, OnTheWay, Sleepers
<1>14. ASSUME NEW p \in Proc, SpuriousWakeup(p) PROVE IInv'
  BY <1>14 DEF SpuriousWakeup, Fresh, Guarded, Clean, Signalled, OnTheWay, Sleepers
<1>15. ASSUME NEW p \in Proc, Kill(p) PROVE IInv'
  BY <1>15 DEF Kill, Fresh, Guarded, Clean, Signalled, OnTheWay, Sleepers
<1>16. CASE UNCHANGED vars
  BY <1>16 DEF vars, Fresh, Guarded, Clean, Signalled, OnTheWay, Sleepers
<1> QED
  BY <1>1, <1>2, <1>3, <1>4, <1>5, <1>6, <1>7, <1>8, <1>9, <1>10,
     <1>11, <1>12, <1>13, <1>14, <1>15, <1>16 DEF Next, Run

(* IInv is an invariant of the program.                                     *)
LEMMA Invariance == Spec => []IInv
BY InitInv, NextInv, PTL DEF Spec

(* Every variable keeps its type: in particular the unsigned count of       *)
(* sem.c:31-66 stays in range whatever the processes do.                    *)
THEOREM TypeCorrect == Spec => []TypeOK
BY Invariance, PTL DEF IInv

(* The signal of semaphore_post (sem.c:55-57), given only when the count    *)
(* was 0, leaves no live waiter asleep beside a positive count without a    *)
(* live process on the way to test it and a mutex that process can get,     *)
(* unless the wake-up or the mutex went to a process that died in           *)
(* semaphore_wait (sem.c:63-67).                                            *)
THEOREM NoWakeupLost == Spec => []NoLostWakeup
<1>1. IInv => NoLostWakeup
  <2> SUFFICES ASSUME IInv, NEW o \in Proc \ raced, count[o] # 0,
                      Sleepers(o) \ dead # {}, OnTheWay(o) \cap dead = {}
               PROVE  OnTheWay(o) \ dead # {} /\ lock[o] \notin dead
    BY DEF NoLostWakeup
  <2>1. Sleepers(o) # {} /\ OnTheWay(o) # {}
    BY DEF IInv, Signalled
  <2>2. o \in Clean
    BY <2>1, NoneAssumption DEF IInv, TypeOK, Mapped, Sleepers, Clean, Building
  <2>3. ASSUME lock[o] \in dead PROVE FALSE
    <3>1. lock[o] \in Proc /\ lock[o] # None
      BY <2>3, NoneAssumption DEF IInv, TypeOK
    <3>2. sem[lock[o]] = o /\ pc[lock[o]] \in Locked
      BY <2>2, <3>1 DEF IInv, Guarded
    <3>3. pc[lock[o]] # "signal"
      BY <2>2, <3>1, <3>2 DEF IInv, Guarded, Holding
    <3>4. lock[o] \in OnTheWay(o)
      BY <3>1, <3>2, <3>3 DEF OnTheWay, Locked
    <3> QED BY <2>3, <3>4
  <2> QED BY <2>1, <2>3
<1> QED BY <1>1, Invariance, PTL

(* unlink (main.c:44-47) takes away only the path its own process created.  *)
THEOREM UnlinkOwnOnly == Spec => UnlinkedByCreator
<1>1. IInv /\ [Next]_vars =>
         [name # None /\ name' # name => pc[name] = "close" /\ pc'[name] = "done"]_vars
  BY NoneAssumption DEF IInv, TypeOK, Mapped, Next, Run, vars, At, Goto, LockAndGo,
     CreateExcl, Ftruncate, StoreCount, MutexInit, CondInit, Open, WaitLock, Test,
     Relock, Take, PostLock, Post, Close, SpuriousWakeup, Kill
<1> QED BY <1>1, Invariance, PTL DEF Spec, UnlinkedByCreator
-----------------------------------------------------------------------------
(* The abstract variable, and what a change of HoldsClean means for it.     *)
holderBar == [o \in Proc |-> {p \in Proc : HoldsClean(p, o)}]

(* Nobody's hold changes: a stuttering step of Exclusion.                   *)
LEMMA HoldsFrame ==
    ASSUME \A q, o \in Proc : HoldsClean(q, o)' <=> HoldsClean(q, o)
    PROVE  UNCHANGED holderBar
<1>1. \A o \in Proc : {q \in Proc : HoldsClean(q, o)'} = {q \in Proc : HoldsClean(q, o)}
  OBVIOUS
<1> QED BY <1>1, Zenon DEF holderBar

(* Only p comes to hold r, which nobody held: p acquires r.                 *)
LEMMA HoldsAcquire ==
    ASSUME NEW p \in Proc, NEW r \in Proc,
           \A q \in Proc : ~ HoldsClean(q, r),
           \A q, o \in Proc :
              HoldsClean(q, o)' <=> HoldsClean(q, o) \/ (q = p /\ o = r)
    PROVE  Excl!Acquire(p, r)
<1>1. {q \in Proc : HoldsClean(q, r)} = {}
  OBVIOUS
<1>2. \A o \in Proc : {q \in Proc : HoldsClean(q, o)'} =
                         IF o = r THEN {p} ELSE {q \in Proc : HoldsClean(q, o)}
  OBVIOUS
<1> QED BY <1>1, <1>2 DEF Excl!Acquire

(* Only p lets go of r, which it alone held: p releases r.                  *)
LEMMA HoldsRelease ==
    ASSUME NEW p \in Proc, NEW r \in Proc,
           \A q \in Proc : HoldsClean(q, r) <=> q = p,
           \A q, o \in Proc :
              HoldsClean(q, o)' <=> HoldsClean(q, o) /\ ~ (q = p /\ o = r)
    PROVE  Excl!Release(p, r)
<1>1. {q \in Proc : HoldsClean(q, r)} = {p}
  OBVIOUS
<1>2. \A o \in Proc : {q \in Proc : HoldsClean(q, o)'} =
                         IF o = r THEN {} ELSE {q \in Proc : HoldsClean(q, o)}
  OBVIOUS
<1> QED BY <1>1, <1>2 DEF Excl!Release

(* The only steps that change who holds a clean semaphore are the decrement *)
(* of semaphore_wait (an Acquire) and the increment of semaphore_post (a    *)
(* Release).                                                                *)
LEMMA StepRefines ==
    IInv /\ [Next]_vars => [Excl!Next]_holderBar
<1> SUFFICES ASSUME IInv, [Next]_vars PROVE [Excl!Next]_holderBar
  OBVIOUS
<1> USE NoneAssumption DEF IInv, TypeOK, Mapped, At, Goto, Building, Locked, Holding
<1>1. ASSUME NEW p \in Proc, CreateExcl(p) PROVE UNCHANGED holderBar
  BY <1>1, HoldsFrame DEF CreateExcl, HoldsClean, Holds
<1>2. ASSUME NEW p \in Proc, Ftruncate(p) PROVE UNCHANGED holderBar
  BY <1>2, HoldsFrame DEF Ftruncate, HoldsClean, Holds
<1>3. ASSUME NEW p \in Proc, StoreCount(p) PROVE UNCHANGED holderBar
  BY <1>3, HoldsFrame DEF StoreCount, HoldsClean, Holds
<1>4. ASSUME NEW p \in Proc, MutexInit(p) PROVE UNCHANGED holderBar
  BY <1>4, HoldsFrame DEF MutexInit, HoldsClean, Holds
<1>5. ASSUME NEW p \in Proc, CondInit(p) PROVE UNCHANGED holderBar
  BY <1>5, HoldsFrame DEF CondInit, HoldsClean, Holds
<1>6. ASSUME NEW p \in Proc, Open(p) PROVE UNCHANGED holderBar
  BY <1>6, HoldsFrame DEF Open, HoldsClean, Holds
<1>7. ASSUME NEW p \in Proc, WaitLock(p) PROVE UNCHANGED holderBar
  BY <1>7, HoldsFrame DEF WaitLock, LockAndGo, HoldsClean, Holds
<1>8. ASSUME NEW p \in Proc, Test(p) PROVE UNCHANGED holderBar
  BY <1>8, HoldsFrame DEF Test, HoldsClean, Holds
<1>9. ASSUME NEW p \in Proc, Relock(p) PROVE UNCHANGED holderBar
  BY <1>9, HoldsFrame DEF Relock, LockAndGo, HoldsClean, Holds
<1>10. ASSUME NEW p \in Proc, PostLock(p) PROVE UNCHANGED holderBar
  BY <1>10, HoldsFrame DEF PostLock, LockAndGo, HoldsClean, Holds
<1>11. ASSUME NEW p \in Proc, Close(p) PROVE UNCHANGED holderBar
  BY <1>11, HoldsFrame DEF Close, HoldsClean, Holds
<1>12. ASSUME NEW p \in Proc, SpuriousWakeup(p) PROVE UNCHANGED holderBar
  BY <1>12, HoldsFrame DEF SpuriousWakeup, HoldsClean, Holds
<1>13. ASSUME NEW p \in Proc, Kill(p) PROVE UNCHANGED holderBar
  BY <1>13, HoldsFrame DEF Kill, HoldsClean, Holds
<1>14. ASSUME NEW p \in Proc, Take(p) PROVE [Excl!Next]_holderBar
  <2>1. CASE sem[p] \in raced
    BY <1>14, <2>1, HoldsFrame DEF Take, HoldsClean, Holds
  <2>2. CASE sem[p] \notin raced
    <3>1. sem[p] \in Clean
      BY <1>14, <2>2 DEF Take, Clean
    <3>2. Excl!Acquire(p, sem[p])
      <4>1. \A q \in Proc : ~ HoldsClean(q, sem[p])
        BY <1>14, <3>1 DEF Take, Guarded, HoldsClean, Holds
      <4>2. \A q, o \in Proc :
               HoldsClean(q, o)' <=> HoldsClean(q, o) \/ (q = p /\ o = sem[p])
        BY <1>14, <2>2, <3>1 DEF Take, Clean, HoldsClean, Holds
      <4> QED BY <3>1, <4>1, <4>2, HoldsAcquire DEF Clean
    <3> QED BY <1>14, <3>1, <3>2 DEF Clean, Excl!Next
  <2> QED BY <2>1, <2>2
<1>15. ASSUME NEW p \in Proc, Post(p) PROVE [Excl!Next]_holderBar
  <2>1. CASE sem[p] \in raced
    BY <1>15, <2>1, HoldsFrame DEF Post, Sleepers, Lost, HoldsClean, Holds
  <2>2. CASE sem[p] \notin raced
    <3>1. sem[p] \in Clean
      BY <1>15, <2>2 DEF Post, Clean
    <3>2. Excl!Release(p, sem[p])
      <4>1. \A q \in Proc : HoldsClean(q, sem[p]) <=> q = p
        BY <1>15, <2>2, <3>1 DEF Post, Guarded, HoldsClean, Holds
      <4>2. \A q, o \in Proc :
               HoldsClean(q, o)' <=> HoldsClean(q, o) /\ ~ (q = p /\ o = sem[p])
        BY <1>15, <2>2, <3>1 DEF Post, Sleepers, Lost, Clean, HoldsClean, Holds
      <4> QED BY <3>1, <4>1, <4>2, HoldsRelease DEF Clean
    <3> QED BY <1>15, <3>1, <3>2 DEF Clean, Excl!Next
  <2> QED BY <2>1, <2>2
<1>16. CASE UNCHANGED vars
  BY <1>16, HoldsFrame DEF vars, HoldsClean, Holds
<1> QED
  BY <1>1, <1>2, <1>3, <1>4, <1>5, <1>6, <1>7, <1>8, <1>9, <1>10,
     <1>11, <1>12, <1>13, <1>14, <1>15, <1>16 DEF Next, Run

(* semaphore_wait and semaphore_post (sem.c:52-68) implement a mutual       *)
(* exclusion lock over every semaphore nobody opened before it was built.   *)
THEOREM Exclusive == Spec => IsExclusive
<1>1. Init => Excl!Init
  BY NoneAssumption DEF Init, Excl!Init, HoldsClean, Holds, Holding
<1>2. IInv /\ [Next]_vars => [Excl!Next]_holderBar
  BY StepRefines
<1> QED
  BY <1>1, <1>2, Invariance, PTL DEF Spec, IsExclusive, Excl!Spec, holderBar
=============================================================================
