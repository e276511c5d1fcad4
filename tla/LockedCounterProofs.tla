------------------------ MODULE LockedCounterProofs ------------------------
(***************************************************************************)
(* Proofs about LockedCounter, for every maxTestNumber and both programs,  *)
(* about RwCounter, which MCThread instantiates as Rw, and ThreadCancel.   *)
(***************************************************************************)
EXTENDS MCThread, TLAPS

(* Who has the lock, and how often.                                         *)
Ownership ==
    /\ \A t \in Thread : Critical(t) <=> owner = t
    /\ owner = MainId <=> main \in {"trylock", "unlock1", "unlock2"}
    /\ depth = IF owner = 0 THEN 0 ELSE IF main = "unlock1" THEN 2 ELSE 1
    /\ main \in {"lock", "trylock", "unlock1", "unlock2", "create1"} =>
          \A t \in Thread : pc[t] = "none"
    /\ main = "create2" => pc[2] = "none"
    /\ main = "destroyed" => \A t \in Thread : pc[t] = "done"

(* The counter is the sum of the loops' progress; a store not yet unlocked  *)
(* is one iteration ahead of its loop variable.                             *)
Stored(t) == IF pc[t] = "unlock" THEN 1 ELSE 0
Counted ==
    /\ counter = i[1] + i[2] + Stored(1) + Stored(2)
    /\ \A t \in Thread : pc[t] = "store" => reg[t] = counter
    /\ \A t \in Thread : Critical(t) => i[t] < Max
    /\ \A t \in Thread : pc[t] = "done" => i[t] = Max

IInv == TypeOK /\ Ownership /\ Counted /\ FinalCount

(* Init establishes the invariant.                                          *)
LEMMA InitInv == Init => IInv
<1> USE MaxAssumption, RecursiveAssumption DEF Init, Thread
<1>1. Init => TypeOK
  BY DEF TypeOK
<1>2. Init => Ownership /\ Counted /\ FinalCount
  BY DEF Ownership, Counted, Stored, Critical, FinalCount, MainId
<1> QED BY <1>1, <1>2 DEF IInv

(* Every step of main and of the two threads preserves it.                  *)
LEMMA NextInv == IInv /\ [Next]_vars => IInv'
<1> SUFFICES ASSUME IInv, [Next]_vars PROVE IInv'
  OBVIOUS
<1> USE MaxAssumption
    DEF IInv, TypeOK, Ownership, Counted, Stored, Critical, FinalCount, Thread,
        MainId, Goto, MainGoto
<1>1. ASSUME NEW t \in Thread, Lock(t) PROVE IInv'
  BY <1>1 DEF Lock, Acquire
<1>2. ASSUME NEW t \in Thread, Load(t) PROVE IInv'
  BY <1>2 DEF Load
<1>3. ASSUME NEW t \in Thread, Store(t) PROVE IInv'
  BY <1>3 DEF Store
<1>4. ASSUME NEW t \in Thread, Unlock(t) PROVE IInv'
  BY <1>4 DEF Unlock, Release
<1>5. ASSUME NEW t \in Thread, Return(t) PROVE IInv'
  BY <1>5 DEF Return
<1>6. CASE MainLocks
  BY <1>6 DEF MainLocks, Acquire
<1>7. CASE MainUnlocks
  BY <1>7 DEF MainUnlocks, Release
<1>8. ASSUME NEW t \in Thread, Create(t) PROVE IInv'
  BY <1>8 DEF Create
<1>9. CASE Join
  BY <1>9 DEF Join
<1>10. CASE UNCHANGED vars
  BY <1>10 DEF vars
<1> QED
  BY <1>1, <1>2, <1>3, <1>4, <1>5, <1>6, <1>7, <1>8, <1>9, <1>10
  DEF Next, Main, Func

(* IInv is an invariant of the program.                                     *)
LEMMA Invariance == Spec => []IInv
BY InitInv, NextInv, PTL DEF Spec

(* Every variable keeps its type; the mutex is never locked more than twice. *)
THEOREM TypeCorrect == Spec => []TypeOK
BY Invariance, PTL DEF IInv

(* The program prints twice maxTestNumber, for every maxTestNumber.         *)
THEOREM CountIsExact == Spec => []FinalCount
BY Invariance, PTL DEF IInv

(* The lock is destroyed only when it is free and every thread has ended.   *)
THEOREM NoUseAfterDestroy == Spec => []DestroyedIdle
<1>1. IInv => DestroyedIdle
  BY DEF IInv, TypeOK, Ownership, DestroyedIdle, Critical, Thread, MainId
<1> QED BY <1>1, Invariance, PTL

(* The abstract lock's holders, as a function of the state.                 *)
Inside == {t \in Thread : Critical(t)}
holderBar == [r \in {"lock"} |-> Inside]

(* Every step takes the lock when nobody is inside, gives it back, or leaves *)
(* the abstract lock alone.                                                  *)
LEMMA StepRefines == IInv /\ [Next]_vars => [Excl!Next]_holderBar
<1> SUFFICES ASSUME IInv, [Next]_vars PROVE [Excl!Next]_holderBar
  OBVIOUS
<1> USE DEF Inside, Critical, Thread, Goto, IInv, TypeOK, Ownership
<1>1. ASSUME NEW t \in Thread, Lock(t) PROVE Excl!Next
  <2>1. Inside = {} /\ Inside' = {t}
    BY <1>1 DEF Lock, Acquire
  <2>2. Excl!Acquire(t, "lock")
    BY <2>1 DEF Excl!Acquire
  <2> QED BY <2>2 DEF Excl!Next
<1>2. ASSUME NEW t \in Thread, Unlock(t) PROVE Excl!Next
  <2>1. Inside = {t} /\ Inside' = {}
    BY <1>2 DEF Unlock
  <2>2. Excl!Release(t, "lock")
    BY <2>1 DEF Excl!Release
  <2> QED BY <2>2 DEF Excl!Next
<1>3. ASSUME NEW t \in Thread, Load(t) \/ Store(t) \/ Return(t) PROVE Inside' = Inside
  BY <1>3 DEF Load, Store, Return
<1>4. ASSUME NEW t \in Thread, Create(t) PROVE Inside' = Inside
  BY <1>4 DEF Create
<1>5. ASSUME MainLocks \/ MainUnlocks \/ Join \/ UNCHANGED vars PROVE Inside' = Inside
  BY <1>5 DEF MainLocks, MainUnlocks, Join, vars
<1>6. Inside' = Inside => holderBar' = holderBar
  BY DEF holderBar
<1> QED
  BY <1>1, <1>2, <1>3, <1>4, <1>5, <1>6 DEF Next, Main, Func, holderBar

(* The loop body of _func is a critical section, under the recursive mutex   *)
(* and under the spin lock: the program implements the abstract lock.        *)
THEOREM Exclusive == Spec => IsExclusive
<1>1. Init => Excl!Init
  BY DEF Init, Excl!Init, Critical, Thread
<1>2. IInv /\ [Next]_vars => [Excl!Next]_holderBar
  BY StepRefines
<1> QED
  BY <1>1, <1>2, Invariance, PTL DEF Spec, IsExclusive, Excl!Spec, holderBar, Inside
-----------------------------------------------------------------------------
(* The rw-lock program.                                                     *)
RwInside(w) == rwPc[w] \in {"load", "store", "unlock"}
RwStored(w) == IF rwPc[w] = "unlock" THEN 1 ELSE 0

RwTypes ==
    /\ rwCounter \in Nat /\ writer \in Rw!Writer \cup {"none"}
    /\ rwPc \in [Rw!Thread -> {"lock", "load", "store", "unlock", "look", "done"}]
    /\ rwI \in [Rw!Writer -> 0..Max] /\ rwReg \in [Rw!Writer -> Nat]
    /\ rwPrinted \in Int

(* The writer inside has the lock; the counter is the sum of the writers'   *)
(* progress; a reader that has left has seen all of it.                     *)
RwShares ==
    /\ \A w \in Rw!Writer : /\ RwInside(w) <=> writer = w
                            /\ RwInside(w) => rwI[w] < Max
                            /\ rwPc[w] = "store" => rwReg[w] = rwCounter
                            /\ rwPc[w] = "done" => rwI[w] = Max
    /\ rwCounter = rwI["thread1"] + rwI["thread3"] + RwStored("thread1") + RwStored("thread3")
    /\ \A r \in Rw!Reader : rwPc[r] = "done" => rwCounter = 2 * Max
    /\ rwPrinted # -1 => rwPrinted = 2 * Max

RwInv == RwTypes /\ RwShares

LEMMA RwInitInv == Rw!Init => RwInv
BY MaxAssumption
DEF Rw!Init, Rw!Writer, Rw!Reader, Rw!Thread, RwInv, RwTypes, RwShares, RwInside, RwStored

(* Every step of the writers, the readers and main preserves it.  A writer   *)
(* that stores is below its share, so that no reader has left yet.           *)
LEMMA RwNextInv == RwInv /\ [Rw!Next]_rwVars => RwInv'
<1> SUFFICES ASSUME RwInv, [Rw!Next]_rwVars PROVE RwInv'
  OBVIOUS
<1> USE MaxAssumption
    DEF RwInv, RwTypes, RwShares, RwInside, RwStored, Rw!Writer, Rw!Reader, Rw!Thread, Rw!Goto
<1>1. ASSUME NEW t \in Rw!Writer, Rw!WrLock(t) PROVE RwInv'
  BY <1>1 DEF Rw!WrLock
<1>2. ASSUME NEW t \in Rw!Writer, Rw!Load(t) PROVE RwInv'
  BY <1>2 DEF Rw!Load
<1>3. ASSUME NEW t \in Rw!Writer, Rw!Store(t) PROVE RwInv'
  BY <1>3 DEF Rw!Store
<1>4. ASSUME NEW t \in Rw!Writer, Rw!WrUnlock(t) PROVE RwInv'
  BY <1>4 DEF Rw!WrUnlock
<1>5. ASSUME NEW t \in Rw!Writer, Rw!WriterDone(t) PROVE RwInv'
  BY <1>5 DEF Rw!WriterDone
<1>6. ASSUME NEW t \in Rw!Reader, Rw!RdLock(t) PROVE RwInv'
  BY <1>6 DEF Rw!RdLock
<1>7. ASSUME NEW t \in Rw!Reader, Rw!RdUnlock(t) PROVE RwInv'
  BY <1>7 DEF Rw!RdUnlock
<1>8. ASSUME NEW t \in Rw!Reader, Rw!Look(t) PROVE RwInv'
  BY <1>8 DEF Rw!Look
<1>9. CASE Rw!Join
  BY <1>9 DEF Rw!Join
<1>10. ASSUME NEW n \in 1..4, Rw!Create(n) PROVE RwInv'
  BY <1>10 DEF Rw!Create
<1>11. CASE UNCHANGED rwVars
  BY <1>11 DEF rwVars
<1> QED
  BY <1>1, <1>2, <1>3, <1>4, <1>5, <1>6, <1>7, <1>8, <1>9, <1>10, <1>11
  DEF Rw!Next, Rw!Main, Rw!Write, Rw!Read

(* The unlocked test for equality of _readFunc lets no reader leave before   *)
(* both writers are past their last counter++, and main prints the full      *)
(* count, for every maxTestNumber.                                           *)
THEOREM ReadersLeaveLast == Rw!Spec => []RwReaderLeavesLast
<1>1. RwInv => RwReaderLeavesLast
  BY MaxAssumption
  DEF RwInv, RwTypes, RwShares, RwInside, RwStored, Rw!Writer, Rw!Reader, Rw!Thread,
      RwReaderLeavesLast, Rw!ReaderLeavesLast
<1> QED BY <1>1, RwInitInv, RwNextInv, PTL DEF Rw!Spec, Rw!vars, rwVars
-----------------------------------------------------------------------------
(* ThreadCancel: a request that comes in time finds a sleep to end.          *)
CancelInv ==
    /\ state \in {"enable", "disable"} /\ turn \in Nat
    /\ func \in {"settype", "for", "sleep", "cancelled", "returned"}
    /\ state = "disable" => turn = 0
    /\ func = "settype" => turn = 0
    /\ inTime /\ Sleeps > 1 => asked /\ func # "returned" /\ turn < Sleeps
    /\ mainAt = "done" => threadRet = func /\ func \in Over

(* A request before the end of the last sleep is never lost.                 *)
THEOREM RequestKept == CancelSpec => []CancelKept
<1> USE SleepsAssumption DEF CancelInv, Over
<1>1. CancelInit => CancelInv
  <2>1. CancelInit => ~inTime
    BY Zenon DEF CancelInit
  <2> QED BY <2>1 DEF CancelInit
<1>2. CancelInv /\ [CancelNext]_cancelVars => CancelInv'
  <2> SUFFICES ASSUME CancelInv, [CancelNext]_cancelVars PROVE CancelInv'
    OBVIOUS
  <2>1. CASE SetDisable
    BY <2>1 DEF SetDisable
  <2>2. CASE For
    BY <2>2 DEF For
  <2>3. CASE Slept
    BY <2>3 DEF Slept
  <2>4. CASE Cancelled
    BY <2>4 DEF Cancelled
  <2>5. CASE Cancel
    <3>1. CASE asked' = TRUE /\ inTime' = (func \notin Over /\ turn < Sleeps) /\ mainAt' = "join"
      <4>1. asked' /\ (inTime' => func \notin Over /\ turn < Sleeps)
        BY <3>1, Zenon
      <4> QED BY <2>5, <3>1, <4>1 DEF Cancel
    <3>2. CASE UNCHANGED <<asked, inTime>> /\ mainAt' = "failed"
      BY <2>5, <3>2 DEF Cancel
    <3> QED BY <2>5, <3>1, <3>2 DEF Cancel
  <2>6. CASE JoinThread
    BY <2>6 DEF JoinThread
  <2>7. CASE UNCHANGED cancelVars
    BY <2>7 DEF cancelVars
  <2> QED BY <2>1, <2>2, <2>3, <2>4, <2>5, <2>6, <2>7
          DEF CancelNext, CancelFunc, CancelMain
<1>3. CancelInv => CancelKept
  BY DEF CancelKept
<1> QED BY <1>1, <1>2, <1>3, PTL DEF CancelSpec
=============================================================================
