--------------------------- MODULE SysVSemProofs ---------------------------
(***************************************************************************)
(* Proofs about SysVSem, for any number of processes, killed at any point, *)
(* and any number of polls.                                                *)
(***************************************************************************)
EXTENDS SysVSem, TLAPS

(* Before the creator's semop: one creator at most, no unit yet.            *)
Building ==
    /\ \A p \in Proc : pc[p] \in {"setval", "init", "get", "stat"} => exists
    /\ \A p \in Proc : pc[p] \in {"setval", "init"} => ~otime
    /\ \A p, q \in Proc : {pc[p], pc[q]} \subseteq {"setval", "init"} => p = q
    /\ ~otime => sval = 0
    /\ otime => exists

(* A holder, and nobody else, has an adjustment of 1.                       *)
Adjusted == \A p \in Proc : adj[p] = IF Holds(p) THEN 1 ELSE 0

Polling == \A p \in Proc : /\ pc[p] \in {"semget", "get"} => j[p] = 0
                           /\ pc[p] = "stat" => j[p] < Polls

IInv == TypeOK /\ Building /\ Adjusted /\ Polling
          /\ UsedInitialised /\ UnitConserved /\ TryMatchesLog

(* Init establishes the invariant.                                          *)
LEMMA InitInv == Init => IInv
<1> USE PollsAssumption DEF Init, Opening, Using, Holding, Ended
<1>1. Init => TypeOK
  <2>1. Init => exists \in BOOLEAN /\ otime \in BOOLEAN
    BY Zenon
  <2> QED BY <2>1 DEF TypeOK
<1>2. Init => Building /\ Adjusted /\ Polling
  BY DEF Building, Adjusted, Polling, Holds
<1>3. Init => UsedInitialised /\ UnitConserved /\ TryMatchesLog
  BY DEF UsedInitialised, UnitConserved, TryMatchesLog
<1> QED BY <1>1, <1>2, <1>3 DEF IInv

(* Every step of a process and every death preserves it.                    *)
LEMMA NextInv == IInv /\ [Next]_vars => IInv'
<1> SUFFICES ASSUME IInv, [Next]_vars PROVE IInv'
  OBVIOUS
<1> USE PollsAssumption
    DEF IInv, TypeOK, Building, Adjusted, Holds, Opening, Using, Holding, Ended, Goto
<1>1. ASSUME NEW p \in Proc, SemgetExcl(p) PROVE IInv'
  <2> exists' \in BOOLEAN
    BY <1>1, Zenon DEF SemgetExcl
  <2>1. TypeOK' /\ Building' /\ Adjusted'
    BY <1>1 DEF SemgetExcl, Polling, UsedInitialised, UnitConserved
  <2>2. Polling' /\ UsedInitialised' /\ UnitConserved'
    BY <1>1 DEF SemgetExcl, Polling, UsedInitialised, UnitConserved
  <2>3. TryMatchesLog'
    BY <1>1 DEF SemgetExcl, UnitConserved, UsedInitialised, TryMatchesLog
  <2> QED BY <2>1, <2>2, <2>3
<1>2. ASSUME NEW p \in Proc, SetVal(p) PROVE IInv'
  BY <1>2 DEF SetVal, Polling, UsedInitialised, UnitConserved, TryMatchesLog
<1>3. ASSUME NEW p \in Proc, InitOp(p) PROVE IInv'
  BY <1>3 DEF InitOp, Polling, UsedInitialised, UnitConserved, TryMatchesLog
<1>4. ASSUME NEW p \in Proc, SemgetOpen(p) PROVE IInv'
  BY <1>4 DEF SemgetOpen, Polling, UsedInitialised, UnitConserved, TryMatchesLog
<1>5. ASSUME NEW p \in Proc, Stat(p) PROVE IInv'
  <2> j' \in [Proc -> 0..Polls]
    BY <1>5 DEF Stat, Polling
  <2>1. TypeOK' /\ Building' /\ Adjusted'
    BY <1>5 DEF Stat, Polling, UsedInitialised, UnitConserved
  <2>2. Polling' /\ UsedInitialised' /\ UnitConserved'
    BY <1>5 DEF Stat, Polling, UsedInitialised, UnitConserved
  <2>3. TryMatchesLog'
    BY <1>5 DEF Stat, UnitConserved, UsedInitialised, TryMatchesLog
  <2> QED BY <2>1, <2>2, <2>3
<1>6. ASSUME NEW p \in Proc, SemWait(p) PROVE IInv'
  BY <1>6 DEF SemWait, Take, Polling, UsedInitialised, UnitConserved, TryMatchesLog
<1>7. ASSUME NEW p \in Proc, SemPost(p) PROVE IInv'
  BY <1>7 DEF SemPost, Polling, UsedInitialised, UnitConserved, TryMatchesLog
<1>8. ASSUME NEW p \in Proc, SemWaitAgain(p) PROVE IInv'
  BY <1>8 DEF SemWaitAgain, Take, Polling, UsedInitialised, UnitConserved, TryMatchesLog
<1>9. ASSUME NEW p \in Proc, TrySemWait(p) PROVE IInv'
  BY <1>9 DEF TrySemWait, Polling, UsedInitialised, UnitConserved, TryMatchesLog
<1>10. ASSUME NEW p \in Proc, Exit(p) PROVE IInv'
  BY <1>10 DEF Exit, Undo, Polling, UsedInitialised, UnitConserved, TryMatchesLog
<1>11. ASSUME NEW p \in Proc, Kill(p) PROVE IInv'
  BY <1>11 DEF Kill, Undo, Polling, UsedInitialised, UnitConserved, TryMatchesLog
<1>12. CASE UNCHANGED vars
  BY <1>12 DEF vars, Polling, UsedInitialised, UnitConserved, TryMatchesLog
<1> QED
  BY <1>1, <1>2, <1>3, <1>4, <1>5, <1>6, <1>7, <1>8, <1>9, <1>10, <1>11, <1>12
  DEF Next, Run

(* IInv is an invariant of the program.                                     *)
LEMMA Invariance == Spec => []IInv
BY InitInv, NextInv, PTL DEF Spec

(* Every variable keeps its type; in particular no SEM_UNDO adjustment ever *)
(* takes the value below 0 or above 1.                                      *)
THEOREM TypeCorrect == Spec => []TypeOK
BY Invariance, PTL DEF IInv

(* The sem_otime protocol (main.c:69-90) keeps everybody out until the      *)
(* creator's semop.                                                         *)
THEOREM NeverUsedEarly == Spec => []UsedInitialised
BY Invariance, PTL DEF IInv

(* Under SEM_UNDO no death loses the unit and none duplicates it.           *)
THEOREM UnitKept == Spec => []UnitConserved
BY Invariance, PTL DEF IInv

(* The two thresholds of _trySemWait (main.c:143-144) never disagree here.  *)
THEOREM TryLogTrue == Spec => []TryMatchesLog
BY Invariance, PTL DEF IInv
-----------------------------------------------------------------------------
holderBar == [r \in {"set"} |-> {p \in Proc : Holds(p)}]

(* Every step acquires the set, releases it, or leaves its holder alone.    *)
LEMMA StepRefines == IInv /\ [Next]_vars => [Excl!Next]_holderBar
<1> SUFFICES ASSUME IInv, [Next]_vars PROVE [Excl!Next]_holderBar
  OBVIOUS
<1> USE DEF IInv, TypeOK, Holding, Goto
<1> DEFINE H == {p \in Proc : Holds(p)}
<1>1. ASSUME H' = H PROVE UNCHANGED holderBar
  BY <1>1 DEF holderBar
<1>2. ASSUME NEW p \in Proc, H = {}, H' = {p} PROVE Excl!Next
  <2>1. Excl!Acquire(p, "set")
    BY <1>2 DEF Excl!Acquire
  <2> QED BY <2>1 DEF Excl!Next
<1>3. ASSUME NEW p \in Proc, H = {p}, H' = {} PROVE Excl!Next
  <2>1. Excl!Release(p, "set")
    BY <1>3 DEF Excl!Release
  <2> QED BY <2>1 DEF Excl!Next
<1> HIDE DEF H
<1>4. ASSUME NEW p \in Proc, Take(p, "wait", "post") \/ Take(p, "wait2", "try")
      PROVE  Excl!Next
  <2>1. H = {} /\ H' = {p}
    BY <1>4 DEF Take, UnitConserved, UsedInitialised, Using, Holds, H
  <2> QED BY <1>2, <2>1
<1>5. ASSUME NEW p \in Proc, SemPost(p) \/ Exit(p) PROVE Excl!Next
  <2>1. H = {p} /\ H' = {}
    BY <1>5 DEF SemPost, Exit, Undo, UnitConserved, UsedInitialised, Using, Holds, H
  <2> QED BY <1>3, <2>1
<1>6. ASSUME NEW p \in Proc, Kill(p) PROVE [Excl!Next]_holderBar
  <2>1. CASE Holds(p)
    <3>1. H = {p} /\ H' = {}
      BY <1>6, <2>1 DEF Kill, Undo, UnitConserved, UsedInitialised, Using, Holds, H
    <3> QED BY <1>3, <3>1
  <2>2. CASE ~Holds(p)
    <3>1. H' = H
      BY <1>6, <2>2 DEF Kill, Undo, Holds, H
    <3> QED BY <1>1, <3>1
  <2> QED BY <2>1, <2>2
<1>7. ASSUME NEW p \in Proc,
             \/ SemgetExcl(p) \/ SetVal(p) \/ InitOp(p)
             \/ SemgetOpen(p) \/ Stat(p) \/ TrySemWait(p)
      PROVE  UNCHANGED holderBar
  <2>1. H' = H
    BY <1>7 DEF SemgetExcl, SetVal, InitOp, SemgetOpen, Stat, TrySemWait, Holds, H
  <2> QED BY <1>1, <2>1
<1>8. CASE UNCHANGED vars
  <2>1. H' = H
    BY <1>8 DEF vars, Holds, H
  <2> QED BY <1>1, <2>1
<1> QED
  BY <1>4, <1>5, <1>6, <1>7, <1>8 DEF Next, Run, SemWait, SemWaitAgain

(* _semWait, _semPost and SEM_UNDO implement a mutual exclusion lock, for   *)
(* any number of processes killed at any point.                             *)
THEOREM Exclusive == Spec => IsExclusive
<1>1. Init => Excl!Init
  BY DEF Init, Excl!Init, Holds, Holding
<1>2. IInv /\ [Next]_vars => [Excl!Next]_holderBar
  BY StepRefines
<1> QED
  BY <1>1, <1>2, Invariance, PTL DEF Spec, IsExclusive, Excl!Spec, holderBar
=============================================================================
