-------------------------- MODULE CondQueueProofs --------------------------
(***************************************************************************)
(* Proofs about CondQueue, for any number of items, any two sleeping times *)
(* and any scheduling of the two threads.                                  *)
(***************************************************************************)
EXTENDS CondQueue, TLAPS

(* Nothing is lost or made up, and what the consumer has seen stays true:   *)
(* after producerExit no item is added any more.                            *)
Accounts ==
    /\ counter + consumed = i
    /\ pc["producer"] = "add" => i < Max
    /\ pc["producer"] = "done" => i = Max
    /\ producerExit <=> pc["producer"] = "done"
    /\ pc["consumer"] \in {"empty?", "done"} => producerExit
    /\ pc["consumer"] = "done" => counter = 0
    /\ printed # -1 => printed = 0
    /\ pc["producer"] \in {"lock", "add", "signal", "sleep", "done"}
    /\ pc["consumer"] \notin {"add", "signal"}

IInv == TypeOK /\ Accounts /\ NoLostWakeup

(* Init establishes the invariant.                                          *)
LEMMA InitInv == Init => IInv
<1> USE MaxAssumption, BoundAssumption DEF Init, Thread, Places
<1>1. Init => TypeOK
  <2>1. Init => producerExit \in BOOLEAN /\ prompt \in BOOLEAN
    BY Zenon
  <2>2. Init => left \in [Thread -> Nat] /\ pc \in [Thread -> Places]
    OBVIOUS
  <2> QED BY <2>1, <2>2 DEF TypeOK
<1>2. Init => Accounts /\ NoLostWakeup
  BY DEF Accounts, NoLostWakeup
<1> QED BY <1>1, <1>2 DEF IInv

(* Every step of either thread, of main and of the clock preserves it.      *)
LEMMA NextInv == IInv /\ [Next]_vars => IInv'
<1> SUFFICES ASSUME IInv, [Next]_vars PROVE IInv'
  OBVIOUS
<1> USE MaxAssumption, SleepAssumption, BoundAssumption
    DEF IInv, TypeOK, Accounts, NoLostWakeup, Thread, Places, Goto, Lock, Sleep
<1>1. CASE ProducerLock
  BY <1>1 DEF ProducerLock
<1>2. CASE Add
  BY <1>2 DEF Add
<1>3. CASE Signal
  BY <1>3 DEF Signal
<1>4. CASE ProducerExit
  BY <1>4 DEF ProducerExit
<1>5. ASSUME NEW t \in Thread, Wake(t) PROVE IInv'
  BY <1>5 DEF Wake
<1>6. CASE ConsumerLock \/ Relock
  BY <1>6 DEF ConsumerLock, Relock
<1>7. CASE Check
  BY <1>7 DEF Check
<1>8. CASE Drain
  BY <1>8 DEF Drain
<1>9. CASE ReadExit
  BY <1>9 DEF ReadExit
<1>10. CASE ReadCounter
  BY <1>10 DEF ReadCounter
<1>11. CASE Join
  BY <1>11 DEF Join
<1>12. CASE SpuriousWakeup
  BY <1>12 DEF SpuriousWakeup
<1>13. CASE Tick
  BY <1>13 DEF Tick, Asleep
<1>14. CASE UNCHANGED vars
  BY <1>14 DEF vars
<1> QED
  BY <1>1, <1>2, <1>3, <1>4, <1>5, <1>6, <1>7, <1>8, <1>9, <1>10, <1>11,
     <1>12, <1>13, <1>14 DEF Next, Producer, Consumer

(* IInv is an invariant of the program.                                     *)
LEMMA Invariance == Spec => []IInv
BY InitInv, NextInv, PTL DEF Spec

(* Every variable keeps its type; the counter never exceeds maxTestNumber.  *)
THEOREM TypeCorrect == Spec => []TypeOK
BY Invariance, PTL DEF IInv

(* Signalling after the unlock (main.c:64-66) loses no wake-up.             *)
THEOREM NoWakeupLost == Spec => []NoLostWakeup
BY Invariance, PTL DEF IInv

(* The unlocked test of main.c:44 never lets the consumer leave early.      *)
THEOREM Drained == Spec => []DoneMeansDrained
<1>1. IInv => DoneMeansDrained
  BY MaxAssumption DEF IInv, TypeOK, Accounts, DoneMeansDrained
<1> QED BY <1>1, Invariance, PTL
=============================================================================
