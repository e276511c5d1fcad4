----------------------------- MODULE CondQueue -----------------------------
(***************************************************************************)
(* src/thread/cond/main.c: a producer adds to a counter under a mutex and  *)
(* signals after unlocking; a consumer waits on the condition variable     *)
(* while the counter is 0, drains it, and leaves when it sees producerExit *)
(* (set without the mutex and without a signal) and an empty counter (read *)
(* without the mutex).  The two sleep() calls are modelled with the        *)
(* seconds they have left; Tick is one second.                             *)
(***************************************************************************)
EXTENDS Integers

CONSTANTS Max,             \* maxTestNumber
          ProducerSleep,   \* sleep(2)
          ConsumerSleep,   \* sleep(3)
          MaxSpurious      \* bound: spurious wake-ups

ASSUME MaxAssumption == Max \in Nat
ASSUME SleepAssumption == ProducerSleep \in Nat /\ ConsumerSleep \in Nat
ASSUME BoundAssumption == MaxSpurious \in Nat

VARIABLES counter, producerExit,
          mutex,       \* the thread that holds it, or "free"
          pc,          \* where each thread is
          i,           \* items produced
          consumed,    \* items taken out
          left,        \* seconds each sleeping thread has left
          printed,     \* the counter main prints after both joins, -1 before
          spurious,
          prompt       \* the scheduler: no second passes while a thread can run

vars == <<counter, producerExit, mutex, pc, i, consumed, left, printed, spurious, prompt>>

Thread == {"producer", "consumer"}
Places == {"lock", "add", "signal", "check", "wait", "relock", "drain",
           "exit?", "empty?", "sleep", "done"}

Init == /\ counter = 0 /\ producerExit = FALSE /\ mutex = "free"
        /\ pc = [t \in Thread |-> "lock"]
        /\ i = 0 /\ consumed = 0
        /\ left = [t \in Thread |-> 0]
        /\ printed = -1 /\ spurious = 0
        /\ prompt \in BOOLEAN

Goto(t, from, to) == pc[t] = from /\ pc' = [pc EXCEPT ![t] = to]
Lock(t, from, to) ==
    /\ mutex = "free" /\ mutex' = t
    /\ Goto(t, from, to)
    /\ UNCHANGED <<counter, producerExit, i, consumed, left, printed, spurious, prompt>>
Sleep(t, from, seconds) ==
    /\ Goto(t, from, "sleep")
    /\ left' = [left EXCEPT ![t] = seconds]
Wake(t) ==
    /\ left[t] = 0 /\ Goto(t, "sleep", "lock")
    /\ UNCHANGED <<counter, producerExit, mutex, i, consumed, left, printed, spurious, prompt>>
-----------------------------------------------------------------------------
(* _productFunc *)
ProducerLock == i < Max /\ Lock("producer", "lock", "add")

Add == /\ Goto("producer", "add", "signal")
       /\ counter' = counter + 1 /\ i' = i + 1
       /\ mutex' = "free"
       /\ UNCHANGED <<producerExit, consumed, left, printed, spurious, prompt>>

Signal ==
    /\ pc["producer"] = "signal"
    /\ pc' = [pc EXCEPT !["producer"] = "sleep",
                        !["consumer"] = IF @ = "wait" THEN "relock" ELSE @]
    /\ left' = [left EXCEPT !["producer"] = ProducerSleep]
    /\ UNCHANGED <<counter, producerExit, mutex, i, consumed, printed, spurious, prompt>>

ProducerExit ==
    /\ i = Max /\ Goto("producer", "lock", "done")
    /\ producerExit' = TRUE
    /\ UNCHANGED <<counter, mutex, i, consumed, left, printed, spurious, prompt>>

\* Mutants: the signal is sent first, before the counter is incremented.
SignalFirst ==
    /\ i < Max /\ pc["producer"] = "lock"
    /\ pc' = [pc EXCEPT !["producer"] = "signal",
                        !["consumer"] = IF @ = "wait" THEN "relock" ELSE @]
    /\ UNCHANGED <<counter, producerExit, mutex, i, consumed, left, printed, spurious, prompt>>
AddAfterSignal ==
    /\ Sleep("producer", "add", ProducerSleep)
    /\ counter' = counter + 1 /\ i' = i + 1
    /\ mutex' = "free"
    /\ UNCHANGED <<producerExit, consumed, printed, spurious, prompt>>
ProducerSignalsFirst == \/ SignalFirst \/ Lock("producer", "signal", "add")
                        \/ AddAfterSignal \/ Wake("producer") \/ ProducerExit

Producer == ProducerLock \/ Add \/ Signal \/ Wake("producer") \/ ProducerExit
-----------------------------------------------------------------------------
(* _customerFunc *)
ConsumerLock == Lock("consumer", "lock", "check")
Relock == Lock("consumer", "relock", "check")

Check ==
    /\ \/ /\ counter = 0 /\ ~producerExit
          /\ Goto("consumer", "check", "wait")
          /\ mutex' = "free"
       \/ /\ counter > 0 \/ producerExit
          /\ Goto("consumer", "check", "drain")
          /\ UNCHANGED mutex
    /\ UNCHANGED <<counter, producerExit, i, consumed, left, printed, spurious, prompt>>

Drain == /\ Goto("consumer", "drain", "exit?")
         /\ counter' = 0 /\ consumed' = consumed + counter
         /\ mutex' = "free"
         /\ UNCHANGED <<producerExit, i, left, printed, spurious, prompt>>

\* Mutant: the consumer does not sleep before it looks again.
ReadExitNoSleep ==
    /\ \/ producerExit /\ Goto("consumer", "exit?", "empty?")
       \/ ~producerExit /\ Goto("consumer", "exit?", "lock")
    /\ UNCHANGED <<counter, producerExit, mutex, i, consumed, left, printed, spurious, prompt>>
\* Mutants: the counter is looked at first, the exit flag second.
ReadCounterFirst ==
    /\ \/ counter = 0 /\ Goto("consumer", "exit?", "empty?") /\ UNCHANGED left
       \/ counter # 0 /\ Sleep("consumer", "exit?", ConsumerSleep)
    /\ UNCHANGED <<counter, producerExit, mutex, i, consumed, printed, spurious, prompt>>
ReadExitLast ==
    /\ \/ producerExit /\ Goto("consumer", "empty?", "done") /\ UNCHANGED left
       \/ ~producerExit /\ Sleep("consumer", "empty?", ConsumerSleep)
    /\ UNCHANGED <<counter, producerExit, mutex, i, consumed, printed, spurious, prompt>>
ReadExit ==
    /\ \/ producerExit /\ Goto("consumer", "exit?", "empty?") /\ UNCHANGED left
       \/ ~producerExit /\ Sleep("consumer", "exit?", ConsumerSleep)
    /\ UNCHANGED <<counter, producerExit, mutex, i, consumed, printed, spurious, prompt>>

ReadCounter ==
    /\ \/ counter = 0 /\ Goto("consumer", "empty?", "done") /\ UNCHANGED left
       \/ counter # 0 /\ Sleep("consumer", "empty?", ConsumerSleep)
    /\ UNCHANGED <<counter, producerExit, mutex, i, consumed, printed, spurious, prompt>>

ConsumerSwapped == \/ ConsumerLock \/ Relock \/ Check \/ Drain \/ ReadCounterFirst
                   \/ ReadExitLast \/ Wake("consumer")
Consumer == \/ ConsumerLock \/ Relock \/ Check \/ Drain \/ ReadExit \/ ReadCounter
            \/ Wake("consumer")
-----------------------------------------------------------------------------
(* main: both joins, then the last line of output.                          *)
Join == /\ \A t \in Thread : pc[t] = "done"
        /\ printed = -1 /\ printed' = counter
        /\ UNCHANGED <<counter, producerExit, mutex, pc, i, consumed, left, spurious, prompt>>

SpuriousWakeup ==
    /\ spurious < MaxSpurious /\ spurious' = spurious + 1
    /\ Goto("consumer", "wait", "relock")
    /\ UNCHANGED <<counter, producerExit, mutex, i, consumed, left, printed, prompt>>

Asleep(t) == pc[t] = "sleep" /\ left[t] > 0
Tick == /\ \E t \in Thread : Asleep(t)
        /\ prompt => \A t \in Thread : Asleep(t) \/ pc[t] \in {"wait", "done"}
        /\ left' = [t \in Thread |-> IF Asleep(t) THEN left[t] - 1 ELSE left[t]]
        /\ UNCHANGED <<counter, producerExit, mutex, pc, i, consumed, printed, spurious, prompt>>

Next == Producer \/ Consumer \/ Join \/ SpuriousWakeup \/ Tick
Spec == Init /\ [][Next]_vars
FairSpec == /\ Spec /\ WF_vars(Producer) /\ WF_vars(Consumer)
            /\ WF_vars(Join) /\ WF_vars(Tick)
-----------------------------------------------------------------------------
TypeOK == /\ counter \in 0..Max /\ i \in 0..Max /\ consumed \in 0..Max
          /\ producerExit \in BOOLEAN
          /\ mutex \in Thread \cup {"free"}
          /\ pc \in [Thread -> Places]
          /\ left \in [Thread -> Nat]
          /\ printed \in {-1} \cup 0..Max
          /\ spurious \in 0..MaxSpurious
          /\ prompt \in BOOLEAN

(* The signal is sent after the unlock (main.c:64-66).  Still, a consumer   *)
(* asleep beside a non-empty counter is about to be signalled.              *)
NoLostWakeup == pc["consumer"] = "wait" /\ counter > 0 => pc["producer"] = "signal"

(* producerExit and counter are read without the mutex (main.c:44), in this *)
(* order.  When both tests pass nothing is left behind: every item was      *)
(* consumed, and the "counter is" line of main prints 0.                    *)
DoneMeansDrained ==
    /\ pc["consumer"] = "done" => consumed = Max /\ counter = 0
    /\ printed # -1 => printed = 0

(* The consumer is never woken by producerExit itself (main.c:76-77): main   *)
(* returns because the consumer sleeps longer than the producer, provided    *)
(* the threads run when they can.  Otherwise the one way not to return is    *)
(* to wait for a signal after the producer's last one.                       *)
Stranded == pc["consumer"] = "wait" /\ pc["producer"] = "done" /\ counter = 0
Terminates == <>(printed # -1 \/ (Stranded /\ ~prompt))
=============================================================================
