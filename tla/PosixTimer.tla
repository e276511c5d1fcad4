----------------------------- MODULE PosixTimer -----------------------------
(***************************************************************************)
(* src/timer/posix: a SIGEV_THREAD timer.  Each expiry that glibc's helper *)
(* thread collects starts one more thread in _timerCallback, which works   *)
(* for g_callbackCostTime seconds and then increments g_callbackCount      *)
(* without a lock (a load and a store); main polls the count every second  *)
(* and deletes the timer when it has reached g_maxCallbackCount.           *)
(***************************************************************************)
EXTENDS Integers, FiniteSets

CONSTANTS TimerValueSec, TimerIntervalSec, CallbackCostTime, MaxCallbackCount,
          MaxThreads      \* bound: callback threads

ASSUME TimesAssumption ==
    /\ {TimerValueSec, TimerIntervalSec, MaxCallbackCount} \subseteq Nat \ {0}
    /\ CallbackCostTime \in Nat /\ MaxThreads \in Nat

VARIABLES callbackCount,  \* g_callbackCount
          due,            \* seconds to the next expiry, -1: timer not armed
          pending,        \* an expiry the helper thread has not collected
          cb,             \* cb[k]: where the k-th callback thread is
          left,           \* left[k]: seconds it still sleeps
          reg,            \* reg[k]: the count it has loaded
          main, nap,      \* where main is, and seconds it still sleeps
          prompt          \* the scheduler: no second passes while a thread can run

ptVars == <<callbackCount, due, pending, cb, left, reg, main, nap, prompt>>
Callback == 1..MaxThreads

PtInit == /\ callbackCount = 0 /\ due = -1 /\ pending = FALSE
          /\ cb = [k \in Callback |-> "none"]
          /\ left = [k \in Callback |-> 0]
          /\ reg = [k \in Callback |-> 0]
          /\ main = "settime" /\ nap = 0 /\ prompt \in BOOLEAN

Started == {k \in Callback : cb[k] # "none"}
Worked  == {k \in Callback : cb[k] \in {"store", "end"}}
-----------------------------------------------------------------------------
(* The kernel timer and glibc's helper thread: expiries that come while one *)
(* is pending only raise the overrun count.                                 *)
Notify(k) ==
    /\ pending /\ cb[k] = "none" /\ \A j \in 1..(k - 1) : cb[j] # "none"
    /\ main # "return"
    /\ pending' = FALSE
    /\ cb' = [cb EXCEPT ![k] = "sleep"]
    /\ left' = [left EXCEPT ![k] = CallbackCostTime]
    /\ UNCHANGED <<callbackCount, due, reg, main, nap, prompt>>

(* _timerCallback: sleep, then g_callbackCount++.                           *)
Load(k) == /\ cb[k] = "sleep" /\ left[k] = 0 /\ main # "return"
           /\ cb' = [cb EXCEPT ![k] = "store"]
           /\ reg' = [reg EXCEPT ![k] = callbackCount]
           /\ UNCHANGED <<callbackCount, due, pending, left, main, nap, prompt>>

Increment(k) ==
    /\ cb[k] = "store" /\ main # "return"
    /\ cb' = [cb EXCEPT ![k] = "end"]
    /\ callbackCount' = reg[k] + 1
    /\ UNCHANGED <<due, pending, left, reg, main, nap, prompt>>
-----------------------------------------------------------------------------
(* main *)
SetTime == /\ main = "settime" /\ main' = "poll"
           /\ due' = TimerValueSec
           /\ UNCHANGED <<callbackCount, pending, cb, left, reg, nap, prompt>>

\* Mutant: main leaves one callback early.
PollOneShort ==
    /\ main = "poll" /\ nap = 0
    /\ \/ /\ callbackCount < MaxCallbackCount - 1 /\ nap' = 1
          /\ UNCHANGED <<main, due, pending>>
       \/ /\ callbackCount >= MaxCallbackCount - 1 /\ main' = "return"
          /\ due' = -1 /\ pending' = FALSE /\ UNCHANGED nap
    /\ UNCHANGED <<callbackCount, cb, left, reg, prompt>>
(* The loop, and timer_delete and the end of the process when it is over:   *)
(* callbacks that are still asleep end with it.                             *)
Poll == /\ main = "poll" /\ nap = 0
        /\ \/ /\ callbackCount < MaxCallbackCount /\ nap' = 1
              /\ UNCHANGED <<main, due, pending>>
           \/ /\ callbackCount >= MaxCallbackCount /\ main' = "return"
              /\ due' = -1 /\ pending' = FALSE /\ UNCHANGED nap
        /\ UNCHANGED <<callbackCount, cb, left, reg, prompt>>

Idle == /\ ~pending \/ Cardinality(Started) = MaxThreads
        /\ \A k \in Callback : cb[k] # "store" /\ (cb[k] = "sleep" => left[k] > 0)
        /\ nap > 0
\* Mutant: a one-shot timer (it_interval not set).
TickOneShot ==
    /\ main = "poll" /\ (prompt => Idle)
    /\ due' = IF due > 0 THEN due - 1 ELSE -1
    /\ pending' = (pending \/ due = 1)
    /\ left' = [k \in Callback |-> IF left[k] > 0 THEN left[k] - 1 ELSE 0]
    /\ nap' = IF nap > 0 THEN nap - 1 ELSE 0
    /\ UNCHANGED <<callbackCount, cb, reg, main, prompt>>
(* A second passes.                                                         *)
Tick == /\ main = "poll" /\ (prompt => Idle)
        /\ due' = IF due = 1 THEN TimerIntervalSec ELSE due - 1
        /\ pending' = (pending \/ due = 1)
        /\ left' = [k \in Callback |-> IF left[k] > 0 THEN left[k] - 1 ELSE 0]
        /\ nap' = IF nap > 0 THEN nap - 1 ELSE 0
        /\ UNCHANGED <<callbackCount, cb, reg, main, prompt>>

Threads == \E k \in Callback : Notify(k) \/ Load(k) \/ Increment(k)
PtNext == SetTime \/ Poll \/ Tick \/ Threads
PtSpec == PtInit /\ [][PtNext]_ptVars
PtFairSpec == PtSpec /\ WF_ptVars(SetTime \/ Poll) /\ WF_ptVars(Tick) /\ WF_ptVars(Threads)
-----------------------------------------------------------------------------
(* The unlocked g_callbackCount++ (main.c:53) of callbacks that overlap can   *)
(* lose counts but never makes any up: main does not leave before            *)
(* g_maxCallbackCount callbacks have done their work.                        *)
ExitAfterMax ==
    /\ callbackCount <= Cardinality(Worked)
    /\ main = "return" => Cardinality(Worked) >= MaxCallbackCount

(* If threads run when they can the program comes to its end: although each  *)
(* callback works for longer than the interval, they keep coming until main  *)
(* has seen enough of them.                                                  *)
Terminates == prompt => <>(main = "return")
=============================================================================
