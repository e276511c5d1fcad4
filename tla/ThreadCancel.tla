---------------------------- MODULE ThreadCancel ----------------------------
(***************************************************************************)
(* src/thread/cancel: main cancels a thread that disables cancellation,    *)
(* sleeps, enables it again and goes on sleeping.  The sleeps of the two   *)
(* are of the same length, so the request may come at any point of the     *)
(* thread.  It stays pending until the thread, with cancellation enabled,  *)
(* is in sleep(), which is a cancellation point, or in printf(), which may *)
(* be one.                                                                 *)
(***************************************************************************)
EXTENDS Integers

CONSTANT Sleeps           \* the thread's argument

ASSUME SleepsAssumption == Sleeps \in Nat

VARIABLES state,          \* cancellation enabled or disabled
          asked,          \* pthread_cancel has been called
          inTime,         \* ... when the thread had not finished its last sleep
          func, turn,     \* where _func is, and its i
          mainAt, threadRet

cancelVars == <<state, asked, inTime, func, turn, mainAt, threadRet>>
Over == {"cancelled", "returned"}

CancelInit == /\ state = "enable" /\ asked = FALSE /\ inTime = FALSE
              /\ func = "settype" /\ turn = 0
              /\ mainAt = "sleep" /\ threadRet = "none"
-----------------------------------------------------------------------------
SetDisable == /\ func = "settype" /\ func' = "for" /\ state' = "disable"
              /\ UNCHANGED <<asked, inTime, turn, mainAt, threadRet>>

For == /\ func = "for" /\ func' = IF turn < Sleeps THEN "sleep" ELSE "returned"
       /\ UNCHANGED <<state, asked, inTime, turn, mainAt, threadRet>>

\* Mutant: cancellation is not enabled again.
SleptDisabled == /\ func = "sleep" /\ ~(asked /\ state = "enable")
                 /\ func' = "for" /\ turn' = turn + 1
                 /\ UNCHANGED <<state, asked, inTime, mainAt, threadRet>>
(* sleep(1) returns; the first time cancellation is enabled again.          *)
Slept == /\ func = "sleep" /\ ~(asked /\ state = "enable")
         /\ func' = "for" /\ turn' = turn + 1
         /\ state' = IF turn = 0 THEN "enable" ELSE state
         /\ UNCHANGED <<asked, inTime, mainAt, threadRet>>

(* The request is acted upon: in sleep(), and possibly in a printf().       *)
Cancelled == /\ func \notin Over /\ asked /\ state = "enable" /\ func' = "cancelled"
             /\ UNCHANGED <<state, asked, inTime, turn, mainAt, threadRet>>

(* main.  A thread that is over may be found (0) or not (ESRCH).            *)
Cancel == /\ mainAt = "sleep"
          /\ \/ /\ mainAt' = "join" /\ asked' = TRUE
                /\ inTime' = (func \notin Over /\ turn < Sleeps)
             \/ /\ func \in Over /\ mainAt' = "failed" /\ UNCHANGED <<asked, inTime>>
          /\ UNCHANGED <<state, func, turn, threadRet>>

JoinThread == /\ mainAt = "join" /\ func \in Over
              /\ mainAt' = "done" /\ threadRet' = func
              /\ UNCHANGED <<state, asked, inTime, func, turn>>

CancelFunc == SetDisable \/ For \/ Slept
CancelMain == Cancel \/ JoinThread
CancelNext == CancelFunc \/ Cancelled \/ CancelMain
CancelSpec == CancelInit /\ [][CancelNext]_cancelVars
-----------------------------------------------------------------------------
(* A request that comes before the thread's last sleep is over is never      *)
(* lost, also when cancellation is disabled at the time or about to be: if   *)
(* the thread sleeps at least twice, main finds it cancelled (main.c:65).    *)
CancelKept ==
    mainAt = "done" /\ inTime /\ Sleeps > 1 => threadRet = "cancelled"

(* main and the thread end, by cancellation or not; pthread_join does not    *)
(* wait for a thread that sleeps for ever.                                   *)
CancelEnds == <>(mainAt \in {"done", "failed"} /\ func \in Over)
=============================================================================
