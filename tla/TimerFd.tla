------------------------------ MODULE TimerFd ------------------------------
(***************************************************************************)
(* src/timer/linux: a timerfd watched by epoll.  The loop counts its       *)
(* iterations: a timer that is ready, an interruption (epoll_wait fails    *)
(* with EINTR when a stopped process is continued) and a timeout alike.    *)
(***************************************************************************)
EXTENDS Integers

CONSTANTS FdValueSec, FdIntervalSec, FdMaxCallbackCount,
          EpollTimeout,   \* seconds
          MaxUnread       \* bound: expiries that may be read as one

ASSUME TimerFdAssumption ==
    /\ FdValueSec \in Nat \ {0} /\ FdIntervalSec \in Nat \ {0}
    /\ FdMaxCallbackCount \in Nat /\ EpollTimeout \in Nat /\ MaxUnread \in Nat

VARIABLES loop,           \* where main is
          iter,           \* the loop variable i
          fdDue,          \* seconds to the next expiry
          unread,         \* expiries since the last read
          waited,         \* seconds epoll_wait has waited
          expired, ran,   \* all expiries, and all times the timer was handled
          eintr, timeouts

timerFdVars == <<loop, iter, fdDue, unread, waited, expired, ran, eintr, timeouts>>

TimerInit == /\ loop = "settime" /\ iter = 0 /\ fdDue = 0 /\ unread = 0 /\ waited = 0
             /\ expired = 0 /\ ran = 0 /\ eintr = 0 /\ timeouts = 0
-----------------------------------------------------------------------------
Settime == /\ loop = "settime" /\ loop' = "while" /\ fdDue' = FdValueSec
           /\ UNCHANGED <<iter, unread, waited, expired, ran, eintr, timeouts>>

While == /\ loop = "while"
         /\ \/ /\ iter < FdMaxCallbackCount /\ iter' = iter + 1
               /\ loop' = "epoll_wait" /\ waited' = 0
            \/ /\ iter >= FdMaxCallbackCount /\ loop' = "return"
               /\ UNCHANGED <<iter, waited>>
         /\ UNCHANGED <<fdDue, unread, expired, ran, eintr, timeouts>>

(* The three results of epoll_wait: -1, 0 and 1.                            *)
EpollEintr == /\ loop = "epoll_wait" /\ loop' = "while" /\ eintr' = eintr + 1
              /\ UNCHANGED <<iter, fdDue, unread, waited, expired, ran, timeouts>>

Timeout == /\ loop = "epoll_wait" /\ unread = 0 /\ waited >= EpollTimeout
           /\ loop' = "while" /\ timeouts' = timeouts + 1
           /\ UNCHANGED <<iter, fdDue, unread, waited, expired, ran, eintr>>

Ready == /\ loop = "epoll_wait" /\ unread > 0 /\ loop' = "read"
         /\ UNCHANGED <<iter, fdDue, unread, waited, expired, ran, eintr, timeouts>>

\* Mutant: the expiry is not read, and the descriptor stays ready.
ReadSkipped == /\ loop = "read" /\ loop' = "while" /\ ran' = ran + 1
               /\ UNCHANGED <<iter, fdDue, unread, waited, expired, eintr, timeouts>>
(* "must read": the read takes all expiries there are, as one.              *)
Read == /\ loop = "read" /\ loop' = "while" /\ ran' = ran + 1 /\ unread' = 0
        /\ UNCHANGED <<iter, fdDue, waited, expired, eintr, timeouts>>

TimerTick == /\ loop \notin {"settime", "return"}
             /\ waited' = IF waited < EpollTimeout THEN waited + 1 ELSE waited
             /\ \/ /\ fdDue = 1 /\ unread < MaxUnread /\ fdDue' = FdIntervalSec
                   /\ unread' = unread + 1 /\ expired' = expired + 1
                \/ fdDue > 1 /\ fdDue' = fdDue - 1 /\ UNCHANGED <<unread, expired>>
             /\ UNCHANGED <<loop, iter, ran, eintr, timeouts>>

TimerMain == Settime \/ While \/ Timeout \/ Ready \/ Read
TimerNext == TimerMain \/ EpollEintr \/ TimerTick
TimerSpec == TimerInit /\ [][TimerNext]_timerFdVars
-----------------------------------------------------------------------------
(* Every time the timer is handled it has expired anew, and every iteration *)
(* is accounted for: g_maxCallbackCount (main.c:13) is "at most", and fewer  *)
(* callbacks than that are run only for interruptions and timeouts.          *)
CallbackPerExpiry ==
    /\ ran + unread <= expired
    /\ loop = "return" => ran + eintr + timeouts = FdMaxCallbackCount
=============================================================================
