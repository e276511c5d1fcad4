------------------------------- MODULE Sleep -------------------------------
(***************************************************************************)
(* src/time/sleep: main calls mySleep once for each of eight ways to sleep *)
(* while SIGINT is caught by a handler.  Time is counted in ticks from the *)
(* last full second before a call of mySleep.  No sleeping call is         *)
(* restarted by the kernel after a handler; three of the eight cases       *)
(* restart it themselves, two with the time that is left and one with its  *)
(* deadline; sleep() is called again with the whole time, and the others   *)
(* return early.  The kernel rounds the end of a call up to its clock      *)
(* interval, anew at each restart (README.md:15-16).                       *)
(***************************************************************************)
EXTENDS Integers, Sequences

CONSTANTS Second,       \* ticks per second
          SleepTimes,   \* the arguments main may be given, in ticks
          Rounding,     \* the most ticks by which the kernel rounds up one call
          MaxSignals,   \* bound: SIGINTs during one mySleep
          MaxLate       \* bound: ticks a process is kept from running, per mySleep

ASSUME SleepAssumption ==
    /\ Second \in Nat \ {0} /\ SleepTimes \subseteq Nat /\ Rounding \in Nat
    /\ MaxSignals \in Nat /\ MaxLate \in Nat

VARIABLES ms,           \* the argument
          nth,          \* the for loop's i, from 1
          at,           \* where mySleep is
          now, start,   \* the clock, and its value on entry
          rest,         \* relative request, as updated by an interruption
          request,      \* absolute request, a timespec
          wake,         \* when the call that sleeps is over
          signals, late

sleepVars == <<ms, nth, at, now, start, rest, request, wake, signals, late>>

SleepType == <<"sleep", "usleep", "nanosleep", "select", "poll", "epoll",
               "posixClock_abs", "posixClock_relative">>
type == SleepType[nth]
Remaining == {"nanosleep", "posixClock_relative"}
Restarted == Remaining \cup {"posixClock_abs"}

(* sleep() takes whole seconds.                                             *)
Asked == IF type = "sleep" THEN (ms \div Second) * Second ELSE ms

SleepInit == /\ ms \in SleepTimes /\ nth = 1 /\ at = "enter"
             /\ now \in 0..(Second - 1) /\ start = 0 /\ rest = 0 /\ wake = 0
             /\ request = [sec |-> 0, nsec |-> 0] /\ signals = 0 /\ late = 0
-----------------------------------------------------------------------------
Enter == /\ at = "enter"
         /\ now' = now % Second /\ start' = now % Second
         /\ rest' = Asked /\ signals' = 0 /\ late' = 0
         /\ at' = IF type = "posixClock_abs" THEN "clock" ELSE "call"
         /\ UNCHANGED <<ms, nth, request, wake>>

\* Mutant: the nanoseconds are not carried into the seconds.
NoCarry(s, n) == [sec |-> s, nsec |-> n]
Carry(s, n) == IF n >= Second THEN [sec |-> s + 1, nsec |-> n - Second]
                              ELSE [sec |-> s, nsec |-> n]

(* The deadline of TIMER_ABSTIME, from a second look at the clock.          *)
ClockAbs == /\ at = "clock" /\ at' = "call"
            /\ request' = Carry((now \div Second) + (ms \div Second),
                                (now % Second) + (ms % Second))
            /\ UNCHANGED <<ms, nth, now, start, rest, wake, signals, late>>

(* The call.  A timespec that is not normalised is refused (EINVAL).        *)
Call == /\ at = "call"
        /\ \E r \in 0..Rounding :
              \/ /\ type = "posixClock_abs"
                 /\ wake' = request.sec * Second + request.nsec + r
                 /\ at' = IF request.nsec < Second THEN "asleep" ELSE "end"
              \/ /\ type # "posixClock_abs"
                 /\ wake' = now + rest + r /\ at' = "asleep"
        /\ UNCHANGED <<ms, nth, now, start, rest, request, signals, late>>

Expire == /\ at = "asleep" /\ now >= wake /\ at' = "end"
          /\ UNCHANGED <<ms, nth, now, start, rest, request, wake, signals, late>>

(* SIGINT.  nanosleep and the relative clock_nanosleep store what is left   *)
(* of the call, rounded as it is; the absolute one is called as before.     *)
(* sleep() returns the whole seconds that are left, and its loop ends when  *)
(* that is 0.                                                               *)
Interrupt ==
    /\ at = "asleep" /\ now < wake /\ signals < MaxSignals
    /\ signals' = signals + 1
    /\ \/ /\ type \in Remaining
          /\ rest' = wake - now /\ at' = "call"
       \/ /\ type = "posixClock_abs" /\ UNCHANGED rest
          /\ at' = "call"
       \/ /\ type = "sleep" /\ UNCHANGED rest
          /\ at' = IF (wake - now) \div Second > 0 THEN "call" ELSE "end"
       \/ /\ type \notin Restarted \cup {"sleep"} /\ UNCHANGED rest
          /\ at' = "end"
    /\ UNCHANGED <<ms, nth, now, start, request, wake, late>>

(* mySleep returns; main goes on to the next way.                           *)
Return == /\ at = "end"
          /\ \/ nth < Len(SleepType) /\ nth' = nth + 1 /\ at' = "enter"
             \/ nth = Len(SleepType) /\ at' = "exit" /\ UNCHANGED nth
          /\ UNCHANGED <<ms, now, start, rest, request, wake, signals, late>>

(* A tick of the clock; late when the process could be running.             *)
SleepTick == /\ at # "exit"
             /\ \/ at = "asleep" /\ now < wake /\ UNCHANGED late
                \/ ~(at = "asleep" /\ now < wake) /\ late < MaxLate /\ late' = late + 1
             /\ now' = now + 1
             /\ UNCHANGED <<ms, nth, at, start, rest, request, wake, signals>>

MySleep == Enter \/ ClockAbs \/ Call \/ Expire \/ Return
SleepNext == MySleep \/ Interrupt \/ SleepTick
SleepSpec == SleepInit /\ [][SleepNext]_sleepVars
-----------------------------------------------------------------------------
(* However often SIGINT interrupts the call, the three cases that restart it *)
(* (main.c:97, 138, 149) never sleep less than asked.  They sleep longer by  *)
(* what the process itself was delayed and by the rounding of the calls: of  *)
(* all of them when the remaining time is passed on, and of one when the     *)
(* deadline is absolute, which is why README.md:15-17 recommends it.  The    *)
(* others sleep as long as asked when no signal comes.                       *)
Drift == IF type = "posixClock_abs" THEN Rounding ELSE (signals + 1) * Rounding
SleepsAsAsked ==
    at = "end" /\ (type \in Restarted \/ signals = 0) =>
        now - start \in Asked..(Asked + late + Drift)
=============================================================================
