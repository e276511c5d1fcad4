------------------------------- MODULE FdLoop -------------------------------
(***************************************************************************)
(* src/io/select, src/io/poll, src/io/epoll/base: a loop that waits for a  *)
(* pipe of its own, into which it has written 4 bytes, and for its         *)
(* standard input.  It leaves after a number of timeouts; the select       *)
(* program leaves after one round.  Standard input is a pipe, whose writer *)
(* may hang up, or a regular file, which is always ready and which epoll   *)
(* refuses to watch.  On a pipe without writers poll and epoll report a    *)
(* hang-up, together with readable data only while there is some.  An      *)
(* epoll_wait that fails with EINTR is only called again; the regular file *)
(* that the select program watches as well is read like the pipe.          *)
(***************************************************************************)
EXTENDS Integers

CONSTANTS PollTimeouts, EpollTimeouts,   \* timeoutCount
          CloseAt,        \* the count at which epoll's program closes pipeFds[1]
          Filled,         \* bytes written to the pipe at the start
          ReadMax,        \* bytes one read() takes at most
          MaxInput        \* bound: bytes that arrive on standard input

ASSUME ReadAssumption == Filled \in Nat /\ ReadMax \in Nat /\ Filled <= ReadMax
ASSUME CountAssumption ==
    PollTimeouts \in Nat /\ EpollTimeouts \in Nat /\ CloseAt \in Nat /\ MaxInput \in Nat

VARIABLES api, stdinFile, \* which program; standard input is a file
          round,          \* where the loop is
          timeoutCount,
          bytes,          \* bytes[d]: unread bytes
          hup,            \* descriptors whose writers are all gone
          events,         \* events[d]: what the call has reported for d
          open, fds,      \* open descriptors, and those pipeFds still names
          doubly, input   \* a descriptor was closed twice; bytes arrived so far

fdVars == <<api, stdinFile, round, timeoutCount, bytes, hup, events, open, fds, doubly, input>>

Watched == {"pipe", "stdin"}
Nothing == [d \in Watched |-> "none"]

FdInit == /\ api \in {"select", "poll", "epoll"} /\ stdinFile \in BOOLEAN
          /\ round = "wait"
          /\ timeoutCount = IF api = "epoll" THEN EpollTimeouts ELSE PollTimeouts
          /\ bytes = [d \in Watched |-> IF d = "pipe" THEN Filled ELSE 0]
          /\ hup = {} /\ events = Nothing /\ input = 0
          /\ open = {"pipe", "stdin", "pipeEnd"} /\ fds = {"pipe", "pipeEnd"}
          /\ doubly = FALSE
-----------------------------------------------------------------------------
(* What the kernel reports for d: "in" when POLLIN is among the events.     *)
Report(d) ==
    IF d \notin open \/ (d = "stdin" /\ stdinFile /\ api = "epoll") THEN "none"
    ELSE IF bytes[d] > 0 \/ (d = "stdin" /\ stdinFile) \/ (d \in hup /\ api = "select") THEN "in"
    ELSE IF d \in hup THEN "hup" ELSE "none"

Wait == /\ round = "wait" /\ \E d \in Watched : Report(d) # "none"
        /\ events' = [d \in Watched |-> Report(d)]
        /\ round' = "handle"
        /\ UNCHANGED <<api, stdinFile, timeoutCount, bytes, hup, open, fds, doubly, input>>

(* close(d), and -1 for it in pipeFds.                                      *)
CloseFd(d) == /\ doubly' = (doubly \/ d \notin open)
              /\ open' = open \ {d} /\ fds' = fds \ {d}

(* Nothing happens before the timeout.                                      *)
FdTimeout ==
    /\ round = "wait" /\ \A d \in Watched : Report(d) = "none"
    /\ timeoutCount' = timeoutCount - 1 /\ round' = "check"
    /\ \/ /\ api = "epoll" /\ timeoutCount' = CloseAt
          /\ CloseFd("pipeEnd") /\ hup' = hup \cup {"pipe"}
       \/ /\ ~(api = "epoll" /\ timeoutCount' = CloseAt)
          /\ UNCHANGED <<open, fds, doubly, hup>>
    /\ UNCHANGED <<api, stdinFile, bytes, events, input>>

ReadFd(d) == /\ events[d] = "in" /\ UNCHANGED <<open, fds, doubly>>
             /\ bytes' = [bytes EXCEPT ![d] = IF @ > ReadMax THEN @ - ReadMax ELSE 0]

\* Mutant: epoll's program looks for a hang-up before it looks for bytes.
HandleHupFirst(d) ==
    /\ round = "handle" /\ events[d] # "none" /\ events' = [events EXCEPT ![d] = "none"]
    /\ \/ (api = "epoll" => d \notin hup) /\ ReadFd(d)
       \/ api = "epoll" /\ d \in hup /\ CloseFd(d) /\ UNCHANGED bytes
       \/ api # "epoll" /\ events[d] = "hup" /\ UNCHANGED <<open, fds, doubly, bytes>>
    /\ UNCHANGED <<api, stdinFile, round, timeoutCount, hup, input>>
\* Mutant: a hang-up is ignored, as in the poll program.
HandleNoHup(d) ==
    /\ round = "handle" /\ events[d] # "none" /\ events' = [events EXCEPT ![d] = "none"]
    /\ \/ ReadFd(d)
       \/ events[d] = "hup" /\ UNCHANGED <<open, fds, doubly, bytes>>
    /\ UNCHANGED <<api, stdinFile, round, timeoutCount, hup, input>>
(* One descriptor that was reported: read it, or close it after a hang-up.  *)
Handle(d) ==
    /\ round = "handle" /\ events[d] # "none" /\ events' = [events EXCEPT ![d] = "none"]
    /\ \/ ReadFd(d)
       \/ api = "epoll" /\ events[d] = "hup" /\ CloseFd(d) /\ UNCHANGED bytes
       \/ api # "epoll" /\ events[d] = "hup" /\ UNCHANGED <<open, fds, doubly, bytes>>
    /\ UNCHANGED <<api, stdinFile, round, timeoutCount, hup, input>>

Handled == /\ round = "handle" /\ events = Nothing /\ round' = "check"
           /\ UNCHANGED <<api, stdinFile, timeoutCount, bytes, hup, events, open, fds, doubly, input>>

(* The end of the round; the loop is left by timeouts, or by the break of   *)
(* the select program.  What pipeFds still names is closed then.            *)
Check ==
    /\ round = "check"
    /\ \/ /\ api = "select" \/ timeoutCount <= 0
          /\ round' = "exit" /\ doubly' = (doubly \/ fds \ open # {})
          /\ open' = open \ fds /\ UNCHANGED fds
       \/ /\ api # "select" /\ timeoutCount > 0
          /\ round' = "wait" /\ UNCHANGED <<open, fds, doubly>>
    /\ UNCHANGED <<api, stdinFile, timeoutCount, bytes, hup, events, input>>

(* The other side of standard input.                                        *)
Arrive == /\ ~stdinFile /\ "stdin" \notin hup /\ input < MaxInput /\ round # "exit"
          /\ input' = input + 1 /\ bytes' = [bytes EXCEPT !["stdin"] = @ + 1]
          /\ UNCHANGED <<api, stdinFile, round, timeoutCount, hup, events, open, fds, doubly>>

HangUp == /\ ~stdinFile /\ "stdin" \notin hup /\ round # "exit"
          /\ hup' = hup \cup {"stdin"}
          /\ UNCHANGED <<api, stdinFile, round, timeoutCount, bytes, events, open, fds, doubly, input>>

FdMain == Wait \/ FdTimeout \/ (\E d \in Watched : Handle(d)) \/ Handled \/ Check
FdNext == FdMain \/ Arrive \/ HangUp
FdSpec == FdInit /\ [][FdNext]_fdVars
-----------------------------------------------------------------------------
(* Bytes and hang-ups come together; looking for bytes first (epoll/base/    *)
(* main.c:66, 73) means that no descriptor is closed with bytes unread, none *)
(* is closed twice, and the pipe has been read when the loop is left.        *)
DrainedBeforeClose ==
    /\ ~doubly
    /\ \A d \in Watched \ open : bytes[d] = 0
    /\ round = "exit" => bytes["pipe"] = 0

(* The loops end: a hang-up of the own pipe or of standard input does not    *)
(* keep epoll's program from its timeouts.  The poll program is kept from    *)
(* them for ever by a standard input that is a file or has hung up.          *)
LoopEnds == \/ <>(round = "exit")
            \/ api = "poll" /\ <>[](stdinFile \/ "stdin" \in hup)
=============================================================================
