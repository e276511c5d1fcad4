-------------------------------- MODULE MCIo --------------------------------
(***************************************************************************)
(* The programs that wait for a descriptor, the disk or the clock.  A      *)
(* behaviour is one of the programs of FdLoop, the edge-triggered reader   *)
(* of EdgeRead, the writer of WriteLoop, instances of MapFile, the timers  *)
(* of PosixTimer or TimerFd, or the sleeps of Sleep; the other modules     *)
(* stay in their initial state.                                            *)
(***************************************************************************)
EXTENDS FdLoop, EdgeRead, WriteLoop, MapFile, PosixTimer, TimerFd, Sleep

VARIABLE which     \* "fds", "edge", "write", "map", "posix", "timerfd" or "sleep"

ioVars == <<fdVars, edgeVars, writeVars, mapVars>>
clockVars == <<ptVars, timerFdVars, sleepVars>>

MCInit == /\ which \in {"fds", "edge", "write", "map", "posix", "timerfd", "sleep"}
          /\ FdInit /\ EdgeInit /\ WriteInit /\ MapInit
          /\ PtInit /\ TimerInit /\ SleepInit
          /\ which # "fds" => api = "select" /\ stdinFile
          /\ which # "write" => limit = TotalSize
          /\ which # "map" => private = {}
          /\ which # "posix" => prompt
          /\ which # "sleep" => ms = 0 /\ now = 0

(* The step A of the program that runs.                                      *)
IoStep(A) == A /\ UNCHANGED which /\ UNCHANGED clockVars
FdStep(A) == which = "fds" /\ IoStep(A) /\ UNCHANGED <<edgeVars, writeVars, mapVars>>
EdgeStep(A) == which = "edge" /\ IoStep(A) /\ UNCHANGED <<fdVars, writeVars, mapVars>>
WriteStep(A) == which = "write" /\ IoStep(A) /\ UNCHANGED <<fdVars, edgeVars, mapVars>>
MapStep(A) == which = "map" /\ IoStep(A) /\ UNCHANGED <<fdVars, edgeVars, writeVars>>

ClockStep(A) == A /\ UNCHANGED which /\ UNCHANGED ioVars
PosixStep(A) == which = "posix" /\ ClockStep(A) /\ UNCHANGED <<timerFdVars, sleepVars>>
TimerFdStep(A) == which = "timerfd" /\ ClockStep(A) /\ UNCHANGED <<ptVars, sleepVars>>
SleepStep(A) == which = "sleep" /\ ClockStep(A) /\ UNCHANGED <<ptVars, timerFdVars>>

MCNext == \/ FdStep(FdNext) \/ EdgeStep(EdgeNext) \/ WriteStep(WriteNext) \/ MapStep(MapNext)
          \/ PosixStep(PtNext) \/ TimerFdStep(TimerNext) \/ SleepStep(SleepNext)

MCSpec == /\ MCInit /\ [][MCNext]_<<which, ioVars, clockVars>>
          /\ WF_fdVars(FdStep(FdMain)) /\ WF_writeVars(WriteStep(Wrote \/ TooBig))
          /\ WF_ptVars(PosixStep(SetTime \/ Poll)) /\ WF_ptVars(PosixStep(Tick))
          /\ WF_ptVars(PosixStep(Threads))
          /\ WF_timerFdVars(TimerFdStep(TimerMain)) /\ WF_timerFdVars(TimerFdStep(TimerTick))
          /\ WF_sleepVars(SleepStep(MySleep)) /\ WF_sleepVars(SleepStep(SleepTick))

(* LoopEnds of FdLoop; and the writing loop ends if space is found again.    *)
LoopsEnd == (which = "fds" => LoopEnds) /\ (which = "write" => <>~writing)

(* All that wait for the clock come to their end: the POSIX timer if threads *)
(* run when they can (Terminates), the timerfd loop because epoll_wait       *)
(* returns at the latest after its timeout (timer/linux/main.c:64), the      *)
(* sleeps although signals interrupt them.                                   *)
TimersEnd == /\ which = "posix" => Terminates
             /\ which = "timerfd" => <>(loop = "return")
             /\ which = "sleep" => <>(at = "exit")
=============================================================================
