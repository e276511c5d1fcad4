----------------------------- MODULE FcntlLock -----------------------------
(***************************************************************************)
(* src/io/file_lock/fcntl: processes that lock byte ranges of one file     *)
(* with fcntl().  main() first runs _otherTest, which write-locks bytes    *)
(* 0..9 through two descriptors and leaves both open; then it locks the    *)
(* range of its arguments, sleeps and closes, which drops every lock the   *)
(* process has on the file.  Block 0 stands for bytes 0..9 and block 1 for *)
(* the bytes after them.                                                   *)
(***************************************************************************)
EXTENDS Integers

CONSTANTS Proc,
          Args    \* the argument lists main() may be started with, records
                  \* [cmd, type, range, whence]: whence is "" when it is
                  \* not given, range {} when main refuses the arguments

Block == {0, 1}
Command == {"g", "s", "w"}
Type == {"r", "w", "u"}
ASSUME ArgsAssumption ==
    Args \subseteq [cmd : Command, type : Type, range : SUBSET Block,
                    whence : {"", "s", "c", "e"}]

VARIABLES args,    \* args[p]: the command line of p
          c,       \* c[p]: the command letter main passes to _lock
          held,    \* held[p][b]: the lock p has on block b, "u" for none
          twice,   \* twice[p]: results of the two _lock calls of _otherTest
          pc

vars == <<args, c, held, twice, pc>>

Init == /\ args \in [Proc -> Args]
        /\ c = [p \in Proc |-> "none"]
        /\ held = [p \in Proc |-> [b \in Block |-> "u"]]
        /\ twice = [p \in Proc |-> [k \in 1..2 |-> "none"]]
        /\ pc = [p \in Proc |-> "test1"]

Goto(p, from, to) == pc[p] = from /\ pc' = [pc EXCEPT ![p] = to]
-----------------------------------------------------------------------------
(* The kernel's record locks: owned by the process, whatever the descriptor. *)
Conflicts(p, q, type, range) ==
    /\ p # q
    /\ \E b \in range : \/ type = "w" /\ held[q][b] # "u"
                        \/ type = "r" /\ held[q][b] = "w"
Free(p, type, range) == \A q \in Proc : ~Conflicts(p, q, type, range)
Set(p, type, range) ==
    held' = [held EXCEPT ![p] = [b \in Block |-> IF b \in range THEN type ELSE @[b]]]
Drop(p) == held' = [held EXCEPT ![p] = [b \in Block |-> "u"]]
-----------------------------------------------------------------------------
Tested(p, k, result) ==
    /\ Goto(p, IF k = 1 THEN "test1" ELSE "test2", IF k = 1 THEN "test2" ELSE "args")
    /\ twice' = [twice EXCEPT ![p][k] = result]
    /\ UNCHANGED <<args, c>>

\* Mutant: _otherTest asks for a read lock.
TestLockRead(p, k) ==
    \/ Free(p, "r", {0}) /\ Set(p, "r", {0}) /\ Tested(p, k, "ok")
    \/ ~Free(p, "r", {0}) /\ UNCHANGED held /\ Tested(p, k, "denied")
\* Mutant: each descriptor is closed again after its test.
TestLockClosing(p, k) ==
    \/ Free(p, "w", {0}) /\ Drop(p) /\ Tested(p, k, "ok")
    \/ ~Free(p, "w", {0}) /\ UNCHANGED held /\ Tested(p, k, "denied")

(* _otherTest: F_SETLK of a write lock on bytes 0..9, never waiting, through *)
(* one descriptor (k = 1) and then through the other.                        *)
TestLock(p, k) ==
    \/ Free(p, "w", {0}) /\ Set(p, "w", {0}) /\ Tested(p, k, "ok")
    \/ ~Free(p, "w", {0}) /\ UNCHANGED held /\ Tested(p, k, "denied")

(* main reads its arguments; the optional sixth overwrites the command.      *)
ReadArgs(p) ==
    /\ \/ /\ args[p].range # {} /\ Goto(p, "args", "lock")
          /\ c' = [c EXCEPT ![p] = IF args[p].whence = "" THEN args[p].cmd
                                   ELSE args[p].whence]
          /\ UNCHANGED held
       \/ args[p].range = {} /\ Goto(p, "args", "done") /\ Drop(p) /\ UNCHANGED c
    /\ UNCHANGED <<args, twice>>

(* _lock with the parsed arguments.                                          *)
Result(p, to) == Goto(p, "lock", to) /\ UNCHANGED <<args, c, twice>>
Lock(p) ==
    LET type == args[p].type
        range == args[p].range
    IN \/ c[p] \notin Command /\ Result(p, "close") /\ UNCHANGED held
       \/ /\ c[p] = "g"                            \* F_UNLCK is EINVAL here
          /\ Result(p, IF type # "u" /\ Free(p, type, range) THEN "sleep" ELSE "close")
          /\ UNCHANGED held
       \/ /\ c[p] \in {"s", "w"} /\ Free(p, type, range)
          /\ Set(p, type, range) /\ Result(p, "sleep")
       \/ c[p] = "s" /\ ~Free(p, type, range) /\ Result(p, "close") /\ UNCHANGED held

(* After the sleep of a lock that was granted: close() drops all locks.      *)
Close(p) ==
    /\ \/ Goto(p, "sleep", "done") \/ Goto(p, "close", "done")
    /\ Drop(p)
    /\ UNCHANGED <<args, c, twice>>

Run(p) == TestLock(p, 1) \/ TestLock(p, 2) \/ ReadArgs(p) \/ Lock(p) \/ Close(p)
Next == \E p \in Proc : Run(p)
Spec == Init /\ [][Next]_vars
FairSpec == Spec /\ \A p \in Proc : WF_vars(Run(p))
-----------------------------------------------------------------------------
TypeOK == /\ args \in [Proc -> Args]
          /\ c \in [Proc -> Command \cup {"none", "c", "e"}]
          /\ held \in [Proc -> [Block -> Type]]
          /\ twice \in [Proc -> [1..2 -> {"none", "ok", "denied"}]]
          /\ pc \in [Proc -> {"test1", "test2", "args", "lock", "sleep", "close", "done"}]

(* A process that may be waiting in F_SETLKW holds on to what it has.        *)
Waiting(p) == pc[p] = "lock" /\ c[p] = "w" /\ ~Free(p, args[p].type, args[p].range)
Holding(p) == \E b \in Block : held[p][b] # "u"

(* The EDEADLK branch of _lock (main.c:94-98) is never taken: every process  *)
(* can wait while it still holds the lock _otherTest left behind, but of     *)
(* all that wait at most one does, so no cycle of waits can close.           *)
NoWaitCycle ==
    \A p, q \in Proc : Waiting(p) /\ Waiting(q) /\ Holding(p) /\ Holding(q) => p = q

(* "open file twice test" (main.c:119-131): a record lock belongs to the     *)
(* process, so the second descriptor gets what the first one got, and the    *)
(* process still has it when it goes on.                                     *)
TwiceGranted ==
    \A p \in Proc : pc[p] = "args" /\ twice[p][1] = "ok" =>
       twice[p][2] = "ok" /\ held[p][0] = "w"

(* Every process gets its turn and ends.                                     *)
AllEnd == \A p \in Proc : <>(pc[p] = "done")

(* Usage (main.c:144-158): cmd is the second argument and whence an optional *)
(* sixth.  The command that is carried out is the one that was asked for.    *)
CommandIsCmd == \A p \in Proc : pc[p] = "lock" => c[p] = args[p].cmd
=============================================================================
