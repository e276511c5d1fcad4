----------------------------- MODULE MCFileLock -----------------------------
(***************************************************************************)
(* The file lock programs.  A behaviour is processes that use record locks *)
(* (FcntlLock) or processes that use flock (Flock); the other module stays *)
(* in its initial state.                                                   *)
(***************************************************************************)
EXTENDS MCFcntlLock

CONSTANT FlockProc
VARIABLES call,                                    \* "fcntl" or "flock"
          fArgs, fdTable, lock, test, got2, fPc

flockVars == <<fArgs, fdTable, lock, test, got2, fPc>>
FlockArgs == [lockType : {"sh", "ex"}, nb : BOOLEAN]
Fl == INSTANCE Flock WITH Proc <- FlockProc, Args <- FlockArgs, args <- fArgs,
         fds <- fdTable, pc <- fPc

(* The processes are interchangeable, so only the ways to deal out argument *)
(* lists in ascending order are looked at; and one start of the module that *)
(* does not run.                                                            *)
MCInit == /\ call \in {"fcntl", "flock"} /\ Init /\ Fl!Init
          /\ \A p, q \in Proc : p < q => Number(args[p]) <= Number(args[q])
          /\ call # "fcntl" => \A p \in Proc : Number(args[p]) = 1
          /\ call # "flock" => \A p \in FlockProc : fArgs[p] = [lockType |-> "ex", nb |-> TRUE]

(* The step A of the program that runs.                                      *)
FcntlStep(A) == call = "fcntl" /\ A /\ UNCHANGED call /\ UNCHANGED flockVars
FlockStep(A) == call = "flock" /\ A /\ UNCHANGED call /\ UNCHANGED vars

MCSpec == /\ MCInit /\ [][FcntlStep(Next) \/ FlockStep(Fl!Next)]_<<call, vars, flockVars>>
          /\ \A p \in Proc : WF_vars(FcntlStep(Run(p)))
          /\ \A p \in FlockProc : WF_flockVars(FlockStep(Fl!Run(p)))

(* NothingLeft and TestOutcome of Flock: the tests do not disturb each       *)
(* other, and have the outcome the ownership of flock locks implies.         *)
FlockTests == Fl!NothingLeft /\ Fl!TestOutcome

(* CloseKeepsLock of Flock: what flock/main.c:51 prints.                     *)
Fd1StaysLocked == Fl!CloseKeepsLock

(* AllEnd of FcntlLock and of Flock.                                         *)
LockersEnd == (call = "fcntl" => AllEnd) /\ (call = "flock" => Fl!AllEnd)
=============================================================================
