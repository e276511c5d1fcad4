----------------------------- MODULE RwCounter -----------------------------
(***************************************************************************)
(* src/thread/rw-lock: two writers add to a counter under the write lock;  *)
(* two readers take and release the read lock and then look at the counter *)
(* without it, until it is twice maxTestNumber.  main starts the second    *)
(* writer and the second reader a second after the first.                  *)
(***************************************************************************)
EXTENDS Integers

CONSTANT Max               \* maxTestNumber

Writer == {"thread1", "thread3"}
Reader == {"thread2", "thread4"}
Thread == Writer \cup Reader

VARIABLES counter,
          writer,          \* the thread that has the write lock, or "none"
          readers,         \* the threads that have the read lock
          pc, i, reg,      \* place; loop variable and loaded counter of writers
          created,         \* threads main has created
          printed          \* the counter main printed, -1 before

vars == <<counter, writer, readers, pc, i, reg, created, printed>>

Init == /\ counter = 0 /\ writer = "none" /\ readers = {}
        /\ pc = [t \in Thread |-> "lock"]
        /\ i = [t \in Writer |-> 0]
        /\ reg = [t \in Writer |-> 0]
        /\ created = {} /\ printed = -1

Goto(t, from, to) ==
    t \in created /\ pc[t] = from /\ pc' = [pc EXCEPT ![t] = to]
-----------------------------------------------------------------------------
(* _writerFunc *)
WrLock(t) == /\ i[t] < Max /\ Goto(t, "lock", "load")
             /\ writer = "none" /\ readers = {} /\ writer' = t
             /\ UNCHANGED <<counter, readers, i, reg, created, printed>>

Load(t) == /\ Goto(t, "load", "store")
           /\ reg' = [reg EXCEPT ![t] = counter]
           /\ UNCHANGED <<counter, writer, readers, i, created, printed>>

Store(t) == /\ Goto(t, "store", "unlock")
            /\ counter' = reg[t] + 1
            /\ UNCHANGED <<writer, readers, i, reg, created, printed>>

WrUnlock(t) == /\ Goto(t, "unlock", "lock")
               /\ writer' = "none" /\ i' = [i EXCEPT ![t] = @ + 1]
               /\ UNCHANGED <<counter, readers, reg, created, printed>>

WriterDone(t) == /\ i[t] = Max /\ Goto(t, "lock", "done")
                 /\ UNCHANGED <<counter, writer, readers, i, reg, created, printed>>

Write(t) == WrLock(t) \/ Load(t) \/ Store(t) \/ WrUnlock(t) \/ WriterDone(t)
-----------------------------------------------------------------------------
(* _readFunc: a read lock waits for a writer that is inside, never for one  *)
(* that waits (the default, reader-preferring, kind of glibc).              *)
RdLock(t) == /\ Goto(t, "lock", "unlock")
             /\ writer = "none" /\ readers' = readers \cup {t}
             /\ UNCHANGED <<counter, writer, i, reg, created, printed>>

RdUnlock(t) == /\ Goto(t, "unlock", "look")
               /\ readers' = readers \ {t}
               /\ UNCHANGED <<counter, writer, i, reg, created, printed>>

\* Mutant: the reader leaves when one writer's share is reached.
LookHalf(t) == /\ \/ counter >= Max /\ Goto(t, "look", "done")
                  \/ counter < Max /\ Goto(t, "look", "lock")
               /\ UNCHANGED <<counter, writer, readers, i, reg, created, printed>>
Look(t) == /\ \/ counter = 2 * Max /\ Goto(t, "look", "done")
              \/ counter # 2 * Max /\ Goto(t, "look", "lock")
           /\ UNCHANGED <<counter, writer, readers, i, reg, created, printed>>

Read(t) == RdLock(t) \/ RdUnlock(t) \/ Look(t)
-----------------------------------------------------------------------------
(* main *)
CreateOrder == <<"thread1", "thread2", "thread3", "thread4">>
Create(n) == /\ \A m \in 1..4 : CreateOrder[m] \in created <=> m < n
             /\ created' = created \cup {CreateOrder[n]}
             /\ UNCHANGED <<counter, writer, readers, pc, i, reg, printed>>

Join == /\ \A t \in Thread : pc[t] = "done"
        /\ printed = -1 /\ printed' = counter
        /\ UNCHANGED <<counter, writer, readers, pc, i, reg, created>>

Main == Join \/ \E n \in 1..4 : Create(n)
Next == Main \/ (\E t \in Writer : Write(t)) \/ (\E t \in Reader : Read(t))
Spec == Init /\ [][Next]_vars
FairSpec == /\ Spec /\ WF_vars(Main)
            /\ \A t \in Writer : WF_vars(Write(t))
            /\ \A t \in Reader : WF_vars(Read(t))
-----------------------------------------------------------------------------
(* The test of main.c:23 is for equality and is made without the lock.       *)
(* Still no reader leaves before the last increment is in: by then both      *)
(* writers are past their last counter++, and main prints the full count.    *)
ReaderLeavesLast ==
    /\ \A t \in Reader : pc[t] = "done" =>
          /\ counter = 2 * Max
          /\ \A w \in Writer : i[w] = Max \/ (i[w] = Max - 1 /\ pc[w] = "unlock")
    /\ printed # -1 => printed = 2 * Max

(* A reader-preferring lock may keep the writers out for ever, so only this   *)
(* is promised: once both writers are done, the readers notice and main ends. *)
ReadersNotice ==
    (\A w \in Writer : pc[w] = "done") ~> (printed # -1)
=============================================================================
