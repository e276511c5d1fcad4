------------------------------ MODULE MapFile ------------------------------
(***************************************************************************)
(* src/memory/mmap_file: the program writes a file, maps it, and forks a   *)
(* child that changes every byte through the mapping; child and then       *)
(* parent read the file back.  Several instances of the program use the    *)
(* same file and truncate it under each other.  A byte is the number of    *)
(* times it was changed; all writes are of the whole file, so it is empty  *)
(* or has MapSize bytes.  read() of a regular file is never short.         *)
(***************************************************************************)
EXTENDS Integers, Sequences

CONSTANTS MapProg, MapSize

ASSUME MapAssumption == MapSize \in Nat \ {0}

VARIABLES file,           \* the bytes of test.txt
          private,        \* instances that were given an argument
          where,          \* where an instance is: parent before the fork and
                          \* after wait(), child in between
          own,            \* own[p]: p's copy of a page of a private mapping, or <<>>
          index, was,     \* the loop variable, and the byte p[i] as it was read
          fileSize,       \* st_size
          childSaw, parentSaw, disturbed

mapVars == <<file, private, where, own, index, was, fileSize, childSaw, parentSaw, disturbed>>

Blank == [k \in 1..MapSize |-> 0]
MapInit == /\ file = <<>> /\ private \in SUBSET MapProg
           /\ where = [p \in MapProg |-> "open"]
           /\ own = [p \in MapProg |-> <<>>]
           /\ index = [p \in MapProg |-> 1] /\ was = [p \in MapProg |-> 0]
           /\ fileSize = [p \in MapProg |-> 0]
           /\ childSaw = [p \in MapProg |-> <<>>] /\ parentSaw = [p \in MapProg |-> <<>>]
           /\ disturbed = {}

MapGoto(p, from, to) == where[p] = from /\ where' = [where EXCEPT ![p] = to]

(* The others that have opened the file and still use it.                   *)
Disturb(p) == disturbed' = disturbed \cup ({q \in MapProg : where[q] \notin {"open", "exit"}} \ {p})
-----------------------------------------------------------------------------
(* open(O_TRUNC) takes the pages away from every mapping, private copies    *)
(* included.                                                                *)
OpenTrunc(p) ==
    /\ MapGoto(p, "open", "write") /\ file' = <<>>
    /\ own' = [q \in MapProg |-> <<>>] /\ Disturb(p)
    /\ UNCHANGED <<private, index, was, fileSize, childSaw, parentSaw>>

(* write(), mmap(), close(), fork().                                        *)
WriteMap(p) ==
    /\ MapGoto(p, "write", "load") /\ file' = Blank /\ Disturb(p)
    /\ UNCHANGED <<private, own, index, was, fileSize, childSaw, parentSaw>>

(* p[i] += 'A' - 'a' is a load and a store; the first store to a private    *)
(* page copies it.  Without a page the child dies of SIGBUS.                *)
Page(p) == IF own[p] # <<>> THEN own[p] ELSE file
LoadByte(p) ==
    /\ \/ /\ index[p] <= MapSize /\ Page(p) # <<>> /\ MapGoto(p, "load", "store")
          /\ was' = [was EXCEPT ![p] = Page(p)[index[p]]]
       \/ index[p] <= MapSize /\ Page(p) = <<>> /\ MapGoto(p, "load", "wait") /\ UNCHANGED was
       \/ index[p] > MapSize /\ MapGoto(p, "load", "msync") /\ UNCHANGED was
    /\ UNCHANGED <<file, private, own, index, fileSize, childSaw, parentSaw, disturbed>>

StoreByte(p) ==
    /\ \/ /\ Page(p) # <<>> /\ MapGoto(p, "store", "load")
          /\ index' = [index EXCEPT ![p] = @ + 1]
          /\ LET page == [Page(p) EXCEPT ![index[p]] = was[p] + 1] IN
             \/ /\ p \in private /\ own' = [own EXCEPT ![p] = page]
                /\ UNCHANGED <<file, disturbed>>
             \/ /\ p \notin private /\ file' = page /\ Disturb(p) /\ UNCHANGED own
       \/ /\ Page(p) = <<>> /\ MapGoto(p, "store", "wait")
          /\ UNCHANGED <<file, own, index, disturbed>>
    /\ UNCHANGED <<private, was, fileSize, childSaw, parentSaw>>

(* msync(), munmap(); the file has the bytes of a shared mapping already.   *)
Msync(p) ==
    /\ MapGoto(p, "msync", "child stat") /\ own' = [own EXCEPT ![p] = <<>>]
    /\ UNCHANGED <<file, private, index, was, fileSize, childSaw, parentSaw, disturbed>>

(* _fileContext: what was there at fstat() and still is at read().          *)
Stat(p, from, to) ==
    /\ MapGoto(p, from, to) /\ fileSize' = [fileSize EXCEPT ![p] = Len(file)]
    /\ UNCHANGED <<file, private, own, index, was, childSaw, parentSaw, disturbed>>
Context(p) == IF fileSize[p] > 0 THEN file ELSE <<>>

ChildRead(p) ==
    /\ MapGoto(p, "child read", "wait") /\ childSaw' = [childSaw EXCEPT ![p] = Context(p)]
    /\ UNCHANGED <<file, private, own, index, was, fileSize, parentSaw, disturbed>>
ParentRead(p) ==
    /\ MapGoto(p, "parent read", "exit") /\ parentSaw' = [parentSaw EXCEPT ![p] = Context(p)]
    /\ UNCHANGED <<file, private, own, index, was, fileSize, childSaw, disturbed>>

ChildStat(p) == Stat(p, "child stat", "child read")
\* Mutant: the parent does not wait for its child.
ParentStatAtOnce(p) == Stat(p, "load", "parent read")
ParentStat(p) == Stat(p, "wait", "parent read")

MapRun(p) == \/ OpenTrunc(p) \/ WriteMap(p) \/ LoadByte(p) \/ StoreByte(p) \/ Msync(p)
             \/ ChildStat(p) \/ ChildRead(p) \/ ParentStat(p) \/ ParentRead(p)
MapNext == \E p \in MapProg : MapRun(p)
MapSpec == MapInit /\ [][MapNext]_mapVars
-----------------------------------------------------------------------------
(* An instance whose file no other instance has truncated or written to      *)
(* since it opened it shows what its argument promises (main.c:85-86), to    *)
(* child and parent alike: every byte changed once in a shared mapping, none *)
(* in a private one; and its child is not killed.  An instance that started  *)
(* earlier with a private mapping does not disturb it.                       *)
ShowsMapping ==
    \A p \in MapProg \ disturbed :
        where[p] = "exit" =>
            /\ parentSaw[p] = [k \in 1..MapSize |-> IF p \in private THEN 0 ELSE 1]
            /\ childSaw[p] = parentSaw[p]
=============================================================================
