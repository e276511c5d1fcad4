-------------------------------- MODULE Fifo --------------------------------
(***************************************************************************)
(* src/io/fifo: readers and writers meet in a named pipe, which whoever    *)
(* does not find it makes.  open() waits for the other end; a writer       *)
(* writes one message, whose last byte is x, in one piece and exits; a     *)
(* reader reads byte by byte until it has read an x or the end of the      *)
(* file.                                                                   *)
(***************************************************************************)
EXTENDS Integers, Sequences

CONSTANTS FifoReader, FifoWriter,
          MsgLen          \* bytes of the message; the last one is x

ASSUME FifoAssumption == MsgLen \in Nat \ {0} /\ FifoReader \cap FifoWriter = {}

VARIABLES made,           \* the path exists
          fpc,            \* where a process is
          ends,           \* processes with an end of the pipe, open() waiting included
          met,            \* processes whose open() has seen the other end
          pipe, got       \* bytes in the pipe, bytes a reader has read

fifoVars == <<made, fpc, ends, met, pipe, got>>
FifoProc == FifoReader \cup FifoWriter
Message == [k \in 1..MsgLen |-> k]
FifoGone == {"x", "eof", "done", "sigpipe", "mkfifo failed"}

FifoInit == /\ made \in BOOLEAN
            /\ fpc = [p \in FifoProc |-> "access"]
            /\ ends = {} /\ met = {} /\ pipe = <<>>
            /\ got = [r \in FifoReader |-> <<>>]

Others(p) == IF p \in FifoReader THEN FifoWriter ELSE FifoReader
Go(p, from, to) == fpc[p] = from /\ fpc' = [fpc EXCEPT ![p] = to]

(* The exit of p.  The bytes go with the last end.                          *)
Leave(p, bytes) == /\ ends' = ends \ {p}
                   /\ pipe' = IF ends = {p} THEN <<>> ELSE bytes
-----------------------------------------------------------------------------
Access(p) == /\ Go(p, "access", IF made THEN "open" ELSE "mkfifo")
             /\ UNCHANGED <<made, ends, met, pipe, got>>

Mkfifo(p) == /\ Go(p, "mkfifo", IF made THEN "mkfifo failed" ELSE "open")
             /\ made' = TRUE
             /\ UNCHANGED <<ends, met, pipe, got>>

\* Mutant: open() does not wait (O_NONBLOCK).
FifoOpenNonblock(p) ==
    /\ Go(p, "open", "opening") /\ ends' = ends \cup {p}
    /\ met' = met \cup {p} \cup (ends \cap Others(p))
    /\ UNCHANGED <<made, pipe, got>>
(* open() counts at once as an end, and releases those who wait for it.     *)
FifoOpen(p) ==
    /\ Go(p, "open", "opening") /\ ends' = ends \cup {p}
    /\ met' = met \cup (ends \cap Others(p))
                  \cup (IF ends \cap Others(p) # {} THEN {p} ELSE {})
    /\ UNCHANGED <<made, pipe, got>>

Opened(p) == /\ p \in met /\ Go(p, "opening", "opened")
             /\ UNCHANGED <<made, ends, met, pipe, got>>

FifoWrite(w) ==
    /\ \/ /\ ends \cap FifoReader # {} /\ Go(w, "opened", "written")
          /\ pipe' = pipe \o Message /\ UNCHANGED ends
       \/ /\ ends \cap FifoReader = {} /\ Go(w, "opened", "sigpipe")
          /\ Leave(w, pipe)
    /\ UNCHANGED <<made, met, got>>

FifoExit(w) == /\ Go(w, "written", "done") /\ Leave(w, pipe)
               /\ UNCHANGED <<made, met, got>>

FifoRead(r) ==
    /\ \/ /\ pipe # <<>>
          /\ got' = [got EXCEPT ![r] = Append(@, Head(pipe))]
          /\ \/ /\ Head(pipe) = MsgLen /\ Go(r, "opened", "x")
                /\ Leave(r, Tail(pipe))
             \/ /\ Head(pipe) # MsgLen /\ Go(r, "opened", "opened")
                /\ pipe' = Tail(pipe) /\ UNCHANGED ends
       \/ /\ pipe = <<>> /\ ends \cap FifoWriter = {} /\ Go(r, "opened", "eof")
          /\ Leave(r, pipe) /\ UNCHANGED got
    /\ UNCHANGED <<made, met>>

FifoRun(p) == Access(p) \/ Mkfifo(p) \/ FifoOpen(p) \/ Opened(p)
WriterRun(w) == FifoRun(w) \/ FifoWrite(w) \/ FifoExit(w)
ReaderRun(r) == FifoRun(r) \/ FifoRead(r)
FifoNext == \/ \E w \in FifoWriter : WriterRun(w)
            \/ \E r \in FifoReader : ReaderRun(r)
FifoSpec == FifoInit /\ [][FifoNext]_fifoVars
-----------------------------------------------------------------------------
(* A reader sees the end of the file ("read size is 0", reader.c:40) only    *)
(* because another reader took bytes from the pipe: the x comes before the   *)
(* end of file, and open() does not return too early.                        *)
EofOnlyShared ==
    \A r \in FifoReader : fpc[r] = "eof" =>
        \E q \in FifoReader \ {r} : got[q] # <<>>

(* Nobody waits for ever, except in open() when all the others are gone.     *)
FifoEnds ==
    <>[](\A p \in FifoProc : fpc[p] \in FifoGone \/
            (fpc[p] = "opening" /\ p \notin met /\ \A q \in Others(p) : fpc[q] \in FifoGone))
=============================================================================
