------------------------------ MODULE EdgeRead ------------------------------
(***************************************************************************)
(* src/io/epoll/et-read: an edge-triggered loop that reads one byte of a   *)
(* FIFO per event.  The FIFO is open for reading and writing, so it never  *)
(* hangs up; every write() makes it ready again, writes that come before   *)
(* epoll_wait looks are one event.  The program never ends.                *)
(***************************************************************************)
EXTENDS Integers

CONSTANTS MaxWrites, MaxWrite   \* bounds: write() calls, bytes of one

ASSUME EdgeAssumption == MaxWrites \in Nat /\ MaxWrite \in Nat

VARIABLES fifo,           \* bytes in the FIFO
          edge,           \* an event epoll_wait has not reported
          reading,        \* the program is between epoll_wait and read()
          short,          \* a read() found nothing and returned -1
          writes

edgeVars == <<fifo, edge, reading, short, writes>>

EdgeInit == fifo = 0 /\ edge = FALSE /\ reading = FALSE /\ short = FALSE /\ writes = 0

WriteFifo == /\ writes < MaxWrites /\ writes' = writes + 1
             /\ \E n \in 1..MaxWrite : fifo' = fifo + n
             /\ edge' = TRUE /\ UNCHANGED <<reading, short>>

EpollWait == /\ ~reading /\ edge
             /\ reading' = TRUE /\ edge' = FALSE /\ UNCHANGED <<fifo, short, writes>>

\* Mutant: two bytes are read per event.
ReadTwo == /\ reading /\ reading' = FALSE
           /\ short' = (short \/ fifo = 0) /\ fifo' = IF fifo > 2 THEN fifo - 2 ELSE 0
           /\ UNCHANGED <<edge, writes>>
ReadOne == /\ reading /\ reading' = FALSE
           /\ short' = (short \/ fifo = 0) /\ fifo' = IF fifo > 1 THEN fifo - 1 ELSE 0
           /\ UNCHANGED <<edge, writes>>

EdgeNext == WriteFifo \/ EpollWait \/ ReadOne
EdgeSpec == EdgeInit /\ [][EdgeNext]_edgeVars
-----------------------------------------------------------------------------
(* The non-blocking read() after an event always finds a byte, so that       *)
(* buffer[readSize] (main.c:66) is never buffer[-1]: one byte per event      *)
(* leaves bytes behind but never runs ahead of the writers.                  *)
NeverShort == ~short
=============================================================================
