------------------------------ MODULE HttpHead ------------------------------
(***************************************************************************)
(* src/socket/http_client: a client that tries the addresses of a host one *)
(* after the other (main.c) or the first one only (old.c), writes a        *)
(* request, and reads the answer byte by byte up to the blank line, or at  *)
(* most 1024 times.  The server is external: it sends bytes when it likes, *)
(* and it may close or reset the connection at any point, or keep it open. *)
(***************************************************************************)
EXTENDS Integers, Sequences

CONSTANTS HostAddrs,      \* the number of addresses getaddrinfo finds
          ReadLimit       \* sizeof buffer, the reads at most

ASSUME HttpAssumption == HostAddrs \in Nat \ {0} /\ ReadLimit \in Nat

VARIABLES old,            \* old.c instead of main.c
          step, rp,       \* where main is, the address it tries
          sockets,        \* addresses with an open socket
          reads, text,    \* the for loop's i; buffer, NUL where nothing was stored
          sent,           \* bytes the server has sent
          onWire,         \* bytes that were sent and not read
          link            \* "open", "closed" or "reset" by the server

httpVars == <<old, step, rp, sockets, reads, text, sent, onWire, link>>

NUL == "0"
BlankLine == <<"r", "n", "r", "n">>
Addrs == IF old THEN 1 ELSE HostAddrs

HttpInit == /\ old \in BOOLEAN /\ step = "socket" /\ rp = 1 /\ sockets = {}
            /\ reads = 0 /\ text = [k \in 0..(ReadLimit - 1) |-> NUL]
            /\ sent = 0 /\ onWire = <<>> /\ link = "open"

(* The next address, or the end.                                            *)
NextAddr == /\ rp' = rp + 1 /\ step' = IF rp < Addrs THEN "socket" ELSE "exit"
-----------------------------------------------------------------------------
Socket == /\ step = "socket"
          /\ \/ /\ step' = "connect" /\ sockets' = sockets \cup {rp} /\ UNCHANGED rp
             \/ NextAddr /\ UNCHANGED sockets
          /\ UNCHANGED <<old, reads, text, sent, onWire, link>>

HttpConnect == /\ step = "connect"
               /\ \/ step' = "write" /\ UNCHANGED <<rp, sockets>>
                  \/ NextAddr /\ sockets' = sockets \ {rp}
               /\ UNCHANGED <<old, reads, text, sent, onWire, link>>

WriteRequest == /\ step = "write"
                /\ \/ link # "reset" /\ step' = "read"
                   \/ link = "reset" /\ step' = "exit"
                /\ UNCHANGED <<old, rp, sockets, reads, text, sent, onWire, link>>

(* strncmp(buffer + i - 3, "\r\n\r\n", 4) == 0                              *)
AtBlankLine(k) == k >= 3 /\ \A j \in 0..3 : text'[k - 3 + j] = BlankLine[j + 1]

\* Mutant: the last four bytes are compared from the fifth byte on.
ReadCharLate ==
    /\ step = "read"
    /\ \/ /\ reads < ReadLimit /\ onWire # <<>>
          /\ text' = [text EXCEPT ![reads] = Head(onWire)] /\ onWire' = Tail(onWire)
          /\ reads' = reads + 1
          /\ step' = IF reads > 3 /\ AtBlankLine(reads) THEN "close" ELSE "read"
       \/ /\ reads < ReadLimit /\ onWire = <<>> /\ link = "closed"
          /\ reads' = reads + 1 /\ UNCHANGED <<step, text, onWire>>
       \/ /\ reads < ReadLimit /\ link = "reset"
          /\ step' = "close" /\ UNCHANGED <<reads, text, onWire>>
       \/ /\ reads = ReadLimit /\ step' = "close" /\ UNCHANGED <<reads, text, onWire>>
    /\ UNCHANGED <<old, rp, sockets, sent, link>>
(* One turn of the loop: a byte, the end of file (continue), or an error    *)
(* (break); or the end of the loop.                                         *)
ReadChar ==
    /\ step = "read"
    /\ \/ /\ reads < ReadLimit /\ onWire # <<>>
          /\ text' = [text EXCEPT ![reads] = Head(onWire)] /\ onWire' = Tail(onWire)
          /\ reads' = reads + 1 /\ step' = IF AtBlankLine(reads) THEN "close" ELSE "read"
       \/ /\ reads < ReadLimit /\ onWire = <<>> /\ link = "closed"
          /\ reads' = reads + 1 /\ UNCHANGED <<step, text, onWire>>
       \/ /\ reads < ReadLimit /\ link = "reset"
          /\ step' = "close" /\ UNCHANGED <<reads, text, onWire>>
       \/ /\ reads = ReadLimit /\ step' = "close" /\ UNCHANGED <<reads, text, onWire>>
    /\ UNCHANGED <<old, rp, sockets, sent, link>>

HttpClose == /\ step = "close" /\ step' = "exit" /\ sockets' = sockets \ {rp}
             /\ UNCHANGED <<old, rp, reads, text, sent, onWire, link>>
-----------------------------------------------------------------------------
(* The server, as long as the client listens.                               *)
Answer == /\ step = "read" /\ link = "open" /\ onWire = <<>> /\ sent <= ReadLimit
          /\ \E b \in {"r", "n", "o"} : onWire' = <<b>>
          /\ sent' = sent + 1
          /\ UNCHANGED <<old, step, rp, sockets, reads, text, link>>

(* A reset throws away what was not read; writing to a connection that was  *)
(* closed provokes one.                                                     *)
Disconnect == /\ step \in {"write", "read"}
              /\ \/ link = "open" /\ link' = "closed" /\ UNCHANGED onWire
                 \/ link # "reset" /\ link' = "reset" /\ onWire' = <<>>
              /\ UNCHANGED <<old, step, rp, sockets, reads, text, sent>>

HttpMain == Socket \/ HttpConnect \/ WriteRequest \/ ReadChar \/ HttpClose
HttpNext == HttpMain \/ Answer \/ Disconnect
HttpSpec == HttpInit /\ [][HttpNext]_httpVars
-----------------------------------------------------------------------------
EndsBlank(k) == \A j \in 0..3 : text[k - 4 + j] = BlankLine[j + 1]

(* The client prints the head of the answer and nothing after it: it stops   *)
(* at the first blank line, and without one only when the connection is over *)
(* or the buffer is full (main.c:77-95).  It has one socket then, that of    *)
(* the address it has reached, however many it has tried (main.c:43-59).     *)
HeadOnly ==
    /\ \A k \in 4..(reads - 1) : ~EndsBlank(k)
    /\ step = "close" => \/ reads >= 4 /\ EndsBlank(reads)
                         \/ reads = ReadLimit \/ link = "reset"
    /\ step \in {"write", "read", "close"} => sockets = {rp} /\ rp <= Addrs

(* The client ends, also when the server closes in the middle of the head:   *)
(* it waits for ever only for a server that neither sends the blank line nor *)
(* closes.                                                                   *)
HeadEnds == <>(step = "exit") \/ <>[](step = "read" /\ onWire = <<>> /\ link = "open")
=============================================================================
