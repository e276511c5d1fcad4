------------------------------ MODULE TcpEcho ------------------------------
(***************************************************************************)
(* src/socket/internet_tcp: an iterative echo server and its clients.  A   *)
(* client connects, writes its argument and a newline, and reads one line; *)
(* the server accepts one connection at a time, reads one line, writes it  *)
(* back and closes.  Both read with readLine (common.c), byte by byte into *)
(* a buffer of g_buffSize bytes.  TCP is external: two byte streams, end   *)
(* of file after close(), and a reset when a side closes with bytes unread *)
(* or is written to after it has closed.                                   *)
(***************************************************************************)
EXTENDS Integers, Sequences, SequencesExt

CONSTANTS Client,
          Messages,     \* arguments a client may be started with
          BuffSize,     \* g_buffSize
          None

NL == "nl"
Byte == {NL} \cup UNION {Range(m) : m \in Messages}

ASSUME SizeAssumption == BuffSize \in Nat \ {0, 1}
ASSUME MessageAssumption == Messages \subseteq Seq(Byte) /\ None \notin Client

VARIABLES msg,          \* msg[c]: the argument of client c
          pc,           \* pc[c]: where client c is
          buffer,       \* buffer[c]: what readLine of client c has stored
          up, down,     \* up[c], down[c]: bytes on the way to, from the server
          closed,       \* connections the server has closed
          reset,        \* connections that were reset
          queue,        \* connections waiting for accept()
          server,       \* where the server is
          cur, line     \* its connection, and its buffer

vars == <<msg, pc, buffer, up, down, closed, reset, queue, server, cur, line>>

Gone == {"ok", "failed", "killed"}

Init == /\ msg \in [Client -> Messages]
        /\ pc = [c \in Client |-> "connect"]
        /\ buffer = [c \in Client |-> <<>>]
        /\ up = [c \in Client |-> <<>>]
        /\ down = [c \in Client |-> <<>>]
        /\ closed = {} /\ reset = {} /\ queue = <<>>
        /\ server = "accept" /\ cur = None /\ line = <<>>

Goto(c, from, to) == pc[c] = from /\ pc' = [pc EXCEPT ![c] = to]

(* readLine, one byte: bytes past the first n - 1 are read and discarded.   *)
Store(stored, b) == IF Len(stored) < BuffSize - 1 THEN Append(stored, b) ELSE stored

\* Mutant: readLine stops when the buffer is full.
LineEndsEarly(stored, b) == b = NL \/ Len(stored) >= BuffSize - 2
LineEnds(stored, b) == b = NL
-----------------------------------------------------------------------------
(* client.c *)
Connect(c) ==
    /\ Goto(c, "connect", "write")
    /\ queue' = Append(queue, c)
    /\ UNCHANGED <<msg, buffer, up, down, closed, reset, server, cur, line>>

(* write(): to a connection the server closed the first one still succeeds  *)
(* and provokes a reset; one after that is an error (or SIGPIPE).           *)
Write(c, from, bytes, to) ==
    /\ \/ /\ c \notin closed /\ Goto(c, from, to)
          /\ up' = [up EXCEPT ![c] = @ \o bytes] /\ UNCHANGED reset
       \/ /\ c \in closed \ reset /\ Goto(c, from, to)
          /\ reset' = reset \cup {c} /\ UNCHANGED up
       \/ /\ c \in reset /\ Goto(c, from, "failed")
          /\ UNCHANGED <<up, reset>>
    /\ UNCHANGED <<msg, buffer, down, closed, queue, server, cur, line>>

WriteMsg(c) == Write(c, "write", msg[c], "newline")
WriteNewline(c) == Write(c, "newline", <<NL>>, "read")

ClientRead(c) ==
    /\ \/ /\ down[c] # <<>>
          /\ Goto(c, "read", IF LineEnds(buffer[c], Head(down[c])) THEN "ok" ELSE "read")
          /\ buffer' = [buffer EXCEPT ![c] = Store(@, Head(down[c]))]
          /\ down' = [down EXCEPT ![c] = Tail(@)]
       \/ /\ down[c] = <<>> /\ c \in closed \ reset                    \* EOF
          /\ Goto(c, "read", IF buffer[c] = <<>> THEN "failed" ELSE "ok")
          /\ UNCHANGED <<buffer, down>>
       \/ /\ c \in reset /\ Goto(c, "read", "failed") /\ UNCHANGED <<buffer, down>>
    /\ UNCHANGED <<msg, up, closed, reset, queue, server, cur, line>>

Kill(c) ==
    /\ pc[c] \notin Gone \cup {"connect"}
    /\ pc' = [pc EXCEPT ![c] = "killed"]
    /\ UNCHANGED <<msg, buffer, up, down, closed, reset, queue, server, cur, line>>
-----------------------------------------------------------------------------
(* server.c *)
\* Mutant: the buffer of the connection before is sent.
AcceptStale ==
    /\ server = "accept" /\ queue # <<>>
    /\ cur' = Head(queue) /\ queue' = Tail(queue)
    /\ server' = "read"
    /\ UNCHANGED <<msg, pc, buffer, up, down, closed, reset, line>>
Accept ==
    /\ server = "accept" /\ queue # <<>>
    /\ cur' = Head(queue) /\ queue' = Tail(queue)
    /\ server' = "read" /\ line' = <<>>
    /\ UNCHANGED <<msg, pc, buffer, up, down, closed, reset>>

\* Mutant: end of file is taken for "no byte yet".
ServerReadNoEof ==
    /\ server = "read" /\ up[cur] # <<>>
    /\ line' = Store(line, Head(up[cur]))
    /\ up' = [up EXCEPT ![cur] = Tail(@)]
    /\ server' = IF LineEnds(line, Head(up[cur])) THEN "reply" ELSE "read"
    /\ UNCHANGED <<msg, pc, buffer, down, closed, reset, queue, cur>>
ServerRead ==
    /\ server = "read"
    /\ \/ /\ up[cur] # <<>>
          /\ line' = Store(line, Head(up[cur]))
          /\ up' = [up EXCEPT ![cur] = Tail(@)]
          /\ server' = IF LineEnds(line, Head(up[cur])) THEN "reply" ELSE "read"
       \/ /\ up[cur] = <<>> /\ pc[cur] \in Gone                        \* EOF
          /\ server' = IF line = <<>> THEN "close" ELSE "reply"
          /\ UNCHANGED <<line, up>>
    /\ UNCHANGED <<msg, pc, buffer, down, closed, reset, queue, cur>>

(* SIGPIPE is ignored: writing to a client that is gone only prints.        *)
Reply ==
    /\ server = "reply" /\ server' = "close"
    /\ down' = [down EXCEPT ![cur] = @ \o line]
    /\ UNCHANGED <<msg, pc, buffer, up, closed, reset, queue, cur, line>>

Close ==
    /\ server = "close" /\ server' = "accept"
    /\ closed' = closed \cup {cur}
    /\ reset' = IF up[cur] # <<>> THEN reset \cup {cur} ELSE reset
    /\ cur' = None
    /\ UNCHANGED <<msg, pc, buffer, up, down, queue, line>>

Server == Accept \/ ServerRead \/ Reply \/ Close
Run(c) == Connect(c) \/ WriteMsg(c) \/ WriteNewline(c) \/ ClientRead(c)
Next == Server \/ \E c \in Client : Run(c) \/ Kill(c)
Spec == Init /\ [][Next]_vars
FairSpec == Spec /\ WF_vars(Server) /\ \A c \in Client : WF_vars(Run(c))
-----------------------------------------------------------------------------
(* readLine as its comment defines it (common.c:19-25): up to and including  *)
(* the first newline, cut down to the first n - 1 bytes.                     *)
FirstLine(s) == SubSeq(s, 1, CHOOSE n \in 1..Len(s) :
                                s[n] = NL /\ \A k \in 1..(n - 1) : s[k] # NL)
Expected(s) == LET l == FirstLine(s)
               IN SubSeq(l, 1, IF Len(l) < BuffSize THEN Len(l) ELSE BuffSize - 1)

(* A client that succeeds has read back the first line of its own message,   *)
(* as far as it fits the buffer, whoever else was connected or killed.       *)
EchoCorrect ==
    \A c \in Client : pc[c] = "ok" => buffer[c] = Expected(Append(msg[c], NL))

(* Reading on to the newline when the buffer is full (common.c:63-68) is     *)
(* what keeps the server from closing with bytes unread: a client whose      *)
(* message is one line is never reset and never fails.                       *)
OneLineSucceeds ==
    \A c \in Client : NL \notin Range(msg[c]) => pc[c] # "failed" /\ c \notin reset

(* One connection at a time is enough: every client is served in the end,    *)
(* also when others are killed in the middle of their request.               *)
AllServed == \A c \in Client : <>(pc[c] \in Gone)
=============================================================================
