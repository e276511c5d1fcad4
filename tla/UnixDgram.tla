----------------------------- MODULE UnixDgram -----------------------------
(***************************************************************************)
(* src/socket/unix_domain_udp: an echo server on a UNIX datagram socket    *)
(* and clients that bind a path of their own, send their arguments one by  *)
(* one and read one answer to each.  These sockets (external) lose and     *)
(* reorder nothing; sendto fails when the path has no socket behind it and *)
(* blocks when the receiver's queue is full.                               *)
(*                                                                         *)
(* The server passes the same socketSize to every recvfrom, which reads it *)
(* as the room in cltAddr and overwrites it with the length of the address *)
(* that came.  A longer address after a shorter one is therefore cut off,  *)
(* and what sendto reads in its place is left over or uninitialised:       *)
(* "garbled", an arbitrary address.                                        *)
(***************************************************************************)
EXTENDS Integers, Sequences

CONSTANTS Client,
          AddrLen,        \* AddrLen[c]: length of its path (the pid's digits)
          SockaddrLen,    \* sizeof(struct sockaddr_un)
          Args,           \* number of arguments of a client
          QueueLen,       \* datagrams a socket's queue holds
          None

VARIABLES path,           \* the server's path: "none", "stale" or "bound"
          server,         \* where the server is
          socketSize,
          cltAddr,        \* the client sendto will reach, None if nobody
          cur,            \* the datagram in the server's buffer
          garbled,        \* an address was cut off
          queue,          \* the server socket's queue of <<client, argument>>
          inbox,          \* inbox[c]: the client socket's queue
          pc, i, resp     \* per client: place, next argument, answers

vars == <<path, server, socketSize, cltAddr, cur, garbled, queue, inbox, pc, i, resp>>

Init == /\ path \in {"none", "stale"}
        /\ server = "remove" /\ socketSize = SockaddrLen
        /\ cltAddr = None /\ cur = None /\ garbled = FALSE /\ queue = <<>>
        /\ inbox = [c \in Client |-> <<>>]
        /\ pc = [c \in Client |-> "bind"]
        /\ i = [c \in Client |-> 1]
        /\ resp = [c \in Client |-> <<>>]

Ended == {"done", "failed", "killed"}
Goto(c, from, to) == pc[c] = from /\ pc' = [pc EXCEPT ![c] = to]
Open == {c \in Client : pc[c] \in {"send", "recv", "remove"}}   \* bound to their path
-----------------------------------------------------------------------------
(* server.c *)
Remove ==
    /\ server = "remove" /\ server' = "bind" /\ path' = "none"
    /\ UNCHANGED <<socketSize, cltAddr, cur, garbled, queue, inbox, pc, i, resp>>
Bind ==
    /\ server = "bind" /\ server' = "recv" /\ path' = "bound"
    /\ UNCHANGED <<socketSize, cltAddr, cur, garbled, queue, inbox, pc, i, resp>>

(* recvfrom: socketSize is room on the way in, length on the way out.       *)
ServerRecv ==
    /\ server = "recv" /\ queue # <<>> /\ server' = "send"
    /\ queue' = Tail(queue) /\ cur' = Head(queue)
    /\ LET c == Head(queue)[1] IN
       /\ socketSize' = AddrLen[c]
       /\ \/ AddrLen[c] <= socketSize /\ cltAddr' = c /\ UNCHANGED garbled
          \/ /\ AddrLen[c] > socketSize /\ garbled' = TRUE
             /\ cltAddr' \in Client \cup {None}
    /\ UNCHANGED <<path, inbox, pc, i, resp>>

(* sendto, and fatalError when nobody is there.                             *)
ServerSend ==
    /\ server = "send"
    /\ \/ /\ cltAddr \in Open /\ Len(inbox[cltAddr]) < QueueLen
          /\ inbox' = [inbox EXCEPT ![cltAddr] = Append(@, cur)]
          /\ server' = "recv" /\ UNCHANGED <<path, queue>>
       \/ /\ cltAddr \notin Open
          /\ server' = "dead" /\ path' = "stale" /\ queue' = <<>> /\ UNCHANGED inbox
    /\ UNCHANGED <<socketSize, cltAddr, cur, garbled, pc, i, resp>>
-----------------------------------------------------------------------------
(* client.c: bind fails on a path an earlier process of that pid left.      *)
ClientBind(c) ==
    /\ \/ Goto(c, "bind", IF Args = 0 THEN "remove" ELSE "send")
       \/ Goto(c, "bind", "failed")
    /\ UNCHANGED <<path, server, socketSize, cltAddr, cur, garbled, queue, inbox, i, resp>>

\* Mutant: all arguments are sent before the first answer is read.
ClientSendAll(c) ==
    /\ path = "bound" /\ Len(queue) < QueueLen
    /\ Goto(c, "send", IF i[c] = Args THEN "recv" ELSE "send")
    /\ queue' = Append(queue, <<c, i[c]>>)
    /\ i' = [i EXCEPT ![c] = @ + 1]
    /\ UNCHANGED <<path, server, socketSize, cltAddr, cur, garbled, inbox, resp>>
ClientSend(c) ==
    /\ \/ /\ path = "bound" /\ Len(queue) < QueueLen /\ Goto(c, "send", "recv")
          /\ queue' = Append(queue, <<c, i[c]>>)
          /\ i' = [i EXCEPT ![c] = @ + 1]
       \/ path # "bound" /\ Goto(c, "send", "failed") /\ UNCHANGED <<queue, i>>
    /\ UNCHANGED <<path, server, socketSize, cltAddr, cur, garbled, inbox, resp>>

\* Mutant: the answer is looked at and left in the queue.
ClientRecvPeek(c) ==
    /\ inbox[c] # <<>>
    /\ Goto(c, "recv", IF i[c] > Args THEN "remove" ELSE "send")
    /\ resp' = [resp EXCEPT ![c] = Append(@, Head(inbox[c]))]
    /\ UNCHANGED <<path, server, socketSize, cltAddr, cur, garbled, queue, inbox, i>>
ClientRecv(c) ==
    /\ inbox[c] # <<>>
    /\ Goto(c, "recv", IF i[c] > Args THEN "remove" ELSE "send")
    /\ resp' = [resp EXCEPT ![c] = Append(@, Head(inbox[c]))]
    /\ inbox' = [inbox EXCEPT ![c] = Tail(@)]
    /\ UNCHANGED <<path, server, socketSize, cltAddr, cur, garbled, queue, i>>

ClientRemove(c) ==
    /\ Goto(c, "remove", "done")
    /\ UNCHANGED <<path, server, socketSize, cltAddr, cur, garbled, queue, inbox, i, resp>>

Kill(c) ==
    /\ pc[c] \notin Ended /\ pc' = [pc EXCEPT ![c] = "killed"]
    /\ UNCHANGED <<path, server, socketSize, cltAddr, cur, garbled, queue, inbox, i, resp>>

Server == Remove \/ Bind \/ ServerRecv \/ ServerSend
Run(c) == ClientBind(c) \/ ClientSend(c) \/ ClientRecv(c) \/ ClientRemove(c)
Next == Server \/ \E c \in Client : Run(c) \/ Kill(c)
Spec == Init /\ [][Next]_vars
FairSpec == Spec /\ WF_vars(Server) /\ \A c \in Client : WF_vars(Run(c))
-----------------------------------------------------------------------------
(* Unless an address was cut off, the k-th answer a client reads is the echo *)
(* of its own k-th argument.                                                 *)
InStep ==
    ~garbled => \A c \in Client : \A k \in DOMAIN resp[c] : resp[c][k] = <<c, k>>

(* A sendto that fails ends the server (server.c:50-51).  A client that runs *)
(* to its end never causes that: it removes its path and closes only after   *)
(* the answer to its last argument.  The server dies only of a client that   *)
(* was killed, or of an address that was cut off.                            *)
ServerSurvives ==
    server = "dead" => garbled \/ \E c \in Client : pc[c] = "killed"

(* While the server lives no queue stays full: the clients and the server    *)
(* never end up waiting for each other, and every client comes to an end.    *)
AllEnd == (\A c \in Client : <>(pc[c] \in Ended)) \/ <>(server = "dead" \/ garbled)
=============================================================================
