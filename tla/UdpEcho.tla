------------------------------ MODULE UdpEcho ------------------------------
(***************************************************************************)
(* src/socket/internet_udp: an echo server and clients that send their     *)
(* arguments one datagram at a time, each after the answer to the one      *)
(* before.  Neither side numbers, checks, repeats or times out anything.   *)
(* The network (external) loses, duplicates and reorders; a client has an  *)
(* ephemeral port, which another client may get when the first has ended.  *)
(* A datagram is known by the client and the index of the argument it      *)
(* carries, and by its length.                                             *)
(***************************************************************************)
EXTENDS Integers, Sequences, FiniteSets

CONSTANTS Client, Port,
          Lengths,        \* the arguments of each client, as their lengths
          BuffSize,       \* g_buffSize
          None,
          MaxDup          \* bound: copies the network makes

ASSUME ConstAssumption == /\ None \notin Client \cup Port
                          /\ BuffSize \in Nat \ {0} /\ MaxDup \in Nat
                          /\ Lengths \in Seq(Nat)

VARIABLES pc, i,          \* per client: place, argument to send next
          port,           \* port[c]: its port, None before the first sendto
          resp,           \* resp[c]: what recvfrom returned, in order
          up, down,       \* datagrams on the way to the server, to the clients
          server,         \* "recv" or "send"
          cur,            \* the server's buffer and cltAddr
          lost, copied,   \* clients that had a datagram lost, copied
          reused,         \* clients whose port belonged to another one before
          dups            \* copies made so far

vars == <<pc, i, port, resp, up, down, server, cur, lost, copied, reused, dups>>

Init == /\ pc = [c \in Client |-> "send"]
        /\ i = [c \in Client |-> 1]
        /\ port = [c \in Client |-> None]
        /\ resp = [c \in Client |-> <<>>]
        /\ up = {} /\ down = {} /\ server = "recv" /\ cur = None
        /\ lost = {} /\ copied = {} /\ reused = {} /\ dups = 0

Ended == {"done", "killed"}
Goto(c, from, to) == pc[c] = from /\ pc' = [pc EXCEPT ![c] = to]
InUse == {port[c] : c \in {d \in Client : pc[d] \notin Ended}}
Cut(n) == IF n < BuffSize THEN n ELSE BuffSize
-----------------------------------------------------------------------------
(* client.c: sendto; the first one gives the socket its port.               *)
Send(c) ==
    /\ i[c] <= Len(Lengths)
    /\ \E pt \in IF port[c] = None THEN Port \ InUse ELSE {port[c]} :
          /\ port' = [port EXCEPT ![c] = pt]
          /\ up' = up \cup {[client |-> c, arg |-> i[c], len |-> Lengths[i[c]],
                             port |-> pt, copy |-> 0]}
          /\ reused' = reused \cup {d \in {c} : \E e \in Client \ {c} : port[e] = pt}
    /\ i' = [i EXCEPT ![c] = @ + 1]

ClientSend(c) ==
    /\ Send(c) /\ Goto(c, "send", "recv")
    /\ UNCHANGED <<resp, down, server, cur, lost, copied, dups>>

(* recvfrom: whatever comes to the port is the answer.                      *)
ClientRecv(c) ==
    /\ \E d \in {e \in down : e.port = port[c]} :
          /\ down' = down \ {d}
          /\ resp' = [resp EXCEPT ![c] = Append(@, [d EXCEPT !.len = Cut(@)])]
    /\ Goto(c, "recv", IF i[c] > Len(Lengths) THEN "done" ELSE "send")
    /\ UNCHANGED <<i, port, up, server, cur, lost, copied, reused, dups>>

Kill(c) ==
    /\ pc[c] \notin Ended /\ port[c] # None
    /\ pc' = [pc EXCEPT ![c] = "killed"]
    /\ UNCHANGED <<i, port, resp, up, down, server, cur, lost, copied, reused, dups>>
-----------------------------------------------------------------------------
(* server.c *)
\* Mutant: cltAddr is filled in only once.
ServerRecvFirst ==
    /\ server = "recv" /\ server' = "send"
    /\ \E d \in up : /\ up' = up \ {d}
                     /\ cur' = [d EXCEPT !.len = Cut(@),
                                         !.port = IF cur = None THEN @ ELSE cur.port]
    /\ UNCHANGED <<pc, i, port, resp, down, lost, copied, reused, dups>>
ServerRecv ==
    /\ server = "recv" /\ server' = "send"
    /\ \E d \in up : up' = up \ {d} /\ cur' = [d EXCEPT !.len = Cut(@)]
    /\ UNCHANGED <<pc, i, port, resp, down, lost, copied, reused, dups>>

(* sendto to a port nobody has is no error for an unconnected socket.       *)
ServerSend ==
    /\ server = "send" /\ server' = "recv"
    /\ down' = down \cup {cur}
    /\ UNCHANGED <<pc, i, port, resp, up, cur, lost, copied, reused, dups>>
-----------------------------------------------------------------------------
(* The network.                                                             *)
Lose == /\ \/ \E d \in up : up' = up \ {d} /\ lost' = lost \cup {d.client} /\ UNCHANGED down
           \/ \E d \in down : down' = down \ {d} /\ lost' = lost \cup {d.client} /\ UNCHANGED up
        /\ UNCHANGED <<pc, i, port, resp, server, cur, copied, reused, dups>>

Duplicate ==
    /\ dups < MaxDup /\ dups' = dups + 1
    /\ \/ \E d \in up : /\ up' = up \cup {[d EXCEPT !.copy = dups']}
                        /\ copied' = copied \cup {d.client} /\ UNCHANGED down
       \/ \E d \in down : /\ down' = down \cup {[d EXCEPT !.copy = dups']}
                          /\ copied' = copied \cup {d.client} /\ UNCHANGED up
    /\ UNCHANGED <<pc, i, port, resp, server, cur, lost, reused>>

Server == ServerRecv \/ ServerSend
Run(c) == ClientSend(c) \/ ClientRecv(c)
Next == Server \/ Lose \/ Duplicate \/ \E c \in Client : Run(c) \/ Kill(c)
Spec == Init /\ [][Next]_vars
FairSpec == Spec /\ WF_vars(Server) /\ \A c \in Client : WF_vars(Run(c))
-----------------------------------------------------------------------------
EchoOf(r, c, k) == r.client = c /\ r.arg = k /\ r.len = Cut(Lengths[k])

(* Nothing in a datagram says which request it answers (client.c:54), but    *)
(* waiting for each answer keeps the two in step: the k-th response is the   *)
(* echo of the k-th argument, if none of the client's datagrams was copied   *)
(* and nobody had its port before, whatever is lost or reordered and         *)
(* whatever happens to the other clients.                                    *)
InStep ==
    \A c \in Client \ (copied \cup reused) : \A k \in DOMAIN resp[c] : EchoOf(resp[c][k], c, k)

(* With copies the responses may lag behind for ever after, but they never   *)
(* run ahead: a client only prints echoes of arguments it has already sent.  *)
NeverAhead ==
    \A c \in Client \ reused : \A k \in DOMAIN resp[c] :
       \E j \in 1..k : EchoOf(resp[c][k], c, j)

(* A client hangs in recvfrom only when a datagram of its own was lost: the  *)
(* empty ones and those that are cut down are answered too.                  *)
AllAnswered == \A c \in Client : <>(pc[c] \in Ended \/ c \in lost)
=============================================================================
