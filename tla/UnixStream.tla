----------------------------- MODULE UnixStream -----------------------------
(***************************************************************************)
(* src/socket/unix_domain_tcp: clients copy their standard input into a    *)
(* UNIX stream socket, the server copies one connection after the other to *)
(* its standard output.  A server removes the path before it binds it, so  *)
(* a second server takes the name away from the first, which goes on with  *)
(* the connections it has.  Bytes are known by the client they come from.  *)
(***************************************************************************)
EXTENDS Integers, Sequences, FiniteSets

CONSTANTS StreamServer, StreamClient, Nobody,
          InputSizes,     \* bytes a client may find on its standard input
          ChunkSize,      \* g_buffSize
          Room,           \* bytes the kernel holds for one connection
          Backlog         \* connections that may wait for accept()

ASSUME StreamAssumption == /\ Nobody \notin StreamServer \cup StreamClient
                           /\ InputSizes \subseteq Nat /\ ChunkSize \in Nat \ {0}

VARIABLES name,           \* the server whose socket has the path, or Nobody
          srv, conn,      \* where a server is, the connection it reads
          pendq,          \* pendq[s]: connections that wait for accept()
          out,            \* out[s]: what server s has written
          cli, peer,      \* where a client is, the server it is connected to
          size, rest,     \* bytes on its standard input: at first, and now
          chunk, wire     \* bytes it has still to write, bytes on the way

streamVars == <<name, srv, conn, pendq, out, cli, peer, size, rest, chunk, wire>>

Ended == {"exit", "fail", "killed"}
Listening == {"accept", "read"}

StreamInit == /\ name = Nobody
              /\ srv = [s \in StreamServer |-> "remove"]
              /\ conn = [s \in StreamServer |-> Nobody]
              /\ pendq = [s \in StreamServer |-> <<>>]
              /\ out = [s \in StreamServer |-> <<>>]
              /\ cli = [c \in StreamClient |-> "connect"]
              /\ peer = [c \in StreamClient |-> Nobody]
              /\ size \in [StreamClient -> InputSizes] /\ rest = size
              /\ chunk = [c \in StreamClient |-> 0]
              /\ wire = [c \in StreamClient |-> 0]

CliGoto(c, from, to) == cli[c] = from /\ cli' = [cli EXCEPT ![c] = to]
SrvGoto(s, from, to) == srv[s] = from /\ srv' = [srv EXCEPT ![s] = to]
-----------------------------------------------------------------------------
(* client.c *)
StreamConnect(c) ==
    /\ \/ /\ name # Nobody /\ srv[name] \in Listening /\ Len(pendq[name]) < Backlog
          /\ CliGoto(c, "connect", "read")
          /\ peer' = [peer EXCEPT ![c] = name]
          /\ pendq' = [pendq EXCEPT ![name] = Append(@, c)]
       \/ /\ name \notin {s \in StreamServer : srv[s] \in Listening}
          /\ CliGoto(c, "connect", "fail") /\ UNCHANGED <<peer, pendq>>
    /\ UNCHANGED <<name, srv, conn, out, size, rest, chunk, wire>>

ReadStdin(c) ==
    /\ \/ /\ \E n \in 1..ChunkSize :
              /\ n <= rest[c]
              /\ chunk' = [chunk EXCEPT ![c] = n]
              /\ rest' = [rest EXCEPT ![c] = @ - n]
          /\ CliGoto(c, "read", "write")
       \/ /\ rest[c] = 0 /\ CliGoto(c, "read", "exit")
          /\ UNCHANGED <<chunk, rest>>
    /\ UNCHANGED <<name, srv, conn, pendq, out, peer, size, wire>>

(* A blocking write() goes on as room is made; it fails, or kills the       *)
(* client with SIGPIPE, when the server is gone.                            *)
StreamWrite(c) ==
    /\ \/ /\ CliGoto(c, "write", IF chunk[c] = 1 THEN "read" ELSE "write")
          /\ srv[peer[c]] # "dead" /\ wire[c] < Room
          /\ wire' = [wire EXCEPT ![c] = @ + 1]
          /\ chunk' = [chunk EXCEPT ![c] = @ - 1]
       \/ /\ CliGoto(c, "write", "fail") /\ srv[peer[c]] = "dead"
          /\ UNCHANGED <<wire, chunk>>
    /\ UNCHANGED <<name, srv, conn, pendq, out, peer, size, rest>>

KillClient(c) ==
    /\ cli[c] \in {"read", "write"} /\ cli' = [cli EXCEPT ![c] = "killed"]
    /\ UNCHANGED <<name, srv, conn, pendq, out, peer, size, rest, chunk, wire>>
-----------------------------------------------------------------------------
(* server.c *)
RemovePath(s) == /\ SrvGoto(s, "remove", "bind") /\ name' = Nobody
                 /\ UNCHANGED <<conn, pendq, out, cli, peer, size, rest, chunk, wire>>

BindPath(s) == /\ \/ name = Nobody /\ name' = s /\ SrvGoto(s, "bind", "listen")
                  \/ name # Nobody /\ UNCHANGED name /\ SrvGoto(s, "bind", "dead")
               /\ UNCHANGED <<conn, pendq, out, cli, peer, size, rest, chunk, wire>>

Listen(s) == /\ SrvGoto(s, "listen", "accept")
             /\ UNCHANGED <<name, conn, pendq, out, cli, peer, size, rest, chunk, wire>>

StreamAccept(s) ==
    /\ pendq[s] # <<>> /\ SrvGoto(s, "accept", "read")
    /\ conn' = [conn EXCEPT ![s] = Head(pendq[s])]
    /\ pendq' = [pendq EXCEPT ![s] = Tail(@)]
    /\ UNCHANGED <<name, out, cli, peer, size, rest, chunk, wire>>

Copies(c, n) == [k \in 1..n |-> c]
Copy(s, c) ==
    \E n \in 1..ChunkSize :
        /\ n <= wire[c]
        /\ out' = [out EXCEPT ![s] = @ \o Copies(c, n)]
        /\ wire' = [wire EXCEPT ![c] = @ - n]

\* Mutant: one read() per connection.
StreamReadOnce(s) ==
    /\ SrvGoto(s, "read", "accept")
    /\ \/ Copy(s, conn[s])
       \/ wire[conn[s]] = 0 /\ cli[conn[s]] \in Ended /\ UNCHANGED <<out, wire>>
    /\ conn' = [conn EXCEPT ![s] = Nobody]
    /\ UNCHANGED <<name, pendq, cli, peer, size, rest, chunk>>
(* read() and write() until the end of the connection, then close().        *)
StreamRead(s) ==
    /\ \/ SrvGoto(s, "read", "read") /\ Copy(s, conn[s]) /\ UNCHANGED conn
       \/ /\ SrvGoto(s, "read", "accept")
          /\ wire[conn[s]] = 0 /\ cli[conn[s]] \in Ended
          /\ conn' = [conn EXCEPT ![s] = Nobody] /\ UNCHANGED <<out, wire>>
    /\ UNCHANGED <<name, pendq, cli, peer, size, rest, chunk>>

(* SIGINT: the only way a server ends.                                      *)
Stop(s) == /\ srv[s] \in Listening /\ srv' = [srv EXCEPT ![s] = "dead"]
           /\ UNCHANGED <<name, conn, pendq, out, cli, peer, size, rest, chunk, wire>>

Serve(s) == RemovePath(s) \/ BindPath(s) \/ Listen(s) \/ StreamAccept(s) \/ StreamRead(s)
Feed(c) == StreamConnect(c) \/ ReadStdin(c) \/ StreamWrite(c)
StreamNext == \/ \E s \in StreamServer : Serve(s) \/ Stop(s)
              \/ \E c \in StreamClient : Feed(c) \/ KillClient(c)
StreamSpec == StreamInit /\ [][StreamNext]_streamVars
-----------------------------------------------------------------------------
Written(c, s) == Cardinality({k \in DOMAIN out[s] : out[s][k] = c})

(* What a server writes is its clients' input one after the other, never    *)
(* mixed; and when it goes on to the next connection (server.c:64) it has   *)
(* all that a client wrote, even if that client was killed or the path has  *)
(* long been another server's.                                              *)
WholeInputs ==
    \A s \in StreamServer : \A c \in StreamClient :
        /\ \A i, k \in DOMAIN out[s] :
              out[s][i] = c /\ out[s][k] = c => \A j \in i..k : out[s][j] = c
        /\ peer[c] = s /\ srv[s] # "dead" /\ conn[s] # c
              /\ (\A i \in DOMAIN pendq[s] : pendq[s][i] # c)
              => Written(c, s) = size[c] - rest[c] - chunk[c]

(* Every client comes to its end, and what it wrote comes out of its server, *)
(* however the servers take the path from each other.                       *)
AllCopied ==
    <>(\A c \in StreamClient :
          /\ cli[c] \in Ended
          /\ cli[c] = "exit" => \/ srv[peer[c]] = "dead"
                                \/ Written(c, peer[c]) = size[c])
=============================================================================
