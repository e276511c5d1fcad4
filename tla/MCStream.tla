------------------------------ MODULE MCStream ------------------------------
(***************************************************************************)
(* The programs that talk over byte streams.  A behaviour is the TCP pair  *)
(* of TcpEcho, the HTTP client of HttpHead, the UNIX stream sockets of     *)
(* UnixStream or the named pipe of Fifo; the other modules stay in their   *)
(* initial state.                                                          *)
(***************************************************************************)
EXTENDS TcpEcho, HttpHead, UnixStream, Fifo

VARIABLE medium           \* "tcp", "http", "unix" or "fifo"

(* Empty, fitting with and without its newline, too long, and two lines.    *)
SomeMessages == {<<>>, <<"a">>, <<"b", "a">>, <<"a", "b", "b">>, <<"a", NL, "b">>}

MCInit == /\ medium \in {"tcp", "http", "unix", "fifo"}
          /\ Init /\ HttpInit /\ StreamInit /\ FifoInit
          /\ medium # "tcp" => \A c \in Client : msg[c] = <<>>
          /\ medium # "http" => old
          /\ medium # "unix" => \A c \in StreamClient : size[c] = 0
          /\ medium # "fifo" => made

(* The step A of the programs that run.                                      *)
TcpStep(A) == medium = "tcp" /\ A /\ UNCHANGED medium /\ UNCHANGED <<httpVars, streamVars, fifoVars>>
HttpStep(A) == medium = "http" /\ A /\ UNCHANGED medium /\ UNCHANGED <<vars, streamVars, fifoVars>>
UnixStep(A) == medium = "unix" /\ A /\ UNCHANGED medium /\ UNCHANGED <<vars, httpVars, fifoVars>>
FifoStep(A) == medium = "fifo" /\ A /\ UNCHANGED medium /\ UNCHANGED <<vars, httpVars, streamVars>>

MCSpec == /\ MCInit
          /\ [][\/ TcpStep(Next) \/ HttpStep(HttpNext)
               \/ UnixStep(StreamNext) \/ FifoStep(FifoNext)]_<<medium, vars, httpVars, streamVars, fifoVars>>
          /\ WF_vars(TcpStep(Server)) /\ \A c \in Client : WF_vars(TcpStep(Run(c)))
          /\ WF_httpVars(HttpStep(HttpMain))
          /\ \A s \in StreamServer : WF_streamVars(UnixStep(Serve(s)))
          /\ \A c \in StreamClient : WF_streamVars(UnixStep(Feed(c)))
          /\ \A w \in FifoWriter : WF_fifoVars(FifoStep(WriterRun(w)))
          /\ \A r \in FifoReader : WF_fifoVars(FifoStep(ReaderRun(r)))

(* Everybody is served in the end: AllServed of TcpEcho, HeadEnds of         *)
(* HttpHead, AllCopied of UnixStream, FifoEnds of Fifo.                      *)
StreamsEnd == /\ medium = "tcp" => AllServed
              /\ medium = "http" => HeadEnds
              /\ medium = "unix" => AllCopied
              /\ medium = "fifo" => FifoEnds
=============================================================================
