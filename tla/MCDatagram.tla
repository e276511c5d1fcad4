----------------------------- MODULE MCDatagram -----------------------------
(***************************************************************************)
(* The datagram echo programs.  A behaviour is the UDP pair of UdpEcho or  *)
(* the UNIX domain pair of UnixDgram; the other module stays in its        *)
(* initial state.                                                          *)
(***************************************************************************)
EXTENDS UdpEcho, TLC

CONSTANTS UnixClient, AddrLen, SockaddrLen, Args, QueueLen,
          c1, c2, c3                               \* clients
VARIABLES domain,                                  \* "inet" or "unix"
          path, xServer, socketSize, cltAddr, xCur, garbled, queue, inbox, xPc, xI, xResp

unixVars == <<path, xServer, socketSize, cltAddr, xCur, garbled, queue, inbox, xPc, xI, xResp>>

(* Process identifiers with three, four and four digits.                    *)
PidLengths == (c1 :> 3) @@ (c2 :> 4) @@ (c3 :> 4)
Unix == INSTANCE UnixDgram WITH Client <- UnixClient,
           server <- xServer, cur <- xCur, pc <- xPc, i <- xI, resp <- xResp

(* An empty argument and one that is longer than the buffer.                *)
TwoArgs == <<0, BuffSize + 1>>

MCInit == domain \in {"inet", "unix"} /\ Init /\ Unix!Init /\ (domain = "inet" => path = "none")

(* The step A of the programs that run.                                      *)
InetStep(A) == domain = "inet" /\ A /\ UNCHANGED domain /\ UNCHANGED unixVars
UnixStep(A) == domain = "unix" /\ A /\ UNCHANGED domain /\ UNCHANGED vars
MCSpec == /\ MCInit /\ [][InetStep(Next) \/ UnixStep(Unix!Next)]_<<domain, vars, unixVars>>
          /\ WF_vars(InetStep(Server)) /\ \A c \in Client : WF_vars(InetStep(Run(c)))
          /\ WF_unixVars(UnixStep(Unix!Server))
          /\ \A c \in UnixClient : WF_unixVars(UnixStep(Unix!Run(c)))

(* InStep and NeverAhead of UdpEcho: which answers a client can trust.       *)
InetInStep == InStep /\ NeverAhead

(* InStep and ServerSurvives of UnixDgram: which answers a client can trust, *)
(* and what ends the server.                                                 *)
UnixInStep == Unix!InStep /\ Unix!ServerSurvives

(* AllAnswered of UdpEcho, AllEnd of UnixDgram.                              *)
AnswersCome == (domain = "inet" => AllAnswered) /\ (domain = "unix" => Unix!AllEnd)
=============================================================================
