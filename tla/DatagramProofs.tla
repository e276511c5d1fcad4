--------------------------- MODULE DatagramProofs ---------------------------
(***************************************************************************)
(* Proofs about UdpEcho and UnixDgram (which MCDatagram instantiates as    *)
(* Unix), for any clients, arguments, ports and losses.                    *)
(***************************************************************************)
EXTENDS MCDatagram, TLAPS

(* UdpEcho: what is on the way, the datagram in the server's hands included. *)
Datagram == [client : Client, arg : 1..Len(Lengths), len : Nat, port : Port, copy : Nat]
Flying == up \cup down \cup (IF server = "send" THEN {cur} ELSE {})

UdpTypes ==
    /\ pc \in [Client -> {"send", "recv", "done", "killed"}]
    /\ i \in [Client -> 1..(Len(Lengths) + 1)] /\ port \in [Client -> Port \cup {None}]
    /\ resp \in [Client -> Seq(Datagram)] /\ up \subseteq Datagram /\ down \subseteq Datagram
    /\ server \in {"recv", "send"} /\ (server = "send" => cur \in Datagram)
    /\ dups \in Nat

(* A client gives one answer to each argument it has sent, and is known by   *)
(* its port from its first one.                                              *)
Turns ==
    /\ \A c \in Client : pc[c] \in {"send", "done"} => Len(resp[c]) = i[c] - 1
    /\ \A c \in Client : pc[c] = "recv" => Len(resp[c]) = i[c] - 2
    /\ \A c \in Client : pc[c] = "recv" => port[c] # None
    /\ \A d \in Flying : /\ d.arg < i[d.client] /\ d.port = port[d.client]
                        /\ Cut(d.len) = Cut(Lengths[d.arg])

(* A port is taken from a client that runs by nobody.                        *)
Ports == \A c \in Client \ reused : pc[c] \notin Ended /\ port[c] # None =>
            \A e \in Client \ {c} : port[e] # port[c]

(* At most one datagram of a client whose datagrams were never copied is on  *)
(* the way; it carries the latest argument, and only before the answer.      *)
Single ==
    \A c \in Client \ (copied \cup reused) :
       /\ pc[c] \in {"send", "done"} => \A d \in Flying : d.client # c
       /\ \A d \in Flying : d.client = c => d.arg = i[c] - 1
       /\ \A d, e \in up : d.client = c /\ e.client = c => d = e
       /\ \A d, e \in down : d.client = c /\ e.client = c => d = e
       /\ \A d \in up, e \in down : d.client # c \/ e.client # c
       /\ server = "send" /\ cur.client = c => \A d \in up \cup down : d.client # c

(* The first state: nothing is on the way.                                   *)
LEMMA UdpInitInv == Init => UdpTypes /\ Turns /\ Ports /\ Single /\ InetInStep
<1> SUFFICES ASSUME Init PROVE UdpTypes /\ Turns /\ Ports /\ Single /\ InetInStep
  OBVIOUS
<1> USE ConstAssumption DEF Init
<1>1. UdpTypes
  BY DEF UdpTypes
<1>2. Turns
  BY DEF Turns, Flying
<1>3. Ports /\ Single
  BY DEF Ports, Single, Flying, Ended
<1>4. InetInStep
  BY DEF InetInStep, InStep, NeverAhead
<1> QED BY <1>1, <1>2, <1>3, <1>4

(* Cutting a datagram down changes its length only.                          *)
LEMMA CutDatagram ==
    ASSUME NEW d \in Datagram
    PROVE  /\ [d EXCEPT !.len = Cut(@)] \in Datagram
           /\ [d EXCEPT !.len = Cut(@)].client = d.client
           /\ [d EXCEPT !.len = Cut(@)].arg = d.arg
           /\ [d EXCEPT !.len = Cut(@)].port = d.port
           /\ [d EXCEPT !.len = Cut(@)].len = Cut(d.len)
           /\ Cut(Cut(d.len)) = Cut(d.len)
BY ConstAssumption DEF Datagram, Cut

LEMMA CopyDatagram ==
    ASSUME NEW d \in Datagram, NEW n \in Nat
    PROVE  /\ [d EXCEPT !.copy = n] \in Datagram
           /\ [d EXCEPT !.copy = n].client = d.client
           /\ [d EXCEPT !.copy = n].arg = d.arg
           /\ [d EXCEPT !.copy = n].port = d.port
           /\ [d EXCEPT !.copy = n].len = d.len
BY DEF Datagram

LEMMA AppendFacts ==
    ASSUME NEW S, NEW s \in Seq(S), NEW x \in S
    PROVE  /\ Append(s, x) \in Seq(S) /\ Len(Append(s, x)) = Len(s) + 1
           /\ DOMAIN Append(s, x) = 1..(Len(s) + 1)
           /\ Append(s, x)[Len(s) + 1] = x
           /\ \A k \in DOMAIN s : k \in 1..Len(s) /\ Append(s, x)[k] = s[k]
           /\ Len(s) \in Nat /\ DOMAIN s = 1..Len(s)
OBVIOUS

(* What a sendto adds.                                                       *)
LEMMA SendFacts ==
    ASSUME UdpTypes, NEW c \in Client, ClientSend(c)
    PROVE  \E d \in Datagram :
              /\ d.client = c /\ d.arg = i[c] /\ d.len = Lengths[i[c]]
              /\ d.port \in IF port[c] = None THEN Port \ InUse ELSE {port[c]}
              /\ port' = [port EXCEPT ![c] = d.port] /\ up' = up \cup {d}
              /\ reused' = reused \cup {b \in {c} : \E e \in Client \ {c} : port[e] = d.port}
<1>1. PICK pt \in IF port[c] = None THEN Port \ InUse ELSE {port[c]} :
          /\ port' = [port EXCEPT ![c] = pt]
          /\ up' = up \cup {[client |-> c, arg |-> i[c], len |-> Lengths[i[c]],
                             port |-> pt, copy |-> 0]}
          /\ reused' = reused \cup {d \in {c} : \E e \in Client \ {c} : port[e] = pt}
  BY DEF ClientSend, Send
<1>2. i[c] \in 1..Len(Lengths) /\ Lengths[i[c]] \in Nat /\ pt \in Port
  BY <1>1, ConstAssumption DEF ClientSend, Send, UdpTypes
<1> DEFINE d == [client |-> c, arg |-> i[c], len |-> Lengths[i[c]], port |-> pt, copy |-> 0]
<1>3. d \in Datagram
  BY <1>2 DEF Datagram
<1>4. d.client = c /\ d.arg = i[c] /\ d.len = Lengths[i[c]] /\ d.port = pt
  OBVIOUS
<1> QED BY <1>1, <1>3, <1>4

(* Every step keeps the types.                                               *)
LEMMA UdpTypesStep == UdpTypes /\ [Next]_vars => UdpTypes'
<1> SUFFICES ASSUME UdpTypes, [Next]_vars PROVE UdpTypes'
  OBVIOUS
<1> USE ConstAssumption
<1>1. ASSUME NEW c \in Client, ClientSend(c) PROVE UdpTypes'
  <2>1. PICK d \in Datagram : port' = [port EXCEPT ![c] = d.port] /\ up' = up \cup {d}
    BY <1>1, SendFacts
  <2>2. d.port \in Port
    BY DEF Datagram
  <2> QED BY <1>1, <2>1, <2>2 DEF ClientSend, Send, Goto, UdpTypes
<1>2. ASSUME NEW c \in Client, ClientRecv(c) PROVE UdpTypes'
  <2>1. PICK d \in down : /\ down' = down \ {d}
                          /\ resp' = [resp EXCEPT ![c] = Append(@, [d EXCEPT !.len = Cut(@)])]
    BY <1>2 DEF ClientRecv
  <2>2. Append(resp[c], [d EXCEPT !.len = Cut(@)]) \in Seq(Datagram)
    <3>1. resp[c] \in Seq(Datagram) /\ d \in Datagram
      BY <2>1 DEF UdpTypes
    <3> QED BY <3>1, CutDatagram, AppendFacts
  <2>3. resp' \in [Client -> Seq(Datagram)]
    BY <2>1, <2>2 DEF UdpTypes
  <2> QED BY <1>2, <2>1, <2>3 DEF ClientRecv, Goto, UdpTypes
<1>3. ASSUME NEW c \in Client, Kill(c) PROVE UdpTypes'
  BY <1>3 DEF Kill, UdpTypes
<1>4. CASE ServerRecv
  BY <1>4, CutDatagram DEF ServerRecv, UdpTypes
<1>5. CASE ServerSend
  BY <1>5 DEF ServerSend, UdpTypes
<1>6. CASE Lose
  BY <1>6 DEF Lose, UdpTypes
<1>7. CASE Duplicate
  <2>1. dups' \in Nat
    BY <1>7 DEF Duplicate, UdpTypes
  <2>2. \A d \in up \cup down : [d EXCEPT !.copy = dups'] \in Datagram
    BY <2>1, CopyDatagram DEF UdpTypes
  <2> QED BY <1>7, <2>1, <2>2 DEF Duplicate, UdpTypes
<1>8. CASE UNCHANGED vars
  BY <1>8 DEF vars, UdpTypes
<1> QED BY <1>1, <1>2, <1>3, <1>4, <1>5, <1>6, <1>7, <1>8 DEF Next, Server, Run

(* Nothing appears on the way but what a client sends and the copies the     *)
(* network makes; the server only cuts down what it answers.                 *)
LEMMA OnTheWay ==
    ASSUME UdpTypes, ServerRecv \/ ServerSend \/ Lose \/ Duplicate, NEW d \in Flying'
    PROVE  \E e \in Flying : /\ d.client = e.client /\ d.arg = e.arg /\ d.port = e.port
                             /\ Cut(d.len) = Cut(e.len)
<1>1. CASE ServerRecv
  <2>1. PICK e \in up : up' = up \ {e} /\ cur' = [e EXCEPT !.len = Cut(@)]
    BY <1>1 DEF ServerRecv
  <2>2. e \in Datagram /\ down' = down
    BY <1>1 DEF ServerRecv, UdpTypes
  <2>3. d \in up \cup down \/ d = cur'
    BY <2>1, <2>2 DEF Flying
  <2>4. CASE d = cur'
    BY <2>1, <2>2, <2>4, CutDatagram DEF Flying
  <2> QED BY <2>3, <2>4 DEF Flying
<1>2. CASE ServerSend
  BY <1>2 DEF ServerSend, Flying
<1>3. CASE Lose
  BY <1>3 DEF Lose, Flying
<1>4. CASE Duplicate
  <2>1. dups' \in Nat /\ server' = server /\ cur' = cur
    BY <1>4 DEF Duplicate, UdpTypes
  <2>2. d \in Flying \/ \E e \in up \cup down : d = [e EXCEPT !.copy = dups']
    BY <1>4, <2>1 DEF Duplicate, Flying
  <2>3. ASSUME NEW e \in up \cup down, d = [e EXCEPT !.copy = dups']
        PROVE  d.client = e.client /\ d.arg = e.arg /\ d.port = e.port /\ d.len = e.len
    BY <2>1, <2>3, CopyDatagram DEF UdpTypes
  <2> QED BY <2>2, <2>3 DEF Flying
<1> QED BY <1>1, <1>2, <1>3, <1>4

LEMMA TurnsStep == UdpTypes /\ Turns /\ [Next]_vars => Turns'
<1> SUFFICES ASSUME UdpTypes, Turns, [Next]_vars PROVE Turns'
  OBVIOUS
<1> USE ConstAssumption
<1>1. ASSUME NEW c \in Client, ClientSend(c) PROVE Turns'
  <2>1. PICK d \in Datagram :
           /\ d.client = c /\ d.arg = i[c] /\ d.len = Lengths[i[c]]
           /\ d.port \in IF port[c] = None THEN Port \ InUse ELSE {port[c]}
           /\ port' = [port EXCEPT ![c] = d.port] /\ up' = up \cup {d}
    BY <1>1, SendFacts
  <2>2. /\ pc[c] = "send" /\ pc' = [pc EXCEPT ![c] = "recv"]
        /\ i' = [i EXCEPT ![c] = @ + 1] /\ UNCHANGED <<resp, down, server, cur>>
    BY <1>1 DEF ClientSend, Send, Goto
  <2>3. Flying' = Flying \cup {d} /\ d.port \in Port
    BY <2>1, <2>2 DEF Flying, Datagram
  <2>4. \A e \in Flying : e \in Datagram
    BY DEF Flying, UdpTypes
  <2>5. ASSUME NEW e \in Flying'
        PROVE  /\ e.arg < i'[e.client] /\ e.port = port'[e.client]
               /\ Cut(e.len) = Cut(Lengths[e.arg])
    <3>1. CASE e = d
      BY <2>1, <2>2, <3>1 DEF UdpTypes
    <3>2. CASE e \in Flying
      <4>1. /\ e.arg < i[e.client] /\ e.port = port[e.client] /\ e.client \in Client
            /\ Cut(e.len) = Cut(Lengths[e.arg]) /\ e.port \in Port /\ e.arg \in Nat
        BY <2>4, <3>2 DEF Turns, Datagram
      <4>2. i'[e.client] >= i[e.client] /\ i[e.client] \in Int /\ i'[e.client] \in Int
        BY <2>2, <4>1 DEF UdpTypes
      <4>3. port'[e.client] = port[e.client]
        BY <2>1, <4>1 DEF UdpTypes
      <4> QED BY <4>1, <4>2, <4>3
    <3> QED BY <2>3, <3>1, <3>2
  <2> QED BY <2>1, <2>2, <2>3, <2>5 DEF Turns, UdpTypes
<1>2. ASSUME NEW c \in Client, ClientRecv(c) PROVE Turns'
  <2>1. PICK d \in down : /\ down' = down \ {d}
                          /\ resp' = [resp EXCEPT ![c] = Append(@, [d EXCEPT !.len = Cut(@)])]
    BY <1>2 DEF ClientRecv
  <2>2. resp[c] \in Seq(Datagram) /\ d \in Datagram
    BY <2>1 DEF UdpTypes
  <2>3. Len(resp'[c]) = Len(resp[c]) + 1
    <3>1. resp'[c] = Append(resp[c], [d EXCEPT !.len = Cut(@)])
      BY <2>1 DEF UdpTypes
    <3> QED BY <2>2, <3>1, CutDatagram, AppendFacts
  <2>4. \A e \in Client \ {c} : resp'[e] = resp[e]
    BY <2>1 DEF UdpTypes
  <2>5. Flying' \subseteq Flying /\ UNCHANGED <<i, port>>
    BY <1>2, <2>1 DEF ClientRecv, Flying
  <2>6. pc[c] = "recv" /\ pc'[c] \in {"send", "done"} /\ \A e \in Client \ {c} : pc'[e] = pc[e]
    BY <1>2 DEF ClientRecv, Goto, UdpTypes
  <2>7. i[c] \in Int
    BY DEF UdpTypes
  <2>8. \A e \in Client : pc'[e] \in {"send", "done"} => Len(resp'[e]) = i'[e] - 1
    <3>1. Len(resp[c]) = i[c] - 2
      BY <2>6 DEF Turns
    <3>2. Len(resp'[c]) = i'[c] - 1
      BY <2>3, <2>5, <2>7, <3>1
    <3>3. ASSUME NEW e \in Client \ {c}, pc'[e] \in {"send", "done"} PROVE Len(resp'[e]) = i'[e] - 1
      BY <2>4, <2>5, <2>6, <3>3 DEF Turns
    <3> QED BY <3>2, <3>3
  <2>9. ASSUME NEW e \in Client, pc'[e] = "recv" PROVE Len(resp'[e]) = i'[e] - 2 /\ port'[e] # None
    <3>1. e # c
      BY <2>6, <2>9
    <3> QED BY <2>4, <2>5, <2>6, <2>9, <3>1 DEF Turns
  <2>10. \A e \in Flying' : /\ e.arg < i'[e.client] /\ e.port = port'[e.client]
                            /\ Cut(e.len) = Cut(Lengths[e.arg])
    BY <2>5 DEF Turns
  <2> QED BY <2>8, <2>9, <2>10 DEF Turns
<1>3. ASSUME NEW c \in Client, Kill(c) PROVE Turns'
  BY <1>3 DEF Kill, Turns, UdpTypes, Flying
<1>4. CASE ServerRecv \/ ServerSend \/ Lose \/ Duplicate
  <2>1. UNCHANGED <<pc, i, port, resp>>
    BY <1>4 DEF ServerRecv, ServerSend, Lose, Duplicate
  <2>2. ASSUME NEW d \in Flying'
        PROVE  /\ d.arg < i[d.client] /\ d.port = port[d.client]
               /\ Cut(d.len) = Cut(Lengths[d.arg])
    <3>1. PICK e \in Flying : /\ d.client = e.client /\ d.arg = e.arg /\ d.port = e.port
                              /\ Cut(d.len) = Cut(e.len)
      BY <1>4, OnTheWay
    <3> QED BY <3>1 DEF Turns
  <2> QED BY <2>1, <2>2 DEF Turns
<1>5. CASE UNCHANGED vars
  BY <1>5 DEF vars, Turns, Flying
<1> QED BY <1>1, <1>2, <1>3, <1>4, <1>5 DEF Next, Server, Run

LEMMA PortsStep == UdpTypes /\ Turns /\ Ports /\ [Next]_vars => Ports'
<1> SUFFICES ASSUME UdpTypes, Turns, Ports, [Next]_vars PROVE Ports'
  OBVIOUS
<1> USE ConstAssumption DEF Ended
<1>1. ASSUME NEW c \in Client, ClientSend(c) PROVE Ports'
  <2>1. PICK d \in Datagram :
           /\ d.client = c /\ d.arg = i[c] /\ d.len = Lengths[i[c]]
           /\ d.port \in IF port[c] = None THEN Port \ InUse ELSE {port[c]}
           /\ port' = [port EXCEPT ![c] = d.port] /\ up' = up \cup {d}
           /\ reused' = reused \cup {b \in {c} : \E e \in Client \ {c} : port[e] = d.port}
    BY <1>1, SendFacts
  <2>2. pc[c] = "send" /\ pc' = [pc EXCEPT ![c] = "recv"] /\ d.port \in Port
    BY <1>1 DEF ClientSend, Goto, Datagram
  <2>3. ASSUME NEW b \in Client \ reused', pc'[b] \notin Ended, port'[b] # None,
               NEW e \in Client \ {b}
        PROVE  port'[e] # port'[b]
    <3>1. CASE b = c
      BY <2>1, <2>2, <2>3, <3>1 DEF UdpTypes
    <3>2. CASE b # c
      <4>1. b \in Client \ reused /\ pc[b] \notin Ended /\ port[b] # None /\ port'[b] = port[b]
        BY <2>1, <2>2, <2>3, <3>2 DEF UdpTypes
      <4>2. port[e] # port[b] /\ port[b] \in InUse
        BY <2>3, <4>1 DEF Ports, InUse
      <4> QED BY <2>1, <4>1, <4>2 DEF UdpTypes
    <3> QED BY <3>1, <3>2
  <2> QED BY <2>3 DEF Ports
<1>2. ASSUME NEW c \in Client, ClientRecv(c) PROVE Ports'
  BY <1>2 DEF ClientRecv, Goto, Ports, UdpTypes
<1>3. ASSUME NEW c \in Client, Kill(c) PROVE Ports'
  BY <1>3 DEF Kill, Ports, UdpTypes
<1>4. CASE ServerRecv \/ ServerSend \/ Lose \/ Duplicate \/ UNCHANGED vars
  BY <1>4 DEF ServerRecv, ServerSend, Lose, Duplicate, vars, Ports
<1> QED BY <1>1, <1>2, <1>3, <1>4 DEF Next, Server, Run

(* What a client that was never disturbed has received is its own.           *)
LEMMA OwnAnswer ==
    ASSUME UdpTypes, Turns, Ports, NEW c \in Client \ reused, pc[c] = "recv",
           NEW d \in down, d.port = port[c]
    PROVE  d.client = c
<1>1. d \in Flying /\ d.client \in Client /\ d.port = port[d.client]
  BY DEF Flying, Turns, UdpTypes, Datagram
<1>2. port[c] # None
  BY DEF Turns
<1> QED BY <1>1, <1>2 DEF Ports, Ended

LEMMA SingleStep == UdpTypes /\ Turns /\ Ports /\ Single /\ [Next]_vars => Single'
<1> SUFFICES ASSUME UdpTypes, Turns, Ports, Single, [Next]_vars PROVE Single'
  OBVIOUS
<1> USE ConstAssumption
<1>1. ASSUME NEW c \in Client, ClientSend(c) PROVE Single'
  <2>1. PICK d \in Datagram :
           /\ d.client = c /\ d.arg = i[c] /\ d.len = Lengths[i[c]]
           /\ d.port \in IF port[c] = None THEN Port \ InUse ELSE {port[c]}
           /\ port' = [port EXCEPT ![c] = d.port] /\ up' = up \cup {d}
           /\ reused' = reused \cup {b \in {c} : \E e \in Client \ {c} : port[e] = d.port}
    BY <1>1, SendFacts
  <2>2. /\ pc[c] = "send" /\ pc' = [pc EXCEPT ![c] = "recv"]
        /\ i' = [i EXCEPT ![c] = @ + 1] /\ UNCHANGED <<down, server, cur, copied>>
    BY <1>1 DEF ClientSend, Send, Goto
  <2>3. Flying' = Flying \cup {d}
    BY <2>1, <2>2 DEF Flying
  <2>4. ASSUME NEW b \in Client \ (copied \cup reused), b # c
        PROVE  pc'[b] = pc[b] /\ i'[b] = i[b] /\ d.client # b
    BY <2>1, <2>2, <2>4 DEF UdpTypes
  <2>5. c \notin copied \cup reused => \A e \in Flying : e.client # c
    BY <2>2 DEF Single
  <2>6. pc'[c] = "recv" /\ i'[c] - 1 = i[c]
    BY <2>2 DEF UdpTypes
  <2>7. ASSUME NEW b \in Client \ (copied \cup reused)'
        PROVE  /\ pc'[b] \in {"send", "done"} => \A e \in Flying' : e.client # b
               /\ \A e \in Flying' : e.client = b => e.arg = i'[b] - 1
    BY <2>1, <2>2, <2>3, <2>4, <2>5, <2>6 DEF Single
  <2>8. ASSUME NEW b \in Client \ (copied \cup reused)'
        PROVE  /\ \A e, f \in up' : e.client = b /\ f.client = b => e = f
               /\ \A e, f \in down' : e.client = b /\ f.client = b => e = f
               /\ \A e \in up', f \in down' : e.client # b \/ f.client # b
               /\ server' = "send" /\ cur'.client = b => \A e \in (up \cup down)' : e.client # b
    <3>1. b \in Client \ (copied \cup reused)
      BY <2>1, <2>2
    <3>2. CASE b = c
      BY <2>1, <2>2, <2>5, <3>1, <3>2 DEF Flying
    <3>3. CASE b # c
      BY <2>1, <2>2, <3>1, <3>3 DEF Single
    <3> QED BY <3>2, <3>3
  <2> QED BY <2>7, <2>8 DEF Single
<1>2. ASSUME NEW c \in Client, ClientRecv(c) PROVE Single'
  <2>1. PICK d \in down : d.port = port[c] /\ down' = down \ {d}
    BY <1>2 DEF ClientRecv
  <2>2. /\ pc[c] = "recv" /\ \A b \in Client \ {c} : pc'[b] = pc[b]
        /\ UNCHANGED <<i, up, server, cur, copied, reused>>
    BY <1>2 DEF ClientRecv, Goto, UdpTypes
  <2>3. Flying' \subseteq Flying /\ d \in Flying
    BY <2>1, <2>2 DEF Flying
  <2>4. ASSUME c \notin copied \cup reused PROVE \A e \in Flying' : e.client # c
    <3>1. d.client = c
      BY <2>1, <2>2, <2>4, OwnAnswer
    <3> QED BY <2>1, <2>2, <2>4, <3>1 DEF Single, Flying
  <2> QED BY <2>1, <2>2, <2>3, <2>4 DEF Single
<1>3. ASSUME NEW c \in Client, Kill(c) PROVE Single'
  BY <1>3 DEF Kill, Single, UdpTypes, Flying
<1>4. CASE ServerRecv
  <2>1. PICK e \in up : up' = up \ {e} /\ cur' = [e EXCEPT !.len = Cut(@)]
    BY <1>4 DEF ServerRecv
  <2>2. /\ cur'.client = e.client /\ cur'.arg = e.arg /\ server = "recv" /\ server' = "send"
        /\ UNCHANGED <<pc, i, down, copied, reused>>
    BY <1>4, <2>1, CutDatagram DEF ServerRecv, UdpTypes
  <2>3. Flying' = up' \cup down \cup {cur'} /\ Flying = up \cup down
    BY <2>2 DEF Flying
  <2>4. ASSUME NEW b \in Client \ (copied \cup reused)
        PROVE  /\ pc[b] \in {"send", "done"} => \A d \in Flying' : d.client # b
               /\ \A d \in Flying' : d.client = b => d.arg = i[b] - 1
    <3>1. \A d \in Flying' : \E f \in Flying : d.client = f.client /\ d.arg = f.arg
      BY <1>4, OnTheWay
    <3> QED BY <3>1 DEF Single
  <2>5. ASSUME NEW b \in Client \ (copied \cup reused), cur'.client = b, NEW d \in up' \cup down
        PROVE  d.client # b
    BY <2>1, <2>2, <2>5 DEF Single
  <2> QED BY <2>1, <2>2, <2>4, <2>5 DEF Single
<1>5. CASE ServerSend
  <2>1. /\ server = "send" /\ server' = "recv" /\ down' = down \cup {cur}
        /\ UNCHANGED <<pc, i, up, copied, reused>>
    BY <1>5 DEF ServerSend
  <2>2. Flying' = Flying
    BY <2>1 DEF Flying
  <2> QED BY <2>1, <2>2 DEF Single
<1>6. CASE Lose
  <2>1. /\ up' \subseteq up /\ down' \subseteq down
        /\ UNCHANGED <<pc, i, server, cur, copied, reused>>
    BY <1>6 DEF Lose
  <2>2. Flying' \subseteq Flying
    BY <2>1 DEF Flying
  <2> QED BY <2>1, <2>2 DEF Single
<1>7. CASE Duplicate
  <2>1. PICK e \in up \cup down :
           /\ copied' = copied \cup {e.client}
           /\ \/ up' = up \cup {[e EXCEPT !.copy = dups']} /\ UNCHANGED down
              \/ down' = down \cup {[e EXCEPT !.copy = dups']} /\ UNCHANGED up
    BY <1>7 DEF Duplicate
  <2>2. [e EXCEPT !.copy = dups'].client = e.client
    BY <1>7, <2>1, CopyDatagram DEF Duplicate, UdpTypes
  <2>3. UNCHANGED <<pc, i, server, cur, reused>>
    BY <1>7 DEF Duplicate
  <2>4. ASSUME NEW b \in Client \ (copied \cup reused)'
        PROVE  /\ b \in Client \ (copied \cup reused)
               /\ \A d \in up' : d.client = b => d \in up
               /\ \A d \in down' : d.client = b => d \in down
               /\ \A d \in Flying' : d.client = b => d \in Flying
    BY <2>1, <2>2, <2>3 DEF Flying
  <2>5. up \subseteq up' /\ down \subseteq down'
    BY <2>1
  <2> QED BY <2>3, <2>4, <2>5 DEF Single
<1>8. CASE UNCHANGED vars
  BY <1>8 DEF vars, Single, Flying
<1> QED BY <1>1, <1>2, <1>3, <1>4, <1>5, <1>6, <1>7, <1>8 DEF Next, Server, Run

(* Only recvfrom adds an answer, and only when it is due.                    *)
LEMMA InetInStepStep ==
    UdpTypes /\ Turns /\ Ports /\ Single /\ InetInStep /\ [Next]_vars => InetInStep'
<1> SUFFICES ASSUME UdpTypes, Turns, Ports, Single, InetInStep, [Next]_vars PROVE InetInStep'
  OBVIOUS
<1> USE ConstAssumption
<1>1. ASSUME resp' = resp, copied \subseteq copied', reused \subseteq reused' PROVE InetInStep'
  BY <1>1 DEF InetInStep, InStep, NeverAhead, EchoOf, Cut
<1>2. ASSUME NEW c \in Client, ClientSend(c) PROVE InetInStep'
  BY <1>1, <1>2 DEF ClientSend, Send
<1>3. ASSUME NEW c \in Client, Kill(c) PROVE InetInStep'
  BY <1>1, <1>3 DEF Kill
<1>4. CASE ServerRecv \/ ServerSend \/ Lose \/ Duplicate \/ UNCHANGED vars
  BY <1>1, <1>4 DEF ServerRecv, ServerSend, Lose, Duplicate, vars
<1>5. ASSUME NEW c \in Client, ClientRecv(c) PROVE InetInStep'
  <2>1. PICK d \in down : /\ d.port = port[c] /\ down' = down \ {d}
                          /\ resp' = [resp EXCEPT ![c] = Append(@, [d EXCEPT !.len = Cut(@)])]
    BY <1>5 DEF ClientRecv
  <2> DEFINE r == [d EXCEPT !.len = Cut(@)]
  <2>2. /\ resp[c] \in Seq(Datagram) /\ d \in Datagram /\ i[c] \in Int
        /\ pc[c] = "recv" /\ UNCHANGED <<copied, reused>>
    BY <1>5 DEF UdpTypes, ClientRecv, Goto
  <2>3. r \in Datagram /\ r.client = d.client /\ r.arg = d.arg /\ r.len = Cut(d.len)
    BY <2>2, CutDatagram
  <2>4. /\ resp'[c] = Append(resp[c], r) /\ \A b \in Client \ {c} : resp'[b] = resp[b]
    BY <2>1 DEF UdpTypes
  <2>5. Len(resp[c]) + 1 = i[c] - 1
    BY <2>2 DEF Turns
  <2>6. d.arg < i[c] \/ d.client # c
    BY <2>1 DEF Turns, Flying
  <2>7. c \notin reused => EchoOf(r, c, d.arg) /\ d.arg \in 1..(Len(resp[c]) + 1)
    <3>1. c \notin reused => d.client = c
      BY <2>1, <2>2, OwnAnswer
    <3>2. Cut(d.len) = Cut(Lengths[d.arg]) /\ d.arg \in 1..Len(Lengths)
      BY <2>1, <2>2 DEF Turns, Flying, Datagram
    <3>3. Len(Lengths) \in Nat
      OBVIOUS
    <3> QED BY <2>2, <2>3, <2>5, <2>6, <3>1, <3>2, <3>3 DEF EchoOf
  <2>8. c \notin copied \cup reused => d.arg = Len(resp[c]) + 1
    <3>1. c \notin reused => d.client = c
      BY <2>1, <2>2, OwnAnswer
    <3> QED BY <2>1, <2>5, <3>1 DEF Single, Flying
  <2> HIDE DEF r
  <2>9. /\ DOMAIN resp'[c] = 1..(Len(resp[c]) + 1) /\ resp'[c][Len(resp[c]) + 1] = r
        /\ \A k \in DOMAIN resp[c] : resp'[c][k] = resp[c][k]
        /\ DOMAIN resp[c] = 1..Len(resp[c]) /\ Len(resp[c]) \in Nat
    BY <2>2, <2>3, <2>4, AppendFacts
  <2>a. \A k \in DOMAIN resp'[c] : k \in DOMAIN resp[c] \/ k = Len(resp[c]) + 1
    BY <2>9
  <2>b. ASSUME NEW b \in Client \ (copied \cup reused), NEW k \in DOMAIN resp'[b]
        PROVE  EchoOf(resp'[b][k], b, k)
    <3>1. \A j \in DOMAIN resp[b] : EchoOf(resp[b][j], b, j)
      BY DEF InetInStep, InStep
    <3> QED BY <2>4, <2>7, <2>8, <2>9, <2>a, <2>b, <3>1
  <2>c. ASSUME NEW b \in Client \ reused, NEW k \in DOMAIN resp'[b]
        PROVE  \E j \in 1..k : EchoOf(resp'[b][k], b, j)
    <3>1. \A m \in DOMAIN resp[b] : \E j \in 1..m : EchoOf(resp[b][m], b, j)
      BY DEF InetInStep, NeverAhead
    <3> QED BY <2>4, <2>7, <2>9, <2>a, <2>c, <3>1
  <2> QED BY <2>2, <2>b, <2>c DEF InetInStep, InStep, NeverAhead, EchoOf, Cut
<1> QED BY <1>2, <1>3, <1>4, <1>5 DEF Next, Server, Run

(* The k-th answer is the echo of the k-th argument unless the client's      *)
(* datagrams were copied or its port was another's before, and it is never   *)
(* ahead even if they were: for any clients, ports, arguments and losses.    *)
THEOREM AnswersInStep == Spec => []InetInStep
BY UdpInitInv, UdpTypesStep, TurnsStep, PortsStep, SingleStep, InetInStepStep, PTL DEF Spec
-----------------------------------------------------------------------------
(* UnixDgram.  A request is a client and the index of an argument.           *)
Request == UnixClient \X Nat
Latest(c) == <<c, xI[c] - 1>>
Asking == {c \in UnixClient : xPc[c] \in {"recv", "killed"}}

UnixTypes ==
    /\ queue \in Seq(Request) /\ inbox \in [UnixClient -> Seq(Request)]
    /\ xPc \in [UnixClient -> {"bind", "send", "recv", "remove", "done", "failed", "killed"}]
    /\ xI \in [UnixClient -> Nat \ {0}] /\ xResp \in [UnixClient -> Seq(Request)]
    /\ \A c \in UnixClient : xPc[c] = "bind" => xI[c] = 1 /\ xResp[c] = <<>>
    /\ \A c \in UnixClient : xPc[c] \in {"send", "remove", "done"} => Len(xResp[c]) = xI[c] - 1
    /\ \A c \in UnixClient : xPc[c] = "recv" => Len(xResp[c]) = xI[c] - 2

(* The latest request of a client that waits for its answer, or was killed   *)
(* while it did, is in one place: the server's queue, its buffer, or the     *)
(* client's inbox.                                                           *)
InQueue ==
    /\ \A k \in DOMAIN queue : queue[k][1] \in Asking /\ queue[k] = Latest(queue[k][1])
    /\ \A k, m \in DOMAIN queue : queue[k][1] = queue[m][1] => k = m
InHand == xServer = "send" =>
    /\ cltAddr \in Asking /\ xCur = Latest(cltAddr) /\ inbox[cltAddr] = <<>>
    /\ \A k \in DOMAIN queue : queue[k][1] # cltAddr
InBox == \A c \in UnixClient : inbox[c] # <<>> =>
    /\ c \in Asking /\ inbox[c] = <<Latest(c)>>
    /\ \A k \in DOMAIN queue : queue[k][1] # c

(* As long as no address was cut off.                                        *)
UnixInv == ~garbled => UnixTypes /\ InQueue /\ InHand /\ InBox /\ UnixInStep

LEMMA UnixInitInv == Unix!Init => UnixInv
<1> SUFFICES ASSUME Unix!Init PROVE UnixInv
  OBVIOUS
<1> USE DEF Unix!Init
<1>1. UnixTypes
  BY DEF UnixTypes
<1>2. InQueue /\ InHand /\ InBox
  BY DEF InQueue, InHand, InBox
<1>3. UnixInStep
  BY DEF UnixInStep, Unix!InStep, Unix!ServerSurvives
<1> QED BY <1>1, <1>2, <1>3 DEF UnixInv

(* What is left of a queue after its first element.                          *)
LEMMA TailFacts ==
    ASSUME NEW S, NEW s \in Seq(S), s # <<>>
    PROVE  /\ Tail(s) \in Seq(S) /\ Head(s) = s[1] /\ 1 \in DOMAIN s /\ s[1] \in S
           /\ \A k \in DOMAIN Tail(s) : k + 1 \in DOMAIN s /\ k + 1 # 1 /\ Tail(s)[k] = s[k + 1]
OBVIOUS

LEMMA UnixNextInv == UnixInv /\ [Unix!Next]_unixVars => UnixInv'
<1> SUFFICES ASSUME UnixInv, [Unix!Next]_unixVars, ~garbled'
             PROVE  (UnixTypes /\ InQueue /\ InHand /\ InBox /\ UnixInStep)'
  BY DEF UnixInv
<1>0. ~garbled /\ UnixTypes /\ InQueue /\ InHand /\ InBox /\ UnixInStep
  <2>1. ~garbled
    BY DEF Unix!Next, Unix!Server, Unix!Run, Unix!Remove, Unix!Bind, Unix!ServerRecv,
           Unix!ServerSend, Unix!ClientBind, Unix!ClientSend, Unix!ClientRecv,
           Unix!ClientRemove, Unix!Kill, unixVars
  <2> QED BY <2>1 DEF UnixInv
<1>a. /\ \A c \in UnixClient : \A k \in DOMAIN xResp[c] : xResp[c][k] = <<c, k>>
      /\ xServer = "dead" => \E c \in UnixClient : xPc[c] = "killed"
  BY <1>0 DEF UnixInStep, Unix!InStep, Unix!ServerSurvives
<1>1. CASE Unix!Remove \/ Unix!Bind \/ UNCHANGED unixVars
  BY <1>0, <1>1 DEF Unix!Remove, Unix!Bind, unixVars, UnixTypes, InQueue, InHand, InBox, Asking, Latest,
                  UnixInStep, Unix!InStep, Unix!ServerSurvives
<1>2. CASE Unix!ServerRecv
  <2>1. /\ xServer = "recv" /\ queue # <<>> /\ queue' = Tail(queue) /\ xCur' = Head(queue)
        /\ xServer' = "send" /\ cltAddr' = Head(queue)[1]
        /\ UNCHANGED <<inbox, xPc, xI, xResp>>
    BY <1>2 DEF Unix!ServerRecv
  <2>2. /\ queue' \in Seq(Request) /\ xCur' = queue[1] /\ 1 \in DOMAIN queue
        /\ \A k \in DOMAIN queue' : k + 1 \in DOMAIN queue /\ k + 1 # 1 /\ queue'[k] = queue[k + 1]
    BY <1>0, <2>1, TailFacts DEF UnixTypes
  <2>3. Asking' = Asking /\ \A c \in UnixClient : Latest(c)' = Latest(c)
    BY <2>1 DEF Asking, Latest
  <2>4. UnixTypes'
    BY <1>0, <2>1, <2>2 DEF UnixTypes
  <2>5. InQueue'
    BY <1>0, <2>1, <2>2, <2>3 DEF InQueue, Asking, Latest
  <2>6. InHand'
    <3>1. cltAddr' = queue[1][1] /\ cltAddr' \in Asking /\ xCur' = Latest(cltAddr')
      BY <1>0, <2>1, <2>2 DEF InQueue
    <3>2. inbox[cltAddr'] = <<>>
      BY <1>0, <2>2, <3>1 DEF InBox, Asking
    <3>3. \A k \in DOMAIN queue' : queue'[k][1] # cltAddr'
      BY <1>0, <2>2, <3>1 DEF InQueue
    <3> QED BY <2>1, <2>3, <3>1, <3>2, <3>3 DEF InHand, Latest, Asking
  <2>7. InBox'
    BY <1>0, <2>1, <2>2, <2>3 DEF InBox, Asking, Latest
  <2>8. UnixInStep'
    BY <1>a, <2>1 DEF UnixInStep, Unix!InStep, Unix!ServerSurvives
  <2> QED BY <2>4, <2>5, <2>6, <2>7, <2>8
<1>3. CASE Unix!ServerSend
  <2>0. /\ xServer = "send" /\ UNCHANGED <<cltAddr, xPc, xI, xResp>>
        /\ cltAddr \in Asking /\ xCur = Latest(cltAddr) /\ inbox[cltAddr] = <<>>
        /\ cltAddr \in UnixClient /\ \A k \in DOMAIN queue : queue[k][1] # cltAddr
    BY <1>0, <1>3 DEF Unix!ServerSend, InHand, Asking
  <2>1. CASE /\ inbox' = [inbox EXCEPT ![cltAddr] = Append(@, xCur)]
             /\ xServer' = "recv" /\ UNCHANGED queue
    <3>1. xCur \in Request /\ Append(<<>>, xCur) = <<xCur>> /\ <<xCur>> \in Seq(Request)
      BY <1>0, <2>0 DEF UnixTypes, Request, Latest
    <3>2. inbox' = [inbox EXCEPT ![cltAddr] = <<Latest(cltAddr)>>]
      BY <2>0, <2>1, <3>1
    <3>3. UnixTypes'
      BY <1>0, <2>0, <2>1, <3>1, <3>2 DEF UnixTypes
    <3>4. InQueue' /\ InHand'
      BY <1>0, <2>0, <2>1 DEF InQueue, InHand, Asking, Latest
    <3>5. InBox'
      BY <1>0, <2>0, <2>1, <3>2 DEF InBox, Asking, Latest, UnixTypes
    <3>6. UnixInStep'
      BY <1>a, <2>0, <2>1 DEF UnixInStep, Unix!InStep, Unix!ServerSurvives
    <3> QED BY <3>3, <3>4, <3>5, <3>6
  <2>2. CASE /\ cltAddr \notin Unix!Open /\ xServer' = "dead" /\ queue' = <<>> /\ UNCHANGED inbox
    <3>1. xPc[cltAddr] = "killed"
      BY <2>0, <2>2 DEF Unix!Open, Asking
    <3>2. UnixTypes'
      BY <1>0, <2>0, <2>2 DEF UnixTypes
    <3>3. InQueue' /\ InHand' /\ InBox'
      BY <1>0, <2>0, <2>2 DEF InQueue, InHand, InBox, Asking, Latest
    <3>4. UnixInStep'
      BY <1>a, <2>0, <2>2, <3>1 DEF UnixInStep, Unix!InStep, Unix!ServerSurvives
    <3> QED BY <3>2, <3>3, <3>4
  <2> QED BY <1>3, <2>1, <2>2 DEF Unix!ServerSend
<1>4. ASSUME NEW c \in UnixClient, Unix!ClientBind(c) \/ Unix!ClientRemove(c) \/ Unix!Kill(c)
      PROVE  (UnixTypes /\ InQueue /\ InHand /\ InBox /\ UnixInStep)'
  <2>1. /\ UNCHANGED <<xServer, cltAddr, xCur, garbled, queue, inbox, xI, xResp>>
        /\ \E to \in {"send", "remove", "done", "failed", "killed"} :
              /\ xPc' = [xPc EXCEPT ![c] = to]
              /\ to \in {"send", "remove"} => xPc[c] = "bind"
              /\ to = "done" => xPc[c] = "remove"
              /\ xPc[c] \in {"recv", "killed"} => to = "killed"
    BY <1>4 DEF Unix!ClientBind, Unix!ClientRemove, Unix!Kill, Unix!Goto, Unix!Ended
  <2>2. PICK to \in {"send", "remove", "done", "failed", "killed"} :
              /\ xPc' = [xPc EXCEPT ![c] = to]
              /\ to \in {"send", "remove"} => xPc[c] = "bind"
              /\ to = "done" => xPc[c] = "remove"
              /\ xPc[c] \in {"recv", "killed"} => to = "killed"
    BY <2>1
  <2>3. UnixTypes'
    BY <1>0, <2>1, <2>2 DEF UnixTypes
  <2>4. Asking \subseteq Asking' /\ \A d \in UnixClient : Latest(d)' = Latest(d)
    BY <1>0, <2>1, <2>2 DEF UnixTypes, Asking, Latest
  <2>5. InQueue' /\ InHand' /\ InBox'
    BY <1>0, <2>1, <2>4 DEF InQueue, InHand, InBox, Asking, Latest
  <2>6. \A d \in UnixClient : xPc[d] = "killed" => xPc'[d] = "killed"
    BY <1>0, <2>2 DEF UnixTypes
  <2>7. UnixInStep'
    BY <1>a, <2>1, <2>6 DEF UnixInStep, Unix!InStep, Unix!ServerSurvives
  <2> QED BY <2>3, <2>5, <2>7
<1>5. ASSUME NEW c \in UnixClient, Unix!ClientSend(c)
      PROVE  (UnixTypes /\ InQueue /\ InHand /\ InBox /\ UnixInStep)'
  <2>0. xPc[c] = "send" /\ UNCHANGED <<xServer, cltAddr, xCur, inbox, xResp>>
    BY <1>5 DEF Unix!ClientSend, Unix!Goto
  <2>1. CASE xPc' = [xPc EXCEPT ![c] = "failed"] /\ UNCHANGED <<queue, xI>>
    <3>1. UnixTypes'
      BY <1>0, <2>0, <2>1 DEF UnixTypes
    <3>2. Asking' = Asking /\ \A d \in UnixClient : Latest(d)' = Latest(d)
      BY <1>0, <2>0, <2>1 DEF UnixTypes, Asking, Latest
    <3>3. InQueue' /\ InHand' /\ InBox'
      BY <1>0, <2>0, <2>1, <3>2 DEF InQueue, InHand, InBox, Asking, Latest
    <3>4. \A d \in UnixClient : xPc[d] = "killed" => xPc'[d] = "killed"
      BY <1>0, <2>0, <2>1 DEF UnixTypes
    <3>5. UnixInStep'
      BY <1>a, <2>0, <3>4 DEF UnixInStep, Unix!InStep, Unix!ServerSurvives
    <3> QED BY <3>1, <3>3, <3>5
  <2>2. CASE /\ xPc' = [xPc EXCEPT ![c] = "recv"]
             /\ queue' = Append(queue, <<c, xI[c]>>) /\ xI' = [xI EXCEPT ![c] = @ + 1]
    <3>1. /\ <<c, xI[c]>> \in Request /\ queue' \in Seq(Request)
          /\ DOMAIN queue' = DOMAIN queue \cup {Len(queue) + 1}
          /\ Len(queue) + 1 \notin DOMAIN queue
          /\ queue'[Len(queue) + 1] = <<c, xI[c]>>
          /\ \A k \in DOMAIN queue : queue'[k] = queue[k]
      <4>1. <<c, xI[c]>> \in Request /\ queue \in Seq(Request)
        BY <1>0 DEF UnixTypes, Request
      <4> QED BY <2>2, <4>1
    <3>2. UnixTypes'
      BY <1>0, <2>0, <2>2, <3>1 DEF UnixTypes
    <3>3. /\ c \notin Asking /\ Asking' = Asking \cup {c} /\ Latest(c)' = <<c, xI[c]>>
          /\ \A d \in UnixClient \ {c} : Latest(d)' = Latest(d)
      BY <1>0, <2>0, <2>2 DEF UnixTypes, Asking, Latest
    <3>4. \A k \in DOMAIN queue : /\ queue[k][1] \in Asking' /\ queue[k][1] # c
                                  /\ queue[k] = <<queue[k][1], xI'[queue[k][1]] - 1>>
      BY <1>0, <3>3 DEF InQueue, Asking, Latest
    <3>5. InQueue'
      <4>1. \A k \in DOMAIN queue' : queue'[k][1] \in Asking' /\ queue'[k] = <<queue'[k][1], xI'[queue'[k][1]] - 1>>
        BY <3>1, <3>3, <3>4 DEF Latest
      <4>2. \A k, m \in DOMAIN queue' : queue'[k][1] = queue'[m][1] => k = m
        BY <1>0, <3>1, <3>4 DEF InQueue
      <4> QED BY <4>1, <4>2 DEF InQueue, Latest, Asking
    <3>6. InHand'
      <4>1. ASSUME xServer = "send" PROVE cltAddr # c /\ cltAddr \in UnixClient
        BY <1>0, <3>3, <4>1 DEF InHand, Asking
      <4> QED BY <1>0, <2>0, <3>1, <3>3, <4>1 DEF InHand, Latest, Asking
    <3>7. InBox'
      <4>1. ASSUME NEW d \in UnixClient, inbox[d] # <<>> PROVE d # c
        BY <1>0, <3>3, <4>1 DEF InBox
      <4> QED BY <1>0, <2>0, <3>1, <3>3, <4>1 DEF InBox, Latest, Asking
    <3>8. \A d \in UnixClient : xPc[d] = "killed" => xPc'[d] = "killed"
      BY <1>0, <2>0, <2>2 DEF UnixTypes
    <3>9. UnixInStep'
      BY <1>a, <2>0, <3>8 DEF UnixInStep, Unix!InStep, Unix!ServerSurvives
    <3> QED BY <3>2, <3>5, <3>6, <3>7, <3>9
  <2> QED BY <1>5, <2>1, <2>2 DEF Unix!ClientSend, Unix!Goto
<1>6. ASSUME NEW c \in UnixClient, Unix!ClientRecv(c)
      PROVE  (UnixTypes /\ InQueue /\ InHand /\ InBox /\ UnixInStep)'
  <2>0. /\ xPc[c] = "recv" /\ inbox[c] # <<>> /\ UNCHANGED <<xServer, cltAddr, xCur, queue, xI>>
        /\ \E to \in {"remove", "send"} : xPc' = [xPc EXCEPT ![c] = to]
    BY <1>6 DEF Unix!ClientRecv, Unix!Goto
  <2>1. PICK to \in {"remove", "send"} : xPc' = [xPc EXCEPT ![c] = to]
    BY <2>0
  <2>2. /\ inbox[c] = <<Latest(c)>> /\ \A k \in DOMAIN queue : queue[k][1] # c
        /\ xServer = "send" => cltAddr # c
    BY <1>0, <2>0 DEF InBox, InHand
  <2>3. Head(inbox[c]) = <<c, xI[c] - 1>> /\ Tail(inbox[c]) = <<>> /\ <<c, xI[c] - 1>> \in Request
    BY <1>0, <2>2 DEF Latest, Request, UnixTypes
  <2>4. /\ xResp' = [xResp EXCEPT ![c] = Append(@, <<c, xI[c] - 1>>)]
        /\ inbox' = [inbox EXCEPT ![c] = <<>>]
    BY <1>6, <2>3 DEF Unix!ClientRecv
  <2>5. /\ xResp[c] \in Seq(Request) /\ Len(xResp[c]) = xI[c] - 2 /\ xI[c] \in Nat
        /\ xResp'[c] \in Seq(Request) /\ Len(xResp'[c]) = xI[c] - 1
        /\ DOMAIN xResp'[c] = DOMAIN xResp[c] \cup {xI[c] - 1}
        /\ xResp'[c][xI[c] - 1] = <<c, xI[c] - 1>>
        /\ \A k \in DOMAIN xResp[c] : xResp'[c][k] = xResp[c][k]
    <3>1. /\ xResp[c] \in Seq(Request) /\ Len(xResp[c]) = xI[c] - 2 /\ xI[c] \in Nat
          /\ xResp'[c] = Append(xResp[c], <<c, xI[c] - 1>>)
      BY <1>0, <2>0, <2>4 DEF UnixTypes
    <3> QED BY <2>3, <3>1
  <2>6. UnixTypes'
    <3>1. xResp' \in [UnixClient -> Seq(Request)] /\ inbox' \in [UnixClient -> Seq(Request)]
      BY <1>0, <2>3, <2>4 DEF UnixTypes
    <3> QED BY <1>0, <2>0, <2>1, <2>4, <2>5, <3>1 DEF UnixTypes
  <2>7. /\ Asking' = Asking \ {c} /\ \A d \in UnixClient : Latest(d)' = Latest(d)
    BY <1>0, <2>0, <2>1 DEF UnixTypes, Asking, Latest
  <2>8. InQueue'
    BY <1>0, <2>0, <2>2, <2>7 DEF InQueue, Asking, Latest
  <2>9. InHand'
    <3>1. ASSUME xServer = "send" PROVE cltAddr \in UnixClient /\ inbox'[cltAddr] = <<>>
      BY <1>0, <2>2, <2>4, <3>1 DEF InHand, Asking, UnixTypes
    <3> QED BY <1>0, <2>0, <2>2, <2>7, <3>1 DEF InHand, Asking, Latest
  <2>10. InBox'
    <3>1. \A d \in UnixClient : inbox'[d] # <<>> => d # c /\ inbox'[d] = inbox[d]
      BY <1>0, <2>4 DEF UnixTypes
    <3> QED BY <1>0, <2>0, <2>7, <3>1 DEF InBox, Asking, Latest
  <2>11. \A d \in UnixClient : xPc[d] = "killed" => xPc'[d] = "killed"
    BY <1>0, <2>0, <2>1 DEF UnixTypes
  <2>12. \A d \in UnixClient : \A k \in DOMAIN xResp'[d] : xResp'[d][k] = <<d, k>>
    <3>1. \A d \in UnixClient \ {c} : xResp'[d] = xResp[d]
      BY <1>0, <2>4 DEF UnixTypes
    <3>2. ASSUME NEW d \in UnixClient \ {c}, NEW k \in DOMAIN xResp'[d] PROVE xResp'[d][k] = <<d, k>>
      BY <1>a, <3>1, <3>2
    <3>3. ASSUME NEW k \in DOMAIN xResp'[c] PROVE xResp'[c][k] = <<c, k>>
      <4>1. CASE k = xI[c] - 1
        BY <2>5, <4>1
      <4>2. CASE k \in DOMAIN xResp[c]
        BY <1>a, <2>5, <4>2
      <4> QED BY <2>5, <3>3, <4>1, <4>2
    <3> QED BY <3>2, <3>3
  <2>13. UnixInStep'
    BY <1>a, <2>0, <2>11, <2>12 DEF UnixInStep, Unix!InStep, Unix!ServerSurvives
  <2> QED BY <2>6, <2>8, <2>9, <2>10, <2>13
<1> QED BY <1>1, <1>2, <1>3, <1>4, <1>5, <1>6 DEF Unix!Next, Unix!Server, Unix!Run

(* As long as no address was cut off, each client of the UNIX datagram       *)
(* server reads the echoes of its own arguments in order, however many there *)
(* are and however long the queues, and the server dies only of a client     *)
(* that was killed (server.c:43-52, client.c:46-58).                         *)
THEOREM UnixAnswersInStep == Unix!Spec => []UnixInStep
<1>1. UnixInv => UnixInStep
  BY DEF UnixInv, UnixInStep, Unix!InStep, Unix!ServerSurvives
<1>2. UNCHANGED Unix!vars => UNCHANGED unixVars
  BY DEF Unix!vars, unixVars
<1>3. UnixInv /\ [Unix!Next]_(Unix!vars) => UnixInv'
  BY <1>2, UnixNextInv
<1> QED BY UnixInitInv, <1>1, <1>3, PTL DEF Unix!Spec
=============================================================================
