---------------------------- MODULE StreamProofs ----------------------------
(***************************************************************************)
(* Proofs about the programs of MCStream that talk over byte streams.      *)
(***************************************************************************)
EXTENDS MCStream, FiniteSetTheorems, TLAPS

(* HttpHead.  Where nothing has been stored the buffer holds NUL, and a      *)
(* client that still reads has not yet stored a blank line.                  *)
HttpTypes ==
    /\ old \in BOOLEAN /\ rp \in Nat \ {0}
    /\ step \in {"socket", "connect", "write", "read", "close", "exit"}
    /\ reads \in 0..ReadLimit /\ text \in [0..(ReadLimit - 1) -> {"r", "n", "o", NUL}]
    /\ onWire \in Seq({"r", "n", "o"}) /\ link \in {"open", "closed", "reset"}
    /\ \A k \in reads..(ReadLimit - 1) : text[k] = NUL
OneSocket ==
    /\ step = "socket" => sockets = {} /\ rp <= Addrs
    /\ step \in {"connect", "write", "read", "close"} => sockets = {rp} /\ rp <= Addrs
NoBlankYet ==
    /\ step \in {"socket", "connect", "write"} => reads = 0
    /\ \A k \in 4..(reads - 1) : ~EndsBlank(k)
    /\ step = "read" => reads < 4 \/ ~EndsBlank(reads)
    /\ step = "close" => \/ reads >= 4 /\ EndsBlank(reads)
                         \/ reads = ReadLimit \/ link = "reset"
HttpInv == HttpTypes /\ OneSocket /\ NoBlankYet

LEMMA HttpInitInv == HttpInit => HttpInv
BY HttpAssumption DEF HttpInit, HttpInv, HttpTypes, OneSocket, NoBlankYet, Addrs, NUL

(* A byte that is stored at the end of what was read leaves the rest alone.  *)
LEMMA StoredByte ==
    ASSUME HttpTypes, reads < ReadLimit, onWire # <<>>,
           text' = [text EXCEPT ![reads] = Head(onWire)], reads' = reads + 1
    PROVE  /\ text' \in [0..(ReadLimit - 1) -> {"r", "n", "o", NUL}]
           /\ \A k \in reads'..(ReadLimit - 1) : text'[k] = NUL
           /\ \A k \in 4..reads : EndsBlank(k)' <=> EndsBlank(k)
           /\ AtBlankLine(reads) <=> reads' >= 4 /\ EndsBlank(reads)'
<1>1. reads \in 0..(ReadLimit - 1) /\ Head(onWire) \in {"r", "n", "o"}
  BY HttpAssumption DEF HttpTypes
<1>2. text' \in [0..(ReadLimit - 1) -> {"r", "n", "o", NUL}]
  BY <1>1 DEF HttpTypes
<1>3. \A k \in 0..(ReadLimit - 1) : k # reads => text'[k] = text[k]
  BY <1>1 DEF HttpTypes
<1>4. \A k \in reads'..(ReadLimit - 1) : text'[k] = NUL
  BY <1>1, <1>3, HttpAssumption DEF HttpTypes
<1>5. ASSUME NEW k \in 4..reads PROVE EndsBlank(k)' <=> EndsBlank(k)
  <2>1. \A j \in 0..3 : text'[k - 4 + j] = text[k - 4 + j]
    BY <1>1, <1>3, HttpAssumption
  <2> QED BY <2>1 DEF EndsBlank
<1>6. AtBlankLine(reads) <=> reads' >= 4 /\ EndsBlank(reads)'
  <2>1. reads \in Nat /\ (reads >= 3 <=> reads' >= 4) /\ reads + 1 - 4 = reads - 3
    BY <1>1, HttpAssumption
  <2>2. \A j \in 0..3 : reads' - 4 + j = reads - 3 + j
    BY <2>1
  <2> QED BY <2>1, <2>2 DEF AtBlankLine, EndsBlank
<1> QED BY <1>2, <1>4, <1>5, <1>6

LEMMA HttpNextInv == HttpInv /\ [HttpNext]_httpVars => HttpInv'
<1> SUFFICES ASSUME HttpInv, [HttpNext]_httpVars PROVE HttpInv'
  OBVIOUS
<1> USE HttpAssumption DEF HttpInv
<1>1. CASE Socket \/ HttpConnect
  <2>1. UNCHANGED <<old, reads, text, onWire, link>>
    BY <1>1 DEF Socket, HttpConnect
  <2>2. HttpTypes'
    BY <1>1, <2>1 DEF Socket, HttpConnect, NextAddr, HttpTypes, Addrs
  <2>3. OneSocket'
    BY <1>1, <2>1 DEF Socket, HttpConnect, NextAddr, HttpTypes, OneSocket, Addrs
  <2>4. step' \in {"socket", "connect", "write", "exit"} /\ reads = 0
    BY <1>1 DEF Socket, HttpConnect, NextAddr, NoBlankYet
  <2>5. NoBlankYet'
    BY <2>1, <2>4 DEF NoBlankYet, EndsBlank
  <2> QED BY <2>2, <2>3, <2>5
<1>2. CASE WriteRequest \/ HttpClose
  <2>1. HttpTypes'
    BY <1>2 DEF WriteRequest, HttpClose, HttpTypes
  <2>2. OneSocket'
    BY <1>2 DEF WriteRequest, HttpClose, OneSocket, Addrs
  <2>3. NoBlankYet'
    BY <1>2 DEF WriteRequest, HttpClose, NoBlankYet, EndsBlank
  <2> QED BY <2>1, <2>2, <2>3
<1>3. CASE ReadChar
  <2>0. step = "read" /\ UNCHANGED <<old, rp, sockets, sent, link>> /\ step' \in {"read", "close"}
    BY <1>3 DEF ReadChar
  <2>1. OneSocket'
    BY <2>0 DEF OneSocket, Addrs
  <2>2. CASE /\ reads < ReadLimit /\ onWire # <<>>
             /\ text' = [text EXCEPT ![reads] = Head(onWire)] /\ onWire' = Tail(onWire)
             /\ reads' = reads + 1 /\ step' = IF AtBlankLine(reads) THEN "close" ELSE "read"
    <3>1. /\ text' \in [0..(ReadLimit - 1) -> {"r", "n", "o", NUL}]
          /\ \A k \in reads'..(ReadLimit - 1) : text'[k] = NUL
          /\ \A k \in 4..reads : EndsBlank(k)' <=> EndsBlank(k)
          /\ AtBlankLine(reads) <=> reads' >= 4 /\ EndsBlank(reads)'
      BY <2>2, StoredByte
    <3>2. HttpTypes'
      BY <2>0, <2>2, <3>1 DEF HttpTypes
    <3>3. reads \in Nat /\ \A k \in 4..(reads' - 1) : ~EndsBlank(k)'
      BY <2>0, <2>2, <3>1 DEF NoBlankYet, HttpTypes
    <3>4. step' = "read" => reads' < 4 \/ ~EndsBlank(reads)'
      BY <2>2, <3>1, <3>3
    <3>5. step' = "close" => reads' >= 4 /\ EndsBlank(reads)'
      BY <2>2, <3>1
    <3>6. NoBlankYet'
      BY <2>0, <3>3, <3>4, <3>5 DEF NoBlankYet, EndsBlank
    <3> QED BY <2>1, <3>2, <3>6
  <2>3. CASE reads < ReadLimit /\ reads' = reads + 1 /\ UNCHANGED <<step, text, onWire>>
    <3>1. HttpTypes'
      BY <2>0, <2>3 DEF HttpTypes
    <3>2. reads' >= 4 => ~EndsBlank(reads)'
      <4>1. reads' >= 4 => text[reads' - 4 + 3] = NUL
        BY <2>3 DEF HttpTypes
      <4> QED BY <2>3, <4>1 DEF EndsBlank, BlankLine, NUL
    <3>3. NoBlankYet'
      BY <2>0, <2>3, <3>2 DEF NoBlankYet, EndsBlank, HttpTypes
    <3> QED BY <2>1, <3>1, <3>3
  <2>4. CASE /\ reads = ReadLimit \/ link = "reset"
             /\ step' = "close" /\ UNCHANGED <<reads, text, onWire>>
    BY <2>0, <2>1, <2>4 DEF HttpTypes, NoBlankYet, EndsBlank
  <2> QED BY <1>3, <2>2, <2>3, <2>4 DEF ReadChar
<1>4. CASE Answer \/ Disconnect
  <2>0. \A b \in {"r", "n", "o"} : <<b>> \in Seq({"r", "n", "o"})
    OBVIOUS
  <2>1. HttpTypes'
    <3>1. onWire' \in Seq({"r", "n", "o"})
      <4>1. CASE Answer
        <5>1. PICK b \in {"r", "n", "o"} : onWire' = <<b>>
          BY <4>1 DEF Answer
        <5> QED BY <2>0, <5>1
      <4>2. CASE onWire' = <<>> \/ UNCHANGED onWire
        BY <4>2 DEF HttpTypes
      <4> QED BY <1>4, <4>1, <4>2 DEF Disconnect
    <3> QED BY <1>4, <3>1 DEF Answer, Disconnect, HttpTypes
  <2>2. OneSocket' /\ NoBlankYet'
    BY <1>4 DEF Answer, Disconnect, OneSocket, NoBlankYet, EndsBlank, Addrs
  <2> QED BY <2>1, <2>2
<1>5. CASE UNCHANGED httpVars
  BY <1>5 DEF httpVars, HttpTypes, OneSocket, NoBlankYet, EndsBlank, Addrs
<1> QED BY <1>1, <1>2, <1>3, <1>4, <1>5 DEF HttpNext, HttpMain

(* For any number of addresses and any size of the buffer, the HTTP client   *)
(* stores the head of the answer and nothing after it, and has one socket    *)
(* (main.c:43-95).                                                           *)
THEOREM NothingAfterHead == HttpSpec => []HeadOnly
<1>1. HttpInv => HeadOnly
  BY DEF HttpInv, OneSocket, NoBlankYet, HeadOnly
<1> QED BY <1>1, HttpInitInv, HttpNextInv, PTL DEF HttpSpec
-----------------------------------------------------------------------------
(* Fifo.  A reader whose open() has seen a writer still has that writer's x  *)
(* before it: from the writer, in the pipe, or taken by another reader.      *)
Holders == {p \in FifoProc : fpc[p] \in {"opening", "opened", "written"}}
XInPipe == \E k \in DOMAIN pipe : pipe[k] = MsgLen
FifoTypes ==
    /\ fpc \in [FifoProc -> {"access", "mkfifo", "open", "opening", "opened", "written"} \cup FifoGone]
    /\ pipe \in Seq(Nat) /\ got \in [FifoReader -> Seq(Nat)]
    /\ ends = Holders
Meeting ==
    /\ \A p \in FifoProc : fpc[p] \in {"access", "mkfifo", "open"} => p \notin met
    /\ \A p \in FifoProc : fpc[p] = "opened" => p \in met
    /\ \A r \in FifoReader : got[r] # <<>> => fpc[r] \in {"opened", "x", "eof"}
    /\ \A r \in FifoReader : fpc[r] # "written"
Arriving ==
    /\ \A w \in FifoWriter : fpc[w] = "written" => XInPipe \/ \E q \in FifoReader : got[q] # <<>>
    /\ \A r \in FifoReader : r \in met /\ fpc[r] \in {"opening", "opened"} =>
          \/ XInPipe
          \/ \E w \in FifoWriter : fpc[w] \in {"opening", "opened"}
          \/ \E q \in FifoReader \ {r} : got[q] # <<>>
FifoInv == FifoTypes /\ Meeting /\ Arriving /\ EofOnlyShared
(* A process that exits takes its end with it.                               *)
LEMMA LeaveTypes ==
    ASSUME FifoTypes, NEW p \in FifoProc, NEW to \in FifoGone, NEW bytes \in Seq(Nat),
           fpc' = [fpc EXCEPT ![p] = to], Leave(p, bytes), got' \in [FifoReader -> Seq(Nat)]
    PROVE  FifoTypes'
<1>1. pipe' \in Seq(Nat)
  BY DEF Leave
<1>2. fpc' \in [FifoProc -> {"access", "mkfifo", "open", "opening", "opened", "written"} \cup FifoGone]
  BY DEF FifoTypes
<1>3. ends' = Holders'
  BY DEF Leave, FifoTypes, Holders, FifoGone
<1> QED BY <1>1, <1>2, <1>3 DEF FifoTypes

LEMMA AppendFacts ==
    ASSUME NEW S, NEW s \in Seq(S), NEW e \in S
    PROVE  /\ Append(s, e) \in Seq(S) /\ Append(s, e) # <<>> /\ Len(Append(s, e)) = Len(s) + 1
           /\ Append(s, e)[Len(s) + 1] = e /\ \A k \in DOMAIN s : Append(s, e)[k] = s[k]
OBVIOUS

LEMMA FifoInitInv == FifoInit => FifoInv
BY FifoAssumption DEF FifoInit, FifoInv, FifoTypes, Meeting, Arriving, EofOnlyShared, Holders,
                      FifoProc, FifoGone

LEMMA FifoNextInv == FifoInv /\ [FifoNext]_fifoVars => FifoInv'
<1> SUFFICES ASSUME FifoInv, [FifoNext]_fifoVars PROVE FifoInv'
  OBVIOUS
<1>0. FifoTypes /\ Meeting /\ Arriving /\ EofOnlyShared
  BY DEF FifoInv
<1>a. FifoReader \subseteq FifoProc /\ FifoWriter \subseteq FifoProc
  BY DEF FifoProc
<1>1. ASSUME NEW p \in FifoProc, Access(p) \/ Mkfifo(p)
      PROVE  FifoInv'
  <2>1. /\ UNCHANGED <<ends, met, pipe, got>> /\ fpc[p] \in {"access", "mkfifo"}
        /\ \E to \in {"open", "mkfifo", "mkfifo failed"} : fpc' = [fpc EXCEPT ![p] = to]
    BY <1>1 DEF Access, Mkfifo, Go
  <2>2. PICK to \in {"open", "mkfifo", "mkfifo failed"} : fpc' = [fpc EXCEPT ![p] = to]
    BY <2>1
  <2>3. FifoTypes'
    BY <1>0, <2>1, <2>2 DEF FifoTypes, FifoGone, Holders
  <2>4. Meeting'
    BY <1>0, <1>a, <2>1, <2>2 DEF FifoTypes, Meeting
  <2>5. Arriving' /\ EofOnlyShared'
    BY <1>0, <1>a, <2>1, <2>2 DEF FifoTypes, Arriving, EofOnlyShared, XInPipe
  <2> QED BY <2>3, <2>4, <2>5 DEF FifoInv
<1>2. ASSUME NEW p \in FifoProc, FifoOpen(p)
      PROVE  FifoInv'
  <2>1. /\ UNCHANGED <<pipe, got>> /\ fpc[p] = "open" /\ fpc' = [fpc EXCEPT ![p] = "opening"]
        /\ ends' = ends \cup {p}
        /\ met' = met \cup (ends \cap Others(p))
                  \cup (IF ends \cap Others(p) # {} THEN {p} ELSE {})
    BY <1>2 DEF FifoOpen, Go
  <2>3. FifoTypes'
    BY <1>0, <2>1 DEF FifoTypes, FifoGone, Holders
  <2>4. Meeting'
    BY <1>0, <1>a, <2>1 DEF FifoTypes, Meeting, Holders
  <2>5. EofOnlyShared'
    BY <1>0, <1>a, <2>1 DEF FifoTypes, EofOnlyShared
  <2>6. \A w \in FifoWriter : fpc'[w] = "written" => XInPipe' \/ \E q \in FifoReader : got'[q] # <<>>
    BY <1>0, <1>a, <2>1 DEF FifoTypes, Arriving, XInPipe
  <2>7. ASSUME NEW r \in FifoReader, r \in met', fpc'[r] \in {"opening", "opened"}
        PROVE  \/ XInPipe'
               \/ \E w \in FifoWriter : fpc'[w] \in {"opening", "opened"}
               \/ \E q \in FifoReader \ {r} : got'[q] # <<>>
    <3>1. CASE p \in FifoWriter
      BY <1>0, <1>a, <2>1, <3>1 DEF FifoTypes
    <3>2. CASE p \in FifoReader /\ r # p
      <4>1. r \in met /\ fpc[r] \in {"opening", "opened"}
        BY <1>0, <1>a, <2>1, <2>7, <3>2, FifoAssumption DEF FifoTypes, Others
      <4> QED BY <1>0, <1>a, <2>1, <3>2, <4>1, FifoAssumption DEF FifoTypes, Arriving, XInPipe
    <3>3. CASE p \in FifoReader /\ r = p
      <4>1. PICK w \in FifoWriter : w \in Holders
        BY <1>0, <1>a, <2>1, <2>7, <3>3 DEF FifoTypes, Others, Meeting
      <4>2. w # r /\ fpc'[w] = fpc[w] /\ got[r] = <<>>
        BY <1>0, <1>a, <2>1, <3>3, FifoAssumption DEF FifoTypes, Meeting
      <4> QED BY <1>0, <2>1, <4>1, <4>2 DEF Holders, Arriving, XInPipe
    <3> QED BY <3>1, <3>2, <3>3 DEF FifoProc
  <2> QED BY <2>3, <2>4, <2>5, <2>6, <2>7 DEF FifoInv, Arriving
<1>3. ASSUME NEW p \in FifoProc, Opened(p)
      PROVE  FifoInv'
  <2>1. /\ UNCHANGED <<ends, met, pipe, got>> /\ fpc[p] = "opening" /\ p \in met
        /\ fpc' = [fpc EXCEPT ![p] = "opened"]
    BY <1>3 DEF Opened, Go
  <2>2. FifoTypes' /\ Meeting'
    BY <1>0, <1>a, <2>1 DEF FifoTypes, FifoGone, Holders, Meeting
  <2>3. Arriving' /\ EofOnlyShared'
    BY <1>0, <1>a, <2>1 DEF FifoTypes, Arriving, EofOnlyShared, XInPipe
  <2> QED BY <2>2, <2>3 DEF FifoInv
<1>4. ASSUME NEW w \in FifoWriter, FifoWrite(w)
      PROVE  FifoInv'
  <2>0. w \in FifoProc /\ w \notin FifoReader /\ fpc[w] = "opened" /\ UNCHANGED <<met, got>>
    BY <1>4, <1>a, FifoAssumption DEF FifoWrite, Go
  <2>1. CASE fpc' = [fpc EXCEPT ![w] = "written"] /\ pipe' = pipe \o Message /\ UNCHANGED ends
    <3>1. /\ Message \in Seq(Nat) /\ Len(Message) = MsgLen /\ Message[MsgLen] = MsgLen
          /\ MsgLen \in Nat \ {0} /\ pipe \in Seq(Nat)
      BY <1>0, FifoAssumption DEF Message, FifoTypes
    <3>2. pipe' \in Seq(Nat) /\ Len(pipe) + MsgLen \in DOMAIN pipe'
          /\ pipe'[Len(pipe) + MsgLen] = MsgLen
      BY <2>1, <3>1
    <3>3. FifoTypes' /\ Meeting'
      BY <1>0, <1>a, <2>0, <2>1, <3>2 DEF FifoTypes, FifoGone, Holders, Meeting
    <3>4. XInPipe'
      BY <3>2 DEF XInPipe
    <3>5. EofOnlyShared'
      BY <1>0, <1>a, <2>0, <2>1 DEF FifoTypes, EofOnlyShared
    <3> QED BY <3>3, <3>4, <3>5 DEF FifoInv, Arriving
  <2>2. CASE ends \cap FifoReader = {} /\ fpc' = [fpc EXCEPT ![w] = "sigpipe"] /\ Leave(w, pipe)
    <3>0. FifoTypes'
      <4>1. "sigpipe" \in FifoGone /\ pipe \in Seq(Nat) /\ got' \in [FifoReader -> Seq(Nat)]
        BY <1>0, <2>0 DEF FifoTypes, FifoGone
      <4> QED BY <1>0, <2>0, <2>2, <4>1, LeaveTypes
    <3>1. FifoTypes' /\ Meeting' /\ EofOnlyShared'
      BY <1>0, <1>a, <2>0, <2>2, <3>0 DEF FifoTypes, Meeting, EofOnlyShared
    <3>2. \A r \in FifoReader : fpc'[r] \notin {"opening", "opened"}
      BY <1>0, <1>a, <2>0, <2>2 DEF FifoTypes, Holders
    <3>3. ASSUME NEW v \in FifoWriter, fpc'[v] = "written"
          PROVE  XInPipe' \/ \E q \in FifoReader : got'[q] # <<>>
      <4>1. v # w /\ fpc[v] = "written" /\ v \in ends
        BY <1>0, <1>a, <2>0, <2>2, <3>3 DEF FifoTypes, Holders
      <4> QED BY <1>0, <2>0, <2>2, <4>1 DEF Arriving, Leave, XInPipe
    <3> QED BY <3>1, <3>2, <3>3 DEF FifoInv, Arriving
  <2> QED BY <1>4, <2>1, <2>2 DEF FifoWrite, Go
<1>5. ASSUME NEW w \in FifoWriter, FifoExit(w)
      PROVE  FifoInv'
  <2>0. /\ w \in FifoProc /\ w \notin FifoReader /\ fpc[w] = "written" /\ UNCHANGED <<met, got>>
        /\ fpc' = [fpc EXCEPT ![w] = "done"] /\ Leave(w, pipe)
    BY <1>5, <1>a, FifoAssumption DEF FifoExit, Go
  <2>a. FifoTypes'
    <3>1. "done" \in FifoGone /\ pipe \in Seq(Nat) /\ got' \in [FifoReader -> Seq(Nat)]
      BY <1>0, <2>0 DEF FifoTypes, FifoGone
    <3> QED BY <1>0, <2>0, <3>1, LeaveTypes
  <2>1. FifoTypes' /\ Meeting' /\ EofOnlyShared'
    BY <1>0, <1>a, <2>0, <2>a DEF FifoTypes, Meeting, EofOnlyShared
  <2>2. \A p \in FifoProc : fpc'[p] \in {"opening", "opened", "written"} =>
            p # w /\ fpc'[p] = fpc[p] /\ UNCHANGED pipe
    BY <1>0, <2>0 DEF FifoTypes, Holders, Leave
  <2>3. \A p \in FifoProc : fpc[p] \in {"opening", "opened"} => fpc'[p] = fpc[p]
    BY <1>0, <2>0 DEF FifoTypes
  <2>4. Arriving'
    BY <1>0, <1>a, <2>0, <2>2, <2>3 DEF Arriving, XInPipe
  <2> QED BY <2>1, <2>4 DEF FifoInv
<1>6. ASSUME NEW r \in FifoReader, FifoRead(r)
      PROVE  FifoInv'
  <2>0. /\ r \in FifoProc /\ r \notin FifoWriter /\ fpc[r] = "opened" /\ r \in met
        /\ UNCHANGED met /\ r \in ends
    BY <1>0, <1>6, <1>a, FifoAssumption DEF FifoRead, Go, Meeting, FifoTypes, Holders
  <2>1. CASE pipe # <<>> /\ got' = [got EXCEPT ![r] = Append(@, Head(pipe))]
    <3>1. /\ Tail(pipe) \in Seq(Nat) /\ Head(pipe) \in Nat /\ got'[r] # <<>> /\ got' \in [FifoReader -> Seq(Nat)]
          /\ Head(pipe) = pipe[1]
          /\ \A k \in DOMAIN pipe : k = 1 \/ (k - 1 \in DOMAIN Tail(pipe) /\ Tail(pipe)[k - 1] = pipe[k])
      <4>1. pipe \in Seq(Nat) /\ got[r] \in Seq(Nat) /\ got'[r] = Append(got[r], Head(pipe))
        BY <1>0, <2>1 DEF FifoTypes
      <4>2. Head(pipe) \in Nat /\ Head(pipe) = pipe[1] /\ Tail(pipe) \in Seq(Nat)
        BY <2>1, <4>1
      <4>3. got'[r] \in Seq(Nat) /\ got'[r] # <<>>
        BY <4>1, <4>2, AppendFacts
      <4>4. got' \in [FifoReader -> Seq(Nat)]
        BY <1>0, <2>1, <4>3, <4>1 DEF FifoTypes
      <4>5. \A k \in DOMAIN pipe : k = 1 \/ (k - 1 \in DOMAIN Tail(pipe) /\ Tail(pipe)[k - 1] = pipe[k])
        BY <2>1, <4>1
      <4> QED BY <4>2, <4>3, <4>4, <4>5
    <3>2. \A q \in FifoReader : got[q] # <<>> => got'[q] # <<>>
      BY <1>0, <2>1, <3>1 DEF FifoTypes
    <3>a. \A q \in FifoReader : q # r => got'[q] = got[q]
      BY <1>0, <2>1 DEF FifoTypes
    <3>3. CASE Head(pipe) = MsgLen /\ fpc' = [fpc EXCEPT ![r] = "x"] /\ Leave(r, Tail(pipe))
      <4>1. FifoTypes'
        <5>1. "x" \in FifoGone
          BY DEF FifoGone
        <5> QED BY <1>0, <2>0, <3>1, <3>3, <5>1, LeaveTypes
      <4>2. Meeting'
        BY <1>0, <1>a, <2>0, <3>a, <3>3 DEF FifoTypes, Meeting
      <4>3. EofOnlyShared'
        BY <1>0, <1>a, <2>0, <3>2, <3>3 DEF FifoTypes, EofOnlyShared
      <4>4. \A q \in FifoReader : fpc'[q] \in {"opening", "opened"} => q # r
        BY <1>0, <1>a, <3>3 DEF FifoTypes
      <4>5. Arriving'
        BY <3>1, <4>4 DEF Arriving
      <4> QED BY <4>1, <4>2, <4>3, <4>5 DEF FifoInv
    <3>4. CASE Head(pipe) # MsgLen /\ fpc' = [fpc EXCEPT ![r] = "opened"]
               /\ pipe' = Tail(pipe) /\ UNCHANGED ends
      <4>0. fpc' = fpc
        BY <1>0, <2>0, <3>4 DEF FifoTypes
      <4>1. FifoTypes' /\ Meeting'
        BY <1>0, <1>a, <2>0, <3>1, <3>a, <3>4, <4>0 DEF FifoTypes, Holders, Meeting
      <4>2. EofOnlyShared'
        BY <1>0, <3>2, <4>0 DEF EofOnlyShared
      <4>3. XInPipe => XInPipe'
        BY <3>1, <3>4 DEF XInPipe
      <4>4. Arriving'
        BY <1>0, <2>0, <3>1, <3>2, <4>0, <4>3 DEF Arriving
      <4> QED BY <4>1, <4>2, <4>4 DEF FifoInv
    <3> QED BY <1>6, <2>0, <2>1, <3>3, <3>4 DEF FifoRead, Go
  <2>2. CASE /\ pipe = <<>> /\ ends \cap FifoWriter = {} /\ fpc' = [fpc EXCEPT ![r] = "eof"]
             /\ Leave(r, pipe) /\ UNCHANGED got
    <3>1. PICK q \in FifoReader \ {r} : got[q] # <<>>
      <4>1. ~XInPipe
        BY <2>2 DEF XInPipe
      <4>2. \A w \in FifoWriter : fpc[w] \notin {"opening", "opened", "written"}
        BY <1>0, <1>a, <2>2 DEF FifoTypes, Holders
      <4> QED BY <1>0, <2>0, <4>1, <4>2 DEF Arriving
    <3>2. FifoTypes'
      <4>1. "eof" \in FifoGone /\ pipe \in Seq(Nat) /\ got' \in [FifoReader -> Seq(Nat)]
        BY <1>0, <2>2 DEF FifoTypes, FifoGone
      <4> QED BY <1>0, <2>0, <2>2, <4>1, LeaveTypes
    <3>3. Meeting'
      BY <1>0, <1>a, <2>0, <2>2 DEF FifoTypes, Meeting
    <3>4. EofOnlyShared'
      BY <1>0, <1>a, <2>2, <3>1 DEF FifoTypes, EofOnlyShared
    <3>5. pipe' = <<>> /\ \A p \in FifoProc : p # r => fpc'[p] = fpc[p]
      BY <1>0, <2>2 DEF FifoTypes, Leave
    <3>6. \A p \in FifoReader : fpc'[p] \in {"opening", "opened"} => p # r /\ fpc[p] = fpc'[p]
      BY <1>0, <1>a, <2>0, <2>2, <3>5 DEF FifoTypes
    <3>7. Arriving'
      BY <1>0, <1>a, <2>0, <2>2, <3>5, <3>6 DEF Arriving, XInPipe
    <3> QED BY <3>2, <3>3, <3>4, <3>7 DEF FifoInv
  <2> QED BY <1>6, <2>1, <2>2 DEF FifoRead, Go
<1>7. CASE UNCHANGED fifoVars
  BY <1>0, <1>7 DEF fifoVars, FifoInv, FifoTypes, Meeting, Arriving, EofOnlyShared, Holders, XInPipe
<1> QED BY <1>a, <1>1, <1>2, <1>3, <1>4, <1>5, <1>6, <1>7
        DEF FifoNext, WriterRun, ReaderRun, FifoRun

(* However many readers and writers meet in the pipe and however long the    *)
(* message is, a reader comes to the end of the file only because another    *)
(* reader shared the message (reader.c:24-48, writer.c:15-36).               *)
THEOREM EofIsShared == FifoSpec => []EofOnlyShared
BY FifoInitInv, FifoNextInv, PTL DEF FifoSpec, FifoInv
-----------------------------------------------------------------------------
(* UnixStream.  A connection waits in its server's queue, is read, or is     *)
(* done with; what its client took from its input is in the server's output, *)
(* on the way, or still to be written.                                       *)
InQueueOf(c, s) == \E k \in DOMAIN pendq[s] : pendq[s][k] = c
InOutput(c, s) == \E k \in DOMAIN out[s] : out[s][k] = c
StreamTypes ==
    /\ name \in StreamServer \cup {Nobody}
    /\ srv \in [StreamServer -> {"remove", "bind", "listen", "accept", "read", "dead"}]
    /\ conn \in [StreamServer -> StreamClient \cup {Nobody}]
    /\ pendq \in [StreamServer -> Seq(StreamClient)] /\ out \in [StreamServer -> Seq(StreamClient)]
    /\ cli \in [StreamClient -> {"connect", "read", "write"} \cup Ended]
    /\ peer \in [StreamClient -> StreamServer \cup {Nobody}]
    /\ size \in [StreamClient -> Nat] /\ rest \in [StreamClient -> Nat]
    /\ chunk \in [StreamClient -> Nat] /\ wire \in [StreamClient -> Nat]
Stages ==
    /\ \A s \in StreamServer : srv[s] = "read" => conn[s] # Nobody
    /\ \A s \in StreamServer : srv[s] \notin {"read", "dead"} => conn[s] = Nobody
    /\ \A c \in StreamClient : cli[c] = "connect" => peer[c] = Nobody
    /\ \A c \in StreamClient : cli[c] \in {"read", "write"} => peer[c] # Nobody
    /\ \A c \in StreamClient : peer[c] = Nobody => rest[c] = size[c] /\ chunk[c] = 0 /\ wire[c] = 0
    /\ \A c \in StreamClient : cli[c] = "read" => chunk[c] = 0
    /\ \A c \in StreamClient : cli[c] = "write" => chunk[c] # 0
Places ==
    \A s \in StreamServer :
        /\ \A c \in StreamClient : InQueueOf(c, s) => peer[c] = s /\ conn[s] # c /\ ~InOutput(c, s)
        /\ \A k, m \in DOMAIN pendq[s] : pendq[s][k] = pendq[s][m] => k = m
        /\ \A c \in StreamClient : conn[s] = c \/ InOutput(c, s) => peer[c] = s
Unmixed ==
    \A s \in StreamServer : \A c \in StreamClient :
        /\ \A i, k \in DOMAIN out[s] :
              out[s][i] = c /\ out[s][k] = c => \A j \in i..k : out[s][j] = c
        /\ conn[s] = c /\ InOutput(c, s) => out[s][Len(out[s])] = c
Drained ==
    \A s \in StreamServer : \A c \in StreamClient :
        peer[c] = s /\ srv[s] # "dead" /\ conn[s] # c /\ ~InQueueOf(c, s)
            => wire[c] = 0 /\ cli[c] \in Ended
Balance ==
    \A s \in StreamServer : \A c \in StreamClient :
        peer[c] = s => Written(c, s) + wire[c] + chunk[c] + rest[c] = size[c]
StreamInv == StreamTypes /\ Stages /\ Places /\ Unmixed /\ Drained /\ Balance

LEMMA StreamInitInv == StreamInit => StreamInv
<1> SUFFICES ASSUME StreamInit PROVE StreamInv
  OBVIOUS
<1> USE StreamAssumption DEF StreamInit
<1>1. StreamTypes
  <2>1. size \in [StreamClient -> Nat] /\ rest = size
    OBVIOUS
  <2>2. pendq \in [StreamServer -> Seq(StreamClient)] /\ out \in [StreamServer -> Seq(StreamClient)]
    OBVIOUS
  <2>3. chunk \in [StreamClient -> Nat] /\ wire \in [StreamClient -> Nat]
    OBVIOUS
  <2> QED BY <2>1, <2>2, <2>3 DEF StreamTypes
<1>2. Stages
  BY <1>1 DEF Stages, StreamTypes
<1>3. Places /\ Unmixed /\ Drained /\ Balance
  BY DEF Places, Unmixed, Drained, Balance, InQueueOf, InOutput
<1> QED BY <1>1, <1>2, <1>3 DEF StreamInv

(* What a run r of bytes of c at the end of an output changes, and how they  *)
(* count.                                                                    *)
LEMMA RunAppended ==
    ASSUME NEW S, NEW s \in Seq(S), NEW c \in S, NEW r \in Seq(S), NEW t,
           t = s \o r, \A k \in 1..Len(r) : r[k] = c
    PROVE  /\ t \in Seq(S) /\ Len(t) = Len(s) + Len(r)
           /\ \A k \in 1..Len(s) : t[k] = s[k]
           /\ \A k \in DOMAIN t : k > Len(s) => t[k] = c
OBVIOUS

LEMMA CountFinite ==
    ASSUME NEW S, NEW s \in Seq(S), NEW d
    PROVE  /\ IsFiniteSet({k \in DOMAIN s : s[k] = d})
           /\ Cardinality({k \in DOMAIN s : s[k] = d}) \in Nat
<1> DEFINE A == {k \in DOMAIN s : s[k] = d}
<1>1. Len(s) \in Nat /\ A \subseteq 1..Len(s)
  OBVIOUS
<1>2. IsFiniteSet(1..Len(s))
  BY <1>1, FS_Interval
<1>3. IsFiniteSet(A)
  BY <1>1, <1>2, FS_Subset
<1> QED BY <1>3, FS_CardinalityType

Count(s, d) == Cardinality({k \in DOMAIN s : s[k] = d})

LEMMA RunCounted ==
    ASSUME NEW S, NEW s \in Seq(S), NEW c \in S, NEW r \in Seq(S), NEW d,
           \A k \in 1..Len(r) : r[k] = c
    PROVE  /\ d = c => Count(s \o r, d) = Count(s, d) + Len(r)
           /\ d # c => Count(s \o r, d) = Count(s, d)
<1> DEFINE n == Len(r)
           t == s \o r
           A == {k \in DOMAIN s : s[k] = d}
           B == {k \in DOMAIN t : t[k] = d}
           C == (Len(s) + 1)..(Len(s) + n)
<1>0. /\ Len(s) \in Nat /\ n \in Nat /\ DOMAIN s = 1..Len(s) /\ DOMAIN t = 1..(Len(s) + n)
      /\ \A k \in 1..Len(s) : t[k] = s[k]
      /\ \A k \in DOMAIN t : k > Len(s) => t[k] = c
  <2>1. /\ t \in Seq(S) /\ Len(t) = Len(s) + Len(r)
        /\ \A k \in 1..Len(s) : t[k] = s[k]
        /\ \A k \in DOMAIN t : k > Len(s) => t[k] = c
    BY RunAppended
  <2> QED BY <2>1
<1>1. IsFiniteSet(A) /\ Cardinality(A) \in Nat
  BY CountFinite
<1>2. IsFiniteSet(C) /\ Cardinality(C) = n
  <2>1. Len(s) + 1 \in Int /\ Len(s) + n \in Int /\ Len(s) + 1 <= Len(s) + n + 1
    BY <1>0
  <2>2. IsFiniteSet(C) /\ Cardinality(C) = IF Len(s) + 1 > Len(s) + n THEN 0
                                           ELSE (Len(s) + n) - (Len(s) + 1) + 1
    BY <2>1, FS_Interval
  <2> HIDE DEF n, C
  <2> QED BY <1>0, <2>2
<1>3. /\ \A k \in 1..Len(s) : t[k] = s[k]
      /\ \A k \in C : t[k] = c
  BY <1>0
<1>4. CASE d = c
  <2>1. B = A \cup C /\ A \cap C = {}
    BY <1>0, <1>3, <1>4
  <2>2. Cardinality(A \cup C) = Cardinality(A) + Cardinality(C) - Cardinality(A \cap C)
    BY <1>1, <1>2, FS_Union
  <2>3. Cardinality(A \cap C) = 0
    BY <2>1, FS_EmptySet
  <2>4. Cardinality(B) = Cardinality(A) + n
    <3> HIDE DEF n, A, B, C
    <3> QED BY <1>0, <1>1, <1>2, <2>1, <2>2, <2>3
  <2> HIDE DEF n, t, A, B, C
  <2> QED BY <1>4, <2>4 DEF n, t, A, B, Count
<1>5. CASE d # c
  <2>1. B = A
    BY <1>0, <1>3, <1>5
  <2> QED BY <1>5, <2>1 DEF Count
<1> QED BY <1>4, <1>5

(* What a client has written so far is a number.                             *)
LEMMA WrittenType ==
    ASSUME StreamTypes, NEW s \in StreamServer, NEW c \in StreamClient
    PROVE  Written(c, s) \in Nat /\ (~InOutput(c, s) => Written(c, s) = 0)
<1>1. out[s] \in Seq(StreamClient)
  BY DEF StreamTypes
<1>2. Written(c, s) \in Nat
  BY <1>1, CountFinite DEF Written
<1>3. ~InOutput(c, s) => {k \in DOMAIN out[s] : out[s][k] = c} = {}
  BY DEF InOutput
<1> QED BY <1>2, <1>3, FS_EmptySet DEF Written

(* Steps of a server before accept(), and its end.                           *)
LEMMA QuietStep ==
    ASSUME StreamInv, NEW s \in StreamServer,
           RemovePath(s) \/ BindPath(s) \/ Listen(s) \/ Stop(s)
    PROVE  StreamInv'
<1>0. StreamTypes /\ Stages /\ Places /\ Unmixed /\ Drained /\ Balance
  BY DEF StreamInv
<1>1. /\ UNCHANGED <<conn, pendq, out, cli, peer, size, rest, chunk, wire>>
      /\ name' \in StreamServer \cup {Nobody} /\ srv[s] # "dead"
      /\ \E to \in {"bind", "listen", "accept", "dead"} :
            srv' = [srv EXCEPT ![s] = to] /\ (to # "dead" => srv[s] \in {"remove", "bind", "listen"})
  BY <1>0 DEF RemovePath, BindPath, Listen, Stop, SrvGoto, Listening, StreamTypes
<1>2. PICK to \in {"bind", "listen", "accept", "dead"} :
            srv' = [srv EXCEPT ![s] = to] /\ (to # "dead" => srv[s] \in {"remove", "bind", "listen"})
  BY <1>1
<1>3. StreamTypes'
  BY <1>0, <1>1, <1>2 DEF StreamTypes
<1>4. Stages'
  BY <1>0, <1>1, <1>2 DEF Stages, StreamTypes
<1>5. Places' /\ Unmixed' /\ Balance'
  BY <1>0, <1>1 DEF Places, Unmixed, Balance, InQueueOf, InOutput, Written
<1>6. \A q \in StreamServer : srv'[q] # "dead" => srv[q] # "dead"
  BY <1>0, <1>1, <1>2 DEF StreamTypes
<1>7. Drained'
  BY <1>0, <1>1, <1>6 DEF Drained, InQueueOf
<1> QED BY <1>3, <1>4, <1>5, <1>7 DEF StreamInv

LEMMA AcceptStep ==
    ASSUME StreamInv, NEW s \in StreamServer, StreamAccept(s)
    PROVE  StreamInv'
<1>0. StreamTypes /\ Stages /\ Places /\ Unmixed /\ Drained /\ Balance
  BY DEF StreamInv
<1>c. PICK c \in StreamClient : c = Head(pendq[s])
  <2>1. pendq[s] \in Seq(StreamClient) /\ pendq[s] # <<>>
    BY <1>0 DEF StreamTypes, StreamAccept
  <2> QED BY <2>1
<1>1. /\ UNCHANGED <<name, out, cli, peer, size, rest, chunk, wire>>
      /\ srv[s] = "accept" /\ srv' = [srv EXCEPT ![s] = "read"] /\ pendq[s] # <<>>
      /\ conn' = [conn EXCEPT ![s] = c] /\ pendq' = [pendq EXCEPT ![s] = Tail(@)]
  BY <1>c DEF StreamAccept, SrvGoto
<1>2. /\ Tail(pendq[s]) \in Seq(StreamClient) /\ c = pendq[s][1]
      /\ 1 \in DOMAIN pendq[s]
      /\ \A k \in DOMAIN Tail(pendq[s]) :
            k + 1 \in DOMAIN pendq[s] /\ k + 1 # 1 /\ Tail(pendq[s])[k] = pendq[s][k + 1]
      /\ \A k \in DOMAIN pendq[s] : k # 1 =>
            k - 1 \in DOMAIN Tail(pendq[s]) /\ Tail(pendq[s])[k - 1] = pendq[s][k]
  <2>1. pendq[s] \in Seq(StreamClient) /\ pendq[s] # <<>>
    BY <1>0, <1>1 DEF StreamTypes
  <2> QED BY <1>c, <2>1
<1>3. /\ conn[s] = Nobody /\ conn'[s] = c /\ pendq'[s] = Tail(pendq[s])
      /\ \A q \in StreamServer \ {s} : conn'[q] = conn[q] /\ pendq'[q] = pendq[q] /\ srv'[q] = srv[q]
  BY <1>0, <1>1 DEF Stages, StreamTypes
<1>4. InQueueOf(c, s) /\ peer[c] = s /\ ~InOutput(c, s)
  BY <1>0, <1>2 DEF InQueueOf, Places
<1>5. /\ ~InQueueOf(c, s)'
      /\ \A d \in StreamClient : d # c => (InQueueOf(d, s)' <=> InQueueOf(d, s))
      /\ \A q \in StreamServer \ {s} : \A d \in StreamClient : InQueueOf(d, q)' <=> InQueueOf(d, q)
  <2>1. ~InQueueOf(c, s)'
    BY <1>0, <1>2, <1>3 DEF InQueueOf, Places
  <2>2. ASSUME NEW d \in StreamClient, d # c PROVE InQueueOf(d, s)' <=> InQueueOf(d, s)
    <3>1. ASSUME InQueueOf(d, s)' PROVE InQueueOf(d, s)
      BY <1>2, <1>3, <3>1 DEF InQueueOf
    <3>2. ASSUME InQueueOf(d, s) PROVE InQueueOf(d, s)'
      <4>1. PICK k \in DOMAIN pendq[s] : pendq[s][k] = d
        BY <3>2 DEF InQueueOf
      <4>2. k - 1 \in DOMAIN pendq'[s] /\ pendq'[s][k - 1] = d
        BY <1>2, <1>3, <2>2, <4>1
      <4> QED BY <4>2 DEF InQueueOf
    <3> QED BY <3>1, <3>2
  <2>3. \A q \in StreamServer \ {s} : \A d \in StreamClient : InQueueOf(d, q)' <=> InQueueOf(d, q)
    BY <1>3 DEF InQueueOf
  <2> QED BY <2>1, <2>2, <2>3
<1>6. \A q \in StreamServer : \A d \in StreamClient : InOutput(d, q)' <=> InOutput(d, q)
  BY <1>1 DEF InOutput
<1>7. StreamTypes'
  BY <1>0, <1>1, <1>2 DEF StreamTypes
<1>8. Stages'
  BY <1>0, <1>1, <1>2, StreamAssumption DEF Stages, StreamTypes
<1>9. Places'
  <2>1. ASSUME NEW q \in StreamServer, NEW d \in StreamClient
        PROVE  /\ InQueueOf(d, q)' => peer'[d] = q /\ conn'[q] # d /\ ~InOutput(d, q)'
               /\ conn'[q] = d \/ InOutput(d, q)' => peer'[d] = q
    BY <1>0, <1>1, <1>3, <1>4, <1>5, <1>6, StreamAssumption DEF Places
  <2>2. ASSUME NEW q \in StreamServer
        PROVE  \A k, m \in DOMAIN pendq'[q] : pendq'[q][k] = pendq'[q][m] => k = m
    <3>1. CASE q # s
      BY <1>0, <1>3, <3>1 DEF Places
    <3>2. CASE q = s
      <4>1. ASSUME NEW k \in DOMAIN pendq'[s], NEW m \in DOMAIN pendq'[s], pendq'[s][k] = pendq'[s][m]
            PROVE  k = m
        <5>1. k + 1 = m + 1
          BY <1>0, <1>2, <1>3, <4>1 DEF Places
        <5>2. k \in Int /\ m \in Int
          BY <1>2, <1>3, <4>1
        <5> QED BY <5>1, <5>2
      <4> QED BY <3>2, <4>1
    <3> QED BY <3>1, <3>2
  <2> QED BY <2>1, <2>2 DEF Places
<1>10. Unmixed'
  BY <1>0, <1>1, <1>3, <1>4, <1>6 DEF Unmixed
<1>11. Drained'
  BY <1>0, <1>1, <1>3, <1>5, StreamAssumption DEF Drained
<1>12. Balance'
  BY <1>0, <1>1 DEF Balance, Written
<1> QED BY <1>7, <1>8, <1>9, <1>10, <1>11, <1>12 DEF StreamInv

(* read() takes bytes of the connection and write() puts them out.           *)
LEMMA CopyStep ==
    ASSUME StreamInv, NEW s \in StreamServer, StreamRead(s), Copy(s, conn[s]), UNCHANGED conn,
           srv[s] = "read", srv' = srv
    PROVE  StreamInv'
<1>0. StreamTypes /\ Stages /\ Places /\ Unmixed /\ Drained /\ Balance
  BY DEF StreamInv
<1>c. PICK c \in StreamClient : c = conn[s]
  BY <1>0 DEF StreamTypes, Stages
<1>n. PICK n \in 1..ChunkSize :
         /\ n <= wire[c]
         /\ out' = [out EXCEPT ![s] = @ \o Copies(c, n)]
         /\ wire' = [wire EXCEPT ![c] = @ - n]
  BY <1>c DEF Copy
<1>1. /\ UNCHANGED <<name, srv, conn, pendq, cli, peer, size, rest, chunk>>
      /\ n \in Nat \ {0} /\ out[s] \in Seq(StreamClient) /\ wire[c] \in Nat
      /\ out'[s] = out[s] \o Copies(c, n) /\ wire'[c] = wire[c] - n
      /\ \A q \in StreamServer \ {s} : out'[q] = out[q]
      /\ \A d \in StreamClient \ {c} : wire'[d] = wire[d]
  BY <1>0, <1>n, StreamAssumption DEF StreamRead, StreamTypes
<1>r. PICK r \in Seq(StreamClient) : r = Copies(c, n) /\ Len(r) = n /\ \A k \in 1..n : r[k] = c
  <2>1. n \in Nat \ {0}
    BY <1>1
  <2>2. Copies(c, n) \in Seq(StreamClient)
    BY <2>1 DEF Copies
  <2>3. Len(Copies(c, n)) = n
    BY <2>1 DEF Copies
  <2>4. \A k \in 1..n : Copies(c, n)[k] = c
    BY <2>1 DEF Copies
  <2> QED BY <2>2, <2>3, <2>4, Zenon
<1>s. out[s] \in Seq(StreamClient) /\ out'[s] = out[s] \o r /\ Len(r) = n /\ \A k \in 1..Len(r) : r[k] = c
  BY <1>1, <1>r
<1>2. /\ out'[s] \in Seq(StreamClient) /\ Len(out'[s]) = Len(out[s]) + n
      /\ DOMAIN out[s] = 1..Len(out[s]) /\ DOMAIN out'[s] = 1..Len(out'[s]) /\ Len(out[s]) \in Nat
      /\ \A k \in 1..Len(out[s]) : out'[s][k] = out[s][k]
      /\ \A k \in (Len(out[s]) + 1)..(Len(out[s]) + n) : out'[s][k] = c
  <2>1. /\ out'[s] \in Seq(StreamClient) /\ Len(out'[s]) = Len(out[s]) + n
        /\ \A k \in 1..Len(out[s]) : out'[s][k] = out[s][k]
        /\ \A k \in DOMAIN out'[s] : k > Len(out[s]) => out'[s][k] = c
    <3>1. /\ out'[s] \in Seq(StreamClient) /\ Len(out'[s]) = Len(out[s]) + Len(r)
          /\ \A k \in 1..Len(out[s]) : out'[s][k] = out[s][k]
          /\ \A k \in DOMAIN out'[s] : k > Len(out[s]) => out'[s][k] = c
      <4>1. out'[s] \in Seq(StreamClient) /\ Len(out'[s]) = Len(out[s]) + Len(r)
        <5>1. out[s] \o r \in Seq(StreamClient) /\ Len(out[s] \o r) = Len(out[s]) + Len(r)
          <6>1. out[s] \in Seq(StreamClient)
            BY <1>s
          <6> QED BY <6>1
        <5>2. out'[s] = out[s] \o r
          BY <1>s
        <5> QED BY <5>1, <5>2, Zenon
      <4>2. \A k \in 1..Len(out[s]) : out'[s][k] = out[s][k]
        BY <1>s
      <4>3. \A k \in DOMAIN out'[s] : k > Len(out[s]) => out'[s][k] = c
        BY <1>s
      <4> QED BY <4>1, <4>2, <4>3
    <3> QED BY <1>s, <3>1
  <2>2. /\ DOMAIN out[s] = 1..Len(out[s]) /\ DOMAIN out'[s] = 1..Len(out'[s]) /\ Len(out[s]) \in Nat
    BY <1>1, <2>1
  <2>3. ASSUME NEW k \in (Len(out[s]) + 1)..(Len(out[s]) + n) PROVE out'[s][k] = c
    <3>1. k \in DOMAIN out'[s] /\ k > Len(out[s])
      BY <1>1, <2>1, <2>2
    <3> QED BY <2>1, <3>1
  <2> QED BY <2>1, <2>2, <2>3
<1>3. /\ \A q \in StreamServer : \A d \in StreamClient : InQueueOf(d, q)' <=> InQueueOf(d, q)
      /\ \A d \in StreamClient \ {c} : InOutput(d, s)' <=> InOutput(d, s)
      /\ \A q \in StreamServer \ {s} : \A d \in StreamClient : InOutput(d, q)' <=> InOutput(d, q)
  <2>1. \A q \in StreamServer : \A d \in StreamClient : InQueueOf(d, q)' <=> InQueueOf(d, q)
    BY <1>1 DEF InQueueOf
  <2>2. ASSUME NEW d \in StreamClient \ {c} PROVE InOutput(d, s)' <=> InOutput(d, s)
    BY <1>1, <1>2 DEF InOutput
  <2>3. \A q \in StreamServer \ {s} : \A d \in StreamClient : InOutput(d, q)' <=> InOutput(d, q)
    BY <1>1 DEF InOutput
  <2> QED BY <2>1, <2>2, <2>3
<1>4. StreamTypes'
  <2>1. out' \in [StreamServer -> Seq(StreamClient)]
    BY <1>0, <1>n, <1>1, <1>2 DEF StreamTypes
  <2>2. wire' \in [StreamClient -> Nat]
    BY <1>0, <1>n, <1>1 DEF StreamTypes
  <2> QED BY <1>0, <1>1, <2>1, <2>2 DEF StreamTypes
<1>5. peer[c] = s /\ ~InQueueOf(c, s) /\ c # Nobody
  BY <1>0, <1>c, StreamAssumption DEF Places
<1>6. Stages'
  BY <1>0, <1>1, <1>5, StreamAssumption DEF Stages
<1>7. Places'
  BY <1>0, <1>1, <1>3, <1>5 DEF Places
<1>8. Unmixed'
  <2>1. ASSUME NEW q \in StreamServer, q # s, NEW d \in StreamClient
        PROVE  /\ \A i, k \in DOMAIN out'[q] :
                     out'[q][i] = d /\ out'[q][k] = d => \A j \in i..k : out'[q][j] = d
               /\ conn'[q] = d /\ InOutput(d, q)' => out'[q][Len(out'[q])] = d
    BY <1>0, <1>1, <1>3, <2>1 DEF Unmixed
  <2>2. ASSUME NEW d \in StreamClient, d # c, NEW i \in DOMAIN out'[s], NEW k \in DOMAIN out'[s],
               out'[s][i] = d, out'[s][k] = d, NEW j \in i..k
        PROVE  out'[s][j] = d
    <3>1. i \in DOMAIN out[s] /\ k \in DOMAIN out[s] /\ out[s][i] = d /\ out[s][k] = d
      BY <1>1, <1>2, <2>2
    <3>2. out[s][j] = d
      BY <1>0, <2>2, <3>1 DEF Unmixed
    <3>3. j \in 1..Len(out[s])
      BY <1>2, <2>2, <3>1
    <3> QED BY <1>2, <3>2, <3>3
  <2>3. ASSUME NEW i \in DOMAIN out'[s], NEW k \in DOMAIN out'[s],
               out'[s][i] = c, out'[s][k] = c, NEW j \in i..k
        PROVE  out'[s][j] = c
    <3>0. i \in Nat /\ k \in Nat /\ j \in Nat /\ 1 <= i /\ i <= j /\ j <= k /\ k <= Len(out[s]) + n
      BY <1>1, <1>2, <2>3
    <3>1. CASE j > Len(out[s])
      BY <1>1, <1>2, <3>0, <3>1
    <3>2. CASE j <= Len(out[s])
      <4>1. i \in 1..Len(out[s]) /\ j \in 1..Len(out[s]) /\ out[s][i] = c
        BY <1>2, <2>3, <3>0, <3>2
      <4>2. Len(out[s]) \in DOMAIN out[s] /\ out[s][Len(out[s])] = c
        BY <1>0, <1>c, <1>2, <4>1 DEF Unmixed, InOutput
      <4>3. j \in i..Len(out[s])
        BY <3>0, <3>2, <1>2
      <4>4. out[s][j] = c
        BY <1>0, <1>2, <4>1, <4>2, <4>3 DEF Unmixed
      <4> QED BY <1>2, <4>1, <4>4
    <3> QED BY <1>2, <3>0, <3>1, <3>2
  <2>4. out'[s][Len(out'[s])] = c
    <3>1. Len(out[s]) + n \in (Len(out[s]) + 1)..(Len(out[s]) + n)
      BY <1>1, <1>2
    <3> QED BY <1>2, <3>1
  <2>5. ASSUME NEW d \in StreamClient
        PROVE  /\ \A i, k \in DOMAIN out'[s] :
                     out'[s][i] = d /\ out'[s][k] = d => \A j \in i..k : out'[s][j] = d
               /\ conn'[s] = d /\ InOutput(d, s)' => out'[s][Len(out'[s])] = d
    <3>1. \A i, k \in DOMAIN out'[s] :
                     out'[s][i] = d /\ out'[s][k] = d => \A j \in i..k : out'[s][j] = d
      <4>1. CASE d = c
        BY <2>3, <4>1
      <4>2. CASE d # c
        BY <2>2, <4>2
      <4> QED BY <4>1, <4>2
    <3> QED BY <1>c, <1>1, <2>4, <3>1
  <2> QED BY <2>1, <2>5 DEF Unmixed
<1>9. Drained'
  <2>1. ASSUME NEW q \in StreamServer, NEW d \in StreamClient, peer'[d] = q, conn'[q] # d
        PROVE  d # c
    BY <1>c, <1>1, <1>5, <2>1
  <2> QED BY <1>0, <1>1, <1>3, <2>1 DEF Drained
<1>10. Balance'
  <2>1. /\ Written(c, s) \in Nat /\ Written(c, s)' = Written(c, s) + n
        /\ \A d \in StreamClient \ {c} : Written(d, s)' = Written(d, s)
    <3>1. Written(c, s)' = Written(c, s) + n
      <4>1. Count(out'[s], c) = Count(out[s], c) + Len(r)
        BY <1>s, RunCounted
      <4> QED BY <1>s, <4>1 DEF Written, Count
    <3>2. ASSUME NEW d \in StreamClient \ {c} PROVE Written(d, s)' = Written(d, s)
      <4>1. Count(out'[s], d) = Count(out[s], d)
        <5>1. d # c
          OBVIOUS
        <5> QED BY <1>s, <5>1, RunCounted
      <4> QED BY <4>1 DEF Written, Count
    <3> QED BY <1>0, <3>1, <3>2, WrittenType
  <2>2. \A q \in StreamServer \ {s} : \A d \in StreamClient : Written(d, q)' = Written(d, q)
    BY <1>1 DEF Written
  <2>3. Written(c, s)' + wire'[c] + chunk'[c] + rest'[c] = size'[c]
    <3>1. Written(c, s) + wire[c] + chunk[c] + rest[c] = size[c]
      BY <1>0, <1>5 DEF Balance
    <3>2. chunk[c] \in Nat /\ rest[c] \in Nat
      BY <1>0 DEF StreamTypes
    <3> QED BY <1>1, <2>1, <3>1, <3>2
  <2>4. ASSUME NEW q \in StreamServer, NEW d \in StreamClient, peer'[d] = q
        PROVE  Written(d, q)' + wire'[d] + chunk'[d] + rest'[d] = size'[d]
    <3>1. CASE d = c
      BY <1>1, <1>5, <2>3, <2>4, <3>1
    <3>2. CASE d # c
      <4>1. Written(d, q)' = Written(d, q) /\ wire'[d] = wire[d]
        BY <1>1, <2>1, <2>2, <3>2
      <4>2. Written(d, q) + wire[d] + chunk[d] + rest[d] = size[d]
        BY <1>0, <1>1, <2>4 DEF Balance
      <4> QED BY <1>1, <4>1, <4>2
    <3> QED BY <3>1, <3>2
  <2> QED BY <2>4 DEF Balance
<1> QED BY <1>4, <1>6, <1>7, <1>8, <1>9, <1>10 DEF StreamInv

(* close() at the end of a connection.                                       *)
LEMMA CloseStep ==
    ASSUME StreamInv, NEW s \in StreamServer, srv[s] = "read", srv' = [srv EXCEPT ![s] = "accept"],
           wire[conn[s]] = 0, cli[conn[s]] \in Ended, conn' = [conn EXCEPT ![s] = Nobody],
           UNCHANGED <<name, pendq, out, cli, peer, size, rest, chunk, wire>>
    PROVE  StreamInv'
<1>0. StreamTypes /\ Stages /\ Places /\ Unmixed /\ Drained /\ Balance
  BY DEF StreamInv
<1>1. StreamTypes' /\ Stages'
  BY <1>0 DEF StreamTypes, Stages
<1>2. \A q \in StreamServer : conn'[q] = IF q = s THEN Nobody ELSE conn[q]
  BY <1>0 DEF StreamTypes
<1>3. \A q \in StreamServer : \A c \in StreamClient :
         (InQueueOf(c, q)' <=> InQueueOf(c, q)) /\ (InOutput(c, q)' <=> InOutput(c, q))
  BY DEF InQueueOf, InOutput
<1>4. Places'
  BY <1>0, <1>2, <1>3, StreamAssumption DEF Places
<1>5. Unmixed'
  BY <1>0, <1>2, <1>3, StreamAssumption DEF Unmixed
<1>6. \A q \in StreamServer : srv'[q] # "dead" => srv[q] # "dead"
  BY <1>0 DEF StreamTypes
<1>7. Drained'
  BY <1>0, <1>2, <1>3, <1>6 DEF Drained
<1>8. Balance'
  BY <1>0 DEF Balance, Written
<1> QED BY <1>1, <1>4, <1>5, <1>7, <1>8 DEF StreamInv

LEMMA ConnectStep ==
    ASSUME StreamInv, NEW c \in StreamClient, StreamConnect(c)
    PROVE  StreamInv'
<1>0. StreamTypes /\ Stages /\ Places /\ Unmixed /\ Drained /\ Balance
  BY DEF StreamInv
<1>1. /\ UNCHANGED <<name, srv, conn, out, size, rest, chunk, wire>>
      /\ cli[c] = "connect" /\ peer[c] = Nobody
  BY <1>0 DEF StreamConnect, CliGoto, Stages
<1>2. CASE cli' = [cli EXCEPT ![c] = "fail"] /\ UNCHANGED <<peer, pendq>>
  <2>1. StreamTypes' /\ Stages'
    BY <1>0, <1>1, <1>2 DEF StreamTypes, Stages, Ended
  <2>2. \A d \in StreamClient : cli[d] \in Ended => cli'[d] \in Ended
    BY <1>0, <1>2 DEF StreamTypes, Ended
  <2>3. Places' /\ Unmixed' /\ Drained' /\ Balance'
    BY <1>0, <1>1, <1>2, <2>2 DEF Places, Unmixed, Drained, Balance, InQueueOf, InOutput, Written
  <2> QED BY <2>1, <2>3 DEF StreamInv
<1>3. CASE /\ name # Nobody /\ cli' = [cli EXCEPT ![c] = "read"]
           /\ peer' = [peer EXCEPT ![c] = name]
           /\ pendq' = [pendq EXCEPT ![name] = Append(@, c)]
  <2>s. PICK s \in StreamServer : s = name
    BY <1>0, <1>3 DEF StreamTypes
  <2>1. /\ pendq[s] \in Seq(StreamClient) /\ pendq'[s] = Append(pendq[s], c)
        /\ \A q \in StreamServer \ {s} : pendq'[q] = pendq[q]
        /\ peer'[c] = s /\ \A d \in StreamClient \ {c} : peer'[d] = peer[d] /\ cli'[d] = cli[d]
    BY <1>0, <1>3, <2>s DEF StreamTypes
  <2>2. /\ pendq'[s] \in Seq(StreamClient) /\ DOMAIN pendq'[s] = 1..(Len(pendq[s]) + 1)
        /\ DOMAIN pendq[s] = 1..Len(pendq[s]) /\ Len(pendq[s]) \in Nat
        /\ pendq'[s][Len(pendq[s]) + 1] = c /\ \A k \in 1..Len(pendq[s]) : pendq'[s][k] = pendq[s][k]
    BY <2>1, AppendFacts
  <2>3. \A q \in StreamServer : ~InQueueOf(c, q) /\ conn[q] # c /\ ~InOutput(c, q)
    BY <1>0, <1>1, StreamAssumption DEF Places
  <2>4. /\ InQueueOf(c, s)'
        /\ \A q \in StreamServer : \A d \in StreamClient \ {c} : InQueueOf(d, q)' <=> InQueueOf(d, q)
        /\ \A q \in StreamServer \ {s} : ~InQueueOf(c, q)'
        /\ \A q \in StreamServer : \A d \in StreamClient : InOutput(d, q)' <=> InOutput(d, q)
    <3>1. InQueueOf(c, s)'
      BY <2>2 DEF InQueueOf
    <3>2. \A d \in StreamClient \ {c} : InQueueOf(d, s)' <=> InQueueOf(d, s)
      BY <2>2 DEF InQueueOf
    <3>3. \A q \in StreamServer \ {s} : \A d \in StreamClient : InQueueOf(d, q)' <=> InQueueOf(d, q)
      BY <2>1 DEF InQueueOf
    <3>4. \A q \in StreamServer : \A d \in StreamClient : InOutput(d, q)' <=> InOutput(d, q)
      BY <1>1 DEF InOutput
    <3> QED BY <2>3, <3>1, <3>2, <3>3, <3>4
  <2>5. StreamTypes'
    <3>1. pendq' \in [StreamServer -> Seq(StreamClient)]
      BY <1>0, <1>3, <2>s, <2>1, <2>2 DEF StreamTypes
    <3> QED BY <1>0, <1>1, <1>3, <2>s, <3>1 DEF StreamTypes
  <2>6. Stages'
    <3>1. cli'[c] = "read" /\ peer'[c] # Nobody /\ chunk'[c] = 0
      BY <1>0, <1>1, <1>3, <2>1, StreamAssumption DEF Stages, StreamTypes
    <3> QED BY <1>0, <1>1, <2>1, <3>1 DEF Stages
  <2>7. Places'
    <3>1. ASSUME NEW q \in StreamServer, NEW d \in StreamClient
          PROVE  /\ InQueueOf(d, q)' => peer'[d] = q /\ conn'[q] # d /\ ~InOutput(d, q)'
                 /\ conn'[q] = d \/ InOutput(d, q)' => peer'[d] = q
      BY <1>0, <1>1, <2>1, <2>3, <2>4 DEF Places
    <3>2. ASSUME NEW k \in DOMAIN pendq'[s], NEW m \in DOMAIN pendq'[s], pendq'[s][k] = pendq'[s][m]
          PROVE  k = m
      <4>1. \A j \in DOMAIN pendq[s] : pendq[s][j] # c
        BY <2>3 DEF InQueueOf
      <4> QED BY <1>0, <2>2, <3>2, <4>1 DEF Places
    <3>3. ASSUME NEW q \in StreamServer
          PROVE  \A k, m \in DOMAIN pendq'[q] : pendq'[q][k] = pendq'[q][m] => k = m
      <4>1. CASE q = s
        BY <3>2, <4>1
      <4>2. CASE q # s
        BY <1>0, <2>1, <4>2 DEF Places
      <4> QED BY <4>1, <4>2
    <3> QED BY <3>1, <3>3 DEF Places
  <2>8. Unmixed'
    BY <1>0, <1>1, <2>4 DEF Unmixed
  <2>9. Drained'
    BY <1>0, <1>1, <2>1, <2>4 DEF Drained
  <2>10. Balance'
    <3>1. \A q \in StreamServer : \A d \in StreamClient : Written(d, q)' = Written(d, q)
      BY <1>1 DEF Written
    <3>2. Written(c, s) + wire[c] + chunk[c] + rest[c] = size[c]
      <4>1. Written(c, s) = 0
        BY <1>0, <2>3, WrittenType
      <4>2. rest[c] = size[c] /\ chunk[c] = 0 /\ wire[c] = 0 /\ size[c] \in Nat
        BY <1>0, <1>1 DEF Stages, StreamTypes
      <4> QED BY <4>1, <4>2
    <3> QED BY <1>0, <1>1, <2>1, <3>1, <3>2 DEF Balance
  <2> QED BY <2>5, <2>6, <2>7, <2>8, <2>9, <2>10 DEF StreamInv
<1> QED BY <1>2, <1>3 DEF StreamConnect, CliGoto

(* A connected client moves bytes on, ends or is killed.                     *)
LEMMA FeedStep ==
    ASSUME StreamInv, NEW c \in StreamClient, ReadStdin(c) \/ StreamWrite(c) \/ KillClient(c)
    PROVE  StreamInv'
<1>0. StreamTypes /\ Stages /\ Places /\ Unmixed /\ Drained /\ Balance
  BY DEF StreamInv
<1>1. /\ UNCHANGED <<name, srv, conn, pendq, out, peer, size>>
      /\ cli[c] \in {"read", "write"} /\ peer[c] # Nobody
  BY <1>0 DEF ReadStdin, StreamWrite, KillClient, CliGoto, Stages
<1>2. /\ cli' \in [StreamClient -> {"connect", "read", "write"} \cup Ended]
      /\ \A d \in StreamClient \ {c} : cli'[d] = cli[d]
      /\ cli'[c] \in {"read", "write"} \cup Ended
  <2>1. \E to \in {"read", "write"} \cup Ended : cli' = [cli EXCEPT ![c] = to]
    BY DEF ReadStdin, StreamWrite, KillClient, CliGoto, Ended
  <2> QED BY <1>0, <2>1 DEF StreamTypes
<1>3. /\ rest' \in [StreamClient -> Nat] /\ chunk' \in [StreamClient -> Nat]
      /\ wire' \in [StreamClient -> Nat]
      /\ \A d \in StreamClient \ {c} : rest'[d] = rest[d] /\ chunk'[d] = chunk[d] /\ wire'[d] = wire[d]
      /\ wire'[c] + chunk'[c] + rest'[c] = wire[c] + chunk[c] + rest[c]
      /\ cli'[c] = "read" => chunk'[c] = 0
      /\ cli'[c] = "write" => chunk'[c] # 0
  <2>0. /\ rest \in [StreamClient -> Nat] /\ chunk \in [StreamClient -> Nat]
        /\ wire \in [StreamClient -> Nat] /\ cli \in [StreamClient -> {"connect", "read", "write"} \cup Ended]
    BY <1>0 DEF StreamTypes
  <2>1. CASE ReadStdin(c)
    <3>1. cli[c] = "read" /\ chunk[c] = 0 /\ UNCHANGED wire
      BY <1>0, <2>1 DEF ReadStdin, CliGoto, Stages
    <3>2. CASE UNCHANGED <<chunk, rest>> /\ cli' = [cli EXCEPT ![c] = "exit"]
      BY <2>0, <3>1, <3>2
    <3>3. CASE /\ cli' = [cli EXCEPT ![c] = "write"]
               /\ \E n \in 1..ChunkSize :
                     /\ n <= rest[c]
                     /\ chunk' = [chunk EXCEPT ![c] = n]
                     /\ rest' = [rest EXCEPT ![c] = @ - n]
      BY <2>0, <3>1, <3>3, StreamAssumption
    <3> QED BY <2>1, <3>2, <3>3 DEF ReadStdin, CliGoto
  <2>2. CASE StreamWrite(c)
    <3>1. cli[c] = "write" /\ chunk[c] # 0 /\ UNCHANGED rest
      BY <1>0, <2>2 DEF StreamWrite, CliGoto, Stages
    <3>2. CASE UNCHANGED <<chunk, wire>> /\ cli' = [cli EXCEPT ![c] = "fail"]
      BY <2>0, <3>1, <3>2
    <3>3. CASE /\ cli' = [cli EXCEPT ![c] = IF chunk[c] = 1 THEN "read" ELSE "write"]
               /\ wire' = [wire EXCEPT ![c] = @ + 1]
               /\ chunk' = [chunk EXCEPT ![c] = @ - 1]
      BY <2>0, <3>1, <3>3
    <3> QED BY <2>2, <3>2, <3>3 DEF StreamWrite, CliGoto
  <2>3. CASE KillClient(c)
    BY <2>0, <2>3 DEF KillClient
  <2> QED BY <2>1, <2>2, <2>3
<1>4. StreamTypes'
  BY <1>0, <1>1, <1>2, <1>3 DEF StreamTypes
<1>5. Stages'
  BY <1>0, <1>1, <1>2, <1>3 DEF Stages, Ended
<1>6. Places' /\ Unmixed'
  BY <1>0, <1>1 DEF Places, Unmixed, InQueueOf, InOutput
<1>7. Drained'
  <2>1. \A q \in StreamServer : \A d \in StreamClient : InQueueOf(d, q)' <=> InQueueOf(d, q)
    BY <1>1 DEF InQueueOf
  <2>2. cli[c] \notin Ended
    BY <1>1 DEF Ended
  <2> QED BY <1>0, <1>1, <1>2, <1>3, <2>1, <2>2 DEF Drained
<1>8. Balance'
  <2>1. \A q \in StreamServer : \A d \in StreamClient :
            Written(d, q)' = Written(d, q) /\ Written(d, q) \in Nat
    BY <1>0, <1>1, WrittenType DEF Written
  <2>2. ASSUME NEW q \in StreamServer, peer'[c] = q
        PROVE  Written(c, q)' + wire'[c] + chunk'[c] + rest'[c] = size'[c]
    <3>1. Written(c, q) + wire[c] + chunk[c] + rest[c] = size[c]
      BY <1>0, <1>1, <2>2 DEF Balance
    <3>2. wire[c] \in Nat /\ chunk[c] \in Nat /\ rest[c] \in Nat
          /\ wire'[c] \in Nat /\ chunk'[c] \in Nat /\ rest'[c] \in Nat
      BY <1>0, <1>3 DEF StreamTypes
    <3> QED BY <1>1, <1>3, <2>1, <3>1, <3>2
  <2> QED BY <1>0, <1>1, <1>3, <2>1, <2>2 DEF Balance
<1> QED BY <1>4, <1>5, <1>6, <1>7, <1>8 DEF StreamInv

LEMMA StreamNextInv == StreamInv /\ [StreamNext]_streamVars => StreamInv'
<1> SUFFICES ASSUME StreamInv, [StreamNext]_streamVars PROVE StreamInv'
  OBVIOUS
<1>1. ASSUME NEW s \in StreamServer, StreamRead(s) PROVE StreamInv'
  <2>1. CASE SrvGoto(s, "read", "read") /\ Copy(s, conn[s]) /\ UNCHANGED conn
    <3>1. srv[s] = "read" /\ srv' = srv
      BY <2>1 DEF SrvGoto, StreamInv, StreamTypes
    <3> QED BY <1>1, <2>1, <3>1, CopyStep
  <2>2. CASE /\ SrvGoto(s, "read", "accept")
             /\ wire[conn[s]] = 0 /\ cli[conn[s]] \in Ended
             /\ conn' = [conn EXCEPT ![s] = Nobody] /\ UNCHANGED <<out, wire>>
    <3>1. UNCHANGED <<name, pendq, out, cli, peer, size, rest, chunk, wire>>
      BY <1>1, <2>2 DEF StreamRead
    <3> QED BY <2>2, <3>1, CloseStep DEF SrvGoto
  <2> QED BY <1>1, <2>1, <2>2 DEF StreamRead
<1>2. CASE UNCHANGED streamVars
  BY <1>2 DEF streamVars, StreamInv, StreamTypes, Stages, Places, Unmixed, Drained, Balance,
              InQueueOf, InOutput, Written
<1> QED BY <1>1, <1>2, QuietStep, AcceptStep, ConnectStep, FeedStep DEF StreamNext, Serve, Feed

(* For any servers, clients and inputs, however the servers take the path    *)
(* from each other: a server writes its clients' inputs one after the other, *)
(* and each of them whole before it goes on (server.c:44-66,                 *)
(* client.c:31-43).                                                          *)
THEOREM InputsStayWhole == StreamSpec => []WholeInputs
<1>1. StreamInv => WholeInputs
  <2> SUFFICES ASSUME StreamInv, NEW s \in StreamServer, NEW c \in StreamClient,
                      peer[c] = s /\ srv[s] # "dead" /\ conn[s] # c
                        /\ (\A i \in DOMAIN pendq[s] : pendq[s][i] # c)
               PROVE  Written(c, s) = size[c] - rest[c] - chunk[c]
    BY DEF StreamInv, Unmixed, WholeInputs
  <2>1. wire[c] = 0
    BY DEF StreamInv, Drained, InQueueOf
  <2>2. Written(c, s) + wire[c] + chunk[c] + rest[c] = size[c]
    BY DEF StreamInv, Balance
  <2>3. Written(c, s) \in Nat /\ chunk[c] \in Nat /\ rest[c] \in Nat
    BY WrittenType DEF StreamInv, StreamTypes
  <2> QED BY <2>1, <2>2, <2>3
<1> QED BY <1>1, StreamInitInv, StreamNextInv, PTL DEF StreamSpec
-----------------------------------------------------------------------------
(* TcpEcho.  What a client sends, the line it should read back, and how many *)
(* bytes it has written as long as the server has not closed.                *)
Text(c) == Append(msg[c], NL)
Echo(c) == Expected(Text(c))
Sent(c, w) == \/ pc[c] \in {"connect", "write"} /\ w = 0
              \/ pc[c] = "newline" /\ w = Len(msg[c])
              \/ pc[c] \in {"read", "ok"} /\ w = Len(msg[c]) + 1
              \/ pc[c] = "killed" /\ w \in {0, Len(msg[c]), Len(msg[c]) + 1}
TcpTypes ==
    /\ msg \in [Client -> Seq(Byte)]
    /\ pc \in [Client -> {"connect", "write", "newline", "read"} \cup Gone]
    /\ buffer \in [Client -> Seq(Byte)] /\ up \in [Client -> Seq(Byte)]
    /\ down \in [Client -> Seq(Byte)] /\ line \in Seq(Byte)
    /\ closed \subseteq Client /\ reset \subseteq closed /\ queue \in Seq(Client)
    /\ server \in {"accept", "read", "reply", "close"}
    /\ server = "accept" => cur = None
    /\ server # "accept" => cur \in Client
(* A connection waits in the queue once, is served, or is closed.            *)
TcpPlaces ==
    /\ \A k \in DOMAIN queue : queue[k] \notin closed /\ queue[k] # cur /\ pc[queue[k]] # "connect"
    /\ \A k, m \in DOMAIN queue : queue[k] = queue[m] => k = m
    /\ cur \notin closed /\ \A c \in Client : c = cur \/ c \in closed => pc[c] # "connect"
(* The server has read n of the w bytes that c has written, none of them a   *)
(* newline, and has kept those that fit.                                     *)
Reading(c, n, w) ==
    /\ n <= w /\ Sent(c, w) /\ Len(up[c]) = w - n
    /\ \A k \in 1..(w - n) : up[c][k] = Text(c)[n + k]
    /\ c # cur => n = 0
    /\ c = cur /\ server = "read" =>
          /\ \A k \in 1..n : Text(c)[k] # NL
          /\ Len(line) = IF n < BuffSize THEN n ELSE BuffSize - 1
          /\ \A k \in 1..Len(line) : line[k] = Text(c)[k]
Upstream(c) == c \notin closed => \E n, w \in 0..(Len(msg[c]) + 1) : Reading(c, n, w)
(* A line that fits, with a newline at most at its end.                      *)
IsLine(s) == /\ s \in Seq(Byte) /\ Len(s) \in 1..(BuffSize - 1)
             /\ \A k \in 1..(Len(s) - 1) : s[k] # NL
(* What a client that was answered has read, and what is on its way to it.   *)
Halves(c) == /\ Len(buffer[c]) + Len(down[c]) = Len(Echo(c))
             /\ \A k \in 1..Len(buffer[c]) : buffer[c][k] = Echo(c)[k]
             /\ \A k \in 1..Len(down[c]) : down[c][k] = Echo(c)[Len(buffer[c]) + k]
Answered(c) == c \in closed \/ (c = cur /\ server = "close")
Downstream(c) ==
    /\ ~Answered(c) => buffer[c] = <<>> /\ down[c] = <<>> /\ pc[c] \notin {"ok", "failed"}
    /\ c = cur /\ server = "reply" /\ pc[c] # "killed" => line = Echo(c) /\ IsLine(Echo(c))
    /\ Answered(c) /\ pc[c] # "killed" =>
          IsLine(Echo(c)) /\ Halves(c) /\ (pc[c] = "ok" => down[c] = <<>>)
OneLine(c) == NL \notin Range(msg[c]) =>
    /\ Answered(c) \/ (c = cur /\ server = "reply") => pc[c] \in {"read", "ok", "killed"}
    /\ c = cur /\ server \in {"reply", "close"} => up[c] = <<>>
    /\ c \notin reset
Conversation(c) == Upstream(c) /\ Downstream(c) /\ OneLine(c)
TcpInv == TcpTypes /\ TcpPlaces /\ \A c \in Client : Conversation(c)

LEMMA TcpInitInv == Init => TcpInv
<1> SUFFICES ASSUME Init PROVE TcpInv
  OBVIOUS
<1> USE SizeAssumption, MessageAssumption DEF Init
<1>1. TcpTypes
  <2>1. msg \in [Client -> Seq(Byte)]
    OBVIOUS
  <2>2. /\ buffer \in [Client -> Seq(Byte)] /\ up \in [Client -> Seq(Byte)]
        /\ down \in [Client -> Seq(Byte)]
    OBVIOUS
  <2>3. pc \in [Client -> {"connect", "write", "newline", "read"} \cup Gone]
    OBVIOUS
  <2> QED BY <2>1, <2>2, <2>3 DEF TcpTypes
<1>2. TcpPlaces
  BY DEF TcpPlaces
<1>3. ASSUME NEW c \in Client PROVE Conversation(c)
  <2>1. Len(msg[c]) \in Nat
    BY <1>1 DEF TcpTypes
  <2>2. Reading(c, 0, 0)
    BY DEF Reading, Sent
  <2>3. Upstream(c)
    BY <2>1, <2>2 DEF Upstream
  <2>4. Downstream(c) /\ OneLine(c)
    BY DEF Downstream, OneLine, Answered
  <2> QED BY <2>3, <2>4 DEF Conversation
<1> QED BY <1>1, <1>2, <1>3 DEF TcpInv

(* A step that does not concern d.                                           *)
LEMMA Frame ==
    ASSUME NEW d \in Client, Conversation(d), msg' = msg,
           pc'[d] = pc[d], buffer'[d] = buffer[d], up'[d] = up[d], down'[d] = down[d],
           d \in closed' <=> d \in closed, d \in reset' <=> d \in reset,
           d = cur' <=> d = cur, d = cur => server' = server /\ line' = line
    PROVE  Conversation(d)'
<1>1. Text(d)' = Text(d) /\ Echo(d)' = Echo(d) /\ (Answered(d)' <=> Answered(d))
  BY DEF Text, Echo, Answered
<1>2. ASSUME NEW n, NEW w, Reading(d, n, w) PROVE Reading(d, n, w)'
  <2>1. Sent(d, w)'
    BY <1>2 DEF Reading, Sent
  <2> QED BY <1>1, <1>2, <2>1 DEF Reading
<1>3. Upstream(d)'
  BY <1>2 DEF Conversation, Upstream
<1>4. Downstream(d)'
  BY <1>1 DEF Conversation, Downstream, Halves
<1>5. OneLine(d)'
  BY <1>1 DEF Conversation, OneLine
<1> QED BY <1>3, <1>4, <1>5 DEF Conversation

LEMMA TextFacts ==
    ASSUME TcpTypes, NEW c \in Client
    PROVE  /\ Len(msg[c]) \in Nat /\ Text(c) \in Seq(Byte) /\ Len(Text(c)) = Len(msg[c]) + 1
           /\ Text(c)[Len(msg[c]) + 1] = NL
           /\ \A k \in 1..Len(msg[c]) : Text(c)[k] = msg[c][k]
<1>1. msg[c] \in Seq(Byte)
  BY DEF TcpTypes
<1>2. NL \in Byte
  BY DEF Byte
<1>3. /\ Append(msg[c], NL) \in Seq(Byte) /\ Len(Append(msg[c], NL)) = Len(msg[c]) + 1
      /\ Append(msg[c], NL)[Len(msg[c]) + 1] = NL
      /\ \A k \in 1..Len(msg[c]) : Append(msg[c], NL)[k] = msg[c][k]
  BY <1>1, <1>2
<1> QED BY <1>1, <1>3 DEF Text

LEMMA HeadTail ==
    ASSUME NEW S, NEW s \in Seq(S), s # <<>>
    PROVE  /\ Tail(s) \in Seq(S) /\ Len(s) \in Nat \ {0} /\ Len(Tail(s)) = Len(s) - 1
           /\ Head(s) = s[1] /\ Head(s) \in S
           /\ \A k \in 1..(Len(s) - 1) : Tail(s)[k] = s[k + 1]
OBVIOUS

(* Where readLine stops is where Expected ends.                              *)
LEMMA LineFound ==
    ASSUME NEW s \in Seq(Byte), NEW n \in 1..Len(s), s[n] = NL, \A k \in 1..(n - 1) : s[k] # NL
    PROVE  /\ Expected(s) \in Seq(Byte)
           /\ Len(Expected(s)) = IF n < BuffSize THEN n ELSE BuffSize - 1
           /\ \A k \in 1..Len(Expected(s)) : Expected(s)[k] = s[k]
<1> DEFINE P(m) == s[m] = NL /\ \A k \in 1..(m - 1) : s[k] # NL
           m == CHOOSE m \in 1..Len(s) : P(m)
           e == IF n < BuffSize THEN n ELSE BuffSize - 1
<1>0. Len(s) \in Nat /\ n \in Nat /\ n >= 1 /\ n <= Len(s)
  OBVIOUS
<1>1. m = n
  <2>1. P(n)
    OBVIOUS
  <2>2. \A j \in 1..Len(s) : P(j) => j = n
    BY <1>0
  <2> HIDE DEF P
  <2>3. m \in 1..Len(s) /\ P(m)
    BY <2>1
  <2> QED BY <2>2, <2>3
<1>2. FirstLine(s) = SubSeq(s, 1, n)
  BY <1>1, Zenon DEF FirstLine
<1>3. /\ SubSeq(s, 1, n) \in Seq(Byte) /\ Len(SubSeq(s, 1, n)) = n
      /\ \A k \in 1..n : SubSeq(s, 1, n)[k] = s[k]
  BY <1>0
<1>4. e \in 1..n
  BY <1>0, SizeAssumption
<1>5. PICK l \in Seq(Byte) : l = FirstLine(s) /\ Len(l) = n /\ \A k \in 1..n : l[k] = s[k]
  BY <1>2, <1>3
<1>6. Expected(s) = SubSeq(l, 1, e)
  BY <1>5 DEF Expected
<1> HIDE DEF e
<1>7. /\ SubSeq(l, 1, e) \in Seq(Byte) /\ Len(SubSeq(l, 1, e)) = e
      /\ \A k \in 1..e : SubSeq(l, 1, e)[k] = l[k]
  BY <1>4, <1>5
<1>8. \A k \in 1..e : k \in 1..n
  BY <1>4
<1>9. Len(Expected(s)) = e /\ Expected(s) \in Seq(Byte) /\ \A k \in 1..e : Expected(s)[k] = s[k]
  BY <1>5, <1>6, <1>7, <1>8
<1> QED BY <1>9 DEF e

LEMMA ConnectInv ==
    ASSUME TcpInv, NEW c \in Client, Connect(c)
    PROVE  TcpInv'
<1>0. TcpTypes /\ TcpPlaces /\ \A d \in Client : Conversation(d)
  BY DEF TcpInv
<1>1. /\ pc[c] = "connect" /\ pc' = [pc EXCEPT ![c] = "write"] /\ queue' = Append(queue, c)
      /\ UNCHANGED <<msg, buffer, up, down, closed, reset, server, cur, line>>
  BY DEF Connect, Goto
<1>2. /\ queue' \in Seq(Client) /\ DOMAIN queue' = 1..(Len(queue) + 1) /\ DOMAIN queue = 1..Len(queue)
      /\ Len(queue) \in Nat /\ queue'[Len(queue) + 1] = c /\ \A k \in 1..Len(queue) : queue'[k] = queue[k]
  BY <1>0, <1>1, AppendFacts DEF TcpTypes
<1>3. c \notin closed /\ c # cur /\ \A k \in DOMAIN queue : queue[k] # c
  BY <1>0, <1>1 DEF TcpPlaces
<1>4. TcpTypes'
  BY <1>0, <1>1, <1>2 DEF TcpTypes
<1>5. pc'[c] = "write" /\ \A d \in Client \ {c} : pc'[d] = pc[d]
  BY <1>0, <1>1 DEF TcpTypes
<1>6. TcpPlaces'
  <2>1. \A k \in DOMAIN queue' : queue'[k] \in Client /\ queue'[k] \notin closed' /\ queue'[k] # cur'
    <3>1. \A k \in DOMAIN queue' : queue'[k] \in Client
      BY <1>2
    <3> QED BY <1>0, <1>1, <1>2, <1>3, <3>1 DEF TcpPlaces
  <2>2. \A k \in DOMAIN queue' : pc'[queue'[k]] # "connect"
    BY <1>0, <1>2, <1>3, <1>5, <2>1 DEF TcpPlaces
  <2>3. \A k, m \in DOMAIN queue' : queue'[k] = queue'[m] => k = m
    BY <1>0, <1>2, <1>3 DEF TcpPlaces
  <2>4. \A d \in Client : d = cur' \/ d \in closed' => pc'[d] # "connect"
    BY <1>0, <1>1, <1>3, <1>5 DEF TcpPlaces
  <2> QED BY <1>0, <1>1, <2>1, <2>2, <2>3, <2>4 DEF TcpPlaces
<1>7. Conversation(c)'
  <2>1. Upstream(c) /\ Downstream(c) /\ OneLine(c) /\ Text(c)' = Text(c)
    BY <1>0, <1>1 DEF Conversation, Text
  <2>2. ASSUME NEW n, NEW w, Reading(c, n, w) PROVE Reading(c, n, w)'
    <3>1. Sent(c, w)'
      BY <1>1, <1>5, <2>2 DEF Reading, Sent
    <3> QED BY <1>1, <1>3, <2>1, <2>2, <3>1 DEF Reading
  <2>3. Upstream(c)'
    BY <1>1, <2>1, <2>2 DEF Upstream
  <2>4. Downstream(c)' /\ OneLine(c)'
    BY <1>1, <1>3, <1>5, <2>1 DEF Downstream, OneLine, Answered
  <2> QED BY <2>3, <2>4 DEF Conversation
<1>8. ASSUME NEW d \in Client, d # c PROVE Conversation(d)'
  <2>1. Conversation(d) /\ pc'[d] = pc[d]
    BY <1>0, <1>5, <1>8
  <2> QED BY <1>1, <2>1, Frame
<1> QED BY <1>4, <1>6, <1>7, <1>8 DEF TcpInv

(* A write() on a connection the server has not closed.                      *)
LEMMA WriteBytes ==
    ASSUME TcpTypes, NEW c \in Client, NEW bytes \in Seq(Byte), c \notin closed,
           up' = [up EXCEPT ![c] = @ \o bytes],
           UNCHANGED <<msg, buffer, down, closed, reset, queue, server, cur, line>>,
           NEW n \in Nat, NEW w \in Nat, Reading(c, n, w), Sent(c, w + Len(bytes))',
           \A k \in 1..Len(bytes) : bytes[k] = Text(c)[w + k]
    PROVE  Reading(c, n, w + Len(bytes))'
<1>1. up[c] \in Seq(Byte) /\ up'[c] = up[c] \o bytes
  BY DEF TcpTypes
<1>2. Text(c)' = Text(c) /\ n <= w /\ Len(up[c]) = w - n /\ Len(bytes) \in Nat
  BY DEF Text, Reading
<1>3. Len(up'[c]) = Len(up[c]) + Len(bytes)
  BY <1>1
<1>4. \A k \in 1..Len(up[c]) : up'[c][k] = up[c][k]
  BY <1>1
<1>5. \A k \in 1..Len(bytes) : up'[c][Len(up[c]) + k] = bytes[k]
  BY <1>1
<1>6. Len(up'[c]) = (w + Len(bytes)) - n /\ n <= w + Len(bytes)
  BY <1>2, <1>3
<1>7. ASSUME NEW k \in 1..((w + Len(bytes)) - n) PROVE up'[c][k] = Text(c)[n + k]
  <2>1. CASE k <= w - n
    BY <1>2, <1>4, <2>1 DEF Reading
  <2>2. CASE k > w - n
    <3>1. PICK j \in 1..Len(bytes) : k = (w - n) + j
      <4>1. k - (w - n) \in 1..Len(bytes) /\ k = (w - n) + (k - (w - n))
        BY <1>2, <2>2
      <4> QED BY <4>1
    <3>2. up'[c][k] = bytes[j] /\ n + k = w + j
      BY <1>2, <1>5, <3>1
    <3> QED BY <3>2
  <2> QED BY <1>2, <2>1, <2>2
<1> QED BY <1>2, <1>6, <1>7 DEF Reading

LEMMA WriteInv ==
    ASSUME TcpInv, NEW c \in Client, WriteMsg(c) \/ WriteNewline(c)
    PROVE  TcpInv'
<1>0. TcpTypes /\ TcpPlaces /\ \A d \in Client : Conversation(d)
  BY DEF TcpInv
<1>b. PICK bytes \in Seq(Byte), from \in {"write", "newline"}, to \in {"newline", "read"} :
         /\ Write(c, from, bytes, to)
         /\ from = "write" => to = "newline" /\ bytes = msg[c]
         /\ from = "newline" => to = "read" /\ bytes = <<NL>>
  <2>1. msg[c] \in Seq(Byte) /\ <<NL>> \in Seq(Byte)
    <3>1. NL \in Byte
      BY DEF Byte
    <3> QED BY <1>0, <3>1 DEF TcpTypes
  <2>2. CASE WriteMsg(c)
    BY <2>1, <2>2 DEF WriteMsg
  <2>3. CASE WriteNewline(c)
    BY <2>1, <2>3 DEF WriteNewline
  <2> QED BY <2>2, <2>3
<1>1. pc[c] = from /\ UNCHANGED <<msg, buffer, down, closed, queue, server, cur, line>>
  BY <1>b DEF Write, Goto
<1>2. /\ \E x \in {to, "failed"} : pc' = [pc EXCEPT ![c] = x]
      /\ up' \in [Client -> Seq(Byte)] /\ reset' \subseteq closed
      /\ \A d \in Client \ {c} : up'[d] = up[d] /\ (d \in reset' <=> d \in reset)
  <2>1. up[c] \in Seq(Byte) /\ up[c] \o bytes \in Seq(Byte) /\ up \in [Client -> Seq(Byte)]
    BY <1>0 DEF TcpTypes
  <2>2. up' = [up EXCEPT ![c] = @ \o bytes] \/ up' = up
    BY <1>b DEF Write
  <2>3. up' \in [Client -> Seq(Byte)] /\ \A d \in Client \ {c} : up'[d] = up[d]
    BY <2>1, <2>2
  <2> QED BY <1>0, <1>b, <2>3 DEF Write, Goto, TcpTypes
<1>3. \A d \in Client \ {c} : pc'[d] = pc[d]
  BY <1>0, <1>2 DEF TcpTypes
<1>4. TcpTypes'
  <2>1. pc' \in [Client -> {"connect", "write", "newline", "read"} \cup Gone]
    BY <1>0, <1>2 DEF TcpTypes, Gone
  <2> QED BY <1>0, <1>1, <1>2, <2>1 DEF TcpTypes
<1>5. pc'[c] \in {to, "failed"}
  BY <1>0, <1>2 DEF TcpTypes
<1>6. TcpPlaces'
  <2>1. \A d \in Client : pc[d] # "connect" => pc'[d] # "connect"
    BY <1>3, <1>5
  <2>2. \A k \in DOMAIN queue : queue[k] \in Client
    BY <1>0 DEF TcpTypes
  <2> QED BY <1>0, <1>1, <2>1, <2>2 DEF TcpPlaces
<1>7. ASSUME NEW d \in Client, d # c PROVE Conversation(d)'
  <2>1. /\ Conversation(d) /\ pc'[d] = pc[d] /\ up'[d] = up[d] /\ buffer'[d] = buffer[d]
        /\ down'[d] = down[d] /\ (d \in reset' <=> d \in reset)
    BY <1>0, <1>1, <1>2, <1>3, <1>7
  <2> QED BY <1>1, <2>1, Frame
<1>8. Conversation(c)'
  <2>0. /\ Upstream(c) /\ Downstream(c) /\ OneLine(c) /\ Text(c)' = Text(c) /\ Echo(c)' = Echo(c)
        /\ (Answered(c)' <=> Answered(c))
    BY <1>0, <1>1 DEF Conversation, Text, Echo, Answered
  <2>1. CASE c \notin closed
    <3>1. /\ up' = [up EXCEPT ![c] = @ \o bytes] /\ UNCHANGED reset
          /\ pc' = [pc EXCEPT ![c] = to] /\ pc'[c] = to
      BY <1>0, <1>b, <2>1 DEF Write, Goto, TcpTypes
    <3>2. PICK n, w \in 0..(Len(msg[c]) + 1) : Reading(c, n, w)
      BY <2>0, <2>1 DEF Upstream
    <3>3. n \in Nat /\ w \in Nat /\ Len(msg[c]) \in Nat
      BY <1>0, TextFacts
    <3>4. /\ w + Len(bytes) \in 0..(Len(msg[c]) + 1)
          /\ Sent(c, w + Len(bytes))'
          /\ \A k \in 1..Len(bytes) : bytes[k] = Text(c)[w + k]
      <4>1. CASE from = "write"
        <5>1. w = 0 /\ bytes = msg[c]
          BY <1>b, <1>1, <3>2, <4>1 DEF Reading, Sent
        <5>2. \A k \in 1..Len(msg[c]) : msg[c][k] = Text(c)[k] /\ 0 + k = k
          BY <1>0, TextFacts
        <5>3. Sent(c, Len(msg[c]))'
          BY <1>b, <1>1, <3>1, <4>1 DEF Sent
        <5>4. w + Len(bytes) = Len(msg[c])
          BY <3>3, <5>1
        <5>5. Sent(c, w + Len(bytes))'
          BY <1>1, <1>b, <3>1, <4>1, <5>4 DEF Sent
        <5> QED BY <3>3, <5>1, <5>2, <5>4, <5>5
      <4>2. CASE from = "newline"
        <5>1. w = Len(msg[c]) /\ bytes = <<NL>> /\ Len(bytes) = 1 /\ bytes[1] = NL
          BY <1>b, <1>1, <3>2, <4>2 DEF Reading, Sent
        <5>2. Text(c)[Len(msg[c]) + 1] = NL
          BY <1>0, TextFacts
        <5>3. Sent(c, w + Len(bytes))'
          BY <1>1, <1>b, <3>1, <4>2, <5>1 DEF Sent
        <5> QED BY <3>3, <5>1, <5>2, <5>3
      <4> QED BY <4>1, <4>2
    <3>5. Reading(c, n, w + Len(bytes))'
      BY <1>0, <1>1, <2>1, <3>1, <3>2, <3>3, <3>4, WriteBytes
    <3>6. Upstream(c)'
      BY <1>1, <3>4, <3>5 DEF Upstream
    <3>7. Downstream(c)'
      BY <1>b, <1>1, <2>0, <3>1 DEF Downstream, Halves
    <3>8. OneLine(c)'
      <4>1. NL \notin Range(msg[c]) => ~Answered(c) /\ ~(c = cur /\ server = "reply")
        BY <1>1, <2>0 DEF OneLine
      <4> QED BY <1>1, <2>0, <3>1, <4>1 DEF OneLine, Answered
    <3> QED BY <3>6, <3>7, <3>8 DEF Conversation
  <2>2. CASE c \in closed
    <3>1. Answered(c) /\ NL \in Range(msg[c]) /\ pc[c] # "killed"
      BY <1>1, <2>0, <2>2 DEF Answered, OneLine
    <3>2. Upstream(c)' /\ OneLine(c)'
      <4>1. c \in closed' /\ NL \in Range(msg[c])'
        BY <1>1, <2>2, <3>1
      <4> QED BY <4>1 DEF Upstream, OneLine
    <3>3. c # cur
      BY <1>0, <2>2 DEF TcpPlaces
    <3>4. Downstream(c)'
      BY <1>1, <1>5, <2>0, <3>1, <3>3 DEF Downstream, Halves
    <3> QED BY <3>2, <3>4 DEF Conversation
  <2> QED BY <2>1, <2>2
<1> QED BY <1>4, <1>6, <1>7, <1>8 DEF TcpInv

(* The first byte of d, moved to the end of b, when b and d are e in two     *)
(* halves.                                                                   *)
LEMMA ByteMoved ==
    ASSUME NEW S, NEW b \in Seq(S), NEW d \in Seq(S), NEW e \in Seq(S), d # <<>>,
           Len(b) + Len(d) = Len(e),
           \A k \in 1..Len(b) : b[k] = e[k],
           \A k \in 1..Len(d) : d[k] = e[Len(b) + k]
    PROVE  /\ Append(b, Head(d)) \in Seq(S) /\ Tail(d) \in Seq(S)
           /\ Len(Append(b, Head(d))) + Len(Tail(d)) = Len(e)
           /\ \A k \in 1..Len(Append(b, Head(d))) : Append(b, Head(d))[k] = e[k]
           /\ \A k \in 1..Len(Tail(d)) : Tail(d)[k] = e[Len(Append(b, Head(d))) + k]
           /\ Len(b) < Len(e) /\ Head(d) = e[Len(b) + 1]
           /\ Len(b) + 1 = Len(e) => Tail(d) = <<>>
<1>1. /\ Tail(d) \in Seq(S) /\ Len(d) \in Nat \ {0} /\ Len(b) \in Nat /\ Len(e) \in Nat
      /\ Len(Tail(d)) = Len(d) - 1 /\ Head(d) = d[1] /\ Head(d) \in S
      /\ \A k \in 1..(Len(d) - 1) : Tail(d)[k] = d[k + 1]
  BY HeadTail
<1>2. PICK h \in S : h = Head(d)
  BY <1>1
<1>3. /\ Append(b, h) \in Seq(S) /\ Len(Append(b, h)) = Len(b) + 1
      /\ Append(b, h)[Len(b) + 1] = h /\ \A k \in 1..Len(b) : Append(b, h)[k] = b[k]
  OBVIOUS
<1>4. h = e[Len(b) + 1] /\ Len(b) < Len(e)
  BY <1>1, <1>2
<1>5. \A k \in 1..Len(Append(b, h)) : Append(b, h)[k] = e[k]
  BY <1>1, <1>3, <1>4
<1>6. ASSUME NEW k \in 1..Len(Tail(d)) PROVE Tail(d)[k] = e[Len(Append(b, h)) + k]
  <2>1. k \in Nat /\ k \in 1..(Len(d) - 1) /\ k + 1 \in 1..Len(d)
    BY <1>1
  <2>2. Tail(d)[k] = e[Len(b) + (k + 1)]
    BY <1>1, <2>1
  <2>3. Len(b) + (k + 1) = Len(Append(b, h)) + k
    BY <1>1, <1>3, <2>1
  <2> QED BY <2>2, <2>3
<1>7. Len(b) + 1 = Len(e) => Tail(d) = <<>>
  <2>1. Len(b) + 1 = Len(e) => Len(Tail(d)) = 0
    BY <1>1
  <2>2. \A t \in Seq(S) : Len(t) = 0 => t = <<>>
    OBVIOUS
  <2> QED BY <1>1, <2>1, <2>2
<1>8. Len(Append(b, h)) + Len(Tail(d)) = Len(e)
  BY <1>1, <1>3
<1> QED BY <1>1, <1>2, <1>3, <1>4, <1>5, <1>6, <1>7, <1>8

(* The byte a client reads is the next one of its line; a newline is the     *)
(* last.                                                                     *)
LEMMA ByteRead ==
    ASSUME TcpTypes, NEW c \in Client, Downstream(c), Answered(c), pc[c] = "read", down[c] # <<>>,
           buffer' = [buffer EXCEPT ![c] = Store(@, Head(down[c]))],
           down' = [down EXCEPT ![c] = Tail(@)], UNCHANGED msg
    PROVE  /\ buffer' \in [Client -> Seq(Byte)] /\ down' \in [Client -> Seq(Byte)]
           /\ Halves(c)' /\ (Head(down[c]) = NL => down'[c] = <<>>)
<1>0. /\ buffer[c] \in Seq(Byte) /\ down[c] \in Seq(Byte)
      /\ IsLine(Echo(c)) /\ Halves(c) /\ Echo(c)' = Echo(c)
  BY DEF TcpTypes, Downstream, Echo, Text
<1>1. PICK b \in Seq(Byte), d \in Seq(Byte), e \in Seq(Byte) :
         b = buffer[c] /\ d = down[c] /\ e = Echo(c)
  BY <1>0 DEF IsLine
<1>2. /\ d # <<>> /\ Len(b) + Len(d) = Len(e)
      /\ \A k \in 1..Len(b) : b[k] = e[k]
      /\ \A k \in 1..Len(d) : d[k] = e[Len(b) + k]
  BY <1>0, <1>1 DEF Halves
<1>3. /\ Append(b, Head(d)) \in Seq(Byte) /\ Tail(d) \in Seq(Byte)
      /\ Len(Append(b, Head(d))) + Len(Tail(d)) = Len(e)
      /\ \A k \in 1..Len(Append(b, Head(d))) : Append(b, Head(d))[k] = e[k]
      /\ \A k \in 1..Len(Tail(d)) : Tail(d)[k] = e[Len(Append(b, Head(d))) + k]
      /\ Len(b) < Len(e) /\ Head(d) = e[Len(b) + 1]
      /\ Len(b) + 1 = Len(e) => Tail(d) = <<>>
  BY <1>2, ByteMoved
<1>4. Len(e) \in 1..(BuffSize - 1) /\ \A k \in 1..(Len(e) - 1) : e[k] # NL
  BY <1>0, <1>1 DEF IsLine
<1>5. Len(b) < BuffSize - 1
  <2>1. Len(b) \in Nat /\ Len(e) \in Nat /\ Len(e) <= BuffSize - 1 /\ BuffSize \in Nat
    BY <1>4, SizeAssumption
  <2> QED BY <1>3, <2>1
<1>6. Store(b, Head(d)) = Append(b, Head(d))
  BY <1>5 DEF Store
<1>7. buffer'[c] = Append(b, Head(d)) /\ down'[c] = Tail(d)
  BY <1>1, <1>6 DEF TcpTypes
<1>8. buffer' \in [Client -> Seq(Byte)] /\ down' \in [Client -> Seq(Byte)]
  <2>1. /\ buffer' = [buffer EXCEPT ![c] = Append(b, Head(d))]
        /\ down' = [down EXCEPT ![c] = Tail(d)]
    BY <1>1, <1>6
  <2>2. PICK a \in Seq(Byte), t \in Seq(Byte) : a = Append(b, Head(d)) /\ t = Tail(d)
    BY <1>3
  <2> QED BY <2>1, <2>2 DEF TcpTypes
<1>9. Halves(c)'
  BY <1>0, <1>1, <1>3, <1>7 DEF Halves
<1>10. Head(down[c]) = NL => down'[c] = <<>>
  <2> SUFFICES ASSUME Head(d) = NL, Len(b) + 1 # Len(e) PROVE FALSE
    BY <1>1, <1>3, <1>7
  <2>1. Len(b) + 1 \in 1..(Len(e) - 1)
    BY <1>3
  <2> QED BY <1>3, <1>4, <2>1
<1> QED BY <1>8, <1>9, <1>10

LEMMA ClientReadInv ==
    ASSUME TcpInv, NEW c \in Client, ClientRead(c)
    PROVE  TcpInv'
<1>0. TcpTypes /\ TcpPlaces /\ \A d \in Client : Conversation(d)
  BY DEF TcpInv
<1>1. /\ pc[c] = "read" /\ UNCHANGED <<msg, up, closed, reset, queue, server, cur, line>>
      /\ \E x \in {"ok", "read", "failed"} : pc' = [pc EXCEPT ![c] = x]
  BY DEF ClientRead, Goto
<1>2. /\ Upstream(c) /\ Downstream(c) /\ OneLine(c) /\ Text(c)' = Text(c) /\ Echo(c)' = Echo(c)
      /\ (Answered(c)' <=> Answered(c))
  BY <1>0, <1>1 DEF Conversation, Text, Echo, Answered
<1>3. /\ pc' \in [Client -> {"connect", "write", "newline", "read"} \cup Gone]
      /\ pc'[c] \in {"ok", "read", "failed"} /\ \A d \in Client \ {c} : pc'[d] = pc[d]
  BY <1>0, <1>1 DEF TcpTypes, Gone
<1>4. /\ buffer' \in [Client -> Seq(Byte)] /\ down' \in [Client -> Seq(Byte)]
      /\ \A d \in Client \ {c} : buffer'[d] = buffer[d] /\ down'[d] = down[d]
      /\ Answered(c) /\ Halves(c)' /\ IsLine(Echo(c))
      /\ pc'[c] = "ok" => down'[c] = <<>>
      /\ pc'[c] = "failed" => c \in reset
  <2>1. CASE /\ down[c] # <<>>
             /\ Goto(c, "read", IF LineEnds(buffer[c], Head(down[c])) THEN "ok" ELSE "read")
             /\ buffer' = [buffer EXCEPT ![c] = Store(@, Head(down[c]))]
             /\ down' = [down EXCEPT ![c] = Tail(@)]
    <3>1. Answered(c) /\ IsLine(Echo(c))
      BY <1>1, <1>2, <2>1 DEF Downstream
    <3>2. /\ buffer' \in [Client -> Seq(Byte)] /\ down' \in [Client -> Seq(Byte)]
          /\ Halves(c)' /\ (Head(down[c]) = NL => down'[c] = <<>>)
      BY <1>0, <1>1, <1>2, <2>1, <3>1, ByteRead
    <3>3. \A d \in Client \ {c} : buffer'[d] = buffer[d] /\ down'[d] = down[d]
      BY <1>0, <2>1 DEF TcpTypes
    <3>4. pc'[c] = IF Head(down[c]) = NL THEN "ok" ELSE "read"
      BY <1>0, <2>1 DEF Goto, LineEnds, TcpTypes
    <3> QED BY <3>1, <3>2, <3>3, <3>4
  <2>2. CASE /\ down[c] = <<>> /\ c \in closed \ reset
             /\ Goto(c, "read", IF buffer[c] = <<>> THEN "failed" ELSE "ok")
             /\ UNCHANGED <<buffer, down>>
    <3>1. Answered(c) /\ IsLine(Echo(c)) /\ Halves(c)
      BY <1>1, <1>2, <2>2 DEF Downstream, Answered
    <3>2. Halves(c)'
      BY <1>2, <2>2, <3>1 DEF Halves
    <3>3. Len(buffer[c]) # 0
      <4>1. Len(down[c]) = 0 /\ Len(buffer[c]) \in Nat
        BY <1>0, <2>2 DEF TcpTypes
      <4> QED BY <3>1, <4>1, SizeAssumption DEF Halves, IsLine
    <3>4. pc'[c] = "ok"
      BY <1>0, <2>2, <3>3 DEF Goto, TcpTypes
    <3> QED BY <1>0, <2>2, <3>1, <3>2, <3>4 DEF TcpTypes
  <2>3. CASE c \in reset /\ Goto(c, "read", "failed") /\ UNCHANGED <<buffer, down>>
    <3>1. Answered(c) /\ IsLine(Echo(c)) /\ Halves(c)
      BY <1>0, <1>1, <1>2, <2>3 DEF Downstream, Answered, TcpTypes
    <3>2. Halves(c)'
      BY <1>2, <2>3, <3>1 DEF Halves
    <3>3. pc'[c] = "failed"
      BY <1>0, <2>3 DEF Goto, TcpTypes
    <3> QED BY <1>0, <2>3, <3>1, <3>2, <3>3 DEF TcpTypes
  <2> QED BY <2>1, <2>2, <2>3 DEF ClientRead
<1>5. TcpTypes'
  BY <1>0, <1>1, <1>3, <1>4 DEF TcpTypes
<1>6. TcpPlaces'
  <2>1. \A d \in Client : pc[d] # "connect" => pc'[d] # "connect"
    BY <1>3
  <2>2. \A k \in DOMAIN queue : queue[k] \in Client
    BY <1>0 DEF TcpTypes
  <2> QED BY <1>0, <1>1, <2>1, <2>2 DEF TcpPlaces
<1>7. ASSUME NEW d \in Client, d # c PROVE Conversation(d)'
  <2>1. /\ Conversation(d) /\ pc'[d] = pc[d] /\ up'[d] = up[d] /\ buffer'[d] = buffer[d]
        /\ down'[d] = down[d]
    BY <1>0, <1>1, <1>3, <1>4, <1>7
  <2> QED BY <1>1, <2>1, Frame
<1>8. Conversation(c)'
  <2>1. Upstream(c)'
    <3>1. CASE c \in closed
      BY <1>1, <3>1 DEF Upstream
    <3>2. CASE c \notin closed
      <4>1. pc'[c] \in {"read", "ok"}
        BY <1>0, <1>3, <1>4, <3>2 DEF TcpTypes
      <4>2. ASSUME NEW n, NEW w, Reading(c, n, w) PROVE Reading(c, n, w)'
        <5>1. Sent(c, w)'
          BY <1>1, <4>1, <4>2 DEF Reading, Sent
        <5> QED BY <1>1, <1>2, <4>2, <5>1 DEF Reading
      <4> QED BY <1>1, <1>2, <4>2 DEF Upstream
    <3> QED BY <3>1, <3>2
  <2>2. Downstream(c)'
    <3>1. ~(c = cur /\ server = "reply")
      BY <1>0, <1>4 DEF TcpPlaces, Answered
    <3> QED BY <1>1, <1>2, <1>4, <3>1 DEF Downstream
  <2>3. OneLine(c)'
    BY <1>1, <1>2, <1>3, <1>4 DEF OneLine
  <2> QED BY <2>1, <2>2, <2>3 DEF Conversation
<1> QED BY <1>5, <1>6, <1>7, <1>8 DEF TcpInv

LEMMA KillInv ==
    ASSUME TcpInv, NEW c \in Client, Kill(c)
    PROVE  TcpInv'
<1>0. TcpTypes /\ TcpPlaces /\ \A d \in Client : Conversation(d)
  BY DEF TcpInv
<1>1. /\ pc[c] \notin Gone \cup {"connect"} /\ pc' = [pc EXCEPT ![c] = "killed"]
      /\ UNCHANGED <<msg, buffer, up, down, closed, reset, queue, server, cur, line>>
  BY DEF Kill
<1>2. /\ pc' \in [Client -> {"connect", "write", "newline", "read"} \cup Gone]
      /\ pc'[c] = "killed" /\ \A d \in Client \ {c} : pc'[d] = pc[d]
  BY <1>0, <1>1 DEF TcpTypes, Gone
<1>3. TcpTypes'
  BY <1>0, <1>1, <1>2 DEF TcpTypes
<1>4. TcpPlaces'
  <2>1. \A d \in Client : pc[d] # "connect" => pc'[d] # "connect"
    BY <1>2
  <2>2. \A k \in DOMAIN queue : queue[k] \in Client
    BY <1>0 DEF TcpTypes
  <2> QED BY <1>0, <1>1, <2>1, <2>2 DEF TcpPlaces
<1>5. ASSUME NEW d \in Client, d # c PROVE Conversation(d)'
  <2>1. Conversation(d) /\ pc'[d] = pc[d]
    BY <1>0, <1>2, <1>5
  <2> QED BY <1>1, <2>1, Frame
<1>6. Conversation(c)'
  <2>0. /\ Upstream(c) /\ Downstream(c) /\ OneLine(c) /\ Text(c)' = Text(c)
        /\ (Answered(c)' <=> Answered(c))
    BY <1>0, <1>1 DEF Conversation, Text, Answered
  <2>1. ASSUME NEW n, NEW w, Reading(c, n, w) PROVE Reading(c, n, w)'
    <3>1. Sent(c, w)'
      BY <1>1, <1>2, <2>1 DEF Reading, Sent
    <3> QED BY <1>1, <2>0, <2>1, <3>1 DEF Reading
  <2>2. Upstream(c)'
    BY <1>1, <2>0, <2>1 DEF Upstream
  <2>3. Downstream(c)' /\ OneLine(c)'
    BY <1>1, <1>2, <2>0 DEF Downstream, OneLine
  <2> QED BY <2>2, <2>3 DEF Conversation
<1> QED BY <1>3, <1>4, <1>5, <1>6 DEF TcpInv

LEMMA AcceptInv ==
    ASSUME TcpInv, Accept
    PROVE  TcpInv'
<1>0. TcpTypes /\ TcpPlaces /\ \A d \in Client : Conversation(d)
  BY DEF TcpInv
<1>1. /\ server = "accept" /\ queue # <<>> /\ cur = None /\ server' = "read" /\ line' = <<>>
      /\ cur' = Head(queue) /\ queue' = Tail(queue)
      /\ UNCHANGED <<msg, pc, buffer, up, down, closed, reset>>
  BY <1>0 DEF Accept, TcpTypes
<1>2. /\ Tail(queue) \in Seq(Client) /\ Len(queue) \in Nat \ {0} /\ Len(Tail(queue)) = Len(queue) - 1
      /\ Head(queue) = queue[1] /\ Head(queue) \in Client
      /\ \A k \in 1..(Len(queue) - 1) : Tail(queue)[k] = queue[k + 1]
  BY <1>0, <1>1, HeadTail DEF TcpTypes
<1>c. PICK c \in Client : c = Head(queue)
  BY <1>2
<1>3. /\ DOMAIN queue = 1..Len(queue) /\ DOMAIN queue' = 1..(Len(queue) - 1)
      /\ 1 \in DOMAIN queue /\ queue[1] = c
      /\ \A k \in DOMAIN queue' : k \in Nat /\ k + 1 \in DOMAIN queue /\ k + 1 # 1 /\ queue'[k] = queue[k + 1]
  <2>1. DOMAIN queue = 1..Len(queue) /\ DOMAIN queue' = 1..(Len(queue) - 1)
    <3>1. queue \in Seq(Client) /\ queue' \in Seq(Client) /\ Len(queue') = Len(queue) - 1
      BY <1>0, <1>1, <1>2 DEF TcpTypes
    <3> QED BY <3>1
  <2>2. ASSUME NEW k \in 1..(Len(queue) - 1)
        PROVE  k \in Nat /\ k + 1 \in 1..Len(queue) /\ k + 1 # 1
    BY <1>2
  <2>3. 1 \in 1..Len(queue) /\ queue[1] = c
    BY <1>2, <1>c
  <2> QED BY <1>1, <1>2, <2>1, <2>2, <2>3
<1>4. c \notin closed /\ c # cur /\ c # None /\ pc[c] # "connect"
  BY <1>0, <1>1, <1>3, MessageAssumption DEF TcpPlaces
<1>5. TcpTypes'
  <2>1. line' \in Seq(Byte) /\ queue' \in Seq(Client) /\ cur' \in Client
    BY <1>1, <1>2
  <2> QED BY <1>0, <1>1, <2>1 DEF TcpTypes
<1>6. TcpPlaces'
  <2>1. \A k, m \in DOMAIN queue' : queue'[k] = queue'[m] => k = m
    <3>1. ASSUME NEW k \in DOMAIN queue', NEW m \in DOMAIN queue', queue'[k] = queue'[m]
          PROVE  k = m
      <4>1. k + 1 = m + 1 /\ k \in Nat /\ m \in Nat
        BY <1>0, <1>3, <3>1 DEF TcpPlaces
      <4> QED BY <4>1
    <3> QED BY <3>1
  <2>2. \A k \in DOMAIN queue' : queue'[k] # c
    BY <1>0, <1>3 DEF TcpPlaces
  <2> QED BY <1>0, <1>1, <1>c, <1>3, <1>4, <2>1, <2>2 DEF TcpPlaces
<1>7. Conversation(c)'
  <2>0. Upstream(c) /\ Downstream(c) /\ OneLine(c) /\ Text(c)' = Text(c)
    BY <1>0, <1>1 DEF Conversation, Text
  <2>1. PICK n, w \in 0..(Len(msg[c]) + 1) : Reading(c, n, w)
    BY <1>4, <2>0 DEF Upstream
  <2>2. n = 0 /\ Sent(c, w)'
    BY <1>1, <1>4, <2>1 DEF Reading, Sent
  <2>3. Reading(c, n, w)'
    BY <1>1, <1>c, <2>0, <2>1, <2>2, SizeAssumption DEF Reading
  <2>4. Upstream(c)'
    BY <1>1, <2>1, <2>3 DEF Upstream
  <2>5. Downstream(c)' /\ OneLine(c)'
    BY <1>1, <1>4, <2>0 DEF Downstream, OneLine, Answered
  <2> QED BY <2>4, <2>5 DEF Conversation
<1>8. ASSUME NEW d \in Client, d # c PROVE Conversation(d)'
  <2>1. Conversation(d) /\ d # cur /\ d # cur'
    BY <1>0, <1>1, <1>c, <1>8, MessageAssumption
  <2> QED BY <1>1, <2>1, Frame
<1> QED BY <1>5, <1>6, <1>7, <1>8 DEF TcpInv

(* The byte the server reads, when it is the end of the line and when not.   *)
LEMMA ServerByte ==
    ASSUME TcpTypes, NEW c \in Client, c = cur, server = "read", c \notin closed, up[c] # <<>>,
           NEW n \in 0..(Len(msg[c]) + 1), NEW w \in 0..(Len(msg[c]) + 1), Reading(c, n, w),
           up' = [up EXCEPT ![c] = Tail(@)], line' = Store(line, Head(up[c])),
           server' = (IF LineEnds(line, Head(up[c])) THEN "reply" ELSE "read"),
           UNCHANGED <<msg, pc, buffer, down, closed, reset, queue, cur>>
    PROVE  /\ up' \in [Client -> Seq(Byte)] /\ line' \in Seq(Byte)
           /\ n + 1 <= w /\ Reading(c, n + 1, w)'
           /\ server' = "reply" => /\ Text(c)[n + 1] = NL /\ \A k \in 1..n : Text(c)[k] # NL
                                   /\ line' = Echo(c) /\ IsLine(Echo(c))
<1>0. /\ up[c] \in Seq(Byte) /\ line \in Seq(Byte) /\ Len(line) \in Nat /\ Len(msg[c]) \in Nat
      /\ n \in Nat /\ w \in Nat /\ Text(c)' = Text(c) /\ Sent(c, w)' /\ BuffSize \in Nat \ {0, 1}
  <2>1. Len(msg[c]) \in Nat /\ up[c] \in Seq(Byte) /\ line \in Seq(Byte)
    BY TextFacts DEF TcpTypes
  <2>2. Sent(c, w)' /\ Text(c)' = Text(c)
    BY DEF Reading, Sent, Text
  <2> QED BY <2>1, <2>2, SizeAssumption
<1>1. /\ n <= w /\ Len(up[c]) = w - n
      /\ \A k \in 1..(w - n) : up[c][k] = Text(c)[n + k]
      /\ \A k \in 1..n : Text(c)[k] # NL
      /\ Len(line) = IF n < BuffSize THEN n ELSE BuffSize - 1
      /\ \A k \in 1..Len(line) : line[k] = Text(c)[k]
  BY DEF Reading
<1>2. /\ Tail(up[c]) \in Seq(Byte) /\ Len(up[c]) \in Nat \ {0} /\ Len(Tail(up[c])) = Len(up[c]) - 1
      /\ Head(up[c]) = up[c][1] /\ Head(up[c]) \in Byte
      /\ \A k \in 1..(Len(up[c]) - 1) : Tail(up[c])[k] = up[c][k + 1]
  BY <1>0, HeadTail
<1>b. PICK b \in Byte : b = Head(up[c])
  BY <1>2
<1>3. up' \in [Client -> Seq(Byte)] /\ up'[c] = Tail(up[c])
  BY <1>2 DEF TcpTypes
<1>4. n + 1 <= w /\ b = Text(c)[n + 1] /\ Len(up'[c]) = w - (n + 1)
  BY <1>0, <1>1, <1>2, <1>b, <1>3
<1>5. ASSUME NEW k \in 1..(w - (n + 1)) PROVE up'[c][k] = Text(c)[(n + 1) + k]
  <2>1. k \in 1..(Len(up[c]) - 1) /\ k + 1 \in 1..(w - n) /\ n + (k + 1) = (n + 1) + k
    <3>1. n \in Nat /\ w \in Nat /\ Len(up[c]) = w - n
      BY <1>0, <1>1
    <3> QED BY <3>1
  <2> QED BY <1>1, <1>2, <1>3, <2>1
<1>6. /\ line' \in Seq(Byte) /\ Len(line') = (IF n + 1 < BuffSize THEN n + 1 ELSE BuffSize - 1)
      /\ \A k \in 1..Len(line') : line'[k] = Text(c)[k]
  <2>1. /\ Append(line, b) \in Seq(Byte) /\ Len(Append(line, b)) = Len(line) + 1
        /\ Append(line, b)[Len(line) + 1] = b /\ \A k \in 1..Len(line) : Append(line, b)[k] = line[k]
    BY <1>0
  <2>2. CASE n < BuffSize - 1
    <3>1. line' = Append(line, b) /\ Len(line) = n
      BY <1>0, <1>1, <1>b, <2>2 DEF Store
    <3>2. n \in Nat /\ BuffSize \in Nat /\ Len(line') = n + 1 /\ n + 1 < BuffSize
      BY <1>0, <2>1, <2>2, <3>1
    <3>3. ASSUME NEW k \in 1..(n + 1) PROVE line'[k] = Text(c)[k]
      <4>1. CASE k = n + 1
        BY <1>4, <2>1, <3>1, <4>1
      <4>2. CASE k # n + 1
        <5>1. k \in 1..n
          BY <3>2, <4>2
        <5> QED BY <1>1, <2>1, <3>1, <5>1
      <4> QED BY <4>1, <4>2
    <3> QED BY <2>1, <3>1, <3>2, <3>3
  <2>3. CASE n >= BuffSize - 1
    <3>1. line' = line /\ Len(line) = BuffSize - 1
      BY <1>0, <1>1, <1>b, <2>3 DEF Store
    <3>2. ~(n + 1 < BuffSize)
      BY <1>0, <2>3
    <3>3. \A k \in 1..Len(line) : line[k] = Text(c)[k]
      BY <1>1
    <3> QED BY <1>0, <3>1, <3>2, <3>3
  <2> QED BY <1>0, <2>2, <2>3
<1>7. server' = IF b = NL THEN "reply" ELSE "read"
  BY <1>b DEF LineEnds
<1>8. Reading(c, n + 1, w)'
  <2>1. ASSUME server' = "read" PROVE \A k \in 1..(n + 1) : Text(c)[k] # NL
    <3>1. b # NL
      BY <1>7, <2>1
    <3> QED BY <1>0, <1>1, <1>4, <3>1
  <2> QED BY <1>0, <1>4, <1>5, <1>6, <2>1 DEF Reading
<1>9. ASSUME server' = "reply"
      PROVE  /\ Text(c)[n + 1] = NL /\ \A k \in 1..n : Text(c)[k] # NL
             /\ line' = Echo(c) /\ IsLine(Echo(c))
  <2>1. PICK s \in Seq(Byte) : s = Text(c) /\ Len(s) = Len(msg[c]) + 1
    BY TextFacts
  <2>2. s[n + 1] = NL /\ n + 1 \in 1..Len(s) /\ \A k \in 1..n : s[k] # NL
    BY <1>0, <1>1, <1>4, <1>7, <1>9, <2>1
  <2>3. (n + 1) - 1 = n
    BY <1>0
  <2>4. /\ Expected(s) \in Seq(Byte)
        /\ Len(Expected(s)) = IF n + 1 < BuffSize THEN n + 1 ELSE BuffSize - 1
        /\ \A k \in 1..Len(Expected(s)) : Expected(s)[k] = s[k]
    BY <2>2, <2>3, LineFound
  <2>5. PICK e \in Seq(Byte) : e = Expected(s)
    BY <2>4
  <2>6. line' = e
    <3>1. Len(line') = Len(e) /\ \A k \in 1..Len(e) : line'[k] = e[k]
      <4>1. Len(line') = Len(e)
        BY <1>6, <2>4, <2>5
      <4>2. \A k \in 1..Len(e) : line'[k] = s[k] /\ e[k] = s[k]
        BY <1>6, <2>1, <2>4, <2>5, <4>1
      <4> QED BY <4>1, <4>2
    <3>2. PICK l \in Seq(Byte) : l = line'
      BY <1>6
    <3>3. l = e
      BY <3>1, <3>2
    <3> QED BY <3>2, <3>3
  <2>7. Len(e) \in 1..(BuffSize - 1) /\ Len(e) <= n + 1
    BY <1>0, <2>4, <2>5
  <2>8. \A k \in 1..(Len(e) - 1) : e[k] # NL
    <3>1. \A k \in 1..(Len(e) - 1) : k \in 1..Len(e) /\ k \in 1..n
      BY <1>0, <2>7
    <3> QED BY <2>2, <2>4, <2>5, <3>1
  <2>9. Echo(c) = e
    BY <2>1, <2>5 DEF Echo
  <2> QED BY <2>1, <2>2, <2>6, <2>7, <2>8, <2>9 DEF IsLine
<1> QED BY <1>3, <1>4, <1>6, <1>8, <1>9

LEMMA ServerReadInv ==
    ASSUME TcpInv, ServerRead
    PROVE  TcpInv'
<1>0. TcpTypes /\ TcpPlaces /\ \A d \in Client : Conversation(d)
  BY DEF TcpInv
<1>c. PICK c \in Client : c = cur
  BY <1>0 DEF ServerRead, TcpTypes
<1>1. /\ server = "read" /\ c = cur' /\ c \notin closed
      /\ UNCHANGED <<msg, pc, buffer, down, closed, reset, queue, cur>>
  BY <1>0, <1>c DEF ServerRead, TcpPlaces
<1>2. Upstream(c) /\ Downstream(c) /\ OneLine(c) /\ Text(c)' = Text(c) /\ Echo(c)' = Echo(c)
  BY <1>0, <1>1 DEF Conversation, Text, Echo
<1>3. PICK n, w \in 0..(Len(msg[c]) + 1) : Reading(c, n, w)
  BY <1>1, <1>2 DEF Upstream
<1>4. ~Answered(c)
  BY <1>c, <1>1 DEF Answered
<1>5. TcpPlaces'
  BY <1>0, <1>1 DEF TcpPlaces
<1>6. ASSUME \A d \in Client \ {c} : up'[d] = up[d] PROVE \A d \in Client \ {c} : Conversation(d)'
  <2> SUFFICES ASSUME NEW d \in Client \ {c} PROVE Conversation(d)'
    OBVIOUS
  <2>1. Conversation(d) /\ d # cur /\ d # cur' /\ up'[d] = up[d]
    BY <1>0, <1>1, <1>c, <1>6
  <2> QED BY <1>1, <2>1, Frame
<1>7. CASE /\ up[cur] # <<>>
           /\ line' = Store(line, Head(up[cur]))
           /\ up' = [up EXCEPT ![cur] = Tail(@)]
           /\ server' = IF LineEnds(line, Head(up[cur])) THEN "reply" ELSE "read"
  <2>1. /\ up' \in [Client -> Seq(Byte)] /\ line' \in Seq(Byte)
        /\ n + 1 <= w /\ Reading(c, n + 1, w)'
        /\ server' = "reply" => /\ Text(c)[n + 1] = NL /\ \A k \in 1..n : Text(c)[k] # NL
                                /\ line' = Echo(c) /\ IsLine(Echo(c))
    BY <1>0, <1>c, <1>1, <1>3, <1>7, ServerByte
  <2>2. server' \in {"read", "reply"} /\ \A d \in Client \ {c} : up'[d] = up[d]
    BY <1>0, <1>c, <1>7 DEF TcpTypes
  <2>3. TcpTypes'
    BY <1>0, <1>c, <1>1, <2>1, <2>2 DEF TcpTypes
  <2>4. n \in Nat /\ w \in Nat /\ Len(msg[c]) \in Nat /\ n + 1 \in 0..(Len(msg[c]) + 1)
    <3>1. Len(msg[c]) \in Nat
      BY <1>0, TextFacts
    <3> QED BY <2>1, <3>1
  <2>5. Upstream(c)'
    BY <1>1, <2>1, <2>4 DEF Upstream
  <2>6. Downstream(c)'
    <3>1. ~Answered(c)'
      BY <1>1, <2>2 DEF Answered
    <3> QED BY <1>1, <1>2, <1>4, <2>1, <3>1 DEF Downstream
  <2>7. OneLine(c)'
    <3> SUFFICES ASSUME NL \notin Range(msg[c])
                 PROVE  /\ server' = "reply" => pc[c] \in {"read", "ok", "killed"} /\ up'[c] = <<>>
                        /\ c \notin reset
      BY <1>1, <2>2 DEF OneLine, Answered
    <3>1. c \notin reset
      BY <1>2 DEF OneLine
    <3>2. ASSUME server' = "reply" PROVE pc[c] \in {"read", "ok", "killed"} /\ up'[c] = <<>>
      <4>1. n + 1 = Len(msg[c]) + 1
        <5> SUFFICES ASSUME n + 1 # Len(msg[c]) + 1 PROVE FALSE
          OBVIOUS
        <5>1. n + 1 \in 1..Len(msg[c])
          BY <2>4
        <5>2. msg[c][n + 1] = NL
          BY <1>0, <2>1, <3>2, <5>1, TextFacts
        <5>3. msg[c] \in Seq(Byte) /\ n + 1 \in DOMAIN msg[c]
          BY <1>0, <5>1 DEF TcpTypes
        <5> QED BY <5>2, <5>3 DEF Range
      <4>2. w = Len(msg[c]) + 1 /\ w # Len(msg[c]) /\ w # 0
        BY <2>1, <2>4, <4>1
      <4>3. pc[c] \in {"read", "ok", "killed"}
        BY <1>3, <4>2 DEF Reading, Sent
      <4>4. Len(up'[c]) = w - (n + 1) /\ up'[c] \in Seq(Byte)
        BY <2>1 DEF Reading
      <4>5. Len(up'[c]) = 0
        BY <2>4, <4>1, <4>2, <4>4
      <4>6. \A t \in Seq(Byte) : Len(t) = 0 => t = <<>>
        OBVIOUS
      <4> QED BY <4>3, <4>4, <4>5, <4>6
    <3> QED BY <3>1, <3>2
  <2> QED BY <1>5, <1>6, <2>2, <2>3, <2>5, <2>6, <2>7 DEF TcpInv, Conversation
<1>8. CASE /\ up[cur] = <<>> /\ pc[cur] \in Gone
           /\ server' = (IF line = <<>> THEN "close" ELSE "reply") /\ UNCHANGED <<line, up>>
  <2>1. pc[c] = "killed" /\ server' \in {"close", "reply"} /\ up[c] = <<>>
    BY <1>c, <1>2, <1>4, <1>8 DEF Downstream, Gone
  <2>2. TcpTypes'
    BY <1>0, <1>c, <1>1, <1>8, <2>1 DEF TcpTypes
  <2>3. Reading(c, n, w)'
    <3>1. Sent(c, w)'
      BY <1>1, <1>3 DEF Reading, Sent
    <3> QED BY <1>c, <1>1, <1>2, <1>3, <1>8, <2>1, <3>1 DEF Reading
  <2>4. Upstream(c)'
    BY <1>1, <1>3, <2>3 DEF Upstream
  <2>5. Downstream(c)'
    BY <1>1, <1>2, <1>4, <2>1 DEF Downstream
  <2>6. OneLine(c)'
    BY <1>1, <1>2, <1>8, <2>1 DEF OneLine
  <2> QED BY <1>5, <1>6, <1>8, <2>2, <2>4, <2>5, <2>6 DEF TcpInv, Conversation
<1> QED BY <1>7, <1>8 DEF ServerRead

LEMMA ReplyInv ==
    ASSUME TcpInv, Reply
    PROVE  TcpInv'
<1>0. TcpTypes /\ TcpPlaces /\ \A d \in Client : Conversation(d)
  BY DEF TcpInv
<1>c. PICK c \in Client : c = cur
  BY <1>0 DEF Reply, TcpTypes
<1>1. /\ server = "reply" /\ server' = "close" /\ c \notin closed
      /\ down' = [down EXCEPT ![c] = @ \o line]
      /\ UNCHANGED <<msg, pc, buffer, up, closed, reset, queue, cur, line>>
  BY <1>0, <1>c DEF Reply, TcpPlaces
<1>2. Upstream(c) /\ Downstream(c) /\ OneLine(c) /\ Text(c)' = Text(c) /\ Echo(c)' = Echo(c)
  BY <1>0, <1>1 DEF Conversation, Text, Echo
<1>3. ~Answered(c) /\ Answered(c)'
  BY <1>c, <1>1 DEF Answered
<1>4. buffer[c] = <<>> /\ down[c] = <<>> /\ pc[c] \notin {"ok", "failed"}
  BY <1>2, <1>3 DEF Downstream
<1>5. down'[c] = line /\ line \in Seq(Byte) /\ down' \in [Client -> Seq(Byte)]
      /\ \A d \in Client \ {c} : down'[d] = down[d]
  <2>1. line \in Seq(Byte) /\ down \in [Client -> Seq(Byte)]
    BY <1>0 DEF TcpTypes
  <2>2. down[c] \o line = line
    BY <1>4, <2>1
  <2>3. down' = [down EXCEPT ![c] = line]
    BY <1>1, <2>2
  <2> QED BY <2>1, <2>3
<1>6. TcpTypes' /\ TcpPlaces'
  BY <1>0, <1>c, <1>1, <1>5 DEF TcpTypes, TcpPlaces
<1>7. ASSUME NEW d \in Client, d # c PROVE Conversation(d)'
  <2>1. Conversation(d) /\ d # cur /\ d # cur' /\ down'[d] = down[d]
    BY <1>0, <1>1, <1>c, <1>5, <1>7
  <2> QED BY <1>1, <2>1, Frame
<1>8. Upstream(c)'
  <2>1. ASSUME NEW n, NEW w, Reading(c, n, w) PROVE Reading(c, n, w)'
    <3>1. Sent(c, w)'
      BY <1>1, <2>1 DEF Reading, Sent
    <3> QED BY <1>c, <1>1, <1>2, <2>1, <3>1 DEF Reading
  <2> QED BY <1>1, <1>2, <2>1 DEF Upstream
<1>9. Downstream(c)'
  <2>1. ASSUME pc[c] # "killed" PROVE IsLine(Echo(c)) /\ Halves(c)'
    <3>1. line = Echo(c) /\ IsLine(Echo(c))
      BY <1>c, <1>1, <1>2, <2>1 DEF Downstream
    <3>2. Len(buffer'[c]) = 0 /\ Len(line) \in Nat
      BY <1>1, <1>4, <1>5
    <3>3. \A k \in 1..Len(line) : 0 + k = k
      BY <3>2
    <3> QED BY <1>2, <1>5, <3>1, <3>2, <3>3 DEF Halves
  <2> QED BY <1>1, <1>2, <1>3, <1>4, <2>1 DEF Downstream
<1>10. OneLine(c)'
  BY <1>c, <1>1, <1>2 DEF OneLine
<1> QED BY <1>6, <1>7, <1>8, <1>9, <1>10 DEF TcpInv, Conversation

LEMMA CloseInv ==
    ASSUME TcpInv, Close
    PROVE  TcpInv'
<1>0. TcpTypes /\ TcpPlaces /\ \A d \in Client : Conversation(d)
  BY DEF TcpInv
<1>c. PICK c \in Client : c = cur
  BY <1>0 DEF Close, TcpTypes
<1>1. /\ server = "close" /\ server' = "accept" /\ closed' = closed \cup {c} /\ cur' = None
      /\ reset' = (IF up[c] # <<>> THEN reset \cup {c} ELSE reset) /\ None \notin Client
      /\ UNCHANGED <<msg, pc, buffer, up, down, queue, line>>
  BY <1>c, MessageAssumption DEF Close
<1>2. Upstream(c) /\ Downstream(c) /\ OneLine(c) /\ Echo(c)' = Echo(c)
  BY <1>0, <1>1 DEF Conversation, Text, Echo
<1>3. Answered(c) /\ Answered(c)' /\ c # cur' /\ pc[c] # "connect"
  BY <1>0, <1>c, <1>1 DEF Answered, TcpPlaces
<1>4. TcpTypes'
  BY <1>0, <1>1 DEF TcpTypes
<1>5. TcpPlaces'
  <2>1. \A k \in DOMAIN queue : queue[k] \in Client /\ queue[k] # c
    BY <1>0, <1>c DEF TcpTypes, TcpPlaces
  <2>2. None \notin closed'
    BY <1>0, <1>1 DEF TcpTypes
  <2> QED BY <1>0, <1>1, <1>3, <2>1, <2>2 DEF TcpPlaces
<1>6. ASSUME NEW d \in Client, d # c PROVE Conversation(d)'
  <2>1. /\ Conversation(d) /\ d # cur /\ d # cur'
        /\ (d \in closed' <=> d \in closed) /\ (d \in reset' <=> d \in reset)
    BY <1>0, <1>1, <1>c, <1>6
  <2> QED BY <1>1, <2>1, Frame
<1>7. Conversation(c)'
  <2>1. Upstream(c)'
    BY <1>1 DEF Upstream
  <2>2. Downstream(c)'
    BY <1>1, <1>2, <1>3 DEF Downstream, Halves
  <2>3. OneLine(c)'
    BY <1>c, <1>1, <1>2, <1>3 DEF OneLine
  <2> QED BY <2>1, <2>2, <2>3 DEF Conversation
<1> QED BY <1>4, <1>5, <1>6, <1>7 DEF TcpInv

LEMMA TcpNextInv == TcpInv /\ [Next]_vars => TcpInv'
<1> SUFFICES ASSUME TcpInv, [Next]_vars PROVE TcpInv'
  OBVIOUS
<1>1. CASE UNCHANGED vars
  <2>0. TcpTypes /\ TcpPlaces /\ \A d \in Client : Conversation(d)
    BY DEF TcpInv
  <2>1. /\ UNCHANGED <<msg, pc, buffer, up, down, closed>>
        /\ UNCHANGED <<reset, queue, server, cur, line>>
    BY <1>1 DEF vars
  <2>2. TcpTypes' /\ TcpPlaces'
    BY <2>0, <2>1 DEF TcpTypes, TcpPlaces
  <2>3. ASSUME NEW d \in Client PROVE Conversation(d)'
    BY <2>0, <2>1, Frame
  <2> QED BY <2>2, <2>3 DEF TcpInv
<1> QED BY <1>1, ConnectInv, WriteInv, ClientReadInv, KillInv, AcceptInv, ServerReadInv, ReplyInv,
           CloseInv DEF Next, Server, Run

LEMMA TcpAlways == Spec => []TcpInv
BY TcpInitInv, TcpNextInv, PTL DEF Spec

(* For any clients, messages and size of the buffer, a client that succeeds  *)
(* has read back the first line of its own message, as far as it fits        *)
(* (server.c:89-123, client.c:68-77, common.c:26-72).                        *)
THEOREM EchoesFirstLine == Spec => []EchoCorrect
<1>1. TcpInv => EchoCorrect
  <2> SUFFICES ASSUME TcpInv, NEW c \in Client, pc[c] = "ok" PROVE buffer[c] = Echo(c)
    BY DEF EchoCorrect, Echo, Text
  <2>1. IsLine(Echo(c)) /\ Halves(c) /\ down[c] = <<>> /\ buffer[c] \in Seq(Byte)
    BY DEF TcpInv, TcpTypes, Conversation, Downstream
  <2>2. PICK b \in Seq(Byte), e \in Seq(Byte) : b = buffer[c] /\ e = Echo(c)
    BY <2>1 DEF IsLine
  <2>3. Len(b) = Len(e) /\ \A k \in 1..Len(b) : b[k] = e[k]
    BY <2>1, <2>2 DEF Halves
  <2>4. b = e
    BY <2>3
  <2> QED BY <2>2, <2>4
<1> QED BY <1>1, TcpAlways, PTL

(* A client whose message is one line is never reset and never fails,        *)
(* however long the line is: readLine reads on to the newline when the       *)
(* buffer is full (common.c:63-68).                                          *)
THEOREM OneLineNeverFails == Spec => []OneLineSucceeds
<1>1. TcpInv => OneLineSucceeds
  BY DEF TcpInv, Conversation, Downstream, OneLine, OneLineSucceeds
<1> QED BY <1>1, TcpAlways, PTL
=============================================================================
