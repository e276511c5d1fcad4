------------------------------ MODULE IoProofs ------------------------------
(***************************************************************************)
(* Proofs about the programs that wait for descriptors, locks and clocks:  *)
(* FdLoop, EdgeRead, WriteLoop and MapFile; FcntlLock and Flock (which     *)
(* MCFileLock instantiates as Fl); PosixTimer, TimerFd and Sleep.  They    *)
(* hold for all sizes, counts, times and numbers of processes.             *)
(***************************************************************************)
EXTENDS FdLoop, EdgeRead, WriteLoop, MapFile, MCFileLock, PosixTimer, TimerFd, Sleep,
        FiniteSetTheorems, TLAPS

(* FdLoop: bytes and descriptors have their types.                          *)
FdType ==
    /\ api \in {"select", "poll", "epoll"} /\ stdinFile \in BOOLEAN
    /\ round \in {"wait", "handle", "check", "exit"}
    /\ timeoutCount \in Int /\ input \in Nat
    /\ bytes \in [Watched -> Nat] /\ bytes["pipe"] <= ReadMax
    /\ events \in [Watched -> {"none", "in", "hup"}]
    /\ hup \subseteq Watched
    /\ open \subseteq {"pipe", "stdin", "pipeEnd"} /\ fds \subseteq {"pipe", "pipeEnd"}

(* What is reported is open, and a bare hang-up has no bytes and will get   *)
(* none; the own end of the pipe is closed once, since the count falls.     *)
Reported ==
    /\ \A d \in Watched : events[d] # "none" => round = "handle" /\ d \in open
    /\ \A d \in Watched : events[d] = "hup" => d \in hup /\ bytes[d] = 0
    /\ "stdin" \in open \/ "stdin" \in hup
    /\ round # "exit" => fds \subseteq open
    /\ "pipeEnd" \notin open /\ round # "exit" => timeoutCount <= CloseAt
    /\ "pipeEnd" \in open \/ round = "exit" \/ "pipeEnd" \notin fds

(* The pipe, full at first, is read in the first round.                     *)
PipeRead ==
    /\ round = "handle" => bytes["pipe"] = 0 \/ events["pipe"] = "in"
    /\ round = "check" => bytes["pipe"] = 0

FdInv == FdType /\ Reported /\ PipeRead /\ DrainedBeforeClose

(* The first state satisfies the invariant.                                 *)
LEMMA FdInitInv == FdInit => FdInv
<1> SUFFICES ASSUME FdInit PROVE FdInv
  OBVIOUS
<1> USE ReadAssumption, CountAssumption DEF Watched
<1>1. ~doubly
  BY Zenon DEF FdInit
<1>2. FdType
  BY DEF FdInit, FdType, Nothing
<1>3. Reported
  BY DEF FdInit, Reported, Nothing
<1>4. PipeRead /\ DrainedBeforeClose
  BY <1>1 DEF FdInit, PipeRead, DrainedBeforeClose
<1> QED BY <1>2, <1>3, <1>4 DEF FdInv

(* Every step of the loop and of the other side of standard input keeps it. *)
LEMMA FdNextInv == FdInv /\ [FdNext]_fdVars => FdInv'
<1> SUFFICES ASSUME FdInv, [FdNext]_fdVars PROVE FdInv'
  OBVIOUS
<1> USE ReadAssumption, CountAssumption
    DEF FdInv, FdType, Reported, PipeRead, DrainedBeforeClose, Watched
<1>1. CASE Wait
  BY <1>1 DEF Wait, Report
<1>2. CASE FdTimeout
  <2>0. timeoutCount' = timeoutCount - 1 /\ timeoutCount \in Int /\ round # "exit"
    BY <1>2 DEF FdTimeout
  <2>a. timeoutCount' = CloseAt => "pipeEnd" \in open
    BY <2>0
  <2>1. ~doubly'
    BY <1>2, <2>a, Zenon DEF FdTimeout, CloseFd
  <2>2. FdType'
    <3>1. hup' \subseteq Watched /\ open' \subseteq open /\ fds' \subseteq fds
      BY <1>2 DEF FdTimeout, CloseFd
    <3> QED BY <1>2, <2>0, <3>1 DEF FdTimeout
  <2>3. bytes["pipe"] = 0 \/ "pipe" \notin open
    BY <1>2 DEF FdTimeout, Report
  <2>4. Reported'
    <3>1. events' = events /\ bytes' = bytes /\ hup \subseteq hup'
      BY <1>2 DEF FdTimeout
    <3>2. \A d \in Watched : events[d] = "none"
      BY <2>0, <1>2 DEF FdTimeout
    <3>3. CASE api = "epoll" /\ timeoutCount' = CloseAt /\ CloseFd("pipeEnd")
      BY <3>1, <3>2, <3>3, <2>0 DEF CloseFd
    <3>4. CASE UNCHANGED <<open, fds>>
      BY <3>1, <3>2, <3>4, <2>0
    <3> QED BY <1>2, <3>3, <3>4 DEF FdTimeout
  <2> QED BY <1>2, <2>1, <2>2, <2>3, <2>4 DEF FdTimeout, CloseFd
<1>3. ASSUME NEW d \in Watched, Handle(d) PROVE FdInv'
  <2>1. CASE ReadFd(d)
    BY <1>3, <2>1 DEF Handle, ReadFd, CloseFd
  <2>2. CASE api = "epoll" /\ events[d] = "hup" /\ CloseFd(d) /\ UNCHANGED bytes
    BY <1>3, <2>2 DEF Handle, CloseFd
  <2>3. CASE api # "epoll" /\ events[d] = "hup" /\ UNCHANGED <<open, fds, doubly, bytes>>
    BY <1>3, <2>3 DEF Handle
  <2> QED BY <1>3, <2>1, <2>2, <2>3 DEF Handle
<1>4. CASE Handled
  BY <1>4 DEF Handled, Nothing
<1>5. CASE Check
  <2>1. ~doubly'
    BY <1>5 DEF Check
  <2>2. FdType'
    BY <1>5 DEF Check
  <2>3. Reported'
    BY <1>5 DEF Check
  <2> QED BY <1>5, <2>1, <2>2, <2>3 DEF Check
<1>6. CASE Arrive
  <2>1. bytes' \in [Watched -> Nat] /\ bytes'["pipe"] = bytes["pipe"]
    BY <1>6 DEF Arrive
  <2>2. FdType'
    BY <1>6, <2>1 DEF Arrive
  <2> QED BY <1>6, <2>1, <2>2 DEF Arrive
<1>7. CASE HangUp
  BY <1>7 DEF HangUp
<1>8. CASE UNCHANGED fdVars
  BY <1>8 DEF fdVars
<1> QED BY <1>1, <1>2, <1>3, <1>4, <1>5, <1>6, <1>7, <1>8 DEF FdNext, FdMain

(* No descriptor is closed twice or with bytes unread, and the pipe has been *)
(* read when the loop is left, whatever arrives and hangs up and when.       *)
THEOREM NothingUnread == FdSpec => []DrainedBeforeClose
<1>1. FdInv => DrainedBeforeClose
  BY DEF FdInv
<1> QED BY <1>1, FdInitInv, FdNextInv, PTL DEF FdSpec
-----------------------------------------------------------------------------
(* EdgeRead: there is a byte for the read under way and for the event that   *)
(* has not been reported.                                                    *)
EdgeInv ==
    /\ fifo \in Nat /\ writes \in Nat
    /\ edge \/ reading => fifo >= 1
    /\ edge /\ reading => fifo >= 2
    /\ NeverShort

(* The read() after an event never finds the FIFO empty.                     *)
THEOREM ByteFound == EdgeSpec => []NeverShort
<1>1. EdgeInit => EdgeInv
  <2>1. EdgeInit => fifo = 0 /\ writes = 0 /\ ~edge /\ ~reading /\ ~short
    BY Zenon DEF EdgeInit
  <2> QED BY <2>1 DEF EdgeInv, NeverShort
<1>2. EdgeInv /\ [EdgeNext]_edgeVars => EdgeInv'
  <2> SUFFICES ASSUME EdgeInv, [EdgeNext]_edgeVars PROVE EdgeInv'
    OBVIOUS
  <2> USE EdgeAssumption DEF EdgeInv, NeverShort
  <2>1. CASE WriteFifo
    BY <2>1 DEF WriteFifo
  <2>2. CASE EpollWait
    <3>1. fifo >= 1 /\ reading' /\ ~edge'
      BY <2>2 DEF EpollWait
    <3> QED BY <2>2, <3>1 DEF EpollWait
  <2>3. CASE ReadOne
    <3>1. fifo >= 1 /\ (edge => fifo >= 2)
      BY <2>3 DEF ReadOne
    <3>2. fifo # 0
      BY <3>1
    <3>3. ~reading' /\ ~short' /\ (edge' <=> edge)
      BY <2>3, <3>2, Zenon DEF ReadOne
    <3>4. fifo' = (IF fifo > 1 THEN fifo - 1 ELSE 0) /\ writes' = writes
      BY <2>3 DEF ReadOne
    <3> QED BY <3>1, <3>3, <3>4
  <2>4. CASE UNCHANGED edgeVars
    BY <2>4 DEF edgeVars
  <2> QED BY <2>1, <2>2, <2>3, <2>4 DEF EdgeNext
<1>3. EdgeInv => NeverShort
  BY DEF EdgeInv
<1> QED BY <1>1, <1>2, <1>3, PTL DEF EdgeSpec
-----------------------------------------------------------------------------
(* WriteLoop: while the loop runs, hadWrittenSize lags behind the offset by  *)
(* one for each write() that found the disk full.                            *)
WriteInv ==
    /\ limit \in Nat /\ hadWritten \in Int /\ offset \in Nat /\ full \in Nat
    /\ errno \in Nat
    /\ writing => /\ hadWritten = offset - full /\ hadWritten < TotalSize
                  /\ hadError <=> full > 0
                  /\ errno # EFBIG /\ offset <= limit
    /\ SizeReported

(* The last output tells a complete file from one that is short or too long. *)
THEOREM SizeIsReported == WriteSpec => []SizeReported
<1>1. WriteInit => WriteInv
  <2>1. WriteInit => ~hadError /\ writing
    BY Zenon DEF WriteInit
  <2> QED BY <2>1, SizeAssumption DEF WriteInit, WriteInv, SizeReported, EFBIG
<1>2. WriteInv /\ [WriteNext]_writeVars => WriteInv'
  <2> SUFFICES ASSUME WriteInv, [WriteNext]_writeVars PROVE WriteInv'
    OBVIOUS
  <2> USE SizeAssumption DEF WriteInv, SizeReported, EFBIG, ENOSPC, Account
  <2>1. CASE Wrote
    <3>1. PICK n \in 1..NeedsWriteSize : /\ writing /\ offset + n <= limit
                                        /\ offset' = offset + n /\ UNCHANGED <<errno, full>>
                                        /\ Account(n)
      BY <2>1 DEF Wrote
    <3>2. n \in Nat /\ n > 0 /\ hadWritten + n <= TotalSize
      BY <3>1 DEF NeedsWriteSize, Least
    <3> QED BY <3>1, <3>2
  <2>2. CASE TooBig
    BY <2>2 DEF TooBig
  <2>3. CASE NoSpace
    BY <2>3 DEF NoSpace
  <2>4. CASE UNCHANGED writeVars
    BY <2>4 DEF writeVars
  <2> QED BY <2>1, <2>2, <2>3, <2>4 DEF WriteNext
<1>3. WriteInv => SizeReported
  BY DEF WriteInv
<1> QED BY <1>1, <1>2, <1>3, PTL DEF WriteSpec
-----------------------------------------------------------------------------
(* MapFile.  The file, and a copied page, is empty or has MapSize bytes.     *)
Pages == {<<>>} \cup [1..MapSize -> Nat]
Places == {"open", "write", "load", "store", "msync", "child stat", "child read",
           "wait", "parent read", "exit"}

MapTypes ==
    /\ file \in Pages /\ private \subseteq MapProg /\ where \in [MapProg -> Places]
    /\ own \in [MapProg -> Pages] /\ index \in [MapProg -> 1..(MapSize + 1)]
    /\ was \in [MapProg -> Nat] /\ fileSize \in [MapProg -> Nat]
    /\ childSaw \in [MapProg -> Pages] /\ parentSaw \in [MapProg -> Pages]
    /\ \A p \in MapProg : p \notin private => own[p] = <<>>
    /\ \A p \in MapProg : where[p] \in {"open", "write"} => own[p] = <<>> /\ index[p] = 1
    /\ \A p \in MapProg : where[p] = "store" => index[p] <= MapSize

(* The bytes below the loop variable are changed, the others are not yet.    *)
Changed(n) == [k \in 1..MapSize |-> IF k < n THEN 1 ELSE 0]
Shown(p) == IF p \in private THEN Blank ELSE Changed(MapSize + 1)

(* What the file, and p's private page, hold at each place of an instance    *)
(* that nobody has disturbed.                                                *)
MapShape(p) ==
    /\ where[p] \in {"load", "store", "msync"} =>
          IF p \in private
          THEN file = Blank /\ ((own[p] = <<>> /\ index[p] = 1) \/ own[p] = Changed(index[p]))
          ELSE file = Changed(index[p])
    /\ where[p] = "store" => was[p] = 0 /\ index[p] <= MapSize
    /\ where[p] = "msync" => index[p] = MapSize + 1
    /\ where[p] \in {"child stat", "child read", "wait", "parent read"} => file = Shown(p)
    /\ where[p] \in {"child read", "parent read"} => fileSize[p] = MapSize
    /\ where[p] \in {"wait", "parent read", "exit"} => childSaw[p] = Shown(p)
    /\ where[p] = "exit" => parentSaw[p] = Shown(p)

MapInv == MapTypes /\ \A p \in MapProg \ disturbed : MapShape(p)

(* A page is never empty, and has MapSize bytes.                             *)
LEMMA PageLength ==
    ASSUME NEW f \in [1..MapSize -> Nat]
    PROVE  f # <<>> /\ Len(f) = MapSize
<1>1. f \in Seq(Nat) /\ DOMAIN f = 1..MapSize
  BY MapAssumption
<1> QED BY <1>1, MapAssumption

(* What an undisturbed instance sees is such a page.                         *)
LEMMA ChangedPage ==
    ASSUME NEW n \in Int
    PROVE  /\ Changed(n) \in [1..MapSize -> Nat]
           /\ Blank \in [1..MapSize -> Nat] /\ Blank = Changed(1)
<1> QED BY MapAssumption DEF Changed, Blank

(* Storing the next byte changes one more.                                   *)
LEMMA ChangeNext ==
    ASSUME NEW n \in 1..MapSize
    PROVE  Changed(n)[n] = 0 /\ [Changed(n) EXCEPT ![n] = 1] = Changed(n + 1)
<1>1. Changed(n)[n] = 0
  BY MapAssumption DEF Changed
<1>2. \A k \in 1..MapSize : [Changed(n) EXCEPT ![n] = 1][k] = Changed(n + 1)[k]
  BY MapAssumption DEF Changed
<1>3. /\ [Changed(n) EXCEPT ![n] = 1] = [k \in 1..MapSize |-> [Changed(n) EXCEPT ![n] = 1][k]]
      /\ Changed(n + 1) = [k \in 1..MapSize |-> Changed(n + 1)[k]]
  BY DEF Changed
<1> QED BY <1>1, <1>2, <1>3

(* Before the file is opened there is nothing to show.                       *)
LEMMA MapInitInv == MapInit => MapInv
<1> SUFFICES ASSUME MapInit PROVE MapInv
  OBVIOUS
<1>1. MapTypes
  BY MapAssumption DEF MapInit, MapTypes, Pages, Places
<1>2. ASSUME NEW p \in MapProg PROVE MapShape(p)
  BY DEF MapInit, MapShape
<1> QED BY <1>1, <1>2 DEF MapInv

(* An instance keeps its shape in a step of another that leaves the file, or *)
(* that it is not counted as using the file in.                              *)
LEMMA MapOthers ==
    ASSUME MapInv, NEW p \in MapProg, NEW q \in MapProg \ {p}, q \notin disturbed',
           disturbed \subseteq disturbed', private' = private,
           where'[q] = where[q], index'[q] = index[q], was'[q] = was[q],
           fileSize'[q] = fileSize[q], childSaw'[q] = childSaw[q], parentSaw'[q] = parentSaw[q],
           (file' = file /\ own'[q] = own[q]) \/ where[q] \in {"open", "exit"}
    PROVE  MapShape(q)'
<1>1. MapShape(q)
  BY DEF MapInv
<1>2. where[q] = "exit" => childSaw[q] = Shown(q) /\ parentSaw[q] = Shown(q)
  BY <1>1 DEF MapShape
<1>3. Shown(q)' = Shown(q)
  BY DEF Shown, Blank, Changed
<1>4. CASE file' = file /\ own'[q] = own[q]
  BY <1>1, <1>3, <1>4 DEF MapShape, Changed, Blank
<1>5. CASE where[q] \in {"open", "exit"}
  BY <1>2, <1>3, <1>5 DEF MapShape
<1> QED BY <1>4, <1>5

(* The page an instance works on has MapSize bytes or is missing; an         *)
(* undisturbed instance has it, changed as far as its loop has come.         *)
LEMMA PageKept ==
    ASSUME MapInv, NEW p \in MapProg, where[p] \in {"load", "store"}
    PROVE  /\ Page(p) # <<>> => Page(p) \in [1..MapSize -> Nat]
           /\ p \notin disturbed => Page(p) = Changed(index[p]) /\ Page(p) # <<>>
<1>0. /\ own[p] \in Pages /\ file \in Pages /\ index[p] \in 1..(MapSize + 1)
      /\ p \notin private => own[p] = <<>>
  BY DEF MapInv, MapTypes
<1>1. Page(p) # <<>> => Page(p) \in [1..MapSize -> Nat]
  BY <1>0 DEF Page, Pages
<1>2. Changed(index[p]) \in [1..MapSize -> Nat] /\ Changed(index[p]) # <<>>
  <2>1. index[p] \in Int
    BY <1>0, MapAssumption
  <2>2. Changed(index[p]) \in [1..MapSize -> Nat]
    BY <2>1, ChangedPage
  <2> QED BY <2>2, PageLength
<1>3. ASSUME p \notin disturbed PROVE Page(p) = Changed(index[p])
  <2>1. IF p \in private
        THEN file = Blank /\ ((own[p] = <<>> /\ index[p] = 1) \/ own[p] = Changed(index[p]))
        ELSE file = Changed(index[p])
    BY <1>3 DEF MapInv, MapShape
  <2> QED BY <1>0, <1>2, <2>1, ChangedPage DEF Page
<1> QED BY <1>1, <1>2, <1>3

(* What fstat() says is a length, that of a whole page where p shows one.    *)
LEMMA FileLength ==
    ASSUME MapTypes, NEW p
    PROVE  Len(file) \in Nat /\ Len(Shown(p)) = MapSize
<1>1. file = <<>> \/ file \in [1..MapSize -> Nat]
  BY DEF MapTypes, Pages
<1>2. Len(<<>>) \in Nat
  OBVIOUS
<1>3. MapSize + 1 \in Int /\ MapSize \in Nat
  BY MapAssumption
<1>4. Changed(MapSize + 1) \in [1..MapSize -> Nat] /\ Blank \in [1..MapSize -> Nat]
  BY <1>3, ChangedPage
<1>5. Shown(p) \in [1..MapSize -> Nat]
  BY <1>4 DEF Shown
<1>6. file \in [1..MapSize -> Nat] => Len(file) = MapSize
  BY PageLength
<1>7. Len(Shown(p)) = MapSize
  BY <1>5, PageLength
<1> QED BY <1>1, <1>2, <1>3, <1>6, <1>7

(* Every step of an instance keeps the invariant, the steps that change the  *)
(* file because they disturb whoever uses it.                                *)
LEMMA MapNextInv == MapInv /\ [MapNext]_mapVars => MapInv'
<1> SUFFICES ASSUME MapInv, [MapNext]_mapVars PROVE MapInv'
  OBVIOUS
<1> USE MapAssumption
<1>0. MapTypes
  BY DEF MapInv
<1>1. ASSUME NEW p \in MapProg, OpenTrunc(p) PROVE MapInv'
  <2>1. MapTypes'
    BY <1>0, <1>1 DEF MapTypes, Pages, Places, OpenTrunc, MapGoto
  <2>2. MapShape(p)'
    BY <1>0, <1>1 DEF MapTypes, MapShape, OpenTrunc, MapGoto
  <2>3. ASSUME NEW q \in MapProg \ {p}, q \notin disturbed' PROVE MapShape(q)'
    BY <1>0, <1>1, <2>3, MapOthers DEF MapTypes, OpenTrunc, MapGoto, Disturb
  <2> QED BY <2>1, <2>2, <2>3 DEF MapInv
<1>2. ASSUME NEW p \in MapProg, WriteMap(p) PROVE MapInv'
  <2>1. MapTypes'
    <3>1. Blank \in Pages
      BY ChangedPage DEF Pages
    <3> QED BY <1>0, <1>2, <3>1 DEF MapTypes, Places, WriteMap, MapGoto
  <2>2. MapShape(p)'
    BY <1>0, <1>2, ChangedPage DEF MapTypes, MapShape, WriteMap, MapGoto, Blank, Changed
  <2>3. ASSUME NEW q \in MapProg \ {p}, q \notin disturbed' PROVE MapShape(q)'
    BY <1>0, <1>2, <2>3, MapOthers DEF MapTypes, WriteMap, MapGoto, Disturb
  <2> QED BY <2>1, <2>2, <2>3 DEF MapInv
<1>3. ASSUME NEW p \in MapProg, LoadByte(p) PROVE MapInv'
  <2>0. where[p] = "load" /\ (Page(p) # <<>> => Page(p) \in [1..MapSize -> Nat])
    BY <1>3, PageKept DEF LoadByte, MapGoto
  <2>1. MapTypes'
    <3>0. index[p] <= MapSize => index[p] \in 1..MapSize
      BY <1>0 DEF MapTypes
    <3>1. was' \in [MapProg -> Nat]
      <4>1. index[p] <= MapSize /\ Page(p) # <<>> => Page(p)[index[p]] \in Nat
        BY <2>0, <3>0
      <4> QED BY <1>0, <1>3, <4>1 DEF MapTypes, LoadByte
    <3>2. where' \in [MapProg -> Places]
      BY <1>0, <1>3 DEF MapTypes, LoadByte, MapGoto, Places
    <3> QED BY <1>0, <1>3, <3>1, <3>2 DEF MapTypes, LoadByte, MapGoto
  <2>2. ASSUME p \notin disturbed PROVE MapShape(p)'
    <3>1. MapShape(p)
      BY <2>2 DEF MapInv
    <3>2. Page(p) = Changed(index[p]) /\ Page(p) # <<>>
      BY <2>0, <2>2, PageKept
    <3>4. index[p] <= MapSize => Changed(index[p])[index[p]] = 0
      <4>1. index[p] <= MapSize => index[p] \in 1..MapSize
        BY <1>0 DEF MapTypes
      <4> QED BY <4>1, ChangeNext
    <3>5. CASE index[p] <= MapSize
      <4>1. where'[p] = "store" /\ was'[p] = 0
        BY <1>0, <1>3, <3>2, <3>4, <3>5 DEF MapTypes, LoadByte, MapGoto
      <4> QED BY <1>3, <2>0, <3>1, <3>5, <4>1 DEF MapShape, LoadByte, Blank, Changed
    <3>6. CASE index[p] > MapSize
      <4>1. where'[p] = "msync" /\ index[p] = MapSize + 1
        BY <1>0, <1>3, <3>6 DEF MapTypes, LoadByte, MapGoto
      <4> QED BY <1>3, <2>0, <3>1, <4>1 DEF MapShape, LoadByte, Blank, Changed
    <3> QED BY <1>0, <3>5, <3>6 DEF MapTypes
  <2>3. ASSUME NEW q \in MapProg \ {p}, q \notin disturbed' PROVE MapShape(q)'
    BY <1>0, <1>3, <2>3, MapOthers DEF MapTypes, LoadByte, MapGoto
  <2> QED BY <1>3, <2>1, <2>2, <2>3 DEF MapInv, LoadByte
<1>4. ASSUME NEW p \in MapProg, StoreByte(p) PROVE MapInv'
  <2> DEFINE page == [Page(p) EXCEPT ![index[p]] = was[p] + 1]
  <2>0. /\ where[p] = "store" /\ (Page(p) # <<>> => Page(p) \in [1..MapSize -> Nat])
        /\ index[p] \in 1..MapSize /\ was[p] \in Nat
    BY <1>0, <1>4, PageKept DEF StoreByte, MapGoto, MapTypes
  <2>a. Page(p) # <<>> => page \in [1..MapSize -> Nat]
    BY <2>0
  <2>b. ASSUME p \notin disturbed
        PROVE  Page(p) # <<>> /\ page = Changed(index[p] + 1) /\ MapShape(p)
    <3>1. MapShape(p) /\ Page(p) = Changed(index[p]) /\ Page(p) # <<>>
      BY <2>0, <2>b, PageKept DEF MapInv
    <3>2. was[p] = 0
      BY <2>0, <3>1 DEF MapShape
    <3>3. was[p] + 1 = 1
      BY <3>2
    <3> QED BY <2>0, <3>1, <3>3, ChangeNext
  <2>1. CASE Page(p) # <<>> /\ p \in private
    <3>0. /\ where' = [where EXCEPT ![p] = "load"]
          /\ index' = [index EXCEPT ![p] = @ + 1] /\ own' = [own EXCEPT ![p] = page]
          /\ UNCHANGED <<file, disturbed, private, was, fileSize, childSaw, parentSaw>>
      BY <1>4, <2>0, <2>1 DEF StoreByte, MapGoto
    <3> HIDE DEF page
    <3>1. MapTypes'
      <4>0. page \in Pages /\ index[p] + 1 \in 1..(MapSize + 1)
        BY <2>0, <2>a, <2>1 DEF Pages
      <4>1. own' \in [MapProg -> Pages] /\ index' \in [MapProg -> 1..(MapSize + 1)]
        BY <1>0, <3>0, <4>0 DEF MapTypes
      <4> QED BY <1>0, <2>0, <2>1, <3>0, <4>1 DEF MapTypes, Places
    <3>2. p \notin disturbed => MapShape(p)'
      BY <1>0, <2>0, <2>1, <2>b, <3>0 DEF MapTypes, MapShape, Blank, Changed
    <3>3. ASSUME NEW q \in MapProg \ {p}, q \notin disturbed' PROVE MapShape(q)'
      BY <1>0, <3>0, <3>3, MapOthers DEF MapTypes
    <3> QED BY <3>0, <3>1, <3>2, <3>3 DEF MapInv
  <2>2. CASE Page(p) # <<>> /\ p \notin private
    <3>0. /\ where' = [where EXCEPT ![p] = "load"]
          /\ index' = [index EXCEPT ![p] = @ + 1] /\ file' = page /\ Disturb(p)
          /\ UNCHANGED <<own, private, was, fileSize, childSaw, parentSaw>>
      BY <1>4, <2>0, <2>2 DEF StoreByte, MapGoto
    <3> HIDE DEF page
    <3>1. MapTypes'
      <4>0. page \in Pages /\ index[p] + 1 \in 1..(MapSize + 1)
        BY <2>0, <2>a, <2>2 DEF Pages
      <4>1. file' \in Pages /\ index' \in [MapProg -> 1..(MapSize + 1)]
        BY <1>0, <3>0, <4>0 DEF MapTypes
      <4> QED BY <1>0, <2>0, <2>2, <3>0, <4>1 DEF MapTypes, Places
    <3>2. p \notin disturbed' => MapShape(p)'
      BY <1>0, <2>0, <2>2, <2>b, <3>0 DEF MapTypes, MapShape, Blank, Changed, Disturb
    <3>3. ASSUME NEW q \in MapProg \ {p}, q \notin disturbed' PROVE MapShape(q)'
      BY <1>0, <3>0, <3>3, MapOthers DEF MapTypes, Disturb
    <3> QED BY <3>0, <3>1, <3>2, <3>3 DEF MapInv
  <2>3. CASE Page(p) = <<>>
    <3>0. /\ where' = [where EXCEPT ![p] = "wait"]
          /\ UNCHANGED <<file, own, index, disturbed, private, was, fileSize, childSaw, parentSaw>>
      BY <1>4, <2>0, <2>3 DEF StoreByte, MapGoto
    <3>1. MapTypes'
      BY <1>0, <3>0 DEF MapTypes, Places
    <3>3. ASSUME NEW q \in MapProg \ {p}, q \notin disturbed' PROVE MapShape(q)'
      BY <1>0, <3>0, <3>3, MapOthers DEF MapTypes
    <3> QED BY <2>b, <2>3, <3>0, <3>1, <3>3 DEF MapInv
  <2> QED BY <2>1, <2>2, <2>3
<1>5. ASSUME NEW p \in MapProg, Msync(p) PROVE MapInv'
  <2>1. MapTypes'
    BY <1>0, <1>5 DEF MapTypes, Pages, Places, Msync, MapGoto
  <2>2. p \notin disturbed => MapShape(p)'
    <3>1. Shown(p)' = Shown(p)
      BY <1>5 DEF Msync, Shown, Blank, Changed
    <3>2. p \notin disturbed => file = Shown(p)
      BY <1>5 DEF MapInv, MapShape, Msync, MapGoto, Shown
    <3> QED BY <1>0, <1>5, <3>1, <3>2 DEF MapTypes, MapShape, Msync, MapGoto
  <2>3. ASSUME NEW q \in MapProg \ {p}, q \notin disturbed' PROVE MapShape(q)'
    BY <1>0, <1>5, <2>3, MapOthers DEF MapTypes, Msync, MapGoto
  <2> QED BY <1>5, <2>1, <2>2, <2>3 DEF MapInv, Msync
<1>6. ASSUME NEW p \in MapProg, ChildStat(p) \/ ParentStat(p) PROVE MapInv'
  <2>0. PICK from \in {"child stat", "wait"}, to \in {"child read", "parent read"} :
            /\ (from = "child stat") <=> (to = "child read")
            /\ Stat(p, from, to)
    BY <1>6 DEF ChildStat, ParentStat
  <2>a. Len(file) \in Nat /\ Len(Shown(p)) = MapSize
    BY <1>0, FileLength
  <2>1. MapTypes'
    BY <1>0, <2>0, <2>a DEF MapTypes, Places, Stat, MapGoto
  <2>2. p \notin disturbed => MapShape(p)'
    <3>1. Shown(p)' = Shown(p)
      BY <2>0 DEF Stat, Shown, Blank, Changed
    <3> QED BY <1>0, <2>0, <2>a, <3>1 DEF MapInv, MapTypes, MapShape, Stat, MapGoto
  <2>3. ASSUME NEW q \in MapProg \ {p}, q \notin disturbed' PROVE MapShape(q)'
    BY <1>0, <2>0, <2>3, MapOthers DEF MapTypes, Stat, MapGoto
  <2> QED BY <2>0, <2>1, <2>2, <2>3 DEF MapInv, Stat
<1>7. ASSUME NEW p \in MapProg, ChildRead(p) PROVE MapInv'
  <2>0. Context(p) \in Pages
    BY <1>0 DEF MapTypes, Context, Pages
  <2>1. MapTypes'
    BY <1>0, <1>7, <2>0 DEF MapTypes, Places, ChildRead, MapGoto
  <2>2. p \notin disturbed => MapShape(p)'
    <3>1. Shown(p)' = Shown(p)
      BY <1>7 DEF ChildRead, Shown, Blank, Changed
    <3>2. p \notin disturbed => file = Shown(p) /\ fileSize[p] = MapSize
      BY <1>7 DEF MapInv, MapShape, ChildRead, MapGoto
    <3>3. where'[p] = "wait" /\ file' = file /\ childSaw'[p] = Context(p)
      BY <1>0, <1>7 DEF MapTypes, ChildRead, MapGoto
    <3> QED BY <3>1, <3>2, <3>3 DEF MapShape, Context
  <2>3. ASSUME NEW q \in MapProg \ {p}, q \notin disturbed' PROVE MapShape(q)'
    BY <1>0, <1>7, <2>3, MapOthers DEF MapTypes, ChildRead, MapGoto
  <2> QED BY <1>7, <2>1, <2>2, <2>3 DEF MapInv, ChildRead
<1>8. ASSUME NEW p \in MapProg, ParentRead(p) PROVE MapInv'
  <2>0. Context(p) \in Pages
    BY <1>0 DEF MapTypes, Context, Pages
  <2>1. MapTypes'
    BY <1>0, <1>8, <2>0 DEF MapTypes, Places, ParentRead, MapGoto
  <2>2. p \notin disturbed => MapShape(p)'
    <3>1. Shown(p)' = Shown(p)
      BY <1>8 DEF ParentRead, Shown, Blank, Changed
    <3>2. p \notin disturbed => file = Shown(p) /\ fileSize[p] = MapSize /\ childSaw[p] = Shown(p)
      BY <1>8 DEF MapInv, MapShape, ParentRead, MapGoto
    <3>3. where'[p] = "exit" /\ parentSaw'[p] = Context(p) /\ childSaw' = childSaw
      BY <1>0, <1>8 DEF MapTypes, ParentRead, MapGoto
    <3> QED BY <3>1, <3>2, <3>3 DEF MapShape, Context
  <2>3. ASSUME NEW q \in MapProg \ {p}, q \notin disturbed' PROVE MapShape(q)'
    BY <1>0, <1>8, <2>3, MapOthers DEF MapTypes, ParentRead, MapGoto
  <2> QED BY <1>8, <2>1, <2>2, <2>3 DEF MapInv, ParentRead
<1>9. CASE UNCHANGED mapVars
  <2>1. MapTypes'
    BY <1>0, <1>9 DEF MapTypes, mapVars
  <2>2. ASSUME NEW q \in MapProg, q \notin disturbed' PROVE MapShape(q)'
    BY <1>9, <2>2 DEF MapInv, MapShape, Shown, Blank, Changed, mapVars
  <2> QED BY <2>1, <2>2 DEF MapInv
<1> QED BY <1>1, <1>2, <1>3, <1>4, <1>5, <1>6, <1>7, <1>8, <1>9 DEF MapNext, MapRun

(* An instance that no other disturbs shows every byte changed once through  *)
(* a shared mapping and none through a private one, for any number of        *)
(* instances and any size of the file.                                       *)
THEOREM MappingShown == MapSpec => []ShowsMapping
<1>1. MapInv => ShowsMapping
  <2> SUFFICES ASSUME MapInv, NEW p \in MapProg \ disturbed, where[p] = "exit"
               PROVE  /\ parentSaw[p] = [k \in 1..MapSize |-> IF p \in private THEN 0 ELSE 1]
                      /\ childSaw[p] = parentSaw[p]
    BY DEF ShowsMapping
  <2>1. childSaw[p] = Shown(p) /\ parentSaw[p] = Shown(p)
    BY DEF MapInv, MapShape
  <2>2. Shown(p) = [k \in 1..MapSize |-> IF p \in private THEN 0 ELSE 1]
    BY MapAssumption DEF Shown, Blank, Changed
  <2> QED BY <2>1, <2>2
<1> QED BY <1>1, MapInitInv, MapNextInv, PTL DEF MapSpec
-----------------------------------------------------------------------------
(* FcntlLock: a write lock excludes every other lock on its block; until its *)
(* own request a process has nothing but the write lock of _otherTest.       *)
Locks ==
    /\ \A p, q \in Proc, b \in Block : held[p][b] = "w" /\ p # q => held[q][b] = "u"
    /\ \A p \in Proc : pc[p] \in {"test1", "test2", "args", "lock"} =>
          held[p][0] \in {"u", "w"} /\ held[p][1] = "u"
    /\ \A p \in Proc : pc[p] = "test2" /\ twice[p][1] = "ok" => held[p][0] = "w"

LockInv == TypeOK /\ Locks /\ TwiceGranted

(* Init establishes the invariant.                                          *)
LEMMA LockInitInv == Init => LockInv
BY DEF Init, LockInv, TypeOK, Locks, TwiceGranted, Block, Type, Command

(* The arguments are what main expects.                                     *)
LEMMA ArgsType ==
    ASSUME TypeOK, NEW p \in Proc
    PROVE  /\ args[p].type \in Type /\ args[p].cmd \in Command
           /\ args[p].whence \in {"", "s", "c", "e"}
<1>1. args[p] \in [cmd : Command, type : Type, range : SUBSET Block,
                    whence : {"", "s", "c", "e"}]
  BY ArgsAssumption DEF TypeOK
<1> QED BY <1>1

(* What setting a range, dropping every lock and noting a result change.    *)
LEMMA SetEffect ==
    ASSUME TypeOK, NEW p \in Proc, NEW t \in Type, NEW range, Set(p, t, range)
    PROVE  /\ held' \in [Proc -> [Block -> Type]]
           /\ \A q \in Proc, b \in Block :
                 held'[q][b] = IF q = p /\ b \in range THEN t ELSE held[q][b]
<1>1. held \in [Proc -> [Block -> Type]]
  BY DEF TypeOK
<1>2. [b \in Block |-> IF b \in range THEN t ELSE held[p][b]] \in [Block -> Type]
  BY <1>1
<1> QED BY <1>1, <1>2 DEF Set

(* close() leaves the process without a lock and the others as they were.   *)
LEMMA DropEffect ==
    ASSUME TypeOK, NEW p \in Proc, Drop(p)
    PROVE  /\ held' \in [Proc -> [Block -> Type]]
           /\ \A q \in Proc, b \in Block :
                 held'[q][b] = IF q = p THEN "u" ELSE held[q][b]
BY DEF TypeOK, Drop, Type

(* A process that ends without a lock disturbs nobody.                      *)
LEMMA DropEnds ==
    ASSUME LockInv, NEW p \in Proc, NEW from, Drop(p), Goto(p, from, "done"),
           UNCHANGED twice
    PROVE  Locks' /\ TwiceGranted'
<1>1. /\ pc'[p] = "done"
      /\ \A q \in Proc : q # p => pc'[q] = pc[q]
  BY DEF LockInv, TypeOK, Goto
<1>2. \A q \in Proc, b \in Block : held'[q][b] = IF q = p THEN "u" ELSE held[q][b]
  BY DropEffect DEF LockInv
<1>3. \A q \in Proc, b \in Block : q # p => held'[q][b] = held[q][b]
  BY <1>2
<1>4. Locks'
  <2>1. ASSUME NEW q \in Proc, NEW r \in Proc, NEW b \in Block,
               held'[q][b] = "w", q # r
        PROVE  held'[r][b] = "u"
    BY <1>2, <2>1 DEF LockInv, Locks
  <2>2. ASSUME NEW q \in Proc, pc'[q] \in {"test1", "test2", "args", "lock"}
        PROVE  held'[q][0] \in {"u", "w"} /\ held'[q][1] = "u"
    BY <1>1, <1>3, <2>2 DEF LockInv, Locks, Block
  <2>3. ASSUME NEW q \in Proc, pc'[q] = "test2" /\ twice'[q][1] = "ok"
        PROVE  held'[q][0] = "w"
    BY <1>1, <1>3, <2>3 DEF LockInv, Locks, Block
  <2> QED BY <2>1, <2>2, <2>3 DEF Locks
<1>5. TwiceGranted'
  BY <1>1, <1>3 DEF LockInv, TwiceGranted, Block
<1> QED BY <1>4, <1>5

(* A test step moves p on and notes its result.                             *)
LEMMA TestedEffect ==
    ASSUME TypeOK, NEW p \in Proc, NEW k \in 1..2, NEW r \in {"ok", "denied"},
           Tested(p, k, r)
    PROVE  /\ twice' \in [Proc -> [1..2 -> {"none", "ok", "denied"}]]
           /\ twice'[p][k] = r
           /\ \A m \in 1..2 : m # k => twice'[p][m] = twice[p][m]
           /\ \A q \in Proc : q # p => twice'[q] = twice[q] /\ pc'[q] = pc[q]
           /\ pc' \in [Proc -> {"test1", "test2", "args", "lock", "sleep", "close", "done"}]
           /\ pc[p] = IF k = 1 THEN "test1" ELSE "test2"
           /\ pc'[p] = IF k = 1 THEN "test2" ELSE "args"
           /\ UNCHANGED <<args, c>>
BY DEF TypeOK, Tested, Goto

(* Every step of a process preserves it.                                    *)
LEMMA LockNextInv == LockInv /\ [Next]_vars => LockInv'
<1> SUFFICES ASSUME LockInv, [Next]_vars PROVE LockInv'
  OBVIOUS
<1> USE DEF LockInv
<1>1. ASSUME NEW p \in Proc, NEW k \in 1..2, TestLock(p, k) PROVE LockInv'
  <2>1. CASE Free(p, "w", {0}) /\ Set(p, "w", {0}) /\ Tested(p, k, "ok")
    BY <2>1, SetEffect, TestedEffect
    DEF TypeOK, Locks, TwiceGranted, Free, Conflicts, Block, Type
  <2>2. CASE ~Free(p, "w", {0}) /\ UNCHANGED held /\ Tested(p, k, "denied")
    BY <2>2, TestedEffect
    DEF TypeOK, Locks, TwiceGranted, Free, Conflicts, Block, Type
  <2> QED BY <1>1, <2>1, <2>2 DEF TestLock
<1>2. ASSUME NEW p \in Proc, ReadArgs(p) PROVE LockInv'
  <2>1. TypeOK'
    <3>1. c' \in [Proc -> Command \cup {"none", "c", "e"}]
      BY <1>2, ArgsType DEF TypeOK, ReadArgs, Command
    <3>2. held' \in [Proc -> [Block -> Type]]
      BY <1>2, DropEffect DEF TypeOK, ReadArgs
    <3> QED BY <1>2, <3>1, <3>2 DEF TypeOK, ReadArgs, Goto
  <2>2. CASE UNCHANGED held /\ Goto(p, "args", "lock")
    <3>1. UNCHANGED <<held, twice>> /\ pc[p] = "args" /\ pc' = [pc EXCEPT ![p] = "lock"]
      BY <1>2, <2>2 DEF ReadArgs, Goto
    <3>2. Locks' /\ TwiceGranted'
      BY <3>1 DEF TypeOK, Locks, TwiceGranted
    <3> QED BY <2>1, <3>2
  <2>3. CASE Drop(p) /\ Goto(p, "args", "done")
    BY <1>2, <2>1, <2>3, DropEnds DEF ReadArgs
  <2> QED BY <1>2, <2>1, <2>2, <2>3 DEF ReadArgs
<1>3. ASSUME NEW p \in Proc, Lock(p) PROVE LockInv'
  <2>1. args[p].type \in Type
    BY ArgsType
  <2>2. PICK to \in {"sleep", "close"} : Result(p, to)
    BY <1>3 DEF Lock
  <2>3. CASE UNCHANGED held
    BY <2>2, <2>3 DEF Result, Goto, TypeOK, Locks, TwiceGranted
  <2>4. CASE Set(p, args[p].type, args[p].range) /\ Free(p, args[p].type, args[p].range)
    BY <2>1, <2>2, <2>4, SetEffect
    DEF Result, Goto, TypeOK, Locks, TwiceGranted, Free, Conflicts, Block, Type
  <2> QED BY <1>3, <2>3, <2>4 DEF Lock
<1>4. ASSUME NEW p \in Proc, Close(p) PROVE LockInv'
  <2>1. PICK from \in {"sleep", "close"} : Goto(p, from, "done")
    BY <1>4 DEF Close
  <2>2. TypeOK'
    BY <1>4, <2>1, DropEffect DEF Close, Goto, TypeOK
  <2> QED BY <1>4, <2>1, <2>2, DropEnds DEF Close
<1>5. CASE UNCHANGED vars
  BY <1>5 DEF vars, TypeOK, Locks, TwiceGranted
<1> QED
  BY <1>1, <1>2, <1>3, <1>4, <1>5 DEF Next, Run

(* LockInv is an invariant of the program.                                   *)
LEMMA LockInvariance == Spec => []LockInv
BY LockInitInv, LockNextInv, PTL DEF Spec

(* Every variable keeps its type.                                           *)
THEOREM LockTypesCorrect == Spec => []TypeOK
BY LockInvariance, PTL DEF LockInv

(* The second descriptor of _otherTest gets what the first one got.         *)
THEOREM TwiceAgrees == Spec => []TwiceGranted
BY LockInvariance, PTL DEF LockInv

(* F_SETLKW never deadlocks in this program, however many processes run     *)
(* with whatever arguments: hold-and-wait is for one process at a time.     *)
THEOREM NoDeadlock == Spec => []NoWaitCycle
<1>1. LockInv => NoWaitCycle
  BY DEF LockInv, TypeOK, Locks, NoWaitCycle, Waiting, Holding, Block, Type
<1> QED BY <1>1, LockInvariance, PTL
-----------------------------------------------------------------------------
(* Flock, which MCFileLock instantiates as Fl.                               *)
FlTypes ==
    /\ fArgs \in [FlockProc -> FlockArgs]
    /\ fdTable \in [FlockProc -> [Fl!FD -> Fl!OFD \cup {"none"}]]
    /\ lock \in [FlockProc -> [Fl!OFD -> {"un", "sh", "ex"}]]
    /\ test \in [FlockProc -> 0..3]
    /\ got2 \in [FlockProc -> [1..3 -> {"none", "ok", "failed"}]]
    /\ fPc \in [FlockProc -> {"open", "lock", "sleep", "test", "done", "lock1",
                              "dup", "close1", "lock2", "close"}]

(* Nothing is locked through the descriptions of p outside D, and no         *)
(* descriptor of p outside F is open.                                        *)
OnlyLocked(p, D) == \A d \in Fl!OFD \ D : lock[p][d] = "un"
OnlyOpen(p, F) == \A f \in Fl!FD \ F : fdTable[p][f] = "none"

(* What process p has open and locked at each place.                         *)
FlShape(p) ==
    /\ fPc[p] \in {"open", "test", "done"} => OnlyLocked(p, {}) /\ OnlyOpen(p, {})
    /\ fPc[p] = "test" => test[p] \in 0..2
    /\ fPc[p] = "lock" => OnlyLocked(p, {}) /\ OnlyOpen(p, {"fd"})
    /\ fPc[p] = "sleep" => OnlyLocked(p, {"0"}) /\ OnlyOpen(p, {"fd"})
    /\ fPc[p] \in {"open", "lock", "sleep"} => test[p] = 0
    /\ fPc[p] \in {"lock1", "dup", "close1", "lock2", "close"} => test[p] \in 1..3
    /\ fPc[p] = "lock1" => OnlyLocked(p, {})
    /\ fPc[p] \in {"lock1", "dup", "close1"} =>
          OnlyOpen(p, {"fd1", "fd2"}) /\ fdTable[p]["fd1"] = "1" /\ fdTable[p]["fd2"] = "2"
    /\ fPc[p] \in {"dup", "close1"} => OnlyLocked(p, {"1"})
    /\ fPc[p] = "dup" => test[p] = 2
    /\ fPc[p] = "close1" => test[p] = 3
    /\ fPc[p] = "lock2" => /\ OnlyOpen(p, {"fd1", "fd2", "fd3"})
                           /\ test[p] = 1 => lock[p]["1"] = "ex" /\ OnlyLocked(p, {"1"})
                           /\ test[p] # 1 => OnlyLocked(p, {})
    /\ fPc[p] = "close" => OnlyOpen(p, {"fd1", "fd2", "fd3"}) /\ OnlyLocked(p, {"1", "2"})
    /\ got2[p][1] # "ok"

FlInv == FlTypes /\ \A p \in FlockProc : FlShape(p)

LEMMA FlInitInv == Fl!Init => FlInv
BY DEF Fl!Init, FlInv, FlTypes, FlShape, OnlyLocked, OnlyOpen, Fl!FD, Fl!OFD

(* Closing the descriptors that are open leaves none, and no lock.           *)
LEMMA FlClosed ==
    ASSUME FlTypes, NEW p \in FlockProc, NEW F \in SUBSET Fl!FD, OnlyOpen(p, F), Fl!CloseAll(p, F)
    PROVE  /\ OnlyOpen(p, {})' /\ OnlyLocked(p, {})'
           /\ fdTable' \in [FlockProc -> [Fl!FD -> Fl!OFD \cup {"none"}]]
           /\ lock' \in [FlockProc -> [Fl!OFD -> {"un", "sh", "ex"}]]
           /\ \A q \in FlockProc \ {p} : fdTable'[q] = fdTable[q] /\ lock'[q] = lock[q]
BY DEF FlTypes, OnlyOpen, OnlyLocked, Fl!CloseAll, Fl!FD, Fl!OFD

(* flock() changes one lock of one process.                                  *)
LEMMA FlLocked ==
    ASSUME FlTypes, NEW p \in FlockProc, NEW d \in Fl!OFD, NEW m \in {"un", "sh", "ex"},
           Fl!SetLock(p, d, m)
    PROVE  /\ lock' \in [FlockProc -> [Fl!OFD -> {"un", "sh", "ex"}]]
           /\ lock'[p][d] = m
           /\ \A e \in Fl!OFD \ {d} : lock'[p][e] = lock[p][e]
           /\ \A q \in FlockProc \ {p} : lock'[q] = lock[q]
BY DEF FlTypes, Fl!SetLock

(* A process whose part of the state does not change keeps its shape.        *)
LEMMA FlSame ==
    ASSUME NEW q \in FlockProc, FlShape(q),
           fdTable'[q] = fdTable[q], lock'[q] = lock[q], test'[q] = test[q],
           got2'[q] = got2[q], fPc'[q] = fPc[q]
    PROVE  FlShape(q)'
BY DEF FlShape, OnlyLocked, OnlyOpen

(* Every step preserves types and shape.                                     *)
LEMMA FlNextInv == FlInv /\ [Fl!Next]_flockVars => FlInv'
<1> SUFFICES ASSUME FlInv, [Fl!Next]_flockVars PROVE FlInv'
  OBVIOUS
<1>0. CASE UNCHANGED flockVars
  BY <1>0 DEF flockVars, FlInv, FlTypes, FlShape, OnlyLocked, OnlyOpen
<1> SUFFICES ASSUME NEW p \in FlockProc, Fl!Run(p)
             PROVE  /\ FlTypes' /\ FlShape(p)'
                    /\ \A q \in FlockProc \ {p} :
                          /\ fdTable'[q] = fdTable[q] /\ lock'[q] = lock[q] /\ test'[q] = test[q]
                          /\ got2'[q] = got2[q] /\ fPc'[q] = fPc[q]
  BY <1>0, FlSame DEF Fl!Next, FlInv
<1> USE DEF FlInv
<1>1. CASE Fl!Open(p)
  BY <1>1 DEF Fl!Open, Fl!Goto, FlTypes, FlShape, OnlyLocked, OnlyOpen, Fl!FD, Fl!OFD
<1>2. CASE Fl!Lock(p) /\ fPc'[p] = "sleep"
  <2>1. fArgs[p].lockType \in {"un", "sh", "ex"} /\ "0" \in Fl!OFD
    BY DEF FlTypes, FlockArgs, Fl!OFD
  <2>2. /\ Fl!SetLock(p, "0", fArgs[p].lockType) /\ fPc[p] = "lock"
        /\ fPc' = [fPc EXCEPT ![p] = "sleep"] /\ UNCHANGED <<fArgs, fdTable, test, got2>>
    BY <1>2 DEF Fl!Lock, Fl!Goto, FlTypes
  <2>3. FlTypes' /\ FlShape(p)'
    BY <2>1, <2>2, FlLocked DEF FlTypes, FlShape, OnlyLocked, OnlyOpen
  <2> QED BY <2>1, <2>2, <2>3, FlLocked DEF FlTypes
<1>3. CASE Fl!Lock(p) /\ fPc'[p] # "sleep"
  <2>1. Fl!CloseAll(p, Fl!FD) /\ OnlyOpen(p, Fl!FD)
    BY <1>3 DEF Fl!Lock, Fl!Goto, FlTypes, OnlyOpen
  <2>2. fPc' = [fPc EXCEPT ![p] = "done"] /\ UNCHANGED <<fArgs, test, got2>>
    BY <1>3 DEF Fl!Lock, Fl!Goto, FlTypes
  <2> QED BY <2>1, <2>2, FlClosed DEF FlTypes, FlShape
<1>4. CASE Fl!Unlock(p)
  <2>1. Fl!CloseAll(p, {"fd"}) /\ OnlyOpen(p, {"fd"})
    BY <1>4 DEF Fl!Unlock, Fl!Goto, FlTypes, FlShape
  <2> QED BY <1>4, <2>1, FlClosed DEF Fl!Unlock, Fl!Goto, FlTypes, FlShape, Fl!FD
<1>5. CASE Fl!OpenTwice(p)
  BY <1>5 DEF Fl!OpenTwice, Fl!Goto, FlTypes, FlShape, OnlyLocked, OnlyOpen, Fl!FD, Fl!OFD
<1>6. CASE /\ Fl!Goto(p, "lock1", Fl!Locked1(p)) /\ Fl!SetLock(p, "1", "ex")
           /\ UNCHANGED <<fArgs, fdTable, test, got2>>
  <2>1. "1" \in Fl!OFD
    BY DEF Fl!OFD
  <2>2. fPc[p] = "lock1" /\ test[p] \in 1..3 /\ OnlyLocked(p, {})
        /\ OnlyOpen(p, {"fd1", "fd2"}) /\ fdTable[p]["fd1"] = "1" /\ fdTable[p]["fd2"] = "2"
        /\ got2[p][1] # "ok"
    BY <1>6 DEF Fl!Goto, FlShape
  <2>3. fPc' = [fPc EXCEPT ![p] = Fl!Locked1(p)] /\ UNCHANGED <<fArgs, fdTable, test, got2>>
    BY <1>6 DEF Fl!Goto
  <2>4. Fl!Locked1(p) = IF test[p] = 1 THEN "lock2" ELSE IF test[p] = 2 THEN "dup" ELSE "close1"
    BY <2>2 DEF Fl!Locked1
  <2>5. FlTypes' /\ FlShape(p)'
    BY <1>6, <2>1, <2>2, <2>3, <2>4, FlLocked DEF FlTypes, FlShape, OnlyLocked, OnlyOpen
  <2> QED BY <1>6, <2>1, <2>3, <2>5, FlLocked DEF FlTypes
<1>7. CASE Fl!Lock1(p) /\ Fl!CloseAll(p, {"fd1", "fd2"}) /\ Fl!Goto(p, "lock1", Fl!Return(p))
  <2>1. OnlyOpen(p, {"fd1", "fd2"})
    BY <1>7 DEF Fl!Goto, FlShape
  <2> QED BY <1>7, <2>1, FlClosed DEF Fl!Lock1, Fl!Goto, Fl!Return, FlTypes, FlShape, Fl!FD
<1>8. CASE Fl!Dup(p)
  BY <1>8 DEF Fl!Dup, Fl!SetLock, Fl!Goto, FlTypes, FlShape, OnlyLocked, OnlyOpen, Fl!FD, Fl!OFD
<1>9. CASE Fl!Close1(p)
  BY <1>9 DEF Fl!Close1, Fl!CloseAll, Fl!Goto, FlTypes, FlShape, OnlyLocked, OnlyOpen, Fl!FD, Fl!OFD
<1>10. CASE Fl!Lock2(p)
  <2>1. test[p] = 1 => ~Fl!Free(p, "2", "ex")
    BY <1>10 DEF Fl!Lock2, Fl!Goto, Fl!Free, FlShape, Fl!OFD
  <2>2. /\ fPc[p] = "lock2" /\ test[p] \in 1..3 /\ fPc' = [fPc EXCEPT ![p] = "close"]
        /\ UNCHANGED <<fArgs, fdTable, test>>
    BY <1>10 DEF Fl!Lock2, Fl!Goto, FlShape
  <2>3. CASE Fl!SetLock(p, "2", "ex") /\ got2' = [got2 EXCEPT ![p][test[p]] = "ok"] /\ test[p] # 1
    <3>1. "2" \in Fl!OFD
      BY DEF Fl!OFD
    <3>2. FlTypes' /\ FlShape(p)'
      BY <2>2, <2>3, <3>1, FlLocked DEF FlTypes, FlShape, OnlyLocked, OnlyOpen
    <3> QED BY <2>2, <2>3, <3>1, <3>2, FlLocked DEF FlTypes
  <2>4. CASE UNCHANGED lock /\ got2' = [got2 EXCEPT ![p][test[p]] = "failed"]
    BY <2>2, <2>4 DEF FlTypes, FlShape, OnlyLocked, OnlyOpen
  <2> QED BY <1>10, <2>1, <2>3, <2>4 DEF Fl!Lock2
<1>11. CASE Fl!Close(p)
  <2>1. OnlyOpen(p, {"fd1", "fd2", "fd3"})
    BY <1>11 DEF Fl!Close, Fl!Goto, FlShape
  <2>2. /\ fPc[p] = "close" /\ test[p] \in 1..3 /\ fPc' = [fPc EXCEPT ![p] = Fl!Return(p)]
        /\ UNCHANGED <<fArgs, test, got2>>
    BY <1>11 DEF Fl!Close, Fl!Goto, FlShape
  <2>3. Fl!CloseAll(p, {"fd1", "fd2", "fd3"}) /\ {"fd1", "fd2", "fd3"} \in SUBSET Fl!FD
    BY <1>11 DEF Fl!Close, Fl!FD
  <2>4. /\ OnlyOpen(p, {})' /\ OnlyLocked(p, {})'
        /\ fdTable' \in [FlockProc -> [Fl!FD -> Fl!OFD \cup {"none"}]]
        /\ lock' \in [FlockProc -> [Fl!OFD -> {"un", "sh", "ex"}]]
        /\ \A q \in FlockProc \ {p} : fdTable'[q] = fdTable[q] /\ lock'[q] = lock[q]
    BY <2>1, <2>3, FlClosed
  <2>5. fPc'[p] = IF test[p] = 3 THEN "done" ELSE "test"
    BY <2>2 DEF Fl!Return, FlTypes
  <2>6. FlTypes'
    BY <2>2, <2>4 DEF FlTypes, Fl!Return
  <2>7. FlShape(p)'
    BY <2>2, <2>4, <2>5 DEF FlShape
  <2> QED BY <2>2, <2>4, <2>6, <2>7 DEF FlTypes
<1> QED
  BY <1>1, <1>2, <1>3, <1>4, <1>5, <1>6, <1>7, <1>8, <1>9, <1>10, <1>11 DEF Fl!Run, Fl!Lock1

(* For any number of processes: on every path the tests leave neither a      *)
(* descriptor nor a lock behind, the first never gets fd2 while fd1 is       *)
(* locked, and the other two get it when nobody else is about.               *)
THEOREM TestsAsOwned == Fl!Spec => []FlockTests
<1>1. FlInv => Fl!NothingLeft
  BY DEF FlInv, FlShape, OnlyLocked, OnlyOpen, Fl!NothingLeft
<1>2. FlInv => Fl!TestOutcome
  BY DEF FlInv, FlTypes, FlShape, OnlyLocked, Fl!TestOutcome, Fl!Free, Fl!OFD
<1> QED
  BY <1>1, <1>2, FlInitInv, FlNextInv, PTL DEF Fl!Spec, Fl!vars, flockVars, FlockTests
-----------------------------------------------------------------------------
(* PosixTimer: no callback has loaded more than the callbacks that worked    *)
(* before it, however many of them are between load and store.               *)
CallbackInv ==
    /\ callbackCount \in Nat
    /\ cb \in [Callback -> {"none", "sleep", "store", "end"}]
    /\ reg \in [Callback -> Nat]
    /\ callbackCount <= Cardinality(Worked)
    /\ \A k \in Callback : cb[k] = "store" => reg[k] + 1 <= Cardinality(Worked)
    /\ main = "return" => callbackCount >= MaxCallbackCount

(* Callbacks that have worked can be counted.                                *)
LEMMA WorkedFinite == IsFiniteSet(Worked) /\ Cardinality(Worked) \in Nat
<1>1. IsFiniteSet(Callback)
  BY TimesAssumption, FS_Interval DEF Callback
<1> QED BY <1>1, FS_Subset, FS_CardinalityType DEF Worked

(* Only Load adds to the callbacks that have worked.                         *)
LEMMA CallbackStep ==
    ASSUME CallbackInv, PtNext \/ UNCHANGED ptVars
    PROVE  CallbackInv'
<1> USE TimesAssumption, WorkedFinite DEF CallbackInv
<1>1. ASSUME NEW k \in Callback, Load(k) PROVE CallbackInv'
  <2>1. k \notin Worked /\ Worked' = Worked \cup {k}
    BY <1>1 DEF Load, Worked
  <2>2. Cardinality(Worked') = Cardinality(Worked) + 1
    BY <2>1, FS_AddElement
  <2> HIDE DEF Worked
  <2> QED BY <1>1, <2>2 DEF Load
<1>2. ASSUME NEW k \in Callback, Increment(k) PROVE CallbackInv'
  <2>1. Worked' = Worked
    BY <1>2 DEF Increment, Worked
  <2> QED BY <1>2, <2>1 DEF Increment
<1>3. ASSUME NEW k \in Callback, Notify(k) PROVE CallbackInv'
  <2>1. Worked' = Worked
    BY <1>3 DEF Notify, Worked
  <2> QED BY <1>3, <2>1 DEF Notify
<1>4. ASSUME SetTime \/ Poll \/ Tick \/ UNCHANGED ptVars PROVE CallbackInv'
  <2>1. Worked' = Worked
    BY <1>4 DEF SetTime, Poll, Tick, ptVars, Worked
  <2> QED BY <1>4, <2>1 DEF SetTime, Poll, Tick, ptVars
<1> QED BY <1>1, <1>2, <1>3, <1>4 DEF PtNext, Threads

(* For all times and any number of overlapping callbacks, the unlocked       *)
(* g_callbackCount++ makes no count up: main does not leave before           *)
(* g_maxCallbackCount callbacks have done their work.                        *)
THEOREM NeverLeavesEarly == PtSpec => []ExitAfterMax
<1>1. PtInit => CallbackInv
  BY WorkedFinite, TimesAssumption DEF PtInit, CallbackInv
<1>2. CallbackInv /\ [PtNext]_ptVars => CallbackInv'
  BY CallbackStep
<1>3. CallbackInv => ExitAfterMax
  BY WorkedFinite, TimesAssumption DEF CallbackInv, ExitAfterMax
<1> QED BY <1>1, <1>2, <1>3, PTL DEF PtSpec
-----------------------------------------------------------------------------

(* TimerFd: the loop's i is the sum of what its iterations have been and of  *)
(* the one under way; what is about to be read has expired.                  *)
TimerFdInv ==
    /\ loop \in {"settime", "while", "epoll_wait", "read", "return"}
    /\ {iter, fdDue, unread, waited, expired, ran, eintr, timeouts} \subseteq Nat
    /\ iter = ran + eintr + timeouts + IF loop \in {"epoll_wait", "read"} THEN 1 ELSE 0
    /\ iter <= FdMaxCallbackCount
    /\ loop = "read" => unread > 0
    /\ CallbackPerExpiry

(* The timer is handled once per expiry at most, and an iteration without it *)
(* is an interruption or a timeout.                                          *)
THEOREM OnePerExpiry == TimerSpec => []CallbackPerExpiry
<1> USE TimerFdAssumption DEF TimerFdInv, CallbackPerExpiry
<1>1. TimerInit => TimerFdInv
  BY DEF TimerInit
<1>2. TimerFdInv /\ [TimerNext]_timerFdVars => TimerFdInv'
  <2> SUFFICES ASSUME TimerFdInv, [TimerNext]_timerFdVars PROVE TimerFdInv'
    OBVIOUS
  <2>1. CASE Settime
    BY <2>1 DEF Settime
  <2>2. CASE While
    BY <2>2 DEF While
  <2>3. CASE EpollEintr
    BY <2>3 DEF EpollEintr
  <2>4. CASE Timeout
    BY <2>4 DEF Timeout
  <2>5. CASE Ready
    BY <2>5 DEF Ready
  <2>6. CASE Read
    BY <2>6 DEF Read
  <2>7. CASE TimerTick
    BY <2>7 DEF TimerTick
  <2>8. CASE UNCHANGED timerFdVars
    BY <2>8 DEF timerFdVars
  <2> QED BY <2>1, <2>2, <2>3, <2>4, <2>5, <2>6, <2>7, <2>8 DEF TimerNext, TimerMain
<1>3. TimerFdInv => CallbackPerExpiry
  OBVIOUS
<1> QED BY <1>1, <1>2, <1>3, PTL DEF TimerSpec
-----------------------------------------------------------------------------
(* Sleep: what the request, the remaining time and the end of the call under *)
(* way say of the time at which mySleep will return.                         *)
(* Passed is the rounding that the interrupted calls have already added to   *)
(* the remaining time; the call under way adds at most Rounding more.        *)
Exact == type \in Restarted \/ signals = 0
Deadline == request.sec * Second + request.nsec
Passed == IF type = "posixClock_abs" THEN 0 ELSE signals * Rounding
InTime(t, r) == start + Asked <= t /\ t <= start + Asked + late + r

SleepTypes ==
    /\ ms \in Nat /\ nth \in Nat /\ now \in Nat /\ start \in Nat /\ Asked \in Nat
    /\ at \in {"enter", "clock", "call", "asleep", "end", "exit"}
    /\ rest \in Nat /\ wake \in Nat /\ signals \in Nat /\ late \in Nat
    /\ request.sec \in Nat /\ request.nsec \in Nat /\ Deadline \in Nat

OnTime ==
    /\ at = "clock" => type = "posixClock_abs" /\ now = start + late
    /\ at \in {"call", "asleep"} /\ Exact => now <= start + Asked + late + Drift
    /\ at \in {"call", "asleep"} /\ type = "posixClock_abs" =>
            request.nsec < Second /\ InTime(Deadline, 0)
    /\ at = "call" /\ type # "posixClock_abs" /\ Exact => InTime(now + rest, Passed)
    /\ at = "asleep" /\ Exact => InTime(wake, Drift)
    /\ at = "end" /\ Exact => InTime(now, Drift)

SleepInv == SleepTypes /\ OnTime

(* Division with remainder, and the carry of the nanoseconds.                *)
LEMMA DivMod ==
    ASSUME NEW a \in Nat, NEW b \in Nat \ {0}
    PROVE  /\ a \div b \in Nat /\ a % b \in Nat /\ a % b < b
           /\ (a \div b) * b \in Nat /\ (a \div b) * b + (a % b) = a
<1>1. a \div b \in Nat /\ a % b \in Nat /\ a % b < b
  OBVIOUS
<1>2. b * (a \div b) + (a % b) = a
  OBVIOUS
<1>3. ASSUME NEW q \in Nat PROVE b * q = q * b /\ q * b \in Nat
  OBVIOUS
<1> QED BY <1>1, <1>2, <1>3

LEMMA CarryValue ==
    ASSUME NEW s \in Nat, NEW n \in Nat, n < 2 * Second
    PROVE  /\ Carry(s, n).sec \in Nat /\ Carry(s, n).nsec \in Nat
           /\ Carry(s, n).nsec < Second
           /\ Carry(s, n).sec * Second + Carry(s, n).nsec = s * Second + n
BY SleepAssumption DEF Carry

(* The rounding of one more call.                                            *)
LEMMA Accumulates ==
    ASSUME NEW s \in Nat
    PROVE  s * Rounding \in Nat /\ (s + 1) * Rounding = s * Rounding + Rounding
BY SleepAssumption

(* The time asked for is a number, whatever the way to sleep.                *)
LEMMA AskedNat == ms \in Nat => Asked \in Nat
BY SleepAssumption, DivMod DEF Asked

LEMMA SleepInitInv == SleepInit => SleepInv
<1> SUFFICES ASSUME SleepInit PROVE SleepInv
  OBVIOUS
<1>1. SleepTypes
  <2>1. ms \in Nat /\ now \in Nat
    BY SleepAssumption DEF SleepInit
  <2> QED BY <2>1, AskedNat, SleepAssumption DEF SleepInit, SleepTypes, Deadline
<1>2. OnTime
  BY DEF SleepInit, OnTime
<1> QED BY <1>1, <1>2 DEF SleepInv

(* Every step of mySleep, of the clock and every signal keeps it.            *)
LEMMA SleepNextInv == SleepInv /\ [SleepNext]_sleepVars => SleepInv'
<1> SUFFICES ASSUME SleepInv, [SleepNext]_sleepVars PROVE SleepInv'
  OBVIOUS
<1> USE SleepAssumption DEF SleepInv, SleepTypes, OnTime
<1>0. nth' = nth /\ ms' = ms => type' = type /\ Asked' = Asked
  BY DEF type, Asked
<1>a. Passed \in Nat /\ Drift = Passed + Rounding
  BY Accumulates DEF Passed, Drift
<1>b. signals' \in Nat => Passed' \in Nat /\ Drift' = Passed' + Rounding
  <2> SUFFICES ASSUME signals' \in Nat PROVE Passed' \in Nat /\ Drift' = Passed' + Rounding
    OBVIOUS
  <2>1. CASE type' = "posixClock_abs"
    <3>1. Passed' = 0 /\ Drift' = Rounding
      BY <2>1, Zenon DEF Passed, Drift
    <3> QED BY <3>1
  <2>2. CASE type' # "posixClock_abs"
    <3>1. Passed' = signals' * Rounding /\ Drift' = (signals' + 1) * Rounding
      BY <2>2, Zenon DEF Passed, Drift
    <3> QED BY <3>1, Accumulates
  <2> QED BY <2>1, <2>2
<1>c. type' = type /\ signals' = signals => Passed' = Passed
  BY DEF Passed
<1>1. CASE Enter
  <2>1. type' = type /\ Asked' = Asked
    BY <1>0, <1>1 DEF Enter
  <2>2. now % Second \in Nat
    BY DivMod
  <2>3. Deadline' \in Nat
    BY <1>1 DEF Enter, Deadline
  <2> QED BY <1>b, <1>1, <2>1, <2>2, <2>3 DEF Enter, InTime, Exact
<1>2. CASE ClockAbs
  <2>1. type' = type /\ Asked' = Asked /\ type = "posixClock_abs" /\ Asked = ms
    BY <1>0, <1>2 DEF ClockAbs, Asked
  <2> DEFINE s == (now \div Second) + (ms \div Second)
             n == (now % Second) + (ms % Second)
  <2>2. /\ s \in Nat /\ n \in Nat /\ n < 2 * Second
        /\ s * Second + n = now + ms
    <3>1. /\ (now \div Second) * Second + (now % Second) = now
          /\ (ms \div Second) * Second + (ms % Second) = ms
          /\ now \div Second \in Nat /\ ms \div Second \in Nat
          /\ now % Second \in Nat /\ ms % Second \in Nat
          /\ now % Second < Second /\ ms % Second < Second
      BY DivMod
    <3>2. ASSUME NEW a \in Nat, NEW b \in Nat
          PROVE  (a + b) * Second = a * Second + b * Second /\ a * Second \in Nat
      OBVIOUS
    <3> QED BY <3>1, <3>2
  <2> HIDE DEF s, n
  <2>3. request' = Carry(s, n)
    BY <1>2 DEF ClockAbs, s, n
  <2>4. /\ request'.sec \in Nat /\ request'.nsec \in Nat /\ request'.nsec < Second
        /\ request'.sec * Second + request'.nsec = s * Second + n
    BY <2>2, <2>3, CarryValue
  <2>5. Deadline' = now + ms
    BY <2>2, <2>4 DEF Deadline
  <2> QED BY <1>b, <1>2, <2>1, <2>4, <2>5 DEF ClockAbs, InTime, Exact
<1>3. CASE Call
  <2>1. type' = type /\ Asked' = Asked /\ Deadline' = Deadline /\ (Exact' <=> Exact) /\ Passed' = Passed
    BY <1>0, <1>c, <1>3 DEF Call, Deadline, Exact
  <2>2. CASE type = "posixClock_abs"
    BY <1>a, <1>b, <1>3, <2>1, <2>2 DEF Call, Deadline, InTime
  <2>3. CASE type # "posixClock_abs"
    BY <1>a, <1>b, <1>3, <2>1, <2>3 DEF Call, InTime
  <2> QED BY <2>2, <2>3
<1>4. CASE Expire
  <2>1. type' = type /\ Asked' = Asked /\ Deadline' = Deadline /\ (Exact' <=> Exact) /\ Passed' = Passed
    BY <1>0, <1>c, <1>4 DEF Expire, Deadline, Exact
  <2> QED BY <1>a, <1>b, <1>4, <2>1 DEF Expire, InTime
<1>5. CASE Interrupt
  <2>1. type' = type /\ Asked' = Asked /\ Deadline' = Deadline
    BY <1>0, <1>5 DEF Interrupt, Deadline
  <2>2. signals' \in Nat /\ signals' # 0
    BY <1>5 DEF Interrupt
  <2>3. CASE type \in Remaining
    <3>1. signals' = signals + 1 /\ Passed' = Drift
      BY <1>5, <2>1, <2>3 DEF Interrupt, Remaining, Passed, Drift
    <3> QED BY <1>a, <1>b, <1>5, <2>1, <2>2, <2>3, <3>1
            DEF Interrupt, InTime, Exact, Remaining, Restarted
  <2>4. CASE type = "posixClock_abs"
    <3>1. Drift' = Drift
      BY <2>1, <2>4 DEF Drift
    <3> QED BY <1>a, <1>5, <2>1, <2>2, <2>4, <3>1
            DEF Interrupt, InTime, Exact, Remaining, Restarted
  <2>5. CASE type \notin Restarted
    BY <1>5, <2>1, <2>2, <2>5 DEF Interrupt, Exact, Remaining, Restarted
  <2> QED BY <2>3, <2>4, <2>5 DEF Restarted
<1>6. CASE Return
  <2>1. Deadline' = Deadline /\ Asked' \in Nat
    BY <1>6, DivMod DEF Return, Deadline, Asked
  <2>2. /\ at' \in {"enter", "exit"} /\ nth' \in {nth, nth + 1}
        /\ UNCHANGED <<ms, now, start, rest, request, wake, signals, late>>
    BY <1>6, Zenon DEF Return
  <2>3. SleepTypes'
    BY <2>1, <2>2
  <2>4. OnTime'
    BY <2>2
  <2> QED BY <2>3, <2>4
<1>7. CASE SleepTick
  <2>1. type' = type /\ Asked' = Asked /\ Deadline' = Deadline /\ (Exact' <=> Exact) /\ Passed' = Passed
    BY <1>0, <1>c, <1>7 DEF SleepTick, Deadline, Exact
  <2>2. SleepTypes'
    BY <1>7, <2>1 DEF SleepTick
  <2>3. CASE at = "asleep" /\ now < wake /\ late' = late
    BY <1>a, <1>b, <1>7, <2>1, <2>2, <2>3 DEF SleepTick, InTime
  <2>4. CASE late' = late + 1
    BY <1>a, <1>b, <1>7, <2>1, <2>2, <2>4 DEF SleepTick, InTime
  <2> QED BY <1>7, <2>3, <2>4 DEF SleepTick
<1>8. CASE UNCHANGED sleepVars
  <2>1. type' = type /\ Asked' = Asked /\ Deadline' = Deadline /\ (Exact' <=> Exact) /\ Passed' = Passed
    BY <1>0, <1>c, <1>8 DEF sleepVars, Deadline, Exact
  <2> QED BY <1>a, <1>b, <1>8, <2>1 DEF sleepVars, InTime
<1> QED BY <1>1, <1>2, <1>3, <1>4, <1>5, <1>6, <1>7, <1>8 DEF SleepNext, MySleep

(* The calls that main.c:97, 138 and 149 restart never sleep less than asked, *)
(* however often and whenever they are interrupted; with the remaining time   *)
(* passed on, each restart may add the rounding of one call, and with the     *)
(* absolute deadline the rounding counts once (README.md:15-17).              *)
THEOREM AsLongAsAsked == SleepSpec => []SleepsAsAsked
<1>1. SleepInv => SleepsAsAsked
  <2> SUFFICES ASSUME SleepInv PROVE SleepsAsAsked
    OBVIOUS
  <2>1. Drift \in Nat
    BY Accumulates, SleepAssumption DEF SleepInv, SleepTypes, Drift
  <2> QED BY <2>1 DEF SleepInv, SleepTypes, OnTime, Exact, InTime, SleepsAsAsked
<1> QED BY <1>1, SleepInitInv, SleepNextInv, PTL DEF SleepSpec
=============================================================================
