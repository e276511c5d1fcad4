----------------------------- MODULE IpcProofs -----------------------------
(***************************************************************************)
(* Proofs about MsgQueue, NamedSem, SysVShm (as SysV) and PosixShm, for    *)
(* any number of processes, messages and additions.                        *)
(***************************************************************************)
EXTENDS MCIpc, FiniteSetTheorems, TLAPS

(* MsgQueue: the counters have their types.                                  *)
MqInv == /\ curmsgs \in Nat
         /\ mqPc \in [MqProc -> {"open", "getattr", "send", "sent",
                                 "receive", "received", "fail"}]
         /\ seen \in [MqProc -> Nat] /\ since \in [MqProc -> Nat]
         /\ WaitsForTaken

(* A process waits in mq_receive only for messages that others took after it *)
(* had counted them.                                                         *)
THEOREM OnlyForTaken == MqSpec => []WaitsForTaken
<1> USE MqAssumption DEF MqInv, WaitsForTaken
<1>1. MqInit => MqInv
  BY DEF MqInit
<1>2. MqInv /\ [MqNext]_mqVars => MqInv'
  <2> SUFFICES ASSUME MqInv, [MqNext]_mqVars PROVE MqInv'
    OBVIOUS
  <2>1. ASSUME NEW p \in MqProc, MqOpen(p) PROVE MqInv'
    BY <2>1 DEF MqOpen, MqGoto
  <2>2. ASSUME NEW p \in MqProc, Getattr(p) PROVE MqInv'
    BY <2>2 DEF Getattr, MqGoto
  <2>3. ASSUME NEW p \in MqProc, MqSend(p) PROVE MqInv'
    BY <2>3 DEF MqSend, MqGoto
  <2>4. ASSUME NEW p \in MqProc, MqReceive(p) PROVE MqInv'
    BY <2>4 DEF MqReceive, MqGoto
  <2>5. CASE UNCHANGED mqVars
    BY <2>5 DEF mqVars
  <2> QED BY <2>1, <2>2, <2>3, <2>4, <2>5 DEF MqNext, MqRun
<1>3. MqInv => WaitsForTaken
  OBVIOUS
<1> QED BY <1>1, <1>2, <1>3, PTL DEF MqSpec
-----------------------------------------------------------------------------
(* NamedSem: the processes that use o, those of them that took a unit at     *)
(* first, that missed one then, and that are about to try again.             *)
SemUsers(o) == {p \in SemProc : semOf[p] = o}
Took(o)     == SemUsers(o) \cap took
Missed(o)   == SemUsers(o) \cap missed
Trying(o)   == {p \in SemUsers(o) : semPc[p] = "try2"}

SemTypes ==
    /\ val \in [SemProc -> Nat] /\ semName \in SemProc \cup {NoSem}
    /\ semOf \in [SemProc -> SemProc \cup {NoSem}]
    /\ semPc \in [SemProc -> {"create", "open", "failed", "try1", "post", "try2",
                              "close", "done"}]
    /\ \A p \in SemProc : semOf[p] = NoSem <=> semPc[p] \in {"create", "open", "failed"}
    /\ took \subseteq {p \in SemProc : semPc[p] \in {"post", "try2", "close", "done"}}
    /\ missed \subseteq {p \in SemProc : semPc[p] \in {"close", "done"}}

(* Units are posted and taken one by one.                                    *)
Balance == \A o \in SemProc :
    /\ val[o] + Cardinality(Took(o)) = Cardinality(Trying(o)) + Cardinality(Missed(o))
    /\ val[o] <= Cardinality(Trying(o))

(* The sets that are counted are finite.                                     *)
LEMMA Counted ==
    ASSUME NEW o
    PROVE  /\ IsFiniteSet(Took(o)) /\ IsFiniteSet(Missed(o)) /\ IsFiniteSet(Trying(o))
           /\ Cardinality(Took(o)) \in Nat /\ Cardinality(Missed(o)) \in Nat
           /\ Cardinality(Trying(o)) \in Nat
<1>1. Took(o) \subseteq SemProc /\ Missed(o) \subseteq SemProc /\ Trying(o) \subseteq SemProc
  BY DEF Took, Missed, Trying, SemUsers
<1>2. IsFiniteSet(Took(o)) /\ IsFiniteSet(Missed(o)) /\ IsFiniteSet(Trying(o))
  BY <1>1, SemAssumption, FS_Subset
<1> QED BY <1>2, FS_CardinalityType

(* A step that leaves the value and the three sets of o alone.               *)
LEMMA SameBalance ==
    ASSUME Balance, SemTypes, UNCHANGED val,
           \A o \in SemProc : Took(o)' = Took(o) /\ Missed(o)' = Missed(o) /\ Trying(o)' = Trying(o)
    PROVE  Balance'
BY DEF Balance

LEMMA SemInitInv == SemInit => SemTypes /\ Balance
<1> SUFFICES ASSUME SemInit PROVE SemTypes /\ Balance
  OBVIOUS
<1>1. SemTypes
  BY DEF SemInit, SemTypes
<1>2. \A o \in SemProc : Took(o) = {} /\ Missed(o) = {} /\ Trying(o) = {}
  BY DEF SemInit, Took, Missed, Trying, SemUsers
<1>3. \A o \in SemProc : val[o] = 0
  BY DEF SemInit
<1> QED BY <1>1, <1>2, <1>3, FS_EmptySet DEF Balance

LEMMA SemTypesStep == SemTypes /\ [SemNext]_semVars => SemTypes'
<1> SUFFICES ASSUME SemTypes, [SemNext]_semVars PROVE SemTypes'
  OBVIOUS
<1> USE SemAssumption DEF SemTypes, SemGoto
<1>1. ASSUME NEW p \in SemProc, SemCreate(p) PROVE SemTypes'
  BY <1>1 DEF SemCreate
<1>2. ASSUME NEW p \in SemProc, SemOpen(p) PROVE SemTypes'
  BY <1>2 DEF SemOpen
<1>3. ASSUME NEW p \in SemProc, TryFirst(p) PROVE SemTypes'
  BY <1>3 DEF TryFirst
<1>4. ASSUME NEW p \in SemProc, Post(p) PROVE SemTypes'
  BY <1>4 DEF Post
<1>5. ASSUME NEW p \in SemProc, TrySecond(p) PROVE SemTypes'
  BY <1>5 DEF TrySecond
<1>6. ASSUME NEW p \in SemProc, SemClose(p) PROVE SemTypes'
  BY <1>6 DEF SemClose
<1>7. ASSUME NEW p \in SemProc, KillSem(p) PROVE SemTypes'
  BY <1>7 DEF KillSem
<1>8. CASE UNCHANGED semVars
  BY <1>8 DEF semVars
<1> QED BY <1>1, <1>2, <1>3, <1>4, <1>5, <1>6, <1>7, <1>8 DEF SemNext, SemRun

(* Adding one to a set that is counted, or taking one from it.               *)
LEMMA OneMore ==
    ASSUME NEW S, NEW T, NEW x, IsFiniteSet(S), x \notin S, T = S \cup {x}
    PROVE  Cardinality(T) = Cardinality(S) + 1
BY FS_AddElement

LEMMA OneLess ==
    ASSUME NEW S, NEW T, NEW x, IsFiniteSet(S), x \in S, T = S \ {x}
    PROVE  Cardinality(T) = Cardinality(S) - 1
BY FS_RemoveElement

(* Every step keeps the balance; three kinds of steps move units.            *)
LEMMA BalanceStep == SemTypes /\ Balance /\ [SemNext]_semVars => Balance'
<1> SUFFICES ASSUME SemTypes, Balance, [SemNext]_semVars PROVE Balance'
  OBVIOUS
<1> USE SemAssumption DEF SemTypes, SemGoto
<1>1. ASSUME NEW p \in SemProc, SemCreate(p) \/ SemOpen(p) PROVE Balance'
  <2>1. \A o \in SemProc : Took(o)' = Took(o) /\ Missed(o)' = Missed(o) /\ Trying(o)' = Trying(o)
    BY <1>1 DEF SemCreate, SemOpen, Took, Missed, Trying, SemUsers
  <2>2. UNCHANGED val
    BY <1>1 DEF SemCreate, SemOpen
  <2> QED BY <2>1, <2>2, SameBalance
<1>2. ASSUME NEW p \in SemProc, SemClose(p) \/ KillSem(p) PROVE Balance'
  <2>1. \A o \in SemProc : Took(o)' = Took(o) /\ Missed(o)' = Missed(o) /\ Trying(o)' = Trying(o)
    BY <1>2 DEF SemClose, KillSem, Took, Missed, Trying, SemUsers
  <2>2. UNCHANGED val
    BY <1>2 DEF SemClose, KillSem
  <2> QED BY <2>1, <2>2, SameBalance
<1>3. ASSUME NEW p \in SemProc, TryFirst(p) PROVE Balance'
  <2>0. semOf[p] \in SemProc
    BY <1>3 DEF TryFirst
  <2>1. CASE val[semOf[p]] = 0 /\ UNCHANGED <<val, took>>
    <3>1. \A o \in SemProc : Took(o)' = Took(o) /\ Missed(o)' = Missed(o) /\ Trying(o)' = Trying(o)
      BY <1>3, <2>1 DEF TryFirst, Took, Missed, Trying, SemUsers
    <3> QED BY <2>1, <3>1, SameBalance
  <2>2. CASE took' = took \cup {p} /\ val[semOf[p]] > 0 /\ val' = [val EXCEPT ![semOf[p]] = @ - 1]
    <3> SUFFICES ASSUME NEW o \in SemProc
                 PROVE  /\ val'[o] + Cardinality(Took(o)') = Cardinality(Trying(o)') + Cardinality(Missed(o)')
                        /\ val'[o] <= Cardinality(Trying(o)')
      BY DEF Balance
    <3>1. Missed(o)' = Missed(o) /\ Trying(o)' = Trying(o)
      BY <1>3 DEF TryFirst, Missed, Trying, SemUsers
    <3>2. CASE o = semOf[p]
      <4>1. Took(o)' = Took(o) \cup {p} /\ p \notin Took(o)
        BY <1>3, <2>2, <3>2 DEF TryFirst, Took, SemUsers
      <4>2. Cardinality(Took(o)') = Cardinality(Took(o)) + 1
        BY <4>1, Counted, OneMore
      <4>3. val'[o] = val[o] - 1 /\ val[o] \in Nat
        BY <2>0, <2>2, <3>2
      <4>4. /\ val[o] + Cardinality(Took(o)) = Cardinality(Trying(o)) + Cardinality(Missed(o))
            /\ val[o] <= Cardinality(Trying(o))
            /\ Cardinality(Took(o)) \in Nat /\ Cardinality(Trying(o)) \in Nat
            /\ Cardinality(Missed(o)) \in Nat
        BY Counted DEF Balance
      <4> QED BY <3>1, <4>2, <4>3, <4>4
    <3>3. CASE o # semOf[p]
      <4>1. Took(o)' = Took(o)
        BY <1>3, <2>2, <3>3 DEF TryFirst, Took, SemUsers
      <4>2. val'[o] = val[o]
        BY <2>0, <2>2, <3>3
      <4> QED BY <3>1, <4>1, <4>2 DEF Balance
    <3> QED BY <3>2, <3>3
  <2> QED BY <1>3, <2>1, <2>2 DEF TryFirst
<1>4. ASSUME NEW p \in SemProc, Post(p) PROVE Balance'
  <2>0. semOf[p] \in SemProc /\ val' = [val EXCEPT ![semOf[p]] = @ + 1]
    BY <1>4 DEF Post
  <2> SUFFICES ASSUME NEW o \in SemProc
               PROVE  /\ val'[o] + Cardinality(Took(o)') = Cardinality(Trying(o)') + Cardinality(Missed(o)')
                      /\ val'[o] <= Cardinality(Trying(o)')
    BY DEF Balance
  <2>1. Took(o)' = Took(o) /\ Missed(o)' = Missed(o)
    BY <1>4 DEF Post, Took, Missed, SemUsers
  <2>2. CASE o = semOf[p]
    <3>1. Trying(o)' = Trying(o) \cup {p} /\ p \notin Trying(o)
      BY <1>4, <2>2 DEF Post, Trying, SemUsers
    <3>2. Cardinality(Trying(o)') = Cardinality(Trying(o)) + 1
      BY <3>1, Counted, OneMore
    <3>3. val'[o] = val[o] + 1 /\ val[o] \in Nat
      BY <2>0, <2>2
    <3> QED BY <2>1, <3>2, <3>3, Counted DEF Balance
  <2>3. CASE o # semOf[p]
    <3>1. Trying(o)' = Trying(o)
      BY <1>4, <2>3 DEF Post, Trying, SemUsers
    <3>2. val'[o] = val[o]
      BY <2>0, <2>3
    <3> QED BY <2>1, <3>1, <3>2 DEF Balance
  <2> QED BY <2>2, <2>3
<1>5. ASSUME NEW p \in SemProc, TrySecond(p) PROVE Balance'
  <2>0. semOf[p] \in SemProc
    BY <1>5 DEF TrySecond
  <2> SUFFICES ASSUME NEW o \in SemProc
               PROVE  /\ val'[o] + Cardinality(Took(o)') = Cardinality(Trying(o)') + Cardinality(Missed(o)')
                      /\ val'[o] <= Cardinality(Trying(o)')
    BY DEF Balance
  <2>1. Took(o)' = Took(o)
    BY <1>5 DEF TrySecond, Took, SemUsers
  <2>2. CASE o = semOf[p]
    <3>1. Trying(o)' = Trying(o) \ {p} /\ p \in Trying(o)
      BY <1>5, <2>2 DEF TrySecond, Trying, SemUsers
    <3>2. Cardinality(Trying(o)') = Cardinality(Trying(o)) - 1 /\ Cardinality(Trying(o)') \in Nat
      BY <3>1, Counted, OneLess, FS_RemoveElement, FS_CardinalityType
    <3>3. CASE val[o] > 0 /\ val' = [val EXCEPT ![semOf[p]] = @ - 1] /\ UNCHANGED missed
      <4>1. Missed(o)' = Missed(o)
        BY <1>5, <3>3 DEF TrySecond, Missed, SemUsers
      <4>2. val'[o] = val[o] - 1 /\ val[o] \in Nat
        BY <2>0, <2>2, <3>3
      <4> QED BY <2>1, <3>2, <4>1, <4>2, Counted DEF Balance
    <3>4. CASE val[o] = 0 /\ missed' = missed \cup {p} /\ UNCHANGED val
      <4>1. Missed(o)' = Missed(o) \cup {p} /\ p \notin Missed(o)
        BY <1>5, <2>2, <3>4 DEF TrySecond, Missed, SemUsers
      <4>2. Cardinality(Missed(o)') = Cardinality(Missed(o)) + 1
        BY <4>1, Counted, OneMore
      <4> QED BY <2>1, <3>2, <3>4, <4>2, Counted DEF Balance
    <3> QED BY <1>5, <2>2, <3>3, <3>4 DEF TrySecond
  <2>3. CASE o # semOf[p]
    <3>1. Trying(o)' = Trying(o) /\ Missed(o)' = Missed(o)
      BY <1>5, <2>3 DEF TrySecond, Trying, Missed, SemUsers
    <3>2. val'[o] = val[o]
      BY <1>5, <2>0, <2>3 DEF TrySecond
    <3> QED BY <2>1, <3>1, <3>2 DEF Balance
  <2> QED BY <2>2, <2>3
<1>6. CASE UNCHANGED semVars
  BY <1>6 DEF semVars, Balance, Took, Missed, Trying, SemUsers
<1> QED BY <1>1, <1>2, <1>3, <1>4, <1>5, <1>6 DEF SemNext, SemRun

(* No more processes miss with their second try than took a unit with their  *)
(* first, and no units are there but those of processes about to try again.  *)
THEOREM UnitsAreMatched == SemSpec => []UnitsMatch
<1>1. SemTypes /\ Balance => UnitsMatch
  <2> SUFFICES ASSUME SemTypes, Balance, NEW o \in SemProc
               PROVE  /\ Cardinality(Missed(o)) <= Cardinality(Took(o))
                      /\ val[o] <= Cardinality(Trying(o))
    BY DEF UnitsMatch, Missed, Took, Trying, SemUsers
  <2>1. val[o] \in Nat
    BY DEF SemTypes
  <2> QED BY <2>1, Counted DEF Balance
<1> QED BY <1>1, SemInitInv, SemTypesStep, BalanceStep, PTL DEF SemSpec
-----------------------------------------------------------------------------
(* SysVShm: a process that is past shmget has a segment, an attached one is  *)
(* in its loop or about to detach, and a segment's creator is past shmget.   *)
SysVTypes ==
    /\ key \in Proc \cup {None} /\ removed \subseteq Proc /\ freed \subseteq removed
    /\ sNumber \in [Proc -> Nat] /\ sI \in [Proc -> 0..MaxTestCount]
    /\ shmId \in [Proc -> Proc \cup {None}] /\ sPrinted \in [Proc -> Int]
    /\ sPc \in [Proc -> {"shmget", "open", "shmat", "loop", "shmdt", "rmid",
                         "done", "failed", "killed"}]
    /\ \A p \in Proc : sPc[p] \in {"shmget", "open"} => shmId[p] = None
    /\ \A p \in Proc : sPc[p] \in {"shmat", "loop", "shmdt", "rmid", "done"} => shmId[p] \in Proc
    /\ \A p \in Proc : sPc[p] \in {"shmget", "open", "shmat"} => sI[p] = 0
    /\ \A p \in Proc : sPc[p] = "shmget" => key # p /\ p \notin removed /\ \A q \in Proc : shmId[q] # p
    /\ attached = {p \in Proc : sPc[p] \in {"loop", "shmdt"}}

(* A segment is freed when it is removed and nobody has it attached, and not *)
(* before; whoever has come to its end has removed its segment.              *)
SysVLife ==
    /\ key \notin removed
    /\ \A p \in attached : shmId[p] \notin freed
    /\ \A o \in removed \ freed : SysV!Users(o) \cap attached # {}
    /\ \A p \in Proc : sPc[p] = "done" => shmId[p] \in removed

(* When nobody can add to a segment any more, one of its users has printed   *)
(* the int as it is.                                                         *)
SysVPrinted == \A o \in Proc :
    SysV!Users(o) # {} /\ (\A p \in SysV!Users(o) : sPc[p] \in {"shmdt", "rmid", "done"})
       => \E p \in SysV!Users(o) : sPrinted[p] = sNumber[o]

SysVCount == \A o \in Proc : sNumber[o] = Cardinality(SysV!Additions(o))

LEMMA SysVInitInv == SysV!Init => SysVTypes /\ SysVLife /\ SysVPrinted /\ SysVCount
<1> SUFFICES ASSUME SysV!Init PROVE SysVTypes /\ SysVLife /\ SysVPrinted /\ SysVCount
  OBVIOUS
<1> USE ConstAssumption DEF SysV!Init
<1>1. SysVTypes
  BY DEF SysVTypes
<1>2. \A o \in Proc : SysV!Users(o) = {}
  BY DEF SysV!Users
<1>3. SysVLife /\ SysVPrinted
  BY <1>2 DEF SysVLife, SysVPrinted
<1>4. ASSUME NEW o \in Proc PROVE SysV!Additions(o) = {}
  BY <1>2 DEF SysV!Additions
<1>5. SysVCount
  BY <1>4, FS_EmptySet DEF SysVCount
<1> QED BY <1>1, <1>3, <1>5

LEMMA SysVTypesStep == SysVTypes /\ [SysV!Next]_sysvVars => SysVTypes'
<1> SUFFICES ASSUME SysVTypes, [SysV!Next]_sysvVars PROVE SysVTypes'
  OBVIOUS
<1> USE ConstAssumption DEF SysVTypes, SysV!Goto
<1>1. ASSUME NEW p \in Proc, SysV!ShmgetExcl(p) PROVE SysVTypes'
  BY <1>1 DEF SysV!ShmgetExcl
<1>2. ASSUME NEW p \in Proc, SysV!ShmgetOpen(p) PROVE SysVTypes'
  BY <1>2 DEF SysV!ShmgetOpen
<1>3. ASSUME NEW p \in Proc, SysV!Shmat(p) PROVE SysVTypes'
  BY <1>3 DEF SysV!Shmat
<1>4. ASSUME NEW p \in Proc, SysV!Add(p) PROVE SysVTypes'
  BY <1>4 DEF SysV!Add
<1>5. ASSUME NEW p \in Proc, SysV!Finish(p) PROVE SysVTypes'
  BY <1>5 DEF SysV!Finish
<1>6. ASSUME NEW p \in Proc, SysV!Shmdt(p) PROVE SysVTypes'
  BY <1>6 DEF SysV!Shmdt, SysV!Detach
<1>7. ASSUME NEW p \in Proc, SysV!ShmctlRmid(p) PROVE SysVTypes'
  BY <1>7 DEF SysV!ShmctlRmid, SysV!Remove
<1>8. ASSUME NEW p \in Proc, SysV!Kill(p) PROVE SysVTypes'
  BY <1>8 DEF SysV!Kill, SysV!Detach, SysV!Ended
<1>9. CASE UNCHANGED sysvVars
  BY <1>9 DEF sysvVars
<1> QED BY <1>1, <1>2, <1>3, <1>4, <1>5, <1>6, <1>7, <1>8, <1>9 DEF SysV!Next, SysV!Run

LEMMA SysVLifeStep == SysVTypes /\ SysVLife /\ [SysV!Next]_sysvVars => SysVLife'
<1> SUFFICES ASSUME SysVTypes, SysVLife, [SysV!Next]_sysvVars PROVE SysVLife'
  OBVIOUS
<1> USE ConstAssumption DEF SysVTypes, SysVLife, SysV!Goto, SysV!Users
<1>1. ASSUME NEW p \in Proc, SysV!ShmgetExcl(p) PROVE SysVLife'
  BY <1>1 DEF SysV!ShmgetExcl
<1>2. ASSUME NEW p \in Proc, SysV!ShmgetOpen(p) PROVE SysVLife'
  BY <1>2 DEF SysV!ShmgetOpen
<1>3. ASSUME NEW p \in Proc, SysV!Shmat(p) PROVE SysVLife'
  BY <1>3 DEF SysV!Shmat
<1>4. ASSUME NEW p \in Proc, SysV!Add(p) PROVE SysVLife'
  BY <1>4 DEF SysV!Add
<1>5. ASSUME NEW p \in Proc, SysV!Finish(p) PROVE SysVLife'
  BY <1>5 DEF SysV!Finish
<1>6. ASSUME NEW p \in Proc, SysV!Shmdt(p) PROVE SysVLife'
  BY <1>6 DEF SysV!Shmdt, SysV!Detach
<1>7. ASSUME NEW p \in Proc, SysV!ShmctlRmid(p) PROVE SysVLife'
  BY <1>7 DEF SysV!ShmctlRmid, SysV!Remove
<1>8. ASSUME NEW p \in Proc, SysV!Kill(p) PROVE SysVLife'
  BY <1>8 DEF SysV!Kill, SysV!Detach, SysV!Ended
<1>9. CASE UNCHANGED sysvVars
  BY <1>9 DEF sysvVars
<1> QED BY <1>1, <1>2, <1>3, <1>4, <1>5, <1>6, <1>7, <1>8, <1>9 DEF SysV!Next, SysV!Run

LEMMA SysVPrintedStep == SysVTypes /\ SysVPrinted /\ [SysV!Next]_sysvVars => SysVPrinted'
<1> SUFFICES ASSUME SysVTypes, SysVPrinted, [SysV!Next]_sysvVars PROVE SysVPrinted'
  OBVIOUS
<1> USE ConstAssumption DEF SysVTypes, SysVPrinted, SysV!Goto, SysV!Users
<1>1. ASSUME NEW p \in Proc, SysV!ShmgetExcl(p) PROVE SysVPrinted'
  BY <1>1 DEF SysV!ShmgetExcl
<1>2. ASSUME NEW p \in Proc, SysV!ShmgetOpen(p) PROVE SysVPrinted'
  BY <1>2 DEF SysV!ShmgetOpen
<1>3. ASSUME NEW p \in Proc, SysV!Shmat(p) PROVE SysVPrinted'
  BY <1>3 DEF SysV!Shmat
<1>4. ASSUME NEW p \in Proc, SysV!Add(p) PROVE SysVPrinted'
  BY <1>4 DEF SysV!Add
<1>5. ASSUME NEW p \in Proc, SysV!Finish(p) PROVE SysVPrinted'
  BY <1>5 DEF SysV!Finish
<1>6. ASSUME NEW p \in Proc, SysV!Shmdt(p) PROVE SysVPrinted'
  BY <1>6 DEF SysV!Shmdt, SysV!Detach
<1>7. ASSUME NEW p \in Proc, SysV!ShmctlRmid(p) PROVE SysVPrinted'
  BY <1>7 DEF SysV!ShmctlRmid, SysV!Remove
<1>8. ASSUME NEW p \in Proc, SysV!Kill(p) PROVE SysVPrinted'
  BY <1>8 DEF SysV!Kill, SysV!Detach, SysV!Ended
<1>9. CASE UNCHANGED sysvVars
  BY <1>9 DEF sysvVars
<1> QED BY <1>1, <1>2, <1>3, <1>4, <1>5, <1>6, <1>7, <1>8, <1>9 DEF SysV!Next, SysV!Run

(* The additions are finitely many.                                          *)
LEMMA SysVFinite == ASSUME NEW o PROVE IsFiniteSet(SysV!Additions(o))
<1>1. IsFiniteSet(Proc) /\ IsFiniteSet(1..MaxTestCount)
  BY ConstAssumption, FS_Interval
<1>2. IsFiniteSet(Proc \X (1..MaxTestCount))
  BY <1>1, FS_Product
<1>3. SysV!Additions(o) \subseteq Proc \X (1..MaxTestCount)
  BY DEF SysV!Additions, SysV!Users
<1> QED BY <1>2, <1>3, FS_Subset

(* Add makes one addition to one segment; the other steps make none, also    *)
(* those that give a segment a new user, which has not added yet.            *)
LEMMA SysVCountStep == SysVTypes /\ SysVCount /\ [SysV!Next]_sysvVars => SysVCount'
<1> SUFFICES ASSUME SysVTypes, SysVCount, [SysV!Next]_sysvVars PROVE SysVCount'
  OBVIOUS
<1> USE ConstAssumption DEF SysVTypes, SysV!Goto
<1>1. ASSUME UNCHANGED sNumber, \A o \in Proc : SysV!Additions(o)' = SysV!Additions(o)
      PROVE  SysVCount'
  BY <1>1 DEF SysVCount
<1>2. ASSUME NEW p \in Proc, SysV!ShmgetExcl(p) \/ SysV!ShmgetOpen(p) PROVE SysVCount'
  <2>1. /\ UNCHANGED <<sNumber, sI>> /\ sI[p] = 0
        /\ \A q \in Proc \ {p} : shmId'[q] = shmId[q]
    BY <1>2 DEF SysV!ShmgetExcl, SysV!ShmgetOpen
  <2>2. ASSUME NEW o \in Proc PROVE SysV!Additions(o)' = SysV!Additions(o)
    BY <2>1 DEF SysV!Additions, SysV!Users
  <2> QED BY <1>1, <2>1, <2>2
<1>3. ASSUME NEW p \in Proc, SysV!Shmat(p) \/ SysV!Finish(p) \/ SysV!Shmdt(p)
                             \/ SysV!ShmctlRmid(p) \/ SysV!Kill(p)
      PROVE  SysVCount'
  <2>1. UNCHANGED <<sNumber, sI, shmId>>
    BY <1>3 DEF SysV!Shmat, SysV!Finish, SysV!Shmdt, SysV!ShmctlRmid, SysV!Remove, SysV!Kill
  <2>2. ASSUME NEW o \in Proc PROVE SysV!Additions(o)' = SysV!Additions(o)
    BY <2>1 DEF SysV!Additions, SysV!Users
  <2> QED BY <1>1, <2>1, <2>2
<1>4. ASSUME NEW p \in Proc, SysV!Add(p) PROVE SysVCount'
  <2> SUFFICES ASSUME NEW o \in Proc PROVE sNumber'[o] = Cardinality(SysV!Additions(o)')
    BY DEF SysVCount
  <2>0. /\ shmId[p] \in Proc /\ shmId' = shmId /\ sI[p] < MaxTestCount
        /\ sI' = [sI EXCEPT ![p] = @ + 1]
        /\ sNumber' = [sNumber EXCEPT ![shmId[p]] = @ + 1]
    BY <1>4 DEF SysV!Add
  <2>1. CASE o = shmId[p]
    <3>1. /\ SysV!Additions(o)' = SysV!Additions(o) \cup {<<p, sI[p] + 1>>}
          /\ <<p, sI[p] + 1>> \notin SysV!Additions(o)
      BY <2>0, <2>1 DEF SysV!Additions, SysV!Users
    <3>2. Cardinality(SysV!Additions(o)') = Cardinality(SysV!Additions(o)) + 1
      BY <3>1, SysVFinite, OneMore
    <3> QED BY <2>0, <2>1, <3>2 DEF SysVCount
  <2>2. CASE o # shmId[p]
    <3>1. SysV!Additions(o)' = SysV!Additions(o)
      BY <2>0, <2>2 DEF SysV!Additions, SysV!Users
    <3> QED BY <2>0, <2>2, <3>1 DEF SysVCount
  <2> QED BY <2>1, <2>2
<1>5. CASE UNCHANGED sysvVars
  BY <1>1, <1>5 DEF sysvVars, SysV!Additions, SysV!Users
<1> QED BY <1>2, <1>3, <1>4, <1>5 DEF SysV!Next, SysV!Run

(* A segment one of whose users came to its end is freed when all have ended *)
(* (main.c:84-86), and its int is the number of additions (main.c:63-80),    *)
(* for any number of processes that remove it under each other's feet or are *)
(* killed.                                                                   *)
THEOREM SegmentsLive == SysV!Spec => []SysVLifetime
<1>1. SysVTypes /\ SysVLife /\ SysVPrinted /\ SysVCount => SysVLifetime
  <2> SUFFICES ASSUME SysVTypes, SysVLife, SysVPrinted, SysVCount PROVE SysVLifetime
    OBVIOUS
  <2>1. SysV!NoLeak
    BY DEF SysV!NoLeak, SysVTypes, SysVLife, SysV!Users, SysV!Ended
  <2>2. SysV!CountExact
    <3>1. ASSUME NEW o \in Proc, SysV!Users(o) # {}, \A p \in SysV!Users(o) : sPc[p] = "done"
          PROVE  \E p \in SysV!Users(o) : sPrinted[p] = sNumber[o]
      BY <3>1 DEF SysVPrinted
    <3>2. ASSUME NEW o \in Proc PROVE sNumber[o] = SysV!Cardinality(SysV!Additions(o))
      <4>1. SysV!Cardinality(SysV!Additions(o)) = Cardinality(SysV!Additions(o))
        BY Zenon DEF Cardinality, SysV!Cardinality
      <4> QED BY <4>1 DEF SysVCount
    <3> QED BY <3>1, <3>2 DEF SysV!CountExact
  <2> QED BY <2>1, <2>2 DEF SysVLifetime
<1> QED BY <1>1, SysVInitInv, SysVTypesStep, SysVLifeStep, SysVPrintedStep, SysVCountStep, PTL
        DEF SysV!Spec, SysV!vars, sysvVars
-----------------------------------------------------------------------------
(* PosixShm.  An object exists when its creator has mapped it, and is ready  *)
(* when that one is past its set-up; only with a semaphore does a process    *)
(* get to the places around the critical section.                            *)
ShmTypes ==
    /\ withSem \in BOOLEAN /\ name \in Proc \cup {None}
    /\ ready \subseteq Proc /\ raced \subseteq Proc
    /\ number \in [Proc -> Nat] /\ semval \in [Proc -> Nat] /\ reg \in [Proc -> Nat]
    /\ map \in [Proc -> Proc \cup {None}] /\ i \in [Proc -> 0..MaxTestCount]
    /\ printed \in [Proc -> Int]
    /\ pc \in [Proc -> {"create", "open", "failed", "ftruncate", "setup", "loop", "sigbus",
                        "blocked", "lost", "load", "store", "post", "unlink", "done"}]
    /\ \A p \in Proc : map[p] = None <=> pc[p] \in {"create", "open", "failed"}
    /\ \A p \in Proc : pc[p] \in {"create", "open", "failed", "ftruncate", "setup"} => i[p] = 0
    /\ \A p \in Proc : pc[p] \in {"load", "store", "post"} => withSem /\ i[p] < MaxTestCount
    /\ \A p \in Proc : pc[p] \in {"ftruncate", "setup"} <=> map[p] = p /\ p \notin ready

(* Nothing has happened to an object that was not created yet, nor to one    *)
(* that is not set up and that nobody but its creator has mapped.            *)
Quiet == \A o \in Proc :
    /\ map[o] # o => name # o /\ o \notin ready /\ o \notin raced /\ \A p \in Proc : map[p] # o
    /\ o \notin ready /\ o \notin raced =>
          number[o] = 0 /\ semval[o] = 0 /\ \A p \in Proc : map[p] = o => p = o

(* In an object nobody opened too early one process at a time is between     *)
(* sem_wait and sem_post, and what it has loaded is still there.             *)
Holds(p, o) == map[p] = o /\ pc[p] \in {"load", "store", "post"}
Mutex == \A o \in Proc \ raced : \A p \in Proc :
    /\ semval[o] \in {0, 1}
    /\ Holds(p, o) => semval[o] = 0 /\ \A q \in Proc : Holds(q, o) => p = q
    /\ Holds(p, o) /\ pc[p] = "store" => reg[p] = number[o]

(* The int is at least each user's share; the creator's, with atomic         *)
(* additions, whoever came early.                                            *)
Shares ==
    /\ \A p \in Proc : map[p] \in Proc \ raced => number[map[p]] >= Turns(p)
    /\ ~withSem => \A p \in Proc : map[p] = p => number[p] >= i[p]
    /\ \A p \in Proc : printed[p] # -1 => map[p] # None
    /\ \A p \in Proc : printed[p] # -1 /\ (map[p] \notin raced \/ (map[p] = p /\ ~withSem))
                       => printed[p] >= MaxTestCount

AddedUp == \A o \in Proc \ raced : number[o] = Cardinality(Additions(o))

LEMMA ShmInitInv == Init => ShmTypes /\ Quiet /\ Mutex /\ Shares /\ AddedUp
<1> SUFFICES ASSUME Init PROVE ShmTypes /\ Quiet /\ Mutex /\ Shares /\ AddedUp
  OBVIOUS
<1> USE ConstAssumption DEF Init
<1>1. ShmTypes
  BY DEF ShmTypes
<1>2. Quiet /\ Mutex /\ Shares
  BY DEF Quiet, Mutex, Holds, Shares, Turns
<1>3. ASSUME NEW o \in Proc PROVE Additions(o) = {}
  BY DEF Additions, Users
<1>4. AddedUp
  BY <1>3, FS_EmptySet DEF AddedUp
<1> QED BY <1>1, <1>2, <1>4

(* Every action keeps the types.                                             *)
LEMMA ShmTypesStep == ShmTypes /\ Quiet /\ [Next]_vars => ShmTypes'
<1> SUFFICES ASSUME ShmTypes, Quiet, [Next]_vars PROVE ShmTypes'
  OBVIOUS
<1> USE ConstAssumption DEF ShmTypes, Quiet, Goto, Users
<1>1. ASSUME NEW p \in Proc, Create(p) PROVE ShmTypes'
  BY <1>1 DEF Create
<1>2. ASSUME NEW p \in Proc, Open(p) PROVE ShmTypes'
  BY <1>2 DEF Open
<1>3. ASSUME NEW p \in Proc, Ftruncate(p) PROVE ShmTypes'
  BY <1>3 DEF Ftruncate
<1>4. ASSUME NEW p \in Proc, SetUp(p) PROVE ShmTypes'
  BY <1>4 DEF SetUp, At
<1>5. ASSUME NEW p \in Proc, Sigbus(p) PROVE ShmTypes'
  BY <1>5 DEF Sigbus
<1>6. ASSUME NEW p \in Proc, AtomicAdd(p) PROVE ShmTypes'
  BY <1>6 DEF AtomicAdd, InLoop
<1>7. ASSUME NEW p \in Proc, SemWait(p) PROVE ShmTypes'
  BY <1>7 DEF SemWait, InLoop
<1>8. ASSUME NEW p \in Proc, Load(p) PROVE ShmTypes'
  BY <1>8 DEF Load
<1>9. ASSUME NEW p \in Proc, StoreNumber(p) PROVE ShmTypes'
  BY <1>9 DEF StoreNumber
<1>10. ASSUME NEW p \in Proc, SemPost(p) PROVE ShmTypes'
  BY <1>10 DEF SemPost, At
<1>11. ASSUME NEW p \in Proc, Finish(p) PROVE ShmTypes'
  BY <1>11 DEF Finish
<1>12. ASSUME NEW p \in Proc, Unlink(p) PROVE ShmTypes'
  BY <1>12 DEF Unlink
<1>13. CASE UNCHANGED vars
  BY <1>13 DEF vars
<1> QED BY <1>1, <1>2, <1>3, <1>4, <1>5, <1>6, <1>7, <1>8, <1>9, <1>10, <1>11, <1>12, <1>13
        DEF Next, Run

(* Whoever opens an object before it is ready is remembered in raced.        *)
LEMMA QuietStep == ShmTypes /\ Quiet /\ [Next]_vars => Quiet'
<1> SUFFICES ASSUME ShmTypes, Quiet, [Next]_vars PROVE Quiet'
  OBVIOUS
<1> USE ConstAssumption DEF ShmTypes, Quiet, Goto, Users
<1>1. ASSUME NEW p \in Proc, Create(p) PROVE Quiet'
  BY <1>1 DEF Create
<1>2. ASSUME NEW p \in Proc, Open(p) PROVE Quiet'
  BY <1>2 DEF Open
<1>3. ASSUME NEW p \in Proc, Ftruncate(p) PROVE Quiet'
  BY <1>3 DEF Ftruncate
<1>4. ASSUME NEW p \in Proc, SetUp(p) PROVE Quiet'
  BY <1>4 DEF SetUp, At
<1>5. ASSUME NEW p \in Proc, Sigbus(p) PROVE Quiet'
  BY <1>5 DEF Sigbus
<1>6. ASSUME NEW p \in Proc, AtomicAdd(p) PROVE Quiet'
  BY <1>6 DEF AtomicAdd, InLoop
<1>7. ASSUME NEW p \in Proc, SemWait(p) PROVE Quiet'
  BY <1>7 DEF SemWait, InLoop
<1>8. ASSUME NEW p \in Proc, Load(p) PROVE Quiet'
  BY <1>8 DEF Load
<1>9. ASSUME NEW p \in Proc, StoreNumber(p) PROVE Quiet'
  BY <1>9 DEF StoreNumber
<1>10. ASSUME NEW p \in Proc, SemPost(p) PROVE Quiet'
  BY <1>10 DEF SemPost, At
<1>11. ASSUME NEW p \in Proc, Finish(p) PROVE Quiet'
  BY <1>11 DEF Finish
<1>12. ASSUME NEW p \in Proc, Unlink(p) PROVE Quiet'
  BY <1>12 DEF Unlink
<1>13. CASE UNCHANGED vars
  BY <1>13 DEF vars
<1> QED BY <1>1, <1>2, <1>3, <1>4, <1>5, <1>6, <1>7, <1>8, <1>9, <1>10, <1>11, <1>12, <1>13
        DEF Next, Run

(* The semaphore is 1 or somebody holds it.                                  *)
LEMMA MutexStep == ShmTypes /\ Quiet /\ Mutex /\ [Next]_vars => Mutex'
<1> SUFFICES ASSUME ShmTypes, Quiet, Mutex, [Next]_vars PROVE Mutex'
  OBVIOUS
<1> USE ConstAssumption DEF ShmTypes, Quiet, Mutex, Holds, Goto, Users
<1>1. ASSUME NEW p \in Proc, Create(p) PROVE Mutex'
  BY <1>1 DEF Create
<1>2. ASSUME NEW p \in Proc, Open(p) PROVE Mutex'
  BY <1>2 DEF Open
<1>3. ASSUME NEW p \in Proc, Ftruncate(p) PROVE Mutex'
  BY <1>3 DEF Ftruncate
<1>4. ASSUME NEW p \in Proc, SetUp(p) PROVE Mutex'
  BY <1>4 DEF SetUp, At
<1>5. ASSUME NEW p \in Proc, Sigbus(p) PROVE Mutex'
  BY <1>5 DEF Sigbus
<1>6. ASSUME NEW p \in Proc, AtomicAdd(p) PROVE Mutex'
  BY <1>6 DEF AtomicAdd, InLoop
<1>7. ASSUME NEW p \in Proc, SemWait(p) PROVE Mutex'
  BY <1>7 DEF SemWait, InLoop
<1>8. ASSUME NEW p \in Proc, Load(p) PROVE Mutex'
  BY <1>8 DEF Load
<1>9. ASSUME NEW p \in Proc, StoreNumber(p) PROVE Mutex'
  BY <1>9 DEF StoreNumber
<1>10. ASSUME NEW p \in Proc, SemPost(p) PROVE Mutex'
  BY <1>10 DEF SemPost, At
<1>11. ASSUME NEW p \in Proc, Finish(p) PROVE Mutex'
  BY <1>11 DEF Finish
<1>12. ASSUME NEW p \in Proc, Unlink(p) PROVE Mutex'
  BY <1>12 DEF Unlink
<1>13. CASE UNCHANGED vars
  BY <1>13 DEF vars
<1> QED BY <1>1, <1>2, <1>3, <1>4, <1>5, <1>6, <1>7, <1>8, <1>9, <1>10, <1>11, <1>12, <1>13
        DEF Next, Run

(* The int grows with every turn.                                            *)
LEMMA SharesStep == ShmTypes /\ Quiet /\ Mutex /\ Shares /\ [Next]_vars => Shares'
<1> SUFFICES ASSUME ShmTypes, Quiet, Mutex, Shares, [Next]_vars PROVE Shares'
  OBVIOUS
<1> USE ConstAssumption DEF ShmTypes, Quiet, Mutex, Holds, Shares, Turns, Goto, Users
<1>1. ASSUME NEW p \in Proc, Create(p) PROVE Shares'
  BY <1>1 DEF Create
<1>2. ASSUME NEW p \in Proc, Open(p) PROVE Shares'
  BY <1>2 DEF Open
<1>3. ASSUME NEW p \in Proc, Ftruncate(p) PROVE Shares'
  BY <1>3 DEF Ftruncate
<1>4. ASSUME NEW p \in Proc, SetUp(p) PROVE Shares'
  BY <1>4 DEF SetUp, At
<1>5. ASSUME NEW p \in Proc, Sigbus(p) PROVE Shares'
  BY <1>5 DEF Sigbus
<1>6. ASSUME NEW p \in Proc, AtomicAdd(p) PROVE Shares'
  BY <1>6 DEF AtomicAdd, InLoop
<1>7. ASSUME NEW p \in Proc, SemWait(p) PROVE Shares'
  BY <1>7 DEF SemWait, InLoop
<1>8. ASSUME NEW p \in Proc, Load(p) PROVE Shares'
  BY <1>8 DEF Load
<1>9. ASSUME NEW p \in Proc, StoreNumber(p) PROVE Shares'
  BY <1>9 DEF StoreNumber
<1>10. ASSUME NEW p \in Proc, SemPost(p) PROVE Shares'
  BY <1>10 DEF SemPost, At
<1>11. ASSUME NEW p \in Proc, Finish(p) PROVE Shares'
  BY <1>11 DEF Finish
<1>12. ASSUME NEW p \in Proc, Unlink(p) PROVE Shares'
  BY <1>12 DEF Unlink
<1>13. CASE UNCHANGED vars
  BY <1>13 DEF vars
<1> QED BY <1>1, <1>2, <1>3, <1>4, <1>5, <1>6, <1>7, <1>8, <1>9, <1>10, <1>11, <1>12, <1>13
        DEF Next, Run

(* The additions are finitely many.                                          *)
LEMMA ShmFinite == ASSUME NEW o PROVE IsFiniteSet(Additions(o))
<1>1. IsFiniteSet(Proc) /\ IsFiniteSet(1..MaxTestCount)
  BY ConstAssumption, FS_Interval
<1>2. IsFiniteSet(Proc \X (1..MaxTestCount))
  BY <1>1, FS_Product
<1>3. Additions(o) \subseteq Proc \X (1..MaxTestCount)
  BY DEF Additions, Users
<1> QED BY <1>2, <1>3, FS_Subset

(* A step that leaves the turns alone, and the ints of the objects that are  *)
(* still not opened too early.                                               *)
LEMMA NothingAdded ==
    ASSUME AddedUp, raced \subseteq raced', UNCHANGED <<number, map>>,
           \A p \in Proc : Turns(p)' = Turns(p)
    PROVE  AddedUp'
<1>1. ASSUME NEW o \in Proc PROVE Additions(o)' = Additions(o)
  BY DEF Additions, Users
<1> QED BY <1>1 DEF AddedUp

(* One more turn of p, and one more in the int it adds to.                   *)
LEMMA OneAdded ==
    ASSUME ShmTypes, AddedUp, NEW p \in Proc, map[p] \in Proc, UNCHANGED <<raced, map>>,
           \A q \in Proc \ {p} : Turns(q)' = Turns(q),
           Turns(p)' = Turns(p) + 1, Turns(p) \in 0..(MaxTestCount - 1),
           \A o \in Proc \ {map[p]} : number'[o] = number[o],
           map[p] \notin raced => number'[map[p]] = number[map[p]] + 1
    PROVE  AddedUp'
<1> USE ConstAssumption
<1>1. ASSUME NEW o \in Proc \ raced, o # map[p] PROVE number'[o] = Cardinality(Additions(o)')
  <2>1. Additions(o)' = Additions(o)
    BY <1>1 DEF Additions, Users
  <2> QED BY <1>1, <2>1 DEF AddedUp
<1>2. ASSUME map[p] \notin raced
      PROVE  number'[map[p]] = Cardinality(Additions(map[p])')
  <2>1. /\ Additions(map[p])' = Additions(map[p]) \cup {<<p, Turns(p) + 1>>}
        /\ <<p, Turns(p) + 1>> \notin Additions(map[p])
    BY DEF Additions, Users
  <2>2. Cardinality(Additions(map[p])') = Cardinality(Additions(map[p])) + 1
    BY <2>1, ShmFinite, OneMore
  <2> QED BY <1>2, <2>2 DEF AddedUp
<1>3. raced' = raced
  OBVIOUS
<1> QED BY <1>1, <1>2, <1>3 DEF AddedUp

LEMMA AddedUpStep == ShmTypes /\ Quiet /\ Mutex /\ AddedUp /\ [Next]_vars => AddedUp'
<1> SUFFICES ASSUME ShmTypes, Quiet, Mutex, AddedUp, [Next]_vars PROVE AddedUp'
  OBVIOUS
<1> USE ConstAssumption DEF ShmTypes, Goto
<1>1. ASSUME NEW p \in Proc, Create(p) PROVE AddedUp'
  <2>1. ASSUME NEW o \in Proc PROVE Additions(o)' = Additions(o)
    <3>1. \A q \in Proc : Turns(q)' = Turns(q)
      BY <1>1 DEF Create, Turns
    <3>2. Turns(p) = 0 /\ \A q \in Proc \ {p} : map'[q] = map[q]
      BY <1>1 DEF Create, Turns
    <3> QED BY <3>1, <3>2 DEF Additions, Users
  <2> QED BY <1>1, <2>1 DEF Create, AddedUp
<1>2. ASSUME NEW p \in Proc, Open(p) PROVE AddedUp'
  <2>1. ASSUME NEW o \in Proc PROVE Additions(o)' = Additions(o)
    <3>1. \A q \in Proc : Turns(q)' = Turns(q)
      BY <1>2 DEF Open, Turns
    <3>2. Turns(p) = 0 /\ \A q \in Proc \ {p} : map'[q] = map[q]
      BY <1>2 DEF Open, Turns
    <3> QED BY <3>1, <3>2 DEF Additions, Users
  <2> QED BY <1>2, <2>1 DEF Open, AddedUp
<1>3. ASSUME NEW p \in Proc, Ftruncate(p) \/ Sigbus(p) \/ SemWait(p) \/ Load(p)
                             \/ Finish(p) \/ Unlink(p)
      PROVE  AddedUp'
  <2>1. \A q \in Proc : Turns(q)' = Turns(q)
    BY <1>3 DEF Ftruncate, Sigbus, SemWait, Load, Finish, Unlink, Turns
  <2>2. UNCHANGED <<number, map, raced>>
    BY <1>3 DEF Ftruncate, Sigbus, SemWait, Load, Finish, Unlink
  <2> QED BY <2>1, <2>2, NothingAdded
<1>4. ASSUME NEW p \in Proc, SetUp(p) PROVE AddedUp'
  <2>1. \A q \in Proc : Turns(q)' = Turns(q)
    BY <1>4 DEF SetUp, At, Users, Turns
  <2>2. ASSUME NEW o \in Proc PROVE Additions(o)' = Additions(o)
    BY <1>4, <2>1 DEF SetUp, Additions, Users
  <2>3. \A o \in Proc \ raced : number'[o] = number[o]
    BY <1>4 DEF SetUp, Quiet
  <2> QED BY <1>4, <2>2, <2>3 DEF SetUp, AddedUp
<1>5. ASSUME NEW p \in Proc, AtomicAdd(p) PROVE AddedUp'
  <2>1. map[p] \in Proc /\ UNCHANGED <<raced, map>>
    BY <1>5 DEF AtomicAdd
  <2>2. /\ \A q \in Proc \ {p} : Turns(q)' = Turns(q)
        /\ Turns(p)' = Turns(p) + 1 /\ Turns(p) \in 0..(MaxTestCount - 1)
    BY <1>5 DEF AtomicAdd, InLoop, Turns
  <2>3. /\ \A o \in Proc \ {map[p]} : number'[o] = number[o]
        /\ number'[map[p]] = number[map[p]] + 1
    BY <1>5, <2>1 DEF AtomicAdd
  <2> QED BY <2>1, <2>2, <2>3, OneAdded
<1>6. ASSUME NEW p \in Proc, StoreNumber(p) PROVE AddedUp'
  <2>1. map[p] \in Proc /\ UNCHANGED <<raced, map>>
    BY <1>6 DEF StoreNumber
  <2>2. /\ \A q \in Proc \ {p} : Turns(q)' = Turns(q)
        /\ Turns(p)' = Turns(p) + 1 /\ Turns(p) \in 0..(MaxTestCount - 1)
    BY <1>6 DEF StoreNumber, Turns
  <2>3. /\ \A o \in Proc \ {map[p]} : number'[o] = number[o]
        /\ map[p] \notin raced => number'[map[p]] = number[map[p]] + 1
    BY <1>6, <2>1 DEF StoreNumber, Mutex, Holds
  <2> QED BY <2>1, <2>2, <2>3, OneAdded
<1>7. ASSUME NEW p \in Proc, SemPost(p) PROVE AddedUp'
  <2>1. \A q \in Proc : Turns(q)' = Turns(q)
    BY <1>7 DEF SemPost, At, Users, Turns
  <2> QED BY <1>7, <2>1, NothingAdded DEF SemPost
<1>8. CASE UNCHANGED vars
  <2>1. \A q \in Proc : Turns(q)' = Turns(q)
    BY <1>8 DEF vars, Turns
  <2> QED BY <1>8, <2>1, NothingAdded DEF vars
<1> QED BY <1>1, <1>2, <1>3, <1>4, <1>5, <1>6, <1>7, <1>8 DEF Next, Run

(* No addition to an object that nobody opened too early is lost, with the   *)
(* semaphore or with atomic additions, for any number of processes.          *)
THEOREM NoAdditionLost == Spec => []NothingLost
<1>1. ShmTypes /\ Quiet /\ Mutex /\ Shares /\ AddedUp => NothingLost
  BY DEF NothingLost, AddedUp, Shares
<1> QED BY <1>1, ShmInitInv, ShmTypesStep, QuietStep, MutexStep, SharesStep, AddedUpStep, PTL
        DEF Spec
=============================================================================
