------------------------------ MODULE MCThread ------------------------------
(***************************************************************************)
(* The programs with threads.  A behaviour is the mutex program of         *)
(* LockedCounter, the rw-lock program of RwCounter or the cancellation of  *)
(* ThreadCancel; the other modules stay in their initial state.            *)
(***************************************************************************)
EXTENDS LockedCounter, ThreadCancel

VARIABLES program,                                 \* "mutex", "rwlock" or "cancel"
          rwCounter, writer, readers, rwPc, rwI, rwReg, created, rwPrinted

rwVars == <<rwCounter, writer, readers, rwPc, rwI, rwReg, created, rwPrinted>>
Rw == INSTANCE RwCounter WITH counter <- rwCounter, pc <- rwPc, i <- rwI,
                              reg <- rwReg, printed <- rwPrinted

MCInit == program \in {"mutex", "rwlock", "cancel"} /\ Init /\ Rw!Init /\ CancelInit

(* The step A of the program that runs.                                      *)
MutexStep(A) == program = "mutex" /\ A /\ UNCHANGED program /\ UNCHANGED <<rwVars, cancelVars>>
RwStep(A) == program = "rwlock" /\ A /\ UNCHANGED program /\ UNCHANGED <<vars, cancelVars>>
CancelStep(A) == program = "cancel" /\ A /\ UNCHANGED program /\ UNCHANGED <<vars, rwVars>>

MCSpec == /\ MCInit
          /\ [][MutexStep(Next) \/ RwStep(Rw!Next) \/ CancelStep(CancelNext)]_<<program, vars, rwVars, cancelVars>>
          /\ WF_vars(MutexStep(Main)) /\ \A t \in Thread : WF_vars(MutexStep(Func(t)))
          /\ WF_rwVars(RwStep(Rw!Main))
          /\ \A t \in Rw!Writer : WF_rwVars(RwStep(Rw!Write(t)))
          /\ \A t \in Rw!Reader : WF_rwVars(RwStep(Rw!Read(t)))
          /\ WF_cancelVars(CancelStep(CancelMain))
          /\ WF_cancelVars(CancelStep(CancelFunc \/ Cancelled))

(* ReaderLeavesLast of RwCounter.                                            *)
RwReaderLeavesLast == Rw!ReaderLeavesLast

(* Terminates of LockedCounter, ReadersNotice of RwCounter, CancelEnds of    *)
(* ThreadCancel.                                                             *)
ThreadsEnd == /\ program = "mutex" => Terminates
              /\ program = "rwlock" => Rw!ReadersNotice
              /\ program = "cancel" => CancelEnds
=============================================================================
