---------------------- MODULE SessionCoordinatorSlots -----------------------
(***************************************************************************)
(* The first two parts of the coordinator's inductive invariant.  Every    *)
(* step of SessionCoordinator keeps the variables in their types and the   *)
(* thread records in the shape their program counters call for.  And what  *)
(* clients read of a session agrees with its slot, while a session-wide    *)
(* operation holds its session for as long as it runs.                     *)
(***************************************************************************)
EXTENDS SessionCoordinator, TLAPS

\* A leaf is left to Zenon unless it names SMT: most are first-order.
USE ZenonT(30)

-----------------------------------------------------------------------------
(* The records the actions write have the types of their variables. *)

LEMMA RecordTypes ==
  /\ IdleState \in RuntimeState
  /\ IdleThread \in ThreadRecord
  /\ NewRun \in RunRecord
  /\ NoWorker \in WorkerRecord
  BY DEF IdleState, RuntimeState, IdleThread, ThreadRecord, ThreadPc, NewRun, RunRecord,
     NoWorker, WorkerRecord

LEMMA StatusType ==
  ASSUME NEW st \in RuntimeState,
         NEW x \in {"idle", "starting", "running", "aborting", "error"}
  PROVE  LET new == [st EXCEPT !.status = x] IN
         /\ new \in RuntimeState
         /\ new.status = x /\ new.run = st.run
  BY DEF RuntimeState

LEMMA RunningType ==
  ASSUME NEW st \in RuntimeState
  PROVE  LET new == [st EXCEPT !.status = "running", !.stream = TRUE] IN
         /\ new \in RuntimeState
         /\ new.status = "running" /\ new.run = st.run
  BY DEF RuntimeState

LEMMA StartingType ==
  ASSUME NEW r \in Run
  PROVE  LET new == [IdleState EXCEPT !.status = "starting", !.run = r] IN
         /\ new \in RuntimeState
         /\ new.status = "starting" /\ new.run = r
  BY DEF RuntimeState, IdleState

LEMMA CompletedType ==
  ASSUME NEW r \in Run, NEW o \in Outcomes \cup {"none", "cancelled"}
  PROVE  LET new == [IdleState EXCEPT !.completed = r]
             ended == [IdleState EXCEPT !.completed = r, !.outcome = o]
         IN  /\ new \in RuntimeState /\ new.status = "idle"
             /\ ended \in RuntimeState /\ ended.status = "idle"
  BY DEF RuntimeState, IdleState

-----------------------------------------------------------------------------
(* The three ways a thread record changes. *)

LEMMA MoveFacts ==
  ASSUME ControlTypeOK, NEW t \in Thread, NEW p \in ThreadPc, NEW e \in Nat,
         NEW x \in RuntimeId \cup {NoRuntime}, Move(t, p, e, x)
  PROVE  /\ thr' \in [Thread -> ThreadRecord]
         /\ thr'[t].pc = p
         /\ thr'[t].op = thr[t].op
         /\ thr'[t].session = thr[t].session
         /\ thr'[t].run = thr[t].run
         /\ \A u \in Thread : u # t => thr'[u] = thr[u]
  <1> DEFINE new == [ thr[t] EXCEPT !.pc = p, !.epoch = e, !.runtime = x ]
  <1>1. thr[t] \in ThreadRecord /\ thr' = [thr EXCEPT ![t] = new]
    BY DEF ControlTypeOK, Move
  <1>2. /\ new \in ThreadRecord /\ new.pc = p
        /\ new.op = thr[t].op /\ new.session = thr[t].session /\ new.run = thr[t].run
    BY <1>1 DEF ThreadRecord
  <1> HIDE DEF new
  <1> QED
    BY <1>1, <1>2 DEF ControlTypeOK

LEMMA GotoFacts ==
  ASSUME ControlTypeOK, NEW t \in Thread, NEW p \in ThreadPc, Goto(t, p)
  PROVE  /\ thr' \in [Thread -> ThreadRecord]
         /\ thr'[t].pc = p
         /\ thr'[t].op = thr[t].op
         /\ thr'[t].session = thr[t].session
         /\ thr'[t].run = thr[t].run
         /\ \A u \in Thread : u # t => thr'[u] = thr[u]
  <1>1. thr[t].epoch \in Nat /\ thr[t].runtime \in RuntimeId \cup {NoRuntime}
    BY DEF ControlTypeOK, ThreadRecord
  <1> QED
    BY <1>1, MoveFacts DEF Goto

LEMMA ReturnFacts ==
  ASSUME ControlTypeOK, NEW t \in Thread, Return(t)
  PROVE  /\ thr' \in [Thread -> ThreadRecord]
         /\ thr'[t].pc = "idle" /\ thr'[t].op = "none"
         /\ \A u \in Thread : u # t => thr'[u] = thr[u]
  <1>1. IdleThread.pc = "idle" /\ IdleThread.op = "none"
    BY DEF IdleThread
  <1> QED
    BY <1>1, RecordTypes DEF ControlTypeOK, Return

LEMMA BeginFacts ==
  ASSUME ControlTypeOK, NEW t \in Thread, NEW o \in AllOps, NEW s \in Session,
         NEW r \in Run \cup {NoRun}, NEW p \in ThreadPc,
         NEW x \in RuntimeId \cup {NoRuntime}, Begin(t, o, s, r, p, x)
  PROVE  /\ thr' \in [Thread -> ThreadRecord]
         /\ thr'[t].pc = p /\ thr'[t].op = o
         /\ thr'[t].session = s /\ thr'[t].run = r
         /\ \A u \in Thread : u # t => thr'[u] = thr[u]
  <1> DEFINE new == [ pc |-> p, op |-> o, session |-> s, run |-> r,
                      epoch |-> 0, runtime |-> x ]
  <1>1. /\ new \in ThreadRecord /\ new.pc = p /\ new.op = o
        /\ new.session = s /\ new.run = r
    BY DEF ThreadRecord
  <1>2. thr' = [thr EXCEPT ![t] = new]
    BY DEF Begin
  <1> HIDE DEF new
  <1> QED
    BY <1>1, <1>2 DEF ControlTypeOK

-----------------------------------------------------------------------------
ThreadsOK == thr \in [Thread -> ThreadRecord] /\ Shape

(* A step that leaves every other thread alone keeps the shape if its own    *)
(* thread has it.                                                           *)
LEMMA ThreadsUpdate ==
  ASSUME Shape, NEW t \in Thread, thr' \in [Thread -> ThreadRecord], ShapeOf(thr'[t]),
         \A u \in Thread : u # t => thr'[u] = thr[u]
  PROVE  ThreadsOK'
  BY DEF ThreadsOK, Shape

(* Admissions put a thread into the shape of its operation. *)
LEMMA RequestThreads ==
  ASSUME TypeOK, Shape, NEW t \in Thread, NEW s \in Session, Request(t, s)
  PROVE  ThreadsOK'
  <1>0. ControlTypeOK /\ AdmissionTypeOK /\ RuntimeTypeOK
    BY DEF TypeOK
  <1>b. ASSUME NEW o \in AllOps, NEW r \in Run \cup {NoRun}, NEW p \in ThreadPc,
               NEW x \in RuntimeId \cup {NoRuntime}, Begin(t, o, s, r, p, x),
               o = "submit" => r \in Run,
               p \in {"lookup", "ready"} \/ (p = "pop" /\ o = "release")
                 \/ (p = "prepared" /\ o = "restore")
        PROVE  ThreadsOK'
    <2>1. /\ thr' \in [Thread -> ThreadRecord]
          /\ thr'[t].pc = p /\ thr'[t].op = o
          /\ thr'[t].session = s /\ thr'[t].run = r
          /\ \A u \in Thread : u # t => thr'[u] = thr[u]
      BY <1>0, <1>b, BeginFacts
    <2>2. ShapeOf(thr'[t])
      BY <1>b, <2>1 DEF ShapeOf
    <2> QED
      BY <2>1, <2>2, ThreadsUpdate
  <1> USE DEF ThreadPc, AllOps, Controls
  <1>1. CASE SubmitAdmit(t, s)
    <2>1. nextRun \in Run
      BY <1>0, <1>1, BoundsAssumption, SMTT(60) DEF SubmitAdmit, AdmissionTypeOK, Run
    <2> QED
      BY <1>1, <1>b, <2>1 DEF SubmitAdmit
  <1>2. CASE EnsureStart(t, s)
    BY <1>2, <1>b, SMTT(60) DEF EnsureStart
  <1>3. CASE SideQuestionStart(t, s)
    BY <1>3, <1>b, SMTT(60) DEF SideQuestionStart
  <1>4. CASE ConfigureStart(t, s)
    BY <1>4, <1>b, SMTT(60) DEF ConfigureStart, ControlStart
  <1>5. CASE RewindStart(t, s)
    BY <1>5, <1>b, SMTT(60) DEF RewindStart, ControlStart
  <1>6. CASE ReleaseStart(t, s)
    BY <1>6, <1>b, SMTT(60) DEF ReleaseStart, ControlStart
  <1>7. CASE RestorePrepare(t, s)
    <2>1. nextRuntime \in RuntimeId
      BY <1>0, <1>7, BoundsAssumption, SMTT(60) DEF RestorePrepare, RuntimeTypeOK, RuntimeId
    <2> QED
      BY <1>7, <1>b, <2>1, SMTT(60) DEF RestorePrepare
  <1> QED
    BY <1>1, <1>2, <1>3, <1>4, <1>5, <1>6, <1>7 DEF Request

(* Every step of a thread moves it, or ends its operation. *)
LEMMA StepThreads ==
  ASSUME TypeOK, Shape, NEW t \in Thread, ThreadStep(t)
  PROVE  ThreadsOK'
  <1>0. ControlTypeOK /\ RuntimeTypeOK /\ ShapeOf(thr[t])
    BY DEF TypeOK, Shape
  <1>r. CASE Return(t)
    <2>1. ShapeOf(thr'[t])
      BY <1>0, <1>r, ReturnFacts DEF ShapeOf
    <2> QED
      BY <1>0, <1>r, <2>1, ReturnFacts, ThreadsUpdate
  <1>g. ASSUME NEW p \in ThreadPc, NEW e \in Nat, NEW x \in RuntimeId \cup {NoRuntime},
               Move(t, p, e, x), thr[t].pc # "idle", p # "idle",
               p \in {"settle", "emit", "callback", "submit", "publish", "watch"}
                 => thr[t].op = "submit",
               p \in {"pop", "bump"} => thr[t].op = "release",
               p \in {"prepared", "refused", "swap"} => thr[t].op = "restore",
               p = "dispose" => thr[t].op \in {"release", "restore"}
        PROVE  ThreadsOK'
    <2>1. ShapeOf(thr'[t])
      BY <1>0, <1>g, MoveFacts DEF ShapeOf
    <2> QED
      BY <1>0, <1>g, <2>1, MoveFacts, ThreadsUpdate
  <1>h. thr[t].epoch \in Nat /\ thr[t].runtime \in RuntimeId \cup {NoRuntime}
    BY <1>0 DEF ControlTypeOK, ThreadRecord
  <1>i. thr[t].pc # "idle" =>
          /\ runtimes[thr[t].session] \in RuntimeId \cup {NoRuntime}
          /\ epoch[thr[t].session] \in Nat
    BY <1>0 DEF RuntimeTypeOK, ShapeOf
  <1>j. nextRuntime <= MaxRuntimes => nextRuntime \in RuntimeId
    BY <1>0, BoundsAssumption, SMTT(60) DEF RuntimeTypeOK, RuntimeId
  <1> USE <1>0, <1>g, <1>h, <1>r DEF Goto, ThreadPc
  <1>1. CASE LookupRuntime(t)
    BY <1>1, <1>i, SMTT(60) DEF LookupRuntime
  <1>2. CASE EnterGate(t)
    BY <1>2, <1>i, SMTT(60) DEF EnterGate
  <1>3. CASE CreateRuntime(t)
    BY <1>3, <1>j, SMTT(60) DEF CreateRuntime
  <1>4. CASE CreateFails(t)
    BY <1>4, SMTT(60) DEF CreateFails
  <1>5. CASE InstallRuntime(t)
    BY <1>5, SMTT(60) DEF InstallRuntime
  <1>6. CASE DiscardCreatedRuntime(t)
    BY <1>6, SMTT(60) DEF DiscardCreatedRuntime
  <1>7. CASE CheckReservation(t)
    BY <1>7, SMTT(60) DEF CheckReservation, ShapeOf
  <1>8. CASE FinishAbortedStart(t)
    BY <1>8, SMTT(60) DEF FinishAbortedStart, ShapeOf
  <1>9. CASE EmitAborted(t)
    BY <1>9 DEF EmitAborted, ShapeOf
  <1>10. CASE CallbackAborted(t)
    BY <1>10 DEF CallbackAborted
  <1>11. CASE RuntimeSubmit(t)
    BY <1>11 DEF RuntimeSubmit, ShapeOf
  <1>12. CASE RuntimeSubmitFails(t)
    BY <1>12, SMTT(60) DEF RuntimeSubmitFails
  <1>13. CASE ReleaseReservation(t)
    BY <1>13 DEF ReleaseReservation
  <1>14. CASE PublishRunning(t)
    BY <1>14 DEF PublishRunning, ShapeOf
  <1>15. CASE StartWatcher(t)
    BY <1>15 DEF StartWatcher
  <1>16. CASE WatcherStartFails(t)
    BY <1>16 DEF WatcherStartFails
  <1>17. CASE FinishOperation(t)
    BY <1>17 DEF FinishOperation
  <1>18. CASE ReleasePop(t)
    BY <1>18, <1>i, SMTT(60) DEF ReleasePop, ShapeOf
  <1>19. CASE ReleaseBump(t)
    BY <1>19 DEF ReleaseBump, ShapeOf
  <1>20. CASE DisposeDetached(t)
    BY <1>20, SMTT(60) DEF DisposeDetached
  <1>21. CASE ReplaceAdmit(t)
    BY <1>21, SMTT(60) DEF ReplaceAdmit, ShapeOf
  <1>22. CASE ReplaceRefused(t)
    BY <1>22, SMTT(60) DEF ReplaceRefused, ShapeOf
  <1>23. CASE DisposeRefused(t)
    BY <1>23 DEF DisposeRefused
  <1>24. CASE ReplaceSwap(t)
    BY <1>24, <1>i, SMTT(60) DEF ReplaceSwap, ShapeOf
  <1> QED
    BY <1>1, <1>2, <1>3, <1>4, <1>5, <1>6, <1>7, <1>8, <1>9, <1>10, <1>11, <1>12, <1>13,
       <1>14, <1>15, <1>16, <1>17, <1>18, <1>19, <1>20, <1>21, <1>22, <1>23, <1>24
    DEF ThreadStep

-----------------------------------------------------------------------------
(* The other variables keep their types. *)
ControlMapsOK ==
  control \in [Session -> Controls \cup {"none"}] /\ sideQuestions \in [Session -> Nat]

(* _exclusive_controls and _side_questions keep their types. *)
LEMMA ControlStep ==
  ASSUME TypeOK, Shape, [Next]_vars
  PROVE  ControlMapsOK'
  <1> ControlMapsOK
    BY DEF TypeOK, ControlTypeOK, ControlMapsOK
  <1> USE DEF ControlMapsOK
  <1>1. CASE \E t \in Thread, s \in Session : Request(t, s)
    <2>1. ASSUME NEW t \in Thread, NEW s \in Session, SubmitAdmit(t, s) \/ EnsureStart(t, s)
                 \/ RestorePrepare(t, s)
          PROVE  ControlMapsOK'
      BY <2>1 DEF SubmitAdmit, EnsureStart, RestorePrepare, vars, sharedVars, admissionVars,
                  controlVars, runtimeVars, agentVars, historyVars, shutdownVars, stoppedVars,
                  unstoppedVars, ControlMapsOK
    <2>2. ASSUME NEW t \in Thread, NEW s \in Session, SideQuestionStart(t, s)
          PROVE  ControlMapsOK'
      BY <2>2, SMTT(60) DEF SideQuestionStart
    <2>3. ASSUME NEW t \in Thread, NEW s \in Session, ConfigureStart(t, s)
          PROVE  ControlMapsOK'
      BY <2>3 DEF ConfigureStart, ControlStart, Controls
    <2>4. ASSUME NEW t \in Thread, NEW s \in Session, RewindStart(t, s)
          PROVE  ControlMapsOK'
      BY <2>4 DEF RewindStart, ControlStart, Controls
    <2>5. ASSUME NEW t \in Thread, NEW s \in Session, ReleaseStart(t, s)
          PROVE  ControlMapsOK'
      BY <2>5 DEF ReleaseStart, ControlStart, Controls
    <2> QED
      BY <1>1, <2>1, <2>2, <2>3, <2>4, <2>5 DEF Request
  <1>2. CASE \E t \in Thread : ThreadStep(t)
    <2>1. ASSUME NEW t \in Thread, LookupRuntime(t) \/ EnterGate(t) \/ CreateRuntime(t)
                 \/ CreateFails(t) \/ InstallRuntime(t) \/ DiscardCreatedRuntime(t)
          PROVE  ControlMapsOK'
      BY <2>1 DEF LookupRuntime, EnterGate, CreateRuntime, CreateFails, InstallRuntime,
                  DiscardCreatedRuntime, vars, sharedVars, admissionVars, controlVars,
                  runtimeVars, agentVars, historyVars, shutdownVars, stoppedVars,
                  unstoppedVars, ControlMapsOK
    <2>2. ASSUME NEW t \in Thread, CheckReservation(t) \/ FinishAbortedStart(t)
                 \/ EmitAborted(t) \/ CallbackAborted(t) \/ RuntimeSubmit(t)
                 \/ RuntimeSubmitFails(t)
          PROVE  ControlMapsOK'
      BY <2>2 DEF CheckReservation, FinishAbortedStart, EmitAborted, CallbackAborted,
                  RuntimeSubmit, RuntimeSubmitFails, vars, sharedVars, admissionVars,
                  controlVars, runtimeVars, agentVars, historyVars, shutdownVars, stoppedVars,
                  unstoppedVars, ControlMapsOK
    <2>3. ASSUME NEW t \in Thread, ReleaseReservation(t) \/ PublishRunning(t)
                 \/ StartWatcher(t) \/ WatcherStartFails(t) \/ ReleasePop(t)
                 \/ ReleaseBump(t)
          PROVE  ControlMapsOK'
      BY <2>3 DEF ReleaseReservation, PublishRunning, StartWatcher, WatcherStartFails,
                  ReleasePop, ReleaseBump, vars, sharedVars, admissionVars, controlVars,
                  runtimeVars, agentVars, historyVars, shutdownVars, stoppedVars,
                  unstoppedVars, ControlMapsOK
    <2>4. ASSUME NEW t \in Thread, DisposeDetached(t) \/ ReplaceRefused(t)
                 \/ DisposeRefused(t) \/ ReplaceSwap(t)
          PROVE  ControlMapsOK'
      BY <2>4 DEF DisposeDetached, ReplaceRefused, DisposeRefused, ReplaceSwap, vars,
                  sharedVars, admissionVars, controlVars, runtimeVars, agentVars, historyVars,
                  shutdownVars, stoppedVars, unstoppedVars, ControlMapsOK
    <2>5. ASSUME NEW t \in Thread, FinishOperation(t)
           PROVE  ControlMapsOK'
      <3>1. thr[t].session \in Session
        BY <2>5 DEF FinishOperation, Shape, ShapeOf
      <3>2. sideQuestions[thr[t].session] \in Nat
        BY <3>1
      <3>3. sideQuestions' \in [Session -> Nat]
        BY <2>5, <3>1, <3>2, SMTT(60) DEF FinishOperation
      <3>4. control' \in [Session -> Controls \cup {"none"}]
        BY <2>5 DEF FinishOperation
      <3> QED
        BY <3>3, <3>4
    <2>6. ASSUME NEW t \in Thread, ReplaceAdmit(t)
           PROVE  ControlMapsOK'
      BY <2>6 DEF ReplaceAdmit, Controls
    <2> QED
      BY <1>2, <2>1, <2>2, <2>3, <2>4, <2>5, <2>6 DEF ThreadStep
  <1>3. CASE \E s \in Session : \/ Abort(s) \/ StopWorkerRuns(s)
                              \/ StopWorkerReturns(s) \/ ShutdownMark(s)
    <2>1. ASSUME NEW s \in Session, AbortRun(s) \/ AbortIdle(s) \/ StopWorkerRuns(s)
                  \/ StopWorkerReturns(s) \/ ShutdownMark(s)
           PROVE  ControlMapsOK'
      BY <2>1 DEF AbortRun, AbortIdle, StopWorkerRuns, StopWorkerReturns, ShutdownMark, vars,
                   sharedVars, admissionVars, controlVars, runtimeVars, agentVars, historyVars,
                   shutdownVars, stoppedVars, unstoppedVars, ControlMapsOK
    <2> QED
      BY <1>3, <2>1 DEF Abort
  <1>4. CASE \E r \in Run : RunFinishes(r) \/ WatcherStep(r) \/ AbortWorkerRuns(r)
    <2>1. ASSUME NEW r \in Run, RunFinishes(r) \/ WatchTimeout(r) \/ WatchComplete(r)
                  \/ WatcherEmit(r) \/ WatcherCallback(r) \/ WatcherExit(r)
           PROVE  ControlMapsOK'
      BY <2>1 DEF RunFinishes, WatchTimeout, WatchComplete, WatcherEmit, WatcherCallback,
                   WatcherExit, vars, sharedVars, admissionVars, controlVars, runtimeVars,
                   agentVars, historyVars, shutdownVars, stoppedVars, unstoppedVars,
                   ControlMapsOK
    <2>2. ASSUME NEW r \in Run, AbortWorkerRuns(r)
           PROVE  ControlMapsOK'
      BY <2>2 DEF AbortWorkerRuns, vars, sharedVars, admissionVars, controlVars, runtimeVars,
                   agentVars, historyVars, shutdownVars, stoppedVars, unstoppedVars,
                   ControlMapsOK
    <2> QED
      BY <1>4, <2>1, <2>2 DEF WatcherStep
  <1>5. CASE ShutdownBegin \/ ShutdownPass \/ ShutdownTimeout \/ AtRest
    <2>1. ASSUME ShutdownBegin \/ ShutdownControls \/ ShutdownSnapshot \/ ShutdownMarked
                  \/ ShutdownJoinAborts \/ ShutdownRuntimes
           PROVE  ControlMapsOK'
      BY <2>1 DEF ShutdownBegin, ShutdownControls, ShutdownSnapshot, ShutdownMarked,
                   ShutdownJoinAborts, ShutdownRuntimes, vars, sharedVars, admissionVars,
                   controlVars, runtimeVars, agentVars, historyVars, shutdownVars, stoppedVars,
                   unstoppedVars, ControlMapsOK
    <2>2. ASSUME ShutdownJoinStops \/ ShutdownWatchers \/ ShutdownFinish \/ ShutdownTimeout
                  \/ AtRest
           PROVE  ControlMapsOK'
      BY <2>2 DEF ShutdownJoinStops, ShutdownWatchers, ShutdownFinish, ShutdownTimeout,
                   AtRest, vars, sharedVars, admissionVars, controlVars, runtimeVars,
                   agentVars, historyVars, shutdownVars, stoppedVars, unstoppedVars,
                   ControlMapsOK
    <2> QED
      BY <1>5, <1>3, <2>1, <2>2 DEF ShutdownPass
  <1>6. CASE UNCHANGED vars
    BY <1>6 DEF vars, sharedVars, admissionVars, controlVars, runtimeVars, agentVars,
                 historyVars, shutdownVars, stoppedVars, unstoppedVars, ControlMapsOK
  <1> QED
    BY <1>1, <1>2, <1>3, <1>4, <1>5, <1>6 DEF Next

(* The admission maps and the watcher table keep their types. *)
LEMMA AdmissionStep ==
  ASSUME TypeOK, Shape, SlotShape, [Next]_vars
  PROVE  AdmissionTypeOK'
  <1> AdmissionTypeOK
    BY DEF TypeOK
  <1> USE DEF AdmissionTypeOK
  <1>1. CASE \E t \in Thread, s \in Session : Request(t, s)
    <2>1. ASSUME NEW t \in Thread, NEW s \in Session, EnsureStart(t, s)
                 \/ SideQuestionStart(t, s) \/ ConfigureStart(t, s) \/ RewindStart(t, s)
                 \/ ReleaseStart(t, s) \/ RestorePrepare(t, s)
          PROVE  AdmissionTypeOK'
      BY <2>1 DEF EnsureStart, SideQuestionStart, ConfigureStart, RewindStart, ReleaseStart,
                  RestorePrepare, ControlStart, vars, sharedVars, admissionVars, controlVars,
                  runtimeVars, agentVars, historyVars, shutdownVars, stoppedVars,
                  unstoppedVars
    <2>2. ASSUME NEW t \in Thread, NEW s \in Session, SubmitAdmit(t, s)
          PROVE  AdmissionTypeOK'
      <3>1. nextRun \in Run /\ nextRun + 1 \in 1..(MaxRuns + 1)
        BY <2>2, BoundsAssumption, SMTT(60) DEF SubmitAdmit, Run
      <3>2. [IdleState EXCEPT !.status = "starting", !.run = nextRun] \in RuntimeState
        BY <3>1, StartingType
      <3> QED
        BY <2>2, <3>1, <3>2 DEF SubmitAdmit, RecordState
    <2> QED
      BY <1>1, <2>1, <2>2 DEF Request
  <1>2. CASE \E t \in Thread : ThreadStep(t)
    <2>1. ASSUME NEW t \in Thread, LookupRuntime(t) \/ EnterGate(t) \/ CreateRuntime(t)
                 \/ CreateFails(t) \/ InstallRuntime(t) \/ DiscardCreatedRuntime(t)
          PROVE  AdmissionTypeOK'
      BY <2>1 DEF LookupRuntime, EnterGate, CreateRuntime, CreateFails, InstallRuntime,
                  DiscardCreatedRuntime, vars, sharedVars, admissionVars, controlVars,
                  runtimeVars, agentVars, historyVars, shutdownVars, stoppedVars,
                  unstoppedVars
    <2>2. ASSUME NEW t \in Thread, CheckReservation(t) \/ EmitAborted(t)
                 \/ CallbackAborted(t) \/ RuntimeSubmit(t) \/ RuntimeSubmitFails(t)
                 \/ FinishOperation(t)
          PROVE  AdmissionTypeOK'
      BY <2>2 DEF CheckReservation, EmitAborted, CallbackAborted, RuntimeSubmit,
                  RuntimeSubmitFails, FinishOperation, vars, sharedVars, admissionVars,
                  controlVars, runtimeVars, agentVars, historyVars, shutdownVars, stoppedVars,
                  unstoppedVars
    <2>3. ASSUME NEW t \in Thread, ReleasePop(t) \/ DisposeDetached(t) \/ ReplaceAdmit(t)
                 \/ ReplaceRefused(t) \/ DisposeRefused(t)
          PROVE  AdmissionTypeOK'
      BY <2>3 DEF ReleasePop, DisposeDetached, ReplaceAdmit, ReplaceRefused, DisposeRefused,
                  vars, sharedVars, admissionVars, controlVars, runtimeVars, agentVars,
                  historyVars, shutdownVars, stoppedVars, unstoppedVars
    <2>4. ASSUME NEW t \in Thread, FinishAbortedStart(t)
          PROVE  AdmissionTypeOK'
      <3>1. thr[t].run \in Run
        BY <2>4 DEF FinishAbortedStart, Shape, ShapeOf
      <3>2. [IdleState EXCEPT !.completed = thr[t].run] \in RuntimeState
        BY <3>1, CompletedType
      <3> QED
        BY <2>4, <3>2, RecordTypes DEF FinishAbortedStart, FreeSlot
    <2>5. ASSUME NEW t \in Thread, ReleaseReservation(t)
          PROVE  AdmissionTypeOK'
      BY <2>5, RecordTypes DEF ReleaseReservation, FreeSlot
    <2>6. ASSUME NEW t \in Thread, PublishRunning(t)
          PROVE  AdmissionTypeOK'
      <3>1. thr[t].session \in Session
        BY <2>6 DEF PublishRunning, Shape, ShapeOf
      <3>2. [active[thr[t].session] EXCEPT !.status = "running", !.stream = TRUE]
              \in RuntimeState
        BY <3>1, RunningType
      <3> QED
        BY <2>6, <3>2 DEF PublishRunning, RecordState
    <2>7. ASSUME NEW t \in Thread, StartWatcher(t)
          PROVE  AdmissionTypeOK'
      BY <2>7 DEF StartWatcher, WatcherPc, admissionVars
    <2>8. ASSUME NEW t \in Thread, WatcherStartFails(t)
           PROVE  AdmissionTypeOK'
      BY <2>8, RecordTypes DEF WatcherStartFails, FreeSlot
    <2>9. ASSUME NEW t \in Thread, ReleaseBump(t)
           PROVE  AdmissionTypeOK'
      BY <2>9, RecordTypes DEF ReleaseBump
    <2>10. ASSUME NEW t \in Thread, ReplaceSwap(t)
           PROVE  AdmissionTypeOK'
      BY <2>10, RecordTypes DEF ReplaceSwap
    <2> QED
      BY <1>2, <2>1, <2>2, <2>3, <2>4, <2>5, <2>6, <2>7, <2>8, <2>9, <2>10 DEF ThreadStep
  <1>3. CASE \E s \in Session : \/ Abort(s) \/ StopWorkerRuns(s)
                              \/ StopWorkerReturns(s) \/ ShutdownMark(s)
    <2>1. ASSUME NEW s \in Session, AbortIdle(s) \/ StopWorkerRuns(s)
                  \/ StopWorkerReturns(s)
           PROVE  AdmissionTypeOK'
      BY <2>1 DEF AbortIdle, StopWorkerRuns, StopWorkerReturns, vars, sharedVars,
                   admissionVars, controlVars, runtimeVars, agentVars, historyVars,
                   shutdownVars, stoppedVars, unstoppedVars
    <2>2. ASSUME NEW s \in Session, AbortRun(s)
           PROVE  AdmissionTypeOK'
      <3>1. [active[s] EXCEPT !.status = "aborting"] \in RuntimeState
        BY StatusType
      <3>2. active[s].run \in Run
        BY <2>2, SMTT(60) DEF AbortRun, SlotShape, Admitted, RuntimeState, IdleState
      <3> QED
        BY <2>2, <3>1, <3>2 DEF AbortRun, RecordState
    <2>3. ASSUME NEW s \in Session, ShutdownMark(s)
           PROVE  AdmissionTypeOK'
      <3>1. [active[s] EXCEPT !.status = "aborting"] \in RuntimeState
        BY StatusType
      <3>2. active[s].status \in {"starting", "running"} => active[s].run \in Run
        BY SMTT(60) DEF SlotShape, Admitted, RuntimeState, IdleState
      <3> QED
        BY <2>3, <3>1, <3>2, SMTT(60) DEF ShutdownMark, RecordState, unstoppedVars
    <2> QED
      BY <1>3, <2>1, <2>2, <2>3 DEF Abort
  <1>4. CASE \E r \in Run : RunFinishes(r) \/ WatcherStep(r) \/ AbortWorkerRuns(r)
    <2>1. ASSUME NEW r \in Run, RunFinishes(r) \/ AbortWorkerRuns(r)
           PROVE  AdmissionTypeOK'
      BY <2>1 DEF RunFinishes, AbortWorkerRuns, vars, sharedVars, admissionVars, controlVars,
                   runtimeVars, agentVars, historyVars, shutdownVars, stoppedVars,
                   unstoppedVars
    <2>2. ASSUME NEW r \in Run, WatchTimeout(r)
           PROVE  AdmissionTypeOK'
      <3>1. CASE runs[r].session \in Session
        <4>1. [active[runs[r].session] EXCEPT !.status = "error"] \in RuntimeState
          BY <3>1, StatusType
        <4> QED
          BY <2>2, <4>1 DEF WatchTimeout, RecordState, WatcherPc
      <3>2. CASE runs[r].session \notin Session
        BY <2>2, <3>2 DEF WatchTimeout, RecordState, WatcherPc
      <3> QED
        BY <3>1, <3>2
    <2>3. ASSUME NEW r \in Run, WatchComplete(r)
           PROVE  AdmissionTypeOK'
      <3> DEFINE ended == IF active[runs[r].session].status = "aborting" THEN "cancelled"
                          ELSE runs[r].outcome
      <3>1. ended \in Outcomes \cup {"none", "cancelled"}
        BY DEF TypeOK, RuntimeTypeOK, RunRecord
      <3>2. [IdleState EXCEPT !.completed = r, !.outcome = ended] \in RuntimeState
        BY <3>1, CompletedType
      <3> QED
        BY <2>3, <3>2, RecordTypes, SMTT(60) DEF WatchComplete, FreeSlot, WatcherPc
    <2>4. ASSUME NEW r \in Run, WatcherEmit(r)
           PROVE  AdmissionTypeOK'
      BY <2>4 DEF WatcherEmit, WatcherPc, admissionVars
    <2>5. ASSUME NEW r \in Run, WatcherCallback(r)
           PROVE  AdmissionTypeOK'
      BY <2>5 DEF WatcherCallback, WatcherPc, admissionVars
    <2>6. ASSUME NEW r \in Run, WatcherExit(r)
           PROVE  AdmissionTypeOK'
      BY <2>6 DEF WatcherExit, WatcherPc, admissionVars
    <2> QED
      BY <1>4, <2>1, <2>2, <2>3, <2>4, <2>5, <2>6 DEF WatcherStep
  <1>5. CASE ShutdownBegin \/ ShutdownPass \/ ShutdownTimeout \/ AtRest
    <2>1. ASSUME ShutdownBegin \/ ShutdownControls \/ ShutdownSnapshot \/ ShutdownMarked
                  \/ ShutdownJoinAborts \/ ShutdownRuntimes
           PROVE  AdmissionTypeOK'
      BY <2>1 DEF ShutdownBegin, ShutdownControls, ShutdownSnapshot, ShutdownMarked,
                   ShutdownJoinAborts, ShutdownRuntimes, vars, sharedVars, admissionVars,
                   controlVars, runtimeVars, agentVars, historyVars, shutdownVars, stoppedVars,
                   unstoppedVars
    <2>2. ASSUME ShutdownJoinStops \/ ShutdownWatchers \/ ShutdownTimeout \/ AtRest
           PROVE  AdmissionTypeOK'
      BY <2>2 DEF ShutdownJoinStops, ShutdownWatchers, ShutdownTimeout, AtRest, vars,
                   sharedVars, admissionVars, controlVars, runtimeVars, agentVars, historyVars,
                   shutdownVars, stoppedVars, unstoppedVars
    <2>3. ASSUME ShutdownFinish
           PROVE  AdmissionTypeOK'
      BY <2>3 DEF ShutdownFinish, unstoppedVars
    <2> QED
      BY <1>5, <1>3, <2>1, <2>2, <2>3 DEF ShutdownPass
  <1>6. CASE UNCHANGED vars
    BY <1>6 DEF vars, sharedVars, admissionVars, controlVars, runtimeVars, agentVars,
                 historyVars, shutdownVars, stoppedVars, unstoppedVars
  <1> QED
    BY <1>1, <1>2, <1>3, <1>4, <1>5, <1>6 DEF Next

(* The runtimes, their epochs and gates and the agent's runs keep their types. *)
LEMMA RuntimeStep ==
  ASSUME TypeOK, Shape, [Next]_vars
  PROVE  RuntimeTypeOK'
  <1> RuntimeTypeOK
    BY DEF TypeOK
  <1> USE DEF RuntimeTypeOK
  <1>t. \A t \in Thread : /\ thr[t].epoch \in Nat
                        /\ thr[t].runtime \in RuntimeId \cup {NoRuntime}
                        /\ thr[t].session \in Session \cup {NoSession}
    BY DEF TypeOK, ControlTypeOK, ThreadRecord
  <1>l. \A x : LiveOn(x) \subseteq Run
    BY DEF LiveOn
  <1>1. CASE \E t \in Thread, s \in Session : Request(t, s)
    <2>1. ASSUME NEW t \in Thread, NEW s \in Session, SubmitAdmit(t, s) \/ EnsureStart(t, s)
                 \/ SideQuestionStart(t, s) \/ ConfigureStart(t, s) \/ RewindStart(t, s)
                 \/ ReleaseStart(t, s)
          PROVE  RuntimeTypeOK'
      BY <2>1 DEF SubmitAdmit, EnsureStart, SideQuestionStart, ConfigureStart, RewindStart,
                  ReleaseStart, ControlStart, vars, sharedVars, admissionVars, controlVars,
                  runtimeVars, agentVars, historyVars, shutdownVars, stoppedVars,
                  unstoppedVars
    <2>2. ASSUME NEW t \in Thread, NEW s \in Session, RestorePrepare(t, s)
          PROVE  RuntimeTypeOK'
      <3>1. nextRuntime \in RuntimeId /\ nextRuntime + 1 \in 1..(MaxRuntimes + 1)
        BY <2>2, BoundsAssumption, SMTT(60) DEF RestorePrepare, RuntimeId
      <3> QED
        BY <2>2, <1>t, <3>1 DEF RestorePrepare, agentVars
    <2> QED
      BY <1>1, <2>1, <2>2 DEF Request
  <1>2. CASE \E t \in Thread : ThreadStep(t)
    <2>1. ASSUME NEW t \in Thread, LookupRuntime(t) \/ CheckReservation(t)
                 \/ FinishAbortedStart(t) \/ EmitAborted(t) \/ CallbackAborted(t)
                 \/ RuntimeSubmitFails(t)
          PROVE  RuntimeTypeOK'
      BY <2>1 DEF LookupRuntime, CheckReservation, FinishAbortedStart, EmitAborted,
                  CallbackAborted, RuntimeSubmitFails, vars, sharedVars, admissionVars,
                  controlVars, runtimeVars, agentVars, historyVars, shutdownVars, stoppedVars,
                  unstoppedVars
    <2>2. ASSUME NEW t \in Thread, ReleaseReservation(t) \/ StartWatcher(t)
                 \/ FinishOperation(t) \/ ReplaceAdmit(t) \/ ReplaceRefused(t)
          PROVE  RuntimeTypeOK'
      BY <2>2 DEF ReleaseReservation, StartWatcher, FinishOperation, ReplaceAdmit,
                  ReplaceRefused, vars, sharedVars, admissionVars, controlVars, runtimeVars,
                  agentVars, historyVars, shutdownVars, stoppedVars, unstoppedVars
    <2>3. ASSUME NEW t \in Thread, EnterGate(t)
          PROVE  RuntimeTypeOK'
      BY <2>3, <1>t DEF EnterGate, agentVars
    <2>4. ASSUME NEW t \in Thread, CreateRuntime(t)
          PROVE  RuntimeTypeOK'
      <3>1. nextRuntime \in RuntimeId /\ nextRuntime + 1 \in 1..(MaxRuntimes + 1)
        BY <2>4, BoundsAssumption, SMTT(60) DEF CreateRuntime, RuntimeId
      <3> QED
        BY <2>4, <1>t, <3>1 DEF CreateRuntime, agentVars
    <2>5. ASSUME NEW t \in Thread, CreateFails(t)
          PROVE  RuntimeTypeOK'
      BY <2>5, <1>t DEF CreateFails, agentVars
    <2>6. ASSUME NEW t \in Thread, InstallRuntime(t)
          PROVE  RuntimeTypeOK'
      BY <2>6, <1>t DEF InstallRuntime, agentVars
    <2>7. ASSUME NEW t \in Thread, DiscardCreatedRuntime(t)
          PROVE  RuntimeTypeOK'
      BY <2>7, <1>t DEF DiscardCreatedRuntime, agentVars
    <2>8. ASSUME NEW t \in Thread, RuntimeSubmit(t)
           PROVE  RuntimeTypeOK'
      <3>1. [NewRun EXCEPT !.phase = "live", !.session = thr[t].session,
                           !.runtime = thr[t].runtime] \in RunRecord
        BY <1>t DEF NewRun, RunRecord
      <3> QED
        BY <2>8, <3>1 DEF RuntimeSubmit, runtimeVars
    <2>9. ASSUME NEW t \in Thread, PublishRunning(t)
           PROVE  RuntimeTypeOK'
      BY <2>9, <1>l DEF PublishRunning, AgentAbort, runtimeVars
    <2>10. ASSUME NEW t \in Thread, WatcherStartFails(t)
           PROVE  RuntimeTypeOK'
      BY <2>10, <1>l DEF WatcherStartFails, AgentAbort, runtimeVars
    <2>11. ASSUME NEW t \in Thread, ReleasePop(t)
           PROVE  RuntimeTypeOK'
      BY <2>11, <1>t DEF ReleasePop, agentVars
    <2>12. ASSUME NEW t \in Thread, ReleaseBump(t)
           PROVE  RuntimeTypeOK'
      <3>1. thr[t].session \in Session
        BY <2>12 DEF ReleaseBump, Shape, ShapeOf
      <3>2. epoch[thr[t].session] + 1 \in Nat
        BY <3>1, SMTT(60)
      <3> QED
        BY <2>12, <1>t, <3>2 DEF ReleaseBump, agentVars
    <2>13. ASSUME NEW t \in Thread, DisposeDetached(t)
           PROVE  RuntimeTypeOK'
      BY <2>13, <1>l DEF DisposeDetached, AgentAbort
    <2>14. ASSUME NEW t \in Thread, DisposeRefused(t)
           PROVE  RuntimeTypeOK'
      BY <2>14, <1>t DEF DisposeRefused, agentVars
    <2>15. ASSUME NEW t \in Thread, ReplaceSwap(t)
           PROVE  RuntimeTypeOK'
      <3>1. thr[t].session \in Session
        BY <2>15 DEF ReplaceSwap, Shape, ShapeOf
      <3>2. epoch[thr[t].session] + 1 \in Nat
        BY <3>1, SMTT(60)
      <3> QED
        BY <2>15, <1>t, <3>2 DEF ReplaceSwap, agentVars
    <2> QED
      BY <1>2, <2>1, <2>2, <2>3, <2>4, <2>5, <2>6, <2>7, <2>8, <2>9, <2>10, <2>11,
         <2>12, <2>13, <2>14, <2>15
      DEF ThreadStep
  <1>3. CASE \E s \in Session : \/ Abort(s) \/ StopWorkerRuns(s)
                              \/ StopWorkerReturns(s) \/ ShutdownMark(s)
    <2>1. ASSUME NEW s \in Session, StopWorkerReturns(s) \/ ShutdownMark(s)
           PROVE  RuntimeTypeOK'
      BY <2>1 DEF StopWorkerReturns, ShutdownMark, vars, sharedVars, admissionVars,
                   controlVars, runtimeVars, agentVars, historyVars, shutdownVars, stoppedVars,
                   unstoppedVars
    <2>2. ASSUME NEW s \in Session, AbortRun(s)
           PROVE  RuntimeTypeOK'
      BY <2>2, <1>l DEF AbortRun, AgentAbort, runtimeVars
    <2>3. ASSUME NEW s \in Session, AbortIdle(s)
           PROVE  RuntimeTypeOK'
      BY <2>3, <1>l DEF AbortIdle, AgentAbort, runtimeVars
    <2>4. ASSUME NEW s \in Session, StopWorkerRuns(s)
           PROVE  RuntimeTypeOK'
      BY <2>4, <1>l DEF StopWorkerRuns, AgentAbort, unstoppedVars
    <2> QED
      BY <1>3, <2>1, <2>2, <2>3, <2>4 DEF Abort
  <1>4. CASE \E r \in Run : RunFinishes(r) \/ WatcherStep(r) \/ AbortWorkerRuns(r)
    <2>1. ASSUME NEW r \in Run, WatchTimeout(r) \/ WatchComplete(r) \/ WatcherEmit(r)
                  \/ WatcherCallback(r) \/ WatcherExit(r)
           PROVE  RuntimeTypeOK'
      BY <2>1 DEF WatchTimeout, WatchComplete, WatcherEmit, WatcherCallback, WatcherExit,
                   vars, sharedVars, admissionVars, controlVars, runtimeVars, agentVars,
                   historyVars, shutdownVars, stoppedVars, unstoppedVars
    <2>2. ASSUME NEW r \in Run, RunFinishes(r)
           PROVE  RuntimeTypeOK'
      <3>1. \A o \in Outcomes : [runs[r] EXCEPT !.phase = "finished", !.outcome = o] \in RunRecord
        BY DEF RunRecord
      <3>2. PICK o \in Outcomes :
              runs' = [runs EXCEPT ![r].phase = "finished", ![r].outcome = o]
        BY <2>2 DEF RunFinishes
      <3>3. runs' = [runs EXCEPT ![r] = [runs[r] EXCEPT !.phase = "finished", !.outcome = o]]
        BY <3>2
      <3> QED
        BY <2>2, <3>1, <3>3 DEF RunFinishes, runtimeVars
    <2>3. ASSUME NEW r \in Run, AbortWorkerRuns(r)
           PROVE  RuntimeTypeOK'
      BY <2>3, <1>l DEF AbortWorkerRuns, AgentAbort, unstoppedVars
    <2> QED
      BY <1>4, <2>1, <2>2, <2>3 DEF WatcherStep
  <1>5. CASE ShutdownBegin \/ ShutdownPass \/ ShutdownTimeout \/ AtRest
    <2>1. ASSUME ShutdownBegin \/ ShutdownControls \/ ShutdownSnapshot \/ ShutdownMarked
                  \/ ShutdownJoinAborts \/ ShutdownRuntimes
           PROVE  RuntimeTypeOK'
      BY <2>1 DEF ShutdownBegin, ShutdownControls, ShutdownSnapshot, ShutdownMarked,
                   ShutdownJoinAborts, ShutdownRuntimes, vars, sharedVars, admissionVars,
                   controlVars, runtimeVars, agentVars, historyVars, shutdownVars, stoppedVars,
                   unstoppedVars
    <2>2. ASSUME ShutdownJoinStops \/ ShutdownWatchers \/ ShutdownTimeout \/ AtRest
           PROVE  RuntimeTypeOK'
      BY <2>2 DEF ShutdownJoinStops, ShutdownWatchers, ShutdownTimeout, AtRest, vars,
                   sharedVars, admissionVars, controlVars, runtimeVars, agentVars, historyVars,
                   shutdownVars, stoppedVars, unstoppedVars
    <2>3. ASSUME ShutdownFinish
           PROVE  RuntimeTypeOK'
      BY <2>3 DEF ShutdownFinish, unstoppedVars
    <2> QED
      BY <1>5, <1>3, <2>1, <2>2, <2>3 DEF ShutdownPass
  <1>6. CASE UNCHANGED vars
    BY <1>6 DEF vars, sharedVars, admissionVars, controlVars, runtimeVars, agentVars,
                 historyVars, shutdownVars, stoppedVars, unstoppedVars
  <1> QED
    BY <1>1, <1>2, <1>3, <1>4, <1>5, <1>6 DEF Next

(* The history, the shutdown pass and its workers keep their types. *)
LEMMA ShutdownStep ==
  ASSUME TypeOK, Shape, SlotShape, [Next]_vars
  PROVE  ShutdownTypeOK'
  <1> ShutdownTypeOK
    BY DEF TypeOK
  <1> USE DEF ShutdownTypeOK
  <1>w. /\ \A w \in WorkerRecord, x \in RuntimeId \cup {NoRuntime} : Launch(w, x) \in WorkerRecord
        /\ \A w \in WorkerRecord : [w EXCEPT !.state = "joining"] \in WorkerRecord
        /\ \A w \in WorkerRecord : [w EXCEPT !.state = "ok"] \in WorkerRecord
        /\ \A w \in WorkerRecord : [w EXCEPT !.state = "failed"] \in WorkerRecord
    BY DEF WorkerRecord, Launch
  <1>x. \A s \in Session : runtimes[s] \in RuntimeId \cup {NoRuntime}
    BY DEF TypeOK, RuntimeTypeOK
  <1>d. DropFailed(abortWorker) \in [Run -> WorkerRecord]
    BY RecordTypes DEF DropFailed
  <1>a. \A s \in Session : active[s].run \in Run \cup {NoRun}
    BY DEF TypeOK, AdmissionTypeOK, RuntimeState
  <1>1. CASE \E t \in Thread, s \in Session : Request(t, s)
    <2>1. ASSUME NEW t \in Thread, NEW s \in Session, SubmitAdmit(t, s) \/ EnsureStart(t, s)
                 \/ SideQuestionStart(t, s) \/ ConfigureStart(t, s) \/ RewindStart(t, s)
                 \/ ReleaseStart(t, s)
          PROVE  ShutdownTypeOK'
      BY <2>1 DEF SubmitAdmit, EnsureStart, SideQuestionStart, ConfigureStart, RewindStart,
                  ReleaseStart, ControlStart, vars, sharedVars, admissionVars, controlVars,
                  runtimeVars, agentVars, historyVars, shutdownVars, stoppedVars,
                  unstoppedVars
    <2>2. ASSUME NEW t \in Thread, NEW s \in Session, RestorePrepare(t, s)
          PROVE  ShutdownTypeOK'
      BY <2>2 DEF RestorePrepare, vars, sharedVars, admissionVars, controlVars, runtimeVars,
                  agentVars, historyVars, shutdownVars, stoppedVars, unstoppedVars
    <2> QED
      BY <1>1, <2>1, <2>2 DEF Request
  <1>2. CASE \E t \in Thread : ThreadStep(t)
    <2>1. ASSUME NEW t \in Thread, LookupRuntime(t) \/ EnterGate(t) \/ CreateRuntime(t)
                 \/ CreateFails(t) \/ InstallRuntime(t) \/ DiscardCreatedRuntime(t)
          PROVE  ShutdownTypeOK'
      BY <2>1 DEF LookupRuntime, EnterGate, CreateRuntime, CreateFails, InstallRuntime,
                  DiscardCreatedRuntime, vars, sharedVars, admissionVars, controlVars,
                  runtimeVars, agentVars, historyVars, shutdownVars, stoppedVars,
                  unstoppedVars
    <2>2. ASSUME NEW t \in Thread, CheckReservation(t) \/ FinishAbortedStart(t)
                 \/ EmitAborted(t) \/ RuntimeSubmit(t) \/ RuntimeSubmitFails(t)
                 \/ ReleaseReservation(t)
          PROVE  ShutdownTypeOK'
      BY <2>2 DEF CheckReservation, FinishAbortedStart, EmitAborted, RuntimeSubmit,
                  RuntimeSubmitFails, ReleaseReservation, vars, sharedVars, admissionVars,
                  controlVars, runtimeVars, agentVars, historyVars, shutdownVars, stoppedVars,
                  unstoppedVars
    <2>3. ASSUME NEW t \in Thread, PublishRunning(t) \/ StartWatcher(t)
                 \/ WatcherStartFails(t) \/ FinishOperation(t) \/ ReleasePop(t)
                 \/ ReleaseBump(t)
          PROVE  ShutdownTypeOK'
      BY <2>3
      DEF PublishRunning, StartWatcher, WatcherStartFails, FinishOperation, ReleasePop,
                  ReleaseBump, vars, sharedVars, admissionVars, controlVars, runtimeVars,
                  agentVars, historyVars, shutdownVars, stoppedVars, unstoppedVars
    <2>4. ASSUME NEW t \in Thread, DisposeDetached(t) \/ ReplaceAdmit(t) \/ ReplaceRefused(t)
                 \/ DisposeRefused(t) \/ ReplaceSwap(t)
          PROVE  ShutdownTypeOK'
      BY <2>4 DEF DisposeDetached, ReplaceAdmit, ReplaceRefused, DisposeRefused, ReplaceSwap,
                  vars, sharedVars, admissionVars, controlVars, runtimeVars, agentVars,
                  historyVars, shutdownVars, stoppedVars, unstoppedVars
    <2>5. ASSUME NEW t \in Thread, CallbackAborted(t)
          PROVE  ShutdownTypeOK'
      <3>1. thr[t].run \in Run
        BY <2>5 DEF CallbackAborted, Shape, ShapeOf
      <3>2. published' = published \cup {<<thr[t].run, "idle">>}
            /\ UNCHANGED <<earlyStops, stopping, sd, abortWorker, stopWorker>>
        BY <2>5 DEF CallbackAborted, shutdownVars
      <3>3. <<thr[t].run, "idle">> \in Run \X {"idle", "error"}
        BY <3>1
      <3>4. published' \subseteq Run \X {"idle", "error"}
        BY <3>2, <3>3
      <3> QED
        BY <3>2, <3>4
    <2> QED
      BY <1>2, <2>1, <2>2, <2>3, <2>4, <2>5 DEF ThreadStep
  <1>3. CASE \E s \in Session : \/ Abort(s) \/ StopWorkerRuns(s)
                              \/ StopWorkerReturns(s) \/ ShutdownMark(s)
    <2>1. ASSUME NEW s \in Session, AbortIdle(s)
          PROVE  ShutdownTypeOK'
      BY <2>1 DEF AbortIdle, vars, sharedVars, admissionVars, controlVars, runtimeVars,
                  agentVars, historyVars, shutdownVars, stoppedVars, unstoppedVars
    <2>2. ASSUME NEW s \in Session, AbortRun(s)
          PROVE  ShutdownTypeOK'
      <3>1. active[s].run \in Run
        BY <2>2, SMTT(60)
        DEF AbortRun, SlotShape, Admitted, TypeOK, AdmissionTypeOK, RuntimeState, IdleState
      <3> QED
        BY <2>2, <3>1 DEF AbortRun, shutdownVars
    <2>3. ASSUME NEW s \in Session, StopWorkerRuns(s)
           PROVE  ShutdownTypeOK'
      <3>1. stopWorker' \in [Session -> WorkerRecord]
        BY <2>3, <1>w DEF StopWorkerRuns
      <3> QED
        BY <2>3, <3>1 DEF StopWorkerRuns, unstoppedVars, historyVars, stoppedVars
    <2>4. ASSUME NEW s \in Session, StopWorkerReturns(s)
           PROVE  ShutdownTypeOK'
      <3>1. stopWorker' \in [Session -> WorkerRecord]
        BY <2>4, <1>w, SMTT(60) DEF StopWorkerReturns
      <3> QED
        BY <2>4, <3>1 DEF StopWorkerReturns, unstoppedVars, historyVars, stoppedVars
    <2>5. ASSUME NEW s \in Session, ShutdownMark(s)
           PROVE  ShutdownTypeOK'
      <3>1. sd' \in PassRecord
        BY <2>5, <1>a DEF ShutdownMark, PassRecord, ShutdownPc
      <3> QED
        BY <2>5, <3>1, <1>w, <1>x, <1>d, RecordTypes, SMTT(60)
        DEF ShutdownMark, unstoppedVars, historyVars, stoppedVars
    <2> QED
      BY <1>3, <2>1, <2>2, <2>3, <2>4, <2>5 DEF Abort
  <1>4. CASE \E r \in Run : RunFinishes(r) \/ WatcherStep(r) \/ AbortWorkerRuns(r)
    <2>1. ASSUME NEW r \in Run, RunFinishes(r) \/ WatchTimeout(r) \/ WatchComplete(r)
                  \/ WatcherEmit(r) \/ WatcherExit(r)
           PROVE  ShutdownTypeOK'
      BY <2>1 DEF RunFinishes, WatchTimeout, WatchComplete, WatcherEmit, WatcherExit, vars,
                   sharedVars, admissionVars, controlVars, runtimeVars, agentVars, historyVars,
                   shutdownVars, stoppedVars, unstoppedVars
    <2>2. ASSUME NEW r \in Run, WatcherCallback(r)
           PROVE  ShutdownTypeOK'
      BY <2>2, SMTT(60) DEF WatcherCallback, shutdownVars
    <2>3. ASSUME NEW r \in Run, AbortWorkerRuns(r)
           PROVE  ShutdownTypeOK'
      <3>1. abortWorker' \in [Run -> WorkerRecord]
        BY <2>3, <1>w, SMTT(60) DEF AbortWorkerRuns
      <3> QED
        BY <2>3, <3>1 DEF AbortWorkerRuns, unstoppedVars, historyVars, stoppedVars
    <2> QED
      BY <1>4, <2>1, <2>2, <2>3 DEF WatcherStep
  <1>5. CASE ShutdownBegin \/ ShutdownPass \/ ShutdownTimeout \/ AtRest
    <2>1. ASSUME AtRest
           PROVE  ShutdownTypeOK'
      BY <2>1 DEF AtRest, vars, sharedVars, admissionVars, controlVars, runtimeVars,
                   agentVars, historyVars, shutdownVars, stoppedVars, unstoppedVars
    <2>2. ASSUME ShutdownBegin
           PROVE  ShutdownTypeOK'
      <3>1. sd' \in PassRecord
        BY <2>2 DEF ShutdownBegin, PassRecord, ShutdownPc
      <3> QED
        BY <2>2, <3>1, <1>w, <1>x, <1>d, RecordTypes
        DEF ShutdownBegin, unstoppedVars, historyVars, stoppedVars
    <2>3. ASSUME ShutdownControls
           PROVE  ShutdownTypeOK'
      <3>1. sd' \in PassRecord
        BY <2>3 DEF ShutdownControls, PassRecord, ShutdownPc
      <3> QED
        BY <2>3, <3>1, <1>w, <1>x, <1>d, RecordTypes
        DEF ShutdownControls, unstoppedVars, historyVars, stoppedVars
    <2>4. ASSUME ShutdownSnapshot
           PROVE  ShutdownTypeOK'
      <3>1. { active[s].run : s \in ActiveRuns } \subseteq Run
        BY <1>a DEF ActiveRuns, Admitted
      <3>2. sd' \in PassRecord
        BY <2>4, <3>1 DEF ShutdownSnapshot, PassRecord, ShutdownPc
      <3> QED
        BY <2>4, <3>2 DEF ShutdownSnapshot, unstoppedVars, historyVars, stoppedVars
    <2>5. ASSUME ShutdownMarked
           PROVE  ShutdownTypeOK'
      <3>1. sd' \in PassRecord
        BY <2>5 DEF ShutdownMarked, PassRecord, ShutdownPc
      <3> QED
        BY <2>5, <3>1, <1>w, <1>x, <1>d, RecordTypes
        DEF ShutdownMarked, unstoppedVars, historyVars, stoppedVars
    <2>6. ASSUME ShutdownJoinAborts
           PROVE  ShutdownTypeOK'
      <3>1. sd' \in PassRecord
        BY <2>6 DEF ShutdownJoinAborts, PassRecord, ShutdownPc, AllOk
      <3> QED
        BY <2>6, <3>1, <1>w, <1>x, <1>d, RecordTypes
        DEF ShutdownJoinAborts, unstoppedVars, historyVars, stoppedVars
    <2>7. ASSUME ShutdownRuntimes
           PROVE  ShutdownTypeOK'
      <3>1. sd' \in PassRecord
        BY <2>7 DEF ShutdownRuntimes, PassRecord, ShutdownPc
      <3> QED
        BY <2>7, <3>1, <1>w, <1>x, <1>d, RecordTypes
        DEF ShutdownRuntimes, unstoppedVars, historyVars, stoppedVars
    <2>8. ASSUME ShutdownJoinStops
           PROVE  ShutdownTypeOK'
      <3>1. sd' \in PassRecord
        BY <2>8 DEF ShutdownJoinStops, PassRecord, ShutdownPc, AllOk
      <3> QED
        BY <2>8, <3>1, <1>w, <1>x, <1>d, RecordTypes
        DEF ShutdownJoinStops, unstoppedVars, historyVars, stoppedVars
    <2>9. ASSUME ShutdownWatchers
           PROVE  ShutdownTypeOK'
      <3>1. sd' \in PassRecord
        BY <2>9 DEF ShutdownWatchers, PassRecord, ShutdownPc, AliveWatchers
      <3> QED
        BY <2>9, <3>1, <1>w, <1>x, <1>d, RecordTypes
        DEF ShutdownWatchers, unstoppedVars, historyVars, stoppedVars
    <2>10. ASSUME ShutdownFinish
           PROVE  ShutdownTypeOK'
      <3>1. sd' \in PassRecord
        BY <2>10 DEF ShutdownFinish, PassRecord, ShutdownPc
      <3> QED
        BY <2>10, <3>1, <1>w, <1>x, <1>d, RecordTypes
        DEF ShutdownFinish, unstoppedVars, historyVars, stoppedVars
    <2>11. ASSUME ShutdownTimeout
           PROVE  ShutdownTypeOK'
      <3>1. sd.timeouts + 1 \in Nat
        BY SMTT(60) DEF PassRecord
      <3>2. sd' \in PassRecord
        BY <2>11, <3>1 DEF ShutdownTimeout, PassRecord, ShutdownPc
      <3> QED
        BY <2>11, <3>2, <1>d DEF ShutdownTimeout, unstoppedVars, historyVars, stoppedVars
    <2> QED
      BY <1>5, <1>3, <2>1, <2>2, <2>3, <2>4, <2>5, <2>6, <2>7, <2>8, <2>9, <2>10, <2>11
      DEF ShutdownPass
  <1>6. CASE UNCHANGED vars
    BY <1>6 DEF vars, sharedVars, admissionVars, controlVars, runtimeVars, agentVars,
                 historyVars, shutdownVars, stoppedVars, unstoppedVars
  <1> QED
    BY <1>1, <1>2, <1>3, <1>4, <1>5, <1>6 DEF Next

(* Thread records change only in the steps of threads. *)
LEMMA ThreadsStep ==
  ASSUME TypeOK, Shape, [Next]_vars
  PROVE  ThreadsOK'
  <1>1. ASSUME UNCHANGED thr PROVE ThreadsOK'
    BY <1>1 DEF ThreadsOK, Shape, TypeOK, ControlTypeOK
  <1>2. ASSUME NEW s \in Session, Abort(s) \/ StopWorkerRuns(s) \/ StopWorkerReturns(s)
        PROVE  UNCHANGED thr
    BY <1>2 DEF Abort, AbortRun, AbortIdle, StopWorkerRuns, StopWorkerReturns, unstoppedVars
  <1>3. ASSUME NEW r \in Run, RunFinishes(r) \/ WatcherStep(r) \/ AbortWorkerRuns(r)
        PROVE  UNCHANGED thr
    BY <1>3 DEF RunFinishes, WatcherStep, WatchTimeout, WatchComplete, WatcherEmit,
       WatcherCallback, WatcherExit, AbortWorkerRuns, unstoppedVars
  <1>4. ASSUME ShutdownBegin \/ ShutdownPass \/ ShutdownTimeout
        PROVE  UNCHANGED thr
    BY <1>4 DEF ShutdownBegin, ShutdownPass, ShutdownTimeout, ShutdownControls,
       ShutdownSnapshot, ShutdownMark, ShutdownMarked, ShutdownJoinAborts, ShutdownRuntimes,
       ShutdownJoinStops, ShutdownWatchers, ShutdownFinish, unstoppedVars
  <1>5. ASSUME AtRest \/ UNCHANGED vars
        PROVE  UNCHANGED thr
    BY <1>5 DEF AtRest, vars
  <1> QED
    BY <1>1, <1>2, <1>3, <1>4, <1>5, RequestThreads, StepThreads DEF Next

-----------------------------------------------------------------------------
(* The invariant itself, conjunct by conjunct. *)
SlotsOK == SlotShape /\ StatesAgree

(* A session's entry and what clients read of it stay in step. *)
LEMMA SlotsStep ==
  ASSUME CoordinatorInv, [Next]_vars
  PROVE  SlotsOK'
  <1> USE DEF SlotsOK
  <1> TypeOK /\ Shape /\ SlotShape /\ SlotsOK /\ Ownership
    BY DEF CoordinatorInv
  <1>c. ControlHeld /\ \A o \in Controls : o # "none"
    BY DEF CoordinatorInv, Controls
  <1>t. active \in [Session -> RuntimeState] /\ states \in [Session -> RuntimeState]
    BY DEF TypeOK, AdmissionTypeOK
  <1>i. /\ IdleState \in RuntimeState /\ IdleState.status = "idle"
        /\ IdleState.run = NoRun /\ NoRun \notin Run
    BY RecordTypes, SMTT(60) DEF IdleState, NoRun, Run
  <1>r. ASSUME NEW s \in Session, NEW st \in RuntimeState, st.status # "idle",
               st.run # NoRun, RecordState(s, st)
        PROVE  SlotsOK'
    BY <1>t, <1>r DEF RecordState, SlotShape, StatesAgree, Admitted
  <1>f. ASSUME NEW s \in Session, NEW st \in RuntimeState, st.status = "idle",
               FreeSlot(s, st)
        PROVE  SlotsOK'
    BY <1>t, <1>i, <1>f DEF FreeSlot, SlotShape, StatesAgree, Admitted
  <1>s. ASSUME NEW s \in Session, NEW x \in {"aborting", "error"}, active[s].run # NoRun,
               RecordState(s, [active[s] EXCEPT !.status = x])
        PROVE  SlotsOK'
    <2> DEFINE new == [active[s] EXCEPT !.status = x]
    <2>1. new \in RuntimeState /\ new.status # "idle" /\ new.run # NoRun
      BY <1>s, <1>t, SMTT(60) DEF RuntimeState
    <2> HIDE DEF new
    <2>2. RecordState(s, new)
      BY <1>s DEF new
    <2> QED
      BY <1>r, <2>1, <2>2
  <1>1. CASE \E t \in Thread, s \in Session : Request(t, s)
    <2>1. ASSUME NEW t \in Thread, NEW s \in Session, EnsureStart(t, s)
                 \/ SideQuestionStart(t, s) \/ ConfigureStart(t, s) \/ RewindStart(t, s)
                 \/ ReleaseStart(t, s) \/ RestorePrepare(t, s)
          PROVE  SlotsOK'
      BY <2>1 DEF EnsureStart, SideQuestionStart, ConfigureStart, RewindStart, ReleaseStart,
                  RestorePrepare, ControlStart, vars, sharedVars, admissionVars, controlVars,
                  runtimeVars, agentVars, historyVars, shutdownVars, stoppedVars,
                  unstoppedVars, SlotShape, StatesAgree, Admitted
    <2>2. ASSUME NEW t \in Thread, NEW s \in Session, SubmitAdmit(t, s)
          PROVE  SlotsOK'
      <3>1. nextRun \in Run /\ nextRun # NoRun
        BY <2>2, BoundsAssumption, SMTT(60) DEF SubmitAdmit, Run, NoRun, TypeOK, AdmissionTypeOK
      <3> QED
        BY <2>2, <3>1, <1>r, StartingType DEF SubmitAdmit
    <2> QED
      BY <1>1, <2>1, <2>2 DEF Request
  <1>2. CASE \E t \in Thread : ThreadStep(t)
    <2>1. ASSUME NEW t \in Thread, LookupRuntime(t) \/ EnterGate(t) \/ CreateRuntime(t)
                 \/ CreateFails(t) \/ InstallRuntime(t) \/ DiscardCreatedRuntime(t)
          PROVE  SlotsOK'
      BY <2>1 DEF LookupRuntime, EnterGate, CreateRuntime, CreateFails, InstallRuntime,
                  DiscardCreatedRuntime, vars, sharedVars, admissionVars, controlVars,
                  runtimeVars, agentVars, historyVars, shutdownVars, stoppedVars,
                  unstoppedVars, SlotShape, StatesAgree, Admitted
    <2>2. ASSUME NEW t \in Thread, CheckReservation(t) \/ EmitAborted(t)
                 \/ CallbackAborted(t) \/ RuntimeSubmit(t) \/ RuntimeSubmitFails(t)
                 \/ StartWatcher(t)
          PROVE  SlotsOK'
      BY <2>2 DEF CheckReservation, EmitAborted, CallbackAborted, RuntimeSubmit,
                  RuntimeSubmitFails, StartWatcher, vars, sharedVars, admissionVars,
                  controlVars, runtimeVars, agentVars, historyVars, shutdownVars, stoppedVars,
                  unstoppedVars, SlotShape, StatesAgree, Admitted
    <2>3. ASSUME NEW t \in Thread, FinishOperation(t) \/ ReleasePop(t) \/ DisposeDetached(t)
                 \/ ReplaceAdmit(t) \/ ReplaceRefused(t) \/ DisposeRefused(t)
          PROVE  SlotsOK'
      BY <2>3 DEF FinishOperation, ReleasePop, DisposeDetached, ReplaceAdmit, ReplaceRefused,
                  DisposeRefused, vars, sharedVars, admissionVars, controlVars, runtimeVars,
                  agentVars, historyVars, shutdownVars, stoppedVars, unstoppedVars, SlotShape,
                  StatesAgree, Admitted
    <2>4. ASSUME NEW t \in Thread, FinishAbortedStart(t)
          PROVE  SlotsOK'
      <3>1. thr[t].session \in Session
        BY <2>4 DEF FinishAbortedStart, CoordinatorInv, Shape, ShapeOf
      <3>2. thr[t].run \in Run
        BY <2>4 DEF FinishAbortedStart, Shape, ShapeOf
      <3>3. CASE Owns(t)
        BY <2>4, <3>1, <3>2, <3>3, <1>f, CompletedType DEF FinishAbortedStart
      <3>4. CASE ~Owns(t)
        BY <2>4, <3>4 DEF FinishAbortedStart, SlotShape, StatesAgree, Admitted
      <3> QED
        BY <3>3, <3>4
    <2>5. ASSUME NEW t \in Thread, ReleaseReservation(t)
          PROVE  SlotsOK'
      <3>1. thr[t].session \in Session
        BY <2>5 DEF ReleaseReservation, CoordinatorInv, Shape, ShapeOf
      <3>2. CASE Owns(t)
        BY <2>5, <3>1, <3>2, <1>f, <1>i DEF ReleaseReservation
      <3>3. CASE ~Owns(t)
        BY <2>5, <3>3 DEF ReleaseReservation, SlotShape, StatesAgree, Admitted
      <3> QED
        BY <3>2, <3>3
    <2>6. ASSUME NEW t \in Thread, PublishRunning(t)
          PROVE  SlotsOK'
      <3>1. thr[t].session \in Session
        BY <2>6 DEF PublishRunning, CoordinatorInv, Shape, ShapeOf
      <3>2. CASE Owns(t) /\ active[thr[t].session].status = "starting"
        <4>1. active[thr[t].session].run # NoRun
          BY <3>1, <3>2, <1>i DEF SlotShape, Admitted
        <4> DEFINE new == [active[thr[t].session] EXCEPT !.status = "running", !.stream = TRUE]
        <4>2. new \in RuntimeState /\ new.status # "idle" /\ new.run # NoRun
          BY <3>1, <4>1, <1>t, RunningType
        <4>3. RecordState(thr[t].session, new)
          BY <2>6, <3>2 DEF PublishRunning
        <4> HIDE DEF new
        <4> QED
          BY <3>1, <4>2, <4>3, <1>r
      <3>3. CASE ~(Owns(t) /\ active[thr[t].session].status = "starting")
        BY <2>6, <3>3 DEF PublishRunning, SlotShape, StatesAgree, Admitted
      <3> QED
        BY <3>2, <3>3
    <2>7. ASSUME NEW t \in Thread, WatcherStartFails(t)
          PROVE  SlotsOK'
      <3>1. thr[t].session \in Session
        BY <2>7 DEF WatcherStartFails, CoordinatorInv, Shape, ShapeOf
      <3>2. CASE Owns(t)
        BY <2>7, <3>1, <3>2, <1>f, <1>i DEF WatcherStartFails
      <3>3. CASE ~Owns(t)
        BY <2>7, <3>3 DEF WatcherStartFails, SlotShape, StatesAgree, Admitted
      <3> QED
        BY <3>2, <3>3
    <2>8. ASSUME NEW t \in Thread, ReleaseBump(t)
           PROVE  SlotsOK'
      <3>1. thr[t].session \in Session
        BY <2>8 DEF ReleaseBump, CoordinatorInv, Shape, ShapeOf
      <3>2. Holds(t)
        BY <2>8 DEF ReleaseBump, Shape, ShapeOf, Holds, Controls
      <3>3. ~Admitted(thr[t].session)
        BY <3>1, <3>2, <1>c DEF ControlHeld, Holds
      <3> QED
        BY <2>8, <3>1, <3>3, <1>i, <1>t DEF ReleaseBump, SlotShape, StatesAgree, Admitted
    <2>9. ASSUME NEW t \in Thread, ReplaceSwap(t)
           PROVE  SlotsOK'
      <3>1. thr[t].session \in Session
        BY <2>9 DEF ReplaceSwap, CoordinatorInv, Shape, ShapeOf
      <3>2. Holds(t)
        BY <2>9 DEF ReplaceSwap, Shape, ShapeOf, Holds, Controls
      <3>3. ~Admitted(thr[t].session)
        BY <3>1, <3>2, <1>c DEF ControlHeld, Holds
      <3> QED
        BY <2>9, <3>1, <3>3, <1>i, <1>t DEF ReplaceSwap, SlotShape, StatesAgree, Admitted
    <2> QED
      BY <1>2, <2>1, <2>2, <2>3, <2>4, <2>5, <2>6, <2>7, <2>8, <2>9 DEF ThreadStep
  <1>3. CASE \E s \in Session : \/ Abort(s) \/ StopWorkerRuns(s)
                              \/ StopWorkerReturns(s) \/ ShutdownMark(s)
    <2>1. ASSUME NEW s \in Session, AbortIdle(s) \/ StopWorkerRuns(s)
                  \/ StopWorkerReturns(s)
           PROVE  SlotsOK'
      BY <2>1, SMTT(60) DEF AbortIdle, StopWorkerRuns, StopWorkerReturns, vars, sharedVars,
                   admissionVars, controlVars, runtimeVars, agentVars, historyVars,
                   shutdownVars, stoppedVars, unstoppedVars, SlotShape, StatesAgree, Admitted
    <2>2. ASSUME NEW s \in Session, AbortRun(s)
           PROVE  SlotsOK'
      <3>1. active[s].status \in {"starting", "running"} => active[s].run # NoRun
        BY <1>i DEF SlotShape, Admitted
      <3> QED
        BY <2>2, <3>1, <1>s DEF AbortRun
    <2>3. ASSUME NEW s \in Session, ShutdownMark(s)
           PROVE  SlotsOK'
      <3>1. active[s].status \in {"starting", "running"} => active[s].run # NoRun
        BY <1>i DEF SlotShape, Admitted
      <3>2. CASE UNCHANGED <<active, states>>
        BY <3>2 DEF SlotShape, StatesAgree, Admitted
      <3>3. CASE ~UNCHANGED <<active, states>>
        BY <2>3, <3>1, <3>3, <1>s DEF ShutdownMark
      <3> QED
        BY <3>2, <3>3
    <2> QED
      BY <1>3, <2>1, <2>2, <2>3 DEF Abort
  <1>4. CASE \E r \in Run : RunFinishes(r) \/ WatcherStep(r) \/ AbortWorkerRuns(r)
    <2>1. ASSUME NEW r \in Run, RunFinishes(r) \/ WatcherEmit(r) \/ WatcherCallback(r)
                  \/ WatcherExit(r) \/ AbortWorkerRuns(r)
           PROVE  SlotsOK'
      BY <2>1 DEF RunFinishes, WatcherEmit, WatcherCallback, WatcherExit, AbortWorkerRuns,
                   vars, sharedVars, admissionVars, controlVars, runtimeVars, agentVars,
                   historyVars, shutdownVars, stoppedVars, unstoppedVars, SlotShape,
                   StatesAgree, Admitted
    <2>2. ASSUME NEW r \in Run, WatchTimeout(r)
           PROVE  SlotsOK'
      <3>1. runs[r].session \in Session /\ r # NoRun
        BY <2>2, SMTT(60) DEF WatchTimeout, Ownership, WatchersOwn, Watched, Run, NoRun
      <3> QED
        BY <2>2, <3>1, <1>s DEF WatchTimeout, Watches
    <2>3. ASSUME NEW r \in Run, WatchComplete(r)
           PROVE  SlotsOK'
      <3> DEFINE ended == IF active[runs[r].session].status = "aborting" THEN "cancelled"
                          ELSE runs[r].outcome
      <3>1. runs[r].session \in Session
        BY <2>3 DEF WatchComplete, Ownership, WatchersOwn, Watched
      <3>2. ended \in Outcomes \cup {"none", "cancelled"}
        BY DEF TypeOK, RuntimeTypeOK, RunRecord
      <3>3. /\ [IdleState EXCEPT !.completed = r, !.outcome = ended] \in RuntimeState
            /\ [IdleState EXCEPT !.completed = r, !.outcome = ended].status = "idle"
        BY <3>2, CompletedType
      <3>4. CASE Watches(r)
        BY <2>3, <3>1, <3>3, <3>4, <1>f DEF WatchComplete
      <3>5. CASE ~Watches(r)
        BY <2>3, <3>5 DEF WatchComplete, SlotShape, StatesAgree, Admitted
      <3> QED
        BY <3>4, <3>5
    <2> QED
      BY <1>4, <2>1, <2>2, <2>3 DEF WatcherStep
  <1>5. CASE ShutdownBegin \/ ShutdownPass \/ ShutdownTimeout \/ AtRest
    <2>1. ASSUME ShutdownBegin \/ ShutdownControls \/ ShutdownSnapshot \/ ShutdownMarked
                  \/ ShutdownJoinAborts \/ ShutdownRuntimes
           PROVE  SlotsOK'
      BY <2>1 DEF ShutdownBegin, ShutdownControls, ShutdownSnapshot, ShutdownMarked,
                   ShutdownJoinAborts, ShutdownRuntimes, vars, sharedVars, admissionVars,
                   controlVars, runtimeVars, agentVars, historyVars, shutdownVars, stoppedVars,
                   unstoppedVars, SlotShape, StatesAgree, Admitted
    <2>2. ASSUME ShutdownJoinStops \/ ShutdownWatchers \/ ShutdownFinish \/ ShutdownTimeout
                  \/ AtRest
           PROVE  SlotsOK'
      BY <2>2 DEF ShutdownJoinStops, ShutdownWatchers, ShutdownFinish, ShutdownTimeout,
                   AtRest, vars, sharedVars, admissionVars, controlVars, runtimeVars,
                   agentVars, historyVars, shutdownVars, stoppedVars, unstoppedVars, SlotShape,
                   StatesAgree, Admitted
    <2> QED
      BY <1>5, <1>3, <2>1, <2>2 DEF ShutdownPass
  <1>6. CASE UNCHANGED vars
    BY <1>6 DEF vars, sharedVars, admissionVars, controlVars, runtimeVars, agentVars,
                 historyVars, shutdownVars, stoppedVars, unstoppedVars, SlotShape,
                 StatesAgree, Admitted
  <1> QED
    BY <1>1, <1>2, <1>3, <1>4, <1>5, <1>6 DEF Next

RunsKept == \A s \in Session : active'[s].run \in {active[s].run, NoRun}

(* Only an admission puts a run into a slot; every other step keeps the run of *)
(* a slot or empties it.                                                       *)
LEMMA RunsKeptStep ==
  ASSUME CoordinatorInv, [Next]_vars
  PROVE  RunsKept \/ \E t \in Thread, s \in Session : SubmitAdmit(t, s)
  <1> USE DEF RunsKept
  <1>t. active \in [Session -> RuntimeState] /\ IdleState.run = NoRun
    BY DEF CoordinatorInv, TypeOK, AdmissionTypeOK, IdleState
  <1>f. ASSUME NEW s, NEW st, FreeSlot(s, st)
        PROVE  RunsKept
    BY <1>f, <1>t DEF FreeSlot
  <1>s. ASSUME NEW s \in Session, NEW x \in {"aborting", "error"},
               RecordState(s, [active[s] EXCEPT !.status = x])
        PROVE  RunsKept
    <2>1. [active[s] EXCEPT !.status = x].run = active[s].run
      BY <1>t, SMTT(60) DEF RuntimeState
    <2> QED
      BY <1>s, <1>t, <2>1 DEF RecordState
  <1>1. CASE \E t \in Thread, s \in Session : Request(t, s)
    <2>1. ASSUME NEW t \in Thread, NEW s \in Session, EnsureStart(t, s)
                 \/ SideQuestionStart(t, s) \/ ConfigureStart(t, s) \/ RewindStart(t, s)
                 \/ ReleaseStart(t, s) \/ RestorePrepare(t, s)
          PROVE  RunsKept
      BY <2>1 DEF EnsureStart, SideQuestionStart, ConfigureStart, RewindStart, ReleaseStart,
                  RestorePrepare, ControlStart, vars, sharedVars, admissionVars, controlVars,
                  runtimeVars, agentVars, historyVars, shutdownVars, stoppedVars,
                  unstoppedVars
    <2> QED
      BY <1>1, <2>1 DEF Request
  <1>2. CASE \E t \in Thread : ThreadStep(t)
    <2>1. ASSUME NEW t \in Thread, LookupRuntime(t) \/ EnterGate(t) \/ CreateRuntime(t)
                 \/ CreateFails(t) \/ InstallRuntime(t) \/ DiscardCreatedRuntime(t)
          PROVE  RunsKept
      BY <2>1 DEF LookupRuntime, EnterGate, CreateRuntime, CreateFails, InstallRuntime,
                  DiscardCreatedRuntime, vars, sharedVars, admissionVars, controlVars,
                  runtimeVars, agentVars, historyVars, shutdownVars, stoppedVars,
                  unstoppedVars
    <2>2. ASSUME NEW t \in Thread, CheckReservation(t) \/ EmitAborted(t)
                 \/ CallbackAborted(t) \/ RuntimeSubmit(t) \/ RuntimeSubmitFails(t)
                 \/ StartWatcher(t)
          PROVE  RunsKept
      BY <2>2 DEF CheckReservation, EmitAborted, CallbackAborted, RuntimeSubmit,
                  RuntimeSubmitFails, StartWatcher, vars, sharedVars, admissionVars,
                  controlVars, runtimeVars, agentVars, historyVars, shutdownVars, stoppedVars,
                  unstoppedVars
    <2>3. ASSUME NEW t \in Thread, FinishOperation(t) \/ ReleasePop(t) \/ ReleaseBump(t)
                 \/ DisposeDetached(t) \/ ReplaceAdmit(t) \/ ReplaceRefused(t)
          PROVE  RunsKept
      BY <2>3 DEF FinishOperation, ReleasePop, ReleaseBump, DisposeDetached, ReplaceAdmit,
                  ReplaceRefused, vars, sharedVars, admissionVars, controlVars, runtimeVars,
                  agentVars, historyVars, shutdownVars, stoppedVars, unstoppedVars
    <2>4. ASSUME NEW t \in Thread, DisposeRefused(t) \/ ReplaceSwap(t)
          PROVE  RunsKept
      BY <2>4 DEF DisposeRefused, ReplaceSwap, vars, sharedVars, admissionVars, controlVars,
                  runtimeVars, agentVars, historyVars, shutdownVars, stoppedVars,
                  unstoppedVars
    <2>5. ASSUME NEW t \in Thread, FinishAbortedStart(t)
          PROVE  RunsKept
      <3>1. CASE Owns(t)
        BY <2>5, <3>1, <1>f DEF FinishAbortedStart
      <3>2. CASE ~Owns(t)
        BY <2>5, <3>2 DEF FinishAbortedStart
      <3> QED
        BY <3>1, <3>2
    <2>6. ASSUME NEW t \in Thread, ReleaseReservation(t)
          PROVE  RunsKept
      <3>1. CASE Owns(t)
        BY <2>6, <3>1, <1>f DEF ReleaseReservation
      <3>2. CASE ~Owns(t)
        BY <2>6, <3>2 DEF ReleaseReservation
      <3> QED
        BY <3>1, <3>2
    <2>7. ASSUME NEW t \in Thread, PublishRunning(t)
          PROVE  RunsKept
      <3>1. thr[t].session \in Session
        BY <2>7 DEF PublishRunning, CoordinatorInv, Shape, ShapeOf
      <3>2. CASE Owns(t) /\ active[thr[t].session].status = "starting"
        BY <2>7, <3>1, <3>2, <1>t, RunningType DEF PublishRunning, RecordState
      <3>3. CASE ~(Owns(t) /\ active[thr[t].session].status = "starting")
        BY <2>7, <3>3 DEF PublishRunning
      <3> QED
        BY <3>2, <3>3
    <2>8. ASSUME NEW t \in Thread, WatcherStartFails(t)
           PROVE  RunsKept
      <3>1. CASE Owns(t)
        BY <2>8, <3>1, <1>f DEF WatcherStartFails
      <3>2. CASE ~Owns(t)
        BY <2>8, <3>2 DEF WatcherStartFails
      <3> QED
        BY <3>1, <3>2
    <2> QED
      BY <1>2, <2>1, <2>2, <2>3, <2>4, <2>5, <2>6, <2>7, <2>8 DEF ThreadStep
  <1>3. CASE \E s \in Session : \/ Abort(s) \/ StopWorkerRuns(s)
                              \/ StopWorkerReturns(s) \/ ShutdownMark(s)
    <2>1. ASSUME NEW s \in Session, AbortIdle(s) \/ StopWorkerRuns(s)
                  \/ StopWorkerReturns(s)
           PROVE  RunsKept
      BY <2>1 DEF AbortIdle, StopWorkerRuns, StopWorkerReturns, vars, sharedVars,
                   admissionVars, controlVars, runtimeVars, agentVars, historyVars,
                   shutdownVars, stoppedVars, unstoppedVars
    <2>2. ASSUME NEW s \in Session, AbortRun(s)
           PROVE  RunsKept
      BY <2>2, <1>s DEF AbortRun
    <2>3. ASSUME NEW s \in Session, ShutdownMark(s)
           PROVE  RunsKept
      <3>1. CASE UNCHANGED active
        BY <3>1
      <3>2. CASE ~UNCHANGED active
        BY <2>3, <3>2, <1>s DEF ShutdownMark
      <3> QED
        BY <3>1, <3>2
    <2> QED
      BY <1>3, <2>1, <2>2, <2>3 DEF Abort
  <1>4. CASE \E r \in Run : RunFinishes(r) \/ WatcherStep(r) \/ AbortWorkerRuns(r)
    <2>1. ASSUME NEW r \in Run, RunFinishes(r) \/ WatcherEmit(r) \/ WatcherCallback(r)
                  \/ WatcherExit(r) \/ AbortWorkerRuns(r)
           PROVE  RunsKept
      BY <2>1 DEF RunFinishes, WatcherEmit, WatcherCallback, WatcherExit, AbortWorkerRuns,
                   vars, sharedVars, admissionVars, controlVars, runtimeVars, agentVars,
                   historyVars, shutdownVars, stoppedVars, unstoppedVars
    <2>2. ASSUME NEW r \in Run, WatchTimeout(r)
           PROVE  RunsKept
      <3>1. runs[r].session \in Session
        BY <2>2 DEF WatchTimeout, CoordinatorInv, Ownership, WatchersOwn, Watched
      <3> QED
        BY <2>2, <3>1, <1>s DEF WatchTimeout
    <2>3. ASSUME NEW r \in Run, WatchComplete(r)
           PROVE  RunsKept
      <3>1. CASE Watches(r)
        BY <2>3, <3>1, <1>f DEF WatchComplete
      <3>2. CASE ~Watches(r)
        BY <2>3, <3>2 DEF WatchComplete
      <3> QED
        BY <3>1, <3>2
    <2> QED
      BY <1>4, <2>1, <2>2, <2>3 DEF WatcherStep
  <1>5. CASE ShutdownBegin \/ ShutdownPass \/ ShutdownTimeout \/ AtRest
    <2>1. ASSUME ShutdownBegin \/ ShutdownControls \/ ShutdownSnapshot \/ ShutdownMarked
                  \/ ShutdownJoinAborts \/ ShutdownRuntimes
           PROVE  RunsKept
      BY <2>1 DEF ShutdownBegin, ShutdownControls, ShutdownSnapshot, ShutdownMarked,
                   ShutdownJoinAborts, ShutdownRuntimes, vars, sharedVars, admissionVars,
                   controlVars, runtimeVars, agentVars, historyVars, shutdownVars, stoppedVars,
                   unstoppedVars
    <2>2. ASSUME ShutdownJoinStops \/ ShutdownWatchers \/ ShutdownFinish \/ ShutdownTimeout
                  \/ AtRest
           PROVE  RunsKept
      BY <2>2 DEF ShutdownJoinStops, ShutdownWatchers, ShutdownFinish, ShutdownTimeout,
                   AtRest, vars, sharedVars, admissionVars, controlVars, runtimeVars,
                   agentVars, historyVars, shutdownVars, stoppedVars, unstoppedVars
    <2> QED
      BY <1>5, <1>3, <2>1, <2>2 DEF ShutdownPass
  <1>6. CASE UNCHANGED vars
    BY <1>6 DEF vars, sharedVars, admissionVars, controlVars, runtimeVars, agentVars,
                 historyVars, shutdownVars, stoppedVars, unstoppedVars
  <1> QED
    BY <1>1, <1>2, <1>3, <1>4, <1>5, <1>6 DEF Next

(* The exclusive controls stay exclusive. *)
LEMMA ControlHeldStep ==
  ASSUME CoordinatorInv, [Next]_vars
  PROVE  ControlHeld'
  <1>z. ControlTypeOK /\ ControlMapsOK
    BY DEF CoordinatorInv, TypeOK, ControlTypeOK, ControlMapsOK
  <1>c. ControlHeld /\ TypeOK /\ Shape
    BY DEF CoordinatorInv
  <1>k. control \in [Session -> Controls \cup {"none"}] /\ sideQuestions \in [Session -> Nat]
    BY <1>z DEF ControlMapsOK
  <1>n. "none" \notin Controls
    BY DEF Controls
  <1>u. thr \in [Thread -> ThreadRecord]
    BY <1>z DEF ControlTypeOK
  <1>p. \A t \in Thread : ShapeOf(thr[t])
    BY <1>c DEF Shape
  <1>v. ASSUME NEW t \in Thread, NEW s \in Session, SubmitAdmit(t, s)
        PROVE  ControlHeld'
    <2>1. ControlFree(s) /\ Begin(t, "submit", s, nextRun, "lookup", NoRuntime)
      BY <1>v DEF SubmitAdmit
    <2>2. \A z \in Session : z # s => active'[z] = active[z]
      BY <1>v, SMTT(60) DEF SubmitAdmit, RecordState, TypeOK, AdmissionTypeOK
    <2>3. UNCHANGED <<control, sideQuestions>>
      BY <1>v DEF SubmitAdmit, controlVars
    <2>4. thr'[t].op = "submit" /\ \A u \in Thread : u # t => thr'[u] = thr[u]
      BY <2>1, <1>u DEF Begin
    <2>5. \A u \in Thread : Holds(u)' => u # t /\ thr'[u] = thr[u]
      BY <2>4 DEF Holds, Controls
    <2> QED
      BY <2>1, <2>2, <2>3, <2>5, <1>c, SMTT(60) DEF ControlHeld, Holds, ControlFree, Admitted
  <1>w. SUFFICES ASSUME \A s \in Session : Admitted(s)' => Admitted(s)
                 PROVE  ControlHeld'
    BY <1>v, RunsKeptStep DEF RunsKept, Admitted
  <1>q. ASSUME NEW t \in Thread, UNCHANGED <<control, sideQuestions>>,
               \A u \in Thread : u # t => thr'[u] = thr[u],
               Holds(t)' => /\ Holds(t) /\ thr'[t].op = thr[t].op
                            /\ thr'[t].session = thr[t].session
        PROVE  ControlHeld'
    <2>1. \A u \in Thread : Holds(u)' => /\ Holds(u) /\ thr'[u].op = thr[u].op
                                        /\ thr'[u].session = thr[u].session
      BY <1>q DEF Holds
    <2> QED
      BY <1>c, <1>q, <1>w, <2>1, SMTT(60) DEF ControlHeld
  <1>b. ASSUME NEW t \in Thread, NEW o, NEW s, NEW r, NEW p, NEW x,
               Begin(t, o, s, r, p, x), o \notin Controls \/ p = "prepared",
               UNCHANGED <<control, sideQuestions>>
        PROVE  ControlHeld'
    <2>1. thr'[t].op = o /\ thr'[t].pc = p /\ \A u \in Thread : u # t => thr'[u] = thr[u]
      BY <1>b, <1>u DEF Begin
    <2>2. ~Holds(t)'
      BY <1>b, <2>1 DEF Holds
    <2> QED
      BY <1>b, <1>q, <2>1, <2>2
  <1>g. ASSUME NEW t \in Thread, NEW p, NEW e, NEW x, Move(t, p, e, x),
               thr[t].pc \notin {"prepared", "refused"} \/ p \in {"prepared", "refused"},
               UNCHANGED <<control, sideQuestions>>
        PROVE  ControlHeld'
    <2>1. /\ thr'[t].op = thr[t].op /\ thr'[t].session = thr[t].session /\ thr'[t].pc = p
          /\ \A u \in Thread : u # t => thr'[u] = thr[u]
      BY <1>g, <1>u, SMTT(60) DEF Move, ThreadRecord
    <2> QED
      BY <1>g, <1>q, <2>1 DEF Holds
  <1>h. ASSUME NEW t \in Thread, NEW p, Goto(t, p),
               thr[t].pc \notin {"prepared", "refused"} \/ p \in {"prepared", "refused"},
               UNCHANGED <<control, sideQuestions>>
        PROVE  ControlHeld'
    BY <1>g, <1>h DEF Goto
  <1>r. ASSUME NEW t \in Thread, Return(t), UNCHANGED <<control, sideQuestions>>,
               thr[t].op \notin Controls \/ thr[t].pc \in {"prepared", "refused"}
        PROVE  ControlHeld'
    BY <1>z, <1>n, <1>q, <1>r, ReturnFacts DEF Holds
  <1>a. ASSUME NEW t \in Thread, NEW s \in Session, NEW o \in Controls,
               ExclusiveAdmissible(s), control' = [control EXCEPT ![s] = o],
               UNCHANGED <<active, sideQuestions>>, thr'[t].op = o, thr'[t].session = s,
               \A u \in Thread : u # t => thr'[u] = thr[u]
        PROVE  ControlHeld'
    <2>1. /\ thr'[t].op = o /\ thr'[t].session = s
          /\ \A u \in Thread : u # t => thr'[u] = thr[u]
      BY <1>a
    <2>2. /\ ControlFree(s) /\ ~Admitted(s) /\ sideQuestions[s] = 0
          /\ control' = [control EXCEPT ![s] = o] /\ UNCHANGED <<active, sideQuestions>>
      BY <1>a DEF ExclusiveAdmissible
    <2>3. \A u \in Thread : Holds(u) => thr[u].session # s
      BY <2>2, <1>c, <1>n DEF ControlHeld, ControlFree, Holds
    <2>4. \A u \in Thread : u # t => Holds(u)' = Holds(u)
      BY <2>1 DEF Holds
    <2>5. \A u \in Thread : u # t /\ Holds(u) => control'[thr[u].session] = thr[u].op
      BY <2>2, <2>3, <1>c, <1>k, SMTT(60) DEF ControlHeld
    <2>6. \A z \in Session : control'[z] # "none" => ~Admitted(z)' /\ sideQuestions'[z] = 0
      BY <2>2, <1>c, <1>k DEF ControlHeld, Admitted
    <2>7. control'[s] = o
      BY <2>2, <1>k
    <2> QED
      BY <1>c, <2>1, <2>3, <2>4, <2>5, <2>6, <2>7, SMTT(60) DEF ControlHeld
  <1>e. ASSUME NEW t \in Thread, NEW s \in Session, NEW o \in Controls, NEW p,
               ControlStart(t, o, s, p)
        PROVE  ControlHeld'
    BY <1>a, <1>e, <1>u DEF ControlStart, Begin, admissionVars
  <1>o. ASSUME UNCHANGED <<thr, control, sideQuestions>>
        PROVE  ControlHeld'
    BY <1>c, <1>o, <1>w DEF ControlHeld, Holds
  <1>1. CASE \E t \in Thread, s \in Session : Request(t, s)
    <2>1. ASSUME NEW t \in Thread, NEW s \in Session, EnsureStart(t, s)
          PROVE  ControlHeld'
      BY <2>1, <1>b DEF EnsureStart, Free, Controls, sharedVars, controlVars
    <2>2. ASSUME NEW t \in Thread, NEW s \in Session, SideQuestionStart(t, s)
          PROVE  ControlHeld'
      <3>1. /\ Begin(t, "btw", s, NoRun, "lookup", NoRuntime) /\ ControlFree(s)
            /\ UNCHANGED <<control, active>>
            /\ \A z \in Session : z # s => sideQuestions'[z] = sideQuestions[z]
        BY <2>2, SMTT(60) DEF SideQuestionStart, TypeOK, ControlTypeOK, admissionVars
      <3>2. thr'[t].op = "btw" /\ \A u \in Thread : u # t => thr'[u] = thr[u]
        BY <3>1, <1>u DEF Begin
      <3>3. \A u \in Thread : Holds(u)' => u # t /\ thr'[u] = thr[u]
        BY <3>2 DEF Holds, Controls
      <3> QED
        BY <3>1, <3>3, <1>c, SMTT(60) DEF ControlHeld, Holds, ControlFree, Admitted
    <2>3. ASSUME NEW t \in Thread, NEW s \in Session, ConfigureStart(t, s)
          PROVE  ControlHeld'
      BY <2>3, <1>e DEF ConfigureStart, Controls
    <2>4. ASSUME NEW t \in Thread, NEW s \in Session, RewindStart(t, s)
          PROVE  ControlHeld'
      BY <2>4, <1>e DEF RewindStart, Controls
    <2>5. ASSUME NEW t \in Thread, NEW s \in Session, ReleaseStart(t, s)
          PROVE  ControlHeld'
      BY <2>5, <1>e DEF ReleaseStart, Controls
    <2>6. ASSUME NEW t \in Thread, NEW s \in Session, RestorePrepare(t, s)
          PROVE  ControlHeld'
      BY <2>6, <1>b DEF RestorePrepare, Free, controlVars
    <2> QED
      BY <1>1, <1>v, <2>1, <2>2, <2>3, <2>4, <2>5, <2>6 DEF Request
  <1>2. CASE \E t \in Thread : ThreadStep(t)
    <2>1. ASSUME NEW t \in Thread, LookupRuntime(t)
          PROVE  ControlHeld'
      BY <2>1, <1>g DEF LookupRuntime, sharedVars, controlVars
    <2>2. ASSUME NEW t \in Thread, EnterGate(t)
          PROVE  ControlHeld'
      BY <2>2, <1>g DEF EnterGate, sharedVars, controlVars
    <2>3. ASSUME NEW t \in Thread, CreateRuntime(t)
           PROVE  ControlHeld'
      BY <2>3, <1>g DEF CreateRuntime, sharedVars, controlVars
    <2>4. ASSUME NEW t \in Thread, CreateFails(t)
           PROVE  ControlHeld'
      BY <2>4, <1>h DEF CreateFails, sharedVars, controlVars
    <2>5. ASSUME NEW t \in Thread, InstallRuntime(t)
           PROVE  ControlHeld'
      BY <2>5, <1>h DEF InstallRuntime, sharedVars, controlVars
    <2>6. ASSUME NEW t \in Thread, DiscardCreatedRuntime(t)
           PROVE  ControlHeld'
      BY <2>6, <1>h DEF DiscardCreatedRuntime, sharedVars, controlVars
    <2>7. ASSUME NEW t \in Thread, CheckReservation(t)
           PROVE  ControlHeld'
      BY <2>7, <1>h DEF CheckReservation, sharedVars, controlVars
    <2>8. ASSUME NEW t \in Thread, FinishAbortedStart(t)
           PROVE  ControlHeld'
      BY <2>8, <1>h DEF FinishAbortedStart, sharedVars, controlVars
    <2>9. ASSUME NEW t \in Thread, EmitAborted(t)
           PROVE  ControlHeld'
      <3>1. CASE ~stopping
        BY <2>9, <3>1, <1>h DEF EmitAborted, sharedVars, controlVars
      <3>2. CASE ~(~stopping)
        BY <2>9, <3>2, <1>p, <1>r DEF EmitAborted, ShapeOf, Controls, sharedVars, controlVars
      <3> QED
        BY <3>1, <3>2
    <2>10. ASSUME NEW t \in Thread, CallbackAborted(t)
           PROVE  ControlHeld'
      BY <2>10, <1>p, <1>r DEF CallbackAborted, ShapeOf, Controls, sharedVars, controlVars
    <2>11. ASSUME NEW t \in Thread, RuntimeSubmit(t)
           PROVE  ControlHeld'
      BY <2>11, <1>h DEF RuntimeSubmit, sharedVars, controlVars
    <2>12. ASSUME NEW t \in Thread, RuntimeSubmitFails(t)
           PROVE  ControlHeld'
      BY <2>12, <1>h DEF RuntimeSubmitFails, sharedVars, controlVars
    <2>13. ASSUME NEW t \in Thread, ReleaseReservation(t)
           PROVE  ControlHeld'
      BY <2>13, <1>p, <1>r DEF ReleaseReservation, ShapeOf, Controls, sharedVars, controlVars
    <2>14. ASSUME NEW t \in Thread, PublishRunning(t)
           PROVE  ControlHeld'
      <3>1. CASE Owns(t)
        BY <2>14, <3>1, <1>h DEF PublishRunning, sharedVars, controlVars
      <3>2. CASE ~(Owns(t))
        BY <2>14, <3>2, <1>p, <1>r
        DEF PublishRunning, ShapeOf, Controls, sharedVars, controlVars
      <3> QED
        BY <3>1, <3>2
    <2>15. ASSUME NEW t \in Thread, StartWatcher(t)
           PROVE  ControlHeld'
      BY <2>15, <1>p, <1>r DEF StartWatcher, ShapeOf, Controls, sharedVars, controlVars
    <2>16. ASSUME NEW t \in Thread, WatcherStartFails(t)
           PROVE  ControlHeld'
      BY <2>16, <1>p, <1>r DEF WatcherStartFails, ShapeOf, Controls, sharedVars, controlVars
    <2>17. ASSUME NEW t \in Thread, FinishOperation(t)
           PROVE  ControlHeld'
      <3> DEFINE s == thr[t].session
                 o == thr[t].op
      <3>1. /\ thr'[t].op = "none" /\ \A u \in Thread : u # t => thr'[u] = thr[u]
        BY <2>17, <1>z, ReturnFacts DEF FinishOperation
      <3>2. s \in Session /\ UNCHANGED active
        BY <2>17, <1>p DEF FinishOperation, ShapeOf, admissionVars
      <3>3. \A u \in Thread : Holds(u)' => u # t /\ thr'[u] = thr[u] /\ Holds(u)
        BY <3>1, <1>n DEF Holds
      <3>4. /\ control' = [control EXCEPT ![s] = "none"] \/ control' = control
            /\ control'[s] # control[s] => Holds(t)
        BY <2>17, <3>2, <1>k DEF FinishOperation, Holds
      <3>5. \A z \in Session : sideQuestions[z] = 0 => sideQuestions'[z] = 0
        BY <2>17, <3>2, <1>k, SMTT(60) DEF FinishOperation
      <3>6. \A u \in Thread : Holds(u)' => control'[thr'[u].session] = thr'[u].op
        <4> SUFFICES ASSUME NEW u \in Thread, Holds(u)'
                     PROVE  control'[thr[u].session] = control[thr[u].session]
          BY <3>3, <1>c, SMTT(60) DEF ControlHeld
        <4>1. thr[u].session = s => ~Holds(t)
          BY <3>3, <1>c DEF ControlHeld
        <4>2. thr[u].session \in Session
          BY <3>3, <1>p, <1>n DEF Holds, ShapeOf
        <4> HIDE DEF s
        <4> QED
          BY <3>2, <3>4, <4>1, <4>2, <1>k
      <3>7. \A z \in Session : control'[z] # "none" => ~Admitted(z)' /\ sideQuestions'[z] = 0
        BY <3>2, <3>4, <3>5, <1>c, <1>k DEF ControlHeld, Admitted
      <3> QED
        BY <3>3, <3>6, <3>7, <1>c, SMTT(60) DEF ControlHeld
    <2>18. ASSUME NEW t \in Thread, ReleasePop(t)
           PROVE  ControlHeld'
      BY <2>18, <1>g DEF ReleasePop, sharedVars, controlVars
    <2>19. ASSUME NEW t \in Thread, ReleaseBump(t)
           PROVE  ControlHeld'
      BY <2>19, <1>h DEF ReleaseBump, sharedVars, controlVars
    <2>20. ASSUME NEW t \in Thread, DisposeDetached(t)
           PROVE  ControlHeld'
      BY <2>20, <1>h DEF DisposeDetached, sharedVars, controlVars
    <2>21. ASSUME NEW t \in Thread, ReplaceAdmit(t)
           PROVE  ControlHeld'
      <3> DEFINE s == thr[t].session
      <3>1. /\ thr[t].op = "restore" /\ s \in Session /\ ~Holds(t)
            /\ ExclusiveAdmissible(s) /\ UNCHANGED <<active, sideQuestions>>
            /\ control' = [control EXCEPT ![s] = "restore"]
            /\ Goto(t, "swap")
        BY <2>21, <1>p DEF ReplaceAdmit, ShapeOf, Holds, admissionVars
      <3>2. /\ thr'[t].op = "restore" /\ thr'[t].session = s
            /\ \A u \in Thread : u # t => thr'[u] = thr[u]
        BY <3>1, <1>z, GotoFacts DEF ThreadPc
      <3> HIDE DEF s
      <3> QED
        BY <3>1, <3>2, <1>a DEF Controls
    <2>22. ASSUME NEW t \in Thread, ReplaceRefused(t)
           PROVE  ControlHeld'
      <3>1. CASE stopping \/ ~Admitted(thr[t].session)
        BY <2>22, <3>1, <1>h DEF ReplaceRefused, sharedVars, controlVars
      <3>2. CASE ~(stopping \/ ~Admitted(thr[t].session))
        BY <2>22, <3>2, <1>p, <1>r
        DEF ReplaceRefused, ShapeOf, Controls, sharedVars, controlVars
      <3> QED
        BY <3>1, <3>2
    <2>23. ASSUME NEW t \in Thread, DisposeRefused(t)
           PROVE  ControlHeld'
      BY <2>23, <1>p, <1>r DEF DisposeRefused, ShapeOf, Controls, sharedVars, controlVars
    <2>24. ASSUME NEW t \in Thread, ReplaceSwap(t)
           PROVE  ControlHeld'
      BY <2>24, <1>g DEF ReplaceSwap, sharedVars, controlVars
    <2> QED
      BY <1>2, <2>1, <2>2, <2>3, <2>4, <2>5, <2>6, <2>7, <2>8, <2>9, <2>10, <2>11,
         <2>12, <2>13, <2>14, <2>15, <2>16, <2>17, <2>18, <2>19, <2>20, <2>21, <2>22,
         <2>23, <2>24
      DEF ThreadStep
  <1>3. CASE \E s \in Session : \/ Abort(s) \/ StopWorkerRuns(s)
                              \/ StopWorkerReturns(s) \/ ShutdownMark(s)
    <2>1. ASSUME NEW s \in Session, AbortRun(s) \/ AbortIdle(s) \/ StopWorkerRuns(s)
                  \/ StopWorkerReturns(s) \/ ShutdownMark(s)
           PROVE  ControlHeld'
      BY <2>1, <1>o
      DEF AbortRun, AbortIdle, StopWorkerRuns, StopWorkerReturns, ShutdownMark, vars,
                   sharedVars, admissionVars, controlVars, runtimeVars, agentVars, historyVars,
                   shutdownVars, stoppedVars, unstoppedVars
    <2> QED
      BY <1>3, <2>1 DEF Abort
  <1>4. CASE \E r \in Run : RunFinishes(r) \/ WatcherStep(r) \/ AbortWorkerRuns(r)
    <2>1. ASSUME NEW r \in Run, RunFinishes(r) \/ WatchTimeout(r) \/ WatchComplete(r)
                  \/ WatcherEmit(r) \/ WatcherCallback(r) \/ WatcherExit(r)
           PROVE  ControlHeld'
      BY <2>1, <1>o
      DEF RunFinishes, WatchTimeout, WatchComplete, WatcherEmit, WatcherCallback,
                   WatcherExit, vars, sharedVars, admissionVars, controlVars, runtimeVars,
                   agentVars, historyVars, shutdownVars, stoppedVars, unstoppedVars
    <2>2. ASSUME NEW r \in Run, AbortWorkerRuns(r)
           PROVE  ControlHeld'
      BY <2>2, <1>o
      DEF AbortWorkerRuns, vars, sharedVars, admissionVars, controlVars, runtimeVars,
                   agentVars, historyVars, shutdownVars, stoppedVars, unstoppedVars
    <2> QED
      BY <1>4, <2>1, <2>2 DEF WatcherStep
  <1>5. CASE ShutdownBegin \/ ShutdownPass \/ ShutdownTimeout \/ AtRest
    <2>1. ASSUME ShutdownBegin \/ ShutdownControls \/ ShutdownSnapshot \/ ShutdownMarked
                  \/ ShutdownJoinAborts \/ ShutdownRuntimes
           PROVE  ControlHeld'
      BY <2>1, <1>o DEF ShutdownBegin, ShutdownControls, ShutdownSnapshot, ShutdownMarked,
                   ShutdownJoinAborts, ShutdownRuntimes, vars, sharedVars, admissionVars,
                   controlVars, runtimeVars, agentVars, historyVars, shutdownVars, stoppedVars,
                   unstoppedVars
    <2>2. ASSUME ShutdownJoinStops \/ ShutdownWatchers \/ ShutdownFinish \/ ShutdownTimeout
                  \/ AtRest
           PROVE  ControlHeld'
      BY <2>2, <1>o DEF ShutdownJoinStops, ShutdownWatchers, ShutdownFinish, ShutdownTimeout,
                   AtRest, vars, sharedVars, admissionVars, controlVars, runtimeVars,
                   agentVars, historyVars, shutdownVars, stoppedVars, unstoppedVars
    <2> QED
      BY <1>5, <1>3, <2>1, <2>2 DEF ShutdownPass
  <1>6. CASE UNCHANGED vars
    BY <1>6, <1>o DEF vars, sharedVars, admissionVars, controlVars, runtimeVars, agentVars,
                 historyVars, shutdownVars, stoppedVars, unstoppedVars
  <1> QED
    BY <1>1, <1>2, <1>3, <1>4, <1>5, <1>6 DEF Next

-----------------------------------------------------------------------------
(* The ownership conjuncts: every admitted run is owned by exactly one of the  *)
(* submitting thread and its watcher, and a live run still holds its slot.     *)
(* Every admitted run keeps exactly one owner. *)
LEMMA OwnershipStep ==
  ASSUME CoordinatorInv, [Next]_vars
  PROVE  Ownership'
  <1>o. ThreadsOwn /\ OneSubmitter /\ WatchersOwn /\ SlotsOwned /\ SlotsDistinct
    BY DEF CoordinatorInv, Ownership
  <1>p. \A t \in Thread : ShapeOf(thr[t])
    BY DEF CoordinatorInv, Shape
  <1>t. /\ active \in [Session -> RuntimeState] /\ watcher \in [Run -> WatcherPc]
        /\ nextRun \in Nat /\ nextRun \in 1..(MaxRuns + 1) /\ MaxRuns \in Nat
        /\ runs \in [Run -> RunRecord] /\ thr \in [Thread -> ThreadRecord]
        /\ IdleState.run = NoRun /\ NoRun \notin Run /\ Run \subseteq Nat /\ ControlTypeOK
    BY BoundsAssumption, SMTT(60) DEF CoordinatorInv, TypeOK, AdmissionTypeOK, RuntimeTypeOK,
       ControlTypeOK, IdleState, NoRun, Run
  <1>q. ASSUME UNCHANGED nextRun, \A s \in Session : active'[s].run = active[s].run,
               \A t \in Thread : (Submitting(t)' <=> Submitting(t)),
               \A t \in Thread : Submitting(t) =>
                 thr'[t].run = thr[t].run /\ thr'[t].session = thr[t].session,
               \A t \in Thread : Submitting(t) /\ thr'[t].pc \in {"publish", "watch"}
                 => runs'[thr[t].run].session = thr[t].session,
               \A r \in Run : (watcher'[r] = "none" <=> watcher[r] = "none"),
               \A r \in Run : (Watched(r)' <=> Watched(r)),
               \A r \in Run : Watched(r) => runs'[r].session = runs[r].session
        PROVE  Ownership'
    <2>1. \A t \in Thread : Submitting(t) => thr[t].run \in Run /\ thr[t].session \in Session
      BY <1>p DEF Submitting, ShapeOf
    <2>2. \A s \in Session : (Admitted(s)' <=> Admitted(s))
      BY <1>q DEF Admitted
    <2>3. \A s \in Session : Admitted(s) => active[s].run \in Run
      BY <1>t DEF Admitted, RuntimeState
    <2>4. ThreadsOwn'
      BY <1>o, <1>q, <2>1, SMTT(60) DEF ThreadsOwn, Owns
    <2>5. OneSubmitter'
      BY <1>o, <1>q, SMTT(60) DEF OneSubmitter
    <2>6. WatchersOwn'
      BY <1>o, <1>q, SMTT(60) DEF WatchersOwn, Watches
    <2>7. SlotsOwned'
      <3> SUFFICES ASSUME NEW s \in Session, Admitted(s)
                   PROVE  \/ Watched(active[s].run)'
                          \/ \E t \in Thread : Submitting(t)' /\ thr'[t].run = active'[s].run
        BY <2>2 DEF SlotsOwned
      <3>1. CASE Watched(active[s].run)
        BY <1>q, <2>3, <3>1 DEF Watched
      <3>2. CASE \E t \in Thread : Submitting(t) /\ thr[t].run = active[s].run
        BY <1>q, <3>2
      <3> QED
        BY <1>o, <3>1, <3>2 DEF SlotsOwned
    <2> QED
      BY <1>o, <1>q, <2>2, <2>4, <2>5, <2>6, <2>7, SMTT(60) DEF Ownership, SlotsDistinct
  <1>w. ASSUME UNCHANGED <<thr, nextRun, runs>>,
               \A s \in Session : active'[s].run = active[s].run,
               \A r \in Run : (watcher'[r] = "none" <=> watcher[r] = "none"),
               \A r \in Run : (Watched(r)' <=> Watched(r))
        PROVE  Ownership'
    BY <1>o, <1>q, <1>w DEF ThreadsOwn, Submitting
  <1>n. ASSUME UNCHANGED <<thr, active, nextRun, runs, watcher>>
        PROVE  Ownership'
    BY <1>n, <1>w DEF Watched
  <1>s. ASSUME NEW s \in Session, RecordState(s, [active[s] EXCEPT !.status = "aborting"]),
               UNCHANGED <<thr, nextRun, runs, watcher>>
        PROVE  Ownership'
    <2>1. active[s] \in RuntimeState
      BY <1>t
    <2>2. [active[s] EXCEPT !.status = "aborting"].run = active[s].run
      BY <2>1 DEF RuntimeState
    <2>3. \A z \in Session : active'[z].run = active[z].run
      BY <1>s, <1>t, <2>2 DEF RecordState
    <2> QED
      BY <1>s, <1>w, <2>3 DEF Watched
  <1>c. ASSUME NEW t \in Thread, UNCHANGED <<active, nextRun, runs, watcher>>,
               \A u \in Thread : u # t => thr'[u] = thr[u], (Submitting(t)' <=> Submitting(t)),
               Submitting(t) => /\ thr'[t].run = thr[t].run /\ thr'[t].session = thr[t].session
                                /\ thr'[t].pc \notin {"publish", "watch"}
        PROVE  Ownership'
    <2>1. \A u \in Thread : (Submitting(u)' <=> Submitting(u))
      BY <1>c DEF Submitting
    <2>2. \A u \in Thread : Submitting(u) /\ thr'[u].pc \in {"publish", "watch"}
                             => runs'[thr[u].run].session = thr[u].session
      BY <1>c, <1>o DEF ThreadsOwn
    <2> QED
      BY <1>c, <1>q, <2>1, <2>2 DEF Watched
  <1>b. ASSUME NEW t \in Thread, NEW o, NEW s, NEW r, NEW p, NEW x,
               Begin(t, o, s, r, p, x), thr[t].pc = "idle", o # "submit",
               UNCHANGED <<active, nextRun, runs, watcher>>
        PROVE  Ownership'
    <2>1. thr'[t].op = o /\ \A u \in Thread : u # t => thr'[u] = thr[u]
      BY <1>b, <1>t DEF Begin
    <2>2. ~Submitting(t) /\ ~Submitting(t)'
      BY <1>b, <2>1 DEF Submitting
    <2> QED
      BY <1>b, <1>c, <2>1, <2>2
  <1>m. ASSUME NEW t \in Thread, NEW p, NEW e, NEW x, Move(t, p, e, x),
               thr[t].pc \in {"emit", "callback"} => p \in {"emit", "callback"},
               thr[t].pc \notin {"idle", "emit", "callback"}
                 => p \notin {"idle", "emit", "callback", "publish", "watch"},
               thr[t].pc # "idle", UNCHANGED <<active, nextRun, runs, watcher>>
        PROVE  Ownership'
    <2>1. /\ thr'[t].op = thr[t].op /\ thr'[t].session = thr[t].session
          /\ thr'[t].run = thr[t].run /\ thr'[t].pc = p
          /\ \A u \in Thread : u # t => thr'[u] = thr[u]
      BY <1>m, <1>t, SMTT(60) DEF Move, ThreadRecord
    <2> QED
      BY <1>m, <1>c, <2>1 DEF Submitting
  <1>e. ASSUME NEW t \in Thread, Return(t), thr[t].op # "submit" \/ thr[t].pc \in {"emit", "callback"},
               UNCHANGED <<active, nextRun, runs, watcher>>
        PROVE  Ownership'
    <2>1. ~Submitting(t) /\ ~Submitting(t)' /\ \A u \in Thread : u # t => thr'[u] = thr[u]
      BY <1>e, <1>t, ReturnFacts DEF Submitting
    <2> QED
      BY <1>e, <1>c, <2>1
  <1>g. ASSUME NEW t \in Thread, NEW st, Submitting(t), FreeSlot(thr[t].session, st),
               ~Submitting(t)', \A u \in Thread : u # t => thr'[u] = thr[u],
               UNCHANGED <<nextRun, runs, watcher>>
        PROVE  Ownership'
    <2> DEFINE s == thr[t].session
    <2>1. /\ s \in Session /\ active[s].run = thr[t].run /\ watcher[thr[t].run] = "none"
          /\ thr[t].run \in Run
      BY <1>g, <1>o, <1>p DEF ThreadsOwn, Owns, ShapeOf, Submitting
    <2>2. active'[s].run = NoRun /\ \A z \in Session : z # s => active'[z] = active[z]
      BY <1>g, <1>t, <2>1 DEF FreeSlot
    <2>3. \A u \in Thread : Submitting(u)' => u # t /\ Submitting(u) /\ thr'[u] = thr[u]
      BY <1>g DEF Submitting
    <2>4. \A u \in Thread : u # t /\ Submitting(u) => Submitting(u)' /\ thr'[u] = thr[u]
      BY <1>g DEF Submitting
    <2> HIDE DEF s
    <2>5. \A u \in Thread : Submitting(u)' => thr[u].session # s /\ thr[u].session \in Session
      BY <1>g, <1>o, <1>p, <2>1, <2>3, SMTT(60)
      DEF ThreadsOwn, OneSubmitter, Owns, ShapeOf, Submitting
    <2>6. \A r \in Run : Watched(r)' => Watched(r) /\ runs[r].session # s
      BY <1>g, <1>o, <2>1, SMTT(60) DEF WatchersOwn, Watched, Watches
    <2>7. ThreadsOwn'
      BY <1>g, <1>o, <2>2, <2>3, <2>5, SMTT(60) DEF ThreadsOwn, Owns
    <2>8. OneSubmitter'
      BY <1>o, <2>3 DEF OneSubmitter
    <2>9. WatchersOwn'
      BY <1>g, <1>o, <2>2, <2>6 DEF WatchersOwn, Watches
    <2>10. \A z \in Session : Admitted(z)' => /\ z # s /\ Admitted(z) /\ active'[z] = active[z]
                                            /\ active[z].run # thr[t].run
      BY <1>o, <2>1, <2>2 DEF SlotsDistinct, Admitted
    <2>11. SlotsOwned'
      <3> SUFFICES ASSUME NEW z \in Session, Admitted(z)'
                   PROVE  \/ Watched(active[z].run)'
                          \/ \E u \in Thread : Submitting(u)' /\ thr'[u].run = active'[z].run
        BY DEF SlotsOwned
      <3>1. CASE Watched(active[z].run)
        BY <1>g, <2>10, <3>1 DEF Watched
      <3>2. CASE \E u \in Thread : Submitting(u) /\ thr[u].run = active[z].run
        BY <2>4, <2>10, <3>2
      <3> QED
        BY <1>o, <2>10, <3>1, <3>2 DEF SlotsOwned
    <2>12. SlotsDistinct'
      BY <1>o, <2>2, <2>10, SMTT(60) DEF SlotsDistinct, Admitted
    <2> QED
      BY <2>7, <2>8, <2>9, <2>11, <2>12 DEF Ownership
  <1>f. ASSUME NEW t \in Thread, NEW st, Submitting(t), FreeSlot(thr[t].session, st), Return(t),
               UNCHANGED <<nextRun, runs, watcher>>
        PROVE  Ownership'
    <2>1. ~Submitting(t)' /\ \A u \in Thread : u # t => thr'[u] = thr[u]
      BY <1>f, <1>t, ReturnFacts DEF Submitting
    <2> QED
      BY <1>f, <1>g, <2>1
  <1>1. CASE \E t \in Thread, s \in Session : Request(t, s)
    <2>1. ASSUME NEW t \in Thread, NEW s \in Session, SubmitAdmit(t, s)
          PROVE  Ownership'
      <3>1. /\ nextRun \in Run /\ ~Admitted(s) /\ nextRun' = nextRun + 1
            /\ UNCHANGED <<watcher, runs>>
            /\ Begin(t, "submit", s, nextRun, "lookup", NoRuntime) /\ thr[t].pc = "idle"
        BY <2>1, <1>t, SMTT(60) DEF SubmitAdmit, agentVars, Free, Run
      <3>2. active'[s].run = nextRun /\ \A z \in Session : z # s => active'[z] = active[z]
        BY <2>1, <1>t, <3>1, StartingType DEF SubmitAdmit, RecordState
      <3>3. /\ Submitting(t)' /\ thr'[t].run = nextRun /\ thr'[t].session = s
            /\ thr'[t].pc = "lookup"
            /\ \A u \in Thread : u # t => thr'[u] = thr[u]
        BY <3>1, <1>t DEF Begin, Submitting
      <3>4. \A z \in Session : Admitted(z) => active[z].run < nextRun
        <4> SUFFICES ASSUME NEW z \in Session, Admitted(z)
                     PROVE  active[z].run < nextRun
          OBVIOUS
        <4>1. active[z].run \in Run /\ active[z].run \in Nat
          BY <1>t DEF Admitted, RuntimeState
        <4>2. CASE Watched(active[z].run)
          BY <1>o, <1>t, <4>1, <4>2, SMTT(60) DEF WatchersOwn, Watched
        <4>3. CASE \E u \in Thread : Submitting(u) /\ thr[u].run = active[z].run
          BY <1>o, <4>3 DEF ThreadsOwn
        <4> QED
          BY <1>o, <4>2, <4>3 DEF SlotsOwned
      <3>5. \A u \in Thread : u # t => (Submitting(u)' <=> Submitting(u))
        BY <3>3 DEF Submitting
      <3>6. ~Submitting(t) /\ nextRun # NoRun /\ nextRun \in Nat
        BY <3>1, SMTT(60) DEF Submitting, Run, NoRun
      <3>7. \A u \in Thread : Submitting(u) =>
              /\ thr[u].run \in Nat /\ thr[u].run < nextRun /\ thr[u].session \in Session
              /\ thr[u].session # s
        BY <1>o, <1>p, <3>1, SMTT(60) DEF ThreadsOwn, Submitting, ShapeOf, Owns, Admitted, Run, NoRun
      <3>8. \A r \in Run : Watched(r) => r < nextRun /\ runs[r].session # s
        BY <1>o, <3>1, SMTT(60) DEF WatchersOwn, Watched, Watches, Admitted, Run, NoRun
      <3>9. ThreadsOwn'
        BY <1>o, <3>1, <3>2, <3>3, <3>5, <3>6, <3>7, SMTT(60) DEF ThreadsOwn, WatchersOwn, Owns
      <3>10. OneSubmitter'
        BY <1>o, <3>3, <3>5, <3>6, <3>7, SMTT(60) DEF OneSubmitter
      <3>11. WatchersOwn'
        BY <1>o, <3>1, <3>2, <3>6, <3>8, SMTT(60) DEF WatchersOwn, Watched, Watches, Run
      <3>12. SlotsOwned'
        BY <1>o, <3>1, <3>2, <3>3, <3>5, <3>6, SMTT(60) DEF SlotsOwned, Watched, Admitted
      <3>13. SlotsDistinct'
        BY <1>o, <3>2, <3>4, <3>6, SMTT(60) DEF SlotsDistinct, Admitted
      <3> QED
        BY <3>9, <3>10, <3>11, <3>12, <3>13 DEF Ownership
    <2>2. ASSUME NEW t \in Thread, NEW s \in Session, EnsureStart(t, s)
          PROVE  Ownership'
      BY <2>2, <1>b DEF EnsureStart, Free, sharedVars, admissionVars, agentVars
    <2>3. ASSUME NEW t \in Thread, NEW s \in Session, SideQuestionStart(t, s)
          PROVE  Ownership'
      BY <2>3, <1>b DEF SideQuestionStart, Free, sharedVars, admissionVars, agentVars
    <2>4. ASSUME NEW t \in Thread, NEW s \in Session, ConfigureStart(t, s)
          PROVE  Ownership'
      BY <2>4, <1>b
      DEF ConfigureStart, ControlStart, Free, sharedVars, admissionVars, agentVars
    <2>5. ASSUME NEW t \in Thread, NEW s \in Session, RewindStart(t, s)
          PROVE  Ownership'
      BY <2>5, <1>b DEF RewindStart, ControlStart, Free, sharedVars, admissionVars, agentVars
    <2>6. ASSUME NEW t \in Thread, NEW s \in Session, ReleaseStart(t, s)
          PROVE  Ownership'
      BY <2>6, <1>b DEF ReleaseStart, ControlStart, Free, sharedVars, admissionVars, agentVars
    <2>7. ASSUME NEW t \in Thread, NEW s \in Session, RestorePrepare(t, s)
          PROVE  Ownership'
      BY <2>7, <1>b DEF RestorePrepare, Free, sharedVars, admissionVars, agentVars
    <2> QED
      BY <1>1, <2>1, <2>2, <2>3, <2>4, <2>5, <2>6, <2>7 DEF Request
  <1>2. CASE \E t \in Thread : ThreadStep(t)
    <2>1. ASSUME NEW t \in Thread, LookupRuntime(t)
          PROVE  Ownership'
      BY <2>1, <1>m DEF LookupRuntime, sharedVars, admissionVars, agentVars
    <2>2. ASSUME NEW t \in Thread, EnterGate(t)
          PROVE  Ownership'
      BY <2>2, <1>m DEF EnterGate, sharedVars, admissionVars, agentVars
    <2>3. ASSUME NEW t \in Thread, CreateRuntime(t)
           PROVE  Ownership'
      BY <2>3, <1>m DEF CreateRuntime, sharedVars, admissionVars, agentVars
    <2>4. ASSUME NEW t \in Thread, CreateFails(t)
           PROVE  Ownership'
      BY <2>4, <1>m DEF CreateFails, Goto, sharedVars, admissionVars, agentVars
    <2>5. ASSUME NEW t \in Thread, InstallRuntime(t)
           PROVE  Ownership'
      BY <2>5, <1>m DEF InstallRuntime, Goto, sharedVars, admissionVars, agentVars
    <2>6. ASSUME NEW t \in Thread, DiscardCreatedRuntime(t)
           PROVE  Ownership'
      BY <2>6, <1>m DEF DiscardCreatedRuntime, Goto, sharedVars, admissionVars, agentVars
    <2>7. ASSUME NEW t \in Thread, CheckReservation(t)
           PROVE  Ownership'
      BY <2>7, <1>m DEF CheckReservation, Goto, sharedVars, admissionVars, agentVars
    <2>8. ASSUME NEW t \in Thread, FinishAbortedStart(t)
           PROVE  Ownership'
      <3>1. Submitting(t) /\ Owns(t)
        BY <2>8, <1>p, <1>o DEF FinishAbortedStart, ShapeOf, Submitting, ThreadsOwn
      <3>2. Goto(t, "emit") /\ FreeSlot(thr[t].session, [IdleState EXCEPT !.completed = thr[t].run])
        BY <2>8, <3>1 DEF FinishAbortedStart
      <3>3. ~Submitting(t)' /\ \A u \in Thread : u # t => thr'[u] = thr[u]
        BY <3>2, <1>t, SMTT(60) DEF Goto, Move, Submitting, ThreadRecord
      <3> QED
        BY <2>8, <3>1, <3>2, <3>3, <1>g
        DEF FinishAbortedStart, sharedVars, admissionVars, agentVars
    <2>9. ASSUME NEW t \in Thread, EmitAborted(t)
           PROVE  Ownership'
      <3>1. CASE ~stopping
        BY <2>9, <3>1, <1>m DEF EmitAborted, Goto, sharedVars, admissionVars, agentVars
      <3>2. CASE ~(~stopping)
        BY <2>9, <3>2, <1>p, <1>e
        DEF EmitAborted, ShapeOf, sharedVars, admissionVars, agentVars
      <3> QED
        BY <3>1, <3>2
    <2>10. ASSUME NEW t \in Thread, CallbackAborted(t)
           PROVE  Ownership'
      BY <2>10, <1>p, <1>e DEF CallbackAborted, ShapeOf, sharedVars, admissionVars, agentVars
    <2>11. ASSUME NEW t \in Thread, RuntimeSubmit(t)
           PROVE  Ownership'
      <3>1. /\ Submitting(t) /\ Goto(t, "publish") /\ thr[t].run \in Run
            /\ UNCHANGED <<active, watcher, nextRun>>
        BY <2>11, <1>p DEF RuntimeSubmit, ShapeOf, Submitting, admissionVars
      <3> DEFINE new == [NewRun EXCEPT !.phase = "live", !.session = thr[t].session,
                                       !.runtime = thr[t].runtime]
      <3>2. new.session = thr[t].session /\ runs' = [runs EXCEPT ![thr[t].run] = new]
        BY <2>11 DEF RuntimeSubmit, NewRun
      <3> HIDE DEF new
      <3>3. /\ runs'[thr[t].run].session = thr[t].session
            /\ \A r \in Run : r # thr[t].run => runs'[r] = runs[r]
        BY <3>1, <3>2, <1>t
      <3>4. /\ Submitting(t)' /\ thr'[t].run = thr[t].run /\ thr'[t].session = thr[t].session
            /\ \A u \in Thread : u # t => thr'[u] = thr[u]
        BY <3>1, <1>t, SMTT(60) DEF Goto, Move, Submitting, ThreadRecord
      <3>5. \A r \in Run : Watched(r) => r # thr[t].run
        BY <1>o, <3>1 DEF ThreadsOwn, Watched
      <3>6. \A u \in Thread : Submitting(u) /\ u # t => thr[u].run # thr[t].run /\ thr[u].run \in Run
        BY <1>o, <1>p, <3>1 DEF OneSubmitter, ShapeOf, Submitting
      <3>7. \A u \in Thread : Submitting(u) /\ thr'[u].pc \in {"publish", "watch"}
                               => runs'[thr[u].run].session = thr[u].session
        BY <1>o, <3>3, <3>4, <3>6, SMTT(60) DEF ThreadsOwn
      <3>8. \A u \in Thread : (Submitting(u)' <=> Submitting(u))
        BY <3>1, <3>4 DEF Submitting
      <3> QED
        BY <3>1, <3>3, <3>4, <3>5, <3>7, <3>8, <1>q DEF Watched
    <2>12. ASSUME NEW t \in Thread, RuntimeSubmitFails(t)
           PROVE  Ownership'
      BY <2>12, <1>m DEF RuntimeSubmitFails, Goto, sharedVars, admissionVars, agentVars
    <2>13. ASSUME NEW t \in Thread, ReleaseReservation(t)
           PROVE  Ownership'
      <3>1. Submitting(t) /\ Owns(t)
        BY <2>13, <1>p, <1>o DEF ReleaseReservation, ShapeOf, Submitting, ThreadsOwn
      <3> QED
        BY <2>13, <3>1, <1>f DEF ReleaseReservation, sharedVars, admissionVars, agentVars
    <2>14. ASSUME NEW t \in Thread, PublishRunning(t)
           PROVE  Ownership'
      <3>1. Submitting(t) /\ Owns(t) /\ thr[t].session \in Session /\ thr[t].pc = "publish"
        BY <2>14, <1>p, <1>o DEF PublishRunning, ShapeOf, Submitting, ThreadsOwn
      <3>2. Goto(t, "watch") /\ UNCHANGED <<watcher, nextRun, runs>>
        BY <2>14, <3>1 DEF PublishRunning
      <3>3. \A z \in Session : active'[z].run = active[z].run
        <4>1. CASE active[thr[t].session].status = "starting"
          <5>1. [active[thr[t].session] EXCEPT !.status = "running", !.stream = TRUE].run
                  = active[thr[t].session].run
            BY <3>1, <1>t, SMTT(60) DEF RuntimeState
          <5> QED
            BY <2>14, <3>1, <4>1, <5>1, <1>t DEF PublishRunning, RecordState
        <4>2. CASE active[thr[t].session].status # "starting"
          BY <2>14, <3>1, <4>2 DEF PublishRunning
        <4> QED
          BY <4>1, <4>2
      <3>4. /\ Submitting(t)' /\ thr'[t].run = thr[t].run /\ thr'[t].session = thr[t].session
            /\ \A u \in Thread : u # t => thr'[u] = thr[u]
        BY <3>1, <3>2, <1>t, SMTT(60) DEF Goto, Move, Submitting, ThreadRecord
      <3>5. \A u \in Thread : Submitting(u) /\ thr'[u].pc \in {"publish", "watch"}
                               => runs'[thr[u].run].session = thr[u].session
        BY <1>o, <3>1, <3>2, <3>4 DEF ThreadsOwn
      <3>6. \A u \in Thread : (Submitting(u)' <=> Submitting(u))
        BY <3>1, <3>4 DEF Submitting
      <3> QED
        BY <3>2, <3>3, <3>4, <3>5, <3>6, <1>q DEF Watched
    <2>15. ASSUME NEW t \in Thread, StartWatcher(t)
           PROVE  Ownership'
      <3> DEFINE r0 == thr[t].run
      <3>1. /\ Submitting(t) /\ r0 \in Run /\ thr[t].session \in Session
            /\ UNCHANGED <<active, nextRun, runs>>
            /\ watcher' = [watcher EXCEPT ![r0] = "poll"]
            /\ Return(t)
        BY <2>15, <1>p DEF StartWatcher, ShapeOf, Submitting, admissionVars, agentVars
      <3>2. runs[r0].session = thr[t].session /\ active[thr[t].session].run = r0 /\ r0 < nextRun
        BY <2>15, <1>o, <3>1 DEF StartWatcher, ThreadsOwn, Owns
      <3>3. ~Submitting(t)' /\ \A u \in Thread : u # t => thr'[u] = thr[u]
        BY <3>1, <1>t, ReturnFacts DEF Submitting
      <3>4. \A u \in Thread : Submitting(u)' => /\ Submitting(u) /\ thr'[u] = thr[u] /\ u # t
                                              /\ thr[u].run # r0 /\ thr[u].run \in Run
        BY <1>o, <1>p, <3>1, <3>3, SMTT(60) DEF Submitting, OneSubmitter, ShapeOf
      <3>5. \A r \in Run : r # r0 => watcher'[r] = watcher[r]
        BY <3>1, <1>t
      <3>6. watcher'[r0] = "poll" /\ \A u \in Thread : Submitting(u) /\ u # t => Submitting(u)'
        BY <3>1, <3>3, <1>t DEF Submitting
      <3> HIDE DEF r0
      <3>7. ThreadsOwn'
        BY <1>o, <3>1, <3>4, <3>5, SMTT(60) DEF ThreadsOwn, Owns
      <3>8. OneSubmitter'
        BY <1>o, <3>4 DEF OneSubmitter
      <3>9. WatchersOwn'
        <4> SUFFICES ASSUME NEW r \in Run
                     PROVE  /\ r >= nextRun' => watcher'[r] = "none"
                            /\ Watched(r)' => runs'[r].session \in Session /\ Watches(r)'
          BY DEF WatchersOwn
        <4>1. CASE r = r0
          BY <1>t, <3>1, <3>2, <4>1, SMTT(60) DEF Watches, Run
        <4>2. CASE r # r0
          BY <1>o, <3>1, <3>5, <4>2 DEF WatchersOwn, Watched, Watches
        <4> QED
          BY <4>1, <4>2
      <3>10. SlotsOwned'
        <4> SUFFICES ASSUME NEW z \in Session, Admitted(z), active[z].run # r0
                     PROVE  \/ Watched(active[z].run)'
                            \/ \E u \in Thread : Submitting(u)' /\ thr'[u].run = active[z].run
          BY <3>1, <3>6 DEF SlotsOwned, Admitted, Watched
        <4>1. active[z].run \in Run
          BY <1>t DEF Admitted, RuntimeState
        <4>2. CASE Watched(active[z].run)
          BY <3>1, <3>5, <4>1, <4>2 DEF Watched
        <4>3. CASE \E u \in Thread : Submitting(u) /\ thr[u].run = active[z].run
          BY <3>3, <3>6, <4>3 DEF r0
        <4> QED
          BY <1>o, <4>2, <4>3 DEF SlotsOwned
      <3> QED
        BY <1>o, <3>1, <3>7, <3>8, <3>9, <3>10 DEF Ownership, SlotsDistinct, Admitted
    <2>16. ASSUME NEW t \in Thread, WatcherStartFails(t)
           PROVE  Ownership'
      <3>1. Submitting(t) /\ Owns(t)
        BY <2>16, <1>p, <1>o DEF WatcherStartFails, ShapeOf, Submitting, ThreadsOwn
      <3> QED
        BY <2>16, <3>1, <1>f DEF WatcherStartFails, sharedVars, admissionVars, agentVars
    <2>17. ASSUME NEW t \in Thread, FinishOperation(t)
           PROVE  Ownership'
      BY <2>17, <1>p, <1>e DEF FinishOperation, ShapeOf, sharedVars, admissionVars, agentVars
    <2>18. ASSUME NEW t \in Thread, ReleasePop(t)
           PROVE  Ownership'
      BY <2>18, <1>m DEF ReleasePop, sharedVars, admissionVars, agentVars
    <2>19. ASSUME NEW t \in Thread, ReleaseBump(t)
           PROVE  Ownership'
      BY <2>19, <1>m DEF ReleaseBump, Goto, sharedVars, admissionVars, agentVars
    <2>20. ASSUME NEW t \in Thread, DisposeDetached(t)
           PROVE  Ownership'
      BY <2>20, <1>m DEF DisposeDetached, Goto, sharedVars, admissionVars, agentVars
    <2>21. ASSUME NEW t \in Thread, ReplaceAdmit(t)
           PROVE  Ownership'
      BY <2>21, <1>m DEF ReplaceAdmit, Goto, sharedVars, admissionVars, agentVars
    <2>22. ASSUME NEW t \in Thread, ReplaceRefused(t)
           PROVE  Ownership'
      <3>1. CASE stopping \/ ~Admitted(thr[t].session)
        BY <2>22, <3>1, <1>m DEF ReplaceRefused, Goto, sharedVars, admissionVars, agentVars
      <3>2. CASE ~(stopping \/ ~Admitted(thr[t].session))
        BY <2>22, <3>2, <1>p, <1>e
        DEF ReplaceRefused, ShapeOf, sharedVars, admissionVars, agentVars
      <3> QED
        BY <3>1, <3>2
    <2>23. ASSUME NEW t \in Thread, DisposeRefused(t)
           PROVE  Ownership'
      BY <2>23, <1>p, <1>e DEF DisposeRefused, ShapeOf, sharedVars, admissionVars, agentVars
    <2>24. ASSUME NEW t \in Thread, ReplaceSwap(t)
           PROVE  Ownership'
      BY <2>24, <1>m DEF ReplaceSwap, sharedVars, admissionVars, agentVars
    <2> QED
      BY <1>2, <2>1, <2>2, <2>3, <2>4, <2>5, <2>6, <2>7, <2>8, <2>9, <2>10, <2>11,
         <2>12, <2>13, <2>14, <2>15, <2>16, <2>17, <2>18, <2>19, <2>20, <2>21, <2>22,
         <2>23, <2>24
      DEF ThreadStep
  <1>3. CASE \E s \in Session : \/ Abort(s) \/ StopWorkerRuns(s)
                              \/ StopWorkerReturns(s) \/ ShutdownMark(s)
    <2>1. ASSUME NEW s \in Session, AbortIdle(s) \/ StopWorkerRuns(s)
                  \/ StopWorkerReturns(s)
           PROVE  Ownership'
      BY <2>1, <1>n DEF AbortIdle, StopWorkerRuns, StopWorkerReturns, vars, sharedVars,
                   admissionVars, controlVars, runtimeVars, agentVars, historyVars,
                   shutdownVars, stoppedVars, unstoppedVars
    <2>2. ASSUME NEW s \in Session, AbortRun(s)
           PROVE  Ownership'
      BY <2>2, <1>s DEF AbortRun
    <2>3. ASSUME NEW s \in Session, ShutdownMark(s)
           PROVE  Ownership'
      <3>1. CASE UNCHANGED active
        BY <2>3, <3>1, <1>n DEF ShutdownMark, unstoppedVars
      <3>2. CASE ~UNCHANGED active
        BY <2>3, <3>2, <1>s DEF ShutdownMark, unstoppedVars
      <3> QED
        BY <3>1, <3>2
    <2> QED
      BY <1>3, <2>1, <2>2, <2>3 DEF Abort
  <1>4. CASE \E r \in Run : RunFinishes(r) \/ WatcherStep(r) \/ AbortWorkerRuns(r)
    <2>1. ASSUME NEW r \in Run, AbortWorkerRuns(r)
           PROVE  Ownership'
      BY <2>1, <1>n
      DEF AbortWorkerRuns, vars, sharedVars, admissionVars, controlVars, runtimeVars,
                   agentVars, historyVars, shutdownVars, stoppedVars, unstoppedVars
    <2>2. ASSUME NEW r \in Run, RunFinishes(r)
           PROVE  Ownership'
      <3>1. \A z \in Run : runs'[z].session = runs[z].session
        BY <2>2, <1>t, SMTT(60) DEF RunFinishes, RunRecord
      <3>2. UNCHANGED <<thr, active, nextRun, watcher>>
        BY <2>2 DEF RunFinishes, admissionVars
      <3>3. \A t \in Thread : Submitting(t) => thr[t].run \in Run
        BY <1>p DEF Submitting, ShapeOf
      <3> QED
        BY <1>o, <1>q, <3>1, <3>2, <3>3 DEF ThreadsOwn, Submitting, Watched
    <2>3. ASSUME NEW r \in Run, WatchTimeout(r)
           PROVE  Ownership'
      <3>1. runs[r].session \in Session
        BY <2>3, <1>o DEF WatchTimeout, WatchersOwn, Watched
      <3>2. \A z \in Session : active'[z].run = active[z].run
        <4>1. [active[runs[r].session] EXCEPT !.status = "error"].run = active[runs[r].session].run
          BY <3>1, <1>t, SMTT(60) DEF RuntimeState
        <4> QED
          BY <2>3, <3>1, <4>1, <1>t DEF WatchTimeout, RecordState
      <3>3. \A x \in Run : /\ (watcher'[x] = "none" <=> watcher[x] = "none")
                          /\ (Watched(x)' <=> Watched(x))
        BY <2>3, <1>t DEF WatchTimeout, Watched
      <3> QED
        BY <2>3, <3>2, <3>3, <1>w DEF WatchTimeout, agentVars
    <2>4. ASSUME NEW r \in Run, WatchComplete(r)
           PROVE  Ownership'
      <3> DEFINE s == runs[r].session
      <3>1. s \in Session /\ Watches(r) /\ Watched(r) /\ active[s].run = r /\ r # NoRun
        BY <2>4, <1>o, SMTT(60) DEF WatchComplete, WatchersOwn, Watched, Watches, Run, NoRun
      <3>2. /\ watcher' = [watcher EXCEPT ![r] = "doneEmit"]
            /\ active' = [active EXCEPT ![s] = IdleState]
            /\ UNCHANGED <<thr, nextRun, runs>>
        BY <2>4, <3>1 DEF WatchComplete, FreeSlot, agentVars
      <3>3. active'[s].run = NoRun /\ \A z \in Session : z # s => active'[z] = active[z]
        BY <3>1, <3>2, <1>t
      <3>4. watcher'[r] = "doneEmit" /\ \A x \in Run : x # r => watcher'[x] = watcher[x]
        BY <3>2, <1>t
      <3> HIDE DEF s
      <3>5. \A u \in Thread : Submitting(u) => thr[u].run # r /\ thr[u].run \in Run
                                             /\ thr[u].session # s /\ thr[u].session \in Session
        BY <1>o, <1>p, <3>1, SMTT(60) DEF ThreadsOwn, Owns, ShapeOf, Submitting, Watched
      <3>6. \A x \in Run : Watched(x) /\ x # r => runs[x].session # s
        BY <1>o, <3>1 DEF WatchersOwn, Watches
      <3>7. \A u \in Thread : (Submitting(u)' <=> Submitting(u))
        BY <3>2 DEF Submitting
      <3>8. \A x \in Run : Watched(x)' => x # r /\ Watched(x)
        BY <3>4 DEF Watched
      <3>9. ThreadsOwn'
        BY <1>o, <3>2, <3>3, <3>4, <3>5, <3>7, SMTT(60) DEF ThreadsOwn, Owns
      <3>10. WatchersOwn'
        BY <1>o, <3>1, <3>2, <3>3, <3>4, <3>6, <3>8, SMTT(60) DEF WatchersOwn, Watches, Watched
      <3>11. \A z \in Session : Admitted(z)' => /\ z # s /\ Admitted(z) /\ active'[z] = active[z]
                                              /\ active[z].run # r /\ active[z].run \in Run
        BY <1>o, <1>t, <3>1, <3>3, SMTT(60) DEF SlotsDistinct, Admitted, RuntimeState
      <3>12. SlotsOwned'
        <4> SUFFICES ASSUME NEW z \in Session, Admitted(z)'
                     PROVE  \/ Watched(active[z].run)'
                            \/ \E u \in Thread : Submitting(u)' /\ thr'[u].run = active'[z].run
          BY DEF SlotsOwned
        <4>1. CASE Watched(active[z].run)
          BY <3>4, <3>11, <4>1, SMTT(60) DEF Watched
        <4>2. CASE \E u \in Thread : Submitting(u) /\ thr[u].run = active[z].run
          BY <3>2, <3>7, <3>11, <4>2
        <4> QED
          BY <1>o, <3>11, <4>1, <4>2 DEF SlotsOwned
      <3>13. SlotsDistinct'
        BY <1>o, <3>3, <3>11, SMTT(60) DEF SlotsDistinct, Admitted
      <3> QED
        BY <1>o, <3>2, <3>7, <3>9, <3>10, <3>12, <3>13 DEF Ownership, OneSubmitter
    <2>5. ASSUME NEW r \in Run, WatcherEmit(r)
           PROVE  Ownership'
      <3>1. \A x \in Run : /\ (watcher'[x] = "none" <=> watcher[x] = "none")
                          /\ (Watched(x)' <=> Watched(x))
        BY <2>5, <1>t DEF WatcherEmit, Watched
      <3> QED
        BY <2>5, <3>1, <1>w DEF WatcherEmit, admissionVars, agentVars
    <2>6. ASSUME NEW r \in Run, WatcherCallback(r)
           PROVE  Ownership'
      <3>1. \A x \in Run : /\ (watcher'[x] = "none" <=> watcher[x] = "none")
                          /\ (Watched(x)' <=> Watched(x))
        BY <2>6, <1>t DEF WatcherCallback, Watched
      <3> QED
        BY <2>6, <3>1, <1>w DEF WatcherCallback, admissionVars, agentVars
    <2>7. ASSUME NEW r \in Run, WatcherExit(r)
           PROVE  Ownership'
      <3>1. \A x \in Run : /\ (watcher'[x] = "none" <=> watcher[x] = "none")
                          /\ (Watched(x)' <=> Watched(x))
        BY <2>7, <1>t DEF WatcherExit, Watched
      <3> QED
        BY <2>7, <3>1, <1>w DEF WatcherExit, admissionVars, agentVars
    <2> QED
      BY <1>4, <2>1, <2>2, <2>3, <2>4, <2>5, <2>6, <2>7 DEF WatcherStep
  <1>5. CASE ShutdownBegin \/ ShutdownPass \/ ShutdownTimeout \/ AtRest
    <2>1. ASSUME ShutdownBegin \/ ShutdownControls \/ ShutdownSnapshot \/ ShutdownMarked
                  \/ ShutdownJoinAborts \/ ShutdownRuntimes
           PROVE  Ownership'
      BY <2>1, <1>n DEF ShutdownBegin, ShutdownControls, ShutdownSnapshot, ShutdownMarked,
                   ShutdownJoinAborts, ShutdownRuntimes, vars, sharedVars, admissionVars,
                   controlVars, runtimeVars, agentVars, historyVars, shutdownVars, stoppedVars,
                   unstoppedVars
    <2>2. ASSUME ShutdownJoinStops \/ ShutdownWatchers \/ ShutdownFinish \/ ShutdownTimeout
                  \/ AtRest
           PROVE  Ownership'
      BY <2>2, <1>n DEF ShutdownJoinStops, ShutdownWatchers, ShutdownFinish, ShutdownTimeout,
                   AtRest, vars, sharedVars, admissionVars, controlVars, runtimeVars,
                   agentVars, historyVars, shutdownVars, stoppedVars, unstoppedVars
    <2> QED
      BY <1>5, <1>3, <2>1, <2>2 DEF ShutdownPass
  <1>6. CASE UNCHANGED vars
    BY <1>6, <1>n DEF vars, sharedVars, admissionVars, controlVars, runtimeVars, agentVars,
                 historyVars, shutdownVars, stoppedVars, unstoppedVars
  <1> QED
    BY <1>1, <1>2, <1>3, <1>4, <1>5, <1>6 DEF Next

(* If watcher threads always start, a live run keeps its owner. *)
LEMMA LiveStep ==
  ASSUME "watcher" \notin Faults, CoordinatorInv, LiveIsOwned, [Next]_vars
  PROVE  LiveIsOwned'
  <1>l. LiveIsOwned
    OBVIOUS
  <1>o. ThreadsOwn
    BY DEF CoordinatorInv, Ownership
  <1>p. \A t \in Thread : ShapeOf(thr[t])
    BY DEF CoordinatorInv, Shape
  <1>t. /\ watcher \in [Run -> WatcherPc] /\ runs \in [Run -> RunRecord]
        /\ thr \in [Thread -> ThreadRecord]
    BY DEF CoordinatorInv, TypeOK, AdmissionTypeOK, RuntimeTypeOK, ControlTypeOK
  <1>q. ASSUME \A r \in Run : runs'[r].phase = "live" => runs[r].phase = "live",
               \A r \in Run : Watched(r) => Watched(r)',
               \A t \in Thread : thr[t].pc \in {"publish", "watch"} =>
                 thr'[t].pc \in {"publish", "watch"} /\ thr'[t].run = thr[t].run
        PROVE  LiveIsOwned'
    BY <1>l, <1>q, SMTT(60) DEF LiveIsOwned
  <1>d. ASSUME NEW t \in Thread, NEW x, thr' = [thr EXCEPT ![t] = x],
               thr[t].pc \notin {"publish", "watch"}, UNCHANGED <<runs, watcher>>
        PROVE  LiveIsOwned'
    <2>1. \A u \in Thread : u # t => thr'[u] = thr[u]
      BY <1>d, <1>t
    <2> QED
      BY <1>d, <1>q, <2>1 DEF Watched
  <1>n. ASSUME UNCHANGED <<runs, watcher, thr>>
        PROVE  LiveIsOwned'
    BY <1>n, <1>q DEF Watched
  <1>1. CASE \E t \in Thread, s \in Session : Request(t, s)
    <2>1. ASSUME NEW t \in Thread, NEW s \in Session, SubmitAdmit(t, s)
          PROVE  LiveIsOwned'
      BY <2>1, <1>d DEF SubmitAdmit, Begin, Free, sharedVars, agentVars
    <2>2. ASSUME NEW t \in Thread, NEW s \in Session, EnsureStart(t, s)
          PROVE  LiveIsOwned'
      BY <2>2, <1>d DEF EnsureStart, Begin, Free, sharedVars, agentVars
    <2>3. ASSUME NEW t \in Thread, NEW s \in Session, SideQuestionStart(t, s)
          PROVE  LiveIsOwned'
      BY <2>3, <1>d DEF SideQuestionStart, Begin, Free, sharedVars, agentVars
    <2>4. ASSUME NEW t \in Thread, NEW s \in Session, ConfigureStart(t, s)
          PROVE  LiveIsOwned'
      BY <2>4, <1>d DEF ConfigureStart, ControlStart, Begin, Free, sharedVars, agentVars
    <2>5. ASSUME NEW t \in Thread, NEW s \in Session, RewindStart(t, s)
          PROVE  LiveIsOwned'
      BY <2>5, <1>d DEF RewindStart, ControlStart, Begin, Free, sharedVars, agentVars
    <2>6. ASSUME NEW t \in Thread, NEW s \in Session, ReleaseStart(t, s)
          PROVE  LiveIsOwned'
      BY <2>6, <1>d DEF ReleaseStart, ControlStart, Begin, Free, sharedVars, agentVars
    <2>7. ASSUME NEW t \in Thread, NEW s \in Session, RestorePrepare(t, s)
          PROVE  LiveIsOwned'
      BY <2>7, <1>d DEF RestorePrepare, Begin, Free, sharedVars, agentVars
    <2> QED
      BY <1>1, <2>1, <2>2, <2>3, <2>4, <2>5, <2>6, <2>7 DEF Request
  <1>2. CASE \E t \in Thread : ThreadStep(t)
    <2>1. ASSUME NEW t \in Thread, LookupRuntime(t)
          PROVE  LiveIsOwned'
      BY <2>1, <1>d DEF LookupRuntime, Goto, Move, sharedVars, agentVars
    <2>2. ASSUME NEW t \in Thread, EnterGate(t)
          PROVE  LiveIsOwned'
      BY <2>2, <1>d DEF EnterGate, Goto, Move, sharedVars, agentVars
    <2>3. ASSUME NEW t \in Thread, CreateRuntime(t)
           PROVE  LiveIsOwned'
      BY <2>3, <1>d DEF CreateRuntime, Goto, Move, sharedVars, agentVars
    <2>4. ASSUME NEW t \in Thread, CreateFails(t)
           PROVE  LiveIsOwned'
      BY <2>4, <1>d DEF CreateFails, Goto, Move, sharedVars, agentVars
    <2>5. ASSUME NEW t \in Thread, InstallRuntime(t)
           PROVE  LiveIsOwned'
      BY <2>5, <1>d DEF InstallRuntime, Goto, Move, sharedVars, agentVars
    <2>6. ASSUME NEW t \in Thread, DiscardCreatedRuntime(t)
           PROVE  LiveIsOwned'
      BY <2>6, <1>d DEF DiscardCreatedRuntime, Goto, Move, sharedVars, agentVars
    <2>7. ASSUME NEW t \in Thread, CheckReservation(t)
           PROVE  LiveIsOwned'
      BY <2>7, <1>d DEF CheckReservation, Goto, Move, sharedVars, agentVars
    <2>8. ASSUME NEW t \in Thread, FinishAbortedStart(t)
           PROVE  LiveIsOwned'
      BY <2>8, <1>d DEF FinishAbortedStart, Goto, Move, sharedVars, agentVars
    <2>9. ASSUME NEW t \in Thread, EmitAborted(t)
           PROVE  LiveIsOwned'
      BY <2>9, <1>d DEF EmitAborted, Goto, Move, Return, sharedVars, agentVars
    <2>10. ASSUME NEW t \in Thread, CallbackAborted(t)
           PROVE  LiveIsOwned'
      BY <2>10, <1>d DEF CallbackAborted, Return, sharedVars, agentVars
    <2>11. ASSUME NEW t \in Thread, RuntimeSubmit(t)
           PROVE  LiveIsOwned'
      <3>1. /\ thr[t].run \in Run /\ Goto(t, "publish") /\ UNCHANGED watcher /\ thr[t].pc = "submit"
            /\ \A r \in Run : r # thr[t].run => runs'[r] = runs[r]
        BY <2>11, <1>p, SMTT(60) DEF RuntimeSubmit, ShapeOf
      <3>2. /\ thr'[t].pc = "publish" /\ thr'[t].run = thr[t].run
            /\ \A u \in Thread : u # t => thr'[u] = thr[u]
        BY <3>1, <1>t, SMTT(60) DEF Goto, Move, ThreadRecord
      <3> QED
        BY <3>1, <3>2, <1>l, SMTT(60) DEF LiveIsOwned, Watched
    <2>12. ASSUME NEW t \in Thread, RuntimeSubmitFails(t)
           PROVE  LiveIsOwned'
      BY <2>12, <1>d DEF RuntimeSubmitFails, Goto, Move, sharedVars, agentVars
    <2>13. ASSUME NEW t \in Thread, ReleaseReservation(t)
           PROVE  LiveIsOwned'
      BY <2>13, <1>d DEF ReleaseReservation, Return, sharedVars, agentVars
    <2>14. ASSUME NEW t \in Thread, PublishRunning(t)
           PROVE  LiveIsOwned'
      <3>1. Owns(t)
        BY <2>14, <1>o, <1>p DEF PublishRunning, ThreadsOwn, Submitting, ShapeOf
      <3>2. Goto(t, "watch") /\ UNCHANGED <<runs, watcher>>
        BY <2>14, <3>1 DEF PublishRunning
      <3>3. /\ thr'[t].pc = "watch" /\ thr'[t].run = thr[t].run
            /\ \A u \in Thread : u # t => thr'[u] = thr[u]
        BY <3>2, <1>t DEF Goto, Move, ThreadRecord
      <3> QED
        BY <3>2, <3>3, <1>q DEF Watched
    <2>15. ASSUME NEW t \in Thread, StartWatcher(t)
           PROVE  LiveIsOwned'
      <3>1. /\ thr[t].run \in Run /\ Return(t) /\ UNCHANGED runs
            /\ watcher' = [watcher EXCEPT ![thr[t].run] = "poll"]
        BY <2>15, <1>p DEF StartWatcher, ShapeOf, agentVars
      <3>2. \A u \in Thread : u # t => thr'[u] = thr[u]
        BY <3>1, <1>t DEF Return
      <3>3. /\ \A r \in Run : r = thr[t].run => Watched(r)'
            /\ \A r \in Run : Watched(r) => Watched(r)'
        BY <3>1, <1>t DEF Watched
      <3> QED
        BY <3>1, <3>2, <3>3, <1>l, SMTT(60) DEF LiveIsOwned
    <2>16. ASSUME NEW t \in Thread, WatcherStartFails(t)
           PROVE  LiveIsOwned'
      BY <2>16 DEF WatcherStartFails
    <2>17. ASSUME NEW t \in Thread, FinishOperation(t)
           PROVE  LiveIsOwned'
      BY <2>17, <1>d DEF FinishOperation, Return, sharedVars, agentVars
    <2>18. ASSUME NEW t \in Thread, ReleasePop(t)
           PROVE  LiveIsOwned'
      BY <2>18, <1>d DEF ReleasePop, Goto, Move, sharedVars, agentVars
    <2>19. ASSUME NEW t \in Thread, ReleaseBump(t)
           PROVE  LiveIsOwned'
      BY <2>19, <1>d DEF ReleaseBump, Goto, Move, sharedVars, agentVars
    <2>20. ASSUME NEW t \in Thread, DisposeDetached(t)
           PROVE  LiveIsOwned'
      BY <2>20, <1>d DEF DisposeDetached, Goto, Move, sharedVars, agentVars
    <2>21. ASSUME NEW t \in Thread, ReplaceAdmit(t)
           PROVE  LiveIsOwned'
      BY <2>21, <1>d DEF ReplaceAdmit, Goto, Move, sharedVars, agentVars
    <2>22. ASSUME NEW t \in Thread, ReplaceRefused(t)
           PROVE  LiveIsOwned'
      BY <2>22, <1>d DEF ReplaceRefused, Goto, Move, Return, sharedVars, agentVars
    <2>23. ASSUME NEW t \in Thread, DisposeRefused(t)
           PROVE  LiveIsOwned'
      BY <2>23, <1>d DEF DisposeRefused, Return, sharedVars, agentVars
    <2>24. ASSUME NEW t \in Thread, ReplaceSwap(t)
           PROVE  LiveIsOwned'
      BY <2>24, <1>d DEF ReplaceSwap, Goto, Move, sharedVars, agentVars
    <2> QED
      BY <1>2, <2>1, <2>2, <2>3, <2>4, <2>5, <2>6, <2>7, <2>8, <2>9, <2>10, <2>11,
         <2>12, <2>13, <2>14, <2>15, <2>16, <2>17, <2>18, <2>19, <2>20, <2>21, <2>22,
         <2>23, <2>24
      DEF ThreadStep
  <1>3. CASE \E s \in Session : \/ Abort(s) \/ StopWorkerRuns(s)
                              \/ StopWorkerReturns(s) \/ ShutdownMark(s)
    <2>1. ASSUME NEW s \in Session, AbortRun(s) \/ AbortIdle(s) \/ StopWorkerRuns(s)
                  \/ StopWorkerReturns(s) \/ ShutdownMark(s)
           PROVE  LiveIsOwned'
      BY <2>1, <1>n
      DEF AbortRun, AbortIdle, StopWorkerRuns, StopWorkerReturns, ShutdownMark, vars,
                   sharedVars, admissionVars, controlVars, runtimeVars, agentVars, historyVars,
                   shutdownVars, stoppedVars, unstoppedVars
    <2> QED
      BY <1>3, <2>1 DEF Abort
  <1>4. CASE \E r \in Run : RunFinishes(r) \/ WatcherStep(r) \/ AbortWorkerRuns(r)
    <2>1. ASSUME NEW r \in Run, AbortWorkerRuns(r)
           PROVE  LiveIsOwned'
      BY <2>1, <1>n
      DEF AbortWorkerRuns, vars, sharedVars, admissionVars, controlVars, runtimeVars,
                   agentVars, historyVars, shutdownVars, stoppedVars, unstoppedVars
    <2>2. ASSUME NEW r \in Run, RunFinishes(r)
           PROVE  LiveIsOwned'
      <3>1. \A z \in Run : runs'[z].phase = "live" => runs[z].phase = "live"
        BY <2>2, <1>t DEF RunFinishes, RunRecord
      <3> QED
        BY <2>2, <3>1, <1>q DEF RunFinishes, Watched
    <2>3. ASSUME NEW r \in Run, WatchTimeout(r)
           PROVE  LiveIsOwned'
      <3>1. \A z \in Run : Watched(z) => Watched(z)'
        BY <2>3, <1>t DEF WatchTimeout, Watched
      <3> QED
        BY <2>3, <3>1, <1>q DEF WatchTimeout, agentVars
    <2>4. ASSUME NEW r \in Run, WatchComplete(r)
           PROVE  LiveIsOwned'
      <3>1. runs[r].phase # "live" /\ UNCHANGED <<runs, thr>>
        BY <2>4 DEF WatchComplete, HandleFinished, agentVars
      <3>2. \A z \in Run : z # r => watcher'[z] = watcher[z]
        BY <2>4, <1>t DEF WatchComplete
      <3> QED
        BY <3>1, <3>2, <1>l, SMTT(60) DEF LiveIsOwned, Watched
    <2>5. ASSUME NEW r \in Run, WatcherEmit(r)
           PROVE  LiveIsOwned'
      <3>1. \A z \in Run : Watched(z) => Watched(z)'
        BY <2>5, <1>t DEF WatcherEmit, Watched
      <3> QED
        BY <2>5, <3>1, <1>q DEF WatcherEmit, agentVars
    <2>6. ASSUME NEW r \in Run, WatcherCallback(r)
           PROVE  LiveIsOwned'
      <3>1. \A z \in Run : Watched(z) => Watched(z)'
        BY <2>6, <1>t DEF WatcherCallback, Watched
      <3> QED
        BY <2>6, <3>1, <1>q DEF WatcherCallback, agentVars
    <2>7. ASSUME NEW r \in Run, WatcherExit(r)
           PROVE  LiveIsOwned'
      <3>1. \A z \in Run : Watched(z) => Watched(z)'
        BY <2>7, <1>t DEF WatcherExit, Watched
      <3> QED
        BY <2>7, <3>1, <1>q DEF WatcherExit, agentVars
    <2> QED
      BY <1>4, <2>1, <2>2, <2>3, <2>4, <2>5, <2>6, <2>7 DEF WatcherStep
  <1>5. CASE ShutdownBegin \/ ShutdownPass \/ ShutdownTimeout \/ AtRest
    <2>1. ASSUME ShutdownBegin \/ ShutdownControls \/ ShutdownSnapshot \/ ShutdownMarked
                  \/ ShutdownJoinAborts \/ ShutdownRuntimes
           PROVE  LiveIsOwned'
      BY <2>1, <1>n DEF ShutdownBegin, ShutdownControls, ShutdownSnapshot, ShutdownMarked,
                   ShutdownJoinAborts, ShutdownRuntimes, vars, sharedVars, admissionVars,
                   controlVars, runtimeVars, agentVars, historyVars, shutdownVars, stoppedVars,
                   unstoppedVars
    <2>2. ASSUME ShutdownJoinStops \/ ShutdownWatchers \/ ShutdownFinish \/ ShutdownTimeout
                  \/ AtRest
           PROVE  LiveIsOwned'
      BY <2>2, <1>n DEF ShutdownJoinStops, ShutdownWatchers, ShutdownFinish, ShutdownTimeout,
                   AtRest, vars, sharedVars, admissionVars, controlVars, runtimeVars,
                   agentVars, historyVars, shutdownVars, stoppedVars, unstoppedVars
    <2> QED
      BY <1>5, <1>3, <2>1, <2>2 DEF ShutdownPass
  <1>6. CASE UNCHANGED vars
    BY <1>6, <1>n DEF vars, sharedVars, admissionVars, controlVars, runtimeVars, agentVars,
                 historyVars, shutdownVars, stoppedVars, unstoppedVars
  <1> QED
    BY <1>1, <1>2, <1>3, <1>4, <1>5, <1>6 DEF Next
=============================================================================
