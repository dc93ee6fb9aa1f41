---------------------- MODULE SessionCoordinatorProofs ----------------------
(***************************************************************************)
(* Proofs about SessionCoordinator for every number of sessions, threads,  *)
(* runs and runtimes and every capacity, with every fault enabled.  First  *)
(* the invariants about runtimes and shutdown: who may put a runtime into  *)
(* _runtimes, who may take it away, which runs can reach it, and what each *)
(* wait of a shutdown leaves behind.  Then the theorems.                   *)
(***************************************************************************)
EXTENDS SessionCoordinatorSlots

\* A leaf is left to Zenon unless it names SMT: most are first-order.
USE ZenonT(30)

-----------------------------------------------------------------------------
(* What every step has in common. *)

(* Whatever is neither a request nor a step of a request thread leaves the   *)
(* threads, the gates, the epochs and the factory alone, and touches the     *)
(* installed runtimes only at the end of a shutdown.                         *)
LEMMA StepKinds ==
  ASSUME [Next]_vars
  PROVE  \/ \E t \in Thread, s \in Session : Request(t, s)
         \/ \E t \in Thread : ThreadStep(t)
         \/ /\ UNCHANGED <<thr, gate, epoch, nextRuntime>>
            /\ UNCHANGED runtimes \/ ShutdownFinish
  <1> USE DEF vars, sharedVars, admissionVars, controlVars, runtimeVars, agentVars,
              historyVars, shutdownVars, stoppedVars, unstoppedVars
  <1> DEFINE Aside == /\ UNCHANGED <<thr, gate, epoch, nextRuntime>>
                      /\ UNCHANGED runtimes \/ ShutdownFinish
  <1>1. ASSUME NEW s \in Session, Abort(s) \/ StopWorkerRuns(s) \/ StopWorkerReturns(s)
        PROVE  Aside
    BY <1>1 DEF Abort, AbortRun, AbortIdle, StopWorkerRuns, StopWorkerReturns
  <1>2. ASSUME NEW r \in Run, RunFinishes(r) \/ WatcherStep(r) \/ AbortWorkerRuns(r)
        PROVE  Aside
    BY <1>2 DEF RunFinishes, WatcherStep, WatchTimeout, WatchComplete, WatcherEmit,
                WatcherCallback, WatcherExit, AbortWorkerRuns
  <1>3. ASSUME ShutdownBegin \/ ShutdownPass \/ ShutdownTimeout PROVE Aside
    BY <1>3 DEF ShutdownBegin, ShutdownPass, ShutdownTimeout, ShutdownControls,
                ShutdownSnapshot, ShutdownMark, ShutdownMarked, ShutdownJoinAborts,
                ShutdownRuntimes, ShutdownJoinStops, ShutdownWatchers, ShutdownFinish
  <1>4. ASSUME AtRest \/ UNCHANGED vars PROVE Aside
    BY <1>4 DEF AtRest
  <1> QED
    BY <1>1, <1>2, <1>3, <1>4 DEF Next

(* The locals a thread has after a move. *)
LEMMA MoveLocals ==
  ASSUME thr \in [Thread -> ThreadRecord], NEW t \in Thread, NEW p, NEW e, NEW x,
         Move(t, p, e, x)
  PROVE  /\ thr'[t].pc = p /\ thr'[t].epoch = e /\ thr'[t].runtime = x
         /\ thr'[t].op = thr[t].op /\ thr'[t].session = thr[t].session
         /\ thr'[t].run = thr[t].run
         /\ \A u \in Thread : u # t => thr'[u] = thr[u]
  BY SMTT(60) DEF Move, ThreadRecord

LEMMA GotoLocals ==
  ASSUME thr \in [Thread -> ThreadRecord], NEW t \in Thread, NEW p, Goto(t, p)
  PROVE  /\ thr'[t].pc = p /\ thr'[t].epoch = thr[t].epoch
         /\ thr'[t].runtime = thr[t].runtime
         /\ thr'[t].op = thr[t].op /\ thr'[t].session = thr[t].session
         /\ thr'[t].run = thr[t].run
         /\ \A u \in Thread : u # t => thr'[u] = thr[u]
  BY MoveLocals, SMTT(60) DEF Goto

(* An admission starts a thread at the head of its operation. *)
LEMMA RequestLocals ==
  ASSUME TypeOK, NEW t \in Thread, NEW s \in Session, Request(t, s)
  PROVE  /\ thr[t].pc = "idle" /\ thr'[t].session = s
         /\ thr'[t].pc \in {"lookup", "ready", "pop", "prepared"}
         /\ thr'[t].op = "submit" => /\ thr'[t].pc = "lookup" /\ thr'[t].run = nextRun
                                     /\ SubmitAdmit(t, s)
         /\ thr'[t].runtime = IF RestorePrepare(t, s) THEN nextRuntime ELSE NoRuntime
         /\ thr'[t].pc = "prepared" => RestorePrepare(t, s)
         /\ \A u \in Thread : u # t => thr'[u] = thr[u]
         /\ UNCHANGED <<runtimes, gate, epoch, runs, watcher, earlyStops>>
  <1> thr \in [Thread -> ThreadRecord]
    BY DEF TypeOK, ControlTypeOK
  <1> USE DEF Begin, Free, sharedVars, admissionVars, controlVars, runtimeVars, agentVars,
              historyVars, shutdownVars
  <1>1. CASE SubmitAdmit(t, s)
    BY <1>1 DEF SubmitAdmit, RestorePrepare
  <1>2. CASE EnsureStart(t, s)
    BY <1>2 DEF EnsureStart, RestorePrepare
  <1>3. CASE SideQuestionStart(t, s)
    BY <1>3 DEF SideQuestionStart, RestorePrepare
  <1>4. CASE ConfigureStart(t, s)
    BY <1>4 DEF ConfigureStart, ControlStart, RestorePrepare
  <1>5. CASE RewindStart(t, s)
    BY <1>5 DEF RewindStart, ControlStart, RestorePrepare
  <1>6. CASE ReleaseStart(t, s)
    BY <1>6 DEF ReleaseStart, ControlStart, RestorePrepare
  <1>7. CASE RestorePrepare(t, s)
    BY <1>7 DEF RestorePrepare
  <1> QED
    BY <1>1, <1>2, <1>3, <1>4, <1>5, <1>6, <1>7 DEF Request

(* A step of a thread moves that thread within its operation, or ends it. *)
LEMMA StepLocals ==
  ASSUME TypeOK, NEW t \in Thread, ThreadStep(t)
  PROVE  /\ thr[t].pc # "idle"
         /\ \A u \in Thread : u # t => thr'[u] = thr[u]
         /\ \/ thr'[t] = IdleThread
            \/ /\ thr'[t].op = thr[t].op /\ thr'[t].session = thr[t].session
               /\ thr'[t].run = thr[t].run
  <1>t. thr \in [Thread -> ThreadRecord]
    BY DEF TypeOK, ControlTypeOK
  <1>m. \A p, e, x : Move(t, p, e, x) =>
          /\ \A u \in Thread : u # t => thr'[u] = thr[u]
          /\ thr'[t].op = thr[t].op /\ thr'[t].session = thr[t].session
          /\ thr'[t].run = thr[t].run
    BY <1>t, MoveLocals, SMTT(60)
  <1>r. Return(t) => thr'[t] = IdleThread /\ \A u \in Thread : u # t => thr'[u] = thr[u]
    BY <1>t DEF Return
  <1> USE <1>m, <1>r DEF Goto
  <1>1. CASE LookupRuntime(t) \/ EnterGate(t) \/ CreateRuntime(t) \/ CreateFails(t)
             \/ InstallRuntime(t) \/ DiscardCreatedRuntime(t)
    BY <1>1 DEF LookupRuntime, EnterGate, CreateRuntime, CreateFails, InstallRuntime,
                DiscardCreatedRuntime
  <1>2. CASE CheckReservation(t) \/ FinishAbortedStart(t) \/ EmitAborted(t)
             \/ CallbackAborted(t) \/ RuntimeSubmit(t) \/ RuntimeSubmitFails(t)
    BY <1>2 DEF CheckReservation, FinishAbortedStart, EmitAborted, CallbackAborted,
                RuntimeSubmit, RuntimeSubmitFails
  <1>3. CASE ReleaseReservation(t) \/ PublishRunning(t) \/ StartWatcher(t)
             \/ WatcherStartFails(t) \/ FinishOperation(t)
    BY <1>3 DEF ReleaseReservation, PublishRunning, StartWatcher, WatcherStartFails,
                FinishOperation
  <1>4. CASE ReleasePop(t) \/ ReleaseBump(t) \/ DisposeDetached(t) \/ ReplaceAdmit(t)
             \/ ReplaceRefused(t) \/ DisposeRefused(t) \/ ReplaceSwap(t)
    BY <1>4 DEF ReleasePop, ReleaseBump, DisposeDetached, ReplaceAdmit, ReplaceRefused,
                DisposeRefused, ReplaceSwap
  <1> QED
    BY <1>1, <1>2, <1>3, <1>4 DEF ThreadStep

-----------------------------------------------------------------------------
(* A gate has at most one thread behind it, from its second look until its   *)
(* runtime is installed or discarded.                                        *)
LEMMA GateStep ==
  ASSUME CoordinatorInv, GateHeld, [Next]_vars
  PROVE  GateHeld'
  <1>t. /\ TypeOK /\ thr \in [Thread -> ThreadRecord] /\ gate \in [Session -> BOOLEAN]
        /\ \A t \in Thread : thr[t].pc # "idle" => thr[t].session \in Session
    BY DEF CoordinatorInv, TypeOK, ControlTypeOK, RuntimeTypeOK, Shape, ShapeOf
  <1>k. ASSUME NEW t \in Thread, UNCHANGED gate, \A u \in Thread : u # t => thr'[u] = thr[u],
               Creating(t)' => Creating(t) /\ thr'[t].session = thr[t].session
        PROVE  GateHeld'
    BY <1>k, SMTT(60) DEF GateHeld, Creating
  <1>m. ASSUME NEW t \in Thread, NEW p, NEW e, NEW x, Move(t, p, e, x), UNCHANGED gate,
               p \in {"build", "install", "discard"} => Creating(t)
        PROVE  GateHeld'
    BY <1>t, <1>k, <1>m, MoveLocals, SMTT(60) DEF Creating
  <1>r. ASSUME NEW t \in Thread, Return(t), UNCHANGED gate PROVE GateHeld'
    BY <1>t, <1>k, <1>r DEF Return, Creating, IdleThread
  <1>l. ASSUME NEW t \in Thread, NEW p, NEW e, NEW x, Move(t, p, e, x),
               Creating(t), p \notin {"build", "install", "discard"},
               \A z \in Session : z # thr[t].session => gate'[z] = gate[z]
        PROVE  GateHeld'
    <2>1. ~Creating(t)' /\ \A u \in Thread : u # t => thr'[u] = thr[u]
      BY <1>t, <1>l, MoveLocals, SMTT(60) DEF Creating
    <2>2. \A u \in Thread : Creating(u)' => /\ Creating(u) /\ thr'[u] = thr[u]
                                           /\ thr[u].session # thr[t].session
      BY <1>l, <2>1 DEF GateHeld, Creating
    <2>3. \A u \in Thread : Creating(u) => thr[u].session \in Session
      BY <1>t DEF Creating
    <2> QED
      BY <1>t, <1>l, <2>2, <2>3, SMTT(60) DEF GateHeld
  <1>1. ASSUME NEW t \in Thread, NEW s \in Session, Request(t, s) PROVE GateHeld'
    BY <1>t, <1>1, <1>k, RequestLocals DEF Creating
  <1>2. ASSUME NEW t \in Thread, EnterGate(t) PROVE GateHeld'
    <2> DEFINE s == thr[t].session
    <2>1. /\ s \in Session /\ ~gate[s]
          /\ gate' = [gate EXCEPT ![s] = (runtimes[s] = NoRuntime)]
          /\ Move(t, IF runtimes[s] # NoRuntime THEN "ready" ELSE "build", thr[t].epoch,
                  runtimes[s])
      BY <1>t, <1>2 DEF EnterGate
    <2>2. /\ thr'[t].session = s /\ (Creating(t)' <=> runtimes[s] = NoRuntime)
          /\ \A u \in Thread : u # t => thr'[u] = thr[u]
      BY <1>t, <2>1, MoveLocals, SMTT(60) DEF Creating
    <2>3. \A u \in Thread : Creating(u) => thr[u].session # s /\ thr[u].session \in Session
      BY <1>t, <2>1 DEF GateHeld, Creating
    <2>4. \A u \in Thread : u # t => (Creating(u)' <=> Creating(u))
      BY <2>2 DEF Creating
    <2>5. \A u \in Thread : Creating(u)' => gate'[thr'[u].session]
      BY <1>t, <2>1, <2>2, <2>3, <2>4 DEF GateHeld
    <2>6. \A u \in Thread : u # t /\ Creating(u)' => Creating(u) /\ thr'[u].session # s
      BY <2>2, <2>3, <2>4
    <2>7. \A u, v \in Thread : Creating(u)' /\ Creating(v)' /\ thr'[u].session = thr'[v].session
                              => u = v
      BY <2>2, <2>6, SMTT(60) DEF GateHeld
    <2> QED
      BY <2>5, <2>7 DEF GateHeld
  <1>3. ASSUME NEW t \in Thread, InstallRuntime(t) PROVE GateHeld'
    <2>1. Creating(t) /\ gate[thr[t].session] /\ thr[t].session \in Session
      BY <1>t, <1>3 DEF InstallRuntime, Creating, GateHeld
    <2>2. CASE Installable(t)
      <3>1. \A z \in Session : z # thr[t].session => gate'[z] = gate[z]
        BY <1>t, <1>3 DEF InstallRuntime
      <3>2. Move(t, "ready", thr[t].epoch, thr[t].runtime)
        BY <1>3, <2>2 DEF InstallRuntime, Goto
      <3> QED
        BY <1>l, <2>1, <3>1, <3>2, SMTT(60)
    <2>3. CASE ~Installable(t)
      <3>1. UNCHANGED gate
        BY <1>t, <1>3, <2>1, <2>3 DEF InstallRuntime
      <3> QED
        BY <1>3, <1>m, <2>1, <2>3, <3>1 DEF InstallRuntime, Goto
    <2> QED
      BY <2>2, <2>3
  <1>4. ASSUME NEW t \in Thread, CreateFails(t) \/ DiscardCreatedRuntime(t)
        PROVE  GateHeld'
    BY <1>t, <1>4, <1>l, SMTT(60) DEF CreateFails, DiscardCreatedRuntime, Goto, Creating
  <1>5. ASSUME NEW t \in Thread, LookupRuntime(t) \/ CreateRuntime(t) \/ CheckReservation(t)
               \/ FinishAbortedStart(t) \/ EmitAborted(t) \/ CallbackAborted(t)
               \/ RuntimeSubmit(t) \/ RuntimeSubmitFails(t)
        PROVE  GateHeld'
    <2> USE <1>m, <1>r DEF Goto, sharedVars, runtimeVars
    <2>1. CASE LookupRuntime(t)
      BY <2>1, SMTT(60) DEF LookupRuntime
    <2>2. CASE CreateRuntime(t)
      BY <2>2 DEF CreateRuntime, Creating
    <2>3. CASE CheckReservation(t) \/ RuntimeSubmit(t) \/ RuntimeSubmitFails(t)
      BY <2>3 DEF CheckReservation, RuntimeSubmit, RuntimeSubmitFails
    <2>4. CASE FinishAbortedStart(t) \/ EmitAborted(t) \/ CallbackAborted(t)
      BY <2>4 DEF FinishAbortedStart, EmitAborted, CallbackAborted
    <2> QED
      BY <1>5, <2>1, <2>2, <2>3, <2>4
  <1>6. ASSUME NEW t \in Thread, ReleaseReservation(t) \/ PublishRunning(t) \/ StartWatcher(t)
               \/ WatcherStartFails(t) \/ FinishOperation(t)
        PROVE  GateHeld'
    BY <1>6, <1>m, <1>r DEF ReleaseReservation, PublishRunning, StartWatcher,
       WatcherStartFails, FinishOperation, Goto, runtimeVars
  <1>7. ASSUME NEW t \in Thread, ReleasePop(t) \/ ReleaseBump(t) \/ DisposeDetached(t)
               \/ ReplaceAdmit(t) \/ ReplaceRefused(t) \/ DisposeRefused(t) \/ ReplaceSwap(t)
        PROVE  GateHeld'
    BY <1>7, <1>m, <1>r, SMTT(60) DEF ReleasePop, ReleaseBump, DisposeDetached, ReplaceAdmit,
       ReplaceRefused, DisposeRefused, ReplaceSwap, Goto, sharedVars, runtimeVars
  <1>8. ASSUME UNCHANGED <<thr, gate>> PROVE GateHeld'
    BY <1>8 DEF GateHeld, Creating
  <1> QED
    BY <1>1, <1>2, <1>3, <1>4, <1>5, <1>6, <1>7, <1>8, StepKinds DEF ThreadStep

-----------------------------------------------------------------------------
(* Nobody but the thread behind the gate installs under the current epoch. *)
LEMMA CreatorsStep ==
  ASSUME CoordinatorInv, GateHeld, CreatorsCurrent, [Next]_vars
  PROVE  CreatorsCurrent'
  <1>t. /\ TypeOK /\ thr \in [Thread -> ThreadRecord] /\ epoch \in [Session -> Nat]
        /\ runtimes \in [Session -> RuntimeId \cup {NoRuntime}]
        /\ nextRuntime # NoRuntime
        /\ \A t \in Thread : thr[t].epoch \in Nat
        /\ \A t \in Thread : thr[t].pc # "idle" => thr[t].session \in Session
    BY BoundsAssumption, SMTT(60) DEF CoordinatorInv, TypeOK, ControlTypeOK, RuntimeTypeOK, Shape,
       ShapeOf, ThreadRecord, NoRuntime
  <1>k. ASSUME NEW t \in Thread, UNCHANGED <<epoch, runtimes>>, CreatorCurrent(t)',
               \A u \in Thread : u # t => thr'[u] = thr[u]
        PROVE  CreatorsCurrent'
    BY <1>k, SMTT(60) DEF CreatorsCurrent, CreatorCurrent
  <1>m. ASSUME NEW t \in Thread, NEW p, NEW e, NEW x, Move(t, p, e, x),
               UNCHANGED <<epoch, runtimes>>,
               p \notin {"gate", "build", "install", "prepared", "swap"}
        PROVE  CreatorsCurrent'
    BY <1>t, <1>k, <1>m, MoveLocals, SMTT(60) DEF CreatorCurrent
  <1>r. ASSUME NEW t \in Thread, Return(t), UNCHANGED <<epoch, runtimes>>
        PROVE  CreatorsCurrent'
    BY <1>t, <1>k, <1>r DEF Return, CreatorCurrent, IdleThread
  <1>e. ASSUME NEW t \in Thread, NEW s \in Session, CreatorCurrent(t)',
               \A u \in Thread : u # t => thr'[u] = thr[u],
               \A z \in Session \ {s} : epoch'[z] = epoch[z] /\ runtimes'[z] = runtimes[z],
               \/ epoch'[s] = epoch[s] + 1
               \/ epoch'[s] = epoch[s] /\ runtimes'[s] = NoRuntime
        PROVE  CreatorsCurrent'
    <2> SUFFICES ASSUME NEW u \in Thread, u # t PROVE CreatorCurrent(u)'
      BY <1>e DEF CreatorsCurrent
    <2>1. thr'[u] = thr[u] /\ CreatorCurrent(u) /\ thr[u].epoch \in Nat
      BY <1>e, <1>t DEF CreatorsCurrent
    <2>2. CASE thr[u].pc \notin {"gate", "build", "install"}
      BY <2>1, <2>2 DEF CreatorCurrent
    <2>3. CASE thr[u].pc \in {"gate", "build", "install"}
      <3>1. thr[u].session \in Session /\ epoch[s] \in Nat
        BY <1>t, <2>3
      <3>2. CASE thr[u].session # s
        BY <1>e, <2>1, <3>1, <3>2, SMTT(60) DEF CreatorCurrent
      <3>3. CASE thr[u].session = s
        BY <1>e, <2>1, <3>1, <3>3, SMTT(60) DEF CreatorCurrent
      <3> QED
        BY <3>2, <3>3
    <2> QED
      BY <2>2, <2>3
  <1>1. ASSUME NEW t \in Thread, NEW s \in Session, Request(t, s) PROVE CreatorsCurrent'
    <2>1. CreatorCurrent(t)'
      BY <1>t, <1>1, RequestLocals DEF CreatorCurrent
    <2> QED
      BY <1>t, <1>1, <1>k, <2>1, RequestLocals, SMTT(60)
  <1>2. ASSUME NEW t \in Thread, LookupRuntime(t) \/ EnterGate(t) PROVE CreatorsCurrent'
    <2>1. \A u \in Thread : u # t => thr'[u] = thr[u]
      BY <1>2, StepLocals DEF ThreadStep, CoordinatorInv
    <2> DEFINE s == thr[t].session
    <2>2. s \in Session /\ UNCHANGED <<epoch, runtimes>>
      BY <1>t, <1>2 DEF LookupRuntime, EnterGate, sharedVars, runtimeVars
    <2>3. /\ thr'[t].session = s /\ thr'[t].pc \in {"ready", "gate", "build"}
          /\ thr'[t].pc \in {"gate", "build"} => thr'[t].epoch <= epoch[s]
          /\ thr'[t].pc = "build" => runtimes[s] = NoRuntime
      <3>1. CASE LookupRuntime(t)
        <4>1. Move(t, IF runtimes[s] # NoRuntime THEN "ready" ELSE "gate", epoch[s], runtimes[s])
          BY <3>1 DEF LookupRuntime
        <4> QED
          BY <1>t, <2>2, <4>1, MoveLocals, SMTT(60)
      <3>2. CASE EnterGate(t)
        <4>1. /\ thr[t].pc = "gate"
              /\ Move(t, IF runtimes[s] # NoRuntime THEN "ready" ELSE "build", thr[t].epoch,
                      runtimes[s])
          BY <3>2 DEF EnterGate
        <4>2. thr[t].epoch <= epoch[s]
          BY <4>1 DEF CreatorsCurrent, CreatorCurrent
        <4> QED
          BY <1>t, <2>2, <4>1, <4>2, MoveLocals, SMTT(60)
      <3> QED
        BY <1>2, <3>1, <3>2
    <2>4. CreatorCurrent(t)'
      BY <2>2, <2>3 DEF CreatorCurrent
    <2> QED
      BY <1>t, <1>k, <2>1, <2>2, <2>4
  <1>3. ASSUME NEW t \in Thread, CreateRuntime(t) \/ ReplaceAdmit(t) PROVE CreatorsCurrent'
    <2>1. CASE CreateRuntime(t)
      <3>1. /\ thr[t].pc = "build" /\ Move(t, "install", thr[t].epoch, nextRuntime)
            /\ UNCHANGED <<epoch, runtimes>>
        BY <2>1 DEF CreateRuntime
      <3>2. CreatorCurrent(t)'
        BY <1>t, <3>1, MoveLocals, SMTT(60) DEF CreatorsCurrent, CreatorCurrent
      <3> QED
        BY <1>t, <1>k, <3>1, <3>2, MoveLocals, SMTT(60)
    <2>2. CASE ReplaceAdmit(t)
      <3>1. thr[t].pc = "prepared" /\ Goto(t, "swap") /\ UNCHANGED <<epoch, runtimes>>
        BY <2>2 DEF ReplaceAdmit, runtimeVars
      <3>2. CreatorCurrent(t)'
        BY <1>t, <3>1, GotoLocals, SMTT(60) DEF CreatorsCurrent, CreatorCurrent
      <3> QED
        BY <1>t, <1>k, <3>1, <3>2, GotoLocals
    <2> QED
      BY <1>3, <2>1, <2>2
  <1>4. ASSUME NEW t \in Thread, InstallRuntime(t) PROVE CreatorsCurrent'
    <2> DEFINE s == thr[t].session
    <2>1. /\ s \in Session /\ thr[t].pc = "install" /\ UNCHANGED epoch
          /\ \A z \in Session : z # s => runtimes'[z] = runtimes[z]
          /\ Goto(t, IF Installable(t) THEN "ready" ELSE "discard")
      BY <1>t, <1>4 DEF InstallRuntime
    <2>2. /\ thr'[t].pc \in {"ready", "discard"}
          /\ \A u \in Thread : u # t => thr'[u] = thr[u]
      BY <1>t, <2>1, GotoLocals, SMTT(60)
    <2> SUFFICES ASSUME NEW u \in Thread PROVE CreatorCurrent(u)'
      BY DEF CreatorsCurrent
    <2>3. CASE u = t
      BY <2>2, <2>3 DEF CreatorCurrent
    <2>4. CASE u # t
      <3>1. thr[u].pc \in {"build", "install"} => s # thr[u].session /\ thr[u].session \in Session
        BY <1>t, <2>1, <2>4 DEF GateHeld, Creating
      <3>2. thr'[u] = thr[u] /\ CreatorCurrent(u)
        BY <2>2, <2>4 DEF CreatorsCurrent
      <3> QED
        BY <2>1, <3>1, <3>2 DEF CreatorCurrent
    <2> QED
      BY <2>3, <2>4
  <1>5. ASSUME NEW t \in Thread, ReleasePop(t) \/ ReleaseBump(t) \/ ReplaceSwap(t)
        PROVE  CreatorsCurrent'
    <2> DEFINE s == thr[t].session
    <2>1. s \in Session /\ \E p \in {"bump", "dispose"} : \E e, x : Move(t, p, e, x)
      BY <1>t, <1>5 DEF ReleasePop, ReleaseBump, ReplaceSwap, Goto
    <2>2. CreatorCurrent(t)' /\ \A u \in Thread : u # t => thr'[u] = thr[u]
      BY <1>t, <2>1, MoveLocals, SMTT(60) DEF CreatorCurrent
    <2>3. /\ \A z \in Session \ {s} : epoch'[z] = epoch[z] /\ runtimes'[z] = runtimes[z]
          /\ \/ epoch'[s] = epoch[s] + 1
             \/ epoch'[s] = epoch[s] /\ runtimes'[s] = NoRuntime
      BY <1>t, <1>5, <2>1 DEF ReleasePop, ReleaseBump, ReplaceSwap
    <2> QED
      BY <1>e, <2>1, <2>2, <2>3
  <1>6. ASSUME NEW t \in Thread, CreateFails(t) \/ DiscardCreatedRuntime(t)
               \/ CheckReservation(t) \/ FinishAbortedStart(t) \/ EmitAborted(t)
               \/ CallbackAborted(t) \/ RuntimeSubmit(t) \/ RuntimeSubmitFails(t)
        PROVE  CreatorsCurrent'
    <2> USE <1>m, <1>r DEF Goto, sharedVars, runtimeVars
    <2>1. CASE CreateFails(t) \/ DiscardCreatedRuntime(t) \/ CheckReservation(t)
      BY <2>1 DEF CreateFails, DiscardCreatedRuntime, CheckReservation
    <2>2. CASE FinishAbortedStart(t) \/ EmitAborted(t) \/ CallbackAborted(t)
      BY <2>2 DEF FinishAbortedStart, EmitAborted, CallbackAborted
    <2>3. CASE RuntimeSubmit(t) \/ RuntimeSubmitFails(t)
      BY <2>3 DEF RuntimeSubmit, RuntimeSubmitFails
    <2> QED
      BY <1>6, <2>1, <2>2, <2>3
  <1>7. ASSUME NEW t \in Thread, ReleaseReservation(t) \/ PublishRunning(t) \/ StartWatcher(t)
               \/ WatcherStartFails(t) \/ FinishOperation(t)
        PROVE  CreatorsCurrent'
    BY <1>7, <1>m, <1>r DEF ReleaseReservation, PublishRunning, StartWatcher,
       WatcherStartFails, FinishOperation, Goto, runtimeVars
  <1>8. ASSUME NEW t \in Thread, DisposeDetached(t) \/ ReplaceRefused(t) \/ DisposeRefused(t)
        PROVE  CreatorsCurrent'
    BY <1>8, <1>m, <1>r DEF DisposeDetached, ReplaceRefused, DisposeRefused, Goto, sharedVars,
       runtimeVars
  <1>9. ASSUME UNCHANGED <<thr, epoch>>, UNCHANGED runtimes \/ ShutdownFinish
        PROVE  CreatorsCurrent'
    <2>1. \A t \in Thread : thr[t].pc \in {"build", "install"} /\ runtimes[thr[t].session] = NoRuntime
                              => runtimes'[thr[t].session] = NoRuntime
      BY <1>9, <1>t, SMTT(60) DEF ShutdownFinish
    <2> QED
      BY <1>9, <2>1 DEF CreatorsCurrent, CreatorCurrent
  <1> QED
    BY <1>1, <1>2, <1>3, <1>4, <1>5, <1>6, <1>7, <1>8, <1>9, StepKinds DEF ThreadStep

-----------------------------------------------------------------------------
(* Which steps submit or end a run, start a watcher, admit a run or record   *)
(* an early stop.                                                            *)
LEMMA Touched ==
  ASSUME [Next]_vars
  PROVE  /\ UNCHANGED runs \/ (\E t \in Thread : RuntimeSubmit(t))
                           \/ (\E r \in Run : RunFinishes(r))
         /\ UNCHANGED watcher \/ (\E t \in Thread : StartWatcher(t))
                              \/ (\E r \in Run : WatcherStep(r))
         /\ UNCHANGED nextRun \/ (\E t \in Thread, s \in Session : SubmitAdmit(t, s))
         /\ UNCHANGED earlyStops \/ (\E s \in Session : AbortRun(s))
  <1> USE DEF vars, sharedVars, admissionVars, controlVars, runtimeVars, agentVars,
              historyVars, shutdownVars, stoppedVars, unstoppedVars
  <1>1. ASSUME NEW t \in Thread, NEW s \in Session, Request(t, s)
        PROVE  /\ UNCHANGED <<runs, watcher, earlyStops>>
               /\ UNCHANGED nextRun \/ SubmitAdmit(t, s)
    BY <1>1 DEF Request, SubmitAdmit, EnsureStart, SideQuestionStart, ConfigureStart,
       RewindStart, ReleaseStart, RestorePrepare, ControlStart
  <1>2. ASSUME NEW t \in Thread, LookupRuntime(t) \/ EnterGate(t) \/ CreateRuntime(t)
               \/ CreateFails(t) \/ InstallRuntime(t) \/ DiscardCreatedRuntime(t)
               \/ CheckReservation(t) \/ FinishAbortedStart(t) \/ EmitAborted(t)
               \/ CallbackAborted(t) \/ RuntimeSubmitFails(t) \/ ReleaseReservation(t)
        PROVE  UNCHANGED <<runs, watcher, nextRun, earlyStops>>
    BY <1>2 DEF LookupRuntime, EnterGate, CreateRuntime, CreateFails, InstallRuntime,
       DiscardCreatedRuntime, CheckReservation, FinishAbortedStart, EmitAborted,
       CallbackAborted, RuntimeSubmitFails, ReleaseReservation
  <1>3. ASSUME NEW t \in Thread, PublishRunning(t) \/ WatcherStartFails(t)
               \/ FinishOperation(t) \/ ReleasePop(t) \/ ReleaseBump(t) \/ DisposeDetached(t)
               \/ ReplaceAdmit(t) \/ ReplaceRefused(t) \/ DisposeRefused(t) \/ ReplaceSwap(t)
        PROVE  UNCHANGED <<runs, watcher, nextRun, earlyStops>>
    BY <1>3 DEF PublishRunning, WatcherStartFails, FinishOperation, ReleasePop, ReleaseBump,
       DisposeDetached, ReplaceAdmit, ReplaceRefused, DisposeRefused, ReplaceSwap
  <1>4. ASSUME NEW t \in Thread, RuntimeSubmit(t)
        PROVE  UNCHANGED <<watcher, nextRun, earlyStops>>
    BY <1>4 DEF RuntimeSubmit
  <1>5. ASSUME NEW t \in Thread, StartWatcher(t)
        PROVE  UNCHANGED <<runs, nextRun, earlyStops>>
    BY <1>5 DEF StartWatcher
  <1>6. ASSUME NEW s \in Session, Abort(s) \/ StopWorkerRuns(s) \/ StopWorkerReturns(s)
        PROVE  /\ UNCHANGED <<runs, watcher, nextRun>>
               /\ UNCHANGED earlyStops \/ AbortRun(s)
    BY <1>6 DEF Abort, AbortRun, AbortIdle, StopWorkerRuns, StopWorkerReturns
  <1>7. ASSUME NEW r \in Run, RunFinishes(r) \/ WatcherStep(r) \/ AbortWorkerRuns(r)
        PROVE  /\ UNCHANGED <<nextRun, earlyStops>>
               /\ UNCHANGED runs \/ RunFinishes(r)
               /\ UNCHANGED watcher \/ WatcherStep(r)
    BY <1>7 DEF RunFinishes, WatcherStep, WatchTimeout, WatchComplete, WatcherEmit,
       WatcherCallback, WatcherExit, AbortWorkerRuns
  <1>8. ASSUME ShutdownBegin \/ ShutdownPass \/ ShutdownTimeout
        PROVE  UNCHANGED <<runs, watcher, nextRun, earlyStops>>
    BY <1>8 DEF ShutdownBegin, ShutdownPass, ShutdownTimeout, ShutdownControls,
       ShutdownSnapshot, ShutdownMark, ShutdownMarked, ShutdownJoinAborts,
       ShutdownRuntimes, ShutdownJoinStops, ShutdownWatchers, ShutdownFinish
  <1>9. ASSUME AtRest \/ UNCHANGED vars
        PROVE  UNCHANGED <<runs, watcher, nextRun, earlyStops>>
    BY <1>9 DEF AtRest
  <1> HIDE DEF vars
  <1> QED
    BY <1>1, <1>2, <1>3, <1>4, <1>5, <1>6, <1>7, <1>8, <1>9 DEF Next, ThreadStep

(* An installed runtime is taken away by the control that holds its session  *)
(* or by a shutdown that finds no run left.                                  *)
LEMMA TakenAway ==
  ASSUME CoordinatorInv, CreatorsCurrent, [Next]_vars, NEW s \in Session,
         runtimes[s] # NoRuntime, runtimes'[s] # runtimes[s]
  PROVE  /\ control[s] \in {"release", "restore"} \/ sd'.done
         /\ ~Admitted(s)
  <1>t. /\ runtimes \in [Session -> RuntimeId \cup {NoRuntime}] /\ sd \in PassRecord
        /\ \A t \in Thread : thr[t].pc # "idle" => thr[t].session \in Session
        /\ ControlHeld /\ \A o \in Controls : o # "none"
        /\ \A t \in Thread : ShapeOf(thr[t])
    BY DEF CoordinatorInv, TypeOK, RuntimeTypeOK, ShutdownTypeOK, Shape, ShapeOf, Controls
  <1>1. ASSUME NEW t \in Thread, NEW z \in Session, Request(t, z) PROVE FALSE
    BY <1>1, RequestLocals DEF CoordinatorInv
  <1>2. ASSUME NEW t \in Thread, InstallRuntime(t) PROVE FALSE
    <2>1. runtimes' = [runtimes EXCEPT ![thr[t].session] = thr[t].runtime]
          /\ thr[t].pc = "install" /\ Installable(t)
      BY <1>2 DEF InstallRuntime
    <2>2. thr[t].session = s
      BY <1>t, <2>1
    <2> QED
      BY <2>1, <2>2 DEF Installable, CreatorsCurrent, CreatorCurrent
  <1>3. ASSUME NEW t \in Thread, ReleasePop(t) \/ ReplaceSwap(t)
        PROVE  control[s] \in {"release", "restore"} /\ ~Admitted(s)
    <2>1. thr[t].pc \in {"pop", "swap"} /\ thr[t].session = s
      BY <1>t, <1>3 DEF ReleasePop, ReplaceSwap
    <2>2. thr[t].op \in {"release", "restore"} /\ Holds(t)
      BY <1>t, <2>1 DEF ShapeOf, Holds, Controls
    <2> QED
      BY <1>t, <2>1, <2>2 DEF ControlHeld
  <1>4. ASSUME NEW t \in Thread, ThreadStep(t), ~InstallRuntime(t), ~ReleasePop(t),
               ~ReplaceSwap(t)
        PROVE  FALSE
    <2> USE DEF sharedVars, runtimeVars
    <2>1. CASE LookupRuntime(t) \/ EnterGate(t) \/ CreateRuntime(t) \/ CreateFails(t)
               \/ DiscardCreatedRuntime(t) \/ CheckReservation(t) \/ FinishAbortedStart(t)
               \/ EmitAborted(t) \/ CallbackAborted(t) \/ RuntimeSubmit(t)
      BY <2>1 DEF LookupRuntime, EnterGate, CreateRuntime, CreateFails,
         DiscardCreatedRuntime, CheckReservation, FinishAbortedStart, EmitAborted,
         CallbackAborted, RuntimeSubmit
    <2>2. CASE RuntimeSubmitFails(t) \/ ReleaseReservation(t) \/ PublishRunning(t)
               \/ StartWatcher(t) \/ WatcherStartFails(t) \/ FinishOperation(t)
               \/ ReleaseBump(t) \/ DisposeDetached(t) \/ ReplaceAdmit(t)
               \/ ReplaceRefused(t) \/ DisposeRefused(t)
      BY <2>2 DEF RuntimeSubmitFails, ReleaseReservation, PublishRunning, StartWatcher,
         WatcherStartFails, FinishOperation, ReleaseBump, DisposeDetached, ReplaceAdmit,
         ReplaceRefused, DisposeRefused
    <2> QED
      BY <1>4, <2>1, <2>2 DEF ThreadStep
  <1>5. ASSUME ShutdownFinish PROVE sd'.done /\ ~Admitted(s)
    <2> DEFINE stopped == sd.ok /\ ActiveRuns = {} /\ AliveWatchers = {}
    <2>1. stopped
      BY <1>5 DEF ShutdownFinish
    <2>2. sd' = [sd EXCEPT !.pc = "idle", !.todo = {}, !.done = stopped]
      BY <1>5 DEF ShutdownFinish
    <2>3. sd'.done
      BY <1>t, <2>1, <2>2 DEF PassRecord
    <2> QED
      BY <2>1, <2>3 DEF ActiveRuns
  <1> QED
    BY <1>1, <1>2, <1>3, <1>4, <1>5, StepKinds

-----------------------------------------------------------------------------
(* A thread about to submit has the installed runtime from where it found it *)
(* until its watcher started.                                                *)
LEMMA SubmitterStep ==
  ASSUME CoordinatorInv, CreatorsCurrent, RuntimesKept, NEW t \in Thread, ThreadStep(t),
         HasRuntime(t)'
  PROVE  runtimes'[thr'[t].session] = thr'[t].runtime /\ thr'[t].runtime # NoRuntime
  <1>t. /\ TypeOK /\ thr \in [Thread -> ThreadRecord] /\ ShapeOf(thr[t])
        /\ runtimes \in [Session -> RuntimeId \cup {NoRuntime}]
        /\ thr[t].pc # "idle" => thr[t].session \in Session
    BY DEF CoordinatorInv, TypeOK, ControlTypeOK, RuntimeTypeOK, Shape, ShapeOf
  <1>o. /\ thr[t].op = "submit" /\ thr'[t].session = thr[t].session
        /\ thr'[t].pc \in {"ready", "submit", "publish", "watch"}
    BY <1>t, StepLocals, SMTT(60) DEF HasRuntime, IdleThread
  <1>m. \A p, e, x : Move(t, p, e, x) => thr'[t].pc = p /\ thr'[t].runtime = x
    BY <1>t, MoveLocals, SMTT(60)
  <1>r. ~Return(t)
    BY <1>t, <1>o, SMTT(60) DEF Return, IdleThread
  <1>1. CASE LookupRuntime(t) \/ EnterGate(t)
    <2>1. \E p \in {"gate", "build"} : \E e :
            Move(t, IF runtimes[thr[t].session] # NoRuntime THEN "ready" ELSE p, e,
                 runtimes[thr[t].session])
      BY <1>1 DEF LookupRuntime, EnterGate
    <2>2. UNCHANGED runtimes
      BY <1>1 DEF LookupRuntime, EnterGate, sharedVars, runtimeVars
    <2> QED
      BY <1>o, <1>m, <2>1, <2>2
  <1>2. CASE InstallRuntime(t)
    <2>1. /\ thr[t].pc = "install"
          /\ Move(t, IF Installable(t) THEN "ready" ELSE "discard", thr[t].epoch, thr[t].runtime)
      BY <1>2 DEF InstallRuntime, Goto
    <2>2. Installable(t) /\ thr'[t].runtime = thr[t].runtime
      BY <1>o, <1>m, <2>1
    <2>3. runtimes' = [runtimes EXCEPT ![thr[t].session] = thr[t].runtime]
      BY <1>2, <2>2 DEF InstallRuntime
    <2> QED
      BY <1>t, <1>o, <2>1, <2>2, <2>3 DEF CreatorsCurrent, CreatorCurrent
  <1>3. CASE CheckReservation(t) \/ RuntimeSubmit(t) \/ PublishRunning(t)
    <2>1. HasRuntime(t) /\ UNCHANGED runtimes
      BY <1>3, <1>o DEF CheckReservation, RuntimeSubmit, PublishRunning, HasRuntime,
         sharedVars, runtimeVars
    <2>2. thr'[t].runtime = thr[t].runtime
      BY <1>3, <1>m, <1>r DEF CheckReservation, RuntimeSubmit, PublishRunning, Goto
    <2> QED
      BY <1>o, <2>1, <2>2 DEF RuntimesKept
  <1>4. CASE CreateRuntime(t) \/ CreateFails(t) \/ DiscardCreatedRuntime(t)
             \/ FinishAbortedStart(t) \/ EmitAborted(t) \/ CallbackAborted(t)
             \/ RuntimeSubmitFails(t) \/ ReleaseReservation(t) \/ StartWatcher(t)
             \/ WatcherStartFails(t) \/ FinishOperation(t)
    BY <1>4, <1>m, <1>o, <1>r, SMTT(60) DEF CreateRuntime, CreateFails, DiscardCreatedRuntime,
       FinishAbortedStart, EmitAborted, CallbackAborted, RuntimeSubmitFails,
       ReleaseReservation, StartWatcher, WatcherStartFails, FinishOperation, Goto
  <1>5. CASE ReleasePop(t) \/ ReleaseBump(t) \/ DisposeDetached(t) \/ ReplaceAdmit(t)
             \/ ReplaceRefused(t) \/ DisposeRefused(t) \/ ReplaceSwap(t)
    BY <1>t, <1>5, <1>o DEF ReleasePop, ReleaseBump, DisposeDetached, ReplaceAdmit,
       ReplaceRefused, DisposeRefused, ReplaceSwap, ShapeOf
  <1> QED
    BY <1>1, <1>2, <1>3, <1>4, <1>5 DEF ThreadStep

(* Only StartWatcher makes a run watched, and no step moves a watched run to *)
(* another session.                                                          *)
LEMMA WatchedStep ==
  ASSUME CoordinatorInv, [Next]_vars, NEW r \in Run, Watched(r)'
  PROVE  \/ Watched(r) /\ runs'[r].session = runs[r].session
         \/ \E t \in Thread : StartWatcher(t) /\ thr[t].run = r
  <1>t. /\ watcher \in [Run -> WatcherPc] /\ runs \in [Run -> RunRecord]
        /\ ThreadsOwn /\ \A t \in Thread : ShapeOf(thr[t])
    BY DEF CoordinatorInv, TypeOK, AdmissionTypeOK, RuntimeTypeOK, Ownership, Shape
  <1>1. Watched(r) \/ \E t \in Thread : StartWatcher(t) /\ thr[t].run = r
    <2>1. CASE UNCHANGED watcher
      BY <2>1 DEF Watched
    <2>2. ASSUME NEW t \in Thread, StartWatcher(t), thr[t].run # r PROVE Watched(r)
      BY <1>t, <2>2 DEF StartWatcher, Watched
    <2>3. ASSUME NEW q \in Run, WatcherStep(q) PROVE Watched(r)
      BY <1>t, <2>3 DEF WatcherStep, WatchTimeout, WatchComplete, WatcherEmit,
         WatcherCallback, WatcherExit, Watched
    <2> QED
      BY <2>1, <2>2, <2>3, Touched
  <1>2. Watched(r) => runs'[r].session = runs[r].session
    <2>1. CASE UNCHANGED runs
      BY <2>1
    <2>2. ASSUME NEW t \in Thread, RuntimeSubmit(t), Watched(r)
          PROVE  runs'[r].session = runs[r].session
      <3>1. Submitting(t) /\ thr[t].run \in Run
        BY <1>t, <2>2 DEF RuntimeSubmit, Submitting, ShapeOf
      <3>2. thr[t].run # r
        BY <1>t, <2>2, <3>1 DEF ThreadsOwn, Watched
      <3> QED
        BY <1>t, <2>2, <3>1, <3>2 DEF RuntimeSubmit
    <2>3. ASSUME NEW q \in Run, RunFinishes(q) PROVE runs'[r].session = runs[r].session
      BY <1>t, <2>3, SMTT(60) DEF RunFinishes, RunRecord
    <2> QED
      BY <2>1, <2>2, <2>3, Touched
  <1> QED
    BY <1>1, <1>2

LEMMA KeptStep ==
  ASSUME CoordinatorInv, CreatorsCurrent, RuntimesKept, [Next]_vars
  PROVE  RuntimesKept'
  <1>t. /\ TypeOK /\ \A t \in Thread : ShapeOf(thr[t])
        /\ ThreadsOwn /\ WatchersOwn /\ \A r \in Run : r # NoRun
    BY SMTT(60) DEF CoordinatorInv, Ownership, Shape, Run, NoRun
  <1>a. \A u \in Thread : HasRuntime(u) => /\ Submitting(u) /\ thr[u].session \in Session
                                           /\ Admitted(thr[u].session)
    BY <1>t, SMTT(60) DEF HasRuntime, Submitting, ShapeOf, ThreadsOwn, Owns, Admitted
  <1>b. \A r \in Run : Watched(r) => runs[r].session \in Session /\ Admitted(runs[r].session)
    BY <1>t DEF WatchersOwn, Watches, Admitted
  <1>c. \A s \in Session : runtimes[s] # NoRuntime /\ Admitted(s) => runtimes'[s] = runtimes[s]
    BY TakenAway
  <1>1. ASSUME NEW u \in Thread, HasRuntime(u)'
        PROVE  runtimes'[thr'[u].session] = thr'[u].runtime /\ thr'[u].runtime # NoRuntime
    <2>1. CASE thr'[u] = thr[u]
      BY <1>1, <1>a, <1>c, <2>1, SMTT(60) DEF HasRuntime, RuntimesKept
    <2>2. CASE \E s \in Session : Request(u, s)
      BY <1>t, <1>1, <2>2, RequestLocals DEF HasRuntime
    <2>3. CASE ThreadStep(u)
      BY <1>1, <2>3, SubmitterStep
    <2>4. ASSUME NEW t \in Thread, NEW s \in Session, Request(t, s), t # u PROVE thr'[u] = thr[u]
      BY <1>t, <2>4, RequestLocals
    <2>5. ASSUME NEW t \in Thread, ThreadStep(t), t # u PROVE thr'[u] = thr[u]
      BY <1>t, <2>5, StepLocals
    <2> QED
      BY <2>1, <2>2, <2>3, <2>4, <2>5, StepKinds
  <1>2. ASSUME NEW r \in Run, Watched(r)' PROVE runtimes'[runs'[r].session] # NoRuntime
    <2>1. CASE Watched(r) /\ runs'[r].session = runs[r].session
      BY <1>b, <1>c, <2>1 DEF RuntimesKept
    <2>2. ASSUME NEW t \in Thread, StartWatcher(t), thr[t].run = r
          PROVE  runtimes'[runs'[r].session] # NoRuntime
      <3>1. HasRuntime(t) /\ thr[t].pc = "watch" /\ UNCHANGED <<runs, runtimes>>
        BY <1>t, <2>2 DEF StartWatcher, HasRuntime, ShapeOf, agentVars, runtimeVars
      <3>2. runs[r].session = thr[t].session
        BY <1>t, <1>a, <2>2, <3>1 DEF ThreadsOwn
      <3> QED
        BY <3>1, <3>2 DEF RuntimesKept
    <2> QED
      BY <1>2, <2>1, <2>2, WatchedStep
  <1> QED
    BY <1>1, <1>2 DEF RuntimesKept

-----------------------------------------------------------------------------
(* A submit that is still before its agent was before it a step earlier, or  *)
(* was admitted by this step.                                                *)
LEMMA BeforeAgent ==
  ASSUME CoordinatorInv, [Next]_vars, NEW u \in Thread, Submitting(u)'
  PROVE  \/ \E s \in Session : SubmitAdmit(u, s) /\ thr'[u].run = nextRun /\ thr'[u].session = s
                               /\ thr'[u].pc = "lookup"
         \/ /\ Submitting(u) /\ thr'[u].run = thr[u].run /\ thr'[u].session = thr[u].session
            /\ thr[u].pc \in {"publish", "watch"} => thr'[u].pc \in {"publish", "watch"}
            /\ thr'[u].pc \in {"submit", "publish", "watch"} =>
                 \/ thr[u].pc \in {"submit", "publish", "watch"}
                 \/ HasRuntime(u) /\ StillStarting(u)
  <1>t. TypeOK /\ thr \in [Thread -> ThreadRecord]
    BY DEF CoordinatorInv, TypeOK, ControlTypeOK
  <1> DEFINE Stays == /\ Submitting(u) /\ thr'[u].run = thr[u].run
                      /\ thr'[u].session = thr[u].session
                      /\ thr[u].pc \in {"publish", "watch"} => thr'[u].pc \in {"publish", "watch"}
                      /\ thr'[u].pc \in {"submit", "publish", "watch"} =>
                           \/ thr[u].pc \in {"submit", "publish", "watch"}
                           \/ HasRuntime(u) /\ StillStarting(u)
  <1>1. ASSUME thr'[u] = thr[u] PROVE Stays
    BY <1>1 DEF Submitting
  <1>2. ASSUME NEW s \in Session, Request(u, s)
        PROVE  /\ SubmitAdmit(u, s) /\ thr'[u].run = nextRun /\ thr'[u].session = s
               /\ thr'[u].pc = "lookup"
    BY <1>t, <1>2, RequestLocals DEF Submitting
  <1>3. ASSUME ThreadStep(u) PROVE Stays
    <2>1. /\ thr'[u].op = thr[u].op /\ thr'[u].session = thr[u].session
          /\ thr'[u].run = thr[u].run /\ thr[u].op = "submit" /\ thr[u].pc # "idle"
          /\ thr'[u].pc \notin {"idle", "emit", "callback"}
      BY <1>t, <1>3, StepLocals, SMTT(60) DEF Submitting, IdleThread
    <2>m. \A p, e, x : Move(u, p, e, x) => thr'[u].pc = p
      BY <1>t, MoveLocals
    <2>r. ~Return(u)
      BY <1>t, <2>1, SMTT(60) DEF Return, IdleThread
    <2>2. CASE LookupRuntime(u) \/ EnterGate(u) \/ CreateRuntime(u) \/ CreateFails(u)
               \/ InstallRuntime(u) \/ DiscardCreatedRuntime(u)
      <3>1. /\ thr[u].pc \in {"lookup", "gate", "build", "install", "discard"}
            /\ thr'[u].pc \in {"ready", "gate", "build", "install", "discard", "fail"}
        BY <2>2, <2>m DEF LookupRuntime, EnterGate, CreateRuntime, CreateFails,
           InstallRuntime, DiscardCreatedRuntime, Goto
      <3> QED
        BY <2>1, <3>1 DEF Submitting
    <2>3. CASE CheckReservation(u)
      <3>1. /\ thr[u].pc = "ready" /\ thr'[u].pc = IF StillStarting(u) THEN "submit" ELSE "settle"
        BY <2>3, <2>m DEF CheckReservation, Goto
      <3> QED
        BY <2>1, <3>1 DEF Submitting, HasRuntime
    <2>4. CASE FinishAbortedStart(u) \/ EmitAborted(u) \/ CallbackAborted(u)
               \/ RuntimeSubmit(u) \/ RuntimeSubmitFails(u) \/ PublishRunning(u)
      <3>1. \/ thr[u].pc = "settle" /\ thr'[u].pc \in {"emit", "fail"}
            \/ thr[u].pc = "emit" /\ thr'[u].pc = "callback"
            \/ thr[u].pc = "submit" /\ thr'[u].pc \in {"publish", "fail"}
            \/ thr[u].pc = "publish" /\ thr'[u].pc = "watch"
        BY <2>4, <2>m, <2>r DEF FinishAbortedStart, EmitAborted, CallbackAborted,
           RuntimeSubmit, RuntimeSubmitFails, PublishRunning, Goto
      <3> QED
        BY <2>1, <3>1 DEF Submitting
    <2>5. CASE ReleaseReservation(u) \/ StartWatcher(u) \/ WatcherStartFails(u)
               \/ FinishOperation(u) \/ DisposeRefused(u)
      BY <2>5, <2>r DEF ReleaseReservation, StartWatcher, WatcherStartFails, FinishOperation,
         DisposeRefused
    <2>6. CASE ReleasePop(u) \/ ReleaseBump(u) \/ DisposeDetached(u) \/ ReplaceAdmit(u)
               \/ ReplaceRefused(u) \/ ReplaceSwap(u)
      BY <2>1, <2>6 DEF ReleasePop, ReleaseBump, DisposeDetached, ReplaceAdmit,
         ReplaceRefused, ReplaceSwap, CoordinatorInv, Shape, ShapeOf
    <2> QED
      BY <1>3, <2>2, <2>3, <2>4, <2>5, <2>6 DEF ThreadStep
  <1>4. ASSUME NEW t \in Thread, NEW s \in Session, Request(t, s), t # u PROVE thr'[u] = thr[u]
    BY <1>t, <1>4, RequestLocals
  <1>5. ASSUME NEW t \in Thread, ThreadStep(t), t # u PROVE thr'[u] = thr[u]
    BY <1>t, <1>5, StepLocals
  <1> HIDE DEF Stays
  <1>6. Stays \/ \E s \in Session : SubmitAdmit(u, s) /\ thr'[u].run = nextRun
                               /\ thr'[u].session = s /\ thr'[u].pc = "lookup"
    BY <1>1, <1>2, <1>3, <1>4, <1>5, StepKinds
  <1> QED
    BY <1>6 DEF Stays

(* A new run stays new unless this step submits it. *)
LEMMA StaysNew ==
  ASSUME CoordinatorInv, [Next]_vars, NEW r \in Run, runs[r].phase = "new",
         \A t \in Thread : RuntimeSubmit(t) => thr[t].run # r
  PROVE  runs'[r].phase = "new"
  <1>t. runs \in [Run -> RunRecord] /\ \A t \in Thread : ShapeOf(thr[t])
    BY DEF CoordinatorInv, TypeOK, RuntimeTypeOK, Shape
  <1>1. ASSUME NEW t \in Thread, RuntimeSubmit(t) PROVE runs'[r] = runs[r]
    <2>1. thr[t].run # r
      BY <1>1
    <2> QED
      BY <1>t, <1>1, <2>1 DEF RuntimeSubmit
  <1>2. ASSUME NEW q \in Run, RunFinishes(q) PROVE runs'[r] = runs[r]
    BY <1>t, <1>2 DEF RunFinishes
  <1> QED
    BY <1>1, <1>2, Touched

LEMMA NewStep ==
  ASSUME CoordinatorInv, NewUntilSubmitted, [Next]_vars
  PROVE  NewUntilSubmitted'
  <1>t. /\ ThreadsOwn /\ OneSubmitter /\ nextRun \in Nat /\ Run \subseteq Nat
        /\ \A t \in Thread : ShapeOf(thr[t])
    BY BoundsAssumption, SMTT(60) DEF CoordinatorInv, Ownership, Shape, TypeOK, AdmissionTypeOK, Run
  <1>s. \A t \in Thread : RuntimeSubmit(t) => Submitting(t) /\ thr[t].run \in Run
    BY <1>t DEF RuntimeSubmit, Submitting, ShapeOf
  <1>n. nextRun' >= nextRun
    BY <1>t, Touched, SMTT(60) DEF SubmitAdmit
  <1>1. ASSUME NEW r \in Run, r >= nextRun' PROVE runs'[r].phase = "new"
    <2>1. r >= nextRun /\ runs[r].phase = "new"
      BY <1>t, <1>n, <1>1, Touched, SMTT(60) DEF SubmitAdmit, NewUntilSubmitted
    <2>2. \A t \in Thread : RuntimeSubmit(t) => thr[t].run # r
      BY <1>t, <1>s, <2>1, SMTT(60) DEF ThreadsOwn
    <2> QED
      BY <2>1, <2>2, StaysNew
  <1>2. ASSUME NEW u \in Thread, Submitting(u)', thr'[u].pc \notin {"publish", "watch"}
        PROVE  runs'[thr'[u].run].phase = "new"
    <2>1. ASSUME NEW s \in Session, SubmitAdmit(u, s), thr'[u].run = nextRun
          PROVE  runs'[thr'[u].run].phase = "new"
      <3>1. nextRun \in Run /\ UNCHANGED runs
        BY <1>t, <2>1, BoundsAssumption, SMTT(60) DEF SubmitAdmit, Run, agentVars, CoordinatorInv,
           TypeOK, AdmissionTypeOK
      <3> QED
        BY <1>t, <2>1, <3>1, SMTT(60) DEF NewUntilSubmitted
    <2>2. ASSUME Submitting(u), thr'[u].run = thr[u].run,
                 thr[u].pc \notin {"publish", "watch"}
          PROVE  runs'[thr'[u].run].phase = "new"
      <3>1. runs[thr[u].run].phase = "new" /\ thr[u].run \in Run
        BY <1>t, <2>2 DEF NewUntilSubmitted, Submitting, ShapeOf
      <3>2. \A t \in Thread : RuntimeSubmit(t) => t # u
        BY <1>2, GotoLocals, SMTT(60) DEF RuntimeSubmit, CoordinatorInv, TypeOK, ControlTypeOK
      <3>3. \A t \in Thread : RuntimeSubmit(t) => thr[t].run # thr[u].run
        BY <1>t, <1>s, <2>2, <3>2 DEF OneSubmitter
      <3> QED
        BY <2>2, <3>1, <3>3, StaysNew
    <2> QED
      BY <1>2, <2>1, <2>2, BeforeAgent
  <1> QED
    BY <1>1, <1>2 DEF NewUntilSubmitted

-----------------------------------------------------------------------------
(* A reservation that left STARTING does not come back to it. *)
LEMMA NeverStartingAgain ==
  ASSUME CoordinatorInv, [Next]_vars, NEW s \in Session, Admitted(s),
         active'[s].status = "starting"
  PROVE  active[s].status = "starting"
  <1>t. /\ active \in [Session -> RuntimeState] /\ IdleState.status = "idle"
        /\ \A t \in Thread : thr[t].pc # "idle" => thr[t].session \in Session
        /\ WatchersOwn
    BY DEF CoordinatorInv, TypeOK, AdmissionTypeOK, IdleState, Shape, ShapeOf, Ownership
  <1>r. ASSUME NEW z \in Session, NEW st, RecordState(z, st) \/ FreeSlot(z, st),
               RecordState(z, st) => st.status # "starting"
        PROVE  active[s].status = "starting"
    BY <1>t, <1>r DEF RecordState, FreeSlot
  <1>u. ASSUME UNCHANGED active PROVE active[s].status = "starting"
    BY <1>u
  <1>x. ASSUME NEW z \in Session, NEW x \in {"aborting", "error"},
               RecordState(z, [active[z] EXCEPT !.status = x])
        PROVE  active[s].status = "starting"
    <2> DEFINE st == [active[z] EXCEPT !.status = x]
    <2>1. st.status # "starting"
      BY <1>t, SMTT(60) DEF RuntimeState
    <2> HIDE DEF st
    <2>2. RecordState(z, st)
      BY <1>x DEF st
    <2> QED
      BY <1>r, <2>1, <2>2
  <1> USE DEF vars, sharedVars, admissionVars, stoppedVars, unstoppedVars
  <1>1. ASSUME NEW t \in Thread, NEW z \in Session, Request(t, z)
        PROVE  active[s].status = "starting"
    <2>1. CASE SubmitAdmit(t, z)
      BY <1>t, <2>1 DEF SubmitAdmit, RecordState
    <2>2. CASE ~SubmitAdmit(t, z)
      BY <1>1, <1>u, <2>2 DEF Request, EnsureStart, SideQuestionStart, ConfigureStart,
         RewindStart, ReleaseStart, RestorePrepare, ControlStart
    <2> QED
      BY <2>1, <2>2
  <1>2. ASSUME NEW t \in Thread, ThreadStep(t) PROVE active[s].status = "starting"
    <2>1. CASE FinishAbortedStart(t) \/ ReleaseReservation(t) \/ WatcherStartFails(t)
      <3>1. thr[t].session \in Session
        BY <1>t, <2>1 DEF FinishAbortedStart, ReleaseReservation, WatcherStartFails
      <3>2. UNCHANGED active \/ \E st : FreeSlot(thr[t].session, st)
        BY <2>1 DEF FinishAbortedStart, ReleaseReservation, WatcherStartFails
      <3>3. ASSUME NEW st, FreeSlot(thr[t].session, st) PROVE active[s].status = "starting"
        BY <1>t, <3>1, <3>3 DEF FreeSlot
      <3> QED
        BY <1>u, <3>2, <3>3
    <2>2. CASE PublishRunning(t)
      <3> DEFINE z == thr[t].session
                 running == [active[z] EXCEPT !.status = "running", !.stream = TRUE]
      <3>1. z \in Session /\ (UNCHANGED active \/ RecordState(z, running))
        BY <1>t, <2>2 DEF PublishRunning
      <3>2. z \in Session => running.status = "running"
        BY <1>t, SMTT(60) DEF RuntimeState
      <3> HIDE DEF running
      <3> QED
        BY <1>r, <1>u, <3>1, <3>2
    <2>3. CASE LookupRuntime(t) \/ EnterGate(t) \/ CreateRuntime(t) \/ CreateFails(t)
               \/ InstallRuntime(t) \/ DiscardCreatedRuntime(t) \/ CheckReservation(t)
               \/ EmitAborted(t) \/ CallbackAborted(t) \/ RuntimeSubmit(t)
               \/ RuntimeSubmitFails(t) \/ StartWatcher(t)
      BY <1>u, <2>3 DEF LookupRuntime, EnterGate, CreateRuntime, CreateFails, InstallRuntime,
         DiscardCreatedRuntime, CheckReservation, EmitAborted, CallbackAborted, RuntimeSubmit,
         RuntimeSubmitFails, StartWatcher
    <2>4. CASE FinishOperation(t) \/ ReleasePop(t) \/ ReleaseBump(t) \/ DisposeDetached(t)
               \/ ReplaceAdmit(t) \/ ReplaceRefused(t) \/ DisposeRefused(t) \/ ReplaceSwap(t)
      BY <1>u, <2>4 DEF FinishOperation, ReleasePop, ReleaseBump, DisposeDetached,
         ReplaceAdmit, ReplaceRefused, DisposeRefused, ReplaceSwap
    <2> QED
      BY <1>2, <2>1, <2>2, <2>3, <2>4 DEF ThreadStep
  <1>3. ASSUME NEW z \in Session, Abort(z) \/ StopWorkerRuns(z) \/ StopWorkerReturns(z)
        PROVE  active[s].status = "starting"
    <2>1. CASE AbortRun(z)
      BY <1>x, <2>1 DEF AbortRun
    <2>2. CASE ~AbortRun(z)
      BY <1>u, <1>3, <2>2 DEF Abort, AbortIdle, StopWorkerRuns, StopWorkerReturns
    <2> QED
      BY <2>1, <2>2
  <1>4. ASSUME NEW r \in Run, RunFinishes(r) \/ WatcherStep(r) \/ AbortWorkerRuns(r)
        PROVE  active[s].status = "starting"
    <2>1. CASE WatchTimeout(r)
      <3>1. runs[r].session \in Session
        BY <1>t, <2>1 DEF WatchTimeout, WatchersOwn, Watched
      <3> QED
        BY <1>x, <2>1, <3>1 DEF WatchTimeout
    <2>2. CASE WatchComplete(r)
      <3>1. runs[r].session \in Session
        BY <1>t, <2>2 DEF WatchComplete, WatchersOwn, Watched
      <3>2. UNCHANGED active \/ \E st : FreeSlot(runs[r].session, st)
        BY <2>2 DEF WatchComplete
      <3>3. ASSUME NEW st, FreeSlot(runs[r].session, st) PROVE active[s].status = "starting"
        BY <1>t, <3>1, <3>3 DEF FreeSlot
      <3> QED
        BY <1>u, <3>2, <3>3
    <2>3. CASE RunFinishes(r) \/ WatcherEmit(r) \/ WatcherCallback(r) \/ WatcherExit(r)
               \/ AbortWorkerRuns(r)
      BY <1>u, <2>3 DEF RunFinishes, WatcherEmit, WatcherCallback, WatcherExit, AbortWorkerRuns
    <2> QED
      BY <1>4, <2>1, <2>2, <2>3 DEF WatcherStep
  <1>5. ASSUME NEW z \in Session, ShutdownMark(z) PROVE active[s].status = "starting"
    BY <1>u, <1>x, <1>5 DEF ShutdownMark
  <1>6. ASSUME ShutdownBegin \/ ShutdownTimeout \/ ShutdownControls \/ ShutdownSnapshot
               \/ ShutdownMarked \/ ShutdownJoinAborts \/ ShutdownRuntimes
               \/ ShutdownJoinStops \/ ShutdownWatchers \/ ShutdownFinish
        PROVE  active[s].status = "starting"
    BY <1>u, <1>6 DEF ShutdownBegin, ShutdownTimeout, ShutdownControls, ShutdownSnapshot,
       ShutdownMarked, ShutdownJoinAborts, ShutdownRuntimes, ShutdownJoinStops,
       ShutdownWatchers, ShutdownFinish
  <1>7. ASSUME AtRest \/ UNCHANGED vars PROVE active[s].status = "starting"
    BY <1>u, <1>7 DEF AtRest
  <1> HIDE DEF vars
  <1> QED
    BY <1>1, <1>2, <1>3, <1>4, <1>5, <1>6, <1>7 DEF Next, ShutdownPass

(* A stop that finds no runtime finds the run before its agent. *)
LEMMA EarlyStopLands ==
  ASSUME CoordinatorInv, RuntimesKept, NewUntilSubmitted, NEW s \in Session, AbortRun(s),
         runtimes[s] = NoRuntime
  PROVE  LET r == active[s].run IN
         /\ r \in Run /\ r < nextRun /\ runs[r].phase = "new"
         /\ \A t \in Thread : Submitting(t) /\ thr[t].run = r
              => thr[t].session = s /\ ~HasRuntime(t)
  <1> DEFINE r == active[s].run
  <1>t. /\ active \in [Session -> RuntimeState] /\ SlotShape /\ Ownership
        /\ \A t \in Thread : ShapeOf(thr[t])
        /\ IdleState.status = "idle"
    BY DEF CoordinatorInv, TypeOK, AdmissionTypeOK, Shape, IdleState
  <1>1. Admitted(s) /\ r \in Run
    BY <1>t DEF AbortRun, SlotShape, Admitted, RuntimeState
  <1>2. ~Watched(r)
    <2> SUFFICES ASSUME Watched(r) PROVE FALSE
      OBVIOUS
    <2>1. runs[r].session \in Session /\ active[runs[r].session].run = r
      BY <1>t, <1>1 DEF Ownership, WatchersOwn, Watches
    <2>2. runs[r].session = s
      BY <1>t, <1>1, <2>1 DEF Ownership, SlotsDistinct
    <2> QED
      BY <1>1, <2>2 DEF RuntimesKept
  <1>3. PICK t \in Thread : Submitting(t) /\ thr[t].run = r
    BY <1>t, <1>1, <1>2 DEF Ownership, SlotsOwned
  <1>4. \A u \in Thread : Submitting(u) /\ thr[u].run = r => thr[u].session = s
    BY <1>t, <1>1, SMTT(60) DEF Ownership, ThreadsOwn, SlotsDistinct, Owns, Submitting, ShapeOf
  <1>5. \A u \in Thread : Submitting(u) /\ thr[u].run = r => ~HasRuntime(u)
    BY <1>4 DEF RuntimesKept
  <1>6. r < nextRun
    BY <1>t, <1>3 DEF Ownership, ThreadsOwn
  <1>7. thr[t].pc \notin {"publish", "watch"}
    BY <1>3, <1>5 DEF HasRuntime, Submitting
  <1>8. runs[r].phase = "new"
    BY <1>3, <1>7 DEF NewUntilSubmitted
  <1> QED
    BY <1>1, <1>4, <1>5, <1>6, <1>8

LEMMA EarlyStep ==
  ASSUME CoordinatorInv, RuntimesKept, NewUntilSubmitted, EarlyStopsSeen, [Next]_vars
  PROVE  EarlyStopsSeen'
  <1>t. /\ ThreadsOwn /\ nextRun \in Nat /\ Run \subseteq Nat /\ earlyStops \subseteq Run
        /\ active \in [Session -> RuntimeState] /\ \A t \in Thread : ShapeOf(thr[t])
        /\ \A r \in Run : r # NoRun
    BY BoundsAssumption, SMTT(60) DEF CoordinatorInv, Ownership, Shape, TypeOK, AdmissionTypeOK, Run,
       ShutdownTypeOK, NoRun
  <1>o. \A u \in Thread : Submitting(u) => thr[u].session \in Session /\ Admitted(thr[u].session)
    BY <1>t DEF Submitting, ShapeOf, ThreadsOwn, Owns, Admitted
  <1>1. ASSUME NEW r \in earlyStops PROVE runs'[r].phase = "new" /\ r < nextRun'
    <2>1. \A t \in Thread : RuntimeSubmit(t) => thr[t].run # r
      BY <1>t, SMTT(60) DEF EarlyStopsSeen, RuntimeSubmit, Submitting, ShapeOf
    <2>2. runs'[r].phase = "new"
      BY <1>t, <2>1, StaysNew DEF EarlyStopsSeen, EarlyStopNeverRuns
    <2>3. r < nextRun /\ r \in Nat
      BY <1>t DEF EarlyStopsSeen
    <2> QED
      BY <1>t, <2>2, <2>3, Touched, SMTT(60) DEF SubmitAdmit
  <1>2. ASSUME NEW u \in Thread, Submitting(u)', thr'[u].run \in earlyStops
        PROVE  /\ thr'[u].pc \notin {"submit", "publish", "watch"}
               /\ active'[thr'[u].session].status # "starting"
    <2>1. ~(\E s \in Session : SubmitAdmit(u, s) /\ thr'[u].run = nextRun)
      BY <1>t, <1>2, SMTT(60) DEF EarlyStopsSeen
    <2>2. /\ Submitting(u) /\ thr'[u].run = thr[u].run /\ thr'[u].session = thr[u].session
          /\ thr'[u].pc \in {"submit", "publish", "watch"} =>
               \/ thr[u].pc \in {"submit", "publish", "watch"}
               \/ HasRuntime(u) /\ StillStarting(u)
      BY <1>2, <2>1, BeforeAgent
    <2>3. /\ thr[u].pc \notin {"submit", "publish", "watch"}
          /\ active[thr[u].session].status # "starting"
      BY <1>2, <2>2 DEF EarlyStopsSeen
    <2>4. active'[thr[u].session].status # "starting"
      BY <1>o, <2>2, <2>3, NeverStartingAgain
    <2> QED
      BY <2>2, <2>3, <2>4 DEF StillStarting
  <1>3. CASE UNCHANGED earlyStops
    BY <1>1, <1>2, <1>3 DEF EarlyStopsSeen, EarlyStopNeverRuns
  <1>4. ASSUME NEW s \in Session, AbortRun(s), runtimes[s] = NoRuntime
        PROVE  EarlyStopsSeen'
    <2> DEFINE r == active[s].run
    <2>1. /\ earlyStops' = earlyStops \cup {r} /\ UNCHANGED <<thr, runs, nextRun>>
          /\ RecordState(s, [active[s] EXCEPT !.status = "aborting"])
      BY <1>4 DEF AbortRun
    <2>2. /\ r < nextRun /\ runs[r].phase = "new"
          /\ \A t \in Thread : Submitting(t) /\ thr[t].run = r
               => thr[t].session = s /\ ~HasRuntime(t)
      BY <1>4, EarlyStopLands
    <2>3. active'[s].status = "aborting"
      BY <1>t, <2>1 DEF RecordState, RuntimeState
    <2>4. \A t \in Thread : (Submitting(t)' <=> Submitting(t))
      BY <2>1 DEF Submitting
    <2>5. \A t \in Thread : Submitting(t) /\ thr[t].run = r =>
            /\ thr'[t].pc \notin {"submit", "publish", "watch"}
            /\ active'[thr'[t].session].status # "starting"
      BY <2>1, <2>2, <2>3 DEF HasRuntime, Submitting
    <2> HIDE DEF r
    <2> QED
      BY <1>1, <1>2, <2>1, <2>2, <2>4, <2>5 DEF EarlyStopsSeen, EarlyStopNeverRuns
  <1>5. ASSUME NEW s \in Session, AbortRun(s), runtimes[s] # NoRuntime
        PROVE  UNCHANGED earlyStops
    BY <1>5 DEF AbortRun
  <1> QED
    BY <1>3, <1>4, <1>5, Touched

(* The conjuncts together. *)
LEMMA RuntimeInvStep ==
  ASSUME CoordinatorInv, RuntimeInv, [Next]_vars
  PROVE  RuntimeInv'
  BY GateStep, CreatorsStep, KeptStep, NewStep, EarlyStep DEF RuntimeInv

-----------------------------------------------------------------------------
(* Which steps belong to a shutdown, and who hands out or retires runtimes. *)
LEMMA ShutdownTouched ==
  ASSUME [Next]_vars
  PROVE  /\ UNCHANGED <<sd, stopping>> \/ ShutdownBegin \/ ShutdownPass \/ ShutdownTimeout
         /\ UNCHANGED stopWorker \/ ShutdownRuntimes \/ ShutdownFinish
              \/ (\E s \in Session : StopWorkerRuns(s) \/ StopWorkerReturns(s))
         /\ \/ accepting' \subseteq accepting /\ UNCHANGED nextRuntime
            \/ /\ accepting' = accepting \cup {nextRuntime}
               /\ nextRuntime' = nextRuntime + 1
               /\ \/ \E t \in Thread : CreateRuntime(t)
                  \/ \E t \in Thread, s \in Session : RestorePrepare(t, s)
  <1> USE DEF vars, sharedVars, admissionVars, controlVars, runtimeVars, agentVars,
              historyVars, shutdownVars, stoppedVars, unstoppedVars
  <1> DEFINE Fewer == accepting' \subseteq accepting /\ UNCHANGED nextRuntime
             More == accepting' = accepting \cup {nextRuntime} /\ nextRuntime' = nextRuntime + 1
  <1>1. ASSUME NEW t \in Thread, NEW s \in Session, Request(t, s)
        PROVE  /\ UNCHANGED <<sd, stopping, stopWorker>>
               /\ Fewer \/ (More /\ RestorePrepare(t, s))
    BY <1>1 DEF Request, SubmitAdmit, EnsureStart, SideQuestionStart, ConfigureStart,
       RewindStart, ReleaseStart, RestorePrepare, ControlStart
  <1>2. ASSUME NEW t \in Thread, LookupRuntime(t) \/ EnterGate(t)
               \/ CreateFails(t) \/ InstallRuntime(t) \/ DiscardCreatedRuntime(t)
               \/ CheckReservation(t) \/ FinishAbortedStart(t) \/ EmitAborted(t)
               \/ CallbackAborted(t) \/ RuntimeSubmit(t) \/ RuntimeSubmitFails(t)
               \/ ReleaseReservation(t)
        PROVE  UNCHANGED <<sd, stopping, stopWorker>> /\ Fewer
    BY <1>2 DEF LookupRuntime, EnterGate, CreateFails, InstallRuntime,
       DiscardCreatedRuntime, CheckReservation, FinishAbortedStart, EmitAborted,
       CallbackAborted, RuntimeSubmit, RuntimeSubmitFails, ReleaseReservation
  <1>3. ASSUME NEW t \in Thread, PublishRunning(t) \/ StartWatcher(t) \/ WatcherStartFails(t)
               \/ FinishOperation(t) \/ ReleasePop(t) \/ ReleaseBump(t) \/ DisposeDetached(t)
               \/ ReplaceAdmit(t) \/ ReplaceRefused(t) \/ DisposeRefused(t) \/ ReplaceSwap(t)
        PROVE  UNCHANGED <<sd, stopping, stopWorker>> /\ Fewer
    BY <1>3 DEF PublishRunning, StartWatcher, WatcherStartFails, FinishOperation, ReleasePop,
       ReleaseBump, DisposeDetached, ReplaceAdmit, ReplaceRefused, DisposeRefused, ReplaceSwap
  <1>4. ASSUME NEW t \in Thread, CreateRuntime(t)
        PROVE  UNCHANGED <<sd, stopping, stopWorker>> /\ More
    BY <1>4 DEF CreateRuntime
  <1>5. ASSUME NEW s \in Session, Abort(s) PROVE UNCHANGED <<sd, stopping, stopWorker>> /\ Fewer
    BY <1>5 DEF Abort, AbortRun, AbortIdle
  <1>6. ASSUME NEW s \in Session, StopWorkerRuns(s) \/ StopWorkerReturns(s)
        PROVE  UNCHANGED <<sd, stopping>> /\ Fewer
    BY <1>6 DEF StopWorkerRuns, StopWorkerReturns
  <1>7. ASSUME NEW r \in Run, RunFinishes(r) \/ WatcherStep(r) \/ AbortWorkerRuns(r)
        PROVE  UNCHANGED <<sd, stopping, stopWorker>> /\ Fewer
    BY <1>7 DEF RunFinishes, WatcherStep, WatchTimeout, WatchComplete, WatcherEmit,
       WatcherCallback, WatcherExit, AbortWorkerRuns
  <1>8. ASSUME ShutdownBegin \/ ShutdownPass \/ ShutdownTimeout
        PROVE  Fewer /\ (UNCHANGED stopWorker \/ ShutdownRuntimes \/ ShutdownFinish)
    BY <1>8 DEF ShutdownBegin, ShutdownPass, ShutdownTimeout, ShutdownControls,
       ShutdownSnapshot, ShutdownMark, ShutdownMarked, ShutdownJoinAborts,
       ShutdownRuntimes, ShutdownJoinStops, ShutdownWatchers, ShutdownFinish
  <1>9. ASSUME AtRest \/ UNCHANGED vars
        PROVE  UNCHANGED <<sd, stopping, stopWorker>> /\ Fewer
    BY <1>9 DEF AtRest
  <1> HIDE DEF vars
  <1> QED
    BY <1>1, <1>2, <1>3, <1>4, <1>5, <1>6, <1>7, <1>8, <1>9 DEF Next, ThreadStep

(* A thread knows only runtimes the factory returned to it or that are       *)
(* installed, and only those are installed.                                  *)
LEMMA FactoryStep ==
  ASSUME CoordinatorInv, FactoryOrder, [Next]_vars
  PROVE  FactoryOrder'
  <1>t. /\ TypeOK /\ thr \in [Thread -> ThreadRecord] /\ nextRuntime \in Nat
        /\ nextRuntime > NoRuntime /\ NoRuntime \in Nat
        /\ runtimes \in [Session -> RuntimeId \cup {NoRuntime}] /\ RuntimeId \subseteq Nat
        /\ \A t \in Thread : thr[t].pc # "idle" => thr[t].session \in Session
        /\ \A t \in Thread : thr[t].runtime \in RuntimeId \cup {NoRuntime}
    BY BoundsAssumption, SMTT(60) DEF CoordinatorInv, TypeOK, ControlTypeOK, RuntimeTypeOK, RuntimeId,
       Shape, ShapeOf, NoRuntime, ThreadRecord
  <1>n. \A x \in Nat : x < nextRuntime => x < nextRuntime'
    BY <1>t, ShutdownTouched, SMTT(60)
  <1>f. /\ \A t \in Thread : thr[t].runtime \in Nat /\ thr[t].runtime < nextRuntime
        /\ \A s \in Session : runtimes[s] \in Nat /\ runtimes[s] < nextRuntime
    BY <1>t DEF FactoryOrder
  <1>k. ASSUME NEW t \in Thread, \A u \in Thread : u # t => thr'[u] = thr[u],
               thr'[t].runtime < nextRuntime',
               \A s \in Session : runtimes'[s] \in {runtimes[s], NoRuntime, thr[t].runtime}
        PROVE  FactoryOrder'
    <2>1. \A u \in Thread : u # t => thr'[u].runtime < nextRuntime'
      BY <1>t, <1>f, <1>n, <1>k
    <2>2. \A s \in Session : runtimes'[s] < nextRuntime'
      BY <1>t, <1>f, <1>n, <1>k
    <2> QED
      BY <1>k, <2>1, <2>2 DEF FactoryOrder
  <1>m. ASSUME NEW t \in Thread, NEW p, NEW e, NEW x, Move(t, p, e, x), x < nextRuntime',
               \A s \in Session : runtimes'[s] \in {runtimes[s], NoRuntime, thr[t].runtime}
        PROVE  FactoryOrder'
    BY <1>t, <1>k, <1>m, MoveLocals, SMTT(60)
  <1>g. ASSUME NEW t \in Thread, NEW p, Goto(t, p),
               \A s \in Session : runtimes'[s] \in {runtimes[s], NoRuntime, thr[t].runtime}
        PROVE  FactoryOrder'
    BY <1>t, <1>f, <1>k, <1>g, <1>n, GotoLocals, SMTT(60)
  <1>r. ASSUME NEW t \in Thread, Return(t), UNCHANGED runtimes PROVE FactoryOrder'
    <2>1. thr'[t].runtime = NoRuntime /\ \A u \in Thread : u # t => thr'[u] = thr[u]
      BY <1>t, <1>r DEF Return, IdleThread
    <2> QED
      BY <1>t, <1>k, <1>n, <1>r, <2>1
  <1>1. ASSUME NEW t \in Thread, NEW s \in Session, Request(t, s) PROVE FactoryOrder'
    <2>1. thr'[t].runtime < nextRuntime'
      <3>1. CASE RestorePrepare(t, s)
        BY <1>t, <1>1, <3>1, RequestLocals, SMTT(60) DEF RestorePrepare
      <3>2. CASE ~RestorePrepare(t, s)
        BY <1>t, <1>n, <1>1, <3>2, RequestLocals, SMTT(60)
      <3> QED
        BY <3>1, <3>2
    <2> QED
      BY <1>t, <1>k, <1>1, <2>1, RequestLocals, SMTT(60)
  <1>2. ASSUME NEW t \in Thread, LookupRuntime(t) \/ EnterGate(t) \/ CreateRuntime(t)
               \/ ReleasePop(t) \/ ReplaceSwap(t)
        PROVE  FactoryOrder'
    <2>1. thr[t].session \in Session
      BY <1>t, <1>2 DEF LookupRuntime, EnterGate, CreateRuntime, ReleasePop, ReplaceSwap
    <2>2. PICK x : /\ \E p, e : Move(t, p, e, x)
                   /\ x = runtimes[thr[t].session] \/ (CreateRuntime(t) /\ x = nextRuntime)
      <3>1. CASE CreateRuntime(t)
        BY <3>1 DEF CreateRuntime
      <3>2. CASE LookupRuntime(t) \/ EnterGate(t) \/ ReleasePop(t) \/ ReplaceSwap(t)
        <4>1. \E p, e : Move(t, p, e, runtimes[thr[t].session])
          BY <3>2 DEF LookupRuntime, EnterGate, ReleasePop, ReplaceSwap
        <4> QED
          BY <4>1
      <3> QED
        BY <1>2, <3>1, <3>2
    <2>3. x < nextRuntime'
      BY <1>t, <1>f, <1>n, <2>1, <2>2, SMTT(60) DEF CreateRuntime
    <2>4. \A s \in Session : runtimes'[s] \in {runtimes[s], NoRuntime, thr[t].runtime}
      BY <1>t, <1>2 DEF LookupRuntime, EnterGate, CreateRuntime, ReleasePop, ReplaceSwap,
         sharedVars, runtimeVars
    <2> QED
      BY <1>m, <2>2, <2>3, <2>4
  <1>3. ASSUME NEW t \in Thread, InstallRuntime(t) PROVE FactoryOrder'
    BY <1>t, <1>g, <1>3 DEF InstallRuntime
  <1>4. ASSUME NEW t \in Thread, CreateFails(t) \/ DiscardCreatedRuntime(t)
               \/ CheckReservation(t) \/ FinishAbortedStart(t) \/ EmitAborted(t)
               \/ CallbackAborted(t) \/ RuntimeSubmit(t) \/ RuntimeSubmitFails(t)
        PROVE  FactoryOrder'
    BY <1>4, <1>g, <1>r DEF CreateFails, DiscardCreatedRuntime, CheckReservation,
       FinishAbortedStart, EmitAborted, CallbackAborted, RuntimeSubmit, RuntimeSubmitFails,
       sharedVars, runtimeVars
  <1>5. ASSUME NEW t \in Thread, ReleaseReservation(t) \/ PublishRunning(t) \/ StartWatcher(t)
               \/ WatcherStartFails(t) \/ FinishOperation(t) \/ ReleaseBump(t)
               \/ DisposeDetached(t) \/ ReplaceAdmit(t) \/ ReplaceRefused(t) \/ DisposeRefused(t)
        PROVE  FactoryOrder'
    BY <1>5, <1>g, <1>r DEF ReleaseReservation, PublishRunning, StartWatcher,
       WatcherStartFails, FinishOperation, ReleaseBump, DisposeDetached, ReplaceAdmit,
       ReplaceRefused, DisposeRefused, sharedVars, runtimeVars
  <1>6. ASSUME UNCHANGED <<thr, nextRuntime>>, UNCHANGED runtimes \/ ShutdownFinish
        PROVE  FactoryOrder'
    BY <1>t, <1>6 DEF FactoryOrder, ShutdownFinish
  <1> QED
    BY <1>1, <1>2, <1>3, <1>4, <1>5, <1>6, StepKinds DEF ThreadStep

-----------------------------------------------------------------------------
(* Once shutdown waited for the controls no control is held again, and only  *)
(* the end of a pass changes what is installed.                              *)
LEMMA QuietStep ==
  ASSUME CoordinatorInv, Quiet, [Next]_vars
  PROVE  Quiet'
  <1>t. /\ control \in [Session -> Controls \cup {"none"}] /\ stopping
        /\ \A s \in Session : control[s] = "none"
    BY DEF CoordinatorInv, TypeOK, ControlTypeOK, Quiet, ControlFree
  <1> USE DEF vars, sharedVars, admissionVars, controlVars, runtimeVars, agentVars,
              historyVars, shutdownVars, stoppedVars, unstoppedVars
  <1>1. stopping'
    <2>1. CASE UNCHANGED stopping
      BY <1>t, <2>1
    <2>2. CASE ShutdownBegin
      BY <2>2 DEF ShutdownBegin
    <2>3. CASE ShutdownPass \/ ShutdownTimeout
      BY <1>t, <2>3 DEF ShutdownPass, ShutdownTimeout, ShutdownControls, ShutdownSnapshot,
         ShutdownMark, ShutdownMarked, ShutdownJoinAborts, ShutdownRuntimes,
         ShutdownJoinStops, ShutdownWatchers, ShutdownFinish
    <2> HIDE DEF vars
    <2> QED
      BY <2>1, <2>2, <2>3, ShutdownTouched
  <1>k. ASSUME UNCHANGED control PROVE Quiet'
    BY <1>t, <1>1, <1>k DEF Quiet, ControlFree
  <1>2. ASSUME NEW t \in Thread, NEW s \in Session, Request(t, s) PROVE Quiet'
    <2>1. UNCHANGED control
      BY <1>t, <1>2 DEF Request, SubmitAdmit, EnsureStart, SideQuestionStart, ConfigureStart,
         RewindStart, ReleaseStart, RestorePrepare, ControlStart, ExclusiveAdmissible
    <2> QED
      BY <1>k, <2>1
  <1>3. ASSUME NEW t \in Thread, ThreadStep(t) PROVE Quiet'
    <2>1. CASE FinishOperation(t)
      <3>1. \A s \in Session : control'[s] = "none"
        BY <1>t, <2>1 DEF FinishOperation
      <3> QED
        BY <1>1, <3>1 DEF Quiet, ControlFree
    <2>2. CASE LookupRuntime(t) \/ EnterGate(t) \/ CreateRuntime(t) \/ CreateFails(t)
               \/ InstallRuntime(t) \/ DiscardCreatedRuntime(t) \/ CheckReservation(t)
               \/ FinishAbortedStart(t) \/ EmitAborted(t) \/ CallbackAborted(t)
               \/ RuntimeSubmit(t) \/ RuntimeSubmitFails(t) \/ ReleaseReservation(t)
      BY <1>k, <2>2 DEF LookupRuntime, EnterGate, CreateRuntime, CreateFails, InstallRuntime,
         DiscardCreatedRuntime, CheckReservation, FinishAbortedStart, EmitAborted,
         CallbackAborted, RuntimeSubmit, RuntimeSubmitFails, ReleaseReservation
    <2>3. CASE PublishRunning(t) \/ StartWatcher(t) \/ WatcherStartFails(t)
               \/ ReleasePop(t) \/ ReleaseBump(t) \/ DisposeDetached(t) \/ ReplaceAdmit(t)
               \/ ReplaceRefused(t) \/ DisposeRefused(t) \/ ReplaceSwap(t)
      <3>1. UNCHANGED control
        BY <1>t, <2>3 DEF PublishRunning, StartWatcher, WatcherStartFails, ReleasePop,
           ReleaseBump, DisposeDetached, ReplaceAdmit, ReplaceRefused, DisposeRefused,
           ReplaceSwap, ExclusiveAdmissible
      <3> QED
        BY <1>k, <3>1
    <2> QED
      BY <1>3, <2>1, <2>2, <2>3 DEF ThreadStep
  <1>4. ASSUME NEW s \in Session, Abort(s) \/ StopWorkerRuns(s) \/ StopWorkerReturns(s)
        PROVE  Quiet'
    BY <1>4, <1>k DEF Abort, AbortRun, AbortIdle, StopWorkerRuns, StopWorkerReturns
  <1>5. ASSUME NEW r \in Run, RunFinishes(r) \/ WatcherStep(r) \/ AbortWorkerRuns(r)
        PROVE  Quiet'
    BY <1>5, <1>k DEF RunFinishes, WatcherStep, WatchTimeout, WatchComplete, WatcherEmit,
       WatcherCallback, WatcherExit, AbortWorkerRuns
  <1>6. ASSUME ShutdownBegin \/ ShutdownPass \/ ShutdownTimeout PROVE Quiet'
    BY <1>6, <1>k DEF ShutdownBegin, ShutdownPass, ShutdownTimeout, ShutdownControls,
       ShutdownSnapshot, ShutdownMark, ShutdownMarked, ShutdownJoinAborts,
       ShutdownRuntimes, ShutdownJoinStops, ShutdownWatchers, ShutdownFinish
  <1>7. ASSUME AtRest \/ UNCHANGED vars PROVE Quiet'
    BY <1>7, <1>k DEF AtRest
  <1> HIDE DEF vars
  <1> QED
    BY <1>2, <1>3, <1>4, <1>5, <1>6, <1>7 DEF Next

LEMMA QuietRuntimes ==
  ASSUME CoordinatorInv, CreatorsCurrent, Quiet, [Next]_vars
  PROVE  UNCHANGED runtimes \/ ShutdownFinish
  <1>t. /\ runtimes \in [Session -> RuntimeId \cup {NoRuntime}] /\ stopping
        /\ ControlHeld /\ (\A t \in Thread : ShapeOf(thr[t])) /\ TypeOK
        /\ \A s \in Session : control[s] = "none"
        /\ "none" \notin {"release", "restore"}
    BY DEF CoordinatorInv, TypeOK, RuntimeTypeOK, Shape, Quiet, ControlFree
  <1>1. ASSUME NEW t \in Thread, ReleasePop(t) \/ ReplaceSwap(t) PROVE FALSE
    <2>1. Holds(t) /\ thr[t].op \in {"release", "restore"} /\ thr[t].session \in Session
      BY <1>t, <1>1 DEF ReleasePop, ReplaceSwap, ShapeOf, Holds, Controls
    <2> QED
      BY <1>t, <2>1 DEF ControlHeld
  <1>2. ASSUME NEW t \in Thread, InstallRuntime(t) PROVE UNCHANGED runtimes
    BY <1>t, <1>2 DEF InstallRuntime, Installable
  <1>3. ASSUME NEW t \in Thread, NEW s \in Session, Request(t, s) PROVE UNCHANGED runtimes
    BY <1>t, <1>3, RequestLocals
  <1>4. ASSUME NEW t \in Thread, ThreadStep(t), ~InstallRuntime(t), ~ReleasePop(t),
               ~ReplaceSwap(t)
        PROVE  UNCHANGED runtimes
    <2> USE DEF sharedVars, runtimeVars
    <2>1. CASE LookupRuntime(t) \/ EnterGate(t) \/ CreateRuntime(t) \/ CreateFails(t)
               \/ DiscardCreatedRuntime(t) \/ CheckReservation(t) \/ FinishAbortedStart(t)
               \/ EmitAborted(t) \/ CallbackAborted(t) \/ RuntimeSubmit(t)
      BY <2>1 DEF LookupRuntime, EnterGate, CreateRuntime, CreateFails,
         DiscardCreatedRuntime, CheckReservation, FinishAbortedStart, EmitAborted,
         CallbackAborted, RuntimeSubmit
    <2>2. CASE RuntimeSubmitFails(t) \/ ReleaseReservation(t) \/ PublishRunning(t)
               \/ StartWatcher(t) \/ WatcherStartFails(t) \/ FinishOperation(t)
               \/ ReleaseBump(t) \/ DisposeDetached(t) \/ ReplaceAdmit(t)
               \/ ReplaceRefused(t) \/ DisposeRefused(t)
      BY <2>2 DEF RuntimeSubmitFails, ReleaseReservation, PublishRunning, StartWatcher,
         WatcherStartFails, FinishOperation, ReleaseBump, DisposeDetached, ReplaceAdmit,
         ReplaceRefused, DisposeRefused
    <2> QED
      BY <1>4, <2>1, <2>2 DEF ThreadStep
  <1> QED
    BY <1>1, <1>2, <1>3, <1>4, StepKinds

(* While no pass is ending, every stop worker keeps to the installed runtime *)
(* of its session, which refuses submissions once the worker got to it.      *)
LEMMA WorkersStep ==
  ASSUME CoordinatorInv, CreatorsCurrent, ShutdownInv, [Next]_vars
  PROVE  WorkersStop'
  <1>t. /\ WorkersStop /\ PassOrder /\ FactoryOrder
        /\ stopWorker \in [Session -> WorkerRecord] /\ sd \in PassRecord
        /\ runtimes \in [Session -> RuntimeId \cup {NoRuntime}] /\ RuntimeId \subseteq Nat
        /\ nextRuntime \in Nat
    BY BoundsAssumption, SMTT(60) DEF CoordinatorInv, TypeOK, ShutdownTypeOK, RuntimeTypeOK, ShutdownInv,
       RuntimeId
  <1>1. CASE ShutdownFinish
    <2>1. \/ /\ UNCHANGED <<stopWorker, runtimes, accepting, stopping, control>>
             /\ sd'.pc = "idle"
          \/ /\ \A s \in Session : stopWorker'[s].state = "none"
             /\ sd'.pc = "idle"
      BY <1>t, <1>1 DEF ShutdownFinish, PassRecord, NoWorker, unstoppedVars, controlVars
    <2> QED
      BY <1>t, <2>1, SMTT(60) DEF WorkersStop, Quiet, ControlFree
  <1>2. CASE ShutdownRuntimes
    <2>1. /\ sd.pc = "runtimes" /\ sd'.pc = "joinStops"
          /\ UNCHANGED <<runtimes, accepting, stopping, control>>
          /\ stopWorker' = [s \in Session |-> IF runtimes[s] = NoRuntime THEN stopWorker[s]
                                              ELSE Launch(stopWorker[s], runtimes[s])]
      BY <1>t, <1>2 DEF ShutdownRuntimes, PassRecord, stoppedVars, unstoppedVars, controlVars
    <2>2. Quiet /\ Quiet'
      BY <1>t, <2>1, QuietStep DEF PassOrder
    <2>3. ASSUME NEW s \in Session
          PROVE  /\ stopWorker'[s].state # "none" =>
                      stopWorker'[s].runtime = runtimes[s] /\ runtimes[s] # NoRuntime
                 /\ stopWorker'[s].state \in {"joining", "ok", "failed"}
                      => runtimes[s] \notin accepting
                 /\ runtimes[s] # NoRuntime => stopWorker'[s].state # "none"
      <3>1. CASE runtimes[s] = NoRuntime
        BY <1>t, <2>1, <3>1 DEF WorkersStop
      <3>2. CASE runtimes[s] # NoRuntime /\ stopWorker[s].state \in {"none", "failed"}
        BY <2>1, <3>2 DEF Launch
      <3>3. CASE runtimes[s] # NoRuntime /\ stopWorker[s].state \notin {"none", "failed"}
        BY <1>t, <2>1, <3>3 DEF Launch, WorkersStop
      <3> QED
        BY <3>1, <3>2, <3>3
    <2> QED
      BY <2>1, <2>2, <2>3 DEF WorkersStop
  <1>3. CASE ~ShutdownFinish /\ ~ShutdownRuntimes
    <2>1. ASSUME NEW s \in Session, stopWorker'[s].state # "none"
          PROVE  /\ stopWorker[s].state # "none" /\ stopWorker'[s].runtime = stopWorker[s].runtime
                 /\ stopWorker'[s].state \in {"joining", "ok", "failed"} =>
                      \/ stopWorker[s].state \in {"joining", "ok", "failed"}
                      \/ stopWorker[s].runtime \notin accepting'
      <3>1. CASE UNCHANGED stopWorker
        BY <2>1, <3>1
      <3>2. ASSUME NEW z \in Session, StopWorkerRuns(z)
            PROVE  /\ stopWorker[s].state # "none"
                   /\ stopWorker'[s].runtime = stopWorker[s].runtime
                   /\ stopWorker'[s] = stopWorker[s] \/ stopWorker[s].runtime \notin accepting'
        BY <1>t, <2>1, <3>2 DEF StopWorkerRuns, WorkerRecord
      <3>3. ASSUME NEW z \in Session, StopWorkerReturns(z)
            PROVE  /\ stopWorker[s].state # "none"
                   /\ stopWorker'[s].runtime = stopWorker[s].runtime
                   /\ stopWorker'[s] = stopWorker[s] \/ stopWorker[s].state = "joining"
        BY <1>t, <2>1, <3>3, SMTT(60) DEF StopWorkerReturns, WorkerRecord
      <3> QED
        BY <1>3, <3>1, <3>2, <3>3, ShutdownTouched
    <2>2. \A s \in Session : stopWorker[s].state # "none" =>
            /\ stopWorker'[s].state # "none"
            /\ stopWorker[s].state = "ok" => stopWorker'[s].state = "ok"
      <3>1. CASE UNCHANGED stopWorker
        BY <3>1
      <3>2. ASSUME NEW z \in Session, StopWorkerRuns(z) \/ StopWorkerReturns(z),
                   NEW s \in Session, stopWorker[s].state # "none"
            PROVE  /\ stopWorker'[s].state # "none"
                   /\ stopWorker[s].state = "ok" => stopWorker'[s].state = "ok"
        BY <1>t, <3>2, SMTT(60) DEF StopWorkerRuns, StopWorkerReturns, WorkerRecord
      <3> QED
        BY <1>3, <3>1, <3>2, ShutdownTouched
    <2>3. \A s \in Session : Quiet => runtimes'[s] = runtimes[s]
      BY <1>3, QuietRuntimes
    <2>4. \A s \in Session : runtimes[s] \notin accepting => runtimes[s] \notin accepting'
      BY <1>t, ShutdownTouched, SMTT(60) DEF FactoryOrder
    <2>5. ASSUME NEW s \in Session, stopWorker'[s].state # "none"
          PROVE  /\ Quiet' /\ stopWorker'[s].runtime = runtimes'[s] /\ runtimes'[s] # NoRuntime
                 /\ stopWorker'[s].state \in {"joining", "ok", "failed"}
                      => runtimes'[s] \notin accepting'
      <3>1. Quiet /\ stopWorker[s].runtime = runtimes[s] /\ runtimes[s] # NoRuntime
        BY <1>t, <2>1, <2>5 DEF WorkersStop
      <3>2. Quiet' /\ runtimes'[s] = runtimes[s]
        BY <2>3, <3>1, QuietStep
      <3> QED
        BY <1>t, <2>1, <2>4, <2>5, <3>1, <3>2 DEF WorkersStop
    <2>6. \/ sd'.pc = sd.pc /\ sd'.ok = sd.ok
          \/ sd'.pc \notin {"joinStops", "watchers", "joinWatchers"}
          \/ ShutdownJoinStops
          \/ sd'.pc = "joinWatchers" /\ sd.pc = "watchers" /\ sd'.ok = sd.ok
      <3>1. CASE UNCHANGED sd
        BY <3>1
      <3>2. CASE ShutdownBegin \/ ShutdownTimeout
        BY <1>t, <3>2 DEF ShutdownBegin, ShutdownTimeout, PassRecord
      <3>3. CASE ShutdownControls \/ ShutdownSnapshot \/ (\E s \in Session : ShutdownMark(s))
                 \/ ShutdownMarked \/ ShutdownJoinAborts
        BY <1>t, <3>3 DEF ShutdownControls, ShutdownSnapshot, ShutdownMark, ShutdownMarked,
           ShutdownJoinAborts, PassRecord
      <3>4. CASE ShutdownJoinStops \/ ShutdownWatchers
        BY <1>t, <3>4 DEF ShutdownWatchers, PassRecord
      <3> QED
        BY <1>3, <3>1, <3>2, <3>3, <3>4, ShutdownTouched DEF ShutdownPass
    <2>7. sd'.pc = "joinStops" =>
            \A s \in Session : runtimes'[s] # NoRuntime => stopWorker'[s].state # "none"
      <3> SUFFICES ASSUME sd'.pc = "joinStops", NEW s \in Session, runtimes'[s] # NoRuntime
                   PROVE  stopWorker'[s].state # "none"
        OBVIOUS
      <3>1. sd.pc = "joinStops"
        BY <1>t, <2>6 DEF ShutdownJoinStops, PassRecord
      <3>2. Quiet
        BY <1>t, <3>1 DEF PassOrder
      <3> QED
        BY <1>t, <2>2, <2>3, <3>1, <3>2 DEF WorkersStop
    <2>8. sd'.pc \in {"watchers", "joinWatchers"} /\ sd'.ok =>
            \A s \in Session : runtimes'[s] # NoRuntime => stopWorker'[s].state = "ok"
      <3> SUFFICES ASSUME sd'.pc \in {"watchers", "joinWatchers"}, sd'.ok, NEW s \in Session,
                          runtimes'[s] # NoRuntime
                   PROVE  stopWorker'[s].state = "ok"
        OBVIOUS
      <3>1. CASE ShutdownJoinStops
        <4>1. /\ sd.pc = "joinStops" /\ Joined(stopWorker) /\ AllOk(stopWorker)
              /\ UNCHANGED <<runtimes, stopWorker>>
          BY <1>t, <3>1 DEF ShutdownJoinStops, PassRecord, stoppedVars
        <4>2. stopWorker[s].state \in {"none", "ok"}
          BY <1>t, <4>1, SMTT(60) DEF Joined, AllOk, WorkerRecord
        <4> QED
          BY <1>t, <4>1, <4>2 DEF WorkersStop
      <3>2. CASE sd.pc \in {"watchers", "joinWatchers"} /\ sd.ok
        <4>1. Quiet
          BY <1>t, <3>2 DEF PassOrder
        <4>2. stopWorker[s].state = "ok"
          BY <1>t, <2>3, <3>2, <4>1 DEF WorkersStop
        <4> QED
          BY <2>2, <4>2
      <3> QED
        BY <2>6, <3>1, <3>2
    <2> QED
      BY <2>5, <2>7, <2>8 DEF WorkersStop
  <1> QED
    BY <1>1, <1>2, <1>3

(* A pass works through its waits in order, and after the one that returned  *)
(* True nothing is admitted, watched or installed again.                     *)
LEMMA PassStep ==
  ASSUME CoordinatorInv, CreatorsCurrent, PassOrder, [Next]_vars
  PROVE  PassOrder'
  <1>t. /\ PassOrder /\ sd \in PassRecord /\ stopping \in BOOLEAN
        /\ TypeOK /\ Shape /\ Ownership
    BY DEF CoordinatorInv, TypeOK, ShutdownTypeOK
  <1>q. Quiet => Quiet'
    BY QuietStep
  <1>p. \/ UNCHANGED <<sd, stopping>>
        \/ stopping' /\ sd'.pc = "controls" /\ ~sd.done /\ ~sd'.done
        \/ sd.pc # "idle" /\ sd'.done = sd.done /\ sd'.pc = "idle" /\ UNCHANGED stopping
        \/ /\ sd.pc = "controls" /\ sd'.pc = "snapshot" /\ sd'.done = sd.done
           /\ \A s \in Session : ControlFree(s)
           /\ UNCHANGED stopping
        \/ /\ sd.pc \notin {"idle", "controls"} /\ sd'.pc # "idle" /\ sd'.done = sd.done
           /\ UNCHANGED stopping
        \/ ShutdownFinish
    <2>1. CASE UNCHANGED <<sd, stopping>>
      BY <2>1
    <2>2. CASE ShutdownBegin \/ ShutdownTimeout
      BY <1>t, <2>2 DEF ShutdownBegin, ShutdownTimeout, PassRecord
    <2>3. CASE ShutdownControls \/ ShutdownSnapshot \/ (\E s \in Session : ShutdownMark(s))
               \/ ShutdownMarked \/ ShutdownJoinAborts
      BY <1>t, <2>3 DEF ShutdownControls, ShutdownSnapshot, ShutdownMark, ShutdownMarked,
         ShutdownJoinAborts, PassRecord
    <2>4. CASE ShutdownRuntimes \/ ShutdownJoinStops \/ ShutdownWatchers \/ ShutdownFinish
      BY <1>t, <2>4 DEF ShutdownRuntimes, ShutdownJoinStops, ShutdownWatchers, PassRecord
    <2> QED
      BY <2>1, <2>2, <2>3, <2>4, ShutdownTouched DEF ShutdownPass
  <1>f. ASSUME ShutdownFinish
        PROVE  /\ sd'.pc = "idle" /\ UNCHANGED <<stopping, active, watcher>>
               /\ sd.pc = "joinWatchers"
               /\ sd'.done => /\ ActiveRuns = {} /\ AliveWatchers = {}
                              /\ \A s \in Session : runtimes'[s] = NoRuntime
    BY <1>t, <1>f DEF ShutdownFinish, PassRecord, unstoppedVars
  <1>1. sd'.pc # "idle" => stopping'
    BY <1>t, <1>p, <1>f DEF PassOrder
  <1>2. sd'.pc \notin {"idle", "controls"} \/ sd'.done => Quiet'
    <2>1. CASE Quiet
      BY <1>q, <2>1
    <2>2. CASE ~Quiet
      <3>1. sd.pc \in {"idle", "controls"} /\ ~sd.done
        BY <1>t, <2>2 DEF PassOrder
      <3>2. ~(sd.pc = "controls" /\ \A s \in Session : ControlFree(s))
        BY <1>t, <2>2 DEF PassOrder, Quiet
      <3> QED
        BY <1>t, <1>p, <1>f, <3>1, <3>2
    <2> QED
      BY <2>1, <2>2
  <1>3. sd'.done => /\ sd'.pc = "idle" /\ ActiveRuns' = {} /\ AliveWatchers' = {}
                    /\ \A s \in Session : runtimes'[s] = NoRuntime
    <2>1. CASE ShutdownFinish
      <3>1. UNCHANGED <<ActiveRuns, AliveWatchers>>
        BY <1>f, <2>1 DEF ActiveRuns, AliveWatchers, Admitted
      <3> QED
        BY <1>f, <2>1, <3>1
    <2>2. CASE ~ShutdownFinish
      <3> SUFFICES ASSUME sd'.done
                   PROVE  /\ sd'.pc = "idle" /\ ActiveRuns' = {} /\ AliveWatchers' = {}
                          /\ \A s \in Session : runtimes'[s] = NoRuntime
        OBVIOUS
      <3>1. sd.done /\ UNCHANGED <<sd, stopping>>
        BY <1>t, <1>p, <2>2 DEF PassOrder
      <3>2. /\ Quiet /\ sd.pc = "idle" /\ ActiveRuns = {} /\ AliveWatchers = {}
            /\ \A s \in Session : runtimes[s] = NoRuntime
        BY <1>t, <3>1 DEF PassOrder
      <3>3. ActiveRuns' = {}
        <4>1. RunsKept
          BY <3>2, RunsKeptStep DEF SubmitAdmit, Quiet
        <4> QED
          BY <3>2, <4>1 DEF RunsKept, ActiveRuns, Admitted
      <3>4. AliveWatchers' = {}
        <4>1. ASSUME NEW t \in Thread, StartWatcher(t) PROVE FALSE
          <5>1. thr[t].pc = "watch"
            BY <4>1 DEF StartWatcher
          <5>2. thr[t].op = "submit" /\ thr[t].session \in Session /\ thr[t].run \in Run
            BY <1>t, <5>1 DEF Shape, ShapeOf
          <5>3. Owns(t) /\ thr[t].run # NoRun
            BY <1>t, <5>1, <5>2, SMTT(60) DEF Ownership, ThreadsOwn, Submitting, Run, NoRun
          <5> QED
            BY <3>2, <5>2, <5>3 DEF Owns, ActiveRuns, Admitted
        <4>2. ASSUME NEW r \in Run, WatcherStep(r) PROVE FALSE
          BY <3>2, <4>2 DEF WatcherStep, WatchTimeout, WatchComplete, WatcherEmit,
             WatcherCallback, WatcherExit, AliveWatchers
        <4>3. UNCHANGED watcher
          BY <4>1, <4>2, Touched
        <4> QED
          BY <3>2, <4>3 DEF AliveWatchers
      <3>5. UNCHANGED runtimes
        BY <2>2, <3>2, QuietRuntimes
      <3> QED
        BY <3>1, <3>2, <3>3, <3>4, <3>5
    <2> QED
      BY <2>1, <2>2
  <1> QED
    BY <1>1, <1>2, <1>3 DEF PassOrder

LEMMA ShutdownInvStep ==
  ASSUME CoordinatorInv, RuntimeInv, ShutdownInv, [Next]_vars
  PROVE  ShutdownInv'
  BY WorkersStep, PassStep, FactoryStep DEF ShutdownInv, RuntimeInv

-----------------------------------------------------------------------------
(* A runtime that takes work is forgotten in one way only: the restore route *)
(* built it, and the replacement was refused because a run is active.        *)
BusyRestore(x) ==
  \E t \in Thread : /\ ReplaceRefused(t) /\ thr[t].runtime = x
                    /\ ~stopping /\ Admitted(thr[t].session)

LEMMA KeptMoves ==
  ASSUME CoordinatorInv, CreatorsCurrent, NEW t \in Thread, ThreadStep(t),
         NEW x \in RuntimeId, Kept(x), x \in accepting', ~BusyRestore(x)
  PROVE  Kept(x)'
  <1> DEFINE Hands == {"install", "discard", "prepared", "refused", "swap", "bump", "dispose"}
  <1>t. /\ thr \in [Thread -> ThreadRecord] /\ x # NoRuntime
        /\ runtimes \in [Session -> RuntimeId \cup {NoRuntime}]
        /\ \A u \in Thread : u # t => thr'[u] = thr[u]
        /\ thr[t].pc # "idle" /\ thr[t].session \in Session
    BY StepLocals, SMTT(60) DEF CoordinatorInv, TypeOK, ControlTypeOK, RuntimeTypeOK, RuntimeId, NoRuntime,
       Shape, ShapeOf
  <1>k. ASSUME thr'[t].runtime = x, thr'[t].pc \in Hands PROVE Kept(x)'
    BY <1>k DEF Kept
  <1>u. ASSUME UNCHANGED runtimes, thr[t].pc \notin Hands \/ thr[t].runtime # x PROVE Kept(x)'
    BY <1>t, <1>u DEF Kept
  <1>h. ASSUME UNCHANGED runtimes, thr'[t].pc \in Hands, thr'[t].runtime = thr[t].runtime
        PROVE  Kept(x)'
    BY <1>t, <1>h, <1>k, <1>u
  <1> USE DEF sharedVars, runtimeVars
  <1>1. CASE LookupRuntime(t) \/ EnterGate(t) \/ CreateRuntime(t) \/ CreateFails(t)
             \/ CheckReservation(t) \/ FinishAbortedStart(t) \/ EmitAborted(t)
             \/ CallbackAborted(t) \/ RuntimeSubmit(t)
    <2>1. UNCHANGED runtimes /\ thr[t].pc \notin Hands
      BY <1>1 DEF LookupRuntime, EnterGate, CreateRuntime, CreateFails, CheckReservation,
         FinishAbortedStart, EmitAborted, CallbackAborted, RuntimeSubmit
    <2> QED
      BY <1>u, <2>1
  <1>2. CASE RuntimeSubmitFails(t) \/ ReleaseReservation(t) \/ PublishRunning(t)
             \/ StartWatcher(t) \/ WatcherStartFails(t) \/ FinishOperation(t)
    <2>1. UNCHANGED runtimes /\ thr[t].pc \notin Hands
      BY <1>2 DEF RuntimeSubmitFails, ReleaseReservation, PublishRunning, StartWatcher,
         WatcherStartFails, FinishOperation
    <2> QED
      BY <1>u, <2>1
  <1>3. CASE DiscardCreatedRuntime(t) \/ DisposeDetached(t) \/ DisposeRefused(t)
    <2>1. UNCHANGED runtimes /\ thr[t].runtime # x
      BY <1>3 DEF DiscardCreatedRuntime, DisposeDetached, DisposeRefused
    <2> QED
      BY <1>u, <2>1
  <1>4. CASE ReleaseBump(t) \/ ReplaceAdmit(t)
    <2>1. /\ UNCHANGED runtimes
          /\ Goto(t, "dispose") \/ Goto(t, "swap")
      BY <1>4 DEF ReleaseBump, ReplaceAdmit
    <2>2. thr'[t].pc \in Hands /\ thr'[t].runtime = thr[t].runtime
      BY <1>t, <2>1, GotoLocals, SMTT(60)
    <2> QED
      BY <1>h, <2>1, <2>2
  <1>5. CASE InstallRuntime(t)
    <2>1. thr[t].pc = "install"
      BY <1>5 DEF InstallRuntime
    <2>2. CASE Installable(t)
      <3>1. runtimes' = [runtimes EXCEPT ![thr[t].session] = thr[t].runtime]
        BY <1>5, <2>2 DEF InstallRuntime
      <3>2. runtimes[thr[t].session] = NoRuntime
        BY <2>1, <2>2 DEF Installable, CreatorsCurrent, CreatorCurrent
      <3> QED
        BY <1>t, <3>1, <3>2, SMTT(60) DEF Kept
    <2>3. CASE ~Installable(t)
      <3>1. Goto(t, "discard") /\ UNCHANGED runtimes
        BY <1>5, <2>3 DEF InstallRuntime
      <3>2. thr'[t].pc \in Hands /\ thr'[t].runtime = thr[t].runtime
        BY <1>t, <3>1, GotoLocals
      <3> QED
        BY <1>h, <3>1, <3>2
    <2> QED
      BY <2>2, <2>3
  <1>6. CASE ReleasePop(t)
    <2>1. /\ thr[t].pc = "pop" /\ Move(t, "bump", thr[t].epoch, runtimes[thr[t].session])
          /\ runtimes' = [runtimes EXCEPT ![thr[t].session] = NoRuntime]
      BY <1>6 DEF ReleasePop
    <2>2. thr'[t].pc \in Hands /\ thr'[t].runtime = runtimes[thr[t].session]
      BY <1>t, <2>1, MoveLocals, SMTT(60)
    <2> QED
      BY <1>t, <1>k, <2>1, <2>2, SMTT(60) DEF Kept
  <1>7. CASE ReplaceSwap(t)
    <2>1. /\ Move(t, "dispose", thr[t].epoch, runtimes[thr[t].session])
          /\ runtimes' = [runtimes EXCEPT ![thr[t].session] = thr[t].runtime]
      BY <1>7 DEF ReplaceSwap
    <2>2. thr'[t].pc \in Hands /\ thr'[t].runtime = runtimes[thr[t].session]
      BY <1>t, <2>1, MoveLocals, SMTT(60)
    <2> QED
      BY <1>t, <1>k, <2>1, <2>2, SMTT(60) DEF Kept
  <1>8. CASE ReplaceRefused(t)
    <2>1. UNCHANGED runtimes
      BY <1>8 DEF ReplaceRefused
    <2>2. CASE stopping \/ ~Admitted(thr[t].session)
      <3>1. Goto(t, "refused")
        BY <1>8, <2>2 DEF ReplaceRefused
      <3>2. thr'[t].pc \in Hands /\ thr'[t].runtime = thr[t].runtime
        BY <1>t, <3>1, GotoLocals
      <3> QED
        BY <1>h, <2>1, <3>2
    <2>3. CASE ~stopping /\ Admitted(thr[t].session)
      <3>1. thr[t].runtime # x
        BY <1>8, <2>3 DEF BusyRestore
      <3> QED
        BY <1>u, <2>1, <3>1
    <2> QED
      BY <2>2, <2>3
  <1> QED
    BY <1>1, <1>2, <1>3, <1>4, <1>5, <1>6, <1>7, <1>8 DEF ThreadStep

LEMMA LeakStep ==
  ASSUME CoordinatorInv, CreatorsCurrent, ShutdownInv, [Next]_vars,
         NEW x \in accepting', x \in accepting => Kept(x), ~BusyRestore(x)
  PROVE  Kept(x)'
  <1>t. /\ TypeOK /\ thr \in [Thread -> ThreadRecord] /\ accepting \subseteq RuntimeId
        /\ runtimes \in [Session -> RuntimeId \cup {NoRuntime}] /\ sd \in PassRecord
    BY DEF CoordinatorInv, TypeOK, ControlTypeOK, RuntimeTypeOK, ShutdownTypeOK
  <1>1. CASE x \notin accepting
    <2>1. /\ x = nextRuntime
          /\ \/ \E t \in Thread : CreateRuntime(t)
             \/ \E t \in Thread, s \in Session : RestorePrepare(t, s)
      BY <1>1, ShutdownTouched
    <2>2. ASSUME NEW t \in Thread, CreateRuntime(t) PROVE Kept(x)'
      <3>1. thr'[t].pc = "install" /\ thr'[t].runtime = x
        BY <1>t, <2>1, <2>2, MoveLocals, SMTT(60) DEF CreateRuntime
      <3> QED
        BY <3>1 DEF Kept
    <2>3. ASSUME NEW t \in Thread, NEW s \in Session, RestorePrepare(t, s) PROVE Kept(x)'
      <3>1. thr'[t].pc = "prepared" /\ thr'[t].runtime = x
        BY <1>t, <2>1, <2>3 DEF RestorePrepare, Begin
      <3> QED
        BY <3>1 DEF Kept
    <2> QED
      BY <2>1, <2>2, <2>3
  <1>2. CASE x \in accepting
    <2>0. Kept(x) /\ x \in RuntimeId
      BY <1>t, <1>2
    <2>1. ASSUME NEW t \in Thread, NEW s \in Session, Request(t, s) PROVE Kept(x)'
      BY <1>t, <2>0, <2>1, RequestLocals, SMTT(60) DEF Kept
    <2>2. ASSUME NEW t \in Thread, ThreadStep(t) PROVE Kept(x)'
      BY <2>0, <2>2, KeptMoves
    <2>3. ASSUME UNCHANGED <<thr, runtimes>> PROVE Kept(x)'
      BY <2>0, <2>3 DEF Kept
    <2>4. ASSUME ShutdownFinish, runtimes' # runtimes, UNCHANGED thr PROVE Kept(x)'
      <3>1. sd.pc = "joinWatchers" /\ sd.ok
        BY <2>4 DEF ShutdownFinish
      <3>2. \A s \in Session : runtimes[s] # NoRuntime => runtimes[s] \notin accepting
        BY <3>1 DEF ShutdownInv, WorkersStop
      <3>3. \A s \in Session : runtimes[s] # x
        BY <1>2, <2>0, <3>2, SMTT(60) DEF RuntimeId, NoRuntime
      <3> QED
        BY <2>0, <2>4, <3>3 DEF Kept
    <2> QED
      BY <2>1, <2>2, <2>3, <2>4, StepKinds
  <1> QED
    BY <1>1, <1>2

-----------------------------------------------------------------------------
(* The theorems.                                                           *)

INSTANCE FiniteSetTheorems

(* An admission fills one slot of those the capacity leaves; nothing else fills *)
(* any. The set of active runs stays finite although Session need not be.       *)
FiniteSlots == IsFiniteSet(ActiveRuns) /\ CapacityRespected

LEMMA CapacityStep ==
  ASSUME CoordinatorInv, FiniteSlots, [Next]_vars
  PROVE  FiniteSlots'
  <1>0. IsFiniteSet(ActiveRuns) /\ Cardinality(ActiveRuns) \in Nat /\ Capacity \in Nat
    BY FS_CardinalityType, CapacityAssumption DEF FiniteSlots
  <1>1. ASSUME NEW t \in Thread, NEW s \in Session, SubmitAdmit(t, s)
        PROVE  FiniteSlots'
    <2>1. /\ CapacityFree /\ ~Admitted(s) /\ nextRun # NoRun
          /\ active' = [active EXCEPT ![s] = [IdleState EXCEPT !.status = "starting",
                                                               !.run = nextRun]]
      BY <1>1, BoundsAssumption, SMTT(60)
      DEF SubmitAdmit, RecordState, NoRun, CoordinatorInv, TypeOK, AdmissionTypeOK
    <2>2. active'[s].run # NoRun /\ \A z \in Session : z # s => active'[z] = active[z]
      BY <2>1, SMTT(60) DEF CoordinatorInv, TypeOK, AdmissionTypeOK, IdleState
    <2>3. ActiveRuns' = ActiveRuns \cup {s} /\ s \notin ActiveRuns
      BY <2>1, <2>2 DEF ActiveRuns, Admitted
    <2>4. /\ IsFiniteSet(ActiveRuns \cup {s})
          /\ Cardinality(ActiveRuns \cup {s}) = Cardinality(ActiveRuns) + 1
      BY <1>0, <2>3, FS_AddElement
    <2>5. Cardinality(ActiveRuns) < Capacity
      BY <2>1 DEF CapacityFree
    <2> QED
      BY <1>0, <2>3, <2>4, <2>5, SMTT(60) DEF FiniteSlots, CapacityRespected
  <1>2. CASE RunsKept
    <2>1. ActiveRuns' \subseteq ActiveRuns
      BY <1>2 DEF RunsKept, ActiveRuns, Admitted
    <2>2. /\ IsFiniteSet(ActiveRuns') /\ Cardinality(ActiveRuns') \in Nat
          /\ Cardinality(ActiveRuns') <= Cardinality(ActiveRuns)
      BY <1>0, <2>1, FS_Subset, FS_CardinalityType, SMTT(60)
    <2> QED
      BY <1>0, <2>2, SMTT(60) DEF FiniteSlots, CapacityRespected
  <1> QED
    BY <1>1, <1>2, RunsKeptStep, SMTT(60)

-----------------------------------------------------------------------------
LEMMA InitInv == Init => CoordinatorInv /\ LiveIsOwned /\ FiniteSlots
  <1> SUFFICES ASSUME Init PROVE CoordinatorInv /\ LiveIsOwned /\ FiniteSlots
    OBVIOUS
  <1>1. TypeOK
    <2>1. AdmissionTypeOK
      BY RecordTypes, BoundsAssumption, SMTT(60) DEF Init, AdmissionTypeOK, WatcherPc
    <2>2. ControlTypeOK
      BY RecordTypes DEF Init, ControlTypeOK
    <2>3. RuntimeTypeOK
      BY RecordTypes, BoundsAssumption, SMTT(60) DEF Init, RuntimeTypeOK
    <2>4. ShutdownTypeOK
      BY RecordTypes DEF Init, ShutdownTypeOK, PassRecord, ShutdownPc
    <2> QED
      BY <2>1, <2>2, <2>3, <2>4, SMTT(60) DEF TypeOK
  <1>2. \A t \in Thread : thr[t].pc = "idle" /\ thr[t].op = "none" /\ ~Submitting(t)
    BY DEF Init, IdleThread, Submitting
  <1>3. \A s \in Session : /\ active[s] = IdleState /\ states[s] = IdleState
                           /\ IdleState.status = "idle" /\ ~Admitted(s)
    BY DEF Init, IdleState, Admitted
  <1>4. Shape /\ SlotShape /\ StatesAgree
    BY <1>2, <1>3, SMTT(60) DEF Shape, ShapeOf, SlotShape, StatesAgree
  <1>5. ControlHeld
    BY <1>2, SMTT(60) DEF ControlHeld, Holds, Controls, Init
  <1>6. Ownership
    BY <1>2, <1>3 DEF Ownership, ThreadsOwn, OneSubmitter, WatchersOwn, SlotsOwned,
       SlotsDistinct, Watched, Init
  <1>7. LiveIsOwned
    BY DEF LiveIsOwned, Init, NewRun
  <1>8. ActiveRuns = {}
    BY <1>3 DEF ActiveRuns
  <1>9. FiniteSlots
    BY <1>8, FS_EmptySet, CapacityAssumption, SMTT(60) DEF FiniteSlots, CapacityRespected
  <1> QED
    BY <1>1, <1>4, <1>5, <1>6, <1>7, <1>9, SMTT(60) DEF CoordinatorInv

LEMMA InvStep ==
  ASSUME CoordinatorInv, [Next]_vars
  PROVE  CoordinatorInv'
  <1>1. TypeOK /\ Shape /\ SlotShape
    BY DEF CoordinatorInv
  <1>2. TypeOK' /\ Shape'
    <2>1. ThreadsOK' /\ ControlMapsOK'
      BY <1>1, ThreadsStep, ControlStep, SMTT(60)
    <2>2. AdmissionTypeOK' /\ RuntimeTypeOK' /\ ShutdownTypeOK'
      BY <1>1, AdmissionStep, RuntimeStep, ShutdownStep, SMTT(60)
    <2> QED
      BY <2>1, <2>2, SMTT(60) DEF TypeOK, ControlTypeOK, ThreadsOK, ControlMapsOK
  <1>3. SlotShape' /\ StatesAgree'
    BY SlotsStep DEF SlotsOK
  <1>4. ControlHeld'
    BY ControlHeldStep
  <1>5. Ownership'
    BY OwnershipStep
  <1> QED
    BY <1>2, <1>3, <1>4, <1>5, SMTT(60) DEF CoordinatorInv

(* The inductive invariant holds in every reachable state. *)
THEOREM Invariance == Spec => []CoordinatorInv
  <1>1. Init => CoordinatorInv
    BY InitInv
  <1>2. CoordinatorInv /\ [Next]_vars => CoordinatorInv'
    BY InvStep
  <1> QED
    BY <1>1, <1>2, PTL, SMTT(60) DEF Spec

(* Every variable keeps its type. *)
THEOREM TypeCorrect == Spec => []TypeOK
  <1>1. CoordinatorInv => TypeOK
    BY DEF CoordinatorInv
  <1> QED
    BY <1>1, Invariance, PTL, SMTT(60)

(* _states never contradicts _active_by_session. *)
THEOREM PollersAgree == Spec => []StatesAgree
  <1>1. CoordinatorInv => StatesAgree
    BY DEF CoordinatorInv
  <1> QED
    BY <1>1, Invariance, PTL, SMTT(60)

(* submit_stream never admits more runs than the capacity. *)
THEOREM NeverOverbooked == Spec => []CapacityRespected
  <1>1. Init => FiniteSlots
    BY InitInv
  <1>2. CoordinatorInv /\ FiniteSlots /\ [Next]_vars => FiniteSlots'
    BY CapacityStep
  <1>3. FiniteSlots => CapacityRespected
    BY DEF FiniteSlots
  <1> QED
    BY <1>1, <1>2, <1>3, Invariance, PTL, SMTT(60) DEF Spec

(* The reservation of an admitted run always has exactly one owner. *)
THEOREM SingleOwner == Spec => []OneOwner
  <1>1. CoordinatorInv => OneOwner
    <2> SUFFICES ASSUME CoordinatorInv, NEW s \in Session, Admitted(s)
                 PROVE  LET r == active[s].run
                            submits(t) == Submitting(t) /\ thr[t].run = r
                        IN  IF watcher[r] = "none"
                              THEN \E t \in Thread : \A u \in Thread : submits(u) <=> u = t
                              ELSE /\ watcher[r] \in {"poll", "errEmit", "errCallback"}
                                   /\ \A t \in Thread : ~submits(t)
      BY DEF OneOwner
    <2>1. ThreadsOwn /\ OneSubmitter /\ SlotsOwned
      BY DEF CoordinatorInv, Ownership
    <2>2. CASE Watched(active[s].run)
      BY <2>1, <2>2 DEF ThreadsOwn, Watched
    <2>3. CASE \E t \in Thread : Submitting(t) /\ thr[t].run = active[s].run
      BY <2>1, <2>3, SMTT(60) DEF ThreadsOwn, OneSubmitter
    <2> QED
      BY <2>1, <2>2, <2>3 DEF SlotsOwned
  <1> QED
    BY <1>1, Invariance, PTL, SMTT(60)

(* "Entries remain until the underlying handle really finishes", provided that *)
(* watcher threads can always be started.                                       *)
THEOREM SlotKept == "watcher" \notin Faults => (Spec => []SlotUntilFinished)
  <1> SUFFICES ASSUME "watcher" \notin Faults PROVE Spec => []SlotUntilFinished
    OBVIOUS
  <1>1. Init => LiveIsOwned
    BY InitInv
  <1>2. CoordinatorInv /\ LiveIsOwned /\ [Next]_vars => LiveIsOwned'
    BY LiveStep
  <1>3. CoordinatorInv /\ LiveIsOwned => SlotUntilFinished
    BY SMTT(60) DEF CoordinatorInv, Ownership, LiveIsOwned, SlotUntilFinished, ThreadsOwn,
        WatchersOwn,
       Watches, Owns, Submitting, Shape, ShapeOf
  <1> QED
    BY <1>1, <1>2, <1>3, Invariance, PTL, SMTT(60) DEF Spec

(* A configure, rewind, release or restore has its session for itself: no run is *)
(* admitted or live there and no side question is in progress.                   *)
THEOREM ControlsExclude == "watcher" \notin Faults => (Spec => []ControlIsExclusive)
  <1> SUFFICES ASSUME "watcher" \notin Faults PROVE Spec => []ControlIsExclusive
    OBVIOUS
  <1>1. CoordinatorInv /\ SlotUntilFinished => ControlIsExclusive
    BY SMTT(60) DEF CoordinatorInv, ControlHeld, SlotUntilFinished, ControlIsExclusive, Admitted,
       Run, NoRun
  <1> QED
    BY <1>1, SlotKept, Invariance, PTL, SMTT(60)

-----------------------------------------------------------------------------
(* Runtimes and shutdown. *)
LEMMA InitRuntimes == Init => RuntimeInv /\ ShutdownInv /\ NoRuntimeLeak
  <1> SUFFICES ASSUME Init PROVE RuntimeInv /\ ShutdownInv /\ NoRuntimeLeak
    OBVIOUS
  <1>1. \A t \in Thread : /\ thr[t].pc = "idle" /\ thr[t].op = "none" /\ ~Submitting(t)
                          /\ thr[t].runtime = NoRuntime
    BY DEF Init, IdleThread, Submitting
  <1>2. GateHeld /\ CreatorsCurrent
    BY <1>1 DEF GateHeld, Creating, CreatorsCurrent, CreatorCurrent
  <1>3. RuntimesKept /\ NewUntilSubmitted /\ EarlyStopsSeen
    BY <1>1 DEF RuntimesKept, HasRuntime, NewUntilSubmitted, EarlyStopsSeen,
       EarlyStopNeverRuns, Watched, Init, NewRun
  <1>4. WorkersStop /\ PassOrder
    BY DEF WorkersStop, PassOrder, Init, NoWorker
  <1>5. FactoryOrder
    BY <1>1, SMTT(60) DEF FactoryOrder, Init, NoRuntime
  <1>6. NoRuntimeLeak
    BY DEF NoRuntimeLeak, Init
  <1> QED
    BY <1>2, <1>3, <1>4, <1>5, <1>6, SMTT(60) DEF RuntimeInv, ShutdownInv

(* Creations queue at their session's gate, the installed runtime of a run stays, *)
(* and a shutdown's waits do what the next ones rely on.                          *)
THEOREM RuntimeInvariance == Spec => [](RuntimeInv /\ ShutdownInv)
  <1>1. Init => RuntimeInv /\ ShutdownInv
    BY InitRuntimes
  <1>2. CoordinatorInv /\ RuntimeInv /\ ShutdownInv /\ [Next]_vars => (RuntimeInv /\ ShutdownInv)'
    BY RuntimeInvStep, ShutdownInvStep, SMTT(60)
  <1> QED
    BY <1>1, <1>2, Invariance, PTL, SMTT(60) DEF Spec

(* A run that was stopped before its session had a runtime never reaches the *)
(* agent, however the stop interleaves with the creation of the runtime.     *)
THEOREM EarlyStopKept == Spec => []EarlyStopNeverRuns
  <1>1. RuntimeInv => EarlyStopNeverRuns
    BY DEF RuntimeInv, EarlyStopsSeen
  <1> QED
    BY <1>1, RuntimeInvariance, PTL, SMTT(60)

(* What a submit found, won or built is still installed when it submits, while *)
(* releases, restores and the creations of other threads go on.                *)
THEOREM SubmitsInstalled == Spec => []SubmitsToInstalled
  <1>1. CoordinatorInv /\ RuntimeInv => SubmitsToInstalled
    BY DEF CoordinatorInv, Shape, ShapeOf, RuntimeInv, RuntimesKept, HasRuntime,
       SubmitsToInstalled
  <1> QED
    BY <1>1, Invariance, RuntimeInvariance, PTL, SMTT(60)

(* A creation that lost its race never replaces an installed runtime. *)
THEOREM NoOverwrite == Spec => InstallNeverOverwrites
  <1>1. CoordinatorInv /\ RuntimeInv /\ [Next]_vars =>
          [\A s \in Session :
             runtimes[s] # NoRuntime /\ runtimes'[s] # runtimes[s]
             => control[s] \in {"release", "restore"} \/ sd'.done]_vars
    BY TakenAway, SMTT(60) DEF RuntimeInv
  <1> QED
    BY <1>1, Invariance, RuntimeInvariance, PTL, SMTT(60) DEF Spec, InstallNeverOverwrites

(* The only step that forgets a runtime that takes work is the refusal of a *)
(* restore by a run that is active on its session.                          *)
THEOREM OneLeak ==
  Spec => [][\A x \in accepting' : (x \in accepting => Kept(x)) => Kept(x)' \/ BusyRestore(x)]_vars
  <1>1. CoordinatorInv /\ RuntimeInv /\ ShutdownInv /\ [Next]_vars =>
          [\A x \in accepting' : (x \in accepting => Kept(x)) => Kept(x)' \/ BusyRestore(x)]_vars
    BY LeakStep DEF RuntimeInv
  <1> QED
    BY <1>1, Invariance, RuntimeInvariance, PTL, SMTT(60) DEF Spec

NoRestore == \A t \in Thread : thr[t].op # "restore"

LEMMA NoRestoreStep ==
  ASSUME "restore" \notin Ops, CoordinatorInv, NoRestore, [Next]_vars
  PROVE  NoRestore'
  <1>t. TypeOK /\ thr \in [Thread -> ThreadRecord]
    BY DEF CoordinatorInv, TypeOK, ControlTypeOK
  <1>1. ASSUME NEW t \in Thread, NEW s \in Session, Request(t, s) PROVE NoRestore'
    <2>1. thr'[t].op # "restore"
      BY <1>t, <1>1, SMTT(60) DEF Request, SubmitAdmit, EnsureStart, SideQuestionStart, ConfigureStart,
         RewindStart, ReleaseStart, RestorePrepare, ControlStart, Begin, Free
    <2> QED
      BY <1>t, <1>1, <2>1, RequestLocals, SMTT(60) DEF NoRestore
  <1>2. ASSUME NEW t \in Thread, ThreadStep(t) PROVE NoRestore'
    BY <1>t, <1>2, StepLocals, SMTT(60) DEF NoRestore, IdleThread
  <1> QED
    BY <1>1, <1>2, StepKinds DEF NoRestore

(* Without restores no runtime that takes work is ever forgotten, whatever  *)
(* creations, releases and shutdowns overtake one another.                  *)
THEOREM NoLeakWithoutRestore == "restore" \notin Ops => (Spec => []NoRuntimeLeak)
  <1> SUFFICES ASSUME "restore" \notin Ops PROVE Spec => []NoRuntimeLeak
    OBVIOUS
  <1>0. Init => NoRestore
    <2>1. Init => thr = [t \in Thread |-> IdleThread]
      BY Zenon DEF Init
    <2> QED
      BY <2>1, SMTT(60) DEF IdleThread, NoRestore
  <1>1. Init => NoRuntimeLeak /\ NoRestore
    BY <1>0, InitRuntimes
  <1>2. CoordinatorInv /\ NoRestore /\ [Next]_vars => NoRestore'
    BY NoRestoreStep
  <1>3. /\ CoordinatorInv /\ RuntimeInv /\ ShutdownInv /\ NoRestore /\ NoRuntimeLeak
        /\ [Next]_vars
        => NoRuntimeLeak'
    <2> SUFFICES ASSUME CoordinatorInv, RuntimeInv, ShutdownInv, NoRestore, NoRuntimeLeak,
                        [Next]_vars, NEW x \in accepting'
                 PROVE  Kept(x)'
      BY DEF NoRuntimeLeak
    <2>1. ~BusyRestore(x)
      BY DEF BusyRestore, ReplaceRefused, CoordinatorInv, Shape, ShapeOf, NoRestore
    <2> QED
      BY <2>1, LeakStep DEF RuntimeInv, NoRuntimeLeak
  <1> QED
    BY <1>1, <1>2, <1>3, Invariance, RuntimeInvariance, PTL, SMTT(60) DEF Spec

(* When shutdown returned True nothing it owned is left, and nothing comes   *)
(* back later, provided that watcher threads can always be started and no    *)
(* restore lost a runtime.                                                   *)
THEOREM CompleteShutdown ==
  "watcher" \notin Faults /\ "restore" \notin Ops => (Spec => []ShutdownIsComplete)
  <1> SUFFICES ASSUME "watcher" \notin Faults, "restore" \notin Ops
               PROVE  Spec => []ShutdownIsComplete
    OBVIOUS
  <1>1. Init => LiveIsOwned
    BY InitInv
  <1>2. CoordinatorInv /\ LiveIsOwned /\ [Next]_vars => LiveIsOwned'
    BY LiveStep, SMTT(60)
  <1>3. CoordinatorInv /\ ShutdownInv /\ LiveIsOwned /\ NoRuntimeLeak => ShutdownIsComplete
    <2> SUFFICES ASSUME CoordinatorInv, ShutdownInv, LiveIsOwned, NoRuntimeLeak, sd.done
                 PROVE  /\ ActiveRuns = {} /\ AliveWatchers = {}
                        /\ \A r \in Run : runs[r].phase # "live"
                        /\ \A s \in Session : runtimes[s] = NoRuntime
                        /\ \A x \in accepting : \E t \in Thread :
                             /\ thr[t].runtime = x
                             /\ thr[t].pc \in {"install", "discard", "prepared", "refused"}
      BY DEF ShutdownIsComplete
    <2>1. /\ ActiveRuns = {} /\ AliveWatchers = {} /\ Quiet
          /\ \A s \in Session : runtimes[s] = NoRuntime
      BY DEF ShutdownInv, PassOrder
    <2>2. ASSUME NEW r \in Run, runs[r].phase = "live" PROVE FALSE
      <3>1. CASE Watched(r)
        BY <2>1, <3>1 DEF Watched, AliveWatchers
      <3>2. CASE \E t \in Thread : thr[t].pc \in {"publish", "watch"} /\ thr[t].run = r
        <4>1. PICK t \in Thread : thr[t].pc \in {"publish", "watch"} /\ thr[t].run = r
          BY <3>2
        <4>2. thr[t].op = "submit" /\ thr[t].session \in Session /\ r # NoRun
          BY <4>1, SMTT(60) DEF CoordinatorInv, Shape, ShapeOf, Run, NoRun
        <4>3. active[thr[t].session].run = r
          BY <4>1, <4>2 DEF CoordinatorInv, Ownership, ThreadsOwn, Submitting, Owns
        <4> QED
          BY <2>1, <4>2, <4>3 DEF ActiveRuns, Admitted
      <3> QED
        BY <2>2, <3>1, <3>2, SMTT(60) DEF LiveIsOwned
    <2>3. ASSUME NEW t \in Thread PROVE thr[t].pc \notin {"swap", "bump", "dispose"}
      <3> SUFFICES ASSUME thr[t].pc \in {"swap", "bump", "dispose"} PROVE FALSE
        OBVIOUS
      <3>1. Holds(t) /\ thr[t].session \in Session /\ thr[t].op # "none"
        BY SMTT(60) DEF CoordinatorInv, Shape, ShapeOf, Holds, Controls
      <3> QED
        BY <2>1, <3>1, SMTT(60) DEF CoordinatorInv, ControlHeld, Quiet, ControlFree
    <2>4. ASSUME NEW x \in accepting
          PROVE  \E t \in Thread :
                   /\ thr[t].runtime = x
                   /\ thr[t].pc \in {"install", "discard", "prepared", "refused"}
      <3>1. x # NoRuntime /\ Kept(x)
        BY SMTT(60) DEF CoordinatorInv, TypeOK, RuntimeTypeOK, RuntimeId, NoRuntime, NoRuntimeLeak
      <3> QED
        BY <2>1, <2>3, <3>1, SMTT(60) DEF Kept
    <2> QED
      BY <2>1, <2>2, <2>4, SMTT(60)
  <1> QED
    BY <1>1, <1>2, <1>3, Invariance, RuntimeInvariance, NoLeakWithoutRestore, PTL, SMTT(60) DEF Spec
=============================================================================
