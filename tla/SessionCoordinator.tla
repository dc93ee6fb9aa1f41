------------------------- MODULE SessionCoordinator -------------------------
(***************************************************************************)
(* server/services/session_coordinator.py: the owner of one lazily created *)
(* runtime per chat session and of the process-wide run capacity.          *)
(*                                                                         *)
(* A step is what the code does inside one `with self._lock` section, or   *)
(* one call it makes outside it (factory, runtime.submit, the state-change *)
(* callback).  Request threads, completion watchers, the shutdown pass and *)
(* its daemon workers interleave between those steps.                      *)
(*                                                                         *)
(* A rejected admission raises and changes nothing, so the rejections are  *)
(* the negations of the admission guards and are no steps of their own.    *)
(* `_shutdown_requested` has a lock of its own; reading it inside a        *)
(* `_lock` section is one step with that section.                          *)
(***************************************************************************)
EXTENDS Naturals, FiniteSets

CONSTANTS
  Session,      \* chat sessions
  NoSession,    \* no session: the value of an unused local
  Thread,       \* request threads (asyncio.to_thread workers, channels)
  Capacity,     \* the coordinator's run capacity
  Ops,          \* the operations the request threads call
  Faults,       \* what may fail: "create" "submit" "watcher" "abort" "stop"
  Outcomes,     \* what a handle's run_outcome may report
  MaxRuns,      \* bound: runs admitted
  MaxRuntimes,  \* bound: runtimes built
  MaxEpoch,     \* bound: the epoch up to which a session is released
  MaxTimeouts   \* bound: shutdown passes that run into their deadline

ASSUME CapacityAssumption == Capacity \in Nat \ {0}
ASSUME SessionAssumption == IsFiniteSet(Session) /\ NoSession \notin Session
ASSUME BoundsAssumption ==
         MaxRuns \in Nat /\ MaxRuntimes \in Nat /\ MaxEpoch \in Nat /\ MaxTimeouts \in Nat

NoRun     == 0
NoRuntime == 0
Run       == 1..MaxRuns
RuntimeId == 1..MaxRuntimes

Controls == {"configure", "rewind", "release", "restore"}
AllOps   == Controls \cup {"submit", "ensure", "btw"}

(* One RuntimeState of the code; its session is the index it is kept under. *)
RuntimeState ==
  [ status    : {"idle", "starting", "running", "aborting", "error"},
    run       : Run \cup {NoRun},
    stream    : BOOLEAN,             \* stream_id is known
    completed : Run \cup {NoRun},
    outcome   : Outcomes \cup {"none", "cancelled"} ]

(* RuntimeState(session_id): every field at its default. *)
IdleState == [ status |-> "idle", run |-> NoRun, stream |-> FALSE,
               completed |-> NoRun, outcome |-> "none" ]

VARIABLES
  runtimes,     \* _runtimes: the installed runtime of a session
  active,       \* _active_by_session; IdleState stands for an absent entry
  states,       \* _states; an absent entry reads as IdleState
  abortStarted, \* keys of _abort_started
  control,      \* _exclusive_controls: the operation holding the session
  sideQuestions,\* _side_questions
  epoch,        \* _runtime_epoch
  gate,         \* _creation_gates: TRUE while a thread is building
  stopping,     \* _shutdown_requested
  watcher,      \* _watchers: where the watcher thread of a run is
  thr,          \* the request threads: program counter and locals
  nextRun,      \* the next fresh run id
  nextRuntime,  \* the next runtime the factory returns
  accepting,    \* runtimes built and not told to shut down
  runs,         \* the runs as their runtimes see them
  signalled,    \* runs whose agent was told to abort while they ran
  earlyStops,   \* history: runs stopped before their session had a runtime
  published,    \* history: the state changes given to on_state_change
  sd,           \* the shutdown pass
  abortWorker,  \* _shutdown_abort_workers
  stopWorker    \* _shutdown_workers

admissionVars == <<active, states, abortStarted, nextRun>>
controlVars   == <<control, sideQuestions>>
runtimeVars   == <<runtimes, epoch, gate, nextRuntime, accepting>>
agentVars     == <<runs, signalled>>
historyVars   == <<earlyStops, published>>
shutdownVars  == <<stopping, sd, abortWorker, stopWorker>>
sharedVars    == <<admissionVars, controlVars, runtimeVars, agentVars, historyVars,
                   shutdownVars, watcher>>
vars          == <<sharedVars, thr>>

(* What a shutdown changes and what it leaves to the others. *)
stoppedVars   == <<runtimes, active, states, abortStarted, accepting, signalled>>
unstoppedVars == <<controlVars, nextRun, epoch, gate, nextRuntime, runs,
                   historyVars, watcher, thr>>

ThreadPc == {"idle", "lookup", "gate", "build", "install", "discard", "ready",
             "fail", "settle", "emit", "callback", "submit", "publish", "watch",
             "prepared", "refused", "swap", "pop", "bump", "dispose"}
WatcherPc == {"none", "poll", "errEmit", "errCallback", "doneEmit",
              "doneCallback", "exit", "gone"}
ShutdownPc  == {"idle", "controls", "snapshot", "mark", "joinAborts", "runtimes",
                "joinStops", "watchers", "joinWatchers"}

IdleThread == [ pc |-> "idle", op |-> "none", session |-> NoSession, run |-> NoRun,
                epoch |-> 0, runtime |-> NoRuntime ]
NewRun     == [ phase |-> "new", session |-> NoSession, runtime |-> NoRuntime,
                outcome |-> "none" ]
NoWorker   == [ state |-> "none", runtime |-> NoRuntime ]

Init ==
  /\ runtimes = [s \in Session |-> NoRuntime]
  /\ active = [s \in Session |-> IdleState]
  /\ states = [s \in Session |-> IdleState]
  /\ abortStarted = {}
  /\ control = [s \in Session |-> "none"]
  /\ sideQuestions = [s \in Session |-> 0]
  /\ epoch = [s \in Session |-> 0]
  /\ gate = [s \in Session |-> FALSE]
  /\ stopping = FALSE
  /\ watcher = [r \in Run |-> "none"]
  /\ thr = [t \in Thread |-> IdleThread]
  /\ nextRun = 1
  /\ nextRuntime = 1
  /\ accepting = {}
  /\ runs = [r \in Run |-> NewRun]
  /\ signalled = {}
  /\ earlyStops = {}
  /\ published = {}
  /\ sd = [ pc |-> "idle", todo |-> {}, ok |-> TRUE, timeouts |-> 0, done |-> FALSE ]
  /\ abortWorker = [r \in Run |-> NoWorker]
  /\ stopWorker = [s \in Session |-> NoWorker]

-----------------------------------------------------------------------------
(* Shared pieces of the critical sections. *)

Admitted(s) == active[s].run # NoRun

ActiveRuns == { s \in Session : Admitted(s) }

(* A session's state goes into both maps in one critical section, and       *)
(* leaves the admission map for a last state the pollers read.              *)
RecordState(s, st) ==
  active' = [active EXCEPT ![s] = st] /\ states' = [states EXCEPT ![s] = st]

FreeSlot(s, st) ==
  active' = [active EXCEPT ![s] = IdleState] /\ states' = [states EXCEPT ![s] = st]

(* Thread t starts operation o on session s, for run r or with runtime x in *)
(* hand; moves to program counter p; returns to its caller.                 *)
Begin(t, o, s, r, p, x) ==
  thr' = [thr EXCEPT ![t] = [ pc |-> p, op |-> o, session |-> s, run |-> r,
                              epoch |-> 0, runtime |-> x ]]

Move(t, p, e, x) == thr' = [thr EXCEPT ![t] = [ thr[t] EXCEPT !.pc = p, !.epoch = e,
                                                              !.runtime = x ]]

Goto(t, p) == Move(t, p, thr[t].epoch, thr[t].runtime)

Return(t) == thr' = [thr EXCEPT ![t] = IdleThread]

Free(t, o) == thr[t].pc = "idle" /\ o \in Ops

(* runtime.abort() and the abort half of runtime.shutdown(): the runs the   *)
(* agent is executing are told to stop; an idle agent ignores the call.     *)
LiveOn(x) == { r \in Run : runs[r].phase = "live" /\ runs[r].runtime = x }

AgentAbort(x) == signalled' = signalled \cup LiveOn(x)

(* _raise_if_control_busy *)
ControlFree_Unchecked(s) == TRUE

ControlFree(s) == control[s] = "none"

(* The admission of the exclusive operations: configure_if_idle, rewind,    *)
(* exclusive.                                                               *)
ExclusiveAdmissible_DuringBtw(s) == ~stopping /\ ~Admitted(s) /\ ControlFree(s)

ExclusiveAdmissible(s) ==
  /\ ~stopping
  /\ ~Admitted(s)
  /\ ControlFree(s)
  /\ sideQuestions[s] = 0

-----------------------------------------------------------------------------
(* len(_active_by_session) >= capacity refuses. *)
CapacityFree == Cardinality(ActiveRuns) < Capacity

(* submit_stream: admission. The slot is reserved in the same critical      *)
(* section that checks the capacity.                                        *)
SubmitAdmit(t, s) ==
  /\ Free(t, "submit")
  /\ ~stopping
  /\ ControlFree(s)
  /\ ~Admitted(s)
  /\ CapacityFree
  /\ nextRun <= MaxRuns
  /\ RecordState(s, [IdleState EXCEPT !.status = "starting", !.run = nextRun])
  /\ Begin(t, "submit", s, nextRun, "lookup", NoRuntime)
  /\ nextRun' = nextRun + 1
  /\ UNCHANGED <<abortStarted, controlVars, runtimeVars, agentVars, historyVars,
                 shutdownVars, watcher>>

(* ensure_runtime: no reservation of any kind. *)
EnsureStart(t, s) ==
  /\ Free(t, "ensure")
  /\ ~stopping
  /\ Begin(t, "ensure", s, NoRun, "lookup", NoRuntime)
  /\ UNCHANGED sharedVars

(* side_question: counted, and refused only by an exclusive control. *)
SideQuestionStart(t, s) ==
  /\ Free(t, "btw")
  /\ ~stopping
  /\ ControlFree(s)
  /\ sideQuestions' = [sideQuestions EXCEPT ![s] = @ + 1]
  /\ Begin(t, "btw", s, NoRun, "lookup", NoRuntime)
  /\ UNCHANGED <<admissionVars, control, runtimeVars, agentVars, historyVars,
                 shutdownVars, watcher>>

(* The exclusive operations reserve the session's control slot; rewind then *)
(* looks the runtime up, configure runs its callback, release pops.         *)
ControlStart(t, o, s, p) ==
  /\ Free(t, o)
  /\ ExclusiveAdmissible(s)
  /\ control' = [control EXCEPT ![s] = o]
  /\ Begin(t, o, s, NoRun, p, NoRuntime)
  /\ UNCHANGED <<admissionVars, sideQuestions, runtimeVars, agentVars, historyVars,
                 shutdownVars, watcher>>

ConfigureStart(t, s) == ControlStart(t, "configure", s, "ready")
RewindStart(t, s)    == ControlStart(t, "rewind", s, "lookup")
ReleaseStart(t, s)   == epoch[s] < MaxEpoch /\ ControlStart(t, "release", s, "pop")

-----------------------------------------------------------------------------
(* _runtime_for_session: the runtime is built outside the lock.             *)

(* First section: reuse, or capture the epoch and go for the gate. *)
LookupRuntime(t) ==
  LET s == thr[t].session IN
  /\ thr[t].pc = "lookup"
  /\ Move(t, IF runtimes[s] # NoRuntime THEN "ready" ELSE "gate", epoch[s], runtimes[s])
  /\ UNCHANGED sharedVars

EnterGate_NoSecondLook(t) ==
  /\ thr[t].pc = "gate" /\ ~gate[thr[t].session]
  /\ Goto(t, "build")
  /\ gate' = [gate EXCEPT ![thr[t].session] = TRUE]
  /\ UNCHANGED <<admissionVars, controlVars, runtimes, epoch, nextRuntime, accepting,
                 agentVars, historyVars, shutdownVars, watcher>>

(* `with gate:` and the second look: the loser of a race reuses the         *)
(* winner's runtime and lets the gate go at once.                           *)
EnterGate(t) ==
  LET s == thr[t].session IN
  /\ thr[t].pc = "gate"
  /\ ~gate[s]
  /\ Move(t, IF runtimes[s] # NoRuntime THEN "ready" ELSE "build", thr[t].epoch,
          runtimes[s])
  /\ gate' = [gate EXCEPT ![s] = (runtimes[s] = NoRuntime)]
  /\ UNCHANGED <<admissionVars, controlVars, runtimes, epoch, nextRuntime, accepting,
                 agentVars, historyVars, shutdownVars, watcher>>

(* The factory returns a runtime ... *)
CreateRuntime(t) ==
  /\ thr[t].pc = "build"
  /\ nextRuntime <= MaxRuntimes
  /\ Move(t, "install", thr[t].epoch, nextRuntime)
  /\ nextRuntime' = nextRuntime + 1
  /\ accepting' = accepting \cup {nextRuntime}
  /\ UNCHANGED <<admissionVars, controlVars, runtimes, epoch, gate, agentVars,
                 historyVars, shutdownVars, watcher>>

(* ... or raises (RuntimeRestoreError), which leaves the gate. The factory   *)
(* bounds of the model also count as a failure.                             *)
CreateFails(t) ==
  /\ thr[t].pc = "build"
  /\ "create" \in Faults \/ nextRuntime > MaxRuntimes
  /\ Goto(t, "fail")
  /\ gate' = [gate EXCEPT ![thr[t].session] = FALSE]
  /\ UNCHANGED <<admissionVars, controlVars, runtimes, epoch, nextRuntime, accepting,
                 agentVars, historyVars, shutdownVars, watcher>>

(* Third section: install only if the session's epoch is the captured one   *)
(* and no shutdown was requested.                                           *)
Installable_WhileStopping(t) == epoch[thr[t].session] = thr[t].epoch

Installable(t) == epoch[thr[t].session] = thr[t].epoch /\ ~stopping

InstallRuntime(t) ==
  LET s == thr[t].session
      current == Installable(t)
  IN
  /\ thr[t].pc = "install"
  /\ Goto(t, IF current THEN "ready" ELSE "discard")
  /\ runtimes' = IF current THEN [runtimes EXCEPT ![s] = thr[t].runtime] ELSE runtimes
  /\ gate' = [gate EXCEPT ![s] = ~current]
  /\ UNCHANGED <<admissionVars, controlVars, epoch, nextRuntime, accepting,
                 agentVars, historyVars, shutdownVars, watcher>>

(* _discard_created_runtime, still inside the gate; the caller then raises. *)
DiscardCreatedRuntime(t) ==
  /\ thr[t].pc = "discard"
  /\ accepting' = accepting \ {thr[t].runtime}
  /\ gate' = [gate EXCEPT ![thr[t].session] = FALSE]
  /\ Goto(t, "fail")
  /\ UNCHANGED <<admissionVars, controlVars, runtimes, epoch, nextRuntime,
                 agentVars, historyVars, shutdownVars, watcher>>

-----------------------------------------------------------------------------
(* submit_stream: from the runtime to the watcher.                          *)

(* Does this admission still own its reservation?                           *)
Owns(t) == active[thr[t].session].run = thr[t].run

(* _reservation_status is still STARTING. *)
StillStarting_IdentityOnly(t) == Owns(t)

StillStarting(t) == Owns(t) /\ active[thr[t].session].status = "starting"

(* The recheck after creation: a stop that landed meanwhile is honoured.    *)
CheckReservation(t) ==
  /\ thr[t].pc = "ready" /\ thr[t].op = "submit"
  /\ Goto(t, IF StillStarting(t) THEN "submit" ELSE "settle")
  /\ UNCHANGED sharedVars

(* _finish_aborted_start: settle the stop, then tell the listeners. *)
FinishAbortedStart(t) ==
  LET s == thr[t].session IN
  /\ thr[t].pc = "settle"
  /\ IF Owns(t)
       THEN /\ FreeSlot(s, [IdleState EXCEPT !.completed = thr[t].run])
            /\ abortStarted' = abortStarted \ {thr[t].run}
            /\ Goto(t, "emit")
       ELSE /\ UNCHANGED <<active, states, abortStarted>>
            /\ Goto(t, "fail")
  /\ UNCHANGED <<nextRun, controlVars, runtimeVars, agentVars, historyVars,
                 shutdownVars, watcher>>

(* _emit_state_change reads the shutdown flag, then calls the callback.     *)
EmitAborted(t) ==
  /\ thr[t].pc = "emit"
  /\ IF stopping THEN Return(t) ELSE Goto(t, "callback")
  /\ UNCHANGED sharedVars

CallbackAborted(t) ==
  /\ thr[t].pc = "callback"
  /\ published' = published \cup { <<thr[t].run, "idle">> }
  /\ Return(t)
  /\ UNCHANGED <<admissionVars, controlVars, runtimeVars, agentVars, earlyStops,
                 shutdownVars, watcher>>

(* runtime.submit: the agent takes the run. A runtime that was told to shut *)
(* down refuses it.                                                         *)
RuntimeSubmit(t) ==
  /\ thr[t].pc = "submit"
  /\ thr[t].runtime \in accepting
  /\ runs' = [runs EXCEPT ![thr[t].run] =
                [NewRun EXCEPT !.phase = "live", !.session = thr[t].session,
                               !.runtime = thr[t].runtime]]
  /\ Goto(t, "publish")
  /\ UNCHANGED <<admissionVars, controlVars, runtimeVars, signalled, historyVars,
                 shutdownVars, watcher>>

(* runtime.submit raises. The runs here are those with a handle: a fan-out  *)
(* thread that cannot be started raises after the task was put              *)
(* (agent_service.py:697, 770), and what the agent then works on has no     *)
(* handle, no watcher and no slot, and is none of them.                     *)
RuntimeSubmitFails(t) ==
  /\ thr[t].pc = "submit"
  /\ "submit" \in Faults \/ thr[t].runtime \notin accepting
  /\ Goto(t, "fail")
  /\ UNCHANGED sharedVars

(* _release_reservation: creation or submit raised. *)
ReleaseReservation_Forgotten(t) ==
  /\ thr[t].pc = "fail" /\ thr[t].op = "submit"
  /\ Return(t)
  /\ UNCHANGED sharedVars

ReleaseReservation(t) ==
  LET s == thr[t].session IN
  /\ thr[t].pc = "fail" /\ thr[t].op = "submit"
  /\ IF Owns(t) THEN FreeSlot(s, IdleState) ELSE UNCHANGED <<active, states>>
  /\ abortStarted' = abortStarted \ {thr[t].run}
  /\ Return(t)
  /\ UNCHANGED <<nextRun, controlVars, runtimeVars, agentVars, historyVars,
                 shutdownVars, watcher>>

(* STARTING becomes RUNNING; a reservation stopped since the recheck stays  *)
(* ABORTING for the watcher; a vanished one retires the run.                *)
PublishRunning(t) ==
  LET s == thr[t].session
      running == [active[s] EXCEPT !.status = "running", !.stream = TRUE]
  IN
  /\ thr[t].pc = "publish"
  /\ IF Owns(t)
       THEN /\ IF active[s].status = "starting" THEN RecordState(s, running)
                                                ELSE UNCHANGED <<active, states>>
            /\ Goto(t, "watch")
            /\ UNCHANGED <<abortStarted, signalled>>
       ELSE /\ AgentAbort(thr[t].runtime)
            /\ abortStarted' = abortStarted \ {thr[t].run}
            /\ Return(t)
            /\ UNCHANGED <<active, states>>
  /\ UNCHANGED <<nextRun, controlVars, runtimeVars, runs, historyVars,
                 shutdownVars, watcher>>

StartWatcher(t) ==
  /\ thr[t].pc = "watch"
  /\ watcher' = [watcher EXCEPT ![thr[t].run] = "poll"]
  /\ Return(t)
  /\ UNCHANGED <<admissionVars, controlVars, runtimeVars, agentVars, historyVars,
                 shutdownVars>>

WatcherStartFails_NoRollback(t) ==
  /\ thr[t].pc = "watch" /\ "watcher" \in Faults
  /\ Return(t)
  /\ UNCHANGED sharedVars

(* Thread exhaustion: the admission is rolled back and the run told to stop. *)
WatcherStartFails(t) ==
  LET s == thr[t].session IN
  /\ thr[t].pc = "watch"
  /\ "watcher" \in Faults
  /\ IF Owns(t) THEN FreeSlot(s, IdleState) ELSE UNCHANGED <<active, states>>
  /\ AgentAbort(thr[t].runtime)
  /\ Return(t)
  /\ UNCHANGED <<abortStarted, nextRun, controlVars, runtimeVars, runs, historyVars,
                 shutdownVars, watcher>>

-----------------------------------------------------------------------------
(* What ends an operation that reserved no run: the side question or the    *)
(* rewind ran (or raised), the control's action returned.                   *)
FinishOperation(t) ==
  LET s == thr[t].session
      o == thr[t].op
  IN
  /\ thr[t].pc \in {"ready", "fail"} /\ o # "submit"
  /\ control' = IF o \in Controls /\ control[s] = o
                  THEN [control EXCEPT ![s] = "none"] ELSE control
  /\ sideQuestions' = IF o = "btw"
                        THEN [sideQuestions EXCEPT ![s] = IF @ > 1 THEN @ - 1 ELSE 0]
                        ELSE sideQuestions
  /\ Return(t)
  /\ UNCHANGED <<admissionVars, runtimeVars, agentVars, historyVars, shutdownVars,
                 watcher>>

(* release_runtime's action: the pop is outside the lock ... *)
ReleasePop(t) ==
  LET s == thr[t].session IN
  /\ thr[t].pc = "pop"
  /\ Move(t, "bump", thr[t].epoch, runtimes[s])
  /\ runtimes' = [runtimes EXCEPT ![s] = NoRuntime]
  /\ UNCHANGED <<admissionVars, controlVars, epoch, gate, nextRuntime, accepting,
                 agentVars, historyVars, shutdownVars, watcher>>

(* ... and the state and the epoch follow inside it. *)
ReleaseBump(t) ==
  LET s == thr[t].session IN
  /\ thr[t].pc = "bump"
  /\ states' = [states EXCEPT ![s] = IdleState]
  /\ epoch' = [epoch EXCEPT ![s] = @ + 1]
  /\ Goto(t, "dispose")
  /\ UNCHANGED <<active, abortStarted, nextRun, controlVars, runtimes, gate, nextRuntime,
                 accepting, agentVars, historyVars, shutdownVars, watcher>>

(* The detached runtime is shut down; after_release runs before the control *)
(* is given back.                                                           *)
DisposeDetached(t) ==
  /\ thr[t].pc = "dispose"
  /\ accepting' = accepting \ {thr[t].runtime}
  /\ AgentAbort(thr[t].runtime)
  /\ Goto(t, "ready")
  /\ UNCHANGED <<admissionVars, controlVars, runtimes, epoch, gate, nextRuntime,
                 runs, historyVars, shutdownVars, watcher>>

(* The restore route builds the replacement before it asks the coordinator. *)
RestorePrepare(t, s) ==
  /\ Free(t, "restore")
  /\ nextRuntime <= MaxRuntimes
  /\ Begin(t, "restore", s, NoRun, "prepared", nextRuntime)
  /\ nextRuntime' = nextRuntime + 1
  /\ accepting' = accepting \cup {nextRuntime}
  /\ UNCHANGED <<admissionVars, controlVars, runtimes, epoch, gate, agentVars,
                 historyVars, shutdownVars, watcher>>

(* replace_runtime: admitted as an exclusive control ... *)
ReplaceAdmit(t) ==
  LET s == thr[t].session IN
  /\ thr[t].pc = "prepared"
  /\ ExclusiveAdmissible(s)
  /\ control' = [control EXCEPT ![s] = "restore"]
  /\ Goto(t, "swap")
  /\ UNCHANGED <<admissionVars, sideQuestions, runtimeVars, agentVars, historyVars,
                 shutdownVars, watcher>>

(* ... or refused. The route disposes of the fresh runtime when it catches  *)
(* the control conflict or the shutdown; AgentBusyError passes through it.  *)
ReplaceRefused(t) ==
  LET s == thr[t].session IN
  /\ thr[t].pc = "prepared"
  /\ ~ExclusiveAdmissible(s)
  /\ IF stopping \/ ~Admitted(s) THEN Goto(t, "refused") ELSE Return(t)
  /\ UNCHANGED sharedVars

DisposeRefused(t) ==
  /\ thr[t].pc = "refused"
  /\ accepting' = accepting \ {thr[t].runtime}
  /\ Return(t)
  /\ UNCHANGED <<admissionVars, controlVars, runtimes, epoch, gate, nextRuntime,
                 agentVars, historyVars, shutdownVars, watcher>>

(* The swap, the state and the epoch are one critical section. *)
ReplaceSwap(t) ==
  LET s == thr[t].session IN
  /\ thr[t].pc = "swap"
  /\ runtimes' = [runtimes EXCEPT ![s] = thr[t].runtime]
  /\ states' = [states EXCEPT ![s] = IdleState]
  /\ epoch' = [epoch EXCEPT ![s] = @ + 1]
  /\ Move(t, "dispose", thr[t].epoch, runtimes[s])
  /\ UNCHANGED <<active, abortStarted, nextRun, controlVars, gate, nextRuntime, accepting,
                 agentVars, historyVars, shutdownVars, watcher>>

-----------------------------------------------------------------------------
(* abort_if_current and abort: one critical section each. *)

(* _abort_locked: a run that is starting or running is marked, its runtime  *)
(* (when there is one) is told.                                             *)
AbortRun_NoClock(s) ==
  /\ active[s].status \in {"starting", "running"}
  /\ AgentAbort(runtimes[s])
  /\ RecordState(s, [active[s] EXCEPT !.status = "aborting"])
  /\ UNCHANGED <<abortStarted, nextRun, controlVars, runtimeVars, runs, historyVars,
                 shutdownVars, watcher, thr>>

AbortRun(s) ==
  LET r == active[s].run IN
  /\ active[s].status \in {"starting", "running"}
  /\ AgentAbort(runtimes[s])
  /\ RecordState(s, [active[s] EXCEPT !.status = "aborting"])
  /\ abortStarted' = abortStarted \cup {r}
  /\ earlyStops' = IF runtimes[s] = NoRuntime THEN earlyStops \cup {r} ELSE earlyStops
  /\ UNCHANGED <<nextRun, controlVars, runtimeVars, runs, published, shutdownVars,
                 watcher, thr>>

(* abort_if_current with nothing admitted goes to the runtime itself. *)
AbortIdle(s) ==
  /\ ~Admitted(s)
  /\ LiveOn(runtimes[s]) \ signalled # {}
  /\ AgentAbort(runtimes[s])
  /\ UNCHANGED <<admissionVars, controlVars, runtimeVars, runs, historyVars,
                 shutdownVars, watcher, thr>>

-----------------------------------------------------------------------------
(* The agent: a submitted run ends, by itself or because it was told to.    *)
RunFinishes(r) ==
  /\ runs[r].phase = "live"
  /\ \E o \in Outcomes : runs' = [runs EXCEPT ![r].phase = "finished", ![r].outcome = o]
  /\ UNCHANGED <<admissionVars, controlVars, runtimeVars, signalled, historyVars,
                 shutdownVars, watcher, thr>>

-----------------------------------------------------------------------------
(* _watch_completion *)

(* handle.run_finished *)
HandleFinished_Early(r) == runs[r].phase # "new"

HandleFinished(r) == runs[r].phase = "finished"

Watches(r) == active[runs[r].session].run = r

(* The abort timeout: the slot is kept, the status becomes ERROR. *)
WatchTimeout(r) ==
  LET s == runs[r].session IN
  /\ watcher[r] = "poll"
  /\ ~HandleFinished(r)
  /\ Watches(r) /\ active[s].status = "aborting" /\ r \in abortStarted
  /\ RecordState(s, [active[s] EXCEPT !.status = "error"])
  /\ watcher' = [watcher EXCEPT ![r] = "errEmit"]
  /\ UNCHANGED <<abortStarted, nextRun, controlVars, runtimeVars, agentVars, historyVars,
                 shutdownVars, thr>>

(* The run is over: its slot is freed and its outcome recorded. *)
WatchComplete(r) ==
  LET s == runs[r].session
      ended == IF active[s].status = "aborting" THEN "cancelled" ELSE runs[r].outcome
      completed == [IdleState EXCEPT !.completed = r, !.outcome = ended]
  IN
  /\ watcher[r] = "poll"
  /\ HandleFinished(r)
  /\ IF Watches(r) THEN FreeSlot(s, completed) ELSE UNCHANGED <<active, states>>
  /\ abortStarted' = IF Watches(r) THEN abortStarted \ {r} ELSE abortStarted
  /\ watcher' = [watcher EXCEPT ![r] = IF Watches(r) THEN "doneEmit" ELSE "exit"]
  /\ UNCHANGED <<nextRun, controlVars, runtimeVars, agentVars, historyVars, shutdownVars,
                 thr>>

(* _emit_state_change on the watcher's thread, for either notification. *)
WatcherEmit(r) ==
  LET error == watcher[r] = "errEmit"
      after == IF error THEN "poll" ELSE "exit"
  IN
  /\ watcher[r] \in {"errEmit", "doneEmit"}
  /\ watcher' = [watcher EXCEPT ![r] =
                   IF stopping THEN after
                   ELSE IF error THEN "errCallback" ELSE "doneCallback"]
  /\ UNCHANGED <<admissionVars, controlVars, runtimeVars, agentVars, historyVars,
                 shutdownVars, thr>>

WatcherCallback(r) ==
  LET error == watcher[r] = "errCallback" IN
  /\ watcher[r] \in {"errCallback", "doneCallback"}
  /\ published' = published \cup { <<r, IF error THEN "error" ELSE "idle">> }
  /\ watcher' = [watcher EXCEPT ![r] = IF error THEN "poll" ELSE "exit"]
  /\ UNCHANGED <<admissionVars, controlVars, runtimeVars, agentVars, earlyStops,
                 shutdownVars, thr>>

(* The finally block takes the watcher out of _watchers. *)
WatcherExit(r) ==
  /\ watcher[r] = "exit"
  /\ watcher' = [watcher EXCEPT ![r] = "gone"]
  /\ UNCHANGED <<admissionVars, controlVars, runtimeVars, agentVars, historyVars,
                 shutdownVars, thr>>

-----------------------------------------------------------------------------
(* shutdown: one caller at a time (_shutdown_lock); a pass that failed may  *)
(* be called again and takes up the workers the earlier one left.           *)
AliveWatchers == { r \in Run : watcher[r] \notin {"none", "gone"} }

(* _start_shutdown_worker: running and successful workers are reused.       *)
Launch(w, x) == IF w.state \in {"none", "failed"}
                  THEN [state |-> "running", runtime |-> x] ELSE w

(* _join_shutdown_workers: every worker ended, and whether all succeeded.   *)
Joined(workers) == \A k \in DOMAIN workers : workers[k].state \notin {"running", "joining"}
AllOk(workers)  == \A k \in DOMAIN workers : workers[k].state # "failed"

(* A completed failure is forgotten so that a later pass starts it again.   *)
DropFailed(workers) ==
  [k \in DOMAIN workers |-> IF workers[k].state = "failed" THEN NoWorker ELSE workers[k]]

ShutdownBegin ==
  /\ "shutdown" \in Ops
  /\ sd.pc = "idle" /\ ~sd.done
  /\ stopping' = TRUE
  /\ sd' = [sd EXCEPT !.pc = "controls", !.todo = {}, !.ok = TRUE]
  /\ UNCHANGED <<unstoppedVars, stoppedVars, abortWorker, stopWorker>>

(* _wait_for_controls, then the snapshot of the active runs. *)
ShutdownControls ==
  /\ sd.pc = "controls"
  /\ \A s \in Session : ControlFree(s) /\ sideQuestions[s] = 0
  /\ sd' = [sd EXCEPT !.pc = "snapshot"]
  /\ UNCHANGED <<unstoppedVars, stoppedVars, stopping, abortWorker, stopWorker>>

ShutdownSnapshot ==
  /\ sd.pc = "snapshot"
  /\ sd' = [sd EXCEPT !.pc = "mark", !.todo = { active[s].run : s \in ActiveRuns }]
  /\ UNCHANGED <<unstoppedVars, stoppedVars, stopping, abortWorker, stopWorker>>

(* _mark_shutdown_aborting and _shutdown_abort for one run of the snapshot. *)
ShutdownMark(s) ==
  LET r == active[s].run
      fresh == active[s].status \in {"starting", "running"}
  IN
  /\ sd.pc = "mark"
  /\ r \in sd.todo
  /\ sd' = [sd EXCEPT !.todo = @ \ {r}]
  /\ IF runtimes[s] = NoRuntime
       THEN UNCHANGED <<active, states, abortStarted, abortWorker>>
       ELSE /\ IF fresh THEN RecordState(s, [active[s] EXCEPT !.status = "aborting"])
                        ELSE UNCHANGED <<active, states>>
            /\ abortStarted' = IF fresh THEN abortStarted \cup {r} ELSE abortStarted
            /\ abortWorker' = [abortWorker EXCEPT ![r] = Launch(@, runtimes[s])]
  /\ UNCHANGED <<unstoppedVars, runtimes, accepting, signalled, stopping, stopWorker>>

(* Every run of the snapshot was marked or has left its slot. *)
ShutdownMarked ==
  /\ sd.pc = "mark"
  /\ \A s \in ActiveRuns : active[s].run \notin sd.todo
  /\ sd' = [sd EXCEPT !.pc = "joinAborts", !.todo = {}]
  /\ UNCHANGED <<unstoppedVars, stoppedVars, stopping, abortWorker, stopWorker>>

ShutdownJoinAborts ==
  /\ sd.pc = "joinAborts"
  /\ Joined(abortWorker)
  /\ sd' = [sd EXCEPT !.pc = "runtimes", !.ok = @ /\ AllOk(abortWorker)]
  /\ abortWorker' = DropFailed(abortWorker)
  /\ UNCHANGED <<unstoppedVars, stoppedVars, stopping, stopWorker>>

(* The installed runtimes are listed, and a worker is started for each. *)
ShutdownRuntimes ==
  /\ sd.pc = "runtimes"
  /\ sd' = [sd EXCEPT !.pc = "joinStops"]
  /\ stopWorker' = [s \in Session |-> IF runtimes[s] = NoRuntime THEN stopWorker[s]
                                      ELSE Launch(stopWorker[s], runtimes[s])]
  /\ UNCHANGED <<unstoppedVars, stoppedVars, stopping, abortWorker>>

ShutdownJoinStops ==
  /\ sd.pc = "joinStops"
  /\ Joined(stopWorker)
  /\ sd' = [sd EXCEPT !.pc = "watchers", !.ok = @ /\ AllOk(stopWorker)]
  /\ UNCHANGED <<unstoppedVars, stoppedVars, stopping, abortWorker, stopWorker>>

(* The watchers known now are joined ... *)
ShutdownWatchers ==
  /\ sd.pc = "watchers"
  /\ sd' = [sd EXCEPT !.pc = "joinWatchers", !.todo = AliveWatchers]
  /\ UNCHANGED <<unstoppedVars, stoppedVars, stopping, abortWorker, stopWorker>>

(* ... and the last section decides. *)
ShutdownFinish ==
  LET stopped == sd.ok /\ ActiveRuns = {} /\ AliveWatchers = {} IN
  /\ sd.pc = "joinWatchers"
  /\ sd.todo \cap AliveWatchers = {}
  /\ sd' = [sd EXCEPT !.pc = "idle", !.todo = {}, !.done = stopped]
  /\ runtimes' = IF stopped THEN [s \in Session |-> NoRuntime] ELSE runtimes
  /\ abortStarted' = IF stopped THEN {} ELSE abortStarted
  /\ abortWorker' = IF stopped THEN [r \in Run |-> NoWorker] ELSE abortWorker
  /\ stopWorker' = IF stopped THEN [s \in Session |-> NoWorker] ELSE stopWorker
  /\ UNCHANGED <<unstoppedVars, active, states, accepting, signalled, stopping>>

(* The deadline passes at any of the waits: shutdown returns False. *)
ShutdownTimeout ==
  /\ sd.pc # "idle"
  /\ sd.timeouts < MaxTimeouts
  /\ sd' = [sd EXCEPT !.pc = "idle", !.todo = {}, !.timeouts = @ + 1]
  /\ abortWorker' = IF sd.pc \in {"mark", "joinAborts"} THEN DropFailed(abortWorker)
                                                        ELSE abortWorker
  /\ UNCHANGED <<unstoppedVars, stoppedVars, stopping, stopWorker>>

(* The daemon worker of a run calls runtime.abort, which may raise. *)
AbortWorkerRuns(r) ==
  /\ abortWorker[r].state = "running"
  /\ \/ /\ AgentAbort(abortWorker[r].runtime)
        /\ abortWorker' = [abortWorker EXCEPT ![r].state = "ok"]
     \/ /\ "abort" \in Faults
        /\ abortWorker' = [abortWorker EXCEPT ![r].state = "failed"]
        /\ UNCHANGED signalled
  /\ UNCHANGED <<unstoppedVars, runtimes, active, states, abortStarted, accepting, stopping, sd,
                 stopWorker>>

(* The daemon worker of a runtime calls runtime.shutdown: submissions are   *)
(* refused from here on, what runs is told to stop ...                      *)
StopWorkerRuns(s) ==
  /\ stopWorker[s].state = "running"
  /\ accepting' = accepting \ {stopWorker[s].runtime}
  /\ AgentAbort(stopWorker[s].runtime)
  /\ stopWorker' = [stopWorker EXCEPT ![s].state = "joining"]
  /\ UNCHANGED <<unstoppedVars, runtimes, active, states, abortStarted, stopping, sd, abortWorker>>

(* ... and it reports True once its threads ended, False at its timeout.    *)
StopWorkerReturns(s) ==
  /\ stopWorker[s].state = "joining"
  /\ \/ /\ LiveOn(stopWorker[s].runtime) = {}
        /\ stopWorker' = [stopWorker EXCEPT ![s].state = "ok"]
     \/ /\ "stop" \in Faults
        /\ stopWorker' = [stopWorker EXCEPT ![s].state = "failed"]
  /\ UNCHANGED <<unstoppedVars, stoppedVars, stopping, sd, abortWorker>>

-----------------------------------------------------------------------------
ThreadStep(t) ==
  \/ LookupRuntime(t) \/ EnterGate(t) \/ CreateRuntime(t) \/ CreateFails(t)
  \/ InstallRuntime(t) \/ DiscardCreatedRuntime(t)
  \/ CheckReservation(t) \/ FinishAbortedStart(t) \/ EmitAborted(t) \/ CallbackAborted(t)
  \/ RuntimeSubmit(t) \/ RuntimeSubmitFails(t) \/ ReleaseReservation(t)
  \/ PublishRunning(t) \/ StartWatcher(t) \/ WatcherStartFails(t)
  \/ FinishOperation(t) \/ ReleasePop(t) \/ ReleaseBump(t) \/ DisposeDetached(t)
  \/ ReplaceAdmit(t) \/ ReplaceRefused(t) \/ DisposeRefused(t) \/ ReplaceSwap(t)

Request(t, s) ==
  \/ SubmitAdmit(t, s) \/ EnsureStart(t, s) \/ SideQuestionStart(t, s)
  \/ ConfigureStart(t, s) \/ RewindStart(t, s) \/ ReleaseStart(t, s) \/ RestorePrepare(t, s)

WatcherStep(r) ==
  WatchTimeout(r) \/ WatchComplete(r) \/ WatcherEmit(r) \/ WatcherCallback(r) \/ WatcherExit(r)

ShutdownPass ==
  \/ ShutdownControls \/ ShutdownSnapshot \/ (\E s \in Session : ShutdownMark(s))
  \/ ShutdownMarked \/ ShutdownJoinAborts \/ ShutdownRuntimes \/ ShutdownJoinStops
  \/ ShutdownWatchers \/ ShutdownFinish

Abort(s) == "abort" \in Ops /\ (AbortRun(s) \/ AbortIdle(s))

(* Nothing is in progress: the server waits for the next request.           *)
AtRest ==
  /\ \A t \in Thread : thr[t].pc = "idle"
  /\ \A r \in Run : runs[r].phase # "live"
  /\ AliveWatchers = {} /\ sd.pc = "idle"
  /\ UNCHANGED vars

Next ==
  \/ \E t \in Thread, s \in Session : Request(t, s)
  \/ \E t \in Thread : ThreadStep(t)
  \/ \E s \in Session : Abort(s) \/ StopWorkerRuns(s) \/ StopWorkerReturns(s)
  \/ \E r \in Run : RunFinishes(r) \/ WatcherStep(r) \/ AbortWorkerRuns(r)
  \/ ShutdownBegin \/ ShutdownPass \/ ShutdownTimeout
  \/ AtRest

Spec == Init /\ [][Next]_vars

-----------------------------------------------------------------------------
(* Fairness. Threads, watchers and daemon workers are scheduled; no request, *)
(* stop or fault is ever owed. That the agent ends what it runs              *)
(* (AgentFairness) is an assumption of the properties that need it.          *)
ThreadFairness ==
  /\ \A t \in Thread : WF_vars(ThreadStep(t)) /\ SF_vars(EnterGate(t))
  /\ \A r \in Run : WF_vars(WatcherStep(r))

AgentFairness == \A r \in Run : WF_vars(RunFinishes(r))

(* A shutdown that was called goes through its pass; nobody owes a call.    *)
ShutdownFairness ==
  /\ WF_vars(ShutdownPass)
  /\ \A s \in Session : WF_vars(StopWorkerRuns(s) \/ StopWorkerReturns(s))
  /\ \A r \in Run : WF_vars(AbortWorkerRuns(r))

FairSpec == Spec /\ ThreadFairness /\ ShutdownFairness

-----------------------------------------------------------------------------
(* Properties *)

(* The threads that are between admission and a started watcher.            *)
Submitting(t) == thr[t].op = "submit" /\ thr[t].pc \notin {"idle", "emit", "callback"}

ThreadRecord == [ pc : ThreadPc, op : AllOps \cup {"none"},
                  session : Session \cup {NoSession}, run : Run \cup {NoRun},
                  epoch : Nat, runtime : RuntimeId \cup {NoRuntime} ]
RunRecord    == [ phase : {"new", "live", "finished"}, session : Session \cup {NoSession},
                  runtime : RuntimeId \cup {NoRuntime}, outcome : Outcomes \cup {"none"} ]
WorkerRecord == [ state : {"none", "running", "joining", "ok", "failed"},
                  runtime : RuntimeId \cup {NoRuntime} ]
PassRecord   == [ pc : ShutdownPc, todo : SUBSET Run, ok : BOOLEAN, timeouts : Nat,
                  done : BOOLEAN ]

AdmissionTypeOK ==
  /\ active \in [Session -> RuntimeState] /\ states \in [Session -> RuntimeState]
  /\ abortStarted \subseteq Run /\ nextRun \in 1..(MaxRuns + 1)
  /\ watcher \in [Run -> WatcherPc]

ControlTypeOK ==
  /\ control \in [Session -> Controls \cup {"none"}] /\ sideQuestions \in [Session -> Nat]
  /\ thr \in [Thread -> ThreadRecord]

RuntimeTypeOK ==
  /\ runtimes \in [Session -> RuntimeId \cup {NoRuntime}] /\ epoch \in [Session -> Nat]
  /\ gate \in [Session -> BOOLEAN] /\ nextRuntime \in 1..(MaxRuntimes + 1)
  /\ accepting \subseteq RuntimeId
  /\ runs \in [Run -> RunRecord] /\ signalled \subseteq Run

ShutdownTypeOK ==
  /\ earlyStops \subseteq Run /\ published \subseteq (Run \X {"idle", "error"})
  /\ stopping \in BOOLEAN /\ sd \in PassRecord
  /\ abortWorker \in [Run -> WorkerRecord] /\ stopWorker \in [Session -> WorkerRecord]

(* Every variable keeps the shape the code gives it. *)
TypeOK == AdmissionTypeOK /\ ControlTypeOK /\ RuntimeTypeOK /\ ShutdownTypeOK

(* submit_stream's reservation makes overbooking impossible although the    *)
(* runtime is created and the run submitted outside the lock.               *)
CapacityRespected == Cardinality(ActiveRuns) <= Capacity

(* An admitted run has exactly one party that will end its reservation: the *)
(* submitting thread until the watcher started, the watcher afterwards.     *)
(* Nobody else's run can be released by a late thread or a stale watcher.   *)
OneOwner ==
  \A s \in Session : Admitted(s) =>
    LET r == active[s].run
        submits(t) == Submitting(t) /\ thr[t].run = r
    IN  IF watcher[r] = "none"
          THEN \E t \in Thread : \A u \in Thread : submits(u) <=> u = t
          ELSE /\ watcher[r] \in {"poll", "errEmit", "errCallback"}
               /\ \A t \in Thread : ~submits(t)

(* What clients poll (_states) never contradicts what admission enforces    *)
(* (_active_by_session), across stops, timeouts, releases and shutdown.     *)
StatesAgree ==
  \A s \in Session : IF Admitted(s) THEN states[s] = active[s]
                     ELSE states[s].status = "idle"

(* A run keeps its slot until its handle really finished, also while it is  *)
(* aborting or timed out: "Entries remain until the underlying handle       *)
(* really finishes".                                                        *)
SlotUntilFinished ==
  \A r \in Run : runs[r].phase = "live" => active[runs[r].session].run = r

(* While a configure, rewind, release or restore holds a session, no run is *)
(* admitted, submitted or unfinished there and no side question is asked.   *)
ControlIsExclusive ==
  \A s \in Session : control[s] # "none" =>
    /\ ~Admitted(s)
    /\ sideQuestions[s] = 0
    /\ \A r \in Run : runs[r].session = s => runs[r].phase # "live"

(* A stop that lands while the session has no runtime yet is always seen by *)
(* the admitting thread: the run never reaches the agent.                   *)
EarlyStopNeverRuns == \A r \in earlyStops : runs[r].phase = "new"

(* A run is submitted only to the runtime its session has installed, never  *)
(* to one a release, a replacement or a lost creation race detached.        *)
SubmitsToInstalled ==
  \A t \in Thread : thr[t].pc \in {"submit", "publish", "watch"} =>
    runtimes[thr[t].session] = thr[t].runtime

(* A runtime that is installed or in the hands of a thread that will        *)
(* install or dispose of it is not forgotten.                               *)
Kept(x) ==
  \/ \E s \in Session : runtimes[s] = x
  \/ \E t \in Thread : /\ thr[t].runtime = x
                       /\ thr[t].pc \in {"install", "discard", "prepared", "refused",
                                         "swap", "bump", "dispose"}

(* No runtime that takes work is forgotten: no GA agent is leaked.          *)
NoRuntimeLeak == \A x \in accepting : Kept(x)

(* Once shutdown returned True nothing the coordinator owned is left: no    *)
(* run, no watcher, no installed runtime, and a runtime still in a          *)
(* creator's hands is on its way to be discarded.                           *)
ShutdownIsComplete ==
  sd.done => /\ ActiveRuns = {} /\ AliveWatchers = {}
             /\ \A r \in Run : runs[r].phase # "live"
             /\ \A s \in Session : runtimes[s] = NoRuntime
             /\ \A x \in accepting : \E t \in Thread :
                  /\ thr[t].runtime = x
                  /\ thr[t].pc \in {"install", "discard", "prepared", "refused"}

(* An installed runtime is only ever taken away by a release, a replacement *)
(* or the end of shutdown: a racing creation cannot overwrite it.           *)
InstallNeverOverwrites ==
  [][\A s \in Session :
       runtimes[s] # NoRuntime /\ runtimes'[s] # runtimes[s]
       => control[s] \in {"release", "restore"} \/ sd'.done]_vars

(* A stop is settled in bounded steps even if the agent never reacts: the   *)
(* run completes or its abort times out.                                    *)
StopSettles ==
  \A r \in Run :
    (\E s \in Session : active[s].run = r /\ active[s].status = "aborting")
      ~> ~(\E s \in Session : active[s].run = r /\ active[s].status = "aborting")

(* If runs end, an admitted run gives its slot back whatever fails on the   *)
(* way, so capacity is never lost.                                          *)
SlotComesBack ==
  AgentFairness =>
    \A r \in Run : (\E s \in Session : active[s].run = r)
                     ~> ~(\E s \in Session : active[s].run = r)

-----------------------------------------------------------------------------
(* The inductive invariant behind the safety properties above. *)

(* What the program counter of a thread says about its locals. *)
ShapeOf(x) ==
  /\ x.pc # "idle" => x.session \in Session
  /\ x.pc = "idle" => x.op = "none"
  /\ x.op = "submit" => x.run \in Run
  /\ x.pc \in {"settle", "emit", "callback", "submit", "publish", "watch"}
       => x.op = "submit"
  /\ x.pc \in {"pop", "bump"} => x.op = "release"
  /\ x.pc \in {"prepared", "refused", "swap"} => x.op = "restore"
  /\ x.pc = "dispose" => x.op \in {"release", "restore"}

Shape == \A t \in Thread : ShapeOf(thr[t])

(* An entry of _active_by_session carries a run id; without one it is absent. *)
SlotShape ==
  \A s \in Session : IF Admitted(s) THEN active[s].status # "idle"
                                    ELSE active[s] = IdleState

(* A thread whose operation was admitted as an exclusive control holds the   *)
(* session's slot, alone; the slot excludes runs and side questions.        *)
Holds(t) == thr[t].op \in Controls /\ thr[t].pc \notin {"prepared", "refused"}

ControlHeld ==
  /\ \A t \in Thread : Holds(t) => control[thr[t].session] = thr[t].op
  /\ \A t, u \in Thread : Holds(t) /\ Holds(u) /\ thr[t].session = thr[u].session => t = u
  /\ \A s \in Session : control[s] # "none" => ~Admitted(s) /\ sideQuestions[s] = 0

(* A run's watcher still has the slot to free. *)
Watched(r) == watcher[r] \in {"poll", "errEmit", "errCallback"}

(* Submitting threads and watchers own the reservation of their run: the     *)
(* branches of the code for a reservation that vanished are never taken.    *)
ThreadsOwn ==
  \A t \in Thread : Submitting(t) =>
    /\ thr[t].run < nextRun /\ Owns(t) /\ watcher[thr[t].run] = "none"
    /\ thr[t].pc \in {"publish", "watch"} => runs[thr[t].run].session = thr[t].session

OneSubmitter ==
  \A t, u \in Thread : Submitting(t) /\ Submitting(u) /\ thr[t].run = thr[u].run => t = u

WatchersOwn ==
  \A r \in Run : /\ r >= nextRun => watcher[r] = "none"
                 /\ Watched(r) => runs[r].session \in Session /\ Watches(r)

(* Every slot has its owner, and no two slots hold the same run. *)
SlotsOwned ==
  \A s \in Session : Admitted(s) =>
    \/ Watched(active[s].run)
    \/ \E t \in Thread : Submitting(t) /\ thr[t].run = active[s].run

SlotsDistinct ==
  \A s1, s2 \in Session : Admitted(s1) /\ active[s1].run = active[s2].run => s1 = s2

Ownership == ThreadsOwn /\ OneSubmitter /\ WatchersOwn /\ SlotsOwned /\ SlotsDistinct

(* Whoever owns the run also keeps it while it is live, if watchers start.   *)
LiveIsOwned ==
  \A r \in Run : runs[r].phase = "live" =>
    \/ Watched(r)
    \/ \E t \in Thread : thr[t].pc \in {"publish", "watch"} /\ thr[t].run = r

CoordinatorInv == TypeOK /\ Shape /\ SlotShape /\ StatesAgree /\ ControlHeld /\ Ownership

(* The runtime map is guarded by three things: creators of a session queue   *)
(* at its gate, exclusive controls keep runs out, and the epoch makes a      *)
(* creation that was overtaken by a replacement stale.                       *)
Creating(t) == thr[t].pc \in {"build", "install", "discard"}

GateHeld ==
  /\ \A t \in Thread : Creating(t) => gate[thr[t].session]
  /\ \A t, u \in Thread : Creating(t) /\ Creating(u) /\ thr[t].session = thr[u].session
                            => t = u

(* A creator whose epoch is still the session's finds nothing installed.     *)
CreatorCurrent(t) ==
  LET s == thr[t].session IN
  /\ thr[t].pc \in {"gate", "build", "install"} => thr[t].epoch <= epoch[s]
  /\ thr[t].pc \in {"build", "install"} /\ thr[t].epoch = epoch[s] => runtimes[s] = NoRuntime
  /\ thr[t].pc \in {"install", "prepared", "swap"} => thr[t].runtime # NoRuntime

CreatorsCurrent == \A t \in Thread : CreatorCurrent(t)

(* A submit that has its runtime has the installed one, and the session of a *)
(* watched run keeps one.                                                    *)
HasRuntime(t) == thr[t].op = "submit" /\ thr[t].pc \in {"ready", "submit", "publish", "watch"}

RuntimesKept ==
  /\ \A t \in Thread : HasRuntime(t) => /\ runtimes[thr[t].session] = thr[t].runtime
                                        /\ thr[t].runtime # NoRuntime
  /\ \A r \in Run : Watched(r) => runtimes[runs[r].session] # NoRuntime

(* A run is new until its thread submits it, and an early stop is seen by    *)
(* that thread before it does.                                               *)
NewUntilSubmitted ==
  /\ \A r \in Run : r >= nextRun => runs[r].phase = "new"
  /\ \A t \in Thread : Submitting(t) /\ thr[t].pc \notin {"publish", "watch"}
                         => runs[thr[t].run].phase = "new"

EarlyStopsSeen ==
  /\ EarlyStopNeverRuns
  /\ \A r \in earlyStops : r < nextRun
  /\ \A t \in Thread : Submitting(t) /\ thr[t].run \in earlyStops =>
       /\ thr[t].pc \notin {"submit", "publish", "watch"}
       /\ active[thr[t].session].status # "starting"

RuntimeInv == GateHeld /\ CreatorsCurrent /\ RuntimesKept /\ NewUntilSubmitted /\ EarlyStopsSeen

(* Shutdown got past its wait for the controls: none is held, none admitted. *)
Quiet == stopping /\ \A s \in Session : ControlFree(s)

(* From its list of the installed runtimes on, a pass has a worker for each; *)
(* a worker that reported refused its runtime's submissions first.           *)
WorkersStop ==
  /\ \A s \in Session : stopWorker[s].state # "none" =>
       Quiet /\ stopWorker[s].runtime = runtimes[s] /\ runtimes[s] # NoRuntime
  /\ \A s \in Session : stopWorker[s].state \in {"joining", "ok", "failed"}
                          => runtimes[s] \notin accepting
  /\ sd.pc = "joinStops" =>
       \A s \in Session : runtimes[s] # NoRuntime => stopWorker[s].state # "none"
  /\ sd.pc \in {"watchers", "joinWatchers"} /\ sd.ok =>
       \A s \in Session : runtimes[s] # NoRuntime => stopWorker[s].state = "ok"

PassOrder ==
  /\ sd.pc # "idle" => stopping
  /\ sd.pc \notin {"idle", "controls"} \/ sd.done => Quiet
  /\ sd.done => /\ sd.pc = "idle" /\ ActiveRuns = {} /\ AliveWatchers = {}
                /\ \A s \in Session : runtimes[s] = NoRuntime

(* Nobody knows a runtime before the factory returned it.                    *)
FactoryOrder ==
  /\ \A s \in Session : runtimes[s] < nextRuntime
  /\ \A t \in Thread : thr[t].runtime < nextRuntime

ShutdownInv == WorkersStop /\ PassOrder /\ FactoryOrder

=============================================================================
