# GA-Hub in TLA+

TLA+ models of GA-Hub, the TLC configurations that check them on small
instances, and theorems about them that TLAPS proves for every instance.

    tlc -workers 2 -config EventFeed.cfg MCEventStream
    tlapm --threads 2 EventStreamProofs.tla

Every definition is written from the source. `PROJECT.json` maps it to the lines
it stands for, lists the runs with their properties and mutants, the hazards the
code is exposed to, and the theorems. Control is kept (guards, early returns,
error paths, the order of steps); data is abstracted to what the properties tell
apart: a text, a prompt, a file or a model name is a member of a small set.

1. [The system](#1-the-system)
2. [The session coordinator](#2-the-session-coordinator)
3. [The event stream](#3-the-event-stream)
4. [Scheduled chats](#4-scheduled-chats)
5. [The chat page: drafts, submissions, transcript](#5-the-chat-page)
6. [The other pages](#6-the-other-pages)
7. [The desktop shell](#7-the-desktop-shell)
8. [Runs, bounds and fairness at a glance](#8-runs-bounds-and-fairness)
9. [What is proved, and how](#9-what-is-proved)
10. [Where code and text disagree](#10-where-code-and-text-disagree)
11. [What is only model-checked, and what is not modelled](#11-limits)

## 1. The system

GA-Hub is a Python server (FastAPI, one process, many threads) around
GenericAgent runtimes, a browser UI (TypeScript) and a desktop shell (Rust,
Tauri) that owns the server process.

A route or a channel calls the *session coordinator*, which drives one runtime
per session and announces state changes on the *event bus*. The browser follows
the bus through a resumable cursor and folds what it reads, together with the
answers to its own requests, into its stores and pages. *Scheduled chats* and the
scheduler domains are further callers of the coordinator. The *desktop shell*
starts the server, watches it, restarts it and ends it, and owns the windows in
which questions are asked.

| Part of the code | Module | Proofs |
|---|---|---|
| `session_coordinator.py`, the restore route of `routes/conversations.py`, what the coordinator sees of a runtime | `SessionCoordinator` | `SessionCoordinatorSlots`, `SessionCoordinatorProofs` |
| `event_bus.py`, `event_cursor.py`, `routes/events.py`, `hubEventClient.ts`, `managedJsonSocket.ts` | `EventStream`; its promise `OrderedFeed`; its invariant `EventInvariants` | `EventBusProofs`, `EventWireProofs`, `EventStreamProofs` |
| `scheduled_chat_service.py`, `session_lifecycle.py` | `ScheduledChats` | `ScheduledChatsProofs` |
| `draftStore.ts` | `Drafts`; its promise `Custody` | `DraftsProofs` |
| `LiveChat.tsx` and its hooks | `LiveChat` (over `Drafts`) | |
| `chatStore.ts` and what the session routes send it | `ChatTranscript` (merges), `ChatServer`, `ChatStore` | |
| `main.rs`, `DesktopRuntimeGate.tsx`, `backendRestart.ts` | `Sidecar` | `SidecarProofs` |
| `message_dialog.rs`, `dialogStore.ts`, `useDesktopNotifyEffects.ts` | `MessageDialogs` | |
| `conductorStore.ts`, `Conductor.tsx` | `Conductor` | |
| `ImagePasteInput.tsx` | `Composer` | |
| `SessionRail.tsx` | `SessionRail` | |
| `assets/remote_access` (`remote-app.js`, `gateway.py`, ...) | `RemoteApp` | |
| `MyKey.tsx`, `mykey_service.py` | `MyKey` | |
| `Conversations.tsx`, `routes/conversations.py` | `Conversations` | |
| `Tasks.tsx`, `scheduler_domain_base.py` | `Tasks` | |
| `navPreferenceStore.ts`, `routes/preferences.py` | `NavPreferences` | |
| `Memory.tsx`, `routes/memory.py` | `Memory` | |
| `GoalHive.tsx`, `goalhive_service.py` | `GoalHive` | |
| `ThemeTasks.tsx`, `ThemeTaskHistory.tsx` | `ThemeTasks`, `ThemeHistory` | |

The instances are in `MCSessionCoordinator`, `MCEventStream`, `MCScheduledChats`,
`MCChatStore`, `MCLiveChat`, `MCPages` (twelve pages, one per behaviour) and
`MCDesktop` (`Sidecar` and `MessageDialogs` together).

Conventions. A step is what the code does without letting another actor in: a
lock section, a callback, the code between two awaits. A request whose guard
fails raises without changing anything and has no step. What may fail is named
by a constant (`Faults`) or counted by a budget. A page's budget says how often
each kind of event may happen in one behaviour; an *opening* is what a page finds
when it is mounted, with a budget. Operators whose name ends in `_Something`, or
that stand next to the one they vary, are slips a programmer could make; a run
fails when one of them replaces the definition it is named after, and nothing
else uses them.

## 2. The session coordinator

`SessionCoordinator.tla` models `session_coordinator.py` in full, and the restore
route of `routes/conversations.py` that prepares a runtime for `replace_runtime`.

**State.** One variable per table of the class: `runtimes` is `_runtimes`,
`active` is `_active_by_session`, `states` is `_states`, `control` is
`_exclusive_controls`; `sideQuestions`, `epoch`, `gate`, `abortStarted`,
`stopping` and `watcher` are the tables of the same meaning; `sd`, `abortWorker`
and `stopWorker` are a shutdown in progress and its daemon workers. `thr` holds
the program counter and locals of the request threads. `runs`, `signalled` and
`accepting` are what a runtime (agent service) knows. `earlyStops`
and `published` only record history.

**Steps.** A step is one `with self._lock` section or one call made outside it:
the runtime factory, `runtime.submit`, the state-change callback, a runtime's
`shutdown`. Between steps every other thread may move.

| Code | Actions |
|---|---|
| `submit_stream` | `SubmitAdmit`, then `LookupRuntime` to `InstallRuntime`, `CheckReservation`, `RuntimeSubmit` or `RuntimeSubmitFails`, `PublishRunning`, `StartWatcher` or `WatcherStartFails`; `ReleaseReservation` on the error path; `FinishAbortedStart`, `EmitAborted`, `CallbackAborted` for a start that was stopped |
| `_runtime_for_session` | `LookupRuntime`, `EnterGate`, `CreateRuntime`, `CreateFails`, `InstallRuntime`, `DiscardCreatedRuntime` |
| `ensure_runtime`, `side_question`, `configure_if_idle`, `rewind` | their `...Start` action and `FinishOperation` |
| `release_runtime` | `ReleaseStart`, `ReleasePop`, `ReleaseBump`, `DisposeDetached` |
| restore route and `replace_runtime` | `RestorePrepare`, `ReplaceAdmit` or `ReplaceRefused`, `DisposeRefused`, `ReplaceSwap`, `DisposeDetached` |
| `abort_if_current`, `abort` | `AbortRun`, `AbortIdle` |
| `_watch_completion` | `WatchTimeout`, `WatchComplete`, `WatcherEmit`, `WatcherCallback`, `WatcherExit` |
| `shutdown` and its workers | `ShutdownBegin` to `ShutdownFinish`, `ShutdownTimeout`, `AbortWorkerRuns`, `StopWorkerRuns`, `StopWorkerReturns` |
| a run ends in its agent | `RunFinishes` |

**Abstractions.** A run and a runtime are numbers in the order they are made. A
prompt, a model choice and timestamps are left out; a stream id is the Boolean
"known". A deadline is a step that may come at any moment it is waited for. What
can raise is named in `Faults` (`create`, `submit`, `watcher`, `abort`, `stop`).

**Properties.** `CoordinatorInv` collects what is inductive: types, the tables a
poller may read agree, a control has its session for itself, every reservation
has one owner. `SlotUntilFinished`: a slot is kept until its run has really
finished. `EarlyStopNeverRuns`: a run stopped while its runtime was being created
never reaches the agent. `ControlIsExclusive`, `SubmitsToInstalled`,
`InstallNeverOverwrites`: controls, submissions and creations of one session do
not get in each other's way. `StopSettles`, `SlotComesBack`: a stopped run leaves
the aborting state although its agent never reacts, and if runs end, a slot comes
back whatever fails. `ShutdownIsComplete`: when `shutdown` answered True, nothing
it owned is left.

**Fairness.** Threads, watchers, a shutdown that was called and its daemon
workers are operating-system threads and are scheduled: weak fairness on each
one's next step. The creation gate is a lock other threads may take again and
again, so entering it is strongly fair. No request, stop or fault is ever owed.
`StopSettles` assumes nothing of the agent: it has to hold through the abort
timeout. `SlotComesBack` states its assumption that runs end (`AgentFairness`).

**Behaviours worth knowing.** `release_runtime` pops outside the section that
bumps the epoch, so an `ensure_runtime` may install a runtime built before the
release in between. A stop between the reservation check and `runtime.submit`
finds an idle agent, and the run starts afterwards. The submitting thread may
announce its change after a shutdown that answered True: only watchers are
joined. A runtime's `submit` puts the task before it starts the fan-out thread
(`agent_service.py:697`, `770`); when the thread cannot be started the call raises,
the slot is given back and the agent goes on working on what no handle, watcher or
slot stands for. The runs of the model are those with a handle, and this work is
none of them. A start that was stopped ends with no outcome, where a stopped run ends
`cancelled`. When a watcher thread cannot be started the entry is dropped while
the run is still ending; the theorems that need watchers say so. `shutdown`
answers False at once for a run that is still starting.

## 3. The event stream

`EventStream.tla` composes `EventBus` (`event_bus.py`), the cursor branch of the
`/ws/events` handler (`routes/events.py`) and `HubEventClient` over
`ManagedJsonSocket` in the page. `OrderedFeed.tla` says what the three promise
together: the page is either lost, and handed nothing, or it has joined the log of
one server process at some position and is handed every wanted event after it,
once each and in order; it may be told at any time that it is lost.

**State.** `history`, `evicted`, `loop`, `generation`, `pending` and `scheduled`
are fields of the bus; `posted` holds the callbacks waiting on an event loop, and
`running` the loops that have not ended. `conn` is, per socket, the handler with
its `EventSubscription`; `wire` the frames on their way. `cursor`, `accepting`,
`state`, `ws`, `timer` and `active` are fields of the client. `log`, `joined` and
`delivered` record history, and `epoch` is the uuid of the running process.

**Steps.** A producer's `publish` is one lock section. A callback on the loop
(`DrainDispatch`, `WakeQueue`) is one step, so a batch is handed over at once. A
handler moves from await to await: `SubscribeAfter`, `SendResync`, `SendReplay`,
`SendReplayDone`, `LiveTop`, `LiveGet`, `HandlerEnds`. The page moves from event
to event: `Start`, `Stop`, `ReconnectTimer`, `SocketLost`, `Receive`. Posting the
drain callback after the lock is released is merged with the publication: it
differs only if the loop changed owner between, and then the callback finds its
generation stale. The generation of the client's socket is merged with the
identity of the socket, which `isCurrent` also compares.

**Refinement.** The variables of `OrderedFeed` are variables of `EventStream`, so
the mapping is the identity: `Feed == INSTANCE OrderedFeed`, and
`KeepsThePromise` is `Feed!Spec`. It is checked on `event_feed` and proved in
general (section 9). `NothingStranded` says that what waits for dispatch has a
callback on its way as long as the loop runs; `CatchesUp` that the page is handed
everything once a loop stays and the sockets hold.

**Fairness.** `CatchesUp` assumes that a loop runs its callbacks, that a handler
whose await is over goes on, that the reconnect timer fires and that the browser
delivers what arrived. That sockets stop breaking and a lifespan stays is its
premise (`<>[]Served`), not an assumption.

**Left out.** Subscribers without a cursor (best effort by design, they may see an
event twice), what a queue holds behind its overflow mark (nobody reads it), an
unparsable cursor (the page only sends its own) and ping/pong.

## 4. Scheduled chats

`ScheduledChats.tla` models `scheduled_chat_service.py` with
`SessionLifecycle._dispatch_scheduled_chat`, which submits for it. Listing, row
formats and the checks of a request's fields are left out.

**State.** `tasks` is the table in memory, `disk` is `scheduled_chats.json`;
`thread`, `stop` and `wake` are the fields of the service, `worker` the program
counter and locals of each thread it started, `phase` the lifespan that calls
`start` and `shutdown`. The rest counts and records history; `missed` holds the
chats the running process could not load.

**Steps.** `Create` and `Cancel` are a request each. The worker goes through
`RunTop`, `RunClear`, `Sweep`, then for each due chat `Claim`, `Submit` (no lock
held) and `MarkSent` or `Defer`, then `Wait`. A save succeeds or raises, and each
step says what then stands in memory. `Restart` ends the process between any two
steps and loads the file: `LoadAll` reads every row and saves what it recovered;
`LoadFails` is the exception branch of `_load` ("unreadable; starting empty"), where
the process knows the rows before the one it could not read, or none, saves nothing,
and its next save replaces the file. A submission is accepted, refused, accepted with an
exception afterwards (`store.touch`), or skipped for an unconfirmed model; the
last is recorded as sent by the code and is in `dropped`.

**Properties.** A chat is submitted twice only if the record of the first time was
lost (`DuplicateNeedsLostAck`); the file keeps a confirmed chat until it was
submitted, unless a process that could not load it saved its own table over the file
(`KeptUntilSubmitted`, `Overwritten`; dropping this exception makes TLC find the
loss); a confirmed cancellation is final
(`CancelIsFinal`); what was confirmed is submitted in the end
(`EventuallySubmitted`).

**Fairness.** The worker thread is scheduled and its poll period ends; time
passes; the lifespan starts the service, gives up a join after five seconds and is
followed by another. `EventuallySubmitted` has three premises of its own: the writes
of the file succeed, because a claim whose save raised stays `dispatching` until
the next process; every load reads the file, because a process does not send what it
could not load; and no lifespan starts while the worker of the last one is still
stopping, because `start` then returns with the stop flag set and that worker
exits. All three are behaviours of the code that no sentence of the repository denies.

## 5. The chat page

**Drafts.** `Drafts.tla` is `draftStore.ts`: one draft (text and attachments) per
session key, revisions, and the submissions taken from them. Each of its calls is
an action, and they may come in any order. `Custody.tla` says what the store
promises: a message is in one place at a time; sending moves it out of its draft
whole, it stays until delivered, and it comes back only unchanged and only into an
empty draft. `KeepsCustody` is that refinement (`DraftOf`, `OutboxOf` are the
mapping).

**The page.** `LiveChat.tla` is `LiveChat.tsx` with its hooks: typing, attaching,
sending, scheduling, stopping, creating, selecting, deleting, renaming, model and
project changes and rewinds, with answers that are lost, late or of another
session. Requests carry what they captured, and a newer intent or a navigation
revokes it (`page.holder` and its kin are the sequence numbers and epochs the code
compares). `NothingVanishes`: a text the user gave is in a draft, on its way,
failed and kept, or delivered. The one exception is `trace.mistaken`: a `started`
frame of another window's run adopts the newest pending bubble and releases its
submission (`chatStore.ts:748-763`, `1530-1536`); when the page's own post is then
refused with 409, `submit` finds nothing to give back. `SentOnce`: no submission is posted twice. The page
composes several store calls in one handler (`BeginSubmission` or `MoveSubmission`, then
`BindSubmissionStage`), so the run checks `KeepsCustody` for the page while the theorem is about
the store under any caller.

Two windows share the stored drafts and the last one to write wins
(`chatStore.ts:14-16` speaks of one window); a selection can be answered after the
list that held it has changed; `saveSchedule` may take the selection over when it
creates a session. These are cases the properties leave out by name.

**The transcript.** `ChatTranscript.tla` holds the merges of `chatStore.ts` as
operators over sequences of turns, `ChatServer.tla` what the session routes send
(streams with their retries and continuations, archive pages, run identities),
`ChatStore.tla` the
store: views per session, the socket, the frame throttle, paging, sweeps, staged
messages. `OneTurnPerRun`: a run is one turn however it reaches the page.
`NoForeignBubbles`: nothing of another session is shown. `ShowsEverything`: a page
that has caught up shows all there is. `HistoryInOrder`: older pages stay in order,
without repetition.

The archive drops the control prompts it recognises before it folds a run, so a
retried or continued run is one question and one answer
(`tests/test_retry_projection.py:18-30`). A prompt it does not recognise (`asks`)
stays, and the run is then several items under one `run_id` and `stream_id`.
`ChatServer` has both shapes. In the second, `coalesceArchiveRuns`
(`chatStore.ts:315-321`) keeps the first answer and drops the others, and
`ShowsEverything` claims no more than that for a run read from the archive after it
ended. It also leaves out `ui.early`: runs that a reconnect snapshot settled before
their last frames came (`chatStore.ts:658`), which are then ignored. Left out: aborted, reset and heartbeat frames, frames without a
run identity, adapters without a query and `restoreVisibleConversation`.

## 6. The other pages

The router mounts one page at a time, so `MCPages` gives each behaviour to one
page; its variables stand in `v1`, `v2`, ... in the order the page's module
declares them. A page's module also holds the part of the hub that serves it.

| Module | Property of the run | What it says, and what it leaves out |
|---|---|---|
| `Conductor` | `Converges`, `KeepsTyped`, `ReviewedAsSeen` | Once the stream is drained and nothing is being fetched, the page shows what the hub holds, through engine restarts, gaps and late snapshots (of a deleted task it may keep workers and rows: `forget_workflow` removes them under an unchanged snapshot revision, and the page refuses the list without them); what was typed is in the composer, on its way or with the hub (except what was typed while `requestNewTask` waited for aborts: it sends the older text and empties the box); a worker is accepted only in the version its reviewer saw. The engine behind the routes is external. |
| `Composer` | `FilesAccounted` | Each draft holds exactly the files put there and not removed, once, and never more than fit, whatever uploads and lookups overlap, fail or outlive their box. Uploads pending when a draft is shown anew leave the account. |
| `SessionRail` | `CompletionsShown` | A completion stays marked until it was looked at, and does not come back. Left out: a poll that started before the acknowledgement may bring it back, and two windows overwrite each other's map. |
| `RemoteApp` | `RemoteOnce` | An instruction sent again after a lost answer runs once, a creation confirmed again makes one session, drafts and messages stay with their session. A second confirmation may meet the first still being performed, where the gateway's lock of the entry decides. A run has two questions or answers on the phone only where the archive has (both shapes of section 5). Login and expiry are left out. |
| `MyKey` | `KeysAsSeen` | A proxy save replaces only the value its author started from, an edit of a channel redirects no route, and the page shows the file once all answers are in. What is typed while a proxy save is under way is lost, and of two raw saves the last wins. |
| `Conversations` | `ArchiveWhole` | An import leaves a whole session or none, the list in view is the hub's, no one is left on an empty page, the rounds hold every message once. Set aside: a rollback whose unlink or metadata delete fails (both are only logged), and a copy deleted from the list before it is bound. An import does not refresh the list, and a rename does not invalidate a detail in flight. |
| `Tasks` | `SchedulesFollow` | The page shows what is stored once all has come home; a schedule counts every run it started, whatever older row is saved over it; an enabled one is armed. A change whose `_persist` raised stands in memory: it is announced and armed only with a later one, and its caller was answered with the error. A save of a deleted schedule brings it back. |
| `NavPreferences` | `NavAgrees`, `SavesAccepted` | After the first read the sidebar shows what is stored, and a change made during the read is not undone. `SavesAccepted` fails: section 10. |
| `Memory` | `MemoryAsSeen` | No save overwrites a text its author was not shown. The agent, which takes no lock, can still lose a text between the last check of a save and its reading back. |
| `GoalHive` | `OneVoice` | At most one message is being written and it is the active stream's, through aborts, late ends, dead runners, submissions that fail half-way (`put_task`, a drain that cannot start) and drains that raise. An abort before the runner picked the task up does nothing. |
| `ThemeTasks` | `CardTruthful` | Between runs a card shows the hub's last run, and it never asks for a run while one it asked for goes on, except after a stop that timed out: the state is then `error`, the card takes the run for interrupted and offers another, which the hub refuses. A card taken away and given back has a new lock, and may reappear with an answer from before the run ended. An idle card does not poll and learns of a run started elsewhere when it ends. |
| `ThemeHistory` | `HistoryFaithful` | What is shown at rest is the archive, without a hole and without what a rewind took away, and going back skips no question. Of a run with several answers (section 5), and of one read half-way, the process view shows the first answer as first read. `gap` names the two cases left out; an archive that begins with an answer is left out too. The page budget counts items: the routes the viewers call give no character budget. |

The modules state these in parts, each with its reason beside it.

## 7. The desktop shell

`Sidecar.tla` models the lifecycle of the backend process in `main.rs`: `life` is
the mutex-guarded lifecycle (phase and owned process), `sups`, `workers` and
`closer` the threads that supervise a process, restart it and exit, `gate` the
page's view (`DesktopRuntimeGate.tsx`, `backendRestart.ts`). A thread's step is one
lock section or one blocking call. Leaving is two steps: `AllowExit` sets the flag,
`Leave` is `handle.exit(0)`, which ends every thread where it stands. A process can be
*left*: killed but not gone when the stop gives up (`StopProcess`), dropped by a
restart that got no thread, or in the hands of a thread that `Leave` cut short; its job
or its pipe then ends it (`End`), and nothing waits for that. `OneHolder`: every live
process that was not left has exactly one owner who will stop it, and when the exit is
allowed the slot is empty and stays so. `ReloadsIntoNew`: a page that reloads after a restart never
finds the process the restart claimed. `DeathIsShown`: a backend that died is shown
as lost.

`MessageDialogs.tla` models the queue of questions in `dialogStore.ts`, the native
window and its timers in `message_dialog.rs`, the in-page host and the completion
notices of `useDesktopNotifyEffects.ts`. `DialogsTruthful`: each question gets its
own answer, and each notice says what its own run did. Two exceptions: a request that
`validate` refuses is answered at once, so its in-page dialog may open beside a window
asked for by a page since reloaded; and a last answer without a run id classifies any
run (`!last.run_id`), so a notice may ask for a reply to a question that carries no
run, never to one that carries another's. `MainComesBack`: the main
window does not stay disabled under a window that never comes up.

`MCDesktop` composes them where they meet: closing or leaving shuts the dialogs
down and asks for the exit in one event, and a page loaded anew forgets its
questions.

Behaviours worth knowing: a supervisor's late `request_owned_shutdown` can reach
the process of a completed restart, and a watcher that overlaps a restart can mark
the new process failed, where the comment expects only "one redundant poller";
`lost` is left only by a reload; leaving the program may come before the stop
of a restart is over, and cuts it short. Navigation drops completion lookups in flight; a
run stopped before it began is notified. Throttling, titles and StrictMode are left
out.

## 8. Runs, bounds and fairness

| Run | Instance | Properties |
|---|---|---|
| `coordinator_runs` | 2 sessions, 2 threads, capacity 1, 2 runs, submit, stop, shutdown; runs complete or fail, every fault but the watcher's (symmetric in sessions and threads; 1.1M states) | `CoordinatorInv`, `EarlyStopNeverRuns`, `SlotUntilFinished` |
| `coordinator_controls` | 1 session, 2 threads, every operation, 1 run, 2 runtimes, 2 epochs; creations and submissions fail (186k) | `ControlIsExclusive`, `SubmitsToInstalled`, `InstallNeverOverwrites` |
| `coordinator_live` | 1 session, 2 threads, submit, stop, ensure, shutdown; watchers and aborts fail, one missed deadline (132k) | `StopSettles`, `SlotComesBack`, `ShutdownIsComplete` |
| `event_feed` | 2 topics of which the page wants one, history of 2, queue of 1, batches of 2, 3 events, 2 processes, 2 sockets; sockets break, the page stops, handlers fail (287k) | `KeepsThePromise` |
| `event_lifespan` | 1 topic, history of 2, queue of 1, batches of 1, 2 events, 2 loops and 3 changes of owner, 2 sockets; loops end at any moment (97k) | `NothingStranded`, `CatchesUp` |
| `scheduled_chats` | 2 chats, 2 worker threads per process, 1 restart whose load may fail, 1 failing write, 1 refusal, time 0 to 1 (909k) | `DuplicateNeedsLostAck`, `KeptUntilSubmitted`, `CancelIsFinal`, `EventuallySubmitted` |
| `chat` | 2 sessions, 20 budgets of at most a run or two with their interruptions (146k) | `OneTurnPerRun`, `NoForeignBubbles`, `ShowsEverything`, `HistoryInOrder` |
| `live_chat` | 3 sessions, 3 texts, 3 submissions, 18 scenarios (254k) | `NothingVanishes`, `SentOnce`, `KeepsCustody` |
| `pages` | 12 pages, each with its openings (1.4M) | the fourteen of section 6 |
| `desktop` | 3 processes, openings with 2 crashes, 2 restarts, or an exit during a restart with an incomplete stop; dialogs with 2 questions or 2 runs (451k) | `OneHolder`, `DialogsTruthful`, `ShellRecovers` |
| `restore_leak` | expects a violation of | `NoRuntimeLeak` |
| `nav_refused` | expects a violation of | `SavesAccepted` |

Why the bounds are enough. Every race of the coordinator needs at most two
requests and a third party (a stop, a release, a watcher, the shutdown) on one
session, or two sessions and one slot. Two runs let a slot be taken again after
it was freed, by either session; two runtimes let one be installed and one created
across a release; two epochs let a creation outlive a release and a later
creation. Three events overflow the history and the queue and leave one after the
overflow, the unwanted topic can push a wanted event out, a second socket resumes
from the cursor of the first; three changes of owner let a loop be replaced without
a detach and then be detached. Two scheduled chats give a sweep that is interrupted
between its first and second; the last tick stands for all later ones. The budgets
of the pages put together the events that touch the same state, in pairs or threes;
a budget that has no such pair would only repeat another.

Deadlock is not checked where an instance really may stop: a page's budget is
spent, a bus has published its last event. It is checked for the coordinator.

Fairness is stated with each run's specification: on what an operating system, an
event loop or a browser does by itself, never on what a user, a fault or an agent
does. Sections 2 to 4 give it for the server. On the desktop the shell's own
threads and the page's poll are weakly fair (`Supervise`, `RestartStep`, `Poll`,
`PollArrives`, the dialog's timers and its main thread), as long as the program runs; a crash, a click or an exit never is.

Each property of a passing run has a mutant in `PROJECT.json`: a plausible slip in
one mapped definition under which TLC finds that property violated.

## 9. What is proved

TLAPS checks these for every value of the constants. The assumptions are those of
the modules: positive capacities and lengths, natural bounds, finite sets of
sessions, and a "none" that is no member.

| Theorem | States |
|---|---|
| `Invariance`, `TypeCorrect`, `PollersAgree`, `SingleOwner` | `CoordinatorInv` and its parts |
| `NeverOverbooked` | never more admitted sessions than the capacity |
| `SlotKept`, `ControlsExclude` | `SlotUntilFinished`, `ControlIsExclusive`, if watcher threads can be started |
| `RuntimeInvariance`, `EarlyStopKept`, `SubmitsInstalled`, `NoOverwrite` | `RuntimeInv`, `ShutdownInv`; `EarlyStopNeverRuns`, `SubmitsToInstalled`, `InstallNeverOverwrites` |
| `OneLeak`, `NoLeakWithoutRestore` | the only step that forgets a runtime is the busy-refused restore of `restore_leak` |
| `CompleteShutdown` | `ShutdownIsComplete`, if watchers start and no restore lost a runtime |
| `TypesHold`, `EventsAreDrained`, `MarksAreExact`, `SubscriptionsAreOwned` | the shape of the event stream; `NothingStranded`; exact eviction marks; every lost subscription has a reason to tell |
| `CursorNeverAhead`, `StreamKeepsThePromise` | `CursorHonest`; the refinement `KeepsThePromise` |
| `ScheduledInvariance`, `SingleWorker`, `NoUnexplainedDuplicate`, `NothingForgotten`, `WakeNotLost`, `CancelledStaysQuiet` | the scheduled chats' invariant and all their safety properties, failing loads included |
| `DraftTypes`, `StoreKeepsCustody` | the draft store implements `Custody`, called in any order |
| `SidecarInvariance`, `SingleHolder`, `ReloadedIntoNew` | `SidecarInv` with `ExitEmpties`; `OneHolder`, `ReloadsIntoNew` |

**Coordinator.** That a reservation is given back to the right run depends on who
may still give it back, so `CapacityRespected` or `OneOwner` alone are not
inductive. `CoordinatorInv` says who owns what: `Shape` ties a thread's locals to
its program counter, `SlotShape` says an entry without a run is absent,
`ControlHeld` that a thread inside a control is alone, `Ownership` that every
reservation has an owner (a submitting thread, later a watcher), no run two, and no
run is in two slots. The branches for a reservation that vanished are then
unreachable. Capacity follows by counting: only `SubmitAdmit` adds a slot, under
its guard. `LiveIsOwned` is added for `SlotUntilFinished`. The theorems about
runtimes rest on `RuntimeInv` (creators queue at their session's gate; one whose
epoch is current finds nothing installed; the runtime of a run stays; an early stop
is seen before the submission) and `ShutdownInv` (each wait of a shutdown
establishes what the next relies on). `SessionCoordinatorSlots` proves types, shape
and slots, `SessionCoordinatorProofs` ownership, runtimes and the theorems.

The hypotheses are needed. Without a watcher the code drops the entry while the run
is ending; with a failing watcher and a release, or a restore refused by a run,
something can stay alive after a shutdown that answered True.

**Event stream.** `EventInvariants` states the invariant. `BusInv` is about the
server: `history` and `pending` are the ends of the log without a gap (`Windows`),
the eviction marks are exact (`MarksExact`), the flag `scheduled` is true to the
callbacks (`Scheduled`), a registered subscription belongs to the running loop and
any other carries its reason (`Registered`), and only the current socket has frames
(`OneSocket`). It is inductive by itself and gives `NothingStranded`.

`PageInv` is what the refinement needs. The page sees frames long after they were
sent, so the invariant follows the wire. A *place* is the page's cursor, or a frame
that will set it. `WireInOrder`: from a place to a later one, with no call to start
over between, the wire carries every wanted event between their ids, in order.
`HandlerFollows`: the handler goes on where the wire ends; its replay reaches its
boundary, and as long as its subscription lives, its queue and what waits for
dispatch are exactly what the page lacks after that. `CursorHonest`: the cursor
never lies ahead of what was handed over. When the page then reads an event, the
id is the smallest outstanding one, which is the guard of `Deliver`; `Lose`
and `Join` are the frames that start over and end a replay, and every other step is
a stutter. A full queue and a window that moved on end a subscription with a reason
before anything later is sent, so the promise does not depend on the lengths.

`EventBusProofs` proves `BusInv` step by step, `EventWireProofs` what appending a
frame, reading one, publishing and dispatching do to the conditions of `PageInv`
(none of its lemmas mentions a step), `EventStreamProofs` that each step is one of
those, and the theorems. TLC checked `BusInv` and `PageInv` on both event instances
before they were proved.

**Scheduled chats.** `ScheduledInv`: a live worker is the one `_thread` names
(`WorkerIsThread`), which makes claims exclusive; a claimed chat is marked
`dispatching` (`ClaimsHold`); the file calls nothing sent or cancelled that memory
does not (`FileBehindMemory`); of the submissions not counted as lost at most one
exists, in flight or in the file (`SubmissionsCounted`); `StillToSend` and
`WakeHeld`. A process that could not load a chat knows less than the file, so the
conditions that tie memory to the file set `missed` aside, and a chat that was missed
is either still in the file or `Overwritten`. Steps that touch neither a table nor a claim are `Quiet`.

**Drafts.** `DraftTypeOK` is all the refinement needs; each call of the store is one
of five shapes of step (`MovesTo`): the four of `Custody`, or a stutter.

**Desktop.** `SidecarInv` places every hold: a thread holds a process only where the
code does (`HoldsInPlace`), a supervisor starts once (`StartedOnce`), one restart at
a time has the lifecycle and then its slot is empty (`RestartHasLife`), no process
has two holders and every live one has one (`HeldApart`, `LiveIsHeld`). `ExitEmpties`
says what the exit has secured at each of its steps, up to the empty slot it leaves
behind; no start can fill it again, since `commit_spawn` refuses once the exit has
begun. `GateInv` adds the page.

**How the proofs are written.** One step per action, under it one per conjunct the
action can disturb; frames are grouped. Where a module says `USE ZenonT(30)`, a leaf
goes to Zenon unless it cites `SMTT(60)`: Zenon does the first-order and set
reasoning and the Boolean variables, Z3 arithmetic, records and sequences. A theorem
module extends only what it needs, since tlapm reads all of its context for every
obligation.

## 10. Where code and text disagree

| Run | Sentence | What the trace shows |
|---|---|---|
| `restore_leak` | `conversations.py:397`: "Refused before the swap: the fresh runtime was never installed, so dispose of it" | a busy session raises `AgentBusyError`, which the route does not catch, and the prepared runtime stays alive |
| `nav_refused` | `preferences.py:25`: "navigation preferences must contain every known item exactly once" | the hub's list has no `theme-tasks`; the browser completes every layout with it, so every save is refused with 422 |

## 11. Limits

**Only model-checked.** Liveness is outside what this prover does: `StopSettles`,
`SlotComesBack`, `CatchesUp`, `EventuallySubmitted` and `ShellRecovers` stay with
TLC. So do the properties of `ChatStore`, `LiveChat` and the pages: their states are
sequences merged by folds (`ChatTranscript`), about which an induction over data
would be needed, or budgets and requests of an open-ended page, whose
instances ask for the interleavings and not for the sizes. `DialogsTruthful` is
checked on `desktop` only.

**Not modelled.** The conductor's engine side (`conductor_commands.py`,
`conductor_store.py`, `conductor_recovery.py`, `conductor_workflow.py`,
`conductor_service.py`, the engine process): `Conductor` takes it as a service that
accepts, refuses or loses a command, and of `forget_workflow` keeps what the page
reads. The streams, error retries and auto-continue
inside one runtime: the coordinator sees submit, abort, `run_finished` and shutdown.
The hub's session projection, the scheduler host's restart, session metadata and the
messaging channels. Parsing, rendering, file formats, read-only panels, generated
types and build scripts have no state a later step depends on. `PROJECT.json` lists
every part with its status.
