--------------------------- MODULE ScheduledChats ---------------------------
(***************************************************************************)
(* ScheduledChatService: one-shot chats that a user schedules for later.   *)
(* Requests create and cancel them under the service's lock; one worker    *)
(* thread claims what is due, submits it outside the lock through          *)
(* SessionLifecycle._dispatch_scheduled_chat and records the outcome.      *)
(* Every change is written to scheduled_chats.json by an atomic replace,   *)
(* which may fail; the process may die between any two steps, and what the *)
(* next process knows is what it can read of the file.                     *)
(***************************************************************************)
EXTENDS Naturals

None == "none"

CONSTANTS Chat,           \* the chats users schedule
          Worker,         \* bound: worker threads start() creates in one process
          Retry,          \* retry_seconds, in ticks
          MaxTime,        \* bound: the last tick, standing for all later ones
          MaxRestarts,    \* bound: processes after the first
          MaxSaveErrors,  \* bound: failing writes of the file
          MaxRefusals     \* bound: submissions that fail or lose their answer

ASSUME ScheduledAssumption ==
  /\ None \notin Chat /\ None \notin Worker
  /\ Retry \in Nat /\ MaxTime \in Nat /\ MaxRestarts \in Nat
  /\ MaxSaveErrors \in Nat /\ MaxRefusals \in Nat

VARIABLES
  clock,       \* self._clock()
  tasks,       \* self._tasks: per chat, status and retry_at or scheduled_for
  disk,        \* scheduled_chats.json
  thread,      \* self._thread, None or a worker
  worker,      \* per worker thread: pc, due ids still to visit, the claimed chat
  stop,        \* self._stop
  wake,        \* self._wake
  phase,       \* the lifespan: down, up, or joining the thread in shutdown()
  restarts, saveErrors, refusals,   \* what the bounds count
  submitted,   \* history: runs the coordinator accepted, per chat
  lostAcks,    \* history: accepted submissions whose record was lost, per chat
  named,       \* history: ids drawn by create
  created,     \* history: chats whose create was answered with success
  cancelled,   \* history: chats whose cancel was answered with success
  dropped,     \* history: chats a failing cancel or a skipped model binding ended
  missed,      \* history: chats this process does not know, its _load having failed
  unseen       \* history: confirmed chats that no sweep has looked for yet

serviceVars == <<tasks, disk, saveErrors>>
threadVars == <<thread, worker, stop, wake, phase>>
ledgerVars == <<submitted, lostAcks, named, created, cancelled, dropped>>
historyVars == <<ledgerVars, missed, unseen>>
vars == <<clock, serviceVars, threadVars, restarts, refusals, historyVars>>

Absent == [status |-> "absent", due |-> 0]
Idle == [pc |-> "new", due |-> {}, chat |-> None]
Status == {"absent", "pending", "dispatching", "sent", "cancelled"}

Later(d) == IF clock + d < MaxTime THEN clock + d ELSE MaxTime
Alive(w) == worker[w].pc \notin {"new", "exited"}

\* _save_locked: the whole table replaces the file, or the write raises.
Save == disk' = tasks' /\ UNCHANGED saveErrors
SaveRaises == saveErrors < MaxSaveErrors /\ saveErrors' = saveErrors + 1 /\ UNCHANGED disk

SetStatus(k, s) == tasks' = [tasks EXCEPT ![k].status = s]

-----------------------------------------------------------------------------
(* Requests.                                                               *)

Create(k) ==
  /\ k \notin named /\ named' = named \cup {k}
  /\ \E t \in clock + 1..MaxTime : tasks' = [tasks EXCEPT ![k] = [status |-> "pending", due |-> t]]
  /\ \/ Save /\ wake' = TRUE /\ created' = created \cup {k} /\ unseen' = unseen \cup {k}
     \/ SaveRaises /\ UNCHANGED <<wake, created, unseen>>
  /\ UNCHANGED <<clock, thread, worker, stop, phase, restarts, refusals,
                 submitted, lostAcks, cancelled, dropped, missed>>

\* Mutant: any chat that was not sent can be cancelled.
CancelAnytime(k) ==
  /\ tasks[k].status \in {"pending", "dispatching"}
  /\ SetStatus(k, "cancelled")
  /\ Save /\ wake' = TRUE /\ cancelled' = cancelled \cup {k} /\ UNCHANGED dropped
  /\ UNCHANGED <<clock, thread, worker, stop, phase, restarts, refusals,
                 submitted, lostAcks, named, created, missed, unseen>>

Cancel(k) ==
  /\ tasks[k].status = "pending"
  /\ SetStatus(k, "cancelled")
  /\ \/ Save /\ wake' = TRUE /\ cancelled' = cancelled \cup {k} /\ UNCHANGED dropped
     \/ SaveRaises /\ dropped' = dropped \cup {k} /\ UNCHANGED <<wake, cancelled>>
  /\ UNCHANGED <<clock, thread, worker, stop, phase, restarts, refusals,
                 submitted, lostAcks, named, created, missed, unseen>>

-----------------------------------------------------------------------------
(* The worker thread.                                                      *)

Go(w, pc) == worker' = [worker EXCEPT ![w].pc = pc]
Claimed(w) == worker[w].chat

\* _run, testing the stop event.
RunTop(w) ==
  /\ worker[w].pc = "top"
  /\ Go(w, IF stop THEN "exited" ELSE "clear")
  /\ UNCHANGED <<clock, serviceVars, thread, stop, wake, phase, restarts, refusals, historyVars>>

\* wake.clear(), after the test and before the sweep.
RunClear(w) ==
  /\ worker[w].pc = "clear"
  /\ wake' = FALSE
  /\ Go(w, "sweep")
  /\ UNCHANGED <<clock, serviceVars, thread, stop, phase, restarts, refusals, historyVars>>

\* run_due_once, collecting the ids that are due.
Sweep(w) ==
  /\ worker[w].pc = "sweep"
  /\ LET due == {k \in Chat : tasks[k].status = "pending" /\ tasks[k].due <= clock}
     IN  worker' = [worker EXCEPT ![w] = [pc |-> "claim", due |-> due, chat |-> @.chat]]
  /\ unseen' = {}
  /\ UNCHANGED <<clock, serviceVars, thread, stop, wake, phase, restarts, refusals, ledgerVars, missed>>

SweepDone(w) ==
  /\ worker[w].pc = "claim" /\ worker[w].due = {}
  /\ Go(w, "wait")
  /\ UNCHANGED <<clock, serviceVars, thread, stop, wake, phase, restarts, refusals, historyVars>>

\* On to the next id, or out of the sweep by an exception.
NextId(w) == worker' = [worker EXCEPT ![w].pc = "claim", ![w].chat = None]
LeaveSweep(w) == worker' = [worker EXCEPT ![w] = [pc |-> "wait", due |-> {}, chat |-> None]]

\* Mutant: the chat is recorded as sent before it is submitted.
ClaimStatusSent == "sent"

\* The status under which a chat is claimed.
ClaimStatus == "dispatching"

\* Claiming one of them; a write that raises ends the sweep, the claim standing.
Claim(w, k) ==
  /\ worker[w].pc = "claim" /\ k \in worker[w].due
  /\ \/ /\ tasks[k].status # "pending"
        /\ worker' = [worker EXCEPT ![w].due = @ \ {k}]
        /\ UNCHANGED serviceVars
     \/ /\ tasks[k].status = "pending"
        /\ SetStatus(k, ClaimStatus)
        /\ \/ /\ Save
              /\ worker' = [worker EXCEPT ![w] = [pc |-> "submit", due |-> @.due \ {k}, chat |-> k]]
           \/ SaveRaises /\ LeaveSweep(w)
  /\ UNCHANGED <<clock, thread, stop, wake, phase, restarts, refusals, historyVars>>

\* validate_attachments and _dispatch_scheduled_chat.  The coordinator accepts
\* the run, or it refuses; after it accepted, recording the session as touched
\* may still raise; an unconfirmed model binding returns without submitting.
Submit(w) ==
  /\ worker[w].pc = "submit"
  /\ \/ /\ submitted' = [submitted EXCEPT ![Claimed(w)] = @ + 1]
        /\ Go(w, "sent")
        /\ UNCHANGED <<refusals, lostAcks, dropped>>
     \/ /\ refusals < MaxRefusals /\ refusals' = refusals + 1
        /\ submitted' = [submitted EXCEPT ![Claimed(w)] = @ + 1]
        /\ lostAcks' = [lostAcks EXCEPT ![Claimed(w)] = @ + 1]
        /\ Go(w, "defer")
        /\ UNCHANGED dropped
     \/ /\ refusals < MaxRefusals /\ refusals' = refusals + 1
        /\ Go(w, "defer")
        /\ UNCHANGED <<submitted, lostAcks, dropped>>
     \/ /\ dropped' = dropped \cup {Claimed(w)}
        /\ Go(w, "sent")
        /\ UNCHANGED <<refusals, submitted, lostAcks>>
  /\ UNCHANGED <<clock, serviceVars, thread, stop, wake, phase, restarts,
                 named, created, cancelled, missed, unseen>>

Defer(w) ==
  LET k == Claimed(w) IN
  /\ worker[w].pc = "defer"
  /\ IF tasks[k].status = "dispatching"
     THEN /\ tasks' = [tasks EXCEPT ![k] = [status |-> "pending", due |-> Later(Retry)]]
          /\ \/ Save /\ NextId(w)
             \/ SaveRaises /\ LeaveSweep(w)
     ELSE NextId(w) /\ UNCHANGED serviceVars
  /\ UNCHANGED <<clock, thread, stop, wake, phase, restarts, refusals, historyVars>>

\* Mutant: the outcome is recorded in memory and the file is not written.
MarkSentUnsaved(w) ==
  /\ worker[w].pc = "sent"
  /\ SetStatus(Claimed(w), "sent")
  /\ NextId(w)
  /\ UNCHANGED <<clock, disk, saveErrors, thread, stop, wake, phase, restarts, refusals,
                 historyVars>>

MarkSent(w) ==
  LET k == Claimed(w) IN
  /\ worker[w].pc = "sent"
  /\ IF tasks[k].status = "dispatching"
     THEN /\ SetStatus(k, "sent")
          /\ \/ Save /\ NextId(w) /\ UNCHANGED lostAcks
             \/ /\ SaveRaises /\ LeaveSweep(w)
                /\ lostAcks' = [lostAcks EXCEPT ![k] = @ + 1]
     ELSE NextId(w) /\ UNCHANGED <<serviceVars, lostAcks>>
  /\ UNCHANGED <<clock, thread, stop, wake, phase, restarts, refusals,
                 submitted, named, created, cancelled, dropped, missed, unseen>>

\* wake.wait(poll_seconds): woken, or the poll period is over.
Wait(w) ==
  /\ worker[w].pc = "wait"
  /\ Go(w, "top")
  /\ UNCHANGED <<clock, serviceVars, thread, stop, wake, phase, restarts, refusals, historyVars>>

Step(w) ==
  \/ RunTop(w) \/ RunClear(w) \/ Sweep(w) \/ SweepDone(w) \/ Submit(w)
  \/ Defer(w) \/ MarkSent(w) \/ Wait(w)
  \/ \E k \in Chat : Claim(w, k)

-----------------------------------------------------------------------------
(* start, shutdown and the process.                                        *)

ThreadLives == thread # None /\ Alive(thread)

\* start() by the lifespan; it leaves a thread that is still alive alone.
Start(w) ==
  /\ phase = "down" /\ phase' = "up"
  /\ \/ ThreadLives /\ UNCHANGED <<thread, worker, stop, wake>>
     \/ /\ ~ThreadLives /\ worker[w].pc = "new"
        /\ stop' = FALSE
        /\ thread' = w
        /\ Go(w, "top")
        /\ wake' = TRUE
  /\ UNCHANGED <<clock, serviceVars, restarts, refusals, historyVars>>

\* shutdown() by the lifespan; the bound leaves a way to start again.
ShutdownBegin ==
  /\ phase = "up" /\ phase' = "joining"
  /\ restarts < MaxRestarts \/ \E w \in Worker : worker[w].pc = "new"
  /\ stop' = TRUE /\ wake' = TRUE
  /\ UNCHANGED <<clock, serviceVars, thread, worker, restarts, refusals, historyVars>>

\* The reference is kept while its thread lives.
ThreadAfterJoin == IF ThreadLives THEN thread ELSE None

\* join returns because the thread is gone or because five seconds are over.
ShutdownJoin ==
  /\ phase = "joining" /\ phase' = "down"
  /\ thread' = ThreadAfterJoin
  /\ UNCHANGED <<clock, serviceVars, worker, stop, wake, restarts, refusals, historyVars>>

\* Mutant: an interrupted dispatch is loaded as it was written.
RecoveredAsIs(task) == task

\* _load: a dispatch that was interrupted is scheduled again.
Recovered(task) ==
  IF task.status = "dispatching" THEN [status |-> "pending", due |-> Later(Retry)] ELSE task

Filed == {k \in Chat : disk[k].status # "absent"}

\* _load reads every row and saves what it recovered.
LoadAll ==
  /\ tasks' = [k \in Chat |-> Recovered(disk[k])]
  /\ \/ Save
     \/ disk # tasks' /\ SaveRaises
  /\ missed' = missed \ Filed

\* _load meets a file or a row it cannot read: the exception is logged, what came
\* before the row is known, nothing is saved, and the next save replaces the file.
LoadFails ==
  \E read \in SUBSET Filed :
    /\ tasks' = [k \in Chat |-> IF k \in read THEN Recovered(disk[k]) ELSE Absent]
    /\ missed' = named \ read
    /\ UNCHANGED <<disk, saveErrors>>

\* The process ends, at any moment, and another one loads the file.  A chat
\* whose acceptance was not yet recorded loses that record.
Restart ==
  /\ restarts < MaxRestarts
  /\ restarts' = restarts + 1
  /\ LoadAll \/ LoadFails
  /\ thread' = None /\ stop' = FALSE /\ wake' = FALSE /\ phase' = "down"
  /\ worker' = [w \in Worker |-> Idle]
  /\ lostAcks' = [k \in Chat |->
       IF \E w \in Worker : worker[w].pc = "sent" /\ Claimed(w) = k THEN lostAcks[k] + 1
       ELSE lostAcks[k]]
  /\ unseen' = {}
  /\ UNCHANGED <<clock, refusals, submitted, named, created, cancelled, dropped>>

Tick ==
  /\ clock < MaxTime
  /\ clock' = clock + 1
  /\ UNCHANGED <<serviceVars, threadVars, restarts, refusals, historyVars>>

-----------------------------------------------------------------------------
Init ==
  /\ clock = 0
  /\ tasks = [k \in Chat |-> Absent] /\ disk = tasks
  /\ thread = None /\ worker = [w \in Worker |-> Idle]
  /\ stop = FALSE /\ wake = FALSE /\ phase = "down"
  /\ restarts = 0 /\ saveErrors = 0 /\ refusals = 0
  /\ submitted = [k \in Chat |-> 0] /\ lostAcks = [k \in Chat |-> 0]
  /\ named = {} /\ created = {} /\ cancelled = {} /\ dropped = {}
  /\ missed = {} /\ unseen = {}

Next ==
  \/ \E k \in Chat : Create(k) \/ Cancel(k)
  \/ \E w \in Worker : Step(w) \/ Start(w)
  \/ ShutdownBegin \/ ShutdownJoin \/ Restart \/ Tick

Spec == Init /\ [][Next]_vars

\* The worker thread is scheduled, the poll period ends, time passes; the
\* lifespan starts the service, gives up the join after five seconds, and is
\* followed by another one, in the same process or in a new one.
Fairness ==
  /\ \A w \in Worker : WF_vars(Step(w))
  /\ WF_vars(\E w \in Worker : Start(w))
  /\ WF_vars(ShutdownJoin)
  /\ WF_vars(phase = "down" /\ Restart)
  /\ WF_vars(Tick)

FairSpec == Spec /\ Fairness

-----------------------------------------------------------------------------
(* Properties.                                                             *)

Table == [Chat -> [status : Status, due : 0..MaxTime]]
WorkerPc == {"new", "top", "clear", "sweep", "claim", "submit", "sent", "defer", "wait", "exited"}
WorkerRecord == [pc : WorkerPc, due : SUBSET Chat, chat : Chat \cup {None}]

TypeOK ==
  /\ clock \in 0..MaxTime
  /\ tasks \in Table /\ disk \in Table
  /\ thread \in Worker \cup {None}
  /\ worker \in [Worker -> WorkerRecord]
  /\ stop \in BOOLEAN /\ wake \in BOOLEAN /\ phase \in {"down", "up", "joining"}
  /\ restarts \in 0..MaxRestarts /\ saveErrors \in 0..MaxSaveErrors
  /\ refusals \in 0..MaxRefusals
  /\ submitted \in [Chat -> Nat] /\ lostAcks \in [Chat -> Nat]
  /\ created \subseteq named /\ cancelled \subseteq named /\ dropped \subseteq named
  /\ missed \subseteq named /\ named \subseteq Chat /\ unseen \subseteq Chat

\* A user who was told that a chat is cancelled never sees it run: neither the
\* worker that had already listed it as due nor a process restarted from the
\* file submits it afterwards.
CancelIsFinal ==
  [][\A k \in cancelled : submitted'[k] = submitted[k]]_vars

\* A chat is submitted a second time only when the record of the first was lost:
\* the process died, the write of "sent" failed, or an exception followed the
\* acceptance.  No interleaving of worker, requests and shutdown duplicates it.
DuplicateNeedsLostAck ==
  \A k \in Chat : submitted[k] <= 1 + lostAcks[k]

\* A save that followed a failing load has removed k from the file.
Overwritten(k) == k \in missed /\ disk[k].status = "absent"

\* Whatever the moment the process dies, a chat whose creation was confirmed and
\* that nobody tried to cancel is in the file as something the next process
\* will dispatch, until it was submitted.  The one way to lose it is a _load that
\* cannot read it: the process starts without it, the file still holds it, and
\* the first save of that process takes it away.
KeptUntilSubmitted ==
  \A k \in created \ (cancelled \cup dropped) :
    submitted[k] = 0 => disk[k].status \in {"pending", "dispatching"} \/ Overwritten(k)

\* At most one worker thread sweeps, though shutdown gives up waiting for a slow
\* one and start may be called again ("blanking it would let the next start()
\* spawn a second worker alongside the live one").
OneWorker ==
  \A v, w \in Worker : Alive(v) /\ Alive(w) => v = w

\* A chat confirmed while the worker sweeps is not left for the poll period: the
\* wake that create sets is still set when the worker comes to wait ("a wake set
\* during run_due_once must survive").  create sets it after its lock; a worker
\* that waits by then is woken just the same, so the two are one step here.
WakeSurvives ==
  \A w \in Worker : worker[w].pc = "wait" /\ unseen # {} => wake

\* Every confirmed chat that is not cancelled is eventually submitted, over
\* refusals, restarts and shutdowns, if the file can be written and read, and no
\* lifespan starts while the worker of the last one is still stopping: start()
\* then leaves that worker alone, it exits, and nothing is sent before the next
\* start.
EventuallySubmitted ==
  [](saveErrors = 0 /\ missed = {} /\ ~(phase = "up" /\ stop)) =>
    \A k \in Chat : k \in created ~> (submitted[k] > 0 \/ k \in cancelled \cup dropped)

-----------------------------------------------------------------------------
(* The inductive invariant behind the safety properties.                   *)

\* A worker that is alive is the one self._thread names.
WorkerIsThread == \A w \in Worker : Alive(w) => thread = w

\* A chat a worker is dispatching is marked so for everybody else.
ClaimsHold ==
  \A w \in Worker : worker[w].pc \in {"submit", "sent", "defer"} =>
    /\ Claimed(w) \in Chat
    /\ tasks[Claimed(w)].status = "dispatching"

\* A worker holds the answer to a submission of k that is not recorded yet.
InFlight(k) == \E w \in Worker : worker[w].pc = "sent" /\ Claimed(w) = k

\* Memory and file know no chat that was not named, and memory none that its load
\* missed; what the file calls sent or a confirmed cancellation, memory does too,
\* or it missed it.
FileBehindMemory ==
  \A k \in Chat :
    /\ k \notin named => tasks[k].status = "absent" /\ disk[k].status = "absent"
    /\ k \in missed => tasks[k].status = "absent"
    /\ disk[k].status = "sent" => tasks[k].status = "sent" \/ k \in missed
    /\ k \in cancelled => /\ tasks[k].status = "cancelled" \/ k \in missed
                          /\ disk[k].status = "cancelled" \/ Overwritten(k)

\* Submissions beyond the lost ones: at most one, and then it is in flight,
\* recorded, or of a chat that no process will know again; a record that is in
\* memory only has been counted as lost.
SubmissionsCounted ==
  \A k \in Chat :
    /\ submitted[k] <= 1 + lostAcks[k]
    /\ ~InFlight(k) /\ disk[k].status # "sent" /\ ~Overwritten(k) => submitted[k] <= lostAcks[k]

\* Confirmed chats still to be sent are so in the file, unless overwritten, and in
\* memory, unless missed; an answer in flight means that the chat was submitted
\* or dropped.
StillToSend ==
  /\ \A k \in created \ (cancelled \cup dropped) :
       submitted[k] = 0 => /\ tasks[k].status \in {"pending", "dispatching"} \/ k \in missed
                           /\ disk[k].status \in {"pending", "dispatching"} \/ Overwritten(k)
  /\ \A k \in Chat : InFlight(k) => submitted[k] > 0 \/ k \in dropped

\* From the moment a sweep has looked, the wake of a later create stands.
WakeHeld ==
  \A w \in Worker :
    worker[w].pc \in {"claim", "submit", "sent", "defer", "wait"} /\ unseen # {} => wake

ScheduledInv ==
  /\ TypeOK /\ WorkerIsThread /\ ClaimsHold /\ FileBehindMemory
  /\ SubmissionsCounted /\ StillToSend /\ WakeHeld
=============================================================================
