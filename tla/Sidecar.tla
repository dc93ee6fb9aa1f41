------------------------------- MODULE Sidecar -------------------------------
(***************************************************************************)
(* The desktop shell and its backend process: the lifecycle, supervisor,    *)
(* restart and exit of src-tauri/src/main.rs, and the page that watches it   *)
(* (webui/src/runtime/DesktopRuntimeGate.tsx, utils/backendRestart.ts and   *)
(* the restart button of pages/Settings.tsx).  Every spawned process and     *)
(* every thread has a number; the lifecycle lock makes each call one step.   *)
(***************************************************************************)
EXTENDS Naturals, FiniteSets

CONSTANTS
    MaxSpawns,       \* supervisors, and so processes, over a life of the shell
    SidecarOpenings  \* how often things happen

ASSUME SidecarAssumption == MaxSpawns \in Nat \ {0}

VARIABLES
    life,     \* SidecarLifecycle: the phase and the process in the owner slot
    procs,    \* the processes: "none", "alive", "serving", "left" to end unwatched, "dead"
    exiting,  \* ExitCoordinator, and "left" when the program has ended
    sups,     \* the supervisor threads
    workers,  \* the restart threads, one to each supervisor they start
    closer,   \* the thread that cleans up before the exit
    gate,     \* the page: the gate, and who waits for a restart
    odds      \* how often each thing may still happen

sideVars == <<life, procs, exiting, sups, workers, closer, gate, odds>>

Numbers == 1 .. MaxSpawns
NoProc == 0
Askers == {"gate", "settings"}
Chance(what) == odds[what] > 0
Use(what) == odds' = [odds EXCEPT ![what] = @ - 1]
Lives(p) == p # NoProc /\ procs[p] \in {"alive", "serving"}
Died(ps, p) == IF p = NoProc THEN ps ELSE [ps EXCEPT ![p] = "dead"]
Left(ps, p) == IF p = NoProc \/ ps[p] = "dead" THEN ps ELSE [ps EXCEPT ![p] = "left"]
Thread(at, p) == [at |-> at, proc |-> p]
NoThread == Thread("none", NoProc)
Fresh == [phase |-> "spawning", proc |-> NoProc]
Page(phase) == [phase |-> phase, asked |-> {}, busy |-> [a \in Askers |-> FALSE],
                since |-> [a \in Askers |-> NoProc]]
Boot == Page("starting")
PageGone == Page("closed")

SidecarInit ==
    /\ life = Fresh
    /\ procs = [p \in Numbers |-> "none"]
    /\ exiting = "running"
    /\ sups = [n \in Numbers |-> IF n = 1 THEN Thread("start", NoProc) ELSE NoThread]
    /\ workers = [n \in Numbers |-> NoThread]
    /\ closer = NoThread
    /\ gate = Boot
    /\ odds \in SidecarOpenings

(***************************************************************************)
(* SidecarLifecycle                                                         *)
(***************************************************************************)
SetFailed(l) ==
    IF exiting = "running" /\ l.phase \in {"spawning", "running", "ready"}
    THEN [l EXCEPT !.phase = "failed"] ELSE l
SetReady(l) ==
    IF exiting = "running" /\ l.phase = "running" /\ l.proc # NoProc
    THEN [l EXCEPT !.phase = "ready"] ELSE l
MayCommit_AnyPhase(l) == exiting = "running" /\ l.proc = NoProc

MayCommit(l) == exiting = "running" /\ l.phase = "spawning" /\ l.proc = NoProc
FinishShutdown(l) == IF l.phase = "stopping" THEN [l EXCEPT !.phase = "stopped"] ELSE l
Claimed == [phase |-> "stopping", proc |-> NoProc]

\* stop_owned_process: ask through the pipe, wait, kill the tree, wait again.  A
\* process that is killed and still not gone in time is dropped: Drop repeats the
\* kill where it may and nobody watches any more (cleanup_complete is false).
StopProcess(p) ==
    \/ procs' = Died(procs, p) /\ UNCHANGED odds
    \/ Lives(p) /\ Chance("faults") /\ Use("faults") /\ procs' = Left(procs, p)

(***************************************************************************)
(* The supervisor                                                           *)
(***************************************************************************)
Moved(n, thread) == sups' = [sups EXCEPT ![n] = thread]
Over == Thread("over", NoProc)

\* run_sidecar_supervisor: spawn a process, unless the exit has been asked for.
Spawn(n) ==
    /\ sups[n].at = "start"
    /\ \/ /\ exiting # "running"
          /\ Moved(n, Over) /\ UNCHANGED <<life, procs, odds>>
       \/ /\ exiting = "running"
          /\ Moved(n, Thread("commit", n)) /\ procs' = [procs EXCEPT ![n] = "alive"]
          /\ UNCHANGED <<life, odds>>
       \/ /\ exiting = "running" /\ Chance("faults") /\ Use("faults")
          /\ Moved(n, Thread("explain", NoProc)) /\ UNCHANGED <<life, procs>>
    /\ UNCHANGED <<exiting, workers, closer, gate>>

\* commit_spawn, under the lock with the exit check.
Commit(n) ==
    /\ sups[n].at = "commit"
    /\ IF MayCommit(life)
       THEN /\ life' = [phase |-> "running", proc |-> sups[n].proc]
            /\ Moved(n, Thread("wait", NoProc))
       ELSE Moved(n, Thread("stop", sups[n].proc)) /\ UNCHANGED life
    /\ UNCHANGED <<procs, exiting, workers, closer, gate, odds>>

\* stop_owned_process of a process that could not be committed.
StopOwn(n) ==
    /\ sups[n].at = "stop"
    /\ StopProcess(sups[n].proc)
    /\ Moved(n, Over)
    /\ UNCHANGED <<life, exiting, workers, closer, gate>>

\* wait_http_ready: the exit, the state of the process now in the slot, its answer.
WaitReady(n) ==
    /\ sups[n].at = "wait"
    /\ \/ exiting # "running" /\ Moved(n, Over)
       \/ exiting = "running" /\ ~Lives(life.proc) /\ Moved(n, Thread("fail", NoProc))
       \/ /\ exiting = "running" /\ life.proc # NoProc /\ procs[life.proc] = "serving"
          /\ Moved(n, Thread("serve", NoProc))
    /\ UNCHANGED <<life, procs, exiting, workers, closer, gate, odds>>
WaitTimesOut(n) ==
    /\ sups[n].at = "wait" /\ exiting = "running"
    /\ Chance("timeouts") /\ Use("timeouts")
    /\ Moved(n, Thread("fail", NoProc))
    /\ UNCHANGED <<life, procs, exiting, workers, closer, gate>>

MarkReady(n) ==
    /\ sups[n].at = "serve"
    /\ life' = SetReady(life)
    /\ Moved(n, IF SetReady(life) = life THEN Over ELSE Thread("watch", NoProc))
    /\ UNCHANGED <<procs, exiting, workers, closer, gate, odds>>

\* Not ready in time: mark it, then ask the process in the slot to stop.
MarkFailed(n) ==
    /\ sups[n].at = "fail"
    /\ life' = SetFailed(life)
    /\ Moved(n, IF SetFailed(life) = life THEN Over ELSE Thread("ask", NoProc))
    /\ UNCHANGED <<procs, exiting, workers, closer, gate, odds>>
RequestOwnedShutdown(n) ==
    /\ sups[n].at = "ask"
    /\ procs' \in {Died(procs, life.proc), procs}
    /\ Moved(n, Over)
    /\ UNCHANGED <<life, exiting, workers, closer, gate, odds>>

\* watch_ready_sidecar: stand down when another owner took the process.
Watch(n) ==
    /\ sups[n].at = "watch"
    /\ \/ (exiting # "running" \/ life.proc = NoProc) /\ Moved(n, Over)
       \/ /\ exiting = "running" /\ life.proc # NoProc /\ procs[life.proc] = "dead"
          /\ Moved(n, Thread("report", NoProc))
    /\ UNCHANGED <<life, procs, exiting, workers, closer, gate, odds>>
Report(n) ==
    /\ sups[n].at \in {"report", "explain"}
    /\ life' = SetFailed(life)
    /\ Moved(n, Over)
    /\ UNCHANGED <<procs, exiting, workers, closer, gate, odds>>

(***************************************************************************)
(* The process                                                              *)
(***************************************************************************)
Serve(p) ==
    /\ procs[p] = "alive"
    /\ procs' = [procs EXCEPT ![p] = "serving"]
    /\ UNCHANGED <<life, exiting, sups, workers, closer, gate, odds>>
Crash(p) ==
    /\ Lives(p) /\ Chance("crashes") /\ Use("crashes")
    /\ procs' = [procs EXCEPT ![p] = "dead"]
    /\ UNCHANGED <<life, exiting, sups, workers, closer, gate>>
\* What was left ends by the kill it was sent, its closed job or its closed pipe.
End(p) ==
    /\ procs[p] = "left"
    /\ procs' = [procs EXCEPT ![p] = "dead"]
    /\ UNCHANGED <<life, exiting, sups, workers, closer, gate, odds>>

(***************************************************************************)
(* Restart                                                                  *)
(***************************************************************************)
Unstarted == {n \in Numbers : sups[n].at = "none" /\ workers[n].at = "none"}
Restartable == life.phase \in {"ready", "failed"}

\* The gate when the command or the wait for it fails; Settings only says so.
RestartFailed(g, a) ==
    [g EXCEPT !.busy[a] = FALSE,
              !.phase = IF a = "settings" THEN @ ELSE IF @ = "failed" THEN "failed" ELSE "lost",
              !.asked = IF a = "gate" /\ g.phase \notin {"lost", "failed"} THEN {} ELSE @]

RestartOffered(a) ==
    /\ ~gate.busy[a]
    /\ IF a = "gate" THEN gate.phase \in {"lost", "failed"} ELSE gate.phase = "ready"

\* restart_backend: claim the process and hand it to a thread.
Restart(a) ==
    /\ RestartOffered(a) /\ Unstarted # {} /\ Chance("restarts") /\ Use("restarts")
    /\ \/ /\ exiting = "running" /\ Restartable
          /\ \E n \in Unstarted :
                /\ \A m \in Unstarted : n <= m
                /\ workers' = [workers EXCEPT ![n] = Thread("stop", life.proc)]
                /\ gate' = [gate EXCEPT !.busy[a] = TRUE, !.since[a] = life.proc]
          /\ life' = Claimed
       \/ /\ exiting # "running" \/ ~Restartable
          /\ gate' = RestartFailed(gate, a)
          /\ UNCHANGED <<life, workers>>
    /\ UNCHANGED <<procs, exiting, sups, closer>>

\* The thread cannot be made: the claim is rolled back, and the process dropped,
\* which kills it without waiting.
RestartRefused(a) ==
    /\ RestartOffered(a) /\ Chance("faults") /\ Use("faults")
    /\ exiting = "running" /\ Restartable
    /\ procs' = Left(procs, life.proc)
    /\ life' = SetFailed(Fresh)
    /\ gate' = RestartFailed(gate, a)
    /\ UNCHANGED <<exiting, sups, workers, closer>>

Worked(n, thread) == workers' = [workers EXCEPT ![n] = thread]
StopClaimed(n) ==
    /\ workers[n].at = "stop"
    /\ StopProcess(workers[n].proc)
    /\ Worked(n, Thread("finish", NoProc))
    /\ UNCHANGED <<life, exiting, sups, closer, gate>>
FinishRestart(n) ==
    /\ workers[n].at = "finish"
    /\ life' = FinishShutdown(life)
    /\ Worked(n, Thread("reset", NoProc))
    /\ UNCHANGED <<procs, exiting, sups, closer, gate, odds>>
Reset(n) ==
    /\ workers[n].at = "reset"
    /\ life' = Fresh
    /\ Worked(n, Thread("launch", NoProc))
    /\ UNCHANGED <<procs, exiting, sups, closer, gate, odds>>
Launch(n) ==
    /\ workers[n].at = "launch"
    /\ Worked(n, Over)
    /\ \/ Moved(n, Thread("start", NoProc)) /\ UNCHANGED <<life, odds>>
       \/ Chance("faults") /\ Use("faults") /\ life' = SetFailed(life) /\ UNCHANGED sups
    /\ UNCHANGED <<procs, exiting, closer, gate>>

(***************************************************************************)
(* Exit                                                                     *)
(***************************************************************************)
RequestExit ==
    /\ exiting = "running" /\ Chance("exits") /\ Use("exits")
    /\ exiting' = "cleaning"
    /\ closer' = Thread("claim", NoProc)
    /\ UNCHANGED <<life, procs, sups, workers, gate>>

\* stop_owned: whoever finds another shutdown under way does not wait for it.
ClaimForExit ==
    /\ closer.at = "claim"
    /\ IF life.phase \in {"stopping", "stopped"}
       THEN closer' = Thread("allow", NoProc) /\ UNCHANGED life
       ELSE closer' = Thread("stop", life.proc) /\ life' = Claimed
    /\ UNCHANGED <<procs, exiting, sups, workers, gate, odds>>
StopForExit ==
    /\ closer.at = "stop"
    /\ StopProcess(closer.proc)
    /\ closer' = Thread("finish", NoProc)
    /\ UNCHANGED <<life, exiting, sups, workers, gate>>
FinishExit ==
    /\ closer.at = "finish"
    /\ life' = FinishShutdown(life)
    /\ closer' = Thread("allow", NoProc)
    /\ UNCHANGED <<procs, exiting, sups, workers, gate, odds>>
AllowExit ==
    /\ closer.at = "allow" /\ exiting = "cleaning"
    /\ exiting' = "allowed"
    /\ closer' = Thread("leave", NoProc)
    /\ UNCHANGED <<life, procs, sups, workers, gate, odds>>

\* handle.exit(0): the program ends, and with it every thread where it stands and
\* the page.  A process that a restart or a supervisor still had in hand is left:
\* its job closes with the program (Windows), its pipe does (elsewhere).
Leave ==
    /\ closer.at = "leave"
    /\ exiting' = "left"
    /\ sups' = [n \in Numbers |-> Over] /\ workers' = [n \in Numbers |-> Over] /\ closer' = Over
    /\ procs' = [p \in Numbers |-> IF Lives(p) THEN "left" ELSE procs[p]]
    /\ gate' = PageGone
    /\ UNCHANGED <<life, odds>>

(***************************************************************************)
(* The page                                                                 *)
(***************************************************************************)
\* readiness, as desktop_backend_ready answers it.
Readiness == CASE life.phase = "ready" -> "yes" [] life.phase = "failed" -> "error" [] OTHER -> "no"
Watching == gate.phase \in {"starting", "ready"}

Poll ==
    /\ Watching /\ gate.asked = {}
    /\ gate' = [gate EXCEPT !.asked = {Readiness}]
    /\ UNCHANGED <<life, procs, exiting, sups, workers, closer, odds>>

\* Booting, "yes" opens the page and an error is a failed start; later only an
\* error counts, and what is mounted stays.
PollArrives ==
    /\ Watching
    /\ \E r \in gate.asked :
        gate' = [gate EXCEPT !.asked = {},
                    !.phase = CASE r = "error" -> IF @ = "starting" THEN "failed" ELSE "lost"
                                [] r = "yes" -> "ready"
                                [] OTHER -> @]
    /\ UNCHANGED <<life, procs, exiting, sups, workers, closer, odds>>

\* waitForDesktopRestart, then the page is loaded anew.
WaitRestart(a) ==
    /\ gate.busy[a]
    /\ \/ Readiness = "yes" /\ gate' = Boot
       \/ Readiness = "error" /\ gate' = RestartFailed(gate, a)
    /\ UNCHANGED <<life, procs, exiting, sups, workers, closer, odds>>
WaitRestartTimesOut(a) ==
    /\ gate.busy[a] /\ Readiness = "no" /\ Chance("timeouts") /\ Use("timeouts")
    /\ gate' = RestartFailed(gate, a)
    /\ UNCHANGED <<life, procs, exiting, sups, workers, closer>>

Supervise(n) ==
    \/ Spawn(n) \/ Commit(n) \/ StopOwn(n) \/ WaitReady(n) \/ MarkReady(n) \/ MarkFailed(n)
    \/ RequestOwnedShutdown(n) \/ Watch(n) \/ Report(n)
RestartStep(n) == StopClaimed(n) \/ FinishRestart(n) \/ Reset(n) \/ Launch(n)
ExitStep == ClaimForExit \/ StopForExit \/ FinishExit \/ AllowExit \/ Leave

SidecarNext ==
    \/ \E n \in Numbers : Supervise(n) \/ WaitTimesOut(n) \/ RestartStep(n)
    \/ \E p \in Numbers : Serve(p) \/ Crash(p) \/ End(p)
    \/ \E a \in Askers : Restart(a) \/ RestartRefused(a) \/ WaitRestart(a) \/ WaitRestartTimesOut(a)
    \/ RequestExit \/ ExitStep \/ Poll \/ PollArrives

SidecarSpec == SidecarInit /\ [][SidecarNext]_sideVars

(***************************************************************************)
(* Properties                                                               *)
(***************************************************************************)
Holders(p) ==
    (IF life.proc = p THEN {<<"life", 0>>} ELSE {})
    \cup {<<"supervisor", n>> : n \in {m \in Numbers : sups[m].proc = p}}
    \cup {<<"restart", n>> : n \in {m \in Numbers : workers[m].proc = p}}
    \cup (IF closer.proc = p THEN {<<"exit", 0>>} ELSE {})

\* Every live process has one owner who will stop it: the slot, the supervisor
\* that could not commit it, the restart or the exit that claimed it.  None is
\* lost when a restart resets the lifecycle while an exit claims it
\* (commit_spawn, begin_shutdown, reset).  A process leaves its owner alive only
\* where the code gives it up: killed and not gone in time, dropped by a restart
\* that got no thread, or in the hands of a thread that handle.exit(0) cuts short.
\* The exit itself gives nothing up: once it is allowed, the slot is empty and
\* stays so.
OneHolder ==
    /\ \A p \in Numbers : Lives(p) => Cardinality(Holders(p)) = 1
    /\ exiting \in {"allowed", "left"} => life.proc = NoProc /\ closer.proc = NoProc

\* A page reloaded after a restart finds a backend in place, and never the
\* process the restart claimed: readiness "can never mistake the old instance for
\* the new one" (waitForDesktopRestart).
ReloadsIntoNew ==
    [][\A a \in Askers : gate.busy[a] /\ gate' = Boot => life.proc \notin {NoProc, gate.since[a]}]_sideVars

\* A backend that dies after it was ready is shown as lost by the page that
\* watches it, unless it is restarted or the shell exits (watch_ready_sidecar,
\* DesktopRuntimeGate).
DeathIsShown ==
    (life.phase = "ready" /\ ~Lives(life.proc) /\ exiting = "running")
        ~> (gate.phase \in {"lost", "failed"} \/ life.phase \notin {"ready", "failed"} \/ exiting # "running")
=============================================================================
