------------------------------ MODULE MCDesktop ------------------------------
(***************************************************************************)
(* The desktop shell: its backend process (Sidecar) and its message windows *)
(* (MessageDialogs) in one instance.  The two meet twice: closing the main  *)
(* window or leaving the program shuts the message windows down and asks for *)
(* the exit in one event of the shell's main thread, and a page that is     *)
(* loaded anew after a restart forgets its questions.  A start chooses which *)
(* part moves, or both with the two meetings taken together.                *)
(***************************************************************************)
EXTENDS Sidecar, TLC

VARIABLES part, asks, front, shell, loop, replies, hubRun, limit

SideZero == [faults |-> 0, timeouts |-> 0, crashes |-> 0, restarts |-> 0, exits |-> 0]
SideCrashing == [SideZero EXCEPT !.crashes = 2, !.restarts = 2]
SideLeaving == [SideZero EXCEPT !.restarts = 1, !.exits = 1, !.crashes = 1, !.faults = 1]
SideFaulty == [SideZero EXCEPT !.faults = 1, !.timeouts = 1, !.restarts = 2]
SideMeeting == [SideZero EXCEPT !.restarts = 1, !.exits = 1]
MCSidecarOpenings == {SideZero, SideCrashing, SideLeaving, SideFaulty, SideMeeting}

DialogZero == [asks |-> 0, reloads |-> 0, faults |-> 0, resizes |-> 0, exits |-> 0, wechat |-> 0, workflow |-> 0,
               runs |-> 0, stops |-> 0, unnamed |-> 0, writes |-> 0, looks |-> 0, options |-> 0]
DialogStart(budget) ==
    [desktop |-> TRUE, focused |-> FALSE, themed |-> FALSE, broken |-> {}, large |-> {}, limit |-> budget]
DialogAsking == [DialogStart([DialogZero EXCEPT !.asks = 2, !.faults = 1]) EXCEPT !.broken = {2}]
DialogReloading == [DialogStart([DialogZero EXCEPT !.asks = 2, !.reloads = 1]) EXCEPT !.broken = {2}]
DialogReplaced == DialogStart([DialogZero EXCEPT !.asks = 1, !.wechat = 1, !.reloads = 1])
DialogOversized == [DialogReplaced EXCEPT !.large = {2}]
DialogResizing == DialogStart([DialogZero EXCEPT !.wechat = 1, !.resizes = 1])
DialogLeaving == DialogStart([DialogZero EXCEPT !.asks = 2, !.exits = 1])
DialogInPage == [DialogStart([DialogZero EXCEPT !.asks = 1, !.workflow = 2, !.options = 1]) EXCEPT !.desktop = FALSE]
DialogNews == [DialogStart([DialogZero EXCEPT !.runs = 2, !.unnamed = 1, !.writes = 1]) EXCEPT !.desktop = FALSE, !.themed = TRUE]
DialogStopped == [DialogStart([DialogZero EXCEPT !.runs = 2, !.stops = 1, !.looks = 1]) EXCEPT !.desktop = FALSE, !.themed = TRUE]
DialogMeeting == DialogStart([DialogZero EXCEPT !.asks = 1, !.reloads = 1, !.exits = 1])
DialogIdle == DialogStart(DialogZero)
DialogScripts == {DialogAsking, DialogReloading, DialogReplaced, DialogOversized, DialogResizing,
                  DialogLeaving, DialogInPage, DialogNews, DialogStopped}

Dialogs == INSTANCE MessageDialogs WITH
    AskKinds <- {"confirm", "prompt"},
    DialogOpenings <- DialogScripts \cup {DialogMeeting, DialogIdle}

windowVars == <<asks, front, shell, loop, replies, hubRun, limit>>
desktopVars == <<part, sideVars, windowVars>>

MCInit ==
    /\ SidecarInit /\ Dialogs!DialogInit
    /\ part = CASE odds = SideZero -> "dialogs" [] limit = DialogZero -> "backend" [] OTHER -> "both"
    /\ odds = SideZero => limit \notin {DialogZero, DialogMeeting.limit}
    /\ odds \notin {SideZero, SideMeeting} => limit = DialogZero
    /\ odds = SideMeeting => limit = DialogMeeting.limit

\* Steps of one part.  Together, neither leaves nor reloads alone.
BackendStep ==
    /\ part \in {"backend", "both"}
    /\ SidecarNext
    /\ part = "both" => odds'.exits = odds.exits /\ (gate' = Boot => gate = Boot)
    /\ UNCHANGED <<part, windowVars>>
DialogStep ==
    /\ part \in {"dialogs", "both"}
    /\ Dialogs!DialogNext
    /\ exiting # "left"
    /\ part = "both" => limit'.exits = limit.exits /\ limit'.reloads = limit.reloads
    /\ UNCHANGED <<part, sideVars>>

\* main.rs hands CloseRequested and ExitRequested to the dialogs first.
LeaveTogether == part = "both" /\ RequestExit /\ Dialogs!Shutdown /\ UNCHANGED part
ReloadTogether ==
    /\ part = "both"
    /\ \E a \in Askers : WaitRestart(a)
    /\ gate' = Boot
    /\ Dialogs!PageReload
    /\ UNCHANGED part

MCNext == BackendStep \/ DialogStep \/ LeaveTogether \/ ReloadTogether

\* The main thread takes what it is handed and the timers of the shell go off, as
\* long as the program runs; the backend's threads and the page's poll go on.
DialogFairness ==
    /\ WF_windowVars(exiting # "left" /\ Dialogs!RunClosure)
    /\ WF_windowVars(exiting # "left" /\ \E t \in shell.timers : Dialogs!TimerFires(t))
BackendFairness ==
    /\ \A n \in Numbers : /\ WF_sideVars(part # "dialogs" /\ Supervise(n))
                        /\ WF_sideVars(part # "dialogs" /\ RestartStep(n))
    /\ WF_sideVars(part # "dialogs" /\ Poll) /\ WF_sideVars(part # "dialogs" /\ PollArrives)
MCSpec == MCInit /\ [][MCNext]_desktopVars /\ DialogFairness /\ BackendFairness

\* dialogStore.ts, message_dialog.rs, useDesktopNotifyEffects.ts: every question
\* gets its own answer, and every notification says what its own run did.
DialogsTruthful == Dialogs!OwnAnswer /\ Dialogs!NotifiesTruly

\* message_dialog.rs, main.rs, DesktopRuntimeGate.tsx: the main window does not
\* stay disabled under a window that never comes up, and a backend that died is
\* shown as lost by the page, when only the shell's threads and the page's poll
\* keep running.
ShellRecovers == Dialogs!MainComesBack /\ DeathIsShown
=============================================================================
