---------------------------- MODULE MessageDialogs ----------------------------
(***************************************************************************)
(* Questions and notifications: the in-page dialogs                        *)
(* (webui/src/stores/dialogStore.ts, components/DialogHost.tsx), the native *)
(* message windows of the desktop shell (src-tauri/src/message_dialog.rs,   *)
(* webui/src/message-dialog.tsx), and the notifications that use them       *)
(* (webui/src/utils/notify.ts, hooks/useDesktopNotifyEffects.ts).  A request *)
(* is its number; its window label is the same number.  One session runs.   *)
(***************************************************************************)
EXTENDS Naturals, Sequences, FiniteSets, FiniteSetsExt

CONSTANTS
    AskKinds,        \* the questions the pages ask: alert, confirm, prompt
    DialogOpenings   \* where to start, and how often things happen

VARIABLES
    asks,     \* the requests made, in order
    front,    \* the page: the lane, the in-page dialog, the notification hook
    shell,    \* MessageDialogs of the shell, and its windows
    loop,     \* closures handed to the shell's main thread
    replies,  \* answers on their way from the shell to the page
    hubRun,   \* the session's runs at the hub, and the events published for them
    limit     \* how often each thing may still happen

dialogVars == <<asks, front, shell, loop, replies, hubRun, limit>>

May(what) == limit[what] > 0
Spend(what) == limit' = [limit EXCEPT ![what] = @ - 1]

Cancelled(kind) == IF kind = "confirm" THEN "no" ELSE "null"
Confirmed(kind) == CASE kind = "prompt" -> "words"
                     [] kind \in {"confirm", "notification"} -> "yes"
                     [] OTHER -> "null"
AnswersTo(kind) == {Cancelled(kind), Confirmed(kind)}

DialogInit ==
    \E start \in DialogOpenings :
        /\ asks = <<>>
        /\ front = [desktop |-> start.desktop, lane |-> <<>>, open |-> 0, queue |-> <<>>,
                    optedIn |-> TRUE, focused |-> start.focused, recent |-> {}, seen |-> {},
                    aborted |-> {}, lookups |-> {}, route |-> "chat", themed |-> start.themed]
        /\ shell = [pending |-> <<>>, active |-> 0, ready |-> FALSE, closing |-> FALSE,
                    enabled |-> TRUE, window |-> "none", timers |-> {}, broken |-> start.broken,
                    large |-> start.large]
        /\ loop = <<>>
        /\ replies = {}
        /\ hubRun = [log |-> <<>>, tail |-> 0, news |-> <<>>]
        /\ limit = start.limit

(***************************************************************************)
(* The page                                                                 *)
(***************************************************************************)
\* show: one dialog is open, the others wait.
Show(f, id) == IF f.open # 0 THEN [f EXCEPT !.queue = Append(@, id)] ELSE [f EXCEPT !.open = id]

\* requestDialog: the desktop keeps its requests in one lane.
RequestDialog(f, request) ==
    LET id == Len(asks) + 1
    IN  /\ asks' = Append(asks, request)
        /\ front' = IF f.desktop THEN [f EXCEPT !.lane = Append(@, id)] ELSE Show(f, id)

NewRequest(kind, run, title, at) ==
    [kind |-> kind, run |-> run, title |-> title, at |-> at, read |-> 0, said |-> {}, answer |-> "none"]
FirstPlace(f) == IF f.desktop THEN "lane" ELSE "page"

Ask(kind) ==
    /\ May("asks") /\ Spend("asks")
    /\ shell.enabled
    /\ RequestDialog(front, NewRequest(kind, 0, "question", FirstPlace(front)))
    /\ UNCHANGED <<shell, loop, replies, hubRun>>

\* validate: what the page asks is well formed, but it may be too large.
Valid(id) == id \notin shell.large

\* The head of the lane invokes the shell, which hands the request to its main
\* thread; one that validate refuses is answered at once.
Invoke ==
    /\ front.lane # <<>>
    /\ \E id \in {Head(front.lane)} :
        /\ asks[id].at = "lane"
        /\ asks' = [asks EXCEPT ![id].at = "called"]
        /\ \/ /\ Valid(id)
              /\ loop' = Append(loop, [do |-> "push", id |-> id]) /\ UNCHANGED replies
           \/ /\ ~Valid(id)
              /\ replies' = replies \cup {[id |-> id, got |-> "error"]} /\ UNCHANGED loop
    /\ UNCHANGED <<front, shell, hubRun, limit>>

\* Another path: useNavigate returns a new function, and the hook starts over.
Navigated(f, to) ==
    IF f.route = to THEN f ELSE [f EXCEPT !.route = to, !.lookups = {}, !.seen = {}, !.aborted = {}]

\* A theme task opens its conclusion, a question the chat.
Target(f, request) ==
    CASE request.title = "wechat" -> "wechat"
      [] request.title = "workflow" -> "conductor"
      [] f.themed /\ request.title # "reply" -> "theme-tasks"
      [] OTHER -> "chat"

\* The promise of a request resolves: the lane goes on, notify opens its target.
Resolved(f, id, answer) ==
    LET g == IF f.desktop THEN [f EXCEPT !.lane = Tail(@)] ELSE f
    IN  IF asks[id].kind = "notification" /\ answer = "yes"
        THEN Navigated(g, Target(g, asks[id])) ELSE g
Answered(id, answer) == asks' = [asks EXCEPT ![id].at = "settled", ![id].answer = answer]

\* resolveCurrent, from a button, a key or a notification's timer.
ResolveCurrent(said, answer) ==
    /\ front.open # 0
    /\ \E id \in {front.open} :
        /\ asks' = [asks EXCEPT ![id].at = "settled", ![id].answer = answer, ![id].said = said]
        /\ front' = Resolved(IF front.queue = <<>> THEN [front EXCEPT !.open = 0]
                             ELSE [front EXCEPT !.open = Head(front.queue), !.queue = Tail(front.queue)],
                             id, answer)
    /\ UNCHANGED <<shell, loop, replies, hubRun, limit>>
PageAnswers(answer) ==
    front.open # 0 /\ answer \in AnswersTo(asks[front.open].kind) /\ ResolveCurrent({answer}, answer)
PageExpires ==
    front.open # 0 /\ asks[front.open].kind = "notification" /\ ResolveCurrent({}, "null")

ReplyArrives(r) ==
    /\ replies' = replies \ {r}
    /\ \/ /\ asks[r.id].at # "called"    \* asked by a page that is gone
          /\ UNCHANGED <<asks, front>>
       \/ /\ asks[r.id].at = "called" /\ r.got # "error"
          /\ Answered(r.id, r.got)
          /\ front' = Resolved(front, r.id, r.got)
       \/ /\ asks[r.id].at = "called" /\ r.got = "error"
          /\ asks' = [asks EXCEPT ![r.id].at = "page"]
          /\ front' = Show(front, r.id)
    /\ UNCHANGED <<shell, loop, hubRun, limit>>

\* The page is loaded anew, for instance after the backend restarted.
PageReload ==
    /\ May("reloads") /\ Spend("reloads")
    /\ asks' = [id \in DOMAIN asks |->
                   IF asks[id].at = "settled" THEN asks[id] ELSE [asks[id] EXCEPT !.at = "forgotten"]]
    /\ front' = [front EXCEPT !.lane = <<>>, !.open = 0, !.queue = <<>>, !.recent = {},
                              !.seen = {}, !.aborted = {}, !.lookups = {}]
    /\ UNCHANGED <<shell, loop, replies, hubRun>>

(***************************************************************************)
(* The shell                                                                *)
(***************************************************************************)
\* start_next: requests whose window cannot be made are refused on the way to
\* the first that can be; main is disabled under any window but a notification.
Refusals(sh, n) == {[id |-> sh.pending[i], got |-> "error"] : i \in 1 .. n - 1}
NextToStart(sh) ==
    Min({i \in 1 .. Len(sh.pending) : sh.pending[i] \notin sh.broken} \cup {Len(sh.pending) + 1})
Started_NoLoadTimer(sh, n) ==
    IF n > Len(sh.pending) THEN [sh EXCEPT !.pending = <<>>]
    ELSE [sh EXCEPT !.active = sh.pending[n], !.pending = SubSeq(@, n + 1, Len(@)),
                    !.ready = FALSE, !.window = "loading",
                    !.enabled = asks[sh.pending[n]].kind = "notification"]

Started(sh, n) ==
    IF n > Len(sh.pending) THEN [sh EXCEPT !.pending = <<>>]
    ELSE [sh EXCEPT !.active = sh.pending[n], !.pending = SubSeq(@, n + 1, Len(@)),
                    !.ready = FALSE, !.window = "loading",
                    !.enabled = asks[sh.pending[n]].kind = "notification",
                    !.timers = @ \cup {[do |-> "timeout", id |-> sh.pending[n]]}]
StartNext(sh, sent) ==
    IF sh.closing \/ sh.active # 0 THEN shell' = sh /\ replies' = sent
    ELSE \E n \in {NextToStart(sh)} :
            shell' = Started(sh, n) /\ replies' = sent \cup Refusals(sh, n)

Complete_WhateverIsActive(id, got) ==
    IF shell.active = 0 THEN UNCHANGED <<shell, replies>>
    ELSE StartNext([shell EXCEPT !.active = 0, !.window = "none", !.enabled = TRUE],
                   replies \cup {[id |-> shell.active, got |-> got]})

\* complete: of the active request only.
Complete(id, got) ==
    IF shell.active # id THEN UNCHANGED <<shell, replies>>
    ELSE StartNext([shell EXCEPT !.active = 0, !.window = "none", !.enabled = TRUE],
                   replies \cup {[id |-> id, got |-> got]})

Push(id) ==
    IF shell.closing
    THEN replies' = replies \cup {[id |-> id, got |-> Cancelled(asks[id].kind)]} /\ UNCHANGED shell
    ELSE StartNext([shell EXCEPT !.pending = Append(@, id)], replies)

\* message_dialog_ready: once, of the active request; showing it may fail.
MakeReady(id) ==
    IF shell.active # id \/ shell.ready THEN UNCHANGED <<shell, replies>>
    ELSE \/ /\ shell' = [shell EXCEPT !.ready = TRUE,
                             !.timers = IF asks[id].kind = "notification"
                                        THEN @ \cup {[do |-> "expire", id |-> id]} ELSE @]
            /\ UNCHANGED replies
         \/ May("faults") /\ Complete(id, "error")

RunClosure ==
    /\ loop # <<>>
    /\ loop' = Tail(loop)
    /\ \E c \in {Head(loop)} :
        \/ c.do = "push" /\ Push(c.id)
        \/ c.do = "ready" /\ MakeReady(c.id)
        \/ c.do = "finish" /\ Complete(c.id, c.with)
        \/ c.do = "expire" /\ Complete(c.id, Cancelled(asks[c.id].kind))
        \/ /\ c.do = "timeout"
           /\ IF shell.ready THEN UNCHANGED <<shell, replies>> ELSE Complete(c.id, "error")
    /\ UNCHANGED <<asks, front, hubRun, limit>>

TimerFires(t) ==
    /\ shell' = [shell EXCEPT !.timers = @ \ {t}]
    /\ loop' = Append(loop, t)
    /\ UNCHANGED <<asks, front, replies, hubRun, limit>>

\* The message window reads its request, and reports its size whenever it changes.
WindowLoads ==
    /\ shell.window = "loading"
    /\ shell' = [shell EXCEPT !.window = "open"]
    /\ loop' = Append(loop, [do |-> "ready", id |-> shell.active])
    /\ UNCHANGED <<asks, front, replies, hubRun, limit>>
WindowResizes ==
    /\ May("resizes") /\ Spend("resizes")
    /\ shell.window \in {"open", "answered"}
    /\ loop' = Append(loop, [do |-> "ready", id |-> shell.active])
    /\ UNCHANGED <<asks, front, shell, replies, hubRun>>

\* The user answers, once; message_dialog_finish hands the result on.
WindowAnswers(answer) ==
    /\ shell.window = "open" /\ shell.ready
    /\ answer \in AnswersTo(asks[shell.active].kind)
    /\ shell' = [shell EXCEPT !.window = "answered"]
    /\ asks' = [asks EXCEPT ![shell.active].said = {answer}]
    /\ loop' = Append(loop, [do |-> "finish", id |-> shell.active, with |-> answer])
    /\ UNCHANGED <<front, replies, hubRun, limit>>

WindowCloses ==
    /\ shell.active # 0 /\ shell.ready
    /\ Complete(shell.active, Cancelled(asks[shell.active].kind))
    /\ UNCHANGED <<asks, front, loop, hubRun, limit>>

\* shutdown, when main is closed or the program exits.
Shutdown ==
    /\ May("exits") /\ Spend("exits")
    /\ shell' = [shell EXCEPT !.closing = TRUE, !.active = 0, !.pending = <<>>, !.window = "none",
                              !.enabled = TRUE]
    /\ replies' = replies \cup
          {[id |-> id, got |-> Cancelled(asks[id].kind)] :
              id \in ({shell.active} \ {0}) \cup {shell.pending[i] : i \in DOMAIN shell.pending}}
    /\ UNCHANGED <<asks, front, loop, hubRun>>

(***************************************************************************)
(* Notifications                                                            *)
(***************************************************************************)
\* notify: wanted, not looking, and not the same within 800 ms.
Notify(f, tag, request) ==
    IF ~f.optedIn \/ f.focused \/ tag \in f.recent THEN front' = f /\ UNCHANGED asks
    ELSE RequestDialog([f EXCEPT !.recent = @ \cup {tag}], request)
ThrottleOver ==
    /\ front.recent # {}
    /\ front' = [front EXCEPT !.recent = {}]
    /\ UNCHANGED <<asks, shell, loop, replies, hubRun, limit>>

Outside(title) ==
    /\ May(title) /\ Spend(title)
    /\ Notify(front, title, NewRequest("notification", 0, title, FirstPlace(front)))
    /\ UNCHANGED <<shell, loop, replies, hubRun>>

\* A run settles and the coordinator publishes it, after its stopping if it was
\* stopped.  One that is stopped before its runtime had it carries no outcome and
\* leaves no message; an answer whose identity could not be written carries no run.
RunSettles(outcome, asking, named, stopped) ==
    /\ May("runs") /\ (stopped => May("stops")) /\ (~named => May("unnamed"))
    /\ limit' = [limit EXCEPT !.runs = @ - 1, !.stops = IF stopped THEN @ - 1 ELSE @,
                              !.unnamed = IF named THEN @ ELSE @ - 1]
    /\ asking => outcome = "completed"
    /\ outcome = "unstarted" => named
    /\ LET run == Len(hubRun.log) + 1
           News(what) == [run |-> run, outcome |-> what]
       IN  hubRun' = [log |-> Append(hubRun.log, [outcome |-> outcome, asking |-> asking, named |-> named]),
                      tail |-> IF outcome = "unstarted" THEN hubRun.tail ELSE run,
                      news |-> hubRun.news \o (IF stopped THEN <<News("aborting")>> ELSE <<>>)
                                 \o <<News(IF outcome = "unstarted" THEN "null" ELSE outcome)>>]
    /\ UNCHANGED <<asks, front, shell, loop, replies>>

\* The user's next message is the last of the session until its answer ends.
UserWrites ==
    /\ May("writes") /\ Spend("writes")
    /\ hubRun' = [hubRun EXCEPT !.tail = 0]
    /\ UNCHANGED <<asks, front, shell, loop, replies>>

\* The hook takes every settled run once, but not one that is cancelled or that it
\* has seen stopping.
EventArrives ==
    /\ hubRun.news # <<>>
    /\ hubRun' = [hubRun EXCEPT !.news = Tail(@)]
    /\ \E e \in {Head(hubRun.news)} :
        front' = CASE e.outcome = "aborting" -> [front EXCEPT !.aborted = @ \cup {e.run}]
                   [] e.outcome = "cancelled" -> front
                   [] OTHER ->
                        IF e.run \in front.aborted THEN [front EXCEPT !.aborted = @ \ {e.run}]
                        ELSE IF e.run \in front.seen THEN front
                        ELSE [front EXCEPT !.seen = @ \cup {e.run},
                                           !.lookups = @ \cup {[run |-> e.run, read |-> 0, title |->
                                               IF e.outcome = "failed" THEN "failed" ELSE "unread"]}]
    /\ UNCHANGED <<asks, shell, loop, replies, limit>>

\* getSessionMessages: the last answer, unbroken and not known to be another run's,
\* classifies the run.
Classified(run) ==
    IF hubRun.tail = 0 THEN "updated"
    ELSE LET last == hubRun.log[hubRun.tail]
         IN  IF (last.named /\ hubRun.tail # run) \/ last.outcome \in {"cancelled", "failed"} THEN "updated"
             ELSE IF last.asking THEN "reply" ELSE "result"
MessagesServed(l) ==
    /\ l.title = "unread"
    /\ \E title \in {Classified(l.run), "updated"} :
        front' = [front EXCEPT !.lookups =
                     (@ \ {l}) \cup {[l EXCEPT !.title = title, !.read = hubRun.tail]}]
    /\ UNCHANGED <<asks, shell, loop, replies, hubRun, limit>>
LookupOver(l) ==
    /\ l.title # "unread"
    /\ Notify([front EXCEPT !.lookups = @ \ {l}], l.run,
              [NewRequest("notification", l.run, l.title, FirstPlace(front)) EXCEPT !.read = l.read])
    /\ UNCHANGED <<shell, loop, replies, hubRun, limit>>

\* The user looks away or back, changes the setting, or goes to another page.
Look ==
    /\ May("looks") /\ Spend("looks")
    /\ front' = [front EXCEPT !.focused = ~@]
    /\ UNCHANGED <<asks, shell, loop, replies, hubRun>>
SetOptIn ==
    /\ May("options") /\ Spend("options")
    /\ front' = [front EXCEPT !.optedIn = ~@]
    /\ UNCHANGED <<asks, shell, loop, replies, hubRun>>
Navigate(to) ==
    /\ May("looks") /\ Spend("looks")
    /\ front' = Navigated(front, to)
    /\ UNCHANGED <<asks, shell, loop, replies, hubRun>>

DialogNext ==
    \/ \E kind \in AskKinds : Ask(kind)
    \/ Invoke \/ PageExpires \/ PageReload \/ RunClosure \/ Shutdown
    \/ \E answer \in {"yes", "no", "words", "null"} : PageAnswers(answer) \/ WindowAnswers(answer)
    \/ \E r \in replies : ReplyArrives(r)
    \/ \E t \in shell.timers : TimerFires(t)
    \/ WindowLoads \/ WindowResizes \/ WindowCloses
    \/ ThrottleOver \/ \E title \in {"wechat", "workflow"} : Outside(title)
    \/ \E outcome \in {"completed", "failed", "cancelled", "unstarted"},
          asking, named, stopped \in BOOLEAN : RunSettles(outcome, asking, named, stopped)
    \/ UserWrites \/ EventArrives
    \/ \E l \in front.lookups : MessagesServed(l) \/ LookupOver(l)
    \/ Look \/ SetOptIn \/ \E to \in {"chat", "conductor"} : Navigate(to)

(***************************************************************************)
(* Properties                                                               *)
(***************************************************************************)
\* Each request gets the answer given to its own window or its cancellation,
\* requests of one page are settled in the order they were made, and the user
\* never faces an in-page dialog and a native window at once, unless the window
\* was asked for by a page that has been loaded anew since: a window's late
\* finish, expiry or close event never answers the request shown after it
\* (requestDialog, complete).
OwnAnswer ==
    /\ \A id \in DOMAIN asks : asks[id].at = "settled" =>
          asks[id].answer \in asks[id].said \cup {Cancelled(asks[id].kind)}
    /\ \A i, j \in DOMAIN asks :
          i < j /\ asks[j].at = "settled" => asks[i].at \in {"settled", "forgotten"}
    /\ front.open # 0 /\ shell.active # 0 => asks[shell.active].at = "forgotten"

\* Main is disabled only under a question, and not for long under one that does
\* not come up: "A load failure must never strand the parent in a disabled
\* state" (start_next).
MainComesBack == ~shell.enabled ~> (shell.enabled \/ shell.ready)

\* A notification says what its own run did: it asks for a reply only when the
\* answer it read is a question, which is that run's own or one that carries no
\* run at all, and never another's that does; it reports a failure only for a
\* failed run, and no run is notified twice (useDesktopNotifyEffects).
NotifiesTruly ==
    \A i \in DOMAIN asks : asks[i].run # 0 =>
        /\ asks[i].title = "reply" =>
              \E read \in {asks[i].read} \ {0} :
                  hubRun.log[read].asking /\ (read = asks[i].run \/ ~hubRun.log[read].named)
        /\ asks[i].title = "failed" <=> hubRun.log[asks[i].run].outcome = "failed"
        /\ \A j \in DOMAIN asks : asks[j].run = asks[i].run => i = j
=============================================================================
