------------------------------- MODULE Tasks -------------------------------
(***************************************************************************)
(* Scheduled tasks: the page (webui/src/pages/Tasks.tsx), the scheduler    *)
(* domain behind it (server/services/scheduler_domain_base.py and          *)
(* task_scheduler.py) and the events and answers between them.  A form is  *)
(* abstracted to what its checks look at; "extra" stands for a time the    *)
(* browser's parser takes and the hub's does not (a cron with seconds, a   *)
(* fraction of a minute).  Another window edits schedules too.             *)
(***************************************************************************)
EXTENDS Naturals, Sequences, FiniteSets

CONSTANTS
    TaskIds,      \* ids the hub may hand out
    Servers,      \* mail server settings
    TaskOpenings  \* how often each thing may happen, and what the hub starts with

VARIABLES
    plans,   \* the hub: schedules by id, installed jobs and the mail settings; the schedules
             \* whose job a failed save left as it was, and whether the page was not told
    fires,   \* runs started by schedules, oldest first
    news,    \* task events on their way to the page
    page,    \* the page: its three queries, the dialog, the mail form
    calls,   \* writes in flight
    lots     \* how often each thing may still happen

taskVars == <<plans, fires, news, page, calls, lots>>

Lot(what) == lots[what] > 0
Drawn(what) == lots' = [lots EXCEPT ![what] = @ - 1]

NoRow == [name |-> 0]
Carrying(server) == [name |-> server]
Row == [name |-> 1, prompt |-> 1, kind |-> "cron", cron |-> "fine", every |-> "fine",
        mail |-> FALSE, to |-> 0, on |-> TRUE, count |-> 0]
Choices == [name |-> {0, 1}, prompt |-> {0, 1}, kind |-> {"cron", "interval"},
            cron |-> {"fine", "extra", "wrong"}, every |-> {"fine", "extra", "wrong"},
            mail |-> BOOLEAN, to |-> {0, 1}, on |-> BOOLEAN]
Rows(p) == {t \in DOMAIN p.rows : p.rows[t] # NoRow}
\* What of a schedule its editors decide.
Defined(rows) == [t \in DOMAIN rows |-> IF rows[t] = NoRow THEN NoRow ELSE [rows[t] EXCEPT !.count = 0]]
Closed == [st |-> "closed"]
NoAsk == [what |-> "none", id |-> 0]
Query(data) == [data |-> data, read |-> "idle", got |-> data]
Recorded(f) == {i \in DOMAIN f : f[i].st = "recorded"}

TasksInit ==
    \E start \in TaskOpenings :
        /\ plans = [rows |-> start.rows, server |-> start.server, told |-> TRUE, unarmed |-> {}, untold |-> FALSE,
                    jobs |-> {t \in DOMAIN start.rows : start.rows[t] # NoRow /\ start.rows[t].on}]
        /\ fires = <<>>
        /\ news = <<>>
        /\ page = [rows |-> Query(start.rows), runs |-> Query({}), mail |-> Query(start.server),
                   editor |-> Closed, ask |-> NoAsk, smtp |-> FALSE, cfg |-> start.server, savingCfg |-> FALSE,
                   testing |-> FALSE]
        /\ calls = {}
        /\ lots = start.lots

(***************************************************************************)
(* The scheduler domain.  Firing, saving and deleting hold its lock.          *)
(***************************************************************************)
\* A cron is checked when it is to be armed; a fraction is never an integer.
HubAccepts(row) ==
    /\ row.every # "extra"
    /\ (row.on /\ row.kind = "cron") => row.cron = "fine"

\* _install_job: a cron the scheduler cannot parse is skipped silently.
Installed(jobs, t, row) ==
    IF row.on /\ (row.kind = "interval" \/ row.cron = "fine") THEN jobs \cup {t} ELSE jobs \ {t}

Upserted_CountOfPayload(p, t, row) ==
    [p EXCEPT !.rows[t] = row, !.jobs = Installed(@, t, row), !.unarmed = @ \ {t}, !.untold = FALSE]

\* upsert: the editors' fields over what is stored; the counter is the hub's.
Merged(p, t, row) == [row EXCEPT !.count = IF p.rows[t] = NoRow THEN 0 ELSE p.rows[t].count]
Upserted(p, t, row) ==
    LET new == Merged(p, t, row)
    IN  [p EXCEPT !.rows[t] = new, !.jobs = Installed(@, t, new), !.unarmed = @ \ {t}, !.untold = FALSE]
Deleted(p, t) == [p EXCEPT !.rows[t] = NoRow, !.jobs = @ \ {t}, !.unarmed = @ \ {t}, !.untold = FALSE]

\* _persist raises after the table was changed: nothing is installed or announced.
UpsertUnsaved(p, t, row) ==
    [p EXCEPT !.rows[t] = Merged(p, t, row), !.unarmed = @ \cup {t}, !.untold = TRUE]
DeleteUnsaved(p, t) == [Deleted(p, t) EXCEPT !.untold = TRUE]

\* Runs of a deleted schedule no longer count for its id.
Forgotten(f, t) == [i \in DOMAIN f |-> IF f[i].task = t THEN [f[i] EXCEPT !.counted = FALSE] ELSE f[i]]

\* One session serves all schedules, so a run in progress refuses the next.
ChannelBusy == \E i \in DOMAIN fires : ~fires[i].over

\* _fire after admission: counted, persisted, announced and watched.
Starts(t, st) ==
    /\ plans' = [plans EXCEPT !.rows[t].count = @ + 1]
    /\ fires' = Append(fires, [task |-> t, first |-> FALSE, over |-> FALSE, counted |-> TRUE,
                               mails |-> plans.rows[t].mail, status |-> "running", st |-> st])
Fired(t) == Starts(t, "watched") /\ news' = Append(news, "fired")

\* The counter cannot be saved: the run goes on unwatched and unannounced.
FiredUnsaved(t) == Starts(t, "unwatched") /\ UNCHANGED news

\* A job comes due.  Refused, it leaves no trace.
JobFires(t) ==
    /\ Lot("due")
    /\ t \in plans.jobs
    /\ ~ChannelBusy
    /\ \/ Drawn("due") /\ Fired(t)
       \/ Lot("disk") /\ lots' = [lots EXCEPT !.due = @ - 1, !.disk = @ - 1] /\ FiredUnsaved(t)
    /\ UNCHANGED <<page, calls>>

\* The first stream of a run ends; a recoverable error is followed by another.
StreamEnds(i) ==
    /\ ~fires[i].first
    /\ \/ fires' = [fires EXCEPT ![i].first = TRUE, ![i].over = TRUE] /\ UNCHANGED lots
       \/ Lot("retry") /\ Drawn("retry") /\ fires' = [fires EXCEPT ![i].first = TRUE]
    /\ UNCHANGED <<plans, news, page, calls>>

RetryEnds(i) ==
    /\ fires[i].first /\ ~fires[i].over
    /\ fires' = [fires EXCEPT ![i].over = TRUE]
    /\ UNCHANGED <<plans, news, page, calls, lots>>

\* The watcher stops when the first stream has ended or an hour is over, or
\* crashes (sending the mail, say); each way the run is recorded and announced.
Watch(i) ==
    /\ fires[i].st = "watched"
    /\ \E status \in {"done", "timeout", "error"} :
          /\ (status = "done") => fires[i].first
          /\ (status = "timeout") => ~fires[i].first
          /\ IF status = "error" THEN Lot("crash") /\ Drawn("crash") ELSE UNCHANGED lots
          /\ fires' = [fires EXCEPT ![i].st = "recorded", ![i].status = status]
          /\ news' = Append(news, IF status = "error" THEN "error" ELSE "done")
    /\ UNCHANGED <<plans, page, calls>>

\* Another window saves, toggles or deletes a schedule.
EditElsewhere ==
    /\ Lot("elsewhere")
    /\ Drawn("elsewhere")
    /\ \E t \in Rows(plans) :
          \/ /\ plans' = Deleted(plans, t)
             /\ fires' = Forgotten(fires, t)
             /\ news' = Append(news, "delete")
          \/ \E row \in {[plans.rows[t] EXCEPT !.on = ~@], [plans.rows[t] EXCEPT !.to = 1 - @]} :
                /\ HubAccepts(row)
                /\ plans' = Upserted(plans, t, row)
                /\ news' = Append(news, "upsert")
                /\ UNCHANGED fires
    /\ UNCHANGED <<page, calls>>

Answer(c, st) == calls' = (calls \ {c}) \cup {[c EXCEPT !.st = st]}
\* The answer reaches the page, or is lost on the way.
Replies(c) ==
    \/ Answer(c, "ok") /\ UNCHANGED lots
    \/ Lot("lost") /\ Drawn("lost") /\ Answer(c, "fail")

Serve(c) ==
    /\ c.st = "asked"
    /\ UNCHANGED page
    /\ \/ /\ c.kind \in {"toggle", "form"} /\ ~HubAccepts(c.row)
          /\ Answer(c, "fail")
          /\ UNCHANGED <<plans, fires, news, lots>>
       \/ /\ c.kind \in {"toggle", "form"} /\ HubAccepts(c.row)
          /\ \E t \in IF c.id # 0 THEN {c.id} ELSE {u \in TaskIds : plans.rows[u] = NoRow} :
                plans' = Upserted(plans, t, c.row)
          /\ news' = Append(news, "upsert")
          /\ Replies(c)
          /\ UNCHANGED fires
       \/ /\ c.kind \in {"toggle", "form"} /\ HubAccepts(c.row) /\ Lot("disk") /\ Drawn("disk")
          /\ \E t \in IF c.id # 0 THEN {c.id} ELSE {u \in TaskIds : plans.rows[u] = NoRow} :
                plans' = UpsertUnsaved(plans, t, c.row)
          /\ Answer(c, "fail")
          /\ UNCHANGED <<fires, news>>
       \/ /\ c.kind = "delete" /\ plans.rows[c.id] = NoRow
          /\ Answer(c, "fail")
          /\ UNCHANGED <<plans, fires, news, lots>>
       \/ /\ c.kind = "delete" /\ plans.rows[c.id] # NoRow
          /\ plans' = Deleted(plans, c.id)
          /\ fires' = Forgotten(fires, c.id)
          /\ news' = Append(news, "delete")
          /\ Replies(c)
       \/ /\ c.kind = "delete" /\ plans.rows[c.id] # NoRow /\ Lot("disk") /\ Drawn("disk")
          /\ plans' = DeleteUnsaved(plans, c.id)
          /\ fires' = Forgotten(fires, c.id)
          /\ Answer(c, "fail")
          /\ UNCHANGED news
       \/ /\ c.kind = "trigger" /\ plans.rows[c.id] # NoRow /\ ~ChannelBusy /\ Lot("disk") /\ Drawn("disk")
          /\ FiredUnsaved(c.id)
          /\ Answer(c, "fail")
       \/ /\ c.kind = "trigger" /\ (plans.rows[c.id] = NoRow \/ ChannelBusy)
          /\ Answer(c, "fail")
          /\ UNCHANGED <<plans, fires, news, lots>>
       \/ /\ c.kind = "trigger" /\ plans.rows[c.id] # NoRow /\ ~ChannelBusy
          /\ Fired(c.id)
          /\ Replies(c)
       \/ /\ c.kind \in {"save", "test"}
          /\ Replies(c)
          /\ plans' = [plans EXCEPT !.server = c.row.name, !.told = (lots' = lots)]
          /\ UNCHANGED <<fires, news>>
       \/ /\ c.kind = "mail"
          /\ Replies(c)
          /\ UNCHANGED <<plans, fires, news>>

(***************************************************************************)
(* The page.  Invalidating a query drops its read in flight and asks again.   *)
(***************************************************************************)
Invalidate(p, query) == [p EXCEPT ![query].read = "asked"]

ReadServed(query) ==
    /\ page[query].read = "asked"
    /\ page' = [page EXCEPT ![query].read = "served",
                            ![query].got = CASE query = "rows" -> plans.rows
                                             [] query = "runs" -> Recorded(fires)
                                             [] OTHER -> plans.server]
    /\ UNCHANGED <<plans, fires, news, calls, lots>>

ReadArrives(query) ==
    /\ page[query].read = "served"
    /\ page' = [page EXCEPT ![query].read = "idle", ![query].data = page[query].got]
    /\ UNCHANGED <<plans, fires, news, calls, lots>>

EventArrives ==
    /\ news # <<>>
    /\ news' = Tail(news)
    /\ page' = Invalidate(page, IF Head(news) \in {"upsert", "delete"} THEN "rows" ELSE "runs")
    /\ UNCHANGED <<plans, fires, calls, lots>>

Covered == page.editor # Closed \/ page.ask # NoAsk \/ page.smtp

Send(kind, id, row) ==
    calls' = calls \cup {[kind |-> kind, id |-> id, row |-> row, st |-> "asked", mine |-> TRUE]}

OnCard(t) == ~Covered /\ page.rows.data[t] # NoRow

\* The card's buttons and the new-task button; each card acts on the row read.
Toggle(t) ==
    /\ Lot("clicks") /\ Drawn("clicks")
    /\ OnCard(t)
    /\ Send("toggle", t, [page.rows.data[t] EXCEPT !.on = ~@])
    /\ UNCHANGED <<plans, fires, news, page>>

\* Triggering, deleting and testing the mail ask first.
AskFirst(what, t) ==
    /\ Lot("clicks") /\ Drawn("clicks")
    /\ page' = [page EXCEPT !.ask = [what |-> what, id |-> t]]
    /\ UNCHANGED <<plans, fires, news, calls>>
AskTrigger(t) == OnCard(t) /\ AskFirst("trigger", t)
AskRemove(t) == OnCard(t) /\ AskFirst("delete", t)
AskTest == page.smtp /\ page.ask = NoAsk /\ ~page.testing /\ AskFirst("test", 0)

Decline ==
    /\ page.ask # NoAsk
    /\ page' = [page EXCEPT !.ask = NoAsk]
    /\ UNCHANGED <<plans, fires, news, calls, lots>>
Agreed(what) == page.ask.what = what /\ UNCHANGED <<plans, fires, news, lots>>
TriggerNow ==
    /\ Agreed("trigger")
    /\ page' = [page EXCEPT !.ask = NoAsk]
    /\ Send("trigger", page.ask.id, NoRow)
RemoveTask ==
    /\ Agreed("delete")
    /\ page' = [page EXCEPT !.ask = NoAsk]
    /\ Send("delete", page.ask.id, NoRow)
TestMail ==
    /\ Agreed("test")
    /\ page' = [page EXCEPT !.ask = NoAsk, !.testing = TRUE]
    /\ Send("test", 0, Carrying(page.cfg))

OpenEditor(t, form) ==
    /\ Lot("opens") /\ Drawn("opens")
    /\ page' = [page EXCEPT !.editor = [st |-> "open", id |-> t, saving |-> FALSE, form |-> form]]
    /\ UNCHANGED <<plans, fires, news, calls>>
NewTask == ~Covered /\ OpenEditor(0, [Row EXCEPT !.name = 0, !.prompt = 0])
EditTask(t) == OnCard(t) /\ OpenEditor(t, page.rows.data[t])

EditForm ==
    /\ Lot("types") /\ Drawn("types")
    /\ page.editor # Closed /\ page.ask = NoAsk
    /\ \E f \in DOMAIN Choices : \E v \in Choices[f] \ {page.editor.form[f]} :
          page' = [page EXCEPT !.editor.form[f] = v]
    /\ UNCHANGED <<plans, fires, news, calls>>

\* save refuses an incomplete form with an alert and keeps the dialog.
BrowserAccepts(form) ==
    /\ form.name # 0 /\ form.prompt # 0
    /\ IF form.kind = "cron" THEN form.cron # "wrong" ELSE form.every # "wrong"
    /\ form.mail => form.to # 0

SaveForm ==
    /\ page.editor # Closed /\ ~page.editor.saving
    /\ BrowserAccepts(page.editor.form)
    /\ page' = [page EXCEPT !.editor.saving = TRUE]
    /\ Send("form", page.editor.id, page.editor.form)
    /\ UNCHANGED <<plans, fires, news, lots>>

\* The dialog of these saves is gone.
Disowned(some) == {[c EXCEPT !.mine = FALSE] : c \in some}

CloseEditor ==
    /\ page.editor # Closed
    /\ page' = [page EXCEPT !.editor = Closed]
    /\ calls' = Disowned(calls)
    /\ UNCHANGED <<plans, fires, news, lots>>

\* The mail settings.  Saving and testing each have their own latch.
StartEdit ==
    /\ Lot("smtp") /\ Drawn("smtp")
    /\ ~Covered
    /\ page' = [page EXCEPT !.smtp = TRUE, !.cfg = page.mail.data]
    /\ UNCHANGED <<plans, fires, news, calls>>

EditServer ==
    /\ Lot("types") /\ Drawn("types")
    /\ page.smtp /\ page.ask = NoAsk
    /\ \E v \in Servers \ {page.cfg} : page' = [page EXCEPT !.cfg = v]
    /\ UNCHANGED <<plans, fires, news, calls>>

SaveServer ==
    /\ Lot("clicks") /\ Drawn("clicks")
    /\ page.smtp /\ page.ask = NoAsk /\ ~page.savingCfg
    /\ page' = [page EXCEPT !.savingCfg = TRUE]
    /\ Send("save", 0, Carrying(page.cfg))
    /\ UNCHANGED <<plans, fires, news>>

CancelEdit ==
    /\ page.smtp /\ page.ask = NoAsk
    /\ page' = [page EXCEPT !.smtp = FALSE]
    /\ UNCHANGED <<plans, fires, news, calls, lots>>

\* Answers.  A failure is told in an alert.
CardAnswered(c) ==
    /\ c.kind \in {"toggle", "delete", "trigger"}
    /\ c.st \in {"ok", "fail"}
    /\ page' = IF c.st = "fail" THEN page
               ELSE Invalidate(page, IF c.kind = "trigger" THEN "runs" ELSE "rows")
    /\ calls' = calls \ {c}
    /\ UNCHANGED <<plans, fires, news, lots>>

\* A dialog's save closes whichever dialog is open when its answer comes.
FormAnswered(c) ==
    /\ c.kind = "form"
    /\ \/ /\ c.st = "ok"
          /\ page' = [Invalidate(page, "rows") EXCEPT !.editor = Closed]
          /\ calls' = Disowned(calls \ {c})
       \/ /\ c.st = "fail"
          /\ page' = IF c.mine THEN [page EXCEPT !.editor.saving = FALSE] ELSE page
          /\ calls' = calls \ {c}
    /\ UNCHANGED <<plans, fires, news, lots>>

\* save and test read the settings back and go on when that read is over (or
\* was dropped for another one).
MailAnswered(c) ==
    /\ c.kind \in {"save", "test", "mail"}
    /\ \/ /\ c.st = "fail" \/ (c.st = "ok" /\ c.kind = "mail")
          /\ page' = IF c.kind = "save" THEN [page EXCEPT !.savingCfg = FALSE]
                                        ELSE [page EXCEPT !.testing = FALSE]
          /\ calls' = calls \ {c}
       \/ /\ c.st = "ok" /\ c.kind # "mail"
          /\ page' = Invalidate(page, "mail")
          /\ Answer(c, "reading")
       \/ /\ c.st = "reading"
          /\ page.mail.read = "idle" \/ \E d \in calls \ {c} : d.st = "reading"
          /\ IF c.kind = "save"
             THEN /\ page' = [page EXCEPT !.smtp = FALSE, !.savingCfg = FALSE]
                  /\ calls' = calls \ {c}
             ELSE /\ calls' = (calls \ {c}) \cup {[c EXCEPT !.kind = "mail", !.st = "asked"]}
                  /\ UNCHANGED page
    /\ UNCHANGED <<plans, fires, news, lots>>

Hub ==
    \/ EditElsewhere
    \/ \E t \in TaskIds : JobFires(t)
    \/ \E i \in DOMAIN fires : StreamEnds(i) \/ RetryEnds(i)
Network ==
    \/ EventArrives
    \/ \E c \in calls : Serve(c) \/ CardAnswered(c) \/ FormAnswered(c) \/ MailAnswered(c)
    \/ \E query \in {"rows", "runs", "mail"} : ReadServed(query) \/ ReadArrives(query)
CardButtons == \E t \in TaskIds : AskTrigger(t) \/ Toggle(t) \/ EditTask(t) \/ AskRemove(t)
User ==
    \/ CardButtons \/ NewTask \/ Decline \/ TriggerNow \/ RemoveTask \/ TestMail
    \/ EditForm \/ SaveForm \/ CloseEditor
    \/ StartEdit \/ EditServer \/ SaveServer \/ AskTest \/ CancelEdit

Watching == \E i \in DOMAIN fires : Watch(i)
TasksNext == Hub \/ Watching \/ Network \/ User

(***************************************************************************)
(* Properties.                                                               *)
(***************************************************************************)
\* Once every event, answer and read has come home, the page shows the
\* schedules as they are stored, the recorded runs and the mail settings, also
\* when an answer was lost: the hub announces what it changed after changing it
\* (upsert, delete, commit_done) and each announcement drops an older read.  A
\* change whose save failed is not announced, and shown only after the next one is.
ListsFollow ==
    (news = <<>> /\ calls = {} /\ \A query \in {"rows", "runs", "mail"} : page[query].read = "idle") =>
        /\ plans.untold \/ Defined(page.rows.data) = Defined(plans.rows)
        /\ page.runs.data = Recorded(fires)
        /\ plans.told => page.mail.data = plans.server

\* A schedule's counter is the number of runs it started, whatever older row an
\* editor or a toggle saves meanwhile (upsert over the stored row, _fire).
FiresCounted ==
    \A t \in Rows(plans) :
        plans.rows[t].count = Cardinality({i \in DOMAIN fires : fires[i].task = t /\ fires[i].counted})

\* An enabled schedule has its job: no save answers success and then never
\* fires (upsert validates before _install_job).  Only a save that failed, and was
\* answered as a failure, leaves a schedule whose job is the one from before.
EnabledIsArmed == \A t \in TaskIds \ plans.unarmed : t \in plans.jobs <=> t \in Rows(plans) /\ plans.rows[t].on
=============================================================================
