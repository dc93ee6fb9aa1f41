----------------------------- MODULE ThemeTasks -----------------------------
(***************************************************************************)
(* The theme-task page for one session (webui/src/pages/ThemeTasks.tsx,     *)
(* utils/themeTaskActions.ts): its card, the dialogs it opens, the three    *)
(* queries it shows, and the hub behind it (services/theme_task_runs.py,    *)
(* the theme routes of routes/sessions.py and the steps of the session      *)
(* coordinator that begin, finish and publish a run).  An instruction is a   *)
(* number, 0 if blank or absent; a run is a number, 0 if none.              *)
(***************************************************************************)
EXTENDS Naturals, Sequences, FiniteSets, FiniteSetsExt, SequencesExt

CONSTANTS
    Instructions,   \* what a user may type
    ModelKeys,      \* the models llms() lists
    RecentCap,      \* recent instructions kept (5 in the code)
    HistoryPage,    \* items in one page of the session's history (100)
    MaxNews,        \* runtime events on their way at once
    ThemeOpenings   \* hub states, and how often things happen

VARIABLES
    theme,    \* the hub: configuration, runtime state, recorded run, history
    ticker,   \* the event connection
    card,     \* the page
    chores,   \* the card's requests
    dole      \* how often each thing may still happen

themeVars == <<theme, ticker, card, chores, dole>>

None == 0
May(what) == dole[what] > 0
Spend(what) == dole' = [dole EXCEPT ![what] = @ - 1]

(***************************************************************************)
(* The hub                                                                  *)
(***************************************************************************)
ActiveStatuses == {"starting", "running", "aborting"}
Idle(completed) == [status |-> "idle", run |-> None, completed |-> completed]
NoRow == [run |-> None, finished |-> FALSE, outcome |-> "none", launched |-> FALSE]
NoStart == [phase |-> "none", run |-> None, text |-> None]

\* get: a run that never finished and is not the active one was interrupted.
Recorded(row, activeRun) ==
    IF row.run # None /\ ~row.finished /\ activeRun # row.run
    THEN [row EXCEPT !.outcome = "interrupted"] ELSE row

\* begin, and finish, which leaves a discarded or replaced row alone.
Begun(h) == IF h.config = None THEN h
            ELSE [h EXCEPT !.row = [NoRow EXCEPT !.run = h.start.run], !.tracked = h.start.run]
Finished(h, run, outcome) ==
    IF h.tracked # run THEN h
    ELSE [h EXCEPT !.row = IF @.run = run THEN [@ EXCEPT !.finished = TRUE, !.outcome = outcome] ELSE @,
                   !.tracked = None]

\* update_session: taking the task back also discards its recorded run.
Configured(h, text) ==
    IF text # None THEN [h EXCEPT !.config = text]
    ELSE [h EXCEPT !.config = None, !.row = NoRow, !.tracked = None]

\* Only the end of a run and an abort that timed out are published.
Published == ticker' = IF ticker.up /\ ticker.news < MaxNews THEN [ticker EXCEPT !.news = @ + 1] ELSE ticker

\* What becomes of the request whose run the hub was starting.
StartAnswered(st) ==
    chores' = {IF o.kind = "start" /\ o.st = "taken" THEN [o EXCEPT !.st = st] ELSE o : o \in chores}

\* The run remembers which card asked for it.
Reserved(h, text, asker) ==
    [h EXCEPT !.count = @ + 1,
              !.rt = [status |-> "starting", run |-> h.count + 1, completed |-> None],
              !.mine = asker,
              !.start = [phase |-> "reserved", run |-> h.count + 1, text |-> text]]

\* start_theme_run: only a theme task with a model, only while nothing runs.
StartReceived(o) ==
    /\ o.kind = "start" /\ o.st = "asked"
    /\ IF theme.config = None \/ theme.key = None \/ theme.rt.status # "idle"
       THEN /\ chores' = (chores \ {o}) \cup {[o EXCEPT !.st = "refused"]}
            /\ UNCHANGED theme
       ELSE /\ theme' = Reserved(theme, o.text, {o.mount})
            /\ chores' = (chores \ {o}) \cup {[o EXCEPT !.st = "taken"]}
    /\ UNCHANGED <<ticker, card, dole>>

StartElsewhere ==
    /\ theme.rt.status = "idle" /\ May("starts") /\ Spend("starts")
    /\ \E text \in dole.words : theme' = Reserved(theme, text, {})
    /\ UNCHANGED <<ticker, card, chores>>

\* The runtime exists: a stop that came first settles the run, else it is recorded.
RuntimeCreated ==
    /\ theme.start.phase = "reserved"
    /\ IF theme.rt.status = "starting"
       THEN /\ theme' = [Begun(theme) EXCEPT !.start.phase = "begun"]
            /\ UNCHANGED <<ticker, chores>>
       ELSE /\ theme' = [theme EXCEPT !.rt = Idle(theme.start.run), !.start = NoStart]
            /\ Published /\ StartAnswered("refused")
    /\ UNCHANGED <<card, dole>>

RunSubmitted ==
    /\ theme.start.phase = "begun"
    /\ theme' = [theme EXCEPT !.rt.status = IF @ = "starting" THEN "running" ELSE @,
                              !.log = Append(@, [run |-> theme.start.run, text |-> theme.start.text]),
                              !.row.launched = @ \/ theme.row.run = theme.start.run,
                              !.start = NoStart]
    /\ StartAnswered("ok") /\ UNCHANGED <<ticker, card, dole>>

\* The runtime or the submit failed: the reservation goes back.
StartFails ==
    /\ theme.start.phase # "none" /\ May("fails") /\ Spend("fails")
    /\ theme' = [Finished(theme, theme.start.run, "failed") EXCEPT !.rt = Idle(None), !.start = NoStart]
    /\ StartAnswered("refused") /\ UNCHANGED <<ticker, card>>

\* _watch_completion: the report is stored, then the session is idle, then
\* published; the end of a run being stopped counts as its cancellation.
RunCompletes ==
    /\ theme.rt.status \in {"running", "aborting", "error"} /\ theme.start.phase = "none"
    /\ \E outcome \in IF theme.rt.status = "aborting" THEN {"cancelled"} ELSE dole.ends :
          theme' = [Finished(theme, theme.rt.run, outcome) EXCEPT
                       !.rt = Idle(theme.rt.run), !.log = Append(@, [run |-> theme.rt.run, text |-> None])]
    /\ Published /\ UNCHANGED <<card, chores, dole>>

\* A stop that takes too long is an error; the run still occupies the session.
AbortTimesOut ==
    /\ theme.rt.status = "aborting" /\ theme.start.phase = "none" /\ May("fails") /\ Spend("fails")
    /\ theme' = [theme EXCEPT !.rt.status = "error"]
    /\ Published /\ UNCHANGED <<card, chores>>

AbortReceived(o) ==
    /\ o.kind = "stop" /\ o.st = "asked"
    /\ chores' = (chores \ {o}) \cup {[o EXCEPT !.st = "ok"]}
    /\ IF theme.rt.status \in {"starting", "running"}
       THEN theme' = [theme EXCEPT !.rt.status = "aborting"]
       ELSE UNCHANGED theme
    /\ UNCHANGED <<ticker, card, dole>>

ConfigReceived(o) ==
    /\ o.kind \in {"config", "move", "settings"} /\ o.st = "asked"
    /\ theme' = Configured(theme, o.text)
    /\ chores' = (chores \ {o}) \cup {[o EXCEPT !.st = "ok"]}
    /\ UNCHANGED <<ticker, card, dole>>

ModelReceived(o) ==
    /\ o.kind = "model" /\ o.st = "asked"
    /\ theme' = [theme EXCEPT !.key = o.key]
    /\ chores' = (chores \ {o}) \cup {[o EXCEPT !.st = "ok"]}
    /\ UNCHANGED <<ticker, card, dole>>

ConfigElsewhere ==
    /\ May("edits") /\ Spend("edits")
    /\ \E text \in dole.words \cup {None} : theme' = Configured(theme, text)
    /\ UNCHANGED <<ticker, card, chores>>

\* A request that never arrives, or whose answer does not.
Lose(o) ==
    /\ o.st \in {"asked", "taken", "ok"} /\ o.kind # "retry" /\ May("losses") /\ Spend("losses")
    /\ chores' = (chores \ {o}) \cup {[o EXCEPT !.st = "refused"]}
    /\ UNCHANGED <<theme, ticker, card>>

(***************************************************************************)
(* Queries.  A refetch restarts a read in flight; the read of the recorded   *)
(* run looks at the runtime state first and at the record afterwards.        *)
(***************************************************************************)
Resting == [st |-> "idle"]
Asked == [st |-> "asked"]
Mounted(c) == c.sess.config # None
RefetchRt(c) == [c EXCEPT !.rtq = Asked]
RefetchRun(c) == [c EXCEPT !.rnq = Asked]
RefetchBoth(c) == RefetchRun(RefetchRt(c))

\* An invalidated query of a card that is not shown is read when it appears; an
\* answer that was already on its way still takes the mark away ("blind").
InvalidateRun(c) == IF Mounted(c) THEN RefetchRun(c) ELSE c
InvalidateBoth(c) == IF Mounted(c) THEN RefetchBoth(c) 
                     ELSE [c EXCEPT !.old = TRUE, !.blind = c.rtq.st = "served"]
Refresh(c) == [c EXCEPT !.sq = Asked]

Active(c) == c.rt.status \in ActiveStatuses

\* A refetch that execute or stop awaits is over when its read is.
Over(q) == {[o EXCEPT !.wait = @ \ {q}] : o \in chores}

RtServed ==
    /\ card.rtq.st = "asked"
    /\ card' = [card EXCEPT !.rtq = [st |-> "served", data |-> theme.rt], !.blind = FALSE]
    /\ UNCHANGED <<theme, ticker, chores, dole>>

\* A changed runtime state also invalidates the recorded run.
RtArrives ==
    /\ card.rtq.st = "served"
    /\ LET known == [card EXCEPT !.rt = card.rtq.data, !.rtq = Resting, !.rtErr = FALSE, !.old = FALSE]
       IN  card' = IF card.rtq.data # card.rt THEN InvalidateRun(known) ELSE known
    /\ chores' = Over("rt") /\ UNCHANGED <<theme, ticker, dole>>

\* A run whose stop timed out is not taken for the active one.
RunLooked ==
    /\ card.rnq.st = "asked"
    /\ card' = [card EXCEPT !.rnq = [st |-> "looked", run |-> IF theme.rt.status \in ActiveStatuses
                                                              THEN theme.rt.run ELSE None]]
    /\ UNCHANGED <<theme, ticker, chores, dole>>

RunServed ==
    /\ card.rnq.st = "looked"
    /\ card' = [card EXCEPT !.rnq = [st |-> "served", data |-> Recorded(theme.row, card.rnq.run)]]
    /\ UNCHANGED <<theme, ticker, chores, dole>>

RunArrives ==
    /\ card.rnq.st = "served"
    /\ card' = [card EXCEPT !.rn = card.rnq.data, !.rnq = Resting, !.rnErr = FALSE]
    /\ chores' = Over("rn") /\ UNCHANGED <<theme, ticker, dole>>

ReadFails ==
    /\ May("faults") /\ Spend("faults")
    /\ \/ /\ card.rtq.st = "asked" /\ card' = [card EXCEPT !.rtq = Resting, !.rtErr = TRUE]
          /\ chores' = Over("rt")
       \/ /\ card.rnq.st = "asked" /\ card' = [card EXCEPT !.rnq = Resting, !.rnErr = TRUE]
          /\ chores' = Over("rn")
    /\ UNCHANGED <<theme, ticker>>

\* While a run goes on both queries poll.
PollRt ==
    /\ Mounted(card) /\ Active(card) /\ card.rtq.st = "idle" /\ card' = RefetchRt(card)
    /\ UNCHANGED <<theme, ticker, chores, dole>>

PollRun ==
    /\ Mounted(card) /\ Active(card) /\ card.rnq.st = "idle" /\ card' = RefetchRun(card)
    /\ UNCHANGED <<theme, ticker, chores, dole>>

PollSessions ==
    /\ card.sq.st = "idle" /\ May("polls") /\ Spend("polls") /\ card' = Refresh(card)
    /\ UNCHANGED <<theme, ticker, chores>>

SessionsServed ==
    /\ card.sq.st = "asked"
    /\ card' = [card EXCEPT !.sq = [st |-> "served", data |-> [config |-> theme.config, key |-> theme.key]]]
    /\ UNCHANGED <<theme, ticker, chores, dole>>

\* The card appears with its default instruction, goes, or follows a new
\* default while its draft still is the old one.  One that appears reads the
\* runtime state if what it has was invalidated or is old by now (staleTime),
\* and the recorded run in any case.
Followed(c, default) ==
    [c EXCEPT !.draft = IF @ = c.prev THEN default ELSE @, !.prev = default]
StaleRt(c) == IF c.rtq.st = "idle" THEN RefetchRt(c) ELSE c
Fresh(c) ==
    [c EXCEPT !.mount = @ + 1, !.pend = FALSE, !.lock = FALSE, !.adjust = FALSE, !.edit = {}, !.save = FALSE,
              !.retry = None, !.draft = c.sess.config, !.prev = c.sess.config]
SessionsArrive ==
    /\ card.sq.st = "served"
    /\ LET listed == [card EXCEPT !.sess = card.sq.data, !.sq = Resting]
           shown == RefetchRun(Fresh(listed))
       IN  \/ Mounted(card) = Mounted(listed) /\ card' = Followed(listed, listed.sess.config)
           \/ Mounted(card) /\ ~Mounted(listed) /\ card' = Fresh(listed)
           \/ ~Mounted(card) /\ Mounted(listed) /\ card' = StaleRt(shown)
           \/ ~Mounted(card) /\ Mounted(listed) /\ ~card.old /\ card' = shown
    /\ UNCHANGED <<theme, ticker, chores, dole>>

RuntimeEvent ==
    /\ ticker.up /\ ticker.news > 0
    /\ ticker' = [ticker EXCEPT !.news = @ - 1]
    /\ card' = InvalidateBoth(card) /\ UNCHANGED <<theme, chores, dole>>

Disconnect ==
    /\ ticker.up /\ May("drops") /\ Spend("drops")
    /\ ticker' = [up |-> FALSE, news |-> 0] /\ UNCHANGED <<theme, card, chores>>

Reconnect ==
    /\ ~ticker.up
    /\ ticker' = [ticker EXCEPT !.up = TRUE]
    /\ card' = InvalidateBoth(card) /\ UNCHANGED <<theme, chores, dole>>

(***************************************************************************)
(* What the card shows and offers                                           *)
(***************************************************************************)
\* Never the recorded run of an earlier run than the one the runtime names.
ShownRun(c) ==
    LET expected == IF Active(c) THEN c.rt.run ELSE c.rt.completed
    IN  IF expected # None /\ c.rn.run # expected THEN NoRow ELSE c.rn

Uncertain(c) == c.rtErr \/ c.rnErr
Disabled(c) == Active(c) \/ c.pend \/ Uncertain(c) \/ c.sess.key \notin ModelKeys
Editing(c) == c.edit # {} \/ c.adjust
EditText(c) == IF c.edit = {} THEN c.draft ELSE CHOOSE t \in c.edit : TRUE
Closed(c) == [c EXCEPT !.edit = {}, !.adjust = FALSE, !.retry = None]

\* writeRecentInstructions: each once, the newest first, a few of them.
Recent(values) ==
    LET Add(kept, text) == IF text \in ToSet(kept) \cup {None} THEN kept ELSE Append(kept, text)
        once[i \in 0..Len(values)] == IF i = 0 THEN <<>> ELSE Add(once[i - 1], values[i])
    IN  SubSeq(once[Len(values)], 1, Min({RecentCap, Len(once[Len(values)])}))

Chore(kind, text) ==
    [kind |-> kind, st |-> "asked", text |-> text, key |-> None, run |-> None, before |-> None, rev |-> None,
     wait |-> {}, mount |-> card.mount]
Locked(c) == [c EXCEPT !.lock = TRUE, !.pend = TRUE]

OnCard(edited) == card' = edited /\ UNCHANGED <<theme, ticker, chores>>

\* execute: a retry must still be of the run the card shows; saving the default,
\* where asked, comes before the start.
Execute(text, persist) ==
    /\ ~card.lock
    /\ LET moved == /\ card.retry # None
                    /\ \/ ShownRun(card).run # card.retry
                       \/ card.rt.completed \notin {None, card.retry}
           first == IF moved THEN [Chore("settle", text) EXCEPT !.wait = {"rt"}]
                    ELSE Chore(IF persist /\ card.save /\ card.adjust THEN "config" ELSE "start", text)
       IN  /\ chores' = chores \cup {first}
           /\ card' = IF moved THEN RefetchRt(Locked(card)) ELSE Locked(card)
    /\ UNCHANGED <<theme, ticker>>

PressRun ==
    /\ Mounted(card) /\ ~Disabled(card) /\ card.draft # None /\ card.retry = None
    /\ May("presses") /\ Spend("presses") /\ Execute(card.draft, FALSE)

Confirm ==
    /\ Mounted(card) /\ card.adjust /\ ~Disabled(card) /\ EditText(card) # None
    /\ May("presses") /\ Spend("presses") /\ Execute(EditText(card), TRUE)

PressStop ==
    /\ Mounted(card) /\ Active(card) /\ ~card.pend /\ ~Uncertain(card) /\ card.rt.status # "aborting" /\ ~card.lock
    /\ May("stops") /\ Spend("stops")
    /\ card' = Locked(card) /\ chores' = chores \cup {Chore("stop", None)} /\ UNCHANGED <<theme, ticker>>

MoveBack ==
    /\ Mounted(card) /\ ~card.pend /\ ~Active(card) /\ May("moves") /\ Spend("moves")
    /\ card' = [card EXCEPT !.pend = TRUE] /\ chores' = chores \cup {Chore("move", None)}
    /\ UNCHANGED <<theme, ticker>>

PrepareRetry ==
    /\ Mounted(card) /\ ShownRun(card).outcome \in {"failed", "interrupted"}
    /\ ~Disabled(card) /\ ~card.lock /\ May("retries") /\ Spend("retries")
    /\ card' = Locked(card)
    /\ chores' = chores \cup {[Chore("retry", None) EXCEPT !.run = ShownRun(card).run]}
    /\ UNCHANGED <<theme, ticker>>

(***************************************************************************)
(* Answers.  A card that was unmounted meanwhile is not touched, but its     *)
(* execution goes on.                                                       *)
(***************************************************************************)
On(o, c, changed) == IF o.mount = c.mount THEN changed ELSE c
Unlocked(c) == [c EXCEPT !.lock = FALSE, !.pend = FALSE]
Becomes(o, next) == chores' = (chores \ {o}) \cup {next}

ConfigArrives(o) ==
    /\ o.kind = "config" /\ o.st \in {"ok", "refused"}
    /\ IF o.st = "ok" THEN card' = Refresh(card) /\ Becomes(o, [o EXCEPT !.kind = "start", !.st = "asked"])
       ELSE card' = RefetchRt(card) /\ Becomes(o, [o EXCEPT !.kind = "settle", !.wait = {"rt"}])
    /\ UNCHANGED <<theme, ticker, dole>>

Ran(c, text) == [c EXCEPT !.retry = None, !.adjust = FALSE, !.edit = {}, !.draft = text]
StartArrives_NotReread(o) ==
    /\ o.kind = "start" /\ o.st \in {"ok", "refused"}
    /\ IF o.st = "ok"
       THEN /\ card' = RefetchBoth(On(o, [card EXCEPT !.recent = Recent(<<o.text>> \o @)],
                                         Ran([card EXCEPT !.recent = Recent(<<o.text>> \o @)], o.text)))
            /\ Becomes(o, [o EXCEPT !.kind = "settle", !.wait = {"rt", "rn"}])
       ELSE card' = On(o, card, Unlocked(card)) /\ chores' = chores \ {o}
    /\ UNCHANGED <<theme, ticker, dole>>

StartArrives(o) ==
    /\ o.kind = "start" /\ o.st \in {"ok", "refused"}
    /\ IF o.st = "ok"
       THEN /\ card' = RefetchBoth(On(o, [card EXCEPT !.recent = Recent(<<o.text>> \o @)],
                                         Ran([card EXCEPT !.recent = Recent(<<o.text>> \o @)], o.text)))
            /\ Becomes(o, [o EXCEPT !.kind = "settle", !.wait = {"rt", "rn"}])
       ELSE card' = RefetchRt(card) /\ Becomes(o, [o EXCEPT !.kind = "settle", !.wait = {"rt"}])
    /\ UNCHANGED <<theme, ticker, dole>>

StopArrives(o) ==
    /\ o.kind = "stop" /\ o.st \in {"ok", "refused"}
    /\ IF o.st = "ok" THEN card' = RefetchRt(card) /\ Becomes(o, [o EXCEPT !.kind = "settle", !.wait = {"rt"}])
       ELSE card' = On(o, card, Unlocked(card)) /\ chores' = chores \ {o}
    /\ UNCHANGED <<theme, ticker, dole>>

Settled(o) ==
    /\ o.kind = "settle" /\ o.wait = {}
    /\ card' = On(o, card, Unlocked(card)) /\ chores' = chores \ {o}
    /\ UNCHANGED <<theme, ticker, dole>>

MoveArrives(o) ==
    /\ o.kind = "move" /\ o.st \in {"ok", "refused"}
    /\ LET free == On(o, card, [card EXCEPT !.pend = FALSE])
       IN  card' = IF o.st = "ok" THEN Refresh(free) ELSE free
    /\ chores' = chores \ {o} /\ UNCHANGED <<theme, ticker, dole>>

\* readRunInstruction, one page: the run's own request, never a substitute.  The
\* history's revision must not change between pages.
RetryStep(o) ==
    /\ o.kind = "retry"
    /\ LET last == IF o.before = None THEN Len(theme.log) ELSE o.before - 1
           first == IF last > HistoryPage THEN last - HistoryPage + 1 ELSE 1
           found == {i \in first..last : theme.log[i].run = o.run /\ theme.log[i].text # None}
           GiveUp == card' = On(o, card, Unlocked(card)) /\ chores' = chores \ {o}
       IN  \/ /\ o.rev \notin {None, Len(theme.log)} /\ GiveUp
           \/ /\ o.rev \in {None, Len(theme.log)} /\ found # {}
              /\ \E i \in found :
                    card' = On(o, card, [Unlocked(card) EXCEPT !.edit = {theme.log[i].text}, !.save = FALSE,
                                                               !.retry = o.run, !.adjust = TRUE])
              /\ chores' = chores \ {o}
           \/ /\ o.rev \in {None, Len(theme.log)} /\ found = {} /\ first > 1
              /\ Becomes(o, [o EXCEPT !.before = first, !.rev = Len(theme.log)]) /\ UNCHANGED card
           \/ /\ o.rev \in {None, Len(theme.log)} /\ found = {} /\ first <= 1 /\ GiveUp
    /\ UNCHANGED <<theme, ticker, dole>>

(***************************************************************************)
(* The dialogs                                                              *)
(***************************************************************************)
Edit ==
    /\ May("typing") /\ Spend("typing") /\ Mounted(card) /\ ~card.pend
    /\ \/ ~Active(card) /\ OnCard([card EXCEPT !.edit = {card.draft}])
       \/ ~Active(card) /\ OnCard([card EXCEPT !.adjust = TRUE])
       \/ Editing(card) /\ \E text \in Instructions \cup {None} : OnCard([card EXCEPT !.edit = {text}])
       \/ card.adjust /\ OnCard([card EXCEPT !.save = ~@])
       \/ Editing(card) /\ \E text \in ToSet(card.recent) : OnCard([card EXCEPT !.edit = {text}, !.retry = None])
       \/ Editing(card) /\ \E text \in ToSet(card.recent) :
             OnCard([card EXCEPT !.recent = Recent(SelectSeq(@, LAMBDA t : t # text))])
       \/ Editing(card) /\ card.recent # <<>> /\ OnCard([card EXCEPT !.recent = Recent(<<>>)])

SaveDraft ==
    /\ Mounted(card) /\ Editing(card) /\ ~card.pend /\ card.retry = None /\ UNCHANGED dole
    /\ OnCard([card EXCEPT !.draft = EditText(card), !.edit = {}, !.adjust = FALSE])

CloseEdit ==
    /\ Mounted(card) /\ Editing(card) /\ ~card.pend /\ UNCHANGED dole
    /\ OnCard(Closed(card))

NoDialog == [open |-> FALSE]
Picked(c) == [open |-> TRUE, text |-> c.sess.config, key |-> c.sess.key, had |-> c.sess.key, saving |-> FALSE]

\* From the card, or from the list of sessions that are not theme tasks yet.
OpenSettings ==
    /\ ~card.dialog.open /\ (Mounted(card) => ~card.pend /\ ~Active(card)) /\ May("settings") /\ Spend("settings")
    /\ OnCard([card EXCEPT !.dialog = Picked(card)])

EditSettings ==
    /\ card.dialog.open /\ ~card.dialog.saving /\ May("typing") /\ Spend("typing")
    /\ \/ \E text \in Instructions : OnCard([card EXCEPT !.dialog.text = text])
       \/ \E key \in ModelKeys : OnCard([card EXCEPT !.dialog.key = key])

CloseSettings ==
    /\ card.dialog.open /\ ~card.dialog.saving /\ UNCHANGED dole
    /\ OnCard([card EXCEPT !.dialog = NoDialog])

\* The model first, when it changed, then the task.
SaveSettings ==
    /\ card.dialog.open /\ ~card.dialog.saving /\ card.dialog.text # None /\ card.dialog.key \in ModelKeys
    /\ card' = [card EXCEPT !.dialog.saving = TRUE]
    /\ chores' = chores \cup {[Chore(IF card.dialog.key # card.dialog.had THEN "model" ELSE "settings",
                                     card.dialog.text) EXCEPT !.key = card.dialog.key]}
    /\ UNCHANGED <<theme, ticker, dole>>

SettingsArrive(o) ==
    /\ o.kind \in {"model", "settings"} /\ o.st \in {"ok", "refused"}
    /\ \/ /\ o.st = "refused" /\ card' = [card EXCEPT !.dialog.saving = FALSE] /\ chores' = chores \ {o}
       \/ /\ o.st = "ok" /\ o.kind = "model" /\ Becomes(o, [o EXCEPT !.kind = "settings", !.st = "asked"])
          /\ UNCHANGED card
       \/ /\ o.st = "ok" /\ o.kind = "settings" /\ card' = Refresh([card EXCEPT !.dialog = NoDialog])
          /\ chores' = chores \ {o}
    /\ UNCHANGED <<theme, ticker, dole>>

(***************************************************************************)
(* Specification and properties                                             *)
(***************************************************************************)
ThemeInit ==
    \E start \in ThemeOpenings :
       /\ theme = [config |-> start.config, key |-> start.key, rt |-> Idle(start.row.run), row |-> start.row,
                   tracked |-> None, start |-> NoStart, mine |-> {}, count |-> start.row.run, log |-> start.log]
       /\ ticker = [up |-> TRUE, news |-> 0]
       /\ card = [sess |-> [config |-> start.config, key |-> start.key], sq |-> Resting,
                  rt |-> Idle(start.row.run), rtq |-> Resting, rtErr |-> FALSE, old |-> FALSE, blind |-> FALSE,
                  rn |-> start.row, rnq |-> Resting, rnErr |-> FALSE,
                  mount |-> 0, pend |-> FALSE, lock |-> FALSE, adjust |-> FALSE, draft |-> start.config,
                  prev |-> start.config, edit |-> {}, save |-> FALSE, recent |-> start.recent, retry |-> None,
                  dialog |-> NoDialog]
       /\ chores = {}
       /\ dole = start.dole

ThemeHub ==
    \/ StartElsewhere \/ RuntimeCreated \/ RunSubmitted \/ StartFails \/ RunCompletes \/ AbortTimesOut
    \/ ConfigElsewhere
    \/ \E o \in chores : \/ StartReceived(o) \/ AbortReceived(o) \/ ConfigReceived(o) \/ ModelReceived(o) \/ Lose(o)
ThemeReads ==
    \/ RtServed \/ RtArrives \/ RunLooked \/ RunServed \/ RunArrives \/ ReadFails \/ PollRt \/ PollRun
    \/ PollSessions \/ SessionsServed \/ SessionsArrive \/ RuntimeEvent \/ Disconnect \/ Reconnect
ThemeCard ==
    \/ PressRun \/ Confirm \/ PressStop \/ MoveBack \/ PrepareRetry
    \/ Edit \/ SaveDraft \/ CloseEdit \/ OpenSettings \/ EditSettings \/ CloseSettings \/ SaveSettings
    \/ \E o \in chores : \/ ConfigArrives(o) \/ StartArrives(o) \/ StopArrives(o) \/ Settled(o) \/ MoveArrives(o)
                         \/ RetryStep(o) \/ SettingsArrive(o)
ThemeNext == ThemeHub \/ ThemeReads \/ ThemeCard

\* Between runs, with the connection up, every event handled, no read pending or
\* failed and no run shown as going on (such a card polls), the card shows the
\* recorded run the hub has.  This is what the order "report stored, session
\* idle, event published" and the refetches on events, reconnections and runtime
\* changes are for; an idle card does not poll.  A run that failed before it was
\* submitted publishes nothing and is left out, and so is a card taken away while
\* a read was being answered, when the run ended after the answer was given: it
\* reappears with that answer, and takes it for fresh.
CardCurrent ==
    LET quiet == /\ Mounted(card) /\ theme.rt.status = "idle" /\ theme.row.launched
                 /\ ticker.up /\ ticker.news = 0
                 /\ card.rtq.st = "idle" /\ card.rnq.st = "idle" /\ ~Uncertain(card) /\ ~Active(card)
                 /\ ~card.blind
    IN  quiet => ShownRun(card) = ShownRun([card EXCEPT !.rt = theme.rt, !.rn = theme.row])

\* A card never asks for a run while one it asked for before still occupies the
\* session: after an answer that was lost, the runtime state is read again before
\* the buttons come back, and an unreadable state keeps them disabled.  The one
\* exception: once a stop has timed out the runtime state is "error", the card
\* that read it takes the run for interrupted and offers another, which the hub
\* refuses as long as the first goes on.  A card that was taken away and given
\* back meanwhile is another card: its lock is new.
NeverRepeats ==
    \A o \in chores' \ chores :
        /\ o.kind \in {"start", "config"} /\ o.st = "asked"
        /\ o.mount \in theme.mine /\ theme.rt.status # "idle"
        => card.rt.status = "error"
=============================================================================
