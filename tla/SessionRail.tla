----------------------------- MODULE SessionRail ----------------------------
(***************************************************************************)
(* The session rail (webui/src/components/SessionRail.tsx): which sessions  *)
(* it marks as finished and for how long, which of them a project drawer    *)
(* shows, and the rename and delete strips of a row.                        *)
(*                                                                         *)
(* Runtime states reach the page as events in order and as answers of a     *)
(* poll, which an event can overtake.  The page is reloaded at any time and *)
(* keeps what it wrote to localStorage.                                     *)
(***************************************************************************)
EXTENDS Integers, Sequences, FiniteSets, SequencesExt, FiniteSetsExt

CONSTANTS
    RailSessions,  \* session ids, integers from 1
    PreviewLimit,  \* GROUP_PREVIEW_LIMIT
    RailOpenings   \* the sessions at the start, and how often things happen

VARIABLES
    hubRuns,   \* session -> its runtime state at the server
    mail,      \* runtime events on their way
    poll,      \* the answer of the runtimes poll on its way
    runtimes,  \* session -> its runtime state as the page knows it
    rows,      \* session -> its project (0: free), title and last activity; known sessions only
    rail,      \* state and refs of the component
    disk,      \* what it keeps in localStorage
    acked,     \* session -> last run whose completion the user saw, and whether it ran since
    moves

railVars == <<hubRuns, mail, poll, runtimes, rows, rail, disk, acked, moves>>

Unknown == [st |-> "unknown", done |-> 0]
Mounted(d, cur, shut) ==
    [shut |-> shut, terminal |-> d.terminal, seen |-> d.seen, collapsed |-> d.collapsed, showAll |-> d.showAll,
     pinned |-> d.pinned, previous |-> [s \in RailSessions |-> "unknown"],
     activity |-> [g \in {0, 1} |-> -1],
     current |-> cur, editing |-> 0, title |-> 0, saving |-> 0, confirm |-> 0, deleting |-> 0]

RailInit ==
    \E start \in RailOpenings :
        /\ hubRuns = [s \in RailSessions |-> [st |-> "idle", run |-> 0, done |-> 0]]
        /\ mail = <<>>
        /\ poll = <<>>
        /\ runtimes = [s \in RailSessions |-> Unknown]
        /\ rows = start.rows
        /\ disk = [terminal |-> [s \in RailSessions |-> "none"], seen |-> [s \in RailSessions |-> 0],
                   collapsed |-> {}, showAll |-> {}, pinned |-> <<>>]
        /\ rail = Mounted(disk, start.current, start.shut)
        /\ acked = [s \in RailSessions |-> [run |-> 0, again |-> FALSE]]
        /\ moves = start.moves

Allowed(what) == moves[what] > 0
Made(what) == moves' = [moves EXCEPT ![what] = @ - 1]

(***************************************************************************)
(* Order, groups and what a group shows.                                    *)
(***************************************************************************)
Known == DOMAIN rows
GroupOf(r, s) == r[s].project
Groups(r) == {GroupOf(r, s) : s \in DOMAIN r}
InGroup(r, g) == {s \in DOMAIN r : GroupOf(r, s) = g}

\* sessionRecencyMs, latest first; ids break the ties as the server's order does.
Later(r, a, b) == r[a].at > r[b].at \/ (r[a].at = r[b].at /\ a < b)
Ordered(r, g) == SetToSortSeq(InGroup(r, g), LAMBDA a, b : Later(r, a, b))
LatestOf(r, g) == Max({r[s].at : s \in InGroup(r, g)})

\* Pinned groups first in their order, the others by latest activity.
SessionGroups(r, pinned) ==
    LET place(g) == SelectInSeq(pinned, LAMBDA x : x = g)
        before(a, b) == CASE place(a) # 0 /\ place(b) # 0 -> place(a) < place(b)
                          [] place(a) = 0 /\ place(b) = 0 ->
                                 LatestOf(r, a) > LatestOf(r, b) \/ (LatestOf(r, a) = LatestOf(r, b) /\ a < b)
                          [] OTHER -> place(a) # 0
    IN  SetToSortSeq(Groups(r), before)

\* sessionPreview: the latest ones, with the current one in the last place
\* when it is not among them.
SessionPreview(seq, current, limit) ==
    LET preview == SubSeq(seq, 1, IF Len(seq) < limit THEN Len(seq) ELSE limit)
    IN  IF current \in Range(preview) \/ current \notin Range(seq) THEN preview
        ELSE Append(SubSeq(preview, 1, limit - 1), current)

HasProjects(r) == Groups(r) \ {0} # {}
Expandable(r, g) == HasProjects(r) /\ Cardinality(InGroup(r, g)) > PreviewLimit
Visible(r, c, g) ==
    IF ~HasProjects(r) THEN Ordered(r, g)
    ELSE IF g \in c.collapsed THEN <<>>
    ELSE IF Expandable(r, g) /\ g \in c.showAll THEN Ordered(r, g)
    ELSE SessionPreview(Ordered(r, g), c.current, PreviewLimit)

ShownRows(r, c) ==
    LET groups == SessionGroups(r, c.pinned)
    IN  FlattenSeq([i \in DOMAIN groups |-> Visible(r, c, groups[i])])

DisplayState(s) ==
    IF runtimes[s].st = "active" \/ rail.terminal[s] = "none" THEN runtimes[s].st
    ELSE rail.terminal[s]

\* The dots beside the folded rail: the three latest sessions worth a look.
Recent(r) == SetToSortSeq(DOMAIN r, LAMBDA a, b : Later(r, a, b))
AttentionSessions ==
    LET worth == SelectSeq(Recent(rows), LAMBDA s : DisplayState(s) \in {"active", "completed", "error"})
    IN  Range(SubSeq(worth, 1, IF Len(worth) < 3 THEN Len(worth) ELSE 3))

\* The controls of a row on the screen and of a drawer's header and foot.
RowOffers(s) ==
    LET shown == ~rail.shut /\ s \in Range(ShownRows(rows, rail))
    IN  [select |-> shown /\ rail.editing # s,
         title |-> shown /\ rail.editing = s /\ rail.saving # s,
         delete |-> shown /\ rail.editing # s /\ DisplayState(s) # "active" /\ rail.deleting # s,
         confirm |-> shown /\ rail.confirm = s /\ rail.deleting # s]
GroupOffers(g) ==
    LET header == ~rail.shut /\ HasProjects(rows) /\ g \in Groups(rows)
    IN  [header |-> header,
         showAll |-> header /\ g \notin rail.collapsed /\ Expandable(rows, g)]

Terminal_SeenBusyOnly(c, rts, s) ==
    LET now == rts[s].st
        was == c.previous[s]
    IN  CASE now = "active" -> "none"
          [] now = "error" /\ was = "active" -> "error"
          [] now = "idle" /\ was = "active" -> "completed"
          [] OTHER -> c.terminal[s]

(***************************************************************************)
(* The effects after a render.                                              *)
(***************************************************************************)
Terminal(c, rts, s) ==
    LET now == rts[s].st
        was == c.previous[s]
    IN  CASE now = "active" -> "none"
          [] now = "error" /\ was = "active" -> "error"
          [] now = "idle" /\ rts[s].done # 0 /\ c.seen[s] # rts[s].done -> "completed"
          [] now = "idle" /\ was = "active" -> "completed"
          [] OTHER -> c.terminal[s]

\* The terminal marks are brought up to date, and a group whose sessions
\* became active falls back from showing all to its preview.
Effects(c, rts, r) ==
    LET terminal == [s \in RailSessions |-> IF s \in DOMAIN r THEN Terminal(c, rts, s) ELSE c.terminal[s]]
        activity == [g \in {0, 1} |-> IF g \in Groups(r) THEN LatestOf(r, g) ELSE -1]
        risen == {g \in Groups(r) : c.activity[g] # -1 /\ activity[g] > c.activity[g]}
    IN  [c EXCEPT !.terminal = terminal,
                  !.previous = [s \in RailSessions |->
                                   IF s \in DOMAIN r THEN rts[s].st ELSE c.previous[s]],
                  !.activity = activity,
                  !.showAll = @ \ risen]

\* localStorage is written only by the branches that change something.
Kept(d, c, e) ==
    [d EXCEPT !.terminal = IF e.terminal = c.terminal THEN @ ELSE e.terminal,
              !.showAll = IF e.showAll = c.showAll THEN @ ELSE e.showAll]

Rerender(c, d, rts, r) ==
    \E e \in {Effects(c, rts, r)} :
        /\ rail' = e
        /\ disk' = Kept(d, c, e)
        /\ runtimes' = rts
        /\ rows' = r

(***************************************************************************)
(* The server and what reaches the page.                                    *)
(***************************************************************************)
Frame(s, st) == [s |-> s, rt |-> [st |-> st.st, done |-> st.done]]
Moved(s, st) ==
    /\ hubRuns' = [hubRuns EXCEPT ![s] = st]
    /\ mail' = Append(mail, Frame(s, st))

\* A run starts, ends however it ended, or fails to stop in time.
RunMoves(s) ==
    /\ Allowed("runs") /\ s \in Known
    /\ \/ /\ hubRuns[s].st = "idle"
          /\ Moved(s, [st |-> "active", run |-> hubRuns[s].run + 1, done |-> 0])
       \/ /\ hubRuns[s].st # "idle"
          /\ Moved(s, [hubRuns[s] EXCEPT !.st = "idle", !.done = hubRuns[s].run])
       \/ /\ hubRuns[s].st = "active"
          /\ Moved(s, [hubRuns[s] EXCEPT !.st = "error"])
    /\ Made("runs")
    /\ UNCHANGED <<poll, runtimes, rows, rail, disk, acked>>

\* Whether the page has seen the session busy, or another run done, since.
Busier(rt, run) == rt.st \in {"active", "error"} \/ rt.done \notin {0, run}
Reseen(rts) ==
    acked' = [s \in RailSessions |->
                 [acked[s] EXCEPT !.again = @ \/ Busier(rts[s], acked[s].run)]]

EventLands ==
    /\ mail # <<>>
    /\ \E rts \in {[runtimes EXCEPT ![Head(mail).s] = Head(mail).rt]} :
           Rerender(rail, disk, rts, rows) /\ Reseen(rts)
    /\ mail' = Tail(mail)
    /\ UNCHANGED <<hubRuns, poll, moves>>

PollServed ==
    /\ Allowed("polls") /\ poll = <<>>
    /\ poll' = [s \in RailSessions |-> Frame(s, hubRuns[s]).rt]
    /\ Made("polls")
    /\ UNCHANGED <<hubRuns, mail, runtimes, rows, rail, disk, acked>>

PollLands ==
    /\ poll # <<>>
    /\ Rerender(rail, disk, poll, rows)
    /\ Reseen(poll)
    /\ poll' = <<>>
    /\ UNCHANGED <<hubRuns, mail, moves>>

\* A list of sessions arrives in which one of them was active again.
RowRises(s) ==
    /\ Allowed("rises") /\ s \in Known
    /\ Rerender(rail, disk, runtimes, [rows EXCEPT ![s].at = 1 + Max({rows[x].at : x \in Known})])
    /\ Made("rises")
    /\ UNCHANGED <<hubRuns, mail, poll, acked>>

(***************************************************************************)
(* The user.                                                                *)
(***************************************************************************)
\* acknowledgeSession: the completed run is noted as seen, the mark goes
\* from the page and from storage.
Acknowledged(c, rts, s) ==
    IF s \notin RailSessions THEN c
    ELSE [c EXCEPT !.seen[s] = IF rts[s].done = 0 THEN @ ELSE rts[s].done, !.terminal[s] = "none"]
AckStored(d, rts, s) ==
    IF s \notin RailSessions THEN d
    ELSE [d EXCEPT !.seen[s] = IF rts[s].done = 0 THEN @ ELSE rts[s].done, !.terminal[s] = "none"]
NoteSeen(who) ==
    acked' = [s \in RailSessions |->
                 IF s \notin who THEN acked[s]
                 ELSE [run |-> IF runtimes[s].done = 0 THEN acked[s].run ELSE runtimes[s].done,
                       again |-> runtimes[s].st \in {"active", "error"}]]

\* A press anywhere closes the strip that asks before a delete, unless the
\* press is on it or the delete is on its way.
Dismissed(c) == [c EXCEPT !.confirm = IF c.deleting = 0 THEN 0 ELSE @]

\* What every press does first: the current session counts as seen.
Press(c) == Acknowledged(c, runtimes, rail.current)
PressStored == AckStored(disk, runtimes, rail.current)

\* A press outside leaves the title field, which FinishRename handles first.
Left == rail.editing = 0 \/ rail.saving # 0

\* A press, a key, the wheel or the window's focus, with no other effect.
AcknowledgeCurrent ==
    /\ Allowed("touches") /\ rail.current # 0
    /\ Rerender(Press(rail), PressStored, runtimes, rows)
    /\ NoteSeen({rail.current})
    /\ Made("touches")
    /\ UNCHANGED <<hubRuns, mail, poll>>

\* A row, or one of the dots beside the folded rail.
SelectSession(s) ==
    /\ Allowed("touches") /\ s \in Known /\ Left
    /\ RowOffers(s).select \/ (rail.shut /\ s \in AttentionSessions)
    /\ \E c \in {[Acknowledged(Dismissed(Press(rail)), runtimes, s) EXCEPT !.current = s]} :
           Rerender(c, AckStored(PressStored, runtimes, s), runtimes, rows)
    /\ NoteSeen({rail.current, s})
    /\ Made("touches")
    /\ UNCHANGED <<hubRuns, mail, poll>>

Toggle ==
    /\ Allowed("toggles") /\ Left
    /\ Rerender([Dismissed(Press(rail)) EXCEPT !.shut = ~@], PressStored, runtimes, rows)
    /\ NoteSeen({rail.current})
    /\ Made("toggles")
    /\ UNCHANGED <<hubRuns, mail, poll>>

Reload ==
    /\ Allowed("reloads")
    /\ rail' = Effects(Mounted(disk, rail.current, TRUE), [s \in RailSessions |-> Unknown], rows)
    /\ runtimes' = [s \in RailSessions |-> Unknown]
    /\ mail' = <<>>
    /\ poll' = [s \in RailSessions |-> Frame(s, hubRuns[s]).rt]
    /\ Made("reloads")
    /\ UNCHANGED <<hubRuns, rows, disk, acked>>

\* The chevron: collapsed <-> preview, never straight back to showing all.
ToggleGroup(g) ==
    /\ Allowed("groups") /\ GroupOffers(g).header /\ Left
    /\ \E c \in {[Dismissed(Press(rail)) EXCEPT !.collapsed = IF g \in @ THEN @ \ {g} ELSE @ \cup {g},
                                                !.showAll = @ \ {g}]} :
           Rerender(c, [PressStored EXCEPT !.collapsed = c.collapsed, !.showAll = c.showAll], runtimes, rows)
    /\ NoteSeen({rail.current})
    /\ Made("groups")
    /\ UNCHANGED <<hubRuns, mail, poll>>

ToggleGroupShowAll(g) ==
    /\ Allowed("groups") /\ GroupOffers(g).showAll /\ Left
    /\ \E all \in {IF g \in rail.showAll THEN rail.showAll \ {g} ELSE rail.showAll \cup {g}} :
           Rerender([Dismissed(Press(rail)) EXCEPT !.showAll = all], [PressStored EXCEPT !.showAll = all],
                    runtimes, rows)
    /\ NoteSeen({rail.current})
    /\ Made("groups")
    /\ UNCHANGED <<hubRuns, mail, poll>>

TogglePin(g) ==
    /\ Allowed("pins") /\ GroupOffers(g).header /\ Left
    /\ \E next \in {IF g \in Range(rail.pinned) THEN SelectSeq(rail.pinned, LAMBDA x : x # g)
                    ELSE <<g>> \o rail.pinned} :
           Rerender([Dismissed(Press(rail)) EXCEPT !.pinned = next], [PressStored EXCEPT !.pinned = next],
                    runtimes, rows)
    /\ NoteSeen({rail.current})
    /\ Made("pins")
    /\ UNCHANGED <<hubRuns, mail, poll>>

\* A double click, whose first click has selected the session.
BeginRename(s) ==
    /\ Allowed("renames") /\ s \in Known /\ Left /\ rail.current = s /\ RowOffers(s).select
    /\ Rerender([Dismissed(Press(rail)) EXCEPT !.editing = s, !.title = rows[s].title],
                PressStored, runtimes, rows)
    /\ NoteSeen({s})
    /\ UNCHANGED <<hubRuns, mail, poll, moves>>

\* The title is edited and the field left; while another rename is being
\* saved the field stays open.
FinishRename(t) ==
    /\ rail.editing \in Known /\ RowOffers(rail.editing).title /\ rail.saving = 0
    /\ Rerender([Press(rail) EXCEPT !.editing = 0, !.title = t,
                                    !.saving = IF t = rows[rail.editing].title THEN 0 ELSE rail.editing],
                PressStored, runtimes, rows)
    /\ NoteSeen({rail.current})
    /\ Made("renames")
    /\ UNCHANGED <<hubRuns, mail, poll>>

CancelRename ==
    /\ rail.editing \in Known /\ RowOffers(rail.editing).title
    /\ Rerender([Dismissed(Press(rail)) EXCEPT !.editing = 0], PressStored, runtimes, rows)
    /\ NoteSeen({rail.current})
    /\ UNCHANGED <<hubRuns, mail, poll, moves>>

\* The page has patched the list, or reported a failure.
RenameLands(ok) ==
    /\ rail.saving # 0
    /\ Rerender([rail EXCEPT !.saving = 0], disk, runtimes,
                IF ok /\ rail.saving \in Known THEN [rows EXCEPT ![rail.saving].title = rail.title] ELSE rows)
    /\ UNCHANGED <<hubRuns, mail, poll, acked, moves>>

AskDelete(s) ==
    /\ Allowed("deletes") /\ s \in Known /\ Left /\ RowOffers(s).delete
    /\ Rerender([Press(rail) EXCEPT !.confirm = s], PressStored, runtimes, rows)
    /\ NoteSeen({rail.current})
    /\ Made("deletes")
    /\ UNCHANGED <<hubRuns, mail, poll>>

DismissDelete ==
    /\ rail.confirm # 0 /\ rail.deleting = 0
    /\ Rerender(Dismissed(Press(rail)), PressStored, runtimes, rows)
    /\ NoteSeen({rail.current})
    /\ UNCHANGED <<hubRuns, mail, poll, moves>>

RemoveSession ==
    /\ rail.confirm \in Known /\ RowOffers(rail.confirm).confirm /\ Left
    /\ rail.deleting = 0 /\ runtimes[rail.confirm].st # "active"
    /\ Rerender([Press(rail) EXCEPT !.deleting = rail.confirm], PressStored, runtimes, rows)
    /\ NoteSeen({rail.current})
    /\ UNCHANGED <<hubRuns, mail, poll, moves>>

\* The server deletes a session only when no run holds it; a failure leaves
\* the strip.  The page goes on to the first session left.
DeleteLands ==
    /\ rail.deleting \in Known
    /\ LET s == rail.deleting
           gone == hubRuns[s].st = "idle"
           rest == [x \in Known \ {s} |-> rows[x]]
           onward == IF rest = <<>> THEN 0 ELSE Recent(rest)[1]
       IN  Rerender([rail EXCEPT !.deleting = 0, !.confirm = IF gone THEN 0 ELSE @,
                                 !.current = IF gone /\ @ = s THEN onward ELSE @],
                    disk, runtimes, IF gone THEN rest ELSE rows)
    /\ UNCHANGED <<hubRuns, mail, poll, acked, moves>>

RailNext ==
    \/ EventLands \/ PollServed \/ PollLands \/ Reload \/ AcknowledgeCurrent \/ Toggle
    \/ CancelRename \/ DismissDelete \/ RemoveSession \/ DeleteLands
    \/ \E s \in RailSessions :
           RunMoves(s) \/ RowRises(s) \/ SelectSession(s) \/ BeginRename(s) \/ AskDelete(s)
    \/ \E g \in {0, 1} : ToggleGroup(g) \/ ToggleGroupShowAll(g) \/ TogglePin(g)
    \/ \E t \in {1, 2} : FinishRename(t)
    \/ \E ok \in BOOLEAN : RenameLands(ok)

(***************************************************************************)
(* Properties.                                                              *)
(***************************************************************************)
Current(s) == runtimes[s] = Frame(s, hubRuns[s]).rt

\* A finished run stays marked until the user has looked at its session:
\* through events and polls in any order and through reloads, a session the
\* page knows to be idle after a run nobody acknowledged is shown as completed.
CompletionsStay ==
    \A s \in Known :
        Current(s) /\ runtimes[s].st = "idle" /\ runtimes[s].done # 0
            /\ acked[s].run # runtimes[s].done => DisplayState(s) = "completed"

\* An acknowledged completion does not come back: unless the page has since
\* seen the session busy or another run done, neither a poll nor a reload marks that run again.
AcknowledgedStays ==
    \A s \in Known :
        (runtimes[s].done # 0 /\ acked[s].run = runtimes[s].done /\ ~acked[s].again) =>
            DisplayState(s) # "completed"

\* No row is on the screen twice; the current session is always among the
\* rows of its drawer unless the user closed it, and no drawer is stored as
\* closed and showing all at once.
CurrentIsVisible ==
    /\ IsInjective(ShownRows(rows, rail))
    /\ rail.collapsed \cap rail.showAll = {} /\ disk.collapsed \cap disk.showAll = {}
    /\ (rail.current \in Known /\ GroupOf(rows, rail.current) \notin rail.collapsed) =>
           rail.current \in Range(ShownRows(rows, rail))
=============================================================================
