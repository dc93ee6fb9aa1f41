---------------------------- MODULE ThemeHistory ----------------------------
(***************************************************************************)
(* What a theme task's card shows of its session: the process of the current *)
(* run (webui/src/components/ThemeTaskHistory.tsx) and the conversation,      *)
(* question by question (ThemeConversationHistory.tsx).  Both read the       *)
(* session's archive page by page, follow its socket, and are kept when the   *)
(* user turns to another tab.  An archive item is a role, a run and the        *)
(* version of its text; its ordinal is its position.                         *)
(***************************************************************************)
EXTENDS Integers, Sequences, FiniteSets, FiniteSetsExt, SequencesExt, TLC

CONSTANTS
    PageItems,         \* items in a page of the archive (60 in the code)
    MaxRounds,         \* rounds of a run the agent may archive
    LiveFrom,          \* above every ordinal: sections that are not archived
    HistoryOpenings    \* archives, and how often things happen

VARIABLES
    archive,   \* the session's archive and its running run
    frames,    \* the socket of the tab shown
    tab,       \* the tab shown, the run the card names, which viewer has been opened
    talk,      \* the conversation viewer
    line,      \* the current run's viewer
    ration     \* how often each thing may still happen

historyVars == <<archive, frames, tab, talk, line, ration>>

None == 0
Can(what) == ration[what] > 0
Take(what) == ration' = [ration EXCEPT ![what] = @ - 1]

(***************************************************************************)
(* The archive.  A rewind truncates it; the next run to begin gives what is    *)
(* left a new generation.                                                    *)
(***************************************************************************)
Item(ord) == [ord |-> ord, role |-> archive.items[ord].role, run |-> archive.items[ord].run,
              ver |-> archive.items[ord].ver, gen |-> archive.gen]
Total == Len(archive.items)

\* One page: the items below a cursor (0: the latest), with the question of the
\* answer it would begin with, and whether there are more.
ArchivePage(before) ==
    LET last == IF before = None THEN Total ELSE Min({before - 1, Total})
        cut == IF last > PageItems THEN last - PageItems + 1 ELSE 1
        orphan == cut \in 2..last /\ archive.items[cut].role = "assistant" /\ archive.items[cut - 1].role = "user"
        first == IF orphan THEN cut - 1 ELSE cut
    IN  [items |-> {Item(ord) : ord \in first..last}, more |-> first > 1,
         next |-> IF first > 1 THEN first ELSE None, total |-> Total]

Event(kind) == [kind |-> kind, run |-> archive.run]
Sent(kind) == frames' = IF frames.on THEN [frames EXCEPT !.queue = Append(@, Event(kind))] ELSE frames

RunBegins ==
    /\ archive.run = None /\ Can("runs") /\ Take("runs")
    /\ archive' = [archive EXCEPT !.run = archive.count + 1, !.count = @ + 1, !.answers = 0,
                                  !.gen = IF archive.cut THEN @ + 1 ELSE @, !.cut = FALSE]
    /\ frames' = IF frames.on THEN [frames EXCEPT !.queue = Append(@, [kind |-> "live", run |-> archive.count + 1])]
                 ELSE frames
    /\ UNCHANGED <<tab, talk, line>>

\* A completed round.  The first opens a question and its answer, or an answer
\* alone when nothing is left of the question (a file hint).  A later one, asked
\* by a control prompt, is folded into the last answer; a prompt that is not
\* recognised as one opens a question of its own.
New(role) == [role |-> role, run |-> archive.run, ver |-> 1]
Round == archive.run # None /\ archive.answers < MaxRounds
Archived(items) ==
    /\ archive' = [archive EXCEPT !.answers = @ + 1, !.items = items]
    /\ UNCHANGED <<frames, tab, talk, line>>

RunAnswers ==
    /\ Round /\ archive.answers = 0 /\ UNCHANGED ration
    /\ Archived(archive.items \o <<New("user"), New("assistant")>>)

RunFolds ==
    /\ Round /\ archive.answers > 0 /\ UNCHANGED ration
    /\ Archived([archive.items EXCEPT ![Total].ver = @ + 1])

RunSplits ==
    /\ Round /\ Can("splits") /\ Take("splits")
    /\ Archived(archive.items \o IF archive.answers = 0 THEN <<New("assistant")>>
                                 ELSE <<New("user"), New("assistant")>>)

RunEnds ==
    /\ archive.run # None /\ archive.answers > 0
    /\ archive' = [archive EXCEPT !.run = None]
    /\ Sent("done") /\ UNCHANGED <<tab, talk, line, ration>>

Rewind ==
    /\ archive.run = None /\ Can("rewinds") /\ Take("rewinds")
    /\ \E ord \in 1..Total :
          /\ archive.items[ord].role = "user"
          /\ archive' = [archive EXCEPT !.items = SubSeq(@, 1, ord - 1), !.cut = TRUE]
    /\ Sent("rewound") /\ UNCHANGED <<tab, talk, line>>

\* A new socket starts with a snapshot of the run going on.
Opened == [on |-> TRUE,
           queue |-> IF archive.run # None THEN <<[kind |-> "live", run |-> archive.run]>> ELSE <<>>]
Shut == [on |-> FALSE, queue |-> <<>>]

(***************************************************************************)
(* Loading.  A request aborts the one before it.  Its first page decides      *)
(* whether the archive is another one than the pages kept from earlier.       *)
(***************************************************************************)
NoRequest == [st |-> "none"]
Load(before, from) ==
    [st |-> "asked", before |-> before, cursor |-> before, from |-> from, run |-> tab.run,
     first |-> TRUE, acc |-> {}, fresh |-> {}, users |-> 0, changed |-> FALSE, torn |-> FALSE, total |-> 0]
Plain == Load(None, None)

Users(items) == {i \in items : i.role = "user"}
\* Items are kept by id: an answer that grew since is another item.
Id(i) == [ord |-> i.ord, role |-> i.role, run |-> i.run, ver |-> i.ver]
Over(old, items) == items \cup {i \in old : \A j \in items : Id(j) # Id(i)}
Another_Never(v, page) == FALSE

Another(v, page) ==
    \/ v.known /\ page.total < v.total
    \/ \E i \in page.items, j \in v.items : i.gen # j.gen

PageServed(v) == [v EXCEPT !.req = [@ EXCEPT !.st = "served"] @@ [page |-> ArchivePage(v.req.cursor)]]

\* What the request has gathered once its page is there.
Gathered(v) ==
    LET req == v.req
        changed == IF req.first THEN Another(v, req.page) ELSE req.changed
        old == IF changed THEN {} ELSE v.items
        base == IF req.first THEN old ELSE req.acc
    IN  [req EXCEPT !.changed = changed, !.acc = Over(base, req.page.items),
                    !.fresh = @ \cup req.page.items,
                    !.users = IF req.first THEN Cardinality(Users(old)) ELSE @, !.first = FALSE,
                    !.torn = @ \/ (~req.first /\ req.page.total < req.total), !.total = req.page.total]

\* The next page is asked for while this one does not suffice.
Onward(v, got) == [v EXCEPT !.req = [st |-> "asked", before |-> got.before, cursor |-> got.page.next,
                                     from |-> got.from, run |-> got.run, first |-> FALSE, acc |-> got.acc,
                                     fresh |-> got.fresh, users |-> got.users, changed |-> got.changed,
                                     torn |-> got.torn, total |-> got.total]]

\* What both viewers keep of a finished request.
Kept(v, got) ==
    [v EXCEPT !.items = got.acc, !.total = got.page.total, !.known = TRUE, !.req = NoRequest, !.failed = FALSE,
              !.missed = @ /\ got.before # None, !.gap = got.torn \/ (@ /\ ~got.changed),
              !.live = IF got.changed THEN {} ELSE @]

(***************************************************************************)
(* The conversation, question by question                                    *)
(***************************************************************************)
\* A section is a question: an archived one, or a run the socket told of, which
\* stays beside its archived question once that is read.
Questions(v) == {i.ord : i \in Users(v.items)} \cup {LiveFrom + r : r \in v.live}
Shown(v) == IF v.sel \in Questions(v) THEN v.sel
            ELSE IF Questions(v) = {} THEN None ELSE Max(Questions(v))
Before(qs, q) == {p \in qs : p < q}
After(qs, q) == {p \in qs : p > q}

\* A first load needs a question, a step back one question more.
Suffices(got) ==
    \/ ~got.page.more
    \/ IF got.before = None THEN Users(got.acc) # {} ELSE Cardinality(Users(got.acc)) > got.users

\* A step back selects the archived question before the one shown.
Stepped(v, got, asked) ==
    IF got.before = None THEN v
    ELSE IF got.from \in asked /\ Before(asked, got.from) # {} THEN [v EXCEPT !.sel = Max(Before(asked, got.from))]
    ELSE IF got.from = None /\ asked # {} THEN [v EXCEPT !.sel = Max(asked)]
    ELSE v
\* Unread items between the pages kept and the ones just read.
Hole(old, fresh) ==
    \E i \in fresh : (\A j \in fresh : i.ord <= j.ord) /\ (\A j \in old : j.ord < i.ord - 1)
\* A refresh keeps the cursor of the pages already read.
TalkLoaded(v, got) ==
    LET refresh == got.before = None /\ v.known /\ ~got.changed
        kept == [Kept(v, got) EXCEPT
                   !.more = IF refresh THEN @ ELSE got.page.more,
                   !.cursor = IF refresh THEN @ ELSE got.page.next,
                   !.sel = IF got.changed THEN None ELSE @,
                   !.gap = @ \/ (refresh /\ Hole(v.items, got.fresh))]
    IN  Stepped(kept, got, {i.ord : i \in Users(got.acc)})

TalkArrives(v, got) == IF Suffices(got) THEN TalkLoaded(v, got) ELSE Onward(v, got)

TalkServed ==
    /\ talk.req.st = "asked" /\ talk' = PageServed(talk) /\ UNCHANGED <<archive, frames, tab, line, ration>>
TalkPage ==
    /\ talk.req.st = "served" /\ talk' = TalkArrives(talk, Gathered(talk))
    /\ UNCHANGED <<archive, frames, tab, line, ration>>

Previous ==
    /\ tab.shown = "history" /\ talk.req.st = "none" /\ Can("clicks") /\ Take("clicks")
    /\ LET earlier == Before(Questions(talk), Shown(talk))
       IN  \/ earlier # {} /\ talk' = [talk EXCEPT !.sel = Max(earlier)]
           \/ earlier = {} /\ talk.more /\ talk' = [talk EXCEPT !.req = Load(talk.cursor, Shown(talk))]
    /\ UNCHANGED <<archive, frames, tab, line>>

Later ==
    /\ tab.shown = "history" /\ talk.req.st = "none" /\ Can("clicks") /\ Take("clicks")
    /\ LET later == After(Questions(talk), Shown(talk))
       IN  later # {} /\ talk' = [talk EXCEPT !.sel = IF Cardinality(later) = 1 THEN None ELSE Min(later)]
    /\ UNCHANGED <<archive, frames, tab, line>>

(***************************************************************************)
(* The current run's process                                                *)
(***************************************************************************)
\* A run that fills its pages is completed without being asked.
RunWhole(got) == ~(got.run # None /\ got.fresh # {} /\ (\A i \in got.fresh : i.run = got.run) /\ got.page.more)
LineArrives(v, got) == IF RunWhole(got) THEN Kept(v, got) ELSE Onward(v, got)

LineServed ==
    /\ line.req.st = "asked" /\ line' = PageServed(line) /\ UNCHANGED <<archive, frames, tab, talk, ration>>
LinePage ==
    /\ line.req.st = "served" /\ line' = LineArrives(line, Gathered(line))
    /\ UNCHANGED <<archive, frames, tab, talk, ration>>

\* What is shown of the run the card names: all its answers carry one stream id,
\* so coalesceArchiveRuns keeps the first, as it was when first read.
Answers(items) == {i \in items : i.run = tab.run /\ i.role = "assistant"}
Visible(v) ==
    {i \in Answers(v.items) : \A j \in Answers(v.items) : i.ord < j.ord \/ (i.ord = j.ord /\ i.ver <= j.ver)}

(***************************************************************************)
(* Either viewer                                                             *)
(***************************************************************************)
Cleared(v) == [v EXCEPT !.items = {}, !.known = FALSE, !.total = 0, !.live = {}, !.more = FALSE, !.cursor = None,
                        !.sel = None, !.gap = FALSE, !.req = Plain]
Applied(v, e) ==
    CASE e.kind \in {"rewound", "resync"} -> Cleared(v)
      [] e.kind = "done" -> [v EXCEPT !.req = Plain]
      [] e.kind = "live" -> [v EXCEPT !.live = IF \E i \in v.items : i.run = e.run THEN @ ELSE @ \cup {e.run}]

FrameArrives ==
    /\ frames.queue # <<>>
    /\ frames' = [frames EXCEPT !.queue = Tail(@)]
    /\ IF tab.shown = "history" THEN talk' = Applied(talk, Head(frames.queue)) /\ UNCHANGED line
       ELSE line' = Applied(line, Head(frames.queue)) /\ UNCHANGED talk
    /\ UNCHANGED <<archive, tab, ration>>

SocketLosesFrames ==
    /\ frames.queue # <<>> /\ Can("drops") /\ Take("drops")
    /\ frames' = [frames EXCEPT !.queue = <<[kind |-> "resync", run |-> None]>>]
    /\ UNCHANGED <<archive, tab, talk, line>>

RequestFails ==
    /\ Can("faults") /\ Take("faults")
    /\ \/ talk.req.st = "asked" /\ talk' = [talk EXCEPT !.req = NoRequest, !.failed = TRUE, !.missed = TRUE] /\ UNCHANGED line
       \/ line.req.st = "asked" /\ line' = [line EXCEPT !.req = NoRequest, !.failed = TRUE, !.missed = TRUE] /\ UNCHANGED talk
    /\ UNCHANGED <<archive, frames, tab>>

Retry ==
    /\ \/ talk.failed /\ tab.shown = "history" /\ talk.req.st = "none" /\ talk' = [talk EXCEPT !.req = Plain] /\ UNCHANGED line
       \/ tab.shown = "current" /\ line.req.st = "none" /\ line.failed /\ line' = [line EXCEPT !.req = Plain] /\ UNCHANGED talk
    /\ UNCHANGED <<archive, frames, tab, ration>>

\* The viewer left is disabled, which aborts its request and closes its socket;
\* the one shown loads and opens its own.
SelectTab(to) ==
    /\ tab.shown # to /\ Can("tabs") /\ Take("tabs")
    /\ tab' = [tab EXCEPT !.shown = to]
    /\ talk' = [talk EXCEPT !.req = IF to = "history" THEN Plain ELSE NoRequest]
    /\ line' = [line EXCEPT !.req = IF to = "current" THEN Plain ELSE NoRequest]
    /\ frames' = IF to = "report" THEN Shut ELSE Opened
    /\ UNCHANGED archive

\* The card learns of a run from the queries of module ThemeTasks; the process
\* viewer then starts over.
CardNamesRun ==
    LET named == archive.count
        anew == tab.shown = "current"
    IN  /\ tab.run # named /\ tab' = [tab EXCEPT !.run = named]
        /\ line' = IF anew THEN [line EXCEPT !.req = [Plain EXCEPT !.run = named]] ELSE line
        /\ frames' = IF anew THEN Opened ELSE frames
        /\ UNCHANGED <<archive, talk, ration>>

(***************************************************************************)
(* Specification and properties                                             *)
(***************************************************************************)
Viewer == [items |-> {}, known |-> FALSE, total |-> 0, live |-> {}, more |-> FALSE, cursor |-> None, sel |-> None,
           gap |-> FALSE, failed |-> FALSE, missed |-> FALSE, req |-> NoRequest]
HistoryInit ==
    \E start \in HistoryOpenings :
       /\ archive = [items |-> start.items, run |-> None, count |-> start.count, answers |-> 0, gen |-> 1, cut |-> FALSE]
       /\ frames = Shut
       /\ tab = [shown |-> "report", run |-> start.count]
       /\ talk = Viewer /\ line = Viewer
       /\ ration = start.ration

HistoryNext ==
    \/ RunBegins \/ RunAnswers \/ RunFolds \/ RunSplits \/ RunEnds \/ Rewind \/ CardNamesRun
    \/ TalkServed \/ TalkPage \/ Previous \/ Later \/ LineServed \/ LinePage
    \/ FrameArrives \/ SocketLosesFrames \/ RequestFails \/ Retry
    \/ \E to \in {"report", "current", "history"} : SelectTab(to)

Ords(items) == {[ord |-> i.ord, role |-> i.role, run |-> i.run] : i \in items}
Ids(items) == {Id(i) : i \in items}
AllItems == {Item(ord) : ord \in 1..Total}
Settled(v, which) == tab.shown = which /\ v.req.st = "none" /\ ~v.missed /\ ~v.gap /\ frames.queue = <<>> /\ archive.run = None

\* A viewer whose newest refresh succeeded, of a session that rests, has the
\* archive as it is: nothing a rewind took away, whichever pages were read
\* before it, and the newest text of every item; the conversation without a
\* hole from its oldest item on; the process with every answer of the run the
\* card names, however many pages they span.  What the process shows of them is
\* the first answer, in the text that was read first: a later item of the same
\* run is dropped, and so is the rest of an answer of which a part was read
\* while the run went on.  Two cases are left out by `gap': more than a page
\* was archived since the last refresh, and a rewind fell between two pages of
\* one request.
ShowsTheArchive ==
    /\ Settled(talk, "history") =>
          /\ Ords(talk.items) \subseteq Ords(AllItems)
          /\ \A i \in talk.items, ord \in 1..Total : ord >= i.ord => Id(Item(ord)) \in Ids(talk.items)
    /\ Settled(line, "current") /\ tab.run = archive.count =>
          /\ Ids(Answers(AllItems)) \subseteq Ids(line.items)
          /\ Ords(Visible(line)) = {i \in Ords(Answers(AllItems)) : \A j \in Ords(Answers(AllItems)) : i.ord <= j.ord}

Asked == {ord \in 1..Total : archive.items[ord].role = "user"}
Place(q) ==
    IF q <= LiveFrom THEN q
    ELSE Min({ord \in Asked : archive.items[ord].run = q - LiveFrom} \cup {Total + 1})

\* Going back a question shows the one archived just before, also when it has to
\* be fetched and the conversation goes on meanwhile (previous).
NeverSkips ==
    LET q == IF talk.req.st = "served" THEN talk.req.from ELSE Shown(talk)
        p == Shown(talk')
    IN  (talk'.sel # talk.sel /\ talk'.sel # None /\ p < q /\ ~talk'.gap /\ q \in Asked \cup {LiveFrom + r : r \in talk.live})
        => {r \in Asked : Place(p) < r /\ r < Place(q)} = {}
=============================================================================
