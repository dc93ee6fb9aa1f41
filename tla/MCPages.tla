------------------------------- MODULE MCPages -------------------------------
(***************************************************************************)
(* The pages of the browser on small instances.  The router mounts one page *)
(* at a time (App.tsx), so a behaviour is that of the page its first state  *)
(* shows; the variables of that page are kept in v1, v2, ... in the order   *)
(* its module declares them, and the rest of them rest at 0.                *)
(*                                                                         *)
(* An opening is what a page finds when it is mounted and how often each    *)
(* thing may happen from there.                                             *)
(***************************************************************************)
EXTENDS Naturals, Sequences, TLC

VARIABLES route, v1, v2, v3, v4, v5, v6, v7, v8, v9, v10

pageVars == <<route, v1, v2, v3, v4, v5, v6, v7, v8, v9, v10>>

-----------------------------------------------------------------------------
(* components/ImagePasteInput.tsx *)
ComposerZero == [uploads |-> 0, removes |-> 0, retries |-> 0, references |-> 0, types |-> 0,
                 imes |-> 0, keys |-> 0, disables |-> 0, switches |-> 0, errors |-> 0]
BoxOf(key, desktop, budget) == [key |-> key, desktop |-> desktop, turns |-> budget]
ComposerOpened == {
    BoxOf(1, FALSE, [ComposerZero EXCEPT !.uploads = 2, !.removes = 1, !.keys = 1, !.errors = 1, !.retries = 1]),
    BoxOf(1, FALSE, [ComposerZero EXCEPT !.uploads = 2, !.switches = 2, !.errors = 1, !.disables = 2]),
    BoxOf(0, FALSE, [ComposerZero EXCEPT !.types = 2, !.keys = 3, !.imes = 1]),
    BoxOf(1, FALSE, [ComposerZero EXCEPT !.types = 1, !.keys = 3]),
    BoxOf(1, TRUE, [ComposerZero EXCEPT !.references = 3, !.removes = 1, !.keys = 1, !.errors = 1]),
    BoxOf(1, TRUE, [ComposerZero EXCEPT !.references = 2, !.switches = 2, !.errors = 1])
    }

Composer == INSTANCE Composer WITH
    DraftKeys <- {0, 1}, MaxAttachments <- 3, Paths <- {1, 2}, ComposerOpenings <- ComposerOpened,
    box <- v1, draft <- v2, wire <- v3, looks <- v4, kept <- v5, turns <- v6

ComposerPage == route = "composer" /\ Composer!ComposerNext /\ UNCHANGED <<route, v7, v8, v9, v10>>

-----------------------------------------------------------------------------
(* components/SessionRail.tsx *)
RailZero == [runs |-> 0, polls |-> 0, touches |-> 0, reloads |-> 0, groups |-> 0, pins |-> 0,
             renames |-> 0, deletes |-> 0, rises |-> 0, toggles |-> 0]
RailRow(p, at) == [project |-> p, title |-> 1, at |-> at]
OneRow == 1 :> RailRow(0, 1)
TwoRows == OneRow @@ (2 :> RailRow(1, 2))
FourRows == (1 :> RailRow(1, 1)) @@ (2 :> RailRow(1, 2)) @@ (3 :> RailRow(1, 3)) @@ (4 :> RailRow(0, 4))
RailOf(r, cur, shut, budget) == [rows |-> r, current |-> cur, shut |-> shut, moves |-> budget]
RailOpened == {
    RailOf(OneRow, 0, TRUE, [RailZero EXCEPT !.runs = 3, !.polls = 1, !.touches = 1, !.reloads = 1]),
    RailOf(TwoRows, 1, TRUE, [RailZero EXCEPT !.runs = 2, !.toggles = 1, !.polls = 1, !.touches = 1]),
    RailOf(TwoRows, 1, FALSE, [RailZero EXCEPT !.runs = 1, !.polls = 1, !.renames = 2, !.deletes = 2]),
    RailOf(FourRows, 3, FALSE, [RailZero EXCEPT !.groups = 3, !.pins = 1, !.rises = 2, !.reloads = 1, !.toggles = 1])
    }

Rail == INSTANCE SessionRail WITH
    RailSessions <- {1, 2, 3, 4}, PreviewLimit <- 2, RailOpenings <- RailOpened,
    hubRuns <- v1, mail <- v2, poll <- v3, runtimes <- v4, rows <- v5, rail <- v6, disk <- v7,
    acked <- v8, moves <- v9

RailPage == route = "rail" /\ Rail!RailNext /\ UNCHANGED <<route, v10>>

-----------------------------------------------------------------------------
(* webui/src/remote: the page a phone opens *)
RemoteZero == [desktop |-> 0, rounds |-> 0, errors |-> 0, drops |-> 0, lists |-> 0, chooses |-> 0, hides |-> 0,
               older |-> 0, types |-> 0, files |-> 0, sends |-> 0, stops |-> 0, models |-> 0,
               dialogs |-> 0, confirms |-> 0, projects |-> 0, opens |-> 0, polls |-> 0]
Opened(chats, old, mobile, budget) == [chats |-> chats, old |-> old, mobile |-> mobile, tries |-> budget]
RemoteOpened == {
    Opened({1}, 0, FALSE, [RemoteZero EXCEPT !.types = 1, !.sends = 3, !.errors = 2]),
    Opened({1}, 0, FALSE, [RemoteZero EXCEPT !.types = 1, !.sends = 2, !.desktop = 1]),
    Opened({1, 2}, 0, FALSE, [RemoteZero EXCEPT !.types = 1, !.sends = 1, !.chooses = 2, !.errors = 1]),
    Opened({1, 2}, 0, FALSE, [RemoteZero EXCEPT !.files = 2, !.sends = 1, !.chooses = 1]),
    Opened({1}, 0, FALSE, [RemoteZero EXCEPT !.files = 3, !.errors = 1, !.types = 1]),
    Opened({1}, 0, TRUE, [RemoteZero EXCEPT !.dialogs = 1, !.confirms = 3, !.errors = 2, !.projects = 1]),
    Opened({1}, 0, FALSE, [RemoteZero EXCEPT !.desktop = 1, !.rounds = 1, !.opens = 1]),
    Opened({1}, 0, FALSE, [RemoteZero EXCEPT !.types = 1, !.sends = 1, !.rounds = 1]),
    Opened({1}, 0, FALSE, [RemoteZero EXCEPT !.desktop = 1, !.stops = 1, !.opens = 1]),
    Opened({1}, 0, FALSE, [RemoteZero EXCEPT !.desktop = 1, !.stops = 1, !.errors = 1, !.polls = 1, !.models = 1]),
    Opened({1, 2}, 0, TRUE, [RemoteZero EXCEPT !.chooses = 3, !.types = 1]),
    Opened({1, 2}, 2, FALSE, [RemoteZero EXCEPT !.older = 1, !.chooses = 2, !.hides = 1, !.lists = 1, !.drops = 1])
    }

Remote == INSTANCE RemoteApp WITH
    Chats <- {1, 2, 3}, Instructions <- {1}, PageLimit <- 2, HistoryCap <- 1, FileCap <- 2,
    RemoteOpenings <- RemoteOpened,
    hub <- v1, gateway <- v2, makes <- v3, app <- v4, dialog <- v5, net <- v6, intents <- v7, tries <- v8

RemotePage == route = "remote" /\ Remote!RemoteNext /\ UNCHANGED <<route, v9, v10>>
-----------------------------------------------------------------------------
(* pages/MyKey.tsx *)
KeyZero == [fails |-> 0, lost |-> 0, edits |-> 0, reads |-> 0, tabs |-> 0, opens |-> 0, types |-> 0,
            deletes |-> 0, syncs |-> 0, restores |-> 0, tests |-> 0, saves |-> 2]
Channel(v, val) == [var |-> v, val |-> val]
Plain == [entries |-> <<Channel(<<1>>, <<1>>)>>, proxy |-> 1, rest |-> 0, ok |-> TRUE]
Keyed == [Plain EXCEPT !.entries = <<Channel(<<1>>, <<1>>), Channel(<<0>>, <<1>>)>>]
Routed == [Plain EXCEPT !.entries = <<Channel(<<1>>, <<1>>), Channel(<<1, 2>>, <<2>>), Channel(<<0>>, <<2, 1>>)>>]
KeyStart(text, tab, budget) == [text |-> text, tab |-> tab, chances |-> budget]
KeyOpened == {
    KeyStart(Plain, "structured", [KeyZero EXCEPT !.edits = 1, !.reads = 1, !.types = 2, !.lost = 1]),
    KeyStart(Plain, "structured", [KeyZero EXCEPT !.edits = 2, !.types = 1, !.fails = 1]),
    KeyStart(Keyed, "structured", [KeyZero EXCEPT !.opens = 1, !.types = 2, !.saves = 1]),
    KeyStart(Routed, "structured", [KeyZero EXCEPT !.opens = 1, !.types = 2, !.saves = 1, !.deletes = 1]),
    KeyStart(Plain, "structured", [KeyZero EXCEPT !.opens = 2, !.types = 0]),
    KeyStart(Plain, "structured", [KeyZero EXCEPT !.opens = 1, !.deletes = 1, !.tests = 1, !.tabs = 1, !.saves = 1]),
    KeyStart(Plain, "raw", [KeyZero EXCEPT !.types = 1, !.opens = 1, !.restores = 1, !.edits = 1]),
    KeyStart(Plain, "raw", [KeyZero EXCEPT !.types = 2, !.opens = 2, !.restores = 1]),
    KeyStart(Plain, "raw", [KeyZero EXCEPT !.types = 1, !.syncs = 1, !.reads = 1, !.tabs = 1, !.saves = 1])
    }

Keys == INSTANCE MyKey WITH
    Kinds <- {0, 1}, Fields <- {1, 2}, TypedNames <- {<<1>>, <<1, 3>>}, Proxies <- {1, 2, 3}, BackupCap <- 1,
    KeyOpenings <- KeyOpened,
    keyfile <- v1, keypage <- v2, keyops <- v3, unseen <- v4, chances <- v5

KeysPage == route = "mykey" /\ Keys!KeyNext /\ UNCHANGED <<route, v6, v7, v8, v9, v10>>

-----------------------------------------------------------------------------
(* pages/Conversations.tsx *)
ConvZero == [types |-> 0, turns |-> 0, picks |-> 0, edits |-> 0, imports |-> 0, returns |-> 0, elsewhere |-> 0,
             fails |-> 0, busy |-> 0, filters |-> 0, stuck |-> 0]
File(title, hit, owner) == [title |-> title, hit |-> hit, owner |-> owner]
ThreeFiles == (1 :> File(0, FALSE, 0)) @@ (2 :> File(0, TRUE, 0)) @@ (3 :> File(0, FALSE, 0))
OwnedFiles == (1 :> File(0, FALSE, 1)) @@ (2 :> File(0, TRUE, 0))
OneFile == 2 :> File(0, TRUE, 0)
Says(role, body, turns) == [role |-> role, body |-> body, text |-> 1, turns |-> turns]
Turn(n) == [turn |-> n, summary |-> n]
Sayings == {Says("user", 0, <<>>), Says("tool", 0, <<>>), Says("assistant", 0, <<>>),
            Says("assistant", 2, <<Turn(1)>>), Says("assistant", 3, <<Turn(2), Turn(1)>>),
            Says("assistant", 0, <<Turn(2)>>)}
ConvStart(files, sessions, last, page, budget) ==
    [files |-> files, sessions |-> sessions, last |-> last, page |-> page, messages |-> <<>>, rolls |-> budget]
ConvReading == {[ConvStart(OneFile, {}, 0, 0, ConvZero) EXCEPT !.messages = m] :
                    m \in UNION {[1..n -> Sayings] : n \in 0..3}}
ConvOpened == ConvReading \cup {
    ConvStart(ThreeFiles, {}, 1, 1, [ConvZero EXCEPT !.types = 1, !.turns = 1, !.edits = 1]),
    ConvStart(ThreeFiles, {}, 0, 0, [ConvZero EXCEPT !.picks = 1, !.edits = 1, !.types = 1]),
    ConvStart(ThreeFiles, {}, 3, 2, [ConvZero EXCEPT !.picks = 1, !.edits = 2]),
    ConvStart(OneFile, {}, 2, 0, [ConvZero EXCEPT !.imports = 1, !.elsewhere = 1, !.fails = 1]),
    ConvStart(OneFile, {}, 2, 0, [ConvZero EXCEPT !.imports = 1, !.edits = 1, !.fails = 1, !.stuck = 2]),
    ConvStart(OneFile, {}, 0, 0, [ConvZero EXCEPT !.picks = 1, !.imports = 1, !.turns = 1, !.elsewhere = 1]),
    ConvStart(OneFile, {}, 0, 0, [ConvZero EXCEPT !.picks = 1, !.edits = 1, !.turns = 1, !.elsewhere = 1]),
    ConvStart(OwnedFiles, {1}, 1, 0, [ConvZero EXCEPT !.imports = 2, !.elsewhere = 1, !.returns = 1, !.filters = 1]),
    ConvStart(OwnedFiles, {1}, 1, 0, [ConvZero EXCEPT !.imports = 1, !.edits = 1, !.types = 1, !.returns = 1, !.busy = 1])
    }

Conversations == INSTANCE Conversations WITH
    Archives <- {1, 2, 3, 4}, Owners <- {1, 2, 3}, PerPage <- 1, Titles <- {0, 1}, ConvOpenings <- ConvOpened,
    shelf <- v1, browser <- v2, lists <- v3, details <- v4, errands <- v5, behind <- v6, rolls <- v7

ConversationsPage == route = "conversations" /\ Conversations!ConvNext /\ UNCHANGED <<route, v8, v9, v10>>

-----------------------------------------------------------------------------
(* pages/Tasks.tsx *)
TaskZero == [smtp |-> 0, due |-> 0, retry |-> 0, crash |-> 0, elsewhere |-> 0, lost |-> 0, clicks |-> 0,
             opens |-> 0, types |-> 0, disk |-> 0]
Schedule == [name |-> 1, prompt |-> 1, kind |-> "cron", cron |-> "fine", every |-> "fine",
             mail |-> FALSE, to |-> 0, on |-> TRUE, count |-> 0]
NoSchedule == [name |-> 0]
TaskStart(lot) == [rows |-> (1 :> Schedule) @@ (2 :> NoSchedule), server |-> 1, lots |-> lot]
TasksOpened == {
    TaskStart([TaskZero EXCEPT !.due = 2, !.retry = 1, !.crash = 1]),
    TaskStart([TaskZero EXCEPT !.due = 1, !.clicks = 1, !.lost = 1]),
    TaskStart([TaskZero EXCEPT !.opens = 1, !.types = 1, !.elsewhere = 1]),
    TaskStart([TaskZero EXCEPT !.opens = 1, !.types = 1, !.lost = 1]),
    TaskStart([TaskZero EXCEPT !.opens = 1, !.due = 1]),
    TaskStart([TaskZero EXCEPT !.opens = 2, !.types = 1]),
    TaskStart([TaskZero EXCEPT !.clicks = 1, !.elsewhere = 1, !.due = 1]),
    TaskStart([TaskZero EXCEPT !.clicks = 2, !.lost = 1]),
    TaskStart([TaskZero EXCEPT !.clicks = 2, !.due = 1, !.disk = 1]),
    TaskStart([TaskZero EXCEPT !.opens = 1, !.clicks = 1, !.types = 1, !.disk = 1]),
    TaskStart([TaskZero EXCEPT !.opens = 1, !.types = 3]),
    [TaskStart([TaskZero EXCEPT !.smtp = 2, !.types = 1, !.clicks = 2, !.lost = 1]) EXCEPT
        !.rows = [t \in {1, 2} |-> NoSchedule]]
    }

Tasks == INSTANCE Tasks WITH
    TaskIds <- {1, 2}, Servers <- {1, 2}, TaskOpenings <- TasksOpened,
    plans <- v1, fires <- v2, news <- v3, page <- v4, calls <- v5, lots <- v6

TasksPage == route = "tasks" /\ Tasks!TasksNext /\ UNCHANGED <<route, v7, v8, v9, v10>>
-----------------------------------------------------------------------------
(* stores/navPreferenceStore.ts, with three items, one of them unknown to the hub *)
NavZero == [opens |-> 0, edits |-> 0, fails |-> 0, reloads |-> 0, elsewhere |-> 0]
NavItems == <<"chat", "theme", "tasks">>
NavEntry(id, visible) == [id |-> id, visible |-> visible]
Stored == UNION {[1..n -> {NavEntry(id, v) : id \in {"chat", "theme", "tasks", "old"}, v \in BOOLEAN}] : n \in 0..2}
Layout == <<NavEntry("tasks", TRUE), NavEntry("chat", FALSE), NavEntry("theme", TRUE)>>
Older == <<NavEntry("tasks", FALSE), NavEntry("chat", TRUE), NavEntry("tasks", TRUE)>>
NavOpened ==
    {[storage |-> s, remote |-> r, times |-> NavZero] : s \in {<<>>, Layout}, r \in Stored}
    \cup {[storage |-> s, remote |-> <<>>, times |-> NavZero] : s \in Stored}
    \cup {[storage |-> s, remote |-> r, times |-> t] :
             s \in {<<>>, Older}, r \in {<<>>, Layout, Older},
             t \in {[NavZero EXCEPT !.opens = 1, !.edits = 2],
                    [NavZero EXCEPT !.opens = 2, !.edits = 1, !.fails = 1],
                    [NavZero EXCEPT !.opens = 1, !.edits = 1, !.reloads = 1],
                    [NavZero EXCEPT !.opens = 1, !.edits = 1, !.elsewhere = 1]}}

Nav == INSTANCE NavPreferences WITH
    Items <- NavItems, HubItems <- {"chat", "tasks"}, Chat <- "chat", Theme <- "theme", NavOpenings <- NavOpened,
    storage <- v1, remote <- v2, queue <- v3, hydrate <- v4, panel <- v5, parted <- v6, times <- v7

NavPage == route = "nav" /\ Nav!NavNext /\ UNCHANGED <<route, v8, v9, v10>>

-----------------------------------------------------------------------------
(* pages/Memory.tsx *)
MemZero == [moves |-> 0, types |-> 2, saves |-> 2, reloads |-> 0, others |-> 0, lost |-> 0, agent |-> 0]
MemFiles == [d \in {"p", "q", "global", "insight"} |->
                IF d = "insight" THEN [text |-> "", ver |-> 0] ELSE [text |-> "a", ver |-> 1]]
MemStart(tab, budget) == [disk |-> MemFiles, tab |-> tab, spare |-> budget]
MemoryOpened == {
    MemStart("global", [MemZero EXCEPT !.agent = 2, !.reloads = 1]),
    MemStart("insight", [MemZero EXCEPT !.others = 1, !.reloads = 1, !.lost = 1]),
    MemStart("sop", [MemZero EXCEPT !.moves = 2, !.agent = 1, !.types = 1, !.saves = 1]),
    MemStart("skill", [MemZero EXCEPT !.moves = 3, !.types = 1, !.saves = 1])
    }

Memory == INSTANCE Memory WITH
    Sops <- {"p", "q"}, Words <- {"a", "b"}, MemoryOpenings <- MemoryOpened,
    disk <- v1, lock <- v2, copies <- v3, memo <- v4, posts <- v5, exposed <- v6, spare <- v7

MemoryPage == route = "memory" /\ Memory!MemNext /\ UNCHANGED <<route, v8, v9, v10>>

-----------------------------------------------------------------------------
(* pages/GoalHive.tsx *)
GoalZero == [deaths |-> 0, drops |-> 0, types |-> 1, selects |-> 0, lists |-> 0, submits |-> 1, aborts |-> 0,
             resets |-> 0, leaves |-> 0, faults |-> 0]
GoalStart(budget) == [llms |-> <<7, 8>>, main |-> 9, sub |-> 8, quota |-> budget]
GoalOpened == {
    GoalStart([GoalZero EXCEPT !.types = 2, !.submits = 2, !.aborts = 1]),
    GoalStart([GoalZero EXCEPT !.deaths = 1, !.resets = 1]),
    GoalStart([GoalZero EXCEPT !.types = 2, !.submits = 2, !.faults = 1]),
    GoalStart([GoalZero EXCEPT !.drops = 1, !.leaves = 1, !.aborts = 1]),
    GoalStart([GoalZero EXCEPT !.types = 2, !.selects = 2, !.lists = 1])
    }

Goal == INSTANCE GoalHive WITH
    Goals <- {1}, Pieces <- 1, MaxFrames <- 2, GoalOpenings <- GoalOpened,
    hive <- v1, pipe <- v2, goal <- v3, quota <- v4

GoalPage == route = "goal" /\ Goal!GoalNext /\ UNCHANGED <<route, v5, v6, v7, v8, v9, v10>>

-----------------------------------------------------------------------------
(* pages/ThemeTasks.tsx: the card of a task *)
ThemeZero == [starts |-> 0, fails |-> 0, edits |-> 0, typing |-> 0, losses |-> 0, faults |-> 0, polls |-> 0,
              drops |-> 0, presses |-> 0, stops |-> 0, moves |-> 0, retries |-> 0, settings |-> 0,
              ends |-> {"completed"}, words |-> {1}]
ThemeRow == [run |-> 1, finished |-> TRUE, outcome |-> "failed", launched |-> TRUE]
ThemeLog == <<[run |-> 1, text |-> 2], [run |-> 1, text |-> 0]>>
ThemeStart(budget) ==
    [config |-> 1, key |-> 7, row |-> ThemeRow, log |-> ThemeLog, recent |-> <<2>>, dole |-> budget]
ThemeOpened == {
    ThemeStart([ThemeZero EXCEPT !.presses = 2, !.losses = 1]),
    ThemeStart([ThemeZero EXCEPT !.presses = 1, !.losses = 1, !.faults = 1, !.ends = {"failed"}]),
    ThemeStart([ThemeZero EXCEPT !.presses = 1, !.stops = 1, !.fails = 1, !.losses = 1]),
    ThemeStart([ThemeZero EXCEPT !.presses = 2, !.stops = 1, !.fails = 1]),
    ThemeStart([ThemeZero EXCEPT !.presses = 1, !.edits = 2, !.polls = 2]),
    ThemeStart([ThemeZero EXCEPT !.starts = 2, !.edits = 2, !.polls = 2]),
    ThemeStart([ThemeZero EXCEPT !.starts = 1, !.drops = 1]),
    ThemeStart([ThemeZero EXCEPT !.retries = 1, !.presses = 1, !.typing = 1]),
    ThemeStart([ThemeZero EXCEPT !.starts = 1, !.retries = 1]),
    ThemeStart([ThemeZero EXCEPT !.starts = 1, !.presses = 1]),
    ThemeStart([ThemeZero EXCEPT !.typing = 2, !.presses = 1]),
    ThemeStart([ThemeZero EXCEPT !.moves = 1, !.settings = 1, !.typing = 1, !.losses = 1]),
    ThemeStart([ThemeZero EXCEPT !.edits = 2, !.typing = 1, !.polls = 2, !.words = {1, 2}]),
    [ThemeStart([ThemeZero EXCEPT !.retries = 1]) EXCEPT !.log = <<[run |-> 1, text |-> 0]>>]
    }

Theme == INSTANCE ThemeTasks WITH
    Instructions <- {1, 2}, ModelKeys <- {7, 8}, RecentCap <- 1, HistoryPage <- 1, MaxNews <- 1,
    ThemeOpenings <- ThemeOpened,
    theme <- v1, ticker <- v2, card <- v3, chores <- v4, dole <- v5

ThemePage == route = "theme" /\ Theme!ThemeNext /\ UNCHANGED <<route, v6, v7, v8, v9, v10>>

-----------------------------------------------------------------------------
(* pages/ThemeTaskHistory.tsx: the conversation and the process of a task *)
HistoryZero == [runs |-> 0, rewinds |-> 0, clicks |-> 0, faults |-> 0, drops |-> 0, tabs |-> 1, splits |-> 0]
Asks(run) == [role |-> "user", run |-> run, ver |-> 1]
Replies(run) == [role |-> "assistant", run |-> run, ver |-> 1]
HistoryStart(budget) ==
    [items |-> <<Asks(1), Replies(1), Asks(2), Replies(2), Asks(2), Replies(2)>>, count |-> 2,
     ration |-> budget]
HistoryOpened == {
    HistoryStart([HistoryZero EXCEPT !.clicks = 3, !.runs = 1]),
    [HistoryStart([HistoryZero EXCEPT !.tabs = 2, !.runs = 1, !.rewinds = 1]) EXCEPT
        !.items = <<Asks(1), Replies(1), Asks(2), Replies(2)>>],
    HistoryStart([HistoryZero EXCEPT !.runs = 1, !.faults = 1, !.drops = 1, !.clicks = 1]),
    HistoryStart([HistoryZero EXCEPT !.runs = 1, !.rewinds = 1]),
    HistoryStart([HistoryZero EXCEPT !.runs = 1, !.tabs = 2, !.splits = 1]),
    [HistoryStart([HistoryZero EXCEPT !.clicks = 2, !.splits = 1, !.runs = 1]) EXCEPT
        !.items = <<Asks(1), Replies(1), Asks(2), Replies(2), Replies(2)>>]
    }

History == INSTANCE ThemeHistory WITH
    PageItems <- 2, MaxRounds <- 2, LiveFrom <- 20, HistoryOpenings <- HistoryOpened,
    archive <- v1, frames <- v2, tab <- v3, talk <- v4, line <- v5, ration <- v6

HistoryTab == route = "history" /\ History!HistoryNext /\ UNCHANGED <<route, v7, v8, v9, v10>>

-----------------------------------------------------------------------------
(* pages/Conductor: two workers, tasks, and one opening for each group of    *)
(* operations                                                               *)
CondZero == [what \in {"work", "close", "speak", "die", "resync", "drop", "gap", "fail", "poll", "lose",
                       "type", "send", "new", "retry", "act", "rework", "edit", "select", "pin", "delete",
                       "tab", "older", "retryEnsure", "window", "stop", "resume", "settings"} |-> 0]
Worker(st, good) == [st |-> st, ver |-> 1, good |-> good]
NoWorker == [st |-> "none", ver |-> 0, good |-> FALSE]
CondHub(p1, p2, rows, f2) ==
    [boot |-> 1, rev |-> 1, pool |-> (1 :> p1 @@ 2 :> p2), rows |-> rows, cut |-> 0,
     flows |-> (1 :> "open" @@ 2 :> f2 @@ 3 :> "none"), chat |-> <<[task |-> 1, words |-> {"old"}]>>,
     started |-> TRUE, ready |-> TRUE, auto |-> TRUE]
CondStart(h, sel, budget) == [hub |-> h, link |-> "open", fresh |-> FALSE, sel |-> sel, left |-> budget @@ CondZero]
CondFresh(h, stream, budget) == [hub |-> h, link |-> stream, fresh |-> TRUE, sel |-> 0, left |-> budget @@ CondZero]
Runner == Worker("running", FALSE)
Alone == CondHub(Runner, NoWorker, 1, "none")
Filed == [NoWorker EXCEPT !.st = "archived"]
Unmet == [CondHub(Filed, NoWorker, 1, "closed") EXCEPT !.boot = 0, !.rev = 0, !.started = FALSE, !.ready = FALSE]
Pair == CondHub(Runner, Runner, 2, "none")
ConductorOpened == {
    CondFresh([Alone EXCEPT !.started = FALSE, !.ready = FALSE], "open", [retryEnsure |-> 1, lose |-> 1]),
    CondFresh(Alone, "never", [window |-> 1]),
    CondFresh(Unmet, "open", [drop |-> 1]),
    CondStart([Alone EXCEPT !.pool = [w \in {1, 2} |-> NoWorker], !.rows = 0, !.chat = <<>>,
                            !.flows = [f \in {1, 2, 3} |-> "none"]], 0, [type |-> 1, new |-> 1, lose |-> 1]),
    CondStart(Alone, 1, [work |-> 2, die |-> 1, resume |-> 1, poll |-> 1]),
    CondStart(Alone, 1, [work |-> 1, drop |-> 1, gap |-> 1, fail |-> 1]),
    CondStart(Alone, 1, [work |-> 1, resync |-> 1]),
    CondStart(Alone, 1, [type |-> 2, send |-> 2, lose |-> 1, close |-> 1, retry |-> 1]),
    CondStart(Pair, 1, [type |-> 1, new |-> 1, work |-> 1, lose |-> 1]),
    CondStart(Alone, 1, [type |-> 2, new |-> 1, lose |-> 1]),
    CondStart(CondHub(Worker("stopped", FALSE), Worker("stopped", TRUE), 2, "none"), 1, [act |-> 2, work |-> 2]),
    CondStart(CondHub(Worker("stopped", FALSE), Runner, 2, "none"), 1,
              [act |-> 2, rework |-> 1, edit |-> 2, select |-> 1]),
    CondStart(CondHub(Runner, NoWorker, 6, "none"), 1, [tab |-> 1, older |-> 3, work |-> 1, fail |-> 1, speak |-> 1]),
    CondStart(CondHub(Runner, NoWorker, 5, "none"), 1, [tab |-> 1, older |-> 1, drop |-> 1, gap |-> 1]),
    CondStart(CondHub(Worker("stopped", TRUE), NoWorker, 2, "closed"), 1,
              [pin |-> 2, delete |-> 1, close |-> 1, lose |-> 1]),
    CondStart(CondHub(Worker("stopped", TRUE), Filed, 2, "none"), 1,
              [delete |-> 1, close |-> 1, tab |-> 1, work |-> 1]),
    CondStart([CondHub(Filed, Runner, 2, "none") EXCEPT !.flows[1] = "closed"], 1, [delete |-> 1, die |-> 1, stop |-> 1]),
    CondStart(CondHub(Runner, NoWorker, 2, "closed"), 1, [stop |-> 1, resume |-> 1, settings |-> 1])
    }

Conductor == INSTANCE Conductor WITH
    Workers <- {1, 2}, Flows <- {1, 2, 3}, Words <- {"a", "b"}, PageSize <- 3, Scenarios <- ConductorOpened,
    hub <- v1, feed <- v2, link <- v3, store <- v4, q <- v5, pg <- v6, hist <- v7, ops <- v8, seen <- v9,
    left <- v10

ConductorPage == route = "conductor" /\ Conductor!CondNext /\ UNCHANGED route

-----------------------------------------------------------------------------
MCInit ==
    \/ route = "conductor" /\ Conductor!CondInit
    \/ route = "composer" /\ Composer!ComposerInit /\ v7 = 0 /\ v8 = 0 /\ v9 = 0 /\ v10 = 0
    \/ route = "rail" /\ Rail!RailInit /\ v10 = 0
    \/ route = "remote" /\ Remote!RemoteInit /\ v9 = 0 /\ v10 = 0
    \/ route = "mykey" /\ Keys!KeyInit /\ v6 = 0 /\ v7 = 0 /\ v8 = 0 /\ v9 = 0 /\ v10 = 0
    \/ route = "conversations" /\ Conversations!ConvInit /\ v8 = 0 /\ v9 = 0 /\ v10 = 0
    \/ route = "tasks" /\ Tasks!TasksInit /\ v7 = 0 /\ v8 = 0 /\ v9 = 0 /\ v10 = 0
    \/ route = "nav" /\ Nav!NavInit /\ v8 = 0 /\ v9 = 0 /\ v10 = 0
    \/ route = "memory" /\ Memory!MemInit /\ v8 = 0 /\ v9 = 0 /\ v10 = 0
    \/ route = "goal" /\ Goal!GoalInit /\ v5 = 0 /\ v6 = 0 /\ v7 = 0 /\ v8 = 0 /\ v9 = 0 /\ v10 = 0
    \/ route = "theme" /\ Theme!ThemeInit /\ v6 = 0 /\ v7 = 0 /\ v8 = 0 /\ v9 = 0 /\ v10 = 0
    \/ route = "history" /\ History!HistoryInit /\ v7 = 0 /\ v8 = 0 /\ v9 = 0 /\ v10 = 0

MCNext ==
    \/ ComposerPage \/ RailPage \/ RemotePage \/ KeysPage \/ ConversationsPage \/ TasksPage
    \/ NavPage \/ MemoryPage \/ GoalPage \/ ThemePage \/ HistoryTab \/ ConductorPage

MCSpec == MCInit /\ [][MCNext]_pageVars
-----------------------------------------------------------------------------
(* What each page promises; the modules give the parts with their reasons.  *)

\* conductorStore.ts: once the stream is drained and nothing is being fetched the
\* page shows what the hub holds, through engine restarts, gaps and late
\* snapshots.
Converges == route = "conductor" => Conductor!Converges

\* Conductor.tsx: what the user typed is in the composer, on its way, or with the
\* hub, whatever answers are lost and whatever is typed meanwhile.
KeepsTyped == route = "conductor" => Conductor!KeepsTyped

\* Conductor.tsx: a worker is accepted only in the version its reviewer saw.
ReviewedAsSeen == route = "conductor" => Conductor!ReviewedAsSeen

\* ImagePasteInput.tsx: whatever uploads and lookups overlap, fail or outlive
\* their box, each draft holds exactly the files put there and not removed, once,
\* and never more than fit a message.
FilesAccounted == route = "composer" => Composer!FilesAccounted /\ Composer!WithinCapacity

\* SessionRail.tsx: a completion stays marked until it was looked at, through
\* events, polls and reloads in any order, and does not come back afterwards; the
\* current session is among the rows of its open drawer.
CompletionsShown ==
    route = "rail" => Rail!CompletionsStay /\ Rail!AcknowledgedStays /\ Rail!CurrentIsVisible

\* remote-app.js, gateway.py: an instruction sent again after a lost answer runs
\* once and a creation confirmed again makes one session; drafts and messages
\* stay with their session whatever is selected when answers arrive.
RemoteOnce ==
    route = "remote" => Remote!RunsOnce /\ Remote!CreatesOnce /\ Remote!KeepsDraft /\ Remote!ShowsItsSession

\* MyKey.tsx, mykey_service.py: a proxy save replaces only the value its author
\* started from, an edit of one channel redirects no route, and once all answers
\* are in the page shows the file.
KeysAsSeen == [][route = "mykey" => Keys!ProxyAsSeen /\ Keys!RoutesKeep /\ Keys!ShowsSaved']_pageVars

\* Conversations.tsx, conversations.py: an import leaves a whole session or nothing
\* whatever is deleted meanwhile, unless its rollback fails or its copy is deleted
\* before it is bound; the list in view is the hub's, no one is left on
\* an empty page of a list with rows, and the rounds hold every message once.
ArchiveWhole ==
    route = "conversations" =>
        /\ Conversations!ImportsWhole /\ Conversations!ListIsCurrent
        /\ Conversations!NeverStranded /\ Conversations!RoundsFaithful

\* Tasks.tsx, scheduler_domain_base.py: once everything has come home the page
\* shows the schedules, also after lost answers; a schedule counts every run it
\* started whatever older row is saved over it, and an enabled one is armed.  A
\* change that could not be saved to the disk is shown and armed by a later one.
SchedulesFollow ==
    route = "tasks" => Tasks!ListsFollow /\ Tasks!FiresCounted /\ Tasks!EnabledIsArmed

\* navPreferenceStore.ts: once the read at the start is over the sidebar shows what is
\* stored, and a change made while the read was in flight is not undone by it.
NavAgrees == route = "nav" => Nav!NavAgrees

\* navPreferenceStore.ts, preferences.py: the hub accepts every layout the browser saves.
SavesAccepted == route = "nav" => Nav!SavesAccepted

\* Memory.tsx, memory.py: no save overwrites a text its author was not shown.
MemoryAsSeen == [][route = "memory" => Memory!OverwritesWhatWasSeen]_pageVars

\* GoalHive.tsx, goalhive_service.py: at most one message is being written, and
\* it is the active stream's, through aborts, late ends, failing submissions and
\* dead runners.
OneVoice == route = "goal" => Goal!OneVoice

\* ThemeTasks.tsx: between runs the card shows the hub's last run, and it never
\* asks for a run while one it asked for before still goes on, unless it has read
\* that the stop of that one timed out.
CardTruthful == [][route = "theme" => Theme!CardCurrent' /\ Theme!NeverRepeats]_pageVars

\* ThemeTaskHistory.tsx: what is shown at rest is the archive, without a hole and
\* without what a rewind took away, and going back skips no question.
HistoryFaithful == [][route = "history" => History!ShowsTheArchive' /\ History!NeverSkips]_pageVars
=============================================================================
