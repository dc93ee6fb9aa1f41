------------------------------ MODULE RemoteApp -----------------------------
(***************************************************************************)
(* The remote page (assets/remote_access/remote-*.js) and what it relies    *)
(* on: the gateway, which runs a request id once and remembers its answer,  *)
(* and the hub behind it, where the desktop starts runs too.                *)
(*                                                                         *)
(* Reads of the selected session are aborted when it changes, so an answer  *)
(* always meets the generation it was asked in.  A post is never aborted:   *)
(* its answer can be lost, and a request the page gave up can still arrive. *)
(***************************************************************************)
EXTENDS Integers, Sequences, FiniteSets, SequencesExt

CONSTANTS
    Chats,          \* session ids, numbers from 1
    Instructions,   \* what can be typed, numbers from 1 (0: nothing)
    PageLimit,      \* messages of a history page (40)
    HistoryCap,     \* sessions of historyCache (12)
    FileCap,        \* attachments of a message (8)
    RemoteOpenings  \* the sessions at the start, the device, and how often things happen

VARIABLES
    hub,      \* session -> status, runs started, archived ones, the runs with a question more
              \* in the archive, turns from before runs had ids
    gateway,  \* request id -> what the gateway did with it
    makes,    \* request id of a creation -> how far the gateway came; the projects there are
    app,      \* the page's module variables
    dialog,   \* the new-session dialog
    net,      \* requests and frames on their way
    intents,  \* which instruction each request id stands for, what the user last sent and typed
    tries

remoteVars == <<hub, gateway, makes, app, dialog, net, intents, tries>>

Free(what) == tries[what] > 0
Spent(what) == tries' = [tries EXCEPT ![what] = @ - 1]

NoRead == [st |-> "none", stops |-> FALSE]
NoPending == [rid |-> 0, text |-> 0, files |-> <<>>]
Gateless == [st |-> "none", s |-> 0, run |-> 0]
Unmade == [session |-> 0, attempted |-> FALSE, done |-> FALSE, locked |-> FALSE, made |-> 0]
Rids == 1..6

RemoteInit ==
    \E start \in RemoteOpenings :
        /\ hub = [s \in Chats |-> [there |-> s \in start.chats, st |-> "idle", n |-> 0, arch |-> 0,
                                   part |-> FALSE, twice |-> {}, old |-> start.old]]
        /\ gateway = [r \in Rids |-> Gateless]
        /\ makes = [entry |-> [r \in Rids |-> Unmade], project |-> TRUE]
        /\ app = [selected |-> 0, list |-> {}, msgs |-> <<>>, before |-> 0, expanded |-> FALSE,
                  live |-> <<>>, status |-> "unknown", cache |-> <<>>,
                  accepted |-> [s \in Chats |-> <<>>], drafts |-> [s \in Chats |-> 0], input |-> 0,
                  files |-> [s \in Chats |-> <<>>], pending |-> [s \in Chats |-> NoPending],
                  sending |-> FALSE, stopping |-> FALSE, uploading |-> FALSE, saving |-> FALSE,
                  hidden |-> FALSE, connected |-> FALSE, settle |-> FALSE,
                  mobile |-> start.mobile, url |-> 0]
        /\ dialog = [open |-> FALSE, loading |-> FALSE, busy |-> FALSE, rid |-> 0, project |-> FALSE,
                     chosen |-> FALSE]
        /\ net = [hist |-> NoRead, prog |-> NoRead, sock |-> "none", frame |-> NoRead, dirty |-> FALSE,
                  lists |-> {[goto |-> 0, st |-> "sent", seen |-> {}]}, post |-> NoRead, strays |-> {}, stop |-> NoRead,
                  up |-> NoRead, model |-> NoRead, makes |-> {}]
        /\ intents = [of |-> [r \in Rids |-> 0], ran |-> <<>>, count |-> 0,
                      last |-> [s \in Chats |-> [text |-> 0, files |-> <<>>, answer |-> "none", intent |-> 0]],
                      typed |-> [s \in Chats |-> 0], put |-> [s \in Chats |-> <<>>], made |-> 0]
        /\ tries = start.tries

(***************************************************************************)
(* Messages.  A run is <<session, number>>; number 0 is no run id.          *)
(***************************************************************************)
Said(role, run, ord, streaming, outcome) ==
    [role |-> role, run |-> run, ord |-> ord, streaming |-> streaming, outcome |-> outcome]

Working(st) == st \in {"running", "aborting"}
Ready(st) == st \in {"idle", "error"}

\* The archive, oldest first: the running run's first rounds may be in it.  A run
\* is a question and its answer, which takes in the rounds of its retries; a retry
\* whose prompt the archive does not recognise is a question and an answer more.
Archived(s) ==
    LET Turn(t) == LET k == t - hub[s].old
                       run == <<s, IF k < 1 THEN 0 ELSE k>>
                       Pair(ord) == <<Said("user", run, ord, FALSE, FALSE),
                                      Said("assistant", run, ord + 1, FALSE, k <= hub[s].arch)>>
                   IN  Pair(4 * t) \o IF k \in hub[s].twice THEN Pair(4 * t + 2) ELSE <<>>
        turns == hub[s].old + hub[s].arch + (IF hub[s].part THEN 1 ELSE 0)
    IN  FlattenSeq([t \in 1..turns |-> Turn(t)])

Messages(s, before) ==
    LET all == SelectSeq(Archived(s), LAMBDA m : before = 0 \/ m.ord < before)
        from == IF Len(all) > PageLimit THEN Len(all) - PageLimit + 1 ELSE 1
    IN  [items |-> SubSeq(all, from, Len(all)), next |-> IF from > 1 THEN all[from].ord ELSE 0]

\* project_progress: the retained streams, and the runtime's status.
Progress(s) ==
    LET Both(k) == <<Said("user", <<s, k>>, 1000 + 2 * k, FALSE, FALSE),
                     Said("assistant", <<s, k>>, 1001 + 2 * k, k = hub[s].n /\ hub[s].st # "idle", FALSE)>>
    IN  [st |-> hub[s].st, items |-> FlattenSeq([k \in 1..hub[s].n |-> Both(k)])]

SameMessage(a, b) == a.role = b.role /\ a.run = b.run /\ a.run[2] # 0

Placed(out, m) ==
    LET same == {i \in DOMAIN out : SameMessage(out[i], m)}
        i == CHOOSE x \in same : \A y \in same : y <= x
    IN  IF same = {} THEN Append(out, m)
        ELSE IF m.role = "assistant" /\ m.streaming /\ ~out[i].outcome
             THEN [out EXCEPT ![i] = [m EXCEPT !.ord = out[i].ord]]
             ELSE out
VisibleMessages(history, live) == FoldLeft(Placed, history, live)

Shown == IF app.selected = 0 THEN <<>>
         ELSE VisibleMessages(app.msgs, app.accepted[app.selected] \o app.live)

MergeMessages(previous, incoming) ==
    LET ords == {incoming[i].ord : i \in DOMAIN incoming}
        both == SelectSeq(previous, LAMBDA m : m.ord \notin ords) \o incoming
    IN  SortSeq(both, LAMBDA a, b : a.ord < b.ord)

(***************************************************************************)
(* Reads.  The page and the network, together, are a pair [a, n].           *)
(***************************************************************************)
Here == [a |-> app, n |-> net]
Becomes(p) == app' = p.a /\ net' = p.n

LoadProgress(p) ==
    IF p.a.selected = 0 \/ p.n.prog.st # "none" THEN p
    ELSE [p EXCEPT !.n.prog = [st |-> "sent"]]
LoadMessages(p, older) ==
    IF p.a.selected = 0 \/ p.n.hist.st # "none" \/ (older /\ p.a.before = 0) THEN p
    ELSE [p EXCEPT !.n.hist = [st |-> "sent", older |-> older, stops |-> FALSE,
                               before |-> IF older THEN p.a.before ELSE 0]]
SyncCurrent(p) == LoadMessages(LoadProgress(p), FALSE)
LoadSessions(p, goto) ==
    [p EXCEPT !.n.lists = @ \cup {[goto |-> goto, st |-> "sent", seen |-> {}]}]

\* LiveProgress.close and open.
CloseLive(p) == [p EXCEPT !.a.connected = FALSE, !.n.sock = "none", !.n.frame = NoRead, !.n.dirty = FALSE]
OpenLive(p) ==
    LET closed == CloseLive(p)
    IN  IF p.a.selected = 0 \/ p.a.hidden THEN closed ELSE [closed EXCEPT !.n.sock = "connecting"]

\* historyRequest ends; a stopRun that waits for it ends too.
HistoryOver(p) == [p EXCEPT !.n.hist = NoRead, !.a.stopping = @ /\ ~p.n.hist.stops]
CancelReads(p) == [HistoryOver(CloseLive(p)) EXCEPT !.n.prog = NoRead, !.a.settle = FALSE]

\* The least recently stored session leaves a full cache.
CacheHistory(a) ==
    LET rest == SelectSeq(a.cache, LAMBDA c : c.s # a.selected)
        all == Append(rest, [s |-> a.selected, msgs |-> a.msgs, before |-> a.before, expanded |-> a.expanded])
    IN  IF a.selected = 0 THEN a.cache ELSE IF Len(all) > HistoryCap THEN Tail(all) ELSE all
CachedFor(cache, s) ==
    IF \E i \in DOMAIN cache : cache[i].s = s
    THEN cache[CHOOSE i \in DOMAIN cache : cache[i].s = s]
    ELSE [s |-> s, msgs |-> <<>>, before |-> 0, expanded |-> FALSE]

SavedDraft(a) == IF a.selected = 0 THEN a.drafts ELSE [a.drafts EXCEPT ![a.selected] = a.input]

\* The page moves to a session, or to none (remote-session-cleared).
Moved(p, s, from, drafts) ==
    [p EXCEPT !.a = [@ EXCEPT !.cache = CacheHistory(p.a), !.drafts = drafts, !.selected = s,
                              !.msgs = from.msgs, !.live = <<>>, !.before = from.before,
                              !.expanded = from.expanded, !.status = "unknown",
                              !.input = IF s = 0 THEN 0 ELSE drafts[s]]]
Select(p, s, navigate) ==
    LET q == IF navigate /\ p.a.mobile THEN [p EXCEPT !.a.url = s] ELSE p
    IN  IF s = p.a.selected THEN q
        ELSE SyncCurrent(OpenLive(Moved(CancelReads(q), s, CachedFor(CacheHistory(p.a), s), SavedDraft(p.a))))
Cleared(p) ==
    Moved(CancelReads([p EXCEPT !.a.url = 0]), 0, CachedFor(<<>>, 0), SavedDraft(p.a))

\* applyProgress: the end of a run has the archive and the list read again.
ApplyProgress(p, data) ==
    LET q == [p EXCEPT !.a.status = data.st, !.a.live = data.items]
    IN  IF Working(p.a.status) /\ Ready(data.st)
        THEN LoadSessions([LoadMessages(q, FALSE) EXCEPT !.a.settle = TRUE], 0)
        ELSE q

\* The rest of loadMessages once its answer is here.
MessagesLoaded(p, data) ==
    LET a == p.a
        older == p.n.hist.older
        msgs == IF older \/ a.expanded THEN MergeMessages(a.msgs, data.items) ELSE data.items
        Missing(m) == ~\E i \in DOMAIN msgs : msgs[i].role = "user" /\ msgs[i].run = m.run
        b == [a EXCEPT !.msgs = msgs, !.accepted[a.selected] = SelectSeq(@, Missing),
                       !.before = IF older \/ ~a.expanded THEN data.next ELSE @,
                       !.expanded = @ \/ older]
    IN  HistoryOver([p EXCEPT !.a = [b EXCEPT !.cache = CacheHistory(b)]])
-----------------------------------------------------------------------------
(* The hub, and the gateway's answers.                                      *)
Moves(s, h) ==
    /\ hub' = [hub EXCEPT ![s] = h]
    /\ net' = [net EXCEPT !.dirty = @ \/ app.selected = s]

\* The desktop starts a run; a run's rounds are archived while it goes on; it
\* ends, and its text and outcome are archived.
DesktopRuns(s) ==
    /\ Free("desktop") /\ Spent("desktop") /\ hub[s].there /\ hub[s].st = "idle"
    /\ Moves(s, [hub[s] EXCEPT !.st = "running", !.n = @ + 1])
    /\ UNCHANGED <<gateway, makes, app, dialog, intents>>
RoundArchived(s) ==
    /\ Free("rounds") /\ Spent("rounds") /\ hub[s].st # "idle" /\ ~hub[s].part
    /\ \E more \in BOOLEAN :
         Moves(s, [hub[s] EXCEPT !.part = TRUE, !.twice = IF more THEN @ \cup {hub[s].n} ELSE @])
    /\ UNCHANGED <<gateway, makes, app, dialog, intents>>
\* A stop that is not heeded in time is reported; the run keeps its place.
AbortTimesOut(s) ==
    /\ hub[s].st = "aborting"
    /\ Moves(s, [hub[s] EXCEPT !.st = "error"])
    /\ UNCHANGED <<gateway, makes, app, dialog, intents, tries>>
HubRunEnds(s) ==
    /\ hub[s].st # "idle"
    /\ Moves(s, [hub[s] EXCEPT !.st = "idle", !.arch = hub[s].n, !.part = FALSE])
    /\ UNCHANGED <<gateway, makes, app, dialog, intents, tries>>

\* /progress, /messages and /api/sessions are answered.
HistoryServed ==
    /\ net.hist.st = "sent"
    /\ net' = [net EXCEPT !.hist = [st |-> "served", older |-> net.hist.older, stops |-> net.hist.stops,
                                    data |-> Messages(app.selected, net.hist.before)]]
    /\ UNCHANGED <<hub, gateway, makes, app, dialog, intents, tries>>
ReadServed ==
    /\ \/ net.prog.st = "sent" /\ net' = [net EXCEPT !.prog = [st |-> "served", data |-> Progress(app.selected)]]
       \/ \E l \in net.lists :
              l.st = "sent" /\ net' = [net EXCEPT !.lists = (@ \ {l}) \cup {[l EXCEPT !.st = "served",
                                           !.seen = {s \in Chats : hub[s].there}]}]
    /\ UNCHANGED <<hub, gateway, makes, app, dialog, intents, tries>>

\* The channel's listener sends its latest projection; the queue keeps one.
FramePushed ==
    /\ net.sock = "open" /\ net.dirty /\ net.frame.st = "none"
    /\ net' = [net EXCEPT !.frame = [st |-> "served", data |-> Progress(app.selected)], !.dirty = FALSE]
    /\ UNCHANGED <<hub, gateway, makes, app, dialog, intents, tries>>

\* forward_submit: the hub starts the run, refuses it, or answers too late (504).
Forwarded(rid) ==
    LET g == gateway[rid]
        Answered(st, run) == gateway' = [gateway EXCEPT ![rid] = [g EXCEPT !.st = st, !.run = run]]
    IN  /\ g.st = "going"
        /\ \/ /\ hub[g.s].st = "idle"
              /\ \/ Answered("ok", hub[g.s].n + 1) /\ UNCHANGED tries
                 \/ Free("errors") /\ Spent("errors") /\ Answered("unsure", 0)
              /\ Moves(g.s, [hub[g.s] EXCEPT !.st = "running", !.n = @ + 1])
              /\ intents' = [intents EXCEPT !.ran = Append(@, intents.of[rid])]
           \/ /\ hub[g.s].st # "idle" /\ Answered("refused", 0)
              /\ UNCHANGED <<hub, net, intents, tries>>
           \/ /\ Free("errors") /\ Spent("errors") /\ Answered("unsure", 0)
              /\ UNCHANGED <<hub, net, intents>>
        /\ UNCHANGED <<makes, app, dialog>>

\* submit: a request id that is new starts the forwarding, a known one joins it.
Submitted(rid, s) ==
    IF gateway[rid].st = "none" THEN [gateway EXCEPT ![rid] = [Gateless EXCEPT !.st = "going", !.s = s]]
    ELSE gateway
PostReaches ==
    /\ net.post.st = "sent"
    /\ gateway' = Submitted(net.post.rid, net.post.s)
    /\ net' = [net EXCEPT !.post.st = "waiting"]
    /\ UNCHANGED <<hub, makes, app, dialog, intents, tries>>
StrayReaches(x) ==
    /\ gateway' = Submitted(x.rid, x.s)
    /\ net' = [net EXCEPT !.strays = @ \ {x}]
    /\ UNCHANGED <<hub, makes, app, dialog, intents, tries>>

\* create_session.perform, which goes on when the page has given up: under the
\* entry's lock the session is made at most once, an unanswered attempt is not
\* repeated, the binding is.
Performs(x, st, e) ==
    /\ makes' = [makes EXCEPT !.entry[x.rid] = [e EXCEPT !.locked = TRUE]]
    /\ net' = [net EXCEPT !.makes = (@ \ {x}) \cup {[x EXCEPT !.st = st]}]
Performed(x, answer, e) ==
    /\ makes' = [makes EXCEPT !.entry[x.rid] = [e EXCEPT !.locked = FALSE]]
    /\ net' = [net EXCEPT !.makes = (@ \ {x}) \cup IF x.awaited THEN {[x EXCEPT !.st = answer]} ELSE {}]
NewChat == CHOOSE s \in Chats : ~hub[s].there /\ \A t \in Chats : ~hub[t].there => s <= t
Perform(x) ==
    /\ x.st = "sent" /\ ~makes.entry[x.rid].locked
    /\ LET e == makes.entry[x.rid]
       IN  \/ e.done /\ Performed(x, "ok", e)
           \/ ~e.done /\ x.project /\ ~makes.project /\ Performed(x, "reselect", e)
           \/ /\ ~e.done /\ (x.project => makes.project)
              /\ CASE e.session # 0 -> Performs(x, "binding", e)
                   [] e.session = 0 /\ e.attempted -> Performed(x, "unconfirmed", e)
                   [] OTHER -> Performs(x, "creating", [e EXCEPT !.attempted = TRUE])
    /\ UNCHANGED <<hub, gateway, app, dialog, intents, tries>>

\* The hub makes a session, refuses to, or the gateway does not learn which.
Creates(x) ==
    /\ x.st = "creating"
    /\ LET e == makes.entry[x.rid]
       IN  \/ /\ \E s \in Chats : ~hub[s].there
              /\ hub' = [hub EXCEPT ![NewChat].there = TRUE]
              /\ \/ Performs(x, "binding", [e EXCEPT !.session = NewChat, !.made = @ + 1]) /\ UNCHANGED tries
                 \/ Free("errors") /\ Spent("errors") /\ Performed(x, "unsure", [e EXCEPT !.made = @ + 1])
           \/ /\ Free("errors") /\ Spent("errors") /\ UNCHANGED hub
              /\ Performed(x, "failed", [e EXCEPT !.attempted = FALSE]) \/ Performed(x, "unsure", e)
    /\ UNCHANGED <<gateway, app, dialog, intents>>
Binds(x) ==
    /\ x.st = "binding"
    /\ LET e == makes.entry[x.rid]
       IN  \/ Performed(x, "ok", [e EXCEPT !.done = TRUE]) /\ UNCHANGED tries
           \/ x.project /\ Free("errors") /\ Spent("errors") /\ Performed(x, "unbound", e)
    /\ UNCHANGED <<hub, gateway, app, dialog, intents>>
ProjectGoes ==
    /\ Free("projects") /\ Spent("projects") /\ makes.project
    /\ makes' = [makes EXCEPT !.project = FALSE]
    /\ UNCHANGED <<hub, gateway, app, dialog, net, intents>>
-----------------------------------------------------------------------------
(* Answers and frames reach the page.                                       *)
HistoryArrives ==
    /\ net.hist.st = "served"
    /\ Becomes(MessagesLoaded(Here, net.hist.data))
    /\ UNCHANGED <<hub, gateway, makes, dialog, intents, tries>>
HistoryFails ==
    /\ Free("errors") /\ Spent("errors") /\ net.hist.st # "none"
    /\ Becomes(HistoryOver(Here))
    /\ UNCHANGED <<hub, gateway, makes, dialog, intents>>
ProgressArrives ==
    /\ net.prog.st = "served"
    /\ LET p == [Here EXCEPT !.n.prog = NoRead]
       IN  Becomes(IF app.connected THEN p ELSE ApplyProgress(p, net.prog.data))
    /\ UNCHANGED <<hub, gateway, makes, dialog, intents, tries>>
ProgressFails ==
    /\ Free("errors") /\ Spent("errors") /\ net.prog.st # "none"
    /\ net' = [net EXCEPT !.prog = NoRead]
    /\ UNCHANGED <<hub, gateway, makes, app, dialog, intents>>

\* loadSessions: nothing selected means the wanted or the first one, but a
\* phone that is at its list stays there; a creation goes to its session.
ListRead(l, ok) ==
    /\ l.st = "served"
    /\ LET p == [Here EXCEPT !.n.lists = @ \ {l}, !.a.list = IF ok THEN l.seen ELSE @]
           first == IF app.url \in l.seen THEN app.url ELSE CHOOSE s \in l.seen : \A t \in l.seen : s <= t
           q == IF ok /\ app.selected = 0 /\ l.seen # {} /\ ~(app.mobile /\ app.url = 0)
                THEN Select(p, first, FALSE) ELSE p
       IN  Becomes(IF l.goto = 0 THEN q ELSE Select(q, l.goto, TRUE))
    /\ UNCHANGED <<hub, gateway, makes, dialog, intents>>
ListArrives(l) == ListRead(l, TRUE) /\ UNCHANGED tries
ListFails(l) == Free("errors") /\ Spent("errors") /\ ListRead(l, FALSE)

\* LiveProgress: the first frame of a connection also reads the history.
SocketOpens ==
    /\ Free("opens") /\ Spent("opens") /\ net.sock = "connecting"
    /\ net' = [net EXCEPT !.sock = "open", !.dirty = FALSE,
                          !.frame = [st |-> "served", data |-> Progress(app.selected)]]
    /\ UNCHANGED <<hub, gateway, makes, app, dialog, intents>>
FrameArrives ==
    /\ net.frame.st = "served"
    /\ LET p == ApplyProgress([Here EXCEPT !.n.frame = NoRead, !.a.connected = TRUE], net.frame.data)
       IN  Becomes(IF app.connected THEN p ELSE LoadMessages(p, FALSE))
    /\ UNCHANGED <<hub, gateway, makes, dialog, intents, tries>>
SocketDrops ==
    /\ Free("drops") /\ Spent("drops") /\ net.sock \in {"connecting", "open"}
    /\ Becomes([CloseLive(Here) EXCEPT !.n.sock = "backoff"])
    /\ UNCHANGED <<hub, gateway, makes, dialog, intents>>
SocketRetries ==
    /\ net.sock = "backoff"
    /\ Becomes(OpenLive(Here))
    /\ UNCHANGED <<hub, gateway, makes, dialog, intents, tries>>

\* The timers: progress without a live connection, the list, the settling
\* read after a run, history.
ProgressTicks ==
    /\ Free("polls") /\ Spent("polls") /\ ~app.hidden /\ ~app.connected
    /\ Becomes(LoadProgress(Here))
    /\ UNCHANGED <<hub, gateway, makes, dialog, intents>>
ListTicks ==
    /\ Free("lists") /\ Spent("lists") /\ ~app.hidden
    /\ Becomes(LoadSessions(Here, 0))
    /\ UNCHANGED <<hub, gateway, makes, dialog, intents>>
Settles ==
    /\ app.settle /\ Becomes(LoadMessages([Here EXCEPT !.a.settle = FALSE], FALSE))
    /\ UNCHANGED <<hub, gateway, makes, dialog, intents, tries>>
HistoryTicks ==
    /\ ~app.hidden /\ Becomes(LoadMessages(Here, FALSE))
    /\ UNCHANGED <<hub, gateway, makes, dialog, intents, tries>>
-----------------------------------------------------------------------------
(* The user.                                                                *)
ChooseChat(s) ==
    /\ Free("chooses") /\ Spent("chooses") /\ s \in app.list /\ ~dialog.open
    /\ Becomes(Select(Here, s, TRUE))
    /\ UNCHANGED <<hub, gateway, makes, dialog, intents>>
\* Back to the list on a phone, and forward again through the browser's history.
GoBack ==
    /\ Free("chooses") /\ Spent("chooses") /\ app.mobile /\ app.selected # 0 /\ ~dialog.open
    /\ Becomes(Cleared(Here))
    /\ UNCHANGED <<hub, gateway, makes, dialog, intents>>
GoForward(s) ==
    /\ Free("chooses") /\ Spent("chooses") /\ app.mobile /\ app.selected = 0 /\ s \in app.list
    /\ Becomes(Select([Here EXCEPT !.a.url = s], s, FALSE))
    /\ UNCHANGED <<hub, gateway, makes, dialog, intents>>
Hides ==
    /\ Free("hides") /\ Spent("hides") /\ ~app.hidden
    /\ Becomes(CancelReads([Here EXCEPT !.a.hidden = TRUE]))
    /\ UNCHANGED <<hub, gateway, makes, dialog, intents>>
\* visibilitychange; the online event does the same without the list.
Resumes ==
    /\ LET p == [Here EXCEPT !.a.hidden = FALSE]
           q == IF app.selected = 0 THEN p ELSE SyncCurrent(OpenLive(p))
       IN  \/ app.hidden /\ Becomes(IF app.selected = 0 THEN q ELSE LoadSessions(q, 0)) /\ UNCHANGED tries
           \/ ~app.hidden /\ Free("drops") /\ Spent("drops") /\ Becomes(q)
    /\ UNCHANGED <<hub, gateway, makes, dialog, intents>>
OlderMessages ==
    /\ Free("older") /\ Spent("older") /\ app.before # 0 /\ net.hist.st = "none"
    /\ Becomes(LoadMessages(Here, TRUE))
    /\ UNCHANGED <<hub, gateway, makes, dialog, intents>>

TypeInstruction(t) ==
    /\ Free("types") /\ Spent("types") /\ app.selected # 0 /\ ~app.sending /\ t # app.input
    /\ app' = [app EXCEPT !.input = t, !.drafts[app.selected] = t]
    /\ intents' = [intents EXCEPT !.typed[app.selected] = t]
    /\ UNCHANGED <<hub, gateway, makes, dialog, net>>

\* uploadFiles: one after the other, for the session they were chosen in.
UploadFiles(k) ==
    /\ app.selected # 0 /\ ~app.sending /\ ~app.uploading
    /\ Len(app.files[app.selected]) < FileCap /\ tries["files"] >= k
    /\ Becomes([Here EXCEPT !.a.uploading = TRUE, !.n.up = [st |-> "sent", s |-> app.selected, left |-> k]])
    /\ tries' = [tries EXCEPT !["files"] = @ - k]
    /\ UNCHANGED <<hub, gateway, makes, dialog, intents>>
FileArrives ==
    /\ net.up.st = "sent"
    /\ LET s == net.up.s
           id == 10 * tries["files"] + net.up.left
           more == net.up.left > 1 /\ Len(app.files[s]) + 1 < FileCap
       IN  /\ Becomes([Here EXCEPT !.a.files[s] = Append(@, id), !.a.uploading = more,
                                   !.n.up = IF more THEN [@ EXCEPT !.left = @ - 1] ELSE NoRead])
           /\ intents' = [intents EXCEPT !.put[s] = Append(@, id)]
    /\ UNCHANGED <<hub, gateway, makes, dialog, tries>>
FileFails ==
    /\ Free("errors") /\ Spent("errors") /\ net.up.st = "sent"
    /\ Becomes([Here EXCEPT !.a.uploading = FALSE, !.n.up = NoRead])
    /\ UNCHANGED <<hub, gateway, makes, dialog, intents>>
RemoveFile(id) ==
    /\ Free("types") /\ Spent("types") /\ ~app.sending /\ ~app.uploading
    /\ LET s == app.selected
           Others(files) == SelectSeq(files, LAMBDA f : f # id)
       IN  /\ app' = [app EXCEPT !.files[s] = Others(@)]
           /\ intents' = [intents EXCEPT !.put[s] = Others(@)]
    /\ UNCHANGED <<hub, gateway, makes, dialog, net>>

SendOffered ==
    /\ app.selected # 0 /\ ~app.sending /\ ~app.stopping /\ ~app.saving
    /\ IF Working(app.status) THEN app.status # "aborting"
       ELSE ~app.uploading /\ Ready(app.status) /\ (app.input # 0 \/ app.files[app.selected] # <<>>)

\* The same text and files as an unanswered submission keep its request id.
NextRid == 1 + Cardinality({r \in Rids : intents.of[r] # 0})
Submission_AlwaysFresh(s) ==
    [rid |-> NextRid, text |-> app.input, files |-> app.files[s]]

Submission(s) ==
    LET was == app.pending[s]
    IN  IF was.rid # 0 /\ was.text = app.input /\ was.files = app.files[s] THEN was
        ELSE [rid |-> NextRid, text |-> app.input, files |-> app.files[s]]
\* To the user it is the same instruction while they only repeat what got no
\* answer, or a server's error.
Meant(s, rid) ==
    LET last == intents.last[s]
        same == last.text = app.input /\ last.files = app.files[s] /\ last.answer = "unsure"
        intent == IF same THEN last.intent ELSE intents.count + 1
    IN  [intents EXCEPT !.count = IF same THEN @ ELSE @ + 1, !.of[rid] = intent,
                        !.last[s] = [text |-> app.input, files |-> app.files[s], answer |-> "none",
                                     intent |-> intent]]
SendInstruction ==
    /\ Free("sends") /\ Spent("sends") /\ SendOffered /\ ~Working(app.status)
    /\ LET s == app.selected
       IN  \E new \in {Submission(s)} :
              /\ Becomes([Here EXCEPT !.a.pending[s] = new, !.a.sending = TRUE,
                                      !.n.post = [st |-> "sent", s |-> s, rid |-> new.rid]])
              /\ intents' = Meant(s, new.rid)
    /\ UNCHANGED <<hub, gateway, makes, dialog>>

\* What the answer of a send does to the page.
Accepted(p, s, run) ==
    LET has == \E i \in DOMAIN p.a.accepted[s] : p.a.accepted[s][i].run = <<s, run>>
        a == [p.a EXCEPT !.accepted[s] = IF has THEN @
                                         ELSE Append(@, Said("user", <<s, run>>, 2000 + run, FALSE, FALSE)),
                         !.pending[s] = NoPending, !.drafts[s] = 0, !.files[s] = <<>>]
    IN  IF a.selected = s
        THEN SyncCurrent([p EXCEPT !.a = [a EXCEPT !.input = 0, !.status = "running"]])
        ELSE [p EXCEPT !.a = a]
SendOver(answer) ==
    intents' = [intents EXCEPT !.last[net.post.s].answer = answer,
                               !.typed[net.post.s] = IF answer = "ok" THEN 0 ELSE @,
                               !.put[net.post.s] = IF answer = "ok" THEN <<>> ELSE @]
SendArrives ==
    /\ net.post.st = "waiting" /\ gateway[net.post.rid].st \in {"ok", "refused", "unsure"}
    /\ LET s == net.post.s
           answer == gateway[net.post.rid].st
           p == [Here EXCEPT !.a.sending = FALSE, !.n.post = NoRead]
       IN  /\ Becomes(CASE answer = "ok" -> LoadSessions(Accepted(p, s, gateway[net.post.rid].run), 0)
                        [] answer = "refused" -> [p EXCEPT !.a.pending[s] = NoPending]
                        [] OTHER -> p)
           /\ SendOver(answer)
    /\ UNCHANGED <<hub, gateway, makes, dialog, tries>>
\* The fetch fails; the request may be on its way all the same.
SendLost ==
    /\ Free("errors") /\ Spent("errors") /\ net.post.st # "none"
    /\ \E late \in IF net.post.st = "sent" THEN BOOLEAN ELSE {FALSE} :
          Becomes([Here EXCEPT !.a.sending = FALSE, !.n.post = NoRead,
                     !.n.strays = IF late THEN @ \cup {[rid |-> net.post.rid, s |-> net.post.s]} ELSE @])
    /\ SendOver("unsure")
    /\ UNCHANGED <<hub, gateway, makes, dialog>>

StopRun ==
    /\ Free("stops") /\ Spent("stops") /\ SendOffered /\ Working(app.status)
    /\ Becomes([Here EXCEPT !.a.stopping = TRUE, !.n.stop = [st |-> "sent", s |-> app.selected]])
    /\ UNCHANGED <<hub, gateway, makes, dialog, intents>>
StopServed ==
    /\ net.stop.st = "sent"
    /\ LET s == net.stop.s
           st == IF hub[s].st = "running" THEN "aborting" ELSE hub[s].st
       IN  /\ hub' = [hub EXCEPT ![s].st = st]
           /\ net' = [net EXCEPT !.stop = [@ EXCEPT !.st = st], !.dirty = @ \/ app.selected = s]
    /\ UNCHANGED <<gateway, makes, app, dialog, intents, tries>>
\* The button comes back when the read that follows is over.
StopArrives ==
    /\ net.stop.st \notin {"none", "sent"}
    /\ LET p == [Here EXCEPT !.n.stop = NoRead]
           q == LoadMessages([p EXCEPT !.a.status = net.stop.st], FALSE)
           asked == net.hist.st = "none" /\ q.n.hist.st = "sent"
       IN  Becomes(IF app.selected = net.stop.s /\ asked THEN [q EXCEPT !.n.hist.stops = TRUE]
                   ELSE [(IF app.selected = net.stop.s THEN q ELSE p) EXCEPT !.a.stopping = FALSE])
    /\ UNCHANGED <<hub, gateway, makes, dialog, intents, tries>>
StopFails ==
    /\ Free("errors") /\ Spent("errors") /\ net.stop.st # "none"
    /\ Becomes([Here EXCEPT !.n.stop = NoRead, !.a.stopping = FALSE])
    /\ UNCHANGED <<hub, gateway, makes, dialog, intents>>

\* changeModel holds the send button until its answer, or its failure.
ChangeModel ==
    /\ Free("models") /\ Spent("models") /\ app.selected # 0 /\ ~app.saving /\ ~app.sending
    /\ Ready(app.status)
    /\ Becomes([Here EXCEPT !.a.saving = TRUE, !.n.model = [st |-> "sent"]])
    /\ UNCHANGED <<hub, gateway, makes, dialog, intents>>
ModelSaved ==
    /\ net.model.st = "sent"
    /\ Becomes([Here EXCEPT !.a.saving = FALSE, !.n.model = NoRead])
    /\ UNCHANGED <<hub, gateway, makes, dialog, intents, tries>>

\* The new-session dialog.
OpenDialog ==
    /\ Free("dialogs") /\ Spent("dialogs") /\ ~dialog.open /\ ~dialog.loading
    /\ dialog' = IF dialog.rid # 0 THEN [dialog EXCEPT !.open = TRUE, !.busy = FALSE]
                 ELSE [dialog EXCEPT !.open = TRUE, !.busy = TRUE, !.loading = TRUE, !.project = FALSE]
    /\ UNCHANGED <<hub, gateway, makes, app, net, intents>>
CatalogArrives ==
    /\ dialog.loading
    /\ \/ dialog' = [dialog EXCEPT !.loading = FALSE, !.busy = FALSE, !.project = makes.project] /\ UNCHANGED tries
       \/ Free("errors") /\ Spent("errors") /\ dialog' = [dialog EXCEPT !.loading = FALSE, !.busy = FALSE]
    /\ UNCHANGED <<hub, gateway, makes, app, net, intents>>
CloseDialog ==
    /\ dialog.open /\ ~dialog.busy
    /\ dialog' = [dialog EXCEPT !.open = FALSE]
    /\ UNCHANGED <<hub, gateway, makes, app, net, intents, tries>>

ProjectLocked == dialog.busy \/ dialog.rid # 0
ConfirmDialog(project) ==
    /\ Free("confirms") /\ Spent("confirms") /\ dialog.open /\ ~dialog.busy
    /\ IF ProjectLocked THEN project = dialog.chosen ELSE project => dialog.project
    /\ LET rid == IF dialog.rid # 0 THEN dialog.rid ELSE intents.made + 1
       IN  /\ dialog' = [dialog EXCEPT !.rid = rid, !.busy = TRUE, !.chosen = project]
           /\ intents' = [intents EXCEPT !.made = rid]
           /\ net' = [net EXCEPT !.makes = @ \cup {[n |-> tries["confirms"], st |-> "sent", rid |-> rid,
                                                    project |-> project, awaited |-> TRUE]}]
    /\ UNCHANGED <<hub, gateway, makes, app>>
MakeArrives(x) ==
    /\ x.awaited /\ x.st \notin {"sent", "creating", "binding"}
    /\ LET p == [Here EXCEPT !.n.makes = @ \ {x}]
       IN  IF x.st = "ok"
           THEN /\ dialog' = [dialog EXCEPT !.rid = 0, !.busy = FALSE, !.open = FALSE]
                /\ Becomes(LoadSessions(p, makes.entry[x.rid].session))
           ELSE dialog' = [dialog EXCEPT !.busy = FALSE] /\ Becomes(p)
    /\ UNCHANGED <<hub, gateway, makes, intents, tries>>
\* The answer does not come; the request may be on its way, or being performed.
MakeLost(x) ==
    /\ Free("errors") /\ Spent("errors") /\ x.awaited
    /\ dialog' = [dialog EXCEPT !.busy = FALSE]
    /\ \E late \in IF x.st = "sent" THEN BOOLEAN ELSE {x.st \in {"creating", "binding"}} :
         net' = [net EXCEPT !.makes = (@ \ {x}) \cup IF late THEN {[x EXCEPT !.awaited = FALSE]} ELSE {}]
    /\ UNCHANGED <<hub, gateway, makes, app, intents>>
-----------------------------------------------------------------------------
Server ==
    \/ \E s \in Chats : DesktopRuns(s) \/ RoundArchived(s) \/ AbortTimesOut(s) \/ HubRunEnds(s)
    \/ HistoryServed \/ ReadServed \/ FramePushed \/ PostReaches \/ StopServed \/ ProjectGoes
    \/ \E rid \in Rids : Forwarded(rid)
    \/ \E x \in net.strays : StrayReaches(x)
    \/ \E x \in net.makes : Perform(x) \/ Creates(x) \/ Binds(x)
Arriving ==
    \/ HistoryArrives \/ ProgressArrives \/ SocketOpens \/ FrameArrives \/ FileArrives
    \/ SendArrives \/ StopArrives \/ ModelSaved \/ CatalogArrives
    \/ \E x \in net.makes : MakeArrives(x)
    \/ \E l \in net.lists : ListArrives(l)
Failing ==
    \/ HistoryFails \/ ProgressFails \/ SocketDrops \/ FileFails \/ SendLost \/ StopFails
    \/ \E x \in net.makes : MakeLost(x)
    \/ \E l \in net.lists : ListFails(l)
Acting ==
    \/ \E s \in Chats : ChooseChat(s) \/ GoForward(s)
    \/ \E t \in Instructions \cup {0} : TypeInstruction(t)
    \/ \E k \in 1..2 : UploadFiles(k)
    \/ app.selected # 0 /\ \E id \in Range(app.files[app.selected]) : RemoveFile(id)
    \/ GoBack \/ Hides \/ Resumes \/ OlderMessages \/ SendInstruction \/ StopRun \/ ChangeModel
    \/ OpenDialog \/ CloseDialog \/ \E project \in BOOLEAN : ConfirmDialog(project)

RemoteNext == Server \/ Arriving \/ Failing \/ Acting \/ SocketRetries
              \/ ProgressTicks \/ ListTicks \/ Settles \/ HistoryTicks

(***************************************************************************)
(* Properties.                                                              *)
(***************************************************************************)
\* An instruction is run at most once, however often it is sent again after a
\* lost answer or a server error: the page keeps its request id, and the
\* gateway runs an id once (sendInstruction, submit).
RunsOnce == \A i, j \in DOMAIN intents.ran : intents.ran[i] = intents.ran[j] => i = j

\* A session's text and attachments stay its own until they are accepted,
\* whatever is selected when answers and uploads arrive.
KeepsDraft ==
    \A s \in Chats : /\ intents.typed[s] = IF app.selected = s THEN app.input ELSE app.drafts[s]
                     /\ intents.put[s] = app.files[s]

\* Only messages of the selected session are shown, and none twice: what is
\* accepted or live is not shown beside the archive's copy of it, and a run has
\* two questions or two answers only where the archive has.
ShowsItsSession ==
    LET shown == Shown
        archived == DOMAIN app.msgs
    IN  \A i, j \in DOMAIN shown :
          /\ shown[i].run[1] = app.selected
          /\ i # j => shown[i].ord # shown[j].ord
          /\ i # j /\ SameMessage(shown[i], shown[j]) => {i, j} \subseteq archived

\* A creation that is confirmed again after a failure, or while the request before
\* is still being performed, makes no second session.
CreatesOnce == \A rid \in Rids : makes.entry[rid].made <= 1
=============================================================================
