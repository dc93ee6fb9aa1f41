------------------------------ MODULE ChatStore ------------------------------
(***************************************************************************)
(* webui/src/stores/chatStore.ts: the state of the one chat that is shown, *)
(* the projections of the chats that were shown before, the socket of the  *)
(* shown session, the archive request that races with it, older pages and  *)
(* the sweep through all of them.                                          *)
(*                                                                         *)
(* "ui" is the zustand store together with the singletons next to it       *)
(* (runtime) and the closure of the connection start() opened: the store's *)
(* operations are functions from one ui to the next, as set() composes     *)
(* them, and the actions apply them.  Work a handler leaves to a microtask *)
(* runs before the next handler, hence in the same action.                 *)
(***************************************************************************)
EXTENDS ChatServer

CONSTANTS
    Budgets,      \* scenarios: how often each environment or user step may happen
    CachedViews,  \* MAX_CACHED_SESSION_VIEWS
    Large         \* sessions whose text is over MAX_CACHED_SESSION_CHARS

VARIABLES
    ui,           \* the store, its runtime singletons and the live connection
    left          \* what is left of the budget

storeVars == <<ui, left>>
vars == <<srv, form, ui, left>>

None == 0
NoCursor == [epoch |-> 0, id |-> 0]

\* "since", which no code reads, is where the shown projection of a session began to
\* follow the event log: every later frame has been or will be applied to it; "ended"
\* is how many runs were over when the archive it shows was read; "early" holds the
\* runs a snapshot settled before their last frames were delivered.

\* The connection of the shown session.  "loaded" is historyReady, "queued" the
\* throttled next frames, "pos" what the server's side of the socket has sent.
Closed == [phase |-> "closed", pos |-> 0, boundary |-> 0, loaded |-> FALSE,
           buffer |-> <<>>, queued |-> <<>>]

\* A session's cached projection (SessionView); history "none" is no view.
NoView == [msgs |-> <<>>, streaming |-> FALSE, history |-> "none", revision |-> <<>>,
           ended |-> 0, before |-> 0, older |-> "idle"]

\* The older-page request in flight.
NoPage == [on |-> FALSE, got |-> FALSE, before |-> 0, page |-> <<>>]

InitialStore ==
    [session |-> None, sock |-> FALSE, conn |-> "connecting", msgs |-> <<>>, streaming |-> FALSE,
     ready |-> FALSE, backoff |-> FALSE, history |-> "idle", revision |-> <<>>, ended |-> 0, before |-> 0,
     older |-> "idle", sweeping |-> FALSE, views |-> [s \in Sessions |-> NoView], recent |-> <<>>,
     cursor |-> [s \in Sessions |-> NoCursor],
     since |-> [s \in Sessions |-> 0], early |-> {}, link |-> Closed, requests |-> {},
     page |-> NoPage, sweeps |-> {}, tasks |-> <<>>, stages |-> 0, posts |-> {}]

Init == ServerInit /\ ui = InitialStore /\ left \in Budgets

Spend(field) == left[field] > 0 /\ left' = [left EXCEPT ![field] = @ - 1]

-----------------------------------------------------------------------------
(* Frames.                                                                  *)

\* The cursor of the shown session follows the frames that have been applied.
CommitCursor(u, e) ==
    LET now == u.cursor[u.session]
    IN IF e.id # 0 /\ (now.epoch # e.epoch \/ e.id > now.id)
       THEN [u EXCEPT !.cursor[u.session] = [epoch |-> e.epoch, id |-> e.id]] ELSE u

Show(u, msgs) == [u EXCEPT !.msgs = msgs, !.streaming = AnyStreaming(msgs)]

Apply(u, e) == CommitCursor(Show(u, ApplyEvent(u.msgs, e, Now(u.session))), e)

FlushNext_Discards(u) == [u EXCEPT !.link.queued = <<>>]

\* Throttled next frames take effect, one per stream.
FlushNext(u) == [Fold(Apply, u, u.link.queued) EXCEPT !.link.queued = <<>>]

PutNext(queued, e) ==
    LET i == SelectInSeq(queued, LAMBDA q : q.stream = e.stream)
    IN IF i = 0 THEN Append(queued, e) ELSE [queued EXCEPT ![i] = e]

\* handleReadyMessage.  "quiet": no next was flushed in the last 100 ms.
HandleReadyMessage(u, m, quiet) ==
    CASE m.type = "snapshot" ->
           Show([u EXCEPT !.link.queued = <<>>], MergeSessionSnapshot(u.msgs, m))
      [] m.type = "next" ->
           LET Put(v) == IF quiet THEN FlushNext(v) ELSE v
           IN Put([u EXCEPT !.link.queued = PutNext(@, m)])
      [] m.type = "resync_required" ->
           [u EXCEPT !.cursor[u.session] = NoCursor, !.sock = FALSE, !.history = "loading",
                     !.link.queued = <<>>, !.link.loaded = FALSE, !.link.phase = "closed",
                     !.tasks = Append(@, "start")]
      [] OTHER ->
           LET Done(v) == [CommitCursor(v, m) EXCEPT !.ready = TRUE]
               Applied(v) == [Apply(v, m) EXCEPT
                 !.tasks = IF m.type = "rewound" THEN Append(@, "reload") ELSE @,
                 !.backoff = CASE m.type = "retry_scheduled" -> TRUE
                               [] m.type \in {"retry", "retry_exhausted", "done", "started"} -> FALSE
                               [] OTHER -> @]
               Flushed(v) == IF m.type = "replay_done" THEN Done(v) ELSE Applied(v)
           IN Flushed(FlushNext(u))

-----------------------------------------------------------------------------
(* loadAllHistory: a loop over loadOlderHistory.                            *)

\* "wait": the loop awaits the page in flight.  It remembers what it saw before.
Ended(u, w) == [u EXCEPT !.sweeps = @ \ {w}, !.sweeping = @ /\ u.session # w.session]

Stalled(u, w) ==
    IF w.stalled = 2 THEN Ended(u, w)
    ELSE [u EXCEPT !.sweeps = (@ \ {w}) \cup {[w EXCEPT !.stalled = @ + 1, !.wait = FALSE]}]

\* The rest of an iteration, once loadOlderHistory has returned.
AfterPage(u, w) ==
    CASE u.session # w.session -> Ended(u, w)
      [] u.session = w.session /\ (u.older = "error" \/ u.history = "error") -> Stalled(u, w)
      [] u.session = w.session /\ "error" \notin {u.older, u.history} /\ u.revision # w.revision ->
           Stalled(u, w)
      [] OTHER -> IF Len(u.msgs) <= w.count /\ u.before # 0 THEN Stalled(u, w)
                  ELSE [u EXCEPT !.sweeps = (@ \ {w}) \cup {[w EXCEPT !.stalled = 0, !.wait = FALSE]}]

\* The loop that awaited a page goes on.
Resume(u) ==
    LET waiting == {w \in u.sweeps : w.wait}
    IN IF waiting = {} THEN u ELSE AfterPage(u, CHOOSE w \in waiting : TRUE)

-----------------------------------------------------------------------------
(* start, and what calls it again.                                          *)

\* pruneSessionViews: the views of sessions that receive stay; of the others, the
\* ones left last, up to a number of views and if they are not too large.
PruneSessionViews(views, recent) ==
    LET Held(s) == views[s].history # "none"
        busy == {s \in Sessions : Held(s) /\ views[s].streaming}
        Keep(kept, s) == IF Held(s) /\ s \notin Large /\ Cardinality(kept) < CachedViews
                         THEN kept \cup {s} ELSE kept
        kept == Fold(Keep, busy, recent)
    IN [s \in Sessions |-> IF s \in kept THEN views[s] ELSE NoView]

\* The projection of the session that is left, and the sessions by when they were left.
LeaveSession(c, s) ==
    IF c.session \in {None, s} THEN c
    ELSE [c EXCEPT !.views[c.session] = [msgs |-> c.msgs, streaming |-> c.streaming, history |-> c.history,
                      revision |-> c.revision, ended |-> c.ended, before |-> c.before,
                      older |-> IF c.older = "loading" THEN "idle" ELSE c.older],
                   !.recent = <<c.session>> \o SelectSeq(@, LAMBDA t : t # c.session)]

ShowSession_KeepsMessages(c, s) ==
    IF c.session = s THEN [c EXCEPT !.views = PruneSessionViews(@, c.recent)]
    ELSE [c EXCEPT !.session = s, !.streaming = c.views[s].streaming,
                   !.since[s] = IF c.views[s].history = "none" THEN c.cursor[s].id ELSE @,
                   !.views = PruneSessionViews([@ EXCEPT ![s] = NoView], c.recent)]

\* The cached projection of s replaces what is shown; a session that is shown stays.
ShowSession(c, s) ==
    IF c.session = s THEN [c EXCEPT !.views = PruneSessionViews(@, c.recent)]
    ELSE [c EXCEPT !.session = s, !.msgs = c.views[s].msgs, !.streaming = c.views[s].streaming,
                   !.since[s] = IF c.views[s].history = "none" THEN c.cursor[s].id ELSE @,
                   !.views = PruneSessionViews([@ EXCEPT ![s] = NoView], c.recent)]

\* The socket is opened, and the archive is read unless the cached view has it all.
Connect(c, s, view, resume) ==
    LET stale == {[r EXCEPT !.fresh = FALSE] : r \in c.requests}
    IN [c EXCEPT
          !.sock = TRUE, !.conn = "connecting", !.msgs = OrderConversationTurns(@),
          !.ready = FALSE, !.backoff = FALSE, !.sweeping = FALSE,
          !.history = IF resume THEN "ready" ELSE "loading",
          !.revision = IF resume THEN view.revision ELSE <<>>,
          !.ended = IF resume THEN view.ended ELSE 0,
          !.before = IF resume THEN view.before ELSE 0,
          !.older = IF resume THEN view.older ELSE "idle",
          !.link = [Closed EXCEPT !.phase = "dialing", !.loaded = resume],
          !.requests = IF resume THEN stale
                       ELSE stale \cup {[session |-> s, fresh |-> TRUE, got |-> FALSE, page |-> <<>>]},
          !.page = NoPage, !.tasks = <<>>]

\* start(s): ends the connection of before (the page it awaited is aborted), leaves
\* the session that is shown, and shows and connects s.
StartSession(u, s, force) ==
    LET Left(c, left_) == Resume(Connect(ShowSession(left_, s), s, c.views[s],
                            ~force /\ c.session # s /\ c.views[s].history = "ready"))
        Settled(c) == Left(c, LeaveSession(c, s))
    IN IF ~force /\ u.sock /\ u.session = s /\ u.history # "error" THEN u
       ELSE Settled(IF u.session = None THEN u ELSE FlushNext(u))

RetryHistory(u) ==
    IF u.session # None /\ u.history # "loading" THEN StartSession(u, u.session, TRUE) ELSE u

\* Microtasks a handler queued.  start() ends the connection they belong to, so
\* the ones behind it find it gone.
RunTasks(u) ==
    LET Do(v, task) == CASE v.tasks = <<>> -> v
                         [] v.tasks # <<>> /\ task = "reload" /\ v.history = "loading" -> v
                         [] OTHER -> StartSession(v, v.session, task = "reload")
    IN [Fold(Do, u, u.tasks) EXCEPT !.tasks = <<>>]

\* onMessage: frames wait for the archive.
OnMessage(u, m, quiet) ==
    IF ~u.link.loaded THEN [u EXCEPT !.link.buffer = Append(@, m)]
    ELSE RunTasks(HandleReadyMessage(u, m, quiet))

\* Whether the throttle lets a frame that waited through at once.
Quiet == IF \E i \in 1..Len(ui.link.buffer) : ui.link.buffer[i].type = "next" THEN BOOLEAN ELSE {FALSE}

\* The frames that waited.
Drain(u, quiet) ==
    RunTasks(Fold(LAMBDA v, m : HandleReadyMessage(v, m, quiet),
                      [u EXCEPT !.link.loaded = TRUE, !.link.buffer = <<>>], u.link.buffer))

-----------------------------------------------------------------------------
(* The server's side of the socket.                                         *)

\* start(), called when the page selects a session or mounts with one.
Start(s) ==
    /\ ui' = StartSession(ui, s, FALSE) /\ ui' # ui
    /\ Spend("starts")
    /\ UNCHANGED serverVars

\* The socket opens with the cursor; the server fixes the end of the replay.
Dial ==
    /\ ui.link.phase = "dialing"
    /\ LET s == ui.session
           from == ui.cursor[s]
           last == Len(srv[s].log)
           gap == from # NoCursor /\ (from.epoch # srv[s].epoch \/ from.id < srv[s].evicted \/ from.id > last)
           pos == IF from = NoCursor \/ gap THEN last ELSE from.id
       IN ui' = [ui EXCEPT !.conn = "open", !.since[s] = IF from = NoCursor \/ gap THEN last ELSE @,
                           !.link = [@ EXCEPT !.phase = IF gap THEN "gap" ELSE "replay",
                                              !.pos = pos, !.boundary = last]]
    /\ UNCHANGED <<srv, form, left>>

FramesOf(s, k) == {i \in 1..Len(srv[s].log) :
                     srv[s].log[i].type # "rewound" /\ srv[s].log[i].run = RunId(s, k)}

\* A snapshot stands for the frames of the active run.
Reach(s) == IF Active(s) THEN Min({ui.since[s], Min(FramesOf(s, Latest(s))) - 1}) ELSE ui.since[s]

\* The last run is over, so the snapshot settles it, and frames of it are still to come.
Overtaken(s) == {RunId(s, k) : k \in {k \in 1..Latest(s) :
                    ~Active(s) /\ k = Latest(s) /\ \E i \in FramesOf(s, k) : i > ui.link.pos}}

\* One frame: the replay, then always a snapshot and the barrier, then live frames.
\* A next frame that is due at once is one whose timer fires before anything else.
Deliver ==
    LET s == ui.session
        link == ui.link
        due == /\ link.phase \notin {"closed", "dialing"}
               /\ link.phase = "live" => link.pos < Len(srv[s].log)
        Sent == CASE link.phase = "gap" -> <<[type |-> "resync_required"], "snapshot", link.pos>>
                  [] link.phase = "replay" /\ link.pos < link.boundary ->
                       <<srv[s].log[link.pos + 1], "replay", link.pos + 1>>
                  [] link.phase = "barrier" ->
                       <<[type |-> "replay_done", id |-> link.boundary, epoch |-> srv[s].epoch],
                         "live", link.boundary>>
                  [] link.phase = "live" -> <<srv[s].log[link.pos + 1], "live", link.pos + 1>>
                  [] OTHER -> <<Snapshot(s), "barrier", link.pos>>
    IN /\ due
       /\ \E sent \in {Sent} :
            ui' = OnMessage([ui EXCEPT !.link.phase = sent[2], !.link.pos = sent[3],
                               !.since[s] = IF sent[2] = "barrier" THEN Reach(s) ELSE @,
                               !.early = IF sent[2] = "barrier" THEN @ \cup Overtaken(s) ELSE @],
                            sent[1], FALSE)
       /\ UNCHANGED <<srv, form, left>>

\* The server's queue for this socket overflows.
Overflow ==
    /\ ui.link.phase = "live" /\ ui.link.pos < Len(srv[ui.session].log)
    /\ ui' = OnMessage([ui EXCEPT !.link.phase = "dialing", !.conn = "closed"],
                       [type |-> "resync_required"], FALSE)
    /\ Spend("overflows")
    /\ UNCHANGED serverVars

\* The connection breaks; the managed socket dials again.
Drop ==
    /\ ui.link.phase \notin {"closed", "dialing"}
    /\ ui' = [ui EXCEPT !.link.phase = "dialing", !.conn = "closed"]
    /\ Spend("drops")
    /\ UNCHANGED serverVars

\* The 100 ms timer.
Flush ==
    /\ ui.link.queued # <<>>
    /\ ui' = FlushNext(ui)
    /\ UNCHANGED <<srv, form, left>>

-----------------------------------------------------------------------------
(* The archive.                                                             *)

\* The server reads the file for a request.
ReadHistory(r) ==
    /\ r \in ui.requests /\ ~r.got
    /\ ui' = [ui EXCEPT !.requests = (@ \ {r}) \cup
                {[r EXCEPT !.got = TRUE, !.page = Page(r.session, 0, FirstTurns)]}]
    /\ UNCHANGED <<srv, form, left>>

\* The answer is applied under what is shown, then the frames that waited are.  An
\* answer of an earlier start is ignored.
HistoryArrives(r, quiet) ==
    /\ r \in ui.requests /\ r.got
    /\ LET rest == [ui EXCEPT !.requests = @ \ {r}]
           live == SelectSeq(ui.msgs, LAMBDA m : m.source # "history")
           shown == Show(rest, MergeLive(HistoryToMessages(r.page.items), live))
       IN ui' = IF ~r.fresh \/ ui.session # r.session THEN rest
                ELSE Drain([shown EXCEPT !.history = "ready", !.revision = r.page.revision,
                                         !.ended = r.page.ended, !.before = r.page.before, !.older = "idle"], quiet)
    /\ UNCHANGED <<srv, form, left>>

HistoryFails(r, quiet) ==
    /\ r \in ui.requests
    /\ LET rest == [ui EXCEPT !.requests = @ \ {r}]
       IN ui' = IF ~r.fresh \/ ui.session # r.session THEN rest
                ELSE Drain([rest EXCEPT !.history = "error", !.revision = <<>>, !.ended = 0, !.before = 0,
                                        !.older = "idle"], quiet)
    /\ Spend("fails")
    /\ UNCHANGED serverVars

\* The retry button, and the end of a rewind this page asked for.
Retry ==
    /\ ui' = RetryHistory(ui) /\ ui' # ui
    /\ Spend("forces")
    /\ UNCHANGED serverVars

\* loadOlderHistory up to its await.
MayPage(u) == u.session # None /\ u.history = "ready" /\ u.before # 0 /\ u.older # "loading"

AskPage(u) == [u EXCEPT !.older = "loading",
                        !.page = [on |-> TRUE, got |-> FALSE, before |-> u.before, page |-> <<>>]]


LoadOlder ==
    /\ MayPage(ui)
    /\ ui' = AskPage(ui)
    /\ Spend("pages")
    /\ UNCHANGED serverVars

ReadPage ==
    /\ ui.page.on /\ ~ui.page.got
    /\ ui' = [ui EXCEPT !.page.got = TRUE, !.page.page = Page(ui.session, ui.page.before, PageTurns)]
    /\ UNCHANGED <<srv, form, left>>

\* A page of another revision of the file is thrown away and the archive reloaded.
PageArrives ==
    /\ ui.page.got
    /\ LET page == ui.page.page
           idle == [ui EXCEPT !.page = NoPage, !.older = "idle"]
       IN ui' = IF ui.revision # page.revision THEN StartSession(idle, ui.session, TRUE)
                ELSE Resume([idle EXCEPT
                       !.msgs = PrependUniqueHistory(HistoryToMessages(page.items), ui.msgs),
                       !.before = page.before])
    /\ UNCHANGED <<srv, form, left>>

PageFails ==
    /\ ui.page.on
    /\ ui' = Resume([ui EXCEPT !.page = NoPage, !.older = "error"])
    /\ Spend("fails")
    /\ UNCHANGED serverVars

LoadAll ==
    /\ MayPage(ui) /\ ~ui.sweeping
    /\ ui' = [ui EXCEPT !.sweeping = TRUE, !.sweeps = @ \cup
                {[session |-> ui.session, wait |-> FALSE, stalled |-> 0, count |-> 0, revision |-> <<>>]}]
    /\ Spend("sweeps")
    /\ UNCHANGED serverVars

\* The top of an iteration: give up, or ask for the next page.  It waits while the
\* archive is being reloaded.
SweepStep(w) ==
    /\ w \in ui.sweeps /\ ~w.wait
    /\ LET seen == [w EXCEPT !.wait = TRUE, !.count = Len(ui.msgs), !.revision = ui.revision]
           looking == [ui EXCEPT !.sweeps = (@ \ {w}) \cup {seen}]
       IN ui' = CASE ui.session # w.session \/ ui.history = "error" -> Ended(ui, w)
                  [] ui.session = w.session /\ ui.history = "ready" ->
                       IF ui.before = 0 THEN Ended(ui, w)
                       ELSE IF MayPage(ui) THEN AskPage(looking) ELSE AfterPage(looking, seen)
                  [] OTHER -> ui
    /\ ui' # ui
    /\ UNCHANGED <<srv, form, left>>

\* Five minutes, or 600 iterations, are over.
SweepDeadline(w) ==
    /\ w \in ui.sweeps /\ ~w.wait
    /\ ui' = Ended(ui, w)
    /\ UNCHANGED <<srv, form, left>>

-----------------------------------------------------------------------------
(* The page lets go of a session.                                           *)

\* The connection and the requests of the shown session are abandoned.
Abandon(u) ==
    LET c == FlushNext(u)
    IN Resume([c EXCEPT !.session = None, !.sock = FALSE, !.conn = "closed", !.link = Closed,
                        !.requests = {[r EXCEPT !.fresh = FALSE] : r \in @}, !.page = NoPage,
                        !.history = "idle", !.revision = <<>>, !.ended = 0, !.before = 0, !.older = "idle",
                        !.sweeping = FALSE, !.tasks = <<>>])

\* dropSessionView: the session is being deleted.  Its cursor goes first; frames
\* that were throttled are still committed.
DropSessionView(s) ==
    /\ LET gone == [ui EXCEPT !.views[s] = NoView, !.cursor[s] = NoCursor]
       IN ui' = IF ui.session # s THEN gone
                ELSE [Abandon(gone) EXCEPT !.msgs = <<>>, !.streaming = FALSE]
    /\ Spend("removals")
    /\ UNCHANGED serverVars

\* No session is left to show: teardown and clearLocal.
Teardown ==
    /\ ui.session # None
    /\ ui' = [Abandon(ui) EXCEPT !.msgs = <<>>, !.streaming = FALSE]
    /\ Spend("removals")
    /\ UNCHANGED serverVars

-----------------------------------------------------------------------------
(* Bubbles the page adds itself.                                            *)

\* stageWebui and the POST behind it.
Stage ==
    /\ ui.session # None /\ ~ui.streaming
    /\ LET n == ui.stages + 1
           bubble == [Blank("user") EXCEPT !.content = Staged(n), !.source = "webui",
                        !.ts = Now(ui.session), !.pending = TRUE, !.stage = n]
       IN ui' = [ui EXCEPT !.msgs = Append(@, bubble), !.streaming = TRUE, !.stages = n,
                           !.posts = @ \cup {[session |-> ui.session, stage |-> n]}]
    /\ Spend("stages")
    /\ UNCHANGED serverVars

\* The server admits the run of a POST.
PostAccepted(p) ==
    /\ p \in ui.posts
    /\ StartRun(p.session, "webui", Staged(p.stage))
    /\ ui' = [ui EXCEPT !.posts = @ \ {p}]
    /\ Spend("runs")

\* rollbackWebui: the exact pending bubble goes, wherever its session is.
RollbackWebui(u, n) ==
    LET Other(m) == ~ (m.pending /\ m.stage = n)
        Going(msgs) == \E i \in 1..Len(msgs) : msgs[i].streaming = "on" \/ msgs[i].pending
        Without(view) == LET msgs == SelectSeq(view.msgs, Other)
                         IN IF msgs = view.msgs THEN view
                            ELSE [view EXCEPT !.msgs = msgs, !.streaming = Going(msgs)]
        msgs == SelectSeq(u.msgs, Other)
        views == [s \in Sessions |-> Without(u.views[s])]
    IN IF msgs = u.msgs /\ views = u.views THEN u
       ELSE [u EXCEPT !.msgs = msgs, !.views = views, !.streaming = Going(msgs)]

\* The POST is refused, or never arrives and its text is taken back by the user.
PostFails(p) ==
    /\ p \in ui.posts
    /\ ui' = [RollbackWebui(ui, p.stage) EXCEPT !.posts = @ \ {p}]
    /\ UNCHANGED <<srv, form, left>>

\* pushSystem with a stable key: one bubble per kind of notice.
PushSystem(key) ==
    /\ LET id == <<"sys", key>>
           i == SelectInSeq(ui.msgs, LAMBDA m : m.stream = id)
           now == IF ui.session = None THEN 0 ELSE Now(ui.session)
       IN ui' = [ui EXCEPT !.msgs = IF i # 0 THEN [@ EXCEPT ![i].ts = now]
                   ELSE Append(@, [Blank("assistant") EXCEPT !.stream = id, !.source = "system", !.ts = now])]
    /\ Spend("notes")
    /\ UNCHANGED serverVars

-----------------------------------------------------------------------------

\* Other pages, the scheduler and the server.
Server ==
    \E s \in Sessions :
      /\ \/ StartRun(s, "webui", Query(RunId(s, Latest(s) + 1))) /\ Spend("runs")
         \/ Chunk(s) /\ UNCHANGED left
         \/ FinishStream(s, FALSE) /\ UNCHANGED left
         \/ FinishStream(s, TRUE) /\ Spend("failures")
         \/ RetryRun(s) /\ UNCHANGED left
         \/ Archive(s) /\ Spend("archives")
         \/ EndRun(s) /\ UNCHANGED left
         \/ CancelRetry(s) /\ Spend("cancels")
         \/ Rewind(s) /\ Spend("rewinds")
         \/ Evict(s) /\ ui.link.phase = "dialing" /\ Spend("evicts") \* only Dial can tell
      /\ UNCHANGED ui

Restart ==
    /\ RestartServer /\ Spend("restarts")
    /\ ui' = IF ui.link.phase = "closed" THEN ui
             ELSE [ui EXCEPT !.link.phase = "dialing", !.conn = "closed"]

Socket == Dial \/ Deliver \/ Flush \/ Drop \/ Overflow

History ==
    \/ \E r \in ui.requests : ReadHistory(r)
    \/ \E r \in ui.requests, quiet \in Quiet : HistoryArrives(r, quiet) \/ HistoryFails(r, quiet)
    \/ ReadPage \/ PageArrives \/ PageFails
    \/ \E w \in ui.sweeps : SweepStep(w) \/ SweepDeadline(w)

User ==
    \/ \E s \in Sessions : Start(s) \/ DropSessionView(s)
    \/ Retry \/ LoadOlder \/ LoadAll \/ Teardown \/ Stage \/ PushSystem(1)
    \/ \E p \in ui.posts : PostAccepted(p) \/ PostFails(p)

Next == Server \/ Restart \/ Socket \/ History \/ User

Spec == Init /\ [][Next]_vars

-----------------------------------------------------------------------------
(* Properties.                                                              *)

\* A run is one question and one answer, whichever of the archive, the snapshot,
\* the replay and the live frames brought it, and in whatever order.
OneTurnPerRun ==
    \A i, j \in 1..Len(ui.msgs) :
      i < j /\ ui.msgs[i].run # 0 /\ ui.msgs[i].run = ui.msgs[j].run
        => ui.msgs[i].role # ui.msgs[j].role

\* What is shown belongs to the session that is selected.
NoForeignBubbles ==
    \A i \in 1..Len(ui.msgs) : ui.msgs[i].run # 0 => OwnerOf(ui.msgs[i].run) = ui.session

\* The page has everything the server has sent.
CaughtUp ==
    /\ ui.session # None /\ ui.history = "ready" /\ ui.link.phase = "live"
    /\ ui.link.pos = Len(srv[ui.session].log) /\ ui.link.queued = <<>>

\* The text of the run from its j-th stream on, as streamed (or as the archive has it).
Said(f, s, k, j) ==
    LET streams == srv[s].runs[k].streams
    IN Fold(LAMBDA text, i : IF i < j THEN text ELSE text \o Text(f, RunId(s, k), i, streams[i].n),
                <<>>, [i \in 1..Len(streams) |-> i])

Bubbles(s, k, role) ==
    {ui.msgs[i] : i \in {j \in 1..Len(ui.msgs) : ui.msgs[j].role = role /\ ui.msgs[j].run = RunId(s, k)}}

\* The question is there (or the message of this page that took its place), and an
\* answer with this text, as streamed or as the archive has it.
Shows(s, k, text(_)) ==
    /\ \E m \in Bubbles(s, k, "assistant") : m.content \in {text("live"), text(form)}
    /\ \E m \in Bubbles(s, k, "user") : m.content = srv[s].runs[k].query \/ m.stage # 0

\* The run was followed from its start, on the socket or through a snapshot, or it
\* was read from the archive when it was over.
Followed(s, k) == /\ srv[s].runs[k].epoch = srv[s].epoch
                  /\ \A i \in FramesOf(s, k) : i > ui.since[s]

ReadToEnd(k) == k <= ui.ended
ReadPartly(k) == k > ui.ended /\ k <= Len(ui.revision) /\ ui.revision[k] # <<>>

\* A page that has caught up shows every run it followed with all of its text, and
\* of a run whose archive it read half-way what is being received.  A run it read
\* from the archive when it was over shows the answer to its question: all items of
\* a run carry the record's stream_id and coalesceArchiveRuns keeps one part per
\* stream_id, so what follows a prompt that the archive shows as a question of its
\* own is not shown.  Left out are the runs (ui.early) a reconnect snapshot settled
\* before their last frames came: updateLogicalReply ignores the frames of an answer
\* that has an outcome.
ShowsEverything ==
    CaughtUp => \A k \in 1..Latest(ui.session) :
      LET s == ui.session
          run == srv[s].runs[k]
          last == Len(run.streams)
          Whole(f) == Said(f, s, k, 1)
          First(f) == Folded(f, s, k, 1, [j \in 1..last |-> run.streams[j].n])
      IN /\ run.kept /\ run.phase # "lost" /\ RunId(s, k) \notin ui.early =>
              /\ Followed(s, k) /\ ~ReadPartly(k) /\ ~ReadToEnd(k) => Shows(s, k, Whole)
              /\ ReadToEnd(k) => Shows(s, k, First)
         /\ run.phase = "running" /\ ReadPartly(k) /\ Followed(s, k) /\ run.streams[last].n > 0 =>
              \E m \in Bubbles(s, k, "assistant") : IsSuffix(Said("live", s, k, last), m.content)

\* Archived turns are in the archive's order, whatever pages they came in.
HistoryInOrder ==
    \A i, j \in 1..Len(ui.msgs) :
      i < j /\ ui.msgs[i].source = "history" /\ ui.msgs[j].source = "history"
        => ui.msgs[i].stream[2] < ui.msgs[j].stream[2]
=============================================================================
