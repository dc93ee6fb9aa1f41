----------------------------- MODULE Conductor -----------------------------
(***************************************************************************)
(* The Conductor page: the store its events and its HTTP snapshots feed     *)
(* (webui/src/stores/conductorStore.ts), the queries and the event wiring   *)
(* around it, the composer, the review of workers and the activity feed.    *)
(*                                                                         *)
(* The hub behind it is modelled by what the page can observe: an engine    *)
(* that restarts, workers that stop, are reviewed or reworked, tasks that   *)
(* close, chat and activity rows.  Every change is published on the event   *)
(* stream; every request of the page is served and answered in steps of     *)
(* their own.                                                               *)
(***************************************************************************)
EXTENDS Naturals, Sequences, FiniteSets

CONSTANTS Workers,    \* the workers of the engine's pool
          Flows,      \* the tasks (workflows); worker w belongs to Owner(w)
          Words,      \* what the user may type into the composer
          PageSize,   \* ACTIVITY_PAGE_SIZE
          Scenarios   \* how the page is entered, and how often each thing may happen

VARIABLES hub,    \* the hub and its engine
          feed,   \* events on their way to the page, in order
          link,   \* the event stream: "never" connected, "open" or "down"
          store,  \* useConductorStore
          q,      \* the queries of the page: data and the fetch in flight
          pg,     \* state and refs of the page
          hist,   \* state and refs of useConductorActivity
          ops,    \* the page's requests in flight
          seen,   \* what the properties remember
          left    \* what the scenario still allows

condVars == <<hub, feed, link, store, q, pg, hist, ops, seen, left>>

Nobody == 0
Owner(w) == 1
TimeOf(row) == (row + 1) \div 2      \* rows share milliseconds, two at a time
NoBoot == 0

CanDo(what) == left[what] > 0
Use(what) == left' = [left EXCEPT ![what] = @ - 1]

Absent == [st |-> "none", ver |-> 0, good |-> FALSE]
EmptyPool == [w \in Workers |-> Absent]

\* isReviewable, isWorkflowClosed and the version a worker action expects.
IsReviewable(x) == x.st = "stopped"
IsClosed(f) == f \in {"closed", "gone"}
ExpectedVersion_Unversioned(s, w) == <<NoBoot, 0>>

ExpectedVersion(s, w) == <<s.boot, s.subs[w].ver>>

(***************************************************************************)
(* conductorStore.ts.                                                       *)
(***************************************************************************)
StoreInit == [chat |-> {}, subs |-> EmptyPool, subsRev |-> 0, boot |-> NoBoot, rev |-> 0,
              retired |-> {}, gen |-> 0, act |-> {}]

\* applySnapshot: revisions grow within a boot, and a boot once left does not
\* come back; a list of no boot (a hub that has not met its engine yet has only
\* the archive) counts as long as no boot is known.  A hub without a snapshot of
\* its engine yet has revision 0 here (-1 in the code), which no snapshot carries.
ApplySnapshot(s, snap) ==
    LET Taken == [s EXCEPT !.subs = snap.pool, !.subsRev = @ + 1]
    IN  CASE snap.boot = NoBoot -> IF s.boot = NoBoot THEN Taken ELSE s
          [] snap.boot # NoBoot /\ (snap.rev = 0 \/ snap.boot \in s.retired
                                     \/ (snap.boot = s.boot /\ snap.rev <= s.rev)) -> s
          [] OTHER -> [Taken EXCEPT !.boot = snap.boot, !.rev = snap.rev,
                         !.retired = IF s.boot # NoBoot /\ snap.boot # s.boot THEN @ \cup {s.boot} ELSE @]

\* An HTTP snapshot counts only if nothing newer came while it was fetched,
\* or if it is of the engine on display.
HydrateSubagents(s, snap, expected) ==
    IF s.subsRev # expected /\ (snap.boot # s.boot \/ snap.boot = NoBoot) THEN s ELSE ApplySnapshot(s, snap)

\* mergeTimeline keeps one item per id.
MergeTimeline(current, incoming) == current \cup incoming
AddChatMessage(s, item) == [s EXCEPT !.chat = MergeTimeline(@, {item})]

HydrateChat(s, items, generation) ==
    IF s.gen # generation THEN s ELSE [s EXCEPT !.chat = MergeTimeline(@, items)]

\* A row of the timeline, whether the hub wrote it or the page derives it.
AppendActivity(s, row) == [s EXCEPT !.act = @ \cup {row}]
HydrateActivity(s, rows) == [s EXCEPT !.act = @ \cup rows]

Clear(s) == [StoreInit EXCEPT !.subsRev = s.subsRev + 1, !.gen = s.gen + 1]

(***************************************************************************)
(* Queries: a fetch captures a mark of the store when it starts, the hub    *)
(* answers it with what it holds at that moment.                            *)
(***************************************************************************)
Queries == {"subs", "chat", "flows", "status"}
Idle(data) == [ph |-> "idle", mark |-> 0, data |-> data, reply |-> data]

MarkOf(k, s) == CASE k = "subs" -> s.subsRev [] k = "chat" -> s.gen [] OTHER -> 0

\* invalidateQueries and the first fetch of a mount: a fetch in flight is
\* cancelled and started again.
Fetch(qs, ks, s) ==
    [k \in Queries |-> IF k \in ks THEN [qs[k] EXCEPT !.ph = "sent", !.mark = MarkOf(k, s),
                                                      !.reply = qs[k].data]
                                   ELSE qs[k]]

\* What the hub holds for a query; a fetched subagent list is its envelope.
Held(h, k) ==
    CASE k = "subs" -> <<h.boot, h.rev, h.pool>>
      [] k = "chat" -> <<DOMAIN h.chat>>
      [] k = "flows" -> <<h.flows>>
      [] OTHER -> <<h.started, h.ready, h.auto>>

Envelope(d) == [boot |-> d[1], rev |-> d[2], pool |-> d[3]]
CachedFlows == q["flows"].data[1]
CachedStarted == q["status"].data[1]
CachedReady == q["status"].data[2]

ServeQuery(k) ==
    /\ q[k].ph = "sent"
    /\ q' = [q EXCEPT ![k].ph = "served", ![k].reply = Held(hub, k)]
    /\ UNCHANGED <<hub, feed, link, store, pg, hist, ops, seen, left>>

(***************************************************************************)
(* What the page derives from the store and its queries.                    *)
(***************************************************************************)
Least(S) == CHOOSE w \in S : \A v \in S : w <= v
Greatest(S) == CHOOSE w \in S : \A v \in S : w >= v

\* currentWorkflow: the pinned task while it is listed, else the newest open
\* one, else the newest.
Current(flows, pinned) ==
    LET listed == {f \in Flows : flows[f] \in {"open", "closed"}}
        open == {f \in listed : flows[f] = "open"}
    IN  CASE pinned \in listed -> pinned
          [] pinned \notin listed /\ open # {} -> Greatest(open)
          [] OTHER -> IF listed = {} THEN Nobody ELSE Greatest(listed)

\* workflowSubagents: the workers of the current task.
Board(s, task) == {w \in Workers : s.subs[w].st # "none" /\ Owner(w) = task}

\* The worker whose dossier is open: the selected one while it is on the
\* board, else one to review, else a running one, else the last.
Selected(prev, s, board) ==
    LET review == {w \in board : IsReviewable(s.subs[w])}
        running == {w \in board : s.subs[w].st = "running"}
    IN  CASE board = {} -> Nobody
          [] board # {} /\ prev \in board -> prev
          [] board # {} /\ prev \notin board /\ review # {} -> Least(review)
          [] OTHER -> IF running # {} /\ review = {} /\ prev \notin board
                      THEN Least(running) ELSE Greatest(board)

\* The read of useConductorActivity starts over when the task, the open tab
\* or the store's generation changes; an older read is then of no effect.
ReadAgain(h, task, on, gen) ==
    IF <<task, on, gen>> = <<h.task, h.on, h.gen>> THEN h
    ELSE [task |-> task, on |-> on, gen |-> gen, cursor |-> 0, more |-> FALSE, error |-> FALSE,
          fetched |-> FALSE, ph |-> IF on /\ task # Nobody THEN "sent" ELSE "idle",
          before |-> 0, rows |-> {}, rmore |-> FALSE]

\* A render after the store is s, the cached tasks are flows and the page's own
\* state is p: the effects run.  A worker is selected anew only when the board
\* or the task changed.
Render(s, flows, p) ==
    LET task == Current(flows, p.pinned)
        same == <<s.subs, flows, task>> = <<store.subs, CachedFlows, Current(CachedFlows, pg.pinned)>>
    IN  /\ store' = s
        /\ pg' = IF same THEN p ELSE [p EXCEPT !.sel = Selected(@, s, Board(s, task))]
        /\ hist' = ReadAgain(hist, task, p.tab = "activity", s.gen)

\* A page just opened fetches everything into an empty store; the other
\* scenarios start where it has settled.
Opened(h) == [h EXCEPT !.boot = NoBoot, !.rev = 0, !.chat = <<>>, !.pool = EmptyPool,
                       !.flows = [f \in Flows |-> "none"], !.started = FALSE, !.ready = FALSE]

CondInit ==
    \E start \in Scenarios :
        /\ hub = start.hub
        /\ feed = <<>>
        /\ link = start.link
        /\ store = IF start.fresh THEN StoreInit
                   ELSE HydrateChat(ApplySnapshot(StoreInit, Envelope(Held(start.hub, "subs"))),
                                    DOMAIN start.hub.chat, 0)
        /\ q = [k \in Queries |-> IF start.fresh THEN [Idle(Held(Opened(start.hub), k)) EXCEPT !.ph = "sent"]
                                  ELSE Idle(Held(start.hub, k))]
        /\ pg = [text |-> {}, sending |-> FALSE, abandoning |-> "no",
                 stopping |-> FALSE, resuming |-> FALSE, ensuring |-> FALSE, ensured |-> ~start.fresh,
                 ensureFailed |-> FALSE, window |-> start.fresh, rework |-> Nobody, reason |-> FALSE,
                 evidence |-> [w \in Workers |-> 0], busy |-> Nobody,
                 sel |-> IF start.fresh THEN Nobody ELSE start.sel,
                 pinned |-> Nobody, deleting |-> {}, tab |-> "delivery"]
        /\ hist = [task |-> IF start.fresh THEN Nobody ELSE Current(start.hub.flows, Nobody),
                   on |-> FALSE, gen |-> 0, cursor |-> 0, more |-> FALSE,
                   error |-> FALSE, fetched |-> FALSE, ph |-> "idle", before |-> 0,
                   rows |-> {}, rmore |-> FALSE]
        /\ ops = {}
        /\ seen = [typed |-> {}, replaced |-> {}, wiped |-> {}, reviews |-> {}]
        /\ left = start.left

(***************************************************************************)
(* The hub.  Each change is published; a page that never connected misses   *)
(* it, one whose stream is down finds it in the replay.                     *)
(***************************************************************************)
Event(t, h) == [t |-> t, row |-> h.rows, item |-> Len(h.chat),
                snap |-> [boot |-> h.boot, rev |-> h.rev, pool |-> h.pool]]

Publish(h, kinds) ==
    /\ hub' = h
    /\ feed' = IF link = "never" THEN feed
               ELSE feed \o [i \in DOMAIN kinds |-> Event(kinds[i], h)]

\* A worker changes: its version grows, the pool gets a new revision, the
\* timeline a row.
Worked(h, w, st, good) ==
    [h EXCEPT !.pool[w] = [st |-> st, ver |-> h.pool[w].ver + 1, good |-> good],
              !.rev = @ + 1, !.rows = @ + 1]

WorkerMoves(w) ==
    /\ CanDo("work") /\ hub.started /\ hub.ready
    /\ \E st \in {"running", "stopped", "accepted"}, good \in BOOLEAN :
           /\ CASE st = "running" -> hub.pool[w].st \in {"none", "stopped"} /\ ~good
                [] st = "stopped" -> hub.pool[w].st = "running"
                [] OTHER -> hub.auto /\ hub.pool[w].st = "stopped" /\ hub.pool[w].good /\ good
           /\ Publish(Worked(hub, w, st, good), <<IF st = "running" THEN "runs" ELSE "worker", "subs">>)
    /\ Use("work")
    /\ UNCHANGED <<link, store, q, pg, hist, ops, seen>>

TaskCloses(f) ==
    /\ CanDo("close") /\ hub.flows[f] = "open"
    /\ Publish([hub EXCEPT !.flows[f] = "closed", !.rows = @ + 1], <<"flow">>)
    /\ Use("close")
    /\ UNCHANGED <<link, store, q, pg, hist, ops, seen>>

Speaks ==
    /\ CanDo("speak")
    /\ Publish([hub EXCEPT !.chat = Append(@, [task |-> 1, words |-> {}])], <<"says">>)
    /\ Use("speak")
    /\ UNCHANGED <<link, store, q, pg, hist, ops, seen>>

\* The engine goes away; a started one is synchronised as a new boot, whose
\* pool knows the earlier workers only from the archive.  A deleted task's workers
\* are in it only if a list was read, and so filed, after the deletion.
EngineDies ==
    /\ CanDo("die") /\ hub.started
    /\ hub' = [hub EXCEPT !.started = FALSE, !.ready = FALSE]
    /\ Use("die")
    /\ UNCHANGED <<feed, link, store, q, pg, hist, ops, seen>>

SelectBoot ==
    /\ hub.started /\ ~hub.ready /\ (hub.rev # 0 \/ hub.boot = NoBoot)
    /\ \E lost \in SUBSET {w \in Workers : hub.flows[Owner(w)] = "gone"} :
         hub' = [hub EXCEPT !.boot = @ + 1, !.rev = 0,
                            !.pool = [w \in Workers |-> IF @[w].st = "none" \/ w \in lost THEN Absent
                                                        ELSE [Absent EXCEPT !.st = "archived"]]]
    /\ UNCHANGED <<feed, link, store, q, pg, hist, ops, seen, left>>

EngineSyncs ==
    /\ hub.started /\ ~hub.ready /\ hub.rev = 0 /\ hub.boot # NoBoot
    /\ Publish([hub EXCEPT !.ready = TRUE, !.rev = 1], <<"subs">>)
    /\ UNCHANGED <<link, store, q, pg, hist, ops, seen, left>>

\* A notification could not be published: the hub asks pages to start over.
AsksResync ==
    /\ CanDo("resync")
    /\ Publish(hub, <<"resync">>)
    /\ Use("resync")
    /\ UNCHANGED <<link, store, q, pg, hist, ops, seen>>

(***************************************************************************)
(* The event stream (module EventStream) and RuntimeEffects.                *)
(***************************************************************************)
Connect ==
    /\ link = "never" /\ link' = "open"
    /\ UNCHANGED <<hub, feed, store, q, pg, hist, ops, seen, left>>

Disconnect ==
    /\ link = "open" /\ CanDo("drop") /\ link' = "down" /\ Use("drop")
    /\ UNCHANGED <<hub, feed, store, q, pg, hist, ops, seen>>

\* The replay was cut: resync_required empties the store.
Resync ==
    /\ link = "down" /\ CanDo("gap") /\ Use("gap")
    /\ feed' = <<>>
    /\ Render(Clear(store), CachedFlows, pg)
    /\ UNCHANGED <<hub, link, q, ops, seen>>

Reopen_NothingFetched ==
    /\ link = "down" /\ link' = "open"
    /\ UNCHANGED <<hub, feed, store, q, pg, hist, ops, seen, left>>

\* Back again: the active queries are fetched anew.
Reopen ==
    /\ link = "down" /\ link' = "open"
    /\ q' = Fetch(q, Queries, store)
    /\ UNCHANGED <<hub, feed, store, pg, hist, ops, seen, left>>

Delivered(s, e) ==
    CASE e.t \in {"chat", "says"} -> AddChatMessage(s, e.item)
      [] e.t = "subs" -> ApplySnapshot(s, e.snap)
      [] e.t = "resync" -> Clear(s)
      [] OTHER -> AppendActivity(s, e.row)

Refreshes(t) ==
    CASE t \in {"chat", "worker"} -> {"flows"}
      [] t = "flow" -> {"flows", "status"}
      [] t = "resync" -> Queries
      [] OTHER -> {}

EventArrives ==
    /\ link = "open" /\ feed # <<>>
    /\ feed' = Tail(feed)
    /\ \E s \in {Delivered(store, Head(feed))} :
           /\ Render(s, CachedFlows, pg)
           /\ q' = Fetch(q, Refreshes(Head(feed).t), s)
    /\ UNCHANGED <<hub, link, ops, seen, left>>

(***************************************************************************)
(* Answers of the queries, and the effects that hydrate the store.          *)
(***************************************************************************)
Hydrated(k, s, data, mark) ==
    CASE k = "subs" -> HydrateSubagents(s, Envelope(data), mark)
      [] k = "chat" -> HydrateChat(s, data[1], mark)
      [] OTHER -> s

\* The startup window closes once the engine reports ready.
StatusSeen(k, p, data) ==
    IF k = "status" /\ data[2] THEN [p EXCEPT !.window = FALSE] ELSE p

QueryArrives(k) ==
    /\ q[k].ph = "served"
    /\ q' = [q EXCEPT ![k] = Idle(q[k].reply)]
    /\ \E s \in {Hydrated(k, store, q[k].reply, q[k].mark)} :
           /\ Render(s, IF k = "flows" THEN q[k].reply[1] ELSE CachedFlows,
                     StatusSeen(k, pg, q[k].reply))
    /\ UNCHANGED <<hub, feed, link, ops, seen, left>>

QueryFails(k) ==
    /\ q[k].ph = "served" /\ CanDo("fail") /\ Use("fail")
    /\ q' = [q EXCEPT ![k].ph = "error"]
    /\ UNCHANGED <<hub, feed, link, store, pg, hist, ops, seen>>

Poll(k) ==
    /\ k \in {"flows", "status"} /\ q[k].ph = "idle" /\ CanDo("poll") /\ Use("poll")
    /\ q' = Fetch(q, {k}, store)
    /\ UNCHANGED <<hub, feed, link, store, pg, hist, ops, seen>>

(***************************************************************************)
(* Requests of the page.                                                    *)
(***************************************************************************)
\* conductorWrite gives a request one identity and asks for its receipt when
\* the answer is lost; what is left here is that
\* the hub did it ("ok"), did not ("no"), or that the page cannot tell ("lost").
Op(kind) == [kind |-> kind, st |-> "sent", task |-> Nobody, sid |-> Nobody, verb |-> "none",
             force |-> FALSE, exp |-> <<NoBoot, 0>>, shown |-> <<NoBoot, 0>>, words |-> {}, todo |-> {},
             item |-> 0, next |-> Nobody, reply |-> <<FALSE, FALSE, FALSE>>]

\* What the hub does with a request, if it takes it.
NewTask(h) == Least({f \in Flows : h.flows[f] = "none"} \cup {Cardinality(Flows) + 1})

Admitted(h, o) ==
    LET task == IF o.task # Nobody /\ h.flows[o.task] # "gone" THEN o.task ELSE NewTask(h)
    IN  [h EXCEPT !.started = TRUE, !.flows[task] = "open",
                  !.chat = Append(@, [task |-> task, words |-> o.words])]

\* Actions are refused when the worker is no longer the one displayed; an
\* acceptance that is not forced needs a verified delivery.
Unmoved(h, o) == o.exp = <<NoBoot, 0>> \/ o.exp = <<h.boot, h.pool[o.sid].ver>>
Acted(h, o) ==
    Worked(h, o.sid, CASE o.verb = "accept" -> "accepted" [] o.verb = "rework" -> "running"
                       [] OTHER -> "aborted", h.pool[o.sid].good)

Takes(h, o) ==
    CASE o.kind = "send" -> (o.task \in Flows /\ h.flows[o.task] # "gone") \/ NewTask(h) \in Flows
      [] o.kind \in {"act", "abort"} ->
             /\ h.ready /\ Unmoved(h, o)
             /\ IF o.verb = "abort" THEN h.pool[o.sid].st \in {"running", "stopped"}
                ELSE IsReviewable(h.pool[o.sid])
             /\ o.verb = "accept" => o.force \/ h.pool[o.sid].good
      [] o.kind = "delete" -> h.flows[o.task] = "closed" \/ ~h.started
      [] o.kind = "resume" -> h.flows[o.task] = "open"
      [] o.kind = "stop" -> h.started
      [] OTHER -> TRUE

\* forget_workflow: the task, its archived workers and its timeline go; the pool
\* keeps its revision and nothing is published.
Forgotten(h, f) ==
    [h EXCEPT !.flows[f] = "gone", !.cut = IF f = 1 THEN h.rows ELSE @,
              !.pool = [w \in Workers |-> IF Owner(w) = f /\ @[w].st = "archived" THEN Absent ELSE @[w]]]

Done(h, o) ==
    CASE o.kind = "send" -> Admitted(h, o)
      [] o.kind \in {"act", "abort"} -> Acted(h, o)
      [] o.kind = "delete" -> Forgotten(h, o.task)
      [] o.kind \in {"start", "resume"} -> [h EXCEPT !.started = TRUE]
      [] o.kind = "stop" -> [h EXCEPT !.started = FALSE, !.ready = FALSE]
      [] OTHER -> [h EXCEPT !.auto = ~@]

Announces(o) ==
    CASE o.kind = "send" -> <<"chat">>
      [] o.kind \in {"act", "abort"} -> <<IF o.verb = "rework" THEN "runs" ELSE "worker", "subs">>
      [] OTHER -> <<>>

\* An unverified acceptance is refused with the evidence; a lost answer may
\* belong to a request the hub took or never saw.
Serve(o) ==
    /\ o.st = "sent"
    /\ \/ /\ Takes(hub, o) /\ Publish(Done(hub, o), Announces(o))
          /\ \/ ops' = (ops \ {o}) \cup {[o EXCEPT !.st = "ok", !.item = Len(hub.chat) + 1,
                                                         !.reply = Held(Done(hub, o), "status")]} /\ UNCHANGED left
             \/ ops' = (ops \ {o}) \cup {[o EXCEPT !.st = "lost"]} /\ CanDo("lose") /\ Use("lose")
          /\ seen' = IF o.kind = "act" /\ o.verb = "accept"
                     THEN [seen EXCEPT !.reviews = @ \cup {<<o.shown, <<hub.boot, hub.pool[o.sid].ver>>>>}]
                     ELSE seen
       \/ /\ ~Takes(hub, o) /\ UNCHANGED <<hub, feed, seen, left>>
          /\ ops' = (ops \ {o}) \cup {[o EXCEPT !.st =
                 IF o.verb = "accept" /\ hub.ready /\ Unmoved(hub, o) /\ IsReviewable(hub.pool[o.sid])
                 THEN "unverified" ELSE "no"]}
       \/ /\ CanDo("lose") /\ Use("lose") /\ UNCHANGED <<hub, feed, seen>>
          /\ ops' = (ops \ {o}) \cup {[o EXCEPT !.st = "lost"]}
    /\ UNCHANGED <<link, store, q, pg, hist>>

\* A continuation that changes the page, starts requests and refetches.
Goes(p, O, ks) ==
    /\ Render(store, CachedFlows, p)
    /\ ops' = O
    /\ q' = Fetch(q, ks, store)

Clicks(what) == CanDo(what) /\ Use(what) /\ UNCHANGED <<hub, feed, link>>

(***************************************************************************)
(* The composer.                                                            *)
(***************************************************************************)
\* The text area takes input unless a dialog covers it.
Type(word) ==
    /\ pg.abandoning # "ask" /\ word \notin seen.typed /\ Clicks("type")
    /\ pg' = [pg EXCEPT !.text = @ \cup {word}]
    /\ seen' = [seen EXCEPT !.typed = @ \cup {word}]
    /\ UNCHANGED <<store, q, hist, ops>>

Task == Current(CachedFlows, pg.pinned)

\* submitChat: the text of the render it was called in is sent, and whatever
\* the composer holds by then is cleared.
Submitted(p, O, task, words, chain) ==
    Goes([p EXCEPT !.text = {}, !.sending = TRUE],
         O \cup {[Op("send") EXCEPT !.task = task, !.words = words, !.verb = chain]}, {})

\* The buttons of the composer.
CanSend == pg.text # {} /\ ~pg.sending /\ pg.abandoning = "no"

SubmitChat ==
    /\ CanSend /\ Task # Nobody /\ Clicks("send")
    /\ Submitted(pg, ops, Task, pg.text, "append")
    /\ UNCHANGED seen

\* requestNewTask, with a task on screen: confirm, abort the workers that ran when the button was
\* pressed, one after the other, then send the text of that moment.
RequestNewTask ==
    /\ CanSend /\ Clicks("new")
    /\ \/ /\ Task = Nobody
          /\ Submitted([pg EXCEPT !.abandoning = "send"], ops, Nobody, pg.text, "new")
       \/ /\ Task # Nobody
          /\ Goes([pg EXCEPT !.abandoning = "ask"],
                  ops \cup {[Op("confirm") EXCEPT !.st = "asked", !.words = pg.text,
                         !.todo = {<<w, ExpectedVersion(store, w)>> :
                                     w \in {v \in Board(store, Task) : store.subs[v].st = "running"}}]}, {})
    /\ UNCHANGED seen

\* abandonCurrentTask after the answer or after one abort, whatever came of it.
Abandons(o) ==
    IF o.todo = {}
    THEN /\ Submitted([pg EXCEPT !.abandoning = "send"], ops \ {o}, Nobody, o.words, "new")
         /\ seen' = [seen EXCEPT !.wiped = @ \cup (pg.text \ o.words)]
    ELSE LET next == CHOOSE x \in o.todo : \A y \in o.todo : x[1] <= y[1]
         IN  UNCHANGED seen /\ Goes([pg EXCEPT !.abandoning = "abort"],
                  (ops \ {o}) \cup {[Op("abort") EXCEPT !.sid = next[1], !.verb = "abort", !.words = o.words,
                                       !.exp = next[2], !.todo = o.todo \ {next}]}, {})

AnswerNewTask(o) ==
    /\ o.kind = "confirm"
    /\ \/ Abandons(o)
       \/ Goes([pg EXCEPT !.abandoning = "no"], ops \ {o}, {"flows", "subs"}) /\ UNCHANGED seen
    /\ UNCHANGED <<hub, feed, link, left>>

SendArrives_WordsDropped(o) ==
    LET took == o.st = "ok"
        s == IF took THEN AddChatMessage(store, o.item) ELSE store
        ks == (IF took THEN {"flows", "status"} ELSE {})
              \cup (IF o.verb = "new" THEN {"flows", "subs"} ELSE {})
    IN  /\ Render(s, CachedFlows,
                  [pg EXCEPT !.sending = FALSE, !.abandoning = IF o.verb = "new" THEN "no" ELSE @])
        /\ ops' = ops \ {o}
        /\ q' = Fetch(q, ks, s)

\* The answer of a send: the item joins the store, or the words come back in
\* front of what was typed meanwhile.
SendArrives(o) ==
    LET took == o.st = "ok"
        s == IF took THEN AddChatMessage(store, o.item) ELSE store
        ks == (IF took THEN {"flows", "status"} ELSE {})
              \cup (IF o.verb = "new" THEN {"flows", "subs"} ELSE {})
    IN  /\ Render(s, CachedFlows,
                  [pg EXCEPT !.sending = FALSE, !.abandoning = IF o.verb = "new" THEN "no" ELSE @,
                             !.text = IF took THEN @ ELSE @ \cup o.words])
        /\ ops' = ops \ {o}
        /\ q' = Fetch(q, ks, s)

\* retryCurrentWorkflow: a failed task's first message replaces the composer's
\* text.
\* The title row offers to resume an open task of a stopped engine and to
\* retry one that failed.
TaskOffers(what) ==
    /\ Task # Nobody
    /\ IF what = "resume" THEN ~CachedStarted /\ ~IsClosed(CachedFlows[Task]) /\ ~pg.resuming
       ELSE CachedFlows[Task] = "closed"

Retry ==
    /\ TaskOffers("retry") /\ Clicks("retry")
    /\ LET own == {i \in store.chat : hub.chat[i].task = Task /\ hub.chat[i].words # {}}
       IN  /\ pg' = [pg EXCEPT !.text = IF own = {} THEN {} ELSE hub.chat[Least(own)].words]
           /\ seen' = [seen EXCEPT !.replaced = @ \cup pg.text]
    /\ UNCHANGED <<store, q, hist, ops>>

(***************************************************************************)
(* Reviewing workers.                                                       *)
(***************************************************************************)
\* The dossier's buttons: accept and rework for a worker to review, abort for
\* one that runs or waits, a forced acceptance under the evidence shown.
Offered(w, verb, force) ==
    /\ pg.sel = w /\ pg.busy = Nobody
    /\ CASE verb = "accept" -> IF force THEN pg.evidence[w] # 0
                               ELSE IsReviewable(store.subs[w]) /\ pg.rework # w
         [] verb = "rework" -> pg.rework = w /\ pg.reason
         [] OTHER -> store.subs[w].st = "running" \/ IsReviewable(store.subs[w])

\* After a decision the next worker that needs one is opened; which one that
\* is follows from the board of the click.
NextToReview(board, s, w) ==
    Selected(Nobody, s, {v \in board \ {w} : s.subs[v].st # "archived"})

Act(w, verb, force) ==
    /\ Offered(w, verb, force) /\ Clicks("act")
    /\ Goes([pg EXCEPT !.busy = w],
            ops \cup {[Op("act") EXCEPT !.sid = w, !.verb = verb, !.force = force,
                         !.next = IF verb = "abort" THEN Nobody ELSE NextToReview(Board(store, Task), store, w),
                         !.exp = ExpectedVersion(store, w), !.shown = <<store.boot, store.subs[w].ver>>]}, {})
    /\ UNCHANGED seen

\* The rework box opens empty for the worker on display; its text is lost
\* when any action succeeds.
OpenRework(w) ==
    /\ pg.sel = w /\ pg.busy = Nobody /\ Clicks("rework")
    /\ IsReviewable(store.subs[w]) \/ pg.evidence[w] # 0
    /\ pg' = [pg EXCEPT !.rework = w, !.reason = FALSE]
    /\ UNCHANGED <<store, q, hist, ops, seen>>

EditRework ==
    /\ pg.rework # Nobody /\ pg.rework = pg.sel /\ Clicks("edit")
    /\ pg' = [pg EXCEPT !.reason = ~@]
    /\ UNCHANGED <<store, q, hist, ops, seen>>

CloseBox(w) ==
    /\ pg.sel = w /\ Clicks("edit")
    /\ pg' \in {[pg EXCEPT !.rework = IF @ = w THEN Nobody ELSE @], [pg EXCEPT !.evidence[w] = 0]}
    /\ UNCHANGED <<store, q, hist, ops, seen>>

ActArrives(o) ==
    LET p == [pg EXCEPT !.busy = Nobody]
    IN  Goes(CASE o.st = "ok" ->
                    [p EXCEPT !.evidence[o.sid] = 0, !.rework = IF @ = o.sid THEN Nobody ELSE @,
                              !.reason = FALSE,
                              !.sel = IF o.next = Nobody THEN @ ELSE o.next]
               [] o.st = "unverified" -> [p EXCEPT !.evidence[o.sid] = o.shown[2]]
               [] OTHER -> p,
             ops \ {o}, {"subs", "flows"})

SelectWorker(w) ==
    /\ w \in Board(store, Task) /\ Clicks("select")
    /\ Goes([pg EXCEPT !.sel = w, !.tab = "delivery"], ops, {})
    /\ UNCHANGED seen

(***************************************************************************)
(* The task, the engine and the settings.                                   *)
(***************************************************************************)
\* selectHistoryWorkflow: pin a task, or follow the newest again.
Pin(f) ==
    /\ CachedFlows[f] \in {"open", "closed"} /\ Clicks("pin")
    /\ Goes([pg EXCEPT !.pinned = IF @ = f THEN Nobody ELSE f, !.sel = Nobody], ops, {})
    /\ UNCHANGED seen

\* The history lists every task; one that is over, or any while the engine is
\* stopped, may be deleted.
Deletable(f) == CachedFlows[f] = "closed" \/ (CachedFlows[f] = "open" /\ ~CachedStarted)

\* deleteWorkflow, confirmed.
DeleteTask(f) ==
    /\ Deletable(f) /\ f \notin pg.deleting /\ Clicks("delete")
    /\ Goes([pg EXCEPT !.deleting = @ \cup {f}],
            ops \cup {[Op("delete") EXCEPT !.task = f, !.sid = pg.pinned]}, {})
    /\ UNCHANGED seen

DeleteArrives(o) ==
    LET p == [pg EXCEPT !.deleting = @ \ {o.task}]
    IN  IF o.st = "ok"
        THEN Goes([p EXCEPT !.pinned = IF o.sid = o.task THEN Nobody ELSE @], ops \ {o}, {"flows", "subs"})
        ELSE Goes(p, ops \ {o}, {})

SwitchTab(tab) ==
    /\ pg.tab # tab /\ Clicks("tab")
    /\ Goes([pg EXCEPT !.tab = tab], ops, {})
    /\ UNCHANGED seen

\* ensureConductor on entry, and again from the header after a failure.
Ensure ==
    /\ ~pg.ensuring
    /\ \/ ~pg.ensured /\ UNCHANGED left
       \/ pg.ensured /\ pg.ensureFailed /\ ~CachedStarted /\ CanDo("retryEnsure") /\ Use("retryEnsure")
    /\ Goes([pg EXCEPT !.ensured = TRUE, !.ensuring = TRUE, !.ensureFailed = FALSE, !.window = TRUE],
            ops \cup {Op("start")}, {})
    /\ UNCHANGED <<hub, feed, link, seen>>

StartArrives(o) ==
    Goes([pg EXCEPT !.ensuring = FALSE, !.ensureFailed = o.st # "ok",
                    !.window = @ /\ o.st = "ok" /\ ~CachedReady], ops \ {o}, {"status"})

WindowCloses ==
    /\ pg.window /\ Clicks("window")
    /\ pg' = [pg EXCEPT !.window = FALSE]
    /\ UNCHANGED <<store, q, hist, ops, seen>>

StopEngine ==
    /\ CachedStarted /\ ~pg.stopping /\ Clicks("stop")
    /\ Goes([pg EXCEPT !.stopping = TRUE], ops \cup {Op("stop")}, {})
    /\ UNCHANGED seen

Resume ==
    /\ TaskOffers("resume") /\ ~pg.sending /\ ~pg.stopping /\ Clicks("resume")
    /\ Goes([pg EXCEPT !.resuming = TRUE], ops \cup {[Op("resume") EXCEPT !.task = Task]}, {})
    /\ UNCHANGED seen

EngineArrives(o) ==
    Goes([pg EXCEPT !.stopping = @ /\ o.kind # "stop", !.resuming = @ /\ o.kind # "resume"], ops \ {o},
         IF o.st = "ok" THEN {"status", "flows", "subs"} ELSE {})

\* saveSubagentSettings: the answer becomes the cached status.
SaveSettings ==
    /\ Clicks("settings")
    /\ Goes(pg, ops \cup {Op("settings")}, {})
    /\ UNCHANGED seen

SettingsArrive(o) ==
    /\ Render(store, CachedFlows, pg)
    /\ ops' = ops \ {o}
    /\ q' = IF o.st = "ok" THEN [q EXCEPT !["status"].data = o.reply] ELSE q

Arrives(o) ==
    /\ o.st \notin {"sent", "asked"}
    /\ \/ o.kind = "send" /\ SendArrives(o)
       \/ o.kind = "abort" /\ Abandons(o)
       \/ o.kind = "act" /\ ActArrives(o)
       \/ o.kind = "delete" /\ DeleteArrives(o)
       \/ o.kind = "start" /\ StartArrives(o)
       \/ o.kind \in {"stop", "resume"} /\ EngineArrives(o)
       \/ o.kind = "settings" /\ SettingsArrive(o)
    /\ o.kind # "abort" => UNCHANGED seen
    /\ UNCHANGED <<hub, feed, link, left>>

(***************************************************************************)
(* useConductorActivity: the durable timeline, page by page.                *)
(***************************************************************************)
\* The hub's page: the newest rows before a time, and whether older ones
\* exist.  Every row belongs to the first task.
HubPage(h, before) == {r \in (h.cut + 1)..h.rows : before = 0 \/ TimeOf(r) < before}
NewestOf(rows) == {r \in rows : Cardinality({x \in rows : x > r}) < PageSize}

ServeActivity ==
    /\ hist.ph = "sent"
    /\ LET all == IF hist.task = 1 THEN HubPage(hub, hist.before) ELSE {}
       IN  hist' = [hist EXCEPT !.ph = "served", !.rows = NewestOf(all), !.rmore = all # NewestOf(all)]
    /\ UNCHANGED <<hub, feed, link, store, q, pg, ops, seen, left>>

\* read, answered: rows join the store and the cursor moves to the oldest one.
ActivityArrives ==
    /\ hist.ph = "served"
    /\ store' = HydrateActivity(store, hist.rows)
    /\ LET oldest == TimeOf(Least(hist.rows))
       IN  hist' = [hist EXCEPT !.ph = "idle", !.fetched = TRUE, !.more = hist.rmore, !.error = FALSE,
                       !.cursor = IF hist.rows = {} THEN @
                                  ELSE IF hist.before = 0 THEN oldest ELSE Least({hist.before, oldest})]
    /\ UNCHANGED <<hub, feed, link, q, pg, ops, seen, left>>

ActivityFails ==
    /\ hist.ph = "served" /\ CanDo("fail") /\ Use("fail")
    /\ hist' = [hist EXCEPT !.ph = "idle", !.fetched = TRUE, !.error = TRUE]
    /\ UNCHANGED <<hub, feed, link, store, q, pg, ops, seen>>

\* revealOlder, once the window shows every row held: rows share a
\* millisecond, so the bucket of the cursor is read again.
OlderOffered == hist.on /\ (hist.more \/ (hist.error /\ store.act = {}))

LoadOlder ==
    /\ OlderOffered /\ hist.task # Nobody /\ hist.ph = "idle" /\ Clicks("older")
    /\ hist' = [hist EXCEPT !.ph = "sent", !.before = IF hist.cursor = 0 THEN 0 ELSE hist.cursor + 1]
    /\ UNCHANGED <<store, q, pg, ops, seen>>

(***************************************************************************)
(* The specification.                                                       *)
(***************************************************************************)
Engine ==
    \/ \E w \in Workers : WorkerMoves(w)
    \/ \E f \in Flows : TaskCloses(f)
    \/ Speaks \/ EngineDies \/ SelectBoot \/ EngineSyncs \/ AsksResync

Stream == Connect \/ Disconnect \/ Resync \/ Reopen \/ EventArrives

Replies ==
    \/ \E k \in Queries : ServeQuery(k) \/ QueryArrives(k) \/ QueryFails(k)
    \/ \E o \in ops : Serve(o) \/ Arrives(o)
    \/ ServeActivity \/ ActivityArrives \/ ActivityFails

Person ==
    \/ \E word \in Words : Type(word)
    \/ SubmitChat \/ RequestNewTask \/ Retry
    \/ \E o \in ops : AnswerNewTask(o)
    \/ \E w \in Workers :
           \/ \E verb \in {"accept", "rework", "abort"} : Act(w, verb, FALSE)
           \/ Act(w, "accept", TRUE)
           \/ OpenRework(w) \/ CloseBox(w) \/ SelectWorker(w)
    \/ EditRework
    \/ \E f \in Flows : Pin(f) \/ DeleteTask(f)
    \/ \E tab \in {"delivery", "activity"} : SwitchTab(tab)
    \/ StopEngine \/ Resume \/ SaveSettings \/ LoadOlder

CondNext ==
    \/ Engine \/ Stream \/ Replies \/ Person
    \/ \E k \in Queries : Poll(k)
    \/ Ensure \/ WindowCloses

(***************************************************************************)
(* Properties.                                                              *)
(***************************************************************************)
Settled == link = "open" /\ feed = <<>> /\ \A k \in Queries : q[k].ph = "idle"

\* Once the stream is open and drained and nothing is being fetched, the page
\* shows what the hub holds: its engine's pool and all chat, and a timeline that
\* offers nothing older holds every row of the task (applySnapshot, the
\* refetches on reconnection and resync, loadOlder).  Of a task deleted at the hub
\* the store may keep workers and rows: forget_workflow removes them under an
\* unchanged snapshot_revision, so applySnapshot refuses the list without them.
Converges ==
    /\ Settled /\ (hub.rev # 0 \/ hub.boot = NoBoot) =>
          /\ \A w \in Workers : hub.flows[Owner(w)] # "gone" => store.subs[w] = hub.pool[w]
          /\ store.chat = DOMAIN hub.chat
    /\ /\ hist.on /\ hist.task = 1 /\ hist.fetched /\ hist.ph = "idle" /\ ~hist.error /\ ~hist.more
       /\ link = "open" /\ feed = <<>> /\ hub.flows[1] # "gone"
       => store.act = 1..hub.rows

\* What the user typed is in the composer, on its way, or a message of the hub.
\* The retry of a failed task replaces it; and requestNewTask, once the workers of
\* the old task are aborted, sends the text of the moment the button was pressed
\* and empties the composer, so that what was typed during the aborts is lost.
KeepsTyped ==
    seen.typed \subseteq pg.text \cup seen.replaced \cup seen.wiped
                         \cup UNION {o.words : o \in {x \in ops : x.kind = "send"}}
                         \cup UNION {hub.chat[i].words : i \in DOMAIN hub.chat}

\* A worker is accepted only in the version its reviewer saw.
ReviewedAsSeen == \A x \in seen.reviews : x[1] = x[2]
=============================================================================
