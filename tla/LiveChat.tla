------------------------------ MODULE LiveChat ------------------------------
(***************************************************************************)
(* The chat page (webui/src/pages/LiveChat.tsx) with its composer, the      *)
(* selection guard, the cached session list and the server it talks to.     *)
(*                                                                         *)
(* Every request of the page is an operation in flight: the server serves   *)
(* it, its answer arrives later, answers overtake each other, and the user  *)
(* goes on typing, selecting, creating and deleting meanwhile.  A           *)
(* continuation of the page runs in one step, up to its next await.         *)
(***************************************************************************)
EXTENDS Drafts, Sequences, FiniteSets

CONSTANTS
    MaxSessions,  \* session ids are 1..MaxSessions; draft key 0 is the page without one
    Models,       \* configured model keys
    DefaultModel, \* the first of them
    Projects,     \* registered projects
    Scenarios     \* how the page is opened (the sessions there are, the URL, the stored
                  \* session), and how often the user, the network and other windows act

VARIABLES
    srv,     \* the server: sessions, running runs, accepted and scheduled messages
    page,    \* refs and state of the page, the URL, and the chat store's session
    list,    \* the query cache of the session list and its fetch in flight
    ops,     \* requests in flight
    known,   \* sessions the browser believes to be running
    staged,  \* submission -> its pending bubble and the session whose transcript shows it
    trace,   \* what the properties remember of earlier steps
    left

None == 0
Ids == 1..MaxSessions
NoObj == [id |-> None, model |-> None, project |-> None]
NoBubble == [at |-> None, text |-> NoText]
chatVars == <<srv, page, list, ops, known, staged, trace, left, drafts>>

Listed(items) == {items[i].id : i \in DOMAIN items}
Find(items, s) == items[CHOOSE i \in DOMAIN items : items[i].id = s]
Without(items, s) == SelectSeq(items, LAMBDA o : o.id # s)
Replace(items, obj) == [i \in DOMAIN items |-> IF items[i].id = obj.id THEN obj ELSE items[i]]

CanSpend(what) == left[what] > 0
Spend(what) == left' = [left EXCEPT ![what] = @ - 1]

LiveInit ==
    /\ DraftInit
    /\ \E start \in Scenarios :
           /\ srv = [objs |-> start.objs, running |-> {}, log |-> <<>>, due |-> {},
                     projects |-> Projects, next |-> Len(start.objs) + 1]
           /\ page = [url |-> start.url, stored |-> start.stored, ref |-> None, cur |-> NoObj,
                      store |-> None, holder |-> None, waiting |-> TRUE,
                      wanted |-> start.url, creating |-> FALSE, repaired |-> {},
                      llmHolder |-> None, llmSaving |-> FALSE,
                      projHolder |-> None, projSaving |-> FALSE,
                      scheduling |-> "closed"]
           /\ left = start.left
    /\ list = [cache |-> <<>>, fresh |-> FALSE, phase |-> "sent", reply |-> <<>>]
    /\ ops = {}
    /\ known = {}
    /\ staged = [i \in Slots |-> NoBubble]
    /\ trace = [typed |-> 0, given |-> {}, asked |-> {}, echoes |-> {}, mistaken |-> {}]

(***************************************************************************)
(* The session list in the query cache.                                     *)
(***************************************************************************)
\* fetchQuery joins a fetch in flight; a fresh list is not fetched again.
Fetching(l) == IF l.phase = "idle" THEN [l EXCEPT !.phase = "sent", !.fresh = FALSE] ELSE l

\* invalidateQueries fetches again, in place of a fetch in flight.
Invalidate(l) == [l EXCEPT !.fresh = FALSE, !.phase = "sent", !.reply = <<>>]

\* cancelQueries puts the list back to what it was before the fetch.
Cancelled(l) == [l EXCEPT !.phase = "idle", !.reply = <<>>]

Patched(l, obj) == [l EXCEPT !.cache = Replace(@, obj)]
Prepended(l, obj) == [l EXCEPT !.cache = <<obj>> \o Without(@, obj.id), !.fresh = TRUE]

(***************************************************************************)
(* Selection.                                                               *)
(***************************************************************************)
\* The sequence numbers and epochs a request captures are current only for
\* the latest one that captured them: page.holder is that request, or None
\* once navigation, a session change or a newer intent has moved them on.
\* The same goes for model changes (llmHolder) and projects (projHolder).

\* The page shows a session: its refs, its state and the chat store agree.
Shown(p, obj) ==
    [p EXCEPT !.ref = obj.id, !.stored = obj.id, !.cur = obj, !.store = obj.id,
              !.holder = IF p.store = obj.id THEN @ ELSE None]

\* The end of the selection effect: the URL, else the stored session, else
\* the first of the list, else none.
Resolved(p, items) ==
    LET picked == CASE p.wanted \in Listed(items) -> Find(items, p.wanted)
                    [] p.wanted \notin Listed(items) /\ p.stored \in Listed(items) ->
                           Find(items, p.stored)
                    [] OTHER -> IF items = <<>> THEN NoObj ELSE items[1]
    IN  IF ~p.waiting THEN p ELSE Shown([p EXCEPT !.waiting = FALSE], picked)

\* A newer intent supersedes the selection in progress.
Superseded(p) == [p EXCEPT !.holder = None, !.waiting = FALSE]

\* Navigation revokes every captured selection; a changed URL runs the
\* selection effect again.
Navigated(p, url) ==
    LET moved == [p EXCEPT !.holder = None, !.url = url]
    IN  IF url = p.url THEN moved ELSE [moved EXCEPT !.waiting = TRUE, !.wanted = url]

\* openSessionChat stores the id before it navigates.
Opened(p, s) == Navigated([p EXCEPT !.stored = s], s)

\* The effect resolves at once from a fresh list, or joins a fetch.
Land(p, l) ==
    \/ page' = p /\ list' = IF p.waiting THEN Fetching(l) ELSE l
    \/ /\ p.waiting /\ l.fresh
       /\ page' = Resolved(p, l.cache)
       /\ list' = l

(***************************************************************************)
(* Requests in flight.                                                      *)
(***************************************************************************)
\* Requests are numbered, so that equal ones do not merge.
Fresh(O) == CHOOSE n \in 1..(Cardinality(O) + 1) : \A o \in O : o.n # n

Op(kind, sid) ==
    [n |-> None, kind |-> kind, st |-> "sent", sid |-> sid,
     sub |-> None, key |-> None, text |-> NoText, atts |-> NoAtts, value |-> None,
     items |-> <<>>, res |-> NoObj]

Add(O, op) == O \cup {[op EXCEPT !.n = Fresh(O)]}

\* What the server does with a request it accepts.
Effect(s, o) ==
    LET Changed(obj) == [s EXCEPT !.objs = Replace(@, obj)]
    IN  CASE o.kind \in {"new", "first", "plan"} ->
                 [s EXCEPT !.objs = <<[id |-> s.next, model |-> DefaultModel, project |-> None]>> \o @,
                           !.next = @ + 1]
          [] o.kind = "post" ->
                 [s EXCEPT !.running = @ \cup {o.sid}, !.log = Append(@, <<o.sid, o.text>>),
                           !.objs = <<Find(@, o.sid)>> \o Without(@, o.sid)]
          [] o.kind \in {"model", "repair"} -> Changed([Find(s.objs, o.sid) EXCEPT !.model = o.value])
          [] o.kind \in {"bind", "free"} -> Changed([Find(s.objs, o.sid) EXCEPT !.project = o.value])
          [] o.kind = "delete" -> [s EXCEPT !.objs = Without(@, o.sid)]
          [] o.kind = "register" -> [s EXCEPT !.projects = @ \cup {o.value}]
          [] o.kind = "forget" -> [s EXCEPT !.projects = @ \ {o.value}]
          [] o.kind = "abort" -> [s EXCEPT !.running = @ \ {o.sid}]
          [] o.kind = "schedule" -> [s EXCEPT !.due = @ \cup {<<o.sid, o.text>>}]
          [] o.kind = "unschedule" -> [s EXCEPT !.due = @ \ {<<o.sid, o.text>>}]
          [] OTHER -> s

\* The session object an answer carries.
Answer(s, o) ==
    CASE o.kind \in {"new", "first", "plan"} -> s.objs[1]
      [] o.sid \in Listed(s.objs) -> Find(s.objs, o.sid)
      [] OTHER -> NoObj

Acceptable(o) ==
    CASE o.kind \in {"new", "first", "plan"} -> srv.next <= MaxSessions
      [] o.kind \in {"stat", "register"} -> TRUE
      [] o.kind = "forget" -> \A i \in DOMAIN srv.objs : srv.objs[i].project # o.value
      [] o.kind \in {"post", "bind", "free", "delete", "rewind"} ->
             o.sid \in Listed(srv.objs) /\ o.sid \notin srv.running
      [] OTHER -> o.sid \in Listed(srv.objs)

Answered(o, st, res) == ops' = (ops \ {o}) \cup {[o EXCEPT !.st = st, !.res = res]}

Serve(o) ==
    /\ o.st = "sent"
    /\ UNCHANGED <<page, list, known, staged, trace, drafts>>
    /\ \/ /\ Acceptable(o)
          /\ srv' = Effect(srv, o)
          /\ \/ Answered(o, "ok", Answer(srv', o)) /\ UNCHANGED left
             \/ CanSpend("lost") /\ Spend("lost") /\ Answered(o, "lost", o.res)
       \/ /\ ~Acceptable(o)
          /\ Answered(o, "refused", o.res)
          /\ UNCHANGED <<srv, left>>
       \/ /\ CanSpend("lost") /\ Spend("lost")
          /\ \E st \in {"refused", "lost"} : Answered(o, st, o.res)
          /\ UNCHANGED srv

RunEnds(s) ==
    /\ CanSpend("ends") /\ Spend("ends")
    /\ s \in srv.running
    /\ srv' = [srv EXCEPT !.running = @ \ {s}]
    /\ UNCHANGED <<page, list, ops, known, staged, trace, drafts>>

\* A session:runtime event or a runtime refresh brings the belief up to date.
Observe(s) ==
    /\ (s \in known) # (s \in srv.running)
    /\ known' = IF s \in srv.running THEN known \cup {s} ELSE known \ {s}
    /\ UNCHANGED <<srv, page, list, ops, staged, trace, left, drafts>>

ServeList ==
    /\ list.phase = "sent"
    /\ list' = [list EXCEPT !.phase = "served", !.reply = srv.objs]
    /\ UNCHANGED <<srv, page, ops, known, staged, trace, left, drafts>>

ListArrives ==
    /\ list.phase = "served"
    /\ list' = [list EXCEPT !.phase = "idle", !.cache = list.reply, !.reply = <<>>,
                            !.fresh = TRUE]
    /\ page' = Resolved(page, list.reply)
    /\ UNCHANGED <<srv, ops, known, staged, trace, left, drafts>>

ListFails ==
    /\ list.phase # "idle" /\ CanSpend("lost") /\ Spend("lost")
    /\ list' = Cancelled(list)
    /\ page' = [page EXCEPT !.waiting = FALSE]
    /\ UNCHANGED <<srv, ops, known, staged, trace, drafts>>

(***************************************************************************)
(* Typing, sending and restoring.                                           *)
(***************************************************************************)
DraftKey == page.cur.id
Running(s) == s \in known
NeedsRepair(p) == p.cur.id # None /\ p.cur.model \notin Models
Text(key) == drafts.texts[key]
Atts(key) == drafts.atts[key]
HasDraft(key) == ~Matches(drafts, key, NoText, NoAtts)

\* What the user may do with the composer of the session shown.
Offered ==
    [edit |-> ~page.creating,
     submit |-> /\ HasDraft(DraftKey) /\ ~page.creating /\ ~page.llmSaving /\ ~NeedsRepair(page)
                /\ ~Running(DraftKey) /\ ~Locked(drafts, DraftKey),
     plan |-> /\ HasDraft(DraftKey) /\ ~page.creating /\ ~page.llmSaving /\ ~NeedsRepair(page)
              /\ ~Locked(drafts, DraftKey),
     model |-> DraftKey # None /\ ~page.llmSaving /\ ~Running(DraftKey),
     stop |-> DraftKey # None /\ Running(DraftKey) /\ page.ref = DraftKey]

\* The project select, and the button beside it.
ProjectOffered == DraftKey # None /\ ~page.projSaving

\* A new text replaces the one in the composer, which the user gives up.
Type ==
    /\ CanSpend("types") /\ Spend("types")
    /\ Offered.edit /\ trace.typed + 1 \in Texts
    /\ drafts' = SetText(drafts, DraftKey, trace.typed + 1)
    /\ trace' = [trace EXCEPT !.typed = @ + 1, !.given = @ \cup {Text(DraftKey)}]
    /\ UNCHANGED <<srv, page, list, ops, known, staged>>

Attach(atts) ==
    /\ CanSpend("attaches") /\ Spend("attaches")
    /\ Offered.edit /\ Atts(DraftKey) = NoAtts
    /\ drafts' = SetAttachments(drafts, DraftKey, atts)
    /\ UNCHANGED <<srv, page, list, ops, known, staged, trace>>

\* The message of submission i goes out to session sid: its bubble is staged
\* in the transcript that is shown, and the request is sent.
PostMessage(d, i, sid, p, O) ==
    /\ drafts' = BindSubmissionStage(d, i, i)
    /\ staged' = [staged EXCEPT ![i] = [at |-> p.store, text |-> d.subs[i].text]]
    /\ trace' = [trace EXCEPT !.echoes = @ \cup {<<sid, p.store>>}]
    /\ ops' = Add(O, [Op("post", sid) EXCEPT !.sub = i, !.text = d.subs[i].text])

GiveUp(d, i, O) ==
    /\ drafts' = FailSubmission(d, i, FALSE)
    /\ ops' = O
    /\ UNCHANGED <<staged, trace>>

\* After the attachments are known to exist: post, or first create a session.
Proceed(d, i, sid, O) ==
    IF sid = None
    THEN /\ page' = [Superseded(page) EXCEPT !.creating = TRUE, !.holder = Fresh(O)]
         /\ ops' = Add(O, [Op("first", None) EXCEPT !.sub = i])
         /\ drafts' = d
         /\ UNCHANGED <<staged, trace>>
    ELSE /\ UNCHANGED page
         /\ IF page.ref # sid THEN GiveUp(d, i, O) ELSE PostMessage(d, i, sid, page, O)

Submit ==
    /\ Offered.submit
    /\ CanBegin(drafts, DraftKey, Text(DraftKey), Atts(DraftKey))
    /\ \E d \in {BeginSubmission(drafts, DraftKey, Text(DraftKey), Atts(DraftKey))} :
           IF Atts(DraftKey) = NoAtts THEN Proceed(d, d.seq, DraftKey, ops)
           ELSE /\ drafts' = d
                /\ ops' = Add(ops, [Op("stat", DraftKey) EXCEPT !.sub = d.seq])
                /\ UNCHANGED <<page, staged, trace>>
    /\ UNCHANGED <<srv, list, known, left>>

StatArrives(o) ==
    /\ IF o.st = "ok" THEN Proceed(drafts, o.sub, o.sid, ops \ {o})
       ELSE GiveUp(drafts, o.sub, ops \ {o}) /\ UNCHANGED page
    /\ UNCHANGED list

\* The session created for a first message: it is taken over only while the
\* page still waits for it.
FirstArrives(o) ==
    LET taken == o.st = "ok" /\ page.holder = o.n /\ page.ref = None
        p == [page EXCEPT !.creating = FALSE]
    IN  IF ~taken
        THEN page' = p /\ GiveUp(drafts, o.sub, ops \ {o}) /\ UNCHANGED list
        ELSE LET there == Shown(p, o.res)
             IN  /\ Land(Navigated(there, o.res.id), Prepended(list, o.res))
                 /\ PostMessage(MoveSubmission(drafts, o.sub, o.res.id), o.sub, o.res.id,
                                there, ops \ {o})

PostArrives_LostIsRefused(o) ==
    /\ drafts' = CASE o.st = "ok" -> FinishSubmission(drafts, o.sub)
                   [] OTHER -> FailSubmission(drafts, o.sub, FALSE)
    /\ staged' = IF o.st # "ok" /\ Held(drafts, o.sub)
                 THEN [staged EXCEPT ![o.sub] = NoBubble] ELSE staged
    /\ list' = Invalidate(list)
    /\ ops' = ops \ {o}
    /\ UNCHANGED <<page, trace>>

\* A receipt over the socket outranks the answer; a definite failure returns
\* the message, an unknown outcome keeps it for the user to decide.
PostArrives(o) ==
    LET definite == o.st = "refused"
    IN  /\ drafts' = CASE o.st = "ok" -> FinishSubmission(drafts, o.sub)
                       [] OTHER -> FailSubmission(drafts, o.sub, ~definite)
        /\ staged' = IF definite /\ Held(drafts, o.sub)
                     THEN [staged EXCEPT ![o.sub] = NoBubble] ELSE staged
        /\ list' = Invalidate(list)
        /\ ops' = ops \ {o}
        /\ UNCHANGED <<page, trace>>

\* The user takes a message back that failed or whose outcome is unknown.
Restore(i) ==
    /\ Held(drafts, i) /\ drafts.subs[i].key = DraftKey /\ Offered.edit
    /\ \E d \in {RestoreSubmission(drafts, i)} :
           /\ d # drafts
           /\ drafts' = d
    /\ staged' = [staged EXCEPT ![i] = NoBubble]
    /\ trace' = [trace EXCEPT !.asked = @ \cup {drafts.subs[i].text}]
    /\ UNCHANGED <<srv, page, list, ops, known, left>>

\* The chat store sees a run start in the session shown and adopts the newest
\* pending bubble of its transcript; the store releases the submission.
Adopt(i) ==
    /\ staged[i].at # None /\ staged[i].at = page.store
    /\ \A j \in Slots : staged[j].at = page.store => j <= i
    /\ drafts' = AcceptSubmissionStage(drafts, i)
    /\ staged' = [staged EXCEPT ![i] = NoBubble]
    /\ UNCHANGED <<page, list, ops, known>>

Receipt(i) ==
    /\ \E k \in DOMAIN srv.log : srv.log[k] = <<staged[i].at, staged[i].text>>
    /\ Adopt(i)
    /\ UNCHANGED <<srv, left, trace>>

\* A run that another window starts in the session shown: whatever bubble is
\* pending there is adopted, whether or not the server ever accepts its message.
ForeignRun ==
    /\ CanSpend("foreign") /\ Spend("foreign")
    /\ page.store \in Listed(srv.objs) \ srv.running
    /\ srv' = [srv EXCEPT !.running = @ \cup {page.store}]
    /\ IF \E i \in Slots : staged[i].at = page.store 
       THEN \E i \in Slots :
              Adopt(i) /\ trace' = [trace EXCEPT !.mistaken = @ \cup {staged[i].text}]
       ELSE UNCHANGED <<page, list, ops, known, staged, trace, drafts>>

(***************************************************************************)
(* Sessions.                                                                *)
(***************************************************************************)
\* A row of the rail, which lists the cache.
SelectSession(s) ==
    /\ CanSpend("selects") /\ Spend("selects")
    /\ s \in Listed(list.cache) /\ s # page.ref
    /\ Land(Opened(page, s), list)
    /\ UNCHANGED <<srv, ops, known, staged, trace, drafts>>

\* The new-session button, or the /new command typed into the composer.
NewConv(command) ==
    /\ CanSpend("news") /\ Spend("news")
    /\ ~page.creating /\ (command => Text(DraftKey) # NoText)
    /\ page' = [Superseded(page) EXCEPT !.creating = TRUE, !.holder = Fresh(ops)]
    /\ ops' = Add(ops, [Op("new", page.ref) EXCEPT
                           !.key = DraftKey, !.atts = Atts(DraftKey),
                           !.text = IF command THEN Text(DraftKey) ELSE NoText])
    /\ UNCHANGED <<srv, list, known, staged, trace, drafts>>

\* The rail's buttons are dead while a session is being created.
CreateOffered == ~page.creating
CreateSession == CreateOffered /\ NewConv(FALSE)

\* A created session always enters the list; it is opened only if nothing
\* was selected since.  The command is cleared only where it still stands.
NewArrives(o) ==
    LET p == [page EXCEPT !.creating = FALSE]
        opens == o.st = "ok" /\ page.holder = o.n /\ page.ref = o.sid
    IN  /\ IF opens THEN Land(Opened(p, o.res.id), Prepended(Cancelled(list), o.res))
           ELSE /\ page' = p
                /\ list' = IF o.st = "ok" THEN Prepended(Cancelled(list), o.res) ELSE list
        /\ drafts' = IF opens /\ o.text # NoText
                     THEN ClearDraftIfMatch(drafts, o.key, o.text, o.atts) ELSE drafts
        /\ trace' = IF opens THEN [trace EXCEPT !.given = @ \cup {o.text}] ELSE trace
        /\ ops' = ops \ {o}
        /\ UNCHANGED staged

DeleteSession(s) ==
    /\ CanSpend("deletes") /\ Spend("deletes")
    /\ s \in Listed(list.cache) /\ ~Running(s)
    /\ \A o \in ops : o.kind # "delete"
    /\ ops' = Add(ops, [Op("delete", s) EXCEPT !.items = list.cache])
    /\ UNCHANGED <<srv, page, list, known, staged, trace, drafts>>

\* The list becomes the rows that were there at the click, without this one;
\* the page moves to the first of them.
DeleteArrives(o) ==
    LET remaining == Without(o.items, o.sid)
        kept == [list EXCEPT !.cache = remaining, !.fresh = TRUE]
        dropped == IF page.store # o.sid THEN page
                   ELSE [page EXCEPT !.store = None, !.holder = None]
        Leaves(p, s) == Land(Navigated([Superseded(p) EXCEPT !.stored = s], s), kept)
    IN  /\ ops' = ops \ {o}
        /\ UNCHANGED staged
        /\ IF o.st # "ok" THEN UNCHANGED <<page, list, drafts, trace>>
           ELSE /\ drafts' = ClearDraft(drafts, o.sid)
                /\ trace' = [trace EXCEPT !.given = @ \cup {Text(o.sid)}]
                /\ CASE page.ref # o.sid -> page' = dropped /\ list' = kept
                     [] page.ref = o.sid /\ remaining # <<>> -> Leaves(dropped, remaining[1].id)
                     [] OTHER -> Leaves([dropped EXCEPT !.cur = NoObj], None)

RenameSession(s) ==
    /\ CanSpend("renames") /\ Spend("renames")
    /\ s \in Listed(list.cache)
    /\ ops' = Add(ops, Op("rename", s))
    /\ UNCHANGED <<srv, page, list, known, staged, trace, drafts>>

\* An answer that carries a session updates the list, and the page only
\* while it still shows that session.
RenameArrives(o) ==
    /\ list' = IF o.st = "ok" THEN Patched(list, o.res) ELSE list
    /\ page' = IF o.st = "ok" /\ page.ref = o.sid THEN [page EXCEPT !.cur = o.res] ELSE page
    /\ ops' = ops \ {o}
    /\ UNCHANGED <<drafts, staged, trace>>

(***************************************************************************)
(* Models and projects.                                                     *)
(***************************************************************************)
SaveModel(kind, repaired, value) ==
    /\ page' = [page EXCEPT !.llmHolder = Fresh(ops), !.llmSaving = TRUE,
                            !.repaired = @ \cup repaired]
    /\ ops' = Add(ops, [Op(kind, page.cur.id) EXCEPT !.value = value, !.res = page.cur])
    /\ UNCHANGED <<srv, list, known, staged, trace, drafts>>

ChangeModel(m) ==
    /\ CanSpend("models") /\ Spend("models")
    /\ Offered.model /\ page.ref = page.cur.id /\ m # page.cur.model
    /\ SaveModel("model", {}, m)

\* A binding that names no configured model is moved to the default, once.
RepairModel ==
    /\ NeedsRepair(page) /\ ~page.llmSaving /\ ~Running(page.cur.id)
    /\ <<page.cur.id, page.cur.model>> \notin page.repaired
    /\ SaveModel("repair", {<<page.cur.id, page.cur.model>>}, DefaultModel)
    /\ UNCHANGED left

\* A failed change puts the previous model back; a failed repair does not.
ModelArrives(o) ==
    LET latest == page.llmHolder = o.n
        current == page.ref = o.sid /\ latest
    IN  /\ page' = [page EXCEPT
                       !.cur = CASE o.st = "ok" /\ current -> o.res
                                 [] o.st # "ok" /\ current /\ o.kind = "model" ->
                                        [@ EXCEPT !.model = o.res.model]
                                 [] OTHER -> @,
                       !.llmSaving = @ /\ ~latest,
                       !.llmHolder = IF latest THEN None ELSE @]
        /\ list' = IF o.st = "ok" /\ current THEN Patched(list, o.res) ELSE list
        /\ ops' = ops \ {o}
        /\ UNCHANGED <<drafts, staged, trace>>

\* One project change at a time; a new project is asked for in dialogs first.
ChangeProject(value, created) ==
    /\ CanSpend("projects") /\ Spend("projects")
    /\ ProjectOffered /\ page.ref # None
    /\ page' = [page EXCEPT !.projHolder = Fresh(ops), !.projSaving = TRUE]
    /\ ops' = Add(ops, [Op(IF created THEN "register" ELSE "bind", page.ref) EXCEPT
                           !.st = IF created THEN "asked" ELSE "sent", !.value = value])
    /\ UNCHANGED <<srv, list, known, staged, trace, drafts>>

DeleteCurrentProject ==
    /\ CanSpend("projects") /\ Spend("projects")
    /\ ProjectOffered /\ page.ref # None /\ page.cur.project \in srv.projects
    /\ ops' = Add(ops, [Op("free", page.ref) EXCEPT !.st = "asked", !.value = page.cur.project])
    /\ UNCHANGED <<srv, page, list, known, staged, trace, drafts>>

\* Refused while a reply is in progress.
HandleRewind ==
    /\ CanSpend("rewinds") /\ Spend("rewinds")
    /\ ~Running(DraftKey) /\ page.ref # None
    /\ ops' = Add(ops, [Op("rewind", page.ref) EXCEPT !.st = "asked"])
    /\ UNCHANGED <<srv, page, list, known, staged>>

\* A command picked from the composer's menu: /new keeps its text until the
\* session is there, /rewind empties the composer first.
HandleSlashCommand ==
    \/ NewConv(TRUE)
    \/ /\ Text(DraftKey) # NoText /\ Offered.edit
       /\ HandleRewind
       /\ drafts' = SetText(drafts, DraftKey, NoText)
       /\ trace' = [trace EXCEPT !.given = @ \cup {Text(DraftKey)}]

\* The user answers the dialog an operation waits in.  A new project and a
\* rewind go on only for the session they were asked for.
AnswerDialog(o, yes) ==
    LET latest == page.projHolder = o.n
        goes == /\ yes
                /\ o.kind \in {"register", "rewind"} => page.ref = o.sid
                /\ o.kind = "register" => latest
    IN  /\ o.st = "asked"
        /\ ops' = IF goes THEN (ops \ {o}) \cup {[o EXCEPT !.st = "sent"]} ELSE ops \ {o}
        /\ page' = CASE goes /\ o.kind = "free" ->
                            [page EXCEPT !.projHolder = o.n, !.projSaving = TRUE]
                     [] ~goes /\ o.kind = "register" /\ latest ->
                            [page EXCEPT !.projHolder = None, !.projSaving = FALSE]
                     [] OTHER -> page
        /\ UNCHANGED <<srv, list, known, staged, trace, left, drafts>>

\* register leads to bind, free to forget; the flag is lowered at the end of
\* the chain, or where it breaks.
ProjectArrives(o) ==
    LET goes == o.st = "ok" /\ o.kind \in {"register", "free"}
        shown == o.st = "ok" /\ o.kind \in {"bind", "free"}
        ends == ~goes /\ page.projHolder = o.n
        then == IF o.kind = "register" THEN "bind" ELSE "forget"
    IN  /\ ops' = (ops \ {o}) \cup
                  IF goes THEN {[o EXCEPT !.kind = then, !.st = "sent", !.res = NoObj]} ELSE {}
        /\ page' = [page EXCEPT
                       !.cur = IF shown /\ page.ref = o.sid THEN o.res ELSE @,
                       !.projSaving = @ /\ ~ends,
                       !.projHolder = IF ends THEN None ELSE @]
        /\ list' = IF shown THEN Patched(list, o.res) ELSE list
        /\ UNCHANGED <<drafts, staged, trace>>

\* After the rewind the transcript that is shown is loaded again.
RewindArrives(o) ==
    /\ trace' = IF o.st = "ok" /\ page.ref = o.sid
                THEN [trace EXCEPT !.echoes = @ \cup {<<o.sid, page.store>>}] ELSE trace
    /\ ops' = ops \ {o}
    /\ UNCHANGED <<page, list, drafts, staged>>

Stop ==
    /\ CanSpend("stops") /\ Spend("stops")
    /\ Offered.stop
    /\ ops' = Add(ops, Op("abort", page.ref))
    /\ UNCHANGED <<srv, page, list, known, staged, trace, drafts>>

(***************************************************************************)
(* Scheduled messages.                                                      *)
(***************************************************************************)
OpenSchedule ==
    /\ CanSpend("plans") /\ Spend("plans")
    /\ Offered.plan /\ page.scheduling = "closed"
    /\ page' = [page EXCEPT !.scheduling = "open"]
    /\ UNCHANGED <<srv, list, ops, known, staged, trace, drafts>>

CloseSchedule ==
    /\ page.scheduling = "open"
    /\ page' = [page EXCEPT !.scheduling = "closed"]
    /\ UNCHANGED <<srv, list, ops, known, staged, trace, left, drafts>>

\* The snapshot of the draft that is scheduled.
PlanOp(kind, sid, snapshot) ==
    [Op(kind, sid) EXCEPT !.key = snapshot.key, !.text = snapshot.text, !.atts = snapshot.atts]

\* saveSchedule, with its re-check of local attachments folded into the first
\* request it makes.
SaveSchedule ==
    /\ page.scheduling = "open"
    /\ HasDraft(DraftKey) /\ ~page.llmSaving /\ ~NeedsRepair(page)
    /\ page' = [page EXCEPT !.scheduling = "saving"]
    /\ ops' = Add(ops, PlanOp(IF DraftKey = None THEN "plan" ELSE "schedule", DraftKey,
                              [key |-> DraftKey, text |-> Text(DraftKey), atts |-> Atts(DraftKey)]))
    /\ UNCHANGED <<srv, list, known, staged, trace, left, drafts>>

\* The session created for a scheduled message is shown at once.
PlanArrives(o) ==
    /\ IF o.st # "ok"
       THEN page' = [page EXCEPT !.scheduling = "open"] /\ list' = list /\ ops' = ops \ {o}
       ELSE /\ Land(Navigated(Shown(page, o.res), o.res.id), Prepended(list, o.res))
            /\ ops' = Add(ops \ {o}, PlanOp("schedule", o.res.id, o))
    /\ UNCHANGED <<drafts, staged, trace>>

ScheduleArrives(o) ==
    /\ page' = [page EXCEPT !.scheduling = IF o.st = "ok" THEN "closed" ELSE "open"]
    /\ drafts' = IF o.st = "ok" THEN ClearDraftIfMatch(drafts, o.key, o.text, o.atts) ELSE drafts
    /\ ops' = ops \ {o}
    /\ UNCHANGED <<list, staged, trace>>

CancelSchedule(due) ==
    /\ CanSpend("plans") /\ Spend("plans")
    /\ due \in srv.due /\ due[1] = page.cur.id
    /\ ops' = Add(ops, [Op("unschedule", due[1]) EXCEPT !.text = due[2]])
    /\ trace' = [trace EXCEPT !.given = @ \cup {due[2]}]
    /\ UNCHANGED <<srv, page, list, known, staged, drafts>>

(***************************************************************************)
(* The whole page.                                                          *)
(***************************************************************************)
Settle(o) ==
    CASE o.kind = "stat" -> StatArrives(o)
      [] o.kind = "first" -> FirstArrives(o)
      [] o.kind = "post" -> PostArrives(o)
      [] o.kind = "new" -> NewArrives(o)
      [] o.kind = "delete" -> DeleteArrives(o)
      [] o.kind = "rename" -> RenameArrives(o)
      [] o.kind \in {"model", "repair"} -> ModelArrives(o)
      [] o.kind \in {"register", "bind", "free", "forget"} -> ProjectArrives(o)
      [] o.kind = "rewind" -> RewindArrives(o)
      [] o.kind = "plan" -> PlanArrives(o)
      [] o.kind = "schedule" -> ScheduleArrives(o)
      [] OTHER -> ops' = ops \ {o} /\ UNCHANGED <<page, list, drafts, staged, trace>>

Arrive(o) ==
    /\ o.st \in {"ok", "refused", "lost"}
    /\ Settle(o)
    /\ UNCHANGED <<srv, known, left>>

User ==
    \/ Type \/ Submit \/ Stop \/ DeleteCurrentProject
    \/ HandleRewind /\ UNCHANGED <<trace, drafts>>
    \/ CreateSession \/ HandleSlashCommand
    \/ OpenSchedule \/ CloseSchedule \/ SaveSchedule
    \/ \E atts \in Attachments : Attach(atts)
    \/ \E i \in Slots : Restore(i)
    \/ \E s \in Ids : SelectSession(s) \/ DeleteSession(s) \/ RenameSession(s)
    \/ \E m \in Models : ChangeModel(m)
    \/ \E v \in srv.projects \cup {None} : ChangeProject(v, FALSE)
    \/ \E v \in Projects : ChangeProject(v, TRUE)
    \/ \E o \in ops, yes \in BOOLEAN : AnswerDialog(o, yes)
    \/ \E due \in srv.due : CancelSchedule(due)

Net ==
    \/ \E o \in ops : Serve(o)
    \/ \E o \in ops : Arrive(o)
    \/ ServeList \/ ListArrives \/ ListFails
    \/ \E s \in Ids : RunEnds(s) \/ Observe(s)
    \/ ForeignRun \/ \E i \in Slots : Receipt(i)

LiveNext == User \/ RepairModel \/ Net

LiveSpec == LiveInit /\ [][LiveNext]_chatVars

(***************************************************************************)
(* Properties.                                                              *)
(***************************************************************************)
Typed == 1..trace.typed

\* Where a typed message may be: in a draft, with a submission, on its way, or
\* with the server.
Somewhere(t) ==
    \/ \E k \in Keys : Text(k) = t
    \/ \E i \in Slots : drafts.subs[i].text = t
    \/ \E k \in DOMAIN srv.log : srv.log[k][2] = t
    \/ \E due \in srv.due : due[2] = t
    \/ \E o \in ops : o.kind = "post" /\ o.st = "sent" /\ o.text = t

\* LiveChat.tsx submit/saveSchedule/newConv/deleteSession with draftStore.ts:
\* no typed message is ever lost.  Unless the user replaced it, deleted its
\* session, sent it as a command or cancelled its schedule, it is in a draft,
\* in a submission the composer offers to restore, or with the server.  The one
\* exception: another window's run started in the session while the message was on
\* its way and took its pending bubble (chatStore.ts adopts the newest one for any
\* run of the web page and releases its submission); when the server then refuses
\* the message, because that run is active, submit finds nothing to give back.
NothingVanishes == \A t \in Typed : Somewhere(t) \/ t \in trace.given \cup trace.mistaken

\* submit and failSubmission: the server gets a message twice only after the
\* user asked for a message of unknown outcome to be restored; and "switching
\* sessions ... ignores stale async completions so events cannot leak across
\* sessions" (LiveChat.tsx:7-9): a message's pending bubble, and a reload after
\* a rewind, go to the transcript of the session they are for.
SentOnce ==
    /\ \A j, k \in DOMAIN srv.log :
           j # k /\ srv.log[j][2] = srv.log[k][2] => srv.log[j][2] \in trace.asked
    /\ \A e \in trace.echoes : e[2] \in {e[1], None}
=============================================================================
