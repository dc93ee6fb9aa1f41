--------------------------- MODULE Conversations ---------------------------
(***************************************************************************)
(* The archive browser (webui/src/pages/Conversations.tsx,                 *)
(* queries/conversations.ts) and the archive routes behind it              *)
(* (server/routes/conversations.py): paging, search and filter over cached *)
(* lists, rename, delete, import as a session, opening the owner, and the  *)
(* grouping of messages into rounds.                                       *)
(***************************************************************************)
EXTENDS Naturals, Sequences, FiniteSets, SequencesExt

CONSTANTS
    Archives,      \* identities an archive may have, in the order listed
    Owners,        \* sessions that imports may create
    PerPage,       \* rows of a page
    Titles,        \* titles a user may give; 0 is none
    ConvOpenings   \* what the hub holds, and how often things happen

VARIABLES
    shelf,    \* hub: the archives and the sessions; what imports left behind
    browser,  \* the page's state
    lists,    \* <<search, page>> -> query of the list
    details,  \* archive -> query of its detail
    errands,  \* requests of the page in flight
    behind,   \* the keys whose list changed in a way the page was not told of
    rolls     \* how often each thing may still happen

convVars == <<shelf, browser, lists, details, errands, behind, rolls>>

Roll(what) == rolls[what] > 0
Rolled(what) == rolls' = [rolls EXCEPT ![what] = @ - 1]

Searches == {0, 1}
Keys == Searches \X (0..Cardinality(Archives))
NoRows == [known |-> FALSE, total |-> 0, rows |-> <<>>]
NoDetail == [known |-> FALSE, title |-> 0, owner |-> 0]
Query(data) == [data |-> data, fresh |-> FALSE, read |-> "idle", got |-> data]

(***************************************************************************)
(* buildRounds: a user message opens a round, what precedes the first one    *)
(* forms a round of its own.                                                 *)
(***************************************************************************)
NewRound(index, user) ==
    [index |-> index, user |-> user, said |-> <<>>, summaries |-> <<>>, conclusion |-> 0, detail |-> 0]

\* One row per turn: later snapshots replace the row, the rows sorted by turn.
MergedRows(rows, more) ==
    LET turns == {rows[i].turn : i \in DOMAIN rows} \cup {more[i].turn : i \in DOMAIN more}
        Latest(s, t) == CHOOSE i \in DOMAIN s : s[i].turn = t /\ \A j \in DOMAIN s : s[j].turn = t => j <= i
        Row(t) == IF \E i \in DOMAIN more : more[i].turn = t THEN more[Latest(more, t)] ELSE rows[Latest(rows, t)]
        order == SetToSortSeq(turns, <)
    IN  [i \in DOMAIN order |-> Row(order[i])]

AssistantSays(r, m) ==
    LET detail == IF m.body # 0 THEN m.body ELSE r.detail
        fallback == IF m.body # 0 THEN m.body ELSE m.text
        said == Append(r.said, m)
    IN  IF m.turns # <<>>
        THEN LET rows == MergedRows(r.summaries, m.turns)
             IN  [r EXCEPT !.said = said, !.detail = detail, !.summaries = rows,
                           !.conclusion = rows[Len(rows)].summary]
        ELSE [r EXCEPT !.said = said,
                       !.summaries = IF fallback = 0 THEN @
                                     ELSE Append(@, [turn |-> Len(r.summaries) + 1, summary |-> fallback]),
                       !.conclusion = IF fallback = 0 THEN @ ELSE fallback,
                       !.detail = IF detail = 0 THEN fallback ELSE detail]

BuildRounds(messages) ==
    LET Opened(rounds, user) == Append(rounds, NewRound(Len(rounds) + 1, user))
        Step(rounds, m) ==
            IF m.role = "user" THEN Opened(rounds, <<m>>)
            ELSE LET all == IF rounds = <<>> THEN Opened(rounds, <<>>) ELSE rounds
                     box == all[Len(all)]
                 IN  Front(all) \o
                     <<IF m.role = "assistant" THEN AssistantSays(box, m) ELSE [box EXCEPT !.said = Append(@, m)]>>
        f[n \in 0..Len(messages)] == IF n = 0 THEN <<>> ELSE Step(f[n - 1], messages[n])
    IN  f[Len(messages)]

(***************************************************************************)
(* The hub.                                                                  *)
(***************************************************************************)
Matches(a, q) == q = 0 \/ shelf.files[a].hit \/ shelf.files[a].title = 1
Listed(q) == SelectSeq(SetToSortSeq(DOMAIN shelf.files, <), LAMBDA a : Matches(a, q))

SourceOf(a) == IF shelf.files[a].owner # 0 THEN "session" ELSE "local"

\* _list_conversations_sync
ListPage(key) ==
    LET found == Listed(key[1])
        last == (key[2] + 1) * PerPage
    IN  [known |-> TRUE, total |-> Len(found),
         rows |-> LET ids == SubSeq(found, key[2] * PerPage + 1, IF Len(found) < last THEN Len(found) ELSE last)
                  IN  [i \in DOMAIN ids |-> [id |-> ids[i], title |-> shelf.files[ids[i]].title, source |-> SourceOf(ids[i])]]]

DetailOf(a) ==
    IF a \notin DOMAIN shelf.files THEN NoDetail
    ELSE [known |-> TRUE, title |-> shelf.files[a].title, owner |-> shelf.files[a].owner]

\* A request: mine while the page that made it is mounted, away from another window.
Errand(what, a) == [what |-> what, id |-> a, title |-> 0, owner |-> 0, copy |-> 0, st |-> "asked",
                    mine |-> TRUE, away |-> FALSE]
Asks(e) == errands' = errands \cup {e}

\* Another window deletes a session, whose archive stays, or imports an archive.
MovesElsewhere ==
    /\ Roll("elsewhere") /\ Rolled("elsewhere")
    /\ \/ /\ \E s \in shelf.sessions :
                shelf' = [shelf EXCEPT !.sessions = @ \ {s},
                                       !.files = [a \in DOMAIN @ |-> IF @[a].owner = s
                                                                     THEN [@[a] EXCEPT !.owner = 0] ELSE @[a]]]
          /\ behind' = Keys
          /\ UNCHANGED errands
       \/ /\ \E a \in DOMAIN shelf.files : Asks([Errand("import", a) EXCEPT !.away = TRUE])
          /\ UNCHANGED <<shelf, behind>>
    /\ UNCHANGED <<browser, lists, details>>

Answers(e, st) == errands' = (errands \ {e}) \cup {[e EXCEPT !.st = st]}
AnswersWith(e, st, s) == errands' = (errands \ {e}) \cup {[e EXCEPT !.st = st, !.owner = s]}

\* Deleting an archive deletes the row of the session bound to it.
Unlinked(a) ==
    [shelf EXCEPT !.files = [b \in DOMAIN @ \ {a} |-> @[b]], !.sessions = @ \ {shelf.files[a].owner}]

ServeEdit(e) ==
    /\ e.st = "asked" /\ e.what \in {"rename", "delete"}
    /\ UNCHANGED <<browser, lists, details, behind, rolls>>
    /\ IF e.id \in DOMAIN shelf.files
       THEN /\ shelf' = IF e.what = "delete" THEN Unlinked(e.id)
                        ELSE [shelf EXCEPT !.files[e.id].title = e.title]
            /\ Answers(e, "ok")
       ELSE UNCHANGED shelf /\ Answers(e, "gone")

\* A session at work keeps its archive.
DeleteRefused(e) ==
    /\ e.st = "asked" /\ e.what = "delete" /\ Roll("busy") /\ Rolled("busy")
    /\ e.id \in DOMAIN shelf.files /\ shelf.files[e.id].owner # 0
    /\ Answers(e, "gone")
    /\ UNCHANGED <<shelf, browser, lists, details, behind>>

\* import_conversation: refused for a bound archive; else the session row ...
ImportStarts(e) ==
    /\ e.st = "asked" /\ e.what = "import"
    /\ UNCHANGED <<browser, lists, details, rolls>>
    /\ \/ e.id \notin DOMAIN shelf.files /\ Answers(e, "gone") /\ UNCHANGED <<shelf, behind>>
       \/ /\ e.id \in DOMAIN shelf.files /\ shelf.files[e.id].owner # 0
          /\ AnswersWith(e, "bound", shelf.files[e.id].owner) /\ UNCHANGED <<shelf, behind>>
       \/ /\ e.id \in DOMAIN shelf.files /\ shelf.files[e.id].owner = 0
          /\ \E s \in Owners \ shelf.used :
                /\ shelf' = [shelf EXCEPT !.sessions = @ \cup {s}, !.used = @ \cup {s}]
                /\ AnswersWith(e, "row", s)
          /\ UNCHANGED behind

\* ... then a copy, listed while it is no session's yet, which the row is bound to
\* by its path, and the runtime.  A step that fails has the earlier ones undone.
Broken(e) ==
    Answers(e, "undo") /\ UNCHANGED <<shelf, behind>>
ImportCopies(e) ==
    /\ e.st = "row"
    /\ UNCHANGED <<browser, lists, details, rolls>>
    /\ \/ /\ e.id \in DOMAIN shelf.files
          /\ \E a \in Archives \ (DOMAIN shelf.files \cup shelf.gone) :
                /\ shelf' = [shelf EXCEPT !.gone = @ \cup {a}, !.tried = @ \cup {a},
                                          !.files = [b \in DOMAIN @ \cup {a} |->
                                              IF b = a THEN [@[e.id] EXCEPT !.owner = 0] ELSE @[b]]]
                /\ errands' = (errands \ {e}) \cup {[e EXCEPT !.st = "copied", !.copy = a]}
          /\ behind' = Keys
       \/ (e.id \notin DOMAIN shelf.files \/ Roll("fails")) /\ Broken(e)

ImportBinds(e) ==
    /\ e.st = "copied"
    /\ UNCHANGED <<browser, lists, details, rolls>>
    /\ \/ /\ e.owner \in shelf.sessions
          /\ shelf' = [shelf EXCEPT !.files = [b \in DOMAIN @ |->
                                        IF b = e.copy THEN [@[b] EXCEPT !.owner = e.owner] ELSE @[b]]]
          /\ behind' = Keys
          /\ Answers(e, "tied")
       \/ (e.owner \notin shelf.sessions \/ Roll("fails")) /\ Broken(e)

\* A session whose copy is gone is refused, or given a fresh log instead.
ImportEnsures(e) ==
    /\ e.st = "tied"
    /\ UNCHANGED <<browser, lists, details, rolls>>
    /\ \/ /\ e.owner \in shelf.sessions
          /\ shelf' = [shelf EXCEPT !.tried = @ \ {e.copy},
                                    !.hollow = IF e.copy \in DOMAIN shelf.files THEN @ ELSE @ \cup {e.owner}]
          /\ UNCHANGED behind
          /\ Answers(e, "ok")
       \/ (e.owner \notin shelf.sessions \/ e.copy \notin DOMAIN shelf.files \/ Roll("fails")) /\ Broken(e)

UndoCopy_ByOwner(e) ==
    /\ e.st = "undo"
    /\ shelf' = [shelf EXCEPT !.files = [a \in {b \in DOMAIN @ : @[b].owner # e.owner} |-> @[a]]]
    /\ behind' = Keys
    /\ Answers(e, "unrow")
    /\ UNCHANGED <<browser, lists, details, rolls>>

\* _rollback_import: the copy is removed by its path, then the row; a removal that
\* fails is logged and what it should have removed stays.
UndoCopy(e) ==
    /\ e.st = "undo"
    /\ \/ /\ shelf' = [shelf EXCEPT !.files = [a \in DOMAIN @ \ {e.copy} |-> @[a]]]
          /\ behind' = IF e.copy \in DOMAIN shelf.files THEN Keys ELSE behind
          /\ UNCHANGED rolls
       \/ /\ e.copy \in DOMAIN shelf.files /\ Roll("stuck") /\ Rolled("stuck")
          /\ shelf' = [shelf EXCEPT !.tried = @ \ {e.copy}]
          /\ UNCHANGED behind
    /\ Answers(e, "unrow")
    /\ UNCHANGED <<browser, lists, details>>
UndoRow(e) ==
    /\ e.st = "unrow"
    /\ \/ /\ shelf' = [shelf EXCEPT !.sessions = @ \ {e.owner},
                                    !.files = [a \in DOMAIN @ |-> IF @[a].owner = e.owner
                                                                  THEN [@[a] EXCEPT !.owner = 0] ELSE @[a]]]
          /\ behind' = IF \E a \in DOMAIN shelf.files : shelf.files[a].owner = e.owner THEN Keys ELSE behind
          /\ UNCHANGED rolls
       \/ /\ e.owner \in shelf.sessions /\ Roll("stuck") /\ Rolled("stuck")
          /\ shelf' = [shelf EXCEPT !.hollow = @ \cup {e.owner}]
          /\ UNCHANGED behind
    /\ Answers(e, "failed")
    /\ UNCHANGED <<browser, lists, details>>

\* The list of sessions, as read for opening one.
ServeSessions(e) ==
    /\ e.st = "asked" /\ e.what = "open"
    /\ Answers(e, IF e.owner \in shelf.sessions THEN "ok" ELSE "gone")
    /\ UNCHANGED <<shelf, browser, lists, details, behind, rolls>>

(***************************************************************************)
(* Queries: a key that comes into view is read unless its data is fresh.     *)
(* Invalidating reads the list in view anew; the read of another one, if in  *)
(* flight, goes on.                                                          *)
(***************************************************************************)
Observed(queries, k) ==
    IF queries[k].fresh \/ queries[k].read # "idle" THEN queries
    ELSE [queries EXCEPT ![k] = [@ EXCEPT !.read = "asked"]]
Aged(queries, k) == [queries EXCEPT ![k].fresh = FALSE]
KeyOf(b) == <<b.debounced, b.page>>

InvalidatedLists(qs, b) ==
    [k \in Keys |-> [qs[k] EXCEPT !.fresh = FALSE, !.read = IF k = KeyOf(b) THEN "asked" ELSE @]]
InFlight(qs, b) == {k \in Keys : k # KeyOf(b) /\ qs[k].read # "idle"}

\* The effect that clamps the page to the last one of the list it shows.
Clamped(b, qs) ==
    LET f[n \in 0..Cardinality(Archives)] ==
            LET total == qs[<<b.debounced, n>>].data.total
            IN  IF total > 0 /\ n > 0 /\ n * PerPage >= total
                THEN f[((total + PerPage - 1) \div PerPage) - 1] ELSE n
    IN  [b EXCEPT !.page = f[b.page]]

\* The page renders: the page number is clamped, its list read if need be.
Rendered(b, qs) ==
    /\ browser' = Clamped(b, qs)
    /\ lists' = Observed(qs, KeyOf(browser'))

ConvInit ==
    \E start \in ConvOpenings :
        /\ shelf = [files |-> start.files, used |-> start.sessions, gone |-> {}, sessions |-> start.sessions,
                    tried |-> {}, hollow |-> {}]
        /\ browser = [active |-> start.last, last |-> start.last, q |-> 0, debounced |-> 0, page |-> start.page, filter |-> "all",
                      importing |-> 0, asking |-> [what |-> "none"], chat |-> 0, messages |-> start.messages]
        /\ lists = Observed([k \in Keys |-> Query(NoRows)], <<0, start.page>>)
        /\ details = LET none == [a \in Archives |-> Query(NoDetail)]
                     IN  IF start.last = 0 THEN none ELSE Observed(none, start.last)
        /\ errands = {}
        /\ behind = {}
        /\ rolls = start.rolls

ListServed(k) ==
    /\ lists[k].read = "asked"
    /\ lists' = [lists EXCEPT ![k].read = "read", ![k].got = ListPage(k)]
    /\ behind' = behind \ {k}
    /\ UNCHANGED <<shelf, browser, details, errands, rolls>>

ListArrives(k) ==
    /\ lists[k].read = "read"
    /\ Rendered(browser, [lists EXCEPT ![k].data = lists[k].got, ![k].fresh = TRUE, ![k].read = "idle"])
    /\ UNCHANGED <<shelf, details, errands, behind, rolls>>

\* A detail that is gone leaves what was cached.
DetailServed(a) ==
    /\ details[a].read = "asked"
    /\ details' = [details EXCEPT ![a].read = "read", ![a].got = DetailOf(a)]
    /\ UNCHANGED <<shelf, browser, lists, errands, behind, rolls>>

DetailArrives(a) ==
    /\ details[a].read = "read"
    /\ details' = [details EXCEPT ![a].read = "idle", ![a].fresh = details[a].got.known,
                                  ![a].data = IF details[a].got.known THEN details[a].got ELSE @]
    /\ UNCHANGED <<shelf, browser, lists, errands, behind, rolls>>

(***************************************************************************)
(* What the user does.                                                       *)
(***************************************************************************)
Browsing == browser.chat = 0 /\ browser.asking.what = "none"
Shown == browser.active # 0 /\ details[browser.active].data.known

TypeQuery ==
    /\ Browsing /\ Roll("types") /\ Rolled("types")
    /\ Rendered([browser EXCEPT !.q = 1 - @, !.page = 0], lists)
    /\ UNCHANGED <<shelf, details, errands, behind>>

\* 300 ms after the last change the search is carried out.
Debounced ==
    /\ browser.debounced # browser.q /\ browser.chat = 0
    /\ Rendered([browser EXCEPT !.debounced = browser.q], lists)
    /\ UNCHANGED <<shelf, details, errands, behind, rolls>>

\* A page seen more than 30 s ago is read again.
TurnPage ==
    /\ Browsing /\ Roll("turns") /\ Rolled("turns")
    /\ LET total == lists[KeyOf(browser)].data.total
           to == {n \in {browser.page + 1} : n * PerPage < total}
                 \cup {n \in 0..browser.page : n + 1 = browser.page}
       IN  /\ total > PerPage
           /\ \E n \in to :
                \/ Rendered([browser EXCEPT !.page = n], lists)
                \/ Rendered([browser EXCEPT !.page = n], Aged(lists, <<browser.debounced, n>>))
    /\ UNCHANGED <<shelf, details, errands, behind>>

\* The filter narrows what the page shows of the rows it loaded.
SetFilter ==
    /\ Browsing /\ Roll("filters") /\ Rolled("filters")
    /\ \E f \in {"all", "session", "local"} : browser' = [browser EXCEPT !.filter = f]
    /\ UNCHANGED <<shelf, lists, details, errands, behind>>

VisibleItems ==
    SelectSeq(lists[KeyOf(browser)].data.rows, LAMBDA c : browser.filter \in {"all", c.source})

PickRow ==
    /\ Browsing /\ Roll("picks") /\ Rolled("picks")
    /\ \E i \in DOMAIN VisibleItems :
          LET a == VisibleItems[i].id
          IN  /\ browser' = [browser EXCEPT !.active = a, !.last = a]
              /\ \/ details' = Observed(details, a)
                 \/ details' = Observed(Aged(details, a), a)
    /\ UNCHANGED <<shelf, lists, errands, behind>>

Prompts(what) ==
    /\ Browsing /\ Shown /\ Roll("edits") /\ Rolled("edits")
    /\ browser' = [browser EXCEPT !.asking = [what |-> what, id |-> browser.active]]
    /\ UNCHANGED <<shelf, lists, details, errands, behind>>
AskRename == Prompts("rename")
AskDelete == Prompts("delete")

Answered(what) ==
    /\ browser.asking.what = what
    /\ browser' = [browser EXCEPT !.asking = [what |-> "none"]]
    /\ UNCHANGED <<shelf, lists, details, behind, rolls>>
Dismiss == browser.asking.what # "none" /\ Answered(browser.asking.what) /\ UNCHANGED errands
HandleRename ==
    /\ Answered("rename")
    /\ \E t \in Titles : Asks([Errand("rename", browser.asking.id) EXCEPT !.title = t])
HandleDelete == Answered("delete") /\ Asks(Errand("delete", browser.asking.id))

ImportClicked ==
    /\ Browsing /\ Shown /\ Roll("imports") /\ Rolled("imports")
    /\ details[browser.active].data.owner = 0 /\ browser.importing # browser.active
    /\ browser' = [browser EXCEPT !.importing = browser.active]
    /\ Asks(Errand("import", browser.active))
    /\ UNCHANGED <<shelf, lists, details, behind>>

OpenClicked ==
    /\ Browsing /\ Shown /\ Roll("imports") /\ Rolled("imports")
    /\ details[browser.active].data.owner # 0
    /\ Asks([Errand("open", 0) EXCEPT !.owner = details[browser.active].data.owner])
    /\ UNCHANGED <<shelf, browser, lists, details, behind>>

(***************************************************************************)
(* Answers.                                                                  *)
(***************************************************************************)
\* applyConversationTitle
Retitled(data, a, t) ==
    [data EXCEPT !.rows = [i \in DOMAIN @ |-> IF @[i].id = a THEN [@[i] EXCEPT !.title = t] ELSE @[i]]]

RenameArrives(e) ==
    /\ e.what = "rename" /\ e.st \in {"ok", "gone"}
    /\ errands' = errands \ {e}
    /\ IF e.st = "ok"
       THEN /\ details' = [details EXCEPT ![e.id].data.title = IF details[e.id].data.known THEN e.title ELSE 0]
            /\ lists' = InvalidatedLists([k \in Keys |-> [lists[k] EXCEPT !.data = Retitled(@, e.id, e.title)]], browser)
            /\ behind' = behind \cup InFlight(lists, browser)
       ELSE UNCHANGED <<details, lists, behind>>
    /\ UNCHANGED <<shelf, browser, rolls>>

\* The page is left for the plain route, wherever the user is by then.
DeleteArrives(e) ==
    /\ e.what = "delete" /\ e.st \in {"ok", "gone"}
    /\ errands' = errands \ {e}
    /\ IF e.st = "ok"
       THEN \E b \in {[browser EXCEPT !.active = 0, !.last = 0, !.chat = 0,
                                      !.debounced = IF browser.chat = 0 THEN @ ELSE 0]} :
              /\ browser' = b
              /\ details' = [details EXCEPT ![e.id] = Query(NoDetail)]
              /\ lists' = InvalidatedLists(lists, b)
              /\ behind' = behind \cup InFlight(lists, b)
       ELSE UNCHANGED <<browser, details, lists, behind>>
    /\ UNCHANGED <<shelf, rolls>>

\* An import leads to its session, a refused one to the owner.
ImportArrives(e) ==
    /\ e.what = "import" /\ e.st \in {"ok", "bound", "gone", "failed"}
    /\ errands' = (errands \ {e}) \cup
            IF e.st \in {"ok", "bound"} /\ ~e.away THEN {[Errand("open", e.id) EXCEPT !.owner = e.owner, !.mine = e.mine]} ELSE {}
    /\ browser' = IF e.st \in {"ok", "bound"} \/ ~e.mine \/ e.away THEN browser ELSE [browser EXCEPT !.importing = 0]
    /\ UNCHANGED <<shelf, lists, details, behind, rolls>>

\* openSession: to the chat page only when the session is still listed.
OpenArrives(e) ==
    /\ e.what = "open" /\ e.st \in {"ok", "gone"}
    /\ errands' = errands \ {e}
    /\ browser' = [browser EXCEPT !.importing = IF e.id = 0 \/ ~e.mine THEN @ ELSE 0,
                                  !.chat = IF e.st = "ok" THEN e.owner ELSE @]
    /\ UNCHANGED <<shelf, lists, details, behind, rolls>>

ReturnToPage ==
    /\ browser.chat # 0 /\ Roll("returns") /\ Rolled("returns")
    /\ \E b \in {[browser EXCEPT !.chat = 0, !.active = browser.last, !.debounced = 0, !.importing = 0]} :
          /\ Rendered(b, lists)
          /\ details' = IF b.active = 0 THEN details ELSE Observed(details, b.active)
    /\ errands' = {[e EXCEPT !.mine = FALSE] : e \in errands}
    /\ UNCHANGED <<shelf, behind>>

ConvPerson ==
    \/ TypeQuery \/ TurnPage \/ SetFilter \/ PickRow \/ AskRename \/ AskDelete
    \/ HandleRename \/ HandleDelete \/ Dismiss \/ ImportClicked \/ OpenClicked \/ ReturnToPage

ConvReplies ==
    \/ \E k \in Keys : ListServed(k) \/ ListArrives(k)
    \/ \E a \in Archives : DetailServed(a) \/ DetailArrives(a)
    \/ \E e \in errands :
          \/ ServeEdit(e) \/ DeleteRefused(e) \/ ImportStarts(e) \/ ImportCopies(e) \/ ImportBinds(e) \/ ImportEnsures(e)
          \/ UndoCopy(e) \/ UndoRow(e) \/ ServeSessions(e)
          \/ RenameArrives(e) \/ DeleteArrives(e) \/ ImportArrives(e) \/ OpenArrives(e)
    \/ Debounced

ConvNext == ConvPerson \/ ConvReplies \/ MovesElsewhere

(***************************************************************************)
(* Properties                                                               *)
(***************************************************************************)
\* The user is never left on an empty page of a list that has rows, however
\* the list shrank: by a delete, a narrower search or an older cached page.
NeverStranded ==
    LET query == lists[KeyOf(browser)]
    IN  (browser.chat = 0 /\ query.data.known /\ query.read = "idle" /\ query.data.total > 0)
        => query.data.rows # <<>>

\* Once an import is over there is a session with a copy of its own or neither of
\* the two, whatever other windows deleted while it ran: sessions own exactly one
\* archive each, and no copy of a failed import is left.  Set aside is what the
\* handler gives up on: a removal of its rollback that failed, which is logged, and
\* a copy that was deleted from the list before it was bound.
ImportsWhole ==
    (\A e \in errands : e.st \notin {"row", "copied", "tied", "undo", "unrow"})
    => /\ shelf.tried \cap DOMAIN shelf.files = {}
       /\ \A s \in shelf.sessions \ shelf.hollow :
             Cardinality({a \in DOMAIN shelf.files : shelf.files[a].owner = s}) = 1

\* Once the page's own requests have come home the list it shows is the hub's,
\* unless an import added an archive or the read of a page out of view was in
\* flight: the page in view never falls back to rows from before a rename or a
\* delete.
ListIsCurrent ==
    (/\ browser.chat = 0 /\ KeyOf(browser) \notin behind /\ \A e \in errands : e.st = "asked"
     /\ lists[KeyOf(browser)].read = "idle" /\ lists[KeyOf(browser)].fresh)
    => lists[KeyOf(browser)].data = ListPage(KeyOf(browser))

\* The rounds hold every message once and in order, a user message only at the
\* head of a round, and show the last answer's body.
RoundsFaithful ==
    LET rounds == BuildRounds(browser.messages)
        bodies(r) == SelectSeq(r.said, LAMBDA m : m.role = "assistant" /\ m.body # 0)
    IN  /\ FlattenSeq([i \in DOMAIN rounds |-> rounds[i].user \o rounds[i].said]) = browser.messages
        /\ \A i \in DOMAIN rounds :
              /\ rounds[i].index = i
              /\ \A j \in DOMAIN rounds[i].said : rounds[i].said[j].role # "user"
              /\ (i > 1 => rounds[i].user # <<>>)
              /\ (bodies(rounds[i]) # <<>> => rounds[i].detail = bodies(rounds[i])[Len(bodies(rounds[i]))].body)
=============================================================================
