--------------------------- MODULE NavPreferences ---------------------------
(***************************************************************************)
(* The sidebar's order and visibility (stores/navPreferenceStore.ts,       *)
(* config/navigation.ts, the panel in pages/Settings.tsx, SidebarNav.tsx   *)
(* of webui/src) kept in the browser's storage and on the hub              *)
(* (server/routes/preferences.py).  Stored values may come from another    *)
(* build: they repeat, miss or invent items.                               *)
(***************************************************************************)
EXTENDS Naturals, Sequences, FiniteSets, SequencesExt

CONSTANTS
    Items,       \* NAV_ITEMS, in order
    HubItems,    \* _ALLOWED_NAV_IDS: the hub's own list of items
    Chat, Theme, \* the two items the migration of old layouts places
    NavOpenings  \* what is stored at the start, and how often things happen

VARIABLES
    storage,  \* the preferences in localStorage
    remote,   \* the hub's preferences, <<>> while there are none
    queue,    \* saves waiting for their turn, the first one being sent
    hydrate,  \* the read of the hub's preferences when the app starts
    panel,    \* what the settings panel holds, and the sidebar
    parted,   \* the read at the start failed, or another device wrote since
    times     \* how often each thing may still happen

navVars == <<storage, remote, queue, hydrate, panel, parted, times>>

Entry(id, visible) == [id |-> id, visible |-> visible]
Ids(prefs) == {prefs[i].id : i \in DOMAIN prefs}
DefaultNavPreferences == [i \in DOMAIN Items |-> Entry(Items[i], TRUE)]

\* The known entries of a stored value, each id once, the first one winning.
KnownOnce(stored) ==
    FoldLeft(LAMBDA kept, e : IF e.id \in Range(Items) \ Ids(kept) THEN Append(kept, e) ELSE kept,
             <<>>, stored)

\* Missing items go to the end; a layout that never had the theme page gets it
\* right behind the chat.
NormalizeNavPreferences(stored) ==
    LET kept == KnownOnce(stored)
        full == kept \o SelectSeq(DefaultNavPreferences, LAMBDA e : e.id \notin Ids(kept))
        rest == SelectSeq(full, LAMBDA e : e.id # Theme)
        chat == CHOOSE i \in DOMAIN rest : rest[i].id = Chat
    IN  IF Theme \in Ids(kept) THEN full ELSE InsertAt(rest, chat + 1, Entry(Theme, TRUE))

\* The hub takes only a list of every item it knows exactly once.
HubValidates(prefs) == Len(prefs) = Cardinality(HubItems) /\ Ids(prefs) = HubItems

GetNavPreferences == NormalizeNavPreferences(storage)
VisibleNavItems(prefs) == SelectSeq(prefs, LAMBDA e : e.visible)

\* Starting the app reads the hub's preferences; the sidebar shows the stored ones.
Started == [st |-> "asked", got |-> <<>>, changed |-> FALSE]

NavInit ==
    \E start \in NavOpenings :
        /\ storage = start.storage
        /\ remote = start.remote
        /\ queue = <<>>
        /\ hydrate = Started
        /\ panel = [open |-> FALSE, prefs |-> <<>>,
                    sidebar |-> VisibleNavItems(NormalizeNavPreferences(start.storage))]
        /\ parted = FALSE
        /\ times = start.times

May(what) == times[what] > 0
Did(what) == times' = [times EXCEPT ![what] = @ - 1]

\* applyNavPreferences: stored, and the sidebar told by an event.
Applied(p, prefs) ==
    /\ storage' = NormalizeNavPreferences(prefs)
    /\ panel' = [p EXCEPT !.sidebar = VisibleNavItems(NormalizeNavPreferences(prefs))]

OpenPanel ==
    /\ May("opens") /\ Did("opens")
    /\ panel' = [panel EXCEPT !.open = TRUE, !.prefs = GetNavPreferences]
    /\ UNCHANGED <<storage, remote, queue, hydrate, parted>>

\* setNavPreferences from the panel's own copy: a box, an arrow or the reset.
Changes(prefs) ==
    {DefaultNavPreferences}
    \cup {[prefs EXCEPT ![i].visible = ~@] : i \in DOMAIN prefs}
    \cup {[prefs EXCEPT ![i] = prefs[i + 1], ![i + 1] = prefs[i]] : i \in 1..(Len(prefs) - 1)}

SetNavPreferences ==
    /\ May("edits") /\ Did("edits")
    /\ panel.open
    /\ \E next \in Changes(panel.prefs) :
          /\ Applied([panel EXCEPT !.prefs = NormalizeNavPreferences(next)], next)
          /\ queue' = Append(queue, NormalizeNavPreferences(next))
    /\ hydrate' = [hydrate EXCEPT !.changed = TRUE]
    /\ UNCHANGED <<remote, parted>>

\* queueServerSave: one at a time, in order; a refused or failed one is dropped.
SaveServed ==
    /\ queue # <<>>
    /\ queue' = Tail(queue)
    /\ \/ remote' = (IF HubValidates(Head(queue)) THEN Head(queue) ELSE remote) /\ UNCHANGED times
       \/ May("fails") /\ Did("fails") /\ UNCHANGED remote
    /\ UNCHANGED <<storage, hydrate, panel, parted>>

HydrateServed ==
    /\ hydrate.st = "asked"
    /\ hydrate' = [hydrate EXCEPT !.st = "served", !.got = remote]
    /\ UNCHANGED <<storage, remote, queue, panel, parted, times>>

HydrateArrives_Overrides ==
    /\ hydrate.st = "served"
    /\ hydrate' = [hydrate EXCEPT !.st = "idle", !.got = <<>>]
    /\ IF hydrate.got = <<>> THEN UNCHANGED <<storage, panel>> ELSE Applied(panel, hydrate.got)
    /\ UNCHANGED <<remote, queue, parted, times>>

\* hydrateNavPreferences: a change made meanwhile wins.
HydrateArrives ==
    /\ hydrate.st = "served"
    /\ hydrate' = [hydrate EXCEPT !.st = "idle", !.got = <<>>]
    /\ CASE hydrate.changed -> UNCHANGED <<storage, panel, queue>>
         [] ~hydrate.changed /\ hydrate.got = <<>> ->
                /\ queue' = Append(queue, GetNavPreferences)
                /\ UNCHANGED <<storage, panel>>
         [] OTHER ->
                /\ Applied(panel, hydrate.got)
                /\ queue' = IF NormalizeNavPreferences(hydrate.got) = hydrate.got THEN queue
                            ELSE Append(queue, NormalizeNavPreferences(hydrate.got))
    /\ UNCHANGED <<remote, parted, times>>

HydrateFails ==
    /\ May("fails") /\ Did("fails")
    /\ hydrate.st # "idle"
    /\ hydrate' = [hydrate EXCEPT !.st = "idle", !.got = <<>>]
    /\ parted' = TRUE
    /\ UNCHANGED <<storage, remote, queue, panel>>

\* Reloading the app forgets the queue and reads again.
Reload ==
    /\ May("reloads") /\ Did("reloads")
    /\ hydrate' = Started
    /\ queue' = <<>>
    /\ panel' = [open |-> FALSE, prefs |-> <<>>, sidebar |-> VisibleNavItems(GetNavPreferences)]
    /\ parted' = FALSE
    /\ UNCHANGED <<storage, remote>>

\* Another device saves.
WrittenElsewhere ==
    /\ May("elsewhere") /\ Did("elsewhere")
    /\ remote' = SelectSeq(DefaultNavPreferences, LAMBDA e : e.id \in HubItems)
    /\ parted' = TRUE
    /\ UNCHANGED <<storage, queue, hydrate, panel>>

NavNext ==
    \/ OpenPanel \/ SetNavPreferences \/ Reload \/ WrittenElsewhere
    \/ SaveServed \/ HydrateServed \/ HydrateArrives \/ HydrateFails

(***************************************************************************)
(* Properties.                                                               *)
(***************************************************************************)
\* Once the read at the start is over, the sidebar shows what is stored, and that
\* is the hub's layout, completed, or the user's last change: a change made
\* while the read was in flight is not undone by it (localRevision).
NavAgrees ==
    (hydrate.st = "idle" /\ ~parted) =>
        /\ panel.sidebar = VisibleNavItems(GetNavPreferences)
        /\ IF hydrate.changed THEN GetNavPreferences = panel.prefs
           ELSE remote # <<>> => GetNavPreferences = NormalizeNavPreferences(remote)

\* The hub accepts every save the browser queues: both know the same items
\* (normalizeNavPreferences against _validate_navigation).
SavesAccepted == \A i \in DOMAIN queue : HubValidates(queue[i])
=============================================================================
