------------------------------ MODULE Composer ------------------------------
(***************************************************************************)
(* The message box (webui/src/components/ImagePasteInput.tsx): files that   *)
(* are uploaded two at a time, local files added by reference, the slash    *)
(* menu and the input-method guard.  The box is mounted anew for every      *)
(* draft; uploads and lookups of an unmounted box may still answer.         *)
(***************************************************************************)
EXTENDS Naturals, Sequences, FiniteSets, SequencesExt

CONSTANTS
    DraftKeys,       \* drafts; 0 is the page without a session
    MaxAttachments,  \* MAX_ATTACHMENTS
    Paths,           \* local files that can be referenced
    ComposerOpenings \* whether this is the desktop, and how often things happen

VARIABLES
    box,    \* refs and state of the mounted box
    draft,  \* draft key -> its text and attachments in the draft store
    wire,   \* uploads in flight
    looks,  \* file dialogs, clipboard reads and path lookups in flight
    kept,   \* draft key -> the files the user has put there and not removed
    turns   \* how often each thing may still happen

boxVars == <<box, draft, wire, looks, kept, turns>>

TextKinds == {"none", "words", "slash"}
Uploaded(m, id) == <<m, id>>
Referenced(p) == <<0, p>>
Pending(b) == {Uploaded(b.mount, b.pend[i].id) : i \in DOMAIN b.pend}
Active == 2

MountedBox(mount, key, desktop) ==
    [mount |-> mount, key |-> key, desktop |-> desktop, pend |-> <<>>, active |-> {},
     next |-> 1, busy |-> FALSE, disabled |-> FALSE, ime |-> "none",
     index |-> 0, dismissed |-> "none", btw |-> FALSE]

ComposerInit ==
    \E start \in ComposerOpenings :
        /\ box = MountedBox(1, start.key, start.desktop)
        /\ draft = [k \in DraftKeys |-> [text |-> "none", atts |-> <<>>]]
        /\ wire = {}
        /\ looks = {}
        /\ kept = [k \in DraftKeys |-> {}]
        /\ turns = start.turns

May(what) == turns[what] > 0
Took(what) == turns' = [turns EXCEPT ![what] = @ - 1]

(***************************************************************************)
(* Uploads.                                                                 *)
(***************************************************************************)
Chosen(b, ids) == SelectSeq(b.pend, LAMBDA u : u.id \in ids \ b.active)
Idle(b) == {b.pend[i].id : i \in {j \in DOMAIN b.pend : b.pend[j].st = "wait"}}

\* runUpload for each of ids in order: at most two are active.
Started(b, ids) ==
    LET free == IF Cardinality(b.active) >= Active THEN 0 ELSE Active - Cardinality(b.active)
        queue == Chosen(b, ids)
        now == {queue[i].id : i \in 1..(IF Len(queue) < free THEN Len(queue) ELSE free)}
    IN  [b EXCEPT !.active = @ \cup now,
                  !.pend = [i \in DOMAIN @ |-> IF @[i].id \in now
                                               THEN [@[i] EXCEPT !.st = "go"] ELSE @[i]]]

\* The requests that starting uploads adds.
Requests(b, c) == {[mount |-> b.mount, id |-> i, aborted |-> FALSE] : i \in c.active \ b.active}

CapacityExceeded(b, n) == Len(draft[b.key].atts) + Len(b.pend) + n > MaxAttachments

\* upload: a batch is queued whole, or refused whole at the limit.
Queue(b, n) ==
    IF CapacityExceeded(b, n) THEN b
    ELSE LET added == [i \in 1..n |-> [id |-> b.next + i - 1, st |-> "wait"]]
         IN  Started([b EXCEPT !.pend = @ \o added, !.next = @ + n], (b.next)..(b.next + n - 1))

QueueAll(b, c) ==
    /\ box' = c
    /\ wire' = wire \cup Requests(b, c)
    /\ kept' = [kept EXCEPT ![b.key] = @ \cup (Pending(c) \ Pending(b))]

\* Files are dropped, pasted or picked in a browser.
Upload(n) ==
    /\ May("uploads") /\ ~box.desktop /\ ~box.disabled
    /\ QueueAll(box, Queue(box, n))
    /\ Took("uploads")
    /\ UNCHANGED <<draft, looks>>

WithoutPending(b, id) == [b EXCEPT !.pend = SelectSeq(@, LAMBDA u : u.id # id)]

Listed_WheneverMounted(b, r) == r.mount = b.mount

\* The end of runUpload: the answer counts only while the upload is still
\* listed; either way the place is free and the next ones start.
Listed(b, r) == r.mount = b.mount /\ ~r.aborted /\ Uploaded(r.mount, r.id) \in Pending(b)
Concluded(b, r, ok) ==
    CASE Listed(b, r) /\ ok -> WithoutPending(b, r.id)
      [] Listed(b, r) /\ ~ok -> [b EXCEPT !.pend = [i \in DOMAIN @ |->
                                    IF @[i].id = r.id THEN [@[i] EXCEPT !.st = "fail"] ELSE @[i]]]
      [] OTHER -> b
NextStarted(b) == Started(b, Idle(b))
UploadArrives(r, ok) ==
    /\ r \in wire
    /\ draft' = IF Listed(box, r) /\ ok
                THEN [draft EXCEPT ![box.key].atts = Append(@, Uploaded(r.mount, r.id))]
                ELSE draft
    /\ IF r.mount # box.mount THEN box' = box /\ wire' = wire \ {r}
       ELSE \E after \in {Concluded([box EXCEPT !.active = @ \ {r.id}], r, ok)} :
                /\ box' = NextStarted(after)
                /\ wire' = (wire \ {r}) \cup Requests(after, NextStarted(after))
    /\ IF ok \/ r.aborted THEN UNCHANGED turns ELSE May("errors") /\ Took("errors")
    /\ UNCHANGED <<looks, kept>>

Aborts(ids) ==
    {IF r.mount = box.mount /\ r.id \in ids THEN [r EXCEPT !.aborted = TRUE] ELSE r : r \in wire}

RemovePending(id) ==
    /\ May("removes") /\ ~box.disabled
    /\ Uploaded(box.mount, id) \in Pending(box)
    /\ box' = WithoutPending(box, id)
    /\ wire' = Aborts({id})
    /\ kept' = [kept EXCEPT ![box.key] = @ \ {Uploaded(box.mount, id)}]
    /\ Took("removes")
    /\ UNCHANGED <<draft, looks>>

RetryUpload(id) ==
    /\ May("retries") /\ ~box.disabled
    /\ \E i \in DOMAIN box.pend : box.pend[i] = [id |-> id, st |-> "fail"]
    /\ box' = Started(box, {id})
    /\ wire' = wire \cup Requests(box, box')
    /\ Took("retries")
    /\ UNCHANGED <<draft, looks, kept>>

RemoveAttachment(a) ==
    /\ May("removes")
    /\ a \in Range(draft[box.key].atts)
    /\ draft' = [draft EXCEPT ![box.key].atts = SelectSeq(@, LAMBDA x : x # a)]
    /\ kept' = [kept EXCEPT ![box.key] = @ \ {a}]
    /\ Took("removes")
    /\ UNCHANGED <<box, wire, looks>>

(***************************************************************************)
(* References to local files (desktop).                                     *)
(***************************************************************************)
Look(stage, paths, files) ==
    [mount |-> box.mount, stage |-> stage, paths |-> paths, files |-> files]

\* withReference admits one action at a time: the picker, a paste or a drop.
Reference(how, paths, files) ==
    /\ May("references") /\ box.desktop /\ ~box.disabled /\ ~box.busy
    /\ box' = [box EXCEPT !.busy = TRUE]
    /\ looks' = looks \cup {Look(how, paths, files)}
    /\ Took("references")
    /\ UNCHANGED <<draft, wire, kept>>

Released(l) == IF l.mount = box.mount THEN [box EXCEPT !.busy = FALSE] ELSE box

\* The dialog or the clipboard names paths; a clipboard without paths holds
\* files to upload.
PathsArrive(l, paths) ==
    /\ l.stage \in {"picker", "clipboard"}
    /\ IF l.mount # box.mount \/ paths = {}
       THEN /\ looks' = looks \ {l}
            /\ QueueAll(Released(l), IF l.mount = box.mount /\ l.stage = "clipboard" /\ l.files > 0
                                     THEN Queue(Released(l), l.files) ELSE Released(l))
       ELSE /\ looks' = (looks \ {l}) \cup {[l EXCEPT !.stage = "lookup", !.paths = paths]}
            /\ UNCHANGED <<box, wire, kept>>
    /\ UNCHANGED <<draft, turns>>

\* addPaths after its await: duplicates are dropped before the limit is
\* checked again.
Fresh(paths) == {p \in paths : Referenced(p) \notin Range(draft[box.key].atts)}
Within(new) == Len(draft[box.key].atts) + Cardinality(new) + Len(box.pend) <= MaxAttachments
LookupArrives(l, ok) ==
    /\ l.stage = "lookup"
    /\ looks' = looks \ {l}
    /\ box' = Released(l)
    /\ LET new == Fresh(l.paths)
       IN  IF ok /\ l.mount = box.mount /\ Within(new)
           THEN /\ draft' = [draft EXCEPT ![box.key].atts = @ \o
                                 SetToSeq({Referenced(p) : p \in new})]
                /\ kept' = [kept EXCEPT ![box.key] = @ \cup {Referenced(p) : p \in new}]
           ELSE UNCHANGED <<draft, kept>>
    /\ UNCHANGED <<wire, turns>>

(***************************************************************************)
(* Typing, the slash menu and sending.                                      *)
(***************************************************************************)
Text == draft[box.key].text
SetText(d, k, t) == [d EXCEPT ![k].text = t]

\* filterSlashCommands, without /btw where there is no session.
SlashCommands ==
    IF Text # "slash" \/ box.dismissed = Text THEN <<>>
    ELSE IF box.key = 0 THEN <<"/new", "/rewind">> ELSE <<"/new", "/btw", "/rewind">>

TypeText(t) ==
    /\ May("types") /\ ~box.disabled
    /\ draft' = SetText(draft, box.key, t)
    /\ box' = [box EXCEPT !.index = IF t = Text THEN @ ELSE 0]
    /\ Took("types")
    /\ UNCHANGED <<wire, looks, kept>>

\* An input method composes a word, ends it, and 80 ms later is forgotten.
Compose ==
    /\ May("imes")
    /\ \/ box.ime = "none" /\ ~box.disabled /\ box' = [box EXCEPT !.ime = "composing"] /\ UNCHANGED turns
       \/ box.ime = "composing" /\ box' = [box EXCEPT !.ime = "recent"] /\ UNCHANGED turns
       \/ box.ime = "recent" /\ box' = [box EXCEPT !.ime = "none"] /\ Took("imes")
    /\ UNCHANGED <<draft, wire, looks, kept>>

\* selectSlashCommand: /btw opens its window, the others go to the page,
\* where /rewind empties the text and /new keeps it until a session exists.
SelectSlashCommand(c) ==
    /\ box' = [box EXCEPT !.dismissed = "none",
                          !.index = 0,
                          !.btw = @ \/ c = "/btw"]
    /\ draft' = IF c = "/new" THEN draft ELSE SetText(draft, box.key, "none")

\* The draft becomes a submission; the composer asks for no less than the
\* page: nothing pending, no lookup, within the limit, not empty.
CanSend ==
    /\ ~box.disabled /\ box.pend = <<>> /\ ~box.busy
    /\ ~CapacityExceeded(box, 0)
    /\ Text # "none" \/ draft[box.key].atts # <<>>
Send ==
    /\ CanSend
    /\ draft' = [draft EXCEPT ![box.key] = [text |-> "none", atts |-> <<>>]]
    /\ kept' = [kept EXCEPT ![box.key] = {}]
    /\ box' = [box EXCEPT !.index = 0]

\* A command is clicked in the menu.
ClickCommand(i) ==
    /\ May("keys") /\ i \in DOMAIN SlashCommands
    /\ SelectSlashCommand(SlashCommands[i])
    /\ Took("keys")
    /\ UNCHANGED <<wire, looks, kept>>

\* handleSlashMenuKey: arrows wrap around, Enter and Tab take the command.
MenuKey(key, n) ==
    \/ /\ key = "down" /\ box' = [box EXCEPT !.index = (@ + 1) % n] /\ UNCHANGED draft
    \/ /\ key = "up" /\ box' = [box EXCEPT !.index = (@ + n - 1) % n] /\ UNCHANGED draft
    \/ /\ key = "enter" /\ SelectSlashCommand(SlashCommands[box.index + 1])
    \/ /\ key = "escape" /\ box' = [box EXCEPT !.dismissed = Text] /\ UNCHANGED draft

\* onKeyDown.
KeyDown(key) ==
    /\ May("keys") /\ ~box.disabled
    /\ box.ime # "composing" /\ (box.ime = "recent" => key # "enter")
    /\ IF SlashCommands # <<>> THEN MenuKey(key, Len(SlashCommands)) /\ UNCHANGED kept
       ELSE key = "enter" /\ Send
    /\ Took("keys")
    /\ UNCHANGED <<wire, looks>>

ClickSend ==
    /\ May("keys")
    /\ Send
    /\ Took("keys")
    /\ UNCHANGED <<wire, looks>>

\* The page disables the box while it creates a session.
Disable ==
    /\ May("disables")
    /\ box' = [box EXCEPT !.disabled = ~@]
    /\ Took("disables")
    /\ UNCHANGED <<draft, wire, looks, kept>>

CloseBtw ==
    /\ box.btw
    /\ box' = [box EXCEPT !.btw = FALSE]
    /\ UNCHANGED <<draft, wire, looks, kept, turns>>

\* Another draft is shown: the box is unmounted, its uploads are aborted and
\* forgotten, and a new box is mounted.
ShowDraft(k) ==
    /\ May("switches") /\ k # box.key
    /\ wire' = Aborts({box.pend[i].id : i \in DOMAIN box.pend})
    /\ kept' = [kept EXCEPT ![box.key] = @ \ Pending(box)]
    /\ box' = MountedBox(box.mount + 1, k, box.desktop)
    /\ Took("switches")
    /\ UNCHANGED <<draft, looks>>

(***************************************************************************)
(* The whole.                                                               *)
(***************************************************************************)
Answers ==
    \/ \E r \in wire, ok \in BOOLEAN : UploadArrives(r, ok)
    \/ \E l \in looks, paths \in SUBSET Paths : PathsArrive(l, paths)
    \/ \E l \in looks, ok \in BOOLEAN : LookupArrives(l, ok)

Hands ==
    \/ \E n \in 1..2 : Upload(n)
    \/ \E i \in DOMAIN box.pend : RemovePending(box.pend[i].id) \/ RetryUpload(box.pend[i].id)
    \/ \E a \in Range(draft[box.key].atts) : RemoveAttachment(a)
    \/ Reference("picker", {}, 0)
    \/ \E n \in 0..1 : Reference("clipboard", {}, n)
    \/ \E p \in Paths : Reference("lookup", {p}, 0)
    \/ \E t \in TextKinds : TypeText(t)
    \/ \E key \in {"up", "down", "enter", "escape"} : KeyDown(key)
    \/ \E i \in 1..3 : ClickCommand(i)
    \/ Compose \/ ClickSend \/ Disable \/ CloseBtw
    \/ \E k \in DraftKeys : ShowDraft(k)

ComposerNext == Answers \/ Hands

(***************************************************************************)
(* Properties.                                                              *)
(***************************************************************************)
\* Whatever uploads and lookups overlap, fail, are removed or outlive their
\* box: each draft holds exactly the files put there and not removed, once,
\* either attached or still listed as uploading (runUpload, addPaths).
FilesAccounted ==
    \A k \in DraftKeys :
        /\ kept[k] = Range(draft[k].atts) \cup (IF k = box.key THEN Pending(box) ELSE {})
        /\ IsInjective(draft[k].atts)
        /\ k = box.key => Range(draft[k].atts) \cap Pending(box) = {}

\* Uploads still under way and references that arrive late never bring a
\* message over the limit together (capacityExceeded, the recheck of addPaths).
WithinCapacity == Len(draft[box.key].atts) + Len(box.pend) <= MaxAttachments
=============================================================================
