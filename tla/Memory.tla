------------------------------- MODULE Memory -------------------------------
(***************************************************************************)
(* The memory page (webui/src/pages/Memory.tsx with components/            *)
(* VersionedMemoryEditor.tsx) and the versioned writes of                  *)
(* server/routes/memory.py.  A version (mtime_ns, sha256) is the number of *)
(* writes the file has seen, 0 while there is none; texts are compared up   *)
(* to the newline style, which _encode_like takes over from the file.  The  *)
(* agent writes the same files without the hub.                            *)
(***************************************************************************)
EXTENDS Naturals, FiniteSets

CONSTANTS
    Sops,           \* the SOP documents, as they sort
    Words,          \* what a document may say
    MemoryOpenings  \* the files and tab to start from, and how often things happen

VARIABLES
    disk,     \* the documents
    lock,     \* how far the write that holds _memory_write_lock is, "free" if none
    copies,   \* the backups: documents with the version kept
    memo,     \* the page
    posts,    \* requests of this page, and of another window, in flight
    exposed,  \* versions the agent wrote while a write was past its last check
    spare     \* how often each thing may still happen

memVars == <<disk, lock, copies, memo, posts, exposed, spare>>

Docs == Sops \cup {"global", "insight"}
NoDoc == "none"
NoEditor == [doc |-> NoDoc]
Snapshot(d) == disk[d]
Spare(what) == spare[what] > 0
Spend(what) == spare' = [spare EXCEPT ![what] = @ - 1]

(***************************************************************************)
(* The editor                                                               *)
(***************************************************************************)
\* What the tab shows: a document, or the selected SOP if there is one.
ShownDoc(p) == CASE p.tab = "sop" -> p.active
                 [] p.tab = "skill" -> NoDoc
                 [] OTHER -> p.tab

Opened(d, snap) ==
    [doc |-> d, baseline |-> snap, value |-> snap.text, changed |-> FALSE,
     saving |-> FALSE, reloading |-> FALSE, observed |-> snap.ver]

Dirty(ed) == ed.value # ed.baseline.text

\* The effect on a new snapshot: a clean editor follows, a dirty one is warned.
Observe(ed, snap) ==
    IF snap.ver = ed.observed THEN ed
    ELSE IF Dirty(ed) THEN [ed EXCEPT !.observed = snap.ver, !.changed = TRUE]
    ELSE [ed EXCEPT !.observed = snap.ver, !.baseline = snap, !.value = snap.text, !.changed = FALSE]

\* Rendering: the editor is mounted once its document has been read, keyed by
\* the document, and sees every snapshot after that.
Rendered(p) ==
    LET d == ShownDoc(p)
    IN  IF d = NoDoc THEN [p EXCEPT !.editor = NoEditor]
        ELSE IF p.cache[d] = {} THEN [p EXCEPT !.editor = NoEditor]
        ELSE [p EXCEPT !.editor = IF @.doc = d THEN Observe(@, CHOOSE s \in p.cache[d] : TRUE)
                                  ELSE Opened(d, CHOOSE s \in p.cache[d] : TRUE)]

\* A document is read when it is shown first, or shown anew after its answer has
\* gone stale; a read under way is joined.
Idle == [st |-> "idle"]
Asked == [st |-> "asked"]
Mounted(p, d, stale) ==
    IF d = NoDoc THEN p
    ELSE [p EXCEPT !.read[d] = IF @ = Idle /\ (p.cache[d] = {} \/ stale) THEN Asked ELSE @]

MemInit ==
    \E start \in MemoryOpenings :
        /\ disk = start.disk
        /\ lock = "free"
        /\ copies = {}
        /\ memo = Mounted([tab |-> start.tab, active |-> NoDoc, editor |-> NoEditor,
                           cache |-> [d \in Docs |-> {}], read |-> [d \in Docs |-> Idle]],
                          ShownDoc([tab |-> start.tab, active |-> NoDoc]), FALSE)
        /\ posts = {}
        /\ exposed = {}
        /\ spare = start.spare

PageDoes(p) == memo' = Rendered(p) /\ UNCHANGED <<disk, lock, copies, exposed>>

\* Leaving a document unmounts its editor: answers to it set nothing any more.
Unmount(ops, p) == {[op EXCEPT !.mounted = @ /\ p.editor.doc = op.doc] : op \in ops}

Goto(p) ==
    /\ \E stale \in BOOLEAN : memo' = Rendered(Mounted(p, ShownDoc(p), stale))
    /\ posts' = Unmount(posts, memo')
    /\ UNCHANGED <<disk, lock, copies, exposed>>

SetTab(t) == /\ Spare("moves") /\ Spend("moves") /\ memo.tab # t /\ Goto([memo EXCEPT !.tab = t])

\* filterSops: the list shows the documents that start with what was typed; any
\* listed one can be chosen.
SetActive(d) == /\ memo.tab = "sop" /\ memo.active # d
                /\ Spare("moves") /\ Spend("moves")
                /\ Goto([memo EXCEPT !.active = d])

Editing == memo.editor # NoEditor

SetValue ==
    /\ Editing /\ Spare("types") /\ Spend("types")
    /\ \E w \in Words : w # memo.editor.value /\ PageDoes([memo EXCEPT !.editor.value = w])
    /\ UNCHANGED posts

Request(kind, d) ==
    [kind |-> kind, doc |-> d, by |-> "page", text |-> memo.editor.value, base |-> memo.editor.baseline,
     st |-> "asked", got |-> memo.editor.baseline, mounted |-> TRUE]

Save ==
    /\ Editing /\ Dirty(memo.editor) /\ ~memo.editor.saving
    /\ Spare("saves") /\ Spend("saves")
    /\ PageDoes([memo EXCEPT !.editor.saving = TRUE])
    /\ posts' = posts \cup {Request("save", memo.editor.doc)}

\* 放弃草稿并重载 is offered next to the warning.
Reload ==
    /\ Editing /\ memo.editor.changed /\ ~memo.editor.reloading
    /\ Spare("reloads") /\ Spend("reloads")
    /\ PageDoes([memo EXCEPT !.editor.reloading = TRUE])
    /\ posts' = posts \cup {Request("reload", memo.editor.doc)}

\* Another window saves what it loaded last.
OtherSaves ==
    /\ Spare("others") /\ Spend("others")
    /\ \E d \in Docs, w \in Words :
          posts' = posts \cup {[kind |-> "save", doc |-> d, by |-> "other", text |-> w, base |-> disk[d],
                                st |-> "asked", got |-> disk[d], mounted |-> FALSE]}
    /\ UNCHANGED <<disk, lock, copies, memo, exposed>>

SameVersion_Assumed(d, ver) == TRUE

(***************************************************************************)
(* _write_memory, one file operation at a time, and the agent               *)
(***************************************************************************)
SameVersion(d, ver) == disk[d].ver = ver
Answer(op, st, snap) == posts' = (posts \ {op}) \cup {[op EXCEPT !.st = st, !.got = snap]}
Held == CHOOSE op \in posts : op.st = "held"
Quiet == UNCHANGED <<memo, spare>>

\* The first validation; saving what the file says already writes nothing.
Admit(op) ==
    /\ op.kind = "save" /\ op.st = "asked" /\ lock = "free"
    /\ Quiet /\ UNCHANGED <<disk, copies, exposed>>
    /\ IF ~SameVersion(op.doc, op.base.ver) THEN Answer(op, "conflict", op.base) /\ UNCHANGED lock
       ELSE IF disk[op.doc].ver > 0 /\ op.text = disk[op.doc].text
       THEN Answer(op, "ok", disk[op.doc]) /\ UNCHANGED lock
       ELSE lock' = "staged" /\ Answer(op, "held", op.base)

Abandon == lock' = "free" /\ Answer(Held, "conflict", Held.base) /\ UNCHANGED copies

\* Validated again before the backup, and again after it.
Backup ==
    /\ lock = "staged"
    /\ Quiet /\ UNCHANGED <<disk, exposed>>
    /\ IF ~SameVersion(Held.doc, Held.base.ver) THEN Abandon
       ELSE /\ lock' = "kept"
            /\ copies' = IF Held.base.ver = 0 THEN copies
                         ELSE copies \cup {[doc |-> Held.doc, ver |-> Held.base.ver]}
            /\ UNCHANGED posts

Revalidate ==
    /\ lock = "kept"
    /\ Quiet /\ UNCHANGED <<disk, exposed>>
    /\ IF ~SameVersion(Held.doc, Held.base.ver) THEN Abandon
       ELSE lock' = "valid" /\ UNCHANGED <<posts, copies>>

Replace ==
    /\ lock = "valid"
    /\ disk' = [disk EXCEPT ![Held.doc] = [text |-> Held.text, ver |-> @.ver + 1]]
    /\ lock' = "replaced"
    /\ Quiet /\ UNCHANGED <<copies, posts, exposed>>

\* The answer carries the version read back; it may be lost on its way.
ReadBack ==
    /\ lock = "replaced"
    /\ lock' = "free"
    /\ \/ Answer(Held, "ok", disk[Held.doc]) /\ UNCHANGED spare
       \/ Spare("lost") /\ Spend("lost") /\ Answer(Held, "failed", Held.base)
    /\ UNCHANGED <<disk, copies, memo, exposed>>

AgentWrites(d) ==
    /\ Spare("agent") /\ Spend("agent")
    /\ \E w \in Words : disk' = [disk EXCEPT ![d] = [text |-> w, ver |-> @.ver + 1]]
    /\ exposed' = IF lock \in {"valid", "replaced"} /\ Held.doc = d
                  THEN exposed \cup {[doc |-> d, ver |-> disk[d].ver + 1]} ELSE exposed
    /\ UNCHANGED <<lock, copies, memo, posts>>

(***************************************************************************)
(* Reads and answers                                                        *)
(***************************************************************************)
\* A document read by the page's query; a missing SOP answers 404.
ReadServed(d) ==
    /\ memo.read[d] = Asked
    /\ memo' = [memo EXCEPT !.read[d] = IF d \in Sops /\ disk[d].ver = 0 THEN Idle
                                       ELSE [st |-> "served", got |-> Snapshot(d)]]
    /\ UNCHANGED <<disk, lock, copies, posts, exposed, spare>>

ReadArrives(d) ==
    /\ memo.read[d].st = "served"
    /\ memo' = Rendered([memo EXCEPT !.cache[d] = {memo.read[d].got}, !.read[d] = Idle])
    /\ UNCHANGED <<disk, lock, copies, posts, exposed, spare>>

ReloadServed(op) ==
    /\ op.kind = "reload" /\ op.st = "asked"
    /\ Answer(op, IF op.doc \in Sops /\ disk[op.doc].ver = 0 THEN "failed" ELSE "ok", Snapshot(op.doc))
    /\ Quiet /\ UNCHANGED <<disk, lock, copies, exposed>>

\* The saved text becomes the baseline, whatever was typed meanwhile; only a
\* conflict warns.
Saved(ed, op) ==
    CASE op.st = "ok" -> [ed EXCEPT !.saving = FALSE, !.changed = FALSE,
                                    !.baseline = [text |-> op.text, ver |-> op.got.ver]]
      [] op.st = "conflict" -> [ed EXCEPT !.saving = FALSE, !.changed = TRUE]
      [] OTHER -> [ed EXCEPT !.saving = FALSE]

\* onSaved reads the document again, also when its editor has gone.
SaveArrives(op) ==
    /\ op.kind = "save" /\ op.by = "page" /\ op.st \notin {"asked", "held"}
    /\ \E p \in {IF op.mounted THEN [memo EXCEPT !.editor = Saved(@, op)] ELSE memo} :
          PageDoes([p EXCEPT !.read[op.doc] = IF op.st = "ok" THEN Asked ELSE @])
    /\ posts' = posts \ {op}
    /\ UNCHANGED spare

OtherArrives(op) ==
    /\ op.by = "other" /\ op.st \notin {"asked", "held"}
    /\ posts' = posts \ {op}
    /\ UNCHANGED <<disk, lock, copies, memo, exposed, spare>>

\* onReload puts what it read into the query's cache before the editor takes it.
Reloaded(ed, op) ==
    IF op.st = "ok"
    THEN [ed EXCEPT !.reloading = FALSE, !.changed = FALSE, !.baseline = op.got, !.value = op.got.text]
    ELSE [ed EXCEPT !.reloading = FALSE]

ReloadArrives(op) ==
    /\ op.kind = "reload" /\ op.st # "asked"
    /\ \E p \in {IF op.st = "ok" THEN [memo EXCEPT !.cache[op.doc] = {op.got}] ELSE memo} :
          PageDoes(IF op.mounted THEN [p EXCEPT !.editor = Reloaded(@, op)] ELSE p)
    /\ posts' = posts \ {op}
    /\ UNCHANGED spare

Tabs == {"sop", "skill", "insight", "global"}
MemNext ==
    \/ \E t \in Tabs : SetTab(t)
    \/ \E d \in Sops : SetActive(d)
    \/ SetValue \/ Save \/ Reload \/ OtherSaves
    \/ Backup \/ Revalidate \/ Replace \/ ReadBack
    \/ \E d \in Docs : AgentWrites(d) \/ ReadServed(d) \/ ReadArrives(d)
    \/ \E op \in posts : Admit(op) \/ ReloadServed(op) \/ SaveArrives(op) \/ OtherArrives(op) \/ ReloadArrives(op)

(***************************************************************************)
(* Properties                                                               *)
(***************************************************************************)
\* No save overwrites a text its author was not shown: what Replace puts away is
\* the text the draft was started from, and a copy of it is kept.  The agent
\* alone can lose a text, by writing it after the last check of a save and
\* before that save's version is read back.
OverwritesWhatWasSeen ==
    (lock = "valid" /\ lock' = "replaced") =>
        LET d == Held.doc
        IN  \/ [doc |-> d, ver |-> disk[d].ver] \in exposed
            \/ /\ disk[d].text = Held.base.text
               /\ disk[d].ver = 0 \/ [doc |-> d, ver |-> disk[d].ver] \in copies
=============================================================================
