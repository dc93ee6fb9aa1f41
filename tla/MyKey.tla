------------------------------- MODULE MyKey -------------------------------
(***************************************************************************)
(* The model-configuration page (webui/src/pages/MyKey.tsx and             *)
(* components/MyKeyRawView.tsx) on top of the file transactions of         *)
(* server/services/mykey_service.py.  A text of mykey.py is abstracted to  *)
(* the channels and routes it defines in file order, its proxy, the rest   *)
(* of it and whether it is valid Python.  A route names channels; members  *)
(* given by index and routes inside routes are left out.  Other programs   *)
(* edit the file too.                                                      *)
(***************************************************************************)
EXTENDS Naturals, Sequences, FiniteSets, SequencesExt

CONSTANTS
    Kinds,       \* channel types; 0 is the failover route (mixin)
    Fields,      \* what a channel's fields may say; a route lists several
    TypedNames,  \* variable names a user types
    Proxies,     \* proxy settings
    BackupCap,   \* backups the hub keeps
    KeyOpenings  \* the text and tab to start from, and how often things happen

VARIABLES
    keyfile,  \* mykey.py, its backups (newest first) and the commits so far
    keypage,  \* the page's state
    keyops,   \* writes in flight
    unseen,   \* the file changed in a way the page was not told of
    chances   \* how often each thing may still happen

keyVars == <<keyfile, keypage, keyops, unseen, chances>>

Chance(what) == chances[what] > 0
Taken(what) == chances' = [chances EXCEPT ![what] = @ - 1]

Entries(text) == IF text.ok THEN text.entries ELSE <<>>
ProxyOf(text) == IF text.ok THEN text.proxy ELSE 0
NoEditor == [mode |-> "none"]
NoAsk == [what |-> "none"]
Vars(e) == {e[i].var : i \in DOMAIN e}
At(e, v) == CHOOSE i \in DOMAIN e : e[i].var = v
IsRoute(entry) == entry.var[1] = 0

\* Mounting a tab fills its drafts from the data.
Mount(p, t) ==
    [p EXCEPT !.tab = t, !.proxy = ProxyOf(p.data), !.baseline = ProxyOf(p.data),
              !.proxySaving = FALSE, !.text = p.data, !.rawSaving = FALSE,
              !.editor = NoEditor, !.drawer = FALSE, !.restoring = FALSE, !.testing = {}]

KeyInit ==
    \E start \in KeyOpenings :
        /\ keyfile = [text |-> start.text, backups |-> <<>>, commits |-> 0]
        /\ keypage = Mount([data |-> start.text, read |-> "idle", got |-> start.text,
                            proxy |-> 0, baseline |-> 0, proxySaving |-> FALSE, rawSaving |-> FALSE,
                            text |-> start.text, editor |-> NoEditor, drawer |-> FALSE, list |-> {},
                            restoring |-> FALSE, testing |-> {}, sync |-> "none", ask |-> NoAsk, tab |-> start.tab],
                           start.tab)
        /\ keyops = {}
        /\ unseen = FALSE
        /\ chances = start.chances

(***************************************************************************)
(* The hub.  A write holds the registry lock from reading the file to        *)
(* replacing it.                                                             *)
(***************************************************************************)
Refused == {}

\* The entries after an edit: a channel is appended, replaced in place, copied
\* right after its source, or removed.  None when a name is missing or taken.
Placed(op, e) ==
    LET new == [var |-> IF op.kind \in {"rename", "duplicate"} THEN op.to ELSE op.var, val |-> op.val]
        source == op.var \in Vars(e)
        taken == new.var \in Vars(e)
    IN  CASE op.kind = "create" /\ ~taken -> {Append(e, new)}
          [] op.kind = "update" /\ source -> {ReplaceAt(e, At(e, op.var), new)}
          [] op.kind = "rename" /\ source /\ ~taken -> {ReplaceAt(e, At(e, op.var), new)}
          [] op.kind = "duplicate" /\ source /\ ~taken -> {InsertAt(e, At(e, op.var) + 1, new)}
          [] op.kind = "delete" /\ source -> {RemoveAt(e, At(e, op.var))}
          [] OTHER -> Refused

\* The channel a name stands for: the first one in the file.
Named(e, name) ==
    LET at == {i \in DOMAIN e : ~IsRoute(e[i]) /\ e[i].val = <<name>>}
    IN  IF at = {} THEN 0 ELSE CHOOSE i \in at : \A j \in at : i <= j

\* What a member of a route becomes, <<>> when its channel is gone.
Renamed(op, v) == IF op.kind = "rename" /\ op.var = v THEN op.to ELSE v
Member(op, old, new, name) ==
    LET was == Named(old, name)
        now == Renamed(op, old[was].var)
    IN  IF was = 0 THEN <<name>>
        ELSE IF now \notin Vars(new) THEN <<>>
        ELSE new[At(new, now)].val

\* _remap_mixin_references: the routes there were keep their channels; an edit
\* that would hand a name to another channel is a conflict.
Remapped(op, old, new) ==
    LET Origin(v) == IF op.kind \in {"rename", "duplicate"} /\ v = op.to THEN op.var ELSE v
        routes == {i \in DOMAIN new : IsRoute(new[i]) /\ Origin(new[i].var) \in Vars(old)}
        Clash(name) == /\ Named(old, name) # 0 /\ Member(op, old, new, name) # <<>>
                       /\ new[Named(new, Member(op, old, new, name)[1])].var
                              # Renamed(op, old[Named(old, name)].var)
    IN  IF \E i \in routes : \E k \in DOMAIN new[i].val : Clash(new[i].val[k]) THEN Refused
        ELSE {[i \in DOMAIN new |->
                  IF i \notin routes THEN new[i]
                  ELSE [new[i] EXCEPT !.val =
                            FlattenSeq([k \in DOMAIN new[i].val |-> Member(op, old, new, new[i].val[k])])]]}

\* mutate_session_assignment and delete_base_assignment: the target's name must
\* fit the channel's type.
Mutated(op, t) ==
    IF ~t.ok \/ (op.kind # "delete" /\ (IF op.to = <<>> THEN op.var ELSE op.to)[1] # op.type) THEN Refused
    ELSE UNION {Remapped(op, t.entries, e) : e \in Placed(op, t.entries)}

NewTexts_Unchecked(op, f) ==
    CASE op.kind = "proxy" -> {[f.text EXCEPT !.proxy = op.val[1]]}
      [] op.kind \in {"raw", "fetch"} -> {op.text}
      [] op.kind = "restore" ->
            {f.backups[i].text : i \in {j \in DOMAIN f.backups : <<f.backups[j].id>> = op.var}}
      [] OTHER -> {[f.text EXCEPT !.entries = e] : e \in Mutated(op, f.text)}

\* The text a write would put in place: one, or none if it is refused.
NewTexts(op, f) ==
    CASE op.kind = "proxy" ->
            IF op.text # f.text \/ ~f.text.ok THEN Refused ELSE {[f.text EXCEPT !.proxy = op.val[1]]}
      [] op.kind = "raw" -> {op.text}
      [] op.kind = "restore" ->
            {f.backups[i].text : i \in {j \in DOMAIN f.backups : <<f.backups[j].id>> = op.var}}
      [] op.kind = "fetch" -> {op.text}
      [] OTHER -> {[f.text EXCEPT !.entries = e] : e \in Mutated(op, f.text)}

\* _commit_text: validated, the old text kept as the newest backup, replaced.
Committed(f, text) ==
    LET kept == <<[id |-> f.commits + 1, text |-> f.text]>> \o f.backups
    IN  [text |-> text, commits |-> f.commits + 1,
         backups |-> SubSeq(kept, 1, IF Len(kept) > BackupCap THEN BackupCap ELSE Len(kept))]

Answer(op, st) == keyops' = (keyops \ {op}) \cup {[op EXCEPT !.st = st]}

\* An invalid text never replaces the file; a failing backup aborts the write.
Serve(op) ==
    /\ op.st = "asked"
    /\ UNCHANGED keypage
    /\ \/ /\ op.kind \in {"upload", "test"}
          /\ Answer(op, "ok")
          /\ UNCHANGED <<keyfile, unseen, chances>>
       \/ /\ Chance("fails")
          /\ Taken("fails")
          /\ Answer(op, "fail")
          /\ UNCHANGED <<keyfile, unseen>>
       \/ /\ op.kind \notin {"upload", "test"}
          /\ \A text \in NewTexts(op, keyfile) : ~text.ok
          /\ Answer(op, "fail")
          /\ UNCHANGED <<keyfile, unseen, chances>>
       \/ /\ op.kind \notin {"upload", "test"}
          /\ \E text \in NewTexts(op, keyfile) :
                /\ text.ok
                /\ keyfile' = Committed(keyfile, text)
          /\ \/ Answer(op, "ok") /\ UNCHANGED <<unseen, chances>>
             \/ Chance("lost") /\ Taken("lost") /\ Answer(op, "fail") /\ unseen' = TRUE

\* Another window or an editor changes the file.
EditElsewhere ==
    /\ Chance("edits")
    /\ Taken("edits")
    /\ \E text \in {[keyfile.text EXCEPT !.proxy = p] : p \in Proxies}
                   \cup {[keyfile.text EXCEPT !.rest = 1 - @], [keyfile.text EXCEPT !.ok = ~@]} :
          /\ text # keyfile.text
          /\ keyfile' = [keyfile EXCEPT !.text = text]
    /\ unseen' = TRUE
    /\ UNCHANGED <<keypage, keyops>>

(***************************************************************************)
(* Reading the file back.  Invalidating a query drops the read in flight     *)
(* and starts another one.                                                   *)
(***************************************************************************)
Invalidate(p) == [p EXCEPT !.read = "asked"]

\* onWriteResult; the drawer's list is read again while it is open.
OnWriteResult(p) ==
    [Invalidate(p) EXCEPT !.list = IF p.drawer
        THEN {keyfile.backups[i].id : i \in DOMAIN keyfile.backups} ELSE @]

\* The effect of the proxy editor: a clean draft follows the file, a dirty one
\* keeps its baseline until it equals what the file says.
Follows(p) ==
    LET incoming == ProxyOf(p.data)
    IN  IF incoming = p.proxy THEN [p EXCEPT !.baseline = incoming]
        ELSE IF p.proxy = p.baseline THEN [p EXCEPT !.proxy = incoming, !.baseline = incoming]
        ELSE p

\* New data reaches both views; the raw draft is replaced when the text changed.
ShowData(p, text) ==
    Follows([p EXCEPT !.data = text, !.read = "idle", !.text = IF text # p.data THEN text ELSE @,
                      !.testing = @ \cap Vars(Entries(text))])

\* A dialog that is closed, or a card whose entry has gone, is unmounted.
Orphaned(ops, p) ==
    {[op EXCEPT !.panel = CASE op.kind = "restore" -> @ /\ p.drawer
                            [] op.kind \in {"create", "update", "rename", "duplicate"} ->
                                    @ /\ p.editor # NoEditor
                            [] op.kind = "test" -> @ /\ op.var \in Vars(Entries(p.data))
                            [] OTHER -> @] : op \in ops}

Refresh ==
    /\ Chance("reads") /\ keypage.ask = NoAsk /\ keypage.editor = NoEditor /\ ~keypage.drawer
    /\ Taken("reads")
    /\ keypage' = Invalidate(keypage)
    /\ UNCHANGED <<keyfile, keyops, unseen>>

ReadServed ==
    /\ keypage.read = "asked"
    /\ keypage' = [keypage EXCEPT !.read = "read", !.got = keyfile.text]
    /\ unseen' = FALSE
    /\ UNCHANGED <<keyfile, keyops, chances>>

ReadArrives ==
    /\ keypage.read = "read"
    /\ keypage' = ShowData(keypage, keypage.got)
    /\ keyops' = Orphaned(keyops, keypage')
    /\ UNCHANGED <<keyfile, unseen, chances>>

(***************************************************************************)
(* What the user does.  A dialog or a drawer covers the rest of the page.    *)
(***************************************************************************)
Uncovered == keypage.ask = NoAsk /\ keypage.editor = NoEditor /\ ~keypage.drawer
On(t) == keypage.tab = t /\ Uncovered

Changed(p) == keypage' = p /\ UNCHANGED <<keyfile, keyops, unseen>>

\* A write: panel and view tell whether the component that sent it is mounted.
Write(kind) ==
    [kind |-> kind, var |-> <<>>, to |-> <<>>, type |-> 0, val |-> <<>>, text |-> keypage.data,
     base |-> 0, st |-> "asked", panel |-> TRUE, view |-> TRUE]
Send(p, op) == keypage' = p /\ keyops' = keyops \cup {op} /\ UNCHANGED <<keyfile, unseen>>

SwitchTab ==
    /\ Uncovered /\ Chance("tabs") /\ Taken("tabs")
    /\ keypage' = Mount(keypage, IF keypage.tab = "raw" THEN "structured" ELSE "raw")
    /\ keyops' = {[op EXCEPT !.panel = FALSE, !.view = FALSE] : op \in keyops}
    /\ UNCHANGED <<keyfile, unseen>>

AllEntries == Entries(keypage.data)

\* The first free name of base, base_2, base_3, ...
FirstFree(base) ==
    LET taken == Vars(AllEntries)
        free == {n \in 2..(Cardinality(taken) + 2) : Append(base, n) \notin taken}
    IN  IF base \notin taken THEN base
        ELSE Append(base, CHOOSE n \in free : \A m \in free : n <= m)

Editor(mode, source, var, val) ==
    [mode |-> mode, source |-> source, var |-> var, type |-> var[1], val |-> val, saving |-> FALSE]

\* defaultFields
DefaultVal(kind) == IF kind = 0 THEN <<>> ELSE <<CHOOSE x \in Fields : \A y \in Fields : x <= y>>

ValOf(v) == AllEntries[At(AllEntries, v)].val

StartCreate(kind) ==
    /\ On("structured") /\ Chance("opens") /\ Taken("opens")
    /\ Changed([keypage EXCEPT !.editor = Editor("create", <<>>, FirstFree(<<kind>>), DefaultVal(kind))])
StartEdit(v) ==
    /\ On("structured") /\ Chance("opens") /\ Taken("opens")
    /\ Changed([keypage EXCEPT !.editor = Editor("edit", v, v, ValOf(v))])
StartDuplicate(v) ==
    /\ On("structured") /\ Chance("opens") /\ Taken("opens")
    /\ Changed([keypage EXCEPT !.editor = Editor("duplicate", v, FirstFree(Append(v, 0)), ValOf(v))])

\* The route's list: an entry is retyped, moved, removed or added from the
\* named channels, never twice by that button.
MixinFields(nos) ==
    {[nos EXCEPT ![i] = x] : i \in DOMAIN nos, x \in Fields}
    \cup {[nos EXCEPT ![i] = nos[i + 1], ![i + 1] = nos[i]] : i \in 1..(Len(nos) - 1)}
    \cup {RemoveAt(nos, i) : i \in DOMAIN nos}
    \cup {Append(nos, ValOf(v)[1]) : v \in {u \in Vars(AllEntries) :
                                               u[1] # 0 /\ ValOf(u)[1] \notin ToSet(nos)}}

EditSession ==
    /\ keypage.editor # NoEditor /\ keypage.ask = NoAsk
    /\ Chance("types") /\ Taken("types")
    /\ \/ \E name \in TypedNames : Changed([keypage EXCEPT !.editor.var = name])
       \/ \E val \in IF keypage.editor.type = 0 THEN MixinFields(keypage.editor.val)
                     ELSE {<<x>> : x \in Fields} :
             Changed([keypage EXCEPT !.editor.val = val])

\* Closing works while a save is in flight.
CloseEditor ==
    /\ keypage.editor # NoEditor /\ keypage.ask = NoAsk
    /\ keypage' = [keypage EXCEPT !.editor = NoEditor]
    /\ keyops' = {IF op.kind \in {"create", "update", "rename", "duplicate"}
                  THEN [op EXCEPT !.panel = FALSE] ELSE op : op \in keyops}
    /\ UNCHANGED <<keyfile, unseen, chances>>

SaveSession ==
    LET ed == keypage.editor
    IN  /\ ed # NoEditor /\ keypage.ask = NoAsk /\ ~ed.saving /\ Chance("saves") /\ Taken("saves")
        /\ LET kind == CASE ed.mode = "duplicate" -> "duplicate"
                         [] ed.mode = "edit" /\ ed.source # ed.var -> "rename"
                         [] ed.mode = "create" -> "create"
                         [] OTHER -> "update"
               moves == kind \in {"duplicate", "rename"}
           IN  Send([keypage EXCEPT !.editor.saving = TRUE],
                    [Write(kind) EXCEPT !.var = IF moves THEN ed.source ELSE ed.var, !.type = ed.type,
                                        !.to = IF moves THEN ed.var ELSE <<>>, !.val = ed.val])

\* What deletes, replaces the file or leaves the machine asks first.
AskRemove(v) ==
    /\ On("structured") /\ Chance("deletes")
    /\ Changed([keypage EXCEPT !.ask = [what |-> "delete", var |-> v]])
    /\ UNCHANGED chances
AskSync(what) ==
    /\ Uncovered /\ keypage.sync = "none" /\ Chance("syncs")
    /\ Changed([keypage EXCEPT !.ask = [what |-> what]])
    /\ UNCHANGED chances
AskRestore(id) ==
    /\ keypage.drawer /\ keypage.ask = NoAsk /\ ~keypage.restoring /\ Chance("restores")
    /\ Changed([keypage EXCEPT !.ask = [what |-> "restore", var |-> <<id>>]])
    /\ UNCHANGED chances

Decline == keypage.ask # NoAsk /\ Changed([keypage EXCEPT !.ask = NoAsk]) /\ UNCHANGED chances
Agreed == [keypage EXCEPT !.ask = NoAsk]
RemoveAgreed ==
    /\ keypage.ask.what = "delete" /\ Taken("deletes")
    /\ Send(Agreed, [Write("delete") EXCEPT !.var = keypage.ask.var])
HandleUploadSync ==
    /\ keypage.ask.what = "upload" /\ Taken("syncs")
    /\ Send([Agreed EXCEPT !.sync = "upload"], Write("upload"))
HandleFetchSync ==
    /\ keypage.ask.what = "fetch" /\ Taken("syncs")
    /\ \E p \in Proxies, ok \in BOOLEAN : \* whatever the cloud holds
          Send([Agreed EXCEPT !.sync = "fetch"],
               [Write("fetch") EXCEPT !.text = [@ EXCEPT !.proxy = p, !.ok = ok]])
Restore ==
    /\ keypage.ask.what = "restore" /\ Taken("restores")
    /\ Send([Agreed EXCEPT !.restoring = TRUE], [Write("restore") EXCEPT !.var = keypage.ask.var])

TypeProxy ==
    /\ On("structured") /\ Chance("types") /\ Taken("types")
    /\ \E p \in Proxies : Changed(Follows([keypage EXCEPT !.proxy = p]))

Conflict == keypage.proxy # keypage.baseline /\ ProxyOf(keypage.data) # keypage.baseline

UseLatest ==
    /\ On("structured") /\ Conflict
    /\ Changed([keypage EXCEPT !.proxy = ProxyOf(keypage.data), !.baseline = ProxyOf(keypage.data)])
    /\ UNCHANGED chances

\* The save names the text the page shows; the hub refuses any other.
CanSaveProxy == keypage.proxy # keypage.baseline /\ ~keypage.proxySaving /\ ~Conflict
SaveProxy ==
    /\ On("structured") /\ CanSaveProxy /\ Chance("saves") /\ Taken("saves")
    /\ Send([keypage EXCEPT !.proxySaving = TRUE],
            [Write("proxy") EXCEPT !.val = <<keypage.proxy>>, !.base = keypage.baseline])

\* runTest; a route's card has no such button.
RunTest(v) ==
    /\ On("structured") /\ Chance("tests") /\ Taken("tests") /\ v[1] # 0 /\ v \notin keypage.testing
    /\ Send([keypage EXCEPT !.testing = @ \cup {v}], [Write("test") EXCEPT !.var = v])

TypeRaw ==
    /\ On("raw") /\ Chance("types") /\ Taken("types")
    /\ \E text \in {[keypage.text EXCEPT !.proxy = p] : p \in Proxies}
                   \cup {[keypage.text EXCEPT !.ok = ~@], keypage.data} : \* 还原 is the last one
          Changed([keypage EXCEPT !.text = text])

SaveRaw ==
    /\ On("raw") /\ keypage.text # keypage.data /\ ~keypage.rawSaving
    /\ Chance("saves") /\ Taken("saves")
    /\ Send([keypage EXCEPT !.rawSaving = TRUE], [Write("raw") EXCEPT !.text = keypage.text])

\* The drawer shows the cached list, or reads it.
OpenDrawer ==
    /\ On("raw") /\ Chance("opens") /\ Taken("opens")
    /\ \E list \in {keypage.list, {keyfile.backups[i].id : i \in DOMAIN keyfile.backups}} :
          Changed([keypage EXCEPT !.drawer = TRUE, !.list = list])

CloseDrawer ==
    /\ keypage.drawer /\ keypage.ask = NoAsk
    /\ keypage' = [keypage EXCEPT !.drawer = FALSE, !.restoring = FALSE]
    /\ keyops' = {IF op.kind = "restore" THEN [op EXCEPT !.panel = FALSE] ELSE op : op \in keyops}
    /\ UNCHANGED <<keyfile, unseen, chances>>

(***************************************************************************)
(* Answers.  The page itself stays mounted and reads the file again; flags   *)
(* of a view or a dialog are set only while that one is still mounted, but   *)
(* closing on success closes whichever dialog the view shows then.           *)
(***************************************************************************)
Unmarked(p, op) ==
    CASE op.kind = "proxy" -> [p EXCEPT !.proxySaving = @ /\ ~op.view]
      [] op.kind = "raw" -> [p EXCEPT !.rawSaving = @ /\ ~op.view]
      [] op.kind = "restore" -> [p EXCEPT !.restoring = @ /\ ~op.panel]
      [] op.kind \in {"upload", "fetch"} -> [p EXCEPT !.sync = "none"]
      [] op.kind = "test" -> [p EXCEPT !.testing = IF op.view /\ op.panel THEN @ \ {op.var} ELSE @]
      [] op.kind = "delete" -> p
      [] OTHER -> IF op.panel THEN [p EXCEPT !.editor.saving = FALSE] ELSE p

Succeeded(p, op) ==
    CASE op.kind = "proxy" -> OnWriteResult(IF op.view THEN Follows([p EXCEPT !.proxy = op.val[1]]) ELSE p)
      [] op.kind \in {"raw", "delete"} -> OnWriteResult(p)
      [] op.kind = "restore" ->
            [OnWriteResult(p) EXCEPT !.drawer = @ /\ ~op.view, !.restoring = @ /\ ~op.view]
      [] op.kind = "fetch" -> Invalidate(p)
      [] op.kind \in {"upload", "test"} -> p
      [] OTHER -> [OnWriteResult(p) EXCEPT !.editor = IF op.view THEN NoEditor ELSE @]

WriteArrives(op) ==
    /\ op.st \in {"ok", "fail"}
    /\ \E p \in {IF op.st = "ok" THEN Succeeded(Unmarked(keypage, op), op) ELSE Unmarked(keypage, op)} :
          /\ keypage' = p
          /\ keyops' = Orphaned(keyops \ {op}, p)
    /\ UNCHANGED <<keyfile, unseen, chances>>

CreateButtons == \E kind \in Kinds : StartCreate(kind)
CardButtons == \E v \in Vars(AllEntries) : StartEdit(v) \/ StartDuplicate(v) \/ AskRemove(v) \/ RunTest(v)
DrawerRows == \E id \in keypage.list : AskRestore(id)

KeyPerson ==
    \/ Refresh \/ SwitchTab \/ EditSession \/ CloseEditor \/ SaveSession
    \/ CreateButtons \/ CardButtons
    \/ \E what \in {"upload", "fetch"} : AskSync(what)
    \/ DrawerRows
    \/ Decline \/ RemoveAgreed \/ HandleUploadSync \/ HandleFetchSync \/ Restore
    \/ TypeProxy \/ UseLatest \/ SaveProxy \/ TypeRaw \/ SaveRaw \/ OpenDrawer \/ CloseDrawer

KeyAnswers ==
    ReadServed \/ ReadArrives \/ (\E op \in keyops : Serve(op) \/ WriteArrives(op))

KeyNext == KeyPerson \/ KeyAnswers \/ EditElsewhere

(***************************************************************************)
(* Properties                                                               *)
(***************************************************************************)
\* A proxy save replaces only the value the user started from: neither the page
\* (its conflict check) nor the hub (its comparison with expected_raw) lets a
\* draft overwrite a proxy changed meanwhile, whatever reads arrive in between.
ProxyAsSeen ==
    \A op \in keyops :
        (op.kind = "proxy" /\ op.st = "asked" /\ op \notin keyops' /\ keyfile'.commits # keyfile.commits)
        => op.base = ProxyOf(keyfile.text)

\* An edit of one channel redirects no route: a member that named a channel
\* names the same channel afterwards, under its new name if it got one, and
\* leaves the route only with its channel (_remap_mixin_references).
Bound(e, v) == LET nos == e[At(e, v)].val
               IN  [k \in DOMAIN nos |-> IF Named(e, nos[k]) = 0 THEN <<>> ELSE e[Named(e, nos[k])].var]
RoutesKeep ==
    \A op \in keyops :
        LET old == keyfile.text.entries
            new == keyfile'.text.entries
        IN  (op.kind \in {"create", "update", "rename", "duplicate", "delete"} /\ op.st = "asked"
             /\ op \notin keyops' /\ keyfile'.commits # keyfile.commits) =>
            \A v \in Vars(old) \cap Vars(new) :
                (v[1] = 0 /\ v # op.var /\ <<>> \notin ToSet(Bound(old, v))) =>
                    Bound(new, v) = FlattenSeq([k \in DOMAIN Bound(old, v) |->
                        LET w == Renamed(op, Bound(old, v)[k])
                        IN  IF w \in Vars(new) THEN <<w>> ELSE <<>>])

\* After the writes and reads have come home, the page shows the file, unless it
\* was changed behind the page's back: no read that was served before a write
\* shows its text after it.
ShowsSaved ==
    (keyops = {} /\ keypage.read = "idle" /\ ~unseen) => keypage.data = keyfile.text
=============================================================================
