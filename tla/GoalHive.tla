------------------------------ MODULE GoalHive ------------------------------
(***************************************************************************)
(* The Goal / Hive page (webui/src/pages/GoalHive.tsx, stores/             *)
(* goalhiveStore.ts, hooks/useSharedModelSelection.ts), its socket         *)
(* (runtime/goalHiveSocket.ts) and the service behind it                   *)
(* (server/services/goalhive_service.py, server/routes/goalhive.py).  A     *)
(* goal is a number, 0 if blank; an answer is the number of pieces written  *)
(* so far, since the agent's queue carries the whole text each time.        *)
(***************************************************************************)
EXTENDS Naturals, Sequences, FiniteSets, SequencesExt

CONSTANTS
    Goals,         \* what a user asks for
    Pieces,        \* pieces the agent may write for one goal
    MaxFrames,     \* frames on their way to the page at once
    GoalOpenings   \* models, preferences, and how often things happen

VARIABLES
    hive,   \* the service: messages, the active stream, its agent and drains
    pipe,   \* the connection
    goal,   \* the page
    quota   \* how often each thing may still happen

goalVars == <<hive, pipe, goal, quota>>

Quota(what) == quota[what] > 0
Use(what) == quota' = [quota EXCEPT ![what] = @ - 1]
None == 0
Blank == 0
Modes == {"goal", "hive"}

(***************************************************************************)
(* Models.  A preference is a model's key; a list is a sequence of keys.     *)
(***************************************************************************)
\* resolveMainLlmKey and resolveSubagentLlmKey
MainKey(llms, key) == IF key \in ToSet(llms) THEN key ELSE IF llms = <<>> THEN None ELSE llms[1]
SubKey(llms, key) == IF key \in ToSet(llms) THEN key ELSE None

\* llmIndexForKey: where the key stands in the list, none if it does not.
LlmIndex(llms, key) == IF key \in ToSet(llms) THEN {CHOOSE i \in DOMAIN llms : llms[i] = key} ELSE {}

\* The effect that repairs both stored preferences once a list is there.
Repaired(g) ==
    IF g.llms = <<>> THEN g
    ELSE [g EXCEPT !.main = MainKey(g.llms, @), !.sub = SubKey(g.llms, @)]

\* Without a choice of its own a worker follows the main model.
SubIndex(g) == LET sub == SubKey(g.llms, g.sub)
               IN  LlmIndex(g.llms, IF sub = None THEN MainKey(g.llms, g.main) ELSE sub)

(***************************************************************************)
(* The service                                                              *)
(***************************************************************************)
NoHive == [alive |-> FALSE, msgs |-> <<>>, active |-> None, count |-> 0, tasks |-> <<>>, running |-> None,
           halt |-> FALSE, wrote |-> 0, out |-> <<>>, drains |-> {}]

Message(sid, role, text, streaming) == [sid |-> sid, role |-> role, text |-> text, streaming |-> streaming]

Busy(h) == h.active # None \/ h.running # None

\* ensure_agent: a runner that never started, or died, is started.
Ensured(h) == [h EXCEPT !.alive = TRUE]

\* submit: refused while a stream is active or the agent runs; otherwise both
\* messages, the task and its drain.  put_task may fail, which takes the messages
\* back, and so may the start of the drain, when the task is already the agent's.
Stream(h, text) ==
    LET sid == h.count + 1
    IN  [Ensured(h) EXCEPT !.count = sid, !.active = sid, !.out = Append(@, <<>>),
                  !.msgs = @ \o <<Message(sid, "user", text, FALSE), Message(sid, "assistant", 0, TRUE)>>]
Queued(h) == [h EXCEPT !.tasks = Append(@, h.count)]
Submitted(h, text) == LET q == Queued(Stream(h, text)) IN [q EXCEPT !.drains = @ \cup {q.count}]
Withdrawn(h, text) ==
    [Stream(h, text) EXCEPT !.active = None, !.msgs = SelectSeq(@, LAMBDA m : m.sid # h.count + 1)]

\* _finish_active_messages
Finished(h) ==
    [h EXCEPT !.active = None,
              !.msgs = [i \in DOMAIN h.msgs |-> [h.msgs[i] EXCEPT !.streaming = FALSE]]]

Undrained(h, text) == Finished(Queued(Stream(h, text)))

\* The agent's abort reaches a running task only.
Aborted(h) == Finished([h EXCEPT !.halt = h.running # None])

\* reset is refused while a stream is active.
Cleared(h) == [h EXCEPT !.msgs = <<>>]

\* The agent's thread (GenericAgent.run): it takes a task, writes, and reports
\* the end; an abort ends the task early.
RunnerTakes ==
    /\ hive.alive /\ hive.running = None /\ hive.tasks # <<>>
    /\ hive' = [hive EXCEPT !.running = Head(hive.tasks), !.tasks = Tail(@), !.halt = FALSE, !.wrote = 0]
    /\ UNCHANGED <<pipe, goal, quota>>

Put(h, item) == [h EXCEPT !.out[h.running] = Append(@, item)]

AgentWrites ==
    /\ hive.running # None /\ ~hive.halt /\ hive.wrote < Pieces
    /\ hive' = Put([hive EXCEPT !.wrote = @ + 1], [kind |-> "next", text |-> hive.wrote + 1])
    /\ UNCHANGED <<pipe, goal, quota>>

AgentFinishes ==
    /\ hive.running # None
    /\ hive' = [Put(hive, [kind |-> "done", text |-> hive.wrote]) EXCEPT !.running = None, !.halt = FALSE]
    /\ UNCHANGED <<pipe, goal, quota>>

\* _run_agent when the runner dies: the drain of the active stream is told.  The
\* next submit starts another runner, which goes on with the queue.
RunnerDies ==
    /\ hive.running # None /\ Quota("deaths") /\ Use("deaths")
    /\ hive' = [hive EXCEPT !.alive = FALSE, !.running = None, !.halt = FALSE,
                            !.out = IF hive.active \in hive.drains
                                    THEN [@ EXCEPT ![hive.active] = Append(@, [kind |-> "stopped", text |-> 0])]
                                    ELSE @]
    /\ UNCHANGED <<pipe, goal>>

Ended_WhoeverIsActive(h, sid) == [h EXCEPT !.active = None, !.drains = @ \ {sid}]

\* _drain, one item; a stream that ends with nothing written shows an error.
ErrorText == Pieces + 1
Ended(h, sid) == [h EXCEPT !.active = IF @ = sid THEN None ELSE @, !.drains = @ \ {sid}]
Drain(sid) ==
    /\ hive.out[sid] # <<>>
    /\ LET item == Head(hive.out[sid])
           Edited(m) == IF m.sid # sid \/ m.role # "assistant" THEN m
                        ELSE [m EXCEPT !.text = IF item.kind \in {"next", "done"} THEN item.text
                                                  ELSE IF @ = 0 THEN ErrorText ELSE @,
                                       !.streaming = @ /\ item.kind = "next"]
           rest == [hive EXCEPT !.out[sid] = Tail(@), !.msgs = [i \in DOMAIN @ |-> Edited(@[i])]]
       IN  hive' = IF item.kind = "next" THEN rest ELSE Ended(rest, sid)
    /\ UNCHANGED <<pipe, goal, quota>>

\* Handling an item raises.
DrainBreaks(sid) ==
    /\ hive.out[sid] # <<>> /\ Quota("faults") /\ Use("faults")
    /\ LET Edited(m) == IF m.sid # sid \/ m.role # "assistant" THEN m
                        ELSE [m EXCEPT !.text = IF @ = 0 THEN ErrorText ELSE @, !.streaming = FALSE]
       IN  hive' = Ended([hive EXCEPT !.out[sid] = Tail(@), !.msgs = [i \in DOMAIN @ |-> Edited(@[i])]], sid)
    /\ UNCHANGED <<pipe, goal>>

(***************************************************************************)
(* The connection                                                           *)
(***************************************************************************)
NoPipe == [state |-> "closed", up |-> <<>>, down |-> <<>>, sent |-> {}, served |-> FALSE]
Frame(p) == [p EXCEPT !.down = Append(@, hive.msgs)]
Room == Len(pipe.down) < MaxFrames

\* The page learns the state of its socket, and a mounted page reconnects.
Conn(s) == goal' = [goal EXCEPT !.conn = s]

\* ws_goalhive accepts and sends a snapshot; the poll has sent nothing yet.
Accept ==
    /\ pipe.state = "connecting"
    /\ pipe' = Frame([NoPipe EXCEPT !.state = "open", !.served = TRUE])
    /\ Conn("open")
    /\ UNCHANGED <<hive, quota>>

\* _broadcast_updates
Broadcast ==
    /\ pipe.served /\ Room /\ pipe.sent # {hive.msgs}
    /\ pipe' = Frame([pipe EXCEPT !.sent = {hive.msgs}])
    /\ UNCHANGED <<hive, goal, quota>>

FrameArrives ==
    /\ pipe.down # <<>>
    /\ goal' = [goal EXCEPT !.msgs = Head(pipe.down)]
    /\ pipe' = [pipe EXCEPT !.down = Tail(@)]
    /\ UNCHANGED <<hive, quota>>

\* The handler's loop.  A command the service refuses ends the connection.
Handled(h) == hive' = h /\ pipe' = [pipe EXCEPT !.up = Tail(@)]
Refused(h) == hive' = h /\ pipe' = [pipe EXCEPT !.up = <<>>, !.served = FALSE]
Command ==
    /\ pipe.served /\ pipe.up # <<>>
    /\ LET cmd == Head(pipe.up)
       IN  \/ cmd.type = "submit" /\ ~Busy(hive) /\ Handled(Submitted(hive, cmd.text))
           \/ cmd.type = "submit" /\ Busy(hive) /\ Refused(Ensured(hive))
           \/ cmd.type = "abort" /\ Handled(Aborted(hive))
           \/ cmd.type = "reset" /\ hive.active # None /\ Refused(hive)
           \/ /\ cmd.type = "reset" /\ hive.active = None
              /\ hive' = Cleared(hive)
              /\ pipe' = [pipe EXCEPT !.up = Tail(@), !.down = Append(@, <<>>)]
    /\ UNCHANGED <<goal, quota>>

SubmitFails ==
    /\ pipe.served /\ pipe.up # <<>> /\ Head(pipe.up).type = "submit" /\ ~Busy(hive)
    /\ Quota("faults") /\ Use("faults")
    /\ \E h \in {Withdrawn(hive, Head(pipe.up).text), Undrained(hive, Head(pipe.up).text)} : Refused(h)
    /\ UNCHANGED goal

Lose == pipe' = NoPipe /\ Conn("closed") /\ UNCHANGED hive
Disconnected == pipe.state = "open" /\ ~pipe.served /\ pipe.down = <<>> /\ Lose /\ UNCHANGED quota
Drop == pipe.state # "closed" /\ Quota("drops") /\ Use("drops") /\ Lose
Reconnect ==
    /\ goal.mounted /\ pipe.state = "closed"
    /\ pipe' = [NoPipe EXCEPT !.state = "connecting"]
    /\ Conn("connecting")
    /\ UNCHANGED <<hive, quota>>

(***************************************************************************)
(* The page                                                                 *)
(***************************************************************************)
\* A page opens its socket; messages and drafts outlive it.
GoalInit ==
    \E start \in GoalOpenings :
        /\ hive = NoHive
        /\ pipe = [NoPipe EXCEPT !.state = "connecting"]
        /\ goal = Repaired([mounted |-> TRUE, conn |-> "connecting", settings |-> FALSE, choice |-> None,
                            mode |-> "goal", msgs |-> <<>>, llms |-> start.llms,
                            main |-> start.main, sub |-> start.sub,
                            target |-> [m \in Modes |-> Blank], condition |-> [m \in Modes |-> Blank]])
        /\ quota = start.quota

Page(g) == goal' = g /\ UNCHANGED <<hive, pipe>>
Shown == goal.mounted /\ ~goal.settings

SetMode == /\ Shown /\ Quota("types") /\ Use("types")
           /\ Page([goal EXCEPT !.mode = IF @ = "goal" THEN "hive" ELSE "goal"])
SetTarget == /\ Shown /\ Quota("types") /\ Use("types")
             /\ \E x \in Goals : Page([goal EXCEPT !.target[goal.mode] = x])
SetCondition == /\ Shown /\ Quota("types") /\ Use("types")
                /\ \E x \in Goals : Page([goal EXCEPT !.condition[goal.mode] = x])

SelectMain(key) == Shown /\ Quota("selects") /\ Use("selects") /\ Page([goal EXCEPT !.main = key])
OpenSubagentSettings ==
    /\ Shown /\ goal.mode = "hive" /\ Quota("selects") /\ Use("selects")
    /\ Page([goal EXCEPT !.settings = TRUE, !.choice = SubKey(goal.llms, goal.sub)])
SetDraftSubagent(key) == /\ goal.settings /\ Quota("selects") /\ Use("selects")
                         /\ Page([goal EXCEPT !.choice = key])
CloseSubagentSettings == goal.settings /\ Page([goal EXCEPT !.settings = FALSE]) /\ UNCHANGED quota
SaveSubagentSettings ==
    /\ goal.settings
    /\ Page([goal EXCEPT !.settings = FALSE, !.sub = goal.choice])
    /\ UNCHANGED quota

\* The list of models is read again, in another order or without some.
ModelsChange == /\ Shown /\ Quota("lists") /\ Use("lists")
                /\ \E l \in {Reverse(goal.llms), SubSeq(goal.llms, 2, Len(goal.llms))} :
                      Page(Repaired([goal EXCEPT !.llms = l]))

Streaming == \E i \in DOMAIN goal.msgs : goal.msgs[i].streaming
CanSubmit ==
    /\ goal.target[goal.mode] # Blank /\ goal.conn = "open" /\ ~Streaming
    /\ LlmIndex(goal.llms, MainKey(goal.llms, goal.main)) # {}

\* The socket takes a command only while it is open, and keeps none.
Sends(cmd, g) ==
    IF pipe.state = "open" THEN pipe' = [pipe EXCEPT !.up = Append(@, cmd)] /\ goal' = g /\ UNCHANGED hive
    ELSE UNCHANGED <<hive, pipe, goal>>

Submit ==
    /\ Shown /\ CanSubmit /\ Quota("submits") /\ Use("submits")
    /\ Sends([type |-> "submit", text |-> goal.target[goal.mode], also |-> goal.condition[goal.mode],
              mode |-> goal.mode, llm |-> LlmIndex(goal.llms, MainKey(goal.llms, goal.main)),
              worker |-> SubIndex(goal)],
             [goal EXCEPT !.target[goal.mode] = Blank, !.condition[goal.mode] = Blank])
Abort == /\ Shown /\ Streaming /\ Quota("aborts") /\ Use("aborts") /\ Sends([type |-> "abort"], goal)
Reset == /\ Shown /\ Quota("resets") /\ Use("resets") /\ Sends([type |-> "reset"], goal)

Leave == /\ Shown /\ Quota("leaves") /\ Use("leaves")
         /\ pipe' = NoPipe
         /\ goal' = [goal EXCEPT !.mounted = FALSE, !.conn = "closed"]
         /\ UNCHANGED hive
Enter == /\ ~goal.mounted
         /\ pipe' = [NoPipe EXCEPT !.state = "connecting"]
         /\ goal' = [goal EXCEPT !.mounted = TRUE, !.conn = "connecting"]
         /\ UNCHANGED <<hive, quota>>

Machinery ==
    \/ RunnerTakes \/ AgentWrites \/ AgentFinishes \/ (\E sid \in hive.drains : Drain(sid) \/ DrainBreaks(sid))
    \/ Accept \/ Broadcast \/ FrameArrives \/ Command \/ SubmitFails \/ Disconnected \/ Reconnect

GoalNext ==
    \/ Machinery \/ RunnerDies \/ Drop
    \/ SetMode \/ SetTarget \/ SetCondition
    \/ \E key \in ToSet(goal.llms) : SelectMain(key) \/ SetDraftSubagent(key)
    \/ OpenSubagentSettings \/ CloseSubagentSettings \/ SaveSubagentSettings \/ ModelsChange
    \/ Submit \/ Abort \/ Reset \/ Leave \/ Enter

(***************************************************************************)
(* Properties                                                               *)
(***************************************************************************)
\* At most one message is being written, and it is the answer of the stream the
\* service takes for active: neither an abort, a late end of an aborted run, a
\* submission that fails half-way, a broken drain nor a dead runner leaves a
\* message streaming for ever or frees the service early.
OneVoice ==
    {hive.msgs[i].sid : i \in {j \in DOMAIN hive.msgs : hive.msgs[j].streaming}}
        = IF hive.active = None THEN {} ELSE {hive.active}
=============================================================================
