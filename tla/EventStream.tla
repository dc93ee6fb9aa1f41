---------------------------- MODULE EventStream ----------------------------
(***************************************************************************)
(* The control event stream: EventBus in the server process, the cursor    *)
(* branch of the /ws/events handler, and HubEventClient over its           *)
(* ManagedJsonSocket in the web page.  Worker threads publish; callbacks   *)
(* on the event loop move published events into bounded subscriber queues; *)
(* one handler per socket replays, then forwards; the page reconnects with *)
(* the cursor it reached.  Sockets break, lifespans end and follow one     *)
(* another in a process, and the process itself is restarted.              *)
(*                                                                         *)
(* An event is its id, for the id and the process fix the topic (log).     *)
(* Events reach a replay list and a subscriber queue in the order of their *)
(* ids and leave them from the front, so such a list is the set of its ids *)
(* and its front the least of them.                                        *)
(***************************************************************************)
EXTENDS Naturals, Sequences, FiniteSets

CONSTANTS Topic,         \* event topics
          Wanted,        \* the topics under the prefixes the page asks for
          HistoryLen,    \* capacity of EventBus._history
          QueueLen,      \* capacity of a subscriber queue
          BatchLen,      \* _dispatch_batch_size
          MaxEvents,     \* bound: events published, by all processes
          MaxEpoch,      \* bound: server processes
          MaxGeneration, \* bound: attach_loop and detach_loop calls
          MaxLoop,       \* bound: event loops of one process
          MaxConn,       \* bound: sockets the page opens
          Faults         \* what may go wrong in this instance

ASSUME StreamAssumption ==
  /\ Wanted \subseteq Topic
  /\ HistoryLen \in Nat \ {0} /\ QueueLen \in Nat \ {0} /\ BatchLen \in Nat \ {0}
  /\ MaxEvents \in Nat /\ MaxEpoch \in Nat \ {0} /\ MaxGeneration \in Nat
  /\ MaxLoop \in Nat /\ MaxConn \in Nat
  /\ Faults \subseteq {"socket", "loop", "stop", "handler"}

VARIABLES
  epoch,       \* the running server process; its uuid is a fresh number
  log,         \* per process, the topics published so far (_next_event_id - 1 of them)
  history,     \* _history: the ids still held
  evicted,     \* _evicted_topic_ids: per topic, the last id dropped (0: none)
  loop,        \* _loop: the loop owning the lifespan, 0 for None
  running,     \* the event loops whose threads still run
  generation,  \* _dispatch_generation
  pending,     \* _pending_dispatch
  scheduled,   \* _dispatch_scheduled
  posted,      \* _drain_dispatch callbacks waiting: <<loop, generation>>
  conn,        \* per socket, its handler and its EventSubscription
  wire,        \* per socket, the frames on their way to the page
  cursor,      \* HubEventClient.cursor, Lost for undefined
  accepting,   \* HubEventClient.acceptingEvents
  state,       \* HubEventClient.state
  ws,          \* ManagedJsonSocket.ws, 0 for undefined
  timer,       \* a reconnect timer is armed
  active,      \* ManagedJsonSocket.running
  joined,      \* history: the cursor with which the page began to follow
  delivered    \* history: ids dispatched to the page's handlers since then

busVars == <<epoch, log, history, evicted, loop, running, generation, pending, scheduled, posted>>
clientVars == <<cursor, accepting, state, ws, timer, active, joined, delivered>>
vars == <<busVars, conn, wire, clientVars>>

Conn == 1..MaxConn
None == 0
Lost == [id |-> 0, epoch |-> 0]

\* A socket nobody has opened, and one whose handler has returned.
Blank(pc) == [pc |-> pc, asked |-> Lost, loop |-> 0, boundary |-> 0, replay |-> {},
              queue |-> {}, registered |-> FALSE, wake |-> FALSE, reason |-> FALSE]
Unused == Blank("idle")
Gone == Blank("gone")

Serving(c) == conn[c].pc \in {"resync", "replay", "top", "get", "ended"}
Fresh == {c \in Conn : conn[c].pc = "idle"}

Frame(type, id) == [type |-> type, id |-> id, epoch |-> epoch]

\* What the handler of c sends reaches the page only while c is its socket.
Sent(c, frames) == IF c = ws THEN [wire EXCEPT ![c] = @ \o frames] ELSE wire

Matches(id) == log[epoch][id] \in Wanted

Ids(s) == {s[k] : k \in 1..Len(s)}
IsFront(id, S) == id \in S /\ \A j \in S : id <= j

\* How many events there are, for the bound on them.
Published == Cardinality(UNION {{e} \X (1..Len(log[e])) : e \in 1..MaxEpoch})

-----------------------------------------------------------------------------
(* EventBus, producer side.                                                *)

\* The handover to the loop at the end of publish.  Posting the callback after
\* the lock is released differs from posting it inside only when the owner
\* changed between, and then _drain_dispatch finds its generation stale.
Enqueue(id) ==
  \/ /\ loop = None
     /\ UNCHANGED <<loop, pending, scheduled, posted>>
  \/ /\ loop # None
     /\ scheduled \/ loop \in running
     /\ pending' = Append(pending, id)
     /\ scheduled' = TRUE
     /\ posted' = IF scheduled THEN posted ELSE posted \cup {<<loop, generation>>}
     /\ UNCHANGED loop
  \/ /\ loop # None /\ ~scheduled /\ loop \notin running
     /\ loop' = None
     /\ pending' = <<>>
     /\ scheduled' = FALSE
     /\ UNCHANGED posted

Full == Len(history) = HistoryLen

\* The marks after an event of topic t is appended to a full history.
EvictMark(t) ==
  IF Full THEN [evicted EXCEPT ![log[epoch][Head(history)]] = Head(history)] ELSE evicted

Publish(t) ==
  LET id == Len(log[epoch]) + 1
  IN  /\ Published < MaxEvents
      /\ log' = [log EXCEPT ![epoch] = Append(@, t)]
      /\ evicted' = EvictMark(t)
      /\ history' = Append(IF Full THEN Tail(history) ELSE history, id)
      /\ Enqueue(id)
      /\ UNCHANGED <<epoch, running, generation, conn, wire, clientVars>>

-----------------------------------------------------------------------------
(* EventBus, loop ownership.                                               *)

\* Mutant: a retired subscription is marked but its consumer is not woken.
RetiredUnwoken(l) ==
  [c \in Conn |->
     IF conn[c].registered /\ conn[c].loop = l
     THEN [conn[c] EXCEPT !.registered = FALSE, !.reason = TRUE]
     ELSE conn[c]]

\* _retire_subscriptions_locked, with the wake-up it posts to a live owner.
Retired(l) ==
  [c \in Conn |->
     IF conn[c].registered /\ conn[c].loop = l
     THEN [conn[c] EXCEPT !.registered = FALSE, !.reason = TRUE, !.wake = l \in running]
     ELSE conn[c]]

AttachLoop(l) ==
  /\ loop # l
  /\ generation < MaxGeneration
  /\ loop' = l
  /\ running' = running \cup {l}
  /\ generation' = generation + 1
  /\ IF loop # None
     THEN /\ pending' = <<>> /\ scheduled' = FALSE /\ conn' = Retired(loop)
          /\ UNCHANGED posted
     ELSE /\ scheduled' = (scheduled \/ pending # <<>>)
          /\ posted' = IF pending # <<>> /\ ~scheduled
                       THEN posted \cup {<<l, generation + 1>>} ELSE posted
          /\ UNCHANGED <<pending, conn>>
  /\ UNCHANGED <<epoch, log, history, evicted, wire, clientVars>>

DetachLoop ==
  /\ loop # None
  /\ generation < MaxGeneration
  /\ loop' = None
  /\ generation' = generation + 1
  /\ scheduled' = FALSE
  /\ pending' = <<>>
  /\ conn' = Retired(loop)
  /\ UNCHANGED <<epoch, log, history, evicted, running, posted, wire, clientVars>>

\* _wake_queue, on the loop that owns the queue.
WakeQueue(c) ==
  /\ conn[c].wake /\ conn[c].loop \in running
  /\ conn' = [conn EXCEPT ![c].wake = FALSE, ![c].queue = {None}]
  /\ UNCHANGED <<busVars, wire, clientVars>>

-----------------------------------------------------------------------------
(* EventBus, dispatch on the loop.                                         *)

\* Mutant: the drop-oldest policy of legacy subscribers for a resumable one.
OfferDropOldest(sub, ids) ==
  LET all == sub.queue \cup ids
  IN  [sub EXCEPT !.queue = {i \in all : Cardinality({j \in all : j > i}) < QueueLen}]

\* Events offered to a resumable subscriber: a queue that overflows is emptied
\* and the subscription told to make its client start over.  What follows the
\* sentinel in the queue is never looked at.
Offer(sub, ids) ==
  IF Cardinality(sub.queue \cup ids) <= QueueLen THEN [sub EXCEPT !.queue = @ \cup ids]
  ELSE [sub EXCEPT !.queue = {None}, !.reason = TRUE]

Dispatched(batch, l) ==
  [c \in Conn |->
     IF conn[c].registered /\ conn[c].loop = l
     THEN Offer(conn[c], {id \in Ids(batch) : Matches(id)})
     ELSE conn[c]]

\* Mutant: the callback for what exceeds one batch is not posted.
RepostNever(l, g, rest) == posted \ {<<l, g>>}

\* The callbacks left after one ran: itself again while events remain.
Repost(l, g, rest) == IF rest # <<>> THEN posted ELSE posted \ {<<l, g>>}

DrainDispatch(l, g) ==
  /\ <<l, g>> \in posted /\ l \in running
  /\ IF loop # l \/ generation # g
     THEN /\ posted' = posted \ {<<l, g>>}
          /\ UNCHANGED <<pending, scheduled, conn>>
     ELSE LET n     == IF Len(pending) < BatchLen THEN Len(pending) ELSE BatchLen
              batch == SubSeq(pending, 1, n)
              rest  == SubSeq(pending, n + 1, Len(pending))
          IN  /\ pending' = rest
              /\ scheduled' = (rest # <<>>)
              /\ posted' = Repost(l, g, rest)
              /\ conn' = Dispatched(batch, l)
  /\ UNCHANGED <<epoch, log, history, evicted, loop, running, generation, wire, clientVars>>

-----------------------------------------------------------------------------
(* The /ws/events handler, one per socket.                                 *)

\* Why a cursor cannot be resumed: another process, an id this process has not
\* given out, or a wanted event after it that history no longer holds.
ResyncReason(asked) ==
  /\ asked # Lost
  /\ \/ asked.epoch # epoch
     \/ asked.id > Len(log[epoch])
     \/ \E t \in Wanted : evicted[t] > asked.id

\* The page always asks for replay=0, so without a cursor nothing is replayed.
ReplayEvents(asked) ==
  IF asked = Lost \/ ResyncReason(asked) THEN {}
  ELSE {id \in Ids(history) : id > asked.id /\ Matches(id)}

\* accept and subscribe_after; the reply starts with the socket's open event.
SubscribeAfter(c) ==
  /\ conn[c].pc = "connecting"
  /\ loop \in running
  /\ conn' = [conn EXCEPT
       ![c].pc = IF ResyncReason(conn[c].asked) THEN "resync" ELSE "replay",
       ![c].loop = loop,
       ![c].boundary = Len(log[epoch]),
       ![c].replay = ReplayEvents(conn[c].asked),
       ![c].registered = TRUE]
  /\ wire' = Sent(c, <<Frame("open", 0)>>)
  /\ UNCHANGED <<busVars, clientVars>>

SendResync(c) ==
  /\ conn[c].pc = "resync" /\ conn[c].loop \in running
  /\ conn' = [conn EXCEPT ![c].pc = "replay"]
  /\ wire' = Sent(c, <<Frame("resync_required", 0)>>)
  /\ UNCHANGED <<busVars, clientVars>>

SendReplay(c) ==
  /\ conn[c].pc = "replay" /\ conn[c].loop \in running
  /\ \E id \in conn[c].replay :
       /\ IsFront(id, conn[c].replay)
       /\ conn' = [conn EXCEPT ![c].replay = @ \ {id}]
       /\ wire' = Sent(c, <<Frame("event", id)>>)
  /\ UNCHANGED <<busVars, clientVars>>

SendReplayDone(c) ==
  /\ conn[c].pc = "replay" /\ conn[c].loop \in running
  /\ conn[c].replay = {}
  /\ conn' = [conn EXCEPT ![c].pc = "top"]
  /\ wire' = Sent(c, <<Frame("replay_done", conn[c].boundary)>>)
  /\ UNCHANGED <<busVars, clientVars>>

\* live() returned: tell the client to start over and close with 1013.
EndLive(c) ==
  /\ conn' = [conn EXCEPT ![c].pc = "ended", ![c].queue = {}]
  /\ wire' = Sent(c, <<Frame("resync_required", 0), Frame("close", 0)>>)

\* live(), above its queue.get().
LiveTop(c) ==
  /\ conn[c].pc = "top" /\ conn[c].loop \in running
  /\ \/ conn[c].reason /\ EndLive(c)
     \/ /\ ~conn[c].reason
        /\ conn' = [conn EXCEPT ![c].pc = "get"]
        /\ UNCHANGED wire
  /\ UNCHANGED <<busVars, clientVars>>

\* live(), when queue.get() answers, and the send of what it yields.
LiveGet(c) ==
  /\ conn[c].pc = "get" /\ conn[c].loop \in running
  /\ \E id \in conn[c].queue :
       /\ IsFront(id, conn[c].queue)
       /\ IF id = None \/ conn[c].reason THEN EndLive(c)
          ELSE /\ conn' = [conn EXCEPT ![c].queue = @ \ {id}, ![c].pc = "top"]
               /\ wire' = IF id <= conn[c].boundary THEN wire
                          ELSE Sent(c, <<Frame("event", id)>>)
  /\ UNCHANGED <<busVars, clientVars>>

\* The handler's finally: the peer hung up, live() ended, or a send failed.
HandlerEnds(c) ==
  /\ Serving(c) /\ conn[c].loop \in running
  /\ c # ws \/ conn[c].pc = "ended" \/ "handler" \in Faults
  /\ conn' = [conn EXCEPT ![c] = Gone]
  /\ wire' = IF conn[c].pc = "ended" THEN wire ELSE Sent(c, <<Frame("close", 0)>>)
  /\ UNCHANGED <<busVars, clientVars>>

-----------------------------------------------------------------------------
(* Loops and processes that stop.                                          *)

\* Sockets whose handlers die together: what was sent may arrive, then the close.
Dropped(C) ==
  /\ conn' = [c \in Conn |-> IF c \in C THEN Gone ELSE conn[c]]
  /\ wire' = [c \in Conn |-> IF c \in C /\ c = ws THEN Append(wire[c], Frame("close", 0))
                             ELSE wire[c]]

\* A loop stops and is closed, with or without detach_loop having run; its
\* callbacks go with it and its handlers are cancelled.
LoopEnds(l) ==
  /\ "loop" \in Faults
  /\ l \in running
  /\ running' = running \ {l}
  /\ posted' = {p \in posted : p[1] # l}
  /\ Dropped({c \in Conn : Serving(c) /\ conn[c].loop = l})
  /\ UNCHANGED <<epoch, log, history, evicted, loop, generation, pending, scheduled, clientVars>>

\* The process is killed and started again: a new epoch, and nothing else.
ServerRestart ==
  /\ epoch < MaxEpoch
  /\ epoch' = epoch + 1
  /\ history' = <<>> /\ evicted' = [t \in Topic |-> 0]
  /\ loop' = None /\ running' = {} /\ generation' = 0
  /\ pending' = <<>> /\ scheduled' = FALSE /\ posted' = {}
  /\ Dropped({c \in Conn : Serving(c)})
  /\ UNCHANGED <<log, clientVars>>

-----------------------------------------------------------------------------
(* ManagedJsonSocket and HubEventClient.                                   *)

\* connect(): the path carries the cursor of this moment.
Connect(c) ==
  /\ c \in Fresh /\ \A d \in Fresh : c <= d
  /\ ws' = c
  /\ conn' = [conn EXCEPT ![c].pc = "connecting", ![c].asked = cursor]
  /\ accepting' = FALSE
  /\ state' = "connecting"
  /\ timer' = FALSE

Start(c) ==
  /\ ~active
  /\ active' = TRUE
  /\ Connect(c)
  /\ UNCHANGED <<busVars, wire, cursor, joined, delivered>>

ReconnectTimer(c) ==
  /\ active /\ timer
  /\ Connect(c)
  /\ UNCHANGED <<busVars, wire, active, cursor, joined, delivered>>

\* The socket c is let go of: nothing that is still on its wire is read, and a
\* request that was never accepted is withdrawn.
LetGo(c) ==
  /\ ws' = 0
  /\ wire' = [wire EXCEPT ![c] = <<>>]
  /\ conn' = IF conn[c].pc = "connecting" THEN [conn EXCEPT ![c] = Gone] ELSE conn
  /\ accepting' = FALSE
  /\ state' = "closed"

Stop ==
  /\ "stop" \in Faults
  /\ active /\ Fresh # {}
  /\ active' = FALSE
  /\ timer' = FALSE
  /\ IF ws # 0 THEN LetGo(ws)
     ELSE accepting' = FALSE /\ state' = "closed" /\ UNCHANGED <<ws, wire, conn>>
  /\ UNCHANGED <<busVars, cursor, joined, delivered>>

HandleDisconnect(c) ==
  /\ LetGo(c)
  /\ timer' = TRUE
  /\ UNCHANGED <<busVars, active, cursor, joined, delivered>>

\* The network or the browser drops the socket; a frame on its way is lost.
SocketLost == "socket" \in Faults /\ ws # 0 /\ Fresh # {} /\ HandleDisconnect(ws)

AdvancesCursor(f) == cursor.epoch # f.epoch \/ f.id > cursor.id
CursorOf(f) == [id |-> f.id, epoch |-> f.epoch]

OnOpen ==
  /\ accepting' = (cursor # Lost)
  /\ UNCHANGED <<cursor, state, joined, delivered>>

OnResyncRequired ==
  /\ cursor' = Lost
  /\ accepting' = FALSE
  /\ state' = "connecting"
  /\ joined' = Lost /\ delivered' = <<>>

OnReplayDone(f) ==
  /\ cursor' = IF AdvancesCursor(f) THEN CursorOf(f) ELSE cursor
  /\ accepting' = TRUE
  /\ state' = "open"
  /\ joined' = IF cursor = Lost THEN CursorOf(f) ELSE joined
  /\ UNCHANGED delivered

OnEvent(f) ==
  IF (~accepting /\ cursor = Lost) \/ ~AdvancesCursor(f)
  THEN UNCHANGED <<cursor, accepting, state, joined, delivered>>
  ELSE /\ cursor' = CursorOf(f)
       /\ delivered' = Append(delivered, f.id)
       /\ UNCHANGED <<accepting, state, joined>>

\* onopen, onmessage and onclose of the current socket, in wire order.
Receive ==
  /\ ws # 0 /\ wire[ws] # <<>>
  /\ LET f == Head(wire[ws]) IN
     IF f.type = "close" THEN HandleDisconnect(ws)
     ELSE /\ wire' = [wire EXCEPT ![ws] = Tail(@)]
          /\ \/ f.type = "open" /\ OnOpen
             \/ f.type = "resync_required" /\ OnResyncRequired
             \/ f.type = "replay_done" /\ OnReplayDone(f)
             \/ f.type = "event" /\ OnEvent(f)
          /\ UNCHANGED <<busVars, conn, ws, timer, active>>

-----------------------------------------------------------------------------
Init ==
  /\ epoch = 1
  /\ log = [e \in 1..MaxEpoch |-> <<>>]
  /\ history = <<>> /\ evicted = [t \in Topic |-> 0]
  /\ loop = None /\ running = {} /\ generation = 0
  /\ pending = <<>> /\ scheduled = FALSE /\ posted = {}
  /\ conn = [c \in Conn |-> Unused]
  /\ wire = [c \in Conn |-> <<>>]
  /\ cursor = Lost /\ accepting = FALSE /\ state = "closed"
  /\ ws = 0 /\ timer = FALSE /\ active = FALSE
  /\ joined = Lost /\ delivered = <<>>

Handler(c) ==
  \/ SubscribeAfter(c) \/ SendResync(c) \/ SendReplay(c) \/ SendReplayDone(c)
  \/ LiveTop(c) \/ LiveGet(c)

Next ==
  \/ \E t \in Topic : Publish(t)
  \/ \E l \in 1..MaxLoop : AttachLoop(l) \/ LoopEnds(l)
  \/ \E l \in 1..MaxLoop, g \in 1..MaxGeneration : DrainDispatch(l, g)
  \/ DetachLoop
  \/ ServerRestart
  \/ \E c \in Conn : Handler(c) \/ WakeQueue(c) \/ HandlerEnds(c)
  \/ \E c \in Conn : Start(c) \/ ReconnectTimer(c)
  \/ Stop
  \/ SocketLost
  \/ Receive

Spec == Init /\ [][Next]_vars

\* The loop runs what is posted to it, a handler whose await is over goes on,
\* a handler whose peer hung up or whose live() ended returns, the reconnect
\* timer fires and the browser delivers what arrived.
Fairness ==
  /\ \A l \in 1..MaxLoop, g \in 1..MaxGeneration : WF_vars(DrainDispatch(l, g))
  /\ \A c \in Conn : /\ WF_vars(Handler(c)) /\ WF_vars(WakeQueue(c))
                     /\ WF_vars(ReconnectTimer(c))
                     /\ WF_vars((c # ws \/ conn[c].pc = "ended") /\ HandlerEnds(c))
  /\ WF_vars(Receive)

FairSpec == Spec /\ Fairness

-----------------------------------------------------------------------------
(* Properties.                                                             *)

\* The page is handed, from where it joined, every wanted event once and in
\* order, or it is told first that it must reload: over reconnects, overflowing
\* queues, evicted history, successive lifespans and restarted servers, the
\* cursor protocol of subscribe_after, ws_events and HubEventClient neither
\* skips, repeats nor reorders an event in silence.
Feed == INSTANCE OrderedFeed
KeepsThePromise == Feed!Spec

\* An event taken over for live dispatch always has a callback coming for it on
\* the loop that owns the lifespan: _dispatch_scheduled, the generation and the
\* re-posting of a long batch never leave _pending_dispatch with nobody to drain it.
NothingStranded ==
  pending # <<>> /\ loop \in running => <<loop, generation>> \in posted

\* The page can be served: its client runs, a lifespan owns a live loop, and the
\* bound on sockets leaves it one to use.
Served == active /\ loop \in running /\ (ws # 0 \/ Fresh # {})

CaughtUp ==
  /\ state = "open" /\ cursor.epoch = epoch
  /\ \A i \in Feed!WantedIn(epoch) : i <= cursor.id

\* Once a lifespan keeps its loop and the page keeps its client, and publishing
\* pauses, the page ends up shown as connected and has been handed everything:
\* no lost wake-up, retired subscription, overflow or stale socket leaves it
\* waiting for ever.
CatchesUp == <>[]Served => <>[]CaughtUp

-----------------------------------------------------------------------------
(* The shape of the variables.                                             *)

FrameType == {"open", "resync_required", "event", "replay_done", "close"}
FrameRecord == [type : FrameType, id : Nat, epoch : 1..MaxEpoch]
CursorRecord == [id : Nat, epoch : 0..MaxEpoch]
HandlerPc == {"idle", "connecting", "resync", "replay", "top", "get", "ended", "gone"}
ConnRecord == [pc : HandlerPc, asked : CursorRecord, loop : 0..MaxLoop, boundary : Nat,
               replay : SUBSET Nat, queue : SUBSET Nat,
               registered : BOOLEAN, wake : BOOLEAN, reason : BOOLEAN]

BusTypes ==
  /\ epoch \in 1..MaxEpoch /\ log \in [1..MaxEpoch -> Seq(Topic)]
  /\ history \in Seq(Nat) /\ evicted \in [Topic -> Nat]
  /\ loop \in 0..MaxLoop /\ running \subseteq 1..MaxLoop /\ generation \in 0..MaxGeneration
  /\ pending \in Seq(Nat)
  /\ posted \subseteq (0..MaxLoop) \X (0..MaxGeneration)

LinkTypes ==
  /\ conn \in [Conn -> ConnRecord] /\ wire \in [Conn -> Seq(FrameRecord)]
  /\ ws \in 0..MaxConn

PageTypes ==
  /\ cursor \in CursorRecord /\ joined \in CursorRecord /\ delivered \in Seq(Nat)
  /\ state \in {"closed", "connecting", "open"}

FlagTypes ==
  scheduled \in BOOLEAN /\ timer \in BOOLEAN /\ active \in BOOLEAN /\ accepting \in BOOLEAN

\* Every variable keeps the shape the code gives it.
TypeOK == BusTypes /\ LinkTypes /\ PageTypes /\ FlagTypes
=============================================================================
