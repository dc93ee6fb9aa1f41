------------------------- MODULE EventStreamProofs -------------------------
(***************************************************************************)
(* Proofs about EventStream: every step keeps what the page is owed, and   *)
(* the whole keeps the promise of OrderedFeed.                             *)
(***************************************************************************)
EXTENDS EventBusProofs, EventWireProofs

\* A leaf is left to Zenon unless it names SMT: most are first-order.
USE ZenonT(30)

\* What the handler of the page's socket sends ends up behind its wire.
LEMMA SentLonger ==
  ASSUME TypeOK, ws # 0, NEW f \in FrameRecord
  PROVE  /\ ws \in Conn /\ wire[ws] \in Seq(FrameRecord)
         /\ Sent(ws, <<f>>)[ws] \in Seq(FrameRecord)
         /\ Longer(Sent(ws, <<f>>)[ws], wire[ws], f)
<1>1. ws \in Conn /\ wire[ws] \in Seq(FrameRecord) /\ <<f>> \in Seq(FrameRecord)
  BY SMTT(60) DEF TypeOK, LinkTypes, Conn
<1>2. Sent(ws, <<f>>)[ws] = wire[ws] \o <<f>>
  BY <1>1, SentTypes
<1>3. Longer(wire[ws] \o <<f>>, wire[ws], f) /\ wire[ws] \o <<f>> \in Seq(FrameRecord)
  BY <1>1, SendOne DEF Longer
<1> QED BY <1>1, <1>2, <1>3

LEMMA SendTwo ==
  ASSUME NEW w \in Seq(FrameRecord), NEW f \in FrameRecord, NEW g \in FrameRecord
  PROVE  /\ w \o <<f, g>> \in Seq(FrameRecord) /\ Len(w \o <<f, g>>) = Len(w) + 2
         /\ \A k \in 1..Len(w) : (w \o <<f, g>>)[k] = w[k]
         /\ (w \o <<f, g>>)[Len(w) + 1] = f /\ (w \o <<f, g>>)[Len(w) + 2] = g
<1>1. /\ <<f, g>> \in Seq(FrameRecord) /\ Len(<<f, g>>) = 2
      /\ <<f, g>>[1] = f /\ <<f, g>>[2] = g
  BY SMTT(60)
<1> QED BY SMTT(60), <1>1, ConcatFacts

\* live() is over: the page is told to start over and the socket is closed.
LEMMA EndLink ==
  ASSUME TypeOK, ws # 0, EndLive(ws), NEW e2, NEW pend2,
         LinkOK(conn[ws], wire[ws], cursor, log, epoch, pending)
  PROVE  LinkOK(conn'[ws], wire'[ws], cursor, log, e2, pend2)
<1> DEFINE w == wire[ws]
           f == Frame("resync_required", 0)
           g == Frame("close", 0)
<1>1. ws \in Conn /\ w \in Seq(FrameRecord)
  BY SMTT(60) DEF TypeOK, LinkTypes, Conn
<1>2. f \in FrameRecord /\ g \in FrameRecord
  <2>1. "resync_required" \in FrameType /\ "close" \in FrameType /\ 0 \in Nat
    BY DEF FrameType
  <2> QED BY <2>1, FrameTypes
<1>3. f.type = "resync_required" /\ g.type = "close"
  BY DEF Frame
<1>4. conn'[ws].pc = "ended"
  BY <1>1, EndEffect DEF Moved
<1>5. wire' = Sent(ws, <<f, g>>)
  BY DEF EndLive
<1> HIDE DEF f, g
<1>6. wire'[ws] = w \o <<f, g>>
  <2>1. <<f, g>> \in Seq(FrameRecord)
    BY SMTT(60), <1>2
  <2> QED BY <1>1, <1>5, <2>1, SentTypes
<1>w. LinkOK(conn[ws], w, cursor, log, epoch, pending)
  OBVIOUS
<1>t. f.type \in {"close", "resync_required"} /\ g.type \in {"close", "resync_required"}
      /\ conn'[ws].pc \in {"ended", "gone"}
  BY <1>3, <1>4
<1> HIDE DEF w
<1>7. w \o <<f>> \in Seq(FrameRecord) /\ Longer(w \o <<f>>, w, f)
  BY <1>1, <1>2, SendOne DEF Longer
<1>8. w \o <<f, g>> \in Seq(FrameRecord) /\ Longer(w \o <<f, g>>, w \o <<f>>, g)
  <2>1. /\ w \o <<f, g>> \in Seq(FrameRecord) /\ Len(w \o <<f, g>>) = Len(w) + 2
        /\ \A k \in 1..Len(w) : (w \o <<f, g>>)[k] = w[k]
        /\ (w \o <<f, g>>)[Len(w) + 1] = f /\ (w \o <<f, g>>)[Len(w) + 2] = g
    BY SMTT(60), <1>1, <1>2, SendTwo
  <2>2. /\ Len(w \o <<f>>) = Len(w) + 1 /\ (w \o <<f>>)[Len(w) + 1] = f
        /\ \A k \in 1..Len(w) : (w \o <<f>>)[k] = w[k]
    BY <1>7 DEF Longer
  <2>3. Len(w) \in Nat
    BY SMTT(60), <1>1
  <2> QED BY SMTT(60), <2>1, <2>2, <2>3 DEF Longer
<1>9. LinkOK(conn'[ws], w \o <<f>>, cursor, log, epoch, pending)
  BY <1>1, <1>2, <1>t, <1>w, <1>7, CloseLink
<1>10. LinkOK(conn'[ws], w \o <<f, g>>, cursor, log, e2, pend2)
  BY <1>2, <1>t, <1>7, <1>8, <1>9, CloseLink
<1> QED BY <1>6, <1>10

\* What reading a frame may do to the feed of the page: nothing, losing it, joining
\* one, or the delivery of its next event.
PageMove ==
  \/ UNCHANGED <<joined, delivered>>
  \/ joined # Lost /\ joined' = Lost /\ delivered' = <<>>
  \/ /\ joined = Lost /\ UNCHANGED delivered
     /\ \E e \in 1..MaxEpoch : \E i \in 0..Len(log[e]) : joined' = [id |-> i, epoch |-> e]
  \/ /\ joined # Lost /\ UNCHANGED joined
     /\ \E i \in WantedOf(log, joined.epoch) :
          /\ i > Got(joined, delivered)
          /\ \A k \in WantedOf(log, joined.epoch) : k > Got(joined, delivered) => i <= k
          /\ delivered' = Append(delivered, i)

LEMMA ReadFrame ==
  ASSUME TypeOK, CursorHonest, Receive, WireInOrder(wire[ws], cursor, log),
         Head(wire[ws]).type # "close"
  PROVE  /\ wire'[ws] \in Seq(FrameRecord) /\ Reads(wire'[ws], wire[ws], cursor, cursor')
         /\ CursorHonest' /\ PageMove /\ UNCHANGED <<busVars, conn, ws>>
<1> DEFINE w == wire[ws]
           f == w[1]
<1>1. ws \in Conn /\ w \in Seq(FrameRecord) /\ w # <<>> /\ wire \in [Conn -> Seq(FrameRecord)]
  <2>1. ws # 0 /\ w # <<>>
    BY DEF Receive
  <2> QED BY SMTT(60), <2>1 DEF TypeOK, LinkTypes, Conn
<1>2. /\ cursor \in CursorRecord /\ joined \in CursorRecord /\ delivered \in Seq(Nat)
      /\ log \in [1..MaxEpoch -> Seq(Topic)]
  BY DEF TypeOK, PageTypes, BusTypes
<1>3. Head(wire[ws]) = f /\ f \in FrameRecord /\ Tail(w) \in Seq(FrameRecord) /\ Shorter(Tail(w), w)
  BY SMTT(60), <1>1 DEF Shorter
<1>4. /\ wire' = [wire EXCEPT ![ws] = Tail(@)]
      /\ UNCHANGED <<busVars, conn, ws, timer, active>>
      /\ \/ f.type = "open" /\ OnOpen
         \/ f.type = "resync_required" /\ OnResyncRequired
         \/ f.type = "replay_done" /\ OnReplayDone(f)
         \/ f.type = "event" /\ OnEvent(f)
  BY <1>3, ReceiveCases
<1>5. wire'[ws] = Tail(w) /\ UNCHANGED <<busVars, conn, ws>> /\ log' = log
  <2>1. wire'[ws] = Tail(w)
    BY <1>1, <1>4
  <2> QED BY <1>4, <2>1 DEF busVars
<1>6. Honest(cursor, joined, delivered, accepting, log)
  BY HonestIs
<1>w. WireInOrder(w, cursor, log)
  OBVIOUS
<1> HIDE DEF f, w
<1>7. SUFFICES /\ Reads(Tail(w), w, cursor, cursor')
               /\ Honest(cursor', joined', delivered', accepting', log)
               /\ PageMove
  BY <1>3, <1>5, <1>7, HonestIs DEF w
<1>8. CASE f.type = "open" /\ OnOpen
  <2>1. UNCHANGED <<cursor, joined, delivered>> /\ (cursor = Lost => ~accepting')
    BY <1>8 DEF OnOpen
  <2>2. Reads(Tail(w), w, cursor, cursor')
    BY <1>3, <1>8, <2>1 DEF Reads, f
  <2>3. Honest(cursor', joined', delivered', accepting', log)
    BY <1>6, <2>1 DEF Honest
  <2> QED BY <2>1, <2>2, <2>3 DEF PageMove
<1>9. CASE f.type = "resync_required" /\ OnResyncRequired
  <2>1. cursor' = Lost /\ joined' = Lost /\ delivered' = <<>> /\ ~accepting'
    BY <1>9 DEF OnResyncRequired
  <2>2. Reads(Tail(w), w, cursor, cursor')
    BY <1>3, <1>9, <2>1 DEF Reads, f
  <2>3. Honest(cursor', joined', delivered', accepting', log)
    BY <2>1 DEF Honest
  <2>4. joined = Lost => delivered = <<>>
    BY <1>6 DEF Honest
  <2> QED BY <2>1, <2>2, <2>3, <2>4 DEF PageMove
<1>10. CASE f.type = "replay_done" /\ OnReplayDone(f)
  <2>1. /\ CursorOf(f) # Lost
        /\ cursor # Lost => cursor.epoch = f.epoch /\ cursor.id <= f.id
        /\ Honest(CursorOf(f), IF cursor = Lost THEN CursorOf(f) ELSE joined, delivered, accepting', log)
    BY <1>1, <1>2, <1>6, <1>w, <1>10, DoneHonest DEF f
  <2>2. /\ cursor' = IF AdvancesCursor(f) THEN CursorOf(f) ELSE cursor
        /\ joined' = IF cursor = Lost THEN CursorOf(f) ELSE joined
        /\ delivered' = delivered
    BY <1>10 DEF OnReplayDone
  <2>3. f.id \in Nat /\ f.epoch \in 1..MaxEpoch /\ cursor.id \in Nat
    BY <1>2, <1>3 DEF FrameRecord, CursorRecord
  <2>4. cursor' = CursorOf(f)
    <3>1. CASE cursor = Lost
      <4>1. cursor.epoch = 0
        BY <3>1 DEF Lost
      <4> QED BY SMTT(60), <2>2, <2>3, <4>1 DEF AdvancesCursor
    <3>2. CASE cursor # Lost
      <4>1. CASE AdvancesCursor(f)
        BY <2>2, <4>1
      <4>2. CASE ~AdvancesCursor(f)
        <5>1. cursor.id = f.id /\ cursor.epoch = f.epoch
          BY SMTT(60), <2>1, <2>3, <3>2, <4>2 DEF AdvancesCursor
        <5> QED BY <1>2, <2>2, <4>2, <5>1 DEF CursorOf, CursorRecord
      <4> QED BY <4>1, <4>2
    <3> QED BY <3>1, <3>2
  <2>5. Reads(Tail(w), w, cursor, cursor')
    BY <1>3, <1>10, <2>1, <2>4 DEF Reads, f
  <2>6. Honest(cursor', joined', delivered', accepting', log)
    BY <2>1, <2>2, <2>4
  <2>7. PageMove
    <3>1. CASE cursor # Lost
      BY <2>2, <3>1 DEF PageMove
    <3>2. CASE cursor = Lost
      <4>1. joined = Lost /\ joined' = CursorOf(f)
        BY <1>6, <2>2, <3>2 DEF Honest
      <4>2. f.id <= Len(log[f.epoch])
        BY <1>1, <1>w, <1>10, FirstFrame DEF f
      <4>3. f.id \in 0..Len(log[f.epoch])
        BY SMTT(60), <1>2, <2>3, <4>2
      <4> QED BY <2>2, <2>3, <4>1, <4>3 DEF PageMove, CursorOf
    <3> QED BY <3>1, <3>2
  <2> QED BY <2>5, <2>6, <2>7
<1>11. CASE f.type = "event" /\ OnEvent(f)
  <2>1. /\ CursorOf(f) # Lost /\ cursor # Lost /\ joined # Lost
        /\ cursor.epoch = f.epoch /\ cursor.id < f.id
        /\ Honest(CursorOf(f), joined, Append(delivered, f.id), accepting, log)
        /\ f.id \in WantedOf(log, joined.epoch) /\ f.id > Got(joined, delivered)
        /\ \A i \in WantedOf(log, joined.epoch) : i > Got(joined, delivered) => f.id <= i
    BY <1>1, <1>2, <1>6, <1>w, <1>11, EventHonest DEF f
  <2>2. f.id > cursor.id
    BY <1>2, <1>3, <2>1 DEF FrameRecord, CursorRecord
  <2>3. /\ cursor' = CursorOf(f) /\ delivered' = Append(delivered, f.id)
        /\ UNCHANGED <<accepting, joined>>
    BY <1>11, <2>1, <2>2 DEF OnEvent, AdvancesCursor
  <2>4. Reads(Tail(w), w, cursor, cursor')
    BY <1>3, <1>11, <2>1, <2>3 DEF Reads, f
  <2>5. Honest(cursor', joined', delivered', accepting', log)
    BY <2>1, <2>3
  <2>6. PageMove
    BY <2>1, <2>3 DEF PageMove
  <2> QED BY <2>4, <2>5, <2>6
<1> QED BY <1>4, <1>8, <1>9, <1>10, <1>11

-----------------------------------------------------------------------------
(* Steps, seen from the page's socket.                                     *)

LEMMA SentFrame ==
  ASSUME TypeOK, ws # 0, NEW type \in FrameType, NEW id \in Nat,
         wire' = Sent(ws, <<Frame(type, id)>>)
  PROVE  /\ wire'[ws] \in Seq(FrameRecord)
         /\ \E f \in FrameRecord : /\ f.type = type /\ f.id = id /\ f.epoch = epoch
                                   /\ Longer(wire'[ws], wire[ws], f)
<1>1. PICK f \in FrameRecord : f = Frame(type, id)
  BY FrameTypes
<1>2. f.type = type /\ f.id = id /\ f.epoch = epoch
  BY <1>1 DEF Frame
<1>3. wire'[ws] \in Seq(FrameRecord) /\ Longer(wire'[ws], wire[ws], f)
  <2>1. wire' = Sent(ws, <<f>>)
    BY <1>1
  <2> QED BY <2>1, SentLonger
<1> QED BY <1>2, <1>3

LEMMA LinkFacts ==
  ASSUME TypeOK, ws # 0
  PROVE  /\ ws \in Conn /\ conn[ws] \in ConnRecord /\ wire[ws] \in Seq(FrameRecord)
         /\ cursor \in CursorRecord /\ log \in [1..MaxEpoch -> Seq(Topic)]
         /\ epoch \in 1..MaxEpoch /\ pending \in Seq(Nat)
<1>1. ws \in Conn
  BY SMTT(60) DEF TypeOK, LinkTypes, Conn
<1>2. conn[ws] \in ConnRecord /\ wire[ws] \in Seq(FrameRecord)
  BY <1>1 DEF TypeOK, LinkTypes
<1> QED BY <1>1, <1>2 DEF TypeOK, PageTypes, BusTypes

LEMMA FrameTypesAre ==
  /\ "open" \in FrameType /\ "resync_required" \in FrameType /\ "event" \in FrameType
  /\ "replay_done" \in FrameType /\ "close" \in FrameType /\ 0 \in Nat
BY DEF FrameType

LEMMA SubscribeStep ==
  ASSUME TypeOK, Windows, MarksExact, Registered, ws # 0, SubscribeAfter(ws),
         LinkOK(conn[ws], wire[ws], cursor, log, epoch, pending)
  PROVE  LinkOK(conn'[ws], wire'[ws], cursor, log, epoch, pending)
<1> DEFINE h == conn[ws]
           h2 == conn'[ws]
<1>0. ws \in Conn /\ cursor \in CursorRecord /\ epoch \in 1..MaxEpoch
      /\ log \in [1..MaxEpoch -> Seq(Topic)] /\ wire[ws] \in Seq(FrameRecord)
  BY LinkFacts
<1>1. /\ h.pc = "connecting" /\ h2.boundary = Latest /\ h2.replay = ReplayEvents(h.asked)
      /\ h2.pc = (IF ResyncReason(h.asked) THEN "resync" ELSE "replay") /\ h2.queue = h.queue
  BY <1>0, SubscribeEffect
<1>2. h.asked = cursor
  BY <1>1 DEF LinkOK, Placed
<1>3. h.queue = {}
  BY <1>0, <1>1, RegisteredIs DEF HandlerOK
<1>4. wire' = Sent(ws, <<Frame("open", 0)>>)
  BY DEF SubscribeAfter
<1>5. wire'[ws] \in Seq(FrameRecord)
  BY <1>4, SentFrame, FrameTypesAre
<1>6. PICK f \in FrameRecord : f.type = "open" /\ Longer(wire'[ws], wire[ws], f)
  BY <1>4, SentFrame, FrameTypesAre
<1>7. h2.pc \in {"resync", "replay"} /\ h2.boundary = Len(log[epoch]) /\ h2.queue = {}
  BY <1>1, <1>3 DEF Latest
<1>8. h2.pc = "resync" \/ cursor = Lost => h2.replay = {}
  <2>1. h2.pc = "resync" => ResyncReason(cursor)
    BY <1>1, <1>2
  <2> QED BY <1>1, <1>2, <2>1 DEF ReplayEvents
<1>9. ASSUME h2.pc = "replay", cursor # Lost
      PROVE  /\ cursor.epoch = epoch /\ cursor.id <= Len(log[epoch])
             /\ \A i \in WantedOf(log, epoch) : cursor.id < i => i \in h2.replay
             /\ \A i \in h2.replay : i \in WantedOf(log, epoch) /\ cursor.id < i
  <2>1. ~ResyncReason(cursor)
    BY <1>1, <1>2, <1>9
  <2> QED BY <1>0, <1>1, <1>2, <1>9, <2>1, OpeningReady DEF Latest
<1>10. LinkOK(h, wire[ws], cursor, log, epoch, pending)
  OBVIOUS
<1> HIDE DEF h, h2
<1>11. LinkOK(h2, wire'[ws], cursor, log, epoch, pending)
  BY <1>0, <1>1, <1>5, <1>6, <1>7, <1>8, <1>9, <1>10, SubscribeLink
<1> QED BY <1>11 DEF h2

LEMMA ReplayStep ==
  ASSUME TypeOK, ws # 0, SendResync(ws) \/ SendReplay(ws) \/ SendReplayDone(ws),
         LinkOK(conn[ws], wire[ws], cursor, log, epoch, pending)
  PROVE  LinkOK(conn'[ws], wire'[ws], cursor, log, epoch, pending)
<1> DEFINE h == conn[ws]
           h2 == conn'[ws]
           w == wire[ws]
           v == wire'[ws]
<1>0. /\ ws \in Conn /\ cursor \in CursorRecord /\ epoch \in 1..MaxEpoch /\ pending \in Seq(Nat)
      /\ log \in [1..MaxEpoch -> Seq(Topic)] /\ w \in Seq(FrameRecord) /\ h \in ConnRecord
  BY LinkFacts
<1>1. LinkOK(h, w, cursor, log, epoch, pending)
  OBVIOUS
<1>2. CASE SendResync(ws)
  <2>1. h.pc = "resync" /\ Moved(h2, h, "replay", h.replay, h.queue)
    BY <1>0, <1>2, ResyncEffect
  <2>2. wire' = Sent(ws, <<Frame("resync_required", 0)>>)
    BY <1>2 DEF SendResync
  <2>3. v \in Seq(FrameRecord)
    BY <2>2, SentFrame, FrameTypesAre
  <2>4. PICK f \in FrameRecord : f.type = "resync_required" /\ Longer(v, w, f)
    BY <2>2, SentFrame, FrameTypesAre
  <2> HIDE DEF h, h2, v, w
  <2>5. LinkOK(h2, v, cursor, log, epoch, pending)
    BY <1>0, <1>1, <2>1, <2>3, <2>4, ResyncLink
  <2> QED BY <2>5 DEF h2, v
<1>3. CASE SendReplay(ws)
  <2>1. h.pc = "replay"
    BY <1>0, <1>3, ReplayEffect
  <2>2. PICK id \in h.replay :
          /\ IsFront(id, h.replay) /\ wire' = Sent(ws, <<Frame("event", id)>>)
          /\ Moved(h2, h, "replay", h.replay \ {id}, h.queue)
    BY <1>0, <1>3, ReplayEffect
  <2>3. id \in Nat
    BY <1>0 DEF ConnRecord
  <2>a. "event" \in FrameType /\ wire' = Sent(ws, <<Frame("event", id)>>)
    BY <2>2, FrameTypesAre
  <2>4. v \in Seq(FrameRecord)
    BY <2>a, <2>3, SentFrame
  <2>5. PICK f \in FrameRecord : /\ f.type = "event" /\ f.id = id /\ f.epoch = epoch
                                 /\ Longer(v, w, f)
    BY <2>a, <2>3, SentFrame
  <2>6. IsFront(f.id, h.replay) /\ Moved(h2, h, "replay", h.replay \ {f.id}, h.queue)
    BY <2>2, <2>5
  <2> HIDE DEF h, h2, v, w
  <2>7. LinkOK(h2, v, cursor, log, epoch, pending)
    BY <1>0, <1>1, <2>1, <2>4, <2>5, <2>6, ReplayLink
  <2> QED BY <2>7 DEF h2, v
<1>4. CASE SendReplayDone(ws)
  <2>1. h.pc = "replay" /\ h.replay = {} /\ Moved(h2, h, "top", h.replay, h.queue)
    BY <1>0, <1>4, DoneEffect
  <2>2. wire' = Sent(ws, <<Frame("replay_done", h.boundary)>>)
    BY <1>4 DEF SendReplayDone
  <2>3. h.boundary \in Nat
    BY <1>0 DEF ConnRecord
  <2>4. v \in Seq(FrameRecord)
    BY <2>2, <2>3, SentFrame, FrameTypesAre
  <2>5. PICK f \in FrameRecord :
          f.type = "replay_done" /\ f.id = h.boundary /\ f.epoch = epoch /\ Longer(v, w, f)
    BY <2>2, <2>3, SentFrame, FrameTypesAre
  <2> HIDE DEF h, h2, v, w
  <2>6. LinkOK(h2, v, cursor, log, epoch, pending)
    BY <1>0, <1>1, <2>1, <2>4, <2>5, DoneLink
  <2> QED BY <2>6 DEF h2, v
<1> QED BY <1>2, <1>3, <1>4

LEMMA LiveStep ==
  ASSUME TypeOK, Windows, ws # 0, LiveTop(ws) \/ LiveGet(ws),
         LinkOK(conn[ws], wire[ws], cursor, log, epoch, pending)
  PROVE  LinkOK(conn'[ws], wire'[ws], cursor, log, epoch, pending)
<1> DEFINE h == conn[ws]
           h2 == conn'[ws]
           w == wire[ws]
           v == wire'[ws]
<1>0. /\ ws \in Conn /\ cursor \in CursorRecord /\ epoch \in 1..MaxEpoch /\ pending \in Seq(Nat)
      /\ log \in [1..MaxEpoch -> Seq(Topic)] /\ w \in Seq(FrameRecord) /\ h \in ConnRecord
  BY LinkFacts
<1>1. LinkOK(h, w, cursor, log, epoch, pending)
  OBVIOUS
<1>2. EndLive(ws) => LinkOK(h2, v, cursor, log, epoch, pending)
  BY <1>1, EndLink
<1>3. CASE LiveTop(ws) /\ ~EndLive(ws)
  <2>1. h.pc = "top" /\ v = w /\ Moved(h2, h, "get", h.replay, h.queue)
    BY <1>0, <1>3, TopEffect
  <2> HIDE DEF h, h2, v, w
  <2>2. LinkOK(h2, v, cursor, log, epoch, pending)
    BY <1>1, <2>1, TopLink
  <2> QED BY <2>2 DEF h2, v
<1>4. CASE LiveGet(ws) /\ ~EndLive(ws)
  <2>0. Window(pending, Len(log[epoch]))
    BY WindowsSplit DEF Latest
  <2>1. PICK id \in h.queue :
          /\ IsFront(id, h.queue) /\ ~h.reason
          /\ Moved(h2, h, "top", h.replay, h.queue \ {id})
          /\ wire' = IF id <= h.boundary THEN wire ELSE Sent(ws, <<Frame("event", id)>>)
    BY <1>0, <1>4, GetEffect
  <2>2. id \in Nat /\ h.pc = "get"
    <3>1. h.pc = "get"
      BY <1>0, <1>4, GetEffect
    <3>2. id \in Nat
      BY <1>0 DEF ConnRecord
    <3> QED BY <3>1, <3>2
  <2>a. "event" \in FrameType
    BY FrameTypesAre
  <2>3. CASE id <= h.boundary
    <3>1. v = w
      BY <2>1, <2>3
    <3>2. PICK f \in FrameRecord : f = Frame("event", id)
      BY <2>2, <2>a, FrameTypes
    <3>3. f.type = "event" /\ f.id = id /\ f.epoch = epoch
      BY <3>2 DEF Frame
    <3>4. /\ IsFront(f.id, h.queue) /\ Moved(h2, h, "top", h.replay, h.queue \ {f.id})
          /\ v = w /\ f.id <= h.boundary
      BY <2>1, <2>3, <3>1, <3>3
    <3> HIDE DEF h, h2, v, w
    <3>5. v \in Seq(FrameRecord)
      BY <1>0, <3>1
    <3>6. LinkOK(h2, v, cursor, log, epoch, pending)
      BY <1>0, <1>1, <2>0, <2>1, <2>2, <3>3, <3>4, <3>5, GetLink
    <3> QED BY <3>6 DEF h2, v
  <2>4. CASE ~(id <= h.boundary)
    <3>1. wire' = Sent(ws, <<Frame("event", id)>>)
      BY <2>1, <2>4
    <3>2. v \in Seq(FrameRecord)
      BY <2>2, <2>a, <3>1, SentFrame
    <3>3. PICK f \in FrameRecord : /\ f.type = "event" /\ f.id = id /\ f.epoch = epoch
                                   /\ Longer(v, w, f)
      BY <2>2, <2>a, <3>1, SentFrame
    <3>4. /\ IsFront(f.id, h.queue) /\ Moved(h2, h, "top", h.replay, h.queue \ {f.id})
          /\ ~(f.id <= h.boundary)
      BY <2>1, <2>4, <3>3
    <3> HIDE DEF h, h2, v, w
    <3>5. LinkOK(h2, v, cursor, log, epoch, pending)
      BY <1>0, <1>1, <2>0, <2>1, <2>2, <3>2, <3>3, <3>4, GetLink
    <3> QED BY <3>5 DEF h2, v
  <2> QED BY <2>3, <2>4
<1> QED BY <1>2, <1>3, <1>4

LEMMA OtherStep ==
  ASSUME TypeOK, Registered, ws # 0, WakeQueue(ws) \/ HandlerEnds(ws),
         LinkOK(conn[ws], wire[ws], cursor, log, epoch, pending)
  PROVE  LinkOK(conn'[ws], wire'[ws], cursor, log, epoch, pending)
<1>0. ws \in Conn /\ wire[ws] \in Seq(FrameRecord) /\ conn \in [Conn -> ConnRecord]
  BY LinkFacts DEF TypeOK, LinkTypes
<1>1. CASE WakeQueue(ws)
  <2>1. /\ conn[ws].wake /\ wire'[ws] = wire[ws]
        /\ conn'[ws].pc = conn[ws].pc /\ conn'[ws].asked = conn[ws].asked
        /\ conn'[ws].boundary = conn[ws].boundary /\ conn'[ws].replay = conn[ws].replay
        /\ conn'[ws].reason = conn[ws].reason
    BY <1>0, <1>1, WakeEffect
  <2>2. conn'[ws].reason
    BY <1>0, <2>1, RegisteredIs DEF HandlerOK
  <2> QED BY <2>1, <2>2, RetiredLink
<1>2. CASE HandlerEnds(ws)
  <2>1. conn' = [conn EXCEPT ![ws] = Gone]
    BY <1>2 DEF HandlerEnds
  <2>2. conn'[ws].pc = "gone"
    BY <1>0, <2>1, GoneType
  <2>3. CASE wire' = wire
    <3>1. WireInOrder(wire'[ws], cursor, log)
      BY <2>3 DEF LinkOK
    <3> QED BY <2>2, <3>1, OverLink
  <2>4. CASE wire' = Sent(ws, <<Frame("close", 0)>>)
    <3>a. "close" \in FrameType /\ 0 \in Nat
      BY FrameTypesAre
    <3>1. wire'[ws] \in Seq(FrameRecord)
      BY <2>4, <3>a, SentFrame
    <3>2. PICK f \in FrameRecord : f.type = "close" /\ Longer(wire'[ws], wire[ws], f)
      BY <2>4, <3>a, SentFrame
    <3> QED BY <1>0, <2>2, <3>1, <3>2, CloseLink
  <2> QED BY <1>2, <2>3, <2>4 DEF HandlerEnds
<1> QED BY <1>1, <1>2

\* A step of one handler.
LEMMA HandlerStep ==
  ASSUME BusInv, PageInv, NEW c \in Conn,
         \/ SubscribeAfter(c) \/ SendResync(c) \/ SendReplay(c)
         \/ SendReplayDone(c) \/ LiveTop(c) \/ LiveGet(c)
         \/ WakeQueue(c) \/ HandlerEnds(c),
         ws # 0
  PROVE  LinkOK(conn'[ws], wire'[ws], cursor, log, epoch, pending)
<1>0. LinkOK(conn[ws], wire[ws], cursor, log, epoch, pending) /\ ws \in Conn
  BY LinkIs, LinkFacts DEF BusInv
<1>b. TypeOK /\ Windows /\ MarksExact /\ Registered
  BY DEF BusInv
<1>1. CASE c = ws
  BY <1>0, <1>1, <1>b, SubscribeStep, ReplayStep, LiveStep, OtherStep
<1>2. CASE c # ws
  <2>1. wire'[ws] = wire[ws]
    BY <1>0, <1>2, <1>b DEF Sent, SubscribeAfter, SendResync, SendReplay, SendReplayDone,
          LiveTop, LiveGet, EndLive, WakeQueue, HandlerEnds
  <2>2. Alone(c)
    <3>1. HandlerEnds(c) => Alone(c)
      <4>1. HandlerEnds(c) => conn' = [conn EXCEPT ![c] = Gone]
        BY DEF HandlerEnds
      <4>2. conn \in [Conn -> ConnRecord]
        BY <1>b DEF TypeOK, LinkTypes
      <4> QED BY <4>1, <4>2 DEF Alone
    <3>2. LiveTop(c) => Alone(c)
      BY <1>b, TopEffect, EndEffect
    <3>3. LiveGet(c) => Alone(c)
      BY <1>b, GetEffect, EndEffect
    <3> QED BY <1>b, <3>1, <3>2, <3>3, SubscribeEffect, ResyncEffect, ReplayEffect, DoneEffect,
               WakeEffect
  <2>3. conn'[ws] = conn[ws]
    BY <1>0, <1>2, <2>2 DEF Alone
  <2> QED BY <1>0, <2>1, <2>3
<1> QED BY <1>1, <1>2

LEMMA QuietHonest ==
  ASSUME CursorHonest, UNCHANGED <<cursor, joined, delivered, log>>,
         ~accepting' \/ accepting' = accepting
  PROVE  CursorHonest'
<1>1. Honest(cursor, joined, delivered, accepting, log)
  BY HonestIs
<1>2. Honest(cursor, joined, delivered, accepting', log)
  <2>1. CASE accepting' = accepting
    BY <1>1, <2>1
  <2>2. CASE ~accepting'
    BY <1>1, <2>2 DEF Honest
  <2> QED BY <2>1, <2>2
<1>3. Honest(cursor', joined', delivered', accepting', log')
  BY <1>2
<1> QED BY <1>3, HonestIs

\* A handler that does not follow does not depend on the process.
LEMMA IdleLink ==
  ASSUME NEW h, NEW w, NEW cur, NEW lg, NEW e, NEW pend, NEW e2, NEW pend2,
         LinkOK(h, w, cur, lg, e, pend), h.pc \notin Following
  PROVE  LinkOK(h, w, cur, lg, e2, pend2)
<1>1. h.pc # "resync" /\ h.pc # "replay" /\ h.pc \notin {"top", "get"}
  BY FollowingFacts
<1> QED BY <1>1 DEF LinkOK, Placed

\* A handler that follows without a reason to stop is registered with the loop that
\* owns the lifespan.
LEMMA LiveIsRegistered ==
  ASSUME TypeOK, Registered, NEW c \in Conn, conn[c].pc \in Following, ~conn[c].reason
  PROVE  conn[c].registered /\ conn[c].loop = loop /\ loop \in running /\ loop # None
<1>1. HandlerOK(conn[c], loop, running) /\ conn[c].pc \in ServingPc
  BY RegisteredIs, FollowingFacts
<1>2. conn[c].registered /\ conn[c].loop = loop /\ loop \in running
  BY <1>1 DEF HandlerOK
<1>3. loop # None
  BY SMTT(60), <1>2 DEF TypeOK, BusTypes, None
<1> QED BY <1>2, <1>3

LEMMA PublishStep ==
  ASSUME BusInv, PageInv, NEW t \in Topic, Publish(t) PROVE PageInv'
<1>b. TypeOK /\ Registered
  BY DEF BusInv
<1>0. /\ CursorHonest
      /\ ws # 0 => LinkOK(conn[ws], wire[ws], cursor, log, epoch, pending)
  BY LinkIs
<1>1. /\ Enqueue(Len(log[epoch]) + 1)
      /\ UNCHANGED <<epoch, running, generation, conn, wire, clientVars>>
  BY DEF Publish
<1>2. Grown(log', log, epoch, t)
  BY DEF Publish, Grown
<1>3. UNCHANGED <<ws, cursor, accepting, joined, delivered>> /\ conn' = conn /\ wire' = wire /\ epoch' = epoch
  BY <1>1 DEF clientVars
<1>4. log \in [1..MaxEpoch -> Seq(Topic)] /\ epoch \in 1..MaxEpoch /\ cursor \in CursorRecord
  BY <1>b DEF TypeOK, BusTypes, PageTypes
<1>5. Honest(cursor, joined, delivered, accepting, log)
  BY <1>0, HonestIs
<1>6. Honest(cursor, joined, delivered, accepting, log')
  BY <1>2, <1>4, <1>5, GrowHonest
<1>7. CursorHonest'
  BY <1>3, <1>6, HonestIs
<1>8. ASSUME ws # 0 PROVE LinkOK(conn[ws], wire[ws], cursor, log', epoch, pending')
  <2>1. /\ ws \in Conn /\ conn[ws] \in ConnRecord /\ wire[ws] \in Seq(FrameRecord)
        /\ pending \in Seq(Nat)
    BY <1>8, <1>b, LinkFacts
  <2>2. cursor # Lost => cursor.epoch \in 1..MaxEpoch /\ cursor.id <= Len(log[cursor.epoch])
    BY <1>5 DEF Honest
  <2>3. ASSUME conn[ws].pc \in Following, ~conn[ws].reason
        PROVE  pending' = Append(pending, Len(log[epoch]) + 1)
    <3>1. loop \in running /\ loop # None
      BY <1>b, <2>1, <2>3, LiveIsRegistered
    <3> QED BY <1>1, <3>1, EnqueueCases
  <2> DEFINE h == conn[ws]
             w == wire[ws]
  <2>4. LinkOK(h, w, cursor, log, epoch, pending)
    BY <1>0, <1>8
  <2>5. h \in ConnRecord /\ w \in Seq(FrameRecord)
    BY <2>1
  <2>6. h.pc \in Following /\ ~h.reason => pending' = Append(pending, Len(log[epoch]) + 1)
    BY <2>3
  <2> HIDE DEF h, w
  <2>7. LinkOK(h, w, cursor, log', epoch, pending')
    BY <1>2, <1>4, <2>1, <2>2, <2>4, <2>5, <2>6, GrowLink
  <2> QED BY <2>7 DEF h, w
<1> QED BY <1>3, <1>7, <1>8, LinkIs

LEMMA RetireStep ==
  ASSUME BusInv, PageInv, DetachLoop \/ \E l \in 1..MaxLoop : AttachLoop(l) PROVE PageInv'
<1>b. TypeOK /\ Registered
  BY DEF BusInv
<1>0. /\ CursorHonest
      /\ ws # 0 => LinkOK(conn[ws], wire[ws], cursor, log, epoch, pending)
  BY LinkIs
<1>1. /\ UNCHANGED <<epoch, log, wire, clientVars>>
      /\ conn' = Retired(loop) \/ (conn' = conn /\ loop = None)
  BY DEF DetachLoop, AttachLoop
<1>2. UNCHANGED <<ws, cursor, accepting, joined, delivered, log, epoch, wire>>
  BY <1>1 DEF clientVars
<1>3. CursorHonest'
  BY <1>0, <1>2, QuietHonest
<1>4. ASSUME ws # 0
      PROVE  /\ conn'[ws].pc = conn[ws].pc /\ conn'[ws].asked = conn[ws].asked
             /\ conn'[ws].boundary = conn[ws].boundary /\ conn'[ws].replay = conn[ws].replay
             /\ conn[ws].pc \in Following => conn'[ws].reason
  <2>0. ws \in Conn
    BY <1>4, <1>b, LinkFacts
  <2>1. CASE conn' = conn /\ loop = None
    <3>1. conn[ws].pc \in Following => conn[ws].reason
      BY <1>b, <2>0, <2>1, LiveIsRegistered
    <3> QED BY <2>1, <3>1
  <2>2. CASE conn' = Retired(loop)
    <3> DEFINE r == Retired(loop)[ws]
    <3>1. /\ r.pc = conn[ws].pc /\ r.asked = conn[ws].asked
          /\ r.boundary = conn[ws].boundary /\ r.replay = conn[ws].replay
          /\ r = conn[ws] \/ (~r.registered /\ r.reason)
          /\ conn[ws].registered /\ conn[ws].loop = loop => ~r.registered /\ r.reason
      BY <1>b, <2>0, RetiredEffect
    <3>2. conn'[ws] = r
      BY <2>2
    <3> HIDE DEF r
    <3>3. conn[ws].pc \in Following => r.reason
      BY <1>b, <2>0, <3>1, LiveIsRegistered
    <3> QED BY <3>1, <3>2, <3>3
  <2> QED BY <1>1, <2>1, <2>2
<1>5. ASSUME ws # 0 PROVE LinkOK(conn'[ws], wire[ws], cursor, log, epoch, pending')
  BY <1>0, <1>4, <1>5, RetiredLink
<1> QED BY <1>2, <1>3, <1>5, LinkIs

LEMMA DrainStep ==
  ASSUME BusInv, PageInv, NEW l \in 1..MaxLoop, NEW g \in 1..MaxGeneration, DrainDispatch(l, g)
  PROVE  PageInv'
<1>b. TypeOK /\ Registered /\ Windows
  BY DEF BusInv
<1>0. /\ CursorHonest
      /\ ws # 0 => LinkOK(conn[ws], wire[ws], cursor, log, epoch, pending)
  BY LinkIs
<1>1. UNCHANGED <<epoch, log, wire, clientVars>>
  BY DEF DrainDispatch
<1>2. UNCHANGED <<ws, cursor, accepting, joined, delivered, log, epoch, wire>>
  BY <1>1 DEF clientVars
<1>3. CursorHonest'
  BY <1>0, <1>2, QuietHonest
<1>4. ASSUME ws # 0 PROVE LinkOK(conn'[ws], wire[ws], cursor, log, epoch, pending')
  <2> DEFINE h == conn[ws]
             h2 == conn'[ws]
  <2>0. /\ ws \in Conn /\ h \in ConnRecord /\ pending \in Seq(Nat)
        /\ log \in [1..MaxEpoch -> Seq(Topic)] /\ epoch \in 1..MaxEpoch
    BY <1>4, <1>b, LinkFacts
  <2>1. LinkOK(h, wire[ws], cursor, log, epoch, pending) /\ Window(pending, Len(log[epoch]))
    BY <1>0, <1>4, <1>b, WindowsSplit DEF Latest
  <2>2. CASE UNCHANGED <<pending, conn>>
    BY <2>1, <2>2
  <2>3. ASSUME loop = l, NEW n \in 0..Len(pending), Len(pending') = Len(pending) - n,
               \A k \in 1..Len(pending') : pending'[k] = pending[n + k],
               NEW batch \in Seq(Nat), Len(batch) = n, \A k \in 1..n : batch[k] = pending[k],
               conn' = Dispatched(batch, l)
        PROVE  LinkOK(h2, wire[ws], cursor, log, epoch, pending')
    <3>1. /\ h2.pc = h.pc /\ h2.asked = h.asked /\ h2.boundary = h.boundary /\ h2.replay = h.replay
          /\ ~(h.registered /\ h.loop = l) => h2 = h
          /\ h.registered /\ h.loop = l =>
               h2.reason \/ (h2.reason = h.reason
                             /\ h2.queue = h.queue \cup {id \in Ids(batch) : Matches(id)})
      <4> DEFINE r == Dispatched(batch, l)[ws]
      <4>1. /\ r.pc = h.pc /\ r.asked = h.asked /\ r.loop = h.loop
            /\ r.boundary = h.boundary /\ r.replay = h.replay
            /\ r.registered = h.registered /\ r.wake = h.wake
            /\ ~(h.registered /\ h.loop = l) => r = h
            /\ h.registered /\ h.loop = l =>
                 r.reason \/ (r.reason = h.reason
                              /\ r.queue = h.queue \cup {id \in Ids(batch) : Matches(id)})
        BY SMTT(60), <1>b, <2>0, DispatchedEffect
      <4>2. h2 = r
        BY <2>3
      <4> HIDE DEF r, h, h2
      <4> QED BY <4>1, <4>2
    <3>2. pending' \in Seq(Nat)
      <4>1. TypeOK'
        BY <1>b, TypeStep DEF Next
      <4> QED BY <4>1 DEF TypeOK, BusTypes
    <3>3. CASE h.registered /\ h.loop = l
      <4>1. h2.reason \/ (h2.reason = h.reason
              /\ h2.queue = h.queue \cup {id \in Ids(batch) : log[epoch][id] \in Wanted})
        BY <3>1, <3>3 DEF Matches
      <4>2. Handed(h2, h, log, epoch, batch)
        BY <3>1, <4>1 DEF Handed
      <4> DEFINE p == pending'
      <4>3. p \in Seq(Nat) /\ Cut(pending, n, p, batch)
        BY <2>3, <3>2 DEF Cut
      <4>4. n \in Nat
        BY SMTT(60), <2>0
      <4> HIDE DEF h, h2, p
      <4>5. LinkOK(h2, wire[ws], cursor, log, epoch, p)
        BY <2>0, <2>1, <4>2, <4>3, <4>4, DrainLink
      <4> QED BY <4>5 DEF p
    <3>4. CASE ~(h.registered /\ h.loop = l)
      <4>1. h.pc \in Following => h.reason
        BY <1>b, <2>0, <2>3, <3>4, LiveIsRegistered
      <4>2. h2 = h
        BY <3>1, <3>4
      <4> HIDE DEF h, h2
      <4>3. LinkOK(h, wire[ws], cursor, log, epoch, pending')
        BY <2>1, <4>1, RetiredLink
      <4> QED BY <4>2, <4>3
    <3> QED BY <3>3, <3>4
  <2>4. CASE ~UNCHANGED <<pending, conn>>
    <3>1. loop = l /\ \E n \in 0..Len(pending) :
            /\ Len(pending') = Len(pending) - n
            /\ \A k \in 1..Len(pending') : pending'[k] = pending[n + k]
            /\ \E batch \in Seq(Nat) :
                 /\ Len(batch) = n /\ \A k \in 1..n : batch[k] = pending[k]
                 /\ conn' = Dispatched(batch, l)
      BY <1>b, <2>4, DrainCases
    <3> HIDE DEF h, h2
    <3>2. LinkOK(h2, wire[ws], cursor, log, epoch, pending')
      BY <2>3, <3>1
    <3> QED BY <3>2 DEF h2
  <2> QED BY <2>2, <2>4
<1> QED BY <1>2, <1>3, <1>4, LinkIs

LEMMA DropStep ==
  ASSUME BusInv, PageInv, ServerRestart \/ \E l \in 1..MaxLoop : LoopEnds(l) PROVE PageInv'
<1>b. TypeOK
  BY DEF BusInv
<1>0. /\ CursorHonest
      /\ ws # 0 => LinkOK(conn[ws], wire[ws], cursor, log, epoch, pending)
  BY LinkIs
<1>1. /\ UNCHANGED <<log, clientVars>>
      /\ \E C : /\ Dropped(C)
                /\ UNCHANGED <<epoch, pending>> \/ C = {c \in Conn : Serving(c)}
  BY DEF ServerRestart, LoopEnds
<1>2. UNCHANGED <<ws, cursor, accepting, joined, delivered, log>>
  BY <1>1 DEF clientVars
<1>3. CursorHonest'
  BY <1>0, <1>2, QuietHonest
<1>4. ASSUME ws # 0 PROVE LinkOK(conn'[ws], wire'[ws], cursor, log, epoch', pending')
  <2>0. ws \in Conn /\ wire[ws] \in Seq(FrameRecord)
    BY <1>4, <1>b, LinkFacts
  <2>1. PICK C : /\ Dropped(C)
                 /\ UNCHANGED <<epoch, pending>> \/ C = {c \in Conn : Serving(c)}
    BY <1>1
  <2>2. /\ conn'[ws] = IF ws \in C THEN Gone ELSE conn[ws]
        /\ wire'[ws] = IF ws \in C THEN wire[ws] \o <<Frame("close", 0)>> ELSE wire[ws]
    BY <1>b, <2>0, <2>1, DroppedEffect
  <2>3. LinkOK(conn[ws], wire[ws], cursor, log, epoch, pending)
    BY <1>0, <1>4
  <2>4. CASE ws \in C
    <3>1. conn'[ws] = Gone /\ wire'[ws] = wire[ws] \o <<Frame("close", 0)>>
      BY <2>2, <2>4
    <3>2. PICK f \in FrameRecord : f = Frame("close", 0)
      BY <1>b, FrameTypes, FrameTypesAre
    <3>3. f.type = "close"
      BY <3>2 DEF Frame
    <3>4. wire'[ws] = wire[ws] \o <<f>>
      BY <3>1, <3>2
    <3>5. wire'[ws] \in Seq(FrameRecord) /\ Longer(wire'[ws], wire[ws], f)
      BY SMTT(60), <2>0, <3>4, SendOne DEF Longer
    <3>6. conn'[ws].pc = "gone"
      BY <3>1, GoneType
    <3> QED BY <2>0, <2>3, <3>3, <3>5, <3>6, CloseLink
  <2>5. CASE ws \notin C
    <3>1. conn'[ws] = conn[ws] /\ wire'[ws] = wire[ws]
      BY <2>2, <2>5
    <3>2. CASE UNCHANGED <<epoch, pending>>
      BY <2>3, <3>1, <3>2
    <3>3. CASE C = {c \in Conn : Serving(c)}
      <4>1. conn[ws].pc \notin ServingPc
        BY <2>0, <2>5, <3>3 DEF Serving, ServingPc
      <4>2. conn[ws].pc \notin Following
        BY <4>1, FollowingFacts
      <4>3. LinkOK(conn[ws], wire[ws], cursor, log, epoch', pending')
        BY <2>3, <4>2, IdleLink
      <4> QED BY <3>1, <4>3
    <3> QED BY <2>1, <3>2, <3>3
  <2> QED BY <2>4, <2>5
<1> QED BY <1>2, <1>3, <1>4, LinkIs

LEMMA ConnectStep ==
  ASSUME BusInv, PageInv, NEW c \in Conn, Start(c) \/ ReconnectTimer(c) PROVE PageInv'
<1>b. TypeOK /\ OneSocket
  BY DEF BusInv
<1>0. CursorHonest
  BY LinkIs
<1>1. Connect(c) /\ UNCHANGED <<busVars, wire, cursor, joined, delivered>> /\ (timer \/ ~active)
  BY DEF Start, ReconnectTimer
<1>2. UNCHANGED <<log, cursor, joined, delivered>> /\ ~accepting' /\ wire' = wire
  BY <1>1 DEF busVars, Connect
<1>3. CursorHonest'
  BY <1>0, <1>2, QuietHonest
<1>4. ws' = c /\ conn'[c].pc = "connecting" /\ conn'[c].asked = cursor
  BY <1>1, <1>b, ConnectEffect
<1>5. wire'[c] = <<>>
  <2>1. ws = 0
    BY <1>1, <1>b DEF OneSocket
  <2>2. c # ws
    BY SMTT(60), <2>1 DEF Conn
  <2> QED BY <1>2, <1>b, <2>2 DEF OneSocket
<1>6. LinkOK(conn'[c], <<>>, cursor', log', epoch', pending')
  <2>1. WireInOrder(<<>>, cursor', log')
    BY SMTT(60) DEF WireInOrder
  <2>2. conn'[c].pc \notin Following
    BY <1>4, FollowingFacts
  <2>3. Placed(conn'[c], <<>>, cursor', log', epoch')
    <3>1. conn'[c].asked = cursor'
      BY <1>2, <1>4
    <3> QED BY <1>4, <2>2, <3>1 DEF Placed
  <2> QED BY <2>1, <2>2, <2>3 DEF LinkOK
<1> QED BY <1>3, <1>4, <1>5, <1>6, LinkIs

LEMMA LeaveStep ==
  ASSUME BusInv, PageInv, Stop \/ SocketLost \/ HandleDisconnect(ws) PROVE PageInv'
<1>0. CursorHonest
  BY LinkIs
<1>1. UNCHANGED <<busVars, cursor, joined, delivered>> /\ ~accepting' /\ ws' = 0
  BY DEF Stop, SocketLost, HandleDisconnect, LetGo
<1>2. CursorHonest'
  BY <1>0, <1>1, QuietHonest DEF busVars
<1> QED BY <1>1, <1>2, LinkIs

LEMMA ReceiveStep ==
  ASSUME BusInv, PageInv, Receive PROVE PageInv' /\ (HandleDisconnect(ws) \/ PageMove)
<1>b. TypeOK
  BY DEF BusInv
<1>0. ws # 0
  BY DEF Receive
<1>1. CursorHonest /\ LinkOK(conn[ws], wire[ws], cursor, log, epoch, pending)
  BY <1>0, LinkIs
<1>2. CASE Head(wire[ws]).type = "close"
  <2>1. HandleDisconnect(ws)
    BY <1>2 DEF Receive
  <2> QED BY <2>1, LeaveStep
<1>3. CASE Head(wire[ws]).type # "close"
  <2>1. WireInOrder(wire[ws], cursor, log)
    BY <1>1 DEF LinkOK
  <2>2. /\ wire'[ws] \in Seq(FrameRecord) /\ Reads(wire'[ws], wire[ws], cursor, cursor')
        /\ CursorHonest' /\ PageMove /\ UNCHANGED <<busVars, conn, ws>>
    BY <1>1, <1>3, <1>b, <2>1, ReadFrame
  <2>3. wire[ws] \in Seq(FrameRecord)
    BY <1>0, <1>b, LinkFacts
  <2>4. LinkOK(conn[ws], wire'[ws], cursor', log, epoch, pending)
    BY <1>1, <2>2, <2>3, ReadLink
  <2>5. UNCHANGED <<log, epoch, pending, conn, ws>>
    BY <2>2 DEF busVars
  <2> QED BY <2>2, <2>4, <2>5, LinkIs
<1> QED BY <1>2, <1>3

LEMMA PageStep == ASSUME BusInv, PageInv, [Next]_vars PROVE PageInv'
<1>1. ASSUME NEW c \in Conn, \/ SubscribeAfter(c) \/ SendResync(c) \/ SendReplay(c)
                             \/ SendReplayDone(c) \/ LiveTop(c) \/ LiveGet(c)
                             \/ WakeQueue(c) \/ HandlerEnds(c)
      PROVE  PageInv'
  <2>1. UNCHANGED <<busVars, clientVars>>
    BY <1>1, HandlerFrame
  <2>2. UNCHANGED <<log, epoch, pending, cursor, ws, accepting, joined, delivered>>
    BY <2>1 DEF busVars, clientVars
  <2>3. CursorHonest'
    BY <2>2, LinkIs, QuietHonest
  <2>4. ws # 0 => LinkOK(conn'[ws], wire'[ws], cursor, log, epoch, pending)
    BY <1>1, HandlerStep
  <2> QED BY <2>2, <2>3, <2>4, LinkIs
<1>2. CASE UNCHANGED vars
  <2>1. UNCHANGED <<log, epoch, pending, conn, wire, cursor, ws, accepting, joined, delivered>>
    BY <1>2 DEF vars, busVars, clientVars
  <2>2. CursorHonest'
    BY <2>1, LinkIs, QuietHonest
  <2> QED BY <2>1, <2>2, LinkIs
<1> QED BY <1>1, <1>2, PublishStep, RetireStep, DrainStep, DropStep, ConnectStep, LeaveStep,
           ReceiveStep, StepCases

-----------------------------------------------------------------------------
(* The invariant, and the promise.                                         *)

LEMMA StartPage == Init => BusInv /\ PageInv
<1> SUFFICES ASSUME Init PROVE BusInv /\ PageInv
  OBVIOUS
<1>1. Honest(cursor, joined, delivered, accepting, log)
  BY DEF Init, Honest
<1>2. ws = 0
  BY DEF Init
<1> QED BY <1>1, <1>2, StartBusInv, HonestIs, LinkIs

LEMMA InvStep == BusInv /\ PageInv /\ [Next]_vars => (BusInv /\ PageInv)'
BY BusStep, PageStep

\* The cursor with which the page will ask to resume never lies ahead of what its
\* handlers were given, whatever the sockets, the loops and the processes did: no
\* event that subscribe_after would leave out of a replay is one the page lacks.
THEOREM CursorNeverAhead == Spec => []CursorHonest
<1>1. BusInv /\ PageInv => CursorHonest
  BY LinkIs
<1> QED BY <1>1, StartPage, InvStep, PTL DEF Spec

LEMMA FeedStep == ASSUME BusInv, PageInv, [Next]_vars PROVE [Feed!Next]_Feed!feedVars
<1>0. UNCHANGED <<epoch, log, joined, delivered>> => [Feed!Next]_Feed!feedVars
  BY DEF Feed!feedVars
<1>1. ASSUME NEW t \in Topic, Publish(t) PROVE Feed!Next
  <2>1. log' = [log EXCEPT ![epoch] = Append(@, t)] /\ UNCHANGED <<epoch, clientVars>>
    BY <1>1 DEF Publish
  <2>2. UNCHANGED <<epoch, joined, delivered>>
    BY <2>1 DEF clientVars
  <2>3. Feed!Publish(t)
    BY <2>1, <2>2 DEF Feed!Publish
  <2> QED BY <2>3 DEF Feed!Next
<1>2. CASE ServerRestart
  <2>1. epoch < MaxEpoch /\ epoch' = epoch + 1 /\ UNCHANGED <<log, clientVars>>
    BY <1>2 DEF ServerRestart
  <2>2. UNCHANGED <<log, joined, delivered>>
    BY <2>1 DEF clientVars
  <2>3. Feed!Restart
    BY <2>1, <2>2 DEF Feed!Restart
  <2> QED BY <2>3 DEF Feed!Next
<1>3. CASE Receive
  <2>1. HandleDisconnect(ws) \/ PageMove
    BY <1>3, ReceiveStep
  <2>2. HandleDisconnect(ws) => UNCHANGED <<epoch, log, joined, delivered>>
    BY DEF HandleDisconnect, busVars
  <2>3. UNCHANGED <<epoch, log>>
    BY <1>3, <2>2, ReceiveCases DEF busVars
  <2>4. ASSUME PageMove PROVE [Feed!Next]_Feed!feedVars
    <3>0. Feed!Lost = Lost
      BY DEF Feed!Lost, Lost
    <3>1. CASE UNCHANGED <<joined, delivered>>
      BY <1>0, <2>3, <3>1
    <3>2. CASE joined # Lost /\ joined' = Lost /\ delivered' = <<>>
      <4>1. Feed!Lose
        BY <2>3, <3>0, <3>2 DEF Feed!Lose
      <4> QED BY <4>1 DEF Feed!Next
    <3>3. CASE /\ joined = Lost /\ UNCHANGED delivered
               /\ \E e \in 1..MaxEpoch : \E i \in 0..Len(log[e]) : joined' = [id |-> i, epoch |-> e]
      <4>1. PICK e \in 1..MaxEpoch : \E i \in 0..Len(log[e]) : joined' = [id |-> i, epoch |-> e]
        BY <3>3
      <4>2. PICK i \in 0..Len(log[e]) : joined' = [id |-> i, epoch |-> e]
        BY <4>1
      <4>3. Feed!Join(e, i)
        BY <2>3, <3>0, <3>3, <4>2 DEF Feed!Join
      <4> QED BY <4>3 DEF Feed!Next
    <3>4. CASE /\ joined # Lost /\ UNCHANGED joined
               /\ \E i \in WantedOf(log, joined.epoch) :
                    /\ i > Got(joined, delivered)
                    /\ \A k \in WantedOf(log, joined.epoch) : k > Got(joined, delivered) => i <= k
                    /\ delivered' = Append(delivered, i)
      <4>1. PICK i \in WantedOf(log, joined.epoch) :
              /\ i > Got(joined, delivered)
              /\ \A k \in WantedOf(log, joined.epoch) : k > Got(joined, delivered) => i <= k
              /\ delivered' = Append(delivered, i)
        BY <3>4
      <4>2. Feed!WantedIn(joined.epoch) = WantedOf(log, joined.epoch) /\ Feed!Reached = Got(joined, delivered)
        BY DEF Feed!WantedIn, WantedOf, Feed!Reached, Got
      <4>3. Feed!Deliver(i)
        BY <2>3, <3>0, <3>4, <4>1, <4>2 DEF Feed!Deliver, Feed!Outstanding
      <4> QED BY <3>0, <3>4, <4>2, <4>3 DEF Feed!Next
    <3> QED BY <2>4, <3>1, <3>2, <3>3, <3>4 DEF PageMove
  <2> QED BY <1>0, <2>1, <2>2, <2>4
<1>4. ASSUME NEW c \in Conn, \/ SubscribeAfter(c) \/ SendResync(c) \/ SendReplay(c)
                             \/ SendReplayDone(c) \/ LiveTop(c) \/ LiveGet(c)
                             \/ WakeQueue(c) \/ HandlerEnds(c)
      PROVE  UNCHANGED <<epoch, log, joined, delivered>>
  BY <1>4, HandlerFrame DEF busVars, clientVars
<1>5. ASSUME NEW c \in Conn, Start(c) \/ ReconnectTimer(c)
      PROVE  UNCHANGED <<epoch, log, joined, delivered>>
  BY <1>5 DEF Start, ReconnectTimer, busVars
<1>6. CASE Stop \/ SocketLost
  <2>1. UNCHANGED <<epoch, log, joined, delivered>>
    BY <1>6 DEF Stop, SocketLost, HandleDisconnect, busVars
  <2> QED BY <1>0, <2>1
<1>7. CASE \/ \E l \in 1..MaxLoop : AttachLoop(l) \/ LoopEnds(l)
           \/ \E l \in 1..MaxLoop, g \in 1..MaxGeneration : DrainDispatch(l, g)
           \/ DetachLoop
  <2>1. UNCHANGED <<epoch, log, clientVars>>
    BY <1>7 DEF AttachLoop, LoopEnds, DrainDispatch, DetachLoop
  <2> QED BY <1>0, <2>1 DEF clientVars
<1>8. CASE UNCHANGED vars
  BY <1>0, <1>8 DEF vars, busVars, clientVars
<1> QED BY <1>0, <1>1, <1>2, <1>3, <1>4, <1>5, <1>6, <1>7, <1>8, StepCases

\* The cursor protocol of subscribe_after, ws_events and HubEventClient keeps the
\* promise of OrderedFeed for any number of events, processes, lifespans, sockets and
\* faults and any capacity of history and queues: from where the page joined it is
\* handed every wanted event once and in order, or told first that it must reload.
THEOREM StreamKeepsThePromise == Spec => KeepsThePromise
<1>1. Init => Feed!Init
  BY DEF Init, Feed!Init, Feed!Lost, Lost
<1>2. BusInv /\ PageInv /\ [Next]_vars => [Feed!Next]_Feed!feedVars
  BY FeedStep
<1> QED BY <1>1, <1>2, StartPage, InvStep, PTL DEF Spec, KeepsThePromise, Feed!Spec
=============================================================================
