-------------------------- MODULE EventBusProofs --------------------------
(***************************************************************************)
(* Proofs about EventStream: the shape of every variable, what the bus     *)
(* holds and who owns a subscription, for every value of the constants.    *)
(***************************************************************************)
EXTENDS EventInvariants, TLAPS

\* A leaf is left to Zenon unless it names SMT: most are first-order.
USE ZenonT(30)

-----------------------------------------------------------------------------
(* Sequences.                                                              *)

LEMMA AppendFacts ==
  ASSUME NEW S, NEW s \in Seq(S), NEW x \in S
  PROVE  /\ Append(s, x) \in Seq(S)
         /\ Len(Append(s, x)) = Len(s) + 1
         /\ \A k \in 1..Len(s) : Append(s, x)[k] = s[k]
         /\ Append(s, x)[Len(s) + 1] = x
BY SMTT(60)

LEMMA ConcatFacts ==
  ASSUME NEW S, NEW s \in Seq(S), NEW t \in Seq(S)
  PROVE  /\ s \o t \in Seq(S)
         /\ Len(s \o t) = Len(s) + Len(t)
         /\ \A k \in 1..Len(s) : (s \o t)[k] = s[k]
         /\ \A k \in 1..Len(t) : (s \o t)[Len(s) + k] = t[k]
BY SMTT(60)

LEMMA SameSequence ==
  ASSUME NEW S, NEW s \in Seq(S), NEW t \in Seq(S),
         Len(s) = Len(t), \A k \in 1..Len(s) : s[k] = t[k]
  PROVE  s = t
BY SMTT(60)

LEMMA SubSeqFacts ==
  ASSUME NEW S, NEW s \in Seq(S), NEW m \in 1..(Len(s) + 1), NEW n \in (m - 1)..Len(s)
  PROVE  /\ SubSeq(s, m, n) \in Seq(S)
         /\ Len(SubSeq(s, m, n)) = n - m + 1
         /\ \A k \in 1..(n - m + 1) : SubSeq(s, m, n)[k] = s[m + k - 1]
BY SMTT(60)

\* Sending one frame puts it behind what is on the wire.
LEMMA SendOne ==
  ASSUME NEW w \in Seq(FrameRecord), NEW f \in FrameRecord
  PROVE  /\ w \o <<f>> \in Seq(FrameRecord)
         /\ Len(w \o <<f>>) = Len(w) + 1
         /\ \A k \in 1..Len(w) : (w \o <<f>>)[k] = w[k]
         /\ (w \o <<f>>)[Len(w) + 1] = f
<1>1. <<f>> \in Seq(FrameRecord) /\ Len(<<f>>) = 1 /\ <<f>>[1] = f
  BY SMTT(60)
<1> QED BY SMTT(60), <1>1, ConcatFacts

-----------------------------------------------------------------------------
(* Types.                                                                  *)

LEMMA StartTypes == Init => TypeOK
<1> SUFFICES ASSUME Init PROVE TypeOK
  OBVIOUS
<1>0. /\ 1 \in 1..MaxEpoch /\ 0 \in 0..MaxLoop /\ 0 \in 0..MaxGeneration
      /\ 0 \in 0..MaxConn /\ 0 \in 0..MaxEpoch
  BY SMTT(60), StreamAssumption
<1>1. BusTypes
  BY SMTT(60), <1>0 DEF Init, BusTypes, None
<1>2. Unused \in ConnRecord /\ Lost \in CursorRecord
  BY <1>0 DEF Unused, Blank, ConnRecord, HandlerPc, CursorRecord, Lost
<1>3. LinkTypes
  BY SMTT(60), <1>0, <1>2 DEF Init, LinkTypes
<1>4. PageTypes
  BY SMTT(60), <1>2 DEF Init, PageTypes
<1>5. FlagTypes
  BY DEF Init, FlagTypes
<1> QED BY <1>1, <1>3, <1>4, <1>5 DEF TypeOK

LEMMA SentTypes ==
  ASSUME TypeOK, NEW c \in Conn, NEW frames \in Seq(FrameRecord)
  PROVE  /\ Sent(c, frames) \in [Conn -> Seq(FrameRecord)]
         /\ \A d \in Conn : Sent(c, frames)[d] = IF d = c /\ c = ws THEN wire[d] \o frames ELSE wire[d]
<1>1. wire \in [Conn -> Seq(FrameRecord)]
  BY DEF TypeOK, LinkTypes
<1>2. wire[c] \o frames \in Seq(FrameRecord)
  BY <1>1, ConcatFacts
<1> QED BY <1>1, <1>2 DEF Sent

LEMMA FrameTypes ==
  ASSUME TypeOK, NEW id \in Nat, NEW type \in FrameType
  PROVE  Frame(type, id) \in FrameRecord
BY DEF TypeOK, BusTypes, Frame, FrameRecord

LEMMA GoneType == Gone \in ConnRecord /\ Gone.pc = "gone" /\ ~Gone.registered /\ ~Gone.wake
<1>1. Gone = [pc |-> "gone", asked |-> Lost, loop |-> 0, boundary |-> 0, replay |-> {},
              queue |-> {}, registered |-> FALSE, wake |-> FALSE, reason |-> FALSE]
  BY DEF Gone, Blank
<1>2. Lost \in CursorRecord /\ 0 \in 0..MaxLoop
  BY SMTT(60), StreamAssumption DEF Lost, CursorRecord
<1> QED BY <1>1, <1>2 DEF ConnRecord, HandlerPc

\* What is replayed are ids of the history.
LEMMA ReplayType ==
  ASSUME TypeOK, NEW asked PROVE ReplayEvents(asked) \subseteq Nat
<1>1. Ids(history) \subseteq Nat
  BY SMTT(60) DEF TypeOK, BusTypes, Ids
<1> QED BY <1>1 DEF ReplayEvents

\* What each step does to a handler keeps the shape of its record.
LEMMA ConnTypes ==
  ASSUME TypeOK, NEW c \in Conn
  PROVE  /\ SubscribeAfter(c) => conn' \in [Conn -> ConnRecord]
         /\ SendResync(c) => conn' \in [Conn -> ConnRecord]
         /\ SendReplay(c) => conn' \in [Conn -> ConnRecord]
         /\ SendReplayDone(c) => conn' \in [Conn -> ConnRecord]
         /\ LiveTop(c) => conn' \in [Conn -> ConnRecord]
         /\ LiveGet(c) => conn' \in [Conn -> ConnRecord]
         /\ WakeQueue(c) => conn' \in [Conn -> ConnRecord]
         /\ HandlerEnds(c) => conn' \in [Conn -> ConnRecord]
<1>0. conn \in [Conn -> ConnRecord] /\ conn[c] \in ConnRecord
  BY DEF TypeOK, LinkTypes
<1>1. SendResync(c) => conn' \in [Conn -> ConnRecord]
  BY SMTT(60), <1>0 DEF SendResync, ConnRecord, HandlerPc
<1>2. ASSUME SubscribeAfter(c) PROVE conn' \in [Conn -> ConnRecord]
  <2>1. PICK p \in {"resync", "replay"}, r \in SUBSET Nat, b \in BOOLEAN :
          conn' = [conn EXCEPT ![c].pc = p, ![c].loop = loop, ![c].boundary = Len(log[epoch]),
                               ![c].replay = r, ![c].registered = b]
    BY <1>2, ReplayType DEF SubscribeAfter
  <2>2. loop \in 0..MaxLoop /\ Len(log[epoch]) \in Nat
    BY SMTT(60) DEF TypeOK, BusTypes
  <2> QED BY <1>0, <2>1, <2>2 DEF ConnRecord, HandlerPc
<1>3. ASSUME SendReplay(c) PROVE conn' \in [Conn -> ConnRecord]
  <2>1. PICK id \in conn[c].replay :
          conn' = [conn EXCEPT ![c].replay = conn[c].replay \ {id}]
    BY <1>3 DEF SendReplay
  <2> QED BY <1>0, <2>1 DEF ConnRecord
<1>4. SendReplayDone(c) => conn' \in [Conn -> ConnRecord]
  BY SMTT(60), <1>0 DEF SendReplayDone, ConnRecord, HandlerPc
<1>5. ASSUME EndLive(c) PROVE conn' \in [Conn -> ConnRecord]
  <2>1. "ended" \in HandlerPc /\ {} \in SUBSET Nat
    BY DEF HandlerPc
  <2>2. PICK p \in HandlerPc, q \in SUBSET Nat : conn' = [conn EXCEPT ![c].pc = p, ![c].queue = q]
    BY <1>5, <2>1 DEF EndLive
  <2> QED BY <1>0, <2>2 DEF ConnRecord
<1>6. LiveTop(c) => conn' \in [Conn -> ConnRecord]
  BY SMTT(60), <1>0, <1>5 DEF LiveTop, ConnRecord, HandlerPc
<1>7. ASSUME LiveGet(c) PROVE conn' \in [Conn -> ConnRecord]
  <2>1. PICK id \in conn[c].queue :
          \/ EndLive(c)
          \/ conn' = [conn EXCEPT ![c].queue = conn[c].queue \ {id}, ![c].pc = "top"]
    BY <1>7 DEF LiveGet
  <2> QED BY SMTT(60), <1>0, <1>5, <2>1 DEF ConnRecord, HandlerPc
<1>8. ASSUME WakeQueue(c) PROVE conn' \in [Conn -> ConnRecord]
  <2>1. {None} \in SUBSET Nat
    BY SMTT(60) DEF None
  <2>2. PICK b \in BOOLEAN, q \in SUBSET Nat : conn' = [conn EXCEPT ![c].wake = b, ![c].queue = q]
    BY <1>8, <2>1 DEF WakeQueue
  <2> QED BY <1>0, <2>2 DEF ConnRecord
<1>9. HandlerEnds(c) => conn' \in [Conn -> ConnRecord]
  BY <1>0, GoneType DEF HandlerEnds
<1> QED BY <1>1, <1>2, <1>3, <1>4, <1>6, <1>7, <1>8, <1>9

\* A retired subscription is not registered and has its reason; nothing else of
\* it changes but the wake-up posted to it.
LEMMA RetiredEffect ==
  ASSUME TypeOK, NEW l
  PROVE  /\ Retired(l) \in [Conn -> ConnRecord]
         /\ \A c \in Conn :
              LET r == Retired(l)[c] IN
              /\ r.pc = conn[c].pc /\ r.asked = conn[c].asked /\ r.loop = conn[c].loop
              /\ r.boundary = conn[c].boundary /\ r.replay = conn[c].replay
              /\ r.queue = conn[c].queue
              /\ r = conn[c] \/ (~r.registered /\ r.reason)
              /\ conn[c].registered /\ conn[c].loop = l => ~r.registered /\ r.reason
              /\ ~(conn[c].registered /\ conn[c].loop = l) => r = conn[c]
<1>0. conn \in [Conn -> ConnRecord]
  BY DEF TypeOK, LinkTypes
<1>1. ASSUME NEW c \in Conn
      PROVE  LET r == Retired(l)[c] IN
             /\ r \in ConnRecord
             /\ r.pc = conn[c].pc /\ r.asked = conn[c].asked /\ r.loop = conn[c].loop
             /\ r.boundary = conn[c].boundary /\ r.replay = conn[c].replay
             /\ r.queue = conn[c].queue
             /\ r = conn[c] \/ (~r.registered /\ r.reason)
             /\ conn[c].registered /\ conn[c].loop = l => ~r.registered /\ r.reason
             /\ ~(conn[c].registered /\ conn[c].loop = l) => r = conn[c]
  <2>1. CASE conn[c].registered /\ conn[c].loop = l
    <3>1. Retired(l)[c] = [conn[c] EXCEPT !.registered = FALSE, !.reason = TRUE, !.wake = l \in running]
      BY <2>1 DEF Retired
    <3>2. (l \in running) \in BOOLEAN
      BY SMTT(60)
    <3>3. PICK b1 \in BOOLEAN, b2 \in BOOLEAN, b3 \in BOOLEAN :
            ~b1 /\ b2 /\ Retired(l)[c] = [conn[c] EXCEPT !.registered = b1, !.reason = b2, !.wake = b3]
      BY <3>1, <3>2
    <3>4. conn[c] \in ConnRecord
      BY <1>0
    <3> HIDE DEF Retired
    <3> DEFINE r == Retired(l)[c]
    <3>5. /\ r \in ConnRecord
          /\ r.pc = conn[c].pc /\ r.asked = conn[c].asked /\ r.loop = conn[c].loop
          /\ r.boundary = conn[c].boundary /\ r.replay = conn[c].replay
          /\ r.queue = conn[c].queue /\ ~r.registered /\ r.reason
      BY <3>3, <3>4 DEF ConnRecord
    <3> HIDE DEF r
    <3>6. r = Retired(l)[c]
      BY DEF r
    <3> QED BY <2>1, <3>5, <3>6
  <2>2. CASE ~(conn[c].registered /\ conn[c].loop = l)
    <3>1. Retired(l)[c] = conn[c]
      BY <2>2 DEF Retired
    <3>2. conn[c] \in ConnRecord
      BY <1>0
    <3> QED BY <2>2, <3>1, <3>2
  <2> QED BY <2>1, <2>2
<1>2. Retired(l) = [c \in Conn |-> Retired(l)[c]]
  BY DEF Retired
<1> QED BY <1>1, <1>2

\* An offer puts all of the events into the queue, or gives the subscription a
\* reason to end; nothing else of it changes.
LEMMA OfferEffect ==
  ASSUME NEW sub \in ConnRecord, NEW ids \in SUBSET Nat
  PROVE  LET r == Offer(sub, ids) IN
         /\ r \in ConnRecord
         /\ r.pc = sub.pc /\ r.asked = sub.asked /\ r.loop = sub.loop
         /\ r.boundary = sub.boundary /\ r.replay = sub.replay
         /\ r.registered = sub.registered /\ r.wake = sub.wake
         /\ r.reason \/ (r.reason = sub.reason /\ r.queue = sub.queue \cup ids)
<1>1. CASE Cardinality(sub.queue \cup ids) <= QueueLen
  <2>1. PICK q \in SUBSET Nat : q = sub.queue \cup ids
    BY DEF ConnRecord
  <2>2. Offer(sub, ids) = [sub EXCEPT !.queue = q]
    BY <1>1, <2>1 DEF Offer
  <2> QED BY <2>1, <2>2 DEF ConnRecord
<1>2. CASE ~(Cardinality(sub.queue \cup ids) <= QueueLen)
  <2>1. {None} \in SUBSET Nat
    BY SMTT(60) DEF None
  <2>2. Offer(sub, ids) = [sub EXCEPT !.queue = {None}, !.reason = TRUE]
    BY <1>2 DEF Offer
  <2>3. PICK b \in BOOLEAN, q \in SUBSET Nat : b /\ Offer(sub, ids) = [sub EXCEPT !.queue = q, !.reason = b]
    BY <2>1, <2>2
  <2> QED BY <2>3 DEF ConnRecord
<1> QED BY <1>1, <1>2

LEMMA DispatchedEffect ==
  ASSUME TypeOK, NEW batch \in Seq(Nat), NEW l
  PROVE  /\ Dispatched(batch, l) \in [Conn -> ConnRecord]
         /\ \A c \in Conn :
              LET r == Dispatched(batch, l)[c] IN
              /\ r.pc = conn[c].pc /\ r.asked = conn[c].asked /\ r.loop = conn[c].loop
              /\ r.boundary = conn[c].boundary /\ r.replay = conn[c].replay
              /\ r.registered = conn[c].registered /\ r.wake = conn[c].wake
              /\ ~(conn[c].registered /\ conn[c].loop = l) => r = conn[c]
              /\ conn[c].registered /\ conn[c].loop = l =>
                   r.reason \/ (r.reason = conn[c].reason
                                /\ r.queue = conn[c].queue \cup {id \in Ids(batch) : Matches(id)})
<1>0. conn \in [Conn -> ConnRecord] /\ {id \in Ids(batch) : Matches(id)} \in SUBSET Nat
  BY SMTT(60) DEF TypeOK, LinkTypes, Ids
<1>1. ASSUME NEW c \in Conn
      PROVE  LET r == Dispatched(batch, l)[c] IN
             /\ r \in ConnRecord
             /\ r.pc = conn[c].pc /\ r.asked = conn[c].asked /\ r.loop = conn[c].loop
             /\ r.boundary = conn[c].boundary /\ r.replay = conn[c].replay
             /\ r.registered = conn[c].registered /\ r.wake = conn[c].wake
             /\ ~(conn[c].registered /\ conn[c].loop = l) => r = conn[c]
             /\ conn[c].registered /\ conn[c].loop = l =>
                  r.reason \/ (r.reason = conn[c].reason
                               /\ r.queue = conn[c].queue \cup {id \in Ids(batch) : Matches(id)})
  <2>0. conn[c] \in ConnRecord
    BY <1>0
  <2>1. CASE conn[c].registered /\ conn[c].loop = l
    <3>1. Dispatched(batch, l)[c] = Offer(conn[c], {id \in Ids(batch) : Matches(id)})
      BY <2>1 DEF Dispatched
    <3> DEFINE ids == {id \in Ids(batch) : Matches(id)}
               r == Offer(conn[c], ids)
    <3>2. /\ r \in ConnRecord
          /\ r.pc = conn[c].pc /\ r.asked = conn[c].asked /\ r.loop = conn[c].loop
          /\ r.boundary = conn[c].boundary /\ r.replay = conn[c].replay
          /\ r.registered = conn[c].registered /\ r.wake = conn[c].wake
          /\ r.reason \/ (r.reason = conn[c].reason /\ r.queue = conn[c].queue \cup ids)
      <4> HIDE DEF ids
      <4>1. ids \in SUBSET Nat
        BY <1>0 DEF ids
      <4> QED BY <2>0, <4>1, OfferEffect
    <3>3. Dispatched(batch, l)[c] = r
      BY <3>1
    <3> HIDE DEF r
    <3> QED BY <2>1, <3>2, <3>3
  <2>2. CASE ~(conn[c].registered /\ conn[c].loop = l)
    <3>1. Dispatched(batch, l)[c] = conn[c]
      BY <2>2 DEF Dispatched
    <3> QED BY <2>0, <2>2, <3>1
  <2> QED BY <2>1, <2>2
<1>2. Dispatched(batch, l) = [c \in Conn |-> Dispatched(batch, l)[c]]
  BY DEF Dispatched
<1> QED BY <1>1, <1>2

\* A handler whose process or loop dies is gone, and its socket closes.
LEMMA DroppedEffect ==
  ASSUME TypeOK, NEW C, Dropped(C)
  PROVE  /\ conn' \in [Conn -> ConnRecord] /\ wire' \in [Conn -> Seq(FrameRecord)]
         /\ \A c \in Conn : /\ conn'[c] = IF c \in C THEN Gone ELSE conn[c]
                            /\ wire'[c] = IF c \in C /\ c = ws THEN wire[c] \o <<Frame("close", 0)>>
                                          ELSE wire[c]
<1>0. conn \in [Conn -> ConnRecord] /\ wire \in [Conn -> Seq(FrameRecord)]
  BY DEF TypeOK, LinkTypes
<1>1. Frame("close", 0) \in FrameRecord
  BY FrameTypes DEF FrameType
<1>2. \A c \in Conn : /\ conn'[c] = IF c \in C THEN Gone ELSE conn[c]
                      /\ wire'[c] = IF c \in C /\ c = ws THEN Append(wire[c], Frame("close", 0))
                                    ELSE wire[c]
  BY DEF Dropped
<1>3. conn' \in [Conn -> ConnRecord]
  BY <1>0, GoneType DEF Dropped
<1>4. ASSUME NEW w \in Seq(FrameRecord), NEW f \in FrameRecord
      PROVE  Append(w, f) = w \o <<f>> /\ Append(w, f) \in Seq(FrameRecord)
  <2>1. Append(w, f) \in Seq(FrameRecord) /\ w \o <<f>> \in Seq(FrameRecord)
    BY <1>4, SendOne, AppendFacts
  <2> QED BY SMTT(60), <2>1, SendOne, AppendFacts, SameSequence
<1>5. wire' \in [Conn -> Seq(FrameRecord)]
  BY <1>0, <1>1, <1>4 DEF Dropped
<1>6. \A c \in Conn : Append(wire[c], Frame("close", 0)) = wire[c] \o <<Frame("close", 0)>>
  BY <1>0, <1>1, <1>4
<1> QED BY <1>2, <1>3, <1>5, <1>6

\* Every step of a handler keeps the shape of what is on the wires.
LEMMA WireTypes ==
  ASSUME TypeOK, NEW c \in Conn, Handler(c) \/ HandlerEnds(c)
  PROVE  wire' \in [Conn -> Seq(FrameRecord)]
<1>0. wire \in [Conn -> Seq(FrameRecord)] /\ conn[c] \in ConnRecord
  BY DEF TypeOK, LinkTypes
<1>1. ASSUME NEW type \in FrameType, NEW id \in Nat
      PROVE  Sent(c, <<Frame(type, id)>>) \in [Conn -> Seq(FrameRecord)]
  <2>1. Frame(type, id) \in FrameRecord
    BY FrameTypes
  <2>2. <<Frame(type, id)>> \in Seq(FrameRecord)
    BY SMTT(60), <2>1
  <2> QED BY <2>2, SentTypes
<1>2. EndLive(c) => wire' \in [Conn -> Seq(FrameRecord)]
  <2>1. Frame("resync_required", 0) \in FrameRecord /\ Frame("close", 0) \in FrameRecord
    BY FrameTypes DEF FrameType
  <2>2. <<Frame("resync_required", 0), Frame("close", 0)>> \in Seq(FrameRecord)
    BY SMTT(60), <2>1
  <2>3. EndLive(c) => wire' = Sent(c, <<Frame("resync_required", 0), Frame("close", 0)>>)
    BY DEF EndLive
  <2> QED BY <2>2, <2>3, SentTypes
<1>4. conn[c].replay \in SUBSET Nat /\ conn[c].queue \in SUBSET Nat /\ conn[c].boundary \in Nat
  BY <1>0 DEF ConnRecord
<1>5. CASE SubscribeAfter(c)
  BY <1>1, <1>5 DEF SubscribeAfter, FrameType
<1>6. CASE SendResync(c)
  BY <1>1, <1>6 DEF SendResync, FrameType
<1>7. CASE SendReplay(c)
  <2>1. PICK id \in conn[c].replay : wire' = Sent(c, <<Frame("event", id)>>)
    BY <1>7 DEF SendReplay
  <2>2. id \in Nat
    BY <1>4
  <2> QED BY <1>1, <2>1, <2>2 DEF FrameType
<1>8. CASE SendReplayDone(c)
  BY <1>1, <1>4, <1>8 DEF SendReplayDone, FrameType
<1>9. CASE LiveTop(c)
  BY <1>0, <1>2, <1>9 DEF LiveTop
<1>10. CASE LiveGet(c)
  <2>1. PICK id \in conn[c].queue :
          EndLive(c) \/ wire' = wire \/ wire' = Sent(c, <<Frame("event", id)>>)
    BY <1>10 DEF LiveGet
  <2>2. id \in Nat
    BY <1>4
  <2> QED BY <1>0, <1>1, <1>2, <2>1, <2>2 DEF FrameType
<1>11. CASE HandlerEnds(c)
  BY <1>0, <1>1, <1>11 DEF HandlerEnds, FrameType
<1> QED BY <1>5, <1>6, <1>7, <1>8, <1>9, <1>10, <1>11 DEF Handler

\* The actions, one by one, for the proofs that treat each.
LEMMA StepCases ==
  ASSUME Next
  PROVE  \/ \E t \in Topic : Publish(t)
         \/ \E l \in 1..MaxLoop : AttachLoop(l)
         \/ \E l \in 1..MaxLoop : LoopEnds(l)
         \/ \E l \in 1..MaxLoop, g \in 1..MaxGeneration : DrainDispatch(l, g)
         \/ DetachLoop \/ ServerRestart \/ Stop \/ SocketLost \/ Receive
         \/ \E c \in Conn : \/ SubscribeAfter(c) \/ SendResync(c) \/ SendReplay(c)
                            \/ SendReplayDone(c) \/ LiveTop(c) \/ LiveGet(c)
                            \/ WakeQueue(c) \/ HandlerEnds(c)
         \/ \E c \in Conn : Start(c)
         \/ \E c \in Conn : ReconnectTimer(c)
BY DEF Next, Handler

\* What the steps of handlers leave alone.
LEMMA HandlerFrame ==
  ASSUME NEW c, \/ SubscribeAfter(c) \/ SendResync(c) \/ SendReplay(c)
                \/ SendReplayDone(c) \/ LiveTop(c) \/ LiveGet(c)
                \/ WakeQueue(c) \/ HandlerEnds(c)
  PROVE  UNCHANGED <<busVars, clientVars>>
BY DEF SubscribeAfter, SendResync, SendReplay, SendReplayDone, LiveTop, LiveGet,
       WakeQueue, HandlerEnds

\* What reading a frame other than the close leaves alone.
LEMMA ReceiveCases ==
  ASSUME Receive
  PROVE  \/ Head(wire[ws]).type = "close" /\ HandleDisconnect(ws)
         \/ /\ wire' = [wire EXCEPT ![ws] = Tail(@)]
            /\ UNCHANGED <<busVars, conn, ws, timer, active>>
            /\ \/ Head(wire[ws]).type = "open" /\ OnOpen
               \/ Head(wire[ws]).type = "resync_required" /\ OnResyncRequired
               \/ Head(wire[ws]).type = "replay_done" /\ OnReplayDone(Head(wire[ws]))
               \/ Head(wire[ws]).type = "event" /\ OnEvent(Head(wire[ws]))
BY DEF Receive

\* Truth values are set to truth values.
LEMMA FlagStep == ASSUME FlagTypes, Next PROVE FlagTypes'
<1>1. CASE \E t \in Topic : Publish(t)
  <2>1. PICK t \in Topic : Publish(t)
    BY <1>1
  <2>2. UNCHANGED scheduled \/ scheduled' = TRUE \/ scheduled' = FALSE
    BY <2>1 DEF Publish, Enqueue
  <2> QED BY <2>1, <2>2 DEF Publish, FlagTypes, clientVars
<1>2. CASE \E l \in 1..MaxLoop : AttachLoop(l)
  <2>1. PICK l \in 1..MaxLoop : AttachLoop(l)
    BY <1>2
  <2>2. scheduled' = FALSE \/ scheduled' = (scheduled \/ pending # <<>>)
    BY <2>1 DEF AttachLoop
  <2> QED BY <2>1, <2>2 DEF AttachLoop, FlagTypes, clientVars
<1>3. CASE \E l \in 1..MaxLoop : LoopEnds(l)
  BY <1>3 DEF LoopEnds, FlagTypes, clientVars
<1>4. CASE \E l \in 1..MaxLoop, g \in 1..MaxGeneration : DrainDispatch(l, g)
  <2>1. PICK l \in 1..MaxLoop, g \in 1..MaxGeneration : DrainDispatch(l, g)
    BY <1>4
  <2>2. UNCHANGED scheduled \/ \E rest : scheduled' = (rest # <<>>)
    BY <2>1 DEF DrainDispatch
  <2> QED BY <2>1, <2>2 DEF DrainDispatch, FlagTypes, clientVars
<1>5. CASE DetachLoop
  BY <1>5 DEF DetachLoop, FlagTypes, clientVars
<1>6. CASE ServerRestart
  BY <1>6 DEF ServerRestart, FlagTypes, clientVars
<1>7. CASE \E c \in Conn : \/ SubscribeAfter(c) \/ SendResync(c) \/ SendReplay(c)
                            \/ SendReplayDone(c) \/ LiveTop(c) \/ LiveGet(c)
                            \/ WakeQueue(c) \/ HandlerEnds(c)
  BY <1>7, HandlerFrame DEF FlagTypes, busVars, clientVars
<1>8. CASE \E c \in Conn : Start(c)
  BY <1>8 DEF Start, Connect, FlagTypes, busVars
<1>9. CASE \E c \in Conn : ReconnectTimer(c)
  BY <1>9 DEF ReconnectTimer, Connect, FlagTypes, busVars
<1>10. CASE Stop
  BY <1>10 DEF Stop, LetGo, FlagTypes, busVars
<1>11. HandleDisconnect(ws) => FlagTypes'
  BY DEF HandleDisconnect, LetGo, FlagTypes, busVars
<1>12. CASE SocketLost
  BY <1>11, <1>12 DEF SocketLost
<1>13. CASE Receive
  <2>1. UNCHANGED <<busVars, conn, ws, timer, active>> /\ (accepting' \in BOOLEAN) => FlagTypes'
    BY DEF FlagTypes, busVars
  <2>2. OnOpen => accepting' \in BOOLEAN
    BY DEF OnOpen
  <2>3. OnResyncRequired => accepting' \in BOOLEAN
    BY DEF OnResyncRequired
  <2>4. OnReplayDone(Head(wire[ws])) => accepting' \in BOOLEAN
    BY DEF OnReplayDone
  <2>5. OnEvent(Head(wire[ws])) => accepting' \in BOOLEAN
    BY DEF OnEvent, FlagTypes
  <2> QED BY <1>11, <1>13, <2>1, <2>2, <2>3, <2>4, <2>5, ReceiveCases
<1> QED BY <1>1, <1>2, <1>3, <1>4, <1>5, <1>6, <1>7, <1>8, <1>9, <1>10, <1>12, <1>13, StepCases

LEMMA BusTypesStep == ASSUME TypeOK, Next PROVE BusTypes'
<1>0. BusTypes
  BY DEF TypeOK
<1>1. CASE \E t \in Topic : Publish(t)
  <2>1. PICK t \in Topic : Publish(t)
    BY <1>1
  <2>2. Len(log[epoch]) + 1 \in Nat /\ epoch \in 1..MaxEpoch
    BY SMTT(60), <1>0 DEF BusTypes
  <2>3. log' \in [1..MaxEpoch -> Seq(Topic)]
    <3>1. log' = [log EXCEPT ![epoch] = Append(log[epoch], t)]
      BY <2>1 DEF Publish
    <3>2. Append(log[epoch], t) \in Seq(Topic)
      BY <1>0, AppendFacts DEF BusTypes
    <3> QED BY <1>0, <3>1, <3>2 DEF BusTypes
  <2>4. history' \in Seq(Nat) /\ evicted' \in [Topic -> Nat]
    <3>1. Full => Len(history) # 0
      BY StreamAssumption DEF Full
    <3>2. Full => history # <<>> /\ Head(history) \in Nat /\ Tail(history) \in Seq(Nat)
      BY SMTT(60), <1>0, <3>1 DEF BusTypes
    <3>3. history' \in Seq(Nat)
      BY SMTT(60), <1>0, <2>1, <2>2, <3>2 DEF Publish, BusTypes
    <3>4. evicted' = IF Full THEN [evicted EXCEPT ![log[epoch][Head(history)]] = Head(history)] ELSE evicted
      BY <2>1 DEF Publish, EvictMark
    <3>5. evicted' \in [Topic -> Nat]
      BY <1>0, <3>2, <3>4 DEF BusTypes
    <3> QED BY <3>3, <3>5
  <2>5. pending' \in Seq(Nat) /\ posted' \subseteq (0..MaxLoop) \X (0..MaxGeneration) /\ loop' \in 0..MaxLoop
    <3>1. Enqueue(Len(log[epoch]) + 1)
      BY <2>1 DEF Publish
    <3>2. \/ UNCHANGED <<loop, pending, posted>>
          \/ /\ pending' = Append(pending, Len(log[epoch]) + 1) /\ loop' = loop
             /\ posted' = posted \/ posted' = posted \cup {<<loop, generation>>}
          \/ loop' = None /\ pending' = <<>> /\ posted' = posted
      BY <3>1 DEF Enqueue
    <3>3. pending' \in Seq(Nat)
      <4>1. pending \in Seq(Nat) /\ <<>> \in Seq(Nat)
        BY SMTT(60), <1>0 DEF BusTypes
      <4>2. Append(pending, Len(log[epoch]) + 1) \in Seq(Nat)
        BY <2>2, <4>1, AppendFacts
      <4> QED BY <3>2, <4>1, <4>2
    <3>4. posted' \subseteq (0..MaxLoop) \X (0..MaxGeneration)
      BY SMTT(60), <1>0, <3>2 DEF BusTypes
    <3>5. loop' \in 0..MaxLoop
      BY SMTT(60), <1>0, <3>2, StreamAssumption DEF BusTypes, None
    <3> QED BY <3>3, <3>4, <3>5
  <2> QED BY <1>0, <2>1, <2>3, <2>4, <2>5 DEF Publish, BusTypes
<1>2. CASE \E l \in 1..MaxLoop : AttachLoop(l)
  <2>1. PICK l \in 1..MaxLoop : AttachLoop(l)
    BY <1>2
  <2>2. generation + 1 \in 0..MaxGeneration /\ l \in 0..MaxLoop
    <3>1. generation < MaxGeneration
      BY <2>1 DEF AttachLoop
    <3> QED BY SMTT(60), <1>0, <3>1, StreamAssumption DEF BusTypes
  <2>3. pending' \in Seq(Nat)
    <3>1. pending' = <<>> \/ pending' = pending
      BY <2>1 DEF AttachLoop
    <3>2. pending \in Seq(Nat) /\ <<>> \in Seq(Nat)
      BY SMTT(60), <1>0 DEF BusTypes
    <3> QED BY <3>1, <3>2
  <2>4. posted' = posted \/ posted' = posted \cup {<<l, generation + 1>>}
    BY <2>1 DEF AttachLoop
  <2>5. posted' \subseteq (0..MaxLoop) \X (0..MaxGeneration)
    BY SMTT(60), <1>0, <2>2, <2>4 DEF BusTypes
  <2> QED BY <1>0, <2>1, <2>2, <2>3, <2>5 DEF AttachLoop, BusTypes
<1>3. CASE \E l \in 1..MaxLoop : LoopEnds(l)
  BY <1>0, <1>3 DEF LoopEnds, BusTypes
<1>4. CASE \E l \in 1..MaxLoop, g \in 1..MaxGeneration : DrainDispatch(l, g)
  <2>1. PICK l \in 1..MaxLoop, g \in 1..MaxGeneration : DrainDispatch(l, g)
    BY <1>4
  <2>2. posted' \subseteq posted
    BY <2>1 DEF DrainDispatch, Repost
  <2>3. pending' \in Seq(Nat)
    <3> DEFINE n == IF Len(pending) < BatchLen THEN Len(pending) ELSE BatchLen
    <3>1. UNCHANGED pending \/ pending' = SubSeq(pending, n + 1, Len(pending))
      BY <2>1 DEF DrainDispatch
    <3>2. n + 1 \in Nat \ {0} /\ n <= Len(pending)
      BY SMTT(60), <1>0, StreamAssumption DEF BusTypes
    <3> HIDE DEF n
    <3>3. SubSeq(pending, n + 1, Len(pending)) \in Seq(Nat)
      BY SMTT(60), <1>0, <3>2, SubSeqFacts DEF BusTypes
    <3> QED BY <1>0, <3>1, <3>3 DEF BusTypes
  <2> QED BY <1>0, <2>1, <2>2, <2>3 DEF DrainDispatch, BusTypes
<1>5. CASE DetachLoop
  BY SMTT(60), <1>0, <1>5, StreamAssumption DEF DetachLoop, BusTypes, None
<1>6. CASE ServerRestart
  BY SMTT(60), <1>0, <1>6, StreamAssumption DEF ServerRestart, BusTypes, None
<1>7. UNCHANGED busVars => BusTypes'
  BY <1>0 DEF BusTypes, busVars
<1>8. ASSUME NEW c \in Conn, \/ SubscribeAfter(c) \/ SendResync(c) \/ SendReplay(c)
                            \/ SendReplayDone(c) \/ LiveTop(c) \/ LiveGet(c)
                            \/ WakeQueue(c) \/ HandlerEnds(c)
      PROVE  UNCHANGED busVars
  BY <1>8, HandlerFrame
<1>9. Stop \/ SocketLost \/ Receive => UNCHANGED busVars
  BY ReceiveCases DEF Stop, SocketLost, HandleDisconnect
<1>10. ASSUME NEW c \in Conn, Start(c) \/ ReconnectTimer(c) PROVE UNCHANGED busVars
  BY <1>10 DEF Start, ReconnectTimer
<1> QED BY <1>1, <1>2, <1>3, <1>4, <1>5, <1>6, <1>7, <1>8, <1>9, <1>10, StepCases

LEMMA LinkTypesStep == ASSUME TypeOK, Next PROVE LinkTypes'
<1>0. LinkTypes /\ BusTypes /\ cursor \in CursorRecord
  BY DEF TypeOK, PageTypes
<1>1. CASE \E t \in Topic : Publish(t)
  BY <1>0, <1>1 DEF Publish, LinkTypes, clientVars
<1>2. CASE \E l \in 1..MaxLoop : AttachLoop(l)
  <2>1. PICK l \in 1..MaxLoop : AttachLoop(l)
    BY <1>2
  <2>2. conn' = conn \/ conn' = Retired(loop)
    BY <2>1 DEF AttachLoop
  <2>3. conn' \in [Conn -> ConnRecord]
    BY SMTT(60), <1>0, <2>2, RetiredEffect DEF LinkTypes
  <2> QED BY <1>0, <2>1, <2>3 DEF AttachLoop, LinkTypes, clientVars
<1>3. CASE \E l \in 1..MaxLoop : LoopEnds(l)
  BY <1>0, <1>3, DroppedEffect DEF LoopEnds, LinkTypes, clientVars
<1>4. CASE \E l \in 1..MaxLoop, g \in 1..MaxGeneration : DrainDispatch(l, g)
  <2>1. PICK l \in 1..MaxLoop, g \in 1..MaxGeneration : DrainDispatch(l, g)
    BY <1>4
  <2> DEFINE n == IF Len(pending) < BatchLen THEN Len(pending) ELSE BatchLen
             batch == SubSeq(pending, 1, n)
  <2>2. UNCHANGED conn \/ conn' = Dispatched(batch, l)
    BY <2>1 DEF DrainDispatch
  <2>3. batch \in Seq(Nat)
    <3>1. n \in Nat /\ n <= Len(pending)
      BY SMTT(60), <1>0, StreamAssumption DEF BusTypes
    <3> HIDE DEF n
    <3> QED BY SMTT(60), <1>0, <3>1, SubSeqFacts DEF BusTypes
  <2> HIDE DEF batch
  <2>4. conn' \in [Conn -> ConnRecord]
    <3>1. Dispatched(batch, l) \in [Conn -> ConnRecord]
      BY <2>3, DispatchedEffect
    <3> QED BY <1>0, <2>2, <3>1 DEF LinkTypes
  <2> QED BY <1>0, <2>1, <2>4 DEF DrainDispatch, LinkTypes, clientVars
<1>5. CASE DetachLoop
  BY <1>0, <1>5, RetiredEffect DEF DetachLoop, LinkTypes, clientVars
<1>6. CASE ServerRestart
  BY <1>0, <1>6, DroppedEffect DEF ServerRestart, LinkTypes, clientVars
<1>7. ASSUME NEW c \in Conn, \/ SubscribeAfter(c) \/ SendResync(c) \/ SendReplay(c)
                            \/ SendReplayDone(c) \/ LiveTop(c) \/ LiveGet(c)
                            \/ WakeQueue(c) \/ HandlerEnds(c)
      PROVE  LinkTypes'
  <2>1. conn' \in [Conn -> ConnRecord]
    BY <1>7, ConnTypes
  <2>2. wire' \in [Conn -> Seq(FrameRecord)]
    <3>1. CASE WakeQueue(c)
      BY <1>0, <3>1 DEF WakeQueue, LinkTypes
    <3>2. CASE ~WakeQueue(c)
      BY <1>7, <3>2, WireTypes DEF Handler
    <3> QED BY <3>1, <3>2
  <2>3. ws' = ws
    BY <1>7, HandlerFrame DEF clientVars
  <2> QED BY <1>0, <2>1, <2>2, <2>3 DEF LinkTypes
<1>8. ASSUME NEW c \in Conn, Connect(c), UNCHANGED wire PROVE LinkTypes'
  <2>1. c \in 0..MaxConn
    BY SMTT(60), StreamAssumption DEF Conn
  <2>2. ws' = c /\ conn' = [conn EXCEPT ![c].pc = "connecting", ![c].asked = cursor]
    BY <1>8 DEF Connect
  <2>3. conn' \in [Conn -> ConnRecord]
    <3>1. "connecting" \in HandlerPc
      BY DEF HandlerPc
    <3>2. PICK p \in HandlerPc, a \in CursorRecord : conn' = [conn EXCEPT ![c].pc = p, ![c].asked = a]
      BY <1>0, <2>2, <3>1
    <3>3. conn \in [Conn -> ConnRecord]
      BY <1>0 DEF LinkTypes
    <3> QED BY <3>2, <3>3 DEF ConnRecord
  <2> QED BY <1>0, <1>8, <2>1, <2>2, <2>3 DEF LinkTypes
<1>9. ASSUME NEW c \in Conn, Start(c) \/ ReconnectTimer(c) PROVE LinkTypes'
  BY <1>8, <1>9 DEF Start, ReconnectTimer
<1>10. ASSUME ws # 0, LetGo(ws) PROVE LinkTypes'
  <2>1. ws \in Conn /\ <<>> \in Seq(FrameRecord) /\ 0 \in 0..MaxConn
    BY SMTT(60), <1>0, <1>10, StreamAssumption DEF LinkTypes, Conn
  <2> QED BY <1>0, <1>10, <2>1, GoneType DEF LetGo, LinkTypes
<1>11. CASE Stop
  BY <1>0, <1>10, <1>11 DEF Stop, LinkTypes
<1>12. CASE SocketLost
  BY <1>10, <1>12 DEF SocketLost, HandleDisconnect
<1>13. CASE Receive
  <2>1. ws # 0 /\ ws \in Conn /\ wire[ws] \in Seq(FrameRecord) /\ wire[ws] # <<>>
    BY SMTT(60), <1>0, <1>13 DEF Receive, LinkTypes, Conn
  <2>2. Tail(wire[ws]) \in Seq(FrameRecord)
    BY SMTT(60), <2>1
  <2>3. wire' = [wire EXCEPT ![ws] = Tail(@)] /\ UNCHANGED <<busVars, conn, ws, timer, active>> => LinkTypes'
    BY <1>0, <2>1, <2>2 DEF LinkTypes
  <2> QED BY <1>10, <1>13, <2>1, <2>3, ReceiveCases DEF HandleDisconnect
<1> QED BY <1>1, <1>2, <1>3, <1>4, <1>5, <1>6, <1>7, <1>9, <1>11, <1>12, <1>13, StepCases

LEMMA PageTypesStep == ASSUME TypeOK, Next PROVE PageTypes'
<1>0. PageTypes /\ LinkTypes
  BY DEF TypeOK
<1>1. UNCHANGED clientVars => PageTypes'
  BY <1>0 DEF PageTypes, clientVars
<1>2. \/ \E t \in Topic : Publish(t)
      \/ \E l \in 1..MaxLoop : AttachLoop(l)
      \/ \E l \in 1..MaxLoop : LoopEnds(l)
      \/ \E l \in 1..MaxLoop, g \in 1..MaxGeneration : DrainDispatch(l, g)
      \/ DetachLoop \/ ServerRestart
      => UNCHANGED clientVars
  BY DEF Publish, AttachLoop, LoopEnds, DrainDispatch, DetachLoop, ServerRestart
<1>3. ASSUME NEW c \in Conn, \/ SubscribeAfter(c) \/ SendResync(c) \/ SendReplay(c)
                            \/ SendReplayDone(c) \/ LiveTop(c) \/ LiveGet(c)
                            \/ WakeQueue(c) \/ HandlerEnds(c)
      PROVE  UNCHANGED clientVars
  BY <1>3, HandlerFrame
<1>4. ASSUME NEW c \in Conn, Start(c) \/ ReconnectTimer(c) PROVE PageTypes'
  BY <1>0, <1>4 DEF Start, ReconnectTimer, Connect, PageTypes
<1>5. Stop => PageTypes'
  BY <1>0 DEF Stop, LetGo, PageTypes
<1>6. HandleDisconnect(ws) => PageTypes'
  BY <1>0 DEF HandleDisconnect, LetGo, PageTypes
<1>7. CASE Receive
  <2>1. ws # 0 /\ ws \in Conn /\ wire[ws] \in Seq(FrameRecord) /\ wire[ws] # <<>>
    BY SMTT(60), <1>0, <1>7 DEF Receive, LinkTypes, Conn
  <2>2. PICK f \in FrameRecord : f = Head(wire[ws])
    BY SMTT(60), <2>1
  <2>3. CursorOf(f) \in CursorRecord /\ f.id \in Nat /\ Lost \in CursorRecord
    BY SMTT(60), StreamAssumption DEF CursorOf, CursorRecord, FrameRecord, Lost
  <2>4. OnOpen => PageTypes'
    BY <1>0 DEF OnOpen, PageTypes
  <2>5. OnResyncRequired => PageTypes'
    BY SMTT(60), <1>0, <2>3 DEF OnResyncRequired, PageTypes
  <2>6. OnReplayDone(f) => PageTypes'
    BY <1>0, <2>3 DEF OnReplayDone, PageTypes
  <2>7. OnEvent(f) => PageTypes'
    <3>1. OnEvent(f) => /\ UNCHANGED <<state, joined>>
                        /\ \/ UNCHANGED <<cursor, delivered>>
                           \/ cursor' = CursorOf(f) /\ delivered' = Append(delivered, f.id)
      BY DEF OnEvent
    <3> QED BY SMTT(60), <1>0, <2>3, <3>1 DEF PageTypes
  <2> QED BY <1>6, <1>7, <2>2, <2>4, <2>5, <2>6, <2>7, ReceiveCases
<1> QED BY <1>1, <1>2, <1>3, <1>4, <1>5, <1>6, <1>7, StepCases DEF SocketLost

\* Every variable keeps its shape.
LEMMA TypeStep == ASSUME TypeOK, [Next]_vars PROVE TypeOK'
<1>1. CASE Next
  <2>1. FlagTypes'
    BY <1>1, FlagStep DEF TypeOK
  <2> QED BY <1>1, <2>1, BusTypesStep, LinkTypesStep, PageTypesStep DEF TypeOK
<1>2. CASE UNCHANGED vars
  <2>1. BusTypes'
    BY <1>2 DEF TypeOK, BusTypes, vars, busVars
  <2>2. LinkTypes' /\ PageTypes'
    BY <1>2 DEF TypeOK, LinkTypes, PageTypes, vars, clientVars
  <2>3. FlagTypes'
    BY <1>2 DEF TypeOK, FlagTypes, vars, busVars, clientVars
  <2> QED BY <2>1, <2>2, <2>3 DEF TypeOK
<1> QED BY <1>1, <1>2

-----------------------------------------------------------------------------
(* The bus.                                                                *)

\* The actions that change what the bus holds, and what the others leave alone.
LEMMA BusCases ==
  ASSUME [Next]_vars
  PROVE  \/ \E t \in Topic : Publish(t)
         \/ \E l \in 1..MaxLoop : AttachLoop(l)
         \/ \E l \in 1..MaxLoop : LoopEnds(l)
         \/ \E l \in 1..MaxLoop, g \in 1..MaxGeneration : DrainDispatch(l, g)
         \/ DetachLoop \/ ServerRestart \/ UNCHANGED busVars
<1>1. ASSUME NEW c \in Conn, \/ SubscribeAfter(c) \/ SendResync(c) \/ SendReplay(c)
                             \/ SendReplayDone(c) \/ LiveTop(c) \/ LiveGet(c)
                             \/ WakeQueue(c) \/ HandlerEnds(c)
      PROVE  UNCHANGED busVars
  BY <1>1, HandlerFrame
<1>2. Stop \/ SocketLost \/ Receive => UNCHANGED busVars
  BY ReceiveCases DEF Stop, SocketLost, HandleDisconnect
<1>3. ASSUME NEW c \in Conn, Start(c) \/ ReconnectTimer(c) PROVE UNCHANGED busVars
  BY <1>3 DEF Start, ReconnectTimer
<1>4. UNCHANGED vars => UNCHANGED busVars
  BY DEF vars
<1> QED BY <1>1, <1>2, <1>3, <1>4, StepCases

\* What publishing appends to the list of events to dispatch.
LEMMA EnqueueCases ==
  ASSUME NEW id, Enqueue(id)
  PROVE  \/ loop = None /\ UNCHANGED <<loop, pending, scheduled, posted>>
         \/ /\ loop # None /\ loop' = loop /\ pending' = Append(pending, id) /\ scheduled'
            /\ posted \subseteq posted' /\ (~scheduled => <<loop, generation>> \in posted')
         \/ loop \notin running /\ loop' = None /\ pending' = <<>> /\ ~scheduled'
<1>1. ASSUME posted' = IF scheduled THEN posted ELSE posted \cup {<<loop, generation>>}
      PROVE  posted \subseteq posted' /\ (~scheduled => <<loop, generation>> \in posted')
  BY <1>1
<1> QED BY <1>1 DEF Enqueue

\* What one callback dispatches is the front of the list, and the rest follows.
LEMMA DrainCases ==
  ASSUME TypeOK, NEW l, NEW g, DrainDispatch(l, g)
  PROVE  \/ UNCHANGED <<pending, scheduled, conn>> /\ posted' = posted \ {<<l, g>>} /\ (loop # l \/ generation # g)
         \/ /\ loop = l /\ generation = g /\ <<l, g>> \in posted
            /\ \E n \in 0..Len(pending) :
                 /\ Len(pending') = Len(pending) - n
                 /\ \A k \in 1..Len(pending') : pending'[k] = pending[n + k]
                 /\ scheduled' <=> pending' # <<>>
                 /\ pending' # <<>> => posted' = posted
                 /\ \E batch \in Seq(Nat) :
                      /\ Len(batch) = n /\ \A k \in 1..n : batch[k] = pending[k]
                      /\ conn' = Dispatched(batch, l)
<1> DEFINE n == IF Len(pending) < BatchLen THEN Len(pending) ELSE BatchLen
           batch == SubSeq(pending, 1, n)
           rest == SubSeq(pending, n + 1, Len(pending))
<1>1. CASE loop # l \/ generation # g
  BY <1>1 DEF DrainDispatch
<1>2. CASE ~(loop # l \/ generation # g)
  <2>1. /\ <<l, g>> \in posted /\ pending' = rest /\ scheduled' = (rest # <<>>)
        /\ posted' = Repost(l, g, rest) /\ conn' = Dispatched(batch, l)
    BY <1>2 DEF DrainDispatch
  <2>2. pending \in Seq(Nat) /\ n \in 0..Len(pending)
    BY SMTT(60), StreamAssumption DEF TypeOK, BusTypes
  <2> HIDE DEF n
  <2>3. /\ batch \in Seq(Nat) /\ Len(batch) = n
        /\ \A k \in 1..n : batch[k] = pending[k]
    BY SMTT(60), <2>2, SubSeqFacts
  <2>4. /\ Len(rest) = Len(pending) - n
        /\ \A k \in 1..Len(rest) : rest[k] = pending[n + k]
    BY SMTT(60), <2>2, SubSeqFacts
  <2>5. rest # <<>> => posted' = posted
    BY <2>1 DEF Repost
  <2>6. scheduled' <=> rest # <<>>
    BY <2>1
  <2> HIDE DEF batch, rest
  <2>7. \E b \in Seq(Nat) : /\ Len(b) = n /\ \A k \in 1..n : b[k] = pending[k]
                            /\ conn' = Dispatched(b, l)
    BY <2>1, <2>3
  <2> QED BY <1>2, <2>1, <2>2, <2>4, <2>5, <2>6, <2>7
<1> QED BY <1>1, <1>2

LEMMA WindowMoves ==
  ASSUME NEW s, NEW n \in Nat, Window(s, n)
  PROVE  /\ Window(Append(s, n + 1), n + 1)
         /\ s # <<>> => Window(Tail(s), n)
         /\ \A r \in Seq(Nat), d \in 0..Len(s) :
              Len(r) = Len(s) - d /\ (\A k \in 1..Len(r) : r[k] = s[d + k]) => Window(r, n)
<1>0. s \in Seq(Nat) /\ Len(s) \in Nat /\ Len(s) <= n /\ \A k \in 1..Len(s) : s[k] = n - Len(s) + k
  BY SMTT(60) DEF Window
<1>1. ASSUME NEW r \in Seq(Nat), NEW d \in 0..Len(s), Len(r) = Len(s) - d,
             \A k \in 1..Len(r) : r[k] = s[d + k]
      PROVE  Window(r, n)
  <2>1. \A k \in 1..Len(r) : d + k \in 1..Len(s)
    BY SMTT(60), <1>0, <1>1
  <2>2. \A k \in 1..Len(r) : r[k] = n - Len(r) + k
    BY SMTT(60), <1>0, <1>1, <2>1
  <2> QED BY SMTT(60), <1>0, <1>1, <2>2 DEF Window
<1>2. ASSUME s # <<>> PROVE Window(Tail(s), n)
  <2>1. /\ Tail(s) \in Seq(Nat) /\ Len(Tail(s)) = Len(s) - 1 /\ 1 \in 0..Len(s)
        /\ \A k \in 1..Len(Tail(s)) : Tail(s)[k] = s[1 + k]
    BY SMTT(60), <1>0, <1>2
  <2> QED BY <1>1, <2>1
<1>3. Window(Append(s, n + 1), n + 1)
  <2> DEFINE r == Append(s, n + 1)
  <2>1. /\ r \in Seq(Nat) /\ Len(r) = Len(s) + 1 /\ r[Len(s) + 1] = n + 1
        /\ \A k \in 1..Len(s) : r[k] = s[k]
    BY SMTT(60), <1>0, AppendFacts
  <2> HIDE DEF r
  <2>2. \A k \in 1..Len(r) : k = Len(s) + 1 \/ k \in 1..Len(s)
    BY SMTT(60), <1>0, <2>1
  <2>3. ASSUME NEW k \in 1..Len(r) PROVE r[k] = (n + 1) - Len(r) + k
    <3>1. CASE k = Len(s) + 1
      BY SMTT(60), <1>0, <2>1, <3>1
    <3>2. CASE k \in 1..Len(s)
      <4>1. r[k] = n - Len(s) + k
        BY <1>0, <2>1, <3>2
      <4> QED BY SMTT(60), <1>0, <2>1, <4>1
    <3> QED BY <2>2, <3>1, <3>2
  <2> QED BY SMTT(60), <1>0, <2>1, <2>3 DEF Window, r
<1> QED BY <1>1, <1>2, <1>3

LEMMA WindowsSplit ==
  ASSUME TypeOK
  PROVE  Windows <=> /\ Window(history, Latest) /\ Window(pending, Latest)
                     /\ \A e \in 1..MaxEpoch : e > epoch => log[e] = <<>>
BY DEF TypeOK, BusTypes, Windows, Window

\* An event published gets the next id of its process.
LEMMA PublishLog ==
  ASSUME TypeOK, NEW t \in Topic, Publish(t)
  PROVE  /\ epoch' = epoch
         /\ Latest \in Nat /\ Latest' = Latest + 1
         /\ log'[epoch] \in Seq(Topic) /\ Len(log'[epoch]) = Latest + 1 /\ log'[epoch][Latest + 1] = t
         /\ \A i \in 1..Latest : log'[epoch][i] = log[epoch][i]
         /\ \A e \in 1..MaxEpoch : e # epoch => log'[e] = log[e]
<1>1. /\ log \in [1..MaxEpoch -> Seq(Topic)] /\ epoch \in 1..MaxEpoch
      /\ log' = [log EXCEPT ![epoch] = Append(log[epoch], t)] /\ epoch' = epoch
  BY DEF TypeOK, BusTypes, Publish
<1>2. log[epoch] \in Seq(Topic) /\ log'[epoch] = Append(log[epoch], t)
  BY <1>1
<1>3. \A e \in 1..MaxEpoch : e # epoch => log'[e] = log[e]
  BY <1>1
<1>4. /\ log'[epoch] \in Seq(Topic) /\ Len(log'[epoch]) = Len(log[epoch]) + 1
      /\ log'[epoch][Len(log[epoch]) + 1] = t
      /\ \A i \in 1..Len(log[epoch]) : log'[epoch][i] = log[epoch][i]
  BY SMTT(60), <1>2, AppendFacts
<1>5. Len(log[epoch]) \in Nat
  BY SMTT(60), <1>2
<1> QED BY <1>1, <1>3, <1>4, <1>5 DEF Latest

LEMMA WindowsStep == ASSUME TypeOK, Windows, Scheduled, [Next]_vars PROVE Windows'
<1>0. /\ log \in [1..MaxEpoch -> Seq(Topic)] /\ epoch \in 1..MaxEpoch /\ Latest \in Nat
      /\ history \in Seq(Nat) /\ pending \in Seq(Nat) /\ MaxEpoch \in Nat
  BY SMTT(60), StreamAssumption DEF TypeOK, BusTypes, Latest
<1>t. TypeOK' /\ pending' \in Seq(Nat)
  <2>1. TypeOK'
    BY TypeStep
  <2> QED BY <2>1 DEF TypeOK, BusTypes
<1>h. Window(history, Latest) /\ Window(pending, Latest) /\ Window(<<>>, Latest)
  <2>1. Window(<<>>, Latest)
    BY SMTT(60), <1>0 DEF Window
  <2> QED BY <2>1, WindowsSplit
<1>e. \A e \in 1..MaxEpoch : e > epoch => log[e] = <<>>
  BY DEF Windows
<1>g. /\ Window(history, Latest)' /\ Window(pending, Latest)'
      /\ (\A e \in 1..MaxEpoch : e > epoch => log[e] = <<>>)'
      => Windows'
  BY <1>t DEF TypeOK, BusTypes, Windows, Window
<1>1. CASE \E t \in Topic : Publish(t)
  <2>1. PICK t \in Topic : Publish(t)
    BY <1>1
  <2>2. /\ Latest' = Latest + 1 /\ epoch' = epoch
        /\ \A e \in 1..MaxEpoch : e # epoch => log'[e] = log[e]
    BY <2>1, PublishLog
  <2>4. \A e \in 1..MaxEpoch : e > epoch => log'[e] = <<>>
    <3> SUFFICES ASSUME NEW e \in 1..MaxEpoch, e > epoch PROVE log'[e] = <<>>
      OBVIOUS
    <3>1. log'[e] = log[e]
      BY SMTT(60), <1>0, <2>2
    <3> QED BY <1>e, <3>1
  <2>5. Window(history', Latest + 1)
    <3>1. history' = Append(IF Full THEN Tail(history) ELSE history, Latest + 1)
      BY <2>1 DEF Publish, Latest
    <3>2. Full => history # <<>>
      BY StreamAssumption DEF Full
    <3>3. Window(IF Full THEN Tail(history) ELSE history, Latest)
      BY <1>0, <1>h, <3>2, WindowMoves
    <3> QED BY <1>0, <3>1, <3>3, WindowMoves
  <2>6. Window(pending', Latest + 1)
    <3>1. Enqueue(Latest + 1)
      BY <2>1 DEF Publish, Latest
    <3>2. Window(<<>>, Latest + 1)
      BY SMTT(60), <1>0 DEF Window
    <3>3. CASE loop = None /\ UNCHANGED pending
      <4>1. pending = <<>>
        BY <3>3 DEF Scheduled
      <4> QED BY <3>2, <3>3, <4>1
    <3>4. CASE pending' = Append(pending, Latest + 1)
      BY <1>0, <1>h, <3>4, WindowMoves
    <3>5. CASE pending' = <<>>
      BY <3>2, <3>5
    <3> QED BY <3>1, <3>3, <3>4, <3>5, EnqueueCases
  <2> QED BY <1>g, <2>2, <2>4, <2>5, <2>6
<1>2. ASSUME UNCHANGED <<epoch, log, history>>, Window(pending', Latest) PROVE Windows'
  <2>1. Latest' = Latest
    BY <1>2 DEF Latest
  <2> QED BY <1>2, <1>e, <1>g, <1>h, <2>1
<1>3. CASE \E l \in 1..MaxLoop, g \in 1..MaxGeneration : DrainDispatch(l, g)
  <2>1. PICK l \in 1..MaxLoop, g \in 1..MaxGeneration : DrainDispatch(l, g)
    BY <1>3
  <2>2. UNCHANGED <<epoch, log, history>>
    BY <2>1 DEF DrainDispatch
  <2>3. ASSUME NEW n \in 0..Len(pending), Len(pending') = Len(pending) - n,
               \A k \in 1..Len(pending') : pending'[k] = pending[n + k]
        PROVE  Window(pending', Latest)
    BY <1>0, <1>h, <1>t, <2>3, WindowMoves
  <2> QED BY <1>2, <1>h, <2>1, <2>2, <2>3, DrainCases
<1>4. CASE ServerRestart
  <2>1. epoch' = epoch + 1 /\ epoch' \in 1..MaxEpoch /\ log' = log /\ history' = <<>> /\ pending' = <<>>
    BY SMTT(60), <1>0, <1>4 DEF ServerRestart
  <2>2. Latest' = 0
    BY SMTT(60), <1>0, <1>e, <2>1 DEF Latest
  <2>3. Window(<<>>, 0)
    BY SMTT(60) DEF Window
  <2>4. \A e \in 1..MaxEpoch : e > epoch' => log'[e] = <<>>
    BY SMTT(60), <1>0, <1>e, <2>1
  <2> QED BY <1>g, <2>1, <2>2, <2>3, <2>4
<1>5. CASE \E l \in 1..MaxLoop : AttachLoop(l) \/ LoopEnds(l)
  <2>1. UNCHANGED <<epoch, log, history>> /\ (pending' = pending \/ pending' = <<>>)
    BY <1>5 DEF AttachLoop, LoopEnds
  <2> QED BY <1>2, <1>h, <2>1
<1>6. CASE DetachLoop
  <2>1. UNCHANGED <<epoch, log, history>> /\ pending' = <<>>
    BY <1>6 DEF DetachLoop
  <2> QED BY <1>2, <1>h, <2>1
<1>7. CASE UNCHANGED busVars
  <2>1. UNCHANGED <<epoch, log, history, pending>>
    BY <1>7 DEF busVars
  <2> QED BY <1>2, <1>h, <2>1
<1> QED BY <1>1, <1>3, <1>4, <1>5, <1>6, <1>7, BusCases

\* m is the last of the first n events of a log s that has topic t, 0 if none has.
LastOf(m, s, n, t) ==
  /\ m = 0 \/ (m \in 1..n /\ s[m] = t)
  /\ \A i \in 1..n : s[i] = t => i <= m

LEMMA MarksAre ==
  MarksExact <=> \A t \in Topic : LastOf(evicted[t], log[epoch], Latest - Len(history), t)
BY DEF MarksExact, LastOf

LEMMA MarksStep == ASSUME TypeOK, Windows, MarksExact, [Next]_vars PROVE MarksExact'
<1> DEFINE n == Latest - Len(history)
<1>0. /\ log \in [1..MaxEpoch -> Seq(Topic)] /\ epoch \in 1..MaxEpoch /\ Latest \in Nat
      /\ history \in Seq(Nat) /\ Len(history) \in Nat /\ Len(history) <= Latest
      /\ evicted \in [Topic -> Nat] /\ n \in Nat /\ n <= Latest
      /\ \A k \in 1..Len(history) : history[k] = Latest - Len(history) + k
  BY SMTT(60) DEF TypeOK, BusTypes, Latest, Windows
<1>m. \A t \in Topic : LastOf(evicted[t], log[epoch], n, t)
  BY MarksAre
<1>g. (\A t \in Topic : LastOf(evicted'[t], log'[epoch'], Latest' - Len(history'), t)) => MarksExact'
  BY DEF MarksExact, LastOf
<1>1. CASE \E u \in Topic : Publish(u)
  <2>1. PICK u \in Topic : Publish(u)
    BY <1>1
  <2>2. /\ epoch' = epoch /\ Latest' = Latest + 1
        /\ \A i \in 1..Latest : log'[epoch][i] = log[epoch][i]
    BY <2>1, PublishLog
  <2>5. CASE ~Full
    <3>1. history' = Append(history, Latest + 1) /\ evicted' = evicted
      BY <2>1, <2>5 DEF Publish, EvictMark, Latest
    <3>2. Latest' - Len(history') = n
      BY SMTT(60), <1>0, <2>2, <3>1, AppendFacts
    <3>3. ASSUME NEW t \in Topic PROVE LastOf(evicted[t], log'[epoch], n, t)
      <4>1. LastOf(evicted[t], log[epoch], n, t)
        BY <1>m
      <4>2. \A i \in 1..n : log'[epoch][i] = log[epoch][i]
        BY SMTT(60), <1>0, <2>2
      <4> HIDE DEF n
      <4> QED BY <4>1, <4>2 DEF LastOf
    <3> QED BY <1>g, <2>2, <3>1, <3>2, <3>3
  <2>6. CASE Full
    <3>1. /\ history' = Append(Tail(history), Latest + 1)
          /\ evicted' = [evicted EXCEPT ![log[epoch][Head(history)]] = Head(history)]
      BY <2>1, <2>6 DEF Publish, EvictMark, Latest
    <3>2. Len(history) # 0
      BY <2>6, StreamAssumption DEF Full
    <3>3. Head(history) = n + 1 /\ n + 1 \in 1..Latest
      BY SMTT(60), <1>0, <3>2
    <3>4. Latest' - Len(history') = n + 1
      <4>1. Tail(history) \in Seq(Nat) /\ Len(Tail(history)) = Len(history) - 1
        BY SMTT(60), <1>0, <3>2
      <4>2. Len(Append(Tail(history), Latest + 1)) = Len(history)
        BY SMTT(60), <1>0, <4>1, AppendFacts
      <4>3. Len(history') = Len(history)
        BY <3>1, <4>2
      <4> QED BY SMTT(60), <1>0, <2>2, <4>3
    <3>5. log[epoch][n + 1] \in Topic /\ evicted' = [evicted EXCEPT ![log[epoch][n + 1]] = n + 1]
      <4>1. log[epoch] \in Seq(Topic) /\ n + 1 \in 1..Len(log[epoch])
        BY <1>0, <3>3 DEF Latest
      <4>2. evicted' = [evicted EXCEPT ![log[epoch][n + 1]] = n + 1]
        BY <3>1, <3>3
      <4> HIDE DEF n
      <4> QED BY SMTT(60), <4>1, <4>2
    <3> HIDE DEF n
    <3>6. \A i \in 1..(n + 1) : log'[epoch][i] = log[epoch][i]
      BY SMTT(60), <1>0, <2>2, <3>3
    <3>7. ASSUME NEW t \in Topic PROVE LastOf(evicted'[t], log'[epoch], n + 1, t)
      <4>1. LastOf(evicted[t], log[epoch], n, t)
        BY <1>m
      <4>2. CASE t = log[epoch][n + 1]
        <5>1. evicted'[t] = n + 1
          BY <1>0, <3>5, <4>2
        <5> QED BY SMTT(60), <1>0, <3>6, <4>2, <5>1 DEF LastOf
      <4>3. CASE t # log[epoch][n + 1]
        <5>1. evicted'[t] = evicted[t]
          BY <1>0, <3>5, <4>3
        <5>2. \A i \in 1..(n + 1) : i = n + 1 \/ i \in 1..n
          BY SMTT(60), <1>0
        <5>3. \A i \in 1..n : i \in 1..(n + 1)
          BY SMTT(60), <1>0
        <5>4. \A i \in 1..n : i \in 1..(n + 1) /\ log'[epoch][i] = log[epoch][i]
          BY <3>6, <5>3
        <5>5. log'[epoch][n + 1] # t
          BY SMTT(60), <1>0, <3>6, <4>3
        <5> QED BY <4>1, <5>1, <5>2, <5>4, <5>5 DEF LastOf
      <4> QED BY <4>2, <4>3
    <3> QED BY <1>g, <2>2, <3>4, <3>7
  <2> QED BY <2>5, <2>6
<1>2. CASE ServerRestart
  <2>1. /\ epoch' = epoch + 1 /\ epoch' \in 1..MaxEpoch /\ log' = log /\ history' = <<>>
        /\ evicted' = [t \in Topic |-> 0]
    BY SMTT(60), <1>0, <1>2, StreamAssumption DEF ServerRestart
  <2>2. Latest' = 0
    BY SMTT(60), <1>0, <2>1 DEF Latest, Windows
  <2>3. Latest' - Len(history') = 0
    <3>1. Len(history') = 0
      BY <2>1
    <3> QED BY SMTT(60), <2>2, <3>1
  <2>4. \A t \in Topic : LastOf(evicted'[t], log'[epoch'], 0, t)
    BY SMTT(60), <2>1 DEF LastOf
  <2> QED BY <1>g, <2>3, <2>4
<1>3. ASSUME UNCHANGED <<epoch, log, history, evicted>> PROVE MarksExact'
  BY <1>3 DEF MarksExact, Latest
<1>4. CASE \E l \in 1..MaxLoop : AttachLoop(l) \/ LoopEnds(l)
  BY <1>3, <1>4 DEF AttachLoop, LoopEnds
<1>5. CASE \E l \in 1..MaxLoop, g \in 1..MaxGeneration : DrainDispatch(l, g)
  BY <1>3, <1>5 DEF DrainDispatch
<1>6. CASE DetachLoop \/ UNCHANGED busVars
  BY <1>3, <1>6 DEF DetachLoop, busVars
<1> QED BY <1>1, <1>2, <1>4, <1>5, <1>6, BusCases

LEMMA ScheduledStep == ASSUME TypeOK, Scheduled, [Next]_vars PROVE Scheduled'
<1>0. /\ pending # <<>> => scheduled
      /\ scheduled => loop # None /\ (loop \in running => <<loop, generation>> \in posted)
  BY DEF Scheduled
<1>1. ASSUME pending' = <<>>, ~scheduled' PROVE Scheduled'
  BY <1>1 DEF Scheduled
<1>2. CASE \E t \in Topic : Publish(t)
  <2>1. PICK t \in Topic : Publish(t)
    BY <1>2
  <2>2. Enqueue(Len(log[epoch]) + 1) /\ UNCHANGED <<running, generation>>
    BY <2>1 DEF Publish
  <2>3. CASE loop = None /\ UNCHANGED <<loop, pending, scheduled, posted>>
    BY <1>0, <2>3 DEF Scheduled
  <2>4. CASE /\ loop # None /\ loop' = loop /\ scheduled'
             /\ posted \subseteq posted' /\ (~scheduled => <<loop, generation>> \in posted')
    <3>1. loop' \in running' => <<loop', generation'>> \in posted'
      <4>1. CASE scheduled
        <5>1. loop \in running => <<loop, generation>> \in posted
          BY <1>0, <4>1
        <5> QED BY <2>2, <2>4, <5>1
      <4>2. CASE ~scheduled
        BY <2>2, <2>4, <4>2
      <4> QED BY <4>1, <4>2
    <3> QED BY <2>4, <3>1 DEF Scheduled, None
  <2> QED BY <1>1, <2>2, <2>3, <2>4, EnqueueCases
<1>3. CASE \E l \in 1..MaxLoop : AttachLoop(l)
  <2>1. PICK l \in 1..MaxLoop : AttachLoop(l)
    BY <1>3
  <2>2. CASE loop # None
    BY <1>1, <2>1, <2>2 DEF AttachLoop
  <2>3. CASE loop = None
    <3>1. ~scheduled /\ pending = <<>>
      BY <1>0, <2>3
    <3>2. scheduled' = (scheduled \/ pending # <<>>) /\ pending' = pending
      BY <2>1, <2>3 DEF AttachLoop
    <3> QED BY <1>1, <3>1, <3>2
  <2> QED BY <2>2, <2>3
<1>4. CASE \E l \in 1..MaxLoop : LoopEnds(l)
  <2>1. PICK l \in 1..MaxLoop : LoopEnds(l)
    BY <1>4
  <2>2. /\ running' = running \ {l} /\ posted' = {p \in posted : p[1] # l}
        /\ UNCHANGED <<loop, generation, pending, scheduled>>
    BY <2>1 DEF LoopEnds
  <2>3. ASSUME loop \in running => <<loop, generation>> \in posted, loop \in running'
        PROVE  <<loop, generation>> \in posted'
    BY <2>2, <2>3
  <2> QED BY <1>0, <2>2, <2>3 DEF Scheduled
<1>5. CASE \E l \in 1..MaxLoop, g \in 1..MaxGeneration : DrainDispatch(l, g)
  <2>1. PICK l \in 1..MaxLoop, g \in 1..MaxGeneration : DrainDispatch(l, g)
    BY <1>5
  <2>2. UNCHANGED <<loop, running, generation>>
    BY <2>1 DEF DrainDispatch
  <2>3. CASE /\ UNCHANGED <<pending, scheduled>> /\ posted' = posted \ {<<l, g>>}
             /\ loop # l \/ generation # g
    <3>1. <<loop, generation>> \in posted => <<loop, generation>> \in posted'
      BY <2>3
    <3> QED BY <1>0, <2>2, <2>3, <3>1 DEF Scheduled
  <2>4. CASE /\ loop = l /\ generation = g /\ <<l, g>> \in posted
             /\ scheduled' <=> pending' # <<>>
             /\ pending' # <<>> => posted' = posted
    <3>1. l # None
      BY SMTT(60) DEF None
    <3> QED BY <2>2, <2>4, <3>1 DEF Scheduled
  <2> QED BY <2>1, <2>3, <2>4, DrainCases
<1>6. CASE DetachLoop \/ ServerRestart
  BY <1>1, <1>6 DEF DetachLoop, ServerRestart
<1>7. CASE UNCHANGED busVars
  BY <1>0, <1>7 DEF Scheduled, busVars
<1> QED BY <1>2, <1>3, <1>4, <1>5, <1>6, <1>7, BusCases

-----------------------------------------------------------------------------
(* What the steps of a handler do to it.                                   *)

\* subscribe_after registers the subscription and takes the replay with it.
LEMMA SubscribeEffect ==
  ASSUME TypeOK, NEW c \in Conn, SubscribeAfter(c)
  PROVE  /\ conn[c].pc = "connecting" /\ loop \in running /\ Alone(c)
         /\ conn'[c].pc = IF ResyncReason(conn[c].asked) THEN "resync" ELSE "replay"
         /\ conn'[c].asked = conn[c].asked /\ conn'[c].loop = loop
         /\ conn'[c].boundary = Latest /\ conn'[c].replay = ReplayEvents(conn[c].asked)
         /\ conn'[c].queue = conn[c].queue /\ conn'[c].registered
         /\ conn'[c].wake = conn[c].wake /\ conn'[c].reason = conn[c].reason
<1>0. conn \in [Conn -> ConnRecord]
  BY DEF TypeOK, LinkTypes
<1>1. PICK p \in HandlerPc, r \in SUBSET Nat, b \in BOOLEAN, n \in Nat :
        /\ p = IF ResyncReason(conn[c].asked) THEN "resync" ELSE "replay"
        /\ r = ReplayEvents(conn[c].asked) /\ b /\ n = Latest
        /\ conn' = [conn EXCEPT ![c].pc = p, ![c].loop = loop, ![c].boundary = n,
                                ![c].replay = r, ![c].registered = b]
  <2>1. "resync" \in HandlerPc /\ "replay" \in HandlerPc
    BY DEF HandlerPc
  <2>2. Latest \in Nat
    BY SMTT(60) DEF TypeOK, BusTypes, Latest
  <2> QED BY <2>1, <2>2, ReplayType DEF SubscribeAfter, Latest
<1>2. conn[c].pc = "connecting" /\ loop \in running
  BY DEF SubscribeAfter
<1>3. conn[c] \in ConnRecord
  BY <1>0
<1>4. conn'[c] = [conn[c] EXCEPT !.pc = p, !.loop = loop, !.boundary = n, !.replay = r, !.registered = b]
  BY <1>0, <1>1
<1>5. Alone(c)
  BY <1>0, <1>1 DEF Alone
<1>6. /\ conn'[c].pc = p /\ conn'[c].asked = conn[c].asked /\ conn'[c].loop = loop
      /\ conn'[c].boundary = n /\ conn'[c].replay = r /\ conn'[c].queue = conn[c].queue
      /\ conn'[c].wake = conn[c].wake /\ conn'[c].reason = conn[c].reason
      /\ conn'[c].registered = b
  BY <1>3, <1>4 DEF ConnRecord
<1> QED BY <1>1, <1>2, <1>5, <1>6

LEMMA MovedTo ==
  ASSUME TypeOK, NEW c \in Conn,
         NEW p \in HandlerPc, NEW r \in SUBSET Nat, NEW q \in SUBSET Nat,
         conn' = [conn EXCEPT ![c] = [conn[c] EXCEPT !.pc = p, !.replay = r, !.queue = q]]
  PROVE  Alone(c) /\ Moved(conn'[c], conn[c], p, r, q)
<1>0. conn \in [Conn -> ConnRecord] /\ conn[c] \in ConnRecord
  BY DEF TypeOK, LinkTypes
<1> DEFINE h == [conn[c] EXCEPT !.pc = p, !.replay = r, !.queue = q]
<1>1. Moved(h, conn[c], p, r, q)
  BY <1>0 DEF ConnRecord, Moved
<1>2. conn' = [conn EXCEPT ![c] = h]
  OBVIOUS
<1> HIDE DEF h
<1>3. Alone(c) /\ conn'[c] = h
  BY <1>0, <1>2 DEF Alone
<1> QED BY <1>1, <1>3

\* What each step of a handler that sends does to it.
LEMMA ResyncEffect ==
  ASSUME TypeOK, NEW c \in Conn, SendResync(c)
  PROVE  /\ conn[c].pc = "resync" /\ Alone(c)
         /\ Moved(conn'[c], conn[c], "replay", conn[c].replay, conn[c].queue)
<1>0. conn \in [Conn -> ConnRecord] /\ conn[c] \in ConnRecord
  BY DEF TypeOK, LinkTypes
<1>1. conn' = [conn EXCEPT ![c] = [conn[c] EXCEPT
               !.pc = "replay", !.replay = conn[c].replay, !.queue = conn[c].queue]]
  BY <1>0 DEF SendResync, ConnRecord
<1>2. PICK p \in HandlerPc, r \in SUBSET Nat, q \in SUBSET Nat :
        /\ p = "replay" /\ r = conn[c].replay /\ q = conn[c].queue
        /\ conn' = [conn EXCEPT ![c] = [conn[c] EXCEPT !.pc = p, !.replay = r, !.queue = q]]
  BY <1>0, <1>1 DEF ConnRecord, HandlerPc
<1>3. Alone(c) /\ Moved(conn'[c], conn[c], p, r, q)
  BY <1>2, MovedTo
<1> QED BY <1>2, <1>3 DEF SendResync

LEMMA ReplayEffect ==
  ASSUME TypeOK, NEW c \in Conn, SendReplay(c)
  PROVE  /\ conn[c].pc = "replay" /\ Alone(c)
         /\ \E id \in conn[c].replay :
              /\ IsFront(id, conn[c].replay) /\ wire' = Sent(c, <<Frame("event", id)>>)
              /\ Moved(conn'[c], conn[c], "replay", conn[c].replay \ {id}, conn[c].queue)
<1>0. conn \in [Conn -> ConnRecord] /\ conn[c] \in ConnRecord
  BY DEF TypeOK, LinkTypes
<1>1. /\ conn[c].pc = "replay"
      /\ \E id \in conn[c].replay :
           /\ IsFront(id, conn[c].replay) /\ wire' = Sent(c, <<Frame("event", id)>>)
           /\ conn' = [conn EXCEPT ![c].replay = conn[c].replay \ {id}]
  BY DEF SendReplay
<1>2. PICK id \in conn[c].replay :
        /\ IsFront(id, conn[c].replay) /\ wire' = Sent(c, <<Frame("event", id)>>)
        /\ conn' = [conn EXCEPT ![c].replay = conn[c].replay \ {id}]
  BY <1>1
<1>3. PICK r \in SUBSET Nat : r = conn[c].replay \ {id}
  BY <1>0 DEF ConnRecord
<1>4. conn' = [conn EXCEPT ![c] = [conn[c] EXCEPT
                 !.pc = "replay", !.replay = r, !.queue = conn[c].queue]]
  <2>1. conn[c].pc = "replay" /\ conn' = [conn EXCEPT ![c].replay = r]
    BY <1>1, <1>2, <1>3
  <2> QED BY <1>0, <2>1 DEF ConnRecord
<1>5. PICK p \in HandlerPc, q \in SUBSET Nat :
        /\ p = "replay" /\ q = conn[c].queue
        /\ conn' = [conn EXCEPT ![c] = [conn[c] EXCEPT !.pc = p, !.replay = r, !.queue = q]]
  BY <1>0, <1>4 DEF ConnRecord, HandlerPc
<1>6. Alone(c) /\ Moved(conn'[c], conn[c], p, r, q)
  BY <1>5, MovedTo
<1> QED BY <1>1, <1>2, <1>3, <1>5, <1>6

LEMMA DoneEffect ==
  ASSUME TypeOK, NEW c \in Conn, SendReplayDone(c)
  PROVE  /\ conn[c].pc = "replay" /\ conn[c].replay = {} /\ Alone(c)
         /\ Moved(conn'[c], conn[c], "top", conn[c].replay, conn[c].queue)
<1>0. conn \in [Conn -> ConnRecord] /\ conn[c] \in ConnRecord
  BY DEF TypeOK, LinkTypes
<1>1. conn' = [conn EXCEPT ![c] = [conn[c] EXCEPT
               !.pc = "top", !.replay = conn[c].replay, !.queue = conn[c].queue]]
  BY <1>0 DEF SendReplayDone, ConnRecord
<1>2. PICK p \in HandlerPc, r \in SUBSET Nat, q \in SUBSET Nat :
        /\ p = "top" /\ r = conn[c].replay /\ q = conn[c].queue
        /\ conn' = [conn EXCEPT ![c] = [conn[c] EXCEPT !.pc = p, !.replay = r, !.queue = q]]
  BY <1>0, <1>1 DEF ConnRecord, HandlerPc
<1>3. Alone(c) /\ Moved(conn'[c], conn[c], p, r, q)
  BY <1>2, MovedTo
<1> QED BY <1>2, <1>3 DEF SendReplayDone

LEMMA EndEffect ==
  ASSUME TypeOK, NEW c \in Conn, EndLive(c)
  PROVE  Alone(c) /\ Moved(conn'[c], conn[c], "ended", conn[c].replay, {})
<1>0. conn \in [Conn -> ConnRecord] /\ conn[c] \in ConnRecord
  BY DEF TypeOK, LinkTypes
<1>1. conn' = [conn EXCEPT ![c] = [conn[c] EXCEPT
               !.pc = "ended", !.replay = conn[c].replay, !.queue = {}]]
  BY <1>0 DEF EndLive, ConnRecord
<1>2. PICK p \in HandlerPc, r \in SUBSET Nat, q \in SUBSET Nat :
        /\ p = "ended" /\ r = conn[c].replay /\ q = {}
        /\ conn' = [conn EXCEPT ![c] = [conn[c] EXCEPT !.pc = p, !.replay = r, !.queue = q]]
  BY <1>0, <1>1 DEF ConnRecord, HandlerPc
<1>3. Alone(c) /\ Moved(conn'[c], conn[c], p, r, q)
  BY <1>2, MovedTo
<1> QED BY <1>2, <1>3

LEMMA TopEffect ==
  ASSUME TypeOK, NEW c \in Conn, LiveTop(c)
  PROVE  /\ conn[c].pc = "top"
         /\ \/ conn[c].reason /\ EndLive(c)
            \/ /\ ~conn[c].reason /\ Alone(c) /\ wire' = wire
               /\ Moved(conn'[c], conn[c], "get", conn[c].replay, conn[c].queue)
<1>0. conn \in [Conn -> ConnRecord] /\ conn[c] \in ConnRecord
  BY DEF TypeOK, LinkTypes
<1>1. /\ conn[c].pc = "top"
      /\ \/ conn[c].reason /\ EndLive(c)
         \/ ~conn[c].reason /\ conn' = [conn EXCEPT ![c].pc = "get"] /\ wire' = wire
  BY DEF LiveTop
<1>2. ASSUME conn' = [conn EXCEPT ![c].pc = "get"]
      PROVE  Alone(c) /\ Moved(conn'[c], conn[c], "get", conn[c].replay, conn[c].queue)
  <2>1. conn' = [conn EXCEPT ![c] = [conn[c] EXCEPT
                 !.pc = "get", !.replay = conn[c].replay, !.queue = conn[c].queue]]
    BY <1>0, <1>2 DEF ConnRecord
  <2>2. PICK p \in HandlerPc, r \in SUBSET Nat, q \in SUBSET Nat :
          /\ p = "get" /\ r = conn[c].replay /\ q = conn[c].queue
          /\ conn' = [conn EXCEPT ![c] = [conn[c] EXCEPT !.pc = p, !.replay = r, !.queue = q]]
    BY <1>0, <2>1 DEF ConnRecord, HandlerPc
  <2>3. Alone(c) /\ Moved(conn'[c], conn[c], p, r, q)
    BY <2>2, MovedTo
  <2> QED BY <2>2, <2>3
<1> QED BY <1>1, <1>2

LEMMA GetEffect ==
  ASSUME TypeOK, NEW c \in Conn, LiveGet(c)
  PROVE  /\ conn[c].pc = "get"
         /\ \/ EndLive(c)
            \/ \E id \in conn[c].queue :
                 /\ IsFront(id, conn[c].queue) /\ id # None /\ ~conn[c].reason /\ Alone(c)
                 /\ Moved(conn'[c], conn[c], "top", conn[c].replay, conn[c].queue \ {id})
                 /\ wire' = IF id <= conn[c].boundary THEN wire
                            ELSE Sent(c, <<Frame("event", id)>>)
<1>0. conn \in [Conn -> ConnRecord] /\ conn[c] \in ConnRecord
  BY DEF TypeOK, LinkTypes
<1>1. /\ conn[c].pc = "get"
      /\ \E id \in conn[c].queue :
           /\ IsFront(id, conn[c].queue)
           /\ \/ EndLive(c)
              \/ /\ id # None /\ ~conn[c].reason
                 /\ conn' = [conn EXCEPT ![c].queue = conn[c].queue \ {id}, ![c].pc = "top"]
                 /\ wire' = IF id <= conn[c].boundary THEN wire
                            ELSE Sent(c, <<Frame("event", id)>>)
  BY DEF LiveGet
<1>2. ASSUME NEW id \in conn[c].queue,
             conn' = [conn EXCEPT ![c].queue = conn[c].queue \ {id}, ![c].pc = "top"]
      PROVE  Alone(c) /\ Moved(conn'[c], conn[c], "top", conn[c].replay, conn[c].queue \ {id})
  <2>1. PICK q \in SUBSET Nat : q = conn[c].queue \ {id}
    BY <1>0 DEF ConnRecord
  <2>2. conn' = [conn EXCEPT ![c] = [conn[c] EXCEPT
                 !.pc = "top", !.replay = conn[c].replay, !.queue = q]]
    BY <1>0, <1>2, <2>1 DEF ConnRecord
  <2>3. PICK p \in HandlerPc, r \in SUBSET Nat :
          /\ p = "top" /\ r = conn[c].replay
          /\ conn' = [conn EXCEPT ![c] = [conn[c] EXCEPT !.pc = p, !.replay = r, !.queue = q]]
    BY <1>0, <2>2 DEF ConnRecord, HandlerPc
  <2>4. Alone(c) /\ Moved(conn'[c], conn[c], p, r, q)
    BY <2>3, MovedTo
  <2> QED BY <2>1, <2>3, <2>4
<1> QED BY <1>1, <1>2

\* The wake-up leaves a subscription that has its reason as it was.
LEMMA WakeEffect ==
  ASSUME TypeOK, NEW c \in Conn, WakeQueue(c)
  PROVE  /\ conn[c].wake /\ Alone(c) /\ UNCHANGED wire
         /\ conn'[c].pc = conn[c].pc /\ conn'[c].asked = conn[c].asked
         /\ conn'[c].loop = conn[c].loop /\ conn'[c].boundary = conn[c].boundary
         /\ conn'[c].replay = conn[c].replay /\ ~conn'[c].wake
         /\ conn'[c].registered = conn[c].registered /\ conn'[c].reason = conn[c].reason
<1>0. conn \in [Conn -> ConnRecord]
  BY DEF TypeOK, LinkTypes
<1>1. conn[c].wake /\ UNCHANGED wire /\ conn' = [conn EXCEPT ![c].wake = FALSE, ![c].queue = {None}]
  BY DEF WakeQueue
<1>2. PICK b \in BOOLEAN : ~b /\ conn' = [conn EXCEPT ![c].wake = b, ![c].queue = {None}]
  BY <1>1
<1>3. Alone(c)
  BY <1>0, <1>2 DEF Alone
<1>4. /\ conn'[c].pc = conn[c].pc /\ conn'[c].asked = conn[c].asked
      /\ conn'[c].loop = conn[c].loop /\ conn'[c].boundary = conn[c].boundary
      /\ conn'[c].replay = conn[c].replay /\ conn'[c].wake = b
      /\ conn'[c].registered = conn[c].registered /\ conn'[c].reason = conn[c].reason
  BY <1>0, <1>2 DEF ConnRecord
<1> QED BY <1>1, <1>2, <1>3, <1>4

\* A new socket carries the cursor of the moment and nothing else.
LEMMA ConnectEffect ==
  ASSUME TypeOK, NEW c \in Conn, Connect(c)
  PROVE  /\ conn[c].pc = "idle" /\ Alone(c) /\ ws' = c
         /\ conn'[c].pc = "connecting" /\ conn'[c].asked = cursor
         /\ conn'[c].loop = conn[c].loop /\ conn'[c].boundary = conn[c].boundary
         /\ conn'[c].replay = conn[c].replay /\ conn'[c].queue = conn[c].queue
         /\ conn'[c].registered = conn[c].registered /\ conn'[c].wake = conn[c].wake
         /\ conn'[c].reason = conn[c].reason
<1>0. conn \in [Conn -> ConnRecord] /\ conn[c] \in ConnRecord
  BY DEF TypeOK, LinkTypes
<1>1. /\ conn[c].pc = "idle" /\ ws' = c
      /\ conn' = [conn EXCEPT ![c].pc = "connecting", ![c].asked = cursor]
  BY DEF Connect, Fresh
<1>2. Alone(c) /\ conn'[c] = [conn[c] EXCEPT !.pc = "connecting", !.asked = cursor]
  BY <1>0, <1>1 DEF Alone
<1>3. /\ conn'[c].pc = "connecting" /\ conn'[c].asked = cursor
      /\ conn'[c].loop = conn[c].loop /\ conn'[c].boundary = conn[c].boundary
      /\ conn'[c].replay = conn[c].replay /\ conn'[c].queue = conn[c].queue
      /\ conn'[c].registered = conn[c].registered /\ conn'[c].wake = conn[c].wake
      /\ conn'[c].reason = conn[c].reason
  BY <1>0, <1>2 DEF ConnRecord
<1> QED BY <1>1, <1>2, <1>3

HandlerOK(h, lp, run) ==
  /\ h.registered => h.pc \in ServingPc /\ h.loop = lp /\ lp \in run
  /\ h.pc \in ServingPc => h.registered \/ h.reason
  /\ h.wake => h.reason
  /\ h.pc \in {"idle", "connecting"} => ~h.reason /\ h.replay = {} /\ h.queue = {}

LEMMA RegisteredIs ==
  /\ Registered <=> \A c \in Conn : HandlerOK(conn[c], loop, running)
  /\ Registered' <=> \A c \in Conn : HandlerOK(conn'[c], loop', running')
BY DEF Registered, HandlerOK, Serving, ServingPc

LEMMA PcFacts ==
  /\ "idle" \notin ServingPc /\ "connecting" \notin ServingPc /\ "gone" \notin ServingPc
  /\ "resync" \in ServingPc /\ "replay" \in ServingPc /\ "top" \in ServingPc
  /\ "get" \in ServingPc /\ "ended" \in ServingPc
  /\ \A p \in ServingPc : p \notin {"idle", "connecting"}
BY DEF ServingPc

LEMMA GoneOK == ASSUME NEW lp, NEW run PROVE HandlerOK(Gone, lp, run)
<1>1. Gone.pc = "gone" /\ ~Gone.registered /\ ~Gone.wake
  BY GoneType
<1>2. Gone.pc \notin ServingPc /\ Gone.pc \notin {"idle", "connecting"}
  BY <1>1, PcFacts
<1> QED BY <1>1, <1>2 DEF HandlerOK

\* A subscription that is not registered does not care for the loops.
LEMMA UnregisteredOK ==
  ASSUME NEW h, NEW lp, NEW run, NEW lp2, NEW run2, HandlerOK(h, lp, run),
         h.registered => lp2 = lp /\ lp2 \in run2
  PROVE  HandlerOK(h, lp2, run2)
BY DEF HandlerOK

LEMMA MovedOK ==
  ASSUME NEW h2, NEW h, NEW p \in ServingPc, NEW r, NEW q, NEW lp, NEW run,
         HandlerOK(h, lp, run), h.pc \in ServingPc, Moved(h2, h, p, r, q)
  PROVE  HandlerOK(h2, lp, run)
<1>1. p \notin {"idle", "connecting"}
  BY PcFacts
<1> QED BY <1>1 DEF HandlerOK, Moved

\* Retiring the subscriptions of the owner leaves none registered.
LEMMA RetiredOK ==
  ASSUME TypeOK, Registered, NEW lp2, NEW run2, NEW c \in Conn
  PROVE  HandlerOK(Retired(loop)[c], lp2, run2)
<1> DEFINE h == conn[c]
           r == Retired(loop)[c]
<1>0. HandlerOK(h, loop, running)
  BY RegisteredIs
<1>1. /\ r.pc = h.pc /\ r.replay = h.replay /\ r.queue = h.queue
      /\ h.registered /\ h.loop = loop => ~r.registered /\ r.reason
      /\ ~(h.registered /\ h.loop = loop) => r = h
  BY RetiredEffect
<1> HIDE DEF h, r
<1>2. CASE h.registered
  <2>1. h.loop = loop /\ h.pc \in ServingPc
    BY <1>0, <1>2 DEF HandlerOK
  <2>2. ~r.registered /\ r.reason /\ r.pc = h.pc
    BY <1>1, <1>2, <2>1
  <2>3. r.pc \notin {"idle", "connecting"}
    BY <2>1, <2>2, PcFacts
  <2>4. HandlerOK(r, lp2, run2)
    BY <2>2, <2>3 DEF HandlerOK
  <2> QED BY <2>4 DEF r
<1>3. CASE ~h.registered
  <2>1. r = h
    BY <1>1, <1>3
  <2>2. HandlerOK(h, lp2, run2)
    BY <1>0, <1>3, UnregisteredOK
  <2>3. HandlerOK(r, lp2, run2)
    BY <2>1, <2>2
  <2> QED BY <2>3 DEF r
<1> QED BY <1>2, <1>3

\* A subscription is registered with the loop that owns the lifespan, or has told
\* its handler to end.
LEMMA RegisteredStep == ASSUME TypeOK, Registered, [Next]_vars PROVE Registered'
<1>0. \A c \in Conn : HandlerOK(conn[c], loop, running)
  BY RegisteredIs
<1>t. TypeOK'
  BY TypeStep
<1>g. (\A c \in Conn : HandlerOK(conn'[c], loop', running')) => Registered'
  BY RegisteredIs
<1>n. \A c \in Conn : conn[c].registered => loop \in running /\ loop # None
  <2>1. \A c \in Conn : conn[c].registered => loop \in running
    BY <1>0 DEF HandlerOK
  <2>2. loop \in running => loop # None
    BY SMTT(60) DEF TypeOK, BusTypes, None
  <2> QED BY <2>1, <2>2
<1>k. ASSUME UNCHANGED <<loop, running>>, NEW c \in Conn, Alone(c), HandlerOK(conn'[c], loop, running)
      PROVE  Registered'
  <2>1. \A d \in Conn : d # c => conn'[d] = conn[d]
    BY <1>k DEF Alone
  <2>2. \A d \in Conn : HandlerOK(conn'[d], loop', running')
    BY <1>0, <1>k, <2>1
  <2> QED BY <1>g, <2>2
<1>s. UNCHANGED <<loop, running, conn>> => Registered'
  BY <1>0, <1>g
<1>1. CASE \E t \in Topic : Publish(t)
  <2>1. PICK t \in Topic : Publish(t)
    BY <1>1
  <2>2. UNCHANGED <<running, conn>> /\ Enqueue(Len(log[epoch]) + 1)
    BY <2>1 DEF Publish
  <2>3. loop' = loop \/ loop \notin running
    BY <2>2, EnqueueCases
  <2>4. CASE loop \notin running
    <3>1. \A c \in Conn : ~conn[c].registered
      BY <1>n, <2>4
    <3>2. \A c \in Conn : HandlerOK(conn[c], loop', running')
      BY <1>0, <3>1, UnregisteredOK
    <3> QED BY <1>g, <2>2, <3>2
  <2> QED BY <1>s, <2>2, <2>3, <2>4
<1>2. CASE \E l \in 1..MaxLoop : AttachLoop(l)
  <2>1. PICK l \in 1..MaxLoop : AttachLoop(l)
    BY <1>2
  <2>2. CASE loop # None
    <3>1. conn' = Retired(loop)
      BY <2>1, <2>2 DEF AttachLoop
    <3> QED BY <1>g, <3>1, RetiredOK
  <2>3. CASE loop = None
    <3>1. conn' = conn
      BY <2>1, <2>3 DEF AttachLoop
    <3>2. \A c \in Conn : HandlerOK(conn[c], loop', running')
      BY <1>0, <1>n, <2>3, UnregisteredOK
    <3> QED BY <1>g, <3>1, <3>2
  <2> QED BY <2>2, <2>3
<1>3. CASE DetachLoop
  <2>1. conn' = Retired(loop)
    BY <1>3 DEF DetachLoop
  <2> QED BY <1>g, <2>1, RetiredOK
<1>4. CASE \E l \in 1..MaxLoop : LoopEnds(l)
  <2>1. PICK l \in 1..MaxLoop : LoopEnds(l)
    BY <1>4
  <2> DEFINE C == {c \in Conn : Serving(c) /\ conn[c].loop = l}
  <2>2. running' = running \ {l} /\ loop' = loop /\ Dropped(C)
    BY <2>1 DEF LoopEnds
  <2>3. \A c \in Conn : c \in C <=> conn[c].pc \in ServingPc /\ conn[c].loop = l
    BY DEF Serving, ServingPc
  <2> HIDE DEF C
  <2>4. \A c \in Conn : conn'[c] = IF c \in C THEN Gone ELSE conn[c]
    BY <2>2, DroppedEffect
  <2>5. ASSUME NEW c \in Conn PROVE HandlerOK(conn'[c], loop', running')
    <3>1. CASE c \in C
      BY <2>4, <3>1, GoneOK
    <3>2. CASE c \notin C
      <4>1. ASSUME conn[c].registered PROVE loop' = loop /\ loop' \in running'
        <5>1. conn[c].pc \in ServingPc /\ conn[c].loop = loop /\ loop \in running
          BY <1>0, <4>1 DEF HandlerOK
        <5>2. loop # l
          BY <2>3, <3>2, <5>1
        <5> QED BY <2>2, <5>1, <5>2
      <4>2. HandlerOK(conn[c], loop', running')
        BY <1>0, <4>1, UnregisteredOK
      <4> QED BY <2>4, <3>2, <4>2
    <3> QED BY <3>1, <3>2
  <2> QED BY <1>g, <2>5
<1>5. CASE ServerRestart
  <2> DEFINE C == {c \in Conn : Serving(c)}
  <2>1. Dropped(C)
    BY <1>5 DEF ServerRestart
  <2>2. \A c \in Conn : c \in C <=> conn[c].pc \in ServingPc
    BY DEF Serving, ServingPc
  <2> HIDE DEF C
  <2>3. \A c \in Conn : conn'[c] = IF c \in C THEN Gone ELSE conn[c]
    BY <2>1, DroppedEffect
  <2>4. ASSUME NEW c \in Conn PROVE HandlerOK(conn'[c], loop', running')
    <3>1. CASE c \in C
      BY <2>3, <3>1, GoneOK
    <3>2. CASE c \notin C
      <4>1. ~conn[c].registered
        BY <1>0, <2>2, <3>2 DEF HandlerOK
      <4>2. HandlerOK(conn[c], loop', running')
        BY <1>0, <4>1, UnregisteredOK
      <4> QED BY <2>3, <3>2, <4>2
    <3> QED BY <3>1, <3>2
  <2> QED BY <1>g, <2>4

<1>6. CASE \E l \in 1..MaxLoop, g \in 1..MaxGeneration : DrainDispatch(l, g)
  <2>1. PICK l \in 1..MaxLoop, g \in 1..MaxGeneration : DrainDispatch(l, g)
    BY <1>6
  <2>2. UNCHANGED <<loop, running>>
    BY <2>1 DEF DrainDispatch
  <2>3. ASSUME NEW batch \in Seq(Nat), conn' = Dispatched(batch, l), NEW c \in Conn
        PROVE  HandlerOK(conn'[c], loop', running')
    <3> DEFINE h == conn[c]
               r == Dispatched(batch, l)[c]
    <3>0. HandlerOK(h, loop, running)
      BY <1>0
    <3>1. /\ r.pc = h.pc /\ r.loop = h.loop /\ r.replay = h.replay
          /\ r.registered = h.registered /\ r.wake = h.wake
          /\ ~(h.registered /\ h.loop = l) => r = h
          /\ h.registered /\ h.loop = l => r.reason \/ r.reason = h.reason
      <4>1. /\ r.pc = h.pc /\ r.asked = h.asked /\ r.loop = h.loop
            /\ r.boundary = h.boundary /\ r.replay = h.replay
            /\ r.registered = h.registered /\ r.wake = h.wake
            /\ ~(h.registered /\ h.loop = l) => r = h
            /\ h.registered /\ h.loop = l =>
                 r.reason \/ (r.reason = h.reason
                              /\ r.queue = h.queue \cup {id \in Ids(batch) : Matches(id)})
        BY SMTT(60), DispatchedEffect
      <4> HIDE DEF h, r
      <4> QED BY <4>1
    <3>2. conn'[c] = r
      BY <2>3
    <3> HIDE DEF h, r
    <3>3. CASE h.registered
      <4>1. h.pc \notin {"idle", "connecting"} /\ h.pc \in ServingPc
        BY <3>0, <3>3, PcFacts DEF HandlerOK
      <4>2. HandlerOK(r, loop, running)
        BY <3>0, <3>1, <3>3, <4>1 DEF HandlerOK
      <4> QED BY <2>2, <3>2, <4>2
    <3>4. CASE ~h.registered
      BY <2>2, <3>0, <3>1, <3>2, <3>4
    <3> QED BY <3>3, <3>4
  <2> QED BY <1>g, <1>s, <2>1, <2>2, <2>3, DrainCases
<1>7. ASSUME NEW c \in Conn, \/ SubscribeAfter(c) \/ SendResync(c) \/ SendReplay(c)
                             \/ SendReplayDone(c) \/ LiveTop(c) \/ LiveGet(c)
                             \/ WakeQueue(c) \/ HandlerEnds(c)
      PROVE  Registered'
  <2>0. UNCHANGED <<loop, running>> /\ HandlerOK(conn[c], loop, running)
    BY <1>0, <1>7, HandlerFrame DEF busVars
  <2>1. CASE SubscribeAfter(c)
    <3>1. /\ conn[c].pc = "connecting" /\ loop \in running /\ Alone(c)
          /\ conn'[c].pc = IF ResyncReason(conn[c].asked) THEN "resync" ELSE "replay"
          /\ conn'[c].loop = loop /\ conn'[c].registered
          /\ conn'[c].wake = conn[c].wake
      BY <2>1, SubscribeEffect
    <3>2. ~conn[c].wake
      BY <2>0, <3>1 DEF HandlerOK
    <3>3. conn'[c].pc \in ServingPc /\ conn'[c].pc \notin {"idle", "connecting"}
      BY <3>1, PcFacts
    <3>4. HandlerOK(conn'[c], loop, running)
      BY <3>1, <3>2, <3>3 DEF HandlerOK
    <3> QED BY <1>k, <2>0, <3>1, <3>4
  <2>2. CASE SendResync(c)
    <3>1. /\ conn[c].pc = "resync" /\ Alone(c)
          /\ Moved(conn'[c], conn[c], "replay", conn[c].replay, conn[c].queue)
      BY <2>2, ResyncEffect
    <3> QED BY <1>k, <2>0, <3>1, MovedOK, PcFacts
  <2>3. CASE SendReplay(c)
    <3>1. conn[c].pc = "replay" /\ Alone(c)
      BY <2>3, ReplayEffect
    <3>2. PICK id : Moved(conn'[c], conn[c], "replay", conn[c].replay \ {id}, conn[c].queue)
      BY <2>3, ReplayEffect
    <3> QED BY <1>k, <2>0, <3>1, <3>2, MovedOK, PcFacts
  <2>4. CASE SendReplayDone(c)
    <3>1. /\ conn[c].pc = "replay" /\ Alone(c)
          /\ Moved(conn'[c], conn[c], "top", conn[c].replay, conn[c].queue)
      BY <2>4, DoneEffect
    <3> QED BY <1>k, <2>0, <3>1, MovedOK, PcFacts
  <2>5. ASSUME conn[c].pc \in ServingPc, EndLive(c) PROVE Registered'
    <3>1. Alone(c) /\ Moved(conn'[c], conn[c], "ended", conn[c].replay, {})
      BY <2>5, EndEffect
    <3> QED BY <1>k, <2>0, <2>5, <3>1, MovedOK, PcFacts
  <2>6. CASE LiveTop(c)
    <3>1. /\ conn[c].pc = "top"
          /\ \/ EndLive(c)
             \/ /\ Alone(c)
                /\ Moved(conn'[c], conn[c], "get", conn[c].replay, conn[c].queue)
      BY <2>6, TopEffect
    <3> QED BY <1>k, <2>0, <2>5, <3>1, MovedOK, PcFacts
  <2>7. CASE LiveGet(c)
    <3>1. /\ conn[c].pc = "get"
          /\ \/ EndLive(c)
             \/ \E id : Alone(c) /\ Moved(conn'[c], conn[c], "top", conn[c].replay, conn[c].queue \ {id})
      BY <2>7, GetEffect
    <3> QED BY <1>k, <2>0, <2>5, <3>1, MovedOK, PcFacts
  <2>8. CASE WakeQueue(c)
    <3>1. /\ conn[c].wake /\ Alone(c) /\ conn'[c].pc = conn[c].pc /\ conn'[c].loop = conn[c].loop
          /\ conn'[c].registered = conn[c].registered /\ conn'[c].reason = conn[c].reason
          /\ ~conn'[c].wake
      BY <2>8, WakeEffect
    <3>2. HandlerOK(conn'[c], loop, running)
      BY <2>0, <3>1 DEF HandlerOK
    <3> QED BY <1>k, <2>0, <3>1, <3>2
  <2>9. CASE HandlerEnds(c)
    <3>1. conn' = [conn EXCEPT ![c] = Gone]
      BY <2>9 DEF HandlerEnds
    <3>2. Alone(c) /\ conn'[c] = Gone
      BY <3>1 DEF TypeOK, LinkTypes, Alone
    <3> QED BY <1>k, <2>0, <3>2, GoneOK
  <2> QED BY <1>7, <2>1, <2>2, <2>3, <2>4, <2>6, <2>7, <2>8, <2>9
<1>8. ASSUME NEW c \in Conn, Start(c) \/ ReconnectTimer(c) PROVE Registered'
  <2>1. Connect(c) /\ UNCHANGED <<loop, running>>
    BY <1>8 DEF Start, ReconnectTimer, busVars
  <2>2. /\ conn[c].pc = "idle" /\ Alone(c) /\ conn'[c].pc = "connecting"
        /\ conn'[c].replay = conn[c].replay /\ conn'[c].queue = conn[c].queue
        /\ conn'[c].registered = conn[c].registered /\ conn'[c].wake = conn[c].wake
        /\ conn'[c].reason = conn[c].reason
    BY <2>1, ConnectEffect
  <2>3. ~conn[c].registered
    BY <1>0, <2>2, PcFacts DEF HandlerOK
  <2>4. HandlerOK(conn'[c], loop, running)
    BY <1>0, <2>2, <2>3, PcFacts DEF HandlerOK
  <2> QED BY <1>k, <2>1, <2>2, <2>4
<1>9. ASSUME ws # 0, LetGo(ws), UNCHANGED busVars PROVE Registered'
  <2>1. ws \in Conn
    BY SMTT(60), <1>9 DEF TypeOK, LinkTypes, Conn
  <2>2. conn' = conn \/ conn' = [conn EXCEPT ![ws] = Gone]
    BY <1>9 DEF LetGo
  <2>3. CASE conn' = [conn EXCEPT ![ws] = Gone]
    <3>1. Alone(ws) /\ conn'[ws] = Gone
      BY <2>1, <2>3 DEF TypeOK, LinkTypes, Alone
    <3> QED BY <1>9, <1>k, <2>1, <3>1, GoneOK DEF busVars
  <2> QED BY <1>9, <1>s, <2>2, <2>3 DEF busVars
<1>10. CASE Stop
  BY <1>9, <1>10, <1>s DEF Stop, busVars
<1>11. CASE SocketLost
  BY <1>9, <1>11 DEF SocketLost, HandleDisconnect
<1>12. CASE Receive
  <2>1. ws # 0
    BY <1>12 DEF Receive
  <2> QED BY <1>9, <1>12, <1>s, <2>1, ReceiveCases DEF HandleDisconnect, busVars
<1>13. CASE UNCHANGED vars
  BY <1>13, <1>s DEF vars, busVars
<1> QED BY <1>1, <1>2, <1>3, <1>4, <1>5, <1>6, <1>7, <1>8, <1>10, <1>11, <1>12, <1>13,
           StepCases

LEMMA SentElsewhere ==
  ASSUME TypeOK, NEW c \in Conn, NEW frames, NEW d \in Conn, d # ws
  PROVE  Sent(c, frames)[d] = wire[d]
BY DEF TypeOK, LinkTypes, Sent

\* Only the current socket has frames, and there is none while the page waits.
LEMMA OneSocketStep == ASSUME TypeOK, OneSocket, [Next]_vars PROVE OneSocket'
<1>0. (\A c \in Conn : c # ws => wire[c] = <<>>) /\ (timer \/ ~active => ws = 0)
  BY DEF OneSocket
<1>1. ASSUME UNCHANGED <<ws, timer, active>>, \A d \in Conn : d # ws => wire'[d] = wire[d]
      PROVE  OneSocket'
  BY <1>0, <1>1 DEF OneSocket
<1>2. ASSUME ws' = 0, \A d \in Conn : wire'[d] = <<>> PROVE OneSocket'
  BY <1>2 DEF OneSocket
<1>3. ASSUME NEW c \in Conn, Start(c) \/ ReconnectTimer(c) PROVE OneSocket'
  <2>1. timer \/ ~active
    BY <1>3 DEF Start, ReconnectTimer
  <2>2. Connect(c) /\ wire' = wire
    BY <1>3 DEF Start, ReconnectTimer
  <2>a. active'
    BY SMTT(60), <1>3 DEF Start, ReconnectTimer
  <2>3. ws' = c /\ timer' = FALSE
    BY <2>2 DEF Connect
  <2>4. ws = 0 /\ \A d \in Conn : d # 0
    BY SMTT(60), <1>0, <2>1 DEF Conn
  <2>5. \A d \in Conn : wire[d] = <<>>
    BY <1>0, <2>4
  <2>6. ~(timer' \/ ~active')
    BY <2>a, <2>3
  <2> QED BY <2>2, <2>5, <2>6 DEF OneSocket
<1>4. ASSUME ws # 0, LetGo(ws) PROVE OneSocket'
  <2>1. ws' = 0 /\ wire' = [wire EXCEPT ![ws] = <<>>]
    BY <1>4 DEF LetGo
  <2>2. \A d \in Conn : wire'[d] = <<>>
    BY <1>0, <2>1 DEF TypeOK, LinkTypes
  <2> QED BY <1>2, <2>1, <2>2
<1>5. CASE Stop
  <2>1. CASE ws # 0
    BY <1>4, <1>5, <2>1 DEF Stop
  <2>2. CASE ws = 0
    <3>1. ws' = 0 /\ wire' = wire
      BY <1>5, <2>2 DEF Stop
    <3>2. \A d \in Conn : wire[d] = <<>>
      BY SMTT(60), <1>0, <2>2 DEF Conn
    <3> QED BY <1>2, <3>1, <3>2
  <2> QED BY <2>1, <2>2
<1>6. CASE SocketLost
  BY <1>4, <1>6 DEF SocketLost, HandleDisconnect
<1>7. CASE Receive
  <2>1. ws # 0
    BY <1>7 DEF Receive
  <2>2. wire' = [wire EXCEPT ![ws] = Tail(@)] => \A d \in Conn : d # ws => wire'[d] = wire[d]
    BY DEF TypeOK, LinkTypes
  <2> QED BY <1>1, <1>4, <1>7, <2>1, <2>2, ReceiveCases DEF HandleDisconnect
<1>8. ASSUME NEW c \in Conn, \/ SubscribeAfter(c) \/ SendResync(c) \/ SendReplay(c)
                             \/ SendReplayDone(c) \/ LiveTop(c) \/ LiveGet(c)
                             \/ WakeQueue(c) \/ HandlerEnds(c)
      PROVE  OneSocket'
  <2>1. UNCHANGED <<ws, timer, active>>
    BY <1>8, HandlerFrame DEF clientVars
  <2>2. wire' = wire \/ \E frames : wire' = Sent(c, frames)
    BY <1>8 DEF SubscribeAfter, SendResync, SendReplay, SendReplayDone, LiveTop, LiveGet,
                       EndLive, WakeQueue, HandlerEnds
  <2>3. \A d \in Conn : d # ws => wire'[d] = wire[d]
    BY <2>2, SentElsewhere
  <2> QED BY <1>1, <2>1, <2>3
<1>9. ASSUME NEW C, Dropped(C), UNCHANGED clientVars PROVE OneSocket'
  <2>1. \A d \in Conn : d # ws => wire'[d] = wire[d]
    BY <1>9, DroppedEffect
  <2> QED BY <1>1, <1>9, <2>1 DEF clientVars
<1>10. CASE ServerRestart \/ \E l \in 1..MaxLoop : LoopEnds(l)
  BY <1>9, <1>10 DEF ServerRestart, LoopEnds
<1>11. UNCHANGED <<wire, clientVars>> => OneSocket'
  BY <1>1 DEF clientVars
<1>12. CASE \E t \in Topic : Publish(t)
  BY <1>11, <1>12 DEF Publish
<1>13. CASE \/ \E l \in 1..MaxLoop : AttachLoop(l)
            \/ \E l \in 1..MaxLoop, g \in 1..MaxGeneration : DrainDispatch(l, g)
            \/ DetachLoop \/ UNCHANGED vars
  BY <1>11, <1>13 DEF AttachLoop, DrainDispatch, DetachLoop, vars
<1> QED BY <1>3, <1>5, <1>6, <1>7, <1>8, <1>10, <1>12, <1>13, StepCases

\* A cursor that subscribe_after does not refuse is resumed without a gap: history
\* still holds every wanted event after it, and exactly these are replayed.
LEMMA OpeningReady ==
  ASSUME TypeOK, Windows, MarksExact, NEW asked \in CursorRecord,
         asked # Lost, ~ResyncReason(asked)
  PROVE  /\ asked.epoch = epoch /\ asked.id <= Latest
         /\ \A i \in WantedOf(log, epoch) : asked.id < i => i \in ReplayEvents(asked)
         /\ \A i \in ReplayEvents(asked) : i \in WantedOf(log, epoch) /\ asked.id < i
<1>0. /\ asked.id \in Nat /\ Latest \in Nat /\ Len(history) \in Nat /\ Len(history) <= Latest
      /\ history \in Seq(Nat) /\ evicted \in [Topic -> Nat] /\ log[epoch] \in Seq(Topic)
      /\ Wanted \subseteq Topic
  BY SMTT(60), StreamAssumption DEF TypeOK, BusTypes, CursorRecord, Latest, Windows
<1>1. asked.epoch = epoch /\ asked.id <= Latest /\ \A t \in Wanted : ~(evicted[t] > asked.id)
  BY SMTT(60), <1>0 DEF ResyncReason, Latest
<1>2. ReplayEvents(asked) = {id \in Ids(history) : id > asked.id /\ log[epoch][id] \in Wanted}
  BY DEF ReplayEvents, Matches
<1>3. \A k \in 1..Len(history) : history[k] = Latest - Len(history) + k
  BY DEF Windows
<1>4. \A i \in Ids(history) : i \in 1..Latest
  BY SMTT(60), <1>0, <1>3 DEF Ids
<1>5. ASSUME NEW i \in WantedOf(log, epoch), asked.id < i PROVE i \in ReplayEvents(asked)
  <2>1. i \in 1..Latest /\ log[epoch][i] \in Wanted
    BY DEF WantedOf, Latest
  <2>2. CASE i > Latest - Len(history)
    <3>1. PICK k \in 1..Len(history) : Latest - Len(history) + k = i
      <4>1. i - (Latest - Len(history)) \in 1..Len(history)
        BY SMTT(60), <1>0, <2>1, <2>2
      <4>2. Latest - Len(history) + (i - (Latest - Len(history))) = i
        BY SMTT(60), <1>0, <2>1
      <4> QED BY <4>1, <4>2
    <3>2. history[k] = i
      BY <1>3, <3>1
    <3>3. i \in Ids(history)
      BY <3>1, <3>2 DEF Ids
    <3> QED BY <1>0, <1>2, <1>5, <2>1, <3>3
  <2>3. CASE ~(i > Latest - Len(history))
    <3>1. i \in 1..(Latest - Len(history)) /\ log[epoch][i] \in Topic
      BY SMTT(60), <1>0, <2>1, <2>3
    <3>2. i <= evicted[log[epoch][i]]
      BY <3>1 DEF MarksExact
    <3>3. evicted[log[epoch][i]] \in Nat /\ ~(evicted[log[epoch][i]] > asked.id)
      BY <1>0, <1>1, <2>1, <3>1
    <3> QED BY SMTT(60), <1>0, <1>5, <2>1, <3>2, <3>3
  <2> QED BY <2>2, <2>3
<1>6. ASSUME NEW i \in ReplayEvents(asked) PROVE i \in WantedOf(log, epoch) /\ asked.id < i
  <2>1. i \in Ids(history) /\ i > asked.id /\ log[epoch][i] \in Wanted
    BY <1>2
  <2> QED BY <1>0, <1>4, <2>1 DEF WantedOf, Latest
<1> QED BY <1>1, <1>5, <1>6

-----------------------------------------------------------------------------
(* What holds of the bus.                                                  *)

LEMMA StartBus == Init => Windows /\ MarksExact /\ Scheduled
<1> SUFFICES ASSUME Init PROVE Windows /\ MarksExact /\ Scheduled
  OBVIOUS
<1>1. /\ epoch \in 1..MaxEpoch /\ log = [e \in 1..MaxEpoch |-> <<>>]
      /\ history = <<>> /\ pending = <<>> /\ evicted = [t \in Topic |-> 0]
  BY SMTT(60), StreamAssumption DEF Init
<1>2. Latest = 0 /\ Len(history) = 0 /\ Len(pending) = 0
  BY <1>1 DEF Latest
<1>3. Windows
  BY SMTT(60), <1>1, <1>2 DEF Windows
<1>4. MarksExact
  BY SMTT(60), <1>1, <1>2 DEF MarksExact
<1>5. Scheduled
  BY DEF Init, Scheduled
<1> QED BY <1>3, <1>4, <1>5

\* Every variable of the event stream keeps the shape the code gives it.
THEOREM TypesHold == Spec => []TypeOK
<1>1. Init => TypeOK
  BY StartTypes
<1>2. TypeOK /\ [Next]_vars => TypeOK'
  BY TypeStep
<1> QED BY <1>1, <1>2, PTL DEF Spec

\* An event that publish handed over always has a callback coming for it on the
\* loop that owns the lifespan: the lifespan never goes on with events nobody drains.
THEOREM EventsAreDrained == Spec => []NothingStranded
<1>1. Init => TypeOK /\ Scheduled
  BY StartTypes, StartBus
<1>2. TypeOK /\ Scheduled /\ [Next]_vars => (TypeOK /\ Scheduled)'
  BY TypeStep, ScheduledStep
<1>3. Scheduled => NothingStranded
  BY DEF Scheduled, NothingStranded
<1> QED BY <1>1, <1>2, <1>3, PTL DEF Spec

\* subscribe_after refuses a cursor exactly when a wanted event after it is gone:
\* each mark is the last event of its topic that history no longer holds.
THEOREM MarksAreExact == Spec => []MarksExact
<1>1. Init => TypeOK /\ Windows /\ MarksExact /\ Scheduled
  BY StartTypes, StartBus
<1>2. TypeOK /\ Windows /\ MarksExact /\ Scheduled /\ [Next]_vars
        => (TypeOK /\ Windows /\ MarksExact /\ Scheduled)'
  BY TypeStep, WindowsStep, MarksStep, ScheduledStep
<1> QED BY <1>1, <1>2, PTL DEF Spec

LEMMA StartBusInv == Init => BusInv
<1> SUFFICES ASSUME Init PROVE BusInv
  OBVIOUS
<1>1. TypeOK /\ Windows /\ MarksExact /\ Scheduled
  BY StartTypes, StartBus
<1>2. \A c \in Conn : conn[c] = Unused /\ wire[c] = <<>>
  BY DEF Init
<1>3. Registered
  <2>1. /\ Unused.pc = "idle" /\ ~Unused.registered /\ ~Unused.reason /\ ~Unused.wake
        /\ Unused.replay = {} /\ Unused.queue = {}
    BY DEF Unused, Blank
  <2>2. HandlerOK(Unused, loop, running)
    BY <2>1, PcFacts DEF HandlerOK
  <2> QED BY <1>2, <2>2, RegisteredIs
<1>4. OneSocket
  BY <1>2 DEF OneSocket, Init
<1> QED BY <1>1, <1>3, <1>4 DEF BusInv

\* The bus keeps its invariant on its own: no step of a page can break it.
LEMMA BusStep == BusInv /\ [Next]_vars => BusInv'
<1> SUFFICES ASSUME BusInv, [Next]_vars PROVE BusInv'
  OBVIOUS
<1>1. TypeOK /\ Windows /\ MarksExact /\ Scheduled /\ Registered /\ OneSocket
  BY DEF BusInv
<1>2. TypeOK' /\ Windows' /\ MarksExact' /\ Scheduled' /\ Registered' /\ OneSocket'
  BY <1>1, TypeStep, WindowsStep, MarksStep, ScheduledStep, RegisteredStep, OneSocketStep
<1> QED BY <1>2 DEF BusInv

\* A subscription takes events from the bus only under the loop that owns the
\* lifespan, and one that lost its registration always tells its client.
THEOREM SubscriptionsAreOwned == Spec => []Registered
<1>1. BusInv => Registered
  BY DEF BusInv
<1> QED BY <1>1, StartBusInv, BusStep, PTL DEF Spec
=============================================================================
