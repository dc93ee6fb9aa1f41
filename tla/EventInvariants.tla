-------------------------- MODULE EventInvariants --------------------------
(***************************************************************************)
(* The inductive invariant of EventStream, behind KeepsThePromise and      *)
(* NothingStranded, and the words its proofs are written in.  BusInv is    *)
(* about the bus and its subscriptions, PageInv about what the current     *)
(* socket of the page still has to bring.                                  *)
(***************************************************************************)
EXTENDS EventStream

Latest == Len(log[epoch])

\* _history and _pending_dispatch each hold the latest events, without a gap.
Windows ==
  /\ Len(history) <= Latest /\ Len(pending) <= Latest
  /\ \A k \in 1..Len(history) : history[k] = Latest - Len(history) + k
  /\ \A k \in 1..Len(pending) : pending[k] = Latest - Len(pending) + k
  /\ \A e \in 1..MaxEpoch : e > epoch => log[e] = <<>>

\* The marks by which subscribe_after refuses a cursor are exact: each is the
\* last event of its topic that history no longer holds.  So a cursor is refused
\* when a wanted event after it is gone and never because of other topics
\* ("Unrelated high-volume topics must not invalidate a filtered cursor").
MarksExact ==
  \A t \in Topic :
    LET lost == {i \in 1..(Latest - Len(history)) : log[epoch][i] = t}
    IN  /\ evicted[t] \in lost \cup {0}
        /\ \A i \in lost : i <= evicted[t]

\* A callback is on its way whenever _dispatch_scheduled says so and the loop runs.
Scheduled ==
  /\ pending # <<>> => scheduled
  /\ scheduled => loop # None /\ (loop \in running => <<loop, generation>> \in posted)

\* A registered subscription belongs to the loop that owns the lifespan, and a
\* subscription that is not registered any more will tell its client.
Registered ==
  \A c \in Conn :
    /\ conn[c].registered => Serving(c) /\ conn[c].loop = loop /\ loop \in running
    /\ Serving(c) => conn[c].registered \/ conn[c].reason
    /\ conn[c].wake => conn[c].reason
    /\ conn[c].pc \in {"idle", "connecting"} =>
         ~conn[c].reason /\ conn[c].replay = {} /\ conn[c].queue = {}

\* Only the current socket has frames to read, and a page without one waits for
\* its timer or is stopped.
OneSocket ==
  /\ \A c \in Conn : c # ws => wire[c] = <<>>
  /\ timer \/ ~active => ws = 0

BusInv == TypeOK /\ Windows /\ MarksExact /\ Scheduled /\ Registered /\ OneSocket

\* The cursor with which the page will ask to resume never lies ahead of what
\* its handlers were given: no wanted event lies between them.  A cursor that
\* ran ahead would be lost to replay.
CursorHonest ==
  /\ (cursor = Lost) <=> (joined = Lost)
  /\ cursor = Lost => delivered = <<>> /\ ~accepting
  /\ cursor # Lost =>
       /\ joined.epoch = cursor.epoch /\ cursor.epoch \in 1..MaxEpoch
       /\ cursor.id <= Len(log[cursor.epoch]) /\ Feed!Reached <= cursor.id
       /\ \A i \in Feed!WantedIn(cursor.epoch) : i <= Feed!Reached \/ cursor.id < i

\* Where a page with cursor cur will be once it has read k frames of a wire w:
\* at a place in a log if the kth frame is an event or the end of a replay.
At(w, cur, k) == IF k = 0 THEN cur ELSE CursorOf(w[k])
Place(w, cur, k) == IF k = 0 THEN cur # Lost ELSE w[k].type \in {"event", "replay_done"}
Unbroken(w, k, m) == \A j \in (k + 1)..m : w[j].type # "resync_required"
Carried(w, k, m) == {w[j].id : j \in {x \in (k + 1)..m : w[x].type = "event"}}
Open(w, cur, k) == k \in 0..Len(w) /\ Place(w, cur, k) /\ Unbroken(w, k, Len(w))

WantedOf(lg, e) == {i \in 1..Len(lg[e]) : lg[e][i] \in Wanted}

\* From one place to a later one with no call to start over between them, the
\* wire carries every wanted event between their ids.
Steps(w, cur, lg, k, m) ==
  /\ w[m].epoch = At(w, cur, k).epoch
  /\ At(w, cur, k).id <= w[m].id
  /\ w[m].type = "event" => At(w, cur, k).id < w[m].id
  /\ \A i \in WantedOf(lg, w[m].epoch) :
       At(w, cur, k).id < i /\ i <= w[m].id => i \in Carried(w, k, m)

WireInOrder(w, cur, lg) ==
  \A m \in 1..Len(w) : Place(w, cur, m) =>
    /\ w[m].id <= Len(lg[w[m].epoch])
    /\ w[m].type = "event" =>
         /\ w[m].id \in WantedOf(lg, w[m].epoch)
         /\ \E k \in 0..(m - 1) : Place(w, cur, k) /\ Unbroken(w, k, m)
    /\ \A k \in 0..(m - 1) : Place(w, cur, k) /\ Unbroken(w, k, m) => Steps(w, cur, lg, k, m)

\* Of the events S of process e, the wire carries those after the place where it
\* ends but for X, which all come later.
Ready(w, cur, e, S, X) ==
  \A k \in 0..Len(w) : Open(w, cur, k) =>
    /\ At(w, cur, k).epoch = e
    /\ \A i \in S : At(w, cur, k).id < i => i \in X \cup Carried(w, k, Len(w))
    /\ \A i \in X : At(w, cur, k).id < i

\* A wire that ends behind a place, and one whose places lie up to id b.
Opened(w, cur) == \E k \in 0..Len(w) : Open(w, cur, k)
Below(w, cur, b) == \A k \in 0..Len(w) : Open(w, cur, k) => At(w, cur, k).id <= b

\* What is replayed to a subscription at the latest, and what its handler is still
\* to forward: queued or to be dispatched (pend), and not replayed.
UpTo(lg, e, b) == {i \in WantedOf(lg, e) : i <= b}
Later(h, pend) == {i \in h.queue \cup Ids(pend) : i > h.boundary}

Following == {"resync", "replay", "top", "get"}

\* The handler h of the page's socket goes on where the wire ends: its replay
\* reaches up to the boundary, and live forwarding starts behind a place.
Placed(h, w, cur, lg, e) ==
  /\ h.pc # "idle"
  /\ h.pc = "connecting" => w = <<>> /\ h.asked = cur
  /\ h.pc \in Following => h.boundary <= Len(lg[e])
  /\ h.pc = "resync" => h.replay = {}
  /\ h.pc = "replay" =>
       /\ h.replay \subseteq UpTo(lg, e, h.boundary)
       /\ h.replay # {} => Opened(w, cur)
       /\ Below(w, cur, h.boundary)
       /\ Ready(w, cur, e, UpTo(lg, e, h.boundary), h.replay)
  /\ h.pc \in {"top", "get"} => Opened(w, cur)

\* As long as its subscription lives, it is supplied with exactly what its page
\* lacks after the replay.
Supplied(h, w, cur, lg, e, pend) ==
  /\ \A i \in h.queue : i \in WantedOf(lg, e) /\ i <= Len(lg[e]) - Len(pend)
  /\ h.pc \in {"resync", "replay"} =>
       \A i \in WantedOf(lg, e) : i > h.boundary => i \in Later(h, pend)
  /\ h.pc \in {"top", "get"} => Ready(w, cur, e, WantedOf(lg, e), Later(h, pend))

HandlerFollows(h, w) ==
  /\ Placed(h, w, cursor, log, epoch)
  /\ h.pc \in Following /\ ~h.reason => Supplied(h, w, cursor, log, epoch, pending)

PageInv ==
  /\ CursorHonest
  /\ ws # 0 => WireInOrder(wire[ws], cursor, log) /\ HandlerFollows(conn[ws], wire[ws])

-----------------------------------------------------------------------------
(* Words for what a step does.                                             *)

\* lg2 is lg after process e published an event of topic t.
Grown(lg2, lg, e, t) == lg2 = [lg EXCEPT ![e] = Append(@, t)]

\* s holds the last ids up to n, without a gap.
Window(s, n) == s \in Seq(Nat) /\ Len(s) <= n /\ \A k \in 1..Len(s) : s[k] = n - Len(s) + k

Alone(c) == \A d \in Conn : d # c => conn'[d] = conn[d]

\* h2 is h moved to another place of the handler, with what it has left to send.
Moved(h2, h, p, r, q) ==
  /\ h2.pc = p /\ h2.replay = r /\ h2.queue = q
  /\ h2.asked = h.asked /\ h2.loop = h.loop /\ h2.boundary = h.boundary
  /\ h2.registered = h.registered /\ h2.wake = h.wake /\ h2.reason = h.reason

\* Where the handler of a socket is from its subscription on.
ServingPc == {"resync", "replay", "top", "get", "ended"}
=============================================================================
