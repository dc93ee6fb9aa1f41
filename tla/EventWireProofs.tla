-------------------------- MODULE EventWireProofs --------------------------
(***************************************************************************)
(* Lemmas about the frames between a handler and its page: what sending a  *)
(* frame, reading one, publishing an event and handing a batch over do to  *)
(* the conditions PageInv puts on the wire, the handler and the cursor.    *)
(* None of them mentions a step.                                           *)
(***************************************************************************)
EXTENDS EventInvariants, TLAPS

\* A leaf is left to Zenon unless it names SMT: most are first-order.
USE ZenonT(30)

-----------------------------------------------------------------------------
(* A log that grows.                                                       *)

\* Publishing adds at most the new id to what is wanted.
LEMMA GrowWanted ==
  ASSUME NEW lg \in [1..MaxEpoch -> Seq(Topic)], NEW e \in 1..MaxEpoch, NEW t \in Topic,
         NEW lg2, Grown(lg2, lg, e, t), NEW d \in 1..MaxEpoch
  PROVE  /\ lg2 \in [1..MaxEpoch -> Seq(Topic)]
         /\ Len(lg[d]) \in Nat /\ Len(lg2[d]) \in Nat /\ Len(lg[d]) <= Len(lg2[d])
         /\ \A i \in 1..Len(lg[d]) : lg2[d][i] = lg[d][i]
         /\ \A i \in WantedOf(lg, d) : i \in WantedOf(lg2, d)
         /\ \A i \in WantedOf(lg2, d) : i \in WantedOf(lg, d) \/ (d = e /\ i = Len(lg[e]) + 1)
         /\ \A i \in WantedOf(lg2, d) : i <= Len(lg[d]) => i \in WantedOf(lg, d)
         /\ Len(lg2[e]) = Len(lg[e]) + 1 /\ lg2[e][Len(lg[e]) + 1] = t
<1>1. /\ lg[d] \in Seq(Topic) /\ lg[e] \in Seq(Topic) /\ lg2[e] = Append(lg[e], t)
      /\ d # e => lg2[d] = lg[d]
  BY DEF Grown
<1>2. /\ Append(lg[e], t) \in Seq(Topic) /\ Len(Append(lg[e], t)) = Len(lg[e]) + 1
      /\ \A i \in 1..Len(lg[e]) : Append(lg[e], t)[i] = lg[e][i]
      /\ Append(lg[e], t)[Len(lg[e]) + 1] = t
  BY SMTT(60), <1>1
<1>3. lg2 \in [1..MaxEpoch -> Seq(Topic)]
  BY <1>1, <1>2 DEF Grown
<1>4. /\ Len(lg[d]) \in Nat /\ Len(lg2[d]) \in Nat /\ Len(lg[d]) <= Len(lg2[d])
      /\ \A i \in 1..Len(lg[d]) : lg2[d][i] = lg[d][i]
  BY SMTT(60), <1>1, <1>2, <1>3
<1>5. \A i \in WantedOf(lg, d) : i \in WantedOf(lg2, d)
  BY SMTT(60), <1>4 DEF WantedOf
<1>6. \A i \in WantedOf(lg2, d) : i <= Len(lg[d]) => i \in WantedOf(lg, d)
  BY SMTT(60), <1>4 DEF WantedOf
<1>7. \A i \in WantedOf(lg2, d) : i \in WantedOf(lg, d) \/ (d = e /\ i = Len(lg[e]) + 1)
  BY SMTT(60), <1>1, <1>2, <1>4 DEF WantedOf
<1> QED BY <1>1, <1>2, <1>3, <1>4, <1>5, <1>6, <1>7

LEMMA GrowLength ==
  ASSUME NEW lg \in [1..MaxEpoch -> Seq(Topic)], NEW e \in 1..MaxEpoch, NEW t \in Topic,
         NEW lg2, Grown(lg2, lg, e, t)
  PROVE  Len(lg2[e]) = Len(lg[e]) + 1 /\ lg2[e][Len(lg[e]) + 1] = t
<1>1. lg[e] \in Seq(Topic) /\ lg2[e] = Append(lg[e], t)
  BY DEF Grown
<1> QED BY SMTT(60), <1>1

-----------------------------------------------------------------------------
(* The wire.                                                               *)

\* v is w with one more frame f at its end.
Longer(v, w, f) ==
  /\ Len(v) = Len(w) + 1
  /\ \A k \in 1..Len(w) : v[k] = w[k]
  /\ v[Len(w) + 1] = f

\* v is w without its first frame.
Shorter(v, w) ==
  /\ Len(w) = Len(v) + 1
  /\ \A k \in 1..Len(v) : v[k] = w[k + 1]

LEMMA LongerParts ==
  ASSUME NEW v \in Seq(FrameRecord), NEW w \in Seq(FrameRecord), NEW f \in FrameRecord,
         NEW cur, Longer(v, w, f),
         NEW k \in 0..Len(w), NEW m \in 0..Len(w)
  PROVE  /\ At(v, cur, k) = At(w, cur, k)
         /\ Place(v, cur, k) <=> Place(w, cur, k)
         /\ Unbroken(v, k, m) <=> Unbroken(w, k, m)
         /\ Carried(v, k, m) = Carried(w, k, m)
<1>1. /\ At(v, cur, k) = At(w, cur, k) 
      /\ Place(v, cur, k) <=> Place(w, cur, k)
  BY SMTT(60) DEF Longer, At, Place, CursorOf
<1>2. \A j \in (k + 1)..m : v[j] = w[j]
  BY SMTT(60) DEF Longer
<1>3. Unbroken(v, k, m) <=> Unbroken(w, k, m)
  BY <1>2 DEF Unbroken
<1>4. Carried(v, k, m) = Carried(w, k, m)
  BY <1>2 DEF Carried
<1> QED BY <1>1, <1>3, <1>4

\* What the last frame adds.
LEMMA LongerEnd ==
  ASSUME NEW v \in Seq(FrameRecord), NEW w \in Seq(FrameRecord), NEW f \in FrameRecord,
         NEW cur, Longer(v, w, f), NEW k \in 0..Len(w)
  PROVE  /\ Unbroken(v, k, Len(v)) <=> (Unbroken(w, k, Len(w)) /\ f.type # "resync_required")
         /\ Carried(v, k, Len(v)) = Carried(w, k, Len(w)) \cup (IF f.type = "event" THEN {f.id} ELSE {})
         /\ At(v, cur, Len(v)) = CursorOf(f)
         /\ Place(v, cur, Len(v)) <=> f.type \in {"event", "replay_done"}
         /\ Unbroken(v, Len(v), Len(v)) /\ Carried(v, Len(v), Len(v)) = {}
<1>1. Len(w) \in Nat /\ Len(v) = Len(w) + 1 /\ v[Len(v)] = f
  BY SMTT(60) DEF Longer
<1>2. \A j \in (k + 1)..Len(w) : v[j] = w[j]
  BY SMTT(60), <1>1 DEF Longer
<1>3. (k + 1)..Len(v) = (k + 1)..Len(w) \cup {Len(v)}
  BY SMTT(60), <1>1
<1>4. Unbroken(v, k, Len(v)) <=> (Unbroken(w, k, Len(w)) /\ f.type # "resync_required")
  BY <1>1, <1>2, <1>3 DEF Unbroken
<1>5. Carried(v, k, Len(v)) = Carried(w, k, Len(w)) \cup (IF f.type = "event" THEN {f.id} ELSE {})
  <2>1. ASSUME NEW x PROVE x \in Carried(v, k, Len(v)) <=>
                             x \in Carried(w, k, Len(w)) \/ (f.type = "event" /\ x = f.id)
    BY <1>1, <1>2, <1>3 DEF Carried
  <2> QED BY <2>1
<1>6. At(v, cur, Len(v)) = CursorOf(f) /\ (Place(v, cur, Len(v)) <=> f.type \in {"event", "replay_done"})
  BY SMTT(60), <1>1 DEF At, Place
<1>7. Unbroken(v, Len(v), Len(v)) /\ Carried(v, Len(v), Len(v)) = {}
  BY SMTT(60), <1>1 DEF Unbroken, Carried
<1> QED BY <1>4, <1>5, <1>6, <1>7

LEMMA LongerOpen ==
  ASSUME NEW v \in Seq(FrameRecord), NEW w \in Seq(FrameRecord), NEW f \in FrameRecord,
         NEW cur, Longer(v, w, f)
  PROVE  /\ \A k \in 0..Len(w) :
              Open(v, cur, k) <=> (Open(w, cur, k) /\ f.type # "resync_required")
         /\ Open(v, cur, Len(v)) <=> f.type \in {"event", "replay_done"}
         /\ \A k \in 0..Len(v) : k \in 0..Len(w) \/ k = Len(v)
<1>1. Len(w) \in Nat /\ Len(v) = Len(w) + 1
  BY SMTT(60) DEF Longer
<1>2. ASSUME NEW k \in 0..Len(w)
      PROVE  Open(v, cur, k) <=> (Open(w, cur, k) /\ f.type # "resync_required")
  BY SMTT(60), <1>1, LongerParts, LongerEnd DEF Open
<1>3. Open(v, cur, Len(v)) <=> f.type \in {"event", "replay_done"}
  <2>1. 0 \in 0..Len(w) /\ Len(v) \in 0..Len(v)
    BY SMTT(60), <1>1
  <2> QED BY <2>1, LongerEnd DEF Open
<1> QED BY SMTT(60), <1>1, <1>2, <1>3

\* One more frame keeps the wire in order when it follows every open place.
LEMMA LongerInOrder ==
  ASSUME NEW v \in Seq(FrameRecord), NEW w \in Seq(FrameRecord), NEW f \in FrameRecord,
         NEW cur, NEW lg, Longer(v, w, f), WireInOrder(w, cur, lg),
         f.type \in {"event", "replay_done"} =>
           /\ f.id <= Len(lg[f.epoch])
           /\ f.type = "event" => /\ f.id \in WantedOf(lg, f.epoch)
                                  /\ \E k \in 0..Len(w) : Open(w, cur, k)
           /\ \A k \in 0..Len(w) : Open(w, cur, k) =>
                /\ f.epoch = At(w, cur, k).epoch
                /\ At(w, cur, k).id <= f.id
                /\ f.type = "event" => At(w, cur, k).id < f.id
                /\ \A i \in WantedOf(lg, f.epoch) :
                     At(w, cur, k).id < i /\ i <= f.id =>
                       i \in Carried(w, k, Len(w)) \/ (f.type = "event" /\ i = f.id)
  PROVE  WireInOrder(v, cur, lg)
<1>0. Len(w) \in Nat /\ Len(v) = Len(w) + 1 /\ v[Len(v)] = f
  BY SMTT(60) DEF Longer
<1> SUFFICES ASSUME NEW m \in 1..Len(v), Place(v, cur, m)
             PROVE  /\ v[m].id <= Len(lg[v[m].epoch])
                    /\ v[m].type = "event" =>
                         /\ v[m].id \in WantedOf(lg, v[m].epoch)
                         /\ \E k \in 0..(m - 1) : Place(v, cur, k) /\ Unbroken(v, k, m)
                    /\ \A k \in 0..(m - 1) :
                         Place(v, cur, k) /\ Unbroken(v, k, m) => Steps(v, cur, lg, k, m)
  BY DEF WireInOrder
<1>1. CASE m \in 1..Len(w)
  <2>1. v[m] = w[m] /\ m \in 0..Len(w)
    BY SMTT(60), <1>0, <1>1 DEF Longer
  <2>2. Place(w, cur, m)
    BY <2>1, LongerParts
  <2>3. \A k \in 0..(m - 1) : /\ k \in 0..Len(w)
                              /\ Place(v, cur, k) <=> Place(w, cur, k)
                              /\ Unbroken(v, k, m) <=> Unbroken(w, k, m)
                              /\ At(v, cur, k) = At(w, cur, k)
                              /\ Carried(v, k, m) = Carried(w, k, m)
    <3> TAKE k \in 0..(m - 1)
    <3>1. k \in 0..Len(w)
      BY SMTT(60), <1>0, <1>1
    <3>2. At(v, cur, k) = At(w, cur, k)
      BY SMTT(60), <3>1 DEF Longer, At, CursorOf
    <3>5. Carried(v, k, m) = Carried(w, k, m)
      BY <2>1, <3>1, LongerParts
    <3>3. Place(v, cur, k) <=> Place(w, cur, k)
      BY <2>1, <3>1, LongerParts
    <3>4. Unbroken(v, k, m) <=> Unbroken(w, k, m)
      BY <2>1, <3>1, LongerParts
    <3> QED BY <3>1, <3>2, <3>3, <3>4, <3>5
  <2>4. /\ w[m].id <= Len(lg[w[m].epoch])
        /\ w[m].type = "event" =>
             /\ w[m].id \in WantedOf(lg, w[m].epoch)
             /\ \E k \in 0..(m - 1) : Place(w, cur, k) /\ Unbroken(w, k, m)
        /\ \A k \in 0..(m - 1) :
             Place(w, cur, k) /\ Unbroken(w, k, m) => Steps(w, cur, lg, k, m)
    BY <1>1, <2>2 DEF WireInOrder
  <2>5. \A k \in 0..(m - 1) : Steps(w, cur, lg, k, m) => Steps(v, cur, lg, k, m)
    BY <2>1, <2>3 DEF Steps
  <2> QED BY <2>1, <2>3, <2>4, <2>5
<1>2. CASE m = Len(v)
  <2>1. v[m] = f /\ f.type \in {"event", "replay_done"} /\ m - 1 = Len(w)
    BY SMTT(60), <1>0, <1>2 DEF Place
  <2>2. \A k \in 0..Len(w) : /\ Place(v, cur, k) <=> Place(w, cur, k)
                             /\ At(v, cur, k) = At(w, cur, k)
    BY SMTT(60), LongerParts
  <2>3. \A k \in 0..Len(w) : 
          /\ Unbroken(v, k, m) <=> Unbroken(w, k, Len(w))
          /\ Carried(v, k, m) = Carried(w, k, Len(w)) \cup (IF f.type = "event" THEN {f.id} ELSE {})
    BY SMTT(60), <1>2, <2>1, LongerEnd
  <2>4. \A k \in 0..Len(w) : Open(w, cur, k) <=> (Place(v, cur, k) /\ Unbroken(v, k, m))
    BY <2>2, <2>3 DEF Open
  <2>5. ASSUME NEW k \in 0..Len(w), Open(w, cur, k)
        PROVE  Steps(v, cur, lg, k, m)
    <3>1. \A i \in WantedOf(lg, f.epoch) : At(w, cur, k).id < i /\ i <= f.id => i \in Carried(v, k, m)
      BY <2>1, <2>3, <2>5
    <3> QED BY <2>1, <2>2, <2>5, <3>1 DEF Steps
  <2> QED BY <2>1, <2>4, <2>5
<1> QED BY SMTT(60), <1>0, <1>1, <1>2

\* A frame that is no place leaves what is to come as it was, and a call to
\* start over leaves nothing to follow.
LEMMA LongerQuiet ==
  ASSUME NEW v \in Seq(FrameRecord), NEW w \in Seq(FrameRecord), NEW f \in FrameRecord,
         NEW cur, NEW e, NEW S, NEW X, Longer(v, w, f),
         f.type \in {"open", "close", "resync_required"}
  PROVE  /\ f.type = "resync_required" => \A k \in 0..Len(v) : ~Open(v, cur, k)
         /\ \A k \in 0..Len(v) : Open(v, cur, k) => k \in 0..Len(w) /\ Open(w, cur, k)
         /\ f.type # "resync_required" /\ (\E k \in 0..Len(w) : Open(w, cur, k))
              => \E k \in 0..Len(v) : Open(v, cur, k)
         /\ \A k \in 0..Len(w) : At(v, cur, k) = At(w, cur, k)
         /\ Ready(w, cur, e, S, X) => Ready(v, cur, e, S, X)
<1>0. Len(w) \in Nat /\ Len(v) = Len(w) + 1
  BY SMTT(60) DEF Longer
<1>1. \A k \in 0..Len(v) : Open(v, cur, k) =>
        k \in 0..Len(w) /\ Open(w, cur, k) /\ f.type # "resync_required"
  BY SMTT(60), LongerOpen
<1>2. \A k \in 0..Len(w) : At(v, cur, k) = At(w, cur, k)
  BY SMTT(60), LongerParts
<1>3. ASSUME NEW k \in 0..Len(w) PROVE Carried(v, k, Len(v)) = Carried(w, k, Len(w))
  <2>1. Carried(v, k, Len(v)) = Carried(w, k, Len(w)) \cup (IF f.type = "event" THEN {f.id} ELSE {})
    BY LongerEnd
  <2> QED BY <2>1
<1>4. Ready(w, cur, e, S, X) => Ready(v, cur, e, S, X)
  BY <1>1, <1>2, <1>3 DEF Ready
<1>5. ASSUME f.type # "resync_required", NEW k \in 0..Len(w), Open(w, cur, k)
      PROVE  k \in 0..Len(v) /\ Open(v, cur, k)
  <2>1. k \in 0..Len(v)
    BY SMTT(60), <1>0
  <2>2. Open(v, cur, k) <=> (Open(w, cur, k) /\ f.type # "resync_required")
    BY LongerOpen
  <2> QED BY <1>5, <2>1, <2>2
<1> QED BY <1>1, <1>2, <1>4, <1>5

LEMMA CarriedOpen ==
  ASSUME NEW w \in Seq(FrameRecord), NEW cur, NEW k \in 0..Len(w), Open(w, cur, k),
         NEW i \in Carried(w, k, Len(w))
  PROVE  \E j \in 0..Len(w) : Open(w, cur, j) /\ At(w, cur, j).id = i
<1>1. PICK j \in (k + 1)..Len(w) : w[j].type = "event" /\ w[j].id = i
  BY DEF Carried
<1>2. j \in 0..Len(w) /\ j # 0
  BY SMTT(60)
<1>3. Place(w, cur, j) /\ At(w, cur, j).id = i
  BY <1>1, <1>2 DEF Place, At, CursorOf
<1>4. Unbroken(w, j, Len(w))
  BY SMTT(60), <1>2 DEF Open, Unbroken
<1> QED BY <1>2, <1>3, <1>4 DEF Open

LEMMA CursorTypes ==
  ASSUME NEW w \in Seq(FrameRecord), NEW cur \in CursorRecord, NEW k \in 0..Len(w)
  PROVE  At(w, cur, k).id \in Nat
<1>1. k # 0 => w[k] \in FrameRecord
  BY SMTT(60)
<1> QED BY <1>1 DEF At, CursorOf, FrameRecord, CursorRecord

\* The next event still to send, sent: the wire stays in order and one event
\* less is to come.
LEMMA SendNext ==
  ASSUME NEW v \in Seq(FrameRecord), NEW w \in Seq(FrameRecord), NEW f \in FrameRecord,
         NEW cur \in CursorRecord, NEW lg, NEW e, NEW S \in SUBSET Nat, NEW X \in SUBSET Nat,
         Longer(v, w, f), WireInOrder(w, cur, lg), Ready(w, cur, e, S, X),
         \E k \in 0..Len(w) : Open(w, cur, k),
         f.type = "event", f.epoch = e, f.id \in X, \A j \in X : f.id <= j,
         f.id \in WantedOf(lg, e), \A i \in WantedOf(lg, e) : i <= f.id => i \in S
  PROVE  /\ WireInOrder(v, cur, lg)
         /\ Ready(v, cur, e, S, X \ {f.id})
         /\ \E k \in 0..Len(v) : Open(v, cur, k)
<1>0. f.id \in Nat /\ Len(w) \in Nat /\ Len(v) = Len(w) + 1 /\ f.id <= Len(lg[e])
  BY SMTT(60) DEF Longer, WantedOf
<1>1. \A k \in 0..Len(w) : Open(w, cur, k) =>
        /\ At(w, cur, k).epoch = e
        /\ \A i \in S : At(w, cur, k).id < i => i \in X \cup Carried(w, k, Len(w))
        /\ \A i \in X : At(w, cur, k).id < i
  BY DEF Ready
<1>2. WireInOrder(v, cur, lg)
  <2>1. ASSUME NEW k \in 0..Len(w), Open(w, cur, k)
        PROVE  /\ f.epoch = At(w, cur, k).epoch
               /\ At(w, cur, k).id <= f.id
               /\ f.type = "event" => At(w, cur, k).id < f.id
               /\ \A i \in WantedOf(lg, f.epoch) :
                    At(w, cur, k).id < i /\ i <= f.id =>
                      i \in Carried(w, k, Len(w)) \/ (f.type = "event" /\ i = f.id)
    <3>1. At(w, cur, k).id \in Nat /\ At(w, cur, k).id < f.id
      BY <1>1, <2>1, CursorTypes
    <3>2. ASSUME NEW i \in WantedOf(lg, e), At(w, cur, k).id < i, i <= f.id
          PROVE  i \in Carried(w, k, Len(w)) \/ i = f.id
      <4>1. i \in S /\ i \in Nat
        BY <3>2 DEF WantedOf
      <4>2. i \in X => i = f.id
        BY SMTT(60), <1>0, <3>2, <4>1
      <4> QED BY <1>1, <2>1, <3>2, <4>1, <4>2
    <3> QED BY SMTT(60), <1>0, <1>1, <2>1, <3>1, <3>2
  <2>2. f.type \in {"event", "replay_done"} =>
           /\ f.id <= Len(lg[f.epoch])
           /\ f.type = "event" => /\ f.id \in WantedOf(lg, f.epoch)
                                  /\ \E k \in 0..Len(w) : Open(w, cur, k)
    BY <1>0
  <2> QED BY <2>1, <2>2, LongerInOrder
<1>3. Len(v) \in 0..Len(v) /\ Open(v, cur, Len(v))
  BY SMTT(60), <1>0, LongerOpen
<1>4. ASSUME NEW k \in 0..Len(v), Open(v, cur, k)
      PROVE  /\ At(v, cur, k).epoch = e
             /\ \A i \in S : At(v, cur, k).id < i => i \in (X \ {f.id}) \cup Carried(v, k, Len(v))
             /\ \A i \in X \ {f.id} : At(v, cur, k).id < i
  <2>1. CASE k \in 0..Len(w)
    <3>1. Open(w, cur, k)
      BY <1>4, <2>1, LongerOpen
    <3>2. At(v, cur, k) = At(w, cur, k)
      BY SMTT(60), <2>1 DEF Longer, At, CursorOf
    <3>3. Carried(v, k, Len(v)) = Carried(w, k, Len(w)) \cup (IF f.type = "event" THEN {f.id} ELSE {})
      BY <2>1, LongerEnd
    <3>4. Carried(v, k, Len(v)) = Carried(w, k, Len(w)) \cup {f.id}
      BY <3>3
    <3> QED BY SMTT(60), <1>1, <2>1, <3>1, <3>2, <3>4
  <2>2. CASE k = Len(v)
    <3>1. At(v, cur, k) = CursorOf(f) /\ At(v, cur, k).id = f.id /\ At(v, cur, k).epoch = e
      BY SMTT(60), <1>0, <2>2 DEF Longer, At, CursorOf
    <3>2. PICK k0 \in 0..Len(w) : Open(w, cur, k0)
      OBVIOUS
    <3>3. At(w, cur, k0).id \in Nat /\ At(w, cur, k0).id < f.id
      BY <1>1, <3>2, CursorTypes
    <3>4. ASSUME NEW i \in S, f.id < i PROVE i \in X \ {f.id}
      <4>1. i \in X \cup Carried(w, k0, Len(w))
        BY SMTT(60), <1>0, <1>1, <3>2, <3>3, <3>4
      <4>2. CASE i \in Carried(w, k0, Len(w))
        <5>1. PICK j \in 0..Len(w) : Open(w, cur, j) /\ At(w, cur, j).id = i
          BY <3>2, <4>2, CarriedOpen
        <5>2. i < f.id
          BY <1>1, <5>1
        <5> QED BY SMTT(60), <1>0, <3>4, <5>2
      <4> QED BY SMTT(60), <1>0, <3>4, <4>1, <4>2
    <3>5. \A i \in X \ {f.id} : f.id < i
      BY SMTT(60), <1>0
    <3> QED BY <3>1, <3>4, <3>5
  <2> QED BY SMTT(60), <1>0, <1>4, <2>1, <2>2
<1>5. Ready(v, cur, e, S, X \ {f.id})
  BY <1>4 DEF Ready
<1> QED BY <1>2, <1>3, <1>5

\* The end of the replay, sent: all that is wanted after it is to come.
LEMMA SendDone ==
  ASSUME NEW v \in Seq(FrameRecord), NEW w \in Seq(FrameRecord), NEW f \in FrameRecord,
         NEW cur \in CursorRecord, NEW lg, NEW e, NEW X \in SUBSET Nat,
         Longer(v, w, f), WireInOrder(w, cur, lg),
         f.type = "replay_done", f.epoch = e, f.id <= Len(lg[e]),
         Ready(w, cur, e, {i \in WantedOf(lg, e) : i <= f.id}, {}),
         \A k \in 0..Len(w) : Open(w, cur, k) => At(w, cur, k).id <= f.id
  PROVE  /\ WireInOrder(v, cur, lg)
         /\ \E k \in 0..Len(v) : Open(v, cur, k)
         /\ (\A i \in WantedOf(lg, e) : i > f.id => i \in X) /\ (\A i \in X : i > f.id)
              => Ready(v, cur, e, WantedOf(lg, e), X)
<1>0. f.id \in Nat /\ Len(w) \in Nat /\ Len(v) = Len(w) + 1 /\ WantedOf(lg, e) \subseteq Nat
  BY SMTT(60) DEF Longer, WantedOf, FrameRecord
<1>1. \A k \in 0..Len(w) : Open(w, cur, k) =>
        /\ At(w, cur, k).epoch = e
        /\ \A i \in WantedOf(lg, e) : i <= f.id /\ At(w, cur, k).id < i => i \in Carried(w, k, Len(w))
  BY DEF Ready
<1>2. WireInOrder(v, cur, lg)
  <2>1. ASSUME NEW k \in 0..Len(w), Open(w, cur, k)
        PROVE  /\ f.epoch = At(w, cur, k).epoch
               /\ At(w, cur, k).id <= f.id
               /\ \A i \in WantedOf(lg, f.epoch) :
                    At(w, cur, k).id < i /\ i <= f.id => i \in Carried(w, k, Len(w))
    BY <1>1, <2>1
  <2>2. f.id <= Len(lg[f.epoch]) /\ f.type # "event"
    OBVIOUS
  <2> QED BY <2>1, <2>2, LongerInOrder
<1>3. Len(v) \in 0..Len(v) /\ Open(v, cur, Len(v))
  BY SMTT(60), <1>0, LongerOpen
<1>4. ASSUME \A i \in WantedOf(lg, e) : i > f.id => i \in X, \A i \in X : i > f.id,
             NEW k \in 0..Len(v), Open(v, cur, k)
      PROVE  /\ At(v, cur, k).epoch = e
             /\ \A i \in WantedOf(lg, e) : At(v, cur, k).id < i => i \in X \cup Carried(v, k, Len(v))
             /\ \A i \in X : At(v, cur, k).id < i
  <2>1. CASE k \in 0..Len(w)
    <3>1. Open(w, cur, k)
      BY <1>4, <2>1, LongerOpen
    <3>2. At(v, cur, k) = At(w, cur, k)
      BY SMTT(60), <2>1 DEF Longer, At, CursorOf
    <3>3. Carried(v, k, Len(v)) = Carried(w, k, Len(w)) \cup (IF f.type = "event" THEN {f.id} ELSE {})
      BY <2>1, LongerEnd
    <3>4. Carried(v, k, Len(v)) = Carried(w, k, Len(w))
      BY <3>3
    <3>5. At(w, cur, k).id \in Nat /\ At(w, cur, k).id <= f.id
      BY <2>1, <3>1, CursorTypes
    <3> QED BY SMTT(60), <1>0, <1>1, <1>4, <2>1, <3>1, <3>2, <3>4, <3>5
  <2>2. CASE k = Len(v)
    <3>1. At(v, cur, k).id = f.id /\ At(v, cur, k).epoch = e
      BY SMTT(60), <1>0, <2>2 DEF Longer, At, CursorOf
    <3> QED BY <1>0, <1>4, <3>1
  <2> QED BY SMTT(60), <1>0, <1>4, <2>1, <2>2
<1>5. (\A i \in WantedOf(lg, e) : i > f.id => i \in X) /\ (\A i \in X : i > f.id)
              => Ready(v, cur, e, WantedOf(lg, e), X)
  BY <1>4 DEF Ready
<1> QED BY <1>2, <1>3, <1>5

\* The page read the first frame of w: it was at cur and is at nxt.  Where it will
\* be after k more frames is where it was to be after Source(w, k) frames.
Source(w, k) == IF k = 0 /\ w[1].type = "open" THEN 0 ELSE k + 1

Reads(v, w, cur, nxt) ==
  /\ Shorter(v, w)
  /\ w[1].type # "close"
  /\ w[1].type = "open" => nxt = cur
  /\ w[1].type = "resync_required" => nxt = Lost
  /\ w[1].type \in {"event", "replay_done"} => nxt = CursorOf(w[1]) /\ nxt # Lost

LEMMA ReadParts ==
  ASSUME NEW v \in Seq(FrameRecord), NEW w \in Seq(FrameRecord), NEW cur, NEW nxt,
         Reads(v, w, cur, nxt), NEW k \in 0..Len(v), NEW m \in 0..Len(v)
  PROVE  /\ Source(w, k) \in 0..Len(w)
         /\ k < m => Source(w, k) \in 0..m
         /\ Place(v, nxt, k) <=> Place(w, cur, Source(w, k))
         /\ Place(v, nxt, k) => At(v, nxt, k) = At(w, cur, Source(w, k))
         /\ Unbroken(v, k, m) <=> Unbroken(w, Source(w, k), m + 1)
         /\ Carried(v, k, m) = Carried(w, Source(w, k), m + 1)
<1>0. /\ Len(v) \in Nat /\ Len(w) = Len(v) + 1 /\ w[1] \in FrameRecord
      /\ \A j \in 1..Len(v) : v[j] = w[j + 1]
  BY SMTT(60) DEF Reads, Shorter
<1>1. Source(w, k) \in 0..Len(w) /\ (k < m => Source(w, k) \in 0..m)
  BY SMTT(60), <1>0 DEF Source
<1>2. w[1].type \in FrameType
  BY <1>0 DEF FrameRecord
<1>3. /\ Place(v, nxt, k) <=> Place(w, cur, Source(w, k))
      /\ Place(v, nxt, k) => At(v, nxt, k) = At(w, cur, Source(w, k))
  <2>1. CASE k = 0
    <3>1. CASE w[1].type = "open"
      BY <2>1, <3>1 DEF Reads, Source, Place, At
    <3>2. CASE w[1].type # "open"
      <4>1. Source(w, k) = 1
        BY SMTT(60), <2>1, <3>2 DEF Source
      <4>2. (Place(v, nxt, k) <=> nxt # Lost) /\ At(v, nxt, k) = nxt
        BY <2>1 DEF Place, At
      <4>3. /\ Place(w, cur, 1) <=> w[1].type \in {"event", "replay_done"}
            /\ At(w, cur, 1) = CursorOf(w[1])
        BY SMTT(60) DEF Place, At
      <4>4. /\ w[1].type \in {"event", "replay_done"} => nxt = CursorOf(w[1]) /\ nxt # Lost
            /\ w[1].type \notin {"event", "replay_done"} => nxt = Lost
        BY <1>2, <3>2 DEF Reads, FrameType
      <4> QED BY <4>1, <4>2, <4>3, <4>4
    <3> QED BY <3>1, <3>2
  <2>2. CASE k # 0
    <3>1. Source(w, k) = k + 1 /\ k + 1 # 0 /\ v[k] = w[k + 1]
      BY SMTT(60), <1>0, <2>2 DEF Source
    <3>2. (Place(v, nxt, k) <=> v[k].type \in {"event", "replay_done"}) /\ At(v, nxt, k) = CursorOf(v[k])
      BY <2>2 DEF Place, At
    <3>3. /\ Place(w, cur, k + 1) <=> w[k + 1].type \in {"event", "replay_done"}
          /\ At(w, cur, k + 1) = CursorOf(w[k + 1])
      BY <3>1 DEF Place, At
    <3> QED BY <3>1, <3>2, <3>3
  <2> QED BY <2>1, <2>2
<1>4. CASE k = 0 /\ w[1].type = "open"
  <2>1. Source(w, k) = 0
    BY <1>4 DEF Source
  <2>2. \A j \in 1..(m + 1) : j = 1 \/ (j - 1 \in 1..m /\ v[j - 1] = w[j])
    <3> TAKE j \in 1..(m + 1)
    <3>1. j = 1 \/ (j - 1 \in 1..Len(v) /\ j - 1 \in 1..m /\ (j - 1) + 1 = j)
      BY SMTT(60), <1>0
    <3> QED BY <1>0, <3>1
  <2>3. \A j \in 1..m : j + 1 \in 1..(m + 1) /\ v[j] = w[j + 1]
    BY SMTT(60), <1>0
  <2>4. Unbroken(v, k, m) <=> Unbroken(w, Source(w, k), m + 1)
    <3>1. Unbroken(v, k, m) => Unbroken(w, 0, m + 1)
      BY SMTT(60), <1>4, <2>2 DEF Unbroken
    <3>2. Unbroken(w, 0, m + 1) => Unbroken(v, k, m)
      BY SMTT(60), <1>4, <2>3 DEF Unbroken
    <3> QED BY <2>1, <3>1, <3>2
  <2>5. ASSUME NEW x PROVE x \in Carried(v, k, m) <=> x \in Carried(w, 0, m + 1)
    <3>1. x \in Carried(v, k, m) <=> \E j \in 1..m : v[j].type = "event" /\ x = v[j].id
      BY SMTT(60), <1>4 DEF Carried
    <3>2. x \in Carried(w, 0, m + 1) <=> \E j \in 1..(m + 1) : w[j].type = "event" /\ x = w[j].id
      BY SMTT(60) DEF Carried
    <3>3. ASSUME NEW j \in 1..m, v[j].type = "event" /\ x = v[j].id
          PROVE  \E i \in 1..(m + 1) : w[i].type = "event" /\ x = w[i].id
      BY <2>3, <3>3
    <3>4. ASSUME NEW j \in 1..(m + 1), w[j].type = "event" /\ x = w[j].id
          PROVE  \E i \in 1..m : v[i].type = "event" /\ x = v[i].id
      BY <1>4, <2>2, <3>4
    <3> QED BY <3>1, <3>2, <3>3, <3>4
  <2> QED BY <1>1, <1>3, <2>1, <2>4, <2>5
<1>5. CASE ~(k = 0 /\ w[1].type = "open")
  <2>1. Source(w, k) = k + 1
    BY <1>5 DEF Source
  <2>2. \A j \in (k + 2)..(m + 1) : (j - 1 \in (k + 1)..m /\ v[j - 1] = w[j])
    BY SMTT(60), <1>0
  <2>3. \A j \in (k + 1)..m : j + 1 \in (k + 2)..(m + 1) /\ v[j] = w[j + 1]
    BY SMTT(60), <1>0
  <2>4. Unbroken(v, k, m) <=> Unbroken(w, Source(w, k), m + 1)
    <3>1. (k + 1) + 1 = k + 2
      BY SMTT(60)
    <3>2. Unbroken(v, k, m) => Unbroken(w, k + 1, m + 1)
      BY <2>2, <3>1 DEF Unbroken
    <3>3. Unbroken(w, k + 1, m + 1) => Unbroken(v, k, m)
      BY <2>3, <3>1 DEF Unbroken
    <3> QED BY <2>1, <3>2, <3>3
  <2>5. ASSUME NEW x PROVE x \in Carried(v, k, m) <=> x \in Carried(w, k + 1, m + 1)
    <3>1. x \in Carried(v, k, m) <=> \E j \in (k + 1)..m : v[j].type = "event" /\ x = v[j].id
      BY DEF Carried
    <3>2. x \in Carried(w, k + 1, m + 1) <=> \E j \in (k + 2)..(m + 1) : w[j].type = "event" /\ x = w[j].id
      BY SMTT(60) DEF Carried
    <3>3. ASSUME NEW j \in (k + 1)..m, v[j].type = "event" /\ x = v[j].id
          PROVE  \E i \in (k + 2)..(m + 1) : w[i].type = "event" /\ x = w[i].id
      BY <2>3, <3>3
    <3>4. ASSUME NEW j \in (k + 2)..(m + 1), w[j].type = "event" /\ x = w[j].id
          PROVE  \E i \in (k + 1)..m : v[i].type = "event" /\ x = v[i].id
      BY <2>2, <3>4
    <3> QED BY <3>1, <3>2, <3>3, <3>4
  <2> QED BY <1>1, <1>3, <2>1, <2>4, <2>5
<1> QED BY <1>4, <1>5

\* A place before the frame just read is, or is followed by, a place after it.
LEMMA ReadPlaces ==
  ASSUME NEW v \in Seq(FrameRecord), NEW w \in Seq(FrameRecord), NEW cur, NEW nxt,
         Reads(v, w, cur, nxt), NEW m \in 0..Len(v), NEW k \in 0..(m + 1),
         Place(w, cur, k), Unbroken(w, k, m + 1)
  PROVE  \E j \in 0..m : /\ j = 0 \/ j = k - 1
                         /\ Place(v, nxt, j) /\ Unbroken(v, j, m)
<1>0. Len(v) \in Nat /\ Len(w) = Len(v) + 1 /\ w[1] \in FrameRecord
  BY SMTT(60) DEF Reads, Shorter
<1>1. w[1].type \in FrameType
  BY <1>0 DEF FrameRecord
<1>2. CASE k > 1
  <2>1. k - 1 \in 0..m /\ k - 1 \in 0..Len(v) /\ Source(w, k - 1) = k
    BY SMTT(60), <1>0, <1>2 DEF Source
  <2>2. Place(v, nxt, k - 1) /\ Unbroken(v, k - 1, m)
    BY SMTT(60), <2>1, ReadParts
  <2> QED BY <2>1, <2>2
<1>3. CASE k = 1
  <2>1. w[1].type # "open"
    BY SMTT(60), <1>3 DEF Place
  <2>2. 0 \in 0..m /\ 0 \in 0..Len(v) /\ Source(w, 0) = k
    BY SMTT(60), <1>0, <1>3, <2>1 DEF Source
  <2>3. Place(v, nxt, 0) /\ Unbroken(v, 0, m)
    BY <2>2, ReadParts
  <2> QED BY <2>2, <2>3
<1>4. CASE k = 0
  <2>1. 1 \in 1..(m + 1) /\ w[1].type # "resync_required"
    BY SMTT(60), <1>4 DEF Unbroken
  <2>2. CASE w[1].type = "open"
    <3>1. 0 \in 0..m /\ 0 \in 0..Len(v) /\ Source(w, 0) = k
      BY SMTT(60), <1>0, <1>4, <2>2 DEF Source
    <3>2. Place(v, nxt, 0) /\ Unbroken(v, 0, m)
      BY <3>1, ReadParts
    <3> QED BY <3>1, <3>2
  <2>3. CASE w[1].type # "open"
    <3>1. w[1].type \in {"event", "replay_done"}
      BY <1>1, <2>1, <2>3 DEF FrameType, Reads
    <3>2. 0 \in 0..m /\ 0 \in 0..Len(v) /\ Source(w, 0) = 1
      BY SMTT(60), <1>0, <2>3 DEF Source
    <3>3. Place(w, cur, 1) /\ Unbroken(w, 1, m + 1)
      BY SMTT(60), <1>4, <3>1 DEF Place, Unbroken
    <3>4. Place(v, nxt, 0) /\ Unbroken(v, 0, m)
      BY <3>2, <3>3, ReadParts
    <3> QED BY <3>2, <3>4
  <2> QED BY <2>2, <2>3
<1> QED BY SMTT(60), <1>2, <1>3, <1>4

\* Reading a frame leaves the rest of the wire in order.
LEMMA ReadInOrder ==
  ASSUME NEW v \in Seq(FrameRecord), NEW w \in Seq(FrameRecord), NEW cur, NEW nxt, NEW lg,
         Reads(v, w, cur, nxt), WireInOrder(w, cur, lg)
  PROVE  WireInOrder(v, nxt, lg)
<1>0. /\ Len(v) \in Nat /\ Len(w) = Len(v) + 1
      /\ \A j \in 1..Len(v) : v[j] = w[j + 1]
  BY SMTT(60) DEF Reads, Shorter
<1> SUFFICES ASSUME NEW m \in 1..Len(v), Place(v, nxt, m)
             PROVE  /\ v[m].id <= Len(lg[v[m].epoch])
                    /\ v[m].type = "event" =>
                         /\ v[m].id \in WantedOf(lg, v[m].epoch)
                         /\ \E k \in 0..(m - 1) : Place(v, nxt, k) /\ Unbroken(v, k, m)
                    /\ \A k \in 0..(m - 1) :
                         Place(v, nxt, k) /\ Unbroken(v, k, m) => Steps(v, nxt, lg, k, m)
  BY DEF WireInOrder
<1>1. m + 1 \in 1..Len(w) /\ (m + 1) - 1 = m /\ m \in 0..Len(v) /\ v[m] = w[m + 1] /\ Source(w, m) = m + 1
  BY SMTT(60), <1>0 DEF Source
<1>2. Place(w, cur, m + 1)
  BY SMTT(60), <1>1, ReadParts
<1>3. /\ w[m + 1].id <= Len(lg[w[m + 1].epoch])
      /\ w[m + 1].type = "event" =>
           /\ w[m + 1].id \in WantedOf(lg, w[m + 1].epoch)
           /\ \E k \in 0..m : Place(w, cur, k) /\ Unbroken(w, k, m + 1)
      /\ \A k \in 0..m :
           Place(w, cur, k) /\ Unbroken(w, k, m + 1) => Steps(w, cur, lg, k, m + 1)
  BY <1>1, <1>2 DEF WireInOrder
<1>4. ASSUME NEW k \in 0..m, Place(w, cur, k), Unbroken(w, k, m + 1)
      PROVE  \E j \in 0..(m - 1) : Place(v, nxt, j) /\ Unbroken(v, j, m)
  <2>1. k \in 0..(m + 1)
    BY SMTT(60)
  <2>2. PICK j \in 0..m : (j = 0 \/ j = k - 1) /\ Place(v, nxt, j) /\ Unbroken(v, j, m)
    BY SMTT(60), <1>1, <1>4, <2>1, ReadPlaces
  <2> QED BY SMTT(60), <2>2
<1>5. ASSUME NEW k \in 0..(m - 1), Place(v, nxt, k), Unbroken(v, k, m)
      PROVE  Steps(v, nxt, lg, k, m)
  <2>1. k \in 0..Len(v) /\ k < m
    BY SMTT(60), <1>0
  <2>2. Source(w, k) \in 0..m
    BY <1>1, <2>1, ReadParts
  <2>3. Place(w, cur, Source(w, k))
    BY <1>1, <1>5, <2>1, ReadParts
  <2>4. Unbroken(w, Source(w, k), m + 1)
    BY <1>1, <1>5, <2>1, ReadParts
  <2>5. Steps(w, cur, lg, Source(w, k), m + 1)
    BY <1>3, <2>2, <2>3, <2>4
  <2>6. At(v, nxt, k) = At(w, cur, Source(w, k)) /\ Carried(v, k, m) = Carried(w, Source(w, k), m + 1)
    BY SMTT(60), <1>1, <1>5, <2>1, ReadParts
  <2> QED BY <1>1, <2>5, <2>6 DEF Steps
<1> QED BY <1>1, <1>3, <1>4, <1>5

\* Reading a frame changes nothing for the handler.
LEMMA ReadReady ==
  ASSUME NEW v \in Seq(FrameRecord), NEW w \in Seq(FrameRecord), NEW cur, NEW nxt,
         NEW e, NEW S, NEW X, NEW b, Reads(v, w, cur, nxt)
  PROVE  /\ (\E k \in 0..Len(w) : Open(w, cur, k)) => \E k \in 0..Len(v) : Open(v, nxt, k)
         /\ (\A k \in 0..Len(w) : Open(w, cur, k) => At(w, cur, k).id <= b)
              => \A k \in 0..Len(v) : Open(v, nxt, k) => At(v, nxt, k).id <= b
         /\ Ready(w, cur, e, S, X) => Ready(v, nxt, e, S, X)
<1>0. Len(v) \in Nat /\ Len(w) = Len(v) + 1 /\ Len(v) \in 0..Len(v) /\ 0..Len(w) = 0..(Len(v) + 1)
  BY SMTT(60) DEF Reads, Shorter
<1>1. ASSUME NEW k \in 0..Len(w), Open(w, cur, k)
      PROVE  \E j \in 0..Len(v) : Open(v, nxt, j)
  <2>1. Place(w, cur, k) /\ Unbroken(w, k, Len(v) + 1)
    BY <1>0, <1>1 DEF Open
  <2>2. PICK j \in 0..Len(v) : Place(v, nxt, j) /\ Unbroken(v, j, Len(v))
    BY <1>0, <2>1, ReadPlaces
  <2> QED BY <2>2 DEF Open
<1>2. ASSUME NEW k \in 0..Len(v), Open(v, nxt, k)
      PROVE  /\ Source(w, k) \in 0..Len(w)
             /\ Open(w, cur, Source(w, k))
             /\ At(v, nxt, k) = At(w, cur, Source(w, k))
             /\ Carried(v, k, Len(v)) = Carried(w, Source(w, k), Len(w))
  <2>1. Place(v, nxt, k) /\ Unbroken(v, k, Len(v))
    BY <1>2 DEF Open
  <2>2. Source(w, k) \in 0..Len(w) /\ Place(w, cur, Source(w, k))
    BY <1>0, <2>1, ReadParts
  <2>3. Unbroken(w, Source(w, k), Len(w))
    BY SMTT(60), <1>0, <2>1, ReadParts
  <2>4. At(v, nxt, k) = At(w, cur, Source(w, k)) /\ Carried(v, k, Len(v)) = Carried(w, Source(w, k), Len(w))
    BY SMTT(60), <1>0, <2>1, ReadParts
  <2> QED BY <2>2, <2>3, <2>4 DEF Open
<1>3. Ready(w, cur, e, S, X) => Ready(v, nxt, e, S, X)
  BY <1>2 DEF Ready
<1> QED BY <1>1, <1>2, <1>3

LEMMA GrowInOrder ==
  ASSUME NEW lg \in [1..MaxEpoch -> Seq(Topic)], NEW e \in 1..MaxEpoch, NEW t \in Topic,
         NEW lg2, Grown(lg2, lg, e, t),
         NEW w \in Seq(FrameRecord), NEW cur, WireInOrder(w, cur, lg)
  PROVE  WireInOrder(w, cur, lg2)
<1> SUFFICES ASSUME NEW m \in 1..Len(w), Place(w, cur, m)
             PROVE  /\ w[m].id <= Len(lg2[w[m].epoch])
                    /\ w[m].type = "event" =>
                         /\ w[m].id \in WantedOf(lg2, w[m].epoch)
                         /\ \E k \in 0..(m - 1) : Place(w, cur, k) /\ Unbroken(w, k, m)
                    /\ \A k \in 0..(m - 1) :
                         Place(w, cur, k) /\ Unbroken(w, k, m) => Steps(w, cur, lg2, k, m)
  BY DEF WireInOrder
<1>0. w[m] \in FrameRecord
  BY SMTT(60)
<1>1. w[m].epoch \in 1..MaxEpoch /\ w[m].id \in Nat
  BY <1>0 DEF FrameRecord
<1>2. /\ w[m].id <= Len(lg[w[m].epoch])
      /\ w[m].type = "event" =>
           /\ w[m].id \in WantedOf(lg, w[m].epoch)
           /\ \E k \in 0..(m - 1) : Place(w, cur, k) /\ Unbroken(w, k, m)
      /\ \A k \in 0..(m - 1) :
           Place(w, cur, k) /\ Unbroken(w, k, m) => Steps(w, cur, lg, k, m)
  BY DEF WireInOrder
<1>7. ASSUME NEW d \in 1..MaxEpoch
      PROVE  /\ Len(lg[d]) \in Nat /\ Len(lg2[d]) \in Nat /\ Len(lg[d]) <= Len(lg2[d])
             /\ \A i \in WantedOf(lg, d) : i \in WantedOf(lg2, d)
             /\ \A i \in WantedOf(lg2, d) : i <= Len(lg[d]) => i \in WantedOf(lg, d)
  BY GrowWanted
<1>3. /\ Len(lg[w[m].epoch]) \in Nat /\ Len(lg2[w[m].epoch]) \in Nat
      /\ Len(lg[w[m].epoch]) <= Len(lg2[w[m].epoch])
      /\ \A i \in WantedOf(lg, w[m].epoch) : i \in WantedOf(lg2, w[m].epoch)
      /\ \A i \in WantedOf(lg2, w[m].epoch) :
           i <= Len(lg[w[m].epoch]) => i \in WantedOf(lg, w[m].epoch)
  BY <1>1, <1>7
<1>4. \A i \in WantedOf(lg2, w[m].epoch) : i \in Nat
  BY SMTT(60) DEF WantedOf
<1>5. ASSUME NEW k \in 0..(m - 1), Steps(w, cur, lg, k, m)
      PROVE  Steps(w, cur, lg2, k, m)
  <2>1. ASSUME NEW i \in WantedOf(lg2, w[m].epoch), i <= w[m].id
        PROVE  i \in WantedOf(lg, w[m].epoch)
    <3>1. i <= Len(lg[w[m].epoch])
      BY SMTT(60), <1>1, <1>2, <1>3, <1>4, <2>1
    <3> QED BY <1>3, <3>1
  <2> QED BY <1>5, <2>1 DEF Steps
<1> QED BY SMTT(60), <1>1, <1>2, <1>3, <1>5

-----------------------------------------------------------------------------
(* The page's socket: its wire w and its handler h.                        *)

LinkOK(h, w, cur, lg, e, pend) ==
  /\ WireInOrder(w, cur, lg)
  /\ Placed(h, w, cur, lg, e)
  /\ h.pc \in Following /\ ~h.reason => Supplied(h, w, cur, lg, e, pend)

LEMMA LinkIs ==
  /\ PageInv <=> /\ CursorHonest
                 /\ ws # 0 => LinkOK(conn[ws], wire[ws], cursor, log, epoch, pending)
  /\ PageInv' <=> /\ CursorHonest'
                  /\ ws' # 0 => LinkOK(conn'[ws'], wire'[ws'], cursor', log', epoch', pending')
BY DEF PageInv, HandlerFollows, LinkOK

LEMMA FollowingFacts ==
  /\ "resync" \in Following /\ "replay" \in Following /\ "top" \in Following /\ "get" \in Following
  /\ "idle" \notin Following /\ "connecting" \notin Following
  /\ "ended" \notin Following /\ "gone" \notin Following
  /\ \A p \in Following : p \in ServingPc
BY DEF Following, ServingPc

\* A frame that is no place keeps the wire in order.
LEMMA QuietInOrder ==
  ASSUME NEW v \in Seq(FrameRecord), NEW w \in Seq(FrameRecord), NEW f \in FrameRecord,
         NEW cur, NEW lg, Longer(v, w, f), WireInOrder(w, cur, lg),
         f.type \in {"open", "close", "resync_required"}
  PROVE  WireInOrder(v, cur, lg)
<1>1. f.type \notin {"event", "replay_done"}
  OBVIOUS
<1> QED BY <1>1, LongerInOrder

\* A handler that is over has nothing to follow.
LEMMA OverLink ==
  ASSUME NEW h, NEW w, NEW cur, NEW lg, NEW e, NEW pend, WireInOrder(w, cur, lg),
         h.pc \in {"ended", "gone"}
  PROVE  LinkOK(h, w, cur, lg, e, pend)
<1>1. Placed(h, w, cur, lg, e) /\ h.pc \notin Following
  BY DEF Placed, Following
<1> QED BY <1>1 DEF LinkOK

\* A subscription that has its reason needs no more than its place.
LEMMA RetiredLink ==
  ASSUME NEW h2, NEW h, NEW w, NEW cur, NEW lg, NEW e, NEW pend, NEW pend2,
         LinkOK(h, w, cur, lg, e, pend),
         h2.pc = h.pc, h2.asked = h.asked, h2.boundary = h.boundary, h2.replay = h.replay,
         h.pc \in Following => h2.reason
  PROVE  LinkOK(h2, w, cur, lg, e, pend2)
<1>1. Placed(h2, w, cur, lg, e)
  BY DEF LinkOK, Placed
<1> QED BY <1>1 DEF LinkOK

\* The handler asks the page to start over.
LEMMA ResyncLink ==
  ASSUME NEW v \in Seq(FrameRecord), NEW w \in Seq(FrameRecord), NEW f \in FrameRecord,
         NEW cur, NEW lg, NEW e, NEW pend, NEW h, NEW h2, Longer(v, w, f),
         f.type = "resync_required", LinkOK(h, w, cur, lg, e, pend),
         h.pc = "resync", Moved(h2, h, "replay", h.replay, h.queue)
  PROVE  LinkOK(h2, v, cur, lg, e, pend)
<1>1. WireInOrder(v, cur, lg)
  BY QuietInOrder DEF LinkOK
<1>2. \A k \in 0..Len(v) : ~Open(v, cur, k)
  BY LongerQuiet
<1>3. /\ h2.pc = "replay" /\ h2.replay = h.replay /\ h2.queue = h.queue
      /\ h2.boundary = h.boundary /\ h2.reason = h.reason
  BY DEF Moved
<1>4. h.replay = {} /\ h.boundary <= Len(lg[e])
  BY FollowingFacts DEF LinkOK, Placed
<1>5. Below(v, cur, h2.boundary) /\ Ready(v, cur, e, UpTo(lg, e, h2.boundary), h2.replay)
  BY <1>2 DEF Below, Ready
<1>6. Placed(h2, v, cur, lg, e)
  BY <1>3, <1>4, <1>5 DEF Placed
<1>7. ASSUME ~h2.reason PROVE Supplied(h2, v, cur, lg, e, pend)
  <2>1. Supplied(h, w, cur, lg, e, pend)
    BY <1>3, <1>7, FollowingFacts DEF LinkOK
  <2>2. Later(h2, pend) = Later(h, pend)
    BY <1>3 DEF Later
  <2>3. h2.pc \notin {"top", "get"}
    BY <1>3
  <2> QED BY <1>3, <2>1, <2>2, <2>3 DEF Supplied
<1> QED BY <1>1, <1>6, <1>7 DEF LinkOK

\* The handler sends the next event of its replay.
LEMMA ReplayLink ==
  ASSUME NEW v \in Seq(FrameRecord), NEW w \in Seq(FrameRecord), NEW f \in FrameRecord,
         NEW cur \in CursorRecord, NEW lg, NEW e, NEW pend, NEW h \in ConnRecord, NEW h2,
         Longer(v, w, f), LinkOK(h, w, cur, lg, e, pend), h.pc = "replay",
         f.type = "event", f.epoch = e, IsFront(f.id, h.replay),
         Moved(h2, h, "replay", h.replay \ {f.id}, h.queue)
  PROVE  LinkOK(h2, v, cur, lg, e, pend)
<1> DEFINE S == UpTo(lg, e, h.boundary)
<1>1. /\ h.replay \subseteq S /\ Opened(w, cur) /\ Below(w, cur, h.boundary)
      /\ Ready(w, cur, e, S, h.replay) /\ h.boundary <= Len(lg[e])
      /\ f.id \in h.replay /\ \A j \in h.replay : f.id <= j
  BY FollowingFacts DEF LinkOK, Placed, IsFront
<1>2. S \in SUBSET Nat /\ h.replay \in SUBSET Nat /\ h.boundary \in Nat
  BY SMTT(60) DEF UpTo, WantedOf, ConnRecord
<1>3. f.id \in WantedOf(lg, e) /\ f.id <= h.boundary
  BY <1>1 DEF UpTo
<1>4. ASSUME NEW i \in WantedOf(lg, e), i <= f.id PROVE i \in S
  <2>1. i \in Nat /\ f.id \in Nat
    BY SMTT(60), <1>3 DEF WantedOf
  <2>2. i <= h.boundary
    BY SMTT(60), <1>2, <1>3, <1>4, <2>1
  <2> QED BY <2>2 DEF UpTo
<1>5. WireInOrder(w, cur, lg) /\ \E k \in 0..Len(w) : Open(w, cur, k)
  BY <1>1 DEF LinkOK, Opened
<1> HIDE DEF S
<1>6. /\ WireInOrder(v, cur, lg) /\ Ready(v, cur, e, S, h.replay \ {f.id})
      /\ \E k \in 0..Len(v) : Open(v, cur, k)
  BY <1>1, <1>2, <1>3, <1>4, <1>5, SendNext
<1>7. Below(v, cur, h.boundary)
  <2> SUFFICES ASSUME NEW k \in 0..Len(v), Open(v, cur, k) PROVE At(v, cur, k).id <= h.boundary
    BY DEF Below
  <2>1. CASE k \in 0..Len(w)
    <3>1. Open(w, cur, k)
      BY <2>1, LongerOpen
    <3>2. At(v, cur, k) = At(w, cur, k)
      BY SMTT(60), <2>1, LongerParts
    <3> QED BY <1>1, <2>1, <3>1, <3>2 DEF Below
  <2>2. CASE k = Len(v)
    <3>1. At(v, cur, k).id = f.id
      BY SMTT(60), <2>2 DEF Longer, At, CursorOf
    <3> QED BY <1>3, <3>1
  <2> QED BY <2>1, <2>2, LongerOpen
<1>8. /\ h2.pc = "replay" /\ h2.replay = h.replay \ {f.id} /\ h2.queue = h.queue
      /\ h2.boundary = h.boundary /\ h2.reason = h.reason
  BY DEF Moved
<1>9. Placed(h2, v, cur, lg, e)
  <2>1. h2.replay \subseteq S /\ Opened(v, cur)
    BY <1>1, <1>6, <1>8 DEF Opened
  <2> QED BY <1>1, <1>6, <1>7, <1>8, <2>1 DEF Placed, S
<1>10. ASSUME ~h2.reason PROVE Supplied(h2, v, cur, lg, e, pend)
  <2>1. Supplied(h, w, cur, lg, e, pend)
    BY <1>8, <1>10, FollowingFacts DEF LinkOK
  <2>2. Later(h2, pend) = Later(h, pend)
    BY <1>8 DEF Later
  <2>3. h2.pc \notin {"top", "get"}
    BY <1>8
  <2> QED BY <1>8, <2>1, <2>2, <2>3 DEF Supplied
<1> QED BY <1>6, <1>9, <1>10 DEF LinkOK

\* The handler ends its replay: the page knows where live events start.
LEMMA DoneLink ==
  ASSUME NEW v \in Seq(FrameRecord), NEW w \in Seq(FrameRecord), NEW f \in FrameRecord,
         NEW cur \in CursorRecord, NEW lg, NEW e, NEW pend \in Seq(Nat), NEW h \in ConnRecord, NEW h2,
         Longer(v, w, f), LinkOK(h, w, cur, lg, e, pend), h.pc = "replay", h.replay = {},
         f.type = "replay_done", f.epoch = e, f.id = h.boundary,
         Moved(h2, h, "top", h.replay, h.queue)
  PROVE  LinkOK(h2, v, cur, lg, e, pend)
<1>1. /\ WireInOrder(w, cur, lg) /\ Below(w, cur, f.id) /\ f.id <= Len(lg[e])
      /\ Ready(w, cur, e, UpTo(lg, e, f.id), {})
  BY FollowingFacts DEF LinkOK, Placed
<1>2. Ready(w, cur, e, {i \in WantedOf(lg, e) : i <= f.id}, {})
  BY <1>1 DEF UpTo
<1>3. \A k \in 0..Len(w) : Open(w, cur, k) => At(w, cur, k).id <= f.id
  BY <1>1 DEF Below
<1>4. Later(h, pend) \in SUBSET Nat
  BY SMTT(60) DEF Later, Ids, ConnRecord
<1>5. /\ WireInOrder(v, cur, lg) /\ \E k \in 0..Len(v) : Open(v, cur, k)
      /\ (\A i \in WantedOf(lg, e) : i > f.id => i \in Later(h, pend))
           /\ (\A i \in Later(h, pend) : i > f.id)
         => Ready(v, cur, e, WantedOf(lg, e), Later(h, pend))
  BY <1>1, <1>2, <1>3, <1>4, SendDone
<1>6. /\ h2.pc = "top" /\ h2.queue = h.queue /\ h2.boundary = h.boundary /\ h2.reason = h.reason
  BY DEF Moved
<1>7. Placed(h2, v, cur, lg, e)
  BY <1>1, <1>5, <1>6 DEF Placed, Opened
<1>8. ASSUME ~h2.reason PROVE Supplied(h2, v, cur, lg, e, pend)
  <2>1. Supplied(h, w, cur, lg, e, pend)
    BY <1>6, <1>8, FollowingFacts DEF LinkOK
  <2>2. Later(h2, pend) = Later(h, pend)
    BY <1>6 DEF Later
  <2>3. \A i \in WantedOf(lg, e) : i > f.id => i \in Later(h, pend)
    BY <2>1 DEF Supplied
  <2>4. \A i \in Later(h, pend) : i > f.id
    BY DEF Later
  <2>5. Ready(v, cur, e, WantedOf(lg, e), Later(h2, pend))
    BY <1>5, <2>2, <2>3, <2>4
  <2>6. h2.pc \notin {"resync", "replay"}
    BY <1>6
  <2> QED BY <1>6, <2>1, <2>5, <2>6 DEF Supplied
<1> QED BY <1>5, <1>7, <1>8 DEF LinkOK

\* The handler goes from the top of live() to its queue.
LEMMA TopLink ==
  ASSUME NEW w, NEW cur, NEW lg, NEW e, NEW pend, NEW h, NEW h2,
         LinkOK(h, w, cur, lg, e, pend), h.pc = "top",
         Moved(h2, h, "get", h.replay, h.queue)
  PROVE  LinkOK(h2, w, cur, lg, e, pend)
<1>1. /\ h2.pc = "get" /\ h2.queue = h.queue /\ h2.boundary = h.boundary /\ h2.reason = h.reason
  BY DEF Moved
<1>2. Later(h2, pend) = Later(h, pend)
  BY <1>1 DEF Later
<1>3. Placed(h2, w, cur, lg, e)
  <2>1. Opened(w, cur) /\ h.boundary <= Len(lg[e])
    BY FollowingFacts DEF LinkOK, Placed
  <2> QED BY <1>1, <2>1 DEF Placed
<1>4. Supplied(h, w, cur, lg, e, pend) => Supplied(h2, w, cur, lg, e, pend)
  <2>1. h2.pc \notin {"resync", "replay"}
    BY <1>1
  <2> QED BY <1>1, <1>2, <2>1 DEF Supplied
<1> QED BY <1>1, <1>3, <1>4, FollowingFacts DEF LinkOK

\* The handler takes an event from its queue and forwards it, unless it was replayed.
LEMMA GetLink ==
  ASSUME NEW v \in Seq(FrameRecord), NEW w \in Seq(FrameRecord), NEW f \in FrameRecord,
         NEW cur \in CursorRecord, NEW lg \in [1..MaxEpoch -> Seq(Topic)], NEW e \in 1..MaxEpoch,
         NEW pend, Window(pend, Len(lg[e])), NEW h \in ConnRecord, NEW h2,
         LinkOK(h, w, cur, lg, e, pend), h.pc = "get", ~h.reason, IsFront(f.id, h.queue),
         f.type = "event", f.epoch = e,
         (v = w /\ f.id <= h.boundary) \/ (Longer(v, w, f) /\ ~(f.id <= h.boundary)),
         Moved(h2, h, "top", h.replay, h.queue \ {f.id})
  PROVE  LinkOK(h2, v, cur, lg, e, pend)
<1> DEFINE S == WantedOf(lg, e)
           X == Later(h, pend)
<1>1. /\ WireInOrder(w, cur, lg) /\ Opened(w, cur) /\ Ready(w, cur, e, S, X)
      /\ h.boundary <= Len(lg[e])
      /\ \A i \in h.queue : i \in S /\ i <= Len(lg[e]) - Len(pend)
      /\ f.id \in h.queue /\ \A j \in h.queue : f.id <= j
  BY FollowingFacts DEF LinkOK, Placed, Supplied, IsFront
<1>2. /\ pend \in Seq(Nat) /\ Len(pend) \in Nat /\ Len(lg[e]) \in Nat
      /\ \A i \in Ids(pend) : i \in Nat /\ i > Len(lg[e]) - Len(pend)
  BY SMTT(60) DEF Window, Ids
<1>3. /\ S \in SUBSET Nat /\ X \in SUBSET Nat /\ h.boundary \in Nat /\ h.queue \in SUBSET Nat
  BY SMTT(60), <1>2 DEF WantedOf, Later, ConnRecord
<1>4. /\ h2.pc = "top" /\ h2.queue = h.queue \ {f.id} /\ h2.boundary = h.boundary
      /\ h2.reason = h.reason
  BY DEF Moved
<1>5. f.id \in Nat /\ f.id \in S /\ f.id \notin Ids(pend) /\ \A j \in X : f.id <= j
  <2>1. f.id \in S /\ f.id <= Len(lg[e]) - Len(pend) /\ f.id \in Nat
    BY <1>1, <1>3
  <2>2. \A i \in Ids(pend) : f.id < i
    BY SMTT(60), <1>2, <2>1
  <2> QED BY SMTT(60), <1>1, <1>3, <2>1, <2>2 DEF Later
<1>6. \A i \in h2.queue : i \in S /\ i <= Len(lg[e]) - Len(pend)
  BY <1>1, <1>4
<1>7. ASSUME WireInOrder(v, cur, lg), Opened(v, cur), Ready(v, cur, e, S, Later(h2, pend))
      PROVE  LinkOK(h2, v, cur, lg, e, pend)
  <2>1. Placed(h2, v, cur, lg, e)
    BY <1>1, <1>4, <1>7 DEF Placed
  <2>2. h2.pc \notin {"resync", "replay"}
    BY <1>4
  <2>3. Supplied(h2, v, cur, lg, e, pend)
    BY <1>6, <1>7, <2>2 DEF Supplied
  <2> QED BY <1>7, <2>1, <2>3 DEF LinkOK
<1>8. CASE v = w /\ f.id <= h.boundary
  <2>1. Later(h2, pend) = X
    BY SMTT(60), <1>3, <1>4, <1>5, <1>8 DEF Later
  <2> QED BY <1>1, <1>7, <1>8, <2>1
<1>9. CASE Longer(v, w, f) /\ ~(f.id <= h.boundary)
  <2>1. Later(h2, pend) = X \ {f.id} /\ f.id \in X
    BY SMTT(60), <1>1, <1>3, <1>4, <1>5, <1>9 DEF Later
  <2>2. \E k \in 0..Len(w) : Open(w, cur, k)
    BY <1>1 DEF Opened
  <2> HIDE DEF S, X
  <2>3. f.id \in WantedOf(lg, e) /\ \A i \in WantedOf(lg, e) : i <= f.id => i \in S
    BY <1>5 DEF S
  <2>4. /\ WireInOrder(v, cur, lg) /\ Ready(v, cur, e, S, X \ {f.id})
        /\ \E k \in 0..Len(v) : Open(v, cur, k)
    BY <1>1, <1>3, <1>5, <1>9, <2>1, <2>2, <2>3, SendNext
  <2>5. Opened(v, cur)
    BY <2>4 DEF Opened
  <2>6. Ready(v, cur, e, S, Later(h2, pend))
    BY <2>1, <2>4
  <2> QED BY <1>7, <2>4, <2>5, <2>6
<1> QED BY <1>8, <1>9

\* The page reads a frame: nothing changes for the handler.
LEMMA ReadLink ==
  ASSUME NEW v \in Seq(FrameRecord), NEW w \in Seq(FrameRecord), NEW cur, NEW nxt,
         NEW lg, NEW e, NEW pend, NEW h, Reads(v, w, cur, nxt), LinkOK(h, w, cur, lg, e, pend)
  PROVE  LinkOK(h, v, nxt, lg, e, pend)
<1>1. WireInOrder(v, nxt, lg)
  BY ReadInOrder DEF LinkOK
<1>2. w # <<>>
  BY SMTT(60) DEF Reads, Shorter
<1>3. Opened(w, cur) => Opened(v, nxt)
  BY ReadReady DEF Opened
<1>4. \A b : Below(w, cur, b) => Below(v, nxt, b)
  <2> SUFFICES ASSUME NEW b, Below(w, cur, b) PROVE Below(v, nxt, b)
    OBVIOUS
  <2>1. \A k \in 0..Len(w) : Open(w, cur, k) => At(w, cur, k).id <= b
    BY DEF Below
  <2>2. \A k \in 0..Len(v) : Open(v, nxt, k) => At(v, nxt, k).id <= b
    BY <2>1, ReadReady
  <2> QED BY <2>2 DEF Below
<1>5. \A S, X : Ready(w, cur, e, S, X) => Ready(v, nxt, e, S, X)
  BY ReadReady
<1>6. h.pc # "connecting"
  BY <1>2 DEF LinkOK, Placed
<1>7. Placed(h, v, nxt, lg, e)
  BY <1>3, <1>4, <1>5, <1>6 DEF LinkOK, Placed
<1>8. Supplied(h, w, cur, lg, e, pend) => Supplied(h, v, nxt, lg, e, pend)
  BY <1>5 DEF Supplied
<1> QED BY <1>1, <1>7, <1>8 DEF LinkOK

\* A handler whose last frame is no place leaves nothing to follow.
LEMMA CloseLink ==
  ASSUME NEW v \in Seq(FrameRecord), NEW w \in Seq(FrameRecord), NEW f \in FrameRecord,
         NEW cur, NEW lg, NEW e, NEW pend, NEW h, NEW h2, NEW e2, NEW pend2,
         Longer(v, w, f), f.type \in {"close", "resync_required"},
         LinkOK(h, w, cur, lg, e, pend), h2.pc \in {"ended", "gone"}
  PROVE  LinkOK(h2, v, cur, lg, e2, pend2)
<1>1. WireInOrder(v, cur, lg)
  <2>1. WireInOrder(w, cur, lg)
    BY DEF LinkOK
  <2>2. f.type \in {"open", "close", "resync_required"}
    OBVIOUS
  <2> QED BY <2>1, <2>2, QuietInOrder
<1> QED BY <1>1, OverLink

\* The server accepts the page's socket: what it replays follows the page's cursor.
LEMMA SubscribeLink ==
  ASSUME NEW v \in Seq(FrameRecord), NEW w \in Seq(FrameRecord), NEW f \in FrameRecord,
         NEW cur, NEW lg \in [1..MaxEpoch -> Seq(Topic)], NEW e \in 1..MaxEpoch,
         NEW pend, NEW h, NEW h2, Longer(v, w, f), f.type = "open",
         LinkOK(h, w, cur, lg, e, pend), h.pc = "connecting",
         h2.boundary = Len(lg[e]), h2.queue = {}, h2.pc \in {"resync", "replay"},
         h2.pc = "resync" \/ cur = Lost => h2.replay = {},
         h2.pc = "replay" /\ cur # Lost =>
           /\ cur.epoch = e /\ cur.id <= Len(lg[e])
           /\ \A i \in WantedOf(lg, e) : cur.id < i => i \in h2.replay
           /\ \A i \in h2.replay : i \in WantedOf(lg, e) /\ cur.id < i
  PROVE  LinkOK(h2, v, cur, lg, e, pend)
<1>1. WireInOrder(w, cur, lg) /\ w = <<>>
  BY DEF LinkOK, Placed
<1>2. WireInOrder(v, cur, lg)
  BY <1>1, QuietInOrder
<1>3. Len(w) = 0 /\ Len(v) = 1 /\ 0 \in 0..Len(w) /\ 0 \in 0..Len(v)
  BY SMTT(60), <1>1 DEF Longer
<1>4. ASSUME NEW k \in 0..Len(v), Open(v, cur, k)
      PROVE  cur # Lost /\ At(v, cur, k) = cur
  <2>1. ~Open(v, cur, Len(v)) /\ (k \in 0..Len(w) \/ k = Len(v))
    BY LongerOpen
  <2>2. k = 0
    BY SMTT(60), <1>3, <1>4, <2>1
  <2> QED BY <1>4, <2>2 DEF Open, Place, At
<1>5. ASSUME cur # Lost PROVE Opened(v, cur)
  <2>1. Open(w, cur, 0)
    BY SMTT(60), <1>3, <1>5 DEF Open, Place, Unbroken
  <2>2. Open(v, cur, 0)
    BY <1>3, <2>1, LongerOpen
  <2> QED BY <1>3, <2>2 DEF Opened
<1>6. Len(lg[e]) \in Nat /\ \A i \in WantedOf(lg, e) : i \in Nat /\ i <= Len(lg[e])
  BY SMTT(60) DEF WantedOf
<1>7. UpTo(lg, e, h2.boundary) = WantedOf(lg, e)
  BY <1>6 DEF UpTo
<1>8. ASSUME h2.pc = "replay"
      PROVE  /\ h2.replay \subseteq WantedOf(lg, e) /\ (h2.replay # {} => Opened(v, cur))
             /\ Below(v, cur, h2.boundary) /\ Ready(v, cur, e, WantedOf(lg, e), h2.replay)
  <2>1. Below(v, cur, h2.boundary)
    BY <1>4, <1>8 DEF Below
  <2>2. Ready(v, cur, e, WantedOf(lg, e), h2.replay)
    <3> SUFFICES ASSUME NEW k \in 0..Len(v), Open(v, cur, k)
                 PROVE  /\ At(v, cur, k).epoch = e
                        /\ \A i \in WantedOf(lg, e) : At(v, cur, k).id < i => i \in h2.replay
                        /\ \A i \in h2.replay : At(v, cur, k).id < i
      BY DEF Ready
    <3>1. cur # Lost /\ At(v, cur, k) = cur
      BY <1>4
    <3> QED BY <1>8, <3>1
  <2>3. h2.replay \subseteq WantedOf(lg, e) /\ (h2.replay # {} => Opened(v, cur))
    BY <1>5, <1>8
  <2> QED BY <2>1, <2>2, <2>3
<1>9. Placed(h2, v, cur, lg, e)
  <2>1. h2.pc \notin {"idle", "connecting", "top", "get"} /\ h2.boundary <= Len(lg[e])
    BY SMTT(60), <1>6
  <2> QED BY <1>7, <1>8, <2>1 DEF Placed
<1>10. Supplied(h2, v, cur, lg, e, pend)
  <2>1. h2.pc \notin {"top", "get"} /\ \A i \in WantedOf(lg, e) : ~(i > h2.boundary)
    BY SMTT(60), <1>6
  <2> QED BY <2>1 DEF Supplied
<1> QED BY <1>2, <1>9, <1>10 DEF LinkOK

\* An event is published: a live subscription will be handed it.
LEMMA GrowLink ==
  ASSUME NEW lg \in [1..MaxEpoch -> Seq(Topic)], NEW e \in 1..MaxEpoch, NEW t \in Topic,
         NEW lg2, Grown(lg2, lg, e, t), NEW w \in Seq(FrameRecord), NEW cur \in CursorRecord,
         NEW pend \in Seq(Nat), NEW pend2, NEW h \in ConnRecord, LinkOK(h, w, cur, lg, e, pend),
         cur # Lost => cur.epoch \in 1..MaxEpoch /\ cur.id <= Len(lg[cur.epoch]),
         h.pc \in Following /\ ~h.reason => pend2 = Append(pend, Len(lg[e]) + 1)
  PROVE  LinkOK(h, w, cur, lg2, e, pend2)
<1> DEFINE N == Len(lg[e])
<1>1. WireInOrder(w, cur, lg) /\ Placed(h, w, cur, lg, e)
  BY DEF LinkOK
<1>2. WireInOrder(w, cur, lg2)
  BY <1>1, GrowInOrder
<1>3. /\ N \in Nat /\ Len(lg2[e]) = N + 1
      /\ \A i \in WantedOf(lg, e) : i \in WantedOf(lg2, e)
      /\ \A i \in WantedOf(lg2, e) : i \in WantedOf(lg, e) \/ i = N + 1
      /\ \A i \in WantedOf(lg2, e) : i <= N => i \in WantedOf(lg, e)
  <2>1. N \in Nat
    BY SMTT(60)
  <2>3. Len(lg2[e]) = N + 1
    BY SMTT(60), GrowLength DEF Grown
  <2>2. /\ \A i \in WantedOf(lg, e) : i \in WantedOf(lg2, e)
        /\ \A i \in WantedOf(lg2, e) : i \in WantedOf(lg, e) \/ (e = e /\ i = N + 1)
        /\ \A i \in WantedOf(lg2, e) : i <= N => i \in WantedOf(lg, e)
    BY GrowWanted
  <2> QED BY <2>1, <2>2, <2>3
<1>4. /\ \A i \in WantedOf(lg, e) : i \in Nat /\ i <= N
      /\ \A i \in WantedOf(lg2, e) : i \in Nat /\ i <= N + 1
  BY SMTT(60), <1>3 DEF WantedOf
<1>5. h.boundary \in Nat /\ h.queue \in SUBSET Nat
  BY DEF ConnRecord
<1> HIDE DEF N
<1>6. ASSUME h.pc \in Following
      PROVE  h.boundary <= N /\ UpTo(lg2, e, h.boundary) = UpTo(lg, e, h.boundary)
  <2>1. h.boundary <= N
    BY <1>1, <1>6 DEF Placed, N
  <2>2. \A i : i \in UpTo(lg2, e, h.boundary) <=> i \in UpTo(lg, e, h.boundary)
    BY SMTT(60), <1>3, <1>4, <1>5, <2>1 DEF UpTo
  <2> QED BY <2>1, <2>2
<1>7. Placed(h, w, cur, lg2, e)
  <2>1. h.pc \in Following => h.boundary <= Len(lg2[e])
    BY SMTT(60), <1>3, <1>5, <1>6
  <2> QED BY <1>1, <1>6, <2>1, FollowingFacts DEF Placed
<1>8. ASSUME h.pc \in Following, ~h.reason PROVE Supplied(h, w, cur, lg2, e, pend2)
  <2>1. Supplied(h, w, cur, lg, e, pend) /\ pend2 = Append(pend, N + 1)
    BY <1>8 DEF LinkOK, N
  <2>2. N + 1 \in Nat /\ Len(pend) \in Nat /\ Len(pend2) = Len(pend) + 1
    BY SMTT(60), <1>3, <2>1
  <2>3. Ids(pend2) = Ids(pend) \cup {N + 1} /\ Ids(pend) \in SUBSET Nat
    <3> DEFINE x == N + 1
    <3>0. pend2 = Append(pend, x) /\ x \in Nat /\ x = N + 1
      BY <2>1, <2>2
    <3> HIDE DEF x
    <3>1. /\ \A k \in 1..Len(pend) : pend2[k] = pend[k]
          /\ pend2[Len(pend) + 1] = N + 1
      BY SMTT(60), <3>0
    <3>2. ASSUME NEW i \in Ids(pend2) PROVE i \in Ids(pend) \cup {N + 1}
      <4>1. PICK k \in 1..Len(pend2) : i = pend2[k]
        BY DEF Ids
      <4>2. k \in 1..Len(pend) \/ k = Len(pend) + 1
        BY SMTT(60), <2>2
      <4> QED BY <3>1, <4>1, <4>2 DEF Ids
    <3>4. Ids(pend) \cup {N + 1} \subseteq Ids(pend2)
      <4>1. Len(pend) + 1 \in 1..Len(pend2) /\ \A k \in 1..Len(pend) : k \in 1..Len(pend2)
        BY SMTT(60), <2>2
      <4> QED BY <3>1, <4>1 DEF Ids
    <3>3. Ids(pend) \in SUBSET Nat
      BY SMTT(60) DEF Ids
    <3> QED BY <3>2, <3>3, <3>4
  <2>4. /\ Later(h, pend2) = Later(h, pend) \cup {N + 1}
        /\ Later(h, pend) \in SUBSET Nat
    BY SMTT(60), <1>3, <1>5, <1>6, <1>8, <2>2, <2>3 DEF Later
  <2>5. \A i \in h.queue : i \in WantedOf(lg2, e) /\ i <= Len(lg2[e]) - Len(pend2)
    <3>1. \A i \in h.queue : i \in WantedOf(lg, e) /\ i <= N - Len(pend)
      BY <2>1 DEF Supplied, N
    <3> QED BY SMTT(60), <1>3, <1>4, <2>2, <3>1
  <2>6. ASSUME h.pc \in {"resync", "replay"}, NEW i \in WantedOf(lg2, e), i > h.boundary
        PROVE  i \in Later(h, pend2)
    BY <1>3, <2>1, <2>4, <2>6 DEF Supplied
  <2>7. ASSUME h.pc \in {"top", "get"}
        PROVE  Ready(w, cur, e, WantedOf(lg2, e), Later(h, pend2))
    <3>1. Ready(w, cur, e, WantedOf(lg, e), Later(h, pend))
      BY <2>1, <2>7 DEF Supplied
    <3> SUFFICES ASSUME NEW k \in 0..Len(w), Open(w, cur, k)
                 PROVE  /\ At(w, cur, k).epoch = e
                        /\ \A i \in WantedOf(lg2, e) : At(w, cur, k).id < i =>
                             i \in Later(h, pend2) \cup Carried(w, k, Len(w))
                        /\ \A i \in Later(h, pend2) : At(w, cur, k).id < i
      BY DEF Ready
    <3>2. /\ At(w, cur, k).epoch = e
          /\ \A i \in WantedOf(lg, e) : At(w, cur, k).id < i =>
               i \in Later(h, pend) \cup Carried(w, k, Len(w))
          /\ \A i \in Later(h, pend) : At(w, cur, k).id < i
      BY <3>1 DEF Ready
    <3>3. At(w, cur, k).id \in Nat
      BY CursorTypes
    <3>4. At(w, cur, k).id <= N
      <4>1. CASE k = 0
        BY <3>2, <4>1 DEF At, Open, Place, N
      <4>2. CASE k # 0
        <5>1. k \in 1..Len(w) /\ Place(w, cur, k)
          BY SMTT(60), <4>2 DEF Open
        <5>2. w[k].id <= Len(lg[w[k].epoch])
          BY <1>1, <5>1 DEF WireInOrder
        <5>3. At(w, cur, k).id = w[k].id /\ At(w, cur, k).epoch = w[k].epoch
          BY <4>2 DEF At, CursorOf
        <5> QED BY <3>2, <5>2, <5>3 DEF N
      <4> QED BY <4>1, <4>2
    <3>5. At(w, cur, k).id < N + 1
      BY SMTT(60), <1>3, <3>3, <3>4
    <3> QED BY <1>3, <2>4, <3>2, <3>5
  <2> QED BY <2>5, <2>6, <2>7 DEF Supplied
<1> QED BY <1>2, <1>7, <1>8 DEF LinkOK

\* rest is pend without its first n events, which are batch; h2 is h after the loop
\* has offered it what it wants of the batch.
Cut(pend, n, rest, batch) ==
  /\ n \in 0..Len(pend) /\ Len(rest) = Len(pend) - n
  /\ \A k \in 1..Len(rest) : rest[k] = pend[n + k]
  /\ Len(batch) = n /\ \A k \in 1..n : batch[k] = pend[k]

Handed(h2, h, lg, e, batch) ==
  /\ h2.pc = h.pc /\ h2.asked = h.asked /\ h2.boundary = h.boundary /\ h2.replay = h.replay
  /\ h2.reason \/ (h2.reason = h.reason
                    /\ h2.queue = h.queue \cup {id \in Ids(batch) : lg[e][id] \in Wanted})

\* The loop hands a batch of the pending events to a subscription.
LEMMA DrainLink ==
  ASSUME NEW lg \in [1..MaxEpoch -> Seq(Topic)], NEW e \in 1..MaxEpoch, NEW w, NEW cur,
         NEW pend, NEW pend2 \in Seq(Nat), Window(pend, Len(lg[e])),
         NEW n \in Nat, NEW batch \in Seq(Nat), Cut(pend, n, pend2, batch),
         NEW h \in ConnRecord, NEW h2, LinkOK(h, w, cur, lg, e, pend),
         Handed(h2, h, lg, e, batch)
  PROVE  LinkOK(h2, w, cur, lg, e, pend2)
<1> USE DEF Cut, Handed
<1>1. CASE h2.reason
  BY <1>1, RetiredLink
<1>2. CASE ~h2.reason
  <2> DEFINE N == Len(lg[e])
             B == {id \in Ids(batch) : lg[e][id] \in Wanted}
  <2>0. ~h.reason /\ h2.queue = h.queue \cup B
    BY <1>2
  <2>1. Placed(h2, w, cur, lg, e)
    BY DEF LinkOK, Placed
  <2> SUFFICES ASSUME h.pc \in Following PROVE Supplied(h2, w, cur, lg, e, pend2)
    BY <2>1 DEF LinkOK
  <2>2. Supplied(h, w, cur, lg, e, pend)
    BY <2>0 DEF LinkOK
  <2>3. /\ N \in Nat /\ Len(pend) \in Nat /\ Len(pend) <= N
        /\ \A k \in 1..Len(pend) : pend[k] = N - Len(pend) + k
    BY SMTT(60) DEF Window
  <2>4. \A i \in Ids(batch) : i \in 1..N /\ i <= N - Len(pend2) /\ i \in Ids(pend)
    <3> SUFFICES ASSUME NEW k \in 1..n
                 PROVE  batch[k] \in 1..N /\ batch[k] <= N - Len(pend2) /\ batch[k] \in Ids(pend)
      BY DEF Ids
    <3>0. k \in 1..Len(pend)
      BY SMTT(60), <2>3
    <3>1. k \in 1..Len(pend) /\ batch[k] = pend[k] /\ pend[k] = N - Len(pend) + k
      BY <2>3, <3>0
    <3>2. batch[k] \in Ids(pend)
      BY <3>1 DEF Ids
    <3> QED BY SMTT(60), <2>3, <3>1, <3>2
  <2>5. \A i \in Ids(pend2) : i \in Ids(pend)
    <3> SUFFICES ASSUME NEW k \in 1..Len(pend2) PROVE pend2[k] \in Ids(pend)
      BY DEF Ids
    <3>1. n + k \in 1..Len(pend)
      BY SMTT(60), <2>3
    <3>2. pend2[k] = pend[n + k]
      OBVIOUS
    <3> QED BY <3>1, <3>2 DEF Ids
  <2>6. \A i \in Ids(pend) : i \in Ids(batch) \/ i \in Ids(pend2)
    <3> SUFFICES ASSUME NEW k \in 1..Len(pend) PROVE pend[k] \in Ids(batch) \/ pend[k] \in Ids(pend2)
      BY SMTT(60) DEF Ids
    <3>1. CASE k <= n
      <4>1. k \in 1..Len(batch) /\ batch[k] = pend[k]
        BY SMTT(60), <2>3, <3>1
      <4> QED BY <4>1 DEF Ids
    <3>2. CASE ~(k <= n)
      <4>1. k - n \in 1..Len(pend2) /\ n + (k - n) = k
        BY SMTT(60), <2>3, <3>2
      <4>2. pend2[k - n] = pend[k]
        BY <4>1
      <4> QED BY <4>1, <4>2 DEF Ids
    <3> QED BY <3>1, <3>2
  <2> HIDE DEF N
  <2>7. ASSUME NEW i \in h2.queue PROVE i \in WantedOf(lg, e) /\ i <= N - Len(pend2)
    <3>1. CASE i \in h.queue
      <4>1. i \in WantedOf(lg, e) /\ i <= N - Len(pend) /\ i \in Nat
        BY SMTT(60), <2>2, <3>1 DEF Supplied, N, WantedOf
      <4> QED BY SMTT(60), <2>3, <4>1
    <3>2. CASE i \in B
      BY <2>4, <3>2 DEF WantedOf, N
    <3> QED BY <2>0, <3>1, <3>2
  <2>8. \A i \in Later(h2, pend2) : i \in Later(h, pend)
    BY <2>0, <2>4, <2>5 DEF Later
  <2>9. \A i \in WantedOf(lg, e) : i \in Later(h, pend) => i \in Later(h2, pend2)
    BY <2>0, <2>6 DEF Later, WantedOf
  <2> HIDE DEF B
  <2>10. ASSUME h.pc \in {"top", "get"}
         PROVE  Ready(w, cur, e, WantedOf(lg, e), Later(h2, pend2))
    <3>1. Ready(w, cur, e, WantedOf(lg, e), Later(h, pend))
      BY <2>2, <2>10 DEF Supplied
    <3> QED BY <2>8, <2>9, <3>1 DEF Ready
  <2>11. ASSUME h.pc \in {"resync", "replay"}, NEW i \in WantedOf(lg, e), i > h.boundary
         PROVE  i \in Later(h2, pend2)
    BY <2>2, <2>9, <2>11 DEF Supplied
  <2> QED BY <2>7, <2>10, <2>11 DEF Supplied, N
<1> QED BY <1>1, <1>2

\* The first frame of a wire in order.
LEMMA FirstFrame ==
  ASSUME NEW w \in Seq(FrameRecord), w # <<>>, NEW cur, NEW lg, WireInOrder(w, cur, lg)
  PROVE  /\ w[1].type \in {"event", "replay_done"} =>
              /\ w[1].id <= Len(lg[w[1].epoch])
              /\ cur # Lost =>
                   /\ w[1].epoch = cur.epoch /\ cur.id <= w[1].id
                   /\ \A i \in WantedOf(lg, w[1].epoch) :
                        cur.id < i /\ i <= w[1].id => w[1].type = "event" /\ i = w[1].id
         /\ w[1].type = "event" =>
              cur # Lost /\ cur.id < w[1].id /\ w[1].id \in WantedOf(lg, w[1].epoch)
<1>1. 1 \in 1..Len(w) /\ 0..(1 - 1) = {0}
  BY SMTT(60)
<1>2. SUFFICES ASSUME w[1].type \in {"event", "replay_done"}
               PROVE  /\ w[1].id <= Len(lg[w[1].epoch])
                      /\ cur # Lost => Steps(w, cur, lg, 0, 1)
                      /\ w[1].type = "event" =>
                           cur # Lost /\ w[1].id \in WantedOf(lg, w[1].epoch)
  <2>1. At(w, cur, 0) = cur
    BY DEF At
  <2>2. \A i \in Carried(w, 0, 1) : w[1].type = "event" /\ i = w[1].id
    BY SMTT(60) DEF Carried
  <2> QED BY <2>1, <2>2 DEF Steps
<1>3. Place(w, cur, 1) /\ (Place(w, cur, 0) <=> cur # Lost) /\ Unbroken(w, 0, 1)
  BY SMTT(60), <1>2 DEF Place, Unbroken
<1>4. /\ w[1].id <= Len(lg[w[1].epoch])
      /\ w[1].type = "event" =>
           /\ w[1].id \in WantedOf(lg, w[1].epoch)
           /\ \E k \in 0..(1 - 1) : Place(w, cur, k) /\ Unbroken(w, k, 1)
      /\ \A k \in 0..(1 - 1) : Place(w, cur, k) /\ Unbroken(w, k, 1) => Steps(w, cur, lg, k, 1)
  BY <1>1, <1>3 DEF WireInOrder
<1> QED BY <1>1, <1>3, <1>4

-----------------------------------------------------------------------------
(* What the page reads.                                                    *)

Got(j, d) == IF d = <<>> THEN j.id ELSE d[Len(d)]

Honest(cur, j, d, acc, lg) ==
  /\ (cur = Lost) <=> (j = Lost)
  /\ cur = Lost => d = <<>> /\ ~acc
  /\ cur # Lost =>
       /\ j.epoch = cur.epoch /\ cur.epoch \in 1..MaxEpoch
       /\ cur.id <= Len(lg[cur.epoch]) /\ Got(j, d) <= cur.id
       /\ \A i \in WantedOf(lg, cur.epoch) : i <= Got(j, d) \/ cur.id < i

LEMMA HonestIs ==
  /\ CursorHonest <=> Honest(cursor, joined, delivered, accepting, log)
  /\ CursorHonest' <=> Honest(cursor', joined', delivered', accepting', log')
BY DEF CursorHonest, Honest, Feed!Reached, Got, Feed!WantedIn, WantedOf

LEMMA GotType ==
  ASSUME NEW j \in CursorRecord, NEW d \in Seq(Nat) PROVE Got(j, d) \in Nat
BY SMTT(60) DEF Got, CursorRecord

LEMMA GrowHonest ==
  ASSUME NEW lg \in [1..MaxEpoch -> Seq(Topic)], NEW e \in 1..MaxEpoch, NEW t \in Topic,
         NEW lg2, Grown(lg2, lg, e, t), NEW cur \in CursorRecord, NEW j, NEW d, NEW acc,
         Honest(cur, j, d, acc, lg)
  PROVE  Honest(cur, j, d, acc, lg2)
<1>1. CASE cur = Lost
  BY <1>1 DEF Honest
<1>2. CASE cur # Lost
  <2> DEFINE x == cur.epoch
  <2>1. /\ x \in 1..MaxEpoch /\ cur.id <= Len(lg[x])
        /\ \A i \in WantedOf(lg, x) : i <= Got(j, d) \/ cur.id < i
    BY <1>2 DEF Honest
  <2>2. cur.id \in Nat
    BY DEF CursorRecord
  <2> HIDE DEF x
  <2>3. /\ Len(lg[x]) \in Nat /\ Len(lg2[x]) \in Nat /\ Len(lg[x]) <= Len(lg2[x])
        /\ \A i \in WantedOf(lg2, x) : i <= Len(lg[x]) => i \in WantedOf(lg, x)
    BY <2>1, GrowWanted
  <2>4. cur.id <= Len(lg2[x])
    BY SMTT(60), <2>1, <2>2, <2>3
  <2>5. ASSUME NEW i \in WantedOf(lg2, x) PROVE i <= Got(j, d) \/ cur.id < i
    <3>1. i \in Nat
      BY SMTT(60) DEF WantedOf
    <3>2. CASE i <= Len(lg[x])
      BY <2>1, <2>3, <3>2
    <3>3. CASE ~(i <= Len(lg[x]))
      BY SMTT(60), <2>1, <2>2, <2>3, <3>1, <3>3
    <3> QED BY <3>2, <3>3
  <2> QED BY <1>2, <2>4, <2>5 DEF Honest, x
<1> QED BY <1>1, <1>2

\* How far a page gets by the end of a replay: no wanted event is passed over.
LEMMA DoneHonest ==
  ASSUME NEW w \in Seq(FrameRecord), w # <<>>, NEW cur \in CursorRecord, NEW lg,
         WireInOrder(w, cur, lg), w[1].type = "replay_done",
         NEW j \in CursorRecord, NEW d \in Seq(Nat), NEW acc, NEW acc2, Honest(cur, j, d, acc, lg)
  PROVE  /\ CursorOf(w[1]) # Lost
         /\ cur # Lost => cur.epoch = w[1].epoch /\ cur.id <= w[1].id
         /\ Honest(CursorOf(w[1]), IF cur = Lost THEN CursorOf(w[1]) ELSE j, d, acc2, lg)
<1> DEFINE f == w[1]
           nxt == CursorOf(f)
<1>1. f \in FrameRecord /\ nxt.id = f.id /\ nxt.epoch = f.epoch
  BY SMTT(60) DEF CursorOf
<1>2. f.epoch \in 1..MaxEpoch /\ f.id \in Nat /\ cur.id \in Nat /\ Got(j, d) \in Nat
  BY <1>1, GotType DEF FrameRecord, CursorRecord
<1>3. nxt # Lost
  BY SMTT(60), <1>1, <1>2 DEF Lost
<1>4. /\ f.id <= Len(lg[f.epoch])
      /\ cur # Lost =>
           /\ f.epoch = cur.epoch /\ cur.id <= f.id
           /\ \A i \in WantedOf(lg, f.epoch) : cur.id < i /\ i <= f.id => f.type = "event"
  BY FirstFrame
<1>5. \A i \in WantedOf(lg, f.epoch) : i \in Nat
  BY SMTT(60) DEF WantedOf
<1>6. f.type # "event"
  OBVIOUS
<1> HIDE DEF f, nxt
<1>7. CASE cur = Lost
  <2>1. d = <<>> /\ Got(nxt, d) = f.id
    BY <1>1, <1>7 DEF Honest, Got
  <2>2. \A i \in WantedOf(lg, f.epoch) : i <= f.id \/ f.id < i
    BY SMTT(60), <1>2, <1>5
  <2>3. f.id <= f.id
    BY SMTT(60), <1>2
  <2>4. Honest(nxt, nxt, d, acc2, lg)
    BY <1>1, <1>2, <1>3, <1>4, <2>1, <2>2, <2>3 DEF Honest
  <2> QED BY <1>3, <1>7, <2>4 DEF f, nxt
<1>8. CASE cur # Lost
  <2>1. /\ j # Lost /\ j.epoch = f.epoch /\ Got(j, d) <= cur.id
        /\ \A i \in WantedOf(lg, f.epoch) : i <= Got(j, d) \/ cur.id < i
    BY <1>4, <1>8 DEF Honest
  <2>2. Got(j, d) <= f.id
    BY SMTT(60), <1>2, <1>4, <1>8, <2>1
  <2>3. \A i \in WantedOf(lg, f.epoch) : i <= Got(j, d) \/ f.id < i
    BY SMTT(60), <1>2, <1>4, <1>5, <1>6, <1>8, <2>1
  <2>4. Honest(nxt, j, d, acc2, lg)
    BY <1>1, <1>2, <1>3, <1>4, <2>1, <2>2, <2>3 DEF Honest
  <2> QED BY <1>3, <1>4, <1>8, <2>4 DEF f, nxt
<1> QED BY <1>7, <1>8

\* An event the page reads is the next one of its feed.
LEMMA EventHonest ==
  ASSUME NEW w \in Seq(FrameRecord), w # <<>>, NEW cur \in CursorRecord, NEW lg,
         WireInOrder(w, cur, lg), w[1].type = "event",
         NEW j \in CursorRecord, NEW d \in Seq(Nat), NEW acc, Honest(cur, j, d, acc, lg)
  PROVE  /\ CursorOf(w[1]) # Lost /\ cur # Lost /\ j # Lost
         /\ cur.epoch = w[1].epoch /\ cur.id < w[1].id
         /\ Honest(CursorOf(w[1]), j, Append(d, w[1].id), acc, lg)
         /\ w[1].id \in WantedOf(lg, j.epoch) /\ w[1].id > Got(j, d)
         /\ \A i \in WantedOf(lg, j.epoch) : i > Got(j, d) => w[1].id <= i
<1> DEFINE f == w[1]
           nxt == CursorOf(f)
<1>1. f \in FrameRecord /\ nxt.id = f.id /\ nxt.epoch = f.epoch
  BY SMTT(60) DEF CursorOf
<1>2. f.epoch \in 1..MaxEpoch /\ f.id \in Nat /\ cur.id \in Nat /\ Got(j, d) \in Nat
  BY <1>1, GotType DEF FrameRecord, CursorRecord
<1>3. nxt # Lost
  BY SMTT(60), <1>1, <1>2 DEF Lost
<1>4. /\ f.id <= Len(lg[f.epoch]) /\ cur # Lost /\ cur.id < f.id /\ f.id \in WantedOf(lg, f.epoch)
      /\ f.epoch = cur.epoch
      /\ \A i \in WantedOf(lg, f.epoch) : cur.id < i /\ i <= f.id => i = f.id
  BY FirstFrame
<1>5. \A i \in WantedOf(lg, f.epoch) : i \in Nat
  BY SMTT(60) DEF WantedOf
<1> HIDE DEF f, nxt
<1>6. /\ j # Lost /\ j.epoch = f.epoch /\ Got(j, d) <= cur.id
      /\ \A i \in WantedOf(lg, f.epoch) : i <= Got(j, d) \/ cur.id < i
  BY <1>4 DEF Honest
<1>7. f.id > Got(j, d) /\ \A i \in WantedOf(lg, f.epoch) : i > Got(j, d) => f.id <= i
  BY SMTT(60), <1>2, <1>4, <1>5, <1>6
<1>8. Got(j, Append(d, f.id)) = f.id
  <2>1. Append(d, f.id) # <<>> /\ Append(d, f.id)[Len(Append(d, f.id))] = f.id
    BY SMTT(60), <1>2
  <2> QED BY <2>1 DEF Got
<1>9. \A i \in WantedOf(lg, f.epoch) : i <= f.id \/ f.id < i
  BY SMTT(60), <1>2, <1>5
<1>10. f.id <= f.id
  BY SMTT(60), <1>2
<1>11. Honest(nxt, j, Append(d, f.id), acc, lg)
  BY <1>1, <1>2, <1>3, <1>4, <1>6, <1>8, <1>9, <1>10 DEF Honest
<1> QED BY <1>3, <1>4, <1>6, <1>7, <1>11 DEF f, nxt
=============================================================================
