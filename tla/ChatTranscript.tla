--------------------------- MODULE ChatTranscript ---------------------------
(***************************************************************************)
(* The bubbles of one chat as webui/src/stores/chatStore.ts computes them: *)
(* pure functions from a list of bubbles and a server frame, an archive    *)
(* page or a reconnect snapshot to the next list of bubbles.               *)
(*                                                                         *)
(* Text is a sequence of atoms <<form, stream, n>>: "startsWith" is        *)
(* IsPrefix and joining the parts of an answer is concatenation, so an     *)
(* answer that grows, shrinks, repeats or is reformatted by the archive is *)
(* told apart from its other versions.  Identities are pairs               *)
(* <<kind, number>>; 0 is "no run", "no time" and "no stage".  Wording,    *)
(* turn boundaries inside an answer, offsets of notices and finish times   *)
(* are left out.                                                           *)
(***************************************************************************)
EXTENDS Naturals, Sequences, FiniteSets, SequencesExt

NoId == <<"none", 0>>

\* One physical part of an answer; NoParts is a bubble whose "segments" is undefined.
Part(stream, content, done, archived) ==
    [stream |-> stream, content |-> content, done |-> done, archived |-> archived]

NoParts == <<Part(NoId, <<>>, FALSE, FALSE)>>

\* ChatMsg with every optional field absent.  "streaming" is on, off or unset.
Blank(role) ==
    [role |-> role, source |-> "none", run |-> 0, logical |-> NoId, stream |-> NoId,
     content |-> <<>>, parts |-> NoParts, streaming |-> "unset", outcome |-> "none",
     stopped |-> FALSE, notice |-> FALSE, ts |-> 0, started |-> 0,
     pending |-> FALSE, stage |-> 0]

PartsOf(m) == IF m.parts = NoParts THEN <<>> ELSE m.parts

HasPart(m, ids) == \E i \in 1..Len(PartsOf(m)) : m.parts[i].stream \in ids

\* reduce(): the elements of a sequence folded into a value, first to last.
Fold(Op(_, _), base, seq) ==
    LET f[i \in 0..Len(seq)] == IF i = 0 THEN base ELSE Op(f[i - 1], seq[i]) IN f[Len(seq)]

\* replySegmentsContent: the text of an answer is the text of its parts.
TextOf(parts) == Fold(LAMBDA text, p : text \o p.content, <<>>, parts)

\* x, or y where x is absent: the spread { ...old, ...new } field by field.
Given(x, y, absent) == IF x = absent THEN y ELSE x

Spread(old, new) ==
    [new EXCEPT !.source = Given(@, old.source, "none"),
                !.run = Given(@, old.run, 0),
                !.logical = Given(@, old.logical, NoId),
                !.stream = Given(@, old.stream, NoId),
                !.parts = Given(@, old.parts, NoParts),
                !.streaming = Given(@, old.streaming, "unset"),
                !.outcome = Given(@, old.outcome, "none"),
                !.stopped = @ \/ old.stopped, !.notice = @ \/ old.notice,
                !.started = Given(@, old.started, 0),
                !.pending = @ \/ old.pending, !.stage = Given(@, old.stage, 0)]

\* messages.map(...)
Mapped(Of(_), messages) == Fold(LAMBDA out, m : Append(out, Of(m)), <<>>, messages)

Hidden == {"wechat"}
Recovery == {"chat_error_retry", "auto_continue"}
Notices == {"system", "runtime_error_notice"}

Earliest(times) == LET known == times \ {0} IN IF known = {} THEN 0 ELSE Min(known)

-----------------------------------------------------------------------------
(* The parts of one answer (utils/replySegments.ts).                        *)

\* A cumulative frame of one stream, applied to the parts of the answer.
UpdateReplySegments(parts, stream, phase, content) ==
    LET Stale(old) == \/ old.archived /\ phase = "started"
                      \/ old.done /\ ~old.archived /\ phase # "done"
                      \/ ~old.archived /\ phase # "started" /\ IsStrictPrefix(content, old.content)
        Updated(old) == Part(stream, IF phase = "started" THEN old.content ELSE content,
                             phase = "done" \/ (old.done /\ ~old.archived), FALSE)
        At(i) == CASE i = 0 -> Append(parts, Updated(Part(stream, <<>>, FALSE, FALSE)))
                   [] i # 0 /\ Stale(parts[i]) -> parts
                   [] OTHER -> [parts EXCEPT ![i] = Updated(@)]
    IN At(SelectInSeq(parts, LAMBDA p : p.stream = stream))

\* Two projections of one run's answer.  The archive's text is replaced by the
\* stream's own, unless the stream has none; live text never shrinks.
MergeParts(olds, news) ==
    LET FromArchive(p) == p.archived \/ p.stream[1] = "history"
        Over(prev, part, keep) ==
          Part(part.stream, IF keep THEN prev.content ELSE part.content,
               part.done \/ (~FromArchive(prev) /\ prev.done),
               IF keep THEN prev.archived ELSE part.archived)
        Merged(prev, part) ==
          Over(prev, part, IF FromArchive(prev) THEN part.content = <<>>
                                                ELSE IsPrefix(part.content, prev.content))
        Kin(acc, part) ==
          IF part.content = <<>> THEN 0
          ELSE SelectInSubSeq(acc.parts, acc.from, Len(acc.parts),
                 LAMBDA p : /\ p.stream[1] = "history" /\ p.content # <<>>
                            /\ \/ IsPrefix(p.content, part.content)
                               \/ IsPrefix(part.content, p.content))
        Put(acc, part, i, from) ==
          IF i = 0 THEN [acc EXCEPT !.parts = Append(@, part)]
          ELSE [parts |-> [acc.parts EXCEPT ![i] = Merged(@, part)], from |-> from]
        Place(acc, part, same, kin) ==
          IF same # 0 THEN Put(acc, part, same, acc.from) ELSE Put(acc, part, kin, kin + 1)
        Merge(acc, part) ==
          Place(acc, part, SelectInSeq(acc.parts, LAMBDA p : p.stream = part.stream), Kin(acc, part))
    IN Fold(Merge, [parts |-> olds, from |-> 1], news).parts

MergeRunReply(old, incoming) ==
    LET With(parts) == [Spread(old, incoming) EXCEPT !.parts = parts, !.content = TextOf(parts)]
    IN With(MergeParts(PartsOf(old), PartsOf(incoming)))

-----------------------------------------------------------------------------
(* Order of the turns.                                                      *)

\* A run's bubbles form one turn; a question without a run takes the answer
\* right behind it; everything else stands alone.
Turns(messages) ==
    LET RunOf(m) == IF m.pending THEN 0 ELSE m.run
        Answers(acc, m) == /\ m.role = "assistant" /\ m.run = 0 /\ m.source \notin Notices
                           /\ acc.legacy # 0
                           /\ \/ m.source = "history"
                              \/ /\ m.stream # NoId
                                 /\ Head(acc.turns[acc.legacy].msgs).stream = m.stream
        Join(turns, at, m) == IF at = 0 THEN Append(turns, [run |-> RunOf(m), msgs |-> <<m>>])
                              ELSE [turns EXCEPT ![at].msgs = Append(@, m)]
        Placed(turns, m, legacy) ==
          [turns |-> turns,
           legacy |-> CASE RunOf(m) # 0 -> 0
                        [] RunOf(m) = 0 /\ legacy # 0 -> legacy
                        [] OTHER -> IF m.role = "user" /\ ~m.pending THEN Len(turns) ELSE 0]
        Put(acc, m, legacy) ==
          Placed(Join(acc.turns, IF RunOf(m) # 0 THEN SelectInSeq(acc.turns, LAMBDA t : t.run = RunOf(m))
                                 ELSE legacy, m), m, legacy)
        Place(acc, m) == Put(acc, m, IF Answers(acc, m) THEN acc.legacy ELSE 0)
    IN Fold(Place, [turns |-> <<>>, legacy |-> 0], messages).turns

\* When a turn was asked, or, without its question, when its stream started.
Anchor(msgs) ==
    LET Times(asked, began) == IF asked # 0 THEN asked ELSE began
    IN Times(Earliest({msgs[i].ts : i \in {j \in 1..Len(msgs) :
                          msgs[j].role = "user" /\ ~msgs[j].pending}}),
             Earliest({msgs[i].started : i \in {j \in 1..Len(msgs) :
                          msgs[j].role = "assistant" /\ msgs[j].source \notin Notices}}))

\* Dated turns are sorted among the places dated turns have; the others stay.
OrderConversationTurns(messages) ==
    LET Asked(m) == m.role = "user"
        Shown(msgs) == SelectSeq(msgs, Asked) \o SelectSeq(msgs, LAMBDA m : ~Asked(m))
        Sorted(turns, when, dated) ==
          LET Before(i, j) == when[i] < when[j] \/ (when[i] = when[j] /\ i < j)
              Places == SelectSeq([i \in 1..Len(turns) |-> i], LAMBDA i : i \in dated)
              Order == SortSeq(Places, Before)
              At(i) == IF i \in dated THEN Order[Cardinality({j \in dated : j <= i})] ELSE i
          IN Fold(LAMBDA out, i : out \o Shown(turns[At(i)].msgs), <<>>, [i \in 1..Len(turns) |-> i])
        Dated(turns, when) == Sorted(turns, when, {i \in 1..Len(turns) : when[i] # 0})
        Ordered(turns) == Dated(turns, [i \in 1..Len(turns) |-> Anchor(turns[i].msgs)])
    IN Ordered(Turns(messages))

-----------------------------------------------------------------------------
(* One frame of a stream.                                                   *)

\* A frame: what every session frame carries, and what some types add.
Frame(type, stream, run, logical) ==
    [type |-> type, stream |-> stream, run |-> run, logical |-> logical,
     id |-> 0, epoch |-> 0, source |-> "webui", retryOf |-> NoId, content |-> <<>>, ts |-> 0]

KeyOf(e) == Given(e.logical, Given(e.retryOf, e.stream, NoId), NoId)

\* Recovery status inside the answer it belongs to, or a new answer that has none yet.
UpsertRetryNotice(prev, key, run, now) ==
    LET Mine(m) == /\ m.role = "assistant" /\ m.run = run
                   /\ key \in {m.logical, m.stream} \/ HasPart(m, {key})
        At(i) == IF i # 0 THEN [prev EXCEPT ![i].notice = TRUE]
                 ELSE Append(prev, [Blank("assistant") EXCEPT !.stream = key, !.logical = key, !.run = run,
                                                              !.notice = TRUE, !.parts = <<>>, !.ts = now])
    IN At(SelectInSeq(prev, Mine))

\* started, next and done change the one answer their run has.
UpdateLogicalReply(prev, e, now) ==
    LET Mine(m) == /\ m.role = "assistant" /\ m.run = e.run
                   /\ \/ e.run # 0
                      \/ KeyOf(e) \in {m.logical, m.stream} \/ m.stream = e.stream
                      \/ HasPart(m, {e.stream, e.retryOf})
        Initial(old) == CASE old.parts # NoParts -> old.parts
                          [] old.parts = NoParts /\ old.stream # NoId ->
                               <<Part(old.stream, old.content, old.streaming # "on" /\ ~old.stopped, FALSE)>>
                          [] OTHER -> <<>>
        Frames(parts) == UpdateReplySegments(parts, e.stream, e.type, e.content)
        Parts(old) == IF old.run = 0 THEN Frames(Initial(old)) ELSE MergeParts(Initial(old), Frames(<<>>))
        Message(old, parts, receiving) ==
          [old EXCEPT !.logical = Given(@, KeyOf(e), NoId), !.run = Given(e.run, @, 0),
                      !.stream = Given(@, e.stream, NoId), !.source = Given(@, e.source, "none"),
                      !.parts = parts, !.content = TextOf(parts),
                      !.streaming = IF receiving THEN "on" ELSE "off",
                      !.ts = Given(@, now, 0), !.started = Given(@, now, 0),
                      !.notice = @ /\ receiving]
        Updated(old, parts) == Message(old, parts, ~old.stopped /\ ~Last(parts).done)
        Put(i, m) == IF i = 0 THEN Append(prev, m) ELSE [prev EXCEPT ![i] = m]
        Known(old) == e.type = "started" /\ \E k \in 1..Len(Initial(old)) : Initial(old)[k].stream = e.stream
        At(i, old) == IF old.outcome # "none" \/ Known(old) THEN prev ELSE Put(i, Updated(old, Parts(old)))
        Found(i) == At(i, IF i = 0 THEN Blank("assistant") ELSE prev[i])
    IN Found(SelectInSeq(prev, Mine))

\* A new stream: a recovery of a run that has an answer, the start of the run the
\* page just submitted (its staged bubble is adopted), or a pair of bubbles.
ReduceStarted(prev, e, now) ==
    LET answered == \E i \in 1..Len(prev) :
                      /\ prev[i].role = "assistant" /\ prev[i].run = e.run
                      /\ \/ prev[i].stream = e.stream \/ e.run # 0
                         \/ e.logical # NoId /\ prev[i].logical = e.logical
        Shown(role) == \E i \in 1..Len(prev) :
                         prev[i].role = role /\ prev[i].run = e.run /\ prev[i].stream = e.stream
        Bubble(role) == [Blank(role) EXCEPT !.stream = e.stream, !.run = e.run,
                                            !.logical = e.logical, !.source = e.source, !.ts = now]
        Answer(msgs) == Append(msgs, [Bubble("assistant") EXCEPT !.streaming = "on",
                                                                 !.started = Given(e.ts, now, 0)])
        Asked(msgs) == IF Shown("user") THEN msgs ELSE Append(msgs, [Bubble("user") EXCEPT !.content = e.content])
        New(staged) ==
          CASE e.source = "webui" /\ staged # 0 ->
                 Answer([prev EXCEPT ![staged] = [@ EXCEPT !.stream = e.stream, !.run = e.run,
                                                          !.logical = e.logical, !.pending = FALSE]])
            [] OTHER -> IF Shown("assistant") THEN Asked(prev) ELSE Answer(Asked(prev))
    IN CASE e.source \in Hidden -> prev
         [] e.source \in Recovery \/ (e.source \notin Hidden /\ answered) ->
              UpdateLogicalReply(IF e.source \in Recovery THEN UpsertRetryNotice(prev, KeyOf(e), e.run, now)
                                 ELSE prev, e, Given(e.ts, now, 0))
         [] OTHER -> New(SelectLastInSeq(prev, LAMBDA m : m.role = "user" /\ m.pending))

\* The coordinator failed the stream: it stops receiving and says so once.
ReduceError(prev, e, now) ==
    LET notice == <<"error", e.stream[2]>>
        stopped == Mapped(LAMBDA m : IF m.stream = e.stream /\ m.streaming = "on"
                                     THEN [m EXCEPT !.streaming = "off"] ELSE m, prev)
    IN IF \E i \in 1..Len(stopped) : stopped[i].stream = notice THEN stopped
       ELSE Append(stopped, [Blank("assistant") EXCEPT !.stream = notice, !.ts = now,
                                                       !.source = "runtime_error_notice"])

\* Bubbles of the removed streams go, and the notices derived from them.
ReduceRewound(prev, streams) ==
    SelectSeq(prev, LAMBDA m : /\ m.stream \notin streams
                               /\ ~ (m.stream[1] = "error" /\ <<"live", m.stream[2]>> \in streams))

\* applyEvent and reduceEvent on the frames a session socket carries.
ApplyEvent(prev, e, now) ==
    CASE e.type \in {"next", "done"} ->
           IF e.source \in Hidden THEN prev ELSE UpdateLogicalReply(prev, e, now)
      [] e.type = "started" ->
           Mapped(LAMBDA m : IF m.stream = e.stream /\ m.run \in {0, e.run}
                             THEN [m EXCEPT !.run = Given(e.run, @, 0), !.logical = Given(e.logical, @, NoId)]
                             ELSE m, ReduceStarted(prev, e, now))
      [] e.type \in {"retry", "retry_scheduled", "retry_exhausted"} ->
           IF e.source \in Hidden THEN prev
           ELSE UpsertRetryNotice(prev, Given(e.logical, e.stream, NoId), e.run, now)
      [] e.type = "error" -> ReduceError(prev, e, now)
      [] e.type = "rewound" -> ReduceRewound(prev, e.removed)
      [] OTHER -> prev

AnyStreaming(msgs) == \E i \in 1..Len(msgs) : msgs[i].streaming = "on"

-----------------------------------------------------------------------------
(* Archive pages and reconnect snapshots.                                   *)

\* A run that crosses archive items is one question and one answer.
CoalesceArchiveRuns(projected) ==
    LET Fresh(parts, more) ==
          parts \o SelectSeq(more, LAMBDA p : \A k \in 1..Len(parts) : parts[k].stream # p.stream)
        Add(out, m) ==
          LET i == SelectInSeq(out, LAMBDA o : m.run # 0 /\ o.run = m.run /\ o.role = m.role)
              parts == Fresh(PartsOf(out[i]), PartsOf(m))
          IN CASE i = 0 -> Append(out, m)
               [] i # 0 /\ m.role = "assistant" ->
                    [out EXCEPT ![i] = [@ EXCEPT !.parts = parts, !.content = TextOf(parts)]]
               [] OTHER -> out
    IN Fold(Add, <<>>, projected)

\* Archive items, oldest first.  An item has a run only where Hub recorded one.
HistoryToMessages(items) ==
    LET Bubble(item) ==
          [Blank(item.role) EXCEPT
             !.content = item.content, !.stream = <<"history", item.id>>, !.source = "history",
             !.logical = item.logical, !.run = item.run, !.outcome = item.outcome,
             !.stopped = item.outcome = "cancelled", !.ts = item.ts,
             !.parts = IF item.run # 0 /\ item.role = "assistant"
                       THEN <<Part(Given(item.stream, <<"history", item.id>>, NoId),
                                   item.content, TRUE, TRUE)>>
                       ELSE NoParts]
    IN CoalesceArchiveRuns(Mapped(Bubble, items))

Tolerance == 2  \* ARCHIVE_SNAPSHOT_TIME_TOLERANCE_MS

TimestampsOverlap(a, b) ==
    a.ts = 0 \/ b.ts = 0 \/ (a.ts <= b.ts + Tolerance /\ b.ts <= a.ts + Tolerance)

\* Is this archived pair the turn of that pair?  Identity decides where either has one.
PairsDescribeSameTurn(oldQuery, oldAnswer, query, answer) ==
    /\ oldQuery.role = "user" /\ oldAnswer.role = "assistant"
    /\ IF oldQuery.run # 0 \/ query.run # 0 THEN oldQuery.run = query.run
       ELSE IF oldQuery.logical # NoId \/ query.logical # NoId THEN oldQuery.logical = query.logical
       ELSE /\ oldQuery.content = query.content
            /\ TimestampsOverlap(oldQuery, query) /\ TimestampsOverlap(oldAnswer, answer)
            /\ 0 \in {oldQuery.ts, query.ts, oldAnswer.ts, answer.ts}
                 => oldAnswer.content = answer.content

\* Finished pairs the archive already shows are not shown a second time.
RemoveArchivedSnapshotOverlap(base, live) ==
    LET archived == SelectSeq(base, LAMBDA m : m.source = "history")
        Archived(i) ==
          /\ i \in 1..(Len(live) - 1)
          /\ live[i].role = "user" /\ live[i + 1].role = "assistant"
          /\ live[i].stream # NoId /\ live[i].stream = live[i + 1].stream
          /\ live[i + 1].streaming = "off"
          /\ \E h \in 1..(Len(archived) - 1) :
               PairsDescribeSameTurn(archived[h], archived[h + 1], live[i], live[i + 1])
    IN Fold(LAMBDA out, i : IF Archived(i) \/ Archived(i - 1) THEN out ELSE Append(out, live[i]),
                <<>>, [i \in 1..Len(live) |-> i])

PositionOf_Never(out, m) == 0

\* The bubble of a list that stands for the same role of the same run (or stream).
PositionOf(out, m) ==
    LET Identity(x) == IF x.run # 0 THEN <<"run", x.run>> ELSE Given(x.logical, x.stream, NoId)
    IN SelectLastInSeq(out, LAMBDA o : /\ Identity(m) # NoId /\ Identity(o) = Identity(m)
                                       /\ o.role = m.role)

\* A run that is still going, shown by an archive that has no run identities: its
\* partial pair becomes the live pair.
AdoptArchivedPair(base, query, answer) ==
    LET Same(j) == /\ {base[j].source, base[j + 1].source} = {"history"}
                   /\ base[j].role = "user" /\ base[j + 1].role = "assistant"
                   /\ base[j].run = 0 /\ query.run = 0
                   /\ base[j].logical = NoId /\ query.logical = NoId
                   /\ base[j].content = query.content /\ base[j].ts # 0
                   /\ TimestampsOverlap(base[j], query)
        found == {j \in 1..(Len(base) - 1) : Same(j)}
    IN IF found = {} THEN base
       ELSE [base EXCEPT ![Max(found)] = Spread(@, query), ![Max(found) + 1] = Spread(@, answer)]

\* Live bubbles over a base: a finished answer is never replaced, a stale one never
\* shrinks a newer one, the rest is merged where its run is or appended.
MergeLive(base, live) ==
    LET Pair(i) == /\ live[i].role = "user" /\ live[i + 1].role = "assistant"
                   /\ live[i + 1].streaming = "on" /\ live[i].stream # NoId
                   /\ live[i].stream = live[i + 1].stream /\ live[i].ts # 0
        Adopt(out, i) == IF i < Len(live) /\ Pair(i)
                         THEN AdoptArchivedPair(out, live[i], live[i + 1]) ELSE out
        adopted == Fold(Adopt, base, [i \in 1..Len(live) |-> i])
        Taken(m) == adopted # base /\ \E i \in 1..Len(adopted) :
                      adopted[i].stream = m.stream /\ adopted[i].role = m.role /\ adopted[i] # base[i]
        Over(old, m) ==
          IF old.role = "assistant" /\ old.run # 0 /\ old.run = m.run THEN MergeRunReply(old, m)
          ELSE [Spread(old, m) EXCEPT
                  !.ts = IF old.role = "user" /\ old.run # 0 /\ old.run = m.run
                         THEN Earliest({old.ts, m.ts}) ELSE m.ts]
        Add(out, m) ==
          LET i == PositionOf(out, m)
          IN CASE i = 0 -> Append(out, m)
               [] i # 0 /\ (out[i].outcome # "none" \/ IsStrictPrefix(m.content, out[i].content)) -> out
               [] OTHER -> [out EXCEPT ![i] = Over(@, m)]
        fresh == SelectSeq(RemoveArchivedSnapshotOverlap(base, live), LAMBDA m : ~Taken(m))
    IN OrderConversationTurns(Fold(Add, adopted, fresh))

PrependUniqueHistory_Behind(older, current) ==
    MergeLive(CoalesceArchiveRuns(SelectSeq(current, LAMBDA m : m.source = "history") \o older),
              SelectSeq(current, LAMBDA m : m.source # "history"))

\* An older archive page in front of what is shown.
PrependUniqueHistory(older, current) ==
    LET all == older \o SelectSeq(current, LAMBDA m : m.source = "history")
        First(i) == \/ all[i].run # 0 \/ all[i].stream = NoId
                    \/ \A k \in 1..(i - 1) : \/ all[k].run # 0 \/ all[k].stream # all[i].stream
                                             \/ all[k].role # all[i].role
        archive == Fold(LAMBDA out, i : IF First(i) THEN Append(out, all[i]) ELSE out,
                            <<>>, [i \in 1..Len(all) |-> i])
    IN MergeLive(CoalesceArchiveRuns(archive), SelectSeq(current, LAMBDA m : m.source # "history"))

\* What a snapshot says of the runs, applied to the answers that are shown: the
\* running one is receiving again, the one that ended last has its outcome.
SettleSnapshot(msgs, state) ==
    LET Settled(m) ==
          CASE state.status = "running" /\ state.run # 0 ->
                 IF m.role = "assistant" /\ m.run = state.run /\ m.outcome = "none" /\ ~m.stopped
                 THEN [m EXCEPT !.streaming = "on"] ELSE m
            [] state.status = "idle" /\ state.completed # 0 /\ state.outcome # "none" ->
                 IF m.role = "assistant" /\ m.run = state.completed
                 THEN [m EXCEPT !.streaming = "off", !.notice = FALSE, !.outcome = state.outcome,
                                !.stopped = state.outcome = "cancelled"] ELSE m
            [] OTHER -> m
    IN Mapped(Settled, msgs)

\* The bubbles of the physical streams a reconnect snapshot carries.
ApplySnapshot(streams) ==
    LET Add(out, s) ==
          LET e == [Frame(IF s.done THEN "done" ELSE "next", s.stream, s.run, s.logical) EXCEPT
                      !.source = s.source, !.retryOf = s.retryOf, !.content = s.content]
              noted == IF s.done THEN out ELSE UpsertRetryNotice(out, KeyOf(e), s.run, s.started)
              Bubble(role) == [Blank(role) EXCEPT !.logical = s.logical, !.run = s.run,
                                 !.stream = s.stream, !.source = s.source, !.ts = s.started]
              question == [Bubble("user") EXCEPT !.content = s.query]
              answer == [Bubble("assistant") EXCEPT !.content = s.content,
                           !.parts = <<Part(s.stream, s.content, s.done, FALSE)>>,
                           !.streaming = IF s.done THEN "off" ELSE "on", !.started = s.started]
              asked == IF s.query = <<>> THEN out ELSE Append(out, question)
              empty == s.content = <<>> /\ s.done
          IN CASE s.source \in Hidden -> out
               [] s.source \in Recovery -> IF empty THEN noted ELSE UpdateLogicalReply(noted, e, s.started)
               [] OTHER -> IF empty THEN asked ELSE Append(asked, answer)
    IN Fold(Add, <<>>, streams)

\* A reconnect snapshot over what is shown.
MergeSessionSnapshot(base, event) ==
    LET Settle(m) == IF m.source = "history" THEN SettleSnapshot(<<m>>, event)[1] ELSE m
        merged == MergeLive(Mapped(Settle, base), ApplySnapshot(event.streams))
    IN OrderConversationTurns(SettleSnapshot(merged, event))
=============================================================================
