----------------------------- MODULE ChatServer -----------------------------
(***************************************************************************)
(* What a session's chat page is told: the server side of                  *)
(* /ws/sessions/{id} and of GET /api/sessions/{id}/messages.  A session    *)
(* has runs; a run has physical streams (the first one and its automatic   *)
(* retries); every step of a stream is a frame of the session's event log, *)
(* and the text of a run reaches the archive with a delay.  A restart of   *)
(* the server loses the log, the live streams and the stream numbering,    *)
(* and keeps the archive.                                                  *)
(***************************************************************************)
EXTENDS ChatTranscript

CONSTANTS
    Sessions,     \* the Hub sessions of the model: numbers from 1
    Busy,         \* the sessions in which runs are started
    MaxChunks,    \* chunks of text a stream may have
    MaxStreams,   \* physical streams of one run: 1 + automatic retries
    Forms,        \* the formattings of the archive: "live" (as streamed) and "arch"
    OldTurns,     \* per session: archived turns from before Hub recorded runs
    FirstTurns,   \* turns in the first history page
    PageTurns     \* turns in an older history page

VARIABLES
    srv,          \* per session: epoch, event log, its evicted part, runs, stream counter
    form          \* the archive's formatting: "live" (the stream's own text) or "arch"

serverVars == <<srv, form>>

ServerInit ==
    /\ srv = [s \in Sessions |-> [epoch |-> 1, log |-> <<>>, evicted |-> 0, runs |-> <<>>, sid |-> 0]]
    /\ form \in Forms

\* Runs of different sessions are different.
RunId(s, k) == 10 * s + k
OwnerOf(run) == run \div 10

StartedAt(k) == 2 * k
Now(s) == 2 * Len(srv[s].runs) + 1

\* What is asked elsewhere, in a run of this number, and what this page's n-th stage asks.
Query(run) == <<<<"query", run, 0, 0>>>>
Staged(n) == <<<<"stage", n, 0, 0>>>>

\* What Hub asks itself when it continues a run.
Continue == <<<<"query", 0, 0, 0>>>>
Text(f, run, j, n) == [i \in 1..n |-> <<f, run, j, i>>]

Latest(s) == Len(srv[s].runs)
Active(s) == Latest(s) # 0 /\ srv[s].runs[Latest(s)].phase \in {"running", "backoff", "ending"}

\* The frames of one step, numbered as the event bus numbers them.
Published(v, frames) ==
    [v EXCEPT !.log = @ \o [i \in 1..Len(frames) |-> [frames[i] EXCEPT !.id = Len(v.log) + i,
                                                                     !.epoch = v.epoch]]]

FrameOf(s, k, j, type) ==
    LET run == srv[s].runs[k]
    IN [Frame(type, <<"live", run.streams[j].sid>>, RunId(s, k), <<"live", run.streams[1].sid>>) EXCEPT
          !.source = IF j = 1 THEN run.source ELSE "chat_error_retry",
          !.retryOf = IF j = 1 THEN NoId ELSE <<"live", run.streams[j - 1].sid>>,
          !.content = Text("live", RunId(s, k), j, run.streams[j].n)]

-----------------------------------------------------------------------------
(* Runs.                                                                    *)

\* A run is admitted: the question and its source are the caller's.
StartRun(s, source, query) ==
    /\ s \in Busy /\ ~Active(s)
    /\ LET v == srv[s]
           run == RunId(s, Latest(s) + 1)
           stream == <<"live", v.sid + 1>>
           frame == [Frame("started", stream, run, stream) EXCEPT
                       !.source = source, !.content = query, !.ts = StartedAt(Latest(s) + 1)]
       IN srv' = [srv EXCEPT ![s] = Published(
                   [v EXCEPT !.sid = @ + 1,
                             !.runs = Append(@, [source |-> source, query |-> query, phase |-> "running", outcome |-> "none",
                                                 archived |-> <<>>, kept |-> TRUE, epoch |-> v.epoch,
                                                 streams |-> <<[sid |-> v.sid + 1, n |-> 0, done |-> FALSE, asks |-> TRUE]>>])],
                   <<frame>>)]
    /\ UNCHANGED form

Chunk(s) ==
    /\ Active(s) /\ srv[s].runs[Latest(s)].phase = "running"
    /\ LET k == Latest(s)
           j == Len(srv[s].runs[k].streams)
           n == srv[s].runs[k].streams[j].n
           f == [FrameOf(s, k, j, "next") EXCEPT !.content = Text("live", RunId(s, k), j, n + 1)]
       IN /\ n < MaxChunks
          /\ srv' = [srv EXCEPT ![s] = Published([@ EXCEPT !.runs[k].streams[j].n = n + 1], <<f>>)]
    /\ UNCHANGED form

\* The stream ends: the run is over, or its error is recoverable and a retry is
\* scheduled (or the retries are used up).
FinishStream(s, failed) ==
    /\ Active(s) /\ srv[s].runs[Latest(s)].phase = "running"
    /\ LET k == Latest(s)
           j == Len(srv[s].runs[k].streams)
           again == failed /\ j < MaxStreams
           done == FrameOf(s, k, j, "done")
           after == CASE again -> <<[done EXCEPT !.type = "retry_scheduled"]>>
                      [] failed /\ ~again -> <<[done EXCEPT !.type = "retry_exhausted"]>>
                      [] OTHER -> <<>>
       IN /\ srv[s].runs[k].streams[j].n > 0
          /\ srv' = [srv EXCEPT ![s] = Published(
                [@ EXCEPT !.runs[k] = [@ EXCEPT !.streams[j].done = TRUE,
                                                !.phase = IF again THEN "backoff" ELSE "ending",
                                                !.outcome = IF failed THEN "failed" ELSE "completed"]],
                <<done>> \o after)]
    /\ UNCHANGED form

RetryRun(s) ==
    /\ Active(s) /\ srv[s].runs[Latest(s)].phase = "backoff"
    /\ LET k == Latest(s)
           v == srv[s]
           j == Len(v.runs[k].streams)
           Run(asks) == [v.runs[k] EXCEPT !.phase = "running", !.streams =
                           Append(@, [sid |-> v.sid + 1, n |-> 0, done |-> FALSE, asks |-> asks])]
           retry == FrameOf(s, k, j, "retry")
           again == [retry EXCEPT !.type = "started", !.stream = <<"live", v.sid + 1>>,
                                  !.source = "chat_error_retry", !.retryOf = retry.stream,
                                  !.content = Continue, !.ts = Now(s)]
       IN \E asks \in BOOLEAN :
            srv' = [srv EXCEPT ![s] = Published([v EXCEPT !.sid = @ + 1, !.runs[k] = Run(asks)], <<retry, again>>)]
    /\ UNCHANGED form

\* The user stops the run while its retry backs off: no frame says so, because the
\* chat:aborted event names no session.
CancelRetry(s) ==
    /\ Active(s) /\ srv[s].runs[Latest(s)].phase = "backoff"
    /\ srv' = [srv EXCEPT ![s].runs[Latest(s)].phase = "ending",
                          ![s].runs[Latest(s)].outcome = "cancelled"]
    /\ UNCHANGED form

\* Rounds reach the archive while the run goes on.
Archive(s) ==
    /\ Active(s)
    /\ LET k == Latest(s)
           now == [j \in 1..Len(srv[s].runs[k].streams) |-> srv[s].runs[k].streams[j].n]
       IN /\ now[1] > 0 /\ now # srv[s].runs[k].archived
          /\ srv' = [srv EXCEPT ![s].runs[k].archived = now]
    /\ UNCHANGED form

\* finish_run: the archive holds the whole run and its outcome.
EndRun(s) ==
    /\ Active(s) /\ srv[s].runs[Latest(s)].phase = "ending"
    /\ LET k == Latest(s) IN
       srv' = [srv EXCEPT ![s].runs[k] = [@ EXCEPT !.phase = "over",
                 !.archived = [j \in 1..Len(srv[s].runs[k].streams) |-> srv[s].runs[k].streams[j].n]]]
    /\ UNCHANGED form

-----------------------------------------------------------------------------
(* Faults, and the rewind of the last turn.                                 *)

\* The bounded event buffer forgets all it has.
Evict(s) ==
    /\ srv[s].evicted < Len(srv[s].log)
    /\ srv' = [srv EXCEPT ![s].evicted = Len(srv[s].log)]
    /\ UNCHANGED form

RestartServer ==
    /\ srv' = [s \in Sessions |->
                 [epoch |-> srv[s].epoch + 1, log |-> <<>>, evicted |-> 0, sid |-> 0,
                  runs |-> [k \in 1..Len(srv[s].runs) |->
                     IF srv[s].runs[k].phase = "over" THEN srv[s].runs[k]
                     ELSE [srv[s].runs[k] EXCEPT !.phase = "lost", !.outcome = "none"]]]]
    /\ UNCHANGED form

Rewind(s) ==
    /\ ~Active(s) /\ Latest(s) # 0 /\ srv[s].runs[Latest(s)].kept
    /\ LET k == Latest(s)
           mine == srv[s].runs[k]
           gone == IF mine.epoch = srv[s].epoch
                   THEN {<<"live", mine.streams[j].sid>> : j \in 1..Len(mine.streams)} ELSE {}
           frame == [type |-> "rewound", id |-> 0, epoch |-> 0, removed |-> gone]
       IN srv' = [srv EXCEPT ![s] = Published([@ EXCEPT !.runs[k].kept = FALSE], <<frame>>)]
    /\ UNCHANGED form

-----------------------------------------------------------------------------
(* What a client reads.                                                     *)

\* The live streams of the active run, or the end of the last one.
Snapshot(s) ==
    LET k == Latest(s)
        run == srv[s].runs[k]
        Stream(j) == [stream |-> <<"live", run.streams[j].sid>>, run |-> RunId(s, k),
                      logical |-> <<"live", run.streams[1].sid>>,
                      source |-> IF j = 1 THEN run.source ELSE "chat_error_retry",
                      retryOf |-> IF j = 1 THEN NoId ELSE <<"live", run.streams[j - 1].sid>>,
                      query |-> IF j = 1 THEN run.query ELSE Continue,
                      content |-> Text("live", RunId(s, k), j, run.streams[j].n),
                      done |-> run.streams[j].done, started |-> StartedAt(k)]
        idle == [type |-> "snapshot", id |-> 0, epoch |-> 0, status |-> "idle", run |-> 0, completed |-> 0,
                 outcome |-> "none", streams |-> <<>>]
    IN CASE Active(s) -> [idle EXCEPT !.status = "running", !.run = RunId(s, k),
                                      !.streams = [j \in 1..Len(run.streams) |-> Stream(j)]]
         [] ~Active(s) /\ k # 0 -> IF run.phase = "over" /\ run.epoch = srv[s].epoch
                                   THEN [idle EXCEPT !.completed = RunId(s, k), !.outcome = run.outcome]
                                   ELSE idle
         [] OTHER -> idle

\* The text of the streams from j to the next one with a question of its own.
Folded(f, s, k, j, lengths) ==
    LET asks(i) == srv[s].runs[k].streams[i].asks
    IN Fold(LAMBDA text, i : IF i < j \/ \E l \in (j + 1)..i : asks(l) THEN text
                             ELSE text \o Text(f, RunId(s, k), i, lengths[i]),
            <<>>, [i \in 1..Len(lengths) |-> i])

\* The archive's items, oldest first: a question and an answer per turn.  The rounds
\* of a run's retries are folded into its answer, because their prompts are taken out
\* first; a prompt that is not recognised stays a question of its own, with an answer
\* of its own.  Every item of a run has the run's record, whose stream is the first;
\* "real" are the questions a user asked.
Items(s) ==
    LET Item(role, id) == [role |-> role, id |-> id, content |-> <<<<"old", 0, id, 0>>>>, run |-> 0,
                           logical |-> NoId, stream |-> NoId, outcome |-> "none", ts |-> 1,
                           real |-> role = "user"]
        Old(t) == <<Item("user", 2 * t - 1), Item("assistant", 2 * t)>>
        Round(k, j) ==
          LET run == srv[s].runs[k]
              id == 2 * (OldTurns[s] + (k - 1) * MaxStreams + j)
              Of(item) == [item EXCEPT
                !.run = RunId(s, k), !.logical = <<"live", run.streams[1].sid>>,
                !.stream = <<"live", run.streams[1].sid>>, !.ts = StartedAt(k),
                !.outcome = IF run.phase = "over" THEN run.outcome ELSE "none"]
          IN <<[Of(Item("user", id - 1)) EXCEPT !.content = IF j = 1 THEN run.query ELSE Continue,
                                                !.real = j = 1],
               [Of(Item("assistant", id)) EXCEPT !.content = Folded(form, s, k, j, run.archived)]>>
        Has(k, j) == srv[s].runs[k].kept /\ j <= Len(srv[s].runs[k].archived)
                     /\ srv[s].runs[k].archived[j] > 0 /\ srv[s].runs[k].streams[j].asks
        Turn(k) == Fold(LAMBDA out, j : IF Has(k, j) THEN out \o Round(k, j) ELSE out,
                        <<>>, [j \in 1..MaxStreams |-> j])
    IN Fold(LAMBDA out, t : out \o Old(t), <<>>, [t \in 1..OldTurns[s] |-> t])
       \o Fold(LAMBDA out, k : out \o Turn(k), <<>>, [k \in 1..Latest(s) |-> k])

\* The file's hash.
Revision(s) == [k \in 1..Latest(s) |-> IF srv[s].runs[k].kept THEN srv[s].runs[k].archived ELSE <<0>>]

\* The page of at most so many turns that ends before an item (0: the newest): it
\* begins with a real question.
Page(s, before, turns) ==
    LET Cut(all, first, end) == [items |-> SubSeq(all, first, end), revision |-> Revision(s),
                                 ended |-> IF Active(s) THEN Latest(s) - 1 ELSE Latest(s),
                                 before |-> IF first > 1 THEN first ELSE 0]
        First(real) == IF real = {} THEN 1
                       ELSE CHOOSE i \in real :
                              Cardinality({j \in real : j >= i}) = Min({turns, Cardinality(real)})
        Upto(all, end) == Cut(all, First({i \in 1..end : all[i].real}), end)
        Of(all) == Upto(all, IF before = 0 THEN Len(all) ELSE Min({before - 1, Len(all)}))
    IN Of(Items(s))
=============================================================================
