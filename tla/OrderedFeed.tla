---------------------------- MODULE OrderedFeed ----------------------------
(***************************************************************************)
(* What the Hub's event stream promises one page of the web UI, whatever   *)
(* sockets, queues and server processes lie between.  The server appends   *)
(* topics to a log; a restarted server starts a log of its own.  The page  *)
(* is either lost, and then it is handed nothing, or it follows one log    *)
(* from the position where it joined, and then it is handed every event of *)
(* a wanted topic after that position, once each and in order.  It may be  *)
(* told at any moment that it is lost: it then reloads what it shows and   *)
(* joins again.                                                            *)
(***************************************************************************)
EXTENDS Naturals, Sequences

CONSTANTS Topic,       \* event topics
          Wanted,      \* the topics under the prefixes the page asked for
          MaxEpoch     \* bound on server processes

VARIABLES epoch,       \* the server process that is running
          log,         \* per server process, the topics it published
          joined,      \* where the page joined: [id, epoch], or Lost
          delivered    \* ids the page was handed since it joined

feedVars == <<epoch, log, joined, delivered>>

Lost == [id |-> 0, epoch |-> 0]

WantedIn(e) == {i \in 1..Len(log[e]) : log[e][i] \in Wanted}

\* How far the page got: the last event it was handed, or where it joined.
Reached == IF delivered = <<>> THEN joined.id ELSE delivered[Len(delivered)]

\* The wanted events of the joined log that the page has still to be handed.
Outstanding == {i \in WantedIn(joined.epoch) : i > Reached}

Init ==
  /\ epoch = 1
  /\ log = [e \in 1..MaxEpoch |-> <<>>]
  /\ joined = Lost
  /\ delivered = <<>>

Publish(t) ==
  /\ log' = [log EXCEPT ![epoch] = Append(@, t)]
  /\ UNCHANGED <<epoch, joined, delivered>>

Restart ==
  /\ epoch < MaxEpoch
  /\ epoch' = epoch + 1
  /\ UNCHANGED <<log, joined, delivered>>

Join(e, i) ==
  /\ joined = Lost
  /\ i \in 0..Len(log[e])
  /\ joined' = [id |-> i, epoch |-> e]
  /\ UNCHANGED <<epoch, log, delivered>>

Deliver(i) ==
  /\ joined # Lost
  /\ i \in Outstanding
  /\ \A j \in Outstanding : i <= j
  /\ delivered' = Append(delivered, i)
  /\ UNCHANGED <<epoch, log, joined>>

Lose ==
  /\ joined # Lost
  /\ joined' = Lost
  /\ delivered' = <<>>
  /\ UNCHANGED <<epoch, log>>

Next ==
  \/ \E t \in Topic : Publish(t)
  \/ Restart
  \/ \E e \in 1..MaxEpoch : \E i \in 0..Len(log[e]) : Join(e, i)
  \/ joined # Lost /\ \E i \in WantedIn(joined.epoch) : Deliver(i)
  \/ Lose

Spec == Init /\ [][Next]_feedVars
=============================================================================
