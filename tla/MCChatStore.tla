---------------------------- MODULE MCChatStore ----------------------------
(***************************************************************************)
(* ChatStore on one and on two sessions.  A budget says how often each     *)
(* kind of event may happen in one behaviour; the run takes every budget   *)
(* of AllBudgets in turn, so that events which interact meet in pairs.     *)
(***************************************************************************)
EXTENDS ChatStore

Zero == [starts |-> 0, runs |-> 0, failures |-> 0, archives |-> 0, drops |-> 0, evicts |-> 0,
         overflows |-> 0, restarts |-> 0, cancels |-> 0, rewinds |-> 0, fails |-> 0, forces |-> 0, pages |-> 0,
         sweeps |-> 0, removals |-> 0, stages |-> 0, notes |-> 0]

One == [Zero EXCEPT !.starts = 1, !.runs = 1]

\* One run watched from its start: retries, an archive that grows meanwhile, a
\* connection that is lost or evicted, an overflowing stream, a restarted server,
\* a cancelled attempt, a rewound history and failing requests.
LiveBudgets ==
    {[One EXCEPT !.failures = 2],
     [One EXCEPT !.failures = 1, !.archives = 1],
     [One EXCEPT !.drops = 1, !.archives = 1],
     [One EXCEPT !.drops = 1, !.evicts = 1],
     [One EXCEPT !.overflows = 1],
     [One EXCEPT !.restarts = 1],
     [One EXCEPT !.failures = 1, !.cancels = 1],
     [One EXCEPT !.rewinds = 1, !.fails = 1],
     [One EXCEPT !.fails = 1, !.forces = 1],
     [One EXCEPT !.runs = 2]}

\* Two sessions: switching to and fro, older pages, sweeps, deletion, staged messages.
Two == [Zero EXCEPT !.starts = 3]
SwitchBudgets ==
    {[Two EXCEPT !.starts = 2, !.runs = 1],
     [Two EXCEPT !.pages = 1, !.fails = 1],
     [Two EXCEPT !.sweeps = 2],
     [Two EXCEPT !.starts = 1, !.sweeps = 1, !.fails = 1, !.pages = 1],
     [Two EXCEPT !.starts = 1, !.sweeps = 1, !.runs = 1],
     [Two EXCEPT !.starts = 1, !.removals = 1, !.runs = 1],
     [Two EXCEPT !.starts = 2, !.removals = 1],
     [Two EXCEPT !.starts = 1, !.stages = 1, !.runs = 1],
     [Two EXCEPT !.starts = 2, !.stages = 1],
     [Two EXCEPT !.starts = 1, !.notes = 2]}

AllBudgets == LiveBudgets \cup SwitchBudgets

\* Turns the archive of a session holds before the page opens.
SomeOld == [s \in Sessions |-> IF s = 1 THEN 3 ELSE 0]
=============================================================================
