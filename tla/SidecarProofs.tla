---------------------------- MODULE SidecarProofs ----------------------------
(***************************************************************************)
(* One holder for every live backend process, for any number of restarts    *)
(* and any openings.                                                        *)
(***************************************************************************)
EXTENDS Sidecar, FiniteSetTheorems, TLAPS

\* A leaf is left to Zenon unless it names SMT: most are first-order.
USE ZenonT(30)

Phases == {"spawning", "running", "ready", "failed", "stopping", "stopped"}
Slot == Numbers \cup {NoProc}
SupAt == {"none", "start", "commit", "stop", "wait", "fail", "serve", "watch", "report", "explain", "ask", "over"}
WorkerAt == {"none", "stop", "finish", "reset", "launch", "over"}
CloserAt == {"none", "claim", "stop", "finish", "allow", "leave", "over"}
Procs == [Numbers -> {"none", "alive", "serving", "left", "dead"}]
USE DEF Procs
Busy(n) == workers[n].at \in {"stop", "finish", "reset"}

SidecarTypes ==
    /\ life \in [phase : Phases, proc : Slot]
    /\ procs \in Procs
    /\ exiting \in {"running", "cleaning", "allowed", "left"}
    /\ sups \in [Numbers -> [at : SupAt, proc : Slot]]
    /\ workers \in [Numbers -> [at : WorkerAt, proc : Slot]]
    /\ closer \in [at : CloserAt, proc : Slot]

\* A thread holds a process only where the code does: a supervisor its own,
\* between spawning and committing it, the others while they stop it.
HoldsInPlace ==
    /\ \A n \in Numbers :
          /\ sups[n].proc = IF sups[n].at \in {"commit", "stop"} THEN n ELSE NoProc
          /\ workers[n].at # "stop" => workers[n].proc = NoProc
    /\ closer.at # "stop" => closer.proc = NoProc
    /\ exiting = "running" => closer.at = "none"

\* A supervisor starts once, after the restart thread that launches it, and a
\* process nobody has spawned is nobody's.
StartedOnce ==
    \A n \in Numbers :
      /\ workers[n].at \in {"stop", "finish", "reset", "launch"} => sups[n].at = "none"
      /\ sups[n].at \in {"none", "start"} => procs[n] = "none"
      /\ procs[n] = "none" =>
            /\ life.proc # n /\ closer.proc # n
            /\ \A m \in Numbers : sups[m].proc # n /\ workers[m].proc # n

\* One restart at a time has the lifecycle, and then its slot is empty.
RestartHasLife ==
    \A n \in Numbers : Busy(n) =>
      /\ life.phase \in {"stopping", "stopped"} /\ life.proc = NoProc
      /\ \A m \in Numbers \ {n} : ~Busy(m)

\* No process has two holders.
HeldApart ==
    \A p \in Numbers :
      /\ life.proc = p => closer.proc # p /\ \A n \in Numbers : sups[n].proc # p /\ workers[n].proc # p
      /\ closer.proc = p => \A n \in Numbers : sups[n].proc # p /\ workers[n].proc # p
      /\ \A n, m \in Numbers : sups[n].proc = p => workers[m].proc # p

\* Every live process is held.
LiveIsHeld ==
    \A p \in Numbers : Lives(p) =>
      \/ life.proc = p \/ closer.proc = p
      \/ \E n \in Numbers : sups[n].proc = p \/ workers[n].proc = p

\* The exit leaves an empty slot behind once it has claimed: from then on nothing
\* is committed, and whoever else shuts down has emptied the slot before.
ExitEmpties ==
    /\ life.phase \in {"stopping", "stopped"} => life.proc = NoProc
    /\ closer.at \notin {"none", "claim"} => exiting # "running" /\ life.proc = NoProc
    /\ exiting \in {"allowed", "left"} => closer.at \in {"leave", "over"} /\ closer.proc = NoProc

SidecarInv ==
    SidecarTypes /\ HoldsInPlace /\ StartedOnce /\ RestartHasLife /\ HeldApart /\ LiveIsHeld

\* The invariant names every holder once, so that a live process has one.
LEMMA OneHolderFollows == SidecarInv /\ ExitEmpties => OneHolder
<1> SUFFICES ASSUME SidecarInv, NEW p \in Numbers, Lives(p)
             PROVE  Cardinality(Holders(p)) = 1
  BY DEF OneHolder, ExitEmpties
<1> USE DEF SidecarInv
<1>0. p # NoProc
  BY SidecarAssumption, SMTT(60) DEF Numbers, NoProc
<1>1. \A n, m \in Numbers : sups[n].proc = p /\ sups[m].proc = p => n = m
  BY <1>0, SMTT(60) DEF HoldsInPlace
<1>2. \A n, m \in Numbers : workers[n].proc = p /\ workers[m].proc = p => n = m
  BY <1>0 DEF HoldsInPlace, RestartHasLife, Busy
<1>3. \E h : Holders(p) = {h}
  <2>1. CASE life.proc = p
    BY <2>1 DEF HeldApart, Holders
  <2>2. CASE closer.proc = p
    BY <2>2 DEF HeldApart, Holders
  <2>3. ASSUME NEW n \in Numbers, sups[n].proc = p
        PROVE  Holders(p) = {<<"supervisor", n>>}
    BY <2>3, <1>1 DEF HeldApart, Holders
  <2>4. ASSUME NEW n \in Numbers, workers[n].proc = p
        PROVE  Holders(p) = {<<"restart", n>>}
    BY <2>4, <1>2 DEF HeldApart, Holders
  <2> QED BY <2>1, <2>2, <2>3, <2>4 DEF LiveIsHeld
<1> QED BY <1>3, FS_Singleton

\* There is no process 0.
LEMMA NoProcApart == NoProc \notin Numbers
BY SidecarAssumption, SMTT(60) DEF Numbers, NoProc

\* A process that was stopped or given up lives no more, the others as before.
LEMMA OneEnds ==
    ASSUME procs \in Procs, NEW p \in Slot, procs' \in {Died(procs, p), Left(procs, p)}
    PROVE  /\ procs' \in Procs
           /\ \A q \in Numbers : /\ q # p => procs'[q] = procs[q]
                                 /\ q = p => procs'[q] \in {"left", "dead"}
BY NoProcApart DEF Died, Left, Slot

LEMMA SidecarStarts == SidecarInit => SidecarInv
<1> SUFFICES ASSUME SidecarInit PROVE SidecarInv
  OBVIOUS
<1>0. NoProc \notin Numbers
  BY SidecarAssumption, SMTT(60) DEF Numbers, NoProc
<1> USE DEF SidecarInit, Thread, NoThread, Fresh
<1>1. SidecarTypes
  BY DEF SidecarTypes, Phases, Slot, SupAt, WorkerAt, CloserAt
<1>2. HoldsInPlace
  BY DEF HoldsInPlace
<1>3. StartedOnce /\ RestartHasLife /\ HeldApart /\ LiveIsHeld
  BY <1>0 DEF StartedOnce, RestartHasLife, HeldApart, LiveIsHeld, Busy, Lives
<1> QED BY <1>1, <1>2, <1>3 DEF SidecarInv

\* A supervisor that holds nothing moves on, and may mark the lifecycle.
LEMMA SupervisorMoves ==
    ASSUME SidecarInv, NEW n \in Numbers, NEW at \in SupAt \ {"none", "start", "commit", "stop"},
           sups[n].at \notin {"none", "commit", "stop"},
           sups' = [sups EXCEPT ![n] = Thread(at, NoProc)],
           life' \in {life, SetReady(life), SetFailed(life)},
           UNCHANGED <<procs, exiting, workers, closer>>
    PROVE  SidecarInv'
<1> USE NoProcApart DEF SidecarInv
<1>1. /\ life' \in [phase : Phases, proc : Slot] /\ life'.proc = life.proc
      /\ life.phase \in {"stopping", "stopped"} => life'.phase = life.phase
  BY SMTT(60) DEF SidecarTypes, SetReady, SetFailed, Phases
<1>2. sups' \in [Numbers -> [at : SupAt, proc : Slot]]
  BY DEF SidecarTypes, Thread, Slot
<1>3. \A m \in Numbers :
        /\ sups'[m].proc = sups[m].proc
        /\ sups'[m].at = IF m = n THEN at ELSE sups[m].at
  BY DEF SidecarTypes, HoldsInPlace, Thread
<1>4. SidecarTypes'
  BY <1>1, <1>2 DEF SidecarTypes
<1>5. HoldsInPlace'
  BY <1>3, SMTT(60) DEF HoldsInPlace
<1>6. StartedOnce'
  BY <1>1, <1>3, SMTT(60) DEF StartedOnce
<1>7. RestartHasLife'
  BY <1>1 DEF RestartHasLife, Busy
<1>8. HeldApart'
  BY <1>1, <1>3, SMTT(60) DEF HeldApart
<1>9. LiveIsHeld'
  BY <1>1, <1>3, SMTT(60) DEF LiveIsHeld, Lives
<1> QED BY <1>4, <1>5, <1>6, <1>7, <1>8, <1>9

\* Nobody's holdings and no phase change: an asker, the exit or a process moves.
LEMMA HoldingsKept ==
    ASSUME SidecarInv, UNCHANGED <<life, sups, workers>>,
           procs' \in Procs,
           \A p \in Numbers : /\ (procs'[p] = "none") <=> (procs[p] = "none")
                              /\ procs'[p] \in {"alive", "serving"} => Lives(p),
           exiting' \in {"running", "cleaning", "allowed", "left"},
           closer' \in [at : CloserAt, proc : Slot], closer'.proc = closer.proc,
           closer'.at # "stop" => closer'.proc = NoProc,
           exiting' = "running" => closer'.at = "none"
    PROVE  SidecarInv'
<1> USE NoProcApart DEF SidecarInv
<1>1. SidecarTypes'
  BY DEF SidecarTypes
<1>2. HoldsInPlace'
  BY DEF HoldsInPlace
<1>3. StartedOnce'
  BY SMTT(60) DEF StartedOnce
<1>4. RestartHasLife'
  BY DEF RestartHasLife, Busy
<1>5. HeldApart'
  BY SMTT(60) DEF HeldApart
<1>6. LiveIsHeld'
  BY DEF LiveIsHeld, Lives
<1> QED BY <1>1, <1>2, <1>3, <1>4, <1>5, <1>6

\* run_sidecar_supervisor spawns its own process, once, and holds it.
LEMMA SpawnKeeps ==
    ASSUME SidecarInv, NEW n \in Numbers, Spawn(n)
    PROVE  SidecarInv'
<1>1. CASE /\ sups[n].at = "start" /\ sups' = [sups EXCEPT ![n] = Thread("commit", n)]
           /\ procs' = [procs EXCEPT ![n] = "alive"]
           /\ UNCHANGED <<life, exiting, workers, closer>>
  <2> USE NoProcApart DEF SidecarInv
  <2>1. procs[n] = "none"
    BY <1>1 DEF StartedOnce
  <2>2. /\ life.proc # n /\ closer.proc # n
        /\ \A m \in Numbers : sups[m].proc # n /\ workers[m].proc # n
    BY <2>1 DEF StartedOnce
  <2>3. \A m \in Numbers :
          /\ sups'[m].proc = (IF m = n THEN n ELSE sups[m].proc)
          /\ sups'[m].at = (IF m = n THEN "commit" ELSE sups[m].at)
          /\ procs'[m] = (IF m = n THEN "alive" ELSE procs[m])
    BY <1>1 DEF SidecarTypes, Thread
  <2>4. SidecarTypes'
    BY <1>1 DEF SidecarTypes, SupAt, Slot, Thread
  <2>5. HoldsInPlace'
    BY <1>1, <2>3, SMTT(60) DEF HoldsInPlace
  <2>6. StartedOnce'
    BY <1>1, <2>3, SMTT(60) DEF StartedOnce
  <2>7. RestartHasLife'
    BY <1>1 DEF RestartHasLife, Busy
  <2>8. HeldApart'
    BY <1>1, <2>2, <2>3, SMTT(60) DEF HeldApart
  <2>9. LiveIsHeld'
    <3>1. sups[n].proc = NoProc
      BY <1>1 DEF HoldsInPlace
    <3> QED BY <1>1, <2>3, <3>1, SMTT(60) DEF LiveIsHeld, Lives
  <2> QED BY <2>4, <2>5, <2>6, <2>7, <2>8, <2>9
<1>2. CASE \E at \in {"over", "explain"} :
              /\ sups[n].at = "start" /\ sups' = [sups EXCEPT ![n] = Thread(at, NoProc)]
              /\ UNCHANGED <<life, procs, exiting, workers, closer>>
  BY <1>2, SupervisorMoves DEF SupAt
<1> QED BY <1>1, <1>2 DEF Spawn, Moved, Over

\* commit_spawn puts the process into the empty slot, or leaves it to be stopped.
LEMMA CommitKeeps ==
    ASSUME SidecarInv, NEW n \in Numbers, Commit(n)
    PROVE  SidecarInv'
<1> USE NoProcApart DEF SidecarInv
<1>0. sups[n].at = "commit" /\ sups[n].proc = n /\ UNCHANGED <<procs, exiting, workers, closer>>
  BY DEF Commit, HoldsInPlace
<1>1. CASE MayCommit(life)
  <2>1. /\ life' = [phase |-> "running", proc |-> n]
        /\ sups' = [sups EXCEPT ![n] = Thread("wait", NoProc)]
    BY <1>0, <1>1 DEF Commit, Moved
  <2>2. life.phase = "spawning" /\ life.proc = NoProc
    BY <1>1 DEF MayCommit
  <2>3. \A m \in Numbers : ~Busy(m)
    BY <2>2 DEF RestartHasLife
  <2>4. \A m \in Numbers :
          /\ sups'[m].proc = (IF m = n THEN NoProc ELSE sups[m].proc)
          /\ sups'[m].at = (IF m = n THEN "wait" ELSE sups[m].at)
    BY <2>1 DEF SidecarTypes, Thread
  <2>5. /\ closer.proc # n
        /\ \A m \in Numbers : workers[m].proc # n /\ (m # n => sups[m].proc # n)
    BY <1>0, SMTT(60) DEF HeldApart, HoldsInPlace
  <2>6. procs[n] # "none"
    BY <1>0 DEF StartedOnce
  <2>7. SidecarTypes'
    BY <1>0, <2>1 DEF SidecarTypes, Phases, SupAt, Slot, Thread
  <2>8. HoldsInPlace'
    BY <1>0, <2>4, SMTT(60) DEF HoldsInPlace
  <2>9. StartedOnce'
    BY <1>0, <2>1, <2>4, <2>6, SMTT(60) DEF StartedOnce
  <2>10. RestartHasLife'
    BY <1>0, <2>3 DEF RestartHasLife, Busy
  <2>11. HeldApart'
    BY <1>0, <2>1, <2>4, <2>5, SMTT(60) DEF HeldApart
  <2>12. LiveIsHeld'
    BY <1>0, <2>1, <2>2, <2>4, SMTT(60) DEF LiveIsHeld, Lives
  <2> QED BY <2>7, <2>8, <2>9, <2>10, <2>11, <2>12
<1>2. CASE ~MayCommit(life)
  <2>1. sups' = [sups EXCEPT ![n] = Thread("stop", n)] /\ UNCHANGED life
    BY <1>0, <1>2 DEF Commit, Moved
  <2>2. \A m \in Numbers :
          /\ sups'[m].proc = sups[m].proc
          /\ sups'[m].at = (IF m = n THEN "stop" ELSE sups[m].at)
    BY <1>0, <2>1 DEF SidecarTypes, Thread
  <2>3. SidecarTypes'
    BY <1>0, <2>1 DEF SidecarTypes, SupAt, Slot, Thread
  <2>4. HoldsInPlace'
    BY <1>0, <2>2, SMTT(60) DEF HoldsInPlace
  <2>5. StartedOnce'
    BY <1>0, <2>1, <2>2, SMTT(60) DEF StartedOnce
  <2>6. RestartHasLife' /\ HeldApart' /\ LiveIsHeld'
    BY <1>0, <2>1, <2>2, SMTT(60) DEF RestartHasLife, Busy, HeldApart, LiveIsHeld, Lives
  <2> QED BY <2>3, <2>4, <2>5, <2>6
<1> QED BY <1>1, <1>2

\* stop_owned_process ends what could not be committed.
LEMMA StopOwnKeeps ==
    ASSUME SidecarInv, NEW n \in Numbers, StopOwn(n)
    PROVE  SidecarInv'
<1> USE NoProcApart DEF SidecarInv, StopOwn
<1>0. /\ procs' \in Procs
      /\ \A q \in Numbers : /\ q # sups[n].proc => procs'[q] = procs[q]
                            /\ q = sups[n].proc => procs'[q] \in {"left", "dead"}
  <2>1. sups[n].proc \in Slot /\ procs' \in {Died(procs, sups[n].proc), Left(procs, sups[n].proc)}
    BY DEF SidecarTypes, StopProcess
  <2> QED BY <2>1, OneEnds DEF SidecarTypes
<1>1. SidecarTypes'
  BY <1>0 DEF Moved, Thread, Over, SidecarTypes, Slot, SupAt
<1>2. HoldsInPlace'
  BY <1>0 DEF Moved, Thread, Over, HoldsInPlace, SidecarTypes
<1>3. StartedOnce'
  BY <1>0, SMTT(60) DEF Moved, Thread, Over, StartedOnce, HoldsInPlace, SidecarTypes, HeldApart
<1>4. RestartHasLife'
  BY <1>0 DEF Moved, Thread, Over, RestartHasLife, Busy, SidecarTypes, HoldsInPlace
<1>5. HeldApart'
  BY <1>0, SMTT(60) DEF Moved, Thread, Over, HeldApart, HoldsInPlace, RestartHasLife, Busy, StartedOnce, SidecarTypes
<1>6. LiveIsHeld'
  BY <1>0, SMTT(60) DEF Moved, Thread, Over, LiveIsHeld, Lives, HoldsInPlace, SidecarTypes, RestartHasLife, Busy, StartedOnce
<1> QED BY <1>1, <1>2, <1>3, <1>4, <1>5, <1>6

\* request_owned_shutdown may end the process in the slot, which keeps it.
LEMMA RequestOwnedShutdownKeeps ==
    ASSUME SidecarInv, NEW n \in Numbers, RequestOwnedShutdown(n)
    PROVE  SidecarInv'
<1> USE NoProcApart DEF SidecarInv, RequestOwnedShutdown
<1>1. SidecarTypes'
  BY SMTT(60) DEF Moved, Thread, Over, Died, SidecarTypes, Phases, Slot, SupAt, WorkerAt, CloserAt
<1>2. HoldsInPlace'
  BY DEF Moved, Thread, Over, Died, HoldsInPlace, SidecarTypes
<1>3. StartedOnce'
  BY SMTT(60) DEF Moved, Thread, Over, Died, StartedOnce, HoldsInPlace, SidecarTypes, HeldApart
<1>4. RestartHasLife'
  BY DEF Moved, Thread, Over, Died, RestartHasLife, Busy, SidecarTypes, HoldsInPlace
<1>5. HeldApart'
  BY SMTT(60) DEF Moved, Thread, Over, Died, HeldApart, HoldsInPlace, RestartHasLife, Busy, StartedOnce, SidecarTypes
<1>6. LiveIsHeld'
  BY SMTT(60) DEF Moved, Thread, Over, Died, LiveIsHeld, Lives, HoldsInPlace, SidecarTypes, RestartHasLife, Busy, StartedOnce
<1> QED BY <1>1, <1>2, <1>3, <1>4, <1>5, <1>6

\* A restart takes the process out of the slot and has the lifecycle to itself.
LEMMA RestartKeeps ==
    ASSUME SidecarInv, NEW a \in Askers, Restart(a)
    PROVE  SidecarInv'
<1> USE NoProcApart DEF SidecarInv
<1>1. CASE UNCHANGED <<life, workers>>
  <2>1. UNCHANGED <<life, procs, exiting, sups, workers, closer>>
    BY <1>1 DEF Restart
  <2> QED BY <2>1, HoldingsKept DEF SidecarTypes, HoldsInPlace, Lives
<1>2. ASSUME Restartable, NEW n \in Unstarted, life' = Claimed,
             workers' = [workers EXCEPT ![n] = Thread("stop", life.proc)]
      PROVE  SidecarInv'
  <2>0. UNCHANGED <<procs, exiting, sups, closer>> /\ n \in Numbers
    BY DEF Restart, Unstarted
  <2>1. \A m \in Numbers : ~Busy(m) /\ workers[m].proc = NoProc
    BY <1>2 DEF Restartable, RestartHasLife, HoldsInPlace, Busy
  <2>2. \A m \in Numbers :
          /\ workers'[m].proc = (IF m = n THEN life.proc ELSE NoProc)
          /\ workers'[m].at = (IF m = n THEN "stop" ELSE workers[m].at)
    BY <1>2, <2>0, <2>1 DEF SidecarTypes, Thread
  <2>3. life'.proc = NoProc /\ life'.phase = "stopping"
    BY <1>2 DEF Claimed
  <2>4. SidecarTypes'
    BY <1>2, <2>0 DEF SidecarTypes, Claimed, Phases, Slot, WorkerAt, Thread
  <2>5. HoldsInPlace'
    BY <2>0, <2>2 DEF HoldsInPlace
  <2>6. StartedOnce'
    <3>1. sups[n].at = "none"
      BY DEF Unstarted
    <3> QED BY <3>1, <2>0, <2>2, <2>3, SMTT(60) DEF StartedOnce
  <2>7. RestartHasLife'
    BY <2>1, <2>2, <2>3, SMTT(60) DEF RestartHasLife, Busy
  <2>8. HeldApart'
    BY <2>0, <2>2, <2>3, SMTT(60) DEF HeldApart
  <2>9. LiveIsHeld'
    BY <2>0, <2>1, <2>2, <2>3, SMTT(60) DEF LiveIsHeld, Lives
  <2> QED BY <2>4, <2>5, <2>6, <2>7, <2>8, <2>9
<1> QED BY <1>1, <1>2 DEF Restart

\* A restart that cannot have its thread drops the process it stops.
LEMMA RestartRefusedKeeps ==
    ASSUME SidecarInv, NEW a \in Askers, RestartRefused(a)
    PROVE  SidecarInv'
<1> USE NoProcApart DEF SidecarInv, RestartRefused
<1>0. /\ procs' \in Procs
      /\ \A q \in Numbers : /\ q # life.proc => procs'[q] = procs[q]
                            /\ q = life.proc => procs'[q] \in {"left", "dead"}
  <2>1. life.proc \in Slot /\ procs' \in {Died(procs, life.proc), Left(procs, life.proc)}
    BY DEF SidecarTypes, StopProcess
  <2> QED BY <2>1, OneEnds DEF SidecarTypes
<1>1. SidecarTypes'
  BY <1>0 DEF Restartable, SetFailed, Fresh, SidecarTypes, Phases, Slot, SupAt, WorkerAt, CloserAt
<1>2. HoldsInPlace'
  BY <1>0 DEF Restartable, SetFailed, Fresh, HoldsInPlace, SidecarTypes
<1>3. StartedOnce'
  BY <1>0, SMTT(60) DEF Restartable, SetFailed, Fresh, StartedOnce, HoldsInPlace, SidecarTypes, HeldApart
<1>4. RestartHasLife'
  BY <1>0 DEF Restartable, SetFailed, Fresh, RestartHasLife, Busy, SidecarTypes, HoldsInPlace
<1>5. HeldApart'
  BY <1>0, SMTT(60) DEF Restartable, SetFailed, Fresh, HeldApart, HoldsInPlace, RestartHasLife, Busy, StartedOnce, SidecarTypes
<1>6. LiveIsHeld'
  BY <1>0, SMTT(60) DEF Restartable, SetFailed, Fresh, LiveIsHeld, Lives, HoldsInPlace, SidecarTypes, RestartHasLife, Busy, StartedOnce
<1> QED BY <1>1, <1>2, <1>3, <1>4, <1>5, <1>6

\* The restart's thread stops what was claimed,
LEMMA StopClaimedKeeps ==
    ASSUME SidecarInv, NEW n \in Numbers, StopClaimed(n)
    PROVE  SidecarInv'
<1> USE NoProcApart DEF SidecarInv, StopClaimed
<1>0. /\ procs' \in Procs
      /\ \A q \in Numbers : /\ q # workers[n].proc => procs'[q] = procs[q]
                            /\ q = workers[n].proc => procs'[q] \in {"left", "dead"}
  <2>1. workers[n].proc \in Slot /\ procs' \in {Died(procs, workers[n].proc), Left(procs, workers[n].proc)}
    BY DEF SidecarTypes, StopProcess
  <2> QED BY <2>1, OneEnds DEF SidecarTypes
<1>1. SidecarTypes'
  BY <1>0 DEF Worked, Thread, SidecarTypes, Slot, WorkerAt
<1>2. HoldsInPlace'
  BY <1>0 DEF Worked, Thread, HoldsInPlace, SidecarTypes
<1>3. StartedOnce'
  BY <1>0, SMTT(60) DEF Worked, Thread, StartedOnce, HoldsInPlace, SidecarTypes, HeldApart
<1>4. RestartHasLife'
  BY <1>0, SMTT(60) DEF Worked, Thread, RestartHasLife, Busy, SidecarTypes, HoldsInPlace
<1>5. HeldApart'
  BY <1>0, SMTT(60) DEF Worked, Thread, HeldApart, HoldsInPlace, RestartHasLife, Busy, StartedOnce, SidecarTypes
<1>6. LiveIsHeld'
  BY <1>0, SMTT(60) DEF Worked, Thread, LiveIsHeld, Lives, HoldsInPlace, SidecarTypes, RestartHasLife, Busy, StartedOnce
<1> QED BY <1>1, <1>2, <1>3, <1>4, <1>5, <1>6

\* finishes the shutdown,
LEMMA FinishRestartKeeps ==
    ASSUME SidecarInv, NEW n \in Numbers, FinishRestart(n)
    PROVE  SidecarInv'
<1> USE NoProcApart DEF SidecarInv, FinishRestart
<1>1. SidecarTypes'
  BY DEF Worked, Thread, FinishShutdown, SidecarTypes, Phases, Slot, SupAt, WorkerAt, CloserAt
<1>2. HoldsInPlace'
  BY DEF Worked, Thread, FinishShutdown, HoldsInPlace, SidecarTypes
<1>3. StartedOnce'
  BY SMTT(60) DEF Worked, Thread, FinishShutdown, StartedOnce, HoldsInPlace, SidecarTypes, HeldApart
<1>4. RestartHasLife'
  BY SMTT(60) DEF Worked, Thread, FinishShutdown, RestartHasLife, Busy, SidecarTypes, HoldsInPlace
<1>5. HeldApart'
  BY SMTT(60) DEF Worked, Thread, FinishShutdown, HeldApart, HoldsInPlace, RestartHasLife, Busy, StartedOnce, SidecarTypes
<1>6. LiveIsHeld'
  BY SMTT(60) DEF Worked, Thread, FinishShutdown, LiveIsHeld, Lives, HoldsInPlace, SidecarTypes, RestartHasLife, Busy, StartedOnce
<1> QED BY <1>1, <1>2, <1>3, <1>4, <1>5, <1>6

\* resets the lifecycle, whose slot is empty,
LEMMA ResetKeeps ==
    ASSUME SidecarInv, NEW n \in Numbers, Reset(n)
    PROVE  SidecarInv'
<1> USE NoProcApart DEF SidecarInv, Reset
<1>1. SidecarTypes'
  BY DEF Worked, Thread, Fresh, SidecarTypes, Phases, Slot, SupAt, WorkerAt, CloserAt
<1>2. HoldsInPlace'
  BY DEF Worked, Thread, Fresh, HoldsInPlace, SidecarTypes
<1>3. StartedOnce'
  BY SMTT(60) DEF Worked, Thread, Fresh, StartedOnce, HoldsInPlace, SidecarTypes, HeldApart
<1>4. RestartHasLife'
  BY SMTT(60) DEF Worked, Thread, Fresh, RestartHasLife, Busy, SidecarTypes, HoldsInPlace
<1>5. HeldApart'
  BY SMTT(60) DEF Worked, Thread, Fresh, HeldApart, HoldsInPlace, RestartHasLife, Busy, StartedOnce, SidecarTypes
<1>6. LiveIsHeld'
  BY SMTT(60) DEF Worked, Thread, Fresh, LiveIsHeld, Lives, HoldsInPlace, SidecarTypes, RestartHasLife, Busy, StartedOnce
<1> QED BY <1>1, <1>2, <1>3, <1>4, <1>5, <1>6

\* and launches the next supervisor.
LEMMA LaunchKeeps ==
    ASSUME SidecarInv, NEW n \in Numbers, Launch(n)
    PROVE  SidecarInv'
<1> USE NoProcApart DEF SidecarInv, Launch
<1>1. SidecarTypes'
  BY SMTT(60) DEF Worked, Moved, Thread, Over, SetFailed, SidecarTypes, Phases, Slot, SupAt, WorkerAt, CloserAt
<1>2. HoldsInPlace'
  BY SMTT(60) DEF Worked, Moved, Thread, Over, SetFailed, HoldsInPlace, SidecarTypes
<1>3. StartedOnce'
  BY SMTT(60) DEF Worked, Moved, Thread, Over, SetFailed, StartedOnce, HoldsInPlace, SidecarTypes, HeldApart
<1>4. RestartHasLife'
  BY SMTT(60) DEF Worked, Moved, Thread, Over, SetFailed, RestartHasLife, Busy, SidecarTypes, HoldsInPlace
<1>5. HeldApart'
  BY SMTT(60) DEF Worked, Moved, Thread, Over, SetFailed, HeldApart, HoldsInPlace, RestartHasLife, Busy, StartedOnce, SidecarTypes
<1>6. LiveIsHeld'
  BY SMTT(60) DEF Worked, Moved, Thread, Over, SetFailed, LiveIsHeld, Lives, HoldsInPlace, SidecarTypes, RestartHasLife, Busy, StartedOnce
<1> QED BY <1>1, <1>2, <1>3, <1>4, <1>5, <1>6

\* The exit claims the process unless a shutdown is under way,
LEMMA ClaimForExitKeeps ==
    ASSUME SidecarInv, ClaimForExit
    PROVE  SidecarInv'
<1> USE NoProcApart DEF SidecarInv, ClaimForExit
<1>1. SidecarTypes'
  BY SMTT(60) DEF Thread, Claimed, SidecarTypes, Phases, Slot, SupAt, WorkerAt, CloserAt
<1>2. HoldsInPlace'
  BY SMTT(60) DEF Thread, Claimed, HoldsInPlace, SidecarTypes
<1>3. StartedOnce'
  BY SMTT(60) DEF Thread, Claimed, StartedOnce, HoldsInPlace, SidecarTypes, HeldApart
<1>4. RestartHasLife'
  BY DEF Thread, Claimed, RestartHasLife, Busy, SidecarTypes, HoldsInPlace
<1>5. HeldApart'
  BY SMTT(60) DEF Thread, Claimed, HeldApart, HoldsInPlace, RestartHasLife, Busy, StartedOnce, SidecarTypes
<1>6. LiveIsHeld'
  BY SMTT(60) DEF Thread, Claimed, LiveIsHeld, Lives, HoldsInPlace, SidecarTypes, RestartHasLife, Busy, StartedOnce
<1> QED BY <1>1, <1>2, <1>3, <1>4, <1>5, <1>6

\* and stops it,
LEMMA StopForExitKeeps ==
    ASSUME SidecarInv, StopForExit
    PROVE  SidecarInv'
<1> USE NoProcApart DEF SidecarInv, StopForExit
<1>0. /\ procs' \in Procs
      /\ \A q \in Numbers : /\ q # closer.proc => procs'[q] = procs[q]
                            /\ q = closer.proc => procs'[q] \in {"left", "dead"}
  <2>1. closer.proc \in Slot /\ procs' \in {Died(procs, closer.proc), Left(procs, closer.proc)}
    BY DEF SidecarTypes, StopProcess
  <2> QED BY <2>1, OneEnds DEF SidecarTypes
<1>1. SidecarTypes'
  BY <1>0 DEF Thread, SidecarTypes, Phases, Slot, SupAt, WorkerAt, CloserAt
<1>2. HoldsInPlace'
  BY <1>0 DEF Thread, HoldsInPlace, SidecarTypes
<1>3. StartedOnce'
  BY <1>0, SMTT(60) DEF Thread, StartedOnce, HoldsInPlace, SidecarTypes, HeldApart
<1>4. RestartHasLife'
  BY <1>0 DEF Thread, RestartHasLife, Busy, SidecarTypes, HoldsInPlace
<1>5. HeldApart'
  BY <1>0, SMTT(60) DEF Thread, HeldApart, HoldsInPlace, RestartHasLife, Busy, StartedOnce, SidecarTypes
<1>6. LiveIsHeld'
  BY <1>0, SMTT(60) DEF Thread, LiveIsHeld, Lives, HoldsInPlace, SidecarTypes, RestartHasLife, Busy, StartedOnce
<1> QED BY <1>1, <1>2, <1>3, <1>4, <1>5, <1>6

\* and finishes.
LEMMA FinishExitKeeps ==
    ASSUME SidecarInv, FinishExit
    PROVE  SidecarInv'
<1> USE NoProcApart DEF SidecarInv, FinishExit
<1>1. SidecarTypes'
  BY DEF Thread, FinishShutdown, SidecarTypes, Phases, Slot, SupAt, WorkerAt, CloserAt
<1>2. HoldsInPlace'
  BY DEF Thread, FinishShutdown, HoldsInPlace, SidecarTypes
<1>3. StartedOnce'
  BY SMTT(60) DEF Thread, FinishShutdown, StartedOnce, HoldsInPlace, SidecarTypes, HeldApart
<1>4. RestartHasLife'
  BY DEF Thread, FinishShutdown, RestartHasLife, Busy, SidecarTypes, HoldsInPlace
<1>5. HeldApart'
  BY SMTT(60) DEF Thread, FinishShutdown, HeldApart, HoldsInPlace, RestartHasLife, Busy, StartedOnce, SidecarTypes
<1>6. LiveIsHeld'
  BY SMTT(60) DEF Thread, FinishShutdown, LiveIsHeld, Lives, HoldsInPlace, SidecarTypes, RestartHasLife, Busy, StartedOnce
<1> QED BY <1>1, <1>2, <1>3, <1>4, <1>5, <1>6

\* and leaves, with nobody and nothing to hold.
LEMMA LeaveKeeps ==
    ASSUME SidecarInv, ExitEmpties, Leave
    PROVE  SidecarInv'
<1> USE NoProcApart DEF SidecarInv, Leave
<1>1. life.proc = NoProc /\ UNCHANGED life
  BY DEF ExitEmpties
<1>2. /\ \A n \in Numbers : /\ sups'[n].at = "over" /\ sups'[n].proc = NoProc
                            /\ workers'[n].at = "over" /\ workers'[n].proc = NoProc
      /\ closer'.at = "over" /\ closer'.proc = NoProc
  BY DEF Over, Thread
<1>3. SidecarTypes'
  BY SMTT(60) DEF SidecarTypes, Over, Thread, SupAt, WorkerAt, CloserAt, Slot, Lives
<1>4. HoldsInPlace' /\ StartedOnce' /\ RestartHasLife' /\ HeldApart'
  BY <1>1, <1>2, SMTT(60) DEF HoldsInPlace, StartedOnce, RestartHasLife, HeldApart, Busy
<1>5. LiveIsHeld'
  BY SMTT(60) DEF LiveIsHeld, Lives, SidecarTypes
<1> QED BY <1>3, <1>4, <1>5

\* The other steps of a supervisor hold nothing.
LEMMA SuperviseKeeps ==
    ASSUME SidecarInv, NEW n \in Numbers, Supervise(n) \/ WaitTimesOut(n)
    PROVE  SidecarInv'
<1>1. CASE WaitReady(n) \/ WaitTimesOut(n) \/ MarkReady(n) \/ MarkFailed(n) \/ Watch(n) \/ Report(n)
  <2>1. /\ sups[n].at \in {"wait", "serve", "fail", "watch", "report", "explain"}
        /\ \E at \in {"over", "fail", "serve", "watch", "ask", "report"} :
              sups' = [sups EXCEPT ![n] = Thread(at, NoProc)]
        /\ life' \in {life, SetReady(life), SetFailed(life)}
        /\ UNCHANGED <<procs, exiting, workers, closer>>
    BY <1>1 DEF WaitReady, WaitTimesOut, MarkReady, MarkFailed, Watch, Report, Moved, Over
  <2> QED BY <2>1, SupervisorMoves DEF SupAt
<1> QED BY <1>1, SpawnKeeps, CommitKeeps, StopOwnKeeps, RequestOwnedShutdownKeeps DEF Supervise

\* Every step keeps the invariant.
LEMMA SidecarStep ==
    ASSUME SidecarInv, ExitEmpties, [SidecarNext]_sideVars
    PROVE  SidecarInv'
<1>0. /\ procs \in Procs
      /\ \A p \in Numbers : procs[p] \in {"alive", "serving"} => Lives(p)
      /\ exiting \in {"running", "cleaning", "allowed", "left"}
      /\ closer \in [at : CloserAt, proc : Slot]
      /\ closer.at # "stop" => closer.proc = NoProc
      /\ exiting = "running" => closer.at = "none"
  BY NoProcApart DEF SidecarInv, SidecarTypes, HoldsInPlace, Lives
<1>1. ASSUME UNCHANGED <<life, procs, exiting, sups, workers, closer>> PROVE SidecarInv'
  BY <1>0, <1>1, HoldingsKept
<1>2. ASSUME NEW n \in Numbers, Serve(n) \/ Crash(n) \/ End(n) PROVE SidecarInv'
  <2>1. /\ procs[n] \in {"alive", "serving", "left"} /\ UNCHANGED <<life, exiting, sups, workers, closer>>
        /\ \E s \in {"serving", "dead"} :
              procs' = [procs EXCEPT ![n] = s] /\ (s = "serving" => procs[n] = "alive")
    BY <1>2 DEF Serve, Crash, End, Lives
  <2>2. /\ procs' \in Procs
        /\ \A p \in Numbers : /\ (procs'[p] = "none") <=> (procs[p] = "none")
                              /\ procs'[p] \in {"alive", "serving"} => Lives(p)
    BY <1>0, <2>1
  <2> QED BY <1>0, <2>1, <2>2, HoldingsKept
<1>3. CASE RequestExit
  <2>1. /\ UNCHANGED <<life, procs, sups, workers>> /\ exiting' = "cleaning"
        /\ closer' = [at |-> "claim", proc |-> NoProc]
    BY <1>3 DEF RequestExit, Thread
  <2>2. closer.proc = NoProc
    BY <1>0, <1>3 DEF RequestExit
  <2> QED BY <1>0, <2>1, <2>2, HoldingsKept DEF CloserAt, Slot
<1>4. CASE AllowExit
  <2>1. /\ UNCHANGED <<life, procs, sups, workers>> /\ exiting' = "allowed"
        /\ closer' = [at |-> "leave", proc |-> NoProc] /\ closer.proc = NoProc
    BY <1>0, <1>4 DEF AllowExit, Thread
  <2> QED BY <1>0, <2>1, HoldingsKept DEF CloserAt, Slot
<1>5. CASE \E n \in Numbers : RestartStep(n)
  BY <1>5, StopClaimedKeeps, FinishRestartKeeps, ResetKeeps, LaunchKeeps DEF RestartStep
<1>6. CASE ExitStep
  BY <1>4, <1>6, ClaimForExitKeeps, StopForExitKeeps, FinishExitKeeps, LeaveKeeps DEF ExitStep
<1>7. ASSUME \/ UNCHANGED sideVars \/ Poll \/ PollArrives
             \/ \E a \in Askers : WaitRestart(a) \/ WaitRestartTimesOut(a)
      PROVE  SidecarInv'
  BY <1>1, <1>7 DEF sideVars, Poll, PollArrives, WaitRestart, WaitRestartTimesOut
<1>8. CASE \E a \in Askers : Restart(a) \/ RestartRefused(a)
  BY <1>8, RestartKeeps, RestartRefusedKeeps
<1>9. CASE \E n \in Numbers : Supervise(n) \/ WaitTimesOut(n)
  BY <1>9, SuperviseKeeps
<1> QED BY <1>2, <1>3, <1>5, <1>6, <1>7, <1>8, <1>9 DEF SidecarNext

\* A step that keeps the phase and the exit as they are and puts nothing new into
\* the slot keeps the exit's invariant.
LEMMA SlotKept ==
    ASSUME ExitEmpties, UNCHANGED <<exiting, closer>>,
           life'.proc \in {life.proc, NoProc},
           life'.phase \in {"stopping", "stopped"} => life'.proc = NoProc \/ life'.phase = life.phase
    PROVE  ExitEmpties'
BY DEF ExitEmpties

LEMMA ExitStarts == SidecarInit => ExitEmpties
BY SMTT(60) DEF SidecarInit, ExitEmpties, Fresh, NoThread, Thread

\* Every step leaves the slot as the exit needs it.
LEMMA ExitStepKeeps ==
    ASSUME SidecarInv, ExitEmpties, [SidecarNext]_sideVars
    PROVE  ExitEmpties'
<1>1. ASSUME UNCHANGED <<life, exiting, closer>> PROVE ExitEmpties'
  BY <1>1 DEF ExitEmpties
<1>2. ASSUME NEW n \in Numbers, Commit(n) PROVE ExitEmpties'
  <2>1. CASE MayCommit(life)
    <3>1. exiting = "running" /\ UNCHANGED <<exiting, closer>> /\ life'.phase = "running"
      BY <1>2, <2>1, SMTT(60) DEF Commit, MayCommit
    <3> QED BY <3>1 DEF ExitEmpties
  <2>2. CASE ~MayCommit(life)
    BY <1>1, <1>2, <2>2 DEF Commit
  <2> QED BY <2>1, <2>2
<1>3. ASSUME NEW n \in Numbers, MarkReady(n) \/ MarkFailed(n) \/ Report(n) PROVE ExitEmpties'
  <2>1. /\ UNCHANGED <<exiting, closer>> /\ life' \in {life, SetReady(life), SetFailed(life)}
    BY <1>3 DEF MarkReady, MarkFailed, Report
  <2>2. life'.proc = life.proc /\ (life'.phase = life.phase \/ life'.phase \in {"ready", "failed"})
    BY <2>1 DEF SetReady, SetFailed, SidecarInv, SidecarTypes
  <2> QED BY <2>1, <2>2, SlotKept
<1>4. ASSUME NEW n \in Numbers,
             Spawn(n) \/ StopOwn(n) \/ WaitReady(n) \/ RequestOwnedShutdown(n) \/ Watch(n) \/ WaitTimesOut(n)
             \/ StopClaimed(n) \/ Serve(n) \/ Crash(n) \/ End(n)
      PROVE  ExitEmpties'
  <2>1. UNCHANGED <<life, exiting, closer>>
    BY <1>4 DEF Spawn, StopOwn, WaitReady, RequestOwnedShutdown, Watch, WaitTimesOut, StopClaimed, Serve, Crash, End
  <2> QED BY <1>1, <2>1
<1>5. ASSUME NEW n \in Numbers, FinishRestart(n) \/ Reset(n) \/ Launch(n) PROVE ExitEmpties'
  <2>1. UNCHANGED <<exiting, closer>> /\ life' \in {FinishShutdown(life), Fresh, life, SetFailed(life)}
    BY <1>5 DEF FinishRestart, Reset, Launch
  <2>2. /\ life'.proc \in {life.proc, NoProc}
        /\ life'.phase \in {"stopping", "stopped"} => life'.proc = NoProc
    BY <2>1, SMTT(60) DEF FinishShutdown, Fresh, SetFailed, ExitEmpties, SidecarInv, SidecarTypes
  <2> QED BY <2>1, <2>2, SlotKept
<1>6. ASSUME NEW a \in Askers, Restart(a) \/ RestartRefused(a) PROVE ExitEmpties'
  <2>1. UNCHANGED <<exiting, closer>> /\ (life' \in {life, Claimed} \/ life' = SetFailed(Fresh))
    BY <1>6 DEF Restart, RestartRefused
  <2>2. /\ life'.proc \in {life.proc, NoProc}
        /\ life'.phase \in {"stopping", "stopped"} => life'.proc = NoProc
    BY <2>1, SMTT(60) DEF Claimed, Fresh, SetFailed, ExitEmpties
  <2> QED BY <2>1, <2>2, SlotKept
<1>7. ASSUME ExitStep \/ RequestExit PROVE ExitEmpties'
  <2>1. SidecarTypes /\ HoldsInPlace
    BY DEF SidecarInv
  <2>2. CASE RequestExit
    BY <2>2 DEF RequestExit, ExitEmpties, Thread
  <2>3. CASE ClaimForExit
    BY <2>1, <2>3, SMTT(60) DEF ClaimForExit, ExitEmpties, Thread, Claimed, HoldsInPlace
  <2>4. CASE StopForExit
    BY <2>4 DEF StopForExit, ExitEmpties, Thread
  <2>5. CASE FinishExit
    BY <2>1, <2>5, SMTT(60) DEF FinishExit, ExitEmpties, Thread, FinishShutdown, SidecarTypes
  <2>6. CASE AllowExit \/ Leave
    BY <2>6, SMTT(60) DEF AllowExit, Leave, ExitEmpties, Thread, Over
  <2> QED BY <1>7, <2>2, <2>3, <2>4, <2>5, <2>6 DEF ExitStep
<1>8. ASSUME \/ UNCHANGED sideVars \/ Poll \/ PollArrives
             \/ \E a \in Askers : WaitRestart(a) \/ WaitRestartTimesOut(a)
      PROVE  ExitEmpties'
  BY <1>1, <1>8 DEF sideVars, Poll, PollArrives, WaitRestart, WaitRestartTimesOut
<1> QED BY <1>2, <1>3, <1>4, <1>5, <1>6, <1>7, <1>8 DEF SidecarNext, Supervise, RestartStep

\* The shell keeps the invariant through any restarts, exits, crashes and reloads.
THEOREM SidecarInvariance == SidecarSpec => [](SidecarInv /\ ExitEmpties)
BY SidecarStarts, ExitStarts, SidecarStep, ExitStepKeeps, PTL DEF SidecarSpec

\* main.rs: every live backend process has exactly one owner who will stop it until
\* it is given up, and the exit gives none up, for any number of restarts, exits,
\* failures and crashes.
THEOREM SingleHolder == SidecarSpec => []OneHolder
BY SidecarInvariance, OneHolderFollows, PTL

(***************************************************************************)
(* The page that waits for a restart.                                       *)
(***************************************************************************)
GatePhases == {"starting", "ready", "lost", "failed", "closed"}

\* A page that waits for a restart has been opened before, and what it saw
\* claimed is past its supervisor's hands and never in the slot again.
GateInv ==
    /\ gate \in [phase : GatePhases, asked : SUBSET {"yes", "error", "no"},
                 busy : [Askers -> BOOLEAN], since : [Askers -> Slot]]
    /\ life.phase \in {"running", "ready"} => life.proc # NoProc
    /\ \A a \in Askers : gate.busy[a] =>
          /\ gate.phase # "starting"
          /\ gate.since[a] # NoProc =>
                /\ life.proc # gate.since[a]
                /\ sups[gate.since[a]].at \notin {"none", "start", "commit"}

\* A failed restart leaves the page opened, and its asker idle.
LEMMA RestartFailedGate ==
    ASSUME gate \in [phase : GatePhases, asked : SUBSET {"yes", "error", "no"},
                     busy : [Askers -> BOOLEAN], since : [Askers -> Slot]],
           NEW a \in Askers
    PROVE  LET g == RestartFailed(gate, a)
           IN  /\ g \in [phase : GatePhases, asked : SUBSET {"yes", "error", "no"},
                         busy : [Askers -> BOOLEAN], since : [Askers -> Slot]]
               /\ g.busy = [gate.busy EXCEPT ![a] = FALSE]
               /\ g.since = gate.since
               /\ gate.phase # "starting" => g.phase # "starting"
BY DEF RestartFailed, GatePhases

\* The shell's own steps take nothing back: a process comes into the slot once,
\* from its supervisor.
LEMMA ShellStepsOn ==
    ASSUME SidecarInv, [SidecarNext]_sideVars
    PROVE  /\ \A p \in Numbers :
                 sups[p].at \notin {"none", "start", "commit"} => sups'[p].at \notin {"none", "start", "commit"}
           /\ \/ life'.proc \in {life.proc, NoProc}
              \/ life'.proc \in Numbers /\ sups[life'.proc].at = "commit"
           /\ \/ life'.phase \notin {"running", "ready"}
              \/ life'.phase = life.phase /\ life'.proc = life.proc
              \/ life.phase = "running" /\ life'.proc = life.proc
              \/ life'.proc \in Numbers
<1> DEFINE Later == {"none", "start", "commit"}
           P == /\ \A p \in Numbers : sups[p].at \notin Later => sups'[p].at \notin Later
                /\ \/ life'.proc \in {life.proc, NoProc}
                   \/ life'.proc \in Numbers /\ sups[life'.proc].at = "commit"
                /\ \/ life'.phase \notin {"running", "ready"}
                   \/ life'.phase = life.phase /\ life'.proc = life.proc
                   \/ life.phase = "running" /\ life'.proc = life.proc
                   \/ life'.proc \in Numbers
<1> USE DEF SidecarInv, SidecarTypes
<1>1. ASSUME UNCHANGED <<life, sups>> PROVE P
  BY <1>1
<1>2. ASSUME NEW n \in Numbers, Spawn(n) PROVE P
  BY <1>2 DEF Spawn, Moved, Thread, Over
<1>3. ASSUME NEW n \in Numbers, Commit(n) PROVE P
  <2>1. sups[n].proc = n /\ sups[n].at = "commit"
    BY <1>3 DEF HoldsInPlace, Commit
  <2>2. /\ \A p \in Numbers : p # n => sups'[p] = sups[p]
        /\ life' = life \/ life' = [phase |-> "running", proc |-> n]
    BY <1>3, <2>1 DEF Commit, Moved
  <2>3. CASE life' = life
    BY <2>1, <2>2, <2>3
  <2>4. CASE life' = [phase |-> "running", proc |-> n]
    BY <2>1, <2>2, <2>4
  <2> QED BY <2>2, <2>3, <2>4
<1>4. ASSUME NEW n \in Numbers, StopOwn(n) \/ RequestOwnedShutdown(n) PROVE P
  BY <1>4, SMTT(60) DEF StopOwn, RequestOwnedShutdown, Moved, Thread, Over
<1>5. ASSUME NEW n \in Numbers, WaitReady(n) \/ WaitTimesOut(n) \/ Watch(n) PROVE P
  BY <1>5, SMTT(60) DEF WaitReady, WaitTimesOut, Watch, Moved, Thread, Over
<1>6. ASSUME NEW n \in Numbers, MarkReady(n) \/ MarkFailed(n) \/ Report(n) PROVE P
  BY <1>6, SMTT(60) DEF MarkReady, MarkFailed, Report, SetReady, SetFailed, Moved, Thread, Over
<1>7. ASSUME NEW n \in Numbers, StopClaimed(n) \/ FinishRestart(n) \/ Reset(n) PROVE P
  BY <1>7, SMTT(60) DEF StopClaimed, FinishRestart, Reset, FinishShutdown, Fresh
<1>8. ASSUME NEW n \in Numbers, Launch(n) PROVE P
  <2>1. sups[n].at = "none"
    BY <1>8 DEF Launch, StartedOnce
  <2> QED BY <1>8, <2>1 DEF Launch, Moved, Thread, SetFailed
<1>9. ASSUME NEW a \in Askers, Restart(a) \/ RestartRefused(a) PROVE P
  BY <1>9, SMTT(60) DEF Restart, RestartRefused, Claimed, SetFailed, Fresh
<1>10. ASSUME ExitStep PROVE P
  BY <1>10, SMTT(60) DEF ExitStep, ClaimForExit, StopForExit, FinishExit, AllowExit, Leave, Over, Thread, Claimed, FinishShutdown
<1>11. ASSUME \/ UNCHANGED sideVars \/ RequestExit \/ Poll \/ PollArrives
              \/ \E n \in Numbers : Serve(n) \/ Crash(n) \/ End(n)
              \/ \E a \in Askers : WaitRestart(a) \/ WaitRestartTimesOut(a)
       PROVE  P
  <2>1. UNCHANGED <<life, sups>>
    BY <1>11 DEF sideVars, RequestExit, Poll, PollArrives, Serve, Crash, End, WaitRestart, WaitRestartTimesOut
  <2> QED BY <1>1, <2>1
<1> HIDE DEF P
<1>12. P
  BY <1>2, <1>3, <1>4, <1>5, <1>6, <1>7, <1>8, <1>9, <1>10, <1>11
  DEF SidecarNext, Supervise, RestartStep
<1> QED BY <1>12 DEF P

\* What the page does to its gate: nothing, an opening, a failure, a poll.
LEMMA GateMoves ==
    ASSUME SidecarInv, GateInv, [SidecarNext]_sideVars
    PROVE  \/ UNCHANGED gate
           \/ gate' = PageGone
           \/ gate' = Boot /\ life.phase = "ready" /\ UNCHANGED <<life, sups>>
           \/ \E a \in Askers : gate' = RestartFailed(gate, a)
           \/ \E a \in Askers :
                 /\ RestartOffered(a) /\ life' = Claimed
                 /\ gate' = [gate EXCEPT !.busy[a] = TRUE, !.since[a] = life.proc]
           \/ \E r \in {"yes", "error", "no"} : gate' = [gate EXCEPT !.asked = {r}]
           \/ PollArrives
<1>1. ASSUME NEW n \in Numbers,
             Supervise(n) \/ WaitTimesOut(n) \/ RestartStep(n) \/ Serve(n) \/ Crash(n) \/ End(n)
      PROVE  UNCHANGED gate
  BY <1>1 DEF Supervise, Spawn, Commit, StopOwn, WaitReady, MarkReady, MarkFailed,
     RequestOwnedShutdown, Watch, Report, WaitTimesOut, RestartStep, StopClaimed, FinishRestart,
     Reset, Launch, Serve, Crash, End
<1>2. ASSUME RequestExit \/ ExitStep \/ UNCHANGED sideVars PROVE UNCHANGED gate \/ gate' = PageGone
  BY <1>2 DEF RequestExit, ExitStep, ClaimForExit, StopForExit, FinishExit, AllowExit, Leave, sideVars
<1>3. ASSUME NEW a \in Askers, Restart(a)
      PROVE  \/ gate' = RestartFailed(gate, a)
             \/ /\ RestartOffered(a) /\ life' = Claimed
                /\ gate' = [gate EXCEPT !.busy[a] = TRUE, !.since[a] = life.proc]
  BY <1>3 DEF Restart
<1>4. ASSUME NEW a \in Askers, RestartRefused(a) \/ WaitRestartTimesOut(a)
      PROVE  gate' = RestartFailed(gate, a)
  BY <1>4 DEF RestartRefused, WaitRestartTimesOut
<1>5. ASSUME NEW a \in Askers, WaitRestart(a)
      PROVE  \/ gate' = Boot /\ life.phase = "ready" /\ UNCHANGED <<life, sups>>
             \/ gate' = RestartFailed(gate, a)
  BY <1>5 DEF WaitRestart, Readiness
<1>6. ASSUME Poll PROVE \E r \in {"yes", "error", "no"} : gate' = [gate EXCEPT !.asked = {r}]
  BY <1>6 DEF Poll, Readiness
<1> QED BY <1>1, <1>2, <1>3, <1>4, <1>5, <1>6 DEF SidecarNext

LEMMA GateStarts == SidecarInit => GateInv
BY SMTT(60) DEF SidecarInit, GateInv, Boot, Page, Fresh, GatePhases, Slot

\* Every step keeps the gate's invariant.
LEMMA GateStep ==
    ASSUME SidecarInv, GateInv, [SidecarNext]_sideVars
    PROVE  GateInv'
<1> DEFINE Gates == [phase : GatePhases, asked : SUBSET {"yes", "error", "no"},
                     busy : [Askers -> BOOLEAN], since : [Askers -> Slot]]
           Waits(g, a) == g.busy[a] => g.phase # "starting" /\ g.since[a] = gate.since[a] /\ gate.busy[a]
<1>0. gate \in Gates
  BY DEF GateInv
<1>1. life'.phase \in {"running", "ready"} => life'.proc # NoProc
  BY ShellStepsOn, NoProcApart DEF GateInv
\* An asker that waited before is still right about what it saw claimed.
<1>2. ASSUME NEW a \in Askers, gate.busy[a], gate.since[a] # NoProc
      PROVE  /\ life'.proc # gate.since[a]
             /\ sups'[gate.since[a]].at \notin {"none", "start", "commit"}
  <2>1. gate.since[a] \in Numbers
    BY <1>0, <1>2 DEF Slot
  <2> QED BY <1>2, <2>1, ShellStepsOn DEF GateInv
<1>3. ASSUME gate' \in Gates, \A a \in Askers : Waits(gate', a) PROVE GateInv'
  BY <1>1, <1>2, <1>3 DEF GateInv
<1>4. CASE UNCHANGED gate
  BY <1>0, <1>3, <1>4 DEF GateInv
<1>5. CASE gate' = Boot \/ gate' = PageGone
  <2>1. CASE gate' = Boot
    BY <1>3, <2>1 DEF Boot, Page, GatePhases, Slot
  <2>2. CASE gate' = PageGone
    BY <1>3, <2>2 DEF PageGone, Page, GatePhases, Slot
  <2> QED BY <1>5, <2>1, <2>2
<1>6. ASSUME NEW a \in Askers, gate' = RestartFailed(gate, a) PROVE GateInv'
  <2>1. /\ gate' \in Gates /\ gate'.busy = [gate.busy EXCEPT ![a] = FALSE]
        /\ gate'.since = gate.since
        /\ gate.phase # "starting" => gate'.phase # "starting"
    BY <1>0, <1>6, RestartFailedGate
  <2>2. \A b \in Askers : Waits(gate', b)
    BY <1>0, <2>1 DEF GateInv
  <2> QED BY <1>3, <2>1, <2>2
<1>7. ASSUME NEW a \in Askers, RestartOffered(a), life' = Claimed,
             gate' = [gate EXCEPT !.busy[a] = TRUE, !.since[a] = life.proc]
      PROVE  GateInv'
  <2>1. life.proc \in Slot /\ gate.phase # "starting" /\ life'.proc = NoProc
    BY <1>7 DEF SidecarInv, SidecarTypes, RestartOffered, Claimed
  <2>2. /\ gate' \in Gates /\ gate'.phase = gate.phase
        /\ \A b \in Askers : /\ gate'.busy[b] = (b = a \/ gate.busy[b])
                             /\ gate'.since[b] = IF b = a THEN life.proc ELSE gate.since[b]
    BY <1>0, <1>7, <2>1
  <2>3. life.proc # NoProc => sups[life.proc].at \notin {"none", "start", "commit"}
    BY <2>1, NoProcApart DEF SidecarInv, HeldApart, HoldsInPlace, StartedOnce, Slot
  <2>4. life.proc # NoProc => sups'[life.proc].at \notin {"none", "start", "commit"}
    BY <2>1, <2>3, ShellStepsOn DEF Slot
  <2> QED BY <1>1, <1>2, <2>1, <2>2, <2>4, SMTT(60) DEF GateInv
<1>8. ASSUME NEW r \in {"yes", "error", "no"}, gate' = [gate EXCEPT !.asked = {r}] PROVE GateInv'
  <2>1. gate' \in Gates /\ gate'.busy = gate.busy /\ gate'.since = gate.since /\ gate'.phase = gate.phase
    BY <1>0, <1>8
  <2> QED BY <1>3, <2>1 DEF GateInv
<1>9. CASE PollArrives
  <2>1. PICK r \in gate.asked :
           gate' = [gate EXCEPT !.asked = {},
                       !.phase = CASE r = "error" -> IF @ = "starting" THEN "failed" ELSE "lost"
                                   [] r = "yes" -> "ready"
                                   [] OTHER -> @]
    BY <1>9 DEF PollArrives
  <2>2. /\ gate' \in Gates /\ gate'.busy = gate.busy /\ gate'.since = gate.since
        /\ gate.phase # "starting" => gate'.phase # "starting"
    BY <1>0, <2>1 DEF GatePhases
  <2> QED BY <1>3, <2>2 DEF GateInv
<1> QED BY <1>4, <1>5, <1>6, <1>7, <1>8, <1>9, GateMoves

\* waitForDesktopRestart: a page reloaded after a restart finds a backend in
\* place, never the process that the restart claimed.
THEOREM ReloadedIntoNew == SidecarSpec => ReloadsIntoNew
<1> DEFINE Reload == \A a \in Askers :
             gate.busy[a] /\ gate' = Boot => life.proc \notin {NoProc, gate.since[a]}
<1>1. SidecarInv /\ GateInv /\ [SidecarNext]_sideVars => [Reload]_sideVars
  <2> SUFFICES ASSUME SidecarInv, GateInv, [SidecarNext]_sideVars, gate' = Boot,
                      NEW a \in Askers, gate.busy[a]
               PROVE  life.proc \notin {NoProc, gate.since[a]}
    OBVIOUS
  <2>1. gate.phase # "starting" /\ gate' # gate
    BY SMTT(60) DEF GateInv, Boot, Page
  <2>2. gate'.busy = [b \in Askers |-> FALSE] /\ gate'.phase = "starting"
    BY DEF Boot, Page
  <2>8. gate' # PageGone
    BY <2>2 DEF PageGone, Boot, Page
  <2>3. CASE life.phase = "ready"
    BY <2>3 DEF GateInv
  <2>4. ASSUME NEW b \in Askers, gate' = RestartFailed(gate, b) PROVE FALSE
    BY <2>1, <2>2, <2>4, RestartFailedGate DEF GateInv
  <2>5. ASSUME NEW b \in Askers, gate' = [gate EXCEPT !.busy[b] = TRUE, !.since[b] = life.proc]
        PROVE  FALSE
    BY <2>2, <2>5 DEF GateInv
  <2>6. ASSUME NEW r, gate' = [gate EXCEPT !.asked = {r}] PROVE FALSE
    BY <2>1, <2>2, <2>6 DEF GateInv
  <2>7. CASE PollArrives
    BY <2>2, <2>7, SMTT(60) DEF PollArrives, GateInv
  <2> QED BY <2>1, <2>3, <2>4, <2>5, <2>6, <2>7, <2>8, GateMoves
<1>2. SidecarSpec => [](SidecarInv /\ GateInv)
  BY SidecarInvariance, GateStarts, GateStep, PTL DEF SidecarSpec
<1> QED BY <1>1, <1>2, PTL DEF SidecarSpec, ReloadsIntoNew
=============================================================================
