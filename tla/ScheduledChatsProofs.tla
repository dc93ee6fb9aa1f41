------------------------ MODULE ScheduledChatsProofs ------------------------
(***************************************************************************)
(* Proofs about ScheduledChats for any set of chats, any retry delay and   *)
(* any number of restarts, failing writes and refusals.                    *)
(***************************************************************************)
EXTENDS ScheduledChats, TLAPS

\* A leaf is left to Zenon unless it names SMT: most are first-order.
USE ZenonT(30)

Claiming == {"submit", "sent", "defer"}

-----------------------------------------------------------------------------
(* What the updates of the tables are.                                     *)

LEMMA LaterType ==
  ASSUME clock \in 0..MaxTime
  PROVE  Later(Retry) \in 0..MaxTime
  BY ScheduledAssumption, SMTT(60) DEF Later

LEMMA SetStatusFacts ==
  ASSUME tasks \in Table, NEW k \in Chat, NEW s \in Status, SetStatus(k, s)
  PROVE  /\ tasks' \in Table
         /\ tasks'[k].status = s
         /\ \A j \in Chat \ {k} : tasks'[j] = tasks[j]
  BY DEF SetStatus, Table

LEMMA SetTaskFacts ==
  ASSUME tasks \in Table, NEW k \in Chat, NEW t \in 0..MaxTime,
         tasks' = [tasks EXCEPT ![k] = [status |-> "pending", due |-> t]]
  PROVE  /\ tasks' \in Table
         /\ tasks'[k].status = "pending"
         /\ \A j \in Chat \ {k} : tasks'[j] = tasks[j]
  BY DEF Table, Status

\* A save makes the file equal to memory, or fails and leaves it.
LEMMA SaveFacts ==
  ASSUME disk \in Table, saveErrors \in 0..MaxSaveErrors, tasks' \in Table,
         Save \/ SaveRaises
  PROVE  /\ disk' \in Table
         /\ saveErrors' \in 0..MaxSaveErrors
         /\ disk' = tasks' \/ disk' = disk
  BY ScheduledAssumption, SMTT(60) DEF Save, SaveRaises

LEMMA GoFacts ==
  ASSUME worker \in [Worker -> WorkerRecord], NEW w \in Worker, NEW p \in WorkerPc, Go(w, p)
  PROVE  /\ worker' \in [Worker -> WorkerRecord]
         /\ worker'[w].pc = p /\ worker'[w].chat = worker[w].chat
         /\ \A v \in Worker \ {w} : worker'[v] = worker[v]
  BY DEF Go, WorkerRecord

LEMMA NextIdFacts ==
  ASSUME worker \in [Worker -> WorkerRecord], NEW w \in Worker, NextId(w) \/ LeaveSweep(w)
  PROVE  /\ worker' \in [Worker -> WorkerRecord]
         /\ worker'[w].pc \in {"wait", "claim"}
         /\ \A v \in Worker \ {w} : worker'[v] = worker[v]
  <1>1. CASE NextId(w)
    BY <1>1 DEF NextId, WorkerRecord, WorkerPc
  <1>2. CASE LeaveSweep(w)
    BY <1>2 DEF LeaveSweep, WorkerRecord, WorkerPc
  <1> QED
    BY <1>1, <1>2

\* A worker record replaced as a whole.
LEMMA SetWorkerFacts ==
  ASSUME worker \in [Worker -> WorkerRecord], NEW w \in Worker, NEW r \in WorkerRecord,
         worker' = [worker EXCEPT ![w] = r]
  PROVE  /\ worker' \in [Worker -> WorkerRecord]
         /\ worker'[w] = r
         /\ \A v \in Worker \ {w} : worker'[v] = worker[v]
  OBVIOUS

-----------------------------------------------------------------------------
(* Every step keeps the types.                                             *)

LEMMA TypeStep ==
  ASSUME TypeOK, ClaimsHold, FileBehindMemory, [Next]_vars
  PROVE  TypeOK'
  <1> USE DEF TypeOK
  <1>1. ASSUME NEW k \in Chat, Create(k)
        PROVE  TypeOK'
    <2>1. PICK t \in clock + 1..MaxTime :
            tasks' = [tasks EXCEPT ![k] = [status |-> "pending", due |-> t]]
      BY <1>1 DEF Create
    <2>2. t \in 0..MaxTime
      BY ScheduledAssumption, SMTT(60)
    <2>3. tasks' \in Table
      BY <2>1, <2>2, SetTaskFacts
    <2>4. disk' \in Table /\ saveErrors' \in 0..MaxSaveErrors
      BY <1>1, <2>3, SaveFacts DEF Create
    <2> QED
      BY <1>1, <2>3, <2>4 DEF Create
  <1>2. ASSUME NEW k \in Chat, Cancel(k)
        PROVE  TypeOK'
    <2>1. tasks' \in Table
      BY <1>2, SetStatusFacts DEF Cancel, Status
    <2>2. disk' \in Table /\ saveErrors' \in 0..MaxSaveErrors
      BY <1>2, <2>1, SaveFacts DEF Cancel
    <2>3. k \in named
      BY <1>2 DEF Cancel, FileBehindMemory
    <2> QED
      BY <1>2, <2>1, <2>2, <2>3 DEF Cancel
  <1>3. ASSUME NEW w \in Worker, RunTop(w) \/ RunClear(w) \/ SweepDone(w) \/ Wait(w)
        PROVE  TypeOK'
    <2>1. worker' \in [Worker -> WorkerRecord]
      BY <1>3, GoFacts DEF RunTop, RunClear, SweepDone, Wait, WorkerPc
    <2> QED
      BY <1>3, <2>1
      DEF RunTop, RunClear, SweepDone, Wait, serviceVars, historyVars, ledgerVars
  <1>4. ASSUME NEW w \in Worker, Sweep(w)
        PROVE  TypeOK'
    <2> DEFINE due == {k \in Chat : tasks[k].status = "pending" /\ tasks[k].due <= clock}
    <2>0. [pc |-> "claim", due |-> due, chat |-> worker[w].chat] \in WorkerRecord
      BY DEF WorkerRecord, WorkerPc
    <2>1. worker' \in [Worker -> WorkerRecord]
      BY <1>4, <2>0, SetWorkerFacts DEF Sweep
    <2> QED
      BY <1>4, <2>1 DEF Sweep, serviceVars, historyVars, ledgerVars
  <1>5. ASSUME NEW w \in Worker, NEW k \in Chat, Claim(w, k)
        PROVE  TypeOK'
    <2>1. CASE tasks[k].status # "pending"
      <3>1. worker' \in [Worker -> WorkerRecord]
        BY <1>5, <2>1, SMTT(60) DEF Claim, WorkerRecord
      <3> QED
        BY <1>5, <2>1, <3>1 DEF Claim, serviceVars, historyVars, ledgerVars
    <2>2. CASE tasks[k].status = "pending"
      <3>1. tasks' \in Table
        BY <1>5, <2>2, SetStatusFacts DEF Claim, ClaimStatus, Status
      <3>2. disk' \in Table /\ saveErrors' \in 0..MaxSaveErrors
        BY <1>5, <2>2, <3>1, SaveFacts DEF Claim
      <3>3. [pc |-> "submit", due |-> worker[w].due \ {k}, chat |-> k] \in WorkerRecord
        BY DEF WorkerRecord, WorkerPc
      <3>4. worker' \in [Worker -> WorkerRecord]
        BY <1>5, <2>2, <3>3, NextIdFacts, SetWorkerFacts DEF Claim
      <3> QED
        BY <1>5, <2>2, <3>1, <3>2, <3>4 DEF Claim, historyVars, ledgerVars
    <2> QED
      BY <2>1, <2>2
  <1>6. ASSUME NEW w \in Worker, Submit(w)
        PROVE  TypeOK'
    <2>1. Claimed(w) \in Chat /\ Claimed(w) \in named
      BY <1>6 DEF Submit, ClaimsHold, FileBehindMemory, Overwritten
    <2>2. worker' \in [Worker -> WorkerRecord]
      BY <1>6, GoFacts DEF Submit, WorkerPc
    <2>3. submitted' \in [Chat -> Nat] /\ lostAcks' \in [Chat -> Nat]
      BY <1>6, <2>1, SMTT(60) DEF Submit
    <2>4. dropped' \subseteq named' /\ refusals' \in 0..MaxRefusals
      BY <1>6, <2>1, ScheduledAssumption, SMTT(60) DEF Submit
    <2> QED
      BY <1>6, <2>2, <2>3, <2>4 DEF Submit, serviceVars
  <1>7. ASSUME NEW w \in Worker, Defer(w)
        PROVE  TypeOK'
    <2>1. Claimed(w) \in Chat /\ tasks[Claimed(w)].status = "dispatching"
      BY <1>7 DEF Defer, ClaimsHold
    <2>2. tasks' \in Table
      BY <1>7, <2>1, LaterType, SetTaskFacts DEF Defer
    <2>3. disk' \in Table /\ saveErrors' \in 0..MaxSaveErrors
      BY <1>7, <2>1, <2>2, SaveFacts DEF Defer
    <2>4. worker' \in [Worker -> WorkerRecord]
      BY <1>7, <2>1, NextIdFacts DEF Defer
    <2> QED
      BY <1>7, <2>2, <2>3, <2>4 DEF Defer, historyVars, ledgerVars
  <1>8. ASSUME NEW w \in Worker, MarkSent(w)
        PROVE  TypeOK'
    <2>1. Claimed(w) \in Chat /\ tasks[Claimed(w)].status = "dispatching"
      BY <1>8 DEF MarkSent, ClaimsHold
    <2>2. tasks' \in Table
      BY <1>8, <2>1, SetStatusFacts DEF MarkSent, Status
    <2>3. disk' \in Table /\ saveErrors' \in 0..MaxSaveErrors
      BY <1>8, <2>1, <2>2, SaveFacts DEF MarkSent
    <2>4. worker' \in [Worker -> WorkerRecord]
      BY <1>8, <2>1, NextIdFacts DEF MarkSent
    <2>5. lostAcks' \in [Chat -> Nat]
      BY <1>8, <2>1, SMTT(60) DEF MarkSent
    <2> QED
      BY <1>8, <2>2, <2>3, <2>4, <2>5 DEF MarkSent
  <1>9. ASSUME NEW w \in Worker, Start(w)
        PROVE  TypeOK'
    <2>1. worker' \in [Worker -> WorkerRecord]
      BY <1>9, GoFacts DEF Start, WorkerPc
    <2> QED
      BY <1>9, <2>1 DEF Start, serviceVars, historyVars, ledgerVars
  <1>10. CASE ShutdownBegin \/ ShutdownJoin \/ Tick \/ UNCHANGED vars
    <2>1. clock' \in 0..MaxTime
      BY <1>10, ScheduledAssumption, SMTT(60) DEF ShutdownBegin, ShutdownJoin, Tick, vars
    <2>2. UNCHANGED <<serviceVars, worker, restarts, refusals, historyVars>>
      BY <1>10 DEF ShutdownBegin, ShutdownJoin, Tick, vars, threadVars
    <2>3. /\ thread' \in Worker \cup {None}
          /\ stop' \in BOOLEAN /\ wake' \in BOOLEAN /\ phase' \in {"down", "up", "joining"}
      BY <1>10 DEF ShutdownBegin, ShutdownJoin, ThreadAfterJoin, Tick, vars, threadVars
    <2> QED
      BY <2>1, <2>2, <2>3 DEF serviceVars, historyVars, ledgerVars
  <1>11. CASE Restart
    <2>0. \A k \in Chat : Recovered(disk[k]) \in [status : Status, due : 0..MaxTime]
      BY LaterType, SMTT(60) DEF Recovered, Table, Status
    <2>1. tasks' \in Table
      <3>1. Absent \in [status : Status, due : 0..MaxTime]
        BY ScheduledAssumption, SMTT(60) DEF Absent, Status
      <3>2. CASE LoadAll
        BY <2>0, <3>2 DEF LoadAll, Table
      <3>3. CASE LoadFails
        <4>1. PICK read \in SUBSET Filed :
                tasks' = [k \in Chat |-> IF k \in read THEN Recovered(disk[k]) ELSE Absent]
          BY <3>3 DEF LoadFails
        <4>2. \A k \in Chat : (IF k \in read THEN Recovered(disk[k]) ELSE Absent)
                                 \in [status : Status, due : 0..MaxTime]
          BY <2>0, <3>1
        <4> QED
          BY <4>1, <4>2 DEF Table
      <3> QED
        BY <1>11, <3>2, <3>3 DEF Restart
    <2>2. disk' \in Table /\ saveErrors' \in 0..MaxSaveErrors
      <3>1. CASE LoadAll
        BY <2>1, <3>1, SaveFacts DEF LoadAll
      <3>2. CASE LoadFails
        BY <3>2 DEF LoadFails
      <3> QED
        BY <1>11, <3>1, <3>2 DEF Restart
    <2>7. missed' \subseteq named
      BY <1>11 DEF Restart, LoadAll, LoadFails
    <2>3. worker' \in [Worker -> WorkerRecord]
      BY <1>11 DEF Restart, Idle, WorkerRecord, WorkerPc
    <2>4. lostAcks' \in [Chat -> Nat]
      BY <1>11, SMTT(60) DEF Restart
    <2>5. restarts' \in 0..MaxRestarts
      BY <1>11, ScheduledAssumption, SMTT(60) DEF Restart
    <2>6. /\ thread' = None /\ stop' = FALSE /\ wake' = FALSE /\ phase' = "down"
          /\ unseen' = {}
          /\ UNCHANGED <<clock, refusals, submitted, named, created, cancelled, dropped>>
      BY <1>11 DEF Restart
    <2> QED
      BY <2>1, <2>2, <2>3, <2>4, <2>5, <2>6, <2>7
  <1> QED
    BY <1>1, <1>2, <1>3, <1>4, <1>5, <1>6, <1>7, <1>8, <1>9, <1>10, <1>11 DEF Next, Step

-----------------------------------------------------------------------------
(* What each step does to the tables, the workers and the counts.          *)

OthersKept(w) == \A v \in Worker \ {w} : worker'[v] = worker[v]
OtherTasksKept(k) == \A j \in Chat \ {k} : tasks'[j] = tasks[j]

LEMMA CreateFacts ==
  ASSUME TypeOK, NEW k \in Chat, Create(k)
  PROVE  /\ k \notin named /\ named' = named \cup {k}
         /\ tasks'[k].status = "pending" /\ OtherTasksKept(k)
         /\ \/ disk' = tasks' /\ created' = created \cup {k}
            \/ disk' = disk /\ created' = created
         /\ UNCHANGED <<thread, worker, submitted, lostAcks, cancelled, dropped, missed>>
  <1>1. PICK t \in clock + 1..MaxTime :
          tasks' = [tasks EXCEPT ![k] = [status |-> "pending", due |-> t]]
    BY DEF Create
  <1>2. t \in 0..MaxTime
    BY ScheduledAssumption, SMTT(60) DEF TypeOK
  <1>3. tasks'[k].status = "pending" /\ OtherTasksKept(k)
    BY <1>1, <1>2, SetTaskFacts DEF TypeOK, OtherTasksKept
  <1> QED
    BY <1>3 DEF Create, Save, SaveRaises

LEMMA CancelFacts ==
  ASSUME TypeOK, NEW k \in Chat, Cancel(k)
  PROVE  /\ tasks[k].status = "pending"
         /\ tasks'[k].status = "cancelled" /\ OtherTasksKept(k)
         /\ \/ disk' = tasks' /\ cancelled' = cancelled \cup {k} /\ dropped' = dropped
            \/ disk' = disk /\ cancelled' = cancelled /\ dropped' = dropped \cup {k}
         /\ UNCHANGED <<thread, worker, submitted, lostAcks, named, created, missed>>
  <1>1. tasks'[k].status = "cancelled" /\ OtherTasksKept(k)
    BY SetStatusFacts DEF Cancel, TypeOK, Status, OtherTasksKept
  <1> QED
    BY <1>1 DEF Cancel, Save, SaveRaises

LEMMA ClaimFacts ==
  ASSUME TypeOK, NEW w \in Worker, NEW k \in Chat, Claim(w, k), tasks[k].status = "pending"
  PROVE  /\ worker[w].pc = "claim" /\ OthersKept(w)
         /\ tasks'[k].status = "dispatching" /\ OtherTasksKept(k)
         /\ \/ disk' = tasks' /\ worker'[w].pc = "submit" /\ worker'[w].chat = k
            \/ disk' = disk /\ worker'[w].pc = "wait"
         /\ UNCHANGED <<thread, ledgerVars, missed>>
  <1>1. tasks'[k].status = "dispatching" /\ OtherTasksKept(k)
    BY SetStatusFacts DEF Claim, ClaimStatus, TypeOK, Status, OtherTasksKept
  <1>2. /\ OthersKept(w)
        /\ \/ Save /\ worker'[w].pc = "submit" /\ worker'[w].chat = k
           \/ SaveRaises /\ worker'[w].pc = "wait"
    BY SMTT(60) DEF Claim, LeaveSweep, TypeOK, OthersKept
  <1> QED
    BY <1>1, <1>2 DEF Claim, Save, SaveRaises, historyVars

LEMMA SubmitFacts ==
  ASSUME TypeOK, ClaimsHold, NEW w \in Worker, Submit(w)
  PROVE  LET k == Claimed(w) IN
         /\ k \in Chat /\ worker[w].pc = "submit" /\ tasks[k].status = "dispatching"
         /\ OthersKept(w) /\ worker'[w].chat = k
         /\ \/ /\ worker'[w].pc = "sent"
               /\ submitted' = [submitted EXCEPT ![k] = @ + 1]
               /\ lostAcks' = lostAcks /\ dropped' = dropped
            \/ /\ worker'[w].pc = "defer"
               /\ submitted' = [submitted EXCEPT ![k] = @ + 1]
               /\ lostAcks' = [lostAcks EXCEPT ![k] = @ + 1] /\ dropped' = dropped
            \/ /\ worker'[w].pc = "defer"
               /\ submitted' = submitted /\ lostAcks' = lostAcks /\ dropped' = dropped
            \/ /\ worker'[w].pc = "sent"
               /\ submitted' = submitted /\ lostAcks' = lostAcks
               /\ dropped' = dropped \cup {k}
         /\ UNCHANGED <<tasks, disk, thread, named, created, cancelled, missed>>
  <1>1. Claimed(w) \in Chat /\ tasks[Claimed(w)].status = "dispatching"
    BY DEF Submit, ClaimsHold
  <1>2. ASSUME NEW p \in WorkerPc, Go(w, p)
        PROVE  OthersKept(w) /\ worker'[w].chat = Claimed(w) /\ worker'[w].pc = p
    BY <1>2, GoFacts DEF TypeOK, OthersKept, Claimed
  <1>3. "sent" \in WorkerPc /\ "defer" \in WorkerPc
    BY DEF WorkerPc
  <1> QED
    BY <1>1, <1>2, <1>3 DEF Submit, serviceVars

LEMMA DeferFacts ==
  ASSUME TypeOK, ClaimsHold, NEW w \in Worker, Defer(w)
  PROVE  LET k == Claimed(w) IN
         /\ k \in Chat /\ worker[w].pc = "defer" /\ tasks[k].status = "dispatching"
         /\ OthersKept(w) /\ worker'[w].pc \in {"wait", "claim"}
         /\ tasks'[k].status = "pending" /\ OtherTasksKept(k)
         /\ disk' = tasks' \/ disk' = disk
         /\ UNCHANGED <<thread, ledgerVars, missed>>
  <1>1. Claimed(w) \in Chat /\ tasks[Claimed(w)].status = "dispatching"
    BY DEF Defer, ClaimsHold
  <1>2. tasks'[Claimed(w)].status = "pending" /\ OtherTasksKept(Claimed(w))
    BY <1>1, LaterType, SetTaskFacts DEF Defer, TypeOK, OtherTasksKept
  <1>3. OthersKept(w) /\ worker'[w].pc \in {"wait", "claim"}
    BY <1>1, NextIdFacts DEF Defer, TypeOK, OthersKept
  <1> QED
    BY <1>1, <1>2, <1>3 DEF Defer, Save, SaveRaises, historyVars

LEMMA MarkSentFacts ==
  ASSUME TypeOK, ClaimsHold, NEW w \in Worker, MarkSent(w)
  PROVE  LET k == Claimed(w) IN
         /\ k \in Chat /\ worker[w].pc = "sent" /\ tasks[k].status = "dispatching"
         /\ OthersKept(w) /\ worker'[w].pc \in {"wait", "claim"}
         /\ tasks'[k].status = "sent" /\ OtherTasksKept(k)
         /\ \/ disk' = tasks' /\ lostAcks' = lostAcks
            \/ disk' = disk /\ lostAcks' = [lostAcks EXCEPT ![k] = @ + 1]
         /\ UNCHANGED <<thread, submitted, named, created, cancelled, dropped, missed>>
  <1>1. Claimed(w) \in Chat /\ tasks[Claimed(w)].status = "dispatching"
    BY DEF MarkSent, ClaimsHold
  <1>2. tasks'[Claimed(w)].status = "sent" /\ OtherTasksKept(Claimed(w))
    BY <1>1, SetStatusFacts DEF MarkSent, TypeOK, Status, OtherTasksKept
  <1>3. OthersKept(w) /\ worker'[w].pc \in {"wait", "claim"}
    BY <1>1, NextIdFacts DEF MarkSent, TypeOK, OthersKept
  <1> QED
    BY <1>1, <1>2, <1>3 DEF MarkSent, Save, SaveRaises

\* A load knows the rows it read, recovered, and saves them all or nothing.
LEMMA RestartFacts ==
  ASSUME TypeOK, Restart
  PROVE  /\ \A k \in Chat : lostAcks'[k] = IF InFlight(k) THEN lostAcks[k] + 1 ELSE lostAcks[k]
         /\ \A w \in Worker : worker'[w].pc = "new"
         /\ UNCHANGED <<submitted, named, created, cancelled, dropped>>
         /\ \E read \in SUBSET Chat :
              /\ \A k \in read :
                   /\ disk[k].status = "dispatching" => tasks'[k].status = "pending"
                   /\ disk[k].status # "dispatching" => tasks'[k].status = disk[k].status
              /\ \A k \in Chat \ read : tasks'[k].status = "absent"
              /\ \/ read = Chat /\ missed' = missed \ Filed /\ (disk' = tasks' \/ disk' = disk)
                 \/ read \subseteq Filed /\ missed' = named \ read /\ disk' = disk
  <1>1. \A k \in Chat : lostAcks'[k] = IF InFlight(k) THEN lostAcks[k] + 1 ELSE lostAcks[k]
    BY DEF Restart, InFlight
  <1>2. \A w \in Worker : worker'[w].pc = "new"
    BY DEF Restart, Idle
  <1>3. ASSUME NEW k \in Chat, tasks'[k] = Recovered(disk[k])
        PROVE  /\ disk[k].status = "dispatching" => tasks'[k].status = "pending"
               /\ disk[k].status # "dispatching" => tasks'[k].status = disk[k].status
    BY <1>3, SMTT(60) DEF Recovered
  <1>4. CASE LoadAll
    <2>1. \A k \in Chat : tasks'[k] = Recovered(disk[k])
      BY <1>4 DEF LoadAll
    <2>2. missed' = missed \ Filed /\ (disk' = tasks' \/ disk' = disk)
      BY <1>4 DEF LoadAll, Save, SaveRaises
    <2> QED
      BY <1>1, <1>2, <1>3, <2>1, <2>2 DEF Restart
  <1>5. CASE LoadFails
    <2>1. PICK read \in SUBSET Filed :
            /\ tasks' = [k \in Chat |-> IF k \in read THEN Recovered(disk[k]) ELSE Absent]
            /\ missed' = named \ read /\ disk' = disk
      BY <1>5 DEF LoadFails
    <2>2. read \subseteq Chat
      BY DEF Filed
    <2>3. \A k \in read : tasks'[k] = Recovered(disk[k])
      BY <2>1, <2>2
    <2>4. \A k \in Chat \ read : tasks'[k].status = "absent"
      BY <2>1, SMTT(60) DEF Absent
    <2> QED
      BY <1>1, <1>2, <1>3, <2>1, <2>2, <2>3, <2>4 DEF Restart
  <1> QED
    BY <1>4, <1>5 DEF Restart

\* The steps that touch no table and no claim.
Quiet ==
  /\ UNCHANGED <<tasks, disk, submitted, lostAcks, named, created, cancelled, dropped, missed>>
  /\ \A w \in Worker :
       worker[w].pc \in Claiming \/ worker'[w].pc \in Claiming =>
         worker'[w].pc = worker[w].pc /\ worker'[w].chat = worker[w].chat

LEMMA QuietWorker ==
  ASSUME TypeOK, NEW w \in Worker,
         \/ RunTop(w) \/ RunClear(w) \/ Sweep(w) \/ SweepDone(w) \/ Wait(w) \/ Start(w)
         \/ \E k \in Chat : Claim(w, k) /\ tasks[k].status # "pending"
  PROVE  Quiet
  <1> USE DEF Quiet, Claiming
  <1>1. CASE RunTop(w) \/ RunClear(w) \/ SweepDone(w) \/ Wait(w)
    <2>1. OthersKept(w) /\ worker[w].pc \notin Claiming /\ worker'[w].pc \notin Claiming
      BY <1>1, GoFacts DEF RunTop, RunClear, SweepDone, Wait, TypeOK, WorkerPc, OthersKept
    <2> QED
      BY <1>1, <2>1
      DEF RunTop, RunClear, SweepDone, Wait, serviceVars, historyVars, ledgerVars, OthersKept
  <1>2. CASE Sweep(w)
    <2>1. OthersKept(w) /\ worker[w].pc \notin Claiming /\ worker'[w].pc \notin Claiming
      BY <1>2 DEF Sweep, TypeOK, OthersKept
    <2> QED
      BY <1>2, <2>1 DEF Sweep, serviceVars, historyVars, ledgerVars, OthersKept
  <1>3. CASE Start(w)
    <2>1. UNCHANGED worker
          \/ (OthersKept(w) /\ worker[w].pc \notin Claiming /\ worker'[w].pc \notin Claiming)
      BY <1>3, GoFacts DEF Start, TypeOK, WorkerPc, OthersKept
    <2> QED
      BY <1>3, <2>1 DEF Start, serviceVars, historyVars, ledgerVars, OthersKept
  <1>4. ASSUME NEW k \in Chat, Claim(w, k), tasks[k].status # "pending"
        PROVE  Quiet
    <2>1. OthersKept(w) /\ worker[w].pc \notin Claiming /\ worker'[w].pc \notin Claiming
      BY <1>4, SMTT(60) DEF Claim, TypeOK, WorkerRecord, OthersKept
    <2> QED
      BY <1>4, <2>1 DEF Claim, serviceVars, historyVars, ledgerVars, OthersKept
  <1> QED
    BY <1>1, <1>2, <1>3, <1>4

LEMMA QuietOther ==
  ASSUME ShutdownBegin \/ ShutdownJoin \/ Tick \/ UNCHANGED vars
  PROVE  Quiet
  BY
  DEF Quiet, ShutdownBegin, ShutdownJoin, Tick, vars, serviceVars, threadVars,
      historyVars, ledgerVars

\* Every step is quiet or one of those described above.
LEMMA StepCases ==
  ASSUME TypeOK, [Next]_vars
  PROVE  \/ Quiet
         \/ \E k \in Chat : Create(k) \/ Cancel(k)
         \/ \E w \in Worker : \E k \in Chat : Claim(w, k) /\ tasks[k].status = "pending"
         \/ \E w \in Worker : Submit(w) \/ Defer(w) \/ MarkSent(w)
         \/ Restart
  <1>1. CASE \E w \in Worker : Step(w) \/ Start(w)
    BY <1>1, QuietWorker DEF Step
  <1> QED
    BY <1>1, QuietOther DEF Next

-----------------------------------------------------------------------------
(* One lemma per conjunct of the inductive invariant.                      *)

\* While one worker dispatches, no other does.
LEMMA OneDispatches ==
  ASSUME WorkerIsThread, NEW w \in Worker, worker[w].pc \in Claiming
  PROVE  \A v \in Worker \ {w} : worker[v].pc \notin Claiming
  BY DEF WorkerIsThread, Alive, Claiming

\* A chat a worker dispatches stays marked: nobody else changes its status.
LEMMA ClaimsStep ==
  ASSUME TypeOK, WorkerIsThread, ClaimsHold, FileBehindMemory,
         SubmissionsCounted, StillToSend, [Next]_vars
  PROVE  ClaimsHold'
  <1>1. CASE Quiet
    BY <1>1 DEF Quiet, Claiming, Claimed, ClaimsHold
  <1>2. ASSUME NEW k \in Chat, Create(k)
        PROVE  ClaimsHold'
    BY <1>2, CreateFacts, SMTT(60)
    DEF ClaimsHold, FileBehindMemory, OtherTasksKept, Claimed
  <1>3. ASSUME NEW k \in Chat, Cancel(k)
        PROVE  ClaimsHold'
    BY <1>3, CancelFacts, SMTT(60)
    DEF OtherTasksKept, Claimed, ClaimsHold
  <1>4. ASSUME NEW w \in Worker, NEW k \in Chat, Claim(w, k), tasks[k].status = "pending"
        PROVE  ClaimsHold'
    BY <1>4, ClaimFacts, SMTT(60)
    DEF OthersKept, OtherTasksKept, Claimed, ledgerVars, ClaimsHold
  <1>5. ASSUME NEW w \in Worker, Submit(w)
        PROVE  ClaimsHold'
    <2>1. \A v \in Worker \ {w} : worker[v].pc \notin Claiming
      BY <1>5, OneDispatches DEF Submit, Claiming
    <2> QED
      BY <1>5, <2>1, SubmitFacts
      DEF OthersKept, Claimed, Claiming, ClaimsHold
  <1>6. ASSUME NEW w \in Worker, Defer(w)
        PROVE  ClaimsHold'
    <2>1. \A v \in Worker \ {w} : worker[v].pc \notin Claiming
      BY <1>6, OneDispatches DEF Defer, Claiming
    <2> QED
      BY <1>6, <2>1, DeferFacts, SMTT(60)
      DEF OthersKept, OtherTasksKept, Claimed, Claiming, ledgerVars, ClaimsHold
  <1>7. ASSUME NEW w \in Worker, MarkSent(w)
        PROVE  ClaimsHold'
    <2>1. \A v \in Worker \ {w} : worker[v].pc \notin Claiming
      BY <1>7, OneDispatches DEF MarkSent, Claiming
    <2> QED
      BY <1>7, <2>1, MarkSentFacts, SMTT(60)
      DEF OthersKept, OtherTasksKept, Claimed, Claiming, ClaimsHold
  <1>8. ASSUME Restart
        PROVE  ClaimsHold'
    BY <1>8, RestartFacts
    DEF ClaimsHold
  <1> QED
    BY <1>1, <1>2, <1>3, <1>4, <1>5, <1>6, <1>7, <1>8, StepCases

\* The file never runs ahead of memory, and confirmed cancellations stay.
LEMMA FileStep ==
  ASSUME TypeOK, WorkerIsThread, ClaimsHold, FileBehindMemory,
         SubmissionsCounted, StillToSend, [Next]_vars
  PROVE  FileBehindMemory'
  <1>1. CASE Quiet
    BY <1>1 DEF Quiet, Claiming, Claimed, ClaimsHold, FileBehindMemory, Overwritten
  <1>2. ASSUME NEW k \in Chat, Create(k)
        PROVE  FileBehindMemory'
    BY <1>2, CreateFacts, SMTT(60)
    DEF TypeOK, OtherTasksKept, Claimed, ClaimsHold, FileBehindMemory, Overwritten
  <1>3. ASSUME NEW k \in Chat, Cancel(k)
        PROVE  FileBehindMemory'
    BY <1>3, CancelFacts, SMTT(60)
    DEF TypeOK, OtherTasksKept, Claimed, ClaimsHold, FileBehindMemory, Overwritten
  <1>4. ASSUME NEW w \in Worker, NEW k \in Chat, Claim(w, k), tasks[k].status = "pending"
        PROVE  FileBehindMemory'
    BY <1>4, ClaimFacts, SMTT(60)
    DEF OthersKept, OtherTasksKept, Claimed, ledgerVars, ClaimsHold, FileBehindMemory, Overwritten
  <1>5. ASSUME NEW w \in Worker, Submit(w)
        PROVE  FileBehindMemory'
    BY <1>5, SubmitFacts, SMTT(60)
    DEF OthersKept, Claimed, ClaimsHold, FileBehindMemory, Overwritten
  <1>6. ASSUME NEW w \in Worker, Defer(w)
        PROVE  FileBehindMemory'
    BY <1>6, DeferFacts, SMTT(60)
    DEF OthersKept, OtherTasksKept, Claimed, ledgerVars, ClaimsHold, FileBehindMemory, Overwritten
  <1>7. ASSUME NEW w \in Worker, MarkSent(w)
        PROVE  FileBehindMemory'
    BY <1>7, MarkSentFacts, SMTT(60)
    DEF OthersKept, OtherTasksKept, Claimed, ClaimsHold, FileBehindMemory, Overwritten
  <1>8. ASSUME Restart
        PROVE  FileBehindMemory'
    BY <1>8, RestartFacts, SMTT(60)
    DEF TypeOK, ClaimsHold, FileBehindMemory, Overwritten, Filed
  <1> QED
    BY <1>1, <1>2, <1>3, <1>4, <1>5, <1>6, <1>7, <1>8, StepCases

\* Every submission but one is counted as lost.
LEMMA CountStep ==
  ASSUME TypeOK, WorkerIsThread, ClaimsHold, FileBehindMemory,
         SubmissionsCounted, StillToSend, [Next]_vars
  PROVE  SubmissionsCounted'
  <1>1. CASE Quiet
    BY <1>1, SMTT(60)
    DEF Quiet, Claiming, Claimed, ClaimsHold, FileBehindMemory, SubmissionsCounted,
        Overwritten, InFlight
  <1>2. ASSUME NEW k \in Chat, Create(k)
        PROVE  SubmissionsCounted'
    BY <1>2, CreateFacts, SMTT(60)
    DEF TypeOK, OtherTasksKept, Claimed, ClaimsHold, FileBehindMemory,
        SubmissionsCounted, Overwritten, InFlight
  <1>3. ASSUME NEW k \in Chat, Cancel(k)
        PROVE  SubmissionsCounted'
    BY <1>3, CancelFacts, SMTT(60)
    DEF TypeOK, OtherTasksKept, Claimed, ClaimsHold, FileBehindMemory,
        SubmissionsCounted, Overwritten, InFlight
  <1>4. ASSUME NEW w \in Worker, NEW k \in Chat, Claim(w, k), tasks[k].status = "pending"
        PROVE  SubmissionsCounted'
    BY <1>4, ClaimFacts, SMTT(60)
    DEF TypeOK, OthersKept, OtherTasksKept, Claimed, ledgerVars, ClaimsHold,
        FileBehindMemory, SubmissionsCounted, Overwritten, InFlight
  <1>5. ASSUME NEW w \in Worker, Submit(w)
        PROVE  SubmissionsCounted'
    <2>1. \A v \in Worker \ {w} : worker[v].pc \notin Claiming
      BY <1>5, OneDispatches DEF Submit, Claiming
    <2> QED
      BY <1>5, <2>1, SubmitFacts, SMTT(60)
      DEF TypeOK, OthersKept, Claimed, Claiming, ClaimsHold, FileBehindMemory,
          SubmissionsCounted, Overwritten, InFlight
  <1>6. ASSUME NEW w \in Worker, Defer(w)
        PROVE  SubmissionsCounted'
    BY <1>6, DeferFacts, SMTT(60)
    DEF TypeOK, OthersKept, OtherTasksKept, Claimed, ledgerVars, ClaimsHold,
        FileBehindMemory, SubmissionsCounted, Overwritten, InFlight
  <1>7. ASSUME NEW w \in Worker, MarkSent(w)
        PROVE  SubmissionsCounted'
    BY <1>7, MarkSentFacts, SMTT(60)
    DEF TypeOK, OthersKept, OtherTasksKept, Claimed, ClaimsHold, FileBehindMemory,
        SubmissionsCounted, Overwritten, InFlight
  <1>8. ASSUME Restart
        PROVE  SubmissionsCounted'
    BY <1>8, RestartFacts, SMTT(60)
    DEF TypeOK, Claimed, ClaimsHold, FileBehindMemory, SubmissionsCounted, Overwritten, Filed,
        InFlight
  <1> QED
    BY <1>1, <1>2, <1>3, <1>4, <1>5, <1>6, <1>7, <1>8, StepCases

\* What was confirmed and not submitted stays to be sent.
LEMMA SendStep ==
  ASSUME TypeOK, WorkerIsThread, ClaimsHold, FileBehindMemory,
         SubmissionsCounted, StillToSend, [Next]_vars
  PROVE  StillToSend'
  <1>1. CASE Quiet
    BY <1>1, SMTT(60)
    DEF Quiet, Claiming, Claimed, ClaimsHold, FileBehindMemory, StillToSend, Overwritten, InFlight
  <1>2. ASSUME NEW k \in Chat, Create(k)
        PROVE  StillToSend'
    BY <1>2, CreateFacts, SMTT(60)
    DEF TypeOK, OtherTasksKept, Claimed, ClaimsHold, FileBehindMemory, StillToSend, Overwritten, InFlight
  <1>3. ASSUME NEW k \in Chat, Cancel(k)
        PROVE  StillToSend'
    BY <1>3, CancelFacts, SMTT(60)
    DEF TypeOK, OtherTasksKept, Claimed, ClaimsHold, FileBehindMemory, StillToSend, Overwritten, InFlight
  <1>4. ASSUME NEW w \in Worker, NEW k \in Chat, Claim(w, k), tasks[k].status = "pending"
        PROVE  StillToSend'
    BY <1>4, ClaimFacts, SMTT(60)
    DEF TypeOK, OthersKept, OtherTasksKept, Claimed, ledgerVars, ClaimsHold, FileBehindMemory,
        StillToSend, Overwritten, InFlight
  <1>5. ASSUME NEW w \in Worker, Submit(w)
        PROVE  StillToSend'
    BY <1>5, SubmitFacts, SMTT(60)
    DEF TypeOK, OthersKept, Claimed, ClaimsHold, FileBehindMemory, StillToSend, Overwritten, InFlight
  <1>6. ASSUME NEW w \in Worker, Defer(w)
        PROVE  StillToSend'
    BY <1>6, DeferFacts, SMTT(60)
    DEF TypeOK, OthersKept, OtherTasksKept, Claimed, ledgerVars, ClaimsHold, FileBehindMemory,
        StillToSend, Overwritten, InFlight
  <1>7. ASSUME NEW w \in Worker, MarkSent(w)
        PROVE  StillToSend'
    BY <1>7, MarkSentFacts, SMTT(60)
    DEF TypeOK, OthersKept, OtherTasksKept, Claimed, ClaimsHold, FileBehindMemory, StillToSend,
        Overwritten, InFlight
  <1>8. ASSUME Restart
        PROVE  StillToSend'
    <2>1. \A k \in Chat : ~InFlight(k)'
      BY <1>8, RestartFacts DEF InFlight
    <2>2. ASSUME NEW k \in (created \ (cancelled \cup dropped))', submitted'[k] = 0
          PROVE  /\ tasks'[k].status \in {"pending", "dispatching"} \/ k \in missed'
                 /\ disk'[k].status \in {"pending", "dispatching"} \/ Overwritten(k)'
      <3>1. /\ k \in Chat /\ k \in named
            /\ disk[k].status \in {"pending", "dispatching"} \/ Overwritten(k)
        BY <1>8, <2>2, RestartFacts DEF StillToSend, TypeOK
      <3> QED
        BY <1>8, <3>1, RestartFacts, SMTT(60) DEF Overwritten, Filed
    <2> QED
      BY <2>1, <2>2 DEF StillToSend
  <1> QED
    BY <1>1, <1>2, <1>3, <1>4, <1>5, <1>6, <1>7, <1>8, StepCases

\* Only start() makes a worker, and only when the one before it is gone.
LEMMA ThreadStep ==
  ASSUME TypeOK, WorkerIsThread, [Next]_vars
  PROVE  WorkerIsThread'
  <1>1. ASSUME NEW w \in Worker, Step(w)
        PROVE  WorkerIsThread'
    <2>1. OthersKept(w) /\ Alive(w) /\ UNCHANGED thread
      <3>1. CASE RunTop(w) \/ RunClear(w) \/ SweepDone(w) \/ Wait(w)
        BY <3>1, GoFacts
        DEF RunTop, RunClear, SweepDone, Wait, TypeOK, WorkerPc, OthersKept, Alive
      <3>2. CASE Sweep(w)
        BY <3>2 DEF Sweep, TypeOK, OthersKept, Alive
      <3>3. CASE Submit(w)
        BY <3>3, GoFacts DEF Submit, TypeOK, WorkerPc, OthersKept, Alive
      <3>4. CASE Defer(w) \/ MarkSent(w)
        BY <3>4 DEF Defer, MarkSent, NextId, LeaveSweep, TypeOK, OthersKept, Alive
      <3>5. ASSUME NEW k \in Chat, Claim(w, k)
            PROVE  OthersKept(w) /\ Alive(w) /\ UNCHANGED thread
        BY <3>5 DEF Claim, LeaveSweep, TypeOK, OthersKept, Alive
      <3> QED
        BY <1>1, <3>1, <3>2, <3>3, <3>4, <3>5 DEF Step
    <2> QED
      BY <2>1 DEF WorkerIsThread, OthersKept, Alive
  <1>2. ASSUME NEW w \in Worker, Start(w)
        PROVE  WorkerIsThread'
    <2>1. CASE UNCHANGED <<thread, worker>>
      BY <2>1 DEF WorkerIsThread, Alive
    <2>2. CASE ~ThreadLives /\ thread' = w /\ Go(w, "top")
      <3>1. \A v \in Worker : ~Alive(v)
        BY <2>2, ScheduledAssumption DEF WorkerIsThread, ThreadLives
      <3>2. OthersKept(w)
        BY <2>2, GoFacts DEF TypeOK, WorkerPc, OthersKept
      <3> QED
        BY <2>2, <3>1, <3>2 DEF WorkerIsThread, OthersKept, Alive
    <2> QED
      BY <1>2, <2>1, <2>2 DEF Start
  <1>3. CASE ShutdownJoin
    BY <1>3, ScheduledAssumption
    DEF ShutdownJoin, ThreadAfterJoin, ThreadLives, WorkerIsThread, Alive
  <1>4. CASE Restart
    BY <1>4, RestartFacts DEF WorkerIsThread, Alive
  <1>5. CASE \/ \E k \in Chat : Create(k) \/ Cancel(k)
             \/ ShutdownBegin \/ Tick \/ UNCHANGED vars
    BY <1>5
    DEF Create, Cancel, ShutdownBegin, Tick, threadVars, vars, WorkerIsThread, Alive
  <1> QED
    BY <1>1, <1>2, <1>3, <1>4, <1>5 DEF Next

\* Only wake.clear() and a new process forget a wake, and a sweep follows both.
LEMMA WakeStep ==
  ASSUME TypeOK, WorkerIsThread, ClaimsHold, WakeHeld, [Next]_vars
  PROVE  WakeHeld'
  <1> DEFINE Looked == {"claim", "submit", "sent", "defer", "wait"}
  <1>1. ASSUME NEW w \in Worker,
               RunTop(w) \/ RunClear(w) \/ SweepDone(w) \/ Wait(w) \/ Submit(w)
        PROVE  WakeHeld'
    <2>1. CASE RunClear(w)
      <3>1. \A v \in Worker : worker'[v].pc \notin Looked
        BY <2>1, GoFacts DEF RunClear, TypeOK, WorkerPc, WorkerIsThread, Alive
      <3> QED
        BY <3>1 DEF WakeHeld
    <2>2. CASE RunTop(w) \/ SweepDone(w) \/ Wait(w) \/ Submit(w)
      <3>1. /\ OthersKept(w)
            /\ worker'[w].pc \in Looked => worker[w].pc \in Looked
        BY <2>2, GoFacts
        DEF RunTop, SweepDone, Wait, Submit, TypeOK, WorkerPc, OthersKept
      <3>2. UNCHANGED <<wake, unseen>>
        BY <2>2 DEF RunTop, SweepDone, Wait, Submit, historyVars
      <3> QED
        BY <3>1, <3>2 DEF WakeHeld, OthersKept
    <2> QED
      BY <1>1, <2>1, <2>2
  <1>2. ASSUME NEW w \in Worker, Sweep(w)
        PROVE  WakeHeld'
    BY <1>2 DEF Sweep, WakeHeld
  <1>3. ASSUME NEW w \in Worker, NEW k \in Chat, Claim(w, k)
        PROVE  WakeHeld'
    <2>1. OthersKept(w) /\ worker[w].pc \in Looked
      BY <1>3 DEF Claim, LeaveSweep, TypeOK, OthersKept
    <2> QED
      BY <1>3, <2>1 DEF Claim, WakeHeld, OthersKept, historyVars
  <1>4. ASSUME NEW w \in Worker, Defer(w) \/ MarkSent(w)
        PROVE  WakeHeld'
    <2>1. OthersKept(w) /\ worker[w].pc \in Looked
      BY <1>4, DeferFacts, MarkSentFacts
    <2>2. UNCHANGED <<wake, unseen>>
      BY <1>4 DEF Defer, MarkSent, historyVars
    <2> QED
      BY <2>1, <2>2 DEF WakeHeld, OthersKept
  <1>5. ASSUME NEW w \in Worker, Start(w)
        PROVE  WakeHeld'
    BY <1>5, SMTT(60) DEF Start, WakeHeld, historyVars
  <1>6. ASSUME NEW k \in Chat, Create(k) \/ Cancel(k)
        PROVE  WakeHeld'
    BY <1>6, SMTT(60) DEF Create, Cancel, WakeHeld
  <1>7. CASE ShutdownBegin \/ ShutdownJoin \/ Tick \/ UNCHANGED vars
    BY <1>7, SMTT(60)
    DEF ShutdownBegin, ShutdownJoin, Tick, WakeHeld, vars, threadVars, historyVars
  <1>8. CASE Restart
    BY <1>8 DEF Restart, WakeHeld
  <1> QED
    BY <1>1, <1>2, <1>3, <1>4, <1>5, <1>6, <1>7, <1>8 DEF Next, Step

LEMMA InitScheduled ==
  ASSUME Init
  PROVE  ScheduledInv
  <1>1. TypeOK
    <2>1. tasks \in Table /\ disk \in Table
      BY ScheduledAssumption, SMTT(60) DEF Init, Table, Status, Absent
    <2>2. Idle \in WorkerRecord
      BY DEF WorkerRecord, WorkerPc, Idle
    <2>3. worker \in [Worker -> WorkerRecord]
      BY <2>2 DEF Init
    <2>4. /\ clock \in 0..MaxTime /\ restarts \in 0..MaxRestarts
          /\ saveErrors \in 0..MaxSaveErrors /\ refusals \in 0..MaxRefusals
      BY ScheduledAssumption, SMTT(60) DEF Init
    <2>5. submitted \in [Chat -> Nat] /\ lostAcks \in [Chat -> Nat]
      BY DEF Init
    <2>6. /\ thread \in Worker \cup {None}
          /\ stop \in BOOLEAN /\ wake \in BOOLEAN /\ phase \in {"down", "up", "joining"}
      BY DEF Init
    <2>7. /\ created \subseteq named /\ cancelled \subseteq named /\ dropped \subseteq named
          /\ missed \subseteq named /\ named \subseteq Chat /\ unseen \subseteq Chat
      BY DEF Init
    <2> QED
      BY <2>1, <2>3, <2>4, <2>5, <2>6, <2>7 DEF TypeOK
  <1>2. /\ \A w \in Worker : worker[w].pc = "new"
        /\ \A k \in Chat : /\ tasks[k].status = "absent" /\ disk[k].status = "absent"
                           /\ submitted[k] = 0 /\ lostAcks[k] = 0
    BY DEF Init, Absent, Idle
  <1> QED
    BY <1>1, <1>2, SMTT(60)
    DEF Init, ScheduledInv, WorkerIsThread, Alive, ClaimsHold, FileBehindMemory,
        SubmissionsCounted, StillToSend, Overwritten, InFlight, WakeHeld

-----------------------------------------------------------------------------
(* The theorems.                                                           *)

\* The strengthened invariant holds in every reachable state: requests, the
\* worker, failing writes, shutdowns, and restarts from a file that _load reads,
\* reads in part or cannot read all keep it.
THEOREM ScheduledInvariance == Spec => []ScheduledInv
  <1>1. Init => ScheduledInv
    BY InitScheduled
  <1>2. ScheduledInv /\ [Next]_vars => ScheduledInv'
    BY TypeStep, ThreadStep, ClaimsStep, FileStep, CountStep, SendStep, WakeStep
    DEF ScheduledInv
  <1> QED
    BY <1>1, <1>2, PTL DEF Spec

\* start() and shutdown() never leave two workers sweeping the same table,
\* however late a joined thread ends.
THEOREM SingleWorker == Spec => []OneWorker
  <1>1. ScheduledInv => OneWorker
    BY DEF ScheduledInv, WorkerIsThread, OneWorker
  <1> QED
    BY <1>1, ScheduledInvariance, PTL

\* run_due_once submits a chat again only after the record of an earlier
\* submission was lost, for any number of chats, refusals and restarts.
THEOREM NoUnexplainedDuplicate == Spec => []DuplicateNeedsLostAck
  <1>1. ScheduledInv => DuplicateNeedsLostAck
    BY DEF ScheduledInv, SubmissionsCounted, DuplicateNeedsLostAck
  <1> QED
    BY <1>1, ScheduledInvariance, PTL

\* No wake set by create during a sweep is lost before the worker waits.
THEOREM WakeNotLost == Spec => []WakeSurvives
  <1>1. ScheduledInv => WakeSurvives
    BY DEF ScheduledInv, WakeHeld, WakeSurvives
  <1> QED
    BY <1>1, ScheduledInvariance, PTL

\* A crash at any point loses no confirmed chat: the file keeps it dispatchable
\* until it was submitted, or until a process whose _load could not read it
\* saves its own table.
THEOREM NothingForgotten == Spec => []KeptUntilSubmitted
  <1>1. ScheduledInv => KeptUntilSubmitted
    BY DEF ScheduledInv, StillToSend, KeptUntilSubmitted
  <1> QED
    BY <1>1, ScheduledInvariance, PTL

\* A chat whose cancellation was confirmed is never submitted again, by the
\* worker that had listed it or by a later process.
THEOREM CancelledStaysQuiet == Spec => CancelIsFinal
  <1>1. ScheduledInv /\ [Next]_vars
          => [\A k \in cancelled : submitted'[k] = submitted[k]]_vars
    <2> SUFFICES ASSUME ScheduledInv, [Next]_vars, NEW k \in cancelled
                 PROVE  submitted'[k] = submitted[k]
      OBVIOUS
    <2>1. /\ TypeOK /\ ClaimsHold /\ k \in Chat /\ tasks[k].status \in {"cancelled", "absent"}
      BY DEF ScheduledInv, TypeOK, FileBehindMemory
    <2>2. CASE Quiet
      BY <2>2 DEF Quiet
    <2>3. ASSUME NEW w \in Worker, Submit(w)
          PROVE  submitted'[k] = submitted[k]
      BY <2>1, <2>3, SubmitFacts DEF TypeOK
    <2>4. CASE \/ \E j \in Chat : Create(j) \/ Cancel(j)
               \/ \E w \in Worker : Defer(w) \/ MarkSent(w) \/ \E j \in Chat : Claim(w, j)
               \/ Restart
      BY <2>4 DEF Create, Cancel, Claim, Defer, MarkSent, Restart, historyVars, ledgerVars
    <2> QED
      BY <2>1, <2>2, <2>3, <2>4, StepCases
  <1> QED
    BY <1>1, ScheduledInvariance, PTL DEF Spec, CancelIsFinal
=============================================================================
