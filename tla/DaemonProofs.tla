---------------------------- MODULE DaemonProofs ----------------------------
(***************************************************************************)
(* Theorems about the daemon, for any number of jobs, slots, commands,     *)
(* crashes and failing statements.                                         *)
(*                                                                         *)
(* Inv is inductive: each of its parts needs the others.  Whatever goes    *)
(* through schedule is settled by the two lemmas about Schedule; the rest  *)
(* of a proof is what an operation makes of the table, the entries and the *)
(* tasks before it schedules.                                              *)
(***************************************************************************)
EXTENDS DaemonFaults, FiniteSetTheorems, WellFoundedInduction, TLAPS

Table == [Jobs -> Statuses \cup {NoRow}]

\* Tasks and entries as TypeOK wants them, for values that are not the state's.
TasksOK(tasks, started) ==
  /\ DOMAIN tasks \subseteq Runs
  /\ tasks \in [DOMAIN tasks -> Tasks]
  /\ \A run \in DOMAIN tasks : run[2] <= started[Job(run)]

EntriesOK(act, tasks) ==
  /\ act \subseteq DOMAIN tasks
  /\ IsFiniteSet(act)
  /\ Cardinality(act) <= MaxConcurrent

Covered(table, act) ==
  \A job \in Jobs : table[job] \in {"starting", "running"} => EntriesOf(act, job) # {}

SlotsUsed(table, act) ==
  RowsWith(table, {"queued"}) # {} => Cardinality(act) >= MaxConcurrent

\* The inductive invariant, over the state's variables.
Inv ==
  /\ TypeOK
  /\ EntriesOK(active, task)
  /\ ClaimedRowIsActive
  /\ ~up => active = {} /\ task = NoTasks /\ ~stopping

\* A step keeps Inv and, as long as no statement fails, NoIdleSlot.
InvKept == Inv' /\ (NoIdleSlot => NoIdleSlot')

-----------------------------------------------------------------------------
(* The table *)

\* A statement leaves a table, and changes the rows it names and no other.
LEMMA MarkTable ==
  ASSUME NEW table \in Table, NEW ids, NEW status \in Statuses
  PROVE  /\ Mark(table, ids, status) \in Table
         /\ \A job \in Jobs :
              Mark(table, ids, status)[job] = IF job \in ids THEN status ELSE table[job]
  BY DEF Mark, Table

\* Marking rows with a status other than "queued" queues no row.
LEMMA MarkQueuesNone ==
  ASSUME NEW table \in Table, NEW ids, NEW status \in Statuses \ {"queued"}
  PROVE  RowsWith(Mark(table, ids, status), {"queued"}) \subseteq RowsWith(table, {"queued"})
  BY DEF Mark, RowsWith, Table

\* A job with a run that has failed is not left starting or running.
LEMMA FailedIsNotClaimed ==
  ASSUME NEW status \in Statuses \cup {NoRow}, NEW failed
  PROVE  /\ AfterFailures(status, failed) \in Statuses \cup {NoRow}
         /\ DOMAIN failed # {} => AfterFailures(status, failed) \notin {"starting", "running"}
  BY DEF AfterFailures, AfterStops, AfterFailure, Statuses

-----------------------------------------------------------------------------
(* Schedule *)

\* What is started is not an entry yet, and there is a start for each claim.
LEMMA StartedRuns ==
  ASSUME NEW act, NEW tasks, TasksOK(tasks, runs), EntriesOK(act, tasks),
         runs \in [Jobs -> Nat],
         NEW claimed \in SUBSET Jobs, IsFiniteSet(claimed)
  PROVE  /\ IsFiniteSet(act \cup NextRuns(claimed))
         /\ Cardinality(act \cup NextRuns(claimed)) = Cardinality(act) + Cardinality(claimed)
         /\ NextRuns(claimed) \subseteq Runs
<1> DEFINE f == [job \in claimed |-> <<job, runs[job] + 1>>]
<1>1. f \in Bijection(claimed, NextRuns(claimed))
  <2>1. f \in [claimed -> NextRuns(claimed)]
    BY DEF NextRuns
  <2>2. \A a, b \in claimed : f[a] = f[b] => a = b
    OBVIOUS
  <2>3. \A run \in NextRuns(claimed) : \E job \in claimed : f[job] = run
    BY DEF NextRuns
  <2> HIDE DEF f
  <2>4. f \in Injection(claimed, NextRuns(claimed))
    BY <2>1, <2>2 DEF Injection, IsInjective
  <2>5. f \in Surjection(claimed, NextRuns(claimed))
    BY <2>1, <2>3 DEF Surjection
  <2> QED
    BY <2>4, <2>5 DEF Bijection
<1>2. IsFiniteSet(NextRuns(claimed)) /\ Cardinality(NextRuns(claimed)) = Cardinality(claimed)
  BY <1>1, FS_Bijection DEF ExistsBijection
<1>3. NextRuns(claimed) \subseteq Runs
  BY DEF Runs, NextRuns
<1>4. act \cap NextRuns(claimed) = {}
  <2> SUFFICES ASSUME NEW job \in claimed, <<job, runs[job] + 1>> \in act PROVE FALSE
    BY DEF NextRuns
  <2>1. runs[job] + 1 <= runs[job]
    BY DEF TasksOK, EntriesOK, Job
  <2> QED
    BY <2>1
<1>5. /\ IsFiniteSet(act \cup NextRuns(claimed))
      /\ Cardinality(act \cup NextRuns(claimed))
           = Cardinality(act) + Cardinality(NextRuns(claimed))
               - Cardinality(act \cap NextRuns(claimed))
  BY <1>2, FS_Union DEF EntriesOK
<1>6. Cardinality(act) \in Nat /\ Cardinality(claimed) \in Nat /\ Cardinality({}) = 0
  BY FS_CardinalityType, FS_EmptySet DEF EntriesOK
<1>7. Cardinality(act \cap NextRuns(claimed)) = 0
  BY <1>4, <1>6
<1>8. Cardinality(act \cup NextRuns(claimed)) = Cardinality(act) + Cardinality(claimed)
  BY <1>2, <1>5, <1>6, <1>7
<1> QED
  BY <1>3, <1>5, <1>8

\* Claims that fit into the free slots leave tasks, entries and rows in order.
LEMMA ClaimsKeep ==
  ASSUME NEW table \in Table, NEW act, NEW tasks,
         TasksOK(tasks, runs), EntriesOK(act, tasks), runs \in [Jobs -> Nat],
         Covered(table, act),
         NEW claimed \in SUBSET Jobs,
         claimed = {} \/ Cardinality(claimed) <= MaxConcurrent - Cardinality(act),
         StartClaimed(table, act, tasks, claimed)
  PROVE  /\ db' \in Table
         /\ \A job \in Jobs : db'[job] = IF job \in claimed THEN "starting" ELSE table[job]
         /\ TasksOK(task', runs')
         /\ EntriesOK(active', task')
         /\ Cardinality(act) \in Nat /\ Cardinality(claimed) \in Nat
         /\ Cardinality(active') = Cardinality(act) + Cardinality(claimed)
         /\ runs' \in [Jobs -> Nat]
         /\ Covered(db', active')
<1>1. /\ db' = ClaimDaemonDownloads(table, claimed)
      /\ active' = act \cup NextRuns(claimed)
      /\ task' = [run \in DOMAIN tasks \cup NextRuns(claimed) |->
                    IF run \in NextRuns(claimed) THEN NewTask ELSE tasks[run]]
      /\ runs' = [job \in Jobs |-> IF job \in claimed THEN runs[job] + 1 ELSE runs[job]]
  BY DEF StartClaimed
<1>2. IsFiniteSet(claimed)
  <2>1. IsFiniteSet(Jobs)
    BY ConstantsAssumption, FS_Interval DEF Jobs
  <2> QED
    BY <2>1, FS_Subset
<1>3. /\ IsFiniteSet(active')
      /\ Cardinality(active') = Cardinality(act) + Cardinality(claimed)
      /\ NextRuns(claimed) \subseteq Runs
  BY <1>1, <1>2, StartedRuns
<1>4. Cardinality(act) \in Nat /\ Cardinality(claimed) \in Nat /\ Cardinality({}) = 0
  BY <1>2, FS_CardinalityType, FS_EmptySet DEF EntriesOK
<1>5. /\ db' \in Table
      /\ \A job \in Jobs : db'[job] = IF job \in claimed THEN "starting" ELSE table[job]
  BY <1>1, MarkTable DEF ClaimDaemonDownloads, Statuses
<1>6. runs' \in [Jobs -> Nat] /\ \A job \in Jobs : runs[job] <= runs'[job]
  BY <1>1
<1>7. TasksOK(task', runs')
  <2>1. DOMAIN task' \subseteq Runs
    BY <1>1, <1>3 DEF TasksOK
  <2>2. task' \in [DOMAIN task' -> Tasks]
    BY <1>1 DEF TasksOK, NewTask, Tasks, Outcomes, Signals
  <2>3. ASSUME NEW run \in DOMAIN task' PROVE run[2] <= runs'[Job(run)]
    <3>1. CASE run \in NextRuns(claimed)
      BY <1>1, <1>2, <3>1 DEF NextRuns, Job
    <3>2. CASE run \notin NextRuns(claimed)
      <4>1. run \in DOMAIN tasks /\ run \in Runs
        BY <1>1, <3>2 DEF TasksOK
      <4>2. run[2] <= runs[Job(run)] /\ Job(run) \in Jobs /\ run[2] \in Nat
        BY <4>1 DEF TasksOK, Runs, Job
      <4> QED
        BY <4>2, <1>6
    <3> QED
      BY <3>1, <3>2
  <2> QED
    BY <2>1, <2>2, <2>3 DEF TasksOK
<1>8. EntriesOK(active', task')
  <2>1. active' \subseteq DOMAIN task'
    BY <1>1 DEF EntriesOK
  <2>2. Cardinality(active') <= MaxConcurrent
    <3>1. CASE claimed = {}
      <4>1. Cardinality(claimed) = 0
        BY <1>4, <3>1
      <4> QED
        BY <1>3, <1>4, <4>1 DEF EntriesOK
    <3>2. CASE Cardinality(claimed) <= MaxConcurrent - Cardinality(act)
      BY <1>3, <1>4, <3>2, ConstantsAssumption
    <3> QED
      BY <3>1, <3>2
  <2> QED
    BY <2>1, <2>2, <1>3 DEF EntriesOK
<1>9. Covered(db', active')
  <2> SUFFICES ASSUME NEW job \in Jobs, db'[job] \in {"starting", "running"}
               PROVE  EntriesOf(active', job) # {}
    BY DEF Covered
  <2>1. CASE job \in claimed
    <3>1. <<job, runs[job] + 1>> \in active'
      BY <1>1, <2>1 DEF NextRuns
    <3>2. Job(<<job, runs[job] + 1>>) = job
      BY DEF Job
    <3> QED
      BY <3>1, <3>2 DEF EntriesOf
  <2>2. CASE job \notin claimed
    BY <1>1, <1>5, <2>2 DEF Covered, EntriesOf
  <2> QED
    BY <2>1, <2>2
<1> QED
  BY <1>3, <1>4, <1>5, <1>6, <1>7, <1>8, <1>9

\* Schedule leaves tasks, entries and rows in order, fills the free slots unless
\* the daemon is stopping, and has an entry for each row it has claimed.
LEMMA ScheduleKeeps ==
  ASSUME NEW table \in Table, NEW act, NEW tasks, NEW halted \in BOOLEAN,
         TasksOK(tasks, runs), EntriesOK(act, tasks), runs \in [Jobs -> Nat],
         Covered(table, act),
         Schedule(table, act, tasks, halted)
  PROVE  /\ db' \in Table
         /\ TasksOK(task', runs')
         /\ EntriesOK(active', task')
         /\ runs' \in [Jobs -> Nat]
         /\ Covered(db', active')
         /\ ~halted => SlotsUsed(db', active')
<1>1. PICK claimed \in IF halted THEN {{}} ELSE SUBSET RowsWith(table, {"queued"}) :
        /\ halted \/ ClaimedBy(table, claimed, MaxConcurrent - Cardinality(act))
        /\ StartClaimed(table, act, tasks, claimed)
  BY DEF Schedule
<1>2. claimed \in SUBSET Jobs
  BY <1>1 DEF RowsWith, Table
<1>3. claimed = {} \/ Cardinality(claimed) <= MaxConcurrent - Cardinality(act)
  BY <1>1 DEF ClaimedBy
<1>4. /\ db' \in Table
      /\ \A job \in Jobs : db'[job] = IF job \in claimed THEN "starting" ELSE table[job]
      /\ TasksOK(task', runs')
      /\ EntriesOK(active', task')
      /\ Cardinality(act) \in Nat /\ Cardinality(claimed) \in Nat
      /\ Cardinality(active') = Cardinality(act) + Cardinality(claimed)
      /\ runs' \in [Jobs -> Nat]
      /\ Covered(db', active')
  BY <1>1, <1>2, <1>3, ClaimsKeep
<1>5. ASSUME ~halted PROVE SlotsUsed(db', active')
  <2>1. ClaimedBy(table, claimed, MaxConcurrent - Cardinality(act))
    BY <1>1, <1>5
  <2>2. CASE claimed = RowsWith(table, {"queued"})
    <3>1. RowsWith(db', {"queued"}) = {}
      BY <1>4, <2>2 DEF RowsWith, Table
    <3> QED
      BY <3>1 DEF SlotsUsed
  <2>3. CASE Cardinality(claimed) >= MaxConcurrent - Cardinality(act)
    BY <1>4, <2>3, ConstantsAssumption DEF SlotsUsed
  <2> QED
    BY <2>1, <2>2, <2>3 DEF ClaimedBy
<1> QED
  BY <1>4, <1>5

-----------------------------------------------------------------------------
(* The inductive invariant *)

\* A step that schedules keeps Inv if what it hands to Schedule is in order.
LEMMA SchedulingStep ==
  ASSUME NEW table \in Table, NEW act, NEW tasks, NEW halted \in BOOLEAN,
         TypeOK, TasksOK(tasks, runs), EntriesOK(act, tasks), Covered(table, act),
         Schedule(table, act, tasks, halted),
         up', up' \in BOOLEAN, stopping' = halted,
         said' \in [Jobs -> {"none", "enqueue", "pause", "resume", "cancel", "retry"}],
         spent' \in Nat
  PROVE  InvKept
<1>1. runs \in [Jobs -> Nat]
  BY DEF TypeOK
<1>2. /\ db' \in Table
      /\ TasksOK(task', runs')
      /\ EntriesOK(active', task')
      /\ runs' \in [Jobs -> Nat]
      /\ Covered(db', active')
      /\ ~halted => SlotsUsed(db', active')
  BY <1>1, ScheduleKeeps
<1>3. TypeOK'
  BY <1>2 DEF TypeOK, TasksOK, EntriesOK, Table
<1>4. ClaimedRowIsActive'
  BY <1>2 DEF ClaimedRowIsActive, Covered, EntriesOf
<1>5. NoIdleSlot'
  BY <1>2 DEF NoIdleSlot, SlotsUsed, RowsWith
<1> QED
  BY <1>2, <1>3, <1>4, <1>5 DEF Inv, InvKept, EntriesOK

\* Marking a row that is not starting or running afterwards uncovers no row.
LEMMA MarkKeepsCovered ==
  ASSUME NEW table \in Table, NEW act, NEW ids, NEW status \in Statuses,
         Covered(table, act), status \notin {"starting", "running"}
  PROVE  Covered(Mark(table, ids, status), act)
  BY MarkTable DEF Covered

\* Signals change neither which tasks there are nor their shape.
LEMMA SignalKeeps ==
  ASSUME NEW tasks, NEW receivers, NEW signal \in Signals, TasksOK(tasks, runs)
  PROVE  /\ DOMAIN Signal(tasks, receivers, signal) = DOMAIN tasks
         /\ TasksOK(Signal(tasks, receivers, signal), runs)
<1>1. \A run \in DOMAIN tasks : Signal(tasks, receivers, signal)[run] \in Tasks
  BY DEF TasksOK, Tasks, Signal, Signals
<1> QED
  BY <1>1 DEF TasksOK, Signal

\* What a step that keeps the entries has to show.
LEMMA KeepingStep ==
  ASSUME Inv, up, up' = up, stopping' \in BOOLEAN, stopping => stopping',
         active' = active, runs' = runs,
         db' \in Table, Covered(db', active),
         ~stopping' => RowsWith(db', {"queued"}) \subseteq RowsWith(db, {"queued"}),
         active \subseteq DOMAIN task', TasksOK(task', runs),
         said' \in [Jobs -> {"none", "enqueue", "pause", "resume", "cancel", "retry"}],
         spent' \in Nat
  PROVE  InvKept
<1>1. TypeOK'
  BY DEF Inv, TypeOK, TasksOK, Table
<1>2. EntriesOK(active', task')
  BY DEF Inv, EntriesOK
<1>3. ClaimedRowIsActive'
  BY DEF ClaimedRowIsActive, Covered, EntriesOf
<1>4. NoIdleSlot => NoIdleSlot'
  BY DEF Inv, NoIdleSlot, RowsWith
<1> QED
  BY <1>1, <1>2, <1>3, <1>4 DEF Inv, InvKept, EntriesOK, TypeOK

\* The process is gone: nothing is left of its entries and tasks.
LEMMA ProcessGoneKeepsInv ==
  ASSUME Inv, ProcessGone, spent' \in Nat
  PROVE  InvKept
<1>1. DOMAIN task' = {}
  BY DEF ProcessGone, NoTasks
<1>2. TypeOK'
  BY <1>1 DEF Inv, TypeOK, ProcessGone, NoTasks
<1>3. EntriesOK(active', task')
  BY <1>1, FS_EmptySet, ConstantsAssumption DEF EntriesOK, ProcessGone
<1> QED
  BY <1>2, <1>3
  DEF Inv, InvKept, ProcessGone, NoTasks, EntriesOK, ClaimedRowIsActive, NoIdleSlot

\* What the tick makes of the table, the entries and the tasks is in order: a row
\* that is starting or running belongs to a job none of whose runs has ended.
LEMMA PolledInOrder ==
  ASSUME Inv, up, NEW missed \in SUBSET active
  PROVE  /\ PolledTable(missed) \in Table
         /\ TasksOK(PolledTasks(missed), runs)
         /\ EntriesOK(PolledActive, PolledTasks(missed))
         /\ Covered(PolledTable(missed), PolledActive)
<1> DEFINE started  == UpdateDownloadStarted(db, JobsOf(StartedEvents(missed)))
           finished == UpdateDownloadFinished(started, FinishedJobs)
<1>1. db \in Table /\ Covered(db, active) /\ TasksOK(task, runs) /\ EntriesOK(active, task)
  BY DEF Inv, TypeOK, TasksOK, ClaimedRowIsActive, Covered, Table
<1>2. /\ started \in Table
      /\ \A job \in Jobs : started[job] = IF job \in JobsOf(StartedEvents(missed))
                                            THEN "running" ELSE db[job]
  BY <1>1, MarkTable DEF UpdateDownloadStarted, Statuses
<1>3. /\ finished \in Table
      /\ \A job \in Jobs : finished[job] = IF job \in FinishedJobs
                                             THEN "finished" ELSE started[job]
  <2> HIDE DEF started
  <2> QED
    BY <1>2, MarkTable DEF UpdateDownloadFinished, Statuses
<1> HIDE DEF started, finished
<1>4. PolledTable(missed) = [job \in Jobs |-> AfterFailures(finished[job], FailedRuns(job))]
  BY DEF PolledTable, finished, started
<1>5. PolledTable(missed) \in Table
  BY <1>3, <1>4, FailedIsNotClaimed DEF Table
<1>6. TasksOK(PolledTasks(missed), runs)
  <2>1. \A run \in DOMAIN task \ Ended : PolledTasks(missed)[run] \in Tasks
    BY <1>1 DEF PolledTasks, TasksOK, Tasks
  <2> QED
    BY <1>1, <2>1 DEF PolledTasks, TasksOK
<1>7. EntriesOK(PolledActive, PolledTasks(missed))
  <2>1. PolledActive \in SUBSET active
    BY DEF PolledActive
  <2>2. PolledActive \subseteq DOMAIN task \ Ended
    BY <1>1 DEF PolledActive, JobsOf, EntriesOK
  <2>3. DOMAIN PolledTasks(missed) = DOMAIN task \ Ended
    BY DEF PolledTasks
  <2>4. IsFiniteSet(PolledActive) /\ Cardinality(PolledActive) <= Cardinality(active)
    BY <1>1, <2>1, FS_Subset DEF EntriesOK
  <2>5. Cardinality(PolledActive) \in Nat /\ Cardinality(active) \in Nat
    BY <1>1, <2>4, FS_CardinalityType DEF EntriesOK
  <2> QED
    BY <1>1, <2>2, <2>3, <2>4, <2>5, ConstantsAssumption DEF EntriesOK
<1>8. Covered(PolledTable(missed), PolledActive)
  <2> SUFFICES ASSUME NEW job \in Jobs, PolledTable(missed)[job] \in {"starting", "running"}
               PROVE  EntriesOf(PolledActive, job) # {}
    BY DEF Covered
  <2>1. DOMAIN FailedRuns(job) = {}
    BY <1>3, <1>4, FailedIsNotClaimed DEF Table
  <2>2. finished[job] \in {"starting", "running"}
    BY <1>4, <2>1 DEF AfterFailures
  <2>3. job \notin FinishedJobs /\ started[job] \in {"starting", "running"}
    BY <1>3, <2>2
  <2>4. job \notin JobsOf(Ended)
    <3> SUFFICES ASSUME NEW run \in Ended, Job(run) = job PROVE FALSE
      BY DEF JobsOf
    <3>1. task[run].outcome # "finished"
      BY <2>3 DEF FinishedJobs, JobsOf
    <3>2. run[2] \in DOMAIN FailedRuns(job)
      BY <3>1 DEF FailedRuns, EntriesOf
    <3> QED
      BY <2>1, <3>2
  <2>5. EntriesOf(active, job) # {}
    <3>1. CASE job \in JobsOf(StartedEvents(missed))
      BY <3>1 DEF JobsOf, StartedEvents, EntriesOf
    <3>2. CASE job \notin JobsOf(StartedEvents(missed))
      BY <1>1, <1>2, <2>3, <3>2 DEF Covered
    <3> QED
      BY <3>1, <3>2
  <2> QED
    BY <2>4, <2>5 DEF EntriesOf, PolledActive
<1> QED
  BY <1>5, <1>6, <1>7, <1>8

\* The queue grows by the row that a request puts into it, and no row becomes
\* starting or running.
LEMMA QueuedInOrder ==
  ASSUME Inv, up, NEW job \in Jobs
  PROVE  \A table \in {InsertDaemonDownload(db, job), ResumeDownload(db, job),
                      RetryDownload(db, job)} :
           table \in Table /\ Covered(table, active)
  BY MarkTable, MarkKeepsCovered
  DEF Inv, TypeOK, ClaimedRowIsActive, Covered, Table, InsertDaemonDownload, ResumeDownload,
      RetryDownload, Statuses

\* Each request keeps Inv: enqueue, resume and retry schedule, pause and cancel
\* change a row and a signal.
LEMMA RequestKeepsInv ==
  ASSUME Inv, NEW job \in Jobs, Request(job)
  PROVE  InvKept
<1>1. /\ db \in Table /\ TasksOK(task, runs) /\ EntriesOK(active, task)
      /\ up => Covered(db, active)
  BY DEF Inv, TypeOK, TasksOK, ClaimedRowIsActive, Covered, Table
<1>2. CASE Enqueue(job)
  <2>1. /\ InsertDaemonDownload(db, job) \in Table
        /\ Covered(InsertDaemonDownload(db, job), active)
    BY <1>2, QueuedInOrder DEF Enqueue
  <2> QED
    BY <1>1, <1>2, <2>1, SchedulingStep DEF Enqueue, Inv, TypeOK
<1>3. CASE ResumeJob(job)
  <2>1. /\ ResumeDownload(db, job) \in Table
        /\ Covered(ResumeDownload(db, job), active)
    BY <1>3, QueuedInOrder DEF ResumeJob, Command
  <2> QED
    BY <1>1, <1>3, <2>1, SchedulingStep DEF ResumeJob, Command, Inv, TypeOK
<1>4. CASE RetryJob(job)
  <2>1. /\ RetryDownload(db, job) \in Table
        /\ Covered(RetryDownload(db, job), active)
    BY <1>4, QueuedInOrder DEF RetryJob, Command
  <2> QED
    BY <1>1, <1>4, <2>1, SchedulingStep DEF RetryJob, Command, Inv, TypeOK
<1>5. CASE PauseJob(job)
  <2>1. PICK ids \in SUBSET Jobs : db' = Mark(db, ids, "paused")
    BY <1>5 DEF PauseJob, PauseActive, PauseQueued, UpdateDownloadPaused, MarkQueuedPaused
  <2>2. /\ db' \in Table /\ Covered(db', active)
        /\ RowsWith(db', {"queued"}) \subseteq RowsWith(db, {"queued"})
    BY <1>1, <1>5, <2>1, MarkTable, MarkKeepsCovered, MarkQueuesNone
    DEF Statuses, PauseJob, Command
  <2>3. TasksOK(task', runs) /\ active \subseteq DOMAIN task'
    BY <1>1, <1>5, SignalKeeps DEF PauseJob, PauseActive, PauseQueued, Signals, EntriesOK
  <2> QED
    BY <1>5, <2>2, <2>3, KeepingStep DEF PauseJob, Command, daemonVars, Inv, TypeOK
<1>6. CASE CancelJob(job)
  <2>1. db' = Mark(db, {job}, "cancelled")
    BY <1>6 DEF CancelJob, UpdateDownloadCancelled
  <2>2. /\ db' \in Table /\ Covered(db', active)
        /\ RowsWith(db', {"queued"}) \subseteq RowsWith(db, {"queued"})
    BY <1>1, <1>6, <2>1, MarkTable, MarkKeepsCovered, MarkQueuesNone
    DEF Statuses, CancelJob, Command
  <2>3. TasksOK(task', runs) /\ active \subseteq DOMAIN task'
    BY <1>1, <1>6, SignalKeeps DEF CancelJob, CancelActive, CancelIdle, Signals, EntriesOK
  <2> QED
    BY <1>6, <2>2, <2>3, KeepingStep DEF CancelJob, Command, daemonVars, Inv, TypeOK
<1> QED
  BY <1>2, <1>3, <1>4, <1>5, <1>6 DEF Request

\* Shutdown and Ctrl-C requeue the rows of the entries and set stopping.
LEMMA ShutdownKeepsInv ==
  ASSUME Inv, up, up' = up, active' = active, runs' = runs, said' = said, spent' \in Nat,
         NEW tasks, TasksOK(tasks, runs), DOMAIN tasks = DOMAIN task,
         BeginShutdown(tasks)
  PROVE  InvKept
<1>1. /\ db \in Table /\ EntriesOK(active, task) /\ Covered(db, active)
  BY DEF Inv, TypeOK, ClaimedRowIsActive, Covered, Table
<1>2. db' \in Table /\ Covered(db', active)
  BY <1>1, MarkTable, MarkKeepsCovered DEF BeginShutdown, RequeueDownload, Statuses
<1>3. TasksOK(task', runs) /\ DOMAIN task' = DOMAIN tasks
  BY SignalKeeps DEF BeginShutdown, Signals
<1>4. stopping' = TRUE
  BY DEF BeginShutdown
<1> QED
  BY <1>1, <1>2, <1>3, <1>4, KeepingStep DEF Inv, TypeOK, EntriesOK

\* A step of a download changes its task, and drops no task that has an entry.
LEMMA TaskStepKeepsInv ==
  ASSUME Inv, TaskStep
  PROVE  InvKept
<1>1. /\ db \in Table /\ TasksOK(task, runs) /\ EntriesOK(active, task)
      /\ up => Covered(db, active)
  BY DEF Inv, TypeOK, TasksOK, ClaimedRowIsActive, Covered, Table
<1>2. PICK run \in DOMAIN task :
        \/ ProbeOk(run) \/ ProbeFail(run)
        \/ Finish(run) \/ Fail(run)
        \/ ObserveStop(run) \/ Leave(run)
  BY DEF TaskStep
<1>3. task[run] \in Tasks
  BY <1>1 DEF TasksOK
<1>4. TasksOK(task', runs) /\ active \subseteq DOMAIN task'
  <2>1. ASSUME NEW outcome \in Outcomes, End(run, outcome)
        PROVE  TasksOK(task', runs) /\ active \subseteq DOMAIN task'
    <3>1. CASE run \in active
      <4>1. task' = [task EXCEPT ![run] = [task[run] EXCEPT !.pc = "ended", !.outcome = outcome,
                                                            !.signal = "none"]]
        BY <2>1, <3>1 DEF End
      <4> QED
        BY <1>1, <1>3, <4>1 DEF TasksOK, Tasks, Signals, EntriesOK
    <3>2. CASE run \notin active
      BY <1>1, <2>1, <3>2 DEF End, TasksOK, EntriesOK
    <3> QED
      BY <3>1, <3>2
  <2>2. CASE ProbeFail(run) \/ Finish(run) \/ Fail(run) \/ Leave(run)
    BY <1>3, <2>1, <2>2 DEF ProbeFail, Finish, Fail, Leave, Outcomes, Tasks
  <2>3. CASE ProbeOk(run)
    BY <1>1, <1>3, <2>3 DEF ProbeOk, TasksOK, Tasks, EntriesOK
  <2>4. CASE ObserveStop(run)
    BY <1>1, <1>3, <2>4 DEF ObserveStop, TasksOK, Tasks, Signals, Outcomes, EntriesOK
  <2> QED
    BY <1>2, <2>2, <2>3, <2>4
<1> QED
  BY <1>1, <1>4, KeepingStep DEF TaskStep, Inv, TypeOK

\* Inv holds at the start.
LEMMA InitInv == Init => Inv /\ NoIdleSlot
<1> SUFFICES ASSUME Init PROVE Inv /\ NoIdleSlot
  OBVIOUS
<1>1. TypeOK
  BY DEF Init, TypeOK, NoTasks
<1>2. EntriesOK(active, task)
  BY FS_EmptySet, ConstantsAssumption DEF Init, EntriesOK
<1>3. \A job \in Jobs : db[job] = NoRow
  BY DEF Init
<1>4. ClaimedRowIsActive /\ NoIdleSlot
  BY <1>3 DEF ClaimedRowIsActive, NoIdleSlot, RowsWith, NoRow, Init
<1> QED
  BY <1>1, <1>2, <1>4 DEF Inv, Init

\* Every step keeps Inv.
LEMMA NextInv == Inv /\ [Next]_vars => InvKept
<1> SUFFICES ASSUME Inv, [Next]_vars PROVE InvKept
  OBVIOUS
<1>1. ASSUME NEW job \in Jobs, Request(job) PROVE InvKept
  BY <1>1, RequestKeepsInv
<1>2. CASE PollActive
  <2>1. PICK missed \in SUBSET {run \in Ended : task[run].unread} :
          Schedule(PolledTable(missed), PolledActive, PolledTasks(missed), stopping)
    BY <1>2 DEF PollActive
  <2>2. /\ PolledTable(missed) \in Table
        /\ TasksOK(PolledTasks(missed), runs)
        /\ EntriesOK(PolledActive, PolledTasks(missed))
        /\ Covered(PolledTable(missed), PolledActive)
    BY <1>2, PolledInOrder DEF PollActive, Ended
  <2> QED
    BY <1>2, <2>1, <2>2, SchedulingStep DEF PollActive, Inv, TypeOK
<1>3. CASE Shutdown
  BY <1>3, ShutdownKeepsInv DEF Shutdown, Inv, TypeOK, TasksOK
<1>4. CASE CtrlC
  <2>1. PICK hearing \in SUBSET {run \in DOMAIN task : task[run].pc = "work"} :
          \/ BeginShutdown(Interrupted(hearing))
          \/ stopping' = stopping /\ db' = db /\ task' = Interrupted(hearing)
    BY <1>4 DEF CtrlC
  <2>2. DOMAIN Interrupted(hearing) = DOMAIN task /\ TasksOK(Interrupted(hearing), runs)
    <3>1. \A run \in DOMAIN task : Interrupted(hearing)[run] \in Tasks
      BY DEF Interrupted, Inv, TypeOK, Tasks, Outcomes, Signals
    <3> QED
      BY <3>1 DEF Interrupted, Inv, TypeOK, TasksOK
  <2>3. CASE BeginShutdown(Interrupted(hearing))
    BY <1>4, <2>2, <2>3, ShutdownKeepsInv DEF CtrlC, Inv, TypeOK
  <2>4. CASE stopping' = stopping /\ db' = db /\ task' = Interrupted(hearing)
    BY <1>4, <2>2, <2>4, KeepingStep
    DEF CtrlC, Inv, TypeOK, Table, EntriesOK, ClaimedRowIsActive, Covered
  <2> QED
    BY <2>1, <2>3, <2>4
<1>5. CASE Exit \/ Crash
  BY <1>5, ProcessGoneKeepsInv DEF Exit, Crash, Inv, TypeOK
<1>6. CASE Restart
  <2>1. /\ RecoverDaemonDownloads(db) \in Table
        /\ Covered(RecoverDaemonDownloads(db), {})
    BY MarkTable
    DEF RecoverDaemonDownloads, RowsWith, Covered, Statuses, Inv, TypeOK, Table
  <2>2. TasksOK(NoTasks, runs) /\ EntriesOK({}, NoTasks)
    BY FS_EmptySet, ConstantsAssumption DEF TasksOK, EntriesOK, NoTasks
  <2> QED
    BY <1>6, <2>1, <2>2, SchedulingStep DEF Restart, Inv, TypeOK
<1>7. CASE TaskStep
  BY <1>7, TaskStepKeepsInv
<1>8. CASE UNCHANGED vars
  BY <1>8
  DEF vars, Inv, InvKept, TypeOK, EntriesOK, ClaimedRowIsActive, NoIdleSlot, EntriesOf, RowsWith
<1> QED
  BY <1>1, <1>2, <1>3, <1>4, <1>5, <1>6, <1>7, <1>8 DEF Next

-----------------------------------------------------------------------------
(* Theorems *)

\* Type correctness: the table, the entries and the tasks keep their shape, and
\* every entry of the active list has its task.
THEOREM TypeCorrect == Spec => []TypeOK
<1>1. Inv => TypeOK
  BY DEF Inv
<1>2. Inv /\ [Next]_vars => Inv'
  BY NextInv DEF InvKept
<1> QED
  BY <1>1, <1>2, InitInv, PTL DEF Spec

\* The active list never outgrows max_concurrent, whatever is requested, ends,
\* crashes or restarts in between.
THEOREM ActiveIsBounded == Spec => []ActiveBounded
<1>1. Inv => ActiveBounded
  BY DEF Inv, EntriesOK, ActiveBounded
<1>2. Inv /\ [Next]_vars => Inv'
  BY NextInv DEF InvKept
<1> QED
  BY <1>1, <1>2, InitInv, PTL DEF Spec

\* A row that is starting or running has an entry in the daemon that runs.
THEOREM ClaimedRowsAreActive == Spec => []ClaimedRowIsActive
<1>1. Inv => ClaimedRowIsActive
  BY DEF Inv
<1>2. Inv /\ [Next]_vars => Inv'
  BY NextInv DEF InvKept
<1> QED
  BY <1>1, <1>2, InitInv, PTL DEF Spec

\* No slot is idle while a job is queued, unless the daemon is stopping.
THEOREM NoSlotIdles == Spec => []NoIdleSlot
<1>1. Inv /\ NoIdleSlot /\ [Next]_vars => Inv' /\ NoIdleSlot'
  BY NextInv DEF InvKept
<1> QED
  BY <1>1, InitInv, PTL DEF Spec

-----------------------------------------------------------------------------
(* A finished job stays finished *)

\* What makes FinishedIsFinal inductive: a finished job has no entry left, so
\* that neither an event, nor a signal, nor a shutdown can reach its row.
FinishedIdle(table, act) ==
  \A job \in Jobs : table[job] = "finished" => EntriesOf(act, job) = {}

FinishedStays(table) ==
  \A job \in Jobs : table[job] = "finished" => db'[job] = "finished"

\* Schedule claims queued rows, so it starts no finished job again.
LEMMA ScheduleFinished ==
  ASSUME NEW table \in Table, NEW act, NEW tasks, NEW halted \in BOOLEAN,
         FinishedIdle(table, act), Schedule(table, act, tasks, halted)
  PROVE  FinishedIdle(db', active') /\ FinishedStays(table)
<1>1. PICK claimed \in IF halted THEN {{}} ELSE SUBSET RowsWith(table, {"queued"}) :
        db' = ClaimDaemonDownloads(table, claimed) /\ active' = act \cup NextRuns(claimed)
  BY DEF Schedule, StartClaimed
<1>2. \A job \in Jobs : db'[job] = IF job \in claimed THEN "starting" ELSE table[job]
  BY <1>1, MarkTable DEF ClaimDaemonDownloads, Statuses
<1>3. \A job \in claimed : table[job] = "queued"
  BY <1>1 DEF RowsWith
<1>4. ASSUME NEW job \in Jobs, job \notin claimed
      PROVE  EntriesOf(active', job) = EntriesOf(act, job)
  BY <1>1, <1>4 DEF EntriesOf, NextRuns, Job
<1> QED
  BY <1>2, <1>3, <1>4 DEF FinishedIdle, FinishedStays

\* The tick makes a row finished only when it drops every entry of its job, and
\* takes none back.
LEMMA PolledFinished ==
  ASSUME Inv, FinishedIdle(db, active), NEW missed
  PROVE  /\ FinishedIdle(PolledTable(missed), PolledActive)
         /\ \A job \in Jobs : db[job] = "finished" => PolledTable(missed)[job] = "finished"
<1> DEFINE started  == UpdateDownloadStarted(db, JobsOf(StartedEvents(missed)))
           finished == UpdateDownloadFinished(started, FinishedJobs)
<1>1. /\ started \in Table
      /\ \A job \in Jobs : started[job] = IF job \in JobsOf(StartedEvents(missed))
                                            THEN "running" ELSE db[job]
  BY MarkTable DEF UpdateDownloadStarted, Statuses, Inv, TypeOK, Table
<1>2. /\ finished \in Table
      /\ \A job \in Jobs : finished[job] = IF job \in FinishedJobs
                                             THEN "finished" ELSE started[job]
  <2> HIDE DEF started
  <2> QED
    BY <1>1, MarkTable DEF UpdateDownloadFinished, Statuses
<1> HIDE DEF started, finished
<1>3. PolledTable(missed) = [job \in Jobs |-> AfterFailures(finished[job], FailedRuns(job))]
  BY DEF PolledTable, finished, started
<1>4. ASSUME NEW job \in Jobs, db[job] = "finished"
      PROVE  PolledTable(missed)[job] = "finished"
  <2>1. EntriesOf(active, job) = {}
    BY <1>4 DEF FinishedIdle
  <2>2. job \notin JobsOf(StartedEvents(missed)) /\ job \notin FinishedJobs
    BY <2>1 DEF JobsOf, StartedEvents, FinishedJobs, Ended, EntriesOf
  <2>3. DOMAIN FailedRuns(job) = {}
    BY <2>1 DEF FailedRuns, Ended, EntriesOf
  <2> QED
    BY <1>1, <1>2, <1>3, <1>4, <2>2, <2>3 DEF AfterFailures
<1>5. ASSUME NEW job \in Jobs, PolledTable(missed)[job] = "finished"
      PROVE  EntriesOf(PolledActive, job) = {}
  <2>1. DOMAIN FailedRuns(job) = {} /\ finished[job] = "finished"
    BY <1>3, <1>5 DEF AfterFailures, AfterStops, AfterFailure
  <2>2. CASE job \in FinishedJobs
    BY <2>2 DEF FinishedJobs, JobsOf, PolledActive, EntriesOf
  <2>3. CASE job \notin FinishedJobs
    BY <1>1, <1>2, <2>1, <2>3 DEF FinishedIdle, PolledActive, EntriesOf
  <2> QED
    BY <2>2, <2>3
<1> QED
  BY <1>4, <1>5 DEF FinishedIdle

\* A statement that marks no finished row, and marks rows with another status,
\* leaves the finished rows as they are.
LEMMA MarkFinished ==
  ASSUME Inv, FinishedIdle(db, active), NEW ids, NEW status \in Statuses \ {"finished"},
         \A job \in ids \cap Jobs : db[job] # "finished",
         db' = Mark(db, ids, status), active' \subseteq active
  PROVE  FinishedIdle(db', active') /\ FinishedStays(db)
<1>1. \A job \in Jobs : db'[job] = IF job \in ids THEN status ELSE db[job]
  BY MarkTable DEF Inv, TypeOK, Table
<1> QED
  BY <1>1 DEF FinishedIdle, FinishedStays, EntriesOf

\* Requests whose statement queues a row that is not finished, and schedule.
LEMMA QueueFinished ==
  ASSUME Inv, FinishedIdle(db, active), NEW ids, \A job \in ids \cap Jobs : db[job] # "finished",
         Schedule(Mark(db, ids, "queued"), active, task, stopping)
  PROVE  FinishedIdle(db', active') /\ FinishedStays(db)
<1>1. /\ Mark(db, ids, "queued") \in Table
      /\ \A job \in Jobs : Mark(db, ids, "queued")[job] = IF job \in ids THEN "queued" ELSE db[job]
  BY MarkTable DEF Inv, TypeOK, Table, Statuses
<1>2. FinishedIdle(Mark(db, ids, "queued"), active)
  BY <1>1 DEF FinishedIdle
<1>3. FinishedIdle(db', active') /\ FinishedStays(Mark(db, ids, "queued"))
  BY <1>1, <1>2, ScheduleFinished DEF Inv, TypeOK
<1> QED
  BY <1>1, <1>3 DEF FinishedStays

\* No request reaches a finished row.
LEMMA RequestFinished ==
  ASSUME Inv, FinishedIdle(db, active), NEW job \in Jobs, Request(job)
  PROVE  FinishedIdle(db', active') /\ FinishedStays(db)
<1>1. CASE Enqueue(job)
  BY <1>1, QueueFinished DEF Enqueue, InsertDaemonDownload, IsNextRow, NoRow
<1>2. CASE ResumeJob(job)
  BY <1>2, QueueFinished DEF ResumeJob, ResumeDownload, RowsWith
<1>3. CASE RetryJob(job)
  BY <1>3, QueueFinished DEF RetryJob, RetryDownload, RowsWith
<1>4. CASE PauseJob(job)
  <2>1. active' = active
    BY <1>4 DEF PauseJob, daemonVars
  <2>2. CASE PauseActive(job)
    <3>1. db' = Mark(db, {job}, "paused") /\ EntriesOf(active, job) # {}
      BY <2>2 DEF PauseActive, UpdateDownloadPaused, IsFirstEntry
    <3> QED
      BY <2>1, <3>1, MarkFinished DEF Statuses, FinishedIdle
  <2>3. CASE PauseQueued(job)
    <3>1. db' = Mark(db, {job} \cap RowsWith(db, {"queued"}), "paused")
      BY <2>3 DEF PauseQueued, MarkQueuedPaused
    <3> QED
      BY <2>1, <3>1, MarkFinished DEF Statuses, RowsWith
  <2> QED
    BY <1>4, <2>2, <2>3 DEF PauseJob
<1>5. CASE CancelJob(job)
  <2>1. active' = active /\ db' = Mark(db, {job}, "cancelled")
    BY <1>5 DEF CancelJob, daemonVars, UpdateDownloadCancelled
  <2>2. db[job] # "finished"
    BY <1>5 DEF CancelJob, CancelActive, CancelIdle, IsFirstEntry, FinishedIdle
  <2> QED
    BY <2>1, <2>2, MarkFinished DEF Statuses
<1> QED
  BY <1>1, <1>2, <1>3, <1>4, <1>5 DEF Request

\* Every step leaves the finished jobs finished, and without an entry.
LEMMA NextFinished ==
  ASSUME Inv, FinishedIdle(db, active), [Next]_vars
  PROVE  FinishedIdle(db', active') /\ FinishedStays(db)
<1>1. ASSUME NEW job \in Jobs, Request(job)
      PROVE  FinishedIdle(db', active') /\ FinishedStays(db)
  BY <1>1, RequestFinished
<1>2. CASE PollActive
  <2>1. PICK missed \in SUBSET {run \in Ended : task[run].unread} :
          Schedule(PolledTable(missed), PolledActive, PolledTasks(missed), stopping)
    BY <1>2 DEF PollActive
  <2>2. PolledTable(missed) \in Table
    BY <1>2, PolledInOrder DEF PollActive, Ended
  <2>3. FinishedIdle(db', active') /\ FinishedStays(PolledTable(missed))
    BY <2>1, <2>2, PolledFinished, ScheduleFinished DEF Inv, TypeOK
  <2> QED
    BY <2>3, PolledFinished DEF FinishedStays
<1>3. CASE Shutdown \/ CtrlC
  <2>1. active' = active
    BY <1>3 DEF Shutdown, CtrlC
  <2>2. CASE db' = db
    BY <2>1, <2>2 DEF FinishedIdle, FinishedStays
  <2>3. CASE db' = Mark(db, JobsOf(active), "queued")
    <3>1. \A job \in JobsOf(active) \cap Jobs : db[job] # "finished"
      BY DEF JobsOf, FinishedIdle, EntriesOf
    <3> QED
      BY <2>1, <2>3, <3>1, MarkFinished DEF Statuses
  <2> QED
    BY <1>3, <2>2, <2>3 DEF Shutdown, CtrlC, BeginShutdown, RequeueDownload
<1>4. CASE Exit \/ Crash
  BY <1>4 DEF Exit, Crash, ProcessGone, FinishedIdle, FinishedStays, EntriesOf
<1>5. CASE Restart
  <2>1. /\ RecoverDaemonDownloads(db) \in Table
        /\ \A job \in Jobs : db[job] = "finished" => RecoverDaemonDownloads(db)[job] = "finished"
    BY MarkTable DEF RecoverDaemonDownloads, RowsWith, Statuses, Inv, TypeOK, Table
  <2>2. FinishedIdle(RecoverDaemonDownloads(db), {})
    BY DEF FinishedIdle, EntriesOf
  <2>3. FinishedIdle(db', active') /\ FinishedStays(RecoverDaemonDownloads(db))
    BY <1>5, <2>1, <2>2, ScheduleFinished DEF Restart
  <2> QED
    BY <2>1, <2>3 DEF FinishedStays
<1>6. CASE TaskStep \/ UNCHANGED vars
  BY <1>6 DEF TaskStep, vars, FinishedIdle, FinishedStays
<1> QED
  BY <1>1, <1>2, <1>3, <1>4, <1>5, <1>6 DEF Next

\* A finished job stays finished, whatever its other runs, the clients, a
\* shutdown or a restart do.
THEOREM FinishedJobsAreFinal == Spec => FinishedIsFinal
<1> DEFINE FInv == Inv /\ FinishedIdle(db, active)
<1>1. Init => FInv
  BY InitInv DEF Init, FinishedIdle, EntriesOf
<1>2. FInv /\ [Next]_vars => FInv'
  BY NextInv, NextFinished DEF InvKept, FinishedIdle, EntriesOf
<1>3. FInv /\ [Next]_vars
        => [\A job \in Jobs : db[job] = "finished" => db'[job] = "finished"]_vars
  BY NextFinished DEF FinishedStays
<1> QED
  BY <1>1, <1>2, <1>3, PTL DEF Spec, FinishedIsFinal

-----------------------------------------------------------------------------
(* What the user has stopped *)

\* What StopHolds needs besides Inv: a download that returns has an outcome.
Decided(tasks) ==
  \A run \in DOMAIN tasks : tasks[run].pc \in {"leave", "ended"} => tasks[run].outcome # "none"

LEMMA ScheduleDecided ==
  ASSUME NEW table, NEW act, NEW tasks, NEW halted, Decided(tasks),
         Schedule(table, act, tasks, halted)
  PROVE  Decided(task')
BY DEF Schedule, StartClaimed, Decided, NewTask

LEMMA SignalDecided ==
  ASSUME NEW tasks, tasks \in [DOMAIN tasks -> Tasks], Decided(tasks), NEW receivers, NEW signal
  PROVE  Decided(Signal(tasks, receivers, signal))
BY DEF Decided, Signal, Tasks

LEMMA TaskStepDecided ==
  ASSUME Inv, Decided(task), TaskStep
  PROVE  Decided(task')
<1>1. task \in [DOMAIN task -> Tasks]
  BY DEF Inv, TypeOK
<1>2. ASSUME NEW run \in DOMAIN task, NEW outcome \in Outcomes \ {"none"}, End(run, outcome)
      PROVE  Decided(task')
  BY <1>1, <1>2 DEF End, Decided, Tasks
<1>3. PICK run \in DOMAIN task :
        ProbeOk(run) \/ ProbeFail(run) \/ Finish(run) \/ Fail(run) \/ ObserveStop(run) \/ Leave(run)
  BY DEF TaskStep
<1>4. CASE ProbeFail(run) \/ Finish(run) \/ Fail(run)
  BY <1>2, <1>4 DEF ProbeFail, Finish, Fail, Outcomes
<1>5. CASE Leave(run)
  <2>1. task[run].outcome \in Outcomes \ {"none"}
    BY <1>1, <1>5 DEF Leave, Decided, Tasks
  <2> QED
    BY <1>2, <1>5, <2>1 DEF Leave
<1>6. CASE ProbeOk(run) \/ ObserveStop(run)
  <2>1. task[run] \in Tasks
    BY <1>1
  <2>2. /\ DOMAIN task' = DOMAIN task
        /\ \A other \in DOMAIN task : other # run => task'[other] = task[other]
    BY <1>6 DEF ProbeOk, ObserveStop
  <2>3. CASE ProbeOk(run)
    BY <1>1, <2>1, <2>3 DEF ProbeOk, Decided, Tasks
  <2>4. CASE ObserveStop(run)
    <3>1. task'[run].outcome = IF task[run].signal = "pause" THEN "interrupted" ELSE "cancelled"
      BY <1>1, <2>1, <2>4 DEF ObserveStop, Tasks
    <3>2. task'[run].outcome # "none"
      BY <3>1
    <3> QED
      BY <2>2, <3>2 DEF Decided
  <2> QED
    BY <1>6, <2>3, <2>4
<1> QED
  BY <1>3, <1>4, <1>5, <1>6

LEMMA NextDecided ==
  ASSUME Inv, Decided(task), [Next]_vars
  PROVE  Decided(task')
<1>1. task \in [DOMAIN task -> Tasks]
  BY DEF Inv, TypeOK
<1>2. ASSUME NEW job \in Jobs, Request(job)
      PROVE  Decided(task')
  <2>1. CASE Enqueue(job) \/ ResumeJob(job) \/ RetryJob(job)
    BY <2>1, ScheduleDecided DEF Enqueue, ResumeJob, RetryJob
  <2>2. CASE PauseJob(job) \/ CancelJob(job)
    BY <1>1, <2>2, SignalDecided
    DEF PauseJob, PauseActive, PauseQueued, CancelJob, CancelActive, CancelIdle
  <2> QED
    BY <1>2, <2>1, <2>2 DEF Request
<1>3. CASE PollActive
  <2>1. ASSUME NEW missed PROVE Decided(PolledTasks(missed))
    BY <1>1 DEF Decided, PolledTasks, Tasks
  <2> QED
    BY <1>3, <2>1, ScheduleDecided DEF PollActive
<1>4. CASE Shutdown
  BY <1>1, <1>4, SignalDecided DEF Shutdown, BeginShutdown
<1>5. CASE CtrlC
  <2>1. ASSUME NEW hearing
        PROVE  /\ Interrupted(hearing) \in [DOMAIN Interrupted(hearing) -> Tasks]
               /\ Decided(Interrupted(hearing))
    BY <1>1 DEF Interrupted, Decided, Tasks, Outcomes, Signals
  <2> QED
    BY <1>5, <2>1, SignalDecided DEF CtrlC, BeginShutdown
<1>6. CASE Exit \/ Crash
  BY <1>6 DEF Exit, Crash, ProcessGone, NoTasks, Decided
<1>7. CASE Restart
  <2>1. Decided(NoTasks)
    BY DEF NoTasks, Decided
  <2> QED
    BY <1>7, <2>1, ScheduleDecided DEF Restart
<1>8. CASE TaskStep
  BY <1>8, TaskStepDecided
<1>9. CASE UNCHANGED vars
  BY <1>9 DEF vars
<1> QED
  BY <1>2, <1>3, <1>4, <1>5, <1>6, <1>7, <1>8, <1>9 DEF Next

\* One failed run, with no stop but its row's own, leaves the row as it is.
LEMMA OneFailure ==
  ASSUME NEW status \in {"paused", "cancelled"}, NEW failed, NEW n \in Nat, DOMAIN failed = {n},
         failed[n] \in {"error", IF status = "paused" THEN "interrupted" ELSE "cancelled"}
  PROVE  AfterFailures(status, failed) = status
<1>1. CASE failed[n] = "error"
  BY <1>1 DEF AfterFailures, Stops, AfterFailure
<1>2. CASE failed[n] # "error"
  <2>1. Stops(failed) = {n}
    BY <1>2 DEF Stops
  <2>2. Last({n}) = n
    BY DEF Last
  <2>3. AfterFailures(status, failed) = AfterStops(status, failed)
    BY <2>1, <2>2 DEF AfterFailures
  <2>4. AfterStops(status, failed) = status
    BY <1>2, <2>1, <2>2 DEF AfterStops
  <2> QED
    BY <2>3, <2>4
<1> QED
  BY <1>1, <1>2

\* The premise of StopHolds for one job.
StopIsHeld(job, stop) ==
  /\ db[job] = stop
  /\ Cardinality(EntriesOf(active, job)) <= 1
  /\ \A run \in EntriesOf(active, job) :
       /\ task[run].pc # "probe" /\ ~task[run].unread
       /\ {task[run].outcome, task[run].signal} \cap Undoing[stop] = {}

LEMMA OneEntry ==
  ASSUME Inv, NEW job, Cardinality(EntriesOf(active, job)) <= 1,
         NEW run \in EntriesOf(active, job), NEW other \in EntriesOf(active, job)
  PROVE  run = other
<1>1. EntriesOf(active, job) \subseteq active
  BY DEF EntriesOf
<1>2. IsFiniteSet(EntriesOf(active, job))
  BY <1>1, FS_Subset DEF Inv, EntriesOK
<1>3. Cardinality(EntriesOf(active, job)) \in Nat
  BY <1>2, FS_CardinalityType
<1>4. Cardinality(EntriesOf(active, job)) # 0
  BY <1>2, FS_EmptySet
<1>5. \E x : EntriesOf(active, job) = {x}
  BY <1>2, <1>3, <1>4, FS_Singleton
<1> QED
  BY <1>5

\* The tick sees of such a job no event, and at most one run, which has finished
\* or come to what the row says.
LEMMA PolledHolds ==
  ASSUME Inv, Decided(task), NEW missed, NEW job \in Jobs, NEW stop \in {"paused", "cancelled"},
         StopIsHeld(job, stop)
  PROVE  PolledTable(missed)[job] \in {stop, "finished"}
<1> DEFINE started  == UpdateDownloadStarted(db, JobsOf(StartedEvents(missed)))
           finished == UpdateDownloadFinished(started, FinishedJobs)
<1>1. started \in Table /\ started[job] = stop
  <2>1. job \notin JobsOf(StartedEvents(missed))
    BY DEF StopIsHeld, JobsOf, StartedEvents, EntriesOf
  <2> QED
    BY <2>1, MarkTable DEF UpdateDownloadStarted, Statuses, Inv, TypeOK, Table, StopIsHeld
<1>2. finished[job] = IF job \in FinishedJobs THEN "finished" ELSE stop
  <2> HIDE DEF started
  <2> QED
    BY <1>1, MarkTable DEF UpdateDownloadFinished, Statuses
<1> HIDE DEF started, finished
<1>3. PolledTable(missed)[job] = AfterFailures(finished[job], FailedRuns(job))
  BY DEF PolledTable, finished, started
<1>4. CASE DOMAIN FailedRuns(job) = {}
  BY <1>2, <1>3, <1>4 DEF AfterFailures
<1>5. CASE DOMAIN FailedRuns(job) # {}
  <2>1. PICK run \in EntriesOf(Ended, job) : task[run].outcome # "finished"
    BY <1>5 DEF FailedRuns
  <2>2. /\ run \in EntriesOf(active, job) /\ run \in DOMAIN task /\ task[run].pc = "ended"
        /\ run \in Runs /\ task[run] \in Tasks
    BY <2>1 DEF EntriesOf, Ended, Inv, EntriesOK, TypeOK
  <2>3. run = <<job, run[2]>> /\ run[2] \in Nat
    BY <2>2 DEF Runs, EntriesOf, Job
  <2>4. \A other \in EntriesOf(Ended, job) : other = run
    <3>1. EntriesOf(Ended, job) \subseteq EntriesOf(active, job)
      BY DEF EntriesOf, Ended
    <3> QED
      BY <2>2, <3>1, OneEntry DEF StopIsHeld
  <2>5. DOMAIN FailedRuns(job) = {run[2]} /\ FailedRuns(job)[run[2]] = task[run].outcome
    BY <2>1, <2>3, <2>4 DEF FailedRuns
  <2>6. job \notin FinishedJobs
    BY <2>1, <2>4 DEF FinishedJobs, JobsOf, EntriesOf
  <2>7. task[run].outcome \in {"error", IF stop = "paused" THEN "interrupted" ELSE "cancelled"}
    <3>1. task[run].outcome \in {"interrupted", "cancelled", "error"}
      BY <2>1, <2>2 DEF Decided, Tasks, Outcomes
    <3>2. task[run].outcome \notin Undoing[stop]
      BY <2>2 DEF StopIsHeld
    <3> QED
      BY <3>1, <3>2 DEF Undoing
  <2> QED
    BY <1>2, <1>3, <2>3, <2>5, <2>6, <2>7, OneFailure
<1> QED
  BY <1>4, <1>5

\* Schedule changes queued rows only.
LEMMA ScheduleLeaves ==
  ASSUME NEW table \in Table, NEW act, NEW tasks, NEW halted \in BOOLEAN,
         Schedule(table, act, tasks, halted)
  PROVE  \A job \in Jobs : table[job] # "queued" => db'[job] = table[job]
<1>1. PICK claimed \in IF halted THEN {{}} ELSE SUBSET RowsWith(table, {"queued"}) :
        db' = ClaimDaemonDownloads(table, claimed)
  BY DEF Schedule, StartClaimed
<1>2. \A job \in Jobs : db'[job] = IF job \in claimed THEN "starting" ELSE table[job]
  BY <1>1, MarkTable DEF ClaimDaemonDownloads, Statuses
<1>3. \A job \in claimed : table[job] = "queued"
  BY <1>1 DEF RowsWith
<1> QED
  BY <1>2, <1>3

LEMMA StopKept ==
  ASSUME Inv, Decided(task), [Next]_vars, spent' = spent,
         NEW job \in Jobs, NEW stop \in {"paused", "cancelled"}, StopIsHeld(job, stop)
  PROVE  db'[job] \in {stop, "finished"}
<1>1. spent' # spent + 1 /\ db[job] = stop /\ db \in Table
  BY DEF Inv, TypeOK, StopIsHeld, Table
<1>2. ASSUME NEW other \in Jobs, Request(other)
      PROVE  db'[job] = stop
  <2>1. Enqueue(other)
    BY <1>1, <1>2 DEF Request, PauseJob, ResumeJob, CancelJob, RetryJob, Command
  <2>2. other # job
    BY <1>1, <2>1 DEF Enqueue, IsNextRow, NoRow
  <2>3. /\ InsertDaemonDownload(db, other) \in Table
        /\ InsertDaemonDownload(db, other)[job] = stop
    BY <1>1, <2>2, MarkTable DEF InsertDaemonDownload, Statuses
  <2> QED
    BY <2>1, <2>3, ScheduleLeaves DEF Enqueue, Inv, TypeOK
<1>3. CASE PollActive
  <2>1. PICK missed \in SUBSET {run \in Ended : task[run].unread} :
          Schedule(PolledTable(missed), PolledActive, PolledTasks(missed), stopping)
    BY <1>3 DEF PollActive
  <2>2. PolledTable(missed) \in Table
    BY <1>3, PolledInOrder DEF PollActive, Ended
  <2>3. PolledTable(missed)[job] \in {stop, "finished"}
    BY PolledHolds
  <2>4. db'[job] = PolledTable(missed)[job]
    BY <2>1, <2>2, <2>3, ScheduleLeaves DEF Inv, TypeOK
  <2> QED
    BY <2>3, <2>4
<1>4. CASE Shutdown \/ CtrlC \/ Crash
  BY <1>1, <1>4 DEF Shutdown, CtrlC, Crash
<1>5. CASE Exit \/ TaskStep \/ UNCHANGED vars
  BY <1>1, <1>5 DEF Exit, ProcessGone, TaskStep, vars
<1>6. CASE Restart
  <2>1. RecoverDaemonDownloads(db) \in Table /\ RecoverDaemonDownloads(db)[job] = stop
    BY <1>1, MarkTable DEF RecoverDaemonDownloads, RowsWith, Statuses
  <2> QED
    BY <1>6, <2>1, ScheduleLeaves DEF Restart
<1> QED
  BY <1>2, <1>3, <1>4, <1>5, <1>6 DEF Next

\* What the user has paused or cancelled stays so until the next command or
\* shutdown, unless it turns out to have finished; as long as the stop found a
\* single run that had started and no other stop is on its way.
THEOREM StopsHold == Spec => StopHolds
<1> DEFINE DInv == Inv /\ Decided(task)
<1>1. Init => DInv
  BY InitInv DEF Init, NoTasks, Decided
<1>2. DInv /\ [Next]_vars => DInv'
  BY NextInv, NextDecided DEF InvKept, Decided
<1>3. DInv /\ [Next]_vars
        => [\A job \in Jobs, stop \in DOMAIN Undoing :
              /\ db[job] = stop
              /\ Cardinality(EntriesOf(active, job)) <= 1
              /\ \A run \in EntriesOf(active, job) :
                   /\ task[run].pc # "probe" /\ ~task[run].unread
                   /\ {task[run].outcome, task[run].signal} \cap Undoing[stop] = {}
              /\ spent' = spent
              => db'[job] \in {stop, "finished"}]_vars
  <2>1. DOMAIN Undoing = {"paused", "cancelled"}
    BY DEF Undoing
  <2> QED
    BY <2>1, StopKept DEF StopIsHeld
<1> QED
  BY <1>1, <1>2, <1>3, PTL DEF Spec, StopHolds

-----------------------------------------------------------------------------
(* The daemon implements the abstract queue.                                 *)
(* A step of the daemon prepares a table and some entries and then starts    *)
(* downloads, or none.  What it may prepare is Prepared, job by job; what    *)
(* the queue sees of such a step is PreparedStep; each action prepares no    *)
(* more than it may.                                                         *)

\* A job with an entry has a row.
EntriesHaveRows(table, act) ==
  \A job \in Jobs : EntriesOf(act, job) # {} => table[job] # NoRow

QueueInv == Inv /\ EntriesHaveRows(db, active)

\* A command of a client takes the job out of its rest.
Revived(job) == spent' = spent + 1 /\ said'[job] \in {"resume", "retry"}

\* What a step may make of the row of a job without an entry before it starts
\* downloads.
RowMayBecome(job, status) ==
  \/ status = db[job]
  \/ db[job] = NoRow /\ status = "queued"
  \/ /\ db[job] \in {"queued", "starting", "running"}
     /\ status \in {"queued", "starting", "paused", "cancelled"}
  \/ db[job] \in {"paused", "failed", "cancelled"} /\ status \in {"paused", "cancelled"}
  \/ db[job] \in {"paused", "failed", "cancelled"} /\ status = "queued" /\ Revived(job)

\* No step adds an entry but by a start, or takes a row away.
Prepared(table, act) ==
  /\ table \in Table
  /\ act \subseteq active
  /\ \A job \in Jobs :
       /\ EntriesOf(active, job) # {} => table[job] # NoRow
       /\ EntriesOf(active, job) = {} => RowMayBecome(job, table[job])

\* The rows that are claimed are the oldest of the queued ones.
Oldest(table, claimed) ==
  /\ claimed \subseteq RowsWith(table, {"queued"})
  /\ \A job \in claimed, other \in RowsWith(table, {"queued"}) \ claimed : job < other

-----------------------------------------------------------------------------
(* The view the queue has of a step *)

\* Cardinality is the same operator in both modules.
LEMMA QueueCardinality ==
  ASSUME NEW set
  PROVE  Queue!Cardinality(set) = Cardinality(set)
  BY DEF Queue!Cardinality, Cardinality

\* There are no more busy jobs than entries.
LEMMA BusyBounded ==
  ASSUME NEW act, IsFiniteSet(act), Cardinality(act) <= MaxConcurrent,
         NEW busy \in SUBSET Jobs, \A job \in busy : EntriesOf(act, job) # {}
  PROVE  Cardinality(busy) <= MaxConcurrent
<1> DEFINE f == [run \in act |-> Job(run)]
<1>1. IsFiniteSet(JobsOf(act)) /\ Cardinality(JobsOf(act)) <= Cardinality(act)
  <2>1. f \in Surjection(act, JobsOf(act))
    BY DEF Surjection, JobsOf
  <2> QED
    BY <2>1, FS_Surjection
<1>2. busy \subseteq JobsOf(act)
  BY DEF JobsOf, EntriesOf
<1>3. IsFiniteSet(busy) /\ Cardinality(busy) <= Cardinality(JobsOf(act))
  BY <1>1, <1>2, FS_Subset
<1>4. /\ Cardinality(busy) \in Nat /\ Cardinality(JobsOf(act)) \in Nat
      /\ Cardinality(act) \in Nat
  BY <1>1, <1>3, FS_CardinalityType
<1> QED
  BY <1>1, <1>3, <1>4, ConstantsAssumption

\* What the queue sees of a step that has prepared a table and some entries and
\* has started the oldest queued jobs, or none.
LEMMA PreparedStep ==
  ASSUME QueueInv, NEW table, NEW act, Prepared(table, act),
         NEW claimed, Oldest(table, claimed), claimed # {} => Covered(db', active'),
         \A job \in Jobs : db'[job] = IF job \in claimed THEN "starting" ELSE table[job],
         \A job \in Jobs :
           EntriesOf(active', job) # {} <=> EntriesOf(act, job) # {} \/ job \in claimed,
         IsFiniteSet(active'), Cardinality(active') <= MaxConcurrent
  PROVE  Queue!QueueStep /\ EntriesHaveRows(db', active')
<1> DEFINE before(job) == QueueState(db, active, job)
           after(job)  == QueueState(db', active', job)
<1>1. \A job \in Jobs : EntriesOf(act, job) # {} => EntriesOf(active, job) # {}
  BY DEF Prepared, EntriesOf
<1>2. db \in Table /\ table \in Table
  BY DEF QueueInv, Inv, TypeOK, Table, Prepared
<1>3. \A job \in Jobs : after(job) = "busy" <=> EntriesOf(active', job) # {}
  BY DEF QueueState
<1>4. \A job \in Jobs : before(job) = "busy" <=> EntriesOf(active, job) # {}
  BY DEF QueueState
<1>5. \A job \in claimed : job \in Jobs /\ table[job] = "queued"
  BY <1>2 DEF Oldest, RowsWith, Table
<1>6. EntriesHaveRows(db', active')
  BY <1>1, <1>5 DEF EntriesHaveRows, Prepared, NoRow
<1>7. ASSUME NEW job \in Jobs PROVE after(job) \in Queue!Successors[before(job)]
  <2>1. CASE job \in claimed
    <3>1. after(job) = "busy"
      BY <1>3, <2>1
    <3>2. before(job) # "finished"
      BY <1>1, <1>5, <2>1 DEF QueueState, Prepared, RowMayBecome, NoRow
    <3>3. before(job) \in {"none", "waiting", "busy", "resting", "finished"}
      BY DEF QueueState
    <3> QED
      BY <3>1, <3>2, <3>3 DEF Queue!Successors
  <2>2. CASE job \notin claimed /\ EntriesOf(active, job) # {}
    <3>1. before(job) = "busy" /\ db'[job] # NoRow
      BY <1>4, <2>2 DEF Prepared
    <3>2. after(job) \in {"busy", "waiting", "finished", "resting"}
      BY <3>1 DEF QueueState
    <3> QED
      BY <3>1, <3>2 DEF Queue!Successors
  <2>3. CASE job \notin claimed /\ EntriesOf(active, job) = {}
    <3>1. EntriesOf(active', job) = {} /\ db'[job] = table[job] /\ RowMayBecome(job, table[job])
      BY <1>1, <2>3 DEF Prepared
    <3>2. db[job] \in Statuses \cup {NoRow}
      BY <1>2 DEF Table
    <3> QED
      BY <2>3, <3>1, <3>2 DEF QueueState, RowMayBecome, Queue!Successors, Statuses, NoRow
  <2> QED
    BY <2>1, <2>2, <2>3
<1>8. Cardinality({job \in Jobs : after(job) = "busy"}) <= MaxConcurrent
  <2> DEFINE busy == {job \in Jobs : after(job) = "busy"}
  <2>1. busy \in SUBSET Jobs /\ \A job \in busy : EntriesOf(active', job) # {}
    BY <1>3
  <2> HIDE DEF busy
  <2>2. Cardinality(busy) <= MaxConcurrent
    BY <2>1, BusyBounded
  <2> QED
    BY <2>2 DEF busy
<1>9. ASSUME NEW older \in Jobs, NEW job \in Jobs,
             older < job, before(job) # "busy", after(job) = "busy", after(older) = "waiting"
      PROVE  FALSE
  <2>1. job \in claimed
    BY <1>1, <1>3, <1>4, <1>9
  <2>2. older \notin claimed /\ EntriesOf(active', older) = {}
    BY <1>3, <1>9
  <2>3. db'[older] \in {"queued", "starting", "running"}
    BY <1>9, <2>2 DEF QueueState
  <2>4. table[older] = "queued"
    BY <2>1, <2>2, <2>3 DEF Covered
  <2>5. older \in RowsWith(table, {"queued"}) \ claimed
    BY <1>2, <2>2, <2>4 DEF RowsWith, Table
  <2>6. job < older
    BY <2>1, <2>5 DEF Oldest
  <2> QED
    BY <1>9, <2>6 DEF Jobs
<1>10. ASSUME NEW job \in Jobs, before(job) = "resting", after(job) # "resting"
       PROVE  Revived(job)
  <2>1. EntriesOf(active, job) = {} /\ db[job] \in {"paused", "failed", "cancelled"}
    BY <1>2, <1>10 DEF QueueState, Table, Statuses, NoRow
  <2>2. RowMayBecome(job, table[job])
    BY <2>1 DEF Prepared
  <2>3. CASE table[job] \in {"paused", "failed", "cancelled"}
    <3>1. job \notin claimed /\ db'[job] = table[job] /\ EntriesOf(active', job) = {}
      BY <1>1, <1>5, <2>1, <2>3
    <3>2. after(job) = "resting"
      BY <2>3, <3>1 DEF QueueState, NoRow
    <3> QED
      BY <1>10, <3>2
  <2> QED
    BY <2>1, <2>2, <2>3 DEF RowMayBecome, NoRow
<1> DEFINE state == [job \in Jobs |-> QueueState(db, active, job)]
<1>11. \A job \in Jobs : state[job] = before(job) /\ (state')[job] = after(job)
  OBVIOUS
<1> HIDE DEF state, before, after
<1>12. \A job \in Jobs : (state')[job] \in Queue!Successors[state[job]]
  BY <1>7, <1>11
<1>13. Cardinality({job \in Jobs : (state')[job] = "busy"}) <= MaxConcurrent
  <2>1. {job \in Jobs : (state')[job] = "busy"} = {job \in Jobs : after(job) = "busy"}
    BY <1>11
  <2> QED
    BY <1>8, <2>1
<1>14. \A older, job \in Jobs :
         older < job /\ state[job] # "busy" /\ (state')[job] = "busy" => (state')[older] # "waiting"
  BY <1>9, <1>11
<1>15. \A job \in Jobs : state[job] = "resting" /\ (state')[job] # "resting" => Revived(job)
  BY <1>10, <1>11
<1>16. Queue!SlotsKept
  BY <1>13, QueueCardinality DEF Queue!SlotsKept, state
<1>17. Queue!InOrder
  BY <1>14 DEF Queue!InOrder, state
<1>18. Queue!RestKept
  BY <1>15 DEF Queue!RestKept, Revived, state
<1>19. Queue!QueueStep
  BY <1>12, <1>16, <1>17, <1>18 DEF Queue!QueueStep, state
<1> QED
  BY <1>6, <1>19

\* A step that claims the oldest queued rows, as many as there are free slots or
\* fewer, and starts their downloads.
LEMMA StartingStep ==
  ASSUME QueueInv, NEW table, NEW act, NEW tasks, Prepared(table, act),
         TasksOK(tasks, runs), EntriesOK(act, tasks), Covered(table, act),
         NEW claimed, Oldest(table, claimed),
         claimed = {} \/ Cardinality(claimed) <= MaxConcurrent - Cardinality(act),
         StartClaimed(table, act, tasks, claimed)
  PROVE  Queue!QueueStep /\ EntriesHaveRows(db', active')
<1>1. table \in Table /\ runs \in [Jobs -> Nat]
  BY DEF Prepared, QueueInv, Inv, TypeOK
<1>2. claimed \in SUBSET Jobs
  BY <1>1 DEF Oldest, RowsWith, Table
<1>3. /\ \A job \in Jobs : db'[job] = IF job \in claimed THEN "starting" ELSE table[job]
      /\ EntriesOK(active', task')
      /\ Covered(db', active')
  BY <1>1, <1>2, ClaimsKeep
<1>4. ASSUME NEW job \in Jobs
      PROVE  EntriesOf(active', job) # {} <=> EntriesOf(act, job) # {} \/ job \in claimed
  <2>1. active' = act \cup NextRuns(claimed)
    BY DEF StartClaimed
  <2>2. job \in claimed => <<job, runs[job] + 1>> \in EntriesOf(active', job)
    BY <2>1 DEF NextRuns, EntriesOf, Job
  <2>3. \A run \in NextRuns(claimed) : Job(run) \in claimed
    BY DEF NextRuns, Job
  <2> QED
    BY <2>1, <2>2, <2>3 DEF EntriesOf
<1> QED
  BY <1>3, <1>4, PreparedStep DEF EntriesOK

\* A step that schedules.
LEMMA SchedulingStepMaps ==
  ASSUME QueueInv, NEW table, NEW act, NEW tasks, NEW halted \in BOOLEAN, Prepared(table, act),
         TasksOK(tasks, runs), EntriesOK(act, tasks), Covered(table, act),
         Schedule(table, act, tasks, halted)
  PROVE  Queue!QueueStep /\ EntriesHaveRows(db', active')
<1>1. PICK claimed \in IF halted THEN {{}} ELSE SUBSET RowsWith(table, {"queued"}) :
        /\ halted \/ ClaimedBy(table, claimed, MaxConcurrent - Cardinality(act))
        /\ StartClaimed(table, act, tasks, claimed)
  BY DEF Schedule
<1>2. Oldest(table, claimed)
  BY <1>1 DEF ClaimedBy, Oldest
<1>3. claimed = {} \/ Cardinality(claimed) <= MaxConcurrent - Cardinality(act)
  BY <1>1 DEF ClaimedBy
<1> QED
  BY <1>1, <1>2, <1>3, StartingStep

\* A step that starts nothing.
LEMMA KeepingStepMaps ==
  ASSUME QueueInv, Prepared(db', active')
  PROVE  Queue!QueueStep /\ EntriesHaveRows(db', active')
<1>1. IsFiniteSet(active') /\ Cardinality(active') <= MaxConcurrent
  <2>1. IsFiniteSet(active) /\ Cardinality(active) <= MaxConcurrent
    BY DEF QueueInv, Inv, EntriesOK
  <2>2. IsFiniteSet(active') /\ Cardinality(active') <= Cardinality(active)
    BY <2>1, FS_Subset DEF Prepared
  <2>3. Cardinality(active') \in Nat /\ Cardinality(active) \in Nat
    BY <2>1, <2>2, FS_CardinalityType
  <2> QED
    BY <2>1, <2>2, <2>3, ConstantsAssumption
<1>2. Oldest(db', {})
  BY DEF Oldest
<1> QED
  BY <1>1, <1>2, PreparedStep

\* A step that marks rows of jobs with entries, and rows of others as it may.
LEMMA MarkPrepares ==
  ASSUME QueueInv, NEW ids, NEW status \in Statuses,
         \A job \in ids \cap Jobs : EntriesOf(active, job) = {} => RowMayBecome(job, status)
  PROVE  Prepared(Mark(db, ids, status), active)
<1>1. /\ Mark(db, ids, status) \in Table
      /\ \A job \in Jobs : Mark(db, ids, status)[job] = IF job \in ids THEN status ELSE db[job]
  BY MarkTable DEF QueueInv, Inv, TypeOK, Table
<1> QED
  BY <1>1 DEF Prepared, RowMayBecome, QueueInv, EntriesHaveRows, Statuses, NoRow

-----------------------------------------------------------------------------
(* The actions *)

\* Enqueue, resume and retry prepare the table they hand to schedule.
LEMMA QueuedPrepared ==
  ASSUME QueueInv, NEW job \in Jobs
  PROVE  /\ IsNextRow(db, job) => Prepared(InsertDaemonDownload(db, job), active)
         /\ spent' = spent + 1 /\ said' = [said EXCEPT ![job] = "resume"] =>
              Prepared(ResumeDownload(db, job), active)
         /\ spent' = spent + 1 /\ said' = [said EXCEPT ![job] = "retry"] =>
              Prepared(RetryDownload(db, job), active)
<1>1. IsNextRow(db, job) => Prepared(InsertDaemonDownload(db, job), active)
  BY MarkPrepares DEF InsertDaemonDownload, IsNextRow, RowMayBecome, Statuses
<1>2. ASSUME spent' = spent + 1, said' = [said EXCEPT ![job] = "resume"]
      PROVE  Prepared(ResumeDownload(db, job), active)
  <2>1. said'[job] = "resume"
    BY <1>2 DEF QueueInv, Inv, TypeOK
  <2> QED
    BY <1>2, <2>1, MarkPrepares DEF ResumeDownload, RowsWith, RowMayBecome, Revived, Statuses
<1>3. ASSUME spent' = spent + 1, said' = [said EXCEPT ![job] = "retry"]
      PROVE  Prepared(RetryDownload(db, job), active)
  <2>1. said'[job] = "retry"
    BY <1>3 DEF QueueInv, Inv, TypeOK
  <2> QED
    BY <1>3, <2>1, MarkPrepares DEF RetryDownload, RowsWith, RowMayBecome, Revived, Statuses
<1> QED
  BY <1>1, <1>2, <1>3

\* Each request is a step of the queue.
LEMMA RequestMaps ==
  ASSUME QueueInv, NEW job \in Jobs, Request(job)
  PROVE  Queue!QueueStep /\ EntriesHaveRows(db', active')
<1>1. TasksOK(task, runs) /\ EntriesOK(active, task) /\ stopping \in BOOLEAN
  BY DEF QueueInv, Inv, TypeOK, TasksOK
<1>2. up
  BY DEF Request, Enqueue, PauseJob, ResumeJob, CancelJob, RetryJob, Command
<1>3. CASE Enqueue(job)
  BY <1>1, <1>2, <1>3, QueuedPrepared, QueuedInOrder, SchedulingStepMaps DEF Enqueue, QueueInv
<1>4. CASE ResumeJob(job)
  BY <1>1, <1>2, <1>4, QueuedPrepared, QueuedInOrder, SchedulingStepMaps
  DEF ResumeJob, Command, QueueInv
<1>5. CASE RetryJob(job)
  BY <1>1, <1>2, <1>5, QueuedPrepared, QueuedInOrder, SchedulingStepMaps
  DEF RetryJob, Command, QueueInv
<1>6. CASE PauseJob(job)
  <2>1. active' = active
    BY <1>6 DEF PauseJob, daemonVars
  <2>2. CASE PauseActive(job)
    <3>1. db' = Mark(db, {job}, "paused") /\ EntriesOf(active, job) # {}
      BY <2>2 DEF PauseActive, UpdateDownloadPaused, IsFirstEntry
    <3> QED
      BY <2>1, <3>1, MarkPrepares, KeepingStepMaps DEF Statuses
  <2>3. CASE PauseQueued(job)
    <3>1. db' = Mark(db, {job} \cap RowsWith(db, {"queued"}), "paused")
      BY <2>3 DEF PauseQueued, MarkQueuedPaused
    <3>2. \A one \in ({job} \cap RowsWith(db, {"queued"})) \cap Jobs : RowMayBecome(one, "paused")
      BY DEF RowsWith, RowMayBecome
    <3> QED
      BY <2>1, <3>1, <3>2, MarkPrepares, KeepingStepMaps DEF Statuses
  <2> QED
    BY <1>6, <2>2, <2>3 DEF PauseJob
<1>7. CASE CancelJob(job)
  <2>1. active' = active /\ db' = Mark(db, {job}, "cancelled")
    BY <1>7 DEF CancelJob, daemonVars, UpdateDownloadCancelled
  <2>2. EntriesOf(active, job) = {} => RowMayBecome(job, "cancelled")
    BY <1>7 DEF CancelJob, CancelActive, CancelIdle, IsFirstEntry, RowMayBecome
  <2> QED
    BY <2>1, <2>2, MarkPrepares, KeepingStepMaps DEF Statuses
<1> QED
  BY <1>3, <1>4, <1>5, <1>6, <1>7 DEF Request

\* The tick leaves the row of a job without an entry as it is, and takes no row
\* away.
LEMMA PolledPrepared ==
  ASSUME QueueInv, up, NEW missed \in SUBSET active
  PROVE  /\ Prepared(PolledTable(missed), PolledActive)
         /\ \A job \in Jobs : EntriesOf(active, job) = {} => PolledTable(missed)[job] = db[job]
<1> DEFINE started  == UpdateDownloadStarted(db, JobsOf(StartedEvents(missed)))
           finished == UpdateDownloadFinished(started, FinishedJobs)
<1>1. /\ started \in Table
      /\ \A job \in Jobs : started[job] = IF job \in JobsOf(StartedEvents(missed))
                                            THEN "running" ELSE db[job]
  BY MarkTable DEF UpdateDownloadStarted, Statuses, QueueInv, Inv, TypeOK, Table
<1>2. /\ finished \in Table
      /\ \A job \in Jobs : finished[job] = IF job \in FinishedJobs
                                             THEN "finished" ELSE started[job]
  <2> HIDE DEF started
  <2> QED
    BY <1>1, MarkTable DEF UpdateDownloadFinished, Statuses
<1> HIDE DEF started, finished
<1>3. PolledTable(missed) = [job \in Jobs |-> AfterFailures(finished[job], FailedRuns(job))]
  BY DEF PolledTable, finished, started
<1>4. PolledTable(missed) \in Table
  BY PolledInOrder DEF QueueInv
<1>5. ASSUME NEW job \in Jobs, EntriesOf(active, job) = {}
      PROVE  PolledTable(missed)[job] = db[job]
  <2>1. job \notin JobsOf(StartedEvents(missed)) /\ job \notin FinishedJobs
    BY <1>5 DEF JobsOf, StartedEvents, FinishedJobs, Ended, EntriesOf
  <2>2. DOMAIN FailedRuns(job) = {}
    BY <1>5 DEF FailedRuns, Ended, EntriesOf
  <2> QED
    BY <1>1, <1>2, <1>3, <2>1, <2>2 DEF AfterFailures
<1>6. ASSUME NEW job \in Jobs, EntriesOf(active, job) # {}
      PROVE  PolledTable(missed)[job] # NoRow
  <2>1. finished[job] # NoRow
    BY <1>1, <1>2, <1>6 DEF QueueInv, EntriesHaveRows, NoRow
  <2> QED
    BY <1>3, <2>1 DEF AfterFailures, AfterStops, AfterFailure, NoRow
<1> QED
  BY <1>4, <1>5, <1>6 DEF Prepared, PolledActive, RowMayBecome

\* Every step of a daemon whose statements do not fail is a step of the queue,
\* or changes nothing that the queue sees.
LEMMA NextMaps ==
  ASSUME QueueInv, Next
  PROVE  (Queue!QueueStep \/ UNCHANGED Queue!queueVars) /\ EntriesHaveRows(db', active')
<1>1. ASSUME NEW job \in Jobs, Request(job)
      PROVE  Queue!QueueStep /\ EntriesHaveRows(db', active')
  BY <1>1, RequestMaps
<1>2. CASE PollActive
  <2>1. PICK missed \in SUBSET {run \in Ended : task[run].unread} :
          Schedule(PolledTable(missed), PolledActive, PolledTasks(missed), stopping)
    BY <1>2 DEF PollActive
  <2>2. missed \in SUBSET active /\ up /\ stopping \in BOOLEAN
    BY <1>2 DEF PollActive, Ended, QueueInv, Inv, TypeOK
  <2> QED
    BY <2>1, <2>2, PolledInOrder, PolledPrepared, SchedulingStepMaps DEF QueueInv
<1>3. CASE Shutdown \/ CtrlC
  <2>1. active' = active
    BY <1>3 DEF Shutdown, CtrlC
  <2>2. CASE db' = db
    BY <2>1, <2>2, KeepingStepMaps
    DEF Prepared, RowMayBecome, QueueInv, EntriesHaveRows, Inv, TypeOK, Table
  <2>3. CASE db' = Mark(db, JobsOf(active), "queued")
    <3>1. \A job \in JobsOf(active) : EntriesOf(active, job) # {}
      BY DEF JobsOf, EntriesOf
    <3> QED
      BY <2>1, <2>3, <3>1, MarkPrepares, KeepingStepMaps DEF Statuses
  <2> QED
    BY <1>3, <2>2, <2>3 DEF Shutdown, CtrlC, BeginShutdown, RequeueDownload
<1>4. CASE Exit \/ Crash
  BY <1>4, KeepingStepMaps
  DEF Exit, Crash, ProcessGone, Prepared, RowMayBecome, QueueInv, EntriesHaveRows, Inv, TypeOK,
      Table
<1>5. CASE Restart
  <2>1. active = {}
    BY <1>5 DEF Restart, QueueInv, Inv
  <2>2. /\ RecoverDaemonDownloads(db) \in Table
        /\ Covered(RecoverDaemonDownloads(db), {})
    BY MarkTable
    DEF RecoverDaemonDownloads, RowsWith, Covered, Statuses, QueueInv, Inv, TypeOK, Table
  <2>3. TasksOK(NoTasks, runs) /\ EntriesOK({}, NoTasks)
    BY FS_EmptySet, ConstantsAssumption DEF TasksOK, EntriesOK, NoTasks
  <2>4. Prepared(RecoverDaemonDownloads(db), {})
    BY <2>1, MarkPrepares DEF RecoverDaemonDownloads, RowsWith, RowMayBecome, Statuses
  <2> QED
    BY <1>5, <2>2, <2>3, <2>4, SchedulingStepMaps DEF Restart
<1>6. CASE TaskStep
  BY <1>6 DEF TaskStep, Queue!queueVars, QueueState, QueueInv, EntriesHaveRows
<1> QED
  BY <1>1, <1>2, <1>3, <1>4, <1>5, <1>6 DEF Next

-----------------------------------------------------------------------------
(* Failing statements *)

\* A request whose claims fail half way is in order all the same.
LEMMA ScheduleFailsKeeps ==
  ASSUME QueueInv, up, up' = up, stopping' = stopping, NEW table, Prepared(table, active),
         Covered(table, active), ScheduleFails(table),
         said' \in [Jobs -> {"none", "enqueue", "pause", "resume", "cancel", "retry"}],
         spent' \in Nat
  PROVE  Inv' /\ Queue!QueueStep /\ EntriesHaveRows(db', active')
<1>1. PICK claimed \in SUBSET RowsWith(table, {"queued"}) :
        /\ ClaimedBefore(table, claimed, active)
        /\ StartClaimed(table, active, task, claimed)
  BY DEF ScheduleFails
<1>2. /\ TasksOK(task, runs) /\ EntriesOK(active, task)
      /\ table \in Table /\ runs \in [Jobs -> Nat]
  BY DEF QueueInv, Inv, TypeOK, TasksOK, Prepared
<1>3. claimed \in SUBSET Jobs /\ IsFiniteSet(claimed)
  <2>1. claimed \in SUBSET Jobs
    BY <1>1, <1>2 DEF RowsWith, Table
  <2>2. IsFiniteSet(Jobs)
    BY ConstantsAssumption, FS_Interval DEF Jobs
  <2> QED
    BY <2>1, <2>2, FS_Subset
<1>4. Cardinality(claimed) \in Nat /\ Cardinality(active) \in Nat
  BY <1>2, <1>3, FS_CardinalityType DEF EntriesOK
<1>5. Cardinality(claimed) <= MaxConcurrent - Cardinality(active)
  BY <1>1, <1>4, ConstantsAssumption DEF ClaimedBefore
<1>6. Oldest(table, claimed)
  BY <1>1 DEF ClaimedBefore, Oldest
<1>7. Queue!QueueStep /\ EntriesHaveRows(db', active')
  BY <1>1, <1>2, <1>5, <1>6, StartingStep
<1>8. /\ db' \in Table /\ TasksOK(task', runs') /\ EntriesOK(active', task')
      /\ runs' \in [Jobs -> Nat] /\ Covered(db', active')
  BY <1>1, <1>2, <1>3, <1>5, ClaimsKeep
<1>9. TypeOK'
  BY <1>8 DEF QueueInv, Inv, TypeOK, TasksOK, EntriesOK, Table
<1>10. Inv'
  BY <1>8, <1>9 DEF Inv, EntriesOK, ClaimedRowIsActive, Covered, EntriesOf
<1> QED
  BY <1>7, <1>10

\* A request of which a statement fails.
LEMMA RequestFailsKeeps ==
  ASSUME QueueInv, RequestFails
  PROVE  Inv' /\ Queue!QueueStep /\ EntriesHaveRows(db', active')
<1>1. up /\ up' = up /\ stopping' = stopping /\ spent' = spent + 1 /\ spent' \in Nat
  BY DEF RequestFails, FaultCounted, QueueInv, Inv, TypeOK
<1>2. PICK job \in Jobs : EnqueueFails(job) \/ ReviveFails(job) \/ StopFails(job)
  BY DEF RequestFails
<1>3. /\ \A table \in {InsertDaemonDownload(db, job), ResumeDownload(db, job),
                       RetryDownload(db, job)} : Covered(table, active)
      /\ said \in [Jobs -> {"none", "enqueue", "pause", "resume", "cancel", "retry"}]
  BY <1>1, QueuedInOrder DEF QueueInv, Inv, TypeOK
<1>4. CASE EnqueueFails(job)
  BY <1>1, <1>3, <1>4, QueuedPrepared, ScheduleFailsKeeps DEF EnqueueFails
<1>5. CASE ReviveFails(job)
  <2>1. CASE ScheduleFails(ResumeDownload(db, job)) /\ said' = [said EXCEPT ![job] = "resume"]
    BY <1>1, <1>3, <2>1, QueuedPrepared, ScheduleFailsKeeps
  <2>2. CASE ScheduleFails(RetryDownload(db, job)) /\ said' = [said EXCEPT ![job] = "retry"]
    BY <1>1, <1>3, <2>2, QueuedPrepared, ScheduleFailsKeeps
  <2> QED
    BY <1>5, <2>1, <2>2 DEF ReviveFails
<1>6. CASE StopFails(job)
  <2>1. db' = db /\ active' = active /\ runs' = runs
    BY <1>6 DEF StopFails
  <2>2. PICK run \in active, signal \in {"pause", "cancel"} :
          task' = Signal(task, {run}, signal) /\ said' = [said EXCEPT ![job] = signal]
    BY <1>6 DEF StopFails
  <2>3. TasksOK(task', runs) /\ DOMAIN task' = DOMAIN task
    BY <2>2, SignalKeeps DEF Signals, QueueInv, Inv, TypeOK, TasksOK
  <2>4. said' \in [Jobs -> {"none", "enqueue", "pause", "resume", "cancel", "retry"}]
    BY <1>3, <2>2
  <2>5. InvKept
    BY <1>1, <2>1, <2>3, <2>4, KeepingStep
    DEF QueueInv, Inv, TypeOK, Table, EntriesOK, ClaimedRowIsActive, Covered
  <2>6. Queue!QueueStep /\ EntriesHaveRows(db', active')
    BY <2>1, KeepingStepMaps
    DEF Prepared, RowMayBecome, QueueInv, EntriesHaveRows, Inv, TypeOK, Table
  <2> QED
    BY <2>5, <2>6 DEF InvKept
<1> QED
  BY <1>2, <1>4, <1>5, <1>6

\* A shutdown that requeues only some of the rows.
LEMMA ShutdownFailsKeeps ==
  ASSUME QueueInv, ShutdownFails
  PROVE  Inv' /\ Queue!QueueStep /\ EntriesHaveRows(db', active')
<1>1. PICK reached \in SUBSET active :
        db' = RequeueDownload(db, JobsOf(reached)) /\ task' = Signal(task, reached, "pause")
  BY DEF ShutdownFails
<1>2. /\ up /\ up' = up /\ stopping' = TRUE /\ active' = active /\ runs' = runs /\ said' = said
      /\ spent' \in Nat
  BY DEF ShutdownFails, FaultCounted, QueueInv, Inv, TypeOK
<1>3. /\ db \in Table /\ TasksOK(task, runs) /\ EntriesOK(active, task) /\ Covered(db, active)
  BY <1>2 DEF QueueInv, Inv, TypeOK, TasksOK, ClaimedRowIsActive, Covered, Table
<1>4. db' \in Table /\ Covered(db', active)
  BY <1>1, <1>3, MarkTable, MarkKeepsCovered DEF RequeueDownload, Statuses
<1>5. TasksOK(task', runs) /\ DOMAIN task' = DOMAIN task
  BY <1>1, <1>3, SignalKeeps DEF Signals
<1>6. InvKept
  BY <1>2, <1>3, <1>4, <1>5, KeepingStep DEF QueueInv, Inv, TypeOK, EntriesOK
<1>7. Prepared(db', active)
  <2>1. \A job \in JobsOf(reached) : EntriesOf(active, job) # {}
    BY DEF JobsOf, EntriesOf
  <2> QED
    BY <1>1, <2>1, MarkPrepares DEF RequeueDownload, Statuses
<1> QED
  BY <1>2, <1>6, <1>7, KeepingStepMaps DEF InvKept

\* What a tick that fails has made of the table.
LEMMA PolledBeforePrepared ==
  ASSUME QueueInv, NEW read \in SUBSET active, NEW finished \in SUBSET FinishedJobs,
         NEW failed
  PROVE  Prepared(PolledBefore(read, finished, failed), {})
<1> DEFINE started == UpdateDownloadStarted(db, JobsOf(read))
           table   == UpdateDownloadFinished(started, finished)
           some(job) == [n \in {m \in DOMAIN FailedRuns(job) : <<job, m>> \in failed} |->
                           FailedRuns(job)[n]]
<1>1. /\ started \in Table
      /\ \A job \in Jobs : started[job] = IF job \in JobsOf(read) THEN "running" ELSE db[job]
  BY MarkTable DEF UpdateDownloadStarted, Statuses, QueueInv, Inv, TypeOK, Table
<1>2. /\ table \in Table
      /\ \A job \in Jobs : table[job] = IF job \in finished THEN "finished" ELSE started[job]
  <2> HIDE DEF started
  <2> QED
    BY <1>1, MarkTable DEF UpdateDownloadFinished, Statuses
<1>3. PolledBefore(read, finished, failed) = [job \in Jobs |-> AfterFailures(table[job], some(job))]
  BY DEF PolledBefore
<1> HIDE DEF started, table, some
<1>4. PolledBefore(read, finished, failed) \in Table
  BY <1>2, <1>3, FailedIsNotClaimed DEF Table
<1>5. ASSUME NEW job \in Jobs, EntriesOf(active, job) = {}
      PROVE  PolledBefore(read, finished, failed)[job] = db[job]
  <2>1. job \notin JobsOf(read) /\ job \notin finished
    BY <1>5 DEF JobsOf, FinishedJobs, Ended, EntriesOf
  <2>2. DOMAIN some(job) = {}
    BY <1>5 DEF some, FailedRuns, Ended, EntriesOf
  <2> QED
    BY <1>1, <1>2, <1>3, <2>1, <2>2 DEF AfterFailures
<1>6. ASSUME NEW job \in Jobs, EntriesOf(active, job) # {}
      PROVE  PolledBefore(read, finished, failed)[job] # NoRow
  <2>1. table[job] # NoRow
    BY <1>1, <1>2, <1>6 DEF QueueInv, EntriesHaveRows, NoRow
  <2> QED
    BY <1>3, <2>1 DEF AfterFailures, AfterStops, AfterFailure, NoRow
<1> QED
  BY <1>4, <1>5, <1>6 DEF Prepared, RowMayBecome

\* The daemon ends with the error of a tick or of Ctrl-C.
LEMMA DaemonDiesKeeps ==
  ASSUME QueueInv, DaemonDies
  PROVE  Inv' /\ Queue!QueueStep /\ EntriesHaveRows(db', active')
<1>1. /\ up /\ ~up' /\ up' \in BOOLEAN /\ stopping' = FALSE /\ active' = {} /\ task' = NoTasks
      /\ runs' = runs /\ said' = said /\ spent' \in Nat
  <2>1. up /\ spent' = spent + 1 /\ spent \in Nat
    BY DEF DaemonDies, FaultCounted, QueueInv, Inv, TypeOK
  <2>2. /\ up' = FALSE /\ stopping' = FALSE /\ active' = {} /\ task' = NoTasks
        /\ runs' = runs /\ said' = said
    BY DEF DaemonDies
  <2>3. spent' \in Nat
    BY <2>1
  <2>4. ~up' /\ up' \in BOOLEAN
    BY <2>2, Zenon
  <2> QED
    BY <2>1, <2>2, <2>3, <2>4, Zenon
<1>2. Prepared(db', {})
  <2>1. CASE PollFails
    <3>1. PICK missed \in SUBSET {run \in Ended : task[run].unread} :
            \E read \in SUBSET StartedEvents(missed), finished \in SUBSET FinishedJobs,
               failed \in SUBSET FailedEntries : db' = PolledBefore(read, finished, failed)
      BY <2>1 DEF PollFails
    <3>2. StartedEvents(missed) \subseteq active
      BY DEF StartedEvents
    <3>3. PICK read \in SUBSET active, finished \in SUBSET FinishedJobs,
               failed \in SUBSET FailedEntries : db' = PolledBefore(read, finished, failed)
      BY <3>1, <3>2
    <3> QED
      BY <3>3, PolledBeforePrepared
  <2>2. CASE PollScheduleFails
    <3>1. PICK missed \in SUBSET {run \in Ended : task[run].unread} :
            \E claimed \in SUBSET RowsWith(PolledTable(missed), {"queued"}) :
              db' = ClaimDaemonDownloads(PolledTable(missed), claimed)
      BY <2>2 DEF PollScheduleFails
    <3> DEFINE polled == PolledTable(missed)
    <3>2. Prepared(polled, PolledActive)
      BY <1>1, PolledPrepared DEF Ended
    <3> HIDE DEF polled
    <3>3. PICK claimed \in SUBSET RowsWith(polled, {"queued"}) : db' = Mark(polled, claimed, "starting")
      BY <3>1 DEF polled, ClaimDaemonDownloads
    <3>4. /\ db' \in Table
          /\ \A job \in Jobs : db'[job] = IF job \in claimed THEN "starting" ELSE polled[job]
      BY <3>2, <3>3, MarkTable DEF Prepared, Statuses
    <3>5. ASSUME NEW job \in Jobs, EntriesOf(active, job) # {} PROVE db'[job] # NoRow
      BY <3>2, <3>4, <3>5 DEF Prepared, NoRow
    <3>6. ASSUME NEW job \in Jobs, EntriesOf(active, job) = {} PROVE RowMayBecome(job, db'[job])
      <4>1. polled[job] = db[job]
        BY <1>1, <3>6, PolledPrepared DEF polled, Ended
      <4> QED
        BY <3>3, <3>4, <4>1 DEF RowsWith, RowMayBecome
    <3> QED
      BY <3>4, <3>5, <3>6 DEF Prepared
  <2>3. CASE CtrlCFails
    <3>1. PICK reached \in SUBSET active : db' = Mark(db, JobsOf(reached), "queued")
      BY <2>3 DEF CtrlCFails, RequeueDownload
    <3>2. \A job \in JobsOf(reached) : EntriesOf(active, job) # {}
      BY DEF JobsOf, EntriesOf
    <3>3. Prepared(db', active)
      BY <3>1, <3>2, MarkPrepares DEF Statuses
    <3> QED
      BY <3>3 DEF Prepared
  <2> QED
    BY <2>1, <2>2, <2>3 DEF DaemonDies
<1>3. Queue!QueueStep /\ EntriesHaveRows(db', active')
  BY <1>1, <1>2, KeepingStepMaps
<1>4. db' \in Table /\ DOMAIN task' = {}
  BY <1>1, <1>2 DEF Prepared, NoTasks
<1>5. TypeOK'
  BY <1>1, <1>4 DEF QueueInv, Inv, TypeOK, Table, NoTasks
<1>6. EntriesOK(active', task')
  BY <1>1, FS_EmptySet, ConstantsAssumption DEF EntriesOK
<1> QED
  BY <1>1, <1>3, <1>5, <1>6 DEF Inv, EntriesOK, ClaimedRowIsActive

-----------------------------------------------------------------------------
(* Theorems *)

\* Every step keeps the invariant and is one of the queue, or changes nothing
\* that the queue sees.
LEMMA FaultyStep ==
  ASSUME QueueInv, [Next \/ Faults]_vars
  PROVE  QueueInv' /\ [Queue!QueueStep]_(Queue!queueVars)
<1>1. CASE Next
  BY <1>1, NextInv, NextMaps DEF QueueInv, InvKept, EntriesHaveRows, EntriesOf
<1>2. CASE Faults
  BY <1>2, RequestFailsKeeps, ShutdownFailsKeeps, DaemonDiesKeeps
  DEF Faults, QueueInv, EntriesHaveRows, EntriesOf
<1>3. CASE UNCHANGED vars
  <2>1. Inv'
    BY <1>3, NextInv DEF QueueInv, InvKept
  <2>2. UNCHANGED Queue!queueVars
    BY <1>3 DEF vars, Queue!queueVars, QueueState
  <2> QED
    BY <1>3, <2>1, <2>2 DEF vars, QueueInv, EntriesHaveRows, EntriesOf
<1> QED
  BY <1>1, <1>2, <1>3

\* The daemon keeps the promises of module JobQueue, whatever its clients ask,
\* whenever it crashes and whichever of its statements fails.
THEOREM DaemonImplementsQueue == FaultySpec => ImplementsJobQueue
<1>1. Init => QueueInv
  BY InitInv DEF QueueInv, Init, EntriesHaveRows, EntriesOf
<1>2. Init => Queue!QueueInit
  <2> SUFFICES ASSUME Init PROVE Queue!QueueInit
    OBVIOUS
  <2>1. ASSUME NEW job \in Jobs PROVE QueueState(db, active, job) = "none"
    <3>1. EntriesOf(active, job) = {}
      BY DEF Init, EntriesOf
    <3>2. db[job] = NoRow
      BY DEF Init
    <3> QED
      BY <3>1, <3>2 DEF QueueState, NoRow
  <2> QED
    BY <2>1 DEF Queue!QueueInit
<1>3. QueueInv /\ [Next \/ Faults]_vars => QueueInv' /\ [Queue!QueueStep]_(Queue!queueVars)
  BY FaultyStep
<1> QED
  BY <1>1, <1>2, <1>3, PTL DEF FaultySpec, ImplementsJobQueue, Queue!QueueSpec

-----------------------------------------------------------------------------
(* AfterFailures is what the loop at the end of poll_active computes: a loop *)
(* over no entry leaves the row alone, one more entry, after all the others, *)
(* is one more iteration, and so the loop ends with AfterFailures.           *)

\* A set of run numbers with a bound has a last one.
LEMMA LastNumber ==
  ASSUME NEW k \in Nat, NEW S \in SUBSET (0 .. k), S # {}
  PROVE  \E n \in S : \A m \in S : m <= n
<1> DEFINE T == {i \in Nat : i <= k /\ k - i \in S}
<1> DEFINE Less == {ss \in Nat \X Nat : ss[1] < ss[2]}
<1>1. IsWellFoundedOn(Less, Nat)
  BY NatLessThanWellFounded DEF OpToRel
<1>2. PICK s \in S : s \in 0 .. k
  OBVIOUS
<1>3. k - s \in T
  BY <1>2, k - (k - s) = s
<1>4. PICK t \in T : \A u \in T : <<u, t>> \notin Less
  <2> HIDE DEF Less
  <2> QED
    BY <1>1, <1>3, WFMin
<1>5. \A m \in S : m <= k - t
  <2>1. SUFFICES ASSUME NEW m \in S, m > k - t
                 PROVE  FALSE
    BY SMT
  <2>2. k - m \in T /\ k - m < t
    BY <2>1, m \in 0 .. k, k - (k - m) = m
  <2> QED
    BY <1>4, <2>2
<1> QED
  BY <1>5

\* The runs of one job that have failed, by number.
Failed(failed, k) ==
  /\ DOMAIN failed \subseteq 0 .. k
  /\ failed \in [DOMAIN failed -> Failures]

\* One more failed run, with a higher number than the others.
Extended(failed, n, failure) ==
  [m \in DOMAIN failed \cup {n} |-> IF m = n THEN failure ELSE failed[m]]

LEMMA LastIsLast ==
  ASSUME NEW k \in Nat, NEW S \in SUBSET (0 .. k), S # {}
  PROVE  Last(S) \in S /\ \A m \in S : m <= Last(S)
  BY LastNumber DEF Last

\* The three cases of an iteration.
LEMMA Iteration ==
  ASSUME NEW status
  PROVE  /\ AfterFailure(status, "error")
              = IF status = "paused" \/ status = "cancelled" THEN status ELSE "failed"
         /\ AfterFailure(status, "cancelled") = "cancelled"
         /\ AfterFailure(status, "interrupted")
              = IF status = "paused" THEN "paused" ELSE "queued"
  BY DEF AfterFailure

\* A tick that sees no failed run of a job leaves its row alone.
THEOREM NoFailure ==
  ASSUME NEW status, NEW failed, DOMAIN failed = {}
  PROVE  AfterFailures(status, failed) = status
  BY DEF AfterFailures

\* One more failed run is one more iteration of the loop (daemon.rs:445-461).
THEOREM OneMoreFailure ==
  ASSUME NEW status, NEW k \in Nat, NEW failed, Failed(failed, k),
         NEW n \in Nat, \A m \in DOMAIN failed : m < n, NEW failure \in Failures
  PROVE  AfterFailures(status, Extended(failed, n, failure))
           = AfterFailure(AfterFailures(status, failed), failure)
<1> DEFINE longer == Extended(failed, n, failure)
<1>1. /\ DOMAIN longer = DOMAIN failed \cup {n}
      /\ longer[n] = failure
      /\ \A m \in DOMAIN failed : m < n /\ longer[m] = failed[m] /\ failed[m] \in Failures
  BY DEF Extended, Failed
<1>2. Stops(failed) \subseteq 0 .. k /\ n \notin DOMAIN failed
  BY DEF Stops, Failed
<1>3. Stops(failed) # {} =>
        Last(Stops(failed)) \in Stops(failed) /\ Last(Stops(failed)) < n
  BY <1>2, LastIsLast, <1>1 DEF Stops
<1> HIDE DEF longer
<1>4. CASE failure = "error"
  <2>1. Stops(longer) = Stops(failed)
    BY <1>1, <1>2, <1>4 DEF Stops
  <2>2. CASE Stops(failed) = {}
    <3>1. AfterFailures(status, longer) = AfterFailure(status, "error")
      BY <1>1, <2>1, <2>2 DEF AfterFailures
    <3>2. AfterFailures(status, failed) \in {status, AfterFailure(status, "error")}
      BY <2>2 DEF AfterFailures
    <3>3. AfterFailure(AfterFailure(status, "error"), "error") = AfterFailure(status, "error")
      BY Iteration
    <3> QED
      BY <1>4, <3>1, <3>2, <3>3 DEF longer
  <2>3. CASE Stops(failed) # {}
    <3>1. AfterStops(status, longer) = AfterStops(status, failed)
      BY <1>1, <1>3, <2>1, <2>3 DEF AfterStops, Stops
    <3>2. AfterFailures(status, longer) = AfterFailure(AfterStops(status, failed), "error")
      BY <1>1, <1>3, <2>1, <2>3, <3>1 DEF AfterFailures
    <3>3. DOMAIN failed # {}
      BY <2>3 DEF Stops
    <3>4. AfterFailures(status, failed)
            \in {AfterStops(status, failed), AfterFailure(AfterStops(status, failed), "error")}
      BY <2>3, <3>3 DEF AfterFailures
    <3>5. AfterFailure(AfterFailure(AfterStops(status, failed), "error"), "error")
            = AfterFailure(AfterStops(status, failed), "error")
      BY Iteration
    <3> QED
      BY <1>4, <3>2, <3>4, <3>5 DEF longer
  <2> QED
    BY <2>2, <2>3
<1>5. CASE failure # "error"
  <2>1. Stops(longer) = Stops(failed) \cup {n}
    BY <1>1, <1>2, <1>5 DEF Stops
  <2>2. Last(Stops(longer)) = n
    <3>1. Stops(longer) \in SUBSET (0 .. n)
      <4>1. \A m \in Stops(failed) : m \in 0 .. k /\ m < n
        BY <1>1, <1>2 DEF Stops
      <4>2. \A m \in Stops(failed) : m \in 0 .. n
        BY <4>1
      <4> QED
        BY <2>1, <4>2
    <3>2. Last(Stops(longer)) \in Stops(longer) /\ n <= Last(Stops(longer))
      <4>1. Stops(longer) # {} /\ n \in Stops(longer)
        BY <2>1
      <4> QED
        BY <3>1, <4>1, LastIsLast
    <3> QED
      BY <3>1, <3>2
  <2>3. AfterFailures(status, longer) = AfterStops(status, longer)
    <3>1. DOMAIN longer # {} /\ Stops(longer) # {}
      BY <1>1, <2>1
    <3>2. ~ \E m \in DOMAIN longer : m > Last(Stops(longer))
      <4>1. \A m \in DOMAIN failed : m \in Nat
        BY DEF Failed
      <4> QED
        BY <1>1, <2>2, <4>1
    <3> QED
      BY <3>1, <3>2 DEF AfterFailures
  <2>4. AfterStops(status, longer)
          = IF failure = "cancelled" THEN "cancelled"
            ELSE IF status = "paused" /\ \A m \in Stops(failed) : failed[m] = "interrupted"
              THEN "paused" ELSE "queued"
    BY <1>1, <1>5, <2>1, <2>2 DEF AfterStops, Stops, Failures
  <2>5. (AfterFailures(status, failed) = "paused")
          <=> (status = "paused" /\ \A m \in Stops(failed) : failed[m] = "interrupted")
    BY <1>1, <1>3 DEF AfterFailures, AfterFailure, AfterStops, Stops, Failures
  <2> QED
    BY <1>5, <2>3, <2>4, <2>5 DEF longer, AfterFailure, Failures
<1> QED
  BY <1>4, <1>5

\* The loop goes through the runs 0 .. k and leaves the row alone at those that
\* have not failed: what it makes of the row in the end is AfterFailures
\* (daemon.rs:445-461).
THEOREM LoopIsAfterFailures ==
  ASSUME NEW status, NEW k \in Nat, NEW failed, Failed(failed, k),
         NEW row, row[0] = status,
         \A n \in 0 .. k :
           row[n + 1] = IF n \in DOMAIN failed THEN AfterFailure(row[n], failed[n]) ELSE row[n]
  PROVE  row[k + 1] = AfterFailures(status, failed)
<1> DEFINE Before(n) == [m \in {j \in DOMAIN failed : j < n} |-> failed[m]]
           Bad == {n \in Nat : n <= k + 1 /\ row[n] # AfterFailures(status, Before(n))}
           Less == {ss \in Nat \X Nat : ss[1] < ss[2]}
<1>1. /\ \A n : DOMAIN Before(n) = {j \in DOMAIN failed : j < n}
      /\ \A n : \A m \in DOMAIN Before(n) : Before(n)[m] = failed[m]
      /\ DOMAIN failed \subseteq 0 .. k /\ \A m \in DOMAIN failed : failed[m] \in Failures
      /\ failed = [m \in DOMAIN failed |-> failed[m]]
  BY DEF Failed
<1>2. ASSUME NEW n \in Nat, n <= k, row[n] = AfterFailures(status, Before(n))
      PROVE  row[n + 1] = AfterFailures(status, Before(n + 1))
  <2>1. CASE n \notin DOMAIN failed
    <3>1. \A j \in DOMAIN failed : j < n + 1 <=> j < n
      BY <1>1, <2>1
    <3>2. Before(n + 1) = Before(n)
      BY <3>1
    <3>3. row[n + 1] = row[n]
      BY <1>2, <2>1
    <3> QED
      BY <1>2, <3>2, <3>3
  <2>2. CASE n \in DOMAIN failed
    <3>1. \A j \in DOMAIN failed : j < n + 1 <=> j < n \/ j = n
      BY <1>1
    <3>2. {j \in DOMAIN failed : j < n + 1} = DOMAIN Before(n) \cup {n}
      BY <1>1, <2>2, <3>1
    <3>3. \A m \in DOMAIN Before(n) \cup {n} :
            failed[m] = IF m = n THEN failed[n] ELSE Before(n)[m]
      BY <1>1
    <3>4. Before(n + 1) = [m \in DOMAIN Before(n) \cup {n} |-> failed[m]]
      BY <3>2
    <3>5. Before(n + 1) = Extended(Before(n), n, failed[n])
      <4> HIDE DEF Before
      <4> QED
        BY <3>3, <3>4 DEF Extended
    <3>6. Failed(Before(n), k)
      BY <1>1 DEF Failed
    <3>7. (\A m \in DOMAIN Before(n) : m < n) /\ failed[n] \in Failures
      BY <1>1, <2>2
    <3>8. row[n + 1] = AfterFailure(row[n], failed[n])
      BY <1>2, <2>2
    <3> HIDE DEF Before
    <3> QED
      BY <1>2, <3>5, <3>6, <3>7, <3>8, OneMoreFailure
  <2> QED
    BY <2>1, <2>2
<1>3. row[0] = AfterFailures(status, Before(0))
  <2>1. DOMAIN Before(0) = {}
    BY <1>1
  <2> HIDE DEF Before
  <2> QED
    BY <2>1, NoFailure
<1>4. Before(k + 1) = failed
  <2>1. \A j \in 0 .. k : j < k + 1
    OBVIOUS
  <2>2. {j \in DOMAIN failed : j < k + 1} = DOMAIN failed
    BY <1>1, <2>1, Zenon
  <2> QED
    BY <1>1, <2>2
<1> HIDE DEF Before
<1>5. Bad = {}
  <2> SUFFICES ASSUME Bad # {} PROVE FALSE
    OBVIOUS
  <2>1. IsWellFoundedOn(Less, Nat)
    BY NatLessThanWellFounded DEF OpToRel
  <2>2. PICK t \in Bad : \A u \in Bad : <<u, t>> \notin Less
    <3>1. Bad \subseteq Nat
      OBVIOUS
    <3> HIDE DEF Less, Bad
    <3> QED
      BY <2>1, <3>1, WFMin
  <2>3. t # 0 /\ t \in Nat
    BY <1>3
  <2>4. t - 1 \in Nat /\ t - 1 <= k /\ (t - 1) + 1 = t /\ <<t - 1, t>> \in Less
    BY <2>3
  <2>5. row[t - 1] = AfterFailures(status, Before(t - 1))
    BY <2>2, <2>4
  <2>6. row[(t - 1) + 1] = AfterFailures(status, Before((t - 1) + 1))
    BY <1>2, <2>4, <2>5
  <2> QED
    BY <2>4, <2>6
<1>6. row[k + 1] = AfterFailures(status, Before(k + 1))
  BY <1>5
<1> QED
  BY <1>4, <1>6

\* A row that was paused when the tick began, and none of whose runs was
\* cancelled, is still paused after it, however many of them failed or stopped
\* (daemon.rs:447, 452-455).
THEOREM PausedSurvives ==
  ASSUME NEW k \in Nat, NEW failed, Failed(failed, k),
         \A n \in DOMAIN failed : failed[n] # "cancelled"
  PROVE  AfterFailures("paused", failed) = "paused"
<1>1. \A n \in Stops(failed) : failed[n] = "interrupted"
  BY DEF Stops, Failed, Failures
<1>2. Stops(failed) # {} => Last(Stops(failed)) \in Stops(failed)
  BY LastIsLast DEF Stops, Failed
<1> QED
  BY <1>1, <1>2 DEF AfterFailures, AfterFailure, AfterStops
=============================================================================
