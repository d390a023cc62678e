------------------------------- MODULE Daemon -------------------------------
(***************************************************************************)
(* The download daemon (crates/arkama/src/daemon.rs): the job table, the   *)
(* list of active downloads, the requests clients send, the 100 ms tick    *)
(* that drains the downloads' events, shutdown, crash and restart.         *)
(*                                                                         *)
(* handle_request and poll_active run on the daemon's one task without an  *)
(* await, so each is one action.  The downloads are tasks of the same      *)
(* process that run beside it; a download is seen from here as start_one   *)
(* and the tick see it, by its events, its result and its stop signal.     *)
(* Module Download models what happens inside one.                         *)
(***************************************************************************)
EXTENDS Db, Settle

CONSTANTS MaxJobs,        \* bound: rows that are ever enqueued
          MaxConcurrent,  \* the max_concurrent setting
          MaxCommands,    \* bound: user commands and crashes in a behaviour
          Foreground      \* the daemon has a terminal, so Ctrl-C reaches it

ASSUME ConstantsAssumption ==
  /\ MaxJobs \in Nat
  /\ MaxConcurrent \in Nat \ {0}
  /\ MaxCommands \in Nat
  /\ Foreground \in BOOLEAN

VARIABLES
  up,         \* the daemon process runs
  stopping,   \* DaemonState.stopping
  db,         \* the downloads table, shared by all daemons of this user
  active,     \* DaemonState.active: the runs it holds an entry for
  task,       \* the download tasks of the process that have not ended, and
              \* those that have and whose entry is still active
  runs,       \* how many times each job has been started
  said,       \* the last command acknowledged for each job
  spent       \* commands and crashes so far

daemonVars == <<up, stopping, active>>
vars == <<up, stopping, db, active, task, runs, said, spent>>

Jobs == 1 .. MaxJobs

\* A run is a job and the number of this start.  The entries of one job are in
\* DaemonState.active in the order of their numbers, as start_one appends.
Job(run) == run[1]
Runs == Jobs \X (Nat \ {0})

EntriesOf(act, job) == {run \in act : Job(run) = job}

Signals  == {"none", "pause", "cancel"}
Outcomes == {"none", "finished", "interrupted", "cancelled", "error"}

\* pc: probing the server, transferring, returning after it has read a stop
\* signal, ended with its result sent.  unread: its Started event is sent and
\* the tick has not read it.
Tasks == [pc : {"probe", "work", "leave", "ended"}, outcome : Outcomes,
          signal : Signals, unread : BOOLEAN]

NewTask == [pc |-> "probe", outcome |-> "none", signal |-> "none", unread |-> FALSE]
NoTasks == [run \in {} |-> NewTask]

Init ==
  /\ up = TRUE
  /\ stopping = FALSE
  /\ db = [job \in Jobs |-> NoRow]
  /\ active = {}
  /\ task = NoTasks
  /\ runs = [job \in Jobs |-> 0]
  /\ said = [job \in Jobs |-> "none"]
  /\ spent = 0

-----------------------------------------------------------------------------
(* schedule and start_one *)

\* start_one: the next run of each job that has been claimed.
NextRuns(claimed) == {<<job, runs[job] + 1>> : job \in claimed}

\* The claimed rows of a table and their downloads, added to some entries and tasks.
StartClaimed(table, act, tasks, claimed) ==
  /\ db' = ClaimDaemonDownloads(table, claimed)
  /\ active' = act \cup NextRuns(claimed)
  /\ task' = [run \in DOMAIN tasks \cup NextRuns(claimed) |->
                IF run \in NextRuns(claimed) THEN NewTask ELSE tasks[run]]
  /\ runs' = [job \in Jobs |-> IF job \in claimed THEN runs[job] + 1 ELSE runs[job]]

\* Claim queued rows and start their downloads while there are free slots,
\* from the table, entries and tasks that the caller has computed.
Schedule(table, act, tasks, halted) ==
  \E claimed \in IF halted THEN {{}} ELSE SUBSET RowsWith(table, {"queued"}) :
    /\ halted \/ ClaimedBy(table, claimed, MaxConcurrent - Cardinality(act))
    /\ StartClaimed(table, act, tasks, claimed)

-----------------------------------------------------------------------------
(* Requests.  One that is refused changes nothing and is not an action.     *)

\* control.pause() and control.cancel() overwrite the watch value.  A task that
\* has read its signal, or has ended, reads it no more.
Signal(tasks, receivers, signal) ==
  [run \in DOMAIN tasks |->
     IF run \in receivers /\ tasks[run].pc \in {"probe", "work"}
       THEN [tasks[run] EXCEPT !.signal = signal]
       ELSE tasks[run]]

\* active.iter_mut().find: the oldest entry of the job.
IsFirstEntry(run, job) ==
  run \in EntriesOf(active, job) /\ \A other \in EntriesOf(active, job) : run[2] <= other[2]

Command(job, command) ==
  /\ up
  /\ spent < MaxCommands
  /\ spent' = spent + 1
  /\ said' = [said EXCEPT ![job] = command]

\* A stopping daemon answers -1 and inserts nothing.
Enqueue(job) ==
  /\ up
  /\ ~stopping
  /\ IsNextRow(db, job)
  /\ Schedule(InsertDaemonDownload(db, job), active, task, stopping)
  /\ said' = [said EXCEPT ![job] = "enqueue"]
  /\ UNCHANGED <<up, stopping, spent>>

PauseActive(job) ==
  /\ \E run \in active : IsFirstEntry(run, job) /\ task' = Signal(task, {run}, "pause")
  /\ db' = UpdateDownloadPaused(db, job)

PauseQueued(job) ==
  /\ EntriesOf(active, job) = {}
  /\ db[job] = "queued"
  /\ db' = MarkQueuedPaused(db, job)
  /\ UNCHANGED task

PauseJob(job) ==
  /\ Command(job, "pause")
  /\ PauseActive(job) \/ PauseQueued(job)
  /\ UNCHANGED <<daemonVars, runs>>

\* The row's status alone decides: there may be an entry for the job still.
ResumeJob(job) ==
  /\ Command(job, "resume")
  /\ ResumeDownload(db, job) # db
  /\ Schedule(ResumeDownload(db, job), active, task, stopping)
  /\ UNCHANGED <<up, stopping>>

CancelActive(job) ==
  \E run \in active : IsFirstEntry(run, job) /\ task' = Signal(task, {run}, "cancel")

CancelIdle(job) ==
  /\ EntriesOf(active, job) = {}
  /\ db[job] \in {"queued", "paused", "starting", "running"}
  /\ UNCHANGED task

CancelJob(job) ==
  /\ Command(job, "cancel")
  /\ CancelActive(job) \/ CancelIdle(job)
  /\ db' = UpdateDownloadCancelled(db, job)
  /\ UNCHANGED <<daemonVars, runs>>

RetryJob(job) ==
  /\ Command(job, "retry")
  /\ RetryDownload(db, job) # db
  /\ Schedule(RetryDownload(db, job), active, task, stopping)
  /\ UNCHANGED <<up, stopping>>

-----------------------------------------------------------------------------
(* poll_active *)

Ended == {run \in active : task[run].pc = "ended"}

\* The tick reads each entry's events, then its result.  missed are entries
\* whose queue was empty when it was read and whose download started and ended
\* before its result was.
StartedEvents(missed) == {run \in active \ missed : task[run].unread}

JobsOf(set) == {Job(run) : run \in set}

FinishedJobs == JobsOf({run \in Ended : task[run].outcome = "finished"})

\* The failed runs of a job, by number.
FailedRuns(job) ==
  LET failed == {run \in EntriesOf(Ended, job) : task[run].outcome # "finished"}
  IN  [n \in {run[2] : run \in failed} |-> task[<<job, n>>].outcome]

\* Mutant: the events are applied last.
PolledTable_EventsLast(missed) ==
  LET finished == UpdateDownloadFinished(db, FinishedJobs)
  IN  UpdateDownloadStarted([job \in Jobs |-> AfterFailures(finished[job], FailedRuns(job))],
                            JobsOf(StartedEvents(missed)))

\* Events first, then the finished downloads, then the failed ones.
PolledTable(missed) ==
  LET finished == UpdateDownloadFinished(
                    UpdateDownloadStarted(db, JobsOf(StartedEvents(missed))), FinishedJobs)
  IN  [job \in Jobs |-> AfterFailures(finished[job], FailedRuns(job))]

\* Mutants: no entry is dropped; only the entry of the run that ended is.
PolledActive_Kept   == active
PolledActive_ByRun  == active \ Ended

\* active.retain(|active| active.id != id) drops every entry of the job, the
\* entries of runs that have not ended included.
PolledActive == {run \in active : Job(run) \notin JobsOf(Ended)}

PolledTasks(missed) ==
  [run \in DOMAIN task \ Ended |->
     IF run \in StartedEvents(missed) THEN [task[run] EXCEPT !.unread = FALSE] ELSE task[run]]

\* Mutant: the tick does not schedule.
PollActive_NoSchedule ==
  /\ up
  /\ \E missed \in SUBSET {run \in Ended : task[run].unread} :
       Schedule(PolledTable(missed), PolledActive, PolledTasks(missed), TRUE)
  /\ UNCHANGED <<up, stopping, said, spent>>

PollActive ==
  /\ up
  /\ \E missed \in SUBSET {run \in Ended : task[run].unread} :
       Schedule(PolledTable(missed), PolledActive, PolledTasks(missed), stopping)
  /\ UNCHANGED <<up, stopping, said, spent>>

-----------------------------------------------------------------------------
(* Shutdown, crash and restart *)

\* Every entry's row is requeued and its task told to pause, whatever the row
\* or the signal was.  A second request finds stopping set and does nothing.
BeginShutdown(tasks) ==
  /\ stopping' = TRUE
  /\ IF stopping
       THEN db' = db /\ task' = tasks
       ELSE /\ db' = RequeueDownload(db, JobsOf(active))
            /\ task' = Signal(tasks, active, "pause")

Shutdown ==
  /\ up
  /\ ~stopping
  /\ spent < MaxCommands
  /\ spent' = spent + 1
  /\ BeginShutdown(task)
  /\ UNCHANGED <<up, active, runs, said>>

\* The interrupt reaches the transfers that wait for it, entry or not, and each
\* ends as paused; one that is still setting up misses it.
Interrupted(hearing) ==
  [run \in DOMAIN task |->
     IF run \in hearing
       THEN [task[run] EXCEPT !.pc = "leave", !.outcome = "interrupted", !.signal = "none"]
       ELSE task[run]]

\* The daemon itself misses it while it is not in its select.
CtrlC ==
  /\ up /\ Foreground
  /\ spent < MaxCommands
  /\ spent' = spent + 1
  /\ \E hearing \in SUBSET {run \in DOMAIN task : task[run].pc = "work"} :
       \/ BeginShutdown(Interrupted(hearing))
       \/ stopping' = stopping /\ db' = db /\ task' = Interrupted(hearing)
  /\ UNCHANGED <<up, active, runs, said>>

\* The process ends: its tasks with it.
ProcessGone ==
  /\ up' = FALSE
  /\ stopping' = FALSE
  /\ active' = {}
  /\ task' = NoTasks
  /\ UNCHANGED <<db, runs, said>>

\* Mutant: the daemon waits for the queue to drain.
Exit_Drained ==
  /\ up /\ stopping /\ active = {} /\ RowsWith(db, {"queued"}) = {}
  /\ ProcessGone /\ UNCHANGED spent

Exit == up /\ stopping /\ active = {} /\ ProcessGone /\ UNCHANGED spent

\* A crash between two statements of an action leaves the table as a crash
\* before or after the action would, up to the order in which downloads end.
Crash == up /\ spent < MaxCommands /\ ProcessGone /\ spent' = spent + 1

\* DaemonState::new and the first schedule.
Restart ==
  /\ ~up
  /\ up' = TRUE
  /\ stopping' = FALSE
  /\ Schedule(RecoverDaemonDownloads(db), {}, NoTasks, FALSE)
  /\ UNCHANGED <<said, spent>>

-----------------------------------------------------------------------------
(* The download tasks, as far as the daemon can tell them apart *)

\* A task that ends without an entry in the active list is heard of no more.
End(run, outcome) ==
  task' = IF run \in active
            THEN [task EXCEPT ![run].pc = "ended", ![run].outcome = outcome,
                              ![run].signal = "none"]
            ELSE [other \in DOMAIN task \ {run} |-> task[other]]

\* The probe does not look at the stop signal.
ProbeOk(run) ==
  task[run].pc = "probe" /\ task' = [task EXCEPT ![run].pc = "work", ![run].unread = TRUE]

ProbeFail(run) == task[run].pc = "probe" /\ End(run, "error")

Finish(run) == task[run].pc = "work" /\ End(run, "finished")

\* A transfer fails, or flushing and saving after a stop does.
Fail(run) == task[run].pc \in {"work", "leave"} /\ End(run, "error")

\* A worker reads the stop signal; from here its value no longer matters.
ObserveStop(run) ==
  /\ task[run].pc = "work"
  /\ task[run].signal # "none"
  /\ task' = [task EXCEPT ![run].pc = "leave", ![run].signal = "none",
                ![run].outcome = IF task[run].signal = "pause" THEN "interrupted" ELSE "cancelled"]

Leave(run) == task[run].pc = "leave" /\ End(run, task[run].outcome)

TaskStep ==
  /\ up
  /\ \E run \in DOMAIN task :
       \/ ProbeOk(run) \/ ProbeFail(run)
       \/ Finish(run) \/ Fail(run)
       \/ ObserveStop(run) \/ Leave(run)
  /\ UNCHANGED <<up, stopping, db, active, runs, said, spent>>

-----------------------------------------------------------------------------
Request(job) ==
  Enqueue(job) \/ PauseJob(job) \/ ResumeJob(job) \/ CancelJob(job) \/ RetryJob(job)

Next ==
  \/ \E job \in Jobs : Request(job)
  \/ PollActive
  \/ Shutdown \/ CtrlC \/ Exit
  \/ Crash \/ Restart
  \/ TaskStep

\* The ticker fires every 100 ms and the loop tests for its end before each
\* select.  A download ends if its server neither stalls it forever nor leaves
\* a request unanswered: retries are bounded.  Nobody has to send requests.
Fairness == WF_vars(PollActive) /\ WF_vars(Exit) /\ WF_vars(TaskStep)

Spec == Init /\ [][Next]_vars /\ Fairness

-----------------------------------------------------------------------------
Settled == {"paused", "finished", "failed", "cancelled"}

\* Every entry of the active list has its task, tasks are numbered within the
\* starts of their job, and the table's rows are in the order of their ids.
TypeOK ==
  /\ up \in BOOLEAN
  /\ stopping \in BOOLEAN
  /\ db \in [Jobs -> Statuses \cup {NoRow}]
  /\ DOMAIN task \subseteq Runs
  /\ task \in [DOMAIN task -> Tasks]
  /\ active \subseteq DOMAIN task
  /\ runs \in [Jobs -> Nat]
  /\ \A run \in DOMAIN task : run[2] <= runs[Job(run)]
  /\ said \in [Jobs -> {"none", "enqueue", "pause", "resume", "cancel", "retry"}]
  /\ spent \in Nat

\* The active list never holds more entries than max_concurrent, whichever
\* request or tick has started the last one (daemon.rs:233).
ActiveBounded == Cardinality(active) <= MaxConcurrent

\* A row that says a download is starting or running has an entry in the active
\* list of the daemon that runs: none is left behind by a tick that drops
\* entries, by a shutdown or by the daemon that ran before (daemon.rs:440-461,
\* 163).  A daemon that exits therefore leaves no such row.
ClaimedRowIsActive ==
  \A job \in Jobs :
    up /\ db[job] \in {"starting", "running"} => EntriesOf(active, job) # {}

\* No slot is idle while a job is queued, unless the daemon is stopping: every
\* path that frees a slot or queues a row goes through schedule
\* (daemon.rs:224, 318, 354, 463, 559).
NoIdleSlot ==
  up /\ ~stopping /\ RowsWith(db, {"queued"}) # {} => Cardinality(active) >= MaxConcurrent

\* A finished job stays finished: no late event of another run of the job, no
\* request, shutdown or restart takes it back (daemon.rs:440-443, db.rs:350-368).
FinishedIsFinal ==
  [][\A job \in Jobs : db[job] = "finished" => db'[job] = "finished"]_vars

\* What may yet undo a stop: the signal and the outcome of the other one.
Undoing == [paused |-> {"cancel", "cancelled"}, cancelled |-> {"pause", "interrupted"}]

\* The pause or the cancel of a download whose Started event has been read
\* holds, unless the other stop is on its way or a second run of the job is
\* active: the row keeps its status until the next command or shutdown, or until
\* the download turns out to have finished (daemon.rs:290-297, 327-332, 445-461).
StopHolds ==
  [][\A job \in Jobs, stop \in DOMAIN Undoing :
       /\ db[job] = stop
       /\ Cardinality(EntriesOf(active, job)) <= 1
       /\ \A run \in EntriesOf(active, job) :
            /\ task[run].pc # "probe" /\ ~task[run].unread
            /\ {task[run].outcome, task[run].signal} \cap Undoing[stop] = {}
       /\ spent' = spent
       => db'[job] \in {stop, "finished"}]_vars

\* A daemon that begins to stop does stop: each of its downloads ends and is
\* taken off the list, those that were probing included (daemon.rs:566, 588).
StopCompletes == stopping ~> ~up

\* Every queued job is started and comes to rest, whatever became of the jobs
\* before it, as long as the daemon lives (daemon.rs:228-242, 364-461).
JobSettles == \A job \in Jobs : db[job] = "queued" ~> db[job] \in Settled \/ ~up

-----------------------------------------------------------------------------
(* The daemon implements the abstract queue *)

\* A job with an entry is busy, whatever its row says; a row that a dead daemon
\* has left claimed waits for the next one.
QueueState(table, act, job) ==
  IF EntriesOf(act, job) # {} THEN "busy"
  ELSE CASE table[job] = NoRow                                 -> "none"
         [] table[job] \in {"queued", "starting", "running"} -> "waiting"
         [] table[job] = "finished"                            -> "finished"
         [] OTHER                                              -> "resting"

Queue == INSTANCE JobQueue WITH
           Slots <- MaxConcurrent, state <- [job \in Jobs |-> QueueState(db, active, job)],
           command <- said, commands <- spent

\* What clients are promised holds whatever they ask, whenever the daemon
\* crashes and whichever of its statements fails: see module JobQueue
\* (daemon.rs:204-465, db.rs:342-417).
ImplementsJobQueue == Queue!QueueSpec

-----------------------------------------------------------------------------
(* What the documentation says and the code does not do; see README.md.     *)

\* A job that was paused is not started again by the daemon that paused it
\* until it is resumed (README.md:98-99).
PauseSticks ==
  [][\A job \in Jobs :
       up /\ said[job] = "pause" /\ said'[job] = "pause" => runs'[job] = runs[job]]_vars
=============================================================================
