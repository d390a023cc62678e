---------------------------- MODULE DaemonFaults ----------------------------
(***************************************************************************)
(* The daemon when a statement of its database fails: a full disk, or      *)
(* another command of the user that holds the lock for too long.           *)
(*                                                                         *)
(* Each handler stops where the statement fails, with what it has done by  *)
(* then.  The error of a request goes to the client; that of a tick or of  *)
(* Ctrl-C leaves run_foreground, and the process ends.  A request whose    *)
(* first statement fails changes nothing and is not an action.             *)
(***************************************************************************)
EXTENDS Daemon

FaultCounted == up /\ spent < MaxCommands /\ spent' = spent + 1

\* What schedule may have claimed when a claim fails: the oldest queued rows, and
\* fewer than there are free slots.
ClaimedBefore(table, claimed, act) ==
  /\ claimed \subseteq RowsWith(table, {"queued"})
  /\ \A job \in claimed, other \in RowsWith(table, {"queued"}) \ claimed : job < other
  /\ Cardinality(claimed) < MaxConcurrent - Cardinality(act)

ScheduleFails(table) ==
  \E claimed \in SUBSET RowsWith(table, {"queued"}) :
    /\ ~stopping
    /\ ClaimedBefore(table, claimed, active)
    /\ StartClaimed(table, active, task, claimed)

-----------------------------------------------------------------------------
(* Requests: the client is told of an error, but the row has been written.  *)

EnqueueFails(job) ==
  /\ IsNextRow(db, job)
  /\ ScheduleFails(InsertDaemonDownload(db, job))
  /\ said' = [said EXCEPT ![job] = "enqueue"]

ReviveFails(job) ==
  \/ /\ ResumeDownload(db, job) # db
     /\ ScheduleFails(ResumeDownload(db, job))
     /\ said' = [said EXCEPT ![job] = "resume"]
  \/ /\ RetryDownload(db, job) # db
     /\ ScheduleFails(RetryDownload(db, job))
     /\ said' = [said EXCEPT ![job] = "retry"]

\* The other way round: the download is told to stop, and its row is not.
StopFails(job) ==
  /\ \E run \in active, signal \in {"pause", "cancel"} :
       /\ IsFirstEntry(run, job)
       /\ task' = Signal(task, {run}, signal)
       /\ said' = [said EXCEPT ![job] = signal]
  /\ UNCHANGED <<db, active, runs>>

RequestFails ==
  /\ FaultCounted
  /\ \E job \in Jobs : EnqueueFails(job) \/ ReviveFails(job) \/ StopFails(job)
  /\ UNCHANGED <<up, stopping>>

\* The entries after the one whose row cannot be requeued are neither requeued
\* nor told to pause, and a second request finds the daemon stopping.
ShutdownFails ==
  /\ FaultCounted /\ ~stopping
  /\ stopping' = TRUE
  /\ \E reached \in SUBSET active :
       /\ reached # active
       /\ db' = RequeueDownload(db, JobsOf(reached))
       /\ task' = Signal(task, reached, "pause")
  /\ UNCHANGED <<up, active, runs, said>>

-----------------------------------------------------------------------------
(* The tick and Ctrl-C *)

\* The table when a tick fails in the first loop, among the finished downloads
\* or among the failed ones.
PolledBefore(read, finished, failed) ==
  LET table == UpdateDownloadFinished(UpdateDownloadStarted(db, JobsOf(read)), finished)
  IN  [job \in Jobs |->
         AfterFailures(table[job], [n \in {m \in DOMAIN FailedRuns(job) : <<job, m>> \in failed} |->
                                      FailedRuns(job)[n]])]

FailedEntries == {run \in Ended : task[run].outcome # "finished"}

\* The failed entries are taken in the order of the list.
EarlierEntries(some) ==
  \A run \in some, other \in FailedEntries :
    Job(run) = Job(other) /\ other[2] < run[2] => other \in some

\* Without an entry a tick runs no statement before it schedules.
PollFails ==
  /\ active # {}
  /\ \E missed \in SUBSET {run \in Ended : task[run].unread} :
      \E read \in SUBSET StartedEvents(missed), finished \in SUBSET FinishedJobs,
         failed \in SUBSET FailedEntries :
        /\ finished # {} => read = StartedEvents(missed)
        /\ failed # {} => finished = FinishedJobs /\ read = StartedEvents(missed)
        /\ EarlierEntries(failed)
        /\ db' = PolledBefore(read, finished, failed)

PollScheduleFails ==
  \E missed \in SUBSET {run \in Ended : task[run].unread} :
    \E claimed \in SUBSET RowsWith(PolledTable(missed), {"queued"}) :
      /\ ~stopping
      /\ ClaimedBefore(PolledTable(missed), claimed, PolledActive)
      /\ db' = ClaimDaemonDownloads(PolledTable(missed), claimed)

CtrlCFails ==
  /\ Foreground /\ ~stopping
  /\ \E reached \in SUBSET active :
       reached # active /\ db' = RequeueDownload(db, JobsOf(reached))

\* The error leaves run_foreground, and the process is gone.
DaemonDies ==
  /\ FaultCounted
  /\ PollFails \/ PollScheduleFails \/ CtrlCFails
  /\ up' = FALSE /\ stopping' = FALSE
  /\ active' = {} /\ task' = NoTasks
  /\ UNCHANGED <<runs, said>>

Faults == RequestFails \/ ShutdownFails \/ DaemonDies

FaultySpec == Init /\ [][Next \/ Faults]_vars /\ Fairness
=============================================================================
