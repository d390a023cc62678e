# A TLA+ verification of arkama

arkama is a download manager: a library that fetches one file over several
connections and can resume (`crates/arkama_core`), a SQLite store of downloads and
settings (`crates/arkama_data`), and a command line with a background daemon that runs a
queue of downloads (`crates/arkama`). This directory holds TLA+ modules translated from
its source, abstract specifications of what the daemon and a download promise, TLC
configurations that check all of them on small instances, and TLAPS proofs, for every
value of the constants, of most of the safety properties and that the daemon and a
download implement their abstract specifications.

Paths below are relative to the repository's root; `daemon.rs`, `db.rs` and
`download.rs` are the files of `crates/arkama/src` and `crates/arkama_data/src`, and
`engine.rs`, `plan.rs`, `worker.rs`, `state.rs`, `control.rs`, `output.rs` those of
`crates/arkama_core/src/downloader`.

## 1. Inventory

### Components

| Component | State it keeps | Operations | Module |
|---|---|---|---|
| Daemon (`daemon.rs`) | `DaemonState`: `active`, `stopping`; one task serves requests, a 100 ms ticker and Ctrl-C | add, pause, resume, cancel, retry, list, show, status, shutdown; `schedule`, `start_one`, `poll_active`, `begin_shutdown`; start-up and recovery | `Daemon`, `DaemonFaults`, `JobQueue` |
| Address file, listener, calls (`daemon.rs`) | the address file, the ping of a daemon that starts, the listener, `AddrFileGuard` | find a daemon, refuse to be the second, serve, leave | `Endpoint` |
| Downloads table (`db.rs`) | one row per job: status, daemon request, columns for display | insert, `claim_next_daemon_download`, `update_download_*`, requeue, resume, retry, recover | `Db` |
| Engine and plan (`downloader.rs`, `engine.rs`, `plan.rs`, `output.rs`, `control.rs`) | the output file, `DownloadState`, the stop signal (a tokio watch), the worker handles | probe, plan, prepare, segmented or single transfer, fall-back, finish, pause, cancel | `Download`, `EntropyQueue`, `DownloadTask` |
| Workers (`worker.rs`) | bytes received, bytes not yet synced, attempts, an open file | request, stream, write, sync, retry, recycle, stop | `Download`, `EntropyQueue` |
| State file and saver (`state.rs`, `plan.rs`) | `*.arkama.state`, `Arc<Mutex<DownloadState>>`, a saver task | save, load, update, remove | `Download` |
| Segment builders (`segment.rs`) | none | cut a file into ranges | `Segments`, `SegmentLoop` |
| HTTP client (`http.rs`) | a connection pool | probe, ranged request | `Probe`; requests for data as seen by `Download` |
| Speed limiter (`rate_limit.rs`) | the time of the next free slot | reserve and sleep | `SpeedLimiter` |
| Local front ends (`download.rs`) | a row with no daemon request, the link being fetched | fetch the links of a command one after the other, in one of three output styles | `LocalCli` |
| CLI, history, configuration, completions, progress, paths | none or display state | parsing, display, directory lookup | not modelled |

### Interactions

- A client sends one JSON line over TCP; the daemon handles it without an await
  (`handle_request`), so requests and ticks are serialised. Everything they decide by is
  the row's status and the list `active`.
- The daemon starts each download as tasks of its own process (`start_one`). From then on
  they share only an event channel and a result handle (download to daemon, read by the
  tick) and the stop signal (daemon to download). A row can therefore lag behind its
  download, and an entry can be dropped while its download runs.
- A daemon tells where it listens by a file, which it removes when it leaves. A daemon
  that starts asks the one in the file, and so does every client. Nothing else keeps two
  daemons apart.
- A local command starts its downloads in its own process and selects over the event
  channel and the result handle, whichever is ready; the silent one awaits the result.
- Within a download the engine spawns one worker per segment and a saver. They share the
  state behind a tokio mutex, the output file and the stop signal. The engine waits for
  the workers in order and leaves at the first error. In entropy mode the segments are
  many and in a queue, and a few workers take them; the workers of a download also share
  the tracker of response times and the speed limiter.
- The output and the state file survive the process, as does the table. The next
  download of the same output trusts what it finds.

### What is hard here, and what correctness means

- *Daemon*: status written by a request and then by an event or a result that is older
  than the request; two entries with one job id; slots freed on one path and scheduled
  on another; a shutdown or a crash at any point. Correct: never more entries than
  `max_concurrent`; table and `active` agree; no idle slot while a job waits; a finished
  job stays finished; what the user stopped starts again by the user's command only; a
  daemon asked to stop stops. All of this also if a statement fails half way.
- *Address file*: a ping, a bind, a write and a removal by processes that do not wait for
  each other. Correct: one daemon, clients find it, and nobody waits for ever.
- *Download*: bytes are received, written, flushed, counted and saved at five different
  moments, by different tasks, and the process can die between any two. Correct: the
  state never claims a byte the output lacks; a transfer that succeeds has every byte of
  the right version; a pause leaves something to resume; a cancel leaves nothing;
  everything ends.
- *Local front ends*: events and the result come from the same task and are taken in
  any order; the stream may end before the result is there, or long after it. Correct: one
  verdict per link, in the row, in the JSON output and in the exit status, and all agree.
- *Entropy mode*: workers that fail, are broken off and go on unheard share one queue.
  Correct: each segment is with one of them or in the queue until it is complete.
- *Probe*: two requests, each may be lost, and a file that changes. Correct: size and
  validator are of one version, and a resumed download recognises its state.
- *Speed limiter*: a slot computed from a clock read before the lock was had. Correct: the
  rate is kept in every window of time, and nobody waits for traffic that is over.
- *Segments*: inclusive ends, zero parameters, remainders. Correct: the file is cut
  without gap or overlap.

`PROJECT.json` lists each hazard at its line with the properties that cover it.

## 2. Modules

**Segments** has the two builders as closed forms (`BuildSegments`,
`BuildSegmentsWithChunkSize`); **SegmentLoop** runs the loops of `segment.rs` an
iteration per step and shows that they compute these closed forms. The other modules use
the closed forms, so they need no recursion and can be proved about.

**Db** has the SQL statements the daemon decides by, as operators on a function from row
ids to statuses. Columns that no `WHERE` clause reads are left out. Every row has a
`daemon_request`. `ClaimedBy` is the effect of claiming up to n rows one after the other.

**Settle** has the last loop of `poll_active` (daemon.rs:445-461) in closed form: what a
row becomes when one tick sees several failed runs of its job. The last part of
**DaemonProofs** proves that it is: no failed run changes nothing, one more is one more
iteration, and so the loop ends there.

**Daemon** (extends `Db`, `Settle`). `up`, `stopping`, `active` are the process and
`DaemonState`; `db` is the table; `task` holds the download tasks. `runs` numbers the
starts of each job, which tells two entries of one job apart as the source cannot.
`said` and `spent` are the last command of each job and the bound on commands and
crashes. Each request, the tick (`PollActive`), `Shutdown`, `CtrlC`, `Exit`, `Crash` and
`Restart` is one action that includes the `schedule` the code ends with. A download is
the automaton probe → work → (leave →) ended with its events and its result; `ObserveStop` is the
moment a worker reads the signal. `Queue` maps the table and the list to `JobQueue`: a job
is busy if it has an entry; else its row says whether it waits, rests or has
finished. Points that matter:
 - `retain(|a| a.id != id)` drops *all* entries of a job (`PolledActive`); a task without
   an entry runs on unheard (`End`).
 - The tick reads the events of an entry before its result, so a Started event sent in
   between is never read (`missed`). The 200-events-per-tick cap has no other effect on the
   status.
 - `Interrupted(hearing)`: tokio delivers Ctrl-C to the listeners that are registered; a
   download that is still probing, or the daemon when it is outside its select, misses it.

**DaemonFaults** (extends `Daemon`) lets any statement of the database fail. A handler
stops where the statement fails: `RequestFails` has written a row and claimed some of
what it could, or told a download to stop and not its row; `ShutdownFails` leaves the
entries after the one that failed alone and the daemon stopping; `PollFails`,
`PollScheduleFails` and `CtrlCFails` end the process (`DaemonDies`), each with any prefix
of its work done. Statements that run before a handler has changed anything are left out,
as their failure changes nothing.

**JobQueue** is the abstract specification of the daemon: what a client is promised of a
job, whatever happens: it waits, is busy, rests or has finished; at most `Slots` are busy;
the oldest that waits is taken first; finished is final; a job at rest is left alone
until a new resume or retry.

**Endpoint** has daemon processes that start, ping, bind, publish their address, serve,
leave and crash, and clients that call them. An address is a process; with a fixed
`ARKAMA_DAEMON_ADDR` (`fixed`) it is whoever listens. A daemon that leaves drops its
command channel, the guard of the file and the listener one after the other (`unlink`,
`close`). A request is answered, or answered with an error if a statement on the table
fails (`AnswerFails`): the COUNT of a ping is one (daemon.rs:183). `apart` is a history
variable: whether no daemon has started while another one started or left, or been told
that its ping has failed.

**Download** (extends `Segments`). One output file and up to `MaxRuns` downloads of it,
one after the other. `exists`, `out`, `saved` are the disk; a byte is 0 in a hole or the
version of the server's file it came from. `pc`, `mode`, `outcome` are the engine;
`worker`, `single`, `saver`, `writer` are the tasks and the lock; `shared` is
`DownloadState.segments`. `last` marks a write that tokio has accepted and not yet
performed: a crash may lose it unless the worker has flushed. `linked` says whether the
worker's open file is still the one at the path: a worker that goes on after the file was
removed writes to the removed one. `stale` and `trusted` are history variables that only
properties read: a state is stale if its output was removed after it was saved, or if a
download that continues a stale state has saved it; a plan that resumes from a stale state is
not `trusted`. `kept` is one more: the offsets that the transfer does not fetch, since the plan has
found them in the state or, for a single stream, in the output. A version stands for the
validators that a state is compared by and a range is asked for with (`If-Range`), and no
version comes back. A server that gives neither ETag nor Last-Modified is outside the module:
no `If-Range` is sent to it (plan.rs:88), it answers a changed file with a range of
the new one, and a changed file of the same size matches the state. `save_state` is two steps (`StartWriting` truncates, `DoneWriting` fills) under
the lock. `asked` holds the stops asked for since the download was started; no guard reads it.
A download begins when all workers of the last one, the single one too, have ended.

**DownloadTask** is the abstract specification of one download, for whoever starts it: it
answers nothing while it probes, it ends with one result, and it says that it was paused or
cancelled only if it was asked to. `Download` implements it (`ImplementsTask`); the
downloads in module `Daemon` (`TaskStep`) take the same view, with a stop that was not yet
read overwritten by the next.

**EntropyQueue** is the transfer of entropy mode. `queue` is the shared queue of segments,
`written` and `shared` are the bytes of a segment in the output and in `DownloadState`,
`worker` the workers with what they have not synced (`pending`) and how often they have
failed, `timings` the tracker. Time is an `age` that a chunk finds. What the output
holds, the saver and crashes are as in `Download` and are left out.

**SpeedLimiter** has the clock, `next_at`, and the chunks that have read the clock, sleep,
or have been let through. Times are whole units, `Second` of them in a second, and costs
are rounded down to units, but not to zero, as `rate_limit.rs` does with nanoseconds.

**Probe** has a site that answers HEAD and GET in some way (`Sites` has all of them), a file
that has versions, and two probes, that of a download and that of the download that
resumes it. The size of a version is its number, so a size or a validator of the
wrong version shows; `OneByte` and `Page` are the sizes of answers that are not the file.

**LocalCli**. A command with `Urls` links in one of the output modes. `pc`, `result`,
`events` and `open` are the download's task: it sends its events, returns, and its event
channel closes when the last sender is gone, which may be before the result is looked at
or after. `row`, `printed` and `exit` are what the command leaves behind. `ReadEvent`,
`StreamEnds` and `TakeResult` are the three outcomes of the select; each that ends the
loop goes on to the next link or leaves the command, as `run_single` does. The silent mode
has no events and only `TakeResult`.

The theorems about a module are in one of their own that extends it: `SegmentProofs`,
`DaemonProofs`, `EndpointProofs`, `DownloadProofs`, `EntropyProofs` (about `EntropyQueue`),
`LimiterProofs` (about `SpeedLimiter`), `ProbeProofs` and `LocalProofs` (about `LocalCli`).

### Atomicity

`handle_request` and `poll_active` have no await, so they are atomic with respect to the
daemon's other work. Their SQL statements are separate transactions: a crash between two
of them leaves, for each job, the row it would have before or after the whole action,
which `Crash` before or after it covers. Within a download a step is what happens between
two awaits, or a group of awaits whose intermediate states no other task can see.

## 3. Runs

State counts and times are those of TLC with two workers.

| Run | Bounds | Properties | Shows |
|---|---|---|---|
| `segment_loop` | see cfg, 599 states | `TypeOK` `PrefixTiled` `ResultTiled` `ResultIsClosedForm` `Terminates` | both builders cut the file exactly, for parameters of zero, below, at and above the size |
| `daemon` | 2 jobs, 2 slots, 3 commands or crashes, Ctrl-C on, 141,731 states | `TypeOK` `ActiveBounded` `ClaimedRowIsActive` `NoIdleSlot` `FinishedIsFinal` `StopHolds` | table and active list agree; which steps may change which rows |
| `daemon_queue` | `DaemonFaults`: 3 jobs, 1 slot, 2 commands, crashes or failed statements, Ctrl-C on, 25,701 states | `ImplementsJobQueue` `StopCompletes` `JobSettles` | the daemon keeps the promises of `JobQueue`; a job comes to rest; shutdown ends |
| `download` | 3 units, 2 workers, 2 runs, 2 versions, 1 fault, pause and cancel, 2,357,818 states | `TypeOK` `StateBacked` `SegmentedComplete` `SingleComplete` `CancelLeavesNoState` `ProgressIsKept` | the state never claims a missing byte; no save claims less than the one before; a successful transfer has fetched every byte it has not taken over, from one version; cancel leaves no state file |
| `download_ends` | 2 units, 2 workers, 1 run, 1 fault, pause, cancel and Ctrl-C, 189,034 states | `PausedLeavesState` `ImplementsTask` `RunEnds` | every download ends as `DownloadTask` says and every worker ends; a pause leaves a state |
| `entropy_queue` | 3 segments of 2 units, 2 workers, 2 forgiven failures, 3 ages, pause, 251,386 states | `InOnePlace` `StateKeepsUp` `AllComplete` `AllReturn` | no segment is lost or fetched by two; the state lags by less than a batch; all workers return |
| `speed_limiter` | 3 workers, 4 chunks, 3 bytes in 4 units of time, clock to 5, 2,300,039 states | `Paced` `NoDebt` | the rate is kept in every window that ends now; nobody waits for traffic that is over |
| `probe` | every kind of site, 3 versions, 37,757 states | `OneVersion` `ProbesAgree` | the metadata of a probe are those of one version; two probes agree whichever request is lost |
| `endpoint` | 3 processes, 1 client, 1 crash, failure or failed request, 184,591 states | `OneDaemon` `Reachable` `CallsEnd` | one daemon serves; the file leads to it; every call ends |
| `local_cli` | 2 links, 3 modes, 282 states | `TypeOK` `OneVerdict` `ErrorIsRecorded` `RowIsFinal` `Ends` | one verdict per link, the download's own; a failing command has recorded why; the command ends |

Two more, `daemon_pause` and `download_changed`, each show one statement of the
documentation that the code does not meet; the next section tells them.

`download` is run with the view `unasked`, which leaves out `asked`. No guard and no
other variable's next value depends on `asked`, and no property of that run says more of it
than its type, so two states that differ in nothing else need not be told apart.

### Why the bounds are enough

- Daemon: the interesting cases are two entries of one job, entries of two jobs
  competing for a slot, and an entry dropped beside one that runs. All three need two jobs and two slots, and at most pause, resume and one more command. The queue run
  has three jobs on one slot, so that a job waits for two others and a claim could pass
  one over. The refinement also holds for three jobs on two slots (272,443 states), where
  a failed claim can leave a slot free; that it holds for all numbers is proved.
- Download: three units on two connections give segments of one and two units, so that
  one segment has a batch boundary inside and one ends before a batch is full. Two runs
  are a run and its resume; one fault falls into either. One
  forgiven failure is enough to reach both branches of a retry; the source forgives five.
  Two versions are enough for a file that changes before, between and during the two runs.
  It takes three runs to resume from a state that is older than the output: one saves it, one
  removes the output, and one finds the two together. In the run, `trusted` is therefore
  always true. `StateBacked` and `SegmentedComplete` also hold for three runs of one worker
  that forgives nothing (two units, 69,768 states), where such a transfer succeeds with
  wrong bytes among those it has taken over; that they hold for all numbers is proved.
  `RunEnds` and `ImplementsTask` do not depend on the sizes, so their run is smaller and has
  Ctrl-C besides.
- Entropy mode: three segments on two workers make one worker take a second segment while
  the other is in its first; two units in a batch of two make a stream break in the
  middle of a batch; two forgiven failures are enough for a stream that is broken off and
  then fails; three ages fill the tracker with two and leave a slower one. Any saved
  progress is an initial state.
- Speed limiter: 3 bytes in 4 units, so that costs are rounded; three workers that can
  overtake each other between clock and lock, and a fourth chunk that comes when slots
  have passed unused.
- Probe: a file can change between the requests of one probe and between the two probes.
- Endpoint: three processes are one that serves, one that is refused or takes its place,
  and one that starts meanwhile.
- Local front ends: two links are one that is followed by another and one that is the
  last; each of the three modes is an initial state.
- Segments: totals and parameters cover zero, one, equal, larger, and sizes with and
  without remainder.

Counters that the bounds cap: `spent` (commands, crashes and failed statements), `faults`,
`started`, `server` and `version`, the clock and the chunks of the limiter, and rows by
`MaxJobs`. The `attempts` of a worker are capped by the source. The daemon's `runs` and `task` are not capped: resume and
retry, which make new runs, are counted in `spent`.

### Fairness

- `Daemon`: weak fairness of `PollActive` (a 100 ms interval), of `Exit` (the loop tests
  `stopping && active.is_empty()` before each select), and of `TaskStep`: a download ends if
  its server does not stall forever, because retries are bounded. Nothing is
  assumed of clients, crashes or restarts. `JobSettles` therefore allows that the daemon
  is down.
- `Download`: strong fairness of the engine and of each worker, since a task waiting for
  the tokio mutex gets it in FIFO order however often the saver takes it; weak fairness
  of the saver's write and of the single worker. Servers answer or the connection breaks;
  nothing is assumed about which. The client sets no read timeout, so a server that
  keeps a connection open and sends nothing holds a download for ever: this is assumed
  away, not proved.
  `Begin` and a failing probe together have weak fairness: a download that was started
  probes, and its probe ends.
- `DaemonFaults`: that of `Daemon`, whatever statements fail.
- `EntropyQueue`: weak fairness of each worker and of the engine's wait. The steps of a worker
  include every way a request can end, and nothing is assumed about which.
- `Endpoint`: weak fairness of the steps of a call and of a process that can go on. Nobody has
  to start a daemon, to call or to stop one.
- `LocalCli`: weak fairness of the download's steps and of `TakeResult`: a select whose
  branch stays ready takes it. Nothing is assumed of `CloseEvents`: a worker that nobody
  waits for may hold a sender for as long as it likes, and the command ends all the same.

`SpeedLimiter` and `Probe` state no fairness: only safety is asked of them.

Deadlock is checked in the daemon's runs. It is not in the others, which stop when the
function has returned, the workers have ended or the bounds are used up.

## 4. Where code and documentation differ

Two are runs that TLC ends with a counterexample, on the smallest instance that shows it.

1. `daemon_pause` / `PauseSticks`. `pause_job` writes `paused` at once. A Started event
   that the tick has not read yet then sets the row to `running` (daemon.rs:391), and the
   returning download is taken for interrupted and requeued: a pause soon after the start
   is lost. `README.md:98-99` says pause pauses an active job.
2. `download_changed` / `FinishedIsComplete`. A saved state that no longer matches is dropped,
   but the output exists, so no segments are made and its pre-allocated length is taken for
   progress (plan.rs:111, 155-158). The download reports Finished with holes
   (engine.rs:87-109), where `README.md:39, 153` promise validation and a fresh start.

The others are behaviours of the modules that no run is for; the properties that hold name them
in their premises.

Of the daemon:

- Pause, then cancel while the download still returns from the pause: its result is
  "interrupted", its row is `cancelled`, not `paused`, and daemon.rs:447-448 requeues it.
  The cancelled job starts again (`README.md:100`).
- Pause and resume before the first download has returned start a second one of the same
  job (daemon.rs:312); when either ends, both entries are dropped (daemon.rs:442) and the
  other is no longer counted against `max_concurrent` (`README.md:122`).
- A shutdown requeues every entry (daemon.rs:280-283): a job paused or cancelled a moment
  before is queued again when the next daemon starts.
- If the statement of a pause or a cancel fails, the download has been told to stop and
  its row has not been written (daemon.rs:292, 328); the client is told of an error.
- If a row cannot be requeued by a shutdown, the entries after it are not told to pause, and
  a second request finds the daemon stopping (daemon.rs:275): it ends when these downloads do.
- A daemon that starts while another leaves finds nobody, since the other hangs up, and
  writes its address; the other then removes the file (daemon.rs:148), and no client finds
  the new one. Two that start together both find nobody (daemon.rs:671); with a port of their
  own each, both serve the same table.
- A ping is answered with an error if the daemon cannot count its queue (daemon.rs:183), and the
  daemon that has asked takes that for no daemon (daemon.rs:671): with a port of its own it
  serves as well.

Of a download:

- A worker that awaits a response when another one returns `cancel` opens the output again,
  with `create(true)`, after the engine has removed it (control.rs:47-56,
  worker.rs:157-163): a cancel can leave an output.
- A single stream with ranges goes on from the length of an output that has no state, whatever
  version that output is of (plan.rs:155-158, 257-262): the bytes before that length and after
  it can be of two versions. So can those before and after a resume if the server gives no
  validator (plan.rs:88).
- A run whose probe finds no range support removes the output and leaves the state file
  (plan.rs:257-266); if it stops half way and a later probe finds ranges again, that state
  is matched with the new output, and `FinishedIsComplete` fails in three downloads of one
  worker.
- A crash between the allocation of the output and the first complete state file
  (plan.rs:180, 208; state.rs:65) leaves an output without a state, and the next download
  reports Finished with holes as in 2.
- A pause saves the state when the first worker has stopped, without what the others have
  received and not synced (control.rs:51, plan.rs:428-431), so a resume can start behind
  the progress last reported. `tests/download_e2e.rs:200` asserts that it does not.
- A stream that is broken off as slow counts as an attempt (worker.rs:266-269): five of
  them and the download ends with an error, though no request has failed.
- When a worker of entropy mode fails, the engine returns, and the others go on to empty
  the queue unheard (plan.rs:382-413).
- The probe does not look at the status of its answers (http.rs:66): the length of an error page
  becomes the size of the file. If a partial answer names no total, the length of the
  one byte asked for does.
- A probe whose two requests are both lost succeeds and says nothing: no size, no ranges. The
  single transfer that follows removes what a paused download has left (plan.rs:264).

Of a local command:

- The task of a failed download drops its event sender before its result is ready. If the
  select takes the end of the stream, the loop breaks and the result is never looked at
  (download.rs:227-229, 301-303): the command goes on and succeeds, with the row failed or,
  if no event told (engine.rs:34-37, 81-85), still running. `crates/arkama/src/main.rs:5-7`
  exits with 1 for an error.

In the premises: `StopHolds` asks for a Started event that has been read, a single entry
and no other stop on its way, and is not about the step of a command or a shutdown;
`JobQueue` lets a busy job become anything but new; `StateBacked` asks for a state whose output was not
removed after it, or one it continues, was saved; `SegmentedComplete` says nothing of the bytes
that a download has taken over from such a state, and `SingleComplete` nothing of those
that a single stream has found in the output and goes on from; it allows bytes of the
version probed where a segment worker has reopened the file; all three are about servers that
give a validator. `OneDaemon` asks for a fixed address, or for daemons that do not start while
another starts or leaves and are not told that their ping has failed, and `Reachable` for
the latter; `OneVersion` and `ProbesAgree` ask for a plain site, and the latter for one answered
request. A site whose HEAD tells the size and no validator is not plain: there the GET fills in a
validator that may be of a later version.

## 5. What is proved

`tlapm DaemonProofs.tla` proves, for every `MaxJobs`, `MaxConcurrent > 0`, `MaxCommands`
and `Foreground` (`ConstantsAssumption`):

- `TypeCorrect`: `Spec => []TypeOK`
- `ActiveIsBounded`: `Spec => []ActiveBounded`
- `ClaimedRowsAreActive`: `Spec => []ClaimedRowIsActive`
- `NoSlotIdles`: `Spec => []NoIdleSlot`
- `FinishedJobsAreFinal`: `Spec => FinishedIsFinal`
- `StopsHold`: `Spec => StopHolds`

and, with any statement failing,

- `DaemonImplementsQueue`: `FaultySpec => ImplementsJobQueue`

The argument. None of the invariants is inductive alone. `Inv` adds that entries are
tasks and finitely many, and that a process that is down has no entries, tasks or
pending stop. `ActiveBounded` needs the finiteness, as a cardinality means nothing
without it; `NoIdleSlot` needs `ActiveBounded`, as `schedule` claims
`MaxConcurrent - |active|` rows and leaves one queued only if it has used all of them;
`ClaimedRowIsActive` needs to know that a tick drops an entry only of a job whose row it
settles, even if an orphaned run of the job had sent a Started event
(`PolledInOrder`, from `FailedIsNotClaimed`); `Restart` needs the last conjunct.
`ClaimsKeep` and `ScheduleKeeps` say once what `StartClaimed` and `Schedule` do with any table,
entries and tasks that satisfy these facts, and each request, the tick and the restart
only has to show what it hands to `Schedule`.

`NoIdleSlot` is not part of `Inv`. It is kept by every step of `Next` (`InvKept`), but not
when a claim fails: a slot is then idle until the next tick. `Inv` alone is kept by the
faults too, which is what the refinement builds on.

`FinishedIsFinal` needs `FinishedIdle` besides: a finished job has no entry, so no event
or result of its other runs reaches its row. This holds because `retain` drops every
entry of the job, the very line by which a transfer escapes the count of slots: the
mutant that drops only the entry that ended breaks the theorem.

`StopHolds` needs `Decided`: a download that returns has an outcome. The tick is the step that
matters (`PolledHolds`): it reads no Started event of the job, and its one run, if it has ended,
has finished or has failed in a way that leaves the row as it is (`OneFailure`).

The refinement. `QueueInv` is `Inv` and `EntriesHaveRows`: the job of an entry has a row. Whether a
job is busy is a matter of the list, and what it is otherwise a matter of the row, so
every handler is seen as two parts: what it does to the table and the entries before it
claims rows (`Prepared`: the row of a job without an entry has changed as the queue
allows, by `RowMayBecome`, and no job has got an entry), and the claim of the oldest rows, none or
all or as many as have been claimed when a statement fails (`PreparedStep`). The slot
limit of the queue counts jobs and the daemon's counts entries; a job may have two entries, and
a lemma compares the cardinalities. A crash and a daemon that dies only take entries
away; a row that is left starting or running is a job that waits, as the next
daemon's recovery will have it.

The last part of `DaemonProofs` proves, for any status and any number of failed runs, `NoFailure` and
`OneMoreFailure`, which are the recurrence of the loop; `LoopIsAfterFailures`, that whatever the
loop has made of a row after its last run is `AfterFailures`; and `PausedSurvives`. A rule of
induction that takes a predicate cannot be used, so the induction over the runs looks for the
first run after which the two differ, from the library's well-foundedness of Nat; `LastNumber`, the
largest number of a bounded set, is found the same way.

`SegmentProofs` proves, for all sets of sizes and parameters (`InputsAssumption`),

- `TypeCorrect`: `Spec => []TypeOK`
- `LoopsTile`: `Spec => []PrefixTiled`
- `FileIsTiled`: `Spec => []ResultTiled`
- `LoopsAreClosedForms`: `Spec => []ResultIsClosedForm`

What a recursive definition computes is out of reach, so the loops are state machines: the
invariant says that a loop with `id` segments has pushed the first `id` of its closed form and
starts where the next of them starts (`EvenStart`, `ChunkStart`). That prefixes tile is a fact
about the closed forms alone (`EvenTiles`, `ChunkTiles`). The arithmetic, a quotient and
products of two variables, is in three lemmas, and the definitions around them are kept from
the solver.

`DownloadProofs` proves, without an assumption,

- `CancelLeavesNoStateFile`: `Spec => []CancelLeavesNoState`
- `PauseLeavesState`: `Spec => []PausedLeavesState`
- `DownloadImplementsTask`: `Spec => ImplementsTask`

and, from `ConstantsAssumption`, that is for any size of the file, number of connections,
batch, number of attempts, downloads, faults and versions,

- `TypeCorrect`: `Spec => []TypeOK`
- `StateIsBacked`: `Spec => []StateBacked`
- `NoSaveForgets`: `Spec => ProgressIsKept`
- `SegmentedIsComplete`: `Spec => []SegmentedComplete`
- `SingleIsComplete`: `Spec => []SingleComplete`

For the first three, neither invariant is inductive: who may write the state file, and when, is. `WritersKnown`
says that the saver writes only while it is on, that the engine writes only where it saves, and
that the saver is off whenever the engine looks at how a transfer has ended; a cancel
removes the state there, and nothing is left that could write it again. `StopsAsked` carries a stop
from the user to the result, through the signal, the workers and the outcome: each knows only
stops that were asked for since the start. It says so of no worker while the next
download probes, as the workers of an earlier one keep what they have read. What a worker counts and
writes plays no part, so `Shaped` says of a worker only that it has a worker's fields.

The bytes are the matter of the other five (`DataInv`). A byte goes through five places, and the
invariant orders them for each segment: what the state file has is at most what
`shared` has, that is at most what the worker has flushed (`Safe`: what it has counted but a write
that is still under way), and what it has counted is in the output (`Behind`, `Fetches`), but for
the bytes that were taken over from a state that may be older than the output (`Fetched`; what is
taken over is what the state counts when the transfer is prepared, `Shares`). A
crash takes away the write that is under way, and so nothing that the state claims (`Shares`,
`SavedBacked`). Three facts carry this. The segments are apart (`SegmentsApart`), so one
worker's lost write is in no other's segment; they cover the file (`EveryByteIsFetched`),
so workers that have all ended well have fetched everything. A worker stays within
its segment (`SegmentFits`), so that a write is never beyond the file. And when a transfer
is prepared nobody else is at work on the output and no state is being written (`Phases`, with
`WritersKnown` from the first part). Each step of a worker is one of three kinds (`WorkerEffect`):
it leaves the output alone, it opens it, or it takes a chunk.

The attempt to prove `StateBacked` has corrected it. In three downloads in a row a state is
saved, its output removed by a probe that finds no ranges, and the state then matched with the
new output and saved again by the third: two downloads, as TLC had, do not show that the new
state is as wrong as the old. `stale` therefore passes from the state a download continues to the
one it saves.

`NoSaveForgets` is about a step that overwrites the state file. While workers fetch, `Behind`
bounds what the file claims by what the state counts. Before they do, in a download that
resumes, and after a first save that has failed and left its saver alone, `Resumes` says the same: the
segments have been taken from the file, since one that describes an output is only there with
that output (`SavedBacked`).

`Singles` is the other half. What a single stream has counted it has fetched, but for what it has
found (`Good`), and from a version between the one probed and the server's present one. To go on
after it broke it needs ranges, and then the server has the version that was probed, or it
would not grant them: all that was fetched before was of that version too, and the
attempts do not mix. Without ranges it starts over from nothing.

`EntropyProofs` proves, from `EntropyAssumption`,

- `SegmentsAreInOnePlace`: `Spec => []InOnePlace`
- `StateIsKeptUp`: `Spec => []StateKeepsUp`
- `SuccessIsComplete`: `Spec => []AllComplete`

The invariant follows a segment. Who has it has it alone (`Owned`), it is in the queue once
(`QueuedOnce`), what is in neither place is complete (`Remembered`), and what the state has
not been told of it is what its worker owes (`Told`). `AllComplete` needs all of them and that
a worker which returns without an error has found the queue empty (`Sensible`): a worker that
fails afterwards keeps its segment, and the transfer then has not succeeded.

`EndpointProofs` proves, without an assumption,

- `OnlyOneDaemon`: `Spec => []OneDaemon`
- `DaemonIsReachable`: `Spec => []Reachable`

With a fixed address the listener keeps daemons apart (`ListensAlone`). Without one a ping does,
and the invariant has to follow it step by step: while a daemon serves, the file names it
(`Published`), and the ping of one that starts has not read the file, or is on its way to that
daemon, or has been answered (`PingFinds`). So a ping that fails has found nobody
(`WorksAlone`), as long as daemons take turns in starting and leaving (`InTurn`) and answer pings
without an error.

`LocalProofs` proves, from `ConstantsAssumption`,

- `TypeCorrect`: `Spec => []TypeOK`
- `OneVerdictForEach`: `Spec => []OneVerdict`
- `FailureIsRecorded`: `Spec => []ErrorIsRecorded`
- `RowsAreFinal`: `Spec => RowIsFinal`

The invariant ties the row and the JSON objects of the current link to the events that are
left to read: while there are any, the row says `running` and nothing has been printed; when there
are none, the row says `running` or the download's verdict, and the object has been printed
exactly if the row has the verdict (`Told`). So it does not matter whether the event or the
result comes first.

`ProbeProofs` proves, without an assumption, that is for any number of versions,

- `OneVersionProbed`: `Spec => []OneVersion`
- `ProbesAlwaysAgree`: `Spec => []ProbesAgree`

Until the GET is answered a plain site has told both the size and the validator or neither
(`Sound`), so the GET completes what it knows and never mixes two versions. While the file
has its first version every answer of a site with validators tells both (`Told`), so two probes
that were answered at all agree.

`LimiterProofs` proves, from `LimiterAssumption`, that is for any rate, any sizes of chunks and
any number of workers and chunks,

- `RateIsKept`: `Spec => []Paced`
- `NobodyOwes`: `Spec => []NoDebt`

Both are about sums, so the first part is about sums over a finite set: that the fold of the
library, whatever element it picks first, gives a sum that grows by one term with each element
(`SumsExist`, `SumIs`, `SumOfOneMore`). Induction over a finite set is stated with a set of its
subsets for the predicate (`FiniteInduction`), from the library's well-founded order of
finite subsets. The invariant then has three sums. The slots of the chunks that
arrived after some time lie between that time and `next_at` (`SlotsFit`), however late they
were reserved. A slot ends when its chunk wakes or before, so the slots of those that arrived after
one time and have woken by another fit between the two (`WokenFit`): `Paced` is the case that the
second is now, and a chunk's bytes are worth at most one unit more than it waits. What is left of
the slots at some time is owed by the chunks that sleep then (`LeftIsOwed`): `NoDebt` is the case
that the time is now. TLC checked the three for three chunks and the other bounds of the run before
they were proved.

Only model-checked: liveness (`StopCompletes`, `JobSettles`, `RunEnds`, `AllReturn`,
`CallsEnd`, `Ends`, `Terminates`), which needs fairness and ENABLED. Every other property of a
passing run is proved.

## 6. What is not modelled

- Requests that are refused, and list, show and status, change nothing; they are
  stuttering steps. `start_background` spawns a daemon and asks for its status every 100 ms.
- I/O errors other than failed writes of the state file and failed statements of the daemon: a
  full disk ends a worker as any other error does.
- A row whose request cannot be parsed (db.rs:426): it is marked starting before, and the tick
  that claims it ends the daemon. Only the daemon writes requests.
- The 200 events a tick reads at most (daemon.rs:366): those left over are progress.
- Power loss: a crash is the death of the process; what it has written stays.
- Downloads of unknown size.
- A new run of an output while workers of the old run are alive, and two jobs with one output:
  `Begin` waits for the workers and the saver to end. Two such downloads share a file and a
  state file and nothing tells them apart.
- What becomes of the tasks of a download when an error leaves `execute_segmented` early: a
  saver whose first save failed is not told to stop (plan.rs:208), and a worker of a
  download that nobody controls any more is told of a change at each look (worker.rs:172),
  so it looks again at once and still makes progress.
- A local command that is killed (its row stays `running`), and a download task that
  panics.
- `--reset-db` while a daemon has the database open; settings and migrations.
- Argument parsing, display, history, configuration, completions, directory lookup:
  no state that another component depends on.

## 7. Plan

Written, in this order: `Segments` and `SegmentLoop`; `Db`, `Settle`; `Daemon`;
`Download`; `DaemonProofs`; `LocalCli`; `JobQueue`, `DaemonFaults`,
`DownloadTask`; `Endpoint`; `EntropyQueue`, `SpeedLimiter`, `Probe`;
`EndpointProofs`, `EntropyProofs`, `DownloadProofs`, `LocalProofs`, `SegmentProofs`; the bytes
in `DownloadProofs`, `ProbeProofs`, `LimiterProofs`. To follow, the most important first:

1. `Transfer`, a one-page specification of the bytes of a file over several downloads, which
   only grow from one run to the next after a pause, and `Download`'s mapping to it.
2. `SharedOutput`: two downloads of one output, that is a new run beside the orphans of
   the last, composed from `Download`'s workers.

## Running

```
tlc -workers 2 -config Daemon.cfg Daemon      # and so on for each cfg
tlapm DaemonProofs.tla                        # and so on for each of the *Proofs modules
```
