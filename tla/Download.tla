------------------------------ MODULE Download ------------------------------
(***************************************************************************)
(* One output file and the downloads that write it, one after the other    *)
(* (crates/arkama_core/src/downloader/): the engine and its plan, the      *)
(* segment workers, the periodic saver, the single-stream worker, pause,   *)
(* cancel and Ctrl-C, and what a crash leaves on the disk.                 *)
(*                                                                         *)
(* A byte of the file is a unit: 0 in a hole, or the version of the        *)
(* server's file it was read from.  All versions have the same size, known *)
(* to the probe; a version stands for the validators and the other         *)
(* metadata a saved state is compared by, and none comes back.  A server   *)
(* that gives no validator, whose changes nobody can tell, and entropy     *)
(* mode are not modelled.                                                  *)
(***************************************************************************)
EXTENDS Segments, FiniteSets, Functions

CONSTANTS
  Total,          \* size of the file, in units
  Connections,    \* DownloadRequest.connections
  Batch,          \* STATE_SYNC_BATCH_BYTES, in units
  MaxAttempts,    \* failures a worker forgives: five in the source
  RangeSupport,   \* what a probe may say of range support: a set of BOOLEANs
  Commands,       \* what the user may ask of a running download
  MaxVersion,     \* bound: versions the server's file goes through
  MaxFaults,      \* bound: crashes and failed state writes
  MaxRuns         \* bound: downloads started

ASSUME ConstantsAssumption ==
  /\ Total \in Nat \ {0} /\ Connections \in Nat /\ Batch \in Nat \ {0}
  /\ MaxAttempts \in Nat /\ MaxVersion \in Nat \ {0}
  /\ MaxFaults \in Nat /\ MaxRuns \in Nat
  /\ RangeSupport \subseteq BOOLEAN
  /\ Commands \subseteq {"pause", "cancel", "ctrl-c"}

VARIABLES
  server,     \* the version the server has now
  exists,     \* the output file exists ...
  out,        \* ... with these bytes, a function from its offsets
  saved,      \* the state file
  pc,         \* where the engine is
  mode,       \* the transfer it runs, or ran last: segmented or single
  version,    \* the version probed: etag, if_range and the rest
  ranges,     \* accept_ranges
  kept,       \* history: the offsets of the output the transfer does not fetch,
              \* since the plan has found them there
  signal,     \* the stop signal
  asked,      \* history: the stops asked for since the download was started
  shared,     \* DownloadState.segments: bytes downloaded, by segment
  writer,     \* who holds the DownloadState lock and is writing the state file
  saver,      \* the periodic saver: off, on, or failed
  worker,     \* the segment workers
  single,     \* the single-stream worker
  outcome,    \* how the transfer ended: the result the engine handles
  result,     \* how the last download ended
  stale,      \* history: the output was removed after the state, or one it
              \* continues, was saved ...
  trusted,    \* ... or not: the plan resumes from no such state
  faults, started    \* bounds

disk    == <<exists, out, saved, stale>>
plan    == <<mode, version, trusted>>
bounds  == <<faults, started>>
vars == <<server, disk, pc, plan, ranges, kept, signal, asked, shared, writer, saver, worker,
          single, outcome, result, bounds>>

\* All but asked, which no guard reads: the view of runs whose invariants ask
\* nothing of it but its type.
unasked == <<server, disk, pc, plan, ranges, kept, signal, shared, writer, saver, worker, single,
             outcome, result, bounds>>

Segs == BuildSegments(Total, Connections)
Ids  == DOMAIN Segs
Nothing == [id \in {} |-> 0]

Sum(done) == FoldFunction(+, 0, done)

-----------------------------------------------------------------------------
(* The disk *)

NoState == [kind |-> "none", version |-> 0, done |-> Nothing]
Torn    == [kind |-> "torn", version |-> 0, done |-> Nothing]
State   == [kind |-> "state", version |-> version, done |-> shared]

\* Write a unit at an offset of the file, leaving a hole before it if it is
\* beyond the end.
Written(offset, unit) ==
  [o \in DOMAIN out \cup 0 .. offset |->
     IF o = offset THEN unit ELSE IF o \in DOMAIN out THEN out[o] ELSE 0]

\* A worker that has the removed file open goes on writing to it unseen.
Unlinked(w) == [w EXCEPT !.linked = FALSE]

RemoveOutput ==
  /\ exists' = FALSE
  /\ out' = Nothing
  /\ stale' = (stale \/ (exists /\ saved'.kind = "state"))

KeepOutput == UNCHANGED <<exists, out, stale>>

\* open with create(true) and truncate(false).
OpenOutput == exists' = TRUE /\ UNCHANGED <<out, stale>>

-----------------------------------------------------------------------------
(* Workers *)

\* A worker waits to send a request, for the response, or for the stream's next
\* chunk, or it has returned.  last: its last unit is with the runtime and not
\* in the file yet.
Worker(progress) ==
  [pc |-> "request", got |-> progress, pending |-> 0, attempts |-> 0,
   linked |-> FALSE, last |-> FALSE, body |-> 0, result |-> "none"]

\* What a worker counted is forgotten when it returns.
Returned(w, how) ==
  [w EXCEPT !.pc = "done", !.result = how, !.pending = 0, !.attempts = 0]

\* Mutants: the limit is tested before the failure is counted; failures are not
\* counted.
Retried_OneMore(w) ==
  IF w.attempts > MaxAttempts
    THEN Returned(w, "error")
    ELSE [w EXCEPT !.attempts = w.attempts + 1, !.pc = "request"]

Retried_Forever(w) == [w EXCEPT !.pc = "request"]

\* One more failure: the worker gives up, or waits and asks again.
Retried(w) ==
  IF w.attempts + 1 > MaxAttempts
    THEN Returned(w, "error")
    ELSE [w EXCEPT !.attempts = w.attempts + 1, !.pc = "request"]

Flushed(w) == [w EXCEPT !.last = FALSE]

\* remaining_start is None: the worker returns before its first request.
SegmentWorker(id, progress) ==
  IF progress >= SegmentSize(Segs[id]) THEN Returned(Worker(progress), "ok") ELSE Worker(progress)

NoWorkers == [id \in Ids |-> Returned(Worker(0), "ok")]
NoSingle  == Returned(Worker(0), "ok")

\* Nobody is at work on the output.
Idle == (\A id \in Ids : worker[id].pc = "done") /\ single.pc = "done"

Init ==
  /\ server = 1
  /\ exists = FALSE /\ out = Nothing /\ saved = NoState
  /\ pc = "idle" /\ mode = "segmented" /\ version = 1 /\ ranges = FALSE /\ kept = {}
  /\ signal = "none" /\ asked = {}
  /\ shared = [id \in Ids |-> 0]
  /\ writer = "none" /\ saver = "off"
  /\ worker = NoWorkers /\ single = NoSingle
  /\ outcome = "none" /\ result = "none"
  /\ stale = FALSE /\ trusted = TRUE
  /\ faults = 0 /\ started = 0

-----------------------------------------------------------------------------
(* download_inner, from the probe to the first await of the transfer *)

\* A state is used if it can be read, its output exists and the metadata match.
Usable == exists /\ saved.kind = "state" /\ saved.version = server

\* Mutant: the saved segments are not looked at.
PlannedSegments_Anew(supported) ==
  IF supported THEN [id \in Ids |-> 0] ELSE Nothing

\* DownloadPlan::new: the saved segments, new ones if there is no output, or
\* none at all.
PlannedSegments(supported) ==
  IF Usable THEN saved.done
  ELSE IF ~exists /\ supported THEN [id \in Ids |-> 0] ELSE Nothing

AlreadyDownloaded(supported) ==
  LET done == PlannedSegments(supported)
  IN  IF supported /\ done # Nothing THEN Sum(done)
      ELSE IF supported /\ exists THEN Cardinality(DOMAIN out) ELSE 0

\* The bytes of a file that these counts stand for.
Offsets(done) == {o \in 0 .. Total - 1 : \E id \in Ids : o - Segs[id].start \in 0 .. done[id] - 1}

\* The output has all the bytes already, it seems.
FinishAtOnce(supported) ==
  /\ exists /\ AlreadyDownloaded(supported) >= Total
  /\ saved' = NoState
  /\ result' = "finished"
  /\ pc' = "idle"
  /\ kept' = {}
  /\ KeepOutput
  /\ UNCHANGED <<mode, shared, single>>

StartSegmented(supported) ==
  /\ ~(exists /\ AlreadyDownloaded(supported) >= Total)
  /\ supported /\ PlannedSegments(supported) # Nothing
  /\ pc' = "prepare"
  /\ mode' = "segmented"
  /\ shared' = PlannedSegments(supported)
  /\ kept' = Offsets(PlannedSegments(supported))
  /\ result' = "none"
  /\ UNCHANGED <<disk, single>>

\* execute_single appends to an output if ranges are supported, and removes it
\* otherwise.
StartSingle(supported) ==
  /\ ~(exists /\ AlreadyDownloaded(supported) >= Total)
  /\ ~(supported /\ PlannedSegments(supported) # Nothing)
  /\ pc' = "wait"
  /\ mode' = "single"
  /\ single' = Worker(IF exists /\ supported THEN Cardinality(DOMAIN out) ELSE 0)
  /\ kept' = IF exists /\ supported THEN DOMAIN out ELSE {}
  /\ result' = "none"
  /\ saved' = saved
  /\ IF exists /\ ~supported THEN RemoveOutput ELSE KeepOutput
  /\ UNCHANGED shared

\* start_download: the engine asks the server about the file first.
Start ==
  /\ pc = "idle"
  /\ Idle /\ saver = "off"
  /\ started < MaxRuns
  /\ started' = started + 1
  /\ pc' = "probe"
  /\ signal' = "none" /\ asked' = {} /\ outcome' = "none" /\ result' = "none"
  /\ UNCHANGED <<server, disk, plan, ranges, kept, shared, writer, saver, worker, single, faults>>

\* No client, no answer, or no name for the output.  Nothing looks at the signal.
ProbeFails ==
  /\ pc = "probe" /\ pc' = "idle"
  /\ result' = "error"
  /\ UNCHANGED <<server, disk, plan, ranges, kept, signal, asked, shared, writer, saver, worker,
                 single, outcome, bounds>>

Begin ==
  /\ pc = "probe"
  /\ version' = server
  /\ trusted' = ~(Usable /\ stale)
  /\ \E supported \in RangeSupport :
       /\ ranges' = supported
       /\ FinishAtOnce(supported) \/ StartSegmented(supported) \/ StartSingle(supported)
  /\ worker' = NoWorkers
  /\ UNCHANGED <<server, signal, asked, writer, saver, outcome, bounds>>

-----------------------------------------------------------------------------
(* execute_segmented *)

\* prepare_output: create the file and give it its full length.  The saver is
\* spawned here too.
PrepareOutput ==
  /\ pc = "prepare"
  /\ exists' = TRUE
  /\ out' = [o \in 0 .. Total - 1 |-> IF o \in DOMAIN out THEN out[o] ELSE 0]
  /\ pc' = "save"
  /\ saver' = "on"
  /\ UNCHANGED <<server, saved, stale, plan, ranges, kept, signal, asked, shared, writer, worker, single,
                 outcome, result, bounds>>

\* save_state holds the lock from its snapshot to the end of the write, which
\* truncates the file first.
StartWriting(who) ==
  /\ writer = "none"
  /\ writer' = who
  /\ saved' = Torn
  /\ stale' = ~trusted
  /\ UNCHANGED <<server, exists, out, plan, ranges, kept, signal, asked, shared, worker, single, bounds>>

DoneWriting(who, ok) ==
  /\ writer = who
  /\ writer' = "none"
  /\ IF ok THEN saved' = (IF mode = "single" THEN [State EXCEPT !.done = Nothing] ELSE State)
                /\ faults' = faults
           ELSE saved' = saved /\ faults < MaxFaults /\ faults' = faults + 1
  /\ UNCHANGED <<server, exists, out, stale, plan, ranges, kept, signal, asked, shared, single, started>>

\* The engine saves before the workers are spawned, when it is interrupted, and
\* when its workers have paused.
EngineSaves ==
  \/ pc \in {"save", "interrupt"}
  \/ pc = "handle" /\ mode = "segmented" /\ outcome = "pause"

EngineStartsSaving ==
  EngineSaves /\ StartWriting("engine") /\ UNCHANGED <<pc, saver, outcome, result>>

EngineSaved ==
  /\ DoneWriting("engine", TRUE)
  /\ \/ /\ pc = "save"
        /\ pc' = "wait"
        /\ worker' = [id \in Ids |-> SegmentWorker(id, shared[id])]
        /\ UNCHANGED <<outcome, result>>
     \/ pc = "interrupt" /\ pc' = "closing" /\ outcome' = "pause" /\ UNCHANGED <<worker, result>>
     \/ pc = "handle" /\ pc' = "idle" /\ result' = "paused" /\ UNCHANGED <<worker, outcome>>
  /\ UNCHANGED saver

\* The error is returned as it is.  If it is the first save that fails, nobody
\* stops the saver.
EngineSaveFails ==
  /\ DoneWriting("engine", FALSE)
  /\ IF pc = "interrupt"
       THEN pc' = "closing" /\ outcome' = "error" /\ UNCHANGED result
       ELSE pc' = "idle" /\ result' = "error" /\ UNCHANGED outcome
  /\ UNCHANGED <<worker, saver>>

\* periodic_save: one tick.  A failed save ends the task.
SaverStartsSaving ==
  saver = "on" /\ StartWriting("saver") /\ UNCHANGED <<pc, saver, outcome, result>>

SaverSaved ==
  DoneWriting("saver", TRUE) /\ UNCHANGED <<pc, saver, outcome, result, worker>>

SaverSaveFails ==
  DoneWriting("saver", FALSE) /\ saver' = "failed" /\ UNCHANGED <<pc, outcome, result, worker>>

-----------------------------------------------------------------------------
(* download_segment *)

\* What a step of segment worker id changes: itself, what it writes to the
\* file and what it tells the state.
Step(id, w) ==
  /\ worker' = [worker EXCEPT ![id] = w]
  /\ UNCHANGED <<server, saved, pc, plan, ranges, kept, signal, asked, writer, saver, single, outcome,
                 result, bounds>>

NoSync == UNCHANGED shared

\* flush, then update_state, which waits for the lock.
Sync(id, got) == writer = "none" /\ shared' = [shared EXCEPT ![id] = got]

SyncPending(id) ==
  IF worker[id].pending > 0 THEN Sync(id, worker[id].got) ELSE NoSync

Remaining(id) == worker[id].got < SegmentSize(Segs[id])

Request(id) ==
  /\ worker[id].pc = "request"
  /\ Step(id, IF signal # "none" THEN Returned(worker[id], signal)
              ELSE [worker[id] EXCEPT !.pc = "await"])
  /\ KeepOutput /\ NoSync

\* No response, or one with an error status.  A worker that has every byte asks
\* for an empty range.
RequestFails(id) ==
  worker[id].pc = "await" /\ Step(id, Retried(worker[id])) /\ KeepOutput /\ NoSync

\* 200 and the whole file: the If-Range validator has changed, or the server
\* does not serve this range.
RangeRefused(id) ==
  worker[id].pc = "await" /\ Step(id, Returned(worker[id], "range")) /\ KeepOutput /\ NoSync

\* 206: the file is still of the version probed.
RangeAccepted(id) ==
  /\ worker[id].pc = "await"
  /\ server = version /\ Remaining(id)
  /\ Step(id, [worker[id] EXCEPT !.pc = "stream", !.linked = TRUE, !.pending = 0])
  /\ OpenOutput /\ NoSync

\* Mutant: the state is told before the file is flushed.
Chunk_SyncFirst(id) ==
  LET w == worker[id]
      full == w.pending + 1 >= Batch
  IN  /\ w.pc = "stream" /\ Remaining(id)
      /\ Step(id, [w EXCEPT !.got = w.got + 1, !.last = TRUE,
                            !.pending = IF full THEN 0 ELSE w.pending + 1])
      /\ out' = IF w.linked THEN Written(RemainingStart(Segs[id]) + w.got, version) ELSE out
      /\ IF full THEN Sync(id, w.got + 1) ELSE NoSync
      /\ UNCHANGED <<exists, stale>>

\* A chunk arrives and is written; every Batch of them the state is told.  The
\* worker may take a chunk although a stop has been asked for.
Chunk(id) ==
  LET w == worker[id]
      full == w.pending + 1 >= Batch
  IN  /\ w.pc = "stream" /\ Remaining(id)
      /\ Step(id, [w EXCEPT !.got = w.got + 1, !.last = ~full,
                            !.pending = IF full THEN 0 ELSE w.pending + 1])
      /\ out' = IF w.linked THEN Written(RemainingStart(Segs[id]) + w.got, version) ELSE out
      /\ IF full THEN Sync(id, w.got + 1) ELSE NoSync
      /\ UNCHANGED <<exists, stale>>

\* Mutant: the end of the wait for a change of the signal is taken for a stop.
StopStream_Unchecked(id) ==
  /\ worker[id].pc = "stream"
  /\ Step(id, Returned(Flushed(worker[id]), IF signal = "none" THEN "pause" ELSE signal))
  /\ SyncPending(id) /\ KeepOutput

StopStream(id) ==
  /\ worker[id].pc = "stream" /\ signal # "none"
  /\ Step(id, Returned(Flushed(worker[id]), signal))
  /\ SyncPending(id) /\ KeepOutput

BreakStream(id) ==
  /\ worker[id].pc = "stream"
  /\ Step(id, Retried(Flushed(worker[id])))
  /\ SyncPending(id) /\ KeepOutput

\* Mutant: the end of the stream is taken for the end of the segment.
EndStream_Early(id) ==
  /\ worker[id].pc = "stream"
  /\ Step(id, Returned(Flushed(worker[id]), "ok"))
  /\ SyncPending(id) /\ KeepOutput

EndStream(id) ==
  /\ worker[id].pc = "stream"
  /\ Step(id, IF Remaining(id) THEN Retried(Flushed(worker[id]))
              ELSE Returned(Flushed(worker[id]), "ok"))
  /\ SyncPending(id) /\ KeepOutput

WorkerStep(id) ==
  \/ Request(id) \/ RequestFails(id) \/ RangeRefused(id) \/ RangeAccepted(id)
  \/ Chunk(id) \/ StopStream(id) \/ BreakStream(id) \/ EndStream(id)

-----------------------------------------------------------------------------
(* download_single *)

SingleStep(w) ==
  /\ single' = w
  /\ UNCHANGED <<server, saved, pc, plan, signal, asked, shared, writer, saver, outcome, result, bounds>>

SingleActs(at) == single.pc = at /\ mode = "single"

Ranged == ranges /\ single.got > 0

SingleRequest ==
  /\ SingleActs("request")
  /\ SingleStep(IF signal # "none" THEN Returned(single, signal)
                ELSE [single EXCEPT !.pc = "await"])
  /\ KeepOutput /\ UNCHANGED <<ranges, kept, worker>>

SingleRequestFails ==
  SingleActs("await") /\ SingleStep(Retried(single)) /\ KeepOutput /\ UNCHANGED <<ranges, kept, worker>>

\* Not a partial response: start over, without ranges.
SingleRefused ==
  /\ SingleActs("await") /\ Ranged
  /\ SingleStep([single EXCEPT !.pc = "request", !.got = 0])
  /\ ranges' = FALSE /\ kept' = {}
  /\ RemoveOutput /\ worker' = [id \in Ids |-> Unlinked(worker[id])]

SingleAccepted ==
  /\ SingleActs("await")
  /\ Ranged => server = version /\ single.got < Total
  /\ SingleStep([single EXCEPT !.pc = "stream", !.body = server])
  /\ OpenOutput /\ UNCHANGED <<ranges, kept, worker>>

SingleChunk ==
  /\ SingleActs("stream") /\ single.got < Total
  /\ SingleStep([single EXCEPT !.got = single.got + 1])
  /\ out' = Written(single.got, single.body)
  /\ UNCHANGED <<exists, stale, ranges, kept, worker>>

SingleStop ==
  /\ SingleActs("stream") /\ signal # "none"
  /\ SingleStep(Returned(single, signal))
  /\ KeepOutput /\ UNCHANGED <<ranges, kept, worker>>

\* Mutant: the next attempt goes on where the stream broke, ranges or not.
SingleBreak_GoesOn ==
  SingleActs("stream") /\ SingleStep(Retried(single)) /\ KeepOutput /\ UNCHANGED <<ranges, kept, worker>>

\* The stream breaks or ends early: without ranges the next attempt starts over.
SingleBreak ==
  LET w == Retried(single)
  IN  /\ SingleActs("stream")
      /\ IF w.pc = "request" /\ ~ranges
           THEN /\ SingleStep([w EXCEPT !.got = 0])
                /\ RemoveOutput /\ worker' = [id \in Ids |-> Unlinked(worker[id])]
           ELSE SingleStep(w) /\ KeepOutput /\ UNCHANGED worker
      /\ UNCHANGED <<ranges, kept>>

SingleEnd ==
  /\ SingleActs("stream") /\ single.got >= Total
  /\ SingleStep(Returned(single, "ok"))
  /\ KeepOutput /\ UNCHANGED <<ranges, kept, worker>>

SingleSteps ==
  \/ SingleRequest \/ SingleRequestFails \/ SingleRefused \/ SingleAccepted
  \/ SingleChunk \/ SingleStop \/ SingleBreak \/ SingleEnd

-----------------------------------------------------------------------------
(* wait_with_ctrl_c, handle_segmented_result and the end of download_inner *)

EngineStep(next) == pc' = next /\ UNCHANGED <<server, plan, signal, asked, shared, writer, bounds>>

\* wait_all takes the handles in their order and returns at the first error: a
\* later worker may still be running, and nobody waits for it any more.
FirstError(id) ==
  /\ worker[id].pc = "done" /\ worker[id].result # "ok"
  /\ \A k \in Ids : k < id => worker[k].pc = "done" /\ worker[k].result = "ok"

Waited ==
  /\ pc = "wait"
  /\ IF mode = "segmented"
       THEN \/ \E id \in Ids : FirstError(id) /\ outcome' = worker[id].result
            \/ (\A id \in Ids : worker[id].pc = "done" /\ worker[id].result = "ok") /\ outcome' = "ok"
       ELSE single.pc = "done" /\ outcome' = single.result
  /\ EngineStep("closing")
  /\ UNCHANGED <<disk, ranges, kept, saver, worker, single, result>>

\* Mutant: nobody tells the saver to stop.
SaverStopped_Left ==
  /\ pc = "closing"
  /\ saver' = saver
  /\ outcome' = outcome
  /\ EngineStep("handle")
  /\ UNCHANGED <<disk, ranges, kept, worker, single, result>>

\* The saver sees save_tx between two saves, and the engine waits for it.  Its
\* own failure counts if the transfer had none.
SaverStopped ==
  /\ pc = "closing"
  /\ writer # "saver"
  /\ saver' = "off"
  /\ outcome' = IF outcome = "ok" /\ saver = "failed" THEN "error" ELSE outcome
  /\ EngineStep("handle")
  /\ UNCHANGED <<disk, ranges, kept, worker, single, result>>

Finish ==
  /\ pc = "handle" /\ outcome = "ok"
  /\ saved' = NoState
  /\ result' = "finished"
  /\ EngineStep("idle")
  /\ KeepOutput /\ UNCHANGED <<ranges, kept, saver, worker, single, outcome>>

RemoveBoth ==
  /\ saved' = NoState
  /\ RemoveOutput
  /\ worker' = [id \in Ids |-> Unlinked(worker[id])]

Cancel ==
  /\ pc = "handle" /\ outcome = "cancel"
  /\ RemoveBoth
  /\ result' = "cancelled"
  /\ EngineStep("idle")
  /\ UNCHANGED <<ranges, kept, saver, single, outcome>>

\* RangeUnsupported: everything is fetched again in a single stream.
FallBack ==
  /\ pc = "handle" /\ outcome = "range"
  /\ RemoveBoth
  /\ ranges' = FALSE /\ kept' = {}
  /\ single' = Worker(0)
  /\ outcome' = "none"
  /\ pc' = "wait" /\ mode' = "single"
  /\ UNCHANGED <<server, version, trusted, signal, asked, shared, writer, saver, result, bounds>>

\* An error is returned as it is, and so is the pause of a single stream.
ReturnError ==
  /\ pc = "handle"
  /\ outcome = "error" \/ (mode = "single" /\ outcome = "pause")
  /\ result' = IF outcome = "error" THEN "error" ELSE "paused"
  /\ EngineStep("idle")
  /\ UNCHANGED <<disk, ranges, kept, saver, worker, single, outcome>>

Engine ==
  \/ PrepareOutput \/ EngineStartsSaving \/ EngineSaved \/ EngineSaveFails
  \/ Waited \/ SaverStopped
  \/ Finish \/ Cancel \/ FallBack \/ ReturnError

-----------------------------------------------------------------------------
(* The user, the server and crashes *)

\* DownloadControl::pause and cancel.
Ask(command) ==
  /\ command \in Commands /\ pc # "idle" /\ signal # command
  /\ signal' = command /\ asked' = asked \cup {command}
  /\ UNCHANGED <<server, disk, pc, plan, ranges, kept, shared, writer, saver, worker, single, outcome,
                 result, bounds>>

\* The engine stops waiting for its workers; they read the signal on their own.
CtrlC ==
  /\ "ctrl-c" \in Commands /\ pc = "wait"
  /\ signal' = "pause" /\ asked' = asked \cup {"pause"}
  /\ pc' = "interrupt"
  /\ UNCHANGED <<server, disk, plan, ranges, kept, shared, writer, saver, worker, single, outcome,
                 result, bounds>>

ServerChanges ==
  /\ server < MaxVersion
  /\ server' = server + 1
  /\ UNCHANGED <<disk, pc, plan, ranges, kept, signal, asked, shared, writer, saver, worker, single, outcome,
                 result, bounds>>

\* The process dies, and a last unit that has not reached the file is lost or
\* not.
Crash ==
  /\ pc # "idle" \/ ~Idle \/ saver = "on"
  /\ faults < MaxFaults
  /\ faults' = faults + 1
  /\ \E lost \in SUBSET {id \in Ids : worker[id].last /\ worker[id].linked} :
       out' = [o \in DOMAIN out |->
                 IF \E id \in lost : o = RemainingStart(Segs[id]) + worker[id].got - 1
                   THEN 0 ELSE out[o]]
  /\ pc' = "idle" /\ writer' = "none" /\ saver' = "off" /\ signal' = "none"
  /\ worker' = NoWorkers /\ single' = NoSingle
  /\ outcome' = "none"
  /\ result' = IF pc = "idle" THEN result ELSE "none"
  /\ UNCHANGED <<server, exists, saved, stale, plan, ranges, kept, asked, shared, started>>

Next ==
  \/ Start \/ ProbeFails \/ Begin
  \/ Engine
  \/ SaverStartsSaving \/ SaverSaved \/ SaverSaveFails
  \/ \E id \in Ids : WorkerStep(id)
  \/ SingleSteps
  \/ \E command \in {"pause", "cancel"} : Ask(command)
  \/ CtrlC \/ ServerChanges \/ Crash

\* The runtime runs every task that can run; the lock is handed over in the
\* order of arrival, so that a task waiting for it gets it however often the
\* saver asks for it.  A server answers each request, or its connection breaks,
\* and each stream ends.
Fairness ==
  /\ WF_vars(Begin \/ ProbeFails)
  /\ SF_vars(Engine)
  /\ WF_vars(SaverSaved)
  /\ \A id \in Ids : SF_vars(WorkerStep(id))
  /\ WF_vars(SingleSteps)

Spec == Init /\ [][Next]_vars /\ Fairness

-----------------------------------------------------------------------------
Contents == 0 .. MaxVersion
Workers ==
  [pc : {"request", "await", "stream", "done"}, got : 0 .. Total, pending : 0 .. Batch - 1,
   attempts : 0 .. MaxAttempts, linked : BOOLEAN, last : BOOLEAN, body : Contents,
   result : {"none", "ok", "pause", "cancel", "range", "error"}]

\* No worker counts more bytes than the file has or retries more often than it
\* may, and the state file is written by one task at a time.
TypeOK ==
  /\ server \in 1 .. MaxVersion /\ version \in 1 .. MaxVersion
  /\ exists \in BOOLEAN /\ stale \in BOOLEAN /\ trusted \in BOOLEAN /\ ranges \in BOOLEAN
  /\ \E n \in 0 .. Total : out \in [0 .. n - 1 -> Contents]
  /\ saved.kind \in {"none", "torn", "state"} /\ saved.version \in Contents
  /\ saved.done \in [Ids -> 0 .. Total] \cup {Nothing}
  /\ pc \in {"idle", "probe", "prepare", "save", "wait", "interrupt", "closing", "handle"}
  /\ mode \in {"segmented", "single"}
  /\ signal \in {"none", "pause", "cancel"} /\ asked \subseteq {"pause", "cancel"}
  /\ shared \in [Ids -> 0 .. Total] /\ kept \subseteq 0 .. Total - 1
  /\ writer \in {"none", "engine", "saver"}
  /\ saver \in {"off", "on", "failed"}
  /\ worker \in [Ids -> Workers] /\ single \in Workers
  /\ outcome \in {"none", "ok", "pause", "cancel", "range", "error"}
  /\ result \in {"none", "finished", "paused", "cancelled", "error"}
  /\ faults \in 0 .. MaxFaults /\ started \in 0 .. MaxRuns

Holds(offset, unit) == offset \in DOMAIN out /\ out[offset] = unit

\* The state file never claims a byte that is not in the output, whatever the
\* workers, the saver and the engine were doing when the process died: bytes
\* are flushed before the state hears of them (worker.rs:175-178, 202-206).
\* This is about a state whose output has not been removed since it was saved,
\* nor since a state it continues was.
StateBacked ==
  saved.kind = "state" /\ exists /\ ~stale =>
    \A id \in DOMAIN saved.done :
      \A k \in 0 .. saved.done[id] - 1 : Holds(Segs[id].start + k, saved.version)

\* A save never takes back what an earlier one has claimed: not a worker's that
\* starts over after a failure, not the engine's beside the saver's, and not that
\* of the download that resumes (plan.rs:94-104, 208, 428-431, worker.rs:130-247,
\* state.rs:62-70).  A state that does not match is not resumed, and may be.
ProgressIsKept ==
  [][writer = "none" /\ writer' # "none"
       /\ saved.kind = "state" /\ ~stale /\ saved.version = version /\ saved.done # Nothing
     => \A id \in Ids : saved.done[id] <= shared[id]]_vars

\* When all segment workers have returned without an error, every byte that the
\* download has not taken over from a saved state comes from the version that
\* was probed, over any number of retries, pauses, crashes and changes of the
\* server's file on the way; and the bytes it has taken over do too, unless that
\* state is older than the output (worker.rs:130-274, control.rs:47-56).
SegmentedComplete ==
  pc = "handle" /\ mode = "segmented" /\ outcome = "ok" =>
    \A o \in 0 .. Total - 1 : trusted \/ o \notin kept => Holds(o, version)

\* A single stream leaves one version of the file after the bytes it has gone on
\* from, with or without ranges and however often it has broken, started over or
\* gone on; only a segment worker that has opened the same file can have put
\* bytes of the version probed among them (worker.rs:289-405).
SingleComplete ==
  pc = "handle" /\ mode = "single" /\ outcome = "ok" =>
    \A o \in (0 .. Total - 1) \ kept :
      \/ Holds(o, single.body)
      \/ Holds(o, version) /\ \E id \in Ids : worker[id].linked

\* A segmented download that has returned Paused has left a readable state
\* (plan.rs:428-430, control.rs:38-43).
PausedLeavesState ==
  pc = "idle" /\ mode = "segmented" /\ result = "paused" => saved.kind = "state"

\* A download that has returned Cancelled leaves no state file, and none is
\* written later: the saver has stopped before the files are removed
\* (plan.rs:241-242, 404-405, 432-438).
CancelLeavesNoState == pc = "idle" /\ result = "cancelled" => saved.kind = "none"

\* Every download comes to an end, whatever the server does, and so do the
\* workers nobody waits for (worker.rs:143-145, 230-232, 246-248).
RunEnds == pc # "idle" ~> pc = "idle" /\ Idle

-----------------------------------------------------------------------------
Task == INSTANCE DownloadTask WITH
          phase <- IF pc \in {"idle", "probe"} THEN pc ELSE "work"

\* A download keeps what the daemon builds on: it reports one result, a stop is
\* reported only if it was asked for since the start, whatever an earlier signal
\* or another worker made of it (engine.rs:31-158, control.rs:38-56,
\* plan.rs:415-454).
ImplementsTask == Task!TaskSpec

-----------------------------------------------------------------------------
(* What the documentation and the tests say and the code does not do; see   *)
(* README.md.                                                               *)

\* A download that reports Finished leaves the whole file, all of one version
\* (README.md:39, 153; core README.md:68-70).
FinishedIsComplete ==
  pc = "idle" /\ result = "finished" =>
    \E v \in 1 .. MaxVersion : \A o \in 0 .. Total - 1 : Holds(o, v)
=============================================================================
