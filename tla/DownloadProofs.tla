--------------------------- MODULE DownloadProofs ---------------------------
(***************************************************************************)
(* Theorems about module Download, for any file, any number of workers,    *)
(* downloads, failures and crashes, and whatever the server does.          *)
(*                                                                         *)
(* The first part is about how a download ends and which files it leaves.  *)
(* What the workers count and the bytes of the output do not matter for    *)
(* that: of a worker the invariant only says that it has a worker's        *)
(* fields.  The second part is about the bytes: what the workers count,    *)
(* what the state file says of it, and what is in the output.              *)
(***************************************************************************)
EXTENDS Download, FiniteSetTheorems, TLAPS

Fields(values) ==
  [pc : values, got : values, pending : values, attempts : values,
   linked : values, last : values, body : values, result : values]

IsWorker(w) == \E values : w \in Fields(values)

Shaped ==
  /\ worker = [id \in Ids |-> worker[id]]
  /\ \A id \in Ids : IsWorker(worker[id])
  /\ IsWorker(single)

Asked(how) == how \in {"pause", "cancel"} => how \in asked

\* While a download works, every stop that anybody has heard of was asked for
\* since its start.  A worker of an earlier download may still know another one
\* while the next probes.
StopsAsked ==
  /\ pc # "idle" => Asked(signal)
  /\ pc = "probe" => outcome = "none" /\ result = "none"
  /\ pc = "interrupt" => "pause" \in asked
  /\ pc \notin {"idle", "probe"} =>
       /\ Asked(outcome)
       /\ \A id \in Ids : Asked(worker[id].result)
       /\ mode # "segmented" => Asked(single.result)

\* The engine writes the state when it may, the saver while it is on, and it is
\* off when the engine looks at how the transfer has ended.
WritersKnown ==
  /\ writer \in {"none", "engine", "saver"}
  /\ writer = "engine" =>
       pc \in {"save", "interrupt"} \/ (pc = "handle" /\ mode = "segmented" /\ outcome = "pause")
  /\ writer = "saver" => saver = "on"
  /\ pc \in {"probe", "prepare", "handle"} => saver = "off"
  /\ pc = "idle" /\ result \in {"cancelled", "paused"} => saver = "off"

Inv ==
  /\ Shaped /\ StopsAsked /\ WritersKnown
  /\ CancelLeavesNoState /\ PausedLeavesState

\* A step keeps the invariant and is one of the abstract download, or nothing to it.
Kept == Inv' /\ [Task!TaskNext]_(Task!taskVars)

-----------------------------------------------------------------------------
(* Workers *)

LEMMA WorkerFields ==
  ASSUME NEW w, IsWorker(w), NEW how
  PROVE  /\ IsWorker(Returned(w, how)) /\ Returned(w, how).result = how
         /\ IsWorker(Retried(w)) /\ Retried(w).result \in {w.result, "error"}
         /\ IsWorker(Flushed(w)) /\ Flushed(w).result = w.result
         /\ IsWorker(Unlinked(w)) /\ Unlinked(w).result = w.result
<1>1. PICK values : w \in Fields(values)
  BY DEF IsWorker
<1>2. ASSUME NEW end
      PROVE  IsWorker(Returned(w, end)) /\ Returned(w, end).result = end
  <2>1. /\ Returned(w, end) \in Fields(values \cup {"done", end, 0})
        /\ Returned(w, end).result = end
    BY <1>1 DEF Fields, Returned
  <2> QED
    BY <2>1 DEF IsWorker
<1>3. IsWorker(Flushed(w)) /\ Flushed(w).result = w.result
  <2>1. Flushed(w) \in Fields(values \cup {FALSE}) /\ Flushed(w).result = w.result
    BY <1>1 DEF Fields, Flushed
  <2> QED
    BY <2>1 DEF IsWorker
<1>4. IsWorker(Unlinked(w)) /\ Unlinked(w).result = w.result
  <2>1. Unlinked(w) \in Fields(values \cup {FALSE}) /\ Unlinked(w).result = w.result
    BY <1>1 DEF Fields, Unlinked
  <2> QED
    BY <2>1 DEF IsWorker
<1>5. IsWorker(Retried(w)) /\ Retried(w).result \in {w.result, "error"}
  <2> DEFINE again == [w EXCEPT !.attempts = w.attempts + 1, !.pc = "request"]
  <2>1. again \in Fields(values \cup {w.attempts + 1, "request"}) /\ again.result = w.result
    BY <1>1 DEF Fields
  <2>2. IsWorker(again)
    BY <2>1 DEF IsWorker
  <2> QED
    BY <1>2, <2>1, <2>2 DEF Retried
<1> QED
  BY <1>2, <1>3, <1>4, <1>5

LEMMA NewWorker ==
  ASSUME NEW progress
  PROVE  /\ IsWorker(Worker(progress)) /\ Worker(progress).result = "none"
         /\ IsWorker(Returned(Worker(progress), "ok"))
         /\ Returned(Worker(progress), "ok").result = "ok"
<1>1. /\ Worker(progress) \in Fields({progress, "request", "none", 0, FALSE})
      /\ Worker(progress).result = "none"
  BY DEF Fields, Worker
<1>2. IsWorker(Worker(progress))
  BY <1>1 DEF IsWorker
<1> QED
  BY <1>1, <1>2, WorkerFields

\* A worker ends for reasons of its own, or with the stop it has read.
LEMMA WorkerMay ==
  ASSUME Shaped, NEW id \in Ids, WorkerStep(id)
  PROVE  \E w : /\ Step(id, w) /\ IsWorker(w)
                /\ w.result \in {worker[id].result, "ok", "error", "range", signal}
<1>1. IsWorker(worker[id])
  BY DEF Shaped
<1> PICK values : worker[id] \in Fields(values)
  BY <1>1 DEF IsWorker
<1>2. CASE Request(id)
  <2> DEFINE w == [worker[id] EXCEPT !.pc = "await"]
  <2>1. w \in Fields(values \cup {"await"}) /\ w.result = worker[id].result
    BY DEF Fields
  <2>2. IsWorker(w)
    BY <2>1 DEF IsWorker
  <2>3. Step(id, Returned(worker[id], signal)) \/ Step(id, w)
    BY <1>2 DEF Request
  <2> HIDE DEF w
  <2> QED
    BY <1>1, <2>1, <2>2, <2>3, WorkerFields
<1>3. CASE RequestFails(id) \/ RangeRefused(id)
  BY <1>1, <1>3, WorkerFields DEF RequestFails, RangeRefused
<1>4. CASE RangeAccepted(id)
  <2> DEFINE w == [worker[id] EXCEPT !.pc = "stream", !.linked = TRUE, !.pending = 0]
  <2>1. w \in Fields(values \cup {"stream", TRUE, 0}) /\ w.result = worker[id].result
    BY DEF Fields
  <2>2. IsWorker(w)
    BY <2>1 DEF IsWorker
  <2>3. Step(id, w)
    BY <1>4 DEF RangeAccepted
  <2> HIDE DEF w
  <2> QED
    BY <2>1, <2>2, <2>3
<1>5. CASE Chunk(id)
  <2> DEFINE full    == worker[id].pending + 1 >= Batch
             got     == worker[id].got + 1
             pending == IF full THEN 0 ELSE worker[id].pending + 1
             w       == [worker[id] EXCEPT !.got = got, !.last = ~full, !.pending = pending]
  <2>1. Step(id, w)
    BY <1>5 DEF Chunk
  <2> HIDE DEF full, got, pending
  <2>2. w \in Fields(values \cup {got, ~full, pending}) /\ w.result = worker[id].result
    BY DEF Fields
  <2>3. IsWorker(w)
    BY <2>2 DEF IsWorker
  <2> HIDE DEF w
  <2> QED
    BY <2>1, <2>2, <2>3
<1>6. CASE StopStream(id)
  <2>1. IsWorker(Flushed(worker[id]))
    BY <1>1, WorkerFields
  <2>2. /\ IsWorker(Returned(Flushed(worker[id]), signal))
        /\ Returned(Flushed(worker[id]), signal).result = signal
    BY <2>1, WorkerFields
  <2> QED
    BY <1>6, <2>2 DEF StopStream
<1>7. IsWorker(Flushed(worker[id])) /\ Flushed(worker[id]).result = worker[id].result
  BY <1>1, WorkerFields
<1>8. CASE BreakStream(id)
  BY <1>7, <1>8, WorkerFields DEF BreakStream
<1>9. CASE EndStream(id)
  BY <1>7, <1>9, WorkerFields DEF EndStream
<1> QED
  BY <1>2, <1>3, <1>4, <1>5, <1>6, <1>8, <1>9 DEF WorkerStep

LEMMA WorkerKeeps ==
  ASSUME Inv, NEW id \in Ids, WorkerStep(id)
  PROVE  Kept
<1>1. PICK w : /\ Step(id, w) /\ IsWorker(w)
               /\ w.result \in {worker[id].result, "ok", "error", "range", signal}
  BY WorkerMay DEF Inv
<1>2. /\ worker' = [k \in Ids |-> IF k = id THEN w ELSE worker[k]]
      /\ UNCHANGED <<saved, pc, mode, signal, asked, writer, saver, single, outcome, result>>
  BY <1>1 DEF Step, Inv, Shaped, plan
<1>3. \A k \in Ids : worker'[k] = IF k = id THEN w ELSE worker[k]
  BY <1>2
<1>4. Shaped'
  BY <1>1, <1>2, <1>3 DEF Inv, Shaped, IsWorker
<1>5. StopsAsked'
  BY <1>1, <1>2, <1>3 DEF Inv, StopsAsked, Asked
<1>6. WritersKnown' /\ CancelLeavesNoState' /\ PausedLeavesState'
  BY <1>2 DEF Inv, WritersKnown, CancelLeavesNoState, PausedLeavesState
<1>7. UNCHANGED Task!taskVars
  BY <1>2 DEF Task!taskVars
<1> QED
  BY <1>4, <1>5, <1>6, <1>7 DEF Kept, Inv

\* The single worker ends as a segment worker does.  It acts only in a single
\* transfer, and may take the file away from workers of a segmented one.
LEMMA SingleMay ==
  ASSUME Shaped, SingleSteps
  PROVE  /\ \E w : /\ SingleStep(w) /\ IsWorker(w)
                   /\ w.result \in {single.result, "ok", "error", signal}
         /\ worker' = worker \/ worker' = [id \in Ids |-> Unlinked(worker[id])]
<1>1. IsWorker(single)
  BY DEF Shaped
<1> PICK values : single \in Fields(values)
  BY <1>1 DEF IsWorker
<1>2. CASE SingleRequest
  <2> DEFINE w == [single EXCEPT !.pc = "await"]
  <2>1. w \in Fields(values \cup {"await"}) /\ w.result = single.result
    BY DEF Fields
  <2>2. IsWorker(w)
    BY <2>1 DEF IsWorker
  <2>3. /\ SingleStep(Returned(single, signal)) \/ SingleStep(w)
        /\ worker' = worker
    BY <1>2 DEF SingleRequest
  <2> HIDE DEF w
  <2> QED
    BY <1>1, <2>1, <2>2, <2>3, WorkerFields
<1>3. CASE SingleRequestFails \/ SingleStop \/ SingleEnd
  BY <1>1, <1>3, WorkerFields DEF SingleRequestFails, SingleStop, SingleEnd
<1>4. CASE SingleRefused
  <2> DEFINE w == [single EXCEPT !.pc = "request", !.got = 0]
  <2>1. w \in Fields(values \cup {"request", 0}) /\ w.result = single.result
    BY DEF Fields
  <2>2. IsWorker(w)
    BY <2>1 DEF IsWorker
  <2>3. SingleStep(w) /\ worker' = [id \in Ids |-> Unlinked(worker[id])]
    BY <1>4 DEF SingleRefused
  <2> HIDE DEF w
  <2> QED
    BY <2>1, <2>2, <2>3
<1>5. CASE SingleAccepted
  <2> DEFINE w == [single EXCEPT !.pc = "stream", !.body = server]
  <2>1. w \in Fields(values \cup {"stream", server}) /\ w.result = single.result
    BY DEF Fields
  <2>2. IsWorker(w)
    BY <2>1 DEF IsWorker
  <2>3. SingleStep(w) /\ worker' = worker
    BY <1>5 DEF SingleAccepted
  <2> HIDE DEF w
  <2> QED
    BY <2>1, <2>2, <2>3
<1>6. CASE SingleChunk
  <2> DEFINE w == [single EXCEPT !.got = single.got + 1]
  <2>1. w \in Fields(values \cup {single.got + 1}) /\ w.result = single.result
    BY DEF Fields
  <2>2. IsWorker(w)
    BY <2>1 DEF IsWorker
  <2>3. SingleStep(w) /\ worker' = worker
    BY <1>6 DEF SingleChunk
  <2> HIDE DEF w
  <2> QED
    BY <2>1, <2>2, <2>3
<1>7. CASE SingleBreak
  <2>1. IsWorker(Retried(single)) /\ Retried(single).result \in {single.result, "error"}
    BY <1>1, WorkerFields
  <2> DEFINE w == [Retried(single) EXCEPT !.got = 0]
  <2>2. PICK some : Retried(single) \in Fields(some)
    BY <2>1 DEF IsWorker
  <2>3. w \in Fields(some \cup {0}) /\ w.result = Retried(single).result
    BY <2>2 DEF Fields
  <2>4. IsWorker(w)
    BY <2>3 DEF IsWorker
  <2>5. /\ SingleStep(w) \/ SingleStep(Retried(single))
        /\ worker' = worker \/ worker' = [id \in Ids |-> Unlinked(worker[id])]
    BY <1>7 DEF SingleBreak
  <2> HIDE DEF w
  <2> QED
    BY <2>1, <2>3, <2>4, <2>5
<1> QED
  BY <1>2, <1>3, <1>4, <1>5, <1>6, <1>7 DEF SingleSteps

\* Workers that lose the file keep their results.
LEMMA UnlinkedShaped ==
  ASSUME Shaped, worker' = worker \/ worker' = [id \in Ids |-> Unlinked(worker[id])]
  PROVE  /\ worker' = [id \in Ids |-> worker'[id]]
         /\ \A id \in Ids : IsWorker(worker'[id]) /\ worker'[id].result = worker[id].result
<1>1. ASSUME NEW id \in Ids
      PROVE  IsWorker(Unlinked(worker[id])) /\ Unlinked(worker[id]).result = worker[id].result
  BY WorkerFields DEF Shaped
<1>2. CASE worker' = worker
  BY <1>2 DEF Shaped
<1>3. CASE worker' = [id \in Ids |-> Unlinked(worker[id])]
  BY <1>1, <1>3
<1> QED
  BY <1>2, <1>3

LEMMA SingleKeeps ==
  ASSUME Inv, SingleSteps
  PROVE  Kept
<1>1. PICK w : /\ SingleStep(w) /\ IsWorker(w)
               /\ w.result \in {single.result, "ok", "error", signal}
  BY SingleMay DEF Inv
<1>2. /\ single' = w
      /\ UNCHANGED <<saved, pc, mode, signal, asked, writer, saver, outcome, result>>
  BY <1>1 DEF SingleStep, plan
<1>3. /\ worker' = [id \in Ids |-> worker'[id]]
      /\ \A id \in Ids : IsWorker(worker'[id]) /\ worker'[id].result = worker[id].result
  BY SingleMay, UnlinkedShaped DEF Inv
<1>4. Shaped'
  BY <1>1, <1>2, <1>3 DEF Shaped, IsWorker
<1>5. mode = "single"
  BY DEF SingleSteps, SingleRequest, SingleRequestFails, SingleRefused, SingleAccepted,
         SingleChunk, SingleStop, SingleBreak, SingleEnd, SingleActs
<1>6. StopsAsked'
  BY <1>1, <1>2, <1>3, <1>5 DEF Inv, StopsAsked, Asked
<1>7. WritersKnown' /\ CancelLeavesNoState' /\ PausedLeavesState'
  BY <1>2 DEF Inv, WritersKnown, CancelLeavesNoState, PausedLeavesState
<1>8. UNCHANGED Task!taskVars
  BY <1>2 DEF Task!taskVars
<1> QED
  BY <1>4, <1>6, <1>7, <1>8 DEF Kept, Inv

-----------------------------------------------------------------------------
(* The start of a download *)

LEMMA StartKeeps ==
  ASSUME Inv, Start
  PROVE  Kept
<1>1. /\ pc = "idle" /\ pc' = "probe" /\ saver = "off" /\ signal' = "none" /\ asked' = {}
      /\ outcome' = "none" /\ result' = "none"
      /\ UNCHANGED <<saved, mode, writer, saver, worker, single>>
  BY DEF Start, disk, plan
<1>2. Shaped'
  BY <1>1 DEF Inv, Shaped, IsWorker
<1>3. StopsAsked'
  BY <1>1 DEF StopsAsked, Asked
<1>4. WritersKnown' /\ CancelLeavesNoState' /\ PausedLeavesState'
  BY <1>1 DEF Inv, WritersKnown, CancelLeavesNoState, PausedLeavesState
<1>5. Task!Start
  BY <1>1 DEF Task!Start
<1> QED
  BY <1>2, <1>3, <1>4, <1>5 DEF Kept, Inv, Task!TaskNext

LEMMA ProbeFailsKeeps ==
  ASSUME Inv, ProbeFails
  PROVE  Kept
<1>1. /\ pc = "probe" /\ pc' = "idle" /\ result' = "error"
      /\ UNCHANGED <<saved, mode, signal, asked, writer, saver, worker, single, outcome>>
  BY DEF ProbeFails, disk, plan
<1>2. Shaped'
  BY <1>1 DEF Inv, Shaped, IsWorker
<1>3. StopsAsked'
  BY <1>1 DEF StopsAsked
<1>4. WritersKnown' /\ CancelLeavesNoState' /\ PausedLeavesState'
  BY <1>1 DEF Inv, WritersKnown, CancelLeavesNoState, PausedLeavesState
<1>5. Task!ProbeEnds
  BY <1>1 DEF Task!ProbeEnds, Task!Ends
<1> QED
  BY <1>2, <1>3, <1>4, <1>5 DEF Kept, Inv, Task!TaskNext

LEMMA NoWorkersShaped ==
  /\ NoWorkers = [id \in Ids |-> NoWorkers[id]]
  /\ \A id \in Ids : IsWorker(NoWorkers[id]) /\ NoWorkers[id].result = "ok"
  /\ IsWorker(NoSingle)
BY NewWorker DEF NoWorkers, NoSingle

LEMMA BeginKeeps ==
  ASSUME Inv, Begin
  PROVE  Kept
<1>1. PICK supported \in RangeSupport :
        FinishAtOnce(supported) \/ StartSegmented(supported) \/ StartSingle(supported)
  BY DEF Begin
<1>2. /\ pc = "probe" /\ worker' = NoWorkers
      /\ UNCHANGED <<signal, asked, writer, saver, outcome>>
  BY DEF Begin
<1>3. /\ outcome = "none" /\ result = "none" /\ saver = "off" /\ writer = "none"
      /\ Asked(signal)
  BY <1>2 DEF Inv, StopsAsked, WritersKnown
<1>4. CASE FinishAtOnce(supported)
  <2>1. pc' = "idle" /\ result' = "finished" /\ UNCHANGED single
    BY <1>4 DEF FinishAtOnce
  <2>2. Shaped'
    BY <1>2, <2>1, NoWorkersShaped DEF Inv, Shaped, IsWorker
  <2>3. StopsAsked'
    BY <2>1 DEF StopsAsked
  <2>4. WritersKnown' /\ CancelLeavesNoState' /\ PausedLeavesState'
    BY <1>2, <1>3, <2>1 DEF WritersKnown, CancelLeavesNoState, PausedLeavesState
  <2>5. Task!ProbeEnds
    BY <1>2, <2>1 DEF Task!ProbeEnds, Task!Ends
  <2> QED
    BY <2>2, <2>3, <2>4, <2>5 DEF Kept, Inv, Task!TaskNext
<1>5. CASE StartSegmented(supported) \/ StartSingle(supported)
  <2>1. /\ pc' \in {"prepare", "wait"} /\ result' = "none"
        /\ \/ mode' = "segmented" /\ UNCHANGED single
           \/ IsWorker(single') /\ single'.result = "none"
    BY <1>5, NewWorker DEF StartSegmented, StartSingle
  <2>2. Shaped'
    BY <1>2, <2>1, NoWorkersShaped DEF Inv, Shaped, IsWorker
  <2>3. StopsAsked'
    BY <1>2, <1>3, <2>1, NoWorkersShaped DEF StopsAsked, Asked
  <2>4. WritersKnown' /\ CancelLeavesNoState' /\ PausedLeavesState'
    BY <1>2, <1>3, <2>1 DEF WritersKnown, CancelLeavesNoState, PausedLeavesState
  <2>5. Task!ProbeOk
    BY <1>2, <1>3, <2>1 DEF Task!ProbeOk
  <2> QED
    BY <2>2, <2>3, <2>4, <2>5 DEF Kept, Inv, Task!TaskNext
<1> QED
  BY <1>1, <1>4, <1>5

-----------------------------------------------------------------------------
(* Those who write the state *)

\* While somebody writes the state, no cancelled or paused download has ended:
\* its saver is off, and its engine is past its last save.
LEMMA StartsSavingKeeps ==
  ASSUME Inv, EngineStartsSaving \/ SaverStartsSaving
  PROVE  Kept
<1>1. /\ UNCHANGED <<pc, mode, signal, asked, saver, worker, single, outcome, result>>
      /\ \/ EngineSaves /\ writer' = "engine"
         \/ saver = "on" /\ writer' = "saver"
  BY DEF EngineStartsSaving, SaverStartsSaving, StartWriting, plan
<1>2. Shaped'
  BY <1>1 DEF Inv, Shaped, IsWorker
<1>3. StopsAsked'
  BY <1>1 DEF Inv, StopsAsked, Asked
<1>4. WritersKnown' /\ CancelLeavesNoState' /\ PausedLeavesState'
  BY <1>1 DEF Inv, WritersKnown, CancelLeavesNoState, PausedLeavesState, EngineSaves
<1>5. UNCHANGED Task!taskVars
  BY <1>1 DEF Task!taskVars
<1> QED
  BY <1>2, <1>3, <1>4, <1>5 DEF Kept, Inv

LEMMA SaverWritesKeeps ==
  ASSUME Inv, SaverSaved \/ SaverSaveFails
  PROVE  Kept
<1>1. /\ writer = "saver" /\ writer' = "none" /\ saver' \in {saver, "failed"}
      /\ UNCHANGED <<pc, mode, signal, asked, worker, single, outcome, result>>
  BY DEF SaverSaved, SaverSaveFails, DoneWriting, plan
<1>2. Shaped'
  BY <1>1 DEF Inv, Shaped, IsWorker
<1>3. StopsAsked'
  BY <1>1 DEF Inv, StopsAsked, Asked
<1>4. WritersKnown' /\ CancelLeavesNoState' /\ PausedLeavesState'
  BY <1>1 DEF Inv, WritersKnown, CancelLeavesNoState, PausedLeavesState
<1>5. UNCHANGED Task!taskVars
  BY <1>1 DEF Task!taskVars
<1> QED
  BY <1>2, <1>3, <1>4, <1>5 DEF Kept, Inv

LEMMA EngineSavedKeeps ==
  ASSUME Inv, EngineSaved
  PROVE  Kept
<1>1. /\ writer = "engine" /\ writer' = "none" /\ saved'.kind = "state"
      /\ UNCHANGED <<mode, signal, asked, saver, single>>
  BY DEF EngineSaved, DoneWriting, State, plan
<1>2. CASE /\ pc = "save" /\ pc' = "wait"
           /\ worker' = [id \in Ids |-> SegmentWorker(id, shared[id])]
           /\ UNCHANGED <<outcome, result>>
  <2>1. \A id \in Ids : IsWorker(worker'[id]) /\ worker'[id].result \in {"none", "ok"}
    BY <1>2, NewWorker DEF SegmentWorker
  <2>2. Shaped'
    BY <1>1, <1>2, <2>1 DEF Inv, Shaped, IsWorker
  <2>3. StopsAsked'
    BY <1>1, <1>2, <2>1 DEF Inv, StopsAsked, Asked
  <2>4. WritersKnown' /\ CancelLeavesNoState' /\ PausedLeavesState'
    BY <1>1, <1>2 DEF Inv, WritersKnown, CancelLeavesNoState, PausedLeavesState
  <2>5. UNCHANGED Task!taskVars
    BY <1>1, <1>2 DEF Task!taskVars
  <2> QED
    BY <2>2, <2>3, <2>4, <2>5 DEF Kept, Inv
<1>3. CASE /\ pc = "interrupt" /\ pc' = "closing" /\ outcome' = "pause"
           /\ UNCHANGED <<worker, result>>
  <2>1. Shaped'
    BY <1>1, <1>3 DEF Inv, Shaped, IsWorker
  <2>2. StopsAsked'
    BY <1>1, <1>3 DEF Inv, StopsAsked, Asked
  <2>3. WritersKnown' /\ CancelLeavesNoState' /\ PausedLeavesState'
    BY <1>1, <1>3 DEF Inv, WritersKnown, CancelLeavesNoState, PausedLeavesState
  <2>4. UNCHANGED Task!taskVars
    BY <1>1, <1>3 DEF Task!taskVars
  <2> QED
    BY <2>1, <2>2, <2>3, <2>4 DEF Kept, Inv
<1>4. CASE /\ pc = "handle" /\ pc' = "idle" /\ result' = "paused"
           /\ UNCHANGED <<worker, outcome>>
  <2>1. "pause" \in asked /\ saver = "off"
    BY <1>1, <1>4 DEF Inv, StopsAsked, WritersKnown, Asked
  <2>2. Shaped'
    BY <1>1, <1>4 DEF Inv, Shaped, IsWorker
  <2>3. StopsAsked'
    BY <1>4 DEF StopsAsked
  <2>4. WritersKnown' /\ CancelLeavesNoState' /\ PausedLeavesState'
    BY <1>1, <1>4, <2>1 DEF WritersKnown, CancelLeavesNoState, PausedLeavesState
  <2>5. Task!WorkEnds
    BY <1>1, <1>4, <2>1 DEF Task!WorkEnds, Task!Ends
  <2> QED
    BY <2>2, <2>3, <2>4, <2>5 DEF Kept, Inv, Task!TaskNext
<1> QED
  BY <1>2, <1>3, <1>4 DEF EngineSaved

LEMMA EngineSaveFailsKeeps ==
  ASSUME Inv, EngineSaveFails
  PROVE  Kept
<1>1. /\ writer = "engine" /\ writer' = "none"
      /\ UNCHANGED <<mode, signal, asked, saver, worker, single>>
      /\ \/ pc = "interrupt" /\ pc' = "closing" /\ outcome' = "error" /\ UNCHANGED result
         \/ pc # "interrupt" /\ pc' = "idle" /\ result' = "error"
  BY DEF EngineSaveFails, DoneWriting, plan
<1>2. Shaped'
  BY <1>1 DEF Inv, Shaped, IsWorker
<1>3. StopsAsked'
  BY <1>1 DEF Inv, StopsAsked, Asked
<1>4. WritersKnown' /\ CancelLeavesNoState' /\ PausedLeavesState'
  BY <1>1 DEF Inv, WritersKnown, CancelLeavesNoState, PausedLeavesState
<1>5. pc \in {"save", "interrupt", "handle"}
  BY <1>1 DEF Inv, WritersKnown
<1>6. [Task!TaskNext]_(Task!taskVars)
  BY <1>1, <1>5 DEF Task!TaskNext, Task!WorkEnds, Task!Ends, Task!taskVars
<1> QED
  BY <1>2, <1>3, <1>4, <1>6 DEF Kept, Inv

-----------------------------------------------------------------------------
(* How the transfer ends *)

LEMMA TransferKeeps ==
  ASSUME Inv, PrepareOutput \/ Waited \/ SaverStopped
  PROVE  Kept
<1>1. CASE PrepareOutput
  <2>1. /\ pc = "prepare" /\ pc' = "save" /\ saver' = "on"
        /\ UNCHANGED <<saved, mode, signal, asked, writer, worker, single, outcome, result>>
    BY <1>1 DEF PrepareOutput, plan
  <2>2. Shaped'
    BY <2>1 DEF Inv, Shaped, IsWorker
  <2>3. StopsAsked'
    BY <2>1 DEF Inv, StopsAsked, Asked
  <2>4. WritersKnown' /\ CancelLeavesNoState' /\ PausedLeavesState'
    BY <2>1 DEF Inv, WritersKnown, CancelLeavesNoState, PausedLeavesState
  <2>5. UNCHANGED Task!taskVars
    BY <2>1 DEF Task!taskVars
  <2> QED
    BY <2>2, <2>3, <2>4, <2>5 DEF Kept, Inv
<1>2. CASE Waited
  <2>1. /\ pc = "wait" /\ pc' = "closing"
        /\ UNCHANGED <<saved, mode, signal, asked, writer, saver, worker, single, result>>
        /\ \/ outcome' = "ok"
           \/ \E id \in Ids : outcome' = worker[id].result
           \/ mode # "segmented" /\ outcome' = single.result
    BY <1>2 DEF Waited, EngineStep, FirstError, plan, disk
  <2>2. Shaped'
    BY <2>1 DEF Inv, Shaped, IsWorker
  <2>3. StopsAsked'
    BY <2>1 DEF Inv, StopsAsked, Asked
  <2>4. WritersKnown' /\ CancelLeavesNoState' /\ PausedLeavesState'
    BY <2>1 DEF Inv, WritersKnown, CancelLeavesNoState, PausedLeavesState
  <2>5. UNCHANGED Task!taskVars
    BY <2>1 DEF Task!taskVars
  <2> QED
    BY <2>2, <2>3, <2>4, <2>5 DEF Kept, Inv
<1>3. CASE SaverStopped
  <2>1. /\ pc = "closing" /\ pc' = "handle" /\ saver' = "off" /\ writer # "saver"
        /\ outcome' \in {outcome, "error"}
        /\ UNCHANGED <<saved, mode, signal, asked, writer, worker, single, result>>
    BY <1>3 DEF SaverStopped, EngineStep, plan, disk
  <2>2. Shaped'
    BY <2>1 DEF Inv, Shaped, IsWorker
  <2>3. StopsAsked'
    BY <2>1 DEF Inv, StopsAsked, Asked
  <2>4. WritersKnown' /\ CancelLeavesNoState' /\ PausedLeavesState'
    BY <2>1 DEF Inv, WritersKnown, CancelLeavesNoState, PausedLeavesState
  <2>5. UNCHANGED Task!taskVars
    BY <2>1 DEF Task!taskVars
  <2> QED
    BY <2>2, <2>3, <2>4, <2>5 DEF Kept, Inv
<1> QED
  BY <1>1, <1>2, <1>3

LEMMA RemoveBothShaped ==
  ASSUME Shaped, RemoveBoth
  PROVE  /\ worker' = [id \in Ids |-> worker'[id]]
         /\ \A id \in Ids : IsWorker(worker'[id]) /\ worker'[id].result = worker[id].result
BY UnlinkedShaped DEF RemoveBoth

\* The engine reports what its transfer came to: its saver is off by then, and a
\* stop it reports was asked for.
LEMMA ReportKeeps ==
  ASSUME Inv, Finish \/ Cancel \/ ReturnError
  PROVE  Kept
<1>1. /\ pc = "handle" /\ pc' = "idle"
      /\ UNCHANGED <<mode, signal, asked, writer, saver, single, outcome>>
      /\ worker' = worker \/ worker' = [id \in Ids |-> Unlinked(worker[id])]
      /\ \/ outcome = "ok" /\ result' = "finished"
         \/ outcome = "cancel" /\ result' = "cancelled" /\ saved' = NoState
         \/ outcome = "error" /\ result' = "error"
         \/ outcome = "pause" /\ result' = "paused" /\ mode = "single"
  BY DEF Finish, Cancel, ReturnError, RemoveBoth, EngineStep, plan
<1>2. saver = "off" /\ Asked(outcome)
  BY <1>1 DEF Inv, StopsAsked, WritersKnown
<1>3. writer = "none" \/ (mode = "segmented" /\ outcome = "pause")
  BY <1>1, <1>2 DEF Inv, WritersKnown
<1>4. Shaped'
  <2>1. /\ worker' = [id \in Ids |-> worker'[id]]
        /\ \A id \in Ids : IsWorker(worker'[id])
    BY <1>1, UnlinkedShaped DEF Inv
  <2> QED
    BY <1>1, <2>1 DEF Inv, Shaped, IsWorker
<1>5. StopsAsked'
  BY <1>1 DEF StopsAsked
<1>6. WritersKnown' /\ CancelLeavesNoState' /\ PausedLeavesState'
  BY <1>1, <1>2, <1>3
  DEF Inv, WritersKnown, CancelLeavesNoState, PausedLeavesState, NoState
<1>7. Task!WorkEnds
  BY <1>1, <1>2 DEF Asked, Task!WorkEnds, Task!Ends
<1> QED
  BY <1>4, <1>5, <1>6, <1>7 DEF Kept, Inv, Task!TaskNext

LEMMA FallBackKeeps ==
  ASSUME Inv, FallBack
  PROVE  Kept
<1>1. /\ pc = "handle" /\ outcome = "range" /\ pc' = "wait" /\ mode' = "single"
      /\ outcome' = "none" /\ single' = Worker(0) /\ RemoveBoth
      /\ UNCHANGED <<signal, asked, writer, saver, result>>
  BY DEF FallBack
<1>2. /\ worker' = [id \in Ids |-> worker'[id]]
      /\ \A id \in Ids : IsWorker(worker'[id]) /\ worker'[id].result = worker[id].result
  BY <1>1, RemoveBothShaped DEF Inv
<1>3. IsWorker(single') /\ single'.result = "none"
  BY <1>1, NewWorker
<1>4. Shaped'
  BY <1>2, <1>3 DEF Shaped, IsWorker
<1>5. StopsAsked'
  BY <1>1, <1>2, <1>3 DEF Inv, StopsAsked, Asked
<1>6. WritersKnown' /\ CancelLeavesNoState' /\ PausedLeavesState'
  BY <1>1 DEF Inv, WritersKnown, CancelLeavesNoState, PausedLeavesState
<1>7. UNCHANGED Task!taskVars
  BY <1>1 DEF Task!taskVars
<1> QED
  BY <1>4, <1>5, <1>6, <1>7 DEF Kept, Inv

-----------------------------------------------------------------------------
(* The user, the server and crashes *)

LEMMA OutsideKeeps ==
  ASSUME Inv,
         (\E command \in {"pause", "cancel"} : Ask(command)) \/ CtrlC \/ ServerChanges
           \/ UNCHANGED vars
  PROVE  Kept
<1>1. UNCHANGED <<saved, mode, writer, saver, worker, single, outcome, result>>
  BY DEF Ask, CtrlC, ServerChanges, vars, disk, plan
<1>2. Shaped'
  BY <1>1 DEF Inv, Shaped, IsWorker
<1>3. CASE \E command \in {"pause", "cancel"} : Ask(command)
  <2>1. PICK command \in {"pause", "cancel"} : Ask(command)
    BY <1>3
  <2>2. /\ pc # "idle" /\ pc' = pc
        /\ signal' = command /\ asked' = asked \cup {command}
    BY <2>1 DEF Ask
  <2>3. StopsAsked'
    BY <1>1, <2>2 DEF Inv, StopsAsked, Asked
  <2>4. WritersKnown' /\ CancelLeavesNoState' /\ PausedLeavesState'
    BY <1>1, <2>2 DEF Inv, WritersKnown, CancelLeavesNoState, PausedLeavesState
  <2>5. Task!Ask(command)
    BY <1>1, <2>2 DEF Task!Ask
  <2> QED
    BY <1>2, <2>3, <2>4, <2>5 DEF Kept, Inv, Task!TaskNext
<1>4. CASE CtrlC
  <2>1. /\ pc = "wait" /\ pc' = "interrupt"
        /\ signal' = "pause" /\ asked' = asked \cup {"pause"}
    BY <1>4 DEF CtrlC
  <2>2. StopsAsked'
    BY <1>1, <2>1 DEF Inv, StopsAsked, Asked
  <2>3. WritersKnown' /\ CancelLeavesNoState' /\ PausedLeavesState'
    BY <1>1, <2>1 DEF Inv, WritersKnown, CancelLeavesNoState, PausedLeavesState
  <2>4. Task!Ask("pause")
    BY <1>1, <2>1 DEF Task!Ask
  <2> QED
    BY <1>2, <2>2, <2>3, <2>4 DEF Kept, Inv, Task!TaskNext
<1>5. CASE ServerChanges \/ UNCHANGED vars
  <2>1. UNCHANGED <<pc, signal, asked>>
    BY <1>5 DEF ServerChanges, vars
  <2>2. StopsAsked'
    BY <1>1, <2>1 DEF Inv, StopsAsked, Asked
  <2>3. WritersKnown' /\ CancelLeavesNoState' /\ PausedLeavesState'
    BY <1>1, <2>1 DEF Inv, WritersKnown, CancelLeavesNoState, PausedLeavesState
  <2>4. UNCHANGED Task!taskVars
    BY <1>1, <2>1 DEF Task!taskVars
  <2> QED
    BY <1>2, <2>2, <2>3, <2>4 DEF Kept, Inv
<1> QED
  BY <1>3, <1>4, <1>5

LEMMA CrashKeeps ==
  ASSUME Inv, Crash
  PROVE  Kept
<1>1. /\ pc' = "idle" /\ writer' = "none" /\ saver' = "off"
      /\ worker' = NoWorkers /\ single' = NoSingle
      /\ result' = IF pc = "idle" THEN result ELSE "none"
      /\ UNCHANGED <<saved, mode, asked>>
  BY DEF Crash, plan
<1>2. Shaped'
  BY <1>1, NoWorkersShaped DEF Shaped, IsWorker
<1>3. StopsAsked'
  BY <1>1 DEF StopsAsked
<1>4. WritersKnown' /\ CancelLeavesNoState' /\ PausedLeavesState'
  BY <1>1 DEF Inv, WritersKnown, CancelLeavesNoState, PausedLeavesState
<1>5. [Task!TaskNext]_(Task!taskVars)
  <2>1. CASE pc = "idle"
    BY <1>1, <2>1 DEF Task!taskVars
  <2>2. CASE pc # "idle"
    BY <1>1, <2>2 DEF Task!TaskNext, Task!Crash
  <2> QED
    BY <2>1, <2>2
<1> QED
  BY <1>2, <1>3, <1>4, <1>5 DEF Kept, Inv

-----------------------------------------------------------------------------
(* The theorems about how a download ends *)

LEMMA InitInv == Init => Inv /\ Task!TaskInit
<1> SUFFICES ASSUME Init
             PROVE  Inv /\ Task!TaskInit
  OBVIOUS
<1>1. Shaped
  BY NoWorkersShaped DEF Init, Shaped
<1>2. StopsAsked /\ WritersKnown /\ CancelLeavesNoState /\ PausedLeavesState
  BY DEF Init, StopsAsked, WritersKnown, CancelLeavesNoState, PausedLeavesState
<1>3. Task!TaskInit
  BY DEF Init, Task!TaskInit
<1> QED
  BY <1>1, <1>2, <1>3 DEF Inv

LEMMA NextKeeps == Inv /\ [Next]_vars => Kept
<1> SUFFICES ASSUME Inv, [Next]_vars
             PROVE  Kept
  OBVIOUS
<1>1. CASE Start \/ ProbeFails \/ Begin
  BY <1>1, StartKeeps, ProbeFailsKeeps, BeginKeeps
<1>2. CASE Engine
  BY <1>2, StartsSavingKeeps, EngineSavedKeeps, EngineSaveFailsKeeps, TransferKeeps,
     ReportKeeps, FallBackKeeps
  DEF Engine
<1>3. CASE SaverStartsSaving \/ SaverSaved \/ SaverSaveFails
  BY <1>3, StartsSavingKeeps, SaverWritesKeeps
<1>4. CASE \E id \in Ids : WorkerStep(id)
  BY <1>4, WorkerKeeps
<1>5. CASE SingleSteps
  BY <1>5, SingleKeeps
<1>6. CASE \/ \E command \in {"pause", "cancel"} : Ask(command)
           \/ CtrlC \/ ServerChanges \/ UNCHANGED vars
  BY <1>6, OutsideKeeps
<1>7. CASE Crash
  BY <1>7, CrashKeeps
<1> QED
  BY <1>1, <1>2, <1>3, <1>4, <1>5, <1>6, <1>7 DEF Next

\* A download that has returned Cancelled leaves no state file, and nobody
\* writes one later (plan.rs:241-242, 404-405, 432-438).
THEOREM CancelLeavesNoStateFile == Spec => []CancelLeavesNoState
<1>1. Inv => CancelLeavesNoState
  BY DEF Inv
<1>2. Kept => Inv'
  BY DEF Kept
<1> QED
  BY InitInv, NextKeeps, <1>1, <1>2, PTL DEF Spec

\* A segmented download that has returned Paused has left a state that can be
\* read (plan.rs:428-430, control.rs:38-43).
THEOREM PauseLeavesState == Spec => []PausedLeavesState
<1>1. Inv => PausedLeavesState
  BY DEF Inv
<1>2. Kept => Inv'
  BY DEF Kept
<1> QED
  BY InitInv, NextKeeps, <1>1, <1>2, PTL DEF Spec

\* A download implements the task the daemon takes it for: one result for each
\* start, and a stop only if it was asked for since (engine.rs:31-158,
\* control.rs:38-56, plan.rs:415-454).
THEOREM DownloadImplementsTask == Spec => ImplementsTask
<1>1. Kept => Inv' /\ [Task!TaskNext]_(Task!taskVars)
  BY DEF Kept
<1> QED
  BY InitInv, NextKeeps, <1>1, PTL DEF Spec, ImplementsTask, Task!TaskSpec

-----------------------------------------------------------------------------
(* Segments: the bytes of the file are shared out *)

Size(id) == SegmentSize(Segs[id])
Count == SegmentCount(Total, Connections)
Base  == BaseSize(Total, Connections)

\* There are no more segments than bytes, and each has the base size at least.
LEMMA EvenSizes ==
  /\ Count \in Nat \ {0} /\ Base \in Nat \ {0} /\ Count * Base <= Total
<1>1. Total \in Nat \ {0} /\ Count \in Nat \ {0} /\ Count <= Total
  BY ConstantsAssumption DEF Count, SegmentCount
<1>2. Base = Total \div Count
  BY DEF Base, BaseSize, Count
<1> QED
  BY <1>1, <1>2

LEMMA Products ==
  ASSUME NEW i \in Nat, NEW k \in Nat, NEW c \in Nat
  PROVE  /\ i * c \in Nat /\ (i + 1) * c = i * c + c
         /\ i <= k => i * c <= k * c
OBVIOUS

\* Segment id takes the bytes from id * Base, to the next one's or to the end.
LEMMA SegmentFits ==
  ASSUME NEW id \in Ids
  PROVE  /\ id \in 0 .. Count - 1 /\ id * Base \in Nat
         /\ Segs[id].start = id * Base /\ Segs[id].downloaded = 0
         /\ Size(id) = IF id = Count - 1 THEN Total - id * Base ELSE Base
         /\ Size(id) \in 1 .. Total /\ id * Base + Size(id) <= Total
<1>1. /\ id \in 0 .. Count - 1
      /\ Segs[id] = EvenSegment(Total, Connections, id)
  BY DEF Ids, Segs, BuildSegments, Count
<1>2. /\ Segs[id].start = id * Base /\ Segs[id].downloaded = 0
      /\ Segs[id].end = IF id = Count - 1 THEN Total - 1 ELSE id * Base + Base - 1
  BY <1>1 DEF EvenSegment, Segment, Count, Base
<1>3. Total \in Nat
  BY ConstantsAssumption
<1>4. /\ id * Base \in Nat /\ (id + 1) * Base = id * Base + Base
      /\ (id + 1) * Base <= Count * Base
  <2>1. id \in Nat /\ id + 1 \in Nat /\ id + 1 <= Count /\ Count \in Nat
    BY <1>1, EvenSizes
  <2> QED
    BY <2>1, EvenSizes, Products
<1>5. Size(id) = IF id = Count - 1 THEN Total - id * Base ELSE Base
  BY <1>2, <1>3, <1>4, EvenSizes DEF Size, SegmentSize
<1>6. id * Base + Base <= Total
  <2> DEFINE product == Count * Base
             place   == id * Base
             next    == (id + 1) * Base
  <2>1. product <= Total /\ next <= product /\ next = place + Base /\ place \in Nat
    BY <1>4, EvenSizes
  <2>2. product \in Nat
    BY EvenSizes, Products
  <2> HIDE DEF product, place, next
  <2> QED
    BY <1>3, <2>1, <2>2, EvenSizes DEF place
<1>7. Size(id) \in 1 .. Total /\ id * Base + Size(id) <= Total
  <2> DEFINE place == id * Base
  <2>1. place \in Nat /\ place + Base <= Total
    BY <1>4, <1>6
  <2>2. Size(id) = IF id = Count - 1 THEN Total - place ELSE Base
    BY <1>5
  <2> HIDE DEF place
  <2>3. Size(id) \in 1 .. Total /\ place + Size(id) <= Total
    BY <1>3, <2>1, <2>2, EvenSizes
  <2> QED
    BY <2>3 DEF place
<1> QED
  BY <1>1, <1>2, <1>4, <1>5, <1>7

\* No byte is in two segments.
LEMMA SegmentsApart ==
  ASSUME NEW id \in Ids, NEW other \in Ids, id # other,
         NEW k \in 0 .. Size(id) - 1, NEW j \in 0 .. Size(other) - 1
  PROVE  Segs[id].start + k # Segs[other].start + j
<1>1. ASSUME NEW a \in Ids, NEW b \in Ids, a < b, NEW i \in 0 .. Size(a) - 1
      PROVE  Segs[a].start + i < Segs[b].start
  <2>1. a \in 0 .. Count - 1 /\ b \in 0 .. Count - 1 /\ Count \in Nat
    BY SegmentFits, EvenSizes
  <2>2. a # Count - 1 /\ a \in Nat /\ a + 1 \in Nat /\ a + 1 <= b /\ b \in Nat
    BY <1>1, <2>1
  <2>3. Size(a) = Base /\ Segs[a].start = a * Base /\ Segs[b].start = b * Base
    BY <2>2, SegmentFits
  <2>4. (a + 1) * Base = a * Base + Base /\ (a + 1) * Base <= b * Base
    BY <2>2, EvenSizes, Products
  <2>5. a * Base \in Nat /\ b * Base \in Nat
    BY SegmentFits
  <2> DEFINE first  == a * Base
             second == b * Base
             next   == (a + 1) * Base
  <2>6. /\ Segs[a].start = first /\ Segs[b].start = second /\ next = first + Base
        /\ next <= second /\ first \in Nat /\ second \in Nat /\ i \in 0 .. Base - 1
    BY <1>1, <2>3, <2>4, <2>5
  <2> HIDE DEF first, second, next
  <2> QED
    BY <2>6, EvenSizes
<1>2. id \in Nat /\ other \in Nat /\ (id < other \/ other < id)
  BY SegmentFits
<1>3. Segs[id].start \in Nat /\ Segs[other].start \in Nat
  BY SegmentFits
<1>4. CASE id < other
  BY <1>1, <1>3, <1>4
<1>5. CASE other < id
  BY <1>1, <1>3, <1>5
<1> QED
  BY <1>2, <1>4, <1>5

\* Every byte is in one.
LEMMA EveryByteIsFetched ==
  ASSUME NEW o \in 0 .. Total - 1
  PROVE  \E id \in Ids : \E k \in 0 .. Size(id) - 1 : o = Segs[id].start + k
<1> DEFINE n == o \div Base
<1>1. n \in Nat /\ n * Base <= o /\ o < n * Base + Base /\ n * Base \in Nat
  BY EvenSizes
<1> HIDE DEF n
<1>2. CASE n < Count - 1
  <2>1. n \in Ids
    BY <1>1, <1>2, EvenSizes DEF Ids, Segs, BuildSegments, Count
  <2>2. Segs[n].start = n * Base /\ Size(n) = Base
    BY <1>2, <2>1, SegmentFits
  <2>3. o - n * Base \in 0 .. Base - 1 /\ o = n * Base + (o - n * Base)
    BY <1>1, EvenSizes
  <2> QED
    BY <2>1, <2>2, <2>3
<1>3. CASE ~(n < Count - 1)
  <2> DEFINE last == Count - 1
  <2>1. last \in Nat /\ last <= n
    BY <1>1, <1>3, EvenSizes
  <2>2. last \in Ids
    BY EvenSizes DEF Ids, Segs, BuildSegments, Count
  <2>3. last * Base <= n * Base /\ last * Base \in Nat
    <3> HIDE DEF last
    <3> QED
      BY <1>1, <2>1, EvenSizes, Products
  <2>4. Segs[last].start = last * Base /\ Size(last) = Total - last * Base
    BY <2>2, SegmentFits
  <2> DEFINE place == last * Base
  <2>5. place \in Nat /\ place <= o /\ Segs[last].start = place /\ Size(last) = Total - place
    BY <1>1, <2>3, <2>4
  <2>6. Total \in Nat
    BY ConstantsAssumption
  <2> HIDE DEF place, last
  <2>7. o - place \in 0 .. Size(last) - 1 /\ o = Segs[last].start + (o - place)
    BY <2>5, <2>6
  <2> QED
    BY <2>2, <2>7
<1> QED
  BY <1>2, <1>3

-----------------------------------------------------------------------------
(* Types, and what a step of a segment worker does *)

Fitting == {done \in [Ids -> 0 .. Total] : \A id \in Ids : done[id] <= Size(id)}

\* TypeOK in parts, and that no worker counts more than its segment has, nor
\* has a byte on the way outside of its stream.
FlagsTyped == exists \in BOOLEAN /\ stale \in BOOLEAN /\ trusted \in BOOLEAN /\ ranges \in BOOLEAN

EngineTyped ==
  /\ FlagsTyped
  /\ server \in 1 .. MaxVersion /\ version \in 1 .. MaxVersion
  /\ saved.kind \in {"none", "torn", "state"} /\ saved.version \in Contents
  /\ pc \in {"idle", "probe", "prepare", "save", "wait", "interrupt", "closing", "handle"}
  /\ mode \in {"segmented", "single"}
  /\ signal \in {"none", "pause", "cancel"} /\ asked \subseteq {"pause", "cancel"}
  /\ writer \in {"none", "engine", "saver"}
  /\ saver \in {"off", "on", "failed"}
  /\ outcome \in {"none", "ok", "pause", "cancel", "range", "error"}
  /\ result \in {"none", "finished", "paused", "cancelled", "error"}
  /\ faults \in 0 .. MaxFaults /\ started \in 0 .. MaxRuns

\* The output has no byte beyond its size, and every byte before its last one.
OutTyped == \E n \in 0 .. Total : out \in [0 .. n - 1 -> Contents]

WorkersFit ==
  /\ worker \in [Ids -> Workers]
  /\ \A id \in Ids :
       /\ worker[id].got <= Size(id)
       /\ worker[id].last => worker[id].pc = "stream"

Typed ==
  /\ EngineTyped /\ OutTyped /\ WorkersFit
  /\ shared \in Fitting /\ saved.done \in Fitting \cup {Nothing}
  /\ single \in Workers

KeptTyped == kept \subseteq 0 .. Total - 1

LEMMA TypedIsTypeOK == Typed /\ KeptTyped => TypeOK
<1>1. Typed => EngineTyped /\ OutTyped /\ WorkersFit /\ single \in Workers
  BY DEF Typed
<1>2. Typed => shared \in [Ids -> 0 .. Total] /\ saved.done \in [Ids -> 0 .. Total] \cup {Nothing}
  BY DEF Typed, Fitting
<1> QED
  BY <1>1, <1>2 DEF EngineTyped, FlagsTyped, KeptTyped, OutTyped, WorkersFit, TypeOK

LEMMA WorkersTyped ==
  ASSUME NEW w \in Workers
  PROVE  /\ \A how \in {"ok", "pause", "cancel", "range", "error"} :
              /\ Returned(w, how) \in Workers
              /\ Returned(w, how).pc = "done" /\ Returned(w, how).result = how
              /\ Returned(w, how).got = w.got /\ Returned(w, how).linked = w.linked
              /\ Returned(w, how).last = w.last /\ Returned(w, how).body = w.body
         /\ Retried(w) \in Workers
         /\ Retried(w).pc = "request" \/ (Retried(w).pc = "done" /\ Retried(w).result = "error")
         /\ Retried(w).got = w.got /\ Retried(w).linked = w.linked
         /\ Retried(w).last = w.last /\ Retried(w).body = w.body
         /\ Flushed(w) \in Workers /\ ~Flushed(w).last
         /\ Flushed(w).got = w.got /\ Flushed(w).linked = w.linked
         /\ Unlinked(w) \in Workers /\ ~Unlinked(w).linked
         /\ Unlinked(w).got = w.got /\ Unlinked(w).last = w.last
         /\ Unlinked(w).pc = w.pc /\ Unlinked(w).result = w.result
<1>1. Batch \in Nat \ {0} /\ MaxAttempts \in Nat
  BY ConstantsAssumption
<1>2. ASSUME NEW how \in {"ok", "pause", "cancel", "range", "error"}
      PROVE  /\ Returned(w, how) \in Workers
             /\ Returned(w, how).pc = "done" /\ Returned(w, how).result = how
             /\ Returned(w, how).got = w.got /\ Returned(w, how).linked = w.linked
             /\ Returned(w, how).last = w.last /\ Returned(w, how).body = w.body
  <2>1. /\ how \in {"none", "ok", "pause", "cancel", "range", "error"}
        /\ 0 \in 0 .. Batch - 1 /\ 0 \in 0 .. MaxAttempts
    BY <1>1
  <2> DEFINE ended == [w EXCEPT !.pc = "done"]
             named == [ended EXCEPT !.result = how]
             clear == [named EXCEPT !.pending = 0]
  <2>2. /\ ended \in Workers /\ ended.pc = "done" /\ ended.got = w.got
        /\ ended.linked = w.linked /\ ended.last = w.last /\ ended.body = w.body
    BY DEF Workers
  <2>3. Returned(w, how) = [clear EXCEPT !.attempts = 0]
    BY DEF Returned, Workers
  <2> HIDE DEF ended
  <2>4. /\ named \in Workers /\ named.pc = "done" /\ named.result = how /\ named.got = w.got
        /\ named.linked = w.linked /\ named.last = w.last /\ named.body = w.body
    BY <2>1, <2>2 DEF Workers
  <2> HIDE DEF named
  <2>5. /\ clear \in Workers /\ clear.pc = "done" /\ clear.result = how /\ clear.got = w.got
        /\ clear.linked = w.linked /\ clear.last = w.last /\ clear.body = w.body
    BY <2>1, <2>4 DEF Workers
  <2> HIDE DEF clear
  <2> QED
    BY <2>1, <2>3, <2>5 DEF Workers
<1>3. /\ Flushed(w) \in Workers /\ ~Flushed(w).last
      /\ Flushed(w).got = w.got /\ Flushed(w).linked = w.linked
  BY DEF Flushed, Workers
<1>4. /\ Unlinked(w) \in Workers /\ ~Unlinked(w).linked
      /\ Unlinked(w).got = w.got /\ Unlinked(w).last = w.last
      /\ Unlinked(w).pc = w.pc /\ Unlinked(w).result = w.result
  BY DEF Unlinked, Workers
<1>5. /\ Retried(w) \in Workers
      /\ Retried(w).pc = "request" \/ (Retried(w).pc = "done" /\ Retried(w).result = "error")
      /\ Retried(w).got = w.got /\ Retried(w).linked = w.linked
      /\ Retried(w).last = w.last /\ Retried(w).body = w.body
  <2>1. CASE w.attempts + 1 > MaxAttempts
    BY <1>2, <2>1 DEF Retried
  <2>2. CASE ~(w.attempts + 1 > MaxAttempts)
    <3>1. Retried(w) = [w EXCEPT !.attempts = w.attempts + 1, !.pc = "request"]
      BY <2>2 DEF Retried
    <3>2. w.attempts + 1 \in 0 .. MaxAttempts
      BY <1>1, <2>2 DEF Workers
    <3> QED
      BY <3>1, <3>2 DEF Workers
  <2> QED
    BY <2>1, <2>2
<1> QED
  BY <1>2, <1>3, <1>4, <1>5

LEMMA NewWorkerTyped ==
  ASSUME NEW progress \in 0 .. Total
  PROVE  /\ Worker(progress) \in Workers
         /\ Worker(progress).pc = "request" /\ Worker(progress).result = "none"
         /\ Worker(progress).got = progress /\ Worker(progress).body = 0
         /\ ~Worker(progress).linked /\ ~Worker(progress).last
BY ConstantsAssumption DEF Worker, Workers, Contents

\* The worker waits, asks again or ends, and may tell the state what it has.
Rests(id, w) ==
  /\ UNCHANGED <<exists, out, stale>>
  /\ w.pc \in {"request", "await", "done"} /\ ~w.last
  /\ w.got = worker[id].got /\ w.linked = worker[id].linked
  /\ w.pc = "done" /\ w.result = "ok" => w.got >= Size(id)
  /\ shared' = shared \/ shared' = [shared EXCEPT ![id] = w.got]

\* It opens the output.
Opens(id, w) ==
  /\ exists' = TRUE /\ UNCHANGED <<out, stale, shared>>
  /\ w.pc = "stream" /\ w.linked /\ ~w.last
  /\ w.got = worker[id].got

\* It takes a chunk, and has told the state of it or not flushed it.
Takes(id, w) ==
  /\ UNCHANGED <<exists, stale>>
  /\ worker[id].pc = "stream" /\ w.pc = "stream"
  /\ worker[id].got < Size(id)
  /\ w.got = worker[id].got + 1 /\ w.linked = worker[id].linked
  /\ out' = IF w.linked THEN Written(Segs[id].start + worker[id].got, version) ELSE out
  /\ \/ w.last /\ shared' = shared
     \/ ~w.last /\ shared' = [shared EXCEPT ![id] = w.got]

LEMMA WorkerEffect ==
  ASSUME Typed, NEW id \in Ids, WorkerStep(id)
  PROVE  \E w \in Workers : Step(id, w) /\ (Rests(id, w) \/ Opens(id, w) \/ Takes(id, w))
<1>1. /\ worker[id] \in Workers /\ signal \in {"none", "pause", "cancel"}
      /\ worker[id].last => worker[id].pc = "stream"
  BY DEF Typed, EngineTyped, WorkersFit
<1>2. CASE Request(id)
  <2>1. CASE signal # "none"
    <3>1. Step(id, Returned(worker[id], signal)) /\ signal \in {"pause", "cancel"}
      BY <1>1, <1>2, <2>1 DEF Request
    <3>2. Rests(id, Returned(worker[id], signal))
      BY <1>1, <1>2, <3>1, WorkersTyped DEF Request, KeepOutput, NoSync, Rests, Workers
    <3> QED
      BY <1>1, <3>1, <3>2, WorkersTyped
  <2>2. CASE signal = "none"
    <3> DEFINE w == [worker[id] EXCEPT !.pc = "await"]
    <3>1. Step(id, w)
      BY <1>2, <2>2 DEF Request
    <3>2. /\ w \in Workers /\ w.pc = "await" /\ ~w.last
          /\ w.got = worker[id].got /\ w.linked = worker[id].linked
      BY <1>1, <1>2 DEF Request, Workers
    <3> HIDE DEF w
    <3>3. Rests(id, w)
      BY <1>2, <3>2 DEF Request, KeepOutput, NoSync, Rests
    <3> QED
      BY <3>1, <3>2, <3>3
  <2> QED
    BY <2>1, <2>2
<1>3. CASE RequestFails(id)
  <2>1. Rests(id, Retried(worker[id]))
    BY <1>1, <1>3, WorkersTyped DEF RequestFails, KeepOutput, NoSync, Rests, Workers
  <2> QED
    BY <1>1, <1>3, <2>1, WorkersTyped DEF RequestFails
<1>4. CASE RangeRefused(id)
  <2>1. Rests(id, Returned(worker[id], "range"))
    BY <1>1, <1>4, WorkersTyped DEF RangeRefused, KeepOutput, NoSync, Rests, Workers
  <2> QED
    BY <1>1, <1>4, <2>1, WorkersTyped DEF RangeRefused
<1>5. CASE RangeAccepted(id)
  <2> DEFINE w == [worker[id] EXCEPT !.pc = "stream", !.linked = TRUE, !.pending = 0]
  <2>1. Step(id, w)
    BY <1>5 DEF RangeAccepted
  <2>2. /\ w \in Workers /\ w.pc = "stream" /\ w.linked /\ ~w.last
        /\ w.got = worker[id].got
    <3>1. 0 \in 0 .. Batch - 1
      BY ConstantsAssumption
    <3> QED
      BY <1>1, <1>5, <3>1 DEF RangeAccepted, Workers
  <2> HIDE DEF w
  <2>3. Opens(id, w)
    BY <1>5, <2>2 DEF RangeAccepted, OpenOutput, NoSync, Opens
  <2> QED
    BY <2>1, <2>2, <2>3
<1>6. CASE Chunk(id)
  <2> DEFINE full    == worker[id].pending + 1 >= Batch
             pending == IF full THEN 0 ELSE worker[id].pending + 1
             got     == worker[id].got + 1
             w       == [worker[id] EXCEPT !.got = got, !.last = ~full, !.pending = pending]
  <2>1. /\ Step(id, w) /\ worker[id].pc = "stream" /\ worker[id].got < Size(id)
        /\ UNCHANGED <<exists, stale>>
        /\ out' = IF worker[id].linked
                    THEN Written(RemainingStart(Segs[id]) + worker[id].got, version) ELSE out
        /\ IF full THEN shared' = [shared EXCEPT ![id] = got] ELSE shared' = shared
    BY <1>6 DEF Chunk, Remaining, Size, Sync, NoSync
  <2>2. pending \in 0 .. Batch - 1 /\ got \in 0 .. Total /\ full \in BOOLEAN
    BY <1>1, <2>1, SegmentFits, ConstantsAssumption DEF Workers
  <2>3. RemainingStart(Segs[id]) = Segs[id].start
    BY SegmentFits DEF RemainingStart
  <2> HIDE DEF full, pending
  <2>4. /\ w \in Workers /\ w.pc = "stream" /\ w.last = ~full
        /\ w.got = got /\ w.linked = worker[id].linked
    BY <1>1, <2>1, <2>2 DEF Workers
  <2> HIDE DEF w
  <2>5. Takes(id, w)
    BY <2>1, <2>3, <2>4 DEF Takes
  <2> QED
    BY <2>1, <2>4, <2>5
<1>7. /\ Flushed(worker[id]) \in Workers /\ ~Flushed(worker[id]).last
      /\ Flushed(worker[id]).got = worker[id].got
      /\ Flushed(worker[id]).linked = worker[id].linked
  BY <1>1, WorkersTyped
<1>8. SyncPending(id) => shared' = shared \/ shared' = [shared EXCEPT ![id] = worker[id].got]
  BY DEF SyncPending, Sync, NoSync
<1>9. CASE StopStream(id)
  <2>1. signal \in {"pause", "cancel"}
    BY <1>1, <1>9 DEF StopStream
  <2>2. Rests(id, Returned(Flushed(worker[id]), signal))
    BY <1>7, <1>8, <1>9, <2>1, WorkersTyped DEF StopStream, KeepOutput, Rests
  <2> QED
    BY <1>7, <1>9, <2>1, <2>2, WorkersTyped DEF StopStream
<1>10. Rests(id, Retried(Flushed(worker[id]))) \/ ~SyncPending(id) \/ ~KeepOutput
  BY <1>7, <1>8, WorkersTyped DEF KeepOutput, Rests
<1>11. CASE BreakStream(id)
  BY <1>7, <1>10, <1>11, WorkersTyped DEF BreakStream
<1>12. CASE EndStream(id)
  <2>1. CASE Remaining(id)
    BY <1>7, <1>10, <1>12, <2>1, WorkersTyped DEF EndStream
  <2>2. CASE ~Remaining(id)
    <3>1. worker[id].got >= Size(id)
      BY <1>1, <2>2, SegmentFits DEF Remaining, Size, Workers
    <3>2. Rests(id, Returned(Flushed(worker[id]), "ok"))
      BY <1>7, <1>8, <1>12, <3>1, WorkersTyped DEF EndStream, KeepOutput, Rests
    <3> QED
      BY <1>7, <1>12, <2>2, <3>2, WorkersTyped DEF EndStream
  <2> QED
    BY <2>1, <2>2
<1> QED
  BY <1>2, <1>3, <1>4, <1>5, <1>6, <1>9, <1>11, <1>12 DEF WorkerStep

\* The single worker waits, asks again or ends: well only with all the bytes,
\* and to go on where its stream has ended it needs ranges.
SingleRests(w) ==
  /\ UNCHANGED <<exists, out, stale, worker, ranges, kept>>
  /\ w.pc # "stream" /\ w.got = single.got /\ w.body = single.body
  /\ w.pc \in {"request", "await"} => single.pc \in {"request", "await"} \/ ranges
  /\ w.pc = "done" /\ w.result = "ok" => single.pc = "stream" /\ single.got = Total

\* It removes the output and starts over without ranges.
SingleRestarts(w) ==
  /\ RemoveOutput /\ ranges' = FALSE
  /\ worker' = [id \in Ids |-> Unlinked(worker[id])]
  /\ w.pc = "request" /\ w.got = 0 /\ w.body = single.body

\* It streams the version the server has: to go on, the one that was probed.
SingleOpens(w) ==
  /\ exists' = TRUE /\ UNCHANGED <<out, stale, worker, ranges, kept>>
  /\ single.pc = "await" /\ w.pc = "stream" /\ w.got = single.got
  /\ w.body = server /\ (ranges /\ single.got > 0 => server = version)

SingleTakes(w) ==
  /\ UNCHANGED <<exists, stale, worker, ranges, kept>>
  /\ single.pc = "stream" /\ w.pc = "stream"
  /\ single.got < Total
  /\ w.got = single.got + 1 /\ w.body = single.body
  /\ out' = Written(single.got, single.body)

LEMMA SingleEffect ==
  ASSUME Typed, SingleSteps
  PROVE  /\ mode = "single" /\ single.pc # "done"
         /\ \E w \in Workers :
              /\ SingleStep(w)
              /\ SingleRests(w) \/ SingleRestarts(w) \/ SingleOpens(w) \/ SingleTakes(w)
<1>1. /\ single \in Workers /\ signal \in {"none", "pause", "cancel"}
      /\ server \in Contents /\ Total \in Nat
  BY ConstantsAssumption DEF Typed, EngineTyped, Contents
<1>2. mode = "single" /\ single.pc # "done"
  BY DEF SingleSteps, SingleRequest, SingleRequestFails, SingleRefused, SingleAccepted,
         SingleChunk, SingleStop, SingleBreak, SingleEnd, SingleActs
<1>3. CASE SingleRequest
  <2>1. single.pc = "request" /\ UNCHANGED <<exists, out, stale, worker, ranges, kept>>
    BY <1>3 DEF SingleRequest, SingleActs, KeepOutput
  <2>2. CASE signal # "none"
    <3>1. SingleRests(Returned(single, signal))
      BY <1>1, <2>1, <2>2, WorkersTyped DEF SingleRests
    <3> QED
      BY <1>1, <1>2, <1>3, <2>2, <3>1, WorkersTyped DEF SingleRequest
  <2>3. CASE signal = "none"
    <3> DEFINE w == [single EXCEPT !.pc = "await"]
    <3>1. SingleStep(w)
      BY <1>3, <2>3 DEF SingleRequest
    <3>2. w \in Workers /\ w.pc = "await" /\ w.got = single.got /\ w.body = single.body
      BY <1>1 DEF Workers
    <3> HIDE DEF w
    <3>3. SingleRests(w)
      BY <2>1, <3>2 DEF SingleRests
    <3> QED
      BY <1>2, <3>1, <3>2, <3>3
  <2> QED
    BY <2>2, <2>3
<1>4. CASE SingleRequestFails
  <2>1. SingleRests(Retried(single))
    BY <1>1, <1>4, WorkersTyped DEF SingleRequestFails, SingleActs, KeepOutput, SingleRests
  <2> QED
    BY <1>1, <1>2, <1>4, <2>1, WorkersTyped DEF SingleRequestFails
<1>5. CASE SingleRefused
  <2> DEFINE w == [single EXCEPT !.pc = "request", !.got = 0]
  <2>1. SingleStep(w)
    BY <1>5 DEF SingleRefused
  <2>2. w \in Workers /\ w.pc = "request" /\ w.got = 0 /\ w.body = single.body
    <3> DEFINE again == [single EXCEPT !.pc = "request"]
    <3>1. /\ again \in Workers /\ again.pc = "request" /\ again.body = single.body
          /\ 0 \in 0 .. Total
      BY <1>1 DEF Workers
    <3>2. w = [again EXCEPT !.got = 0]
      BY <1>1 DEF Workers
    <3> HIDE DEF again, w
    <3> QED
      BY <3>1, <3>2 DEF Workers
  <2> HIDE DEF w
  <2>3. SingleRestarts(w)
    BY <1>5, <2>2 DEF SingleRefused, SingleRestarts
  <2> QED
    BY <1>2, <2>1, <2>2, <2>3
<1>6. CASE SingleAccepted
  <2> DEFINE w == [single EXCEPT !.pc = "stream", !.body = server]
  <2>1. SingleStep(w)
    BY <1>6 DEF SingleAccepted
  <2>2. w \in Workers /\ w.pc = "stream" /\ w.got = single.got /\ w.body = server
    <3> DEFINE open == [single EXCEPT !.pc = "stream"]
    <3>1. open \in Workers /\ open.pc = "stream" /\ open.got = single.got
      BY <1>1 DEF Workers
    <3>2. w = [open EXCEPT !.body = server]
      BY <1>1 DEF Workers
    <3> HIDE DEF open, w
    <3> QED
      BY <1>1, <3>1, <3>2 DEF Workers
  <2> HIDE DEF w
  <2>3. SingleOpens(w)
    BY <1>6, <2>2 DEF SingleAccepted, SingleActs, Ranged, OpenOutput, SingleOpens
  <2> QED
    BY <1>2, <2>1, <2>2, <2>3
<1>7. CASE SingleChunk
  <2> DEFINE w == [single EXCEPT !.got = single.got + 1]
  <2>1. SingleStep(w) /\ single.pc = "stream" /\ single.got < Total
    BY <1>7 DEF SingleChunk, SingleActs
  <2>2. w \in Workers /\ w.pc = "stream" /\ w.got = single.got + 1 /\ w.body = single.body
    BY <1>1, <2>1 DEF Workers
  <2> HIDE DEF w
  <2>3. SingleTakes(w)
    BY <1>7, <2>1, <2>2 DEF SingleChunk, SingleTakes
  <2> QED
    BY <1>2, <2>1, <2>2, <2>3
<1>8. CASE SingleStop
  <2>1. signal \in {"pause", "cancel"}
    BY <1>1, <1>8 DEF SingleStop
  <2>2. SingleRests(Returned(single, signal))
    BY <1>1, <1>8, <2>1, WorkersTyped DEF SingleStop, SingleActs, KeepOutput, SingleRests
  <2> QED
    BY <1>1, <1>2, <1>8, <2>1, <2>2, WorkersTyped DEF SingleStop
<1>9. CASE SingleBreak
  <2>1. /\ Retried(single) \in Workers
        /\ Retried(single).pc = "request" \/ (Retried(single).pc = "done" /\ Retried(single).result = "error")
        /\ Retried(single).got = single.got /\ Retried(single).body = single.body
    BY <1>1, WorkersTyped
  <2>2. CASE Retried(single).pc = "request" /\ ~ranges
    <3> DEFINE w == [Retried(single) EXCEPT !.got = 0]
    <3>1. SingleStep(w)
      BY <1>9, <2>2 DEF SingleBreak
    <3>2. w \in Workers /\ w.pc = "request" /\ w.got = 0 /\ w.body = single.body
      BY <1>1, <2>1, <2>2 DEF Workers
    <3> HIDE DEF w
    <3>3. SingleRestarts(w)
      BY <1>9, <2>2, <3>2 DEF SingleBreak, SingleRestarts
    <3> QED
      BY <1>2, <3>1, <3>2, <3>3
  <2>3. CASE ~(Retried(single).pc = "request" /\ ~ranges)
    <3>1. /\ SingleStep(Retried(single)) /\ single.pc = "stream"
          /\ UNCHANGED <<exists, out, stale, worker, ranges, kept>>
      BY <1>9, <2>3 DEF SingleBreak, SingleActs, KeepOutput
    <3>2. SingleRests(Retried(single))
      BY <2>1, <2>3, <3>1 DEF SingleRests
    <3> QED
      BY <1>2, <2>1, <3>1, <3>2
  <2> QED
    BY <2>2, <2>3
<1>10. CASE SingleEnd
  <2>1. single.pc = "stream" /\ single.got = Total
    BY <1>1, <1>10 DEF SingleEnd, SingleActs, Workers
  <2>2. SingleRests(Returned(single, "ok"))
    BY <1>1, <1>10, <2>1, WorkersTyped DEF SingleEnd, KeepOutput, SingleRests
  <2> QED
    BY <1>1, <1>2, <1>10, <2>2, WorkersTyped DEF SingleEnd
<1> QED
  BY <1>3, <1>4, <1>5, <1>6, <1>7, <1>8, <1>9, <1>10 DEF SingleSteps

LEMMA ZeroFits == [id \in Ids |-> 0] \in Fitting
<1>1. Total \in Nat
  BY ConstantsAssumption
<1>2. \A id \in Ids : 0 <= Size(id)
  BY SegmentFits, <1>1
<1> QED
  BY <1>1, <1>2 DEF Fitting

LEMMA NoWorkersFit ==
  /\ NoWorkers \in [Ids -> Workers] /\ NoSingle \in Workers /\ NoSingle.pc = "done"
  /\ \A id \in Ids : /\ NoWorkers[id].got <= Size(id) /\ ~NoWorkers[id].last
                     /\ NoWorkers[id].pc = "done" /\ ~NoWorkers[id].linked
<1>1. Total \in Nat /\ 0 \in 0 .. Total
  BY ConstantsAssumption
<1>2. /\ Returned(Worker(0), "ok") \in Workers /\ Returned(Worker(0), "ok").pc = "done"
      /\ Returned(Worker(0), "ok").got = 0
      /\ ~Returned(Worker(0), "ok").linked /\ ~Returned(Worker(0), "ok").last
  BY <1>1, NewWorkerTyped, WorkersTyped
<1>3. \A id \in Ids : 0 <= Size(id)
  BY SegmentFits, <1>1
<1> QED
  BY <1>2, <1>3 DEF NoWorkers, NoSingle

LEMMA UnlinkedFit ==
  ASSUME WorkersFit, worker' = [id \in Ids |-> Unlinked(worker[id])]
  PROVE  WorkersFit'
BY WorkersTyped DEF WorkersFit

LEMMA NothingTyped ==
  ASSUME out' = Nothing
  PROVE  OutTyped'
<1>1. 0 \in 0 .. Total
  BY ConstantsAssumption
<1>2. out' \in [0 .. 0 - 1 -> Contents]
  BY DEF Nothing
<1> QED
  BY <1>1, <1>2 DEF OutTyped

LEMMA WrittenTyped ==
  ASSUME OutTyped, NEW offset \in 0 .. Total - 1, NEW unit \in Contents,
         out' = Written(offset, unit)
  PROVE  /\ OutTyped'
         /\ DOMAIN out \subseteq DOMAIN out' /\ offset \in DOMAIN out'
         /\ DOMAIN out' = DOMAIN out \cup 0 .. offset
         /\ out'[offset] = unit
         /\ \A o \in DOMAIN out : o # offset => out'[o] = out[o]
<1>1. /\ DOMAIN out' = DOMAIN out \cup 0 .. offset
      /\ \A o \in DOMAIN out' :
           out'[o] = IF o = offset THEN unit ELSE IF o \in DOMAIN out THEN out[o] ELSE 0
      /\ out' = [o \in DOMAIN out' |-> out'[o]]
  BY DEF Written
<1>2. Total \in Nat /\ 0 \in Contents
  BY ConstantsAssumption DEF Contents
<1>3. PICK n \in 0 .. Total : out \in [0 .. n - 1 -> Contents]
  BY DEF OutTyped
<1> DEFINE m == IF offset < n THEN n ELSE offset + 1
<1>4. m \in 0 .. Total /\ 0 .. m - 1 = 0 .. n - 1 \cup 0 .. offset
  BY <1>2
<1> HIDE DEF m
<1>5. DOMAIN out' = 0 .. m - 1
  BY <1>1, <1>3, <1>4
<1>6. \A o \in 0 .. m - 1 : out'[o] \in Contents
  BY <1>1, <1>2, <1>3, <1>5
<1>7. out' \in [0 .. m - 1 -> Contents]
  BY <1>1, <1>5, <1>6
<1>8. OutTyped'
  BY <1>4, <1>7 DEF OutTyped
<1>9. offset \in 0 .. offset
  BY <1>2
<1> QED
  BY <1>1, <1>8, <1>9

LEMMA WorkerStepTyped ==
  ASSUME Typed, NEW id \in Ids, NEW w \in Workers, Step(id, w),
         Rests(id, w) \/ Opens(id, w) \/ Takes(id, w)
  PROVE  Typed'
<1>1. EngineTyped /\ OutTyped /\ WorkersFit /\ shared \in Fitting /\ worker[id] \in Workers
  BY DEF Typed, WorkersFit
<1>2. /\ worker' = [worker EXCEPT ![id] = w]
      /\ UNCHANGED <<server, saved, pc, mode, version, trusted, ranges, signal, asked, writer,
                     saver, single, outcome, result, faults, started>>
  BY DEF Step, plan, bounds
<1>3. Total \in Nat /\ Size(id) \in 1 .. Total
  BY SegmentFits, ConstantsAssumption
<1>4. w.got \in 0 .. Total /\ worker[id].got \in 0 .. Size(id)
  BY <1>1, <1>3 DEF Workers, WorkersFit
<1>5. w.got <= Size(id) /\ (w.last => w.pc = "stream")
  BY <1>1, <1>3, <1>4 DEF Rests, Opens, Takes, WorkersFit
<1>6. WorkersFit'
  BY <1>1, <1>2, <1>5 DEF WorkersFit
<1>7. shared' \in Fitting
  BY <1>1, <1>4, <1>5 DEF Rests, Opens, Takes, Fitting
<1>8. FlagsTyped'
  <2>1. exists' \in {exists, TRUE} /\ UNCHANGED <<stale, trusted, ranges>>
    BY <1>2 DEF Rests, Opens, Takes
  <2> QED
    BY <1>1, <2>1 DEF EngineTyped, FlagsTyped
<1>9. OutTyped'
  <2>1. CASE out' = out
    BY <1>1, <2>1 DEF OutTyped
  <2>2. CASE out' # out
    <3>1. /\ out' = Written(Segs[id].start + worker[id].got, version)
          /\ worker[id].got < Size(id)
      BY <2>2 DEF Rests, Opens, Takes
    <3>2. version \in Contents
      BY <1>1, ConstantsAssumption DEF EngineTyped, Contents
    <3>3. Segs[id].start + worker[id].got \in 0 .. Total - 1
      <4>1. /\ Segs[id].start \in Nat /\ Size(id) \in Nat /\ Segs[id].start + Size(id) <= Total
        BY SegmentFits
      <4> QED
        BY <1>3, <1>4, <3>1, <4>1
    <3> QED
      BY <1>1, <3>1, <3>2, <3>3, WrittenTyped
  <2> QED
    BY <2>1, <2>2
<1>10. EngineTyped'
  BY <1>1, <1>2, <1>8 DEF EngineTyped
<1> QED
  BY <1>2, <1>6, <1>7, <1>9, <1>10 DEF Typed

LEMMA SingleStepTyped ==
  ASSUME Typed, NEW w \in Workers, SingleStep(w),
         SingleRests(w) \/ SingleRestarts(w) \/ SingleOpens(w) \/ SingleTakes(w)
  PROVE  Typed'
<1>1. EngineTyped /\ OutTyped /\ WorkersFit /\ shared \in Fitting /\ single \in Workers
  BY DEF Typed
<1>2. /\ single' = w
      /\ UNCHANGED <<server, saved, pc, mode, version, trusted, signal, asked, shared, writer,
                     saver, outcome, result, faults, started>>
  BY DEF SingleStep, plan, bounds
<1>3. WorkersFit'
  <2>1. CASE worker' = worker
    BY <1>1, <2>1 DEF WorkersFit
  <2>2. CASE worker' = [id \in Ids |-> Unlinked(worker[id])]
    BY <1>1, <2>2, UnlinkedFit
  <2> QED
    BY <2>1, <2>2 DEF SingleRests, SingleRestarts, SingleOpens, SingleTakes
<1>4. FlagsTyped'
  <2>1. /\ exists' \in {exists, TRUE, FALSE} /\ ranges' \in {ranges, FALSE} /\ trusted' = trusted
        /\ stale' = stale \/ stale' \in BOOLEAN
    BY <1>2 DEF SingleRests, SingleRestarts, SingleOpens, SingleTakes, RemoveOutput
  <2> QED
    BY <1>1, <2>1 DEF EngineTyped, FlagsTyped
<1>5. OutTyped'
  <2>1. CASE out' = out
    BY <1>1, <2>1 DEF OutTyped
  <2>2. CASE SingleRestarts(w)
    BY <2>2, NothingTyped DEF SingleRestarts, RemoveOutput
  <2>3. CASE SingleTakes(w)
    <3>1. single.got \in 0 .. Total - 1 /\ single.body \in Contents
      BY <1>1, <2>3, ConstantsAssumption DEF SingleTakes, Workers
    <3> QED
      BY <1>1, <2>3, <3>1, WrittenTyped DEF SingleTakes
  <2> QED
    BY <2>1, <2>2, <2>3 DEF SingleRests, SingleOpens
<1>6. EngineTyped'
  BY <1>1, <1>2, <1>4 DEF EngineTyped
<1> QED
  BY <1>1, <1>2, <1>3, <1>5, <1>6 DEF Typed

LEMMA NothingFits == Nothing \in [0 .. 0 - 1 -> Contents] /\ 0 \in 0 .. Total
<1>1. 0 \in 0 .. Total
  BY ConstantsAssumption
<1> QED
  BY <1>1 DEF Nothing

LEMMA InitTyped == Init => Typed
<1> SUFFICES ASSUME Init PROVE Typed
  OBVIOUS
<1>1. EngineTyped
  <2>1. FlagsTyped
    BY DEF Init, FlagsTyped
  <2> QED
    BY <2>1, ConstantsAssumption DEF Init, EngineTyped, NoState, Contents
<1>2. OutTyped
  BY NothingFits DEF Init, OutTyped
<1>3. WorkersFit /\ single \in Workers
  BY NoWorkersFit DEF Init, WorkersFit
<1>4. shared \in Fitting /\ saved.done \in Fitting \cup {Nothing}
  BY ZeroFits DEF Init, NoState
<1> QED
  BY <1>1, <1>2, <1>3, <1>4 DEF Typed

\* A step that leaves the file, the workers and what they have told alone.
LEMMA EngineStepTyped ==
  ASSUME Typed, UNCHANGED <<out, shared, worker, single>>, EngineTyped',
         saved'.done \in Fitting \cup {Nothing}
  PROVE  Typed'
BY DEF Typed, OutTyped, WorkersFit

LEMMA OutsideTyped ==
  ASSUME Typed,
         \/ Start \/ ProbeFails \/ Waited \/ SaverStopped \/ ReturnError
         \/ (\E command \in {"pause", "cancel"} : Ask(command)) \/ CtrlC \/ ServerChanges
         \/ UNCHANGED vars
  PROVE  Typed'
<1>1. /\ UNCHANGED <<out, shared, worker, single, saved, exists, stale, mode, version, trusted,
                     ranges, writer, faults>>
  BY DEF Start, ProbeFails, Waited, SaverStopped, ReturnError, EngineStep, Ask, CtrlC,
         ServerChanges, vars, disk, plan, bounds
<1>2. EngineTyped /\ WorkersFit /\ single \in Workers /\ saved.done \in Fitting \cup {Nothing}
  BY DEF Typed
<1>3. started' \in 0 .. MaxRuns
  BY <1>2, ConstantsAssumption
     DEF EngineTyped, Start, ProbeFails, Waited, SaverStopped, ReturnError, EngineStep, Ask,
         CtrlC, ServerChanges, vars, bounds
<1>4. server' \in 1 .. MaxVersion
  BY <1>2, ConstantsAssumption
     DEF EngineTyped, Start, ProbeFails, Waited, SaverStopped, ReturnError, EngineStep, Ask,
         CtrlC, ServerChanges, vars
<1>5. /\ pc' \in {"idle", "probe", "prepare", "save", "wait", "interrupt", "closing", "handle"}
      /\ saver' \in {"off", "on", "failed"}
      /\ result' \in {"none", "finished", "paused", "cancelled", "error"}
  BY <1>2
     DEF EngineTyped, Start, ProbeFails, Waited, SaverStopped, ReturnError, EngineStep, Ask,
         CtrlC, ServerChanges, vars
<1>6. signal' \in {"none", "pause", "cancel"} /\ asked' \subseteq {"pause", "cancel"}
  BY <1>2
     DEF EngineTyped, Start, ProbeFails, Waited, SaverStopped, ReturnError, EngineStep, Ask,
         CtrlC, ServerChanges, vars
<1>7. outcome' \in {"none", "ok", "pause", "cancel", "range", "error"}
  <2>1. \A id \in Ids : worker[id].result \in {"none", "ok", "pause", "cancel", "range", "error"}
    BY <1>2 DEF WorkersFit, Workers
  <2>2. single.result \in {"none", "ok", "pause", "cancel", "range", "error"}
    BY <1>2 DEF Workers
  <2> QED
    BY <1>2, <2>1, <2>2
       DEF EngineTyped, Start, ProbeFails, Waited, SaverStopped, ReturnError, EngineStep, Ask,
           CtrlC, ServerChanges, vars
<1>8. EngineTyped'
  <2>1. FlagsTyped'
    BY <1>1, <1>2, <1>3, <1>4, <1>5, <1>6, <1>7 DEF EngineTyped, FlagsTyped
  <2> QED
    BY <1>1, <1>2, <1>3, <1>4, <1>5, <1>6, <1>7, <2>1 DEF EngineTyped
<1> QED
  BY <1>1, <1>2, <1>8, EngineStepTyped

LEMMA BeginTyped == ASSUME Typed, Begin PROVE Typed'
<1>1. /\ EngineTyped /\ OutTyped /\ shared \in Fitting /\ single \in Workers
      /\ saved.done \in Fitting \cup {Nothing}
  BY DEF Typed
<1> PICK supported \in RangeSupport :
           /\ ranges' = supported
           /\ FinishAtOnce(supported) \/ StartSegmented(supported) \/ StartSingle(supported)
  BY DEF Begin
<1>2. /\ version' = server /\ trusted' = ~(Usable /\ stale) /\ worker' = NoWorkers
      /\ UNCHANGED <<server, signal, asked, writer, saver, outcome, faults, started>>
  BY DEF Begin, bounds
<1>3. supported \in BOOLEAN
  BY ConstantsAssumption
<1>4. WorkersFit'
  BY <1>2, NoWorkersFit DEF WorkersFit
<1>5. /\ pc' \in {"idle", "prepare", "wait"} /\ mode' \in {mode, "segmented", "single"}
      /\ result' \in {"none", "finished"}
      /\ saved' = saved \/ saved' = NoState
      /\ UNCHANGED <<exists, out, stale>> \/ RemoveOutput
  BY DEF FinishAtOnce, StartSegmented, StartSingle, KeepOutput, disk
<1>6. exists' \in BOOLEAN /\ stale' \in BOOLEAN /\ trusted' \in BOOLEAN
  BY <1>1, <1>2, <1>5 DEF EngineTyped, FlagsTyped, RemoveOutput
<1>7. /\ saved'.kind \in {"none", "torn", "state"} /\ saved'.version \in Contents
      /\ saved'.done \in Fitting \cup {Nothing}
  BY <1>1, <1>5, ConstantsAssumption DEF EngineTyped, NoState, Contents
<1>8. EngineTyped'
  <2>1. FlagsTyped'
    BY <1>1, <1>2, <1>3, <1>5, <1>6, <1>7 DEF EngineTyped, FlagsTyped
  <2> QED
    BY <1>1, <1>2, <1>3, <1>5, <1>6, <1>7, <2>1 DEF EngineTyped
<1>9. OutTyped'
  BY <1>1, <1>5, NothingTyped DEF RemoveOutput, OutTyped
<1>10. shared' \in Fitting
  <2>1. PlannedSegments(supported) # Nothing => PlannedSegments(supported) \in Fitting
    BY <1>1, ZeroFits DEF PlannedSegments
  <2> QED
    BY <1>1, <2>1 DEF FinishAtOnce, StartSegmented, StartSingle
<1>11. single' \in Workers
  <2>1. Cardinality(DOMAIN out) \in 0 .. Total
    <3>1. PICK n \in 0 .. Total : out \in [0 .. n - 1 -> Contents]
      BY <1>1 DEF OutTyped
    <3>2. n \in Nat /\ DOMAIN out = 0 .. n - 1
      BY <3>1, ConstantsAssumption
    <3>3. Cardinality(0 .. n - 1) = n
      BY <3>2, FS_Interval
    <3> QED
      BY <3>1, <3>2, <3>3
  <2>2. single' = single \/ single' = Worker(Cardinality(DOMAIN out)) \/ single' = Worker(0)
    BY DEF FinishAtOnce, StartSegmented, StartSingle
  <2>3. 0 \in 0 .. Total
    BY ConstantsAssumption
  <2> QED
    BY <1>1, <2>1, <2>2, <2>3, NewWorkerTyped
<1> QED
  BY <1>4, <1>7, <1>8, <1>9, <1>10, <1>11 DEF Typed

LEMMA PrepareOutputTyped == ASSUME Typed, PrepareOutput PROVE Typed'
<1>1. EngineTyped /\ OutTyped /\ WorkersFit
  BY DEF Typed
<1>2. /\ UNCHANGED <<server, saved, stale, mode, version, trusted, ranges, signal, asked, shared,
                     writer, worker, single, outcome, result, faults, started>>
      /\ exists' = TRUE /\ pc' = "save" /\ saver' = "on"
      /\ out' = [o \in 0 .. Total - 1 |-> IF o \in DOMAIN out THEN out[o] ELSE 0]
  BY DEF PrepareOutput, plan, bounds
<1>3. EngineTyped'
  <2>1. FlagsTyped'
    BY <1>1, <1>2 DEF EngineTyped, FlagsTyped
  <2> QED
    BY <1>1, <1>2, <2>1 DEF EngineTyped
<1>4. OutTyped'
  <2>1. PICK n \in 0 .. Total : out \in [0 .. n - 1 -> Contents]
    BY <1>1 DEF OutTyped
  <2>2. 0 \in Contents /\ Total \in 0 .. Total
    BY ConstantsAssumption DEF Contents
  <2>3. out' \in [0 .. Total - 1 -> Contents]
    BY <1>2, <2>1, <2>2
  <2> QED
    BY <2>2, <2>3 DEF OutTyped
<1> QED
  BY <1>2, <1>3, <1>4 DEF Typed, WorkersFit

LEMMA StartWritingTyped ==
  ASSUME Typed, EngineStartsSaving \/ SaverStartsSaving
  PROVE  Typed'
<1>1. EngineTyped
  BY DEF Typed
<1>2. /\ UNCHANGED <<server, exists, out, mode, version, trusted, ranges, signal, asked, shared,
                     worker, single, faults, started, pc, saver, outcome, result>>
      /\ saved' = Torn /\ writer' \in {"engine", "saver"} /\ stale' = ~trusted
  BY DEF EngineStartsSaving, SaverStartsSaving, StartWriting, plan, bounds
<1>3. Torn.kind = "torn" /\ Torn.version \in Contents /\ Torn.done = Nothing
  BY ConstantsAssumption DEF Torn, Contents
<1>4. EngineTyped'
  <2>1. FlagsTyped'
    BY <1>1, <1>2, <1>3 DEF EngineTyped, FlagsTyped
  <2> QED
    BY <1>1, <1>2, <1>3, <2>1 DEF EngineTyped
<1> QED
  BY <1>2, <1>3, <1>4, EngineStepTyped

\* What a write of the state leaves.
LEMMA StateWritten ==
  ASSUME Typed, NEW who, NEW ok \in BOOLEAN, DoneWriting(who, ok)
  PROVE  /\ UNCHANGED <<server, exists, out, stale, mode, version, trusted, ranges, kept, signal,
                        asked, shared, single, started>>
         /\ writer = who /\ writer' = "none"
         /\ faults' \in 0 .. MaxFaults
         /\ ok => /\ saved'.kind = "state" /\ saved'.version = version
                  /\ saved'.done = IF mode = "single" THEN Nothing ELSE shared
         /\ ~ok => saved' = saved
         /\ saved'.kind \in {"none", "torn", "state"} /\ saved'.version \in Contents
         /\ saved'.done \in Fitting \cup {Nothing}
<1>1. EngineTyped /\ shared \in Fitting /\ saved.done \in Fitting \cup {Nothing}
  BY DEF Typed
<1>2. /\ UNCHANGED <<server, exists, out, stale, mode, version, trusted, ranges, kept, signal,
                     asked, shared, single, started>>
      /\ writer = who /\ writer' = "none"
      /\ IF ok THEN saved' = (IF mode = "single" THEN [State EXCEPT !.done = Nothing] ELSE State)
                    /\ faults' = faults
               ELSE saved' = saved /\ faults < MaxFaults /\ faults' = faults + 1
  BY DEF DoneWriting, plan
<1>3. faults' \in 0 .. MaxFaults
  BY <1>1, <1>2, ConstantsAssumption DEF EngineTyped
<1>4. version \in Contents
  BY <1>1, ConstantsAssumption DEF EngineTyped, Contents
<1>5. ok => /\ saved'.kind = "state" /\ saved'.version = version
            /\ saved'.done = IF mode = "single" THEN Nothing ELSE shared
  BY <1>2 DEF State
<1> QED
  BY <1>1, <1>2, <1>3, <1>4, <1>5 DEF EngineTyped

LEMMA SaverWritesTyped == ASSUME Typed, SaverSaved \/ SaverSaveFails PROVE Typed'
<1>1. EngineTyped
  BY DEF Typed
<1>2. PICK ok \in BOOLEAN : DoneWriting("saver", ok)
  BY DEF SaverSaved, SaverSaveFails
<1>3. /\ UNCHANGED <<server, exists, out, stale, mode, version, trusted, ranges, signal, asked,
                     shared, single, started>>
      /\ writer' = "none" /\ faults' \in 0 .. MaxFaults
      /\ saved'.kind \in {"none", "torn", "state"} /\ saved'.version \in Contents
      /\ saved'.done \in Fitting \cup {Nothing}
  BY <1>2, StateWritten
<1>4. UNCHANGED <<pc, outcome, result, worker>> /\ saver' \in {saver, "failed"}
  BY DEF SaverSaved, SaverSaveFails
<1>5. EngineTyped'
  <2>1. FlagsTyped'
    BY <1>1, <1>3, <1>4 DEF EngineTyped, FlagsTyped
  <2> QED
    BY <1>1, <1>3, <1>4, <2>1 DEF EngineTyped
<1> QED
  BY <1>3, <1>4, <1>5, EngineStepTyped

\* Segment workers start with what the state says of their segments.
LEMMA SegmentWorkersFit ==
  ASSUME NEW done \in Fitting, NEW id \in Ids
  PROVE  /\ SegmentWorker(id, done[id]) \in Workers
         /\ SegmentWorker(id, done[id]).got = done[id]
         /\ ~SegmentWorker(id, done[id]).last /\ ~SegmentWorker(id, done[id]).linked
         /\ SegmentWorker(id, done[id]).pc \in {"request", "done"}
         /\ SegmentWorker(id, done[id]).pc = "done" => done[id] >= Size(id)
<1>1. done[id] \in 0 .. Total
  BY DEF Fitting
<1> QED
  BY <1>1, NewWorkerTyped, WorkersTyped DEF SegmentWorker, Size

LEMMA EngineWritesTyped == ASSUME Typed, EngineSaved \/ EngineSaveFails PROVE Typed'
<1>1. EngineTyped /\ OutTyped /\ WorkersFit /\ shared \in Fitting /\ single \in Workers
  BY DEF Typed
<1>2. PICK ok \in BOOLEAN : DoneWriting("engine", ok)
  BY DEF EngineSaved, EngineSaveFails
<1>3. /\ UNCHANGED <<server, exists, out, stale, mode, version, trusted, ranges, signal, asked,
                     shared, single, started>>
      /\ writer' = "none" /\ faults' \in 0 .. MaxFaults
      /\ saved'.kind \in {"none", "torn", "state"} /\ saved'.version \in Contents
      /\ saved'.done \in Fitting \cup {Nothing}
  BY <1>2, StateWritten
<1>4. /\ saver' = saver /\ pc' \in {"wait", "closing", "idle"}
      /\ outcome' \in {outcome, "pause", "error"} /\ result' \in {result, "paused", "error"}
      /\ worker' = worker \/ worker' = [id \in Ids |-> SegmentWorker(id, shared[id])]
  BY DEF EngineSaved, EngineSaveFails
<1>5. EngineTyped'
  <2>1. FlagsTyped'
    BY <1>1, <1>3, <1>4 DEF EngineTyped, FlagsTyped
  <2> QED
    BY <1>1, <1>3, <1>4, <2>1 DEF EngineTyped
<1>6. WorkersFit'
  <2>1. CASE worker' = worker
    BY <1>1, <2>1 DEF WorkersFit
  <2>2. CASE worker' = [id \in Ids |-> SegmentWorker(id, shared[id])]
    <3>1. \A id \in Ids : shared[id] <= Size(id)
      BY <1>1 DEF Fitting
    <3> QED
      BY <1>1, <2>2, <3>1, SegmentWorkersFit DEF WorkersFit
  <2> QED
    BY <1>4, <2>1, <2>2
<1> QED
  BY <1>1, <1>3, <1>5, <1>6 DEF Typed, OutTyped

LEMMA EndsTyped == ASSUME Typed, Finish \/ Cancel \/ FallBack PROVE Typed'
<1>1. EngineTyped /\ OutTyped /\ WorkersFit /\ single \in Workers
  BY DEF Typed
<1>2. /\ UNCHANGED <<server, version, trusted, signal, asked, shared, writer, saver, faults, started>>
      /\ pc' \in {"idle", "wait"} /\ mode' \in {mode, "single"} /\ ranges' \in {ranges, FALSE}
      /\ outcome' \in {outcome, "none"} /\ result' \in {result, "finished", "cancelled"}
      /\ saved' = NoState
      /\ worker' = worker \/ worker' = [id \in Ids |-> Unlinked(worker[id])]
      /\ UNCHANGED <<exists, out, stale>> \/ RemoveOutput
      /\ single' = single \/ single' = Worker(0)
  BY DEF Finish, Cancel, FallBack, EngineStep, RemoveBoth, KeepOutput, plan, bounds
<1>3. NoState.kind = "none" /\ NoState.version \in Contents /\ NoState.done = Nothing
  BY ConstantsAssumption DEF NoState, Contents
<1>4. exists' \in BOOLEAN /\ stale' \in BOOLEAN
  BY <1>1, <1>2 DEF EngineTyped, FlagsTyped, RemoveOutput
<1>5. EngineTyped'
  <2>1. FlagsTyped'
    BY <1>1, <1>2, <1>3, <1>4 DEF EngineTyped, FlagsTyped
  <2> QED
    BY <1>1, <1>2, <1>3, <1>4, <2>1 DEF EngineTyped
<1>6. OutTyped'
  BY <1>1, <1>2, NothingTyped DEF RemoveOutput, OutTyped
<1>7. WorkersFit'
  <2>1. CASE worker' = worker
    BY <1>1, <2>1 DEF WorkersFit
  <2> QED
    BY <1>1, <1>2, <2>1, UnlinkedFit
<1>8. single' \in Workers
  BY <1>1, <1>2, NewWorkerTyped, NothingFits
<1> QED
  BY <1>2, <1>3, <1>5, <1>6, <1>7, <1>8 DEF Typed

LEMMA CrashTyped == ASSUME Typed, Crash PROVE Typed'
<1>1. EngineTyped /\ OutTyped
  BY DEF Typed
<1>2. /\ UNCHANGED <<server, exists, saved, stale, mode, version, trusted, ranges, asked, shared,
                     started>>
      /\ pc' = "idle" /\ writer' = "none" /\ saver' = "off" /\ signal' = "none"
      /\ worker' = NoWorkers /\ single' = NoSingle /\ outcome' = "none"
      /\ result' \in {result, "none"} /\ faults < MaxFaults /\ faults' = faults + 1
  BY DEF Crash, plan
<1>3. faults' \in 0 .. MaxFaults
  BY <1>1, <1>2, ConstantsAssumption DEF EngineTyped
<1>4. EngineTyped'
  <2>1. FlagsTyped'
    BY <1>1, <1>2, <1>3 DEF EngineTyped, FlagsTyped
  <2> QED
    BY <1>1, <1>2, <1>3, <2>1 DEF EngineTyped
<1>5. OutTyped'
  <2>1. PICK lost \in SUBSET {id \in Ids : worker[id].last /\ worker[id].linked} :
          out' = [o \in DOMAIN out |->
                    IF \E id \in lost : o = RemainingStart(Segs[id]) + worker[id].got - 1
                      THEN 0 ELSE out[o]]
    BY DEF Crash
  <2>2. PICK n \in 0 .. Total : out \in [0 .. n - 1 -> Contents]
    BY <1>1 DEF OutTyped
  <2>3. 0 \in Contents
    BY ConstantsAssumption DEF Contents
  <2>4. out' \in [0 .. n - 1 -> Contents]
    BY <2>1, <2>2, <2>3
  <2> QED
    BY <2>2, <2>4 DEF OutTyped
<1>6. WorkersFit' /\ single' \in Workers
  BY <1>2, NoWorkersFit DEF WorkersFit
<1> QED
  BY <1>2, <1>4, <1>5, <1>6 DEF Typed

LEMMA NextTyped == Typed /\ [Next]_vars => Typed'
<1> SUFFICES ASSUME Typed, [Next]_vars PROVE Typed'
  OBVIOUS
<1>1. CASE \E id \in Ids : WorkerStep(id)
  BY <1>1, WorkerEffect, WorkerStepTyped
<1>2. CASE SingleSteps
  BY <1>2, SingleEffect, SingleStepTyped
<1>3. CASE Begin
  BY <1>3, BeginTyped
<1>4. CASE PrepareOutput
  BY <1>4, PrepareOutputTyped
<1>5. CASE EngineStartsSaving \/ SaverStartsSaving
  BY <1>5, StartWritingTyped
<1>6. CASE SaverSaved \/ SaverSaveFails
  BY <1>6, SaverWritesTyped
<1>7. CASE EngineSaved \/ EngineSaveFails
  BY <1>7, EngineWritesTyped
<1>8. CASE Finish \/ Cancel \/ FallBack
  BY <1>8, EndsTyped
<1>9. CASE Crash
  BY <1>9, CrashTyped
<1>10. CASE \/ Start \/ ProbeFails \/ Waited \/ SaverStopped \/ ReturnError
            \/ (\E command \in {"pause", "cancel"} : Ask(command)) \/ CtrlC \/ ServerChanges
            \/ UNCHANGED vars
  BY <1>10, OutsideTyped
<1> QED
  BY <1>1, <1>2, <1>3, <1>4, <1>5, <1>6, <1>7, <1>8, <1>9, <1>10 DEF Next, Engine

LEMMA NextKeptTyped ==
  ASSUME Typed, KeptTyped, [Next]_vars
  PROVE  KeptTyped'
<1>1. CASE Begin
  <2>1. PICK supported \in RangeSupport :
           FinishAtOnce(supported) \/ StartSegmented(supported) \/ StartSingle(supported)
    BY <1>1 DEF Begin
  <2>2. \/ kept' = {} \/ kept' = DOMAIN out
        \/ kept' = Offsets(PlannedSegments(supported))
    BY <2>1 DEF FinishAtOnce, StartSegmented, StartSingle
  <2>3. DOMAIN out \subseteq 0 .. Total - 1
    <3>1. PICK n \in 0 .. Total : out \in [0 .. n - 1 -> Contents]
      BY DEF Typed, OutTyped
    <3> QED
      BY <3>1, ConstantsAssumption
  <2> QED
    BY <2>2, <2>3 DEF KeptTyped, Offsets
<1>2. CASE ~Begin
  <2>1. CASE \E id \in Ids : WorkerStep(id)
    BY <2>1, WorkerEffect DEF Step, KeptTyped
  <2>2. CASE SingleSteps
    BY <2>2 DEF SingleSteps, SingleRequest, SingleRequestFails, SingleRefused, SingleAccepted,
           SingleChunk, SingleStop, SingleBreak, SingleEnd, KeptTyped
  <2>3. CASE Engine
    BY <2>3 DEF Engine, PrepareOutput, EngineStartsSaving, EngineSaved, EngineSaveFails,
           StartWriting, DoneWriting, Waited, SaverStopped, Finish, Cancel, FallBack,
           ReturnError, KeptTyped
  <2>4. CASE \/ Start \/ ProbeFails \/ SaverStartsSaving \/ SaverSaved \/ SaverSaveFails
             \/ (\E command \in {"pause", "cancel"} : Ask(command)) \/ CtrlC \/ ServerChanges
             \/ Crash \/ UNCHANGED vars
    BY <2>4 DEF Start, ProbeFails, SaverStartsSaving, SaverSaved, SaverSaveFails, StartWriting,
           DoneWriting, Ask, CtrlC, ServerChanges, Crash, vars, KeptTyped
  <2> QED
    BY <1>2, <2>1, <2>2, <2>3, <2>4 DEF Next
<1> QED
  BY <1>1, <1>2

\* No worker counts more bytes than the file has or retries more often than it
\* may, for any size and any number of segments (worker.rs:130-274, 299-406).
THEOREM TypeCorrect == Spec => []TypeOK
<1>1. Spec => [](Typed /\ KeptTyped)
  <2>1. Init => KeptTyped
    BY DEF Init, KeptTyped
  <2>2. Typed /\ KeptTyped /\ [Next]_vars => (Typed /\ KeptTyped)'
    BY NextTyped, NextKeptTyped
  <2> QED
    BY <2>1, <2>2, InitTyped, PTL DEF Spec
<1> QED
  BY <1>1, TypedIsTypeOK, PTL

-----------------------------------------------------------------------------
(* The phases of a download *)

Working == pc \in {"wait", "interrupt", "closing", "handle"}

\* Nobody is at work on the output when a transfer is prepared.  A saver that
\* is left on when the first save fails is alone.  A stale state is only
\* written by a download that continues one.
Phases ==
  /\ pc \in {"probe", "prepare", "save"} => Idle
  /\ pc \in {"prepare", "save"} => mode = "segmented"
  /\ saver # "off" =>
       /\ mode = "segmented" /\ pc \in {"save", "wait", "interrupt", "closing", "idle"}
       /\ pc = "idle" => \A id \in Ids : worker[id].pc = "done"
  /\ writer # "none" /\ ~stale => trusted

\* What an output that is removed was.
LEMMA Removed ==
  ASSUME RemoveOutput
  PROVE  /\ ~stale' => ~stale /\ ~(exists /\ saved'.kind = "state")
         /\ exists' = FALSE /\ out' = Nothing
BY Zenon DEF RemoveOutput

LEMMA AtWork ==
  ASSUME NEW id \in Ids, WorkerStep(id)
  PROVE  worker[id].pc # "done"
BY DEF WorkerStep, Request, RequestFails, RangeRefused, RangeAccepted, Chunk, StopStream,
       BreakStream, EndStream

LEMMA PhasesKept ==
  ASSUME Typed, Inv, Phases, [Next]_vars
  PROVE  Phases'
<1>1. WritersKnown
  BY DEF Inv
<1>2. CASE \E id \in Ids : WorkerStep(id)
  <2> PICK id \in Ids : WorkerStep(id)
    BY <1>2
  <2>1. worker[id].pc # "done"
    BY AtWork
  <2>2. PICK w \in Workers : Step(id, w) /\ (Rests(id, w) \/ Opens(id, w) \/ Takes(id, w))
    BY WorkerEffect
  <2>3. UNCHANGED <<pc, mode, saver, writer, stale, trusted>>
    BY <2>2 DEF Step, plan, Rests, Opens, Takes
  <2>4. ~Idle /\ ~(\A k \in Ids : worker[k].pc = "done")
    BY <2>1 DEF Idle
  <2> QED
    BY <2>3, <2>4 DEF Phases
<1>3. CASE SingleSteps
  <2>1. mode = "single" /\ single.pc # "done"
    BY <1>3, SingleEffect
  <2>2. PICK w \in Workers :
           /\ SingleStep(w)
           /\ SingleRests(w) \/ SingleRestarts(w) \/ SingleOpens(w) \/ SingleTakes(w)
    BY <1>3, SingleEffect
  <2>3. UNCHANGED <<pc, mode, saver, writer, trusted>>
    BY <2>2 DEF SingleStep, plan
  <2>4. ~stale' => ~stale
    BY <2>2, Removed DEF SingleRests, SingleRestarts, SingleOpens, SingleTakes
  <2>5. ~Idle
    BY <2>1 DEF Idle
  <2> QED
    BY <2>1, <2>3, <2>4, <2>5 DEF Phases
<1>4. CASE Start \/ ProbeFails
  <2>1. /\ saver' = saver /\ saver = "off" /\ pc' \in {"idle", "probe"} /\ Idle
        /\ UNCHANGED <<mode, worker, single, stale, trusted, writer>>
    BY <1>1, <1>4 DEF Start, ProbeFails, WritersKnown, Phases, plan, disk
  <2> QED
    BY <2>1 DEF Phases, Idle
<1>5. CASE Begin
  <2>1. /\ pc = "probe" /\ saver' = saver /\ writer' = writer /\ worker' = NoWorkers
        /\ \/ pc' = "idle" /\ single' = single
           \/ pc' = "prepare" /\ mode' = "segmented" /\ single' = single
           \/ pc' = "wait"
    BY <1>5 DEF Begin, FinishAtOnce, StartSegmented, StartSingle
  <2>2. saver = "off" /\ writer = "none" /\ single.pc = "done"
    BY <1>1, <2>1 DEF WritersKnown, Phases, Idle
  <2>3. pc' = "prepare" => Idle'
    BY <2>1, <2>2, NoWorkersFit DEF Idle
  <2> QED
    BY <2>1, <2>2, <2>3 DEF Phases
<1>6. CASE PrepareOutput
  <2>1. /\ pc = "prepare" /\ pc' = "save"
        /\ UNCHANGED <<mode, worker, single, stale, trusted, writer>>
    BY <1>6 DEF PrepareOutput, plan
  <2> QED
    BY <2>1 DEF Phases, Idle
<1>7. CASE EngineStartsSaving \/ SaverStartsSaving
  <2>1. /\ UNCHANGED <<mode, trusted, worker, single, pc, saver>>
        /\ stale' = ~trusted
    BY <1>7 DEF EngineStartsSaving, SaverStartsSaving, StartWriting, plan
  <2> QED
    BY <2>1 DEF Phases, Idle
<1>8. CASE SaverSaved \/ SaverSaveFails
  <2>1. /\ UNCHANGED <<mode, pc, worker, single>>
        /\ writer' = "none" /\ writer = "saver"
    BY <1>8 DEF SaverSaved, SaverSaveFails, DoneWriting, plan
  <2>2. saver # "off"
    BY <1>1, <2>1 DEF WritersKnown
  <2> QED
    BY <2>1, <2>2 DEF Phases, Idle
<1>9. CASE EngineSaved \/ EngineSaveFails
  <2>1. /\ UNCHANGED <<mode, single, saver>>
        /\ writer' = "none" /\ writer = "engine"
    BY <1>9 DEF EngineSaved, EngineSaveFails, DoneWriting, plan
  <2>2. pc \in {"save", "interrupt", "handle"}
    BY <1>1, <2>1 DEF WritersKnown
  <2>3. pc' \in {"wait", "closing"} \/ (pc' = "idle" /\ worker' = worker /\ pc \in {"save", "handle"})
    BY <1>9, <2>2 DEF EngineSaved, EngineSaveFails
  <2>4. pc = "save" => \A id \in Ids : worker[id].pc = "done"
    BY DEF Phases, Idle
  <2>5. pc = "handle" => saver = "off"
    BY <1>1 DEF WritersKnown
  <2>6. saver # "off" => mode = "segmented"
    BY DEF Phases
  <2> QED
    BY <2>1, <2>2, <2>3, <2>4, <2>5, <2>6 DEF Phases
<1>10. CASE Waited \/ SaverStopped
  <2>1. /\ UNCHANGED <<mode, stale, trusted, writer>> /\ saver' \in {saver, "off"}
        /\ pc' \in {"closing", "handle"} /\ (pc' = "handle" => saver' = "off")
    BY <1>10 DEF Waited, SaverStopped, EngineStep, plan, disk
  <2>2. saver # "off" => mode = "segmented"
    BY DEF Phases
  <2> QED
    BY <2>1, <2>2 DEF Phases
<1>11. CASE Finish \/ Cancel \/ FallBack \/ ReturnError
  <2>1. /\ UNCHANGED <<trusted, writer, saver>>
        /\ pc = "handle" /\ pc' \in {"idle", "wait"}
    BY <1>11 DEF Finish, Cancel, FallBack, ReturnError, EngineStep, plan
  <2>2. saver = "off"
    BY <1>1, <2>1 DEF WritersKnown
  <2>3. ~stale' => ~stale
    BY <1>11, Removed DEF Finish, Cancel, FallBack, ReturnError, RemoveBoth, KeepOutput, disk
  <2> QED
    BY <2>1, <2>2, <2>3 DEF Phases
<1>12. CASE \/ (\E command \in {"pause", "cancel"} : Ask(command))
            \/ CtrlC \/ ServerChanges \/ UNCHANGED vars
  <2>1. /\ UNCHANGED <<mode, stale, trusted, writer, saver, worker, single>>
        /\ pc' = pc \/ (pc = "wait" /\ pc' = "interrupt")
    BY <1>12 DEF Ask, CtrlC, ServerChanges, vars, plan, disk
  <2> QED
    BY <2>1 DEF Phases, Idle
<1>13. CASE Crash
  <2>1. pc' = "idle" /\ writer' = "none" /\ saver' = "off"
    BY <1>13 DEF Crash
  <2> QED
    BY <2>1 DEF Phases
<1> QED
  BY <1>2, <1>3, <1>4, <1>5, <1>6, <1>7, <1>8, <1>9, <1>10, <1>11, <1>12, <1>13
     DEF Next, Engine

-----------------------------------------------------------------------------
(* What the state, the state file and the workers say is in the output *)

\* The output has the first n bytes of segment id, of version v.
Has(id, n, v) == \A k \in 0 .. n - 1 : Holds(Segs[id].start + k, v)
Backed(done, v) == \A id \in DOMAIN done : Has(id, done[id], v)

\* It has those of them that the transfer has not taken over, or if it may trust
\* them all.
Fetched(id, n) ==
  \A k \in 0 .. n - 1 :
    trusted \/ Segs[id].start + k \notin kept => Holds(Segs[id].start + k, version)

Whole == exists /\ DOMAIN out = 0 .. Total - 1

\* What the state says may be saved.
Sharing ==
  mode = "segmented" /\ (pc \in {"prepare", "save", "wait", "interrupt", "closing", "handle"} \/ saver # "off")

\* Segment workers of this process may be at work, an error's orphans too.
Fetching ==
  mode = "segmented" /\ (Working \/ \E id \in Ids : worker[id].pc # "done")

\* The bytes of a worker that a crash leaves.
Safe(w) == IF w.last THEN w.got - 1 ELSE w.got

Shares ==
  /\ Sharing /\ pc # "prepare" => Whole
  /\ Sharing /\ trusted => Backed(shared, version)
  /\ Sharing /\ pc \in {"prepare", "save"} => kept = Offsets(shared)

Behind ==
  Fetching =>
    /\ \A id \in Ids : shared[id] <= Safe(worker[id])
    /\ saved.kind = "state" =>
         /\ saved.version = version /\ saved.done \in Fitting
         /\ \A id \in Ids : saved.done[id] <= shared[id]

SavedBacked ==
  saved.kind = "state" /\ ~stale /\ saved.done # Nothing =>
    mode = "segmented" /\ Whole /\ Backed(saved.done, saved.version)

\* What the workers of a transfer count is in the output, and a worker that
\* has ended well has all of its segment.
Fetches ==
  mode = "segmented" /\ Working =>
    /\ \A id \in Ids :
         /\ worker[id].pc = "stream" => worker[id].linked
         /\ Fetched(id, worker[id].got)
         /\ worker[id].pc = "done" /\ worker[id].result = "ok" => worker[id].got >= Size(id)
    /\ pc \in {"closing", "handle"} /\ outcome = "ok" =>
         \A id \in Ids : worker[id].pc = "done" /\ worker[id].result = "ok"

Saves == Shares /\ Behind /\ SavedBacked /\ Fetches

\* A byte counted for a segment is one of those the counts stand for.
LEMMA InFile ==
  ASSUME NEW done, NEW id \in Ids, done[id] \in 0 .. Total, done[id] <= Size(id),
         NEW k \in 0 .. done[id] - 1
  PROVE  Segs[id].start + k \in Offsets(done)
<1>1. /\ Segs[id].start \in Nat /\ Size(id) \in Nat /\ Segs[id].start + Size(id) <= Total
      /\ Total \in Nat
  BY SegmentFits, ConstantsAssumption
<1> DEFINE o == Segs[id].start + k
<1>2. o \in 0 .. Total - 1 /\ o - Segs[id].start = k
  BY <1>1
<1> HIDE DEF o
<1>3. o - Segs[id].start \in 0 .. done[id] - 1
  BY <1>2
<1>4. o \in Offsets(done)
  BY <1>2, <1>3, Zenon DEF Offsets
<1> QED
  BY <1>4 DEF o

\* A segment worker writes the version that was probed, and within its segment.
LEMMA WorkerWrites ==
  ASSUME Typed, NEW id \in Ids, NEW w \in Workers, Step(id, w),
         Rests(id, w) \/ Opens(id, w) \/ Takes(id, w)
  PROVE  /\ \A o \in DOMAIN out : o \in DOMAIN out' /\ (out[o] = version => out'[o] = version)
         /\ DOMAIN out = 0 .. Total - 1 => DOMAIN out' = 0 .. Total - 1
         /\ Takes(id, w) /\ w.linked =>
              LET o == Segs[id].start + worker[id].got
              IN  o \in DOMAIN out' /\ out'[o] = version
<1>1. CASE out' = out /\ ~(Takes(id, w) /\ w.linked)
  BY <1>1
<1>2. CASE Takes(id, w) /\ w.linked
  <2> DEFINE offset == Segs[id].start + worker[id].got
  <2>1. out' = Written(offset, version) /\ worker[id].got < Size(id)
    BY <1>2 DEF Takes
  <2>2. version \in Contents /\ OutTyped /\ worker[id].got \in 0 .. Total
    BY ConstantsAssumption DEF Typed, EngineTyped, Contents, WorkersFit, Workers
  <2>3. Segs[id].start \in Nat /\ Size(id) \in Nat /\ Segs[id].start + Size(id) <= Total
    BY SegmentFits
  <2>4. offset \in 0 .. Total - 1 /\ Total \in Nat
    BY <2>1, <2>2, <2>3, ConstantsAssumption
  <2> HIDE DEF offset
  <2>5. /\ DOMAIN out' = DOMAIN out \cup 0 .. offset
        /\ offset \in DOMAIN out' /\ out'[offset] = version
        /\ \A o \in DOMAIN out : o # offset => out'[o] = out[o]
    BY <2>1, <2>2, <2>4, WrittenTyped
  <2>6. DOMAIN out = 0 .. Total - 1 => DOMAIN out' = 0 .. Total - 1
    BY <2>4, <2>5
  <2> QED
    BY <2>5, <2>6 DEF offset
<1> QED
  BY <1>1, <1>2 DEF Rests, Opens, Takes

LEMMA WorkerSaves ==
  ASSUME Typed, Phases, Saves, NEW id \in Ids, WorkerStep(id)
  PROVE  Saves'
<1>1. worker[id].pc # "done"
  BY AtWork
<1>2. PICK w \in Workers : Step(id, w) /\ (Rests(id, w) \/ Opens(id, w) \/ Takes(id, w))
  BY WorkerEffect
<1>3. /\ worker' = [worker EXCEPT ![id] = w]
      /\ UNCHANGED <<saved, stale, pc, mode, version, trusted, kept, saver, outcome>>
  BY <1>2 DEF Step, plan, Rests, Opens, Takes
<1>4. /\ \A o \in DOMAIN out : o \in DOMAIN out' /\ (out[o] = version => out'[o] = version)
      /\ DOMAIN out = 0 .. Total - 1 => DOMAIN out' = 0 .. Total - 1
  BY <1>2, WorkerWrites
<1>5. exists => exists'
  BY <1>2 DEF Rests, Opens, Takes
<1>6. /\ worker[id] \in Workers /\ worker[id].got \in 0 .. Total /\ w.got \in 0 .. Total
      /\ worker \in [Ids -> Workers] /\ shared \in [Ids -> 0 .. Total] /\ Total \in Nat
  BY ConstantsAssumption DEF Typed, WorkersFit, Workers, Fitting
<1>7. mode = "segmented" => Fetching
  BY <1>1 DEF Fetching
<1>8. mode = "segmented" /\ pc \notin {"wait", "interrupt", "closing", "handle"} => ~Sharing
  BY <1>1 DEF Phases, Sharing, Idle
<1>9. shared' = shared \/ shared' = [shared EXCEPT ![id] = w.got]
  BY <1>2 DEF Rests, Opens, Takes
<1>10. mode = "segmented" => shared[id] <= Safe(worker[id]) /\ Safe(worker[id]) <= worker[id].got
  BY <1>6, <1>7 DEF Saves, Behind, Safe, Workers
<1>11. w.got >= worker[id].got
  BY <1>2, <1>6 DEF Rests, Opens, Takes
\* The byte that is taken is written, if there is a transfer.
<1>12. mode = "segmented" /\ Working => Fetched(id, w.got)'
  <2> SUFFICES ASSUME mode = "segmented", Working, NEW k \in 0 .. w.got - 1,
                      trusted \/ Segs[id].start + k \notin kept
               PROVE  Segs[id].start + k \in DOMAIN out' /\ out'[Segs[id].start + k] = version
    BY <1>3, <1>6 DEF Fetched, Holds
  <2>1. worker[id].pc = "stream" => worker[id].linked
    BY DEF Saves, Fetches
  <2>2. CASE k \in 0 .. worker[id].got - 1
    <3>1. Segs[id].start + k \in DOMAIN out /\ out[Segs[id].start + k] = version
      BY <2>2 DEF Saves, Fetches, Fetched, Holds
    <3> QED
      BY <1>4, <3>1
  <2>3. CASE k \notin 0 .. worker[id].got - 1
    <3>1. Takes(id, w) /\ k = worker[id].got
      BY <1>2, <1>6, <2>3 DEF Rests, Opens, Takes
    <3>2. w.linked
      BY <2>1, <3>1 DEF Takes
    <3> QED
      BY <1>2, <3>1, <3>2, WorkerWrites
  <2> QED
    BY <2>2, <2>3
<1>13. Shares'
  <2>1. (Sharing /\ pc # "prepare" => Whole)'
    BY <1>3, <1>4, <1>5, <1>6 DEF Saves, Shares, Sharing, Whole
  <2>2. ASSUME Sharing', trusted' PROVE Backed(shared, version)'
    <3>1. mode = "segmented" /\ Working /\ trusted /\ Sharing
      BY <1>3, <1>8, <2>2 DEF Sharing, Working
    <3>2. ASSUME NEW other \in Ids PROVE Has(other, shared[other], version)'
      <4>1. CASE shared'[other] = shared[other]
        BY <1>3, <1>4, <1>6, <3>1, <4>1 DEF Saves, Shares, Backed, Has, Holds
      <4>2. CASE other = id /\ shared'[other] = w.got
        BY <1>3, <1>12, <3>1, <4>2 DEF Fetched, Has
      <4> QED
        BY <1>6, <1>9, <4>1, <4>2
    <3>3. DOMAIN shared' = Ids
      BY <1>6, <1>9
    <3> QED
      BY <3>2, <3>3 DEF Backed
  <2>3. (Sharing /\ pc \in {"prepare", "save"} => kept = Offsets(shared))'
    BY <1>3, <1>8 DEF Sharing
  <2> QED
    BY <2>1, <2>2, <2>3 DEF Shares
<1>14. Behind'
  <2> SUFFICES ASSUME mode = "segmented"
               PROVE  /\ \A other \in Ids : shared'[other] <= Safe(worker'[other])
                      /\ saved.kind = "state" =>
                           /\ saved.version = version /\ saved.done \in Fitting
                           /\ \A other \in Ids : saved.done[other] <= shared'[other]
    BY <1>3 DEF Behind, Fetching, Safe
  <2>1. /\ \A other \in Ids : shared[other] <= Safe(worker[other])
        /\ saved.kind = "state" =>
             /\ saved.version = version /\ saved.done \in Fitting
             /\ \A other \in Ids : saved.done[other] <= shared[other]
    BY <1>7 DEF Saves, Behind
  <2>2. shared'[id] <= Safe(w)
    BY <1>2, <1>6, <1>9, <1>10, <1>11 DEF Rests, Opens, Takes, Safe
  <2>3. \A other \in Ids : shared'[other] <= Safe(worker'[other])
    BY <1>3, <1>6, <1>9, <2>1, <2>2
  <2>4. saved.kind = "state" => \A other \in Ids : saved.done[other] <= shared'[other]
    <3> SUFFICES ASSUME saved.kind = "state", NEW other \in Ids
                 PROVE  saved.done[other] <= shared'[other]
      OBVIOUS
    <3>1. saved.done[other] \in 0 .. Total /\ saved.done[other] <= shared[other]
      BY <2>1 DEF Fitting
    <3>2. shared[id] \in 0 .. Total /\ shared[id] <= w.got
      <4>1. Safe(worker[id]) \in Int /\ shared[id] \in 0 .. Total
        BY <1>6 DEF Safe, Workers
      <4> QED
        BY <1>6, <1>10, <1>11, <4>1
    <3>3. shared[other] \in 0 .. Total /\ shared'[other] \in {shared[other], w.got}
      BY <1>6, <1>9
    <3>4. CASE other = id
      BY <1>6, <3>1, <3>2, <3>3, <3>4
    <3>5. CASE other # id
      BY <1>6, <1>9, <3>1, <3>5
    <3> QED
      BY <3>4, <3>5
  <2> QED
    BY <2>1, <2>3, <2>4
<1>15. SavedBacked'
  <2> SUFFICES ASSUME saved.kind = "state", ~stale, saved.done # Nothing
               PROVE  mode = "segmented" /\ Whole' /\ Backed(saved.done, saved.version)'
    BY <1>3 DEF SavedBacked
  <2>1. mode = "segmented" /\ Whole /\ Backed(saved.done, saved.version)
    BY DEF Saves, SavedBacked
  <2>2. saved.version = version
    BY <1>7, <2>1 DEF Saves, Behind
  <2> QED
    BY <1>3, <1>4, <1>5, <2>1, <2>2 DEF Whole, Backed, Has, Holds
<1>16. Fetches'
  <2> SUFFICES ASSUME mode = "segmented", Working
               PROVE  Fetches'
    BY <1>3 DEF Fetches, Working
  <2>1. /\ w.pc = "stream" => w.linked
        /\ w.pc = "done" /\ w.result = "ok" => w.got >= Size(id)
    BY <1>2 DEF Rests, Opens, Takes, Saves, Fetches
  <2>2. ~(pc \in {"closing", "handle"} /\ outcome = "ok")
    BY <1>1 DEF Saves, Fetches
  <2>3. ASSUME NEW other \in Ids
        PROVE  /\ worker'[other].pc = "stream" => worker'[other].linked
               /\ Fetched(other, worker[other].got)'
               /\ worker'[other].pc = "done" /\ worker'[other].result = "ok" => worker'[other].got >= Size(other)
    <3>1. CASE other = id
      <4>1. worker'[other] = w
        BY <1>3, <1>6, <3>1
      <4> QED
        BY <1>12, <2>1, <3>1, <4>1 DEF Fetched
    <3>2. CASE other # id
      <4>1. worker'[other] = worker[other]
        BY <1>3, <1>6, <3>2
      <4> QED
        BY <1>3, <1>4, <4>1 DEF Saves, Fetches, Fetched, Holds
    <3> QED
      BY <3>1, <3>2
  <2> QED
    BY <1>3, <2>2, <2>3 DEF Fetches, Size
<1> QED
  BY <1>13, <1>14, <1>15, <1>16 DEF Saves

\* A single stream works beside no state that says anything of the output.
LEMMA SingleSaves ==
  ASSUME Typed, Phases, Saves, SingleSteps
  PROVE  Saves'
<1>1. mode = "single"
  BY SingleEffect
<1>2. PICK w \in Workers :
         /\ SingleStep(w)
         /\ SingleRests(w) \/ SingleRestarts(w) \/ SingleOpens(w) \/ SingleTakes(w)
  BY SingleEffect
<1>3. UNCHANGED <<saved, mode>>
  BY <1>2 DEF SingleStep, plan
<1>4. ~stale' => ~stale
  BY <1>2, Removed DEF SingleRests, SingleRestarts, SingleOpens, SingleTakes
<1>5. SavedBacked'
  BY <1>1, <1>3, <1>4 DEF Saves, SavedBacked
<1> QED
  BY <1>1, <1>3, <1>5 DEF Saves, Shares, Sharing, Behind, Fetching, Fetches

\* A step of the engine, the user or the server between the transfer's own.
LEMMA OutsideSaves ==
  ASSUME Typed, Inv, Phases, Saves,
         \/ Start \/ ProbeFails \/ Waited \/ SaverStopped \/ ReturnError
         \/ (\E command \in {"pause", "cancel"} : Ask(command)) \/ CtrlC \/ ServerChanges
         \/ UNCHANGED vars
  PROVE  Saves'
<1>1. UNCHANGED <<exists, out, mode, version, trusted, kept, shared, worker, saved, stale>>
  BY DEF Start, ProbeFails, Waited, SaverStopped, ReturnError, EngineStep, Ask, CtrlC,
         ServerChanges, vars, disk, plan
<1>2. WritersKnown
  BY DEF Inv
<1>3. \/ /\ pc' \in {"probe", "idle"} /\ saver' = "off"
      \/ /\ pc = "wait" /\ pc' \in {"interrupt", "closing"} /\ saver' = saver
         /\ pc' = "closing" /\ mode = "segmented" /\ outcome' = "ok" =>
              \A id \in Ids : worker[id].pc = "done" /\ worker[id].result = "ok"
      \/ /\ pc = "closing" /\ pc' = "handle" /\ saver' = "off"
         /\ outcome' = "ok" => outcome = "ok"
      \/ UNCHANGED <<pc, saver, outcome>>
  <2>1. CASE Start \/ ProbeFails \/ ReturnError
    BY <1>2, <2>1 DEF Start, ProbeFails, ReturnError, EngineStep, WritersKnown
  <2>2. CASE Waited
    BY <2>2 DEF Waited, EngineStep, FirstError
  <2>3. CASE SaverStopped
    BY <2>3 DEF SaverStopped, EngineStep
  <2>4. CASE \/ (\E command \in {"pause", "cancel"} : Ask(command)) \/ CtrlC \/ ServerChanges
             \/ UNCHANGED vars
    BY <2>4 DEF Ask, CtrlC, ServerChanges, vars
  <2> QED
    BY <2>1, <2>2, <2>3, <2>4
<1>4. Shares'
  BY <1>1, <1>3 DEF Saves, Shares, Sharing, Whole, Backed, Has, Holds
<1>5. Behind'
  BY <1>1, <1>3 DEF Saves, Behind, Fetching, Working, Safe
<1>6. SavedBacked'
  BY <1>1 DEF Saves, SavedBacked, Whole, Backed, Has, Holds
<1>7. Fetches'
  <2>1. Working' => Working
    BY <1>3 DEF Working
  <2>2. mode = "segmented" /\ Working' /\ pc' \in {"closing", "handle"} /\ outcome' = "ok" =>
          \A id \in Ids : worker[id].pc = "done" /\ worker[id].result = "ok"
    BY <1>3, <2>1 DEF Saves, Fetches, Working
  <2>3. mode = "segmented" /\ Working' =>
          \A id \in Ids :
            /\ worker[id].pc = "stream" => worker[id].linked
            /\ Fetched(id, worker[id].got)
            /\ worker[id].pc = "done" /\ worker[id].result = "ok" => worker[id].got >= Size(id)
    BY <2>1 DEF Saves, Fetches
  <2> QED
    BY <1>1, <2>2, <2>3 DEF Fetches, Fetched, Holds
<1> QED
  BY <1>4, <1>5, <1>6, <1>7 DEF Saves

\* A download that continues a saved state has the bytes it claims.
LEMMA BeginSaves ==
  ASSUME Typed, Inv, Phases, Saves, Begin
  PROVE  Saves'
<1>1. EngineTyped /\ OutTyped /\ saved.done \in Fitting \cup {Nothing} /\ shared \in Fitting
  BY DEF Typed
<1>2. PICK supported \in RangeSupport :
         FinishAtOnce(supported) \/ StartSegmented(supported) \/ StartSingle(supported)
  BY DEF Begin
<1>3. /\ pc = "probe" /\ version' = server /\ trusted' = ~(Usable /\ stale)
      /\ worker' = NoWorkers /\ saver' = saver
  BY DEF Begin
<1>4. saver = "off"
  BY <1>3 DEF Inv, WritersKnown
<1>5. \A id \in Ids : worker'[id].pc = "done"
  BY <1>3, NoWorkersFit
<1>6. CASE FinishAtOnce(supported)
  <2>1. pc' = "idle" /\ saved' = NoState
    BY <1>6 DEF FinishAtOnce
  <2> QED
    BY <1>3, <1>4, <1>5, <2>1
       DEF Saves, Shares, Sharing, Behind, Fetching, Working, SavedBacked, Fetches, NoState
<1>7. CASE StartSegmented(supported)
  <2>1. /\ pc' = "prepare" /\ mode' = "segmented" /\ shared' = PlannedSegments(supported)
        /\ kept' = Offsets(PlannedSegments(supported))
        /\ UNCHANGED <<exists, out, saved, stale>> /\ PlannedSegments(supported) # Nothing
    BY <1>7 DEF StartSegmented, disk
  <2>2. Backed(shared, version)' \/ ~trusted'
    <3>1. CASE Usable
      <4>1. shared' = saved.done /\ saved.done # Nothing /\ saved.kind = "state" /\ version' = saved.version
        BY <1>3, <2>1, <3>1 DEF PlannedSegments, Usable
      <4>2. CASE stale
        BY <1>3, <3>1, <4>2
      <4>3. CASE ~stale
        <5>1. Backed(saved.done, saved.version)
          BY <4>1, <4>3 DEF Saves, SavedBacked
        <5> QED
          BY <2>1, <4>1, <5>1 DEF Backed, Has, Holds
      <4> QED
        BY <4>2, <4>3
    <3>2. CASE ~Usable
      <4>1. shared' = [id \in Ids |-> 0]
        BY <2>1, <3>2 DEF PlannedSegments
      <4> QED
        BY <4>1 DEF Backed, Has
    <3> QED
      BY <3>1, <3>2
  <2>3. SavedBacked'
    BY <2>1 DEF Saves, SavedBacked, Whole, Backed, Has, Holds
  <2>4. Shares'
    BY <2>1, <2>2 DEF Shares, Offsets
  <2> QED
    BY <1>5, <2>1, <2>3, <2>4 DEF Saves, Behind, Fetching, Working, Fetches
<1>8. CASE StartSingle(supported)
  <2>1. /\ pc' = "wait" /\ mode' = "single" /\ saved' = saved
        /\ ~(exists /\ AlreadyDownloaded(supported) >= Total)
        /\ ~(supported /\ PlannedSegments(supported) # Nothing)
        /\ IF exists /\ ~supported THEN RemoveOutput ELSE UNCHANGED <<exists, out, stale>>
    BY <1>8 DEF StartSingle, KeepOutput
  <2>2. ~(saved'.kind = "state" /\ ~stale' /\ saved'.done # Nothing)
    <3> SUFFICES ASSUME saved.kind = "state", ~stale', saved.done # Nothing
                 PROVE  FALSE
      BY <2>1
    <3>1. ~stale
      BY <2>1, Removed
    <3>2. exists /\ DOMAIN out = 0 .. Total - 1
      BY <3>1 DEF Saves, SavedBacked, Whole
    <3>3. supported
      BY <2>1, <3>2, Removed
    <3>4. PlannedSegments(supported) = Nothing
      BY <2>1, <3>3
    <3>5. AlreadyDownloaded(supported) = Cardinality(DOMAIN out)
      BY <3>2, <3>3, <3>4 DEF AlreadyDownloaded
    <3>6. Cardinality(0 .. Total - 1) = Total /\ Total \in Nat
      <4>1. Total \in Nat \ {0}
        BY ConstantsAssumption
      <4> QED
        BY <4>1, FS_Interval
    <3> QED
      BY <2>1, <3>2, <3>5, <3>6
  <2> QED
    BY <2>1, <2>2 DEF Saves, Shares, Sharing, Behind, Fetching, SavedBacked, Fetches
<1> QED
  BY <1>2, <1>6, <1>7, <1>8

LEMMA PrepareSaves ==
  ASSUME Typed, Inv, Phases, Saves, PrepareOutput
  PROVE  Saves'
<1>1. /\ pc = "prepare" /\ pc' = "save" /\ exists' = TRUE
      /\ out' = [o \in 0 .. Total - 1 |-> IF o \in DOMAIN out THEN out[o] ELSE 0]
      /\ UNCHANGED <<saved, stale, mode, version, trusted, kept, shared, worker>>
  BY DEF PrepareOutput, plan
<1>2. DOMAIN out \subseteq 0 .. Total - 1
  <2>1. PICK n \in 0 .. Total : out \in [0 .. n - 1 -> Contents]
    BY DEF Typed, OutTyped
  <2> QED
    BY <2>1, ConstantsAssumption
<1>3. \A o, v : Holds(o, v) => o \in DOMAIN out' /\ out'[o] = v
  BY <1>1, <1>2 DEF Holds
<1>4. Idle /\ mode = "segmented" /\ Sharing
  BY <1>1 DEF Phases, Sharing
<1>5. Shares'
  BY <1>1, <1>3, <1>4 DEF Saves, Shares, Whole, Backed, Has, Holds, Offsets
<1>6. SavedBacked'
  BY <1>1, <1>3 DEF Saves, SavedBacked, Whole, Backed, Has, Holds
<1> QED
  BY <1>1, <1>4, <1>5, <1>6 DEF Saves, Behind, Fetching, Working, Fetches, Idle

LEMMA StartWritingSaves ==
  ASSUME Saves, EngineStartsSaving \/ SaverStartsSaving
  PROVE  Saves'
<1>1. /\ UNCHANGED <<exists, out, mode, version, trusted, kept, shared, worker, pc, saver,
                     outcome>>
      /\ saved'.kind = "torn"
  BY DEF EngineStartsSaving, SaverStartsSaving, StartWriting, plan, Torn
<1>2. Shares' /\ SavedBacked'
  BY <1>1 DEF Saves, Shares, Sharing, SavedBacked, Whole, Backed, Has, Holds, Offsets
<1>3. Behind'
  BY <1>1 DEF Saves, Behind, Fetching, Working, Safe
<1>4. Fetches'
  BY <1>1 DEF Saves, Fetches, Working, Fetched, Holds
<1> QED
  BY <1>2, <1>3, <1>4 DEF Saves

\* What is written to the state file is in the output.
LEMMA WriteSaves ==
  ASSUME Typed, Inv, Phases, Saves, NEW who \in {"engine", "saver"}, NEW ok \in BOOLEAN,
         DoneWriting(who, ok)
  PROVE  /\ SavedBacked'
         /\ UNCHANGED <<exists, out, mode, version, trusted, kept, shared>>
         /\ ok /\ mode = "segmented" => saved'.version = version /\ saved'.done = shared
         /\ ~ok => saved' = saved
<1>1. /\ UNCHANGED <<exists, out, stale, mode, version, trusted, kept, shared>> /\ writer = who
      /\ ok => /\ saved'.kind = "state" /\ saved'.version = version
               /\ saved'.done = IF mode = "single" THEN Nothing ELSE shared
      /\ ~ok => saved' = saved
  BY StateWritten
<1>2. mode \in {"segmented", "single"}
  BY DEF Typed, EngineTyped
<1>3. CASE ~ok \/ mode = "single"
  BY <1>1, <1>3 DEF Saves, SavedBacked, Whole, Backed, Has, Holds
<1>4. CASE ok /\ mode = "segmented"
  <2>1. Sharing /\ pc # "prepare"
    BY <1>1, <1>4 DEF Inv, WritersKnown, Sharing
  <2>2. ~stale => trusted
    BY <1>1 DEF Phases
  <2> QED
    BY <1>1, <1>4, <2>1, <2>2 DEF Saves, Shares, SavedBacked, Whole, Backed, Has, Holds
<1> QED
  BY <1>1, <1>2, <1>3, <1>4

LEMMA SaverWritesSaves ==
  ASSUME Typed, Inv, Phases, Saves, SaverSaved \/ SaverSaveFails
  PROVE  Saves'
<1>1. PICK ok \in BOOLEAN : DoneWriting("saver", ok)
  BY DEF SaverSaved, SaverSaveFails
<1>2. UNCHANGED <<pc, outcome, worker>> /\ writer = "saver"
  BY DEF SaverSaved, SaverSaveFails, DoneWriting
<1>3. saver # "off"
  BY <1>2 DEF Inv, WritersKnown
<1>4. /\ SavedBacked' /\ UNCHANGED <<exists, out, mode, version, trusted, kept, shared>>
      /\ ok /\ mode = "segmented" => saved'.version = version /\ saved'.done = shared
      /\ ~ok => saved' = saved
  BY <1>1, WriteSaves
<1>5. Shares'
  <2>1. Sharing' => Sharing
    BY <1>2, <1>3, <1>4 DEF Sharing
  <2> QED
    BY <1>2, <1>4, <2>1 DEF Saves, Shares, Whole, Backed, Has, Holds, Offsets
<1>6. Behind'
  <2>1. shared \in Fitting /\ \A id \in Ids : shared[id] \in 0 .. Total
    BY DEF Typed, Fitting
  <2> QED
    BY <1>2, <1>4, <2>1 DEF Saves, Behind, Fetching, Working, Safe
<1>7. Fetches'
  BY <1>2, <1>4 DEF Saves, Fetches, Working, Fetched, Holds
<1> QED
  BY <1>4, <1>5, <1>6, <1>7 DEF Saves

LEMMA EngineWritesSaves ==
  ASSUME Typed, Inv, Phases, Saves, EngineSaved \/ EngineSaveFails
  PROVE  Saves'
<1>1. PICK ok \in BOOLEAN : DoneWriting("engine", ok)
  BY DEF EngineSaved, EngineSaveFails
<1>2. writer = "engine" /\ saver' = saver
  BY DEF EngineSaved, EngineSaveFails, DoneWriting
<1>3. /\ SavedBacked' /\ UNCHANGED <<exists, out, mode, version, trusted, kept, shared>>
      /\ ok /\ mode = "segmented" => saved'.version = version /\ saved'.done = shared
      /\ ~ok => saved' = saved
  BY <1>1, WriteSaves
<1>4. shared \in Fitting /\ \A id \in Ids : shared[id] \in 0 .. Total
  BY DEF Typed, Fitting
<1>5. \/ /\ pc = "save" /\ pc' = "wait" /\ EngineSaved
         /\ worker' = [id \in Ids |-> SegmentWorker(id, shared[id])]
      \/ /\ pc \in {"save", "interrupt", "handle"} /\ pc' \in {"idle", "closing"}
         /\ pc' = "idle" <=> pc # "interrupt"
         /\ pc' = "closing" => outcome' # "ok"
         /\ worker' = worker
  <2>1. pc \in {"save", "interrupt", "handle"}
    BY <1>2 DEF Inv, WritersKnown
  <2> QED
    BY <2>1 DEF EngineSaved, EngineSaveFails
<1>6. CASE pc = "save" /\ pc' = "wait" /\ EngineSaved
  <2>1. worker' = [id \in Ids |-> SegmentWorker(id, shared[id])]
    BY <1>5, <1>6
  <2>2. mode = "segmented" /\ Sharing
    BY <1>6 DEF Phases, Sharing
  <2>3. saved'.version = version /\ saved'.done = shared
    <3>1. DoneWriting("engine", TRUE)
      BY <1>6 DEF EngineSaved
    <3> QED
      BY <2>2, <3>1, WriteSaves
  <2>4. Whole /\ (trusted => Backed(shared, version)) /\ kept = Offsets(shared)
    BY <1>6, <2>2 DEF Saves, Shares
  <2>5. \A id \in Ids :
          /\ worker'[id].got = shared[id] /\ ~worker'[id].last
          /\ worker'[id].pc # "stream"
          /\ worker'[id].pc = "done" => shared[id] >= Size(id)
    BY <1>4, <2>1, SegmentWorkersFit
  <2>6. Shares'
    BY <1>3, <1>6, <2>4 DEF Shares, Whole, Backed, Has, Holds
  <2>7. Behind'
    BY <1>3, <1>4, <2>3, <2>5 DEF Behind, Safe
  <2>8. Fetches'
    <3>1. \A id \in Ids :
            /\ worker'[id].pc = "stream" => worker'[id].linked
            /\ worker'[id].pc = "done" /\ worker'[id].result = "ok" => worker'[id].got >= Size(id)
      BY <2>5
    <3>2. ASSUME NEW id \in Ids PROVE Fetched(id, worker[id].got)'
      <4> SUFFICES ASSUME NEW k \in 0 .. shared[id] - 1,
                          trusted \/ Segs[id].start + k \notin kept
                   PROVE  Holds(Segs[id].start + k, version)
        BY <1>3, <2>5 DEF Fetched, Holds
      <4>1. Segs[id].start + k \in kept
        <5>1. shared[id] \in 0 .. Total /\ shared[id] <= Size(id)
          BY <1>4 DEF Fitting
        <5> QED
          BY <2>4, <5>1, InFile
      <4>2. trusted /\ DOMAIN shared = Ids
        BY <1>4, <4>1 DEF Fitting
      <4> QED
        BY <2>4, <4>2 DEF Backed, Has
    <3>3. pc' \notin {"closing", "handle"}
      BY <1>6
    <3> QED
      BY <3>1, <3>2, <3>3 DEF Fetches, Size
  <2> QED
    BY <1>3, <2>6, <2>7, <2>8 DEF Saves
<1>7. CASE ~(pc = "save" /\ pc' = "wait" /\ EngineSaved)
  <2>1. /\ pc \in {"save", "interrupt", "handle"} /\ pc' \in {"idle", "closing"}
        /\ pc' = "idle" <=> pc # "interrupt"
        /\ pc' = "closing" => outcome' # "ok"
        /\ worker' = worker
    BY <1>5, <1>7
  <2>2. pc = "handle" => saver = "off"
    BY DEF Inv, WritersKnown
  <2>3. Shares'
    <3>1. Sharing' => Sharing /\ pc # "prepare"
      BY <1>2, <1>3, <2>1, <2>2 DEF Sharing
    <3> QED
      BY <1>3, <2>1, <3>1 DEF Saves, Shares, Whole, Backed, Has, Holds
  <2>4. Behind'
    <3>1. Fetching' => Fetching
      BY <1>3, <2>1 DEF Fetching, Working
    <3> QED
      BY <1>3, <1>4, <2>1, <3>1 DEF Saves, Behind, Safe, Fetching
  <2>5. Fetches'
    <3>1. Working' => Working /\ pc' = "closing"
      BY <2>1 DEF Working
    <3> QED
      BY <1>3, <2>1, <3>1 DEF Saves, Fetches, Fetched, Holds
  <2> QED
    BY <1>3, <2>3, <2>4, <2>5 DEF Saves
<1> QED
  BY <1>6, <1>7

LEMMA EndsSaves ==
  ASSUME Typed, Inv, Phases, Saves, Finish \/ Cancel \/ FallBack
  PROVE  Saves'
<1>1. /\ pc = "handle" /\ saved'.kind = "none" /\ saver' = saver
      /\ worker' = worker \/ worker' = [id \in Ids |-> Unlinked(worker[id])]
      /\ \/ mode' = "single"
         \/ pc' = "idle" /\ UNCHANGED <<mode, version, shared>>
  BY DEF Finish, Cancel, FallBack, EngineStep, RemoveBoth, plan, NoState
<1>2. saver = "off"
  BY <1>1 DEF Inv, WritersKnown
<1>3. \A id \in Ids : Safe(worker'[id]) = Safe(worker[id])
  BY <1>1, WorkersTyped DEF Typed, WorkersFit, Safe
<1>4. mode' = "segmented" => Fetching
  BY <1>1 DEF Fetching, Working
<1>5. Behind'
  BY <1>1, <1>3, <1>4 DEF Saves, Behind, Fetching, Safe
<1> QED
  BY <1>1, <1>2, <1>5 DEF Saves, Shares, Sharing, SavedBacked, Fetches, Working

\* A crash loses no byte that the state file claims.
LEMMA CrashSaves ==
  ASSUME Typed, Phases, Saves, Crash
  PROVE  Saves'
<1>1. /\ pc' = "idle" /\ saver' = "off" /\ worker' = NoWorkers
      /\ UNCHANGED <<exists, saved, stale, mode>>
  BY DEF Crash, plan
<1>2. PICK lost \in SUBSET {id \in Ids : worker[id].last /\ worker[id].linked} :
        out' = [o \in DOMAIN out |->
                  IF \E id \in lost : o = RemainingStart(Segs[id]) + worker[id].got - 1
                    THEN 0 ELSE out[o]]
  BY DEF Crash
<1>3. \A id \in Ids : worker'[id].pc = "done"
  BY <1>1, NoWorkersFit
<1>4. SavedBacked'
  <2> SUFFICES ASSUME saved.kind = "state", ~stale, saved.done # Nothing
               PROVE  mode = "segmented" /\ Whole' /\ Backed(saved.done, saved.version)'
    BY <1>1 DEF SavedBacked
  <2>1. /\ mode = "segmented" /\ Whole /\ Backed(saved.done, saved.version)
        /\ saved.done \in Fitting
    BY DEF Saves, SavedBacked, Typed
  <2>2. ASSUME NEW id \in Ids, NEW k \in 0 .. saved.done[id] - 1, NEW other \in lost
        PROVE  Segs[id].start + k # RemainingStart(Segs[other]) + worker[other].got - 1
    <3>1. /\ other \in Ids /\ worker[other].last /\ worker[other].pc = "stream"
          /\ worker[other].got <= Size(other) /\ worker[other].got \in 0 .. Total
      BY DEF Typed, WorkersFit, Workers
    <3>2. Fetching
      BY <2>1, <3>1 DEF Fetching
    <3>3. saved.done[other] <= shared[other] /\ shared[other] <= worker[other].got - 1
      BY <3>1, <3>2 DEF Saves, Behind, Safe
    <3>4. /\ saved.done[other] \in 0 .. Total /\ saved.done[id] \in 0 .. Total
          /\ saved.done[id] <= Size(id) /\ shared[other] \in 0 .. Total
      BY <2>1, <3>1 DEF Fitting, Typed
    <3>5. /\ RemainingStart(Segs[other]) = Segs[other].start /\ Segs[other].start \in Nat
          /\ Segs[id].start \in Nat /\ Size(other) \in Nat /\ Size(id) \in Nat /\ Total \in Nat
      BY <3>1, SegmentFits, ConstantsAssumption DEF RemainingStart
    <3> DEFINE j == worker[other].got - 1
    <3>6. j \in 0 .. Size(other) - 1 /\ k \in 0 .. Size(id) - 1 /\ saved.done[other] <= j
      BY <3>1, <3>3, <3>4, <3>5
    <3>7. RemainingStart(Segs[other]) + worker[other].got - 1 = Segs[other].start + j
      BY <3>1, <3>5
    <3> HIDE DEF j
    <3>8. CASE id = other
      BY <3>4, <3>5, <3>6, <3>7, <3>8
    <3>9. CASE id # other
      BY <3>1, <3>6, <3>7, <3>9, SegmentsApart
    <3> QED
      BY <3>8, <3>9
  <2>3. Backed(saved.done, saved.version)'
    <3>1. DOMAIN saved.done = Ids
      BY <2>1 DEF Fitting
    <3> QED
      BY <1>1, <1>2, <2>1, <2>2, <3>1 DEF Backed, Has, Holds
  <2>4. Whole'
    BY <1>1, <1>2, <2>1 DEF Whole
  <2> QED
    BY <2>1, <2>3, <2>4
<1> QED
  BY <1>1, <1>3, <1>4 DEF Saves, Shares, Sharing, Behind, Fetching, Working, Fetches

-----------------------------------------------------------------------------
(* The single stream *)

\* A segment worker has opened the output there is: a worker the transfer
\* before a single stream has left may do so.
Opened == \E id \in Ids : worker[id].linked

Good(o) == Holds(o, single.body) \/ (Holds(o, version) /\ Opened)

\* What a single stream has counted it has fetched, but for what it has taken
\* over.  It streams the version that was probed, or a later one.  To go on where
\* it broke it needs ranges, and to be given them the version that was probed: an
\* earlier attempt was of that one too, the versions since the probe being later.
Streamed ==
  /\ single.pc \in {"request", "await"} /\ ~ranges => single.got = 0
  /\ single.body # 0 => single.body \in version .. server
  /\ single.pc = "stream" => single.body # 0
  /\ single.pc = "done" /\ single.result = "ok" => single.got = Total
  /\ \A o \in (0 .. single.got - 1) \ kept : single.body # 0 /\ Good(o)

Singles ==
  /\ version <= server
  /\ mode = "single" /\ pc \in {"closing", "handle"} /\ outcome \in {"ok", "cancel"} =>
       single.pc = "done" /\ single.result = outcome
  /\ mode = "single" /\ Working => Streamed

LEMMA InitSingles == Init => Singles
BY DEF Init, Singles, Working

LEMMA WorkerSingles ==
  ASSUME Typed, Singles, NEW id \in Ids, WorkerStep(id)
  PROVE  Singles'
<1>1. PICK w \in Workers : Step(id, w) /\ (Rests(id, w) \/ Opens(id, w) \/ Takes(id, w))
  BY WorkerEffect
<1>2. /\ worker' = [worker EXCEPT ![id] = w]
      /\ UNCHANGED <<server, pc, mode, version, single, outcome>>
      /\ worker \in [Ids -> Workers]
  BY <1>1 DEF Step, plan, Typed, WorkersFit
<1>3. UNCHANGED <<ranges, kept>>
  BY <1>1 DEF Step
<1>4. Opened => Opened'
  BY <1>1, <1>2 DEF Rests, Opens, Takes, Opened
<1>5. \A o : Good(o) => Good(o)'
  <2>1. CASE out' = out
    BY <1>2, <1>4, <2>1 DEF Good, Holds
  <2>2. CASE Takes(id, w) /\ w.linked
    <3> DEFINE offset == Segs[id].start + worker[id].got
    <3>1. out' = Written(offset, version) /\ Opened'
      BY <1>2, <2>2 DEF Takes, Opened
    <3> HIDE DEF offset
    <3>2. /\ offset \in DOMAIN out => out'[offset] = version
          /\ \A o \in DOMAIN out : o \in DOMAIN out' /\ (o # offset => out'[o] = out[o])
      BY <3>1 DEF Written
    <3> QED
      BY <1>2, <3>1, <3>2 DEF Good, Holds
  <2> QED
    BY <1>1, <2>1, <2>2 DEF Rests, Opens, Takes
<1> QED
  BY <1>2, <1>3, <1>5 DEF Singles, Streamed, Working

LEMMA SingleSingles ==
  ASSUME Typed, Singles, SingleSteps
  PROVE  Singles'
<1>1. mode = "single" /\ single.pc # "done"
  BY SingleEffect
<1>2. PICK w \in Workers :
         /\ SingleStep(w)
         /\ SingleRests(w) \/ SingleRestarts(w) \/ SingleOpens(w) \/ SingleTakes(w)
  BY SingleEffect
<1>3. single' = w /\ UNCHANGED <<server, version, pc, mode, outcome>>
  BY <1>2 DEF SingleStep, plan
<1>4. /\ single.got \in 0 .. Total /\ w.got \in 0 .. Total /\ Total \in Nat
      /\ server \in Nat \ {0} /\ version \in Nat \ {0} /\ single.body \in Nat
      /\ version <= server
  BY ConstantsAssumption DEF Typed, EngineTyped, Workers, Contents, Singles
<1>5. Working => Streamed
  BY <1>1 DEF Singles
<1>6. ASSUME Working PROVE Streamed'
  <2>1. CASE SingleRests(w)
    <3>1. /\ UNCHANGED <<out, worker, ranges, kept>> /\ w.pc # "stream"
          /\ w.pc \in {"request", "await"} => single.pc \in {"request", "await"} \/ ranges
          /\ w.pc = "done" /\ w.result = "ok" => single.got = Total
          /\ w.got = single.got /\ w.body = single.body
      BY <2>1 DEF SingleRests
    <3> QED
      BY <1>3, <1>5, <1>6, <3>1 DEF Streamed, Good, Holds, Opened
  <2>2. CASE SingleRestarts(w)
    <3>1. w.pc = "request" /\ w.got = 0 /\ w.body = single.body
      BY <2>2 DEF SingleRestarts
    <3>2. 0 .. w.got - 1 = {}
      BY <3>1
    <3> QED
      BY <1>3, <1>5, <1>6, <3>1, <3>2 DEF Streamed
  <2>3. CASE SingleOpens(w)
    <3>1. /\ UNCHANGED <<out, worker, ranges, kept>> /\ single.pc = "await" /\ w.pc = "stream"
          /\ w.got = single.got /\ w.body = server
          /\ ranges /\ single.got > 0 => server = version
      BY <2>3 DEF SingleOpens
    <3>2. w.body # 0 /\ w.body \in version .. server
      BY <1>4, <3>1
    <3>3. ASSUME NEW o \in (0 .. w.got - 1) \ kept PROVE Good(o)'
      <4>1. single.got > 0 /\ single.body # 0 /\ Good(o)
        BY <1>4, <1>5, <1>6, <3>1, <3>3 DEF Streamed
      <4>2. server = version /\ single.body \in version .. server
        BY <1>4, <1>5, <1>6, <3>1, <4>1 DEF Streamed
      <4>3. w.body = single.body
        BY <1>4, <3>1, <4>2
      <4> QED
        BY <1>3, <3>1, <4>1, <4>3 DEF Good, Holds, Opened
    <3> QED
      BY <1>3, <3>1, <3>2, <3>3 DEF Streamed
  <2>4. CASE SingleTakes(w)
    <3>1. /\ UNCHANGED <<worker, ranges, kept>> /\ single.pc = "stream" /\ w.pc = "stream"
          /\ w.got = single.got + 1 /\ w.body = single.body
          /\ out' = Written(single.got, single.body)
      BY <2>4 DEF SingleTakes
    <3>2. single.body # 0 /\ single.body \in version .. server
      BY <1>5, <1>6, <3>1 DEF Streamed
    <3>3. /\ out'[single.got] = single.body /\ single.got \in DOMAIN out'
          /\ \A o \in DOMAIN out : o \in DOMAIN out' /\ (o # single.got => out'[o] = out[o])
      BY <1>4, <3>1 DEF Written
    <3>4. ASSUME NEW o \in (0 .. w.got - 1) \ kept PROVE Good(o)'
      <4>1. CASE o = single.got
        BY <1>3, <3>1, <3>3, <4>1 DEF Good, Holds
      <4>2. CASE o # single.got
        <5>1. o \in (0 .. single.got - 1) \ kept
          BY <1>4, <3>1, <3>4, <4>2
        <5>2. Good(o)
          BY <1>5, <1>6, <5>1 DEF Streamed
        <5> QED
          BY <1>3, <3>1, <3>3, <4>2, <5>2 DEF Good, Holds, Opened
      <4> QED
        BY <4>1, <4>2
    <3> QED
      BY <1>3, <3>1, <3>2, <3>4 DEF Streamed
  <2> QED
    BY <1>2, <2>1, <2>2, <2>3, <2>4
<1> QED
  BY <1>1, <1>3, <1>6 DEF Singles, Working

LEMMA BeginSingles ==
  ASSUME Typed, Singles, Begin
  PROVE  Singles'
<1>1. PICK supported \in RangeSupport :
         /\ ranges' = supported
         /\ FinishAtOnce(supported) \/ StartSegmented(supported) \/ StartSingle(supported)
  BY DEF Begin
<1>2. version' = server /\ server' = server /\ server \in Nat
  BY ConstantsAssumption DEF Begin, Typed, EngineTyped
<1>3. version' <= server'
  BY <1>2
<1>4. CASE FinishAtOnce(supported)
  BY <1>3, <1>4 DEF FinishAtOnce, Singles, Working
<1>5. CASE StartSegmented(supported)
  BY <1>3, <1>5 DEF StartSegmented, Singles
<1>6. CASE StartSingle(supported)
  <2> DEFINE found == IF exists /\ supported THEN Cardinality(DOMAIN out) ELSE 0
  <2>1. /\ pc' = "wait" /\ single' = Worker(found)
        /\ kept' = IF exists /\ supported THEN DOMAIN out ELSE {}
    BY <1>6 DEF StartSingle
  <2>2. found \in 0 .. Total /\ 0 .. found - 1 = kept'
    <3>1. PICK n \in 0 .. Total : out \in [0 .. n - 1 -> Contents]
      BY DEF Typed, OutTyped
    <3>2. n \in Nat /\ DOMAIN out = 0 .. n - 1 /\ 0 \in 0 .. Total
      BY <3>1, ConstantsAssumption
    <3>3. Cardinality(0 .. n - 1) = n
      BY <3>2, FS_Interval
    <3>4. 0 .. 0 - 1 = {}
      OBVIOUS
    <3> QED
      BY <2>1, <3>1, <3>2, <3>3, <3>4
  <2>3. supported \/ found = 0
    OBVIOUS
  <2> HIDE DEF found
  <2>4. /\ single'.pc = "request" /\ single'.got = found /\ single'.body = 0
        /\ ranges' \/ single'.got = 0
    BY <1>1, <2>1, <2>2, <2>3, NewWorkerTyped
  <2> QED
    BY <1>3, <2>1, <2>2, <2>4 DEF Singles, Streamed
<1> QED
  BY <1>1, <1>4, <1>5, <1>6

\* A step that leaves the output, the workers and the single stream alone.
LEMMA OutsideSingles ==
  ASSUME Typed, Phases, Singles,
         \/ Start \/ ProbeFails \/ Waited \/ SaverStopped \/ ReturnError
         \/ (\E command \in {"pause", "cancel"} : Ask(command)) \/ CtrlC \/ ServerChanges
         \/ EngineStartsSaving \/ SaverStartsSaving \/ SaverSaved \/ SaverSaveFails
         \/ Finish \/ UNCHANGED vars
  PROVE  Singles'
<1>1. UNCHANGED <<exists, out, worker, mode, version, single>>
  BY DEF Start, ProbeFails, Waited, SaverStopped, ReturnError, EngineStep, Ask, CtrlC,
         ServerChanges, EngineStartsSaving, SaverStartsSaving, SaverSaved, SaverSaveFails,
         StartWriting, DoneWriting, Finish, KeepOutput, vars, disk, plan
<1>2. UNCHANGED <<ranges, kept>>
  BY DEF Start, ProbeFails, Waited, SaverStopped, ReturnError, Ask, CtrlC,
         ServerChanges, EngineStartsSaving, SaverStartsSaving, SaverSaved, SaverSaveFails,
         StartWriting, DoneWriting, Finish, vars
<1>3. \/ pc' \in {"idle", "probe"}
      \/ pc = "wait" /\ pc' = "interrupt"
      \/ pc = "wait" /\ pc' = "closing" /\ (mode = "segmented" \/ (single.pc = "done" /\ outcome' = single.result))
      \/ pc = "closing" /\ pc' = "handle" /\ (outcome' \in {"ok", "cancel"} => outcome' = outcome)
      \/ UNCHANGED <<pc, outcome>>
  BY DEF Start, ProbeFails, Waited, SaverStopped, ReturnError, EngineStep, Ask, CtrlC,
         ServerChanges, EngineStartsSaving, SaverStartsSaving, SaverSaved, SaverSaveFails,
         StartWriting, DoneWriting, Finish, vars
<1>4. /\ Working' => Working
      /\ mode = "single" /\ pc' \in {"closing", "handle"} /\ outcome' \in {"ok", "cancel"} =>
           single.pc = "done" /\ single.result = outcome'
  BY <1>3 DEF Singles, Working
<1>5. server' = server \/ server' = server + 1
  BY DEF Start, ProbeFails, Waited, SaverStopped, ReturnError, EngineStep, Ask, CtrlC,
         ServerChanges, EngineStartsSaving, SaverStartsSaving, SaverSaved, SaverSaveFails,
         StartWriting, DoneWriting, Finish, vars
<1>6. /\ version <= server => version' <= server'
      /\ single.body \in version .. server => single'.body \in version' .. server'
  BY <1>1, <1>5, ConstantsAssumption DEF Typed, EngineTyped
<1>7. Streamed => Streamed'
  BY <1>1, <1>2, <1>6 DEF Streamed, Good, Opened, Holds
<1> QED
  BY <1>1, <1>4, <1>6, <1>7 DEF Singles

LEMMA EngineSingles ==
  ASSUME Typed, Inv, Phases, Singles, PrepareOutput \/ EngineSaved \/ EngineSaveFails
  PROVE  Singles'
<1>1. CASE PrepareOutput
  BY <1>1 DEF PrepareOutput, Phases, Singles, plan
<1>2. CASE EngineSaved \/ EngineSaveFails
  <2>1. UNCHANGED <<server, mode, version>> /\ writer = "engine"
    BY <1>2 DEF EngineSaved, EngineSaveFails, DoneWriting, plan
  <2>2. UNCHANGED <<exists, out, single, ranges, kept>>
    BY <1>2 DEF EngineSaved, EngineSaveFails, DoneWriting
  <2>3. pc \in {"save", "interrupt", "handle"}
    BY <2>1 DEF Inv, WritersKnown
  <2>4. CASE pc = "save"
    BY <2>1, <2>4 DEF Phases, Singles
  <2>5. CASE pc \in {"interrupt", "handle"}
    <3>1. /\ worker' = worker /\ pc' \in {"idle", "closing"}
          /\ pc' = "closing" => outcome' \in {"pause", "error"}
      BY <1>2, <2>5 DEF EngineSaved, EngineSaveFails
    <3> QED
      BY <2>1, <2>2, <2>5, <3>1 DEF Singles, Streamed, Good, Holds, Working, Opened
  <2> QED
    BY <2>3, <2>4, <2>5
<1> QED
  BY <1>1, <1>2

LEMMA EndsSingles ==
  ASSUME Typed, Singles, Cancel \/ FallBack
  PROVE  Singles'
<1>1. CASE Cancel
  BY <1>1 DEF Cancel, EngineStep, plan, Singles, Working
<1>2. CASE FallBack
  <2>1. /\ pc' = "wait" /\ single' = Worker(0) /\ outcome' = "none"
        /\ UNCHANGED <<server, version>>
    BY <1>2 DEF FallBack
  <2>2. single'.pc = "request" /\ single'.got = 0 /\ single'.body = 0 /\ 0 .. 0 - 1 = {}
    BY <2>1 DEF Worker
  <2> QED
    BY <2>1, <2>2 DEF Singles, Streamed
<1> QED
  BY <1>1, <1>2

LEMMA CrashSingles ==
  ASSUME Typed, Singles, Crash
  PROVE  Singles'
BY DEF Crash, plan, Singles, Working

-----------------------------------------------------------------------------
(* The theorems about the data *)

DataInv == Typed /\ Inv /\ Phases /\ Saves /\ Singles

LEMMA InitData == Init => DataInv
<1> SUFFICES ASSUME Init PROVE DataInv
  OBVIOUS
<1>1. Typed /\ Inv /\ Singles
  BY InitTyped, InitInv, InitSingles
<1>2. Phases
  BY DEF Init, Phases
<1>3. Saves
  <2>1. \A id \in Ids : worker[id].pc = "done"
    BY NoWorkersFit DEF Init
  <2> QED
    BY <2>1
       DEF Init, Saves, Shares, Sharing, Behind, Fetching, Working, SavedBacked, Fetches, NoState
<1> QED
  BY <1>1, <1>2, <1>3 DEF DataInv

LEMMA NextSaves ==
  ASSUME Typed, Inv, Phases, Saves, [Next]_vars
  PROVE  Saves'
<1>1. CASE \E id \in Ids : WorkerStep(id)
  BY <1>1, WorkerSaves
<1>2. CASE SingleSteps
  BY <1>2, SingleSaves
<1>3. CASE Begin
  BY <1>3, BeginSaves
<1>4. CASE PrepareOutput
  BY <1>4, PrepareSaves
<1>5. CASE EngineStartsSaving \/ SaverStartsSaving
  BY <1>5, StartWritingSaves
<1>6. CASE SaverSaved \/ SaverSaveFails
  BY <1>6, SaverWritesSaves
<1>7. CASE EngineSaved \/ EngineSaveFails
  BY <1>7, EngineWritesSaves
<1>8. CASE Finish \/ Cancel \/ FallBack
  BY <1>8, EndsSaves
<1>9. CASE Crash
  BY <1>9, CrashSaves
<1>10. CASE \/ Start \/ ProbeFails \/ Waited \/ SaverStopped \/ ReturnError
            \/ (\E command \in {"pause", "cancel"} : Ask(command)) \/ CtrlC \/ ServerChanges
            \/ UNCHANGED vars
  BY <1>10, OutsideSaves
<1> QED
  BY <1>1, <1>2, <1>3, <1>4, <1>5, <1>6, <1>7, <1>8, <1>9, <1>10 DEF Next, Engine

LEMMA NextSingles ==
  ASSUME Typed, Inv, Phases, Singles, [Next]_vars
  PROVE  Singles'
<1>1. CASE \E id \in Ids : WorkerStep(id)
  BY <1>1, WorkerSingles
<1>2. CASE SingleSteps
  BY <1>2, SingleSingles
<1>3. CASE Begin
  BY <1>3, BeginSingles
<1>4. CASE PrepareOutput \/ EngineSaved \/ EngineSaveFails
  BY <1>4, EngineSingles
<1>5. CASE Cancel \/ FallBack
  BY <1>5, EndsSingles
<1>6. CASE Crash
  BY <1>6, CrashSingles
<1>7. CASE \/ Start \/ ProbeFails \/ Waited \/ SaverStopped \/ ReturnError
           \/ (\E command \in {"pause", "cancel"} : Ask(command)) \/ CtrlC \/ ServerChanges
           \/ EngineStartsSaving \/ SaverStartsSaving \/ SaverSaved \/ SaverSaveFails
           \/ Finish \/ UNCHANGED vars
  BY <1>7, OutsideSingles
<1> QED
  BY <1>1, <1>2, <1>3, <1>4, <1>5, <1>6, <1>7 DEF Next, Engine

LEMMA DataInvariant == Spec => []DataInv
<1>1. DataInv /\ [Next]_vars => DataInv'
  <2> SUFFICES ASSUME DataInv, [Next]_vars PROVE DataInv'
    OBVIOUS
  <2>1. Typed /\ Inv /\ Phases /\ Saves /\ Singles
    BY DEF DataInv
  <2>2. Inv'
    BY <2>1, NextKeeps DEF Kept
  <2> QED
    BY <2>1, <2>2, NextTyped, PhasesKept, NextSaves, NextSingles DEF DataInv
<1> QED
  BY <1>1, InitData, PTL DEF Spec

\* The state file never claims a byte that is not in the output, however many
\* workers, downloads and crashes there are (worker.rs:175-178, 202-206).
THEOREM StateIsBacked == Spec => []StateBacked
<1>1. DataInv => StateBacked
  <2> SUFFICES ASSUME DataInv, saved.kind = "state", ~stale,
                      NEW id \in DOMAIN saved.done, NEW k \in 0 .. saved.done[id] - 1
               PROVE  Holds(Segs[id].start + k, saved.version)
    BY DEF StateBacked
  <2>1. saved.done # Nothing
    BY DEF Nothing
  <2>2. Backed(saved.done, saved.version)
    BY <2>1 DEF DataInv, Saves, SavedBacked
  <2> QED
    BY <2>2 DEF Backed, Has
<1> QED
  BY <1>1, DataInvariant, PTL

\* When all segment workers have returned without an error, every byte that the
\* download has not taken over from a saved state is there, of the version that
\* was probed, and so is every byte it has taken over from a state that is not
\* older than the output: the segments leave no byte out, and each worker has
\* all of its own (worker.rs:130-274, control.rs:47-56).
THEOREM SegmentedIsComplete == Spec => []SegmentedComplete
<1>1. DataInv => SegmentedComplete
  <2> SUFFICES ASSUME DataInv, pc = "handle", mode = "segmented", outcome = "ok",
                      NEW o \in 0 .. Total - 1, trusted \/ o \notin kept
               PROVE  Holds(o, version)
    BY DEF SegmentedComplete
  <2>1. \A id \in Ids : worker[id].got >= Size(id) /\ Fetched(id, worker[id].got)
    BY DEF DataInv, Saves, Fetches, Working
  <2>2. PICK id \in Ids : \E k \in 0 .. Size(id) - 1 : o = Segs[id].start + k
    BY EveryByteIsFetched
  <2>3. PICK k \in 0 .. Size(id) - 1 : o = Segs[id].start + k
    BY <2>2
  <2>4. worker[id].got \in 0 .. Total /\ Total \in Nat /\ Size(id) \in Nat
    BY SegmentFits, ConstantsAssumption DEF DataInv, Typed, WorkersFit, Workers
  <2>5. k \in 0 .. worker[id].got - 1
    BY <2>1, <2>3, <2>4
  <2> QED
    BY <2>1, <2>3, <2>5 DEF Fetched
<1> QED
  BY <1>1, DataInvariant, PTL

\* A single stream, with or without ranges, leaves the bytes it has gone on from
\* as it has found them and one version of the file after them, whatever its
\* earlier attempts have written (worker.rs:289-405).
THEOREM SingleIsComplete == Spec => []SingleComplete
<1>1. DataInv => SingleComplete
  <2> SUFFICES ASSUME DataInv, pc = "handle", mode = "single", outcome = "ok",
                      NEW o \in (0 .. Total - 1) \ kept
               PROVE  Good(o)
    BY DEF SingleComplete, Good, Opened
  <2>1. single.pc = "done" /\ single.result = "ok" /\ Working
    BY DEF DataInv, Singles, Working
  <2>2. single.got = Total
    BY <2>1 DEF DataInv, Singles, Streamed
  <2> QED
    BY <2>1, <2>2 DEF DataInv, Singles, Streamed
<1> QED
  BY <1>1, DataInvariant, PTL

-----------------------------------------------------------------------------
(* The theorem about the saves *)

\* What a resumed download could take from the state file.
Claims == saved.kind = "state" /\ ~stale /\ saved.version = version /\ saved.done # Nothing

Counted == \A id \in Ids : saved.done[id] <= shared[id]

\* A saver that is left on when the first save fails may still save.
Resuming == pc \in {"prepare", "save"} \/ (pc = "idle" /\ saver # "off")

Resumes == Resuming /\ Claims => Counted

\* Segment counts are compared with themselves.
LEMMA SavedIsCounted ==
  ASSUME Typed, saved'.done = shared', shared' = shared
  PROVE  Counted'
<1>1. \A id \in Ids : shared[id] \in 0 .. Total
  BY DEF Typed, Fitting
<1>2. Total \in Nat
  BY ConstantsAssumption
<1> QED
  BY <1>1, <1>2 DEF Counted

\* A step that leaves the state and its file alone and does not begin to resume.
LEMMA ResumesKept ==
  ASSUME Resumes, Resuming' => Resuming, ~stale' => ~stale,
         UNCHANGED <<saved, version, shared>>
  PROVE  Resumes'
BY DEF Resumes, Claims, Counted

\* The download that begins takes its segments from the state file.  Without an
\* output there is no state of one to take them from.
LEMMA BeginResumes ==
  ASSUME Typed, Inv, Saves, Begin
  PROVE  Resumes'
<1>1. PICK supported \in RangeSupport :
         FinishAtOnce(supported) \/ StartSegmented(supported) \/ StartSingle(supported)
  BY DEF Begin
<1>2. /\ pc = "probe" /\ version' = server /\ saver' = saver
  BY DEF Begin
<1>3. saver = "off"
  BY <1>2 DEF Inv, WritersKnown
<1>4. CASE FinishAtOnce(supported) \/ StartSingle(supported)
  BY <1>2, <1>3, <1>4 DEF FinishAtOnce, StartSingle, Resumes, Resuming
<1>5. CASE StartSegmented(supported)
  <2> SUFFICES ASSUME Claims' PROVE Counted'
    BY DEF Resumes
  <2>1. /\ UNCHANGED <<exists, saved, stale>> /\ shared' = PlannedSegments(supported)
        /\ shared' # Nothing
    BY <1>5 DEF StartSegmented, disk
  <2>2. saved.kind = "state" /\ ~stale /\ saved.version = server /\ saved.done # Nothing
    BY <1>2, <2>1 DEF Claims
  <2>3. exists
    BY <2>2 DEF Saves, SavedBacked, Whole
  <2>4. shared' = saved.done
    BY <2>1, <2>2, <2>3 DEF PlannedSegments, Usable
  <2>5. saved.done \in Fitting
    BY <2>2 DEF Typed
  <2>6. \A id \in Ids : saved.done[id] \in 0 .. Total
    BY <2>5 DEF Fitting
  <2> QED
    BY <2>1, <2>4, <2>6, ConstantsAssumption DEF Counted
<1> QED
  BY <1>1, <1>4, <1>5

LEMMA WrittenResumes ==
  ASSUME Typed, Inv, Phases, Resumes,
         SaverSaved \/ SaverSaveFails \/ EngineSaved \/ EngineSaveFails
  PROVE  Resumes'
<1>1. PICK who \in {"engine", "saver"}, ok \in BOOLEAN : DoneWriting(who, ok)
  BY DEF SaverSaved, SaverSaveFails, EngineSaved, EngineSaveFails
<1>2. /\ UNCHANGED <<stale, version, shared>>
      /\ ok => saved'.done = IF mode = "single" THEN Nothing ELSE shared
      /\ ~ok => saved' = saved
  BY <1>1, StateWritten
<1>3. CASE ok
  <2>1. mode = "single" => ~Claims'
    BY <1>2, <1>3 DEF Claims
  <2>2. mode # "single" => Counted'
    BY <1>2, <1>3, SavedIsCounted
  <2> QED
    BY <2>1, <2>2 DEF Resumes
<1>4. CASE ~ok
  <2>1. Resuming' => Resuming
    <3>1. CASE SaverSaved \/ SaverSaveFails
      <4>1. pc' = pc /\ writer = "saver"
        BY <3>1 DEF SaverSaved, SaverSaveFails, DoneWriting
      <4>2. saver # "off"
        BY <4>1 DEF Inv, WritersKnown
      <4> QED
        BY <4>1, <4>2 DEF Resuming
    <3>2. CASE EngineSaved \/ EngineSaveFails
      <4>1. writer = "engine" /\ saver' = saver
        BY <3>2 DEF EngineSaved, EngineSaveFails, DoneWriting
      <4>2. pc \in {"save", "interrupt", "handle"} /\ (pc = "handle" => saver = "off")
        BY <4>1 DEF Inv, WritersKnown
      <4>3. pc' \in {"wait", "closing", "idle"} /\ (pc = "interrupt" => pc' = "closing")
        BY <3>2, <4>2 DEF EngineSaved, EngineSaveFails
      <4> QED
        BY <4>1, <4>2, <4>3 DEF Resuming
    <3> QED
      BY <3>1, <3>2
  <2> QED
    BY <1>2, <1>4, <2>1, ResumesKept
<1> QED
  BY <1>3, <1>4

LEMMA NextResumes ==
  ASSUME DataInv, Resumes, [Next]_vars
  PROVE  Resumes'
<1> USE DEF DataInv
<1>1. WritersKnown
  BY DEF Inv
<1>2. CASE \E id \in Ids : WorkerStep(id)
  <2> PICK id \in Ids : WorkerStep(id)
    BY <1>2
  <2>1. worker[id].pc # "done"
    BY AtWork
  <2>2. PICK w \in Workers : Step(id, w) /\ (Rests(id, w) \/ Opens(id, w) \/ Takes(id, w))
    BY WorkerEffect
  <2>3. UNCHANGED <<pc, saver>>
    BY <2>2 DEF Step
  <2>4. ~Resuming
    BY <2>1 DEF Resuming, Phases, Idle
  <2> QED
    BY <2>3, <2>4 DEF Resumes, Resuming
<1>3. CASE SingleSteps
  <2>1. PICK w \in Workers :
           /\ SingleStep(w)
           /\ SingleRests(w) \/ SingleRestarts(w) \/ SingleOpens(w) \/ SingleTakes(w)
    BY <1>3, SingleEffect
  <2>2. UNCHANGED <<pc, saver, saved, version, shared>>
    BY <2>1 DEF SingleStep, plan
  <2>3. ~stale' => ~stale
    BY <2>1, Removed DEF SingleRests, SingleRestarts, SingleOpens, SingleTakes
  <2> QED
    BY <2>2, <2>3, ResumesKept DEF Resuming
<1>4. CASE Start \/ ProbeFails
  <2>1. saver' = saver /\ saver = "off" /\ pc' \in {"idle", "probe"}
    BY <1>1, <1>4 DEF Start, ProbeFails, WritersKnown
  <2> QED
    BY <2>1 DEF Resumes, Resuming
<1>5. CASE Begin
  BY <1>5, BeginResumes
<1>6. CASE PrepareOutput
  <2>1. pc = "prepare" /\ UNCHANGED <<saved, stale, version, shared>>
    BY <1>6 DEF PrepareOutput, plan
  <2> QED
    BY <2>1, ResumesKept DEF Resuming
<1>7. CASE EngineStartsSaving \/ SaverStartsSaving
  <2>1. saved' = Torn
    BY <1>7 DEF EngineStartsSaving, SaverStartsSaving, StartWriting
  <2> QED
    BY <2>1 DEF Resumes, Claims, Torn
<1>8. CASE SaverSaved \/ SaverSaveFails \/ EngineSaved \/ EngineSaveFails
  BY <1>8, WrittenResumes
<1>9. CASE Waited \/ SaverStopped
  <2>1. pc' \in {"closing", "handle"}
    BY <1>9 DEF Waited, SaverStopped, EngineStep
  <2> QED
    BY <2>1 DEF Resumes, Resuming
<1>10. CASE Finish \/ Cancel \/ FallBack \/ ReturnError
  <2>1. saver' = saver /\ pc = "handle" /\ pc' \in {"idle", "wait"}
    BY <1>10 DEF Finish, Cancel, FallBack, ReturnError, EngineStep
  <2> QED
    BY <1>1, <2>1 DEF WritersKnown, Resumes, Resuming
<1>11. CASE \/ (\E command \in {"pause", "cancel"} : Ask(command))
            \/ CtrlC \/ ServerChanges \/ UNCHANGED vars
  <2>1. /\ UNCHANGED <<saved, stale, version, shared, saver>>
        /\ pc' = pc \/ pc' = "interrupt"
    BY <1>11 DEF Ask, CtrlC, ServerChanges, vars, plan, disk
  <2> QED
    BY <2>1, ResumesKept DEF Resuming
<1>12. CASE Crash
  BY <1>12 DEF Crash, Resumes, Resuming
<1> QED
  BY <1>2, <1>3, <1>4, <1>5, <1>6, <1>7, <1>8, <1>9, <1>10, <1>11, <1>12 DEF Next, Engine

\* A save begins with what a worker has counted since the state file, or with
\* what the download has taken from it.
LEMMA SaveForgetsNothing ==
  ASSUME DataInv, Resumes, [Next]_vars, writer = "none", writer' # "none", Claims
  PROVE  Counted
<1>1. EngineStartsSaving \/ SaverStartsSaving
  <2>1. ASSUME NEW id \in Ids, WorkerStep(id) PROVE writer' = writer
    BY <2>1, WorkerEffect DEF DataInv, Step
  <2>2. SingleSteps => writer' = writer
    BY SingleEffect DEF DataInv, SingleStep
  <2>3. \/ Start \/ ProbeFails \/ Begin \/ PrepareOutput \/ Waited \/ SaverStopped
        \/ Finish \/ Cancel \/ FallBack \/ ReturnError
        \/ (\E command \in {"pause", "cancel"} : Ask(command)) \/ CtrlC \/ ServerChanges
        \/ UNCHANGED vars
        => writer' = writer
    BY DEF Start, ProbeFails, Begin, PrepareOutput, Waited, SaverStopped, Finish, Cancel, FallBack,
           ReturnError, EngineStep, Ask, CtrlC, ServerChanges, vars
  <2>4. EngineSaved \/ EngineSaveFails \/ SaverSaved \/ SaverSaveFails \/ Crash => writer' = "none"
    BY DEF EngineSaved, EngineSaveFails, SaverSaved, SaverSaveFails, DoneWriting, Crash
  <2> QED
    BY <2>1, <2>2, <2>3, <2>4 DEF Next, Engine
<1>2. Resuming \/ Working
  <2>1. CASE EngineStartsSaving
    BY <2>1 DEF EngineStartsSaving, EngineSaves, Resuming, Working
  <2>2. CASE SaverStartsSaving
    <3>1. saver # "off"
      BY <2>2 DEF SaverStartsSaving
    <3> QED
      BY <3>1 DEF DataInv, Phases, Resuming, Working
  <2> QED
    BY <1>1, <2>1, <2>2
<1>3. CASE Resuming
  BY <1>3 DEF Resumes
<1>4. CASE Working
  <2>1. mode = "segmented"
    BY DEF DataInv, Saves, SavedBacked, Claims
  <2> QED
    BY <1>4, <2>1 DEF DataInv, Saves, Behind, Fetching, Claims, Counted
<1> QED
  BY <1>2, <1>3, <1>4

\* No save takes back what an earlier one has claimed, whichever task saves and
\* whatever has failed or crashed between the two (plan.rs:94-104, 208, 428-431,
\* worker.rs:130-247, state.rs:62-70).
THEOREM NoSaveForgets == Spec => ProgressIsKept
<1>1. Init => Resumes
  BY DEF Init, Resumes, Resuming
<1>2. DataInv /\ Resumes /\ [Next]_vars => Resumes'
  BY NextResumes
<1>3. DataInv /\ Resumes /\ [Next]_vars =>
        [writer = "none" /\ writer' # "none"
           /\ saved.kind = "state" /\ ~stale /\ saved.version = version /\ saved.done # Nothing
         => \A id \in Ids : saved.done[id] <= shared[id]]_vars
  BY SaveForgetsNothing DEF Claims, Counted
<1> QED
  BY <1>1, <1>2, <1>3, DataInvariant, PTL DEF Spec, ProgressIsKept
=============================================================================
