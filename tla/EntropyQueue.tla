---------------------------- MODULE EntropyQueue ----------------------------
(***************************************************************************)
(* The transfer in entropy mode: many small segments in a queue, a few     *)
(* workers that take one after the other, and the tracker of response      *)
(* times by which a slow stream is broken off and asked for again          *)
(* (plan.rs:320-413 and worker.rs of crates/arkama_core/src/downloader).   *)
(*                                                                         *)
(* What the output holds, the saver, Ctrl-C and crashes are in module      *)
(* Download and are as there.  Here a segment is known by the bytes that   *)
(* have been written for it and by those DownloadState has been told of.   *)
(***************************************************************************)
EXTENDS Integers, Sequences, FiniteSets, FiniteSetsExt, SequencesExt

CONSTANTS
  Segments,      \* how many segments the file has
  Size,          \* units in each
  Connections,   \* DownloadRequest.connections, one at least
  Batch,         \* STATE_SYNC_BATCH_BYTES, in units
  MaxAttempts,   \* failures a worker forgives: five in the source
  MaxAge,        \* times since a request are 0, up to a second, to MaxAge
  Stops          \* stops the user may ask for

ASSUME EntropyAssumption ==
  /\ Segments \in Nat /\ Size \in Nat \ {0} /\ Connections \in Nat \ {0}
  /\ Batch \in Nat \ {0} /\ MaxAttempts \in Nat /\ MaxAge \in Nat
  /\ Stops \subseteq {"pause", "cancel"}

VARIABLES
  queue,     \* the segments nobody has taken, by number
  written,   \* units written of each segment
  shared,    \* DownloadState.segments: units downloaded of each segment
  worker,    \* the workers, in the order of their handles
  timings,   \* SlowestTracker.timings
  signal,    \* the stop signal
  outcome    \* what the engine has made of the workers, or "none" yet

vars == <<queue, written, shared, worker, timings, signal, outcome>>

Ids     == 1 .. Segments
Workers == 1 .. Connections

\* A worker takes a segment, sends a request, waits for the response or reads
\* the stream, or it has returned.
Idle == [pc |-> "take", segment |-> 0, pending |-> 0, attempts |-> 0, age |-> 0, result |-> "none"]

\* Any progress may have been saved by the run before.
Init ==
  /\ queue = [i \in Ids |-> i]
  /\ shared \in [Ids -> 0 .. Size]
  /\ written = shared
  /\ worker = [w \in Workers |-> Idle]
  /\ timings = {}
  /\ signal = "none" /\ outcome = "none"

Becomes(w, state) == worker' = [worker EXCEPT ![w] = state]

Returned(w, how) == [worker[w] EXCEPT !.pc = "done", !.result = how, !.pending = 0, !.age = 0]

Current(w) == worker[w].segment

\* Mutant: the segment stays in the queue while it is downloaded.
Take_Front(w) ==
  /\ worker[w].pc = "take" /\ queue # <<>>
  /\ queue' = IF written[Head(queue)] >= Size THEN Tail(queue) ELSE queue
  /\ Becomes(w, IF written[Head(queue)] >= Size THEN Idle
                ELSE [Idle EXCEPT !.pc = "request", !.segment = Head(queue)])
  /\ UNCHANGED <<written, shared, timings, signal, outcome>>

\* A segment that is complete already is done at once.
Take(w) ==
  /\ worker[w].pc = "take" /\ queue # <<>>
  /\ queue' = Tail(queue)
  /\ Becomes(w, IF written[Head(queue)] >= Size THEN Idle
                ELSE [Idle EXCEPT !.pc = "request", !.segment = Head(queue)])
  /\ UNCHANGED <<written, shared, timings, signal, outcome>>

NothingLeft(w) ==
  /\ worker[w].pc = "take" /\ queue = <<>>
  /\ Becomes(w, Returned(w, "ok"))
  /\ UNCHANGED <<queue, written, shared, timings, signal, outcome>>

Unshared == UNCHANGED <<queue, written, shared, timings, signal, outcome>>

Request(w) ==
  /\ worker[w].pc = "request"
  /\ Becomes(w, IF signal # "none" THEN Returned(w, signal)
                ELSE [worker[w] EXCEPT !.pc = "await", !.age = 0])
  /\ Unshared

\* Mutant: failures are not counted.
Again_Forever(w) == [worker[w] EXCEPT !.pc = "request", !.pending = 0, !.age = 0]

\* One more failure, or one more stream broken off as slow.
Again(w) ==
  IF worker[w].attempts + 1 > MaxAttempts THEN Returned(w, "error")
  ELSE [worker[w] EXCEPT !.attempts = @ + 1, !.pc = "request", !.pending = 0, !.age = 0]

RequestFails(w)  == worker[w].pc = "await" /\ Becomes(w, Again(w)) /\ Unshared
RangeRefused(w)  == worker[w].pc = "await" /\ Becomes(w, Returned(w, "range")) /\ Unshared
RangeAccepted(w) == worker[w].pc = "await" /\ Becomes(w, [worker[w] EXCEPT !.pc = "stream"]) /\ Unshared

-----------------------------------------------------------------------------
(* The stream *)

Streams(w) == worker[w].pc = "stream"

\* update_state of what has not been told yet.
Sync(w) == shared' = [shared EXCEPT ![Current(w)] = written[Current(w)]]

\* SlowestTracker: as many times as there are connections.
ShouldRecycle(age) ==
  Cardinality(timings) >= Connections /\ age > Max(timings)

Record(age) ==
  IF Cardinality(timings) < Connections THEN timings \cup {age}
  ELSE (timings \ {Max(timings)}) \cup {age}

\* Mutant: a stream that is broken off as slow does not tell the state.
Chunk_Untold(w) ==
  LET units == written[Current(w)] + 1
      full  == worker[w].pending + 1 >= Batch
  IN  \E age \in worker[w].age .. MaxAge :
        /\ Streams(w) /\ written[Current(w)] < Size
        /\ written' = [written EXCEPT ![Current(w)] = units]
        /\ shared' = IF full THEN [shared EXCEPT ![Current(w)] = units] ELSE shared
        /\ Becomes(w, IF age > 0 /\ ShouldRecycle(age) THEN Again(w)
                      ELSE [worker[w] EXCEPT !.age = age,
                              !.pending = IF full THEN 0 ELSE worker[w].pending + 1])
        /\ UNCHANGED <<queue, timings, signal, outcome>>

\* A chunk is written; every Batch of them the state is told.  If the stream is
\* the slowest of all it is broken off, and the state is told of the rest.
Chunk(w) ==
  LET units == written[Current(w)] + 1
      full  == worker[w].pending + 1 >= Batch
  IN  \E age \in worker[w].age .. MaxAge :
        LET recycle == age > 0 /\ ShouldRecycle(age)
        IN  /\ Streams(w) /\ written[Current(w)] < Size
            /\ written' = [written EXCEPT ![Current(w)] = units]
            /\ shared' = IF full \/ recycle THEN [shared EXCEPT ![Current(w)] = units] ELSE shared
            /\ Becomes(w, IF recycle THEN Again(w)
                          ELSE [worker[w] EXCEPT !.age = age,
                                  !.pending = IF full THEN 0 ELSE worker[w].pending + 1])
            /\ UNCHANGED <<queue, timings, signal, outcome>>

StopStream(w) ==
  /\ Streams(w) /\ signal # "none"
  /\ Sync(w)
  /\ Becomes(w, Returned(w, signal))
  /\ UNCHANGED <<queue, written, timings, signal, outcome>>

BreakStream(w) ==
  /\ Streams(w)
  /\ Sync(w)
  /\ Becomes(w, Again(w))
  /\ UNCHANGED <<queue, written, timings, signal, outcome>>

\* With all its units a segment is done, and its time is recorded.
EndStream(w) ==
  /\ Streams(w)
  /\ Sync(w)
  /\ IF written[Current(w)] < Size
       THEN Becomes(w, Again(w)) /\ timings' = timings
       ELSE Becomes(w, Idle) /\ \E age \in worker[w].age .. MaxAge : timings' = Record(age)
  /\ UNCHANGED <<queue, written, signal, outcome>>

WorkerStep(w) ==
  \/ Take(w) \/ NothingLeft(w)
  \/ Request(w) \/ RequestFails(w) \/ RangeRefused(w) \/ RangeAccepted(w)
  \/ Chunk(w) \/ StopStream(w) \/ BreakStream(w) \/ EndStream(w)

\* Mutant: the last worker's result counts.
Waited_Last ==
  /\ outcome = "none"
  /\ \A w \in Workers : worker[w].pc = "done"
  /\ outcome' = worker[Connections].result
  /\ UNCHANGED <<queue, written, shared, worker, timings, signal>>

\* wait_all: the first error in the order of the handles ends the wait, and the
\* workers after it are not waited for.
Waited ==
  /\ outcome = "none"
  /\ \E w \in Workers :
       /\ \A v \in 1 .. w - 1 : worker[v].result = "ok"
       /\ worker[w].pc = "done"
       /\ w = Connections \/ worker[w].result # "ok"
       /\ outcome' = worker[w].result
  /\ UNCHANGED <<queue, written, shared, worker, timings, signal>>

\* The stop signal can be overwritten, and is read when it is read.
Ask ==
  /\ outcome = "none"
  /\ \E stop \in Stops \ {signal} : signal' = stop
  /\ UNCHANGED <<queue, written, shared, worker, timings, outcome>>

Next == (\E w \in Workers : WorkerStep(w)) \/ Waited \/ Ask

\* The runtime runs each worker that can run, each request is answered or fails
\* and each stream ends.
Spec ==
  Init /\ [][Next]_vars /\ WF_vars(Waited) /\ \A w \in Workers : WF_vars(WorkerStep(w))

-----------------------------------------------------------------------------
Returns(w, hows) == worker[w].pc = "done" /\ worker[w].result \in hows
HeldBy(id) == {w \in Workers : Current(w) = id}

\* A segment is in the queue, or with one worker, who keeps it if it gives up, or
\* else it is complete: no two workers write the same bytes, and no segment is
\* forgotten, however many workers have failed meanwhile (plan.rs:380-392).
InOnePlace ==
  \A id \in Ids :
    LET places == Cardinality(HeldBy(id)) + (IF Contains(queue, id) THEN 1 ELSE 0)
    IN  places <= 1 /\ (places = 0 => written[id] >= Size)

\* Outside its stream no worker has written what the state has not been told,
\* and within it no more than a batch: a pause or a crash costs each worker less
\* than that, however often its streams broke or were broken off
\* (worker.rs:172-176, 200-223, 226-247).
StateKeepsUp ==
  LET untold(id) == {worker[w].pending : w \in {v \in HeldBy(id) : Streams(v)}}
  IN  \A id \in Ids :
        /\ written[id] - shared[id] \in untold(id) \cup {0}
        /\ written[id] - shared[id] < Batch

\* The transfer succeeds only when every segment is complete and the state knows
\* it, whoever took which segment (plan.rs:376-413, worker.rs:238-273).
AllComplete == outcome = "ok" => \A id \in Ids : shared[id] >= Size

\* The engine hears of the end, and every worker returns, those that nobody
\* waits for included; what they do not give up they finish
\* (worker.rs:143-161, 265-273).
AllReturn == <>(outcome # "none" /\ \A w \in Workers : worker[w].pc = "done")
=============================================================================
