---------------------------- MODULE EntropyProofs ----------------------------
(***************************************************************************)
(* Theorems about module EntropyQueue, for any number of segments, workers *)
(* and failures, any size of segments and any batch.                       *)
(*                                                                         *)
(* The invariant says of every worker what it owes: its own segment, which *)
(* nobody else has, and the units of it the state has not been told.       *)
(***************************************************************************)
EXTENDS EntropyQueue, SequenceTheorems, FiniteSetTheorems, TLAPS

Outcomes == {"none", "ok", "error", "range"} \cup Stops

States ==
  [pc       : {"take", "request", "await", "stream", "done"},
   segment  : 0 .. Segments,
   pending  : 0 .. Batch - 1,
   attempts : Nat,
   age      : Nat,
   result   : Outcomes]

Typed ==
  /\ queue \in Seq(Ids)
  /\ written \in [Ids -> 0 .. Size]
  /\ shared \in [Ids -> 0 .. Size]
  /\ worker \in [Workers -> States]
  /\ signal \in {"none"} \cup Stops

\* A worker between two segments has none, one that returns has a result, and
\* one that has nothing left to take finds nothing later.
Sensible(w) ==
  /\ worker[w].pc = "take" => worker[w].segment = 0
  /\ worker[w].pc \in {"request", "await", "stream"} => worker[w].segment # 0
  /\ worker[w].pc # "stream" => worker[w].pending = 0
  /\ worker[w].pc = "done" <=> worker[w].result # "none"
  /\ worker[w].result = "ok" => worker[w].segment = 0 /\ queue = <<>>

\* Nobody else has a worker's segment, and it is not in the queue.
Owned ==
  \A w \in Workers : Current(w) # 0 =>
    /\ \A v \in Workers : Current(v) = Current(w) => v = w
    /\ \A i \in DOMAIN queue : queue[i] # Current(w)

QueuedOnce == \A i, j \in DOMAIN queue : queue[i] = queue[j] => i = j

\* What is neither in the queue nor owned is complete.
Remembered ==
  \A id \in Ids :
    \/ written[id] >= Size
    \/ \E i \in DOMAIN queue : queue[i] = id
    \/ \E w \in Workers : Current(w) = id

\* What the state has not been told of a segment is what its worker owes.
Told ==
  /\ \A w \in Workers :
       Current(w) # 0 => written[Current(w)] = shared[Current(w)] + worker[w].pending
  /\ \A id \in Ids : (\A w \in Workers : Current(w) # id) => written[id] = shared[id]

Inv ==
  /\ Typed
  /\ \A w \in Workers : Sensible(w)
  /\ Owned /\ QueuedOnce /\ Remembered /\ Told
  /\ outcome = "ok" => \A w \in Workers : worker[w].result = "ok"

-----------------------------------------------------------------------------
(* A worker with its segment *)

\* What the invariant says of a worker that has a segment.
LEMMA Holds ==
  ASSUME Inv, NEW w \in Workers, worker[w].pc \in {"request", "await", "stream"}
  PROVE  /\ worker[w] \in States /\ worker[w].result = "none"
         /\ Current(w) \in Ids /\ Current(w) # 0
         /\ written[Current(w)] \in 0 .. Size /\ shared[Current(w)] \in 0 .. Size
         /\ written[Current(w)] = shared[Current(w)] + worker[w].pending
<1>1. worker[w] \in States /\ Sensible(w)
  BY DEF Inv, Typed
<1>2. Current(w) \in Ids /\ Current(w) # 0
  BY <1>1 DEF Sensible, States, Current, Ids
<1>3. written[Current(w)] \in 0 .. Size /\ shared[Current(w)] \in 0 .. Size
  BY <1>2 DEF Inv, Typed
<1>4. written[Current(w)] = shared[Current(w)] + worker[w].pending
  BY <1>2 DEF Inv, Told
<1>5. worker[w].result = "none"
  BY <1>1 DEF Sensible
<1> QED
  BY <1>1, <1>2, <1>3, <1>4, <1>5

\* What a worker with a segment may become without giving it up.
Keeps(w, state) ==
  /\ state \in States
  /\ state.segment = Current(w)
  /\ \/ state.pc \in {"request", "await", "stream"} /\ state.result = "none"
     \/ state.pc = "done" /\ state.result \notin {"none", "ok"}
  /\ state.pc # "stream" => state.pending = 0

\* A step of a worker that keeps its segment, has written more of it or not, and
\* owes what the state has not been told.
LEMMA KeepsInv ==
  ASSUME Inv, NEW w \in Workers, NEW state, Keeps(w, state),
         worker[w].pc \in {"request", "await", "stream"},
         Becomes(w, state), UNCHANGED <<queue, signal, outcome>>,
         written' \in [Ids -> 0 .. Size], shared' \in [Ids -> 0 .. Size],
         \A id \in Ids \ {Current(w)} : written'[id] = written[id] /\ shared'[id] = shared[id],
         written'[Current(w)] >= written[Current(w)],
         written'[Current(w)] = shared'[Current(w)] + state.pending
  PROVE  Inv'
<1>1. /\ Typed /\ Sensible(w) /\ worker[w].result = "none"
      /\ Current(w) \in Ids
  BY DEF Inv, Typed, Sensible, States, Current, Ids
<1>2. /\ worker' \in [Workers -> States] /\ worker'[w] = state
      /\ \A v \in Workers \ {w} : worker'[v] = worker[v]
      /\ \A v \in Workers : Current(v)' = Current(v)
  BY <1>1 DEF Becomes, Typed, Keeps, Current
<1>3. Typed'
  BY <1>1, <1>2 DEF Typed
<1>4. ASSUME NEW v \in Workers PROVE Sensible(v)'
  <2>1. CASE v = w
    BY <1>1, <1>2, <2>1 DEF Sensible, Keeps, Current
  <2>2. CASE v # w
    BY <1>2, <2>2 DEF Inv, Sensible
  <2> QED
    BY <2>1, <2>2
<1>5. Owned' /\ QueuedOnce'
  BY <1>2 DEF Inv, Owned, QueuedOnce
<1>6. Remembered'
  <2> SUFFICES ASSUME NEW id \in Ids
               PROVE  \/ written'[id] >= Size
                      \/ \E i \in DOMAIN queue : queue[i] = id
                      \/ \E v \in Workers : Current(v) = id
    BY <1>2 DEF Remembered
  <2>1. CASE id = Current(w)
    BY <2>1
  <2>2. CASE id # Current(w)
    BY <2>2 DEF Inv, Remembered
  <2> QED
    BY <2>1, <2>2
<1>7. Told'
  <2>1. ASSUME NEW v \in Workers, Current(v)' # 0
        PROVE  written'[Current(v)'] = shared'[Current(v)'] + worker'[v].pending
    <3>1. CASE v = w
      BY <1>2, <3>1
    <3>2. CASE v # w
      <4>1. Current(v) # Current(w) /\ Current(v) \in Ids
        BY <1>1, <1>2, <2>1, <3>2 DEF Inv, Owned, Typed, States, Current, Ids
      <4> QED
        BY <1>2, <2>1, <3>2, <4>1 DEF Inv, Told
    <3> QED
      BY <3>1, <3>2
  <2>2. ASSUME NEW id \in Ids, \A v \in Workers : Current(v)' # id
        PROVE  written'[id] = shared'[id]
    BY <1>2, <2>2 DEF Inv, Told
  <2> QED
    BY <2>1, <2>2 DEF Told
<1>8. outcome # "ok"
  BY <1>1 DEF Inv
<1> QED
  BY <1>3, <1>4, <1>5, <1>6, <1>7, <1>8 DEF Inv

\* The same for a step that neither writes nor tells.
LEMMA QuietKeepsInv ==
  ASSUME Inv, NEW w \in Workers, NEW state, Keeps(w, state), state.pending = 0,
         worker[w].pc \in {"request", "await"}, Becomes(w, state), Unshared
  PROVE  Inv'
<1>1. Current(w) \in Ids /\ worker[w].pending = 0 /\ Typed /\ Told
  BY DEF Inv, Typed, Sensible, States, Current, Ids
<1>2. written[Current(w)] = shared[Current(w)] + state.pending
  BY <1>1 DEF Told, Typed, Ids
<1>3. /\ UNCHANGED <<queue, signal, outcome>> /\ written' = written /\ shared' = shared
      /\ written \in [Ids -> 0 .. Size] /\ shared \in [Ids -> 0 .. Size]
  BY <1>1 DEF Unshared, Typed
<1>4. written'[Current(w)] >= written[Current(w)]
  BY <1>1, <1>3
<1> QED
  BY <1>2, <1>3, <1>4, KeepsInv

\* The same for a step that tells the state of all that the worker has written.
LEMMA SyncKeepsInv ==
  ASSUME Inv, NEW w \in Workers, NEW state, Keeps(w, state), state.pending = 0,
         Streams(w), Becomes(w, state), Sync(w), UNCHANGED <<queue, written, signal, outcome>>
  PROVE  Inv'
<1>1. Current(w) \in Ids /\ Typed
  BY DEF Inv, Typed, Sensible, States, Current, Ids, Streams
<1>2. /\ written' = written /\ written \in [Ids -> 0 .. Size] /\ written[Current(w)] \in 0 .. Size
      /\ shared' \in [Ids -> 0 .. Size] /\ shared'[Current(w)] = written[Current(w)]
      /\ \A id \in Ids \ {Current(w)} : shared'[id] = shared[id]
  BY <1>1 DEF Typed, Sync
<1>3. /\ written'[Current(w)] >= written[Current(w)]
      /\ written'[Current(w)] = shared'[Current(w)] + state.pending
  BY <1>2
<1> QED
  BY <1>2, <1>3, KeepsInv DEF Streams

\* One more attempt, or the end of the worker.
LEMMA AgainKeeps ==
  ASSUME Inv, NEW w \in Workers, worker[w].pc \in {"request", "await", "stream"}
  PROVE  Keeps(w, Again(w)) /\ Again(w).pending = 0
<1>1. worker[w] \in States /\ Batch \in Nat \ {0} /\ worker[w].result = "none"
  BY EntropyAssumption DEF Inv, Typed, Sensible
<1>2. 0 \in 0 .. Batch - 1 /\ 0 \in Nat /\ worker[w].attempts + 1 \in Nat
  BY <1>1 DEF States
<1> QED
  BY <1>1, <1>2 DEF Again, Returned, Keeps, Current, States, Outcomes

LEMMA ReturnedKeeps ==
  ASSUME Inv, NEW w \in Workers, worker[w].pc \in {"request", "await", "stream"},
         NEW how \in {"error", "range"} \cup Stops
  PROVE  Keeps(w, Returned(w, how)) /\ Returned(w, how).pending = 0
<1>1. worker[w] \in States /\ Batch \in Nat \ {0} /\ how \notin {"none", "ok"}
  BY EntropyAssumption DEF Inv, Typed
<1>2. 0 \in 0 .. Batch - 1 /\ 0 \in Nat
  BY <1>1
<1> QED
  BY <1>1, <1>2 DEF Returned, Keeps, Current, States, Outcomes

-----------------------------------------------------------------------------
(* The steps of a worker *)

LEMMA RequestKeeps ==
  ASSUME Inv, NEW w \in Workers,
         Request(w) \/ RequestFails(w) \/ RangeRefused(w) \/ RangeAccepted(w)
  PROVE  Inv'
<1>1. /\ worker[w] \in States /\ signal \in {"none"} \cup Stops /\ Sensible(w)
      /\ Batch \in Nat \ {0}
  BY EntropyAssumption DEF Inv, Typed
<1>2. CASE Request(w)
  <2>1. CASE signal # "none"
    BY <1>1, <1>2, <2>1, ReturnedKeeps, QuietKeepsInv DEF Request
  <2>2. CASE signal = "none"
    <3> DEFINE state == [worker[w] EXCEPT !.pc = "await", !.age = 0]
    <3>1. Keeps(w, state) /\ state.pending = 0
      BY <1>1, <1>2 DEF Request, Sensible, Keeps, States, Current
    <3> QED
      BY <1>2, <2>2, <3>1, QuietKeepsInv DEF Request
  <2> QED
    BY <2>1, <2>2
<1>3. CASE RequestFails(w)
  BY <1>3, AgainKeeps, QuietKeepsInv DEF RequestFails
<1>4. CASE RangeRefused(w)
  BY <1>4, ReturnedKeeps, QuietKeepsInv DEF RangeRefused
<1>5. CASE RangeAccepted(w)
  <2> DEFINE state == [worker[w] EXCEPT !.pc = "stream"]
  <2>1. Keeps(w, state) /\ state.pending = 0
    BY <1>1, <1>5 DEF RangeAccepted, Sensible, Keeps, States, Current
  <2> QED
    BY <1>5, <2>1, QuietKeepsInv DEF RangeAccepted
<1> QED
  BY <1>2, <1>3, <1>4, <1>5

\* A chunk is written, and may fill a batch or show that the stream is slow.
LEMMA ChunkKeeps ==
  ASSUME Inv, NEW w \in Workers, Chunk(w)
  PROVE  Inv'
<1> DEFINE id    == Current(w)
           units == written[id] + 1
           full  == worker[w].pending + 1 >= Batch
<1>1. /\ worker[w] \in States /\ worker[w].pc = "stream" /\ id \in Ids
      /\ Batch \in Nat \ {0} /\ Size \in Nat \ {0} /\ MaxAge \in Nat
  BY Holds, EntropyAssumption DEF Chunk, Streams
<1>2. PICK age \in worker[w].age .. MaxAge :
        LET recycle == age > 0 /\ ShouldRecycle(age)
        IN  /\ written[id] < Size
            /\ written' = [written EXCEPT ![id] = units]
            /\ shared' = IF full \/ recycle THEN [shared EXCEPT ![id] = units] ELSE shared
            /\ Becomes(w, IF recycle THEN Again(w)
                          ELSE [worker[w] EXCEPT !.age = age,
                                  !.pending = IF full THEN 0 ELSE worker[w].pending + 1])
            /\ UNCHANGED <<queue, timings, signal, outcome>>
  BY DEF Chunk
<1>3. /\ written \in [Ids -> 0 .. Size] /\ shared \in [Ids -> 0 .. Size]
      /\ written[id] \in 0 .. Size /\ shared[id] \in 0 .. Size
      /\ written[id] = shared[id] + worker[w].pending
      /\ worker[w].pending \in 0 .. Batch - 1
      /\ age \in Nat
  <2>1. written \in [Ids -> 0 .. Size] /\ shared \in [Ids -> 0 .. Size]
    BY DEF Inv, Typed
  <2>2. worker[w].pending \in 0 .. Batch - 1 /\ worker[w].age \in Nat
    BY <1>1 DEF States
  <2>3. age \in Nat
    BY <1>1, <2>2
  <2> QED
    BY <1>1, <2>1, <2>2, <2>3, Holds
<1>4. /\ written' \in [Ids -> 0 .. Size] /\ written'[id] = units
      /\ units >= written[id] /\ units \in 0 .. Size
      /\ \A other \in Ids \ {id} : written'[other] = written[other]
  BY <1>1, <1>2, <1>3
<1> HIDE DEF units, id
<1>5. CASE age > 0 /\ ShouldRecycle(age)
  <2>1. shared' = [shared EXCEPT ![id] = units] /\ Becomes(w, Again(w))
    BY <1>2, <1>5
  <2>2. /\ shared' \in [Ids -> 0 .. Size] /\ shared'[id] = units
        /\ \A other \in Ids \ {id} : shared'[other] = shared[other]
    BY <1>1, <1>3, <1>4, <2>1
  <2>3. Keeps(w, Again(w)) /\ Again(w).pending = 0
    BY <1>1, AgainKeeps
  <2>4. written'[id] = shared'[id] + Again(w).pending
    BY <1>4, <2>2, <2>3
  <2> QED
    BY <1>1, <1>2, <1>4, <2>1, <2>2, <2>3, <2>4, KeepsInv DEF id
<1>6. CASE ~(age > 0 /\ ShouldRecycle(age))
  <2> DEFINE state == [worker[w] EXCEPT !.age = age,
                         !.pending = IF full THEN 0 ELSE worker[w].pending + 1]
  <2>1. /\ shared' = IF full THEN [shared EXCEPT ![id] = units] ELSE shared
        /\ Becomes(w, state)
    BY <1>2, <1>6
  <2>2. /\ shared' \in [Ids -> 0 .. Size]
        /\ shared'[id] = IF full THEN units ELSE shared[id]
        /\ \A other \in Ids \ {id} : shared'[other] = shared[other]
    BY <1>1, <1>3, <1>4, <2>1
  <2>3. state.pending = IF full THEN 0 ELSE worker[w].pending + 1
    BY <1>1 DEF States
  <2>4. state.pending \in 0 .. Batch - 1
    BY <1>1, <1>3, <2>3
  <2>5. worker[w].result = "none"
    BY <1>1, Holds
  <2>6. Keeps(w, state)
    BY <1>1, <1>3, <2>4, <2>5 DEF Keeps, States, Current
  <2>7. written'[id] = shared'[id] + state.pending
    BY <1>3, <1>4, <2>2, <2>3 DEF units
  <2> HIDE DEF state
  <2> QED
    BY <1>1, <1>2, <1>4, <2>1, <2>2, <2>6, <2>7, KeepsInv DEF id
<1> QED
  BY <1>5, <1>6

\* A stream that stops or breaks tells the state of the rest.
LEMMA StreamEndKeeps ==
  ASSUME Inv, NEW w \in Workers,
         StopStream(w) \/ BreakStream(w) \/ (EndStream(w) /\ written[Current(w)] < Size)
  PROVE  Inv'
<1>1. Streams(w) /\ Sync(w) /\ UNCHANGED <<queue, written, signal, outcome>>
  BY DEF StopStream, BreakStream, EndStream
<1>2. CASE Becomes(w, Again(w))
  BY <1>1, <1>2, AgainKeeps, SyncKeepsInv DEF Streams
<1>3. CASE StopStream(w)
  <2>1. signal \in Stops /\ Becomes(w, Returned(w, signal))
    BY <1>3 DEF StopStream, Inv, Typed
  <2> QED
    BY <1>1, <2>1, ReturnedKeeps, SyncKeepsInv DEF Streams
<1> QED
  BY <1>2, <1>3 DEF BreakStream, EndStream

-----------------------------------------------------------------------------
(* From one segment to the next *)

\* The last unit has been written and told: the segment is complete.
LEMMA CompletedKeeps ==
  ASSUME Inv, NEW w \in Workers, EndStream(w), written[Current(w)] >= Size
  PROVE  Inv'
<1> DEFINE id == Current(w)
<1>1. /\ Typed /\ worker[w].pc = "stream" /\ worker[w].result = "none" /\ id \in Ids
      /\ id # 0 /\ Batch \in Nat \ {0} /\ Size \in Nat \ {0} /\ Segments \in Nat
  BY Holds, EntropyAssumption DEF Inv, EndStream, Streams
<1>2. /\ UNCHANGED <<queue, written, signal, outcome>>
      /\ worker' = [worker EXCEPT ![w] = Idle]
      /\ shared' = [shared EXCEPT ![id] = written[id]]
  BY EntropyAssumption, <1>1 DEF EndStream, Becomes, Sync, Ids, Typed
<1>3. /\ written \in [Ids -> 0 .. Size] /\ written[id] \in 0 .. Size /\ shared \in [Ids -> 0 .. Size]
      /\ worker \in [Workers -> States]
  BY <1>1 DEF Typed
<1>4. Idle \in States /\ Idle.segment = 0 /\ Idle.pc = "take" /\ Idle.result = "none" /\ Idle.pending = 0
  BY <1>1 DEF Idle, States, Outcomes
<1>5. /\ worker' \in [Workers -> States] /\ worker'[w] = Idle
      /\ \A v \in Workers \ {w} : worker'[v] = worker[v]
      /\ shared' \in [Ids -> 0 .. Size] /\ shared'[id] = written[id]
      /\ \A other \in Ids \ {id} : shared'[other] = shared[other]
  BY <1>1, <1>2, <1>3, <1>4
<1>6. Typed'
  BY <1>1, <1>2, <1>5 DEF Typed
<1>7. ASSUME NEW v \in Workers PROVE Sensible(v)'
  BY <1>2, <1>4, <1>5 DEF Inv, Sensible
<1>8. Owned' /\ QueuedOnce'
  BY <1>2, <1>4, <1>5 DEF Inv, Owned, QueuedOnce, Current
<1>9. ASSUME NEW other \in Ids
      PROVE  \/ written[other] >= Size
             \/ \E i \in DOMAIN queue : queue[i] = other
             \/ \E v \in Workers \ {w} : Current(v) = other
  BY DEF Inv, Remembered
<1>10. Remembered'
  BY <1>2, <1>5, <1>9 DEF Remembered, Current
<1>11. ASSUME NEW v \in Workers, Current(v)' # 0
       PROVE  written[Current(v)'] = shared'[Current(v)'] + worker'[v].pending
  <2>1. v # w /\ Current(v)' = Current(v) /\ worker'[v].pending = worker[v].pending
    BY <1>4, <1>5, <1>11 DEF Current
  <2>2. Current(v) \in Ids \ {id}
    BY <1>1, <1>3, <1>11, <2>1 DEF Inv, Owned, States, Current, Ids
  <2> QED
    BY <1>5, <1>11, <2>1, <2>2 DEF Inv, Told
<1>12. ASSUME NEW other \in Ids, \A v \in Workers : Current(v)' # other
       PROVE  written[other] = shared'[other]
  <2>1. CASE other = id
    BY <1>5, <2>1
  <2>2. CASE other # id
    <3>1. \A v \in Workers : Current(v) # other
      BY <1>5, <1>12, <2>2 DEF Current
    <3> QED
      BY <1>5, <2>2, <3>1 DEF Inv, Told
  <2> QED
    BY <2>1, <2>2
<1>13. Told'
  BY <1>2, <1>11, <1>12 DEF Told
<1>14. outcome # "ok"
  BY <1>1 DEF Inv
<1> QED
  BY <1>2, <1>6, <1>7, <1>8, <1>10, <1>13, <1>14 DEF Inv

LEMMA WaitedKeeps ==
  ASSUME Inv, Waited
  PROVE  Inv'
<1>1. UNCHANGED <<queue, written, shared, worker, timings, signal>>
  BY DEF Waited
<1>2. Typed' /\ (\A w \in Workers : Sensible(w)') /\ Owned' /\ QueuedOnce' /\ Remembered' /\ Told'
  BY <1>1 DEF Inv, Typed, Sensible, Owned, QueuedOnce, Remembered, Told, Current
<1>3. ASSUME outcome' = "ok", NEW v \in Workers PROVE worker'[v].result = "ok"
  <2>1. PICK w \in Workers :
          /\ \A u \in 1 .. w - 1 : worker[u].result = "ok"
          /\ w = Connections \/ worker[w].result # "ok"
          /\ outcome' = worker[w].result
    BY DEF Waited
  <2>2. w = Connections /\ worker[w].result = "ok"
    BY <1>3, <2>1
  <2>3. v = w \/ v \in 1 .. w - 1
    BY <2>2, EntropyAssumption DEF Workers
  <2> QED
    BY <1>1, <2>1, <2>2, <2>3
<1> QED
  BY <1>2, <1>3 DEF Inv

\* The segment of Head(queue) leaves the queue, for its worker or for good.
LEMMA TakeKeeps ==
  ASSUME Inv, NEW w \in Workers, Take(w)
  PROVE  Inv'
<1> DEFINE id    == Head(queue)
           state == IF written[id] >= Size THEN Idle
                    ELSE [Idle EXCEPT !.pc = "request", !.segment = id]
<1>1. /\ worker[w] \in States /\ worker[w].pc = "take" /\ worker[w].result = "none"
      /\ Current(w) = 0 /\ Sensible(w)
      /\ Batch \in Nat \ {0} /\ Size \in Nat \ {0} /\ Segments \in Nat
      /\ queue \in Seq(Ids) /\ queue # <<>>
  BY EntropyAssumption DEF Inv, Typed, Sensible, Current, Take
<1>2. /\ UNCHANGED <<written, shared, signal, outcome>>
      /\ queue' = Tail(queue) /\ worker' = [worker EXCEPT ![w] = state]
  BY DEF Take, Becomes
<1>3. /\ id \in Ids /\ id = queue[1] /\ 1 \in DOMAIN queue
      /\ queue' \in Seq(Ids)
      /\ \A i \in DOMAIN queue' : i + 1 \in DOMAIN queue /\ i + 1 # 1 /\ queue'[i] = queue[i + 1]
      /\ \A i \in DOMAIN queue \ {1} : i - 1 \in DOMAIN queue' /\ queue'[i - 1] = queue[i]
      /\ \A i \in DOMAIN queue : i \in Int
  BY <1>1, <1>2
<1>4. id # 0
  BY <1>3 DEF Ids
<1>5. /\ Idle \in States /\ state \in States
      /\ state.segment = IF written[id] >= Size THEN 0 ELSE id
      /\ state.pc \in {"take", "request"} /\ state.result = "none" /\ state.pending = 0
      /\ state.pc = "take" <=> written[id] >= Size
  <2>1. 0 \in 0 .. Segments /\ 0 \in 0 .. Batch - 1 /\ 0 \in Nat /\ id \in 0 .. Segments
    BY <1>1, <1>3 DEF Ids
  <2>2. Idle \in States /\ Idle.segment = 0 /\ Idle.pc = "take"
    BY <2>1 DEF Idle, States, Outcomes
  <2> HIDE DEF id
  <2>3. CASE written[id] >= Size
    BY <2>2, <2>3 DEF Idle
  <2>4. CASE ~(written[id] >= Size)
    BY <2>1, <2>4 DEF Idle, States, Outcomes
  <2> QED
    BY <2>3, <2>4, <2>2
<1> HIDE DEF id, state
<1>6. /\ worker' \in [Workers -> States] /\ worker'[w] = state
      /\ \A v \in Workers \ {w} : worker'[v] = worker[v]
  BY <1>2, <1>5 DEF Inv, Typed
<1>7. \A i \in DOMAIN queue' : queue'[i] # id
  BY <1>3 DEF Inv, QueuedOnce
<1>8. \A v \in Workers : Current(v) # id
  BY <1>3, <1>4 DEF Inv, Owned
<1>9. Typed'
  BY <1>2, <1>3, <1>6 DEF Inv, Typed
<1>10. ASSUME NEW v \in Workers PROVE Sensible(v)'
  <2>1. CASE v = w
    BY <1>4, <1>5, <1>6, <2>1 DEF Sensible
  <2>2. CASE v # w
    <3>1. worker[v].result # "ok"
      BY <1>1 DEF Inv, Sensible
    <3> QED
      BY <1>6, <2>2, <3>1 DEF Inv, Sensible
  <2> QED
    BY <2>1, <2>2
<1>11. QueuedOnce'
  <2> SUFFICES ASSUME NEW i \in DOMAIN queue', NEW j \in DOMAIN queue', queue'[i] = queue'[j]
               PROVE  i = j
    BY DEF QueuedOnce
  <2>1. i + 1 = j + 1
    BY <1>3 DEF Inv, QueuedOnce
  <2>2. i \in Int /\ j \in Int
    BY <1>3
  <2> QED
    BY <2>1, <2>2
<1>12. Owned'
  <2> SUFFICES ASSUME NEW v \in Workers, Current(v)' # 0
               PROVE  /\ \A u \in Workers : Current(u)' = Current(v)' => u = v
                      /\ \A i \in DOMAIN queue' : queue'[i] # Current(v)'
    BY DEF Owned
  <2>1. CASE v = w
    <3>1. Current(v)' = id
      BY <1>5, <1>6, <2>1 DEF Current
    <3> QED
      BY <1>6, <1>7, <1>8, <2>1, <3>1 DEF Current
  <2>2. CASE v # w
    <3>1. Current(v)' = Current(v) /\ Current(v) # id
      BY <1>6, <1>8, <2>2 DEF Current
    <3>2. Current(w)' # Current(v)
      BY <1>5, <1>6, <2>2, <3>1 DEF Current
    <3> QED
      BY <1>3, <1>6, <2>2, <3>1, <3>2 DEF Inv, Owned, Current
  <2> QED
    BY <2>1, <2>2
<1>13. ASSUME NEW other \in Ids
       PROVE  \/ written[other] >= Size
              \/ \E i \in DOMAIN queue' : queue'[i] = other
              \/ \E v \in Workers : Current(v)' = other
  <2>1. CASE other = id
    BY <1>5, <1>6, <2>1 DEF Current
  <2>2. ASSUME NEW i \in DOMAIN queue, queue[i] = other, other # id
        PROVE  \E j \in DOMAIN queue' : queue'[j] = other
    BY <1>3, <2>2
  <2>3. ASSUME NEW v \in Workers, Current(v) = other PROVE Current(v)' = other
    <3>1. v # w
      BY <1>1, <2>3 DEF Ids
    <3> QED
      BY <1>6, <2>3, <3>1 DEF Current
  <2> QED
    BY <2>1, <2>2, <2>3 DEF Inv, Remembered
<1>14. Remembered'
  BY <1>2, <1>13 DEF Remembered
<1>15. written[id] = shared[id] /\ written[id] \in Nat
  BY <1>2, <1>3, <1>8 DEF Inv, Told, Typed
<1>16. Told'
  <2>1. ASSUME NEW v \in Workers, Current(v)' # 0
        PROVE  written[Current(v)'] = shared[Current(v)'] + worker'[v].pending
    <3>1. CASE v = w
      BY <1>5, <1>6, <1>15, <2>1, <3>1 DEF Current
    <3>2. CASE v # w
      BY <1>6, <2>1, <3>2 DEF Inv, Told, Current
    <3> QED
      BY <3>1, <3>2
  <2>2. ASSUME NEW other \in Ids, \A v \in Workers : Current(v)' # other
        PROVE  written[other] = shared[other]
    <3>1. CASE other = id
      BY <1>15, <3>1
    <3>2. CASE other # id
      <4>1. \A v \in Workers : Current(v) # other
        BY <1>1, <1>6, <2>2, <3>2 DEF Current, Ids
      <4> QED
        BY <4>1 DEF Inv, Told
    <3> QED
      BY <3>1, <3>2
  <2> QED
    BY <1>2, <2>1, <2>2 DEF Told
<1>17. outcome # "ok"
  BY <1>1 DEF Inv
<1> QED
  BY <1>2, <1>9, <1>10, <1>11, <1>12, <1>14, <1>16, <1>17 DEF Inv

\* A worker that finds the queue empty has no segment.
LEMMA NothingLeftKeeps ==
  ASSUME Inv, NEW w \in Workers, NothingLeft(w)
  PROVE  Inv'
<1> DEFINE state == Returned(w, "ok")
<1>1. /\ worker[w] \in States /\ worker[w].pc = "take" /\ worker[w].result = "none"
      /\ Current(w) = 0 /\ queue = <<>> /\ Batch \in Nat \ {0} /\ worker[w].pending = 0
  BY EntropyAssumption DEF Inv, Typed, Sensible, Current, NothingLeft
<1>2. /\ UNCHANGED <<queue, written, shared, signal, outcome>>
      /\ worker' = [worker EXCEPT ![w] = state]
  BY DEF NothingLeft, Becomes
<1>3. /\ state \in States /\ state.segment = 0 /\ state.pending = 0
      /\ state.pc = "done" /\ state.result = "ok"
  BY <1>1 DEF Returned, States, Outcomes, Current
<1> HIDE DEF state
<1>4. /\ worker' \in [Workers -> States] /\ worker'[w] = state
      /\ \A v \in Workers \ {w} : worker'[v] = worker[v]
      /\ \A v \in Workers : Current(v)' = Current(v) /\ worker'[v].pending = worker[v].pending
  BY <1>1, <1>2, <1>3 DEF Inv, Typed, Current
<1>5. Typed'
  BY <1>2, <1>4 DEF Inv, Typed
<1>6. ASSUME NEW v \in Workers PROVE Sensible(v)'
  <2>1. CASE v = w
    BY <1>1, <1>2, <1>3, <1>4, <2>1 DEF Sensible
  <2>2. CASE v # w
    BY <1>2, <1>4, <2>2 DEF Inv, Sensible
  <2> QED
    BY <2>1, <2>2
<1>7. Owned' /\ QueuedOnce' /\ Remembered' /\ Told'
  BY <1>2, <1>4 DEF Inv, Owned, QueuedOnce, Remembered, Told
<1>8. outcome # "ok"
  BY <1>1 DEF Inv
<1> QED
  BY <1>2, <1>5, <1>6, <1>7, <1>8 DEF Inv

-----------------------------------------------------------------------------
(* Theorems *)

LEMMA InvInit == Init => Inv
<1> SUFFICES ASSUME Init PROVE Inv
  OBVIOUS
<1>1. /\ Batch \in Nat \ {0} /\ Segments \in Nat /\ Size \in Nat
      /\ \A w \in Workers : worker[w] = Idle
      /\ queue = [i \in 1 .. Segments |-> i] /\ written = shared /\ shared \in [Ids -> 0 .. Size]
  BY EntropyAssumption DEF Init, Ids
<1>2. Idle \in States
  BY <1>1 DEF Idle, States, Outcomes
<1>3. queue \in Seq(Ids) /\ DOMAIN queue = Ids /\ \A i \in Ids : queue[i] = i
  BY <1>1 DEF Ids
<1>4. Typed
  BY <1>1, <1>2, <1>3 DEF Init, Typed
<1>5. \A w \in Workers : Sensible(w) /\ Current(w) = 0
  BY <1>1 DEF Sensible, Idle, Current
<1>6. Owned /\ QueuedOnce /\ Remembered /\ Told
  BY <1>1, <1>3, <1>5 DEF Owned, QueuedOnce, Remembered, Told
<1> QED
  BY <1>4, <1>5, <1>6 DEF Init, Inv

LEMMA InvAlways == Spec => []Inv
<1>1. Inv /\ [Next]_vars => Inv'
  <2> SUFFICES ASSUME Inv, [Next]_vars PROVE Inv'
    OBVIOUS
  <2>1. ASSUME NEW w \in Workers, WorkerStep(w) PROVE Inv'
    <3>1. CASE EndStream(w)
      <4>1. written[Current(w)] \in Nat /\ Size \in Nat
        BY <3>1, Holds, EntropyAssumption DEF EndStream, Streams
      <4> QED
        BY <3>1, <4>1, StreamEndKeeps, CompletedKeeps
    <3> QED
      BY <2>1, <3>1, TakeKeeps, NothingLeftKeeps, RequestKeeps, ChunkKeeps, StreamEndKeeps
      DEF WorkerStep
  <2>2. CASE Ask
    BY <2>2 DEF Ask, Inv, Typed, Sensible, Owned, QueuedOnce, Remembered, Told, Current
  <2>3. CASE UNCHANGED vars
    BY <2>3 DEF vars, Inv, Typed, Sensible, Owned, QueuedOnce, Remembered, Told, Current
  <2> QED
    BY <2>1, <2>2, <2>3, WaitedKeeps DEF Next
<1> QED
  BY <1>1, InvInit, PTL DEF Spec

\* No two workers write the same bytes, and no segment is forgotten.
THEOREM SegmentsAreInOnePlace == Spec => []InOnePlace
<1>1. Inv => InOnePlace
  <2> SUFFICES ASSUME Inv, NEW id \in Ids
               PROVE  LET places == Cardinality(HeldBy(id)) + (IF Contains(queue, id) THEN 1 ELSE 0)
                      IN  places <= 1 /\ (places = 0 => written[id] >= Size)
    BY DEF InOnePlace
  <2>1. id # 0
    BY DEF Ids
  <2>2. Contains(queue, id) <=> \E i \in DOMAIN queue : queue[i] = id
    BY DEF Contains, Inv, Typed
  <2>3. CASE HeldBy(id) = {}
    <3>1. Cardinality(HeldBy(id)) = 0
      BY <2>3, FS_EmptySet
    <3>2. ~Contains(queue, id) => written[id] >= Size
      BY <2>2, <2>3 DEF Inv, Remembered, HeldBy
    <3> QED
      BY <3>1, <3>2
  <2>4. CASE HeldBy(id) # {}
    <3>1. PICK w \in Workers : Current(w) = id
      BY <2>4 DEF HeldBy
    <3>2. HeldBy(id) = {w} /\ ~Contains(queue, id)
      BY <2>1, <2>2, <3>1 DEF Inv, Owned, HeldBy
    <3>3. Cardinality(HeldBy(id)) = 1
      BY <3>2, FS_Singleton
    <3> QED
      BY <3>2, <3>3
  <2> QED
    BY <2>3, <2>4
<1> QED
  BY <1>1, InvAlways, PTL

\* A pause or a crash costs each worker less than a batch.
THEOREM StateIsKeptUp == Spec => []StateKeepsUp
<1>1. Inv => StateKeepsUp
  <2> SUFFICES ASSUME Inv, NEW id \in Ids
               PROVE  /\ written[id] - shared[id] \in
                           {worker[w].pending : w \in {v \in HeldBy(id) : Streams(v)}} \cup {0}
                      /\ written[id] - shared[id] < Batch
    BY DEF StateKeepsUp
  <2>1. written[id] \in Nat /\ shared[id] \in Nat /\ Batch \in Nat \ {0} /\ id # 0
    BY EntropyAssumption DEF Inv, Typed, Ids
  <2>2. CASE \A w \in Workers : Current(w) # id
    BY <2>1, <2>2 DEF Inv, Told
  <2>3. ASSUME NEW w \in Workers, Current(w) = id
        PROVE  /\ written[id] - shared[id] = worker[w].pending
               /\ worker[w].pending < Batch
               /\ Streams(w) \/ worker[w].pending = 0
    <3>1. worker[w].pending \in 0 .. Batch - 1 /\ Sensible(w)
      BY DEF Inv, Typed, States
    <3>2. written[id] = shared[id] + worker[w].pending
      BY <2>1, <2>3 DEF Inv, Told
    <3> QED
      BY <2>1, <3>1, <3>2 DEF Sensible, Streams
  <2> QED
    BY <2>2, <2>3 DEF HeldBy
<1> QED
  BY <1>1, InvAlways, PTL

\* A transfer that succeeds has every segment.
THEOREM SuccessIsComplete == Spec => []AllComplete
<1>1. Inv => AllComplete
  <2> SUFFICES ASSUME Inv, outcome = "ok", NEW id \in Ids PROVE shared[id] >= Size
    BY DEF AllComplete
  <2>1. \A w \in Workers : Current(w) = 0 /\ queue = <<>>
    BY DEF Inv, Sensible, Current
  <2>2. 1 \in Workers /\ id # 0
    BY EntropyAssumption DEF Workers, Ids
  <2>3. DOMAIN queue = {}
    BY <2>1, <2>2
  <2>4. written[id] >= Size /\ written[id] = shared[id]
    BY <2>1, <2>2, <2>3 DEF Inv, Remembered, Told
  <2> QED
    BY <2>4
<1> QED
  BY <1>1, InvAlways, PTL
=============================================================================
