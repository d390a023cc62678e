---------------------------- MODULE SegmentProofs ----------------------------
(***************************************************************************)
(* Theorems about modules Segments and SegmentLoop, for a file of any size *)
(* and any number of connections or size of chunks, zero included: the     *)
(* closed forms cut the file without gap or overlap, and the loops compute *)
(* them.                                                                   *)
(*                                                                         *)
(* A loop has pushed as much of its closed form as its id says, and starts *)
(* its next segment where that of the closed form starts.                  *)
(***************************************************************************)
EXTENDS SegmentLoop, TLAPS

\* Where segment n starts, or would start: the end of the file is the start of
\* the one after the last.
EvenStart(size, connections, n) ==
  IF n = SegmentCount(size, connections) THEN size ELSE n * BaseSize(size, connections)

ChunkStart(size, chunk, n) ==
  IF n * ChunkSize(chunk) < size THEN n * ChunkSize(chunk) ELSE size

EvenPrefix(size, connections, n)  == [i \in 0 .. n - 1 |-> EvenSegment(size, connections, i)]
ChunkPrefix(size, chunk, n)       == [i \in 0 .. n - 1 |-> ChunkSegment(size, chunk, i)]

\* Chunk n is one of the file, or the first that is not.
ChunkReached(size, chunk, n) == n > 0 => (n - 1) * ChunkSize(chunk) < size

Inv ==
  /\ builder \in {"even", "chunk"}
  /\ total \in Totals /\ param \in Parameters
  /\ id \in Nat
  /\ builder = "even" =>
       /\ id <= SegmentCount(total, param)
       /\ start = EvenStart(total, param, id)
       /\ segs = EvenPrefix(total, param, id)
  /\ builder = "chunk" =>
       /\ ChunkReached(total, param, id)
       /\ start = ChunkStart(total, param, id)
       /\ segs = ChunkPrefix(total, param, id)

-----------------------------------------------------------------------------
(* Arithmetic *)

LEMMA Division ==
  ASSUME NEW n \in Nat, NEW c \in Nat \ {0}
  PROVE  /\ n \div c \in Nat
         /\ c * (n \div c) <= n /\ n < c * (n \div c) + c
OBVIOUS

LEMMA Quotient ==
  ASSUME NEW n \in Nat, NEW c \in Nat \ {0}, NEW k \in Nat, k * c <= n, n < k * c + c
  PROVE  n \div c = k
BY Division

LEMMA Products ==
  ASSUME NEW i \in Nat, NEW k \in Nat, NEW c \in Nat
  PROVE  /\ i * c \in Nat /\ (i + 1) * c = i * c + c
         /\ i <= k => i * c <= k * c
OBVIOUS

\* There are no more segments than bytes, so none is empty.
LEMMA EvenSizes ==
  ASSUME NEW size \in Nat, NEW connections \in Nat
  PROVE  /\ SegmentCount(size, connections) \in 0 .. size
         /\ size # 0 => /\ SegmentCount(size, connections) >= 1
                        /\ BaseSize(size, connections) \in Nat \ {0}
                        /\ SegmentCount(size, connections) * BaseSize(size, connections) <= size
<1>1. /\ SegmentCount(size, connections) \in 0 .. size
      /\ size # 0 => SegmentCount(size, connections) \in Nat \ {0}
  BY DEF SegmentCount
<1>2. ASSUME size # 0
      PROVE  /\ BaseSize(size, connections) \in Nat \ {0}
             /\ SegmentCount(size, connections) * BaseSize(size, connections) <= size
  <2> DEFINE count == SegmentCount(size, connections)
  <2>1. count \in Nat \ {0} /\ count <= size
    BY <1>1, <1>2
  <2> HIDE DEF count
  <2>2. size \div count \in Nat /\ count * (size \div count) <= size /\ size < count * (size \div count) + count
    BY <2>1, Division
  <2>3. size \div count # 0
    BY <2>1, <2>2
  <2> QED
    BY <2>2, <2>3 DEF BaseSize, count
<1> QED
  BY <1>1, <1>2

-----------------------------------------------------------------------------
(* The closed forms *)

LEMMA EvenTiles ==
  ASSUME NEW size \in Nat, NEW connections \in Nat,
         NEW n \in 0 .. SegmentCount(size, connections)
  PROVE  Tiles(EvenPrefix(size, connections, n), n, EvenStart(size, connections, n))
<1> DEFINE count == SegmentCount(size, connections)
           base  == BaseSize(size, connections)
<1>1. /\ count \in 0 .. size /\ n \in 0 .. count
      /\ size # 0 => count >= 1 /\ base \in Nat \ {0} /\ count * base <= size
  BY EvenSizes
<1>2. CASE n = 0
  <2>1. EvenStart(size, connections, n) = IF 0 = count THEN size ELSE 0 * base
    BY <1>2 DEF EvenStart
  <2> HIDE DEF count, base
  <2>2. EvenStart(size, connections, n) = 0
    BY <1>1, <2>1
  <2> QED
    BY <1>2, <2>2 DEF Tiles
<1>3. CASE n # 0
  <2>1. /\ size \in Nat \ {0} /\ base \in Nat \ {0} /\ count * base <= size
        /\ n \in 1 .. count /\ count \in Nat
    <3> HIDE DEF count, base
    <3> QED
      BY <1>1, <1>3
  <2>2. ASSUME NEW i \in 0 .. n - 1
        PROVE  /\ EvenPrefix(size, connections, n)[i].start = i * base
               /\ EvenPrefix(size, connections, n)[i].end =
                    IF i = count - 1 THEN size - 1 ELSE i * base + base - 1
               /\ i * base \in Nat /\ (i + 1) * base = i * base + base
               /\ i * base + base <= size
    <3>1. /\ EvenPrefix(size, connections, n)[i].start = i * base
          /\ EvenPrefix(size, connections, n)[i].end =
               IF i = count - 1 THEN size - 1 ELSE i * base + base - 1
      BY DEF EvenPrefix, EvenSegment, Segment
    <3>2. i + 1 \in Nat /\ i + 1 <= count /\ i \in Nat
      BY <2>1
    <3> HIDE DEF count, base
    <3>3. (i + 1) * base <= count * base /\ i * base \in Nat /\ (i + 1) * base = i * base + base
      BY <2>1, <3>2, Products
    <3>4. count * base \in Nat
      BY <2>1, Products
    <3> QED
      BY <2>1, <3>1, <3>3, <3>4
  <2>3. EvenStart(size, connections, n) = IF n = count THEN size ELSE n * base
    BY DEF EvenStart
  <2> HIDE DEF count, base
  <2>4. \A i \in 0 .. n - 1 :
          EvenPrefix(size, connections, n)[i].start <= EvenPrefix(size, connections, n)[i].end
    BY <2>1, <2>2
  <2>5. ASSUME NEW i \in 0 .. n - 2
        PROVE  EvenPrefix(size, connections, n)[i + 1].start = EvenPrefix(size, connections, n)[i].end + 1
    <3>1. i \in 0 .. n - 1 /\ i + 1 \in 0 .. n - 1 /\ i # count - 1
      BY <2>1
    <3> QED
      BY <2>1, <2>2, <3>1
  <2>6. EvenPrefix(size, connections, n)[0].start = 0
    BY <2>1, <2>2
  <2>7. EvenPrefix(size, connections, n)[n - 1].end = EvenStart(size, connections, n) - 1
    <3>1. n - 1 \in 0 .. n - 1 /\ (n - 1) + 1 = n
      BY <2>1
    <3> QED
      BY <2>1, <2>2, <2>3, <3>1
  <2> QED
    BY <1>3, <2>4, <2>5, <2>6, <2>7 DEF Tiles
<1> QED
  BY <1>2, <1>3

LEMMA ChunkTiles ==
  ASSUME NEW size \in Nat, NEW chunk \in Nat, NEW n \in Nat, ChunkReached(size, chunk, n)
  PROVE  Tiles(ChunkPrefix(size, chunk, n), n, ChunkStart(size, chunk, n))
<1> DEFINE step == ChunkSize(chunk)
<1>1. step \in Nat \ {0}
  BY DEF ChunkSize
<1>2. ChunkStart(size, chunk, n) = IF n * step < size THEN n * step ELSE size
  BY DEF ChunkStart
<1>3. n > 0 => (n - 1) * step < size
  BY DEF ChunkReached
<1>4. ASSUME NEW i \in 0 .. n - 1
      PROVE  /\ ChunkPrefix(size, chunk, n)[i].start = i * step
             /\ ChunkPrefix(size, chunk, n)[i].end =
                  IF i * step + step - 1 >= size THEN size - 1 ELSE i * step + step - 1
  BY DEF ChunkPrefix, ChunkSegment, Segment
<1> HIDE DEF step
<1>5. ASSUME NEW i \in 0 .. n - 1
      PROVE  i * step < size /\ i * step \in Nat /\ (i + 1) * step = i * step + step
  <2>1. i \in Nat /\ n - 1 \in Nat /\ i <= n - 1
    OBVIOUS
  <2>2. i * step <= (n - 1) * step /\ i * step \in Nat /\ (n - 1) * step \in Nat
    BY <1>1, <2>1, Products
  <2>3. (i + 1) * step = i * step + step
    BY <1>1, <2>1, Products
  <2> QED
    BY <1>3, <2>1, <2>2, <2>3
<1>6. \A i \in 0 .. n - 1 :
        ChunkPrefix(size, chunk, n)[i].start <= ChunkPrefix(size, chunk, n)[i].end
  BY <1>1, <1>4, <1>5
<1>7. ASSUME NEW i \in 0 .. n - 2
      PROVE  ChunkPrefix(size, chunk, n)[i + 1].start = ChunkPrefix(size, chunk, n)[i].end + 1
  <2>1. i \in 0 .. n - 1 /\ i + 1 \in 0 .. n - 1
    OBVIOUS
  <2>2. i * step + step < size /\ (i + 1) * step = i * step + step /\ i * step \in Nat
    BY <1>5, <2>1
  <2> QED
    BY <1>1, <1>4, <2>1, <2>2
<1>8. n > 0 => /\ ChunkPrefix(size, chunk, n)[0].start = 0
               /\ ChunkPrefix(size, chunk, n)[n - 1].end = ChunkStart(size, chunk, n) - 1
  <2> SUFFICES ASSUME n > 0
               PROVE  /\ ChunkPrefix(size, chunk, n)[0].start = 0
                      /\ ChunkPrefix(size, chunk, n)[n - 1].end = ChunkStart(size, chunk, n) - 1
    OBVIOUS
  <2>1. 0 \in 0 .. n - 1 /\ n - 1 \in 0 .. n - 1 /\ (n - 1) + 1 = n
    OBVIOUS
  <2>2. n * step = (n - 1) * step + step /\ (n - 1) * step \in Nat
    BY <1>5, <2>1
  <2>3. ChunkPrefix(size, chunk, n)[0].start = 0
    BY <1>1, <1>4, <2>1
  <2> QED
    BY <1>1, <1>2, <1>4, <2>1, <2>2, <2>3
<1>9. n = 0 => ChunkStart(size, chunk, n) = 0
  BY <1>1, <1>2
<1> QED
  BY <1>6, <1>7, <1>8, <1>9 DEF Tiles

\* The number of chunks is that of the starts before the end of the file.
LEMMA LastChunk ==
  ASSUME NEW size \in Nat, NEW chunk \in Nat, NEW n \in Nat,
         ChunkReached(size, chunk, n), ChunkStart(size, chunk, n) = size
  PROVE  ChunkCount(size, chunk) = n
<1> DEFINE step == ChunkSize(chunk)
<1>1. step \in Nat \ {0}
  BY DEF ChunkSize
<1>2. size <= n * step /\ n * step \in Nat
  BY <1>1, Products DEF ChunkStart, ChunkSize
<1>3. n * step <= size + step - 1
  <2>1. CASE n = 0
    BY <1>1, <2>1
  <2>2. CASE n # 0
    <3>1. (n - 1) * step < size
      BY <2>2 DEF ChunkReached
    <3> HIDE DEF step
    <3>2. n - 1 \in Nat /\ (n - 1) + 1 = n
      BY <2>2
    <3>3. ((n - 1) + 1) * step = (n - 1) * step + step /\ (n - 1) * step \in Nat
      BY <1>1, <3>2, Products
    <3> QED
      BY <1>1, <3>1, <3>2, <3>3
  <2> QED
    BY <2>1, <2>2
<1>4. (size + step - 1) \div step = n
  <2> HIDE DEF step
  <2>1. size + step - 1 \in Nat /\ size + step - 1 < n * step + step
    BY <1>1, <1>2
  <2> QED
    BY <1>1, <1>3, <2>1, Quotient
<1> QED
  BY <1>4 DEF ChunkCount

\* The closed form cuts a file of any size for any number of connections.
LEMMA SegmentsTile ==
  ASSUME NEW size \in Nat, NEW connections \in Nat
  PROVE  Tiles(BuildSegments(size, connections), SegmentCount(size, connections), size)
<1>1. /\ BuildSegments(size, connections) =
           EvenPrefix(size, connections, SegmentCount(size, connections))
      /\ EvenStart(size, connections, SegmentCount(size, connections)) = size
  BY DEF BuildSegments, EvenPrefix, EvenStart
<1>2. SegmentCount(size, connections) \in 0 .. SegmentCount(size, connections)
  BY EvenSizes
<1> QED
  BY <1>1, <1>2, EvenTiles

-----------------------------------------------------------------------------
(* The loops *)

LEMMA InitInv == LoopInit => Inv
<1> SUFFICES ASSUME LoopInit
             PROVE  Inv
  OBVIOUS
<1>1. total \in Nat /\ param \in Nat /\ start = 0 /\ id = 0
  BY InputsAssumption DEF LoopInit
<1>2. ASSUME builder = "even"
      PROVE  /\ id <= SegmentCount(total, param)
             /\ start = EvenStart(total, param, id)
             /\ segs = EvenPrefix(total, param, id)
  <2>1. /\ SegmentCount(total, param) \in 0 .. total
        /\ total # 0 => SegmentCount(total, param) >= 1 /\ BaseSize(total, param) \in Nat
    BY <1>1, EvenSizes
  <2>2. start = EvenStart(total, param, id)
    BY <1>1, <2>1 DEF EvenStart
  <2>3. segs = EvenPrefix(total, param, id)
    BY <1>1 DEF LoopInit, EvenPrefix
  <2> QED
    BY <1>1, <2>1, <2>2, <2>3
<1>3. ChunkReached(total, param, id)
  BY <1>1 DEF ChunkReached
<1>4. start = ChunkStart(total, param, id)
  <2>1. 0 * ChunkSize(param) = 0
    BY <1>1 DEF ChunkSize
  <2> QED
    BY <1>1, <2>1 DEF ChunkStart
<1>5. segs = ChunkPrefix(total, param, id)
  BY <1>1 DEF LoopInit, ChunkPrefix
<1> QED
  BY <1>1, <1>2, <1>3, <1>4, <1>5 DEF LoopInit, Inv

LEMMA PushEvenKeeps ==
  ASSUME Inv, PushEven
  PROVE  Inv'
<1> DEFINE count == SegmentCount(total, param)
           base  == BaseSize(total, param)
<1>1. /\ builder = "even" /\ total # 0 /\ id < count /\ Push(EvenEnd)
      /\ total \in Nat /\ param \in Nat /\ id \in Nat
      /\ start = EvenStart(total, param, id) /\ segs = EvenPrefix(total, param, id)
  BY InputsAssumption DEF PushEven, EvenGuard, Inv
<1>2. count \in Nat /\ base \in Nat \ {0}
  BY <1>1, EvenSizes
<1>3. start = id * base /\ EvenEnd = IF id = count - 1 THEN total - 1 ELSE start + base - 1
  BY <1>1, <1>2 DEF EvenStart, EvenEnd
<1>4. EvenSegment(total, param, id) = Segment(start, EvenEnd)
  BY <1>3 DEF EvenSegment
<1>5. /\ start' = EvenEnd + 1 /\ id' = id + 1
      /\ segs' = [i \in 0 .. id |-> IF i = id THEN Segment(start, EvenEnd) ELSE segs[i]]
      /\ UNCHANGED <<builder, total, param>>
  BY <1>1 DEF Push
<1>6. segs' = EvenPrefix(total, param, id + 1)
  <2>1. (id + 1) - 1 = id
    BY <1>1
  <2>2. \A i \in 0 .. id : i # id => i \in 0 .. id - 1
    BY <1>1
  <2>3. \A i \in 0 .. id :
          (IF i = id THEN Segment(start, EvenEnd) ELSE segs[i]) = EvenSegment(total, param, i)
    BY <1>1, <1>4, <2>2 DEF EvenPrefix
  <2> QED
    BY <1>5, <2>1, <2>3 DEF EvenPrefix
<1>7. start' = EvenStart(total, param, id + 1)
  <2>1. EvenStart(total, param, id + 1) = IF id + 1 = count THEN total ELSE (id + 1) * base
    BY DEF EvenStart
  <2> HIDE DEF count, base
  <2>2. (id + 1) * base = id * base + base /\ id * base \in Nat
    BY <1>1, <1>2, Products
  <2> QED
    BY <1>1, <1>2, <1>3, <1>5, <2>1, <2>2
<1>8. id + 1 \in Nat /\ id + 1 <= count
  <2> HIDE DEF count, base
  <2> QED
    BY <1>1, <1>2
<1> QED
  BY <1>1, <1>5, <1>6, <1>7, <1>8 DEF Inv

LEMMA PushChunkKeeps ==
  ASSUME Inv, PushChunk
  PROVE  Inv'
<1> DEFINE step == ChunkSize(param)
<1>1. /\ builder = "chunk" /\ start < total /\ Push(ChunkEnd)
      /\ total \in Nat /\ param \in Nat /\ id \in Nat
      /\ start = ChunkStart(total, param, id) /\ segs = ChunkPrefix(total, param, id)
  BY InputsAssumption DEF PushChunk, ChunkGuard, Inv
<1>2. step \in Nat \ {0}
  BY <1>1 DEF ChunkSize
<1>3. /\ start = id * step /\ id * step < total
      /\ ChunkEnd = IF start + step - 1 >= total THEN total - 1 ELSE start + step - 1
  <2>1. start = IF id * step < total THEN id * step ELSE total
    BY <1>1 DEF ChunkStart
  <2>2. ChunkEnd = IF start + step - 1 >= total THEN total - 1 ELSE start + step - 1
    BY DEF ChunkEnd
  <2> HIDE DEF step
  <2> QED
    BY <1>1, <2>1, <2>2
<1>4. ChunkSegment(total, param, id) = Segment(start, ChunkEnd)
  BY <1>3 DEF ChunkSegment
<1>5. /\ start' = ChunkEnd + 1 /\ id' = id + 1
      /\ segs' = [i \in 0 .. id |-> IF i = id THEN Segment(start, ChunkEnd) ELSE segs[i]]
      /\ UNCHANGED <<builder, total, param>>
  BY <1>1 DEF Push
<1>6. segs' = ChunkPrefix(total, param, id + 1)
  <2>1. (id + 1) - 1 = id
    BY <1>1
  <2>2. \A i \in 0 .. id : i # id => i \in 0 .. id - 1
    BY <1>1
  <2>3. \A i \in 0 .. id :
          (IF i = id THEN Segment(start, ChunkEnd) ELSE segs[i]) = ChunkSegment(total, param, i)
    BY <1>1, <1>4, <2>2 DEF ChunkPrefix
  <2> QED
    BY <1>5, <2>1, <2>3 DEF ChunkPrefix
<1>7. start' = ChunkStart(total, param, id + 1) /\ ChunkReached(total, param, id + 1)
  <2>1. /\ ChunkStart(total, param, id + 1) = IF (id + 1) * step < total THEN (id + 1) * step ELSE total
        /\ ChunkReached(total, param, id + 1) <=> (id + 1 > 0 => ((id + 1) - 1) * step < total)
    BY DEF ChunkStart, ChunkReached
  <2> HIDE DEF step
  <2>2. (id + 1) * step = id * step + step /\ id * step \in Nat /\ (id + 1) - 1 = id
    BY <1>1, <1>2, Products
  <2> QED
    BY <1>1, <1>2, <1>3, <1>5, <2>1, <2>2
<1>8. id + 1 \in Nat
  BY <1>1
<1> QED
  BY <1>1, <1>5, <1>6, <1>7, <1>8 DEF Inv

LEMMA InvAlways == Spec => []Inv
<1>1. Inv /\ [Next]_vars => Inv'
  <2>1. Inv /\ UNCHANGED vars => Inv'
    BY DEF Inv, vars
  <2> QED
    BY <2>1, PushEvenKeeps, PushChunkKeeps DEF Next
<1> QED
  BY InitInv, <1>1, PTL DEF Spec

-----------------------------------------------------------------------------
LEMMA InvTiles == Inv => PrefixTiled
<1> SUFFICES ASSUME Inv
             PROVE  Tiles(segs, id, start)
  BY DEF PrefixTiled
<1>1. total \in Nat /\ param \in Nat /\ id \in Nat
  BY InputsAssumption DEF Inv
<1>2. CASE builder = "even"
  <2>1. id \in 0 .. SegmentCount(total, param)
    BY <1>1, <1>2, EvenSizes DEF Inv
  <2> QED
    BY <1>1, <1>2, <2>1, EvenTiles DEF Inv
<1>3. CASE builder = "chunk"
  BY <1>1, <1>3, ChunkTiles DEF Inv
<1> QED
  BY <1>2, <1>3 DEF Inv

\* A loop that has ended has pushed all of its closed form.
LEMMA AtTheEnd ==
  ASSUME Inv, Returned
  PROVE  /\ start = total
         /\ segs = IF builder = "even" THEN BuildSegments(total, param)
                   ELSE BuildSegmentsWithChunkSize(total, param)
<1>1. total \in Nat /\ param \in Nat /\ id \in Nat
  BY InputsAssumption DEF Inv
<1>2. CASE builder = "even"
  <2>1. id = SegmentCount(total, param)
    <3>1. /\ total = 0 \/ ~(id < SegmentCount(total, param))
          /\ id <= SegmentCount(total, param)
      BY <1>2 DEF Returned, EvenGuard, Inv
    <3>2. SegmentCount(total, param) \in 0 .. total
      BY <1>1, EvenSizes
    <3> QED
      BY <1>1, <3>1, <3>2
  <2> QED
    BY <1>2, <2>1 DEF Inv, EvenStart, EvenPrefix, BuildSegments
<1>3. CASE builder = "chunk"
  <2>1. start = total
    <3>1. /\ total = 0 \/ ~(start < total)
          /\ start = IF id * ChunkSize(param) < total THEN id * ChunkSize(param) ELSE total
      BY <1>3 DEF Returned, ChunkGuard, Inv, ChunkStart
    <3>2. id * ChunkSize(param) \in Nat
      BY <1>1, Products DEF ChunkSize
    <3> QED
      BY <1>1, <3>1, <3>2
  <2>2. ChunkCount(total, param) = id
    BY <1>1, <1>3, <2>1, LastChunk DEF Inv
  <2> QED
    BY <1>3, <2>1, <2>2 DEF Inv, ChunkPrefix, BuildSegmentsWithChunkSize
<1> QED
  BY <1>2, <1>3 DEF Inv

\* The loop variables stay naturals, and one segment is stored for each id that
\* has been pushed: the ids are those of the worker tasks (segment.rs:34-49, 61-74).
THEOREM TypeCorrect == Spec => []TypeOK
<1>1. Inv => TypeOK
  <2> SUFFICES ASSUME Inv PROVE TypeOK
    OBVIOUS
  <2>1. total \in Nat /\ param \in Nat /\ id \in Nat
    BY InputsAssumption DEF Inv
  <2>2. start \in Nat
    <3>1. CASE builder = "even"
      <4>1. SegmentCount(total, param) \in 0 .. total
        BY <2>1, EvenSizes
      <4>2. CASE id = SegmentCount(total, param)
        BY <2>1, <3>1, <4>2 DEF Inv, EvenStart
      <4>3. CASE id # SegmentCount(total, param)
        <5>1. SegmentCount(total, param) \in Nat \ {0} /\ start = id * BaseSize(total, param)
          BY <2>1, <3>1, <4>1, <4>3 DEF Inv, EvenStart
        <5>2. BaseSize(total, param) \in Nat
          BY <2>1, <5>1, Division DEF BaseSize
        <5> QED
          BY <2>1, <5>1, <5>2, Products
      <4> QED
        BY <4>2, <4>3
    <3>2. CASE builder = "chunk"
      <4>1. id * ChunkSize(param) \in Nat
        BY <2>1, Products DEF ChunkSize
      <4> QED
        BY <2>1, <3>2, <4>1 DEF Inv, ChunkStart
    <3> QED
      BY <3>1, <3>2 DEF Inv
  <2>3. DOMAIN segs = 0 .. id - 1
    BY DEF Inv, EvenPrefix, ChunkPrefix
  <2> QED
    BY <2>1, <2>2, <2>3 DEF Inv, TypeOK
<1> QED
  BY InvAlways, <1>1, PTL

\* At every iteration of either loop what has been cut is cut without gap or
\* overlap (segment.rs:34-49, 61-74).
THEOREM LoopsTile == Spec => []PrefixTiled
BY InvAlways, InvTiles, PTL

\* A builder that returns has cut the whole file, whatever its size and the
\* parameter: each byte is fetched by one worker.
THEOREM FileIsTiled == Spec => []ResultTiled
<1>1. Inv => ResultTiled
  BY InvTiles, AtTheEnd DEF ResultTiled, PrefixTiled
<1> QED
  BY InvAlways, <1>1, PTL

\* The loops of segment.rs compute the closed forms that the modules of the
\* engine use.
THEOREM LoopsAreClosedForms == Spec => []ResultIsClosedForm
<1>1. Inv => ResultIsClosedForm
  BY AtTheEnd DEF ResultIsClosedForm
<1> QED
  BY InvAlways, <1>1, PTL
=============================================================================
