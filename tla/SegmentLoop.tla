----------------------------- MODULE SegmentLoop ----------------------------
(***************************************************************************)
(* The loops of build_segments and build_segments_with_chunk_size, one     *)
(* iteration per step, against the closed forms of module Segments.        *)
(***************************************************************************)
EXTENDS Segments

CONSTANTS Totals,       \* file sizes
          Parameters    \* connection counts, or chunk sizes

ASSUME InputsAssumption == Totals \subseteq Nat /\ Parameters \subseteq Nat

VARIABLES builder,      \* which of the two functions runs
          total, param, \* its arguments
          start, id,    \* its loop variables
          segs          \* the segments pushed so far, by id

vars == <<builder, total, param, start, id, segs>>

LoopInit ==
  /\ builder \in {"even", "chunk"}
  /\ total \in Totals
  /\ param \in Parameters
  /\ start = 0
  /\ id = 0
  /\ segs = [i \in {} |-> Segment(0, 0)]

\* The loop conditions, with the early return for an empty file.
EvenGuard  == total # 0 /\ id < SegmentCount(total, param)
ChunkGuard == total # 0 /\ start < total

\* Mutants: the id is not advanced; no loop variable is; the next segment
\* starts at the last byte of this one.
Push_SameId(end) ==
  /\ segs' = [i \in 0 .. id |-> IF i = id THEN Segment(start, end) ELSE segs[i]]
  /\ start' = end + 1
  /\ UNCHANGED <<builder, total, param, id>>

Push_Stuck(end) ==
  /\ segs' = [i \in 0 .. id |-> IF i = id THEN Segment(start, end) ELSE segs[i]]
  /\ UNCHANGED <<builder, total, param, start, id>>

Push_Overlap(end) ==
  /\ segs' = [i \in 0 .. id |-> IF i = id THEN Segment(start, end) ELSE segs[i]]
  /\ start' = end
  /\ id' = id + 1
  /\ UNCHANGED <<builder, total, param>>

Push(end) ==
  /\ segs' = [i \in 0 .. id |-> IF i = id THEN Segment(start, end) ELSE segs[i]]
  /\ start' = end + 1
  /\ id' = id + 1
  /\ UNCHANGED <<builder, total, param>>

\* Mutant: the remainder goes to no segment.
EvenEnd_NoRemainder == start + BaseSize(total, param) - 1

EvenEnd ==
  IF id = SegmentCount(total, param) - 1
    THEN total - 1
    ELSE start + BaseSize(total, param) - 1

\* Mutant: the last chunk is not clipped to the file.
ChunkEnd_Unclipped == start + ChunkSize(param) - 1

ChunkEnd ==
  LET end == start + ChunkSize(param) - 1
  IN  IF end >= total THEN total - 1 ELSE end

PushEven  == builder = "even" /\ EvenGuard /\ Push(EvenEnd)
PushChunk == builder = "chunk" /\ ChunkGuard /\ Push(ChunkEnd)

Next == PushEven \/ PushChunk

Spec == LoopInit /\ [][Next]_vars /\ WF_vars(Next)

-----------------------------------------------------------------------------
Returned == ~(builder = "even" /\ EvenGuard) /\ ~(builder = "chunk" /\ ChunkGuard)

\* The loop variables are naturals and one segment is stored for each id that
\* has been pushed.
TypeOK ==
  /\ builder \in {"even", "chunk"}
  /\ total \in Totals
  /\ param \in Parameters
  /\ start \in Nat
  /\ id \in Nat
  /\ DOMAIN segs = 0 .. id - 1

\* At every iteration of either loop the segments pushed so far cut the bytes
\* before start without gap or overlap (segment.rs:34-49, 61-74).
PrefixTiled == Tiles(segs, id, start)

\* A builder that returns has cut the whole file: workers that fetch their own
\* segment fetch every byte, and no byte is written by two of them.
ResultTiled == Returned => Tiles(segs, id, total)

\* The loops compute the closed forms the other modules use.
ResultIsClosedForm ==
  Returned =>
    segs = IF builder = "even"
             THEN BuildSegments(total, param)
             ELSE BuildSegmentsWithChunkSize(total, param)

\* Neither loop runs forever, for any size and any parameter, zero included.
Terminates == <>Returned
=============================================================================
