------------------------------ MODULE Segments ------------------------------
(***************************************************************************)
(* The byte ranges a segmented download is cut into                        *)
(* (crates/arkama_core/src/segment.rs).                                    *)
(*                                                                         *)
(* The two builders of the source are loops that push one segment at a     *)
(* time.  Here they are closed forms, indexed by the segment's id as the   *)
(* Vec is; module SegmentLoop runs the loops themselves and shows that     *)
(* they compute these closed forms.                                        *)
(***************************************************************************)
EXTENDS Integers

Segment(start, end) == [start |-> start, end |-> end, downloaded |-> 0]

\* The offset the next range request starts at; beyond the segment's end once
\* the segment is complete (the source's None).
RemainingStart(seg) == seg.start + seg.downloaded

\* Length of a segment; both ends are inclusive.
SegmentSize(seg) == seg.end - seg.start + 1

\* build_segments: a request for zero connections means one, and no more
\* segments are made than there are bytes.
SegmentCount(total, connections) ==
  LET wanted == IF connections = 0 THEN 1 ELSE connections
  IN  IF wanted < total THEN wanted ELSE total

BaseSize(total, connections) == total \div SegmentCount(total, connections)

\* Every segment but the last has the base size; the last takes the rest.
EvenSegment(total, connections, id) ==
  LET base == BaseSize(total, connections)
  IN  Segment(id * base,
              IF id = SegmentCount(total, connections) - 1
                THEN total - 1
                ELSE id * base + base - 1)

BuildSegments(total, connections) ==
  [id \in 0 .. SegmentCount(total, connections) - 1 |->
     EvenSegment(total, connections, id)]

\* build_segments_with_chunk_size: a chunk size of zero means one byte.
ChunkSize(chunk) == IF chunk = 0 THEN 1 ELSE chunk

ChunkCount(total, chunk) == (total + ChunkSize(chunk) - 1) \div ChunkSize(chunk)

ChunkSegment(total, chunk, id) ==
  LET size == ChunkSize(chunk)
  IN  Segment(id * size,
              IF id * size + size - 1 >= total
                THEN total - 1
                ELSE id * size + size - 1)

BuildSegmentsWithChunkSize(total, chunk) ==
  [id \in 0 .. ChunkCount(total, chunk) - 1 |-> ChunkSegment(total, chunk, id)]

-----------------------------------------------------------------------------
\* segs is cut from the bytes 0 .. total-1 without gap or overlap: the first
\* segment starts at byte 0, each one starts right after the one before it,
\* the last ends at the last byte, and none is empty.
Tiles(segs, count, total) ==
  /\ \A id \in 0 .. count - 1 : segs[id].start <= segs[id].end
  /\ \A id \in 0 .. count - 2 : segs[id + 1].start = segs[id].end + 1
  /\ count > 0 => segs[0].start = 0 /\ segs[count - 1].end = total - 1
  /\ count = 0 => total = 0
=============================================================================
