---------------------------- MODULE SpeedLimiter ----------------------------
(***************************************************************************)
(* The speed limit the workers of a download share                         *)
(* (crates/arkama_core/src/downloader/rate_limit.rs).                      *)
(*                                                                         *)
(* A chunk that has been received is throttled before it is written.  The  *)
(* worker reads the clock, takes the lock, reserves the next slot of time  *)
(* for its chunk and sleeps until the slot has passed; the clock goes on   *)
(* between any two of these.                                               *)
(***************************************************************************)
EXTENDS Integers, Sequences, FiniteSets, Functions

CONSTANTS
  Second,     \* units of time in a second: a thousand million in the source
  Rate,       \* bytes per second
  Workers,    \* chunks that may be throttled at once
  ChunkSizes, \* bytes of a chunk
  MaxChunks,  \* bound: chunks throttled
  MaxTime     \* bound: on the clock

ASSUME LimiterAssumption ==
  /\ Second \in Nat \ {0} /\ Rate \in Nat \ {0} /\ Workers \in Nat
  /\ ChunkSizes \subseteq Nat \ {0} /\ MaxChunks \in Nat /\ MaxTime \in Nat

VARIABLES now,      \* the clock
          next_at,  \* SpeedLimiter.next_at: the end of the last slot
          chunks    \* every chunk so far, in the order of their arrival

vars == <<now, next_at, chunks>>

\* A chunk's worker has read the clock (seen), sleeps until wake, or has been
\* let through.
Chunk(bytes) == [pc |-> "seen", bytes |-> bytes, seen |-> now, wait |-> 0, wake |-> 0]

Ids(pc) == {c \in DOMAIN chunks : chunks[c].pc = pc}

Init == now = 0 /\ next_at = 0 /\ chunks = <<>>

Arrive ==
  /\ Len(chunks) < MaxChunks
  /\ Cardinality(Ids("seen") \cup Ids("sleep")) < Workers
  /\ \E bytes \in ChunkSizes : chunks' = Append(chunks, Chunk(bytes))
  /\ UNCHANGED <<now, next_at>>

AtLeast(a, b) == IF a < b THEN b ELSE a

\* The time a chunk costs: at least one unit.
Wait(bytes) == AtLeast((bytes * Second) \div Rate, 1)

\* Mutant: slots that have passed unused are given to the chunks to come.
SlotStart_Saved(seen) == next_at

SlotStart(seen) == AtLeast(next_at, seen)

\* The clock was read before the lock was taken: the chunk's slot may begin in
\* the past, and the worker sleeps for the time it had to wait then.
Reserve(c) ==
  LET wait   == Wait(chunks[c].bytes)
      target == SlotStart(chunks[c].seen) + wait
  IN  /\ chunks[c].pc = "seen"
      /\ next_at' = target
      /\ chunks' = [chunks EXCEPT ![c].pc = "sleep", ![c].wait = wait,
                      ![c].wake = IF target > chunks[c].seen
                                    THEN now + (target - chunks[c].seen) ELSE now]
      /\ UNCHANGED now

\* Mutant: the chunk is charged once more when it is written.
LetThrough_Charged(c) ==
  /\ chunks[c].pc = "sleep" /\ now >= chunks[c].wake
  /\ chunks' = [chunks EXCEPT ![c].pc = "through"]
  /\ next_at' = next_at + chunks[c].wait
  /\ UNCHANGED now

LetThrough(c) ==
  /\ chunks[c].pc = "sleep" /\ now >= chunks[c].wake
  /\ chunks' = [chunks EXCEPT ![c].pc = "through"]
  /\ UNCHANGED <<now, next_at>>

Tick == now < MaxTime /\ now' = now + 1 /\ UNCHANGED <<next_at, chunks>>

Next ==
  \/ Arrive
  \/ \E c \in DOMAIN chunks : Reserve(c) \/ LetThrough(c)
  \/ Tick

Spec == Init /\ [][Next]_vars

-----------------------------------------------------------------------------
Sum(f, set) == FoldFunctionOnSet(+, 0, f, set)

\* Whatever came before, and however late the workers get the lock: the bytes
\* that have arrived since a time and have been let through by now are no more
\* than the rate allows for that time, but for the part of a unit of time by
\* which each chunk's cost is rounded down (rate_limit.rs:20-34).
Paced ==
  \A since \in 0 .. now :
    LET through == {c \in Ids("through") : chunks[c].seen >= since}
    IN  Sum([c \in through |-> chunks[c].bytes], through) * Second
          <= Rate * ((now - since) + Cardinality(through))

\* No chunk waits for traffic that is over: the slots that are still to come are
\* those of the chunks that sleep (rate_limit.rs:26-31).
NoDebt ==
  next_at - now <= Sum([c \in Ids("sleep") |-> chunks[c].wait], Ids("sleep"))
=============================================================================
