------------------------------ MODULE JobQueue ------------------------------
(***************************************************************************)
(* What the daemon promises its clients about their jobs, without a word   *)
(* of rows, entries, tasks, ticks or processes: a job waits, is busy,      *)
(* rests or has finished; few jobs are busy at once, the oldest waiting    *)
(* job is taken first, a finished job stays so, and a job at rest is left  *)
(* alone until a client resumes or retries it.                             *)
(*                                                                         *)
(* A request or a tick of the daemon may change many jobs, so a step here  *)
(* is one for all of them.  Module Daemon has the mapping.                 *)
(***************************************************************************)
EXTENDS Integers, FiniteSets

CONSTANTS Jobs,   \* numbers, in the order in which jobs are enqueued
          Slots   \* jobs that may be busy at once

VARIABLES state,     \* of each job
          command,   \* the last command of a client, for each job
          commands   \* how many there have been

queueVars == <<state, command, commands>>

\* What may become of a job in a step.  A busy job may be on its way to rest, or
\* to be started once more.
Successors ==
  [none     |-> {"none", "waiting", "busy"},
   waiting  |-> {"waiting", "busy", "resting"},
   busy     |-> {"busy", "waiting", "resting", "finished"},
   resting  |-> {"resting", "waiting", "busy"},
   finished |-> {"finished"}]

QueueInit == state = [job \in Jobs |-> "none"]

SlotsKept == Cardinality({job \in Jobs : state'[job] = "busy"}) <= Slots

\* No older job is left waiting when one is taken.
InOrder ==
  \A older, job \in Jobs :
    older < job /\ state[job] # "busy" /\ state'[job] = "busy" => state'[older] # "waiting"

\* A new command of a client is what takes a job out of its rest.
RestKept ==
  \A job \in Jobs :
    state[job] = "resting" /\ state'[job] # "resting" =>
      commands' = commands + 1 /\ command'[job] \in {"resume", "retry"}

QueueStep ==
  /\ \A job \in Jobs : state'[job] \in Successors[state[job]]
  /\ SlotsKept /\ InOrder /\ RestKept

QueueSpec == QueueInit /\ [][QueueStep]_queueVars
=============================================================================
