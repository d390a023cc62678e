---------------------------- MODULE DownloadTask ----------------------------
(***************************************************************************)
(* What a download promises whoever has started it: it answers nothing     *)
(* while it probes its server, it ends with one result, and it says that   *)
(* it was paused or cancelled only if it was asked to since it was started.*)
(*                                                                         *)
(* This is the view the daemon takes of its tasks (TaskStep of module      *)
(* Daemon, where a pause or a cancel that a task has not read is           *)
(* overwritten by the next); module Download implements it.                *)
(***************************************************************************)
VARIABLES phase,   \* idle, probe or work
          asked,   \* the stops asked for since the download was started
          result   \* how the last download ended

taskVars == <<phase, asked, result>>

TaskInit == phase = "idle" /\ asked = {} /\ result = "none"

Start ==
  /\ phase = "idle" /\ phase' = "probe"
  /\ asked' = {} /\ result' = "none"

ProbeOk ==
  phase = "probe" /\ phase' = "work" /\ UNCHANGED <<asked, result>>

\* Ctrl-C asks for a pause.
Ask(stop) ==
  phase # "idle" /\ asked' = asked \cup {stop} /\ UNCHANGED <<phase, result>>

Ends(how) == phase' = "idle" /\ result' = how /\ UNCHANGED asked

\* A probe ends in an error or, if the file is there already, in success.
ProbeEnds == phase = "probe" /\ (Ends("error") \/ Ends("finished"))

WorkEnds ==
  /\ phase = "work"
  /\ \/ Ends("error") \/ Ends("finished")
     \/ "pause" \in asked /\ Ends("paused")
     \/ "cancel" \in asked /\ Ends("cancelled")

\* The process dies.
Crash == phase # "idle" /\ phase' = "idle" /\ result' = "none" /\ UNCHANGED asked

TaskNext ==
  Start \/ ProbeOk \/ (\E stop \in {"pause", "cancel"} : Ask(stop)) \/ ProbeEnds \/ WorkEnds \/ Crash

TaskSpec == TaskInit /\ [][TaskNext]_taskVars
=============================================================================
