------------------------------- MODULE Settle -------------------------------
(***************************************************************************)
(* What one tick makes of the failed runs of a job (the second loop at the *)
(* end of poll_active, crates/arkama/src/daemon.rs).                       *)
(*                                                                         *)
(* The loop goes through the failed entries in the order of their runs and *)
(* looks at the row before each; AfterFailures is its result in closed     *)
(* form.  The last part of module DaemonProofs proves that it is.          *)
(***************************************************************************)
EXTENDS Integers

Failures == {"interrupted", "cancelled", "error"}

\* One iteration: "interrupted" leaves a paused row and requeues any other,
\* "cancelled" cancels, and any other message fails the row unless the user
\* has paused or cancelled it.
AfterFailure(status, failure) ==
  CASE failure = "interrupted" -> IF status = "paused" THEN "paused" ELSE "queued"
    [] failure = "cancelled"   -> "cancelled"
    [] failure = "error"       -> IF status \in {"paused", "cancelled"} THEN status ELSE "failed"

\* Mutant: an interrupted download is always put back in the queue.
AfterFailures_Requeue(status, failed) ==
  IF DOMAIN failed = {} THEN status
  ELSE IF \E n \in DOMAIN failed : failed[n] = "interrupted" THEN "queued"
  ELSE IF \E n \in DOMAIN failed : failed[n] = "cancelled" THEN "cancelled"
  ELSE AfterFailure(status, "error")

\* failed maps the numbers of the failed runs to how they failed.
Stops(failed) == {n \in DOMAIN failed : failed[n] # "error"}

Last(numbers) == CHOOSE n \in numbers : \A m \in numbers : m <= n

\* What the last stop makes of the row: an interrupted run finds it paused only
\* if no run before it was cancelled.
AfterStops(status, failed) ==
  IF failed[Last(Stops(failed))] = "cancelled" THEN "cancelled"
  ELSE IF status = "paused" /\ \A n \in Stops(failed) : failed[n] = "interrupted"
    THEN "paused" ELSE "queued"

\* Errors before the last stop do not show: that stop decides, and errors after
\* it matter only to a row it has put back in the queue.
AfterFailures(status, failed) ==
  IF DOMAIN failed = {} THEN status
  ELSE IF Stops(failed) = {} THEN AfterFailure(status, "error")
  ELSE IF \E n \in DOMAIN failed : n > Last(Stops(failed))
    THEN AfterFailure(AfterStops(status, failed), "error")
  ELSE AfterStops(status, failed)
=============================================================================
