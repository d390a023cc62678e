--------------------------------- MODULE Db ---------------------------------
(***************************************************************************)
(* The downloads table as the daemon uses it (crates/arkama_data/src/db.rs)*)
(*                                                                         *)
(* A table is a function from row ids to statuses; NoRow marks an id that  *)
(* has not been inserted.  Every row here has a daemon_request, so the     *)
(* source's "daemon_request IS NOT NULL" conditions hold.  The columns     *)
(* that no statement's WHERE clause reads (sizes, timestamps, metadata,    *)
(* messages) are left out.  An operator with a set of ids stands for the   *)
(* statement run once for each of them.                                    *)
(***************************************************************************)
EXTENDS Integers, FiniteSets

NoRow == "none"

Statuses == {"queued", "starting", "running", "paused", "finished", "failed",
             "cancelled"}

Mark(db, ids, status) == [id \in DOMAIN db |-> IF id \in ids THEN status ELSE db[id]]

RowsWith(db, statuses) == {id \in DOMAIN db : db[id] \in statuses}

\* INSERT takes the next rowid.
IsNextRow(db, id) == db[id] = NoRow /\ \A k \in DOMAIN db : k < id => db[k] # NoRow

InsertDaemonDownload(db, id)    == Mark(db, {id}, "queued")
UpdateDownloadStarted(db, ids)  == Mark(db, ids, "running")
UpdateDownloadFinished(db, ids) == Mark(db, ids, "finished")
UpdateDownloadPaused(db, id)    == Mark(db, {id}, "paused")
UpdateDownloadCancelled(db, id) == Mark(db, {id}, "cancelled")
RequeueDownload(db, ids)        == Mark(db, ids, "queued")

\* The statements whose WHERE clause tests the status; the caller learns
\* whether a row was changed.
MarkQueuedPaused(db, id) == Mark(db, {id} \cap RowsWith(db, {"queued"}), "paused")
ResumeDownload(db, id)   == Mark(db, {id} \cap RowsWith(db, {"paused"}), "queued")

RetryDownload(db, id) ==
  Mark(db, {id} \cap RowsWith(db, {"failed", "cancelled"}), "queued")

\* Mutant: every row that has not finished goes back.
RecoverDaemonDownloads_All(db) == Mark(db, RowsWith(db, Statuses \ {"finished"}), "queued")

\* At start-up, the rows a dead daemon had claimed go back to the queue.
RecoverDaemonDownloads(db) == Mark(db, RowsWith(db, {"starting", "running"}), "queued")

\* Mutants: one row too many is claimed; the newest rows are claimed first.
ClaimedBy_OneMore(db, ids, n) ==
  /\ ids \subseteq RowsWith(db, {"queued"})
  /\ Cardinality(ids) <= n + 1

ClaimedBy_NewestFirst(db, ids, n) ==
  LET queued == RowsWith(db, {"queued"})
  IN  /\ ids \subseteq queued
      /\ Cardinality(ids) <= n
      /\ \A id \in ids, other \in queued \ ids : other < id
      /\ ids = queued \/ Cardinality(ids) >= n

\* ids are the rows that calling claim_next_daemon_download at most n times
\* claims: the n queued rows of lowest id, or all of them.
ClaimedBy(db, ids, n) ==
  LET queued == RowsWith(db, {"queued"})
  IN  /\ ids \subseteq queued
      /\ Cardinality(ids) <= n
      /\ \A id \in ids, other \in queued \ ids : id < other
      /\ ids = queued \/ Cardinality(ids) >= n

ClaimDaemonDownloads(db, ids) == Mark(db, ids, "starting")
=============================================================================
