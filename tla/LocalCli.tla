------------------------------ MODULE LocalCli ------------------------------
(***************************************************************************)
(* Downloads run without the daemon (crates/arkama/src/download.rs): the   *)
(* links of one command are fetched one after the other by one of three    *)
(* front ends, which keep the row in the downloads table and tell the user *)
(* how it went.                                                            *)
(*                                                                         *)
(* The download itself is a task that sends events and returns a result    *)
(* (crates/arkama_core/src/downloader.rs, engine.rs).  The console and the *)
(* JSON front end select over both; whichever is ready is taken, in any    *)
(* order.  The silent one awaits the result and has no events.             *)
(***************************************************************************)
EXTENDS Naturals, Sequences

CONSTANTS Urls,     \* how many links the command has
          Modes     \* the output modes it may be given

ASSUME ConstantsAssumption ==
  Urls \in Nat \ {0} /\ Modes \subseteq {"console", "json", "silent"}

VARIABLES
  mode,       \* OutputMode
  url,        \* the link being fetched
  row,        \* the table's status of each link
  pc,         \* the download task: setting up, transferring, or returned
  result,     \* what each download has returned
  events,     \* events sent and not read
  open,       \* the event channel has a sender left
  printed,    \* finished and failed objects written to stdout, by link
  exit        \* how the command ended

task == <<pc, result, events, open>>
vars == <<mode, url, row, pc, result, events, open, printed, exit>>

Links == 1 .. Urls

Init ==
  /\ mode \in Modes
  /\ url = 1
  /\ row = [u \in Links |-> IF u = 1 THEN "running" ELSE "none"]
  /\ pc = "setup"
  /\ result = [u \in Links |-> "none"]
  /\ events = <<>> /\ open = TRUE
  /\ printed = [u \in Links |-> <<>>]
  /\ exit = "none"

-----------------------------------------------------------------------------
(* The download *)

TaskStep(at) ==
  exit = "none" /\ pc = at /\ UNCHANGED <<mode, url, row, open, printed, exit>>

Send(event) == events' = IF mode = "silent" THEN events ELSE Append(events, event)

Return(how) == pc' = "returned" /\ result' = [result EXCEPT ![url] = how]

Start == TaskStep("setup") /\ Send("started") /\ pc' = "transfer" /\ UNCHANGED result

Succeed == TaskStep("transfer") /\ Send("finished") /\ Return("ok")

Fail == TaskStep("transfer") /\ Send("failed") /\ Return("error")

\* An error returned with a question mark sends no event: any before the
\* transfer, and that of the stat after it.
FailUnsaid ==
  \E at \in {"setup", "transfer"} :
    TaskStep(at) /\ Return("error") /\ UNCHANGED events

\* The task's own sender goes when it returns, and those of workers nobody
\* waits for when they end.
CloseEvents ==
  /\ exit = "none" /\ pc = "returned" /\ open
  /\ open' = FALSE
  /\ UNCHANGED <<mode, url, row, pc, result, events, printed, exit>>

-----------------------------------------------------------------------------
(* The front ends *)

FrontEnd(modes) == exit = "none" /\ mode \in modes /\ UNCHANGED mode

Marked(status) == [row EXCEPT ![url] = status]

\* emit_json of summary_json or of the failed object.
Said(status) ==
  IF mode = "json" THEN [printed EXCEPT ![url] = Append(printed[url], status)] ELSE printed

\* Mutant: the JSON front end does not remember what it has printed.
FinishedEmitted_Never == FALSE

\* The JSON front end's finished_emitted; the others have no such variable.
FinishedEmitted == mode = "json" /\ printed[url] # <<>>

ReadEvent ==
  /\ FrontEnd({"console", "json"})
  /\ events # <<>>
  /\ events' = Tail(events)
  /\ IF Head(events) = "started"
       THEN row' = Marked("running") /\ printed' = printed
       ELSE row' = Marked(Head(events)) /\ printed' = Said(Head(events))
  /\ UNCHANGED <<url, pc, result, open, exit>>

\* Mutant: one link too many.
NextLink_OneMore(table) ==
  IF url <= Urls
    THEN /\ url' = url + 1
         /\ row' = [table EXCEPT ![url + 1] = "running"]
         /\ pc' = "setup" /\ events' = <<>> /\ open' = TRUE
         /\ UNCHANGED <<exit, result>>
    ELSE exit' = "ok" /\ row' = table /\ UNCHANGED <<url, task>>

\* run_single returns Ok: on to the next link, if there is one.
NextLink(table) ==
  IF url < Urls
    THEN /\ url' = url + 1
         /\ row' = [table EXCEPT ![url + 1] = "running"]
         /\ pc' = "setup" /\ events' = <<>> /\ open' = TRUE
         /\ UNCHANGED <<exit, result>>
    ELSE exit' = "ok" /\ row' = table /\ UNCHANGED <<url, task>>

\* run_single returns an error, and the command with it.
Quit(table) == exit' = "error" /\ row' = table /\ UNCHANGED <<url, task>>

\* recv gives None: the loop ends, and the result is not looked at.
StreamEnds ==
  /\ FrontEnd({"console", "json"})
  /\ events = <<>> /\ ~open
  /\ NextLink(row)
  /\ UNCHANGED printed

Verdict == IF result[url] = "ok" THEN "finished" ELSE "failed"

\* Mutants: an error leaves without a record; the loop goes on after a result;
\* the result is looked at when the stream has ended.
TakeResult_Unrecorded ==
  /\ FrontEnd({"console", "json", "silent"})
  /\ pc = "returned"
  /\ printed' = IF FinishedEmitted THEN printed ELSE Said(Verdict)
  /\ IF Verdict = "finished" THEN NextLink(Marked(Verdict)) ELSE Quit(row)

TakeResult_GoesOn ==
  /\ FrontEnd({"console", "json", "silent"})
  /\ pc = "returned"
  /\ printed' = IF FinishedEmitted THEN printed ELSE Said(Verdict)
  /\ row' = IF FinishedEmitted THEN row ELSE Marked(Verdict)
  /\ UNCHANGED <<url, task, exit>>

TakeResult_Drained ==
  /\ FrontEnd({"console", "json", "silent"})
  /\ pc = "returned" /\ events = <<>> /\ ~open
  /\ printed' = IF FinishedEmitted THEN printed ELSE Said(Verdict)
  /\ LET table == IF FinishedEmitted THEN row ELSE Marked(Verdict)
     IN  IF Verdict = "finished" THEN NextLink(table) ELSE Quit(table)

\* The result is ready: the row and the object it has not had yet, and out.
TakeResult ==
  /\ FrontEnd({"console", "json", "silent"})
  /\ pc = "returned"
  /\ printed' = IF FinishedEmitted THEN printed ELSE Said(Verdict)
  /\ LET table == IF FinishedEmitted THEN row ELSE Marked(Verdict)
     IN  IF Verdict = "finished" THEN NextLink(table) ELSE Quit(table)

-----------------------------------------------------------------------------
TaskSteps == Start \/ Succeed \/ Fail \/ FailUnsaid

Next == TaskSteps \/ CloseEvents \/ ReadEvent \/ StreamEnds \/ TakeResult

\* A download returns if its server does not stall forever, and a select takes a
\* branch that stays ready.  Nothing is assumed of the workers that may keep the
\* event stream open.
Spec == Init /\ [][Next]_vars /\ WF_vars(TaskSteps) /\ WF_vars(TakeResult)

-----------------------------------------------------------------------------
Truth(u) == IF result[u] = "ok" THEN "finished" ELSE "failed"

\* One link is fetched at a time, and rows and events have their values.
TypeOK ==
  /\ mode \in Modes /\ url \in Links
  /\ row \in [Links -> {"none", "running", "finished", "failed"}]
  /\ pc \in {"setup", "transfer", "returned"}
  /\ result \in [Links -> {"none", "ok", "error"}]
  /\ \A i \in DOMAIN events : events[i] \in {"started", "finished", "failed"}
  /\ open \in BOOLEAN
  /\ exit \in {"none", "ok", "error"}

\* Automation reads at most one verdict for each link, and it is the download's,
\* whether the event or the result came first (download.rs:340-387).
OneVerdict == \A u \in Links : printed[u] \in {<<>>, <<Truth(u)>>}

\* A row that has been given a verdict keeps it: no event left in the stream is
\* read after the result, and none is read out of order (download.rs:256-285).
RowIsFinal ==
  [][\A u \in Links : row[u] \in {"finished", "failed"} => row'[u] = row[u]]_vars

\* A command that fails has recorded why: the link's row says failed, and so does
\* the JSON object, even if no event did (download.rs:211-214, 280-282, 365-385).
ErrorIsRecorded ==
  exit = "error" => row[url] = "failed" /\ (mode = "json" => printed[url] = <<"failed">>)

\* The command ends even if the event stream is never closed.
Ends == <>(exit # "none")
=============================================================================
