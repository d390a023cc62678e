---------------------------- MODULE LocalProofs ----------------------------
(***************************************************************************)
(* Theorems about module LocalCli, for any number of links and any output  *)
(* modes.                                                                  *)
(*                                                                         *)
(* While a link is fetched the events that nobody has read are what is     *)
(* left of at most two, and the row and the JSON objects are what those    *)
(* that were read made of them.  That is all a front end goes by.          *)
(***************************************************************************)
EXTENDS LocalCli, SequenceTheorems, TLAPS

Verdicts == {"finished", "failed"}

\* What has been said once.
Once(word) == <<word>>

\* The events that may be left of a download that has told its verdict.
Left(ending) == {<<>>, <<"started">>, <<ending>>, <<"started", ending>>}

Shaped ==
  /\ url \in Links
  /\ row = [u \in Links |-> row[u]]
  /\ result = [u \in Links |-> result[u]]
  /\ printed = [u \in Links |-> printed[u]]

\* A download that has not returned has said nothing final.
Running ==
  pc \in {"setup", "transfer"} =>
    /\ events \in {<<>>, <<"started">>} /\ (pc = "setup" => events = <<>>)
    /\ row[url] = "running" /\ printed[url] = <<>>

\* What a download that has returned has said is its result.
Told ==
  pc = "returned" =>
    /\ events \in Left(Verdict)
    /\ events # <<>> => row[url] = "running" /\ printed[url] = <<>>
    /\ row[url] \in {"running", Verdict}
    /\ printed[url] = IF mode = "json" /\ row[url] = Verdict THEN Once(Verdict) ELSE <<>>

\* Of the links to come nothing has been recorded.
Untouched == \A u \in Links : u > url => row[u] = "none" /\ printed[u] = <<>>

Inv ==
  /\ Shaped
  /\ OneVerdict /\ ErrorIsRecorded
  /\ exit = "none" => /\ pc \in {"setup", "transfer", "returned"}
                      /\ Running /\ Told /\ Untouched

\* No verdict in the table is taken back.
RowsKept == \A u \in Links : row[u] \in Verdicts => row'[u] = row[u]

Kept == Inv' /\ RowsKept

-----------------------------------------------------------------------------
LEMMA InitInv == Init => Inv
<1> SUFFICES ASSUME Init
             PROVE  Inv
  OBVIOUS
<1>1. url \in Links /\ url = 1
  BY ConstantsAssumption DEF Init, Links
<1> QED
  BY <1>1 DEF Init, Inv, Shaped, OneVerdict, ErrorIsRecorded, Running, Told, Untouched

\* What is left when a download tells its verdict.
LEMMA Tells ==
  ASSUME NEW ending \in Verdicts, events \in {<<>>, <<"started">>}
  PROVE  Append(events, ending) \in Left(ending)
<1>1. Append(<<>>, ending) = <<ending>>
  OBVIOUS
<1>2. Append(<<"started">>, ending) = <<"started", ending>>
  <2>1. /\ <<"started", ending>> \in Seq(Verdicts \cup {"started"})
        /\ Append(<<"started">>, ending) \in Seq(Verdicts \cup {"started"})
    OBVIOUS
  <2>2. Len(Append(<<"started">>, ending)) = 2 /\ Len(<<"started", ending>>) = 2
    OBVIOUS
  <2>3. Append(<<"started">>, ending)[1] = "started" /\ Append(<<"started">>, ending)[2] = ending
    OBVIOUS
  <2>4. \A i \in 1 .. 2 : Append(<<"started">>, ending)[i] = <<"started", ending>>[i]
    BY <2>3
  <2> QED
    BY <2>1, <2>2, <2>4, SeqEqual
<1> QED
  BY <1>1, <1>2, Zenon DEF Left

\* A step of the download: it sends an event or not, and returns or goes on.
LEMMA TaskKeeps ==
  ASSUME Inv, TaskSteps
  PROVE  Kept
<1>1. /\ exit = "none" /\ pc \in {"setup", "transfer"}
      /\ UNCHANGED <<mode, url, row, open, printed, exit>>
  BY DEF TaskSteps, Start, Succeed, Fail, FailUnsaid, TaskStep
<1>2. /\ Shaped /\ Running /\ Untouched /\ OneVerdict
      /\ events \in {<<>>, <<"started">>} /\ (pc = "setup" => events = <<>>)
      /\ row[url] = "running" /\ printed[url] = <<>>
  BY <1>1 DEF Inv, Running
<1>3. CASE pc' = "transfer" /\ UNCHANGED result /\ events' \in {<<>>, <<"started">>}
  BY <1>1, <1>2, <1>3
  DEF Kept, Inv, Shaped, OneVerdict, Truth, ErrorIsRecorded, Running, Told, Untouched, RowsKept
<1>4. ASSUME NEW how \in {"ok", "error"}, Return(how),
             events' \in Left(IF how = "ok" THEN "finished" ELSE "failed")
      PROVE  Kept
  <2>1. /\ result' = [u \in Links |-> IF u = url THEN how ELSE result[u]]
        /\ pc' = "returned"
    BY <1>2, <1>4 DEF Return, Shaped
  <2>2. Shaped' /\ Verdict' = (IF how = "ok" THEN "finished" ELSE "failed")
    BY <1>1, <1>2, <2>1 DEF Shaped, Verdict
  <2>3. OneVerdict'
    BY <1>1, <1>2, <2>1 DEF OneVerdict, Truth
  <2>4. Told'
    BY <1>1, <1>2, <1>4, <2>1, <2>2 DEF Told
  <2> QED
    BY <1>1, <1>2, <2>1, <2>2, <2>3, <2>4
    DEF Kept, Inv, ErrorIsRecorded, Running, Untouched, RowsKept
<1>5. CASE Start
  BY <1>2, <1>3, <1>5 DEF Start, TaskStep, Send
<1>6. CASE Succeed
  <2>1. events' \in Left("finished")
    <3>1. Append(events, "finished") \in Left("finished")
      BY <1>2, Tells DEF Verdicts
    <3>2. events \in Left("finished")
      BY <1>2, Zenon DEF Left
    <3> QED
      BY <1>6, <3>1, <3>2 DEF Succeed, Send
  <2> QED
    BY <1>4, <1>6, <2>1 DEF Succeed
<1>7. CASE Fail
  <2>1. events' \in Left("failed")
    <3>1. Append(events, "failed") \in Left("failed")
      BY <1>2, Tells DEF Verdicts
    <3>2. events \in Left("failed")
      BY <1>2, Zenon DEF Left
    <3> QED
      BY <1>7, <3>1, <3>2 DEF Fail, Send
  <2> QED
    BY <1>4, <1>7, <2>1 DEF Fail
<1>8. CASE FailUnsaid
  <2>1. events' \in Left("failed")
    BY <1>2, <1>8 DEF FailUnsaid, Left
  <2> QED
    BY <1>4, <1>8, <2>1 DEF FailUnsaid
<1> QED
  BY <1>5, <1>6, <1>7, <1>8 DEF TaskSteps

LEMMA CloseKeeps ==
  ASSUME Inv, CloseEvents \/ UNCHANGED vars
  PROVE  Kept
<1>1. UNCHANGED <<mode, url, row, pc, result, events, printed, exit>>
  BY DEF CloseEvents, vars
<1> QED
  BY <1>1
  DEF Kept, Inv, Shaped, OneVerdict, Truth, ErrorIsRecorded, Running, Told, Verdict, Untouched,
      RowsKept

\* Reading one of what is left leaves less.
LEMMA Read ==
  ASSUME NEW ending \in Verdicts, events \in Left(ending), events # <<>>
  PROVE  /\ Tail(events) \in Left(ending)
         /\ \/ Head(events) = "started"
            \/ Head(events) = ending /\ Tail(events) = <<>>
<1>1. /\ Tail(<<"started">>) = <<>> /\ Head(<<"started">>) = "started"
      /\ Tail(<<ending>>) = <<>> /\ Head(<<ending>>) = ending
      /\ Tail(<<"started", ending>>) = <<ending>> /\ Head(<<"started", ending>>) = "started"
  OBVIOUS
<1>2. events \in {<<"started">>, <<ending>>, <<"started", ending>>}
  BY Zenon DEF Left
<1> QED
  BY <1>1, <1>2, Zenon DEF Left

LEMMA ReadKeeps ==
  ASSUME Inv, ReadEvent
  PROVE  Kept
<1>1. /\ exit = "none" /\ events # <<>> /\ events' = Tail(events)
      /\ UNCHANGED <<mode, url, pc, result, exit>>
      /\ Shaped /\ OneVerdict /\ Running /\ Told /\ Untouched
  BY DEF ReadEvent, FrontEnd, Inv
<1>2. pc \in {"setup", "transfer", "returned"}
  BY <1>1 DEF Inv
<1>3. row[url] = "running" /\ printed[url] = <<>>
  BY <1>1, <1>2 DEF Running, Told
<1>4. CASE Head(events) = "started"
  <2>1. row' = row /\ printed' = printed
    <3>1. row' = [u \in Links |-> IF u = url THEN "running" ELSE row[u]] /\ printed' = printed
      BY <1>1, <1>4 DEF ReadEvent, Marked, Shaped
    <3> QED
      BY <1>1, <1>3, <3>1 DEF Shaped
  <2>2. pc \in {"setup", "transfer"} => events' = <<>>
    <3>1. Tail(<<"started">>) = <<>>
      OBVIOUS
    <3> QED
      BY <1>1, <3>1, Zenon DEF Running
  <2>3. pc = "returned" => events' \in Left(Verdict)
    BY <1>1, Read DEF Told, Verdict, Verdicts
  <2> QED
    BY <1>1, <1>2, <1>3, <2>1, <2>2, <2>3
    DEF Kept, Inv, Shaped, OneVerdict, Truth, ErrorIsRecorded, Running, Told, Verdict, Untouched,
        RowsKept
<1>5. CASE Head(events) # "started"
  <2>1. pc = "returned" /\ Head(events) = Verdict /\ events' = <<>>
    <3>1. pc = "returned"
      BY <1>1, <1>2, <1>5 DEF Running
    <3> QED
      BY <1>1, <1>5, <3>1, Read DEF Told, Verdict, Verdicts
  <2>2. /\ row' = [u \in Links |-> IF u = url THEN Verdict ELSE row[u]]
        /\ printed' = [u \in Links |-> IF u = url /\ mode = "json" THEN Once(Verdict) ELSE printed[u]]
    BY <1>1, <1>3, <1>5, <2>1 DEF ReadEvent, Marked, Said, Shaped, Once
  <2>3. Verdict' = Verdict /\ Verdict = Truth(url)
    BY <1>1 DEF Verdict, Truth
  <2>4. Shaped' /\ Untouched'
    BY <1>1, <2>2 DEF Shaped, Untouched, Links
  <2>5. OneVerdict'
    BY <1>1, <2>2, <2>3 DEF OneVerdict, Truth, Once
  <2>6. Told' /\ Running'
    BY <1>1, <1>3, <2>1, <2>2, <2>3 DEF Told, Running, Left, Shaped
  <2>7. RowsKept
    BY <1>1, <1>3, <2>2 DEF RowsKept, Shaped, Verdicts
  <2> QED
    BY <1>1, <2>1, <2>4, <2>5, <2>6, <2>7 DEF Kept, Inv, ErrorIsRecorded
<1> QED
  BY <1>4, <1>5

\* The command goes on to the next link, or ends well, with what it has recorded
\* of this one.
LEMMA NextLinkKeeps ==
  ASSUME Inv, exit = "none", NEW status, NEW said \in {<<>>, <<Truth(url)>>},
         NEW table, table = [u \in Links |-> IF u = url THEN status ELSE row[u]],
         row[url] \in Verdicts => status = row[url],
         printed' = [u \in Links |-> IF u = url THEN said ELSE printed[u]],
         UNCHANGED mode, NextLink(table)
  PROVE  Kept
<1>1. Shaped /\ OneVerdict /\ Untouched /\ Urls \in Nat
  BY ConstantsAssumption DEF Inv
<1>2. UNCHANGED result
  BY DEF NextLink, task
<1>3. OneVerdict'
  BY <1>1, <1>2 DEF OneVerdict, Truth
<1>4. CASE url < Urls
  <2>1. /\ url' = url + 1 /\ url + 1 \in Links /\ url \in Nat
        /\ row' = [u \in Links |-> IF u = url + 1 THEN "running" ELSE table[u]]
        /\ pc' = "setup" /\ events' = <<>> /\ exit' = exit
    BY <1>1, <1>4 DEF NextLink, Shaped, Links
  <2>2. row[url + 1] = "none" /\ printed[url + 1] = <<>>
    BY <1>1, <2>1 DEF Untouched, Links
  <2>3. Shaped'
    BY <1>1, <1>2, <2>1 DEF Shaped
  <2>4. Untouched'
    BY <1>1, <2>1 DEF Untouched, Links
  <2>5. Running' /\ Told'
    BY <1>1, <2>1, <2>2 DEF Running, Told
  <2>6. RowsKept
    BY <1>1, <2>1, <2>2 DEF RowsKept, Verdicts
  <2> QED
    BY <1>3, <2>1, <2>3, <2>4, <2>5, <2>6 DEF Kept, Inv, ErrorIsRecorded
<1>5. CASE ~(url < Urls)
  <2>1. exit' = "ok" /\ row' = table /\ url' = url
    BY <1>5 DEF NextLink
  <2>2. Shaped'
    BY <1>1, <1>2, <2>1 DEF Shaped
  <2>3. RowsKept
    BY <2>1 DEF RowsKept
  <2> QED
    BY <1>3, <2>1, <2>2, <2>3 DEF Kept, Inv, ErrorIsRecorded
<1> QED
  BY <1>4, <1>5

LEMMA StreamEndsKeeps ==
  ASSUME Inv, StreamEnds
  PROVE  Kept
<1>1. /\ exit = "none" /\ NextLink(row) /\ UNCHANGED <<mode, printed>>
      /\ Shaped /\ OneVerdict
  BY DEF StreamEnds, FrontEnd, Inv
<1>2. /\ row = [u \in Links |-> IF u = url THEN row[url] ELSE row[u]]
      /\ printed' = [u \in Links |-> IF u = url THEN printed[url] ELSE printed[u]]
      /\ printed[url] \in {<<>>, <<Truth(url)>>}
  BY <1>1 DEF Shaped, OneVerdict
<1> QED
  BY <1>1, <1>2, NextLinkKeeps

\* The result is recorded unless the JSON front end has read its event, and then
\* the row and the object are there.
LEMMA TakeResultKeeps ==
  ASSUME Inv, TakeResult
  PROVE  Kept
<1> DEFINE table == IF FinishedEmitted THEN row ELSE Marked(Verdict)
           said  == IF mode = "json" THEN Once(Verdict) ELSE <<>>
<1>1. /\ exit = "none" /\ pc = "returned" /\ UNCHANGED mode
      /\ Shaped /\ OneVerdict /\ Told /\ Verdict = Truth(url)
  BY DEF TakeResult, FrontEnd, Inv, Verdict, Truth
<1>2. /\ row[url] \in {"running", Verdict}
      /\ printed[url] = IF mode = "json" /\ row[url] = Verdict THEN Once(Verdict) ELSE <<>>
      /\ Once(Verdict) # <<>>
  BY <1>1 DEF Told, Once
<1>3. table = [u \in Links |-> IF u = url THEN Verdict ELSE row[u]]
  BY <1>1, <1>2 DEF FinishedEmitted, Marked, Shaped
<1>4. printed' = [u \in Links |-> IF u = url THEN said ELSE printed[u]]
  BY <1>1, <1>2 DEF TakeResult, FinishedEmitted, Said, Shaped, Once
<1>5. said \in {<<>>, <<Truth(url)>>}
  BY <1>1 DEF Once
<1>6. row[url] \in Verdicts => Verdict = row[url]
  BY <1>2 DEF Verdicts
<1>7. IF Verdict = "finished" THEN NextLink(table) ELSE Quit(table)
  BY DEF TakeResult
<1>8. CASE Verdict = "finished"
  <2> HIDE DEF table, said
  <2> QED
    BY <1>1, <1>3, <1>4, <1>5, <1>6, <1>7, <1>8, NextLinkKeeps
<1>9. CASE Verdict # "finished"
  <2>1. Verdict = "failed"
    BY <1>9 DEF Verdict
  <2>2. exit' = "error" /\ row' = table /\ UNCHANGED <<url, result>>
    BY <1>7, <1>9 DEF Quit, task
  <2> HIDE DEF table
  <2>3. Shaped'
    BY <1>1, <1>3, <1>4, <2>2 DEF Shaped
  <2>4. OneVerdict'
    BY <1>1, <1>4, <2>2 DEF OneVerdict, Truth, Once
  <2>5. ErrorIsRecorded'
    BY <1>1, <1>3, <1>4, <2>1, <2>2 DEF ErrorIsRecorded, Shaped, Once
  <2>6. RowsKept
    BY <1>1, <1>3, <1>6, <2>2 DEF RowsKept
  <2> QED
    BY <2>2, <2>3, <2>4, <2>5, <2>6 DEF Kept, Inv
<1> QED
  BY <1>8, <1>9

LEMMA NextKeeps == Inv /\ [Next]_vars => Kept
BY TaskKeeps, CloseKeeps, ReadKeeps, StreamEndsKeeps, TakeResultKeeps DEF Next

LEMMA InvAlways == Spec => []Inv
<1>1. Kept => Inv'
  BY DEF Kept
<1> QED
  BY InitInv, NextKeeps, <1>1, PTL DEF Spec

-----------------------------------------------------------------------------
(* Types *)

Events == {"started", "finished", "failed"}

Types == TypeOK /\ events \in Seq(Events)

\* Where a command that goes on, or stops, leaves its variables.
LEMMA NextLinkTypes ==
  ASSUME Types, NEW table \in [Links -> {"none", "running", "finished", "failed"}],
         mode' = mode, NextLink(table) \/ Quit(table)
  PROVE  Types'
<1>1. Urls \in Nat
  BY ConstantsAssumption
<1>2. CASE NextLink(table) /\ url < Urls
  <2>1. /\ url' = url + 1 /\ url + 1 \in Links
        /\ row' = [table EXCEPT ![url + 1] = "running"]
        /\ pc' = "setup" /\ events' = <<>> /\ open' = TRUE /\ UNCHANGED <<exit, result>>
    BY <1>1, <1>2 DEF NextLink, Types, TypeOK, Links
  <2>2. <<>> \in Seq(Events) /\ DOMAIN (<<>>) = {}
    OBVIOUS
  <2> QED
    BY <2>1, <2>2 DEF Types, TypeOK
<1>3. CASE (NextLink(table) /\ ~(url < Urls)) \/ Quit(table)
  BY <1>3 DEF NextLink, Quit, task, Types, TypeOK
<1> QED
  BY <1>2, <1>3

LEMMA TypesKept == Types /\ [Next]_vars => Types'
<1> SUFFICES ASSUME Types, [Next]_vars
             PROVE  Types'
  OBVIOUS
<1>1. ASSUME NEW event \in Events, Send(event)
      PROVE  events' \in Seq(Events) /\ \A i \in DOMAIN events' : events'[i] \in Events
  <2>1. events' \in Seq(Events)
    BY <1>1 DEF Send, Types
  <2> QED
    BY <2>1
<1>2. CASE Start
  BY <1>1, <1>2 DEF Start, TaskStep, Types, TypeOK, Events
<1>3. CASE Succeed
  BY <1>1, <1>3 DEF Succeed, TaskStep, Return, Types, TypeOK, Events
<1>4. CASE Fail
  BY <1>1, <1>4 DEF Fail, TaskStep, Return, Types, TypeOK, Events
<1>5. CASE FailUnsaid
  BY <1>5 DEF FailUnsaid, TaskStep, Return, Types, TypeOK
<1>6. CASE CloseEvents \/ UNCHANGED vars
  BY <1>6 DEF CloseEvents, vars, Types, TypeOK
<1>7. CASE ReadEvent
  <2>1. /\ events \in Seq(Events) /\ events # <<>> /\ events' = Tail(events)
        /\ UNCHANGED <<mode, url, pc, result, open, exit>>
        /\ row' = Marked("running") \/ row' = Marked(Head(events))
    BY <1>7 DEF ReadEvent, FrontEnd, Types
  <2>2. /\ Head(events) \in Events /\ events' \in Seq(Events)
        /\ \A i \in DOMAIN events' : events'[i] \in Events
    BY <2>1
  <2>3. row' \in [Links -> {"none", "running", "finished", "failed"}]
    <3>1. Head(events) \in {"none", "running", "finished", "failed"} \/ row' = Marked("running")
      BY <1>7, <2>2 DEF ReadEvent, Events
    <3> QED
      BY <1>7, <2>1, <3>1 DEF ReadEvent, Marked, Types, TypeOK
  <2> QED
    BY <2>1, <2>2, <2>3 DEF Types, TypeOK, Events
<1>8. CASE StreamEnds
  BY <1>8, NextLinkTypes DEF StreamEnds, FrontEnd, Types, TypeOK
<1>9. CASE TakeResult
  <2> DEFINE table == IF FinishedEmitted THEN row ELSE Marked(Verdict)
  <2>1. table \in [Links -> {"none", "running", "finished", "failed"}]
    BY DEF Marked, Verdict, Types, TypeOK
  <2>2. mode' = mode /\ (NextLink(table) \/ Quit(table))
    BY <1>9 DEF TakeResult, FrontEnd
  <2> HIDE DEF table
  <2> QED
    BY <2>1, <2>2, NextLinkTypes
<1> QED
  BY <1>2, <1>3, <1>4, <1>5, <1>6, <1>7, <1>8, <1>9 DEF Next, TaskSteps

\* Links, rows, results and events have their values.
THEOREM TypeCorrect == Spec => []TypeOK
<1>1. Init => Types
  BY ConstantsAssumption DEF Init, Types, TypeOK, Links
<1>2. Types => TypeOK
  BY DEF Types
<1> QED
  BY TypesKept, <1>1, <1>2, PTL DEF Spec

-----------------------------------------------------------------------------
\* Automation reads at most one verdict for each link, the download's, whichever
\* of the event and the result comes first (download.rs:340-387).
THEOREM OneVerdictForEach == Spec => []OneVerdict
<1>1. Inv => OneVerdict
  BY DEF Inv
<1> QED
  BY InvAlways, <1>1, PTL

\* A command that fails has recorded the failure of the link it stopped at
\* (download.rs:211-214, 280-282, 365-385).
THEOREM FailureIsRecorded == Spec => []ErrorIsRecorded
<1>1. Inv => ErrorIsRecorded
  BY DEF Inv
<1> QED
  BY InvAlways, <1>1, PTL

\* No verdict in the table is taken back by an event that is read late
\* (download.rs:256-285).
THEOREM RowsAreFinal == Spec => RowIsFinal
<1>1. Kept => [\A u \in Links : row[u] \in {"finished", "failed"} => row'[u] = row[u]]_vars
  BY DEF Kept, RowsKept, Verdicts
<1> QED
  BY InitInv, InvAlways, NextKeeps, <1>1, PTL DEF Spec, RowIsFinal
=============================================================================
