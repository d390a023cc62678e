--------------------------- MODULE EndpointProofs ---------------------------
(***************************************************************************)
(* Theorems about module Endpoint, for any number of daemon processes,     *)
(* clients and faults.                                                     *)
(*                                                                         *)
(* With a fixed address the listener keeps daemons apart.  Without one     *)
(* their pings do, as long as none starts while another starts or leaves   *)
(* and no daemon answers a ping with an error: the address file then leads *)
(* the ping of a daemon that starts to the one that serves, at every step  *)
(* of the ping.                                                            *)
(***************************************************************************)
EXTENDS Endpoint, TLAPS

Phases == {"off", "ping", "bind", "publish", "open", "serve", "unlink", "close", "gone"}

CallStates == [pc   : {"none", "read", "connect", "wait", "ok", "failed"},
               to   : Procs \cup {NoProc},
               stop : BOOLEAN]

Typed ==
  /\ fixed \in BOOLEAN /\ apart \in BOOLEAN
  /\ file \in Procs \cup {NoProc}
  /\ pc \in [Procs -> Phases]
  /\ call \in [Procs \cup Clients -> CallStates]

Working(p) == At(p, {"open", "serve"})

\* What keeps daemons with a fixed address apart.
ListensAlone == \A p, q \in Procs : Listening(p) /\ Listening(q) => p = q

\* Nobody starts or leaves while another does.
InTurn ==
  \A p, q \in Procs :
    p # q /\ (Starting(p) \/ Leaving(p)) => ~Starting(q) /\ ~Leaving(q)

\* A daemon that has not found another, or leaves, is the only one.
WorksAlone ==
  \A p, q \in Procs : p # q /\ (At(p, {"bind", "publish"}) \/ Leaving(p)) => ~Working(q)

\* The ping of p is on its way to q, and does not fail.
Finds(p, q) ==
  \/ call[p].pc \in {"read", "ok"}
  \/ call[p].pc \in {"connect", "wait"} /\ call[p].to = q

PingFinds == \A p, q \in Procs : At(p, {"ping"}) /\ Working(q) => Finds(p, q)

Published == \A p \in Procs : Working(p) => file = p

Apart == InTurn /\ WorksAlone /\ PingFinds /\ Published

Inv ==
  /\ Typed
  /\ fixed => ListensAlone
  /\ ~fixed /\ apart => Apart

-----------------------------------------------------------------------------
(* Types *)

LEMMA TypedInit == Init => Typed
  BY DEF Init, Typed, Phases, CallStates, NoCall

\* A call of a client or a ping goes on.
LEMMA CallTyped ==
  ASSUME Typed, NEW c \in Clients \cup Procs, CallNext(c)
  PROVE  Typed'
<1> USE DEF Typed, CallStates, CallStep
<1>1. CASE ReadAddr(c)
  <2>1. call[c] \in CallStates
    OBVIOUS
  <2>2. CASE ~fixed /\ file = NoProc
    BY <1>1, <2>1, <2>2 DEF ReadAddr
  <2>3. CASE ~(~fixed /\ file = NoProc)
    BY <1>1, <2>1, <2>3 DEF ReadAddr
  <2> QED
    BY <2>2, <2>3
<1>2. CASE Connect(c)
  <2>1. call[c] \in CallStates
    OBVIOUS
  <2>2. ASSUME NEW p \in Procs, CallStep(c, [call[c] EXCEPT !.pc = "wait", !.to = p])
        PROVE  Typed'
    BY <2>1, <2>2
  <2>3. ASSUME CallStep(c, [call[c] EXCEPT !.pc = "failed"])
        PROVE  Typed'
    BY <2>1, <2>3
  <2> QED
    BY <1>2, <2>2, <2>3 DEF Connect
<1>3. CASE Answer(c)
  BY <1>3 DEF Answer, Served
<1>4. CASE AnswerFails(c)
  <2>1. call' \in [Procs \cup Clients -> CallStates]
    BY <1>4 DEF AnswerFails
  <2>2. apart' \in BOOLEAN
    BY <1>4, Zenon DEF AnswerFails
  <2> QED
    BY <1>4, <2>1, <2>2 DEF AnswerFails
<1>5. CASE HangUp(c)
  BY <1>5 DEF HangUp
<1> QED
  BY <1>1, <1>2, <1>3, <1>4, <1>5 DEF CallNext

LEMMA TypedKept ==
  ASSUME Typed, [Next]_vars
  PROVE  Typed'
<1>1. ASSUME NEW c \in Clients, CallBegins(c) PROVE Typed'
  BY <1>1 DEF Typed, CallStates, CallBegins, CallStep, Call
<1>2. ASSUME NEW c \in Clients \cup Procs, CallNext(c) PROVE Typed'
  BY <1>2, CallTyped
<1>3. ASSUME NEW p \in Procs, Launch(p) \/ Proceeds(p) \/ Fails(p) \/ Crash(p) PROVE Typed'
  <2>1. pc' \in [Procs -> Phases]
    BY <1>3 DEF Typed, Phases, Launch, Proceeds, Fails, Crash, Pinged, Bind, Publish, Open,
                Stopped, Leave, Unlink, Close, Moves
  <2>2. call' \in [Procs \cup Clients -> CallStates]
    <3>1. CASE Launch(p)
      BY <3>1 DEF Typed, CallStates, Call, Launch
    <3>2. CASE Crash(p)
      BY <3>2 DEF Typed, CallStates, NoCall, Crash
    <3>3. CASE Proceeds(p) \/ Fails(p)
      BY <3>3 DEF Typed, Proceeds, Fails, Pinged, Bind, Publish, Open, Stopped, Leave, Unlink,
                  Close
    <3> QED
      BY <1>3, <3>1, <3>2, <3>3
  <2>3. fixed' \in BOOLEAN /\ apart' \in BOOLEAN
    BY <1>3, Zenon DEF Typed, Launch, Proceeds, Fails, Crash, Pinged, Bind, Publish, Open,
                Stopped, Leave, Unlink, Close, Moves
  <2>4. file' \in Procs \cup {NoProc}
    BY <1>3 DEF Typed, Launch, Proceeds, Fails, Crash, Pinged, Bind, Publish, Open, Stopped,
                Leave, Unlink, Close
  <2> QED
    BY <2>1, <2>2, <2>3, <2>4 DEF Typed
<1>4. CASE UNCHANGED vars
  BY <1>4 DEF Typed, vars
<1> QED
  BY <1>1, <1>2, <1>3, <1>4 DEF Next

-----------------------------------------------------------------------------
(* A fixed address *)

\* Only a daemon that binds begins to listen, and not beside another.
LEMMA FixedKept ==
  ASSUME Typed, fixed, ListensAlone, [Next]_vars
  PROVE  ListensAlone'
<1> USE DEF ListensAlone, Listening, At
<1>1. ASSUME NEW c \in Clients, CallBegins(c) PROVE ListensAlone'
  BY <1>1 DEF CallBegins, CallStep
<1>2. ASSUME NEW c \in Clients \cup Procs, CallNext(c) PROVE ListensAlone'
  BY <1>2 DEF CallNext, ReadAddr, Connect, Answer, AnswerFails, HangUp, CallStep
<1>3. ASSUME NEW p \in Procs, Bind(p) PROVE ListensAlone'
  BY <1>3 DEF Typed, Bind, Moves
<1>4. ASSUME NEW p \in Procs, Launch(p) \/ Pinged(p) \/ Crash(p) PROVE ListensAlone'
  BY <1>4 DEF Typed, Launch, Pinged, Crash, Moves
<1>5. ASSUME NEW p \in Procs,
             Publish(p) \/ Open(p) \/ Stopped(p) \/ Fails(p) \/ Unlink(p) \/ Close(p)
      PROVE  ListensAlone'
  BY <1>5 DEF Typed, Publish, Open, Stopped, Fails, Leave, Unlink, Close, Moves
<1>6. CASE UNCHANGED vars
  BY <1>6 DEF vars
<1> QED
  BY <1>1, <1>2, <1>3, <1>4, <1>5, <1>6 DEF Next, Proceeds

-----------------------------------------------------------------------------
(* An address of one's own *)

\* A call that goes on loses no daemon that works: its address is in the file,
\* it listens, and it has not answered a ping with an error.
LEMMA CallFinds ==
  ASSUME Typed, Apart, ~fixed, NEW c \in Clients \cup Procs, CallNext(c), apart'
  PROVE  Apart'
<1>1. pc' = pc /\ file' = file /\ \A p \in Procs : p # c => call'[p] = call[p]
  BY DEF CallNext, ReadAddr, Connect, Answer, AnswerFails, HangUp, CallStep, Typed
<1>2. InTurn' /\ WorksAlone' /\ Published'
  BY <1>1 DEF Apart, InTurn, WorksAlone, Published, Starting, Leaving, Working, At
<1>3. ASSUME NEW q \in Procs, Working(q), c \in Procs, Finds(c, q)
      PROVE  Finds(c, q)'
  <2>1. CASE ReadAddr(c)
    <3>1. file = q /\ file # NoProc
      BY <1>3, EndpointAssumption DEF Apart, Published
    <3> QED
      BY <2>1, <3>1, <1>3 DEF ReadAddr, CallStep, Finds, Typed, CallStates
  <2>2. CASE Connect(c)
    <3>1. Listening(q)
      BY <1>3 DEF Working, Listening, At
    <3>2. call[c].pc = "connect" /\ call[c].to = q
      BY <2>2, <1>3 DEF Connect, Finds
    <3>3. CallStep(c, [call[c] EXCEPT !.pc = "wait", !.to = q])
      BY <2>2, <3>1, <3>2 DEF Connect
    <3> QED
      BY <3>3 DEF CallStep, Finds, Typed, CallStates
  <2>3. CASE Answer(c)
    BY <2>3, <1>3 DEF Answer, CallStep, Finds, Typed, CallStates
  <2>4. CASE AnswerFails(c)
    BY <2>4, <1>3 DEF AnswerFails
  <2>5. CASE HangUp(c)
    BY <2>5, <1>3 DEF HangUp, Finds, Working, At, Typed, CallStates
  <2> QED
    BY <2>1, <2>2, <2>3, <2>4, <2>5 DEF CallNext
<1>4. PingFinds'
  BY <1>1, <1>3 DEF Apart, PingFinds, Finds, Working, At
<1> QED
  BY <1>2, <1>4 DEF Apart

\* A daemon that starts does so while no other starts or leaves, and its ping
\* begins by reading the file.
LEMMA LaunchKeeps ==
  ASSUME Typed, ~fixed, apart => Apart, NEW p \in Procs, Launch(p), apart'
  PROVE  Apart'
<1>1. /\ OthersApart(p) /\ Apart /\ pc[p] = "off"
      /\ pc' = [pc EXCEPT ![p] = "ping"] /\ file' = file
      /\ call' = [call EXCEPT ![p] = Call(FALSE)]
  BY DEF Launch, Moves, At
<1> USE DEF Apart, Starting, Leaving, Working, At
<1>2. InTurn'
  BY <1>1 DEF InTurn, OthersApart, Typed
<1>3. WorksAlone'
  BY <1>1 DEF WorksAlone, Typed
<1>4. PingFinds'
  BY <1>1 DEF PingFinds, Finds, Call, Typed
<1>5. Published'
  BY <1>1 DEF Published, Typed
<1> QED
  BY <1>2, <1>3, <1>4, <1>5

\* A ping that fails has found nobody.
LEMMA PingedKeeps ==
  ASSUME Typed, Apart, NEW p \in Procs, Pinged(p)
  PROVE  Apart'
<1>1. /\ pc[p] = "ping" /\ call[p].pc \in {"ok", "failed"}
      /\ pc' = [pc EXCEPT ![p] = IF call[p].pc = "ok" THEN "gone" ELSE "bind"]
      /\ file' = file /\ call' = call
  BY DEF Pinged, Moves, At
<1> USE DEF Apart, Starting, Leaving, Working, At
<1>2. InTurn'
  BY <1>1 DEF InTurn, Typed
<1>3. call[p].pc = "failed" => \A q \in Procs : ~Working(q)
  BY <1>1 DEF PingFinds, Finds
<1>4. WorksAlone'
  BY <1>1, <1>3 DEF WorksAlone, Typed
<1>5. PingFinds'
  BY <1>1 DEF PingFinds, Finds, Typed
<1>6. Published'
  BY <1>1 DEF Published, Typed
<1> QED
  BY <1>2, <1>4, <1>5, <1>6

\* The steps of a daemon that is alone with its listener.
LEMMA StartKeeps ==
  ASSUME Typed, Apart, ~fixed, NEW p \in Procs, Bind(p) \/ Publish(p) \/ Open(p)
  PROVE  Apart'
<1> USE DEF Apart, Starting, Leaving, Working, At
<1>1. CASE Bind(p)
  <2>1. pc[p] = "bind" /\ pc' = [pc EXCEPT ![p] = "publish"] /\ file' = file /\ call' = call
    BY <1>1 DEF Bind, Moves
  <2> QED
    BY <2>1 DEF InTurn, WorksAlone, PingFinds, Published, Finds, Typed
<1>2. CASE Publish(p)
  <2>1. pc[p] = "publish" /\ pc' = [pc EXCEPT ![p] = "open"] /\ file' = p /\ call' = call
    BY <1>2 DEF Publish, Moves
  <2>2. InTurn' /\ WorksAlone'
    BY <2>1 DEF InTurn, WorksAlone, Typed
  <2>3. PingFinds' /\ Published'
    BY <2>1 DEF InTurn, WorksAlone, PingFinds, Published, Finds, Typed
  <2> QED
    BY <2>2, <2>3
<1>3. CASE Open(p)
  <2>1. pc[p] = "open" /\ pc' = [pc EXCEPT ![p] = "serve"] /\ file' = file /\ call' = call
    BY <1>3 DEF Open, Moves
  <2> QED
    BY <2>1 DEF InTurn, WorksAlone, PingFinds, Published, Finds, Typed
<1> QED
  BY <1>1, <1>2, <1>3

\* A daemon that leaves was the only one that worked.
LEMMA LeaveKeeps ==
  ASSUME Typed, apart => Apart, NEW p \in Procs, Stopped(p) \/ Fails(p), apart'
  PROVE  Apart'
<1>1. /\ OthersApart(p) /\ Apart /\ pc[p] \in {"open", "serve"}
      /\ pc' = [pc EXCEPT ![p] = "unlink"] /\ file' = file /\ call' = call
  BY DEF Stopped, Fails, Leave, Moves, At
<1> USE DEF Apart, Starting, Leaving, Working, At
<1>2. InTurn'
  BY <1>1 DEF InTurn, OthersApart, Typed
<1>3. WorksAlone'
  BY <1>1 DEF WorksAlone, Published, OthersApart, Typed
<1>4. PingFinds' /\ Published'
  BY <1>1 DEF PingFinds, Published, Finds, Typed
<1> QED
  BY <1>2, <1>3, <1>4

\* The file is removed while nobody works.
LEMMA GoneKeeps ==
  ASSUME Typed, Apart, NEW p \in Procs, Unlink(p) \/ Close(p) \/ Crash(p)
  PROVE  Apart'
<1> USE DEF Apart, Starting, Leaving, Working, At
<1>1. CASE Unlink(p)
  <2>1. pc[p] = "unlink" /\ pc' = [pc EXCEPT ![p] = "close"] /\ call' = call
    BY <1>1 DEF Unlink, Moves
  <2> QED
    BY <2>1 DEF InTurn, WorksAlone, PingFinds, Published, Finds, Typed
<1>2. CASE Close(p)
  <2>1. pc[p] = "close" /\ pc' = [pc EXCEPT ![p] = "gone"] /\ file' = file /\ call' = call
    BY <1>2 DEF Close, Moves
  <2> QED
    BY <2>1 DEF InTurn, WorksAlone, PingFinds, Published, Finds, Typed
<1>3. CASE Crash(p)
  <2>1. /\ pc' = [pc EXCEPT ![p] = "gone"] /\ file' = file
        /\ \A q \in Procs : q # p => call'[q] = call[q]
    BY <1>3 DEF Crash, Typed
  <2> QED
    BY <2>1 DEF InTurn, WorksAlone, PingFinds, Published, Finds, Typed
<1> QED
  BY <1>1, <1>2, <1>3

LEMMA ApartKept ==
  ASSUME Typed, ~fixed, apart => Apart, [Next]_vars, apart'
  PROVE  Apart'
<1>1. ASSUME NEW c \in Clients, CallBegins(c) PROVE Apart'
  BY <1>1, EndpointAssumption
  DEF CallBegins, CallStep, Apart, InTurn, WorksAlone, PingFinds, Published, Finds, Starting,
      Leaving, Working, At, Typed
<1>2. ASSUME NEW c \in Clients \cup Procs, CallNext(c) PROVE Apart'
  <2>1. apart
    BY <1>2 DEF CallNext, ReadAddr, Connect, Answer, AnswerFails, HangUp, CallStep
  <2> QED
    BY <1>2, <2>1, CallFinds
<1>3. ASSUME NEW p \in Procs, Launch(p) PROVE Apart'
  BY <1>3, LaunchKeeps
<1>4. ASSUME NEW p \in Procs, Stopped(p) \/ Fails(p) PROVE Apart'
  BY <1>4, LeaveKeeps
<1>5. ASSUME NEW p \in Procs,
             Pinged(p) \/ Bind(p) \/ Publish(p) \/ Open(p) \/ Unlink(p) \/ Close(p) \/ Crash(p)
      PROVE  Apart'
  <2>1. apart
    BY <1>5 DEF Pinged, Bind, Publish, Open, Unlink, Close, Crash
  <2> QED
    BY <1>5, <2>1, PingedKeeps, StartKeeps, GoneKeeps
<1>6. CASE UNCHANGED vars
  BY <1>6 DEF vars, Apart, InTurn, WorksAlone, PingFinds, Published, Finds, Starting, Leaving,
              Working, At
<1> QED
  BY <1>1, <1>2, <1>3, <1>4, <1>5, <1>6 DEF Next, Proceeds

-----------------------------------------------------------------------------
(* Theorems *)

\* Daemons stay apart, by the listener or by their pings.
LEMMA InvAlways == Spec => []Inv
<1>1. Init => Inv
  <2> SUFFICES ASSUME Init PROVE Inv
    OBVIOUS
  <2>1. \A p \in Procs : pc[p] = "off"
    BY DEF Init
  <2> QED
    BY <2>1, TypedInit DEF Inv, ListensAlone, Apart, InTurn, WorksAlone, PingFinds, Published,
                           Listening, Starting, Leaving, Working, At
<1>2. Inv /\ [Next]_vars => Inv'
  <2> SUFFICES ASSUME Inv, [Next]_vars PROVE Inv'
    OBVIOUS
  <2>1. Typed'
    BY TypedKept DEF Inv
  <2>2. fixed' = fixed
    BY DEF Next, CallBegins, CallNext, ReadAddr, Connect, Answer, AnswerFails, HangUp,
           CallStep, Launch, Proceeds, Pinged, Bind, Publish, Open, Stopped, Fails, Leave, Unlink, Close, Crash,
           Moves, vars
  <2>3. fixed' => ListensAlone'
    BY <2>2, FixedKept DEF Inv
  <2>4. ~fixed' /\ apart' => Apart'
    BY <2>2, ApartKept DEF Inv
  <2> QED
    BY <2>1, <2>3, <2>4 DEF Inv
<1> QED
  BY <1>1, <1>2, PTL DEF Spec

\* One daemon at most works on the table, if the address is fixed, or if daemons
\* do not start while another starts or leaves and none answers the ping of
\* another with an error.
THEOREM OnlyOneDaemon == Spec => []OneDaemon
<1>1. Inv => OneDaemon
  BY DEF Inv, OneDaemon, ListensAlone, Listening, Apart, Published, Working, At
<1> QED
  BY <1>1, InvAlways, PTL

\* The address file leads to the daemon that serves, if daemons do not start while
\* another starts or leaves and none answers the ping of another with an error.
THEOREM DaemonIsReachable == Spec => []Reachable
<1>1. Inv => Reachable
  BY DEF Inv, Reachable, Apart, Published, Working, At
<1> QED
  BY <1>1, InvAlways, PTL
=============================================================================
