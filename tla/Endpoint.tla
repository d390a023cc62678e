------------------------------ MODULE Endpoint ------------------------------
(***************************************************************************)
(* How daemons and their clients find each other                           *)
(* (crates/arkama/src/daemon.rs): the file with the address of the daemon, *)
(* the ping of a daemon that starts, its listener, the calls of clients,   *)
(* and the order in which a daemon that leaves drops what it has.          *)
(*                                                                         *)
(* A daemon's address is its process: ports are not reused.  What a daemon *)
(* that serves does with a request is in module Daemon.                    *)
(***************************************************************************)
EXTENDS FiniteSets, Naturals

CONSTANTS
  Procs,      \* bound: daemon processes, each started once
  Clients,    \* bound: clients, each with one call
  NoProc,     \* no address
  MaxFaults   \* bound: daemons that crash or fail, and requests that fail

ASSUME EndpointAssumption ==
  NoProc \notin Procs /\ Procs \cap Clients = {} /\ MaxFaults \in Nat

VARIABLES
  fixed,      \* ARKAMA_DAEMON_ADDR is set, for all processes alike
  file,       \* the address in the file, NoProc if there is none
  pc,         \* where each daemon process is in run_foreground
  stopping,   \* DaemonState.stopping
  call,       \* the call of each client, and the ping of each process
  faults,     \* so far
  apart       \* history: no daemon has started while another started or left, or
              \* was told by another that its ping has failed

vars == <<fixed, file, pc, stopping, call, faults, apart>>

\* A call reads the address, connects, and waits for the answer.
Call(stop)  == [pc |-> "read", to |-> NoProc, stop |-> stop]
NoCall      == [pc |-> "none", to |-> NoProc, stop |-> FALSE]
Calling(c)  == call[c].pc \in {"read", "connect", "wait"}

At(p, where) == pc[p] \in where

Starting(p)  == At(p, {"ping", "bind", "publish"})
Leaving(p)   == At(p, {"unlink", "close"})

\* Mutant: the listener is bound before the other daemon is asked for.
Listening_Early(p) == At(p, {"ping", "bind", "publish", "open", "serve", "unlink", "close"})

Listening(p) == At(p, {"publish", "open", "serve", "unlink", "close"})

Init ==
  /\ fixed \in BOOLEAN
  /\ file = NoProc
  /\ pc = [p \in Procs |-> "off"]
  /\ stopping = [p \in Procs |-> FALSE]
  /\ call = [c \in Procs \cup Clients |-> NoCall]
  /\ faults = 0
  /\ apart = TRUE

-----------------------------------------------------------------------------
(* send_request *)

CallStep(c, next) ==
  call' = [call EXCEPT ![c] = next] /\ UNCHANGED <<fixed, file, pc, faults, apart>>

CallBegins(c) ==
  /\ call[c] = NoCall
  /\ \E stop \in BOOLEAN : CallStep(c, Call(stop))
  /\ UNCHANGED stopping

\* read_daemon_addr.  A fixed address is that of whoever listens to it.
ReadAddr(c) ==
  /\ call[c].pc = "read"
  /\ CallStep(c, IF ~fixed /\ file = NoProc THEN [call[c] EXCEPT !.pc = "failed"]
                 ELSE [call[c] EXCEPT !.pc = "connect", !.to = IF fixed THEN NoProc ELSE file])
  /\ UNCHANGED stopping

\* A listener takes connections before its daemon accepts them.
Connect(c) ==
  /\ call[c].pc = "connect"
  /\ \/ \E p \in Procs :
          /\ Listening(p) /\ (fixed \/ call[c].to = p)
          /\ CallStep(c, [call[c] EXCEPT !.pc = "wait", !.to = p])
     \/ /\ \A p \in Procs : Listening(p) => ~fixed /\ call[c].to # p
        /\ CallStep(c, [call[c] EXCEPT !.pc = "failed"])
  /\ UNCHANGED stopping

Served(c) ==
  /\ call[c].pc = "wait" /\ At(call[c].to, {"serve"})
  /\ stopping' = IF call[c].stop THEN [stopping EXCEPT ![call[c].to] = TRUE] ELSE stopping

\* handle_connection and the daemon's select.
Answer(c) == Served(c) /\ CallStep(c, [call[c] EXCEPT !.pc = "ok"])

\* A statement on the table fails, the COUNT of a ping among them, and the answer
\* is an error; the daemon goes on.  One that stops has begun to before it fails,
\* and does nothing more when it is told again.
AnswerFails(c) ==
  /\ Served(c)
  /\ call[c].stop => ~stopping[call[c].to]
  /\ faults < MaxFaults /\ faults' = faults + 1
  /\ call' = [call EXCEPT ![c].pc = "failed"]
  /\ apart' = (apart /\ c \notin Procs)
  /\ UNCHANGED <<fixed, file, pc>>

\* The daemon has dropped its command channel, or is gone: the connection ends
\* without an answer.
HangUp(c) ==
  /\ call[c].pc = "wait" /\ At(call[c].to, {"unlink", "close", "gone"})
  /\ CallStep(c, [call[c] EXCEPT !.pc = "failed"])
  /\ UNCHANGED stopping

-----------------------------------------------------------------------------
(* run_foreground *)

Moves(p, to) == pc' = [pc EXCEPT ![p] = to] /\ UNCHANGED <<fixed, stopping>>

OthersApart(p) == \A q \in Procs \ {p} : ~Starting(q) /\ ~Leaving(q)

Launch(p) ==
  /\ At(p, {"off"})
  /\ Moves(p, "ping")
  /\ call' = [call EXCEPT ![p] = Call(FALSE)]
  /\ apart' = (apart /\ OthersApart(p))
  /\ UNCHANGED <<file, faults>>

\* Mutants: the ping decides nothing; the guard of the address file is there
\* before the ping is answered.
Pinged_Anyway(p) ==
  /\ At(p, {"ping"}) /\ call[p].pc \in {"ok", "failed"}
  /\ Moves(p, "bind")
  /\ UNCHANGED <<file, call, faults, apart>>

Pinged_Guarded(p) ==
  /\ At(p, {"ping"}) /\ call[p].pc \in {"ok", "failed"}
  /\ Moves(p, IF call[p].pc = "ok" THEN "unlink" ELSE "bind")
  /\ UNCHANGED <<file, call, faults, apart>>

\* prepare_listener: a daemon that answers is left alone.
Pinged(p) ==
  /\ At(p, {"ping"}) /\ call[p].pc \in {"ok", "failed"}
  /\ Moves(p, IF call[p].pc = "ok" THEN "gone" ELSE "bind")
  /\ UNCHANGED <<file, call, faults, apart>>

\* One process can listen to a fixed address; else each has a port of its own.
Bind(p) ==
  /\ At(p, {"bind"})
  /\ Moves(p, IF fixed /\ \E q \in Procs : Listening(q) THEN "gone" ELSE "publish")
  /\ UNCHANGED <<file, call, faults, apart>>

\* write_daemon_addr, and the guard.
Publish(p) ==
  /\ At(p, {"publish"})
  /\ Moves(p, "open")
  /\ file' = p
  /\ UNCHANGED <<call, faults, apart>>

\* DaemonState::new and the first schedule.
Open(p) ==
  At(p, {"open"}) /\ Moves(p, "serve") /\ UNCHANGED <<file, call, faults, apart>>

Leave(p) ==
  /\ Moves(p, "unlink")
  /\ apart' = (apart /\ OthersApart(p))
  /\ UNCHANGED <<file, call>>

\* The loop ends when the last download of a daemon that stops has ended.
Stopped(p) == At(p, {"serve"}) /\ stopping[p] /\ Leave(p) /\ UNCHANGED faults

\* The database cannot be opened, or a tick fails.
Fails(p) ==
  At(p, {"open", "serve"}) /\ faults < MaxFaults /\ faults' = faults + 1 /\ Leave(p)

\* AddrFileGuard: the file is removed, whatever is in it.
Unlink(p) ==
  /\ At(p, {"unlink"})
  /\ Moves(p, "close")
  /\ file' = NoProc
  /\ UNCHANGED <<call, faults, apart>>

\* The listener is dropped last.
Close(p) ==
  At(p, {"close"}) /\ Moves(p, "gone") /\ UNCHANGED <<file, call, faults, apart>>

Crash(p) ==
  /\ ~At(p, {"off", "gone"})
  /\ faults < MaxFaults /\ faults' = faults + 1
  /\ pc' = [pc EXCEPT ![p] = "gone"]
  /\ call' = [call EXCEPT ![p] = NoCall]
  /\ UNCHANGED <<fixed, file, stopping, apart>>

-----------------------------------------------------------------------------
CallNext(c) == ReadAddr(c) \/ Connect(c) \/ Answer(c) \/ AnswerFails(c) \/ HangUp(c)

Proceeds(p) ==
  Pinged(p) \/ Bind(p) \/ Publish(p) \/ Open(p) \/ Stopped(p) \/ Unlink(p) \/ Close(p)

Next ==
  \/ \E c \in Clients : CallBegins(c)
  \/ \E c \in Clients \cup Procs : CallNext(c)
  \/ \E p \in Procs : Launch(p) \/ Proceeds(p) \/ Fails(p) \/ Crash(p)

\* Every process that can go on does, and a daemon that serves answers every
\* connection; downloads end (see StopCompletes of module Daemon).  Nobody has to
\* start a daemon or to call one.
Fairness ==
  /\ \A c \in Clients \cup Procs : WF_vars(CallNext(c))
  /\ \A p \in Procs : WF_vars(Proceeds(p))

Spec == Init /\ [][Next]_vars /\ Fairness

-----------------------------------------------------------------------------
\* One daemon at most works on the table, if the address is fixed, or if daemons
\* are started one after the other and not while one leaves, and none is told
\* that its ping has failed; one that is started while another serves gives up,
\* and one that finds the address of a dead daemon does not (daemon.rs:670-680,
\* 565).
OneDaemon ==
  fixed \/ apart =>
    \A p, q \in Procs : At(p, {"open", "serve"}) /\ At(q, {"open", "serve"}) => p = q

\* Clients find the daemon that serves, whatever daemons have come, been refused,
\* left or crashed before (daemon.rs:142-150, 567-572).
Reachable ==
  ~fixed /\ apart => \A p \in Procs : At(p, {"serve"}) => file = p

\* Every call gets an answer or an error, those of a daemon that starts included,
\* also when the daemon they wait for never serves or leaves meanwhile: daemons
\* and their clients do not wait for each other (daemon.rs:566-610, 728-748).
CallsEnd == \A c \in Clients \cup Procs : Calling(c) ~> ~Calling(c)
=============================================================================
