--------------------------------- MODULE Server ---------------------------------
(***************************************************************************)
(* The listener (libs/http-router/src/server/server.cc) with its sessions  *)
(* on the threads of the program that runs the io_context                  *)
(* (examples/simple-server.cc).                                            *)
(*                                                                         *)
(* Setting up the acceptor takes four calls and any of them may fail;      *)
(* run() then reports a port and starts the accept loop.  The acceptor and *)
(* every connection have a strand each, so handlers of one connection do   *)
(* not overlap; but on_accept, on the acceptor's strand, creates a session *)
(* and starts its first read, whose handler may run on another thread      *)
(* before on_accept is done.  Sessions refer to a string in the listener,  *)
(* which nothing keeps alive but the accept loop itself.                   *)
(*                                                                         *)
(* What a session does inside a handler is in HttpSession; here it is      *)
(* reduced to the operations it starts, as AsyncOps allows them.           *)
(*                                                                         *)
(* Definitions called Faulty... are the ones below them with one likely    *)
(* mistake; no action uses them.  They show what each property excludes.   *)
(***************************************************************************)
EXTENDS Naturals, AsyncOps

CONSTANTS
  Threads,    \* the threads that call ioc.run()
  Main,       \* the one that runs main()
  Conns,      \* the connections that clients make
  NoConn,     \* a thread is concerned with no connection
  MaxFaults   \* bound: how many accepts fail for a passing reason

ASSUME MainAssumption == Main \in Threads /\ NoConn \notin Conns
ASSUME FaultsAssumption == MaxFaults \in Nat

VARIABLES
  acceptor,  \* "closed", "open", "bound", "listening": how far the set-up came
  port,      \* listen() has returned an endpoint with a port
  accept,    \* the accept operation: "none", "waiting", "ok", "error"
  faults,    \* accepts that failed for a passing reason
  phase,     \* a connection: "new", "backlog", "accepted", "refused"
  ops,       \* the asynchronous operations of each connection
  at,        \* what each thread is doing, see At
  conn,      \* the connection whose handler, or creation, it is busy with
  signal,    \* the wait for SIGINT or SIGTERM: "none", "waiting", "ready", "handled"
  stopped,   \* ioc.stop() was called
  died       \* std::terminate was called

vars == <<acceptor, port, accept, faults, phase, ops, at, conn, signal, stopped, died>>
setup == <<acceptor, port>>
threads == <<at, conn>>
ends == <<signal, stopped, died>>

\* "off": not started; "option" to "spawn": main() before ioc.run();
\* "idle": in ioc.run(), between handlers; "create" to "rearm": in on_accept;
\* "read", "write": in on_read or on_write; "exited": ioc.run() returned.
SetUp == {"open", "option", "bind", "listen", "run", "spawn"}
OnAccept == {"create", "started", "rearm"}
At == {"off", "idle", "read", "write", "exited", "done"} \cup SetUp \cup OnAccept

TypeOK ==
  /\ acceptor \in {"closed", "open", "bound", "listening"}
  /\ port \in BOOLEAN
  /\ accept \in {"none", "waiting", "ok", "error"}
  /\ faults \in 0..MaxFaults
  /\ phase \in [Conns -> {"new", "backlog", "accepted", "refused"}]
  /\ ops \in [Conns -> Ops]
  /\ at \in [Threads -> At]
  /\ conn \in [Threads -> Conns \cup {NoConn}]
  /\ signal \in {"none", "waiting", "ready", "handled"}
  /\ stopped \in BOOLEAN
  /\ died \in BOOLEAN

--------------------------------------------------------------------------------
(* Setting up: the constructor of listener, run(), and main().             *)

\* One call of the constructor: on an error it returns early, and run()
\* follows all the same.
SetUpStep(here, next, result) ==
  /\ at[Main] = here
  /\ \/ acceptor' = result /\ at' = [at EXCEPT ![Main] = next]
     \/ acceptor' = acceptor /\ at' = [at EXCEPT ![Main] = "run"]
  /\ UNCHANGED <<port, accept, faults, phase, ops, conn, ends>>

OpenAcceptor == SetUpStep("open", "option", "open")
SetOption == SetUpStep("option", "bind", "open")
Bind == SetUpStep("bind", "listen", "bound")
Listen == SetUpStep("listen", "run", "listening")

\* acceptor_.local_endpoint().port() in run(): the port of a bound socket, 0
\* for one that is not bound, and 0 for the exception of one that is not open.
HasPort(a) == a \in {"bound", "listening"}

\* run(): without a port there is no accept loop and main() returns.
Run ==
  /\ at[Main] = "run"
  /\ port' = HasPort(acceptor)
  /\ IF HasPort(acceptor)
       THEN accept' = "waiting" /\ signal' = "waiting" /\ at' = [at EXCEPT ![Main] = "spawn"]
       ELSE at' = [at EXCEPT ![Main] = "done"] /\ UNCHANGED <<accept, signal>>
  /\ UNCHANGED <<acceptor, faults, phase, ops, conn, stopped, died>>

\* Faulty: thread_count is one too high.
FaultySpawn ==
  /\ at[Main] = "spawn"
  /\ at' = [t \in Threads \cup {NoConn} |-> "idle"]
  /\ UNCHANGED <<setup, accept, faults, phase, ops, conn, ends>>

\* main() starts the other threads, then runs the io_context itself.
Spawn ==
  /\ at[Main] = "spawn"
  /\ IF \E t \in Threads : at[t] = "off"
       THEN \E t \in Threads : at[t] = "off" /\ at' = [at EXCEPT ![t] = "idle"]
       ELSE at' = [at EXCEPT ![Main] = "idle"]
  /\ UNCHANGED <<setup, accept, faults, phase, ops, conn, ends>>

--------------------------------------------------------------------------------
(* The kernel and the clients.                                             *)

Connect(c) ==
  /\ acceptor = "listening"
  /\ phase[c] = "new"
  /\ phase' = [phase EXCEPT ![c] = "backlog"]
  /\ UNCHANGED <<setup, accept, faults, ops, threads, ends>>

\* async_accept is done.  On an acceptor that does not listen it always fails.
AcceptCompletes ==
  /\ accept = "waiting"
  /\ \/ /\ \E c \in Conns : phase[c] = "backlog"
        /\ accept' = "ok" /\ UNCHANGED faults
     \/ /\ acceptor = "listening" /\ faults < MaxFaults
        /\ accept' = "error" /\ faults' = faults + 1
     \/ /\ acceptor # "listening"
        /\ accept' = "error" /\ UNCHANGED faults
  /\ UNCHANGED <<setup, phase, ops, threads, ends>>

OpCompletes(c) ==
  /\ \E o \in Completions(ops[c]) : ops' = [ops EXCEPT ![c] = o]
  /\ UNCHANGED <<setup, accept, faults, phase, threads, ends>>

SignalArrives ==
  /\ signal = "waiting"
  /\ signal' = "ready"
  /\ UNCHANGED <<setup, accept, faults, phase, ops, threads, stopped, died>>

--------------------------------------------------------------------------------
(* The threads.                                                            *)

\* A thread in ioc.run() that may take the next handler.
Free(t) == at[t] = "idle" /\ ~stopped /\ ~died

Goes(t, where, c) ==
  /\ at' = [at EXCEPT ![t] = where]
  /\ conn' = [conn EXCEPT ![t] = c]

\* on_accept after an error of the accept, of which nothing is left.
OnAcceptError(t) ==
  /\ Free(t) /\ accept = "error"
  /\ accept' = "none"
  /\ Goes(t, "rearm", NoConn)
  /\ UNCHANGED <<setup, faults, phase, ops, ends>>

\* Faulty: accepts again before it is done with this connection.
FaultyOnAcceptSocket(t, c) ==
  /\ Free(t) /\ accept = "ok" /\ phase[c] = "backlog"
  /\ accept' = "waiting"
  /\ phase' = [phase EXCEPT ![c] = "accepted"] /\ Goes(t, "create", c)
  /\ UNCHANGED <<setup, faults, ops, ends>>

\* on_accept with a socket; its client may be gone, then remote_endpoint fails.
OnAcceptSocket(t, c) ==
  /\ Free(t) /\ accept = "ok" /\ phase[c] = "backlog"
  /\ accept' = "none"
  /\ \/ phase' = [phase EXCEPT ![c] = "accepted"] /\ Goes(t, "create", c)
     \/ phase' = [phase EXCEPT ![c] = "refused"] /\ Goes(t, "rearm", NoConn)
  /\ UNCHANGED <<setup, faults, ops, ends>>

\* http_session::run() in on_accept: the first read is outstanding from here
\* on, and on_accept does not touch the session again.
StartSession(t) ==
  /\ at[t] = "create" /\ ~died
  /\ ops' = [ops EXCEPT ![conn[t]] = FirstOps]
  /\ Goes(t, "started", conn[t])
  /\ UNCHANGED <<setup, accept, faults, phase, ends>>

\* The temporary shared_ptr of on_accept is released: the session is gone if
\* its handlers are done with it by now.
ReleaseSession(t) ==
  /\ at[t] = "started" /\ ~died
  /\ Goes(t, "rearm", NoConn)
  /\ UNCHANGED <<setup, accept, faults, phase, ops, ends>>

\* Faulty: returns after an error without accepting again.
FaultyNextAccept(t) ==
  /\ at[t] = "rearm" /\ ~died
  /\ accept' = IF faults > 0 THEN "none" ELSE "waiting"
  /\ Goes(t, "idle", NoConn)
  /\ UNCHANGED <<setup, faults, phase, ops, ends>>

\* next_accept() at the end of on_accept, whatever happened before.
NextAccept(t) ==
  /\ at[t] = "rearm" /\ ~died
  /\ accept' = "waiting"
  /\ Goes(t, "idle", NoConn)
  /\ UNCHANGED <<setup, faults, phase, ops, ends>>

\* Faulty: the connections have no strands.
FaultyStrandFree(c) == TRUE

\* make_strand(ioc_) in next_accept: no handler of the connection is running.
StrandFree(c) == \A t \in Threads : at[t] \in {"read", "write"} => conn[t] # c

ReadBegins(t, c) ==
  /\ Free(t) /\ ops[c].rd = "ready" /\ StrandFree(c)
  /\ Goes(t, "read", c)
  /\ UNCHANGED <<setup, accept, faults, phase, ops, ends>>

WriteBegins(t, c) ==
  /\ Free(t) /\ ops[c].wr = "ready" /\ StrandFree(c)
  /\ Goes(t, "write", c)
  /\ UNCHANGED <<setup, accept, faults, phase, ops, ends>>

\* The handler of the request sends a response, and that starts a write.
Responds(t) ==
  /\ at[t] = "read" /\ ~died
  /\ \E o \in DuringRead(ops[conn[t]]) : ops' = [ops EXCEPT ![conn[t]] = o]
  /\ UNCHANGED <<setup, accept, faults, phase, threads, ends>>

ReadReturns(t) ==
  /\ at[t] = "read" /\ ~died
  /\ \E o \in AfterRead(ops[conn[t]]) : ops' = [ops EXCEPT ![conn[t]] = o]
  /\ Goes(t, "idle", NoConn)
  /\ UNCHANGED <<setup, accept, faults, phase, ends>>

WriteReturns(t) ==
  /\ at[t] = "write" /\ ~died
  /\ \E o \in AfterWrite(ops[conn[t]]) : ops' = [ops EXCEPT ![conn[t]] = o]
  /\ Goes(t, "idle", NoConn)
  /\ UNCHANGED <<setup, accept, faults, phase, ends>>

\* An exception of a request handler leaves ioc.run(), and no caller of that
\* catches it.
Throws(t) ==
  /\ at[t] = "read" /\ ~died
  /\ died' = TRUE
  /\ UNCHANGED <<setup, accept, faults, phase, ops, threads, signal, stopped>>

\* Faulty: the handler of the signal forgets ioc.stop().
FaultyOnSignal(t) ==
  /\ Free(t) /\ signal = "ready"
  /\ signal' = "handled"
  /\ UNCHANGED <<setup, accept, faults, phase, ops, threads, stopped, died>>

\* The handler of the signal set.
OnSignal(t) ==
  /\ Free(t) /\ signal = "ready"
  /\ signal' = "handled"
  /\ stopped' = TRUE
  /\ UNCHANGED <<setup, accept, faults, phase, ops, threads, died>>

\* ioc.run() returns.
Exits(t) ==
  /\ at[t] = "idle" /\ stopped /\ ~died
  /\ at' = [at EXCEPT ![t] = "exited"]
  /\ UNCHANGED <<setup, accept, faults, phase, ops, conn, ends>>

\* main() has joined the other threads.
Join ==
  /\ \A t \in Threads : at[t] = "exited"
  /\ at' = [at EXCEPT ![Main] = "done"]
  /\ UNCHANGED <<setup, accept, faults, phase, ops, conn, ends>>

--------------------------------------------------------------------------------

Init ==
  /\ acceptor = "closed"
  /\ port = FALSE
  /\ accept = "none"
  /\ faults = 0
  /\ phase = [c \in Conns |-> "new"]
  /\ ops = [c \in Conns |-> NoOps]
  /\ at = [t \in Threads |-> IF t = Main THEN "open" ELSE "off"]
  /\ conn = [t \in Threads |-> NoConn]
  /\ signal = "none"
  /\ stopped = FALSE
  /\ died = FALSE

MainProgram == OpenAcceptor \/ SetOption \/ Bind \/ Listen \/ Run \/ Spawn \/ Join

World ==
  \/ AcceptCompletes \/ SignalArrives
  \/ \E c \in Conns : Connect(c) \/ OpCompletes(c)

\* The step that ends or continues the handler a thread is in.
Continues(t) ==
  \/ StartSession(t) \/ ReleaseSession(t) \/ NextAccept(t)
  \/ ReadReturns(t) \/ WriteReturns(t) \/ Throws(t)

Thread(t) ==
  \/ OnAcceptError(t) \/ OnSignal(t) \/ Continues(t) \/ Responds(t) \/ Exits(t)
  \/ \E c \in Conns : OnAcceptSocket(t, c) \/ ReadBegins(t, c) \/ WriteBegins(t, c)

Next == MainProgram \/ World \/ \E t \in Threads : Thread(t)

Spec == Init /\ [][Next]_vars

(***************************************************************************)
(* Fairness.  The set-up does not block; a thread goes on with the handler *)
(* it is in, and the handler returns; a client in the backlog is accepted  *)
(* by the kernel, or an error is.  The queue of an io_context is first in, *)
(* first out: a handler that is ready again and again, whenever a thread   *)
(* is free, is run (SF).  Clients and signals are not fair.                *)
(***************************************************************************)
Fairness ==
  /\ WF_vars(MainProgram)
  /\ WF_vars(AcceptCompletes)
  /\ \A t \in Threads : WF_vars(Continues(t)) /\ WF_vars(Exits(t))
  /\ SF_vars(\E t \in Threads : OnAcceptError(t) \/ \E c \in Conns : OnAcceptSocket(t, c))
  /\ SF_vars(\E t \in Threads : OnSignal(t))

FairSpec == Spec /\ Fairness

--------------------------------------------------------------------------------
(* Properties.                                                             *)

\* A thread reads or writes the members of the session of c.
Touches(t, c) == at[t] \in {"create", "read", "write"} /\ conn[t] = c

\* The listener is held by the handler of an accept, queued or running, and by
\* nothing else once listen() has returned.
ListenerAlive == accept # "none" \/ \E t \in Threads : at[t] \in OnAccept

\* No two threads are in the same session, the one that creates it included:
\* nothing in http_session is locked.
OneThreadPerSession ==
  \A t, u \in Threads, c \in Conns : Touches(t, c) /\ Touches(u, c) => t = u

\* on_read uses *server_name_, a string of the listener, through a plain
\* pointer: the listener outlives every handler of every session, through
\* accepts that fail too.
ListenerOutlivesHandlers == (\E t \in Threads : at[t] = "read") => ListenerAlive

\* on_accept never runs twice at a time and never starts a second accept.
OneAccept ==
  /\ \A t, u \in Threads : at[t] \in OnAccept /\ at[u] \in OnAccept => t = u
  /\ accept # "none" => \A t \in Threads : at[t] \notin OnAccept

\* A client that waits to be accepted is accepted, or the server is stopped:
\* neither passing errors nor busy sessions end the accept loop.
ClientsAccepted ==
  \A c \in Conns : phase[c] = "backlog" ~> phase[c] # "backlog" \/ stopped \/ died

\* After a signal every thread leaves ioc.run() and main() returns, whatever
\* the sessions do, and also when the acceptor is broken.
StopEnds == signal = "ready" ~> at[Main] = "done" \/ died

\* When listen() returns a port (and the program prints "Listening on ..."),
\* the acceptor is listening there.
ReportedPortListens == port => acceptor = "listening"
================================================================================
