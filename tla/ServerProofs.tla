------------------------------ MODULE ServerProofs ------------------------------
(***************************************************************************)
(* The safety properties of Server, for any number of threads, clients and *)
(* failing accepts.  The strands alone do not keep two threads out of one  *)
(* session, for on_accept is not on the strand of the session it creates;  *)
(* IInv adds that nothing of the session is outstanding until on_accept    *)
(* leaves it alone.                                                        *)
(***************************************************************************)
EXTENDS Server, TLAPS

Constructing == {"open", "option", "bind", "listen", "run"}

\* Until run() starts the accept loop, main() is alone.
AloneAtFirst ==
  at[Main] \in Constructing =>
    /\ accept = "none"
    /\ \A t \in Threads : t # Main => at[t] = "off"

\* A program without a port ends without another thread and without an accept.
NoPortNoLoop ==
  at[Main] \notin Constructing /\ ~port =>
    /\ accept = "none" /\ at[Main] = "done"
    /\ \A t \in Threads : t # Main => at[t] = "off"

\* Only main() is ever in the set-up.
MainSetsUp == \A t \in Threads : at[t] \in SetUp => t = Main

\* With a port, an accept is outstanding or on_accept is running, forever.
AcceptLoop == at[Main] \notin Constructing /\ port => ListenerAlive

\* A thread in a handler of a session runs the handler of a ready operation,
\* and one that creates a session has a connection without operations.
Busy ==
  \A t \in Threads :
    /\ at[t] \in {"create", "started", "read", "write"} => conn[t] \in Conns
    /\ at[t] = "create" => phase[conn[t]] = "accepted" /\ ops[conn[t]] = NoOps
    /\ at[t] = "read" => ops[conn[t]].rd = "ready"
    /\ at[t] = "write" => ops[conn[t]].wr = "ready"

\* A connection that was not accepted has no session.
NoSession == \A c \in Conns : phase[c] # "accepted" => ops[c] = NoOps

IInv ==
  /\ TypeOK
  /\ AloneAtFirst
  /\ NoPortNoLoop
  /\ MainSetsUp
  /\ AcceptLoop
  /\ OneAccept
  /\ Busy
  /\ NoSession
  /\ OneThreadPerSession

USE MainAssumption, FaultsAssumption

--------------------------------------------------------------------------------
(* The operations of a connection.                                         *)

LEMMA OpsOfHandlers ==
  ASSUME NEW o \in Ops
  PROVE  /\ \A p \in Completions(o) :
              /\ p \in Ops /\ o # NoOps
              /\ o.rd = "ready" => p.rd = "ready"
              /\ o.wr = "ready" => p.wr = "ready"
         /\ \A p \in DuringRead(o) : p \in Ops /\ p.rd = "ready"
         /\ \A p \in AfterRead(o) \cup AfterWrite(o) : p \in Ops
  <1>1. ASSUME NEW p \in Completions(o)
        PROVE  /\ p \in Ops /\ o # NoOps
               /\ o.rd = "ready" => p.rd = "ready"
               /\ o.wr = "ready" => p.wr = "ready"
    <2>1. PICK k \in {"rd", "wr"} : o[k] = "waiting" /\ p = [o EXCEPT ![k] = "ready"]
      BY <1>1 DEF Completions
    <2>2. CASE k = "rd"
      BY <2>1, <2>2 DEF Ops, Op, NoOps
    <2>3. CASE k = "wr"
      BY <2>1, <2>3 DEF Ops, Op, NoOps
    <2> QED
      BY <2>2, <2>3
  <1>2. \A p \in DuringRead(o) : p \in Ops /\ p.rd = "ready"
    BY DEF DuringRead, Ops
  <1>3. \A p \in AfterRead(o) \cup AfterWrite(o) : p \in Ops
    BY DEF AfterRead, AfterWrite
  <1> QED
    BY <1>1, <1>2, <1>3

LEMMA ThreadGoes ==
  ASSUME TypeOK, NEW t \in Threads, NEW where \in At, NEW c \in Conns \cup {NoConn},
         Goes(t, where, c)
  PROVE  /\ at' \in [Threads -> At] /\ conn' \in [Threads -> Conns \cup {NoConn}]
         /\ at'[t] = where /\ conn'[t] = c
         /\ \A u \in Threads : u # t => at'[u] = at[u] /\ conn'[u] = conn[u]
  BY DEF Goes, TypeOK

--------------------------------------------------------------------------------
(* The invariant.                                                          *)

LEMMA InitInv == Init => IInv
  <1> SUFFICES ASSUME Init PROVE IInv
    OBVIOUS
  <1>1. /\ port \in BOOLEAN /\ stopped \in BOOLEAN /\ died \in BOOLEAN
    BY DEF Init
  <1>2. NoOps \in Ops
    BY DEF NoOps, Ops, Op
  <1>3. TypeOK
    BY <1>1, <1>2 DEF Init, TypeOK, At, SetUp
  <1>4. /\ AloneAtFirst /\ NoPortNoLoop /\ MainSetsUp /\ AcceptLoop /\ OneAccept
        /\ Busy /\ NoSession /\ OneThreadPerSession
    BY DEF Init, AloneAtFirst, NoPortNoLoop, MainSetsUp, AcceptLoop, OneAccept, Busy,
           NoSession, OneThreadPerSession, Touches, Constructing, OnAccept, SetUp
  <1> QED
    BY <1>3, <1>4 DEF IInv

LEMMA SetUpInv == IInv /\ (OpenAcceptor \/ SetOption \/ Bind \/ Listen) => IInv'
  <1> SUFFICES ASSUME IInv,
                      NEW here \in {"open", "option", "bind", "listen"},
                      NEW next \in {"option", "bind", "listen", "run"},
                      NEW result \in {"open", "bound", "listening"},
                      SetUpStep(here, next, result)
               PROVE  IInv'
    BY DEF OpenAcceptor, SetOption, Bind, Listen
  <1>1. /\ at[Main] \in Constructing /\ at'[Main] \in Constructing
        /\ at' \in [Threads -> At]
        /\ \A t \in Threads : t # Main => at'[t] = at[t] /\ at[t] = "off"
        /\ accept = "none"
    BY DEF SetUpStep, IInv, TypeOK, AloneAtFirst, Constructing, At, SetUp
  <1>2. /\ acceptor' \in {"closed", "open", "bound", "listening"}
        /\ UNCHANGED <<port, accept, faults, phase, ops, conn, signal, stopped, died>>
    BY DEF SetUpStep, IInv, TypeOK, ends
  <1>3. TypeOK'
    BY <1>1, <1>2 DEF IInv, TypeOK
  <1>4. AloneAtFirst' /\ NoPortNoLoop' /\ AcceptLoop' /\ NoSession'
    BY <1>1, <1>2 DEF IInv, AloneAtFirst, NoPortNoLoop, AcceptLoop, NoSession
  <1>5. MainSetsUp' /\ OneAccept' /\ Busy' /\ OneThreadPerSession'
    BY <1>1, <1>2 DEF MainSetsUp, OneAccept, Busy, OneThreadPerSession, Touches,
                      Constructing, OnAccept, SetUp
  <1> QED
    BY <1>3, <1>4, <1>5 DEF IInv

LEMMA RunInv == IInv /\ Run => IInv'
  <1> SUFFICES ASSUME IInv, Run PROVE IInv'
    OBVIOUS
  <1>1. /\ at[Main] = "run" /\ at'[Main] \in {"spawn", "done"}
        /\ at' \in [Threads -> At]
        /\ \A t \in Threads : t # Main => at'[t] = at[t] /\ at[t] = "off"
        /\ accept = "none"
        /\ port' \in BOOLEAN
        /\ port' => accept' = "waiting" /\ signal' = "waiting" /\ at'[Main] = "spawn"
        /\ ~port' => accept' = "none" /\ signal' = signal /\ at'[Main] = "done"
        /\ UNCHANGED <<acceptor, faults, phase, ops, conn, stopped, died>>
    <2>1. port' \in BOOLEAN
      BY DEF Run, HasPort
    <2> QED
      BY <2>1 DEF Run, IInv, TypeOK, AloneAtFirst, Constructing, At, SetUp
  <1>2. TypeOK'
    <2>1. CASE port'
      BY <1>1, <2>1 DEF IInv, TypeOK
    <2>2. CASE ~port'
      BY <1>1, <2>2 DEF IInv, TypeOK
    <2> QED
      BY <2>1, <2>2
  <1>3. AloneAtFirst' /\ NoPortNoLoop' /\ AcceptLoop' /\ NoSession'
    BY <1>1 DEF IInv, AloneAtFirst, NoPortNoLoop, AcceptLoop, NoSession,
                ListenerAlive, Constructing
  <1>4. MainSetsUp' /\ OneAccept' /\ Busy' /\ OneThreadPerSession'
    BY <1>1 DEF MainSetsUp, OneAccept, Busy, OneThreadPerSession, Touches,
                OnAccept, SetUp
  <1> QED
    BY <1>2, <1>3, <1>4 DEF IInv

\* Threads that start, leave ioc.run() or are joined are in no handler, before
\* or after.
LEMMA IdleInv ==
  ASSUME IInv, Spawn \/ Join \/ \E t \in Threads : Exits(t)
  PROVE  IInv'
  <1>1. PICK t \in Threads, where \in {"idle", "exited", "done"} :
          /\ at[t] \in {"off", "spawn", "idle", "exited"}
          /\ at[t] = "spawn" \/ where = "done" => t = Main
          /\ at[t] = "off" => at[Main] = "spawn"
          /\ at' = [at EXCEPT ![t] = where]
          /\ UNCHANGED <<acceptor, port, accept, faults, phase, ops, conn, signal, stopped, died>>
    <2>1. CASE Spawn /\ \E t \in Threads : at[t] = "off"
      BY <2>1 DEF Spawn, setup, ends
    <2>2. CASE Spawn /\ ~\E t \in Threads : at[t] = "off"
      BY <2>2 DEF Spawn, setup, ends
    <2>3. CASE Join
      BY <2>3 DEF Join, setup, ends
    <2>4. CASE \E t \in Threads : Exits(t)
      BY <2>4 DEF Exits, setup, ends
    <2> QED
      BY <2>1, <2>2, <2>3, <2>4
  <1>2. /\ at' \in [Threads -> At] /\ at'[t] = where
        /\ \A u \in Threads : u # t => at'[u] = at[u]
    BY <1>1 DEF IInv, TypeOK, At
  <1>3. TypeOK'
    BY <1>1, <1>2 DEF IInv, TypeOK
  <1>4. at[Main] \notin Constructing /\ at'[Main] \notin Constructing /\ port
    <2>1. CASE t = Main
      BY <1>1, <1>2, <2>1 DEF IInv, NoPortNoLoop, Constructing
    <2>2. CASE t # Main
      BY <1>1, <1>2, <2>2 DEF IInv, AloneAtFirst, NoPortNoLoop, Constructing
    <2> QED
      BY <2>1, <2>2
  <1>5. AloneAtFirst' /\ NoPortNoLoop'
    BY <1>1, <1>4 DEF AloneAtFirst, NoPortNoLoop
  <1>6. MainSetsUp'
    BY <1>1, <1>2 DEF IInv, MainSetsUp, SetUp
  <1>7. AcceptLoop' /\ OneAccept'
    BY <1>1, <1>2, <1>4 DEF IInv, AcceptLoop, ListenerAlive, OneAccept, OnAccept
  <1>8. Busy' /\ NoSession' /\ OneThreadPerSession'
    BY <1>1, <1>2 DEF IInv, Busy, NoSession, OneThreadPerSession, Touches
  <1> QED
    BY <1>3, <1>5, <1>6, <1>7, <1>8 DEF IInv

\* The world completes operations; it starts none and moves no thread.
LEMMA WorldInv == IInv /\ World => IInv'
  <1> SUFFICES ASSUME IInv, World PROVE IInv'
    OBVIOUS
  <1>1. CASE AcceptCompletes \/ SignalArrives
    <2>1. /\ accept' \in {"none", "waiting", "ok", "error"}
          /\ accept = "none" <=> accept' = "none"
          /\ UNCHANGED <<acceptor, port, phase, ops, at, conn, stopped, died>>
      BY <1>1 DEF AcceptCompletes, SignalArrives, setup, threads, ends, IInv, TypeOK
    <2>2. faults' \in 0..MaxFaults /\ signal' \in {"none", "waiting", "ready", "handled"}
      BY <1>1 DEF AcceptCompletes, SignalArrives, ends, IInv, TypeOK
    <2>3. TypeOK'
      BY <2>1, <2>2 DEF IInv, TypeOK
    <2> QED
      BY <2>1, <2>3 DEF IInv, AloneAtFirst, NoPortNoLoop, MainSetsUp, AcceptLoop,
             ListenerAlive, OneAccept, Busy, NoSession, OneThreadPerSession, Touches
  <1>2. ASSUME NEW c \in Conns, Connect(c) PROVE IInv'
    <2>1. /\ phase[c] = "new" /\ phase' = [phase EXCEPT ![c] = "backlog"]
          /\ UNCHANGED <<acceptor, port, accept, faults, ops, at, conn, signal, stopped, died>>
      BY <1>2 DEF Connect, setup, threads, ends
    <2>2. TypeOK'
      BY <2>1 DEF IInv, TypeOK
    <2>3. Busy' /\ NoSession'
      BY <2>1 DEF IInv, TypeOK, Busy, NoSession
    <2> QED
      BY <2>1, <2>2, <2>3 DEF IInv, AloneAtFirst, NoPortNoLoop, MainSetsUp, AcceptLoop,
             ListenerAlive, OneAccept, OneThreadPerSession, Touches
  <1>3. ASSUME NEW c \in Conns, OpCompletes(c) PROVE IInv'
    <2>1. PICK p \in Completions(ops[c]) : ops' = [ops EXCEPT ![c] = p]
      BY <1>3 DEF OpCompletes
    <2>2. UNCHANGED <<acceptor, port, accept, faults, phase, at, conn, signal, stopped, died>>
      BY <1>3 DEF OpCompletes, setup, threads, ends
    <2>3. ops \in [Conns -> Ops] /\ ops[c] \in Ops
      BY DEF IInv, TypeOK
    <2>4. /\ p \in Ops /\ ops[c] # NoOps
          /\ ops[c].rd = "ready" => p.rd = "ready"
          /\ ops[c].wr = "ready" => p.wr = "ready"
      BY <2>1, <2>3, OpsOfHandlers
    <2>5. TypeOK'
      BY <2>1, <2>2, <2>3, <2>4 DEF IInv, TypeOK
    <2>6. Busy' /\ NoSession'
      BY <2>1, <2>2, <2>3, <2>4 DEF IInv, Busy, NoSession
    <2> QED
      BY <2>2, <2>5, <2>6 DEF IInv, AloneAtFirst, NoPortNoLoop, MainSetsUp, AcceptLoop,
             ListenerAlive, OneAccept, OneThreadPerSession, Touches
  <1> QED
    BY <1>1, <1>2, <1>3 DEF World

\* The thread that takes a handler was idle, so main() is past the set-up and
\* the accept loop is on.
LEMMA LoopIsOn ==
  ASSUME IInv, NEW t \in Threads, at[t] \in {"idle", "read", "write"} \cup OnAccept
  PROVE  at[Main] \notin Constructing /\ port
  BY DEF IInv, AloneAtFirst, NoPortNoLoop, Constructing, OnAccept

\* The conjuncts that a move of one thread between handlers keeps.
LEMMA MoveInv ==
  ASSUME IInv, NEW t \in Threads,
         at[t] \in {"idle", "read", "write"} \cup OnAccept,
         NEW where \in {"idle", "read", "write"} \cup OnAccept,
         NEW c \in Conns \cup {NoConn},
         Goes(t, where, c), port' = port
  PROVE  AloneAtFirst' /\ NoPortNoLoop' /\ MainSetsUp'
  <1>1. at[Main] \notin Constructing /\ port
    BY LoopIsOn
  <1>2. /\ at'[t] = where
        /\ \A u \in Threads : u # t => at'[u] = at[u]
    BY ThreadGoes DEF IInv, At, OnAccept
  <1>3. at'[Main] \notin Constructing
    BY <1>1, <1>2 DEF Constructing, OnAccept
  <1>4. MainSetsUp'
    BY <1>2 DEF IInv, MainSetsUp, SetUp, OnAccept
  <1> QED
    BY <1>1, <1>3, <1>4 DEF AloneAtFirst, NoPortNoLoop

\* on_accept: its steps keep the accept loop going, and the session it creates
\* is its own until the first read is outstanding.
LEMMA AcceptInv ==
  ASSUME IInv, NEW t \in Threads,
         \/ OnAcceptError(t) \/ StartSession(t) \/ ReleaseSession(t) \/ NextAccept(t)
         \/ \E c \in Conns : OnAcceptSocket(t, c)
  PROVE  IInv'
  <1>1. ASSUME OnAcceptError(t) \/ ReleaseSession(t) PROVE IInv'
    <2>1. /\ at[t] \in {"idle"} \cup OnAccept
          /\ at[t] = "idle" => accept = "error"
          /\ Goes(t, "rearm", NoConn) /\ accept' \in {"none", accept}
          /\ accept' = accept => at[t] \in OnAccept
          /\ UNCHANGED <<acceptor, port, faults, phase, ops, signal, stopped, died>>
      BY <1>1 DEF OnAcceptError, ReleaseSession, Free, OnAccept, setup, ends
    <2>2. /\ at'[t] = "rearm" /\ conn'[t] = NoConn
          /\ \A u \in Threads : u # t => at'[u] = at[u] /\ conn'[u] = conn[u]
          /\ at' \in [Threads -> At] /\ conn' \in [Threads -> Conns \cup {NoConn}]
      BY <2>1, ThreadGoes DEF IInv, At, OnAccept
    <2>3. TypeOK'
      BY <2>1, <2>2 DEF IInv, TypeOK
    <2>4. AloneAtFirst' /\ NoPortNoLoop' /\ MainSetsUp'
      BY <2>1, MoveInv DEF OnAccept
    <2>5. OneAccept' /\ AcceptLoop'
      BY <2>1, <2>2 DEF IInv, OneAccept, AcceptLoop, ListenerAlive, OnAccept
    <2>6. Busy' /\ NoSession' /\ OneThreadPerSession'
      BY <2>1, <2>2 DEF IInv, Busy, NoSession, OneThreadPerSession, Touches
    <2> QED
      BY <2>3, <2>4, <2>5, <2>6 DEF IInv
  <1>2. ASSUME NEW c \in Conns, OnAcceptSocket(t, c) PROVE IInv'
    <2>1. PICK where \in {"create", "rearm"}, d \in {c, NoConn} :
            /\ at[t] = "idle" /\ accept = "ok" /\ accept' = "none"
            /\ phase[c] = "backlog"
            /\ Goes(t, where, d)
            /\ where = "create" => d = c /\ phase' = [phase EXCEPT ![c] = "accepted"]
            /\ where = "rearm" => d = NoConn /\ phase' = [phase EXCEPT ![c] = "refused"]
            /\ UNCHANGED <<acceptor, port, faults, ops, signal, stopped, died>>
      BY <1>2 DEF OnAcceptSocket, Free, setup, ends
    <2>2. /\ at'[t] = where /\ conn'[t] = d
          /\ \A u \in Threads : u # t => at'[u] = at[u] /\ conn'[u] = conn[u]
          /\ at' \in [Threads -> At] /\ conn' \in [Threads -> Conns \cup {NoConn}]
      BY <2>1, ThreadGoes DEF IInv, At, OnAccept
    <2>3. TypeOK'
      BY <2>1, <2>2 DEF IInv, TypeOK
    <2>4. AloneAtFirst' /\ NoPortNoLoop' /\ MainSetsUp'
      BY <2>1, MoveInv DEF OnAccept
    <2>5. OneAccept' /\ AcceptLoop'
      BY <2>1, <2>2 DEF IInv, OneAccept, AcceptLoop, ListenerAlive, OnAccept
    <2>6. /\ ops[c] = NoOps /\ NoOps.rd = "none" /\ NoOps.wr = "none"
          /\ \A u \in Threads : ~Touches(u, c)
      BY <2>1 DEF IInv, NoSession, Busy, Touches, NoOps
    <2>7. Busy' /\ NoSession'
      BY <2>1, <2>2, <2>6 DEF IInv, TypeOK, Busy, NoSession
    <2>8. OneThreadPerSession'
      BY <2>1, <2>2, <2>6 DEF IInv, OneThreadPerSession, Touches
    <2> QED
      BY <2>3, <2>4, <2>5, <2>7, <2>8 DEF IInv
  <1>3. ASSUME StartSession(t) PROVE IInv'
    <2>1. /\ at[t] = "create" /\ conn[t] \in Conns
          /\ phase[conn[t]] = "accepted" /\ ops[conn[t]] = NoOps
          /\ Goes(t, "started", conn[t])
          /\ ops' = [ops EXCEPT ![conn[t]] = FirstOps] /\ FirstOps \in Ops
          /\ UNCHANGED <<acceptor, port, accept, faults, phase, signal, stopped, died>>
      BY <1>3 DEF StartSession, setup, ends, IInv, Busy, FirstOps, Ops, Op
    <2>2. /\ at'[t] = "started" /\ conn'[t] = conn[t]
          /\ \A u \in Threads : u # t => at'[u] = at[u] /\ conn'[u] = conn[u]
          /\ at' \in [Threads -> At] /\ conn' \in [Threads -> Conns \cup {NoConn}]
      BY <2>1, ThreadGoes DEF IInv, At, OnAccept
    <2>3. TypeOK'
      BY <2>1, <2>2 DEF IInv, TypeOK
    <2>4. AloneAtFirst' /\ NoPortNoLoop' /\ MainSetsUp'
      BY <2>1, MoveInv DEF OnAccept
    <2>5. OneAccept' /\ AcceptLoop'
      BY <2>1, <2>2 DEF IInv, OneAccept, AcceptLoop, ListenerAlive, OnAccept
    <2>6. \A u \in Threads : u # t => ~Touches(u, conn[t])
      BY <2>1 DEF IInv, OneThreadPerSession, Touches
    <2>7. Busy' /\ NoSession'
      BY <2>1, <2>2, <2>6 DEF IInv, TypeOK, Busy, NoSession, Touches
    <2>8. OneThreadPerSession'
      BY <2>2 DEF IInv, OneThreadPerSession, Touches
    <2> QED
      BY <2>3, <2>4, <2>5, <2>7, <2>8 DEF IInv
  <1>4. ASSUME NextAccept(t) PROVE IInv'
    <2>1. /\ at[t] = "rearm" /\ Goes(t, "idle", NoConn) /\ accept' = "waiting"
          /\ UNCHANGED <<acceptor, port, faults, phase, ops, signal, stopped, died>>
      BY <1>4 DEF NextAccept, setup, ends
    <2>2. /\ at'[t] = "idle" /\ conn'[t] = NoConn
          /\ \A u \in Threads : u # t => at'[u] = at[u] /\ conn'[u] = conn[u]
          /\ at' \in [Threads -> At] /\ conn' \in [Threads -> Conns \cup {NoConn}]
      BY <2>1, ThreadGoes DEF IInv, At, OnAccept
    <2>3. TypeOK'
      BY <2>1, <2>2 DEF IInv, TypeOK
    <2>4. AloneAtFirst' /\ NoPortNoLoop' /\ MainSetsUp'
      BY <2>1, MoveInv DEF OnAccept
    <2>5. OneAccept' /\ AcceptLoop'
      BY <2>1, <2>2 DEF IInv, OneAccept, AcceptLoop, ListenerAlive, OnAccept
    <2>6. Busy' /\ NoSession' /\ OneThreadPerSession'
      BY <2>1, <2>2 DEF IInv, Busy, NoSession, OneThreadPerSession, Touches
    <2> QED
      BY <2>3, <2>4, <2>5, <2>6 DEF IInv
  <1> QED
    BY <1>1, <1>2, <1>3, <1>4

\* A handler of a session begins: the strand is free, and whoever creates a
\* session has not started an operation of it.
LEMMA BeginInv ==
  ASSUME IInv, NEW t \in Threads, NEW c \in Conns, ReadBegins(t, c) \/ WriteBegins(t, c)
  PROVE  IInv'
  <1>1. PICK where \in {"read", "write"} :
          /\ at[t] = "idle" /\ StrandFree(c) /\ Goes(t, where, c)
          /\ where = "read" => ops[c].rd = "ready"
          /\ where = "write" => ops[c].wr = "ready"
          /\ UNCHANGED <<acceptor, port, accept, faults, phase, ops, signal, stopped, died>>
    BY DEF ReadBegins, WriteBegins, Free, setup, ends
  <1>2. /\ at'[t] = where /\ conn'[t] = c
        /\ \A u \in Threads : u # t => at'[u] = at[u] /\ conn'[u] = conn[u]
        /\ at' \in [Threads -> At] /\ conn' \in [Threads -> Conns \cup {NoConn}]
    BY <1>1, ThreadGoes DEF IInv, At
  <1>3. TypeOK'
    BY <1>1, <1>2 DEF IInv, TypeOK
  <1>4. AloneAtFirst' /\ NoPortNoLoop' /\ MainSetsUp'
    BY <1>1, MoveInv
  <1>5. OneAccept' /\ AcceptLoop'
    <2>1. ListenerAlive
      BY <1>1, LoopIsOn DEF IInv, AcceptLoop
    <2>2. ListenerAlive'
      BY <1>1, <1>2, <2>1 DEF ListenerAlive, OnAccept
    <2> QED
      BY <1>1, <1>2, <2>2 DEF IInv, OneAccept, AcceptLoop, OnAccept
  <1>6. Busy' /\ NoSession'
    BY <1>1, <1>2 DEF IInv, Busy, NoSession
  <1>7. \A u \in Threads : ~Touches(u, c)
    <2>1. ops[c] # NoOps
      BY <1>1 DEF NoOps
    <2> QED
      BY <1>1, <2>1 DEF IInv, Busy, StrandFree, Touches
  <1>8. OneThreadPerSession'
    BY <1>1, <1>2, <1>7 DEF IInv, OneThreadPerSession, Touches
  <1> QED
    BY <1>3, <1>4, <1>5, <1>6, <1>8 DEF IInv

\* Within a handler only the operations of its own session change, and no other
\* thread is in that session.
LEMMA HandlerInv ==
  ASSUME IInv, NEW t \in Threads, Responds(t) \/ ReadReturns(t) \/ WriteReturns(t)
  PROVE  IInv'
  <1> DEFINE c == conn[t]
  <1>1. /\ at[t] \in {"read", "write"} /\ c \in Conns /\ ops[c] \in Ops
        /\ Touches(t, c) /\ ops[c] # NoOps
    BY DEF Responds, ReadReturns, WriteReturns, IInv, Busy, TypeOK, Touches, NoOps
  <1>2. PICK p \in Ops, where \in {"idle", "read"}, d \in {c, NoConn} :
          /\ ops' = [ops EXCEPT ![c] = p] /\ Goes(t, where, d)
          /\ where = "read" => d = c /\ at[t] = "read" /\ p.rd = "ready"
          /\ UNCHANGED <<acceptor, port, accept, faults, phase, signal, stopped, died>>
    <2>1. CASE Responds(t)
      <3>1. PICK p \in DuringRead(ops[c]) : ops' = [ops EXCEPT ![c] = p]
        BY <2>1 DEF Responds
      <3>2. p \in Ops /\ p.rd = "ready"
        BY <1>1, <3>1, OpsOfHandlers
      <3>3. Goes(t, "read", c) /\ at[t] = "read"
        BY <2>1 DEF Responds, threads, Goes, IInv, TypeOK
      <3> QED
        BY <2>1, <3>1, <3>2, <3>3 DEF Responds, setup, ends
    <2>2. CASE ReadReturns(t)
      <3>1. PICK p \in AfterRead(ops[c]) : ops' = [ops EXCEPT ![c] = p]
        BY <2>2 DEF ReadReturns
      <3>2. p \in Ops
        BY <1>1, <3>1, OpsOfHandlers
      <3> QED
        BY <2>2, <3>1, <3>2 DEF ReadReturns, setup, ends
    <2>3. CASE WriteReturns(t)
      <3>1. PICK p \in AfterWrite(ops[c]) : ops' = [ops EXCEPT ![c] = p]
        BY <2>3 DEF WriteReturns
      <3>2. p \in Ops
        BY <1>1, <3>1, OpsOfHandlers
      <3> QED
        BY <2>3, <3>1, <3>2 DEF WriteReturns, setup, ends
    <2> QED
      BY <2>1, <2>2, <2>3
  <1>3. /\ at'[t] = where /\ conn'[t] = d
        /\ \A u \in Threads : u # t => at'[u] = at[u] /\ conn'[u] = conn[u]
        /\ at' \in [Threads -> At] /\ conn' \in [Threads -> Conns \cup {NoConn}]
    BY <1>1, <1>2, ThreadGoes DEF IInv, At
  <1>4. TypeOK'
    BY <1>1, <1>2, <1>3 DEF IInv, TypeOK
  <1>5. AloneAtFirst' /\ NoPortNoLoop' /\ MainSetsUp'
    BY <1>1, <1>2, MoveInv
  <1>6. OneAccept' /\ AcceptLoop'
    <2>1. ListenerAlive
      BY <1>1, LoopIsOn DEF IInv, AcceptLoop
    <2>2. ListenerAlive'
      BY <1>1, <1>2, <1>3, <2>1 DEF ListenerAlive, OnAccept
    <2> QED
      BY <1>1, <1>2, <1>3, <2>2 DEF IInv, OneAccept, AcceptLoop, OnAccept
  <1>7. \A u \in Threads : u # t => ~Touches(u, c)
    BY <1>1 DEF IInv, OneThreadPerSession
  <1>8. Busy'
    <2>1. ASSUME NEW u \in Threads, u # t
          PROVE  at[u] \in {"create", "read", "write"} => conn[u] # c /\ conn[u] \in Conns
      BY <1>7, <2>1 DEF Touches, IInv, Busy
    <2> QED
      BY <1>1, <1>2, <1>3, <2>1 DEF IInv, TypeOK, Busy
  <1>9. NoSession'
    BY <1>1, <1>2 DEF IInv, TypeOK, NoSession
  <1>10. OneThreadPerSession'
    BY <1>1, <1>2, <1>3, <1>7 DEF IInv, OneThreadPerSession, Touches
  <1> QED
    BY <1>4, <1>5, <1>6, <1>8, <1>9, <1>10 DEF IInv

LEMMA EndInv ==
  ASSUME IInv, UNCHANGED vars \/ \E t \in Threads : Throws(t) \/ OnSignal(t)
  PROVE  IInv'
  <1>1. /\ UNCHANGED <<acceptor, port, accept, faults, phase, ops, at, conn>>
        /\ signal' \in {signal, "handled"}
        /\ stopped' \in {stopped, TRUE} /\ died' \in {died, TRUE}
    BY DEF vars, Throws, OnSignal, setup, threads
  <1>2. TypeOK'
    BY <1>1 DEF IInv, TypeOK
  <1> QED
    BY <1>1, <1>2 DEF IInv, AloneAtFirst, NoPortNoLoop, MainSetsUp, AcceptLoop,
           ListenerAlive, OneAccept, Busy, NoSession, OneThreadPerSession, Touches

THEOREM Invariant == Spec => []IInv
  <1>1. IInv /\ [Next]_vars => IInv'
    BY SetUpInv, RunInv, IdleInv, WorldInv, AcceptInv, BeginInv, HandlerInv, EndInv
       DEF Next, MainProgram, Thread, Continues
  <1> QED
    BY <1>1, InitInv, PTL DEF Spec

--------------------------------------------------------------------------------
(* What follows from it.                                                   *)

\* Every variable keeps its type.
THEOREM TypeCorrect == Spec => []TypeOK
  BY Invariant, PTL DEF IInv

\* However many threads run the io_context, no two of them are in the same
\* session, although on_accept starts a session outside its strand.
THEOREM SessionsExclusive == Spec => []OneThreadPerSession
  BY Invariant, PTL DEF IInv

\* The accept loop never has two accepts, nor an accept beside on_accept.
THEOREM AcceptsExclusive == Spec => []OneAccept
  BY Invariant, PTL DEF IInv

\* The string that on_read sends as the Server field exists whenever on_read
\* runs: the accept loop, which keeps it alive, has no way to end.
THEOREM ListenerOutlives == Spec => []ListenerOutlivesHandlers
  <1>1. IInv => ListenerOutlivesHandlers
    BY LoopIsOn DEF IInv, AcceptLoop, ListenerOutlivesHandlers
  <1> QED
    BY <1>1, Invariant, PTL
================================================================================
