-------------------------------- MODULE AsyncOps --------------------------------
(***************************************************************************)
(* The asynchronous operations of one connection as the io_context sees    *)
(* them.  A session starts operations from within its handlers only, so    *)
(* what it may do is a relation between the operations before and after a  *)
(* handler or a step of one.  HttpSession is checked against this relation *)
(* (ServerSeesTheSession there), and Server, which runs many sessions on   *)
(* several threads, relies on it and on nothing else about a session.      *)
(*                                                                         *)
(* An operation is "none", "waiting" (started, not done) or "ready" (done, *)
(* its handler queued or running).  A connection has a read, rd, and a     *)
(* write, wr.                                                              *)
(***************************************************************************)

Op == {"none", "waiting", "ready"}
Ops == [rd : Op, wr : Op]

NoOps == [rd |-> "none", wr |-> "none"]

\* run(): the first do_read.
FirstOps == [rd |-> "waiting", wr |-> "none"]

\* The kernel completes what is waiting.
Completions(o) ==
  {[o EXCEPT ![k] = "ready"] : k \in {k \in {"rd", "wr"} : o[k] = "waiting"}}

\* on_read starts a write by sending its response, if none is outstanding.
DuringRead(o) ==
  {p \in Ops : o.rd = "ready" /\ o.wr = "none" /\ p = [o EXCEPT !.wr = "waiting"]}

\* on_read returns: it has started the next read, or it has not.
AfterRead(o) ==
  {p \in Ops : o.rd = "ready" /\ p.rd # "ready" /\ p.wr = o.wr}

\* on_write returns: it has started the next write, or it has not, and it may
\* have restarted a read loop that had stopped.
AfterWrite(o) ==
  {p \in Ops : /\ o.wr = "ready" /\ p.wr # "ready"
               /\ p.rd = o.rd \/ (o.rd = "none" /\ p.rd = "waiting")}

\* Everything that may happen to the operations of a connection in one step.
Changes(o) == Completions(o) \cup DuringRead(o) \cup AfterRead(o) \cup AfterWrite(o)
================================================================================
