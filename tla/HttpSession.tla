------------------------------ MODULE HttpSession ------------------------------
(***************************************************************************)
(* One accepted connection: class http_session and its nested class queue  *)
(* (libs/http-router/src/server/http_session.{hh,cc}).                     *)
(*                                                                         *)
(* A session has at most one asynchronous read and one asynchronous write  *)
(* in flight.  Its completion handlers, on_read and on_write, run on the   *)
(* strand of the connection, one at a time, and each of them decides       *)
(* whether the read loop and the write loop go on.  The two loops meet in  *)
(* the queue of responses: a full queue stops the read loop, and the write *)
(* that empties a slot of a full queue restarts it.                        *)
(*                                                                         *)
(* Between the moment an operation is done and the moment its handler runs *)
(* other handlers may run; so each operation has a completion step (the    *)
(* kernel and Beast, external) and a handler step (the code).  The call    *)
(* router_->handle_request(resp) is split into the sends it makes, because *)
(* the kernel may finish a write while the handler is still running.       *)
(*                                                                         *)
(* A message is reduced to what the session looks at: the requests are     *)
(* counted, and of a response only its request and msg.need_eof() remain.  *)
(*                                                                         *)
(* Definitions called Faulty... are the ones below them with one likely    *)
(* mistake; no action uses them.  They show what each property excludes.   *)
(***************************************************************************)
EXTENDS Naturals, Sequences, AsyncOps

CONSTANTS
  Limit,        \* queue::limit, 8 in the code
  MaxRequests,  \* bound: how many requests the client sends
  MaxReplies    \* bound: how often one request handler calls response::send

ASSUME LimitAssumption == Limit \in Nat \ {0}   \* the static_assert of queue
ASSUME BoundsAssumption == MaxRequests \in Nat /\ MaxReplies \in Nat

\* What the session takes for granted of the request handlers: they call
\* response::send at most once.  queue::send does not look at is_full, so a
\* handler that sends twice may overfill the queue, and then two writes in a
\* row restart the read loop.
ASSUME OneReplyAssumption == MaxReplies <= 1

VARIABLES
  peer,     \* the client's end: "open", "fin" (it sends no more), "reset"
  unread,   \* requests the client has sent and on_read has not taken yet
  handled,  \* requests given to router_->handle_request so far
  replies,  \* response::send calls made for the request being handled
  rd,       \* the read loop: see ReadStates
  rdEnd,    \* why the read loop last ended: "no", "eos", "error", "threw"
  items,    \* queue::items_
  wr,       \* the write loop: see WriteStates
  wrEnd,    \* why the write loop ended: "no", "closed", "failed"
  shut,     \* do_close has shut down the sending side of the socket
  sent      \* responses written completely, in order (history)

vars == <<peer, unread, handled, replies, rd, rdEnd, items, wr, wrEnd, shut, sent>>

clientVars == <<peer, unread>>
readVars == <<rd, rdEnd, handled, replies>>
writeVars == <<items, wr, wrEnd, sent>>

\* "idle": no read outstanding; "waiting": async_read outstanding; then its
\* result, which on_read has not seen yet; "handling": inside handle_request.
ReadStates == {"idle", "waiting", "request", "eos", "error", "handling"}

\* "idle": no write outstanding; "sending": async_write outstanding; then its
\* result, which on_write has not seen yet.
WriteStates == {"idle", "sending", "done", "failed"}

Reply == [req : 1..MaxRequests, close : BOOLEAN]

TypeOK ==
  /\ peer \in {"open", "fin", "reset"}
  /\ unread \in Nat
  /\ handled \in Nat
  /\ replies \in 0..MaxReplies
  /\ rd \in ReadStates
  /\ rdEnd \in {"no", "eos", "error", "threw"}
  /\ items \in Seq(Reply)
  /\ wr \in WriteStates
  /\ wrEnd \in {"no", "closed", "failed"}
  /\ shut \in BOOLEAN
  /\ sent \in Seq(Reply)

--------------------------------------------------------------------------------
(* The operations of the session that its handlers call.                   *)

\* queue::is_full
IsFull(q) == Len(q) >= Limit

\* Faulty: was_full taken after the erase.
FaultyWasFull == IsFull(Tail(items))

\* was_full in queue::on_write: taken before the written item is erased.
WasFull == IsFull(items)

\* do_read: a fresh parser and an async_read into it.
DoRead == rd' = "waiting"

\* do_close: TCP shutdown of the sending side; reading is not affected.
DoClose == shut' = TRUE

\* resp.keep_alive(http_req.keep_alive() || http_req.version() > 10) in
\* on_read, for the HTTP version and the keep_alive() of the request.
KeepAlive(version, asked) == asked \/ version > 10

\* message::need_eof of the response: without Content-Length or chunks its
\* end is the end of the connection.
NeedEof(keepAlive, sized) == ~keepAlive \/ ~sized

\* Faulty: the close argument of on_write is never looked at.
FaultyClosesAfter(reply) == FALSE

\* The condition on which on_write gives the connection up.
ClosesAfter(reply) == reply.close

\* Faulty: on_read does not ask whether the queue is full.
FaultyReadOn == DoRead

\* The tail of on_read: the read loop goes on unless the queue is full.
ReadOn == IF ~IsFull(items) THEN DoRead ELSE rd' = "idle"

--------------------------------------------------------------------------------
(* The client and the network.                                             *)

ClientRequest ==
  /\ peer = "open"
  /\ unread + handled < MaxRequests
  /\ unread' = unread + 1
  /\ UNCHANGED <<peer, readVars, writeVars, shut>>

\* The client sends no more, and still reads.
ClientFin ==
  /\ peer = "open"
  /\ peer' = "fin"
  /\ UNCHANGED <<unread, readVars, writeVars, shut>>

ClientReset ==
  /\ peer # "reset"
  /\ peer' = "reset"
  /\ UNCHANGED <<unread, readVars, writeVars, shut>>

\* async_read is done: a whole request, a clean end of the stream, or an
\* error (malformed or oversized message, a message cut short, a reset).
ReadCompletes ==
  /\ rd = "waiting"
  /\ \/ unread > 0 /\ rd' = "request"
     \/ unread = 0 /\ peer = "fin" /\ rd' = "eos"
     \/ (unread > 0 \/ peer # "open") /\ rd' = "error"
  /\ UNCHANGED <<clientVars, rdEnd, handled, replies, writeVars, shut>>

\* async_write has handed the last byte of the response to the kernel, which
\* takes nothing after a shutdown or a reset.
WriteFlushes ==
  /\ wr = "sending"
  /\ ~shut /\ peer # "reset"
  /\ wr' = "done"
  /\ sent' = Append(sent, Head(items))
  /\ UNCHANGED <<clientVars, readVars, items, wrEnd, shut>>

\* async_write fails: the socket, or the file a file_body reads from.
WriteFails ==
  /\ wr = "sending"
  /\ wr' = "failed"
  /\ UNCHANGED <<clientVars, readVars, items, wrEnd, shut, sent>>

--------------------------------------------------------------------------------
(* on_read and what it calls.                                              *)

\* Faulty: no return after do_close(), the empty parser is taken for a request.
FaultyOnReadEos ==
  /\ rd = "eos"
  /\ DoClose
  /\ rd' = "handling"
  /\ unread' = unread - 1
  /\ handled' = handled + 1
  /\ replies' = 0
  /\ UNCHANGED <<peer, rdEnd, writeVars>>

\* if (ec == http::error::end_of_stream) return do_close();
OnReadEos ==
  /\ rd = "eos"
  /\ DoClose
  /\ rd' = "idle"
  /\ rdEnd' = "eos"
  /\ UNCHANGED <<clientVars, handled, replies, writeVars>>

\* Faulty: reads on after an error.
FaultyOnReadError ==
  /\ rd = "error"
  /\ DoRead
  /\ UNCHANGED <<clientVars, rdEnd, handled, replies, writeVars, shut>>

\* if (ec) return fail(ec, "read");
OnReadError ==
  /\ rd = "error"
  /\ rd' = "idle"
  /\ rdEnd' = "error"
  /\ UNCHANGED <<clientVars, handled, replies, writeVars, shut>>

\* The request leaves the parser and router_->handle_request(resp) begins.
OnReadRequest ==
  /\ rd = "request"
  /\ rd' = "handling"
  /\ unread' = unread - 1
  /\ handled' = handled + 1
  /\ replies' = 0
  /\ UNCHANGED <<peer, rdEnd, writeVars, shut>>

\* Faulty: the first item is written whenever one is pushed.
FaultySendTwice(close) ==
  /\ rd = "handling"
  /\ replies < MaxReplies
  /\ replies' = replies + 1
  /\ items' = Append(items, [req |-> handled, close |-> close])
  /\ wr' = "sending"
  /\ UNCHANGED <<clientVars, rd, rdEnd, handled, wrEnd, sent, shut>>

\* Faulty: the item waits for an on_write that need not come.
FaultySendLater(close) ==
  /\ rd = "handling"
  /\ replies < MaxReplies
  /\ replies' = replies + 1
  /\ items' = Append(items, [req |-> handled, close |-> close])
  /\ UNCHANGED <<clientVars, rd, rdEnd, handled, wr, wrEnd, sent, shut>>

\* response::send, sender::send_response and queue::send: the response joins
\* the queue, and is written at once if it is alone there.
Send(close) ==
  /\ rd = "handling"
  /\ replies < MaxReplies
  /\ replies' = replies + 1
  /\ items' = Append(items, [req |-> handled, close |-> close])
  /\ wr' = IF Len(items') = 1 THEN "sending" ELSE wr
  /\ UNCHANGED <<clientVars, rd, rdEnd, handled, wrEnd, sent, shut>>

\* The response to an HTTP/1.0 or HTTP/1.1 request, with a length or without.
SendReply ==
  \E version \in {10, 11}, asked \in BOOLEAN, sized \in BOOLEAN :
    Send(NeedEof(KeepAlive(version, asked), sized))

\* handle_request returns.
OnReadReturn ==
  /\ rd = "handling"
  /\ ReadOn
  /\ UNCHANGED <<clientVars, rdEnd, handled, replies, writeVars, shut>>

\* handle_request throws and on_read is unwound without reading on; if the
\* queue is full by then, on_write will restart the read loop all the same.
OnReadThrows ==
  /\ rd = "handling"
  /\ rd' = "idle"
  /\ rdEnd' = "threw"
  /\ UNCHANGED <<clientVars, handled, replies, writeVars, shut>>

--------------------------------------------------------------------------------
(* on_write.  The strand keeps it out while on_read is running.            *)

\* if (ec) return fail(ec, "write");
OnWriteError ==
  /\ wr = "failed" /\ rd # "handling"
  /\ wr' = "idle"
  /\ wrEnd' = "failed"
  /\ UNCHANGED <<clientVars, readVars, items, sent, shut>>

\* if (close) return do_close();
OnWriteClose ==
  /\ wr = "done" /\ rd # "handling"
  /\ ClosesAfter(Head(items))
  /\ DoClose
  /\ wr' = "idle"
  /\ wrEnd' = "closed"
  /\ UNCHANGED <<clientVars, readVars, items, sent>>

\* Faulty: the next write starts without the erase.
FaultyOnWriteNext ==
  /\ wr = "done" /\ rd # "handling"
  /\ ~ClosesAfter(Head(items))
  /\ wr' = "sending"
  /\ IF WasFull THEN DoRead ELSE UNCHANGED rd
  /\ UNCHANGED <<clientVars, rdEnd, handled, replies, items, wrEnd, sent, shut>>

\* if (queue_.on_write()) do_read();
OnWriteNext ==
  /\ wr = "done" /\ rd # "handling"
  /\ ~ClosesAfter(Head(items))
  /\ items' = Tail(items)
  /\ wr' = IF items' # <<>> THEN "sending" ELSE "idle"
  /\ IF WasFull THEN DoRead ELSE UNCHANGED rd
  /\ UNCHANGED <<clientVars, rdEnd, handled, replies, wrEnd, sent, shut>>

--------------------------------------------------------------------------------

\* The constructor, and run(), which makes the first do_read.
Init ==
  /\ peer = "open"
  /\ unread = 0
  /\ handled = 0
  /\ replies = 0
  /\ rd = "waiting"
  /\ rdEnd = "no"
  /\ items = <<>>
  /\ wr = "idle"
  /\ wrEnd = "no"
  /\ shut = FALSE
  /\ sent = <<>>

Client == ClientRequest \/ ClientFin \/ ClientReset
OnRead == OnReadEos \/ OnReadError \/ OnReadRequest \/ SendReply
            \/ OnReadReturn \/ OnReadThrows
OnWrite == OnWriteError \/ OnWriteClose \/ OnWriteNext

Next == Client \/ ReadCompletes \/ WriteFlushes \/ WriteFails \/ OnRead \/ OnWrite

Spec == Init /\ [][Next]_vars

(***************************************************************************)
(* Fairness.  The io_context runs every handler that is ready, and a       *)
(* request handler returns.  A read with something to report completes     *)
(* (kernel).  A write completes or fails: this is the one assumption about *)
(* the client, which must take what it is sent or go away, for the session *)
(* sets no time limit (stream_.expires_never() in do_read).                *)
(***************************************************************************)
Fairness ==
  /\ WF_vars(OnReadEos \/ OnReadError \/ OnReadRequest)
  /\ WF_vars(OnReadReturn \/ OnReadThrows)
  /\ WF_vars(OnWrite)
  /\ WF_vars(ReadCompletes)
  /\ WF_vars(WriteFlushes \/ WriteFails)

FairSpec == Spec /\ Fairness

--------------------------------------------------------------------------------
(* Derived state.                                                          *)

\* The response at the front of the queue is already written: on_write has
\* not erased it yet, or has returned without erasing it.
FrontSent == wr = "done" \/ wrEnd = "closed"

\* The responses that are queued and not written.
Unsent == IF FrontSent THEN Tail(items) ELSE items

\* No operation holds a shared_ptr to the session any more: it is destroyed,
\* and with it the queue and the socket.
Released == rd = "idle" /\ wr = "idle"

\* No response can be delivered any more.
Ended ==
  \/ shut
  \/ wrEnd # "no"
  \/ wr = "failed"
  \/ wr = "done" /\ Head(items).close

\* The operations as the io_context sees them.
SessionOps ==
  [rd |-> CASE rd = "idle" -> "none" [] rd = "waiting" -> "waiting" [] OTHER -> "ready",
   wr |-> CASE wr = "idle" -> "none" [] wr = "sending" -> "waiting" [] OTHER -> "ready"]

Stream == INSTANCE ReplyStream
  WITH Capacity <- Limit, owed <- Unsent, delivered <- sent, ended <- Ended

--------------------------------------------------------------------------------
(* Properties.                                                             *)

\* A read is outstanding only while the queue has room for its response.  So
\* the write that empties a slot of a full queue (queue::on_write returning
\* was_full) never starts a second async_read into the parser of the first.
ReadNeedsRoom ==
  /\ rd \notin {"idle", "handling"} => ~IsFull(items)
  /\ Len(items) <= Limit

\* The session is destroyed only after one of its loops ended for a reason:
\* the read loop that a full queue stopped is never lost, which would drop a
\* healthy connection without an answer, a shutdown or a message in the log.
NeverDropped == Released => rdEnd # "no" \/ wrEnd # "no"

\* Pipelined requests are answered in the order they came in, each response
\* is written once, and what is still queued comes after what is written.
RepliesInOrder ==
  /\ \A i, j \in DOMAIN sent : i < j => sent[i].req < sent[j].req
  /\ \A i \in DOMAIN sent, j \in DOMAIN Unsent : sent[i].req < Unsent[j].req

\* No response follows one that closes the connection, which a client would
\* take for the rest of the body of the closing one.
ClosingReplyIsLast ==
  \A i \in DOMAIN sent : sent[i].close => i = Len(sent)

\* The session implements the abstract stream of replies.
StreamSpec == Stream!Spec

\* A handler of the session never starts an operation while one of the same
\* kind is outstanding, and nothing but a handler starts one: what Server
\* takes for granted of the sessions it runs.
ServerSeesTheSession ==
  [][SessionOps' # SessionOps => SessionOps' \in Changes(SessionOps)]_vars

\* ... and delivers what it owes as long as the stream has not ended.
StreamFairSpec == Stream!FairSpec

\* Once the client sends no more, the session is destroyed in the end,
\* whatever is queued and whichever loop was stopped by the other.
EventuallyReleased == (peer # "open") ~> Released
================================================================================
