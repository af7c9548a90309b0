--------------------------- MODULE HttpSessionProofs ---------------------------
(***************************************************************************)
(* The properties of HttpSession, for queues and connections of every      *)
(* length.  None of them is inductive as it stands; IInv below is, and     *)
(* says how the read loop, the write loop, the queue and what was sent     *)
(* depend on one another.                                                  *)
(***************************************************************************)
EXTENDS HttpSession, TLAPS

\* What each state of the read loop says about the room in the queue.
ReadLoop ==
  /\ Len(items) <= Limit
  /\ rd \in {"waiting", "request", "eos", "error"} => Len(items) < Limit
  /\ rd = "handling" /\ replies = 0 => Len(items) < Limit
  /\ rdEnd \in {"eos", "error"} => rd = "idle" /\ Len(items) < Limit
  /\ rd = "idle" /\ rdEnd = "no" => Len(items) = Limit

\* A write is outstanding as long as there is an item, until one fails or
\* closes the connection.
WriteLoop ==
  /\ wrEnd = "no" => (wr = "idle" <=> items = <<>>)
  /\ wrEnd # "no" => wr = "idle" /\ items # <<>>

\* The requests that the client has sent are counted once.
Counted ==
  /\ unread + handled <= MaxRequests
  /\ rd = "request" => unread > 0
  /\ rd = "handling" => handled > 0

\* A request that may still be answered.
Answered(r) == r.req <= handled /\ (rd = "handling" /\ replies = 0 => r.req < handled)

\* What is sent and what is queued is in the order of the requests, and the
\* two overlap in the front item only.
Ordered ==
  /\ \A i \in 1..Len(items) : Answered(items[i])
  /\ \A i \in 1..Len(sent) : Answered(sent[i])
  /\ \A i, j \in 1..Len(items) : i < j => items[i].req < items[j].req
  /\ \A i, j \in 1..Len(sent) : i < j => sent[i].req < sent[j].req
  /\ \A i \in 1..Len(sent), j \in 1..Len(items) :
       (FrontSent => j > 1) => sent[i].req < items[j].req
  /\ FrontSent => sent # <<>> /\ sent[Len(sent)] = Head(items)

\* A closing response is the last one sent, and keeps the front of the queue.
Closing ==
  \A i \in 1..Len(sent) : sent[i].close => i = Len(sent) /\ FrontSent

IInv ==
  /\ TypeOK
  /\ ReadLoop
  /\ WriteLoop
  /\ Counted
  /\ Ordered
  /\ Closing

USE LimitAssumption, BoundsAssumption, OneReplyAssumption

--------------------------------------------------------------------------------
(* The invariant.                                                          *)

LEMMA InitInv == Init => IInv
  <1> SUFFICES ASSUME Init PROVE IInv
    OBVIOUS
  <1>1. shut \in BOOLEAN
    BY DEF Init
  <1>2. TypeOK
    BY <1>1 DEF Init, TypeOK, ReadStates, WriteStates
  <1>3. ReadLoop /\ WriteLoop /\ Counted
    BY DEF Init, ReadLoop, WriteLoop, Counted
  <1>4. Ordered /\ Closing
    BY DEF Init, Ordered, Closing, FrontSent
  <1> QED
    BY <1>2, <1>3, <1>4 DEF IInv

\* Steps that leave both sequences and both loops' progress alone.
LEMMA ClientInv == IInv /\ Client => IInv'
  <1> SUFFICES ASSUME IInv, Client PROVE IInv'
    OBVIOUS
  <1> USE DEF Client, ClientRequest, ClientFin, ClientReset, clientVars, readVars, writeVars
  <1>1. TypeOK'
    BY DEF IInv, TypeOK
  <1>2. ReadLoop' /\ WriteLoop' /\ Counted'
    BY DEF IInv, TypeOK, ReadLoop, WriteLoop, Counted
  <1>3. Ordered' /\ Closing'
    BY DEF IInv, Ordered, Closing, Answered, FrontSent
  <1> QED
    BY <1>1, <1>2, <1>3 DEF IInv

LEMMA ReadInv ==
  IInv /\ (ReadCompletes \/ OnReadEos \/ OnReadError \/ OnReadRequest
             \/ OnReadReturn \/ OnReadThrows) => IInv'
  <1> SUFFICES ASSUME IInv,
                      ReadCompletes \/ OnReadEos \/ OnReadError \/ OnReadRequest
                        \/ OnReadReturn \/ OnReadThrows
               PROVE  IInv'
    OBVIOUS
  <1> USE DEF ReadCompletes, OnReadEos, OnReadError, OnReadRequest, OnReadReturn,
              OnReadThrows, ReadOn, DoRead, DoClose, IsFull,
              clientVars, readVars, writeVars
  <1>1. TypeOK'
    <2>1. shut' \in BOOLEAN
      BY DEF IInv, TypeOK
    <2> QED
      BY <2>1 DEF IInv, TypeOK, ReadStates, Counted
  <1>2. ReadLoop'
    BY DEF IInv, TypeOK, ReadLoop
  <1>3. WriteLoop' /\ Counted'
    BY DEF IInv, TypeOK, WriteLoop, Counted
  <1>4. /\ UNCHANGED <<items, sent, wr, wrEnd>>
        /\ \/ rd' # "handling" /\ handled' = handled
           \/ handled' = handled + 1
    OBVIOUS
  <1>5. Ordered'
    <2>1. \A r \in Reply : Answered(r) => Answered(r)'
      BY <1>4 DEF IInv, TypeOK, Answered, Reply
    <2>2. /\ \A i \in 1..Len(items) : items[i] \in Reply
          /\ \A i \in 1..Len(sent) : sent[i] \in Reply
      BY DEF IInv, TypeOK
    <2> QED
      BY <1>4, <2>1, <2>2 DEF IInv, Ordered, FrontSent
  <1>6. Closing'
    BY <1>4 DEF IInv, Closing, FrontSent
  <1> QED
    BY <1>1, <1>2, <1>3, <1>5, <1>6 DEF IInv

LEMMA SendInv == IInv /\ SendReply => IInv'
  <1> SUFFICES ASSUME IInv, NEW close \in BOOLEAN, Send(close) PROVE IInv'
    BY DEF SendReply, NeedEof, KeepAlive
  <1> DEFINE r == [req |-> handled, close |-> close]
  <1>1. /\ rd = "handling" /\ replies = 0 /\ replies' = 1 /\ replies' \in 0..MaxReplies
        /\ items' = Append(items, r)
        /\ wr' = IF Len(items') = 1 THEN "sending" ELSE wr
        /\ UNCHANGED <<peer, unread, rd, rdEnd, handled, wrEnd, sent, shut>>
    BY DEF Send, IInv, TypeOK, clientVars
  <1>2. /\ items \in Seq(Reply) /\ r \in Reply /\ items' \in Seq(Reply)
        /\ Len(items') = Len(items) + 1 /\ Len(items) < Limit
        /\ \A i \in 1..Len(items) : items'[i] = items[i]
        /\ items'[Len(items) + 1] = r
        /\ items # <<>> => Head(items') = Head(items)
    BY <1>1 DEF IInv, TypeOK, Reply, Counted, ReadLoop
  <1>3. TypeOK'
    BY <1>1, <1>2 DEF IInv, TypeOK, WriteStates
  <1>4. ReadLoop' /\ Counted'
    BY <1>1, <1>2 DEF IInv, TypeOK, ReadLoop, Counted
  <1>5. WriteLoop'
    BY <1>1, <1>2 DEF IInv, TypeOK, WriteLoop, WriteStates
  <1>6. FrontSent' = FrontSent /\ (FrontSent => items # <<>>)
    BY <1>1, <1>2 DEF IInv, TypeOK, WriteLoop, FrontSent
  <1>7. Ordered'
    <2>1. /\ (\A i \in 1..Len(items) : Answered(items[i]))'
          /\ (\A i \in 1..Len(sent) : Answered(sent[i]))'
      <3>1. \A q \in Reply : Answered(q) => Answered(q)'
        BY <1>1 DEF IInv, TypeOK, Answered, Reply
      <3>2. Answered(r)'
        BY <1>1 DEF IInv, TypeOK, Answered
      <3>3. /\ \A i \in 1..Len(items) : items[i] \in Reply
            /\ \A i \in 1..Len(sent) : sent[i] \in Reply
        BY DEF IInv, TypeOK
      <3>4. \A i \in 1..Len(items') : i \in 1..Len(items) \/ i = Len(items) + 1
        BY <1>2
      <3> QED
        BY <1>1, <1>2, <3>1, <3>2, <3>3, <3>4 DEF IInv, Ordered
    <2>2. /\ \A i \in 1..Len(items) : items[i].req < r.req
          /\ \A i \in 1..Len(sent) : sent[i].req < r.req
      BY <1>1 DEF IInv, Ordered, Answered
    <2>3. \A i, j \in 1..Len(items') : i < j => items'[i].req < items'[j].req
      BY <1>2, <2>2 DEF IInv, Ordered
    <2>4. \A i \in 1..Len(sent'), j \in 1..Len(items') :
            (FrontSent' => j > 1) => sent'[i].req < items'[j].req
      BY <1>1, <1>2, <1>6, <2>2 DEF IInv, Ordered
    <2> QED
      BY <1>1, <1>2, <1>6, <2>1, <2>3, <2>4 DEF IInv, Ordered
  <1>8. Closing'
    BY <1>1, <1>6 DEF IInv, Closing
  <1> QED
    BY <1>3, <1>4, <1>5, <1>7, <1>8 DEF IInv

LEMMA WriteInv ==
  IInv /\ (WriteFails \/ OnWriteError \/ OnWriteClose) => IInv'
  <1> SUFFICES ASSUME IInv, WriteFails \/ OnWriteError \/ OnWriteClose
               PROVE  IInv'
    OBVIOUS
  <1> USE DEF WriteFails, OnWriteError, OnWriteClose, DoClose, clientVars, readVars
  <1>1. TypeOK'
    BY DEF IInv, TypeOK, WriteStates
  <1>2. ReadLoop' /\ WriteLoop' /\ Counted'
    BY DEF IInv, TypeOK, ReadLoop, WriteLoop, Counted, WriteStates
  <1>3. UNCHANGED <<items, sent, handled, rd, replies>> /\ FrontSent' = FrontSent
    BY DEF IInv, WriteLoop, FrontSent
  <1>4. Ordered' /\ Closing'
    BY <1>3 DEF IInv, Ordered, Closing, Answered
  <1> QED
    BY <1>1, <1>2, <1>4 DEF IInv

LEMMA FlushInv == IInv /\ WriteFlushes => IInv'
  <1> SUFFICES ASSUME IInv, WriteFlushes PROVE IInv'
    OBVIOUS
  <1>1. /\ wr = "sending" /\ wr' = "done" /\ wrEnd = "no" /\ items # <<>>
        /\ sent' = Append(sent, Head(items))
        /\ UNCHANGED <<peer, unread, rd, rdEnd, handled, replies, items, wrEnd, shut>>
    BY DEF WriteFlushes, clientVars, readVars, IInv, WriteLoop
  <1>2. /\ Head(items) = items[1] /\ items[1] \in Reply /\ 1 \in 1..Len(items)
        /\ sent \in Seq(Reply) /\ sent' \in Seq(Reply) /\ Len(sent') = Len(sent) + 1
        /\ \A i \in 1..Len(sent) : sent'[i] = sent[i]
        /\ sent'[Len(sent')] = items[1]
    BY <1>1 DEF IInv, TypeOK
  <1>3. ~FrontSent /\ FrontSent'
    BY <1>1 DEF FrontSent
  <1>4. TypeOK'
    BY <1>1, <1>2 DEF IInv, TypeOK, WriteStates
  <1>5. ReadLoop' /\ WriteLoop' /\ Counted'
    BY <1>1 DEF IInv, ReadLoop, WriteLoop, Counted
  <1>6. Ordered'
    <2>1. /\ (\A i \in 1..Len(items) : Answered(items[i]))'
          /\ (\A i \in 1..Len(sent) : Answered(sent[i]))'
      BY <1>1, <1>2 DEF IInv, TypeOK, Ordered, Answered
    <2>2. \A i, j \in 1..Len(items') : i < j => items'[i].req < items'[j].req
      BY <1>1 DEF IInv, Ordered
    <2>3. \A i, j \in 1..Len(sent') : i < j => sent'[i].req < sent'[j].req
      BY <1>1, <1>2, <1>3 DEF IInv, Ordered
    <2>4. \A i \in 1..Len(sent'), j \in 1..Len(items') :
            j > 1 => sent'[i].req < items'[j].req
      BY <1>1, <1>2, <1>3 DEF IInv, Ordered
    <2> QED
      BY <1>1, <1>2, <1>3, <2>1, <2>2, <2>3, <2>4 DEF Ordered
  <1>7. Closing'
    BY <1>2, <1>3 DEF IInv, Closing
  <1> QED
    BY <1>4, <1>5, <1>6, <1>7 DEF IInv

LEMMA NextWriteInv == IInv /\ OnWriteNext => IInv'
  <1> SUFFICES ASSUME IInv, OnWriteNext PROVE IInv'
    OBVIOUS
  <1>1. /\ wr = "done" /\ rd # "handling" /\ wrEnd = "no" /\ items # <<>>
        /\ ~Head(items).close
        /\ items' = Tail(items)
        /\ wr' = IF items' # <<>> THEN "sending" ELSE "idle"
        /\ IF Len(items) >= Limit THEN rd' = "waiting" ELSE rd' = rd
        /\ UNCHANGED <<peer, unread, rdEnd, handled, replies, wrEnd, sent, shut>>
    BY DEF OnWriteNext, WasFull, IsFull, DoRead, ClosesAfter, clientVars, IInv, WriteLoop
  <1>2. /\ items \in Seq(Reply) /\ items' \in Seq(Reply) /\ Len(items) \in Nat
        /\ Len(items') = Len(items) - 1
        /\ \A i \in 1..Len(items') : items'[i] = items[i + 1]
    BY <1>1 DEF IInv, TypeOK
  <1>3. FrontSent /\ ~FrontSent'
    BY <1>1 DEF FrontSent
  <1>4. TypeOK'
    BY <1>1, <1>2 DEF IInv, TypeOK, WriteStates, ReadStates
  <1>5. ReadLoop' /\ Counted'
    <2>1. CASE Len(items) >= Limit
      <3>1. rd = "idle" /\ Len(items) = Limit /\ rdEnd \notin {"eos", "error"}
        BY <1>1, <2>1 DEF IInv, TypeOK, ReadStates, ReadLoop
      <3> QED
        BY <1>1, <1>2, <2>1, <3>1 DEF IInv, TypeOK, ReadLoop, Counted
    <2>2. CASE ~(Len(items) >= Limit)
      <3>1. rd' = rd /\ Len(items') < Limit
        BY <1>1, <1>2, <2>2
      <3>2. ~(rd = "idle" /\ rdEnd = "no")
        BY <2>2 DEF IInv, ReadLoop
      <3>3. ReadLoop'
        BY <1>1, <3>1, <3>2 DEF IInv, ReadLoop
      <3>4. Counted'
        BY <1>1, <3>1 DEF IInv, Counted
      <3> QED
        BY <3>3, <3>4
    <2> QED
      BY <2>1, <2>2
  <1>6. WriteLoop'
    BY <1>1 DEF WriteLoop
  <1>7. Ordered'
    <2>1. rd' # "handling"
      BY <1>1
    <2>2. /\ (\A i \in 1..Len(items) : Answered(items[i]))'
          /\ (\A i \in 1..Len(sent) : Answered(sent[i]))'
      BY <1>1, <1>2, <2>1 DEF IInv, TypeOK, Ordered, Answered
    <2>3. \A i, j \in 1..Len(items') : i < j => items'[i].req < items'[j].req
      BY <1>1, <1>2 DEF IInv, TypeOK, Ordered
    <2>4. \A i \in 1..Len(sent'), j \in 1..Len(items') : sent'[i].req < items'[j].req
      BY <1>1, <1>2, <1>3 DEF IInv, TypeOK, Ordered
    <2> QED
      BY <1>1, <1>3, <2>2, <2>3, <2>4 DEF IInv, Ordered
  <1>8. Closing'
    <2>1. sent # <<>> /\ ~sent[Len(sent)].close
      BY <1>1, <1>3 DEF IInv, Ordered
    <2> QED
      BY <1>1, <1>3, <2>1 DEF IInv, Closing
  <1> QED
    BY <1>4, <1>5, <1>6, <1>7, <1>8 DEF IInv

LEMMA NextInv == IInv /\ [Next]_vars => IInv'
  <1>1. IInv /\ UNCHANGED vars => IInv'
    BY DEF vars, IInv, TypeOK, ReadLoop, WriteLoop, Counted, Ordered, Closing,
           Answered, FrontSent
  <1> QED
    BY <1>1, ClientInv, ReadInv, SendInv, WriteInv, FlushInv, NextWriteInv
       DEF Next, OnRead, OnWrite

THEOREM Invariant == Spec => []IInv
  BY InitInv, NextInv, PTL DEF Spec

--------------------------------------------------------------------------------
(* What follows from it.                                                   *)

\* Every variable keeps its type, and in particular the session never takes a
\* request that the client did not send.
THEOREM TypeCorrect == Spec => []TypeOK
  BY Invariant, PTL DEF IInv

\* A read is outstanding only while the queue has room, and on_write never
\* starts a second one, for a queue of any limit.
THEOREM ReadsHaveRoom == Spec => []ReadNeedsRoom
  <1>1. IInv => ReadNeedsRoom
    BY DEF IInv, TypeOK, ReadStates, ReadLoop, ReadNeedsRoom, IsFull
  <1> QED
    BY <1>1, Invariant, PTL

\* The read loop that a full queue stopped is always restarted: a session is
\* never destroyed while both of its loops could go on.
THEOREM SessionNotDropped == Spec => []NeverDropped
  <1>1. IInv => NeverDropped
    <2> SUFFICES ASSUME IInv, rd = "idle", wr = "idle", rdEnd = "no", wrEnd = "no"
                 PROVE  FALSE
      BY DEF NeverDropped, Released
    <2>1. items = <<>> /\ Len(items) = Limit
      BY DEF IInv, ReadLoop, WriteLoop
    <2> QED
      BY <2>1
  <1> QED
    BY <1>1, Invariant, PTL

\* Pipelined requests are answered in their order, each at most once.
THEOREM AnswersInOrder == Spec => []RepliesInOrder
  <1>1. IInv => RepliesInOrder
    <2> SUFFICES ASSUME IInv PROVE RepliesInOrder
      OBVIOUS
    <2>1. /\ items \in Seq(Reply) /\ sent \in Seq(Reply)
          /\ DOMAIN sent = 1..Len(sent) /\ DOMAIN items = 1..Len(items)
          /\ FrontSent => items # <<>>
      BY DEF IInv, TypeOK, WriteLoop, FrontSent
    <2>2. \A i, j \in DOMAIN sent : i < j => sent[i].req < sent[j].req
      BY <2>1 DEF IInv, Ordered
    <2>3. \A i \in DOMAIN sent, j \in DOMAIN Unsent : sent[i].req < Unsent[j].req
      <3>1. CASE FrontSent
        <4>1. /\ Unsent = Tail(items) /\ DOMAIN Unsent = 1..(Len(items) - 1)
              /\ \A j \in DOMAIN Unsent :
                   Unsent[j] = items[j + 1] /\ j + 1 \in 1..Len(items) /\ j + 1 > 1
          BY <2>1, <3>1 DEF Unsent
        <4> QED
          BY <2>1, <4>1 DEF IInv, Ordered
      <3>2. CASE ~FrontSent
        BY <2>1, <3>2 DEF Unsent, IInv, Ordered
      <3> QED
        BY <3>1, <3>2
    <2> QED
      BY <2>2, <2>3 DEF RepliesInOrder
  <1> QED
    BY <1>1, Invariant, PTL

\* Nothing is written after a response that closes the connection.
THEOREM NothingAfterClose == Spec => []ClosingReplyIsLast
  <1>1. IInv => ClosingReplyIsLast
    BY DEF IInv, TypeOK, Closing, ClosingReplyIsLast
  <1> QED
    BY <1>1, Invariant, PTL

--------------------------------------------------------------------------------
(* Every step of a session is a step of the stream of replies or leaves it *)
(* alone: a send is a Promise, a flushed write a Deliver, and a shutdown   *)
(* or a failed write an End.                                               *)

LEMMA SendIsPromise == IInv /\ SendReply => Stream!Promise
  <1> SUFFICES ASSUME IInv, NEW close \in BOOLEAN, Send(close) PROVE Stream!Promise
    BY DEF SendReply, NeedEof, KeepAlive
  <1> DEFINE r == [req |-> handled, close |-> close]
  <1>1. /\ rd = "handling" /\ replies = 0 /\ items' = Append(items, r)
        /\ wr' = IF Len(items') = 1 THEN "sending" ELSE wr
        /\ UNCHANGED <<wrEnd, sent, shut>>
    BY DEF Send, IInv, TypeOK, clientVars
  <1>2. /\ items \in Seq(Reply) /\ r \in Reply /\ Len(items) < Limit
        /\ Len(items') = Len(items) + 1
    BY <1>1 DEF IInv, TypeOK, Reply, Counted, ReadLoop
  <1>3. /\ FrontSent' = FrontSent /\ (FrontSent => items # <<>>)
        /\ items = <<>> => wr = "idle"
    BY <1>1, <1>2 DEF IInv, TypeOK, WriteLoop, FrontSent
  <1>4. Len(Unsent) < Limit /\ Unsent' = Append(Unsent, r)
    BY <1>1, <1>2, <1>3 DEF Unsent
  <1>5. Ended' = Ended
    <2>1. CASE items = <<>>
      BY <1>1, <1>2, <1>3, <2>1 DEF Ended
    <2>2. CASE items # <<>>
      <3>1. Head(items') = Head(items) /\ wr' = wr
        BY <1>1, <1>2, <2>2
      <3> QED
        BY <1>1, <3>1 DEF Ended
    <2> QED
      BY <2>1, <2>2
  <1> QED
    BY <1>1, <1>2, <1>4, <1>5 DEF Stream!Promise

LEMMA FlushIsDeliver == IInv /\ WriteFlushes => Stream!Deliver
  <1> SUFFICES ASSUME IInv, WriteFlushes PROVE Stream!Deliver
    OBVIOUS
  <1>1. /\ wr = "sending" /\ wr' = "done" /\ wrEnd = "no" /\ items # <<>> /\ ~shut
        /\ sent' = Append(sent, Head(items))
        /\ UNCHANGED <<items, wrEnd, shut>>
    BY DEF WriteFlushes, IInv, WriteLoop
  <1>2. Unsent = items /\ Unsent' = Tail(items)
    BY <1>1 DEF Unsent, FrontSent
  <1>3. ~Ended /\ Ended' = Head(items).close
    <2>1. Head(items) \in Reply
      BY <1>1 DEF IInv, TypeOK
    <2>2. Head(items).close \in BOOLEAN
      BY <2>1 DEF Reply
    <2> QED
      BY <1>1, <2>2 DEF Ended
  <1> QED
    BY <1>1, <1>2, <1>3 DEF Stream!Deliver

LEMMA OthersEndOrStutter ==
  ASSUME IInv,
         Client \/ ReadCompletes \/ WriteFails \/ OnReadEos \/ OnReadError
           \/ OnReadRequest \/ OnReadReturn \/ OnReadThrows \/ OnWriteError
           \/ OnWriteClose
  PROVE  Stream!End \/ UNCHANGED Stream!vars
  <1> USE DEF Client, ClientRequest, ClientFin, ClientReset, ReadCompletes,
              WriteFails, OnReadEos, OnReadError, OnReadRequest, OnReadReturn,
              OnReadThrows, OnWriteError, OnWriteClose, ClosesAfter, DoClose,
              clientVars, readVars, writeVars
  <1>1. UNCHANGED <<items, sent>> /\ FrontSent' = FrontSent
    BY DEF IInv, WriteLoop, FrontSent
  <1>2. UNCHANGED <<Unsent, sent>>
    BY <1>1 DEF Unsent
  <1>3. Ended' \/ UNCHANGED Ended
    BY DEF IInv, WriteLoop, Ended
  <1>4. Ended' \in BOOLEAN
    BY DEF Ended
  <1> QED
    BY <1>2, <1>3, <1>4 DEF Stream!End, Stream!vars

LEMMA NextWriteStutters == IInv /\ OnWriteNext => UNCHANGED Stream!vars
  <1> SUFFICES ASSUME IInv, OnWriteNext PROVE UNCHANGED Stream!vars
    OBVIOUS
  <1>1. /\ wr = "done" /\ wrEnd = "no" /\ ~Head(items).close
        /\ items' = Tail(items) /\ wr' \in {"sending", "idle"}
        /\ UNCHANGED <<wrEnd, sent, shut>>
    BY DEF OnWriteNext, ClosesAfter, IInv, WriteLoop
  <1>2. UNCHANGED <<Unsent, sent>>
    BY <1>1 DEF Unsent, FrontSent
  <1>3. Ended = shut /\ Ended' = shut'
    <2>1. shut \in BOOLEAN /\ shut' \in BOOLEAN
      BY <1>1 DEF IInv, TypeOK
    <2> QED
      BY <1>1, <2>1 DEF Ended
  <1> QED
    BY <1>1, <1>2, <1>3 DEF Stream!vars

\* A session is a stream of replies: at most Limit responses are owed, they are
\* delivered in order and once, and nothing follows the end of the stream.
THEOREM Refinement == Spec => StreamSpec
  <1>1. Init => Stream!Init
    BY DEF Init, Stream!Init, Unsent, FrontSent, Ended
  <1>2. IInv /\ [Next]_vars => [Stream!Next]_(Stream!vars)
    <2>1. IInv /\ UNCHANGED vars => UNCHANGED Stream!vars
      BY DEF vars, Stream!vars, Unsent, FrontSent, Ended
    <2> QED
      BY <2>1, SendIsPromise, FlushIsDeliver, OthersEndOrStutter, NextWriteStutters
         DEF Next, OnRead, OnWrite, Stream!Next
  <1> QED
    BY <1>1, <1>2, Invariant, PTL DEF Spec, StreamSpec, Stream!Spec

--------------------------------------------------------------------------------
(* What Server takes for granted of a session.                             *)

RdOp == CASE rd = "idle" -> "none" [] rd = "waiting" -> "waiting" [] OTHER -> "ready"
WrOp == CASE wr = "idle" -> "none" [] wr = "sending" -> "waiting" [] OTHER -> "ready"

\* One lemma for each kind of change that AsyncOps knows.
LEMMA ChangesOfOps ==
  ASSUME NEW o \in Ops, NEW p \in Ops
  PROVE  /\ o.rd = "waiting" /\ p.rd = "ready" /\ p.wr = o.wr => p \in Changes(o)
         /\ o.wr = "waiting" /\ p.wr = "ready" /\ p.rd = o.rd => p \in Changes(o)
         /\ o.rd = "ready" /\ o.wr = "none" /\ p.wr = "waiting" /\ p.rd = o.rd
              => p \in Changes(o)
         /\ o.rd = "ready" /\ p.rd # "ready" /\ p.wr = o.wr => p \in Changes(o)
         /\ o.wr = "ready" /\ p.wr # "ready"
              /\ (p.rd = o.rd \/ (o.rd = "none" /\ p.rd = "waiting")) => p \in Changes(o)
  <1>1. ASSUME o.rd = "waiting", p.rd = "ready", p.wr = o.wr PROVE p \in Completions(o)
    <2>1. p = [o EXCEPT !["rd"] = "ready"]
      BY <1>1 DEF Ops
    <2> QED
      BY <1>1, <2>1 DEF Completions
  <1>2. ASSUME o.wr = "waiting", p.wr = "ready", p.rd = o.rd PROVE p \in Completions(o)
    <2>1. p = [o EXCEPT !["wr"] = "ready"]
      BY <1>2 DEF Ops
    <2> QED
      BY <1>2, <2>1 DEF Completions
  <1>3. ASSUME o.rd = "ready", o.wr = "none", p.wr = "waiting", p.rd = o.rd
        PROVE  p \in DuringRead(o)
    BY <1>3 DEF DuringRead, Ops
  <1>4. ASSUME o.rd = "ready", p.rd # "ready", p.wr = o.wr PROVE p \in AfterRead(o)
    BY <1>4 DEF AfterRead
  <1>5. ASSUME o.wr = "ready", p.wr # "ready",
               p.rd = o.rd \/ (o.rd = "none" /\ p.rd = "waiting")
        PROVE  p \in AfterWrite(o)
    BY <1>5 DEF AfterWrite
  <1> QED
    BY <1>1, <1>2, <1>3, <1>4, <1>5 DEF Changes

\* A session starts an operation only from a handler and only when none of the
\* same kind is outstanding, as Server assumes of every session.
THEOREM SessionFitsServer == Spec => ServerSeesTheSession
  <1>1. ASSUME IInv, [Next]_vars, SessionOps' # SessionOps
        PROVE  SessionOps' \in Changes(SessionOps)
    <2>1. /\ SessionOps = [rd |-> RdOp, wr |-> WrOp] /\ SessionOps' = [rd |-> RdOp', wr |-> WrOp']
          /\ RdOp \in Op /\ WrOp \in Op /\ RdOp' \in Op /\ WrOp' \in Op
      BY DEF SessionOps, RdOp, WrOp, Op
    <2>2. SessionOps \in Ops /\ SessionOps' \in Ops
      BY <2>1 DEF Ops
    <2>3. RdOp' # RdOp \/ WrOp' # WrOp
      BY <1>1, <2>1
    <2>4. \/ RdOp = "waiting" /\ RdOp' = "ready" /\ WrOp' = WrOp
          \/ WrOp = "waiting" /\ WrOp' = "ready" /\ RdOp' = RdOp
          \/ RdOp = "ready" /\ WrOp = "none" /\ WrOp' = "waiting" /\ RdOp' = RdOp
          \/ RdOp = "ready" /\ RdOp' # "ready" /\ WrOp' = WrOp
          \/ WrOp = "ready" /\ WrOp' # "ready"
               /\ (RdOp' = RdOp \/ (RdOp = "none" /\ RdOp' = "waiting"))
      <3> USE <1>1, <2>3 DEF RdOp, WrOp
      <3>1. CASE Client \/ UNCHANGED vars
        BY <3>1 DEF Client, ClientRequest, ClientFin, ClientReset, vars, readVars, writeVars
      <3>2. CASE ReadCompletes
        BY <3>2 DEF ReadCompletes, writeVars
      <3>3. CASE WriteFlushes \/ WriteFails
        BY <3>3 DEF WriteFlushes, WriteFails, readVars
      <3>4. CASE OnReadEos \/ OnReadError \/ OnReadRequest \/ OnReadReturn \/ OnReadThrows
        BY <3>4 DEF OnReadEos, OnReadError, OnReadRequest, OnReadReturn, OnReadThrows,
                    ReadOn, DoRead, writeVars
      <3>5. CASE SendReply
        <4>1. /\ rd = "handling" /\ rd' = rd /\ items \in Seq(Reply)
              /\ \E r : items' = Append(items, r)
              /\ wr' = IF Len(items') = 1 THEN "sending" ELSE wr
          BY <3>5 DEF SendReply, Send, IInv, TypeOK
        <4>2. items # <<>> => wr' = wr
          BY <4>1
        <4>3. items = <<>> => wr = "idle" /\ wr' = "sending"
          BY <4>1 DEF IInv, TypeOK, WriteLoop
        <4> QED
          BY <4>1, <4>2, <4>3
      <3>6. CASE OnWriteError \/ OnWriteClose
        BY <3>6 DEF OnWriteError, OnWriteClose, readVars
      <3>7. CASE OnWriteNext
        <4>1. rd' = rd \/ (rd = "idle" /\ rd' = "waiting")
          BY <3>7 DEF OnWriteNext, WasFull, IsFull, DoRead, IInv, TypeOK, ReadStates, ReadLoop
        <4>2. wr = "done" /\ wr' \in {"sending", "idle"}
          BY <3>7 DEF OnWriteNext
        <4> QED
          BY <4>1, <4>2
      <3> QED
        BY <3>1, <3>2, <3>3, <3>4, <3>5, <3>6, <3>7 DEF Next, OnRead, OnWrite
    <2> QED
      BY <2>1, <2>2, <2>4, ChangesOfOps
  <1> QED
    BY <1>1, Invariant, PTL DEF Spec, ServerSeesTheSession
================================================================================
