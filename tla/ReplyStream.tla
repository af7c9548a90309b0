------------------------------ MODULE ReplyStream ------------------------------
(***************************************************************************)
(* What one HTTP connection promises to its client, without saying how:    *)
(* responses are promised one at a time, at most Capacity of them are      *)
(* outstanding, they are delivered in the order in which they were         *)
(* promised, each once, and nothing follows a response that closes the     *)
(* connection.  The stream may also end at any moment, because the peer    *)
(* went away or because the server shut its side down.                     *)
(*                                                                         *)
(* HttpSession implements this module (StreamSpec there); nothing here     *)
(* refers to reads, writes or handlers.                                    *)
(***************************************************************************)
EXTENDS Naturals, Sequences

CONSTANTS
  Capacity,   \* how many responses may be outstanding
  Reply       \* the set of responses, records with a Boolean field close

VARIABLES
  owed,       \* responses promised and not yet delivered, oldest first
  delivered,  \* responses the client's side of the connection has been given
  ended       \* nothing is delivered any more

vars == <<owed, delivered, ended>>

Init ==
  /\ owed = <<>>
  /\ delivered = <<>>
  /\ ended = FALSE

\* A request was dispatched and its response is now owed, in turn.
Promise ==
  /\ Len(owed) < Capacity
  /\ \E r \in Reply : owed' = Append(owed, r)
  /\ UNCHANGED <<delivered, ended>>

\* The oldest response reaches the client; a closing one ends the stream.
Deliver ==
  /\ ~ended
  /\ owed # <<>>
  /\ delivered' = Append(delivered, Head(owed))
  /\ owed' = Tail(owed)
  /\ ended' = Head(owed).close

\* The stream breaks or is shut down, owed responses and all.
End ==
  /\ ended' = TRUE
  /\ UNCHANGED <<owed, delivered>>

Next == Promise \/ Deliver \/ End

Spec == Init /\ [][Next]_vars

\* A response that can always be delivered is delivered in the end.
FairSpec == Spec /\ WF_vars(Deliver)
================================================================================
