\* A queue of three and five requests, so that it fills twice over; handlers that
\* answer at most once.
SPECIFICATION FairSpec
CONSTANTS
  Limit = 3
  MaxRequests = 5
  MaxReplies = 1
INVARIANTS
  TypeOK
  ReadNeedsRoom
  NeverDropped
  RepliesInOrder
  ClosingReplyIsLast
PROPERTIES
  StreamSpec
  StreamFairSpec
  EventuallyReleased
  ServerSeesTheSession
\* A session ends: the client is gone and no operation is outstanding.
CHECK_DEADLOCK FALSE
