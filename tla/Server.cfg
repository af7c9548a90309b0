SPECIFICATION FairSpec
CONSTANTS
  Threads = {m, w1, w2}
  Main = m
  Conns = {c1, c2}
  NoConn = none
  MaxFaults = 1
INVARIANTS
  TypeOK
  OneThreadPerSession
  ListenerOutlivesHandlers
  OneAccept
PROPERTIES
  ClientsAccepted
  StopEnds
\* The program ends.
CHECK_DEADLOCK FALSE
