SPECIFICATION Spec
CONSTANTS
  Threads = {m}
  Main = m
  Conns = {c1}
  NoConn = none
  MaxFaults = 1
INVARIANT ReportedPortListens
CHECK_DEADLOCK FALSE
