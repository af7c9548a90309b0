SPECIFICATION Spec
CONSTANTS
  Modulus = 8
  Roots = 2
  Buffer = 2
  Lengths = {0, 1, 4}
  Dates = {1, 2}
  MaxChanges = 1
  Requests <- MCRequests
  Types <- MCTypes
  Memory <- MCMemory
INVARIANT ReadsAtPosition
\* The handling of a request ends.
CHECK_DEADLOCK FALSE
