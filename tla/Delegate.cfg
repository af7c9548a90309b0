SPECIFICATION Spec
CONSTANTS
  Delegates = {d1, d2, d3}
  Blocks = {b1, b2, b3, b4}
  NoBlock = NoBlock
  Types = {"small", "large"}
  SizeOf <- MCSizeOf
  Garbage = {0, 2}
SYMMETRY MCSymmetry
INVARIANT CallsItsOwn
PROPERTY CopiesKeep
