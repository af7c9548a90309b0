SPECIFICATION Spec
CONSTANTS
  Builders = {b1, b2, b3}
  Masks <- MCMasks
  FilterPaths <- MCFilterPaths
  MountPaths <- MCMountPaths
  MaxEntries = 3
  MaxRouters = 2
SYMMETRY MCSymmetry
INVARIANTS
  TypeOK
  OneHome
  SearchOrder
PROPERTY
  BelowItsMount
\* The bounds end a run.
CHECK_DEADLOCK FALSE
