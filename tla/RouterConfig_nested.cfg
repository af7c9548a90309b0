SPECIFICATION Spec
CONSTANTS
  Builders = {b1, b2, b3}
  Masks <- MCMasks
  FilterPaths <- MCFilterPaths
  MountPaths <- MCMountPaths
  MaxEntries = 3
  MaxRouters = 2
SYMMETRY MCSymmetry
PROPERTY
  BelowAllMounts
\* The bounds end a run.
CHECK_DEADLOCK FALSE
