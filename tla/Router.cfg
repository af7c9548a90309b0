SPECIFICATION Spec
CONSTANTS
  FilterPaths <- MCFilterPaths
  Verbs <- MCVerbs
  Cases <- MCCases
INVARIANTS
  TypeOK
  AnsweredOnce
  NoWayUp
  SentThroughHooks
  FirstRouteCalled
  ParamsRebuild
\* A request ends.
CHECK_DEADLOCK FALSE
