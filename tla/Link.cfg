SPECIFICATION LinkSpec
CONSTANTS
  empty = empty
  asked = asked
  paired = paired
  Names = {empty, asked, paired}
  MaxAdds = 4
  Paths <- MCPaths
  NameText <- MCNameText
  ValueText <- MCValueText
  Given <- MCGiven
  Behind <- MCBehind
INVARIANTS
  TypeOK
  Indexed
  LinkArrives
  DecodesOnce
  SplitsTarget
PROPERTY
  MapSpec
\* The query has been read.
CHECK_DEADLOCK FALSE
