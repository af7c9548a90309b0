SPECIFICATION Spec
CONSTANTS
  Given <- MCGiven
  Behind <- MCBehind
PROPERTY EscapeInside
CHECK_DEADLOCK FALSE
