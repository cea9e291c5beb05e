SPECIFICATION Spec
CONSTANTS
  a = a
  s1 = s1
  s2 = s2
  p1 = p1
  p2 = p2
  None = None
  NoStream = NoStream
  Account <- MCAccount
  Game <- MCGame
  Playable <- MCPlayable
  Bare <- MCBare
  Slot <- MCSlot
  Proc <- MCProc
  MaxCloses = 1
  MaxActs = 3
INVARIANTS TypeOK LoneLabelTrue ClosedGameStops
PROPERTIES LoneStartPermitted ClosedWindowEnds
CHECK_DEADLOCK FALSE
