SPECIFICATION Spec
CONSTANTS
  a = a
  b = b
  s1 = s1
  s2 = s2
  None = None
  Account <- MCAccount
  Label <- MCLabel
  FirstLabel = "new"
  Word <- MCWord
  Games <- MCGames
  Edition <- MCEdition
  Slot <- MCSlot
  MaxActs = 2
INVARIANT RefreshShowsNew
CHECK_DEADLOCK FALSE
