SPECIFICATION Spec
CONSTANTS
  a = a
  b = b
  s1 = s1
  s2 = s2
  None = None
  Account <- MCAccount
  Label <- MCLabel
  FirstLabel = "new"
  Word <- MCWord
  Games <- MCGames
  Edition <- MCEdition
  Slot <- MCSlot
  MaxActs = 2
INVARIANTS TypeOK TabShowsOwnList LoneViewIsOwn SignLabelTrue NothingHangs
SYMMETRY MCSymmetry
CHECK_DEADLOCK FALSE
