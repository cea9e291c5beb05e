SPECIFICATION Spec
CONSTANTS
  alice = alice
  bob = bob
  p1 = p1
  p2 = p2
  s1 = s1
  s2 = s2
  None = None
  Account <- MCAccount
  Pass <- MCPass
  Slot <- MCSlot
  MaxActs = 4
INVARIANTS
  TypeOK
  OnlyAccepted
  LoginHasToken
  SavedPair
  SessionIsOwn
PROPERTIES
  RepliesAreOwn
CHECK_DEADLOCK FALSE
SYMMETRY MCSymmetry
