SPECIFICATION Spec
CONSTANTS
  m1 = m1
  m2 = m2
  s1 = s1
  s2 = s2
  None = None
  Msg <- MCMsg
  Tab <- MCTab
  TabOf <- MCTabOf
  Forced <- MCForced
  FirstTab = 0
  Slot <- MCSlot
  MaxActs = 2
INVARIANTS
  TypeOK
  EmptyFits
  LoneNoticeIsOwn
PROPERTIES
  ListArrives
  DetailsArrive
  ComesToRest
CHECK_DEADLOCK FALSE
