SPECIFICATION FairSpec
CONSTANTS
  x1 = x1
  MaxPurchases = 2
  CountDown = 2
  MaxSignals = 1
  MaxLeftover = 1
  MaxSelects = 1
  Extra <- MCExtra
INVARIANTS
  TypeOK
  SuccessOnlyForPaid
  ScreenFollows
  TimersFollowPopup
PROPERTY PopupAlwaysCloses
CHECK_DEADLOCK FALSE
