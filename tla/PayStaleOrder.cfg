SPECIFICATION Spec
CONSTANTS
  x1 = x1
  MaxPurchases = 2
  CountDown = 1
  MaxSignals = 2
  MaxLeftover = 2
  MaxSelects = 1
  Extra <- MCExtra
INVARIANTS
  SuccessIsForOpenPurchase
CHECK_DEADLOCK FALSE
