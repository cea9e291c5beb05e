SPECIFICATION OrderlySpec
CONSTANTS
  x1 = x1
  x2 = x2
  MaxPurchases = 2
  CountDown = 2
  MaxSignals = 2
  MaxLeftover = 0
  MaxSelects = 2
  Extra <- MCExtra
INVARIANTS
  RequestsOwnOrder
  AmountIsOwn
  CodeOnScreen
PROPERTY CheckoutSpec
CHECK_DEADLOCK FALSE
