SPECIFICATION FairSpec
CONSTANTS
  w1 = w1
  w2 = w2
  w3 = w3
  None = None
  MaxAsks = 2
  Worker <- MCWorker
INVARIANT LockInv
PROPERTIES
  OneAtATime
  EveryRequestReturns
CHECK_DEADLOCK FALSE
