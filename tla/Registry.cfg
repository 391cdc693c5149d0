SPECIFICATION FairSpec
CONSTANTS
  w1 = w1
  w2 = w2
  l1 = l1
  l2 = l2
  N = 3
  Lanes = {l1, l2}
  LaneOf <- LastApart
  Handled <- LastUnhandled
  KeyOf <- LastKeyShared
  MaxTime = 1
  XidCircle = 16
  FirstXid = 14
  Workers = {w1}
  Exclusive = TRUE
  BatchSize = 2
  MaxFaults = 2
  RequeuedReadFails = TRUE
CHECK_DEADLOCK FALSE
INVARIANTS NoSkip LaneOrder
PROPERTIES LetterOutlivesFailure EventuallyDelivered
