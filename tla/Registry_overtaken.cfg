SPECIFICATION Spec
CONSTANTS
  w1 = w1
  w2 = w2
  l1 = l1
  l2 = l2
  N = 3
  Lanes = {l1}
  LaneOf <- OneLane
  Handled <- AllHandled
  KeyOf <- DistinctKeys
  MaxTime = 1
  XidCircle = 16
  FirstXid = 14
  Workers = {w1}
  Exclusive = TRUE
  BatchSize = 3
  MaxFaults = 3
  RequeuedReadFails = FALSE
CHECK_DEADLOCK FALSE
INVARIANT ParkedHeadFirst
