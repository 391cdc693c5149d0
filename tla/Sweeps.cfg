SPECIFICATION FairSpec
CONSTANTS
  s1 = s1
  s2 = s2
  s3 = s3
  f1 = f1
  f2 = f2
  p1 = p1
  p2 = p2
  Purchases = {s1, s2, s3}
  At <- Made
  Facts = {f1, f2}
  NoFact = NoFact
  Pollers = {p1}
  NoPoller = NoPoller
  NoTime = NoTime
  MaxWindow = 2
  ReportingLag = 1
  TrailingLag = 2
  Validation = 3
  Starts = {0, 2}
  Skew = 0
  MaxTime = 8
  MaxFaults = 1
  MaxConnects = 2
CHECK_DEADLOCK FALSE
INVARIANTS NothingUnread RereadSettles
PROPERTY EverySaleSettles
