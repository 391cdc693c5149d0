SPECIFICATION FairSpec
CONSTANTS
  p1 = p1
  p2 = p2
  r1 = r1
  r2 = r2
  ann = ann
  own = own
  other = other
  Members = {ann}
  Entries = {1}
  OwnerOf <- OneOwner
  AmountOf <- OneAmount
  BrandOf <- OneBrand
  Requests = {r1, r2}
  Wants = {1}
  Threshold = 1
  Procs = {p1, p2}
  NoProc = NoProc
  NoRequest = NoRequest
  NoTransfer = NoTransfer
  MaxFaults = 1
  MaxLost = 0
PROPERTIES KnownOutcomeIsRecorded
