SPECIFICATION Spec
CONSTANTS
  c1 = c1
  c2 = c2
  i1 = i1
  i2 = i2
  k1 = k1
  k2 = k2
  k3 = k3
  confirmed = confirmed
  reserved = reserved
  funding = funding
  remainder = remainder
  MemberAccounts = {confirmed, reserved}
  HouseAccounts = {funding, remainder}
  Keys = {k1, k2, k3}
  Requests <- Asked
  Transfers <- Movements
  NoTransfer = NoTransfer
  Callers = {c1, c2}
  Instance <- TwoProcesses
  LedgerIds = {1, 2}
  NoCaller = NoCaller
  MaxOthers = 1
  ScanLimit = 3
  Read = {funding}
  PageCap = 1
  MaxTxns = 3
  MaxFaults = 1
SYMMETRY Swap
INVARIANTS OneNamespace HistoryIsWhole
PROPERTY ImplementsLedger
