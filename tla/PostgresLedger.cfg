SPECIFICATION Spec
CONSTANTS
  p1 = p1
  p2 = p2
  p3 = p3
  k1 = k1
  k2 = k2
  k3 = k3
  confirmed = confirmed
  reserved = reserved
  house = house
  MemberAccounts = {confirmed, reserved}
  HouseAccounts = {house}
  Keys = {k1, k2, k3}
  Transfers <- Reservations
  NoTransfer = NoTransfer
  Procs = {p1, p2}
  NoProc = NoProc
  IdOf <- Ids
  MaxFaults = 1
SYMMETRY ProcSymmetry
INVARIANTS ToldRefIsRecorded NoWaitCycle
PROPERTIES LedgerSpec FundsAnswerIsAboutFunds
