SPECIFICATION Spec
CONSTANTS
  s1 = s1
  s2 = s2
  c1 = c1
  c2 = c2
  ann = ann
  w1 = w1
  w2 = w2
  op = op
  Purchases = {s1}
  MaxReports <- Once
  AmountOf <- Amounts
  Statements <- Unpaid
  Payable <- AllPayable
  Clicks = {c1}
  MemberOf <- Ann
  Cites <- OwnOrLost
  NoClick = NoClick
  Runs = {w1}
  Exclusive = TRUE
  Operators = {op}
  NoOne = NoOne
  NoReport = NoReport
  NoTransfer = NoTransfer
  MaxFaults = 0
INVARIANT ConfirmedIsAccountedFor
