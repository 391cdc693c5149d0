SPECIFICATION Spec
CONSTANTS
  s1 = s1
  s2 = s2
  c1 = c1
  c2 = c2
  ann = ann
  w1 = w1
  w2 = w2
  op = op
  Purchases = {s1, s2}
  MaxReports <- Once
  AmountOf <- Amounts
  Statements <- OneStatement
  Payable <- AllPayable
  Clicks = {c1, c2}
  MemberOf <- Ann
  Cites <- Own
  NoClick = NoClick
  Runs = {w1}
  Exclusive = TRUE
  Operators = {op}
  NoOne = NoOne
  NoReport = NoReport
  NoTransfer = NoTransfer
  MaxFaults = 1
INVARIANTS ConfirmedIsEarned BooksAgree
