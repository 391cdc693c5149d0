SPECIFICATION Spec
CONSTANTS
  i1 = i1
  i2 = i2
  j1 = j1
  j2 = j2
  h1 = h1
  h2 = h2
  h3 = h3
  h4 = h4
  Instances = {i1}
  Jobs = {j1}
  Handlers = {h1, h2, h3, h4}
  MaxPool = 4
  LedgerOnPool = TRUE
  NoInstance = NoInstance
  MaxFaults = 0
INVARIANTS PoolNotWedged
