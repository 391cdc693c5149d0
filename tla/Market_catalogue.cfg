SPECIFICATION Spec
CONSTANTS
  n1 = n1
  n2 = n2
  Programmes = {1, 2, 3, 4}
  Networks = {n1, n2}
  NetworkOf <- Carriers
  SlugOf <- Names
  FallbackSlug <- Fallbacks
  OneAnswer = {n2}
  Matching = {1, 2, 3}
  Limit = 1
  Rates = {4, 6}
  Open = 99
  Beginnings <- Exercises
  Requests = {1, 2, 3, 4}
  MemberOf <- Senders
  ContextOf <- Devices
  PerMember = 1
  PerContext = 2
  ClickWindow = 2
  Wired = {n1}
  MaxOpen = 2
  c1 = c1
  c2 = c2
  c3 = c3
  c4 = c4
  Calls = {c1, c2, c3}
  Burst = 1
  Spacing = 2
  BaseDelay = 1
  DelayCap = 3
  MaxAttempts = 3
  MaxElapsed = 6
  AskCeiling = 5
  MaxInt = 63
  Scale = 6
  Headers = {0, 2, 9}
  StartBy = 2
  MaxCancels = 2
SYMMETRY Callers
CHECK_DEADLOCK FALSE
INVARIANTS TypeOK PagesAreWhole
PROPERTY OnlyTheAbsentLeave
