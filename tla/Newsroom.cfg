SPECIFICATION Spec
CONSTANTS
  NoOne = NoOne
  Sources = {1, 2}
  Urls = {1, 2}
  Editions <- Content
  Stamp <- Dates
  StatesETag = {1}
  Terms = {1, 2}
  Replicas = {r1, r2}
  MaxAttempts = 2
  Beginnings <- Exercises
  Workers = {w1, w2}
  LanguageOf <- Spoken
  ReaderLocales <- Readers
  Prose = {11, 12, 21}
  Costs = {1, 3}
  PerArticle = 2
  Monthly = 3
  CycleLimit = 2
  CallAttempts = 2
  Editors = {e1, e2}
  Places = {1}
  Follows = {1}
  MaxArticles = 2
  PageLimit = 1
  MaxClock = 3
CHECK_DEADLOCK FALSE
SYMMETRY Interchangeable
INVARIANTS ValidatorsVouch MonthIsWhole PaidOnce DecidedByEditors ProvenanceIsWhole
