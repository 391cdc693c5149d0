SPECIFICATION Spec
CONSTANTS
  NoOne = NoOne
  Accounts = {"a1", "a2"}
  Devices = {"d1", "d2", "d3"}
  OwnerOf <- Owners
  Handlers = {h1, h2}
  Versions = {1, 2}
  InForce = 2
  Details = {"iban", "other"}
  Describes = {"iban"}
  MaxClock = 3
  Beginnings <- Exercises
  Operators = {o1, o2}
  Statements <- Documents
  Words <- Reported
  Verdicts = {"x", "y"}
  PageLimit = 1
  MaxExportRows = 1
CHECK_DEADLOCK FALSE
INVARIANTS AnnouncedInTurn DeletionIsHandled PaidWhereVerified DeltasAddUp AnswersAreTheRecord ListsAreWhole
SYMMETRY Interchangeable
