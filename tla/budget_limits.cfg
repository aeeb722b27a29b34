CONSTANTS
  a = a
  b = b
  r1 = r1
  r2 = r2
  r3 = r3
  Providers <- MCProviders
  Rank <- MCRank
  Runs <- MCRuns
  Needs <- MCNeeds
  Limit = 2
  MaxReservations = 1
  UnknownCost = "reserve"
  Fallback = 1
  MaxCost = 2
  MaxDay = 1
CONSTRAINT MCCalls
VIEW MCView
SYMMETRY MCSymmetry
SPECIFICATION Spec
INVARIANTS
  BudgetTypeOK
  SlotsHold
  CostsStayCharged
  WithinDailyLimit
  NothingLeaks
CHECK_DEADLOCK FALSE
