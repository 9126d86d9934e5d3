SPECIFICATION Spec
CONSTANTS
  r1 = r1
  r2 = r2
  d1 = d1
  d2 = d2
  d3 = d3
  usd = usd
  idr = idr
  meal = meal
  sum = sum
  Currencies = {usd, idr}
  People = {1, 2, 3}
  Minor <- MCMinor
  Epsilon = 2
  Documents = {d1, d2, d3}
  Authors = {1, 2}
  Bills <- MCBills
  Sorted <- MCSorted
  Titles = {meal, sum}
  NoDoc = NoDoc
  NoTitle = NoTitle
  NoCurrency = NoCurrency
  Rates = {3}
  Requests = {r1, r2}
  Operations = {"create", "record", "edit", "settings", "rate", "lock", "tool", "delete", "delete rate"}
  MaxVersion = 2
  PageSize = 1
SYMMETRY Symmetric
CONSTRAINT OneSubject
INVARIANTS
  TTypeOK
  SplitsAreExact
  PlanSettles
  StatementsAgree
  OneSlotPerPair
  OneBaseCurrency
PROPERTIES
  RetryRecordsOnce
CHECK_DEADLOCK FALSE
