SPECIFICATION Spec
CONSTANTS
  r1 = r1
  r2 = r2
  d1 = d1
  d2 = d2
  d3 = d3
  usd = usd
  idr = idr
  meal = meal
  sum = sum
  Currencies = {usd, idr}
  People = {1, 2, 3}
  Minor <- MCMinor
  Epsilon = 2
  Documents = {d1, d2, d3}
  Authors = {1}
  Bills <- Dinners
  Sorted <- MCSorted
  Titles = {meal, sum}
  NoDoc = NoDoc
  NoTitle = NoTitle
  NoCurrency = NoCurrency
  Rates = {3}
  Requests = {r1}
  Operations = {"tool", "rate", "delete"}
  MaxVersion = 2
  PageSize = 3
PROPERTIES
  PurchaseRecordedOnce
CHECK_DEADLOCK FALSE
