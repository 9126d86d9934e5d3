SPECIFICATION Spec
CONSTANTS
  r1 = r1
  r2 = r2
  c1 = c1
  i1 = i1
  i2 = i2
  i3 = i3
  x1 = x1
  x2 = x2
  ann = ann
  bob = bob
  Receipts = {c1}
  Items = {i1, i2}
  Expenses = {x1, x2}
  Diners = {ann}
  Prices = {1, 2}
  NoReceipt = NoReceipt
  NoItem = NoItem
  NoExpense = NoExpense
  Requests = {r1, r2}
  Operations = {"upload", "extract", "add", "update", "remove", "assign", "convert", "delete", "expense"}
  MaxReadings = 2
SYMMETRY Symmetric
INVARIANTS
  ConvertsOnce
CHECK_DEADLOCK FALSE
