SPECIFICATION FSpec
CONSTANTS
  r1 = r1
  r2 = r2
  planner = planner
  member = member
  x1 = x1
  s1 = s1
  Expenses = {x1}
  Settlements = {s1}
  Users = {planner}
  Planners = {planner}
  Amounts = {1, 2}
  Notes = {}
  NoUser = NoUser
  NoNote = NoNote
  NoDoc = NoDoc
  Requests = {r1, r2}
  SettingsChoices <- MCSettingsChoices
  CreateInputs <- MCCreateInputs
  EditInputs <- MCEditInputs
  Operations = {"create", "update", "approve", "delete", "finalize", "unfinalize"}
  MaxVersion = 2
  MaxTripVersion = 3
INVARIANTS
  FTypeOK
PROPERTIES
  EveryFigureHeld
  FinalizedTripComesToRest
