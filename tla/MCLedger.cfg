SPECIFICATION Spec
CONSTANTS
  r1 = r1
  r2 = r2
  planner = planner
  member = member
  x1 = x1
  s1 = s1
  text = text
  Expenses = {x1}
  Settlements = {s1}
  Users = {planner, member}
  Planners = {planner}
  Amounts = {1, 2}
  Notes = {text}
  NoUser = NoUser
  NoNote = NoNote
  NoDoc = NoDoc
  Requests = {r1, r2}
  SettingsChoices <- MCSettingsChoices
  CreateInputs <- MCCreateInputs
  EditInputs <- MCEditInputs
  Operations = {"create", "update", "delete", "approve", "reject", "settings", "archive", "unarchive"}
  MaxVersion = 3
  MaxTripVersion = 2
SYMMETRY Symmetric
CONSTRAINT OneDocument
INVARIANTS
  TypeOK
  LinesMatchAmount
  VersionIdentifiesContent
  EventsFollowCommits
PROPERTIES
  Linearises
  ApprovalCoversAmount
