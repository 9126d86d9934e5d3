SPECIFICATION Spec
CONSTANTS
  r1 = r1
  r2 = r2
  ann = ann
  bob = bob
  m1 = m1
  m2 = m2
  m3 = m3
  x1 = x1
  s1 = s1
  Users = {ann, bob}
  Members = {m1, m2, m3}
  Expenses = {x1}
  Settlements = {}
  NoUser = NoUser
  NoMember = NoMember
  NoDoc = NoDoc
  Requests = {r1, r2}
  Operations = {"join", "add", "update", "remove", "record", "edit"}
  MaxWrites = 2
SYMMETRY Symmetric
INVARIANTS
  TypeOK
  OneMembership
PROPERTIES
  UndisturbedKeepsPlanner
  UndisturbedKeepsHistory
  UndisturbedKeepsRoles
