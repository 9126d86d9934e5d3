CHECK_DEADLOCK FALSE
SPECIFICATION Spec
CONSTANTS
  ann = ann
  bob = bob
  v1 = v1
  v2 = v2
  g1 = g1
  g2 = g2
  p1 = p1
  p2 = p2
  p3 = p3
  Users = {ann, bob}
  Clients = {tool}
  Visits = {v1, v2}
  Grants = {g1, g2}
  Pairs = {p1, p2, p3}
  Calls = {c1, c2, c3}
  NoUser = NoUser
  NoClient = NoClient
  NoVisit = NoVisit
  NoGrant = NoGrant
  NoPair = NoPair
SYMMETRY Symmetry
CONSTRAINT Focus
INVARIANT
  OTypeOK
  OneConnection
  ConsentBehindEveryToken
  RevocationIsEffective
PROPERTY
  RevokedOnlyForCause
  ImplementsTokenLine
