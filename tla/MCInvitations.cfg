SPECIFICATION ISpec
CONSTANTS
  r1 = r1
  r2 = r2
  u1 = u1
  u2 = u2
  t1 = t1
  t2 = t2
  t3 = t3
  i1 = i1
  i2 = i2
  k1 = k1
  k2 = k2
  ann = ann
  Users = {u1, u2}
  Emails = {ann}
  Passwords = {1}
  Tokens = {t1, t2, t3}
  NoUser = NoUser
  NoEmail = NoEmail
  NoPassword = NoPassword
  NoToken = NoToken
  MasterPassword = FALSE
  Requests = {r1, r2}
  Operations = {"register", "login", "google", "refresh", "logout", "password"}
  Invites = {i1, i2}
  NoInvite = NoInvite
  Tasks = {k1, k2}
SYMMETRY Symmetric
CONSTRAINT OneSubject
INVARIANTS
  ITypeOK
  EmailsAreUnique
  InvitedAreTracked
PROPERTIES
  UndisturbedRefreshIsSingle
  RegistrationReplacesNothing
  UndisturbedDecisionIsFinal
CHECK_DEADLOCK FALSE
