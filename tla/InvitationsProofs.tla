--------------------------- MODULE InvitationsProofs ----------------------------
(***************************************************************************)
(* Proofs about Accounts and Invitations together: one table of users,     *)
(* written by registrations, by Google sign-ins and by invitations.        *)
(*                                                                         *)
(* An account keeps its email, a token its owner and its revocation.       *)
(* Whatever else a request has read it can rely on only while it is calm,  *)
(* and every write makes the requests about the same person uneasy.        *)
(***************************************************************************)
EXTENDS Invitations, FiniteSetTheorems, TLAPS

InUse(u) == user[u].email # NoEmail

\* No two accounts share an address; an identity without an account is blank.
RowsOK ==
  /\ \A u, v \in Users : InUse(u) /\ user[u].email = user[v].email => u = v
  /\ \A u \in Users : ~InUse(u) => user[u] = NotAUser

\* Nothing was issued in exchange for t.
Childless(t) == \A s \in Tokens : token[s].parent # t

\* A token belongs to an account; only revoked ones have been exchanged.
TokensOK ==
  /\ \A t \in Tokens : token[t].life # "absent" =>
                         token[t].user \in Users /\ InUse(token[t].user)
  /\ \A t \in Tokens : token[t].life # "revoked" => Childless(t)

\* What a request on accounts holds.  The last two lines are what it has read and
\* nobody protects.
RequestOK(q) ==
  /\ q.pc \in {"create", "email"} => q.email \in Emails
  /\ q.pc \in {"create", "email", "claim", "link", "touch", "set"} => q.token \notin Tokens
  /\ q.pc \in {"rotate", "revoke", "reused"} => q.token \in Tokens
  /\ q.pc \in {"claim", "link", "touch", "issue", "set"} => q.user \in Users
  /\ q.user \in Users => InUse(q.user) /\ user[q.user].email = q.email
  /\ q.token \in Tokens => token[q.token].life # "absent" /\ token[q.token].user = q.user
  /\ q.pc = "issue" /\ q.token \in Tokens => token[q.token].life = "revoked"
  /\ q.op = "register" => q.pc \in {"claim", "create", "issue"}
  /\ q.op = "refresh" => q.token \in Tokens
  /\ q.calm /\ q.pc = "claim" => Placeholder(q.user)
  /\ q.calm /\ q.op = "refresh" /\ q.pc \in {"rotate", "issue"} => Childless(q.token)

AInv ==
  /\ user \in [Users -> User]
  /\ token \in [Tokens -> Token]
  /\ req \in [Requests -> Request]
  /\ RowsOK
  /\ TokensOK
  /\ \A r \in Requests : RequestOK(req[r])

---------------------------------------------------------------------------------
(* Requests that look on.                                                  *)

\* What is never undone in the two tables.
Grows ==
  /\ \A u \in Users : InUse(u) => user'[u].email = user[u].email
  /\ \A t \in Tokens : token[t].life # "absent" =>
       /\ token'[t].life # "absent"
       /\ token'[t].user = token[t].user
       /\ token[t].life = "revoked" => token'[t].life = "revoked"

LEMMA IdleOK ==
  /\ Idle \in Request /\ RequestOK(Idle)
  /\ Idle.user \notin Users /\ Idle.token \notin Tokens
BY AccountsAssumption DEF Idle, Request, RequestOK

\* A request that looks on keeps what it holds, if it stays calm only while what it
\* has read is so.
LEMMA Bystander ==
  ASSUME Grows, NEW q \in Request, RequestOK(q), NEW b \in BOOLEAN, b => q.calm,
         b /\ q.pc = "claim" /\ Placeholder(q.user) => Placeholder(q.user)',
         b /\ q.op = "refresh" /\ q.token \in Tokens /\ Childless(q.token)
           => Childless(q.token)'
  PROVE  [q EXCEPT !.calm = b] \in Request /\ RequestOK([q EXCEPT !.calm = b])'
<1>1. PICK p : p = [q EXCEPT !.calm = b]
  OBVIOUS
<1>2. /\ p \in Request /\ p.calm = b
      /\ p.pc = q.pc /\ p.op = q.op /\ p.email = q.email /\ p.user = q.user
      /\ p.token = q.token
  BY <1>1 DEF Request
<1>3. /\ p.pc \in {"create", "email"} => p.email \in Emails
      /\ p.pc \in {"create", "email", "claim", "link", "touch", "set"} => p.token \notin Tokens
      /\ p.pc \in {"rotate", "revoke", "reused"} => p.token \in Tokens
      /\ p.pc \in {"claim", "link", "touch", "issue", "set"} => p.user \in Users
      /\ p.op = "register" => p.pc \in {"claim", "create", "issue"}
      /\ p.op = "refresh" => p.token \in Tokens
  BY <1>2 DEF RequestOK
<1>4. p.user \in Users => (InUse(p.user) /\ user[p.user].email = p.email)'
  BY <1>2 DEF RequestOK, Grows, InUse
<1>5. /\ p.token \in Tokens =>
           (token[p.token].life # "absent" /\ token[p.token].user = p.user)'
      /\ p.pc = "issue" /\ p.token \in Tokens => (token[p.token].life = "revoked")'
  BY <1>2 DEF RequestOK, Grows
<1>6. p.calm /\ p.pc = "claim" => Placeholder(p.user)'
  BY <1>2 DEF RequestOK
<1>7. p.calm /\ p.op = "refresh" /\ p.pc \in {"rotate", "issue"} => Childless(p.token)'
  BY <1>2, <1>3 DEF RequestOK
<1> QED
  BY <1>1, <1>2, <1>3, <1>4, <1>5, <1>6, <1>7 DEF RequestOK

\* A step of r to q, after which whoever is about the person of this email is uneasy.
LEMMA WriteStep ==
  ASSUME AInv, user' \in [Users -> User], token' \in [Tokens -> Token],
         RowsOK', TokensOK', Grows,
         NEW r \in Requests, NEW email, NEW q, Writes(r, email, q),
         q \in Request, RequestOK(q)',
         \A u \in Users : InUse(u) /\ user[u].email # email /\ Placeholder(u)
                            => Placeholder(u)',
         \A t \in Tokens :
           token[t].life # "absent" /\ user[token[t].user].email # email /\ Childless(t)
             => Childless(t)'
  PROVE  AInv'
<1>1. ASSUME NEW s \in Requests
      PROVE  req'[s] \in Request /\ RequestOK(req[s])'
  <2>1. CASE s = r
    BY <2>1 DEF Writes
  <2>2. CASE s # r
    <3>1. PICK p \in Request : p = req[s] /\ RequestOK(p)
      BY DEF AInv
    <3>2. PICK b \in BOOLEAN : b <=> p.calm /\ p.email # email
      BY <3>1 DEF Request
    <3>3. req'[s] = [p EXCEPT !.calm = p.calm /\ p.email # email]
      BY <2>2, <3>1 DEF Writes
    <3>4. req'[s] = [p EXCEPT !.calm = b]
      <4>1. p.calm \in BOOLEAN
        BY DEF Request
      <4>2. b = (p.calm /\ p.email # email)
        BY <3>2, <4>1
      <4> QED
        BY <3>3, <4>2
    <3>5. b /\ p.pc = "claim" /\ Placeholder(p.user) => Placeholder(p.user)'
      BY <3>1, <3>2 DEF RequestOK
    <3>6. b /\ p.op = "refresh" /\ p.token \in Tokens /\ Childless(p.token)
            => Childless(p.token)'
      <4>1. p.token \in Tokens =>
              /\ token[p.token].life # "absent" /\ token[p.token].user = p.user
              /\ p.user \in Users /\ user[p.user].email = p.email
        BY <3>1 DEF RequestOK, AInv, TokensOK
      <4> QED
        BY <3>2, <4>1
    <3>7. [p EXCEPT !.calm = b] \in Request /\ RequestOK([p EXCEPT !.calm = b])'
      BY <3>1, <3>2, <3>5, <3>6, Bystander
    <3> QED
      BY <3>4, <3>7
  <2> QED
    BY <2>1, <2>2
<1>2. req' \in [Requests -> Request]
  BY <1>1 DEF Writes
<1> QED
  BY <1>1, <1>2 DEF AInv

\* A step that no other request can tell.
LEMMA QuietStep ==
  ASSUME AInv, user' \in [Users -> User], token' \in [Tokens -> Token],
         RowsOK', TokensOK', Grows,
         NEW r \in Requests, NEW q, req' = [req EXCEPT ![r] = q],
         q \in Request, RequestOK(q)',
         \A u \in Users : InUse(u) /\ Placeholder(u) => Placeholder(u)',
         \A t \in Tokens : Childless(t) => Childless(t)'
  PROVE  AInv'
<1>1. ASSUME NEW s \in Requests
      PROVE  req'[s] \in Request /\ RequestOK(req[s])'
  <2>1. CASE s = r
    BY <2>1 DEF AInv
  <2>2. CASE s # r
    <3>1. PICK p \in Request : p = req[s] /\ RequestOK(p)
      BY DEF AInv
    <3>2. PICK b \in BOOLEAN : b = p.calm
      BY DEF Request
    <3>3. [p EXCEPT !.calm = b] = p
      BY <3>2 DEF Request
    <3>4. b /\ p.pc = "claim" /\ Placeholder(p.user) => Placeholder(p.user)'
      BY <3>1 DEF RequestOK
    <3>5. [p EXCEPT !.calm = b] \in Request /\ RequestOK([p EXCEPT !.calm = b])'
      BY <3>1, <3>2, <3>4, Bystander
    <3> QED
      BY <2>2, <3>1, <3>3, <3>5 DEF AInv
  <2> QED
    BY <2>1, <2>2
<1>2. req' \in [Requests -> Request]
  BY DEF AInv
<1> QED
  BY <1>1, <1>2 DEF AInv

\* A step of somebody else.
LEMMA OtherStep ==
  ASSUME AInv, user' \in [Users -> User], token' \in [Tokens -> Token],
         RowsOK', TokensOK', Grows, UNCHANGED req,
         \A u \in Users : InUse(u) /\ Placeholder(u) => Placeholder(u)',
         \A t \in Tokens : Childless(t) => Childless(t)'
  PROVE  AInv'
<1>1. ASSUME NEW s \in Requests
      PROVE  RequestOK(req[s])'
  <2>1. PICK p \in Request : p = req[s] /\ RequestOK(p)
    BY DEF AInv
  <2>2. PICK b \in BOOLEAN : b = p.calm
    BY DEF Request
  <2>3. [p EXCEPT !.calm = b] = p
    BY <2>2 DEF Request
  <2>4. b /\ p.pc = "claim" /\ Placeholder(p.user) => Placeholder(p.user)'
    BY <2>1 DEF RequestOK
  <2>5. RequestOK([p EXCEPT !.calm = b])'
    BY <2>1, <2>2, <2>4, Bystander
  <2> QED
    BY <2>1, <2>3, <2>5
<1> QED
  BY <1>1 DEF AInv
---------------------------------------------------------------------------------
(* The writes.                                                             *)

\* An account that is written keeps its address.
LEMMA AccountWritten ==
  ASSUME AInv, NEW u \in Users, InUse(u), NEW new \in User,
         new.email = user[u].email, user' = [user EXCEPT ![u] = new], UNCHANGED token
  PROVE  /\ user' \in [Users -> User] /\ token' \in [Tokens -> Token]
         /\ RowsOK' /\ TokensOK' /\ Grows
         /\ \A v \in Users : user'[v].email = user[v].email
<1>1. user' \in [Users -> User] /\ \A v \in Users : user'[v].email = user[v].email
  BY DEF AInv
<1>2. RowsOK'
  <2>1. \A v \in Users : InUse(v)' <=> InUse(v)
    BY <1>1 DEF InUse
  <2>2. \A v \in Users : ~InUse(v) => user'[v] = user[v]
    BY DEF AInv
  <2> QED
    BY <1>1, <2>1, <2>2 DEF AInv, RowsOK
<1>3. TokensOK'
  BY <1>1 DEF AInv, TokensOK, InUse, Childless
<1>4. Grows
  BY <1>1 DEF Grows
<1> QED
  BY <1>1, <1>2, <1>3, <1>4 DEF AInv

\* A new account takes an identity and an address that were free.
LEMMA AccountCreated ==
  ASSUME AInv, NEW u \in Users, NEW email \in Emails, Insertable(u, email),
         NEW new \in User, new.email = email,
         user' = [user EXCEPT ![u] = new], UNCHANGED token
  PROVE  /\ user' \in [Users -> User] /\ token' \in [Tokens -> Token]
         /\ RowsOK' /\ TokensOK' /\ Grows
         /\ ~InUse(u) /\ InUse(u)' /\ user'[u].email = email
         /\ \A v \in Users \ {u} : user'[v] = user[v]
<1>1. /\ user' \in [Users -> User] /\ user'[u] = new
      /\ \A v \in Users \ {u} : user'[v] = user[v]
  BY DEF AInv
<1>2. ~InUse(u) /\ InUse(u)'
  BY <1>1, AccountsAssumption DEF Insertable, InUse
<1>3. \A v \in Users : user[v].email # email
  BY DEF Insertable, Registered
<1>4. RowsOK'
  <2>1. ASSUME NEW v \in Users, NEW w \in Users, InUse(v)', user'[v].email = user'[w].email
        PROVE  v = w
    BY <1>1, <1>3, <2>1 DEF AInv, RowsOK, InUse
  <2>2. \A v \in Users : ~InUse(v)' => user'[v] = NotAUser
    BY <1>1, <1>2 DEF AInv, RowsOK, InUse
  <2> QED
    BY <2>1, <2>2 DEF RowsOK
<1>5. TokensOK'
  BY <1>1, <1>2 DEF AInv, TokensOK, InUse, Childless
<1>6. Grows
  BY <1>1, <1>2 DEF Grows
<1> QED
  BY <1>1, <1>2, <1>4, <1>5, <1>6 DEF AInv

LEMMA BeginStep ==
  ASSUME AInv, NEW r \in Requests, NEW q \in Request, RequestOK(q),
         req' = [req EXCEPT ![r] = q], UNCHANGED <<user, token>>
  PROVE  AInv'
<1>1. user' \in [Users -> User] /\ token' \in [Tokens -> Token]
  BY DEF AInv
<1>2. RowsOK' /\ TokensOK' /\ Grows
  BY DEF AInv, RowsOK, TokensOK, Grows, InUse, Childless
<1>3. RequestOK(q)'
  BY DEF RequestOK, InUse, Placeholder, Childless
<1>4. /\ \A u \in Users : InUse(u) /\ Placeholder(u) => Placeholder(u)'
      /\ \A t \in Tokens : Childless(t) => Childless(t)'
  BY DEF Placeholder, Childless
<1> QED
  BY <1>1, <1>2, <1>3, <1>4, QuietStep

---------------------------------------------------------------------------------
(* Registration and sign-in.                                               *)

LEMMA BegunFields ==
  ASSUME NEW op \in SessionOps, NEW email \in Emails,
         NEW pc \in {"claim", "create", "email", "touch", "set", "reused", "rotate", "revoke"}
  PROVE  LET q == Begun(op, email, pc)
         IN /\ q \in Request
            /\ q.pc = pc /\ q.op = op /\ q.email = email /\ q.user = NoUser
            /\ q.token = NoToken /\ q.calm
<1>1. PICK i \in Request : i = Idle
  BY IdleOK
<1>2. i.user = NoUser /\ i.token = NoToken
  BY <1>1 DEF Idle
<1>3. PICK q : q = [i EXCEPT !.op = op, !.email = email, !.pc = pc, !.calm = TRUE]
  OBVIOUS
<1>4. /\ q \in Request
      /\ q.pc = pc /\ q.op = op /\ q.email = email /\ q.user = NoUser
      /\ q.token = NoToken /\ q.calm
  BY <1>2, <1>3 DEF Request
<1>5. q = Begun(op, email, pc)
  BY <1>1, <1>3 DEF Begun
<1> QED
  BY <1>4, <1>5

\* What a request that has just been admitted holds.
LEMMA NewRequest ==
  ASSUME AInv, NEW q \in Request, q.calm, q.token = NoToken, q.email \in Emails,
         q.pc \in {"claim", "create", "email", "touch", "set"},
         q.pc \in {"claim", "touch", "set"} => q.user \in Users,
         q.user \in Users => user[q.user].email = q.email,
         q.op = "register" => q.pc \in {"claim", "create"},
         q.op # "refresh",
         q.pc = "claim" => Placeholder(q.user)
  PROVE  RequestOK(q)
<1>1. q.token \notin Tokens
  BY AccountsAssumption
<1>2. q.user \in Users => InUse(q.user) /\ user[q.user].email = q.email
  BY AccountsAssumption DEF InUse
<1> QED
  BY <1>1, <1>2 DEF RequestOK

LEMMA BeginRegisterInv ==
  ASSUME AInv, NEW r \in Requests, BeginRegister(r)
  PROVE  AInv'
<1>1. PICK email \in Emails, password \in Passwords :
        /\ \/ Admit(r, [Begun("register", email, "create") EXCEPT !.password = password])
           \/ \E u \in Registered(email) :
                /\ Claimable(u)
                /\ Admit(r, [[Begun("register", email, "create")
                               EXCEPT !.password = password]
                               EXCEPT !.pc = "claim", !.user = u])
        /\ UNCHANGED <<user, token>>
  BY DEF BeginRegister
<1>2. CASE Admit(r, [Begun("register", email, "create") EXCEPT !.password = password])
  <2>1. PICK b \in Request :
          /\ b = Begun("register", email, "create")
          /\ b.pc = "create" /\ b.op = "register" /\ b.email = email /\ b.user = NoUser
          /\ b.token = NoToken /\ b.calm
    BY BegunFields DEF SessionOps
  <2>2. PICK q : q = [b EXCEPT !.password = password]
    OBVIOUS
  <2>3. /\ q \in Request
        /\ q.pc = "create" /\ q.op = "register" /\ q.email = email /\ q.user = NoUser
        /\ q.token = NoToken /\ q.calm
    BY <2>1, <2>2 DEF Request
  <2>4. RequestOK(q)
    BY <2>3, NewRequest, AccountsAssumption
  <2>5. req' = [req EXCEPT ![r] = q]
    BY <1>2, <2>1, <2>2 DEF Admit
  <2> QED
    BY <1>1, <2>3, <2>4, <2>5, BeginStep
<1>3. ASSUME NEW u \in Registered(email), Claimable(u),
             Admit(r, [[Begun("register", email, "create") EXCEPT !.password = password]
                         EXCEPT !.pc = "claim", !.user = u])
      PROVE  AInv'
  <2>1. PICK b \in Request :
          /\ b = Begun("register", email, "create")
          /\ b.pc = "create" /\ b.op = "register" /\ b.email = email /\ b.user = NoUser
          /\ b.token = NoToken /\ b.calm
    BY BegunFields DEF SessionOps
  <2>2. PICK q : q = [[b EXCEPT !.password = password] EXCEPT !.pc = "claim", !.user = u]
    OBVIOUS
  <2>3. u \in Users /\ user[u].email = email /\ Placeholder(u)
    BY <1>3 DEF Registered, Claimable
  <2>4. /\ q \in Request
        /\ q.pc = "claim" /\ q.op = "register" /\ q.email = email /\ q.user = u
        /\ q.token = NoToken /\ q.calm
    BY <2>1, <2>2, <2>3 DEF Request
  <2>5. RequestOK(q)
    BY <2>3, <2>4, NewRequest
  <2>6. req' = [req EXCEPT ![r] = q]
    BY <1>3, <2>1, <2>2 DEF Admit
  <2> QED
    BY <1>1, <2>4, <2>5, <2>6, BeginStep
<1> QED
  BY <1>1, <1>2, <1>3

LEMMA BeginSignInInv ==
  ASSUME AInv, NEW r \in Requests,
         BeginLogin(r) \/ BeginGoogle(r) \/ BeginChangePassword(r)
  PROVE  AInv'
<1>1. ASSUME NEW op \in {"login", "google"}, NEW email \in Emails, NEW u \in Registered(email),
             NEW q \in Request, q.pc = "touch", q.op = op, q.email = email, q.user = u,
             q.token = NoToken, q.calm,
             Admit(r, q), UNCHANGED <<user, token>>
      PROVE  AInv'
  <2>1. u \in Users /\ user[u].email = email
    BY DEF Registered
  <2>2. RequestOK(q)
    BY <1>1, <2>1, NewRequest
  <2> QED
    BY <1>1, <2>2, BeginStep DEF Admit
<1>2. CASE BeginLogin(r)
  <2>0. PICK email \in Emails : \E u \in Registered(email) :
          /\ Admit(r, [Begun("login", email, "touch") EXCEPT !.user = u])
          /\ UNCHANGED <<user, token>>
    BY <1>2 DEF BeginLogin
  <2>1. PICK u \in Registered(email) :
          /\ Admit(r, [Begun("login", email, "touch") EXCEPT !.user = u])
          /\ UNCHANGED <<user, token>>
    BY <2>0
  <2>2. PICK b \in Request :
          /\ b = Begun("login", email, "touch")
          /\ b.pc = "touch" /\ b.op = "login" /\ b.email = email
          /\ b.token = NoToken /\ b.calm
    BY BegunFields DEF SessionOps
  <2>3. PICK q : q = [b EXCEPT !.user = u]
    OBVIOUS
  <2>4. /\ q \in Request
        /\ q.pc = "touch" /\ q.op = "login" /\ q.email = email /\ q.user = u
        /\ q.token = NoToken /\ q.calm
    BY <2>2, <2>3 DEF Request, Registered
  <2> QED
    BY <1>1, <2>1, <2>2, <2>3, <2>4
<1>3. CASE BeginGoogle(r)
  <2>1. PICK email \in Emails :
          /\ \/ Admit(r, Begun("google", email, "email"))
             \/ \E u \in Linked(email) :
                  Admit(r, [Begun("google", email, "email") EXCEPT !.pc = "touch", !.user = u])
          /\ UNCHANGED <<user, token>>
    BY <1>3 DEF BeginGoogle
  <2>2. PICK b \in Request :
          /\ b = Begun("google", email, "email")
          /\ b.pc = "email" /\ b.op = "google" /\ b.email = email /\ b.user = NoUser
          /\ b.token = NoToken /\ b.calm
    BY BegunFields DEF SessionOps
  <2>3. CASE Admit(r, b)
    <3>1. RequestOK(b)
      BY <2>2, NewRequest, AccountsAssumption
    <3> QED
      BY <2>1, <2>3, <3>1, BeginStep DEF Admit
  <2>4. ASSUME NEW u \in Linked(email), Admit(r, [b EXCEPT !.pc = "touch", !.user = u])
        PROVE  AInv'
    <3>1. PICK q : q = [b EXCEPT !.pc = "touch", !.user = u]
      OBVIOUS
    <3>2. u \in Registered(email) /\ u \in Users
      BY DEF Linked, Registered
    <3>3. /\ q \in Request
          /\ q.pc = "touch" /\ q.op = "google" /\ q.email = email /\ q.user = u
          /\ q.token = NoToken /\ q.calm
      BY <2>2, <3>1, <3>2 DEF Request
    <3> QED
      BY <1>1, <2>1, <2>4, <3>1, <3>2, <3>3
  <2> QED
    BY <2>1, <2>2, <2>3, <2>4
<1>4. CASE BeginChangePassword(r)
  <2>1. PICK u \in Users, current \in Passwords, password \in Passwords :
          /\ InUse(u)
          /\ Admit(r, [Begun("password", user[u].email, "set") EXCEPT
                         !.user = u, !.password = password])
          /\ UNCHANGED <<user, token>>
    BY <1>4 DEF BeginChangePassword, InUse
  <2>2. PICK email \in Emails : email = user[u].email
    BY <2>1 DEF AInv, User, InUse
  <2>3. PICK b \in Request :
          /\ b = Begun("password", email, "set")
          /\ b.pc = "set" /\ b.op = "password" /\ b.email = email
          /\ b.token = NoToken /\ b.calm
    BY BegunFields DEF SessionOps
  <2>4. PICK q : q = [b EXCEPT !.user = u, !.password = password]
    OBVIOUS
  <2>5. /\ q \in Request
        /\ q.pc = "set" /\ q.op = "password" /\ q.email = email /\ q.user = u
        /\ q.token = NoToken /\ q.calm
    BY <2>3, <2>4 DEF Request
  <2>6. RequestOK(q)
    BY <2>2, <2>5, NewRequest
  <2>7. req' = [req EXCEPT ![r] = q]
    BY <2>1, <2>2, <2>3, <2>4 DEF Admit
  <2> QED
    BY <2>1, <2>5, <2>6, <2>7, BeginStep
<1> QED
  BY <1>2, <1>3, <1>4

LEMMA BeginTokenInv ==
  ASSUME AInv, NEW r \in Requests, BeginRefresh(r) \/ BeginLogout(r)
  PROVE  AInv'
<1>1. PICK t \in Tokens, op \in {"refresh", "logout"}, pc \in {"reused", "rotate", "revoke"} :
        /\ token[t].life # "absent"
        /\ pc = "rotate" => token[t].life # "revoked"
        /\ Admit(r, [Begun(op, user[token[t].user].email, pc) EXCEPT
                       !.user = token[t].user, !.token = t])
        /\ UNCHANGED <<user, token>>
  <2>1. CASE BeginRefresh(r)
    <3>1. PICK t \in Tokens :
            /\ token[t].life # "absent"
            /\ Admit(r, [Begun("refresh", user[token[t].user].email, NextStep(t)) EXCEPT
                           !.user = token[t].user, !.token = t])
            /\ UNCHANGED <<user, token>>
      BY <2>1 DEF BeginRefresh
    <3>2. /\ NextStep(t) \in {"reused", "rotate", "revoke"}
          /\ NextStep(t) = "rotate" => token[t].life # "revoked"
      BY DEF NextStep
    <3> QED
      BY <3>1, <3>2
  <2>2. CASE BeginLogout(r)
    BY <2>2 DEF BeginLogout, Unrevoked
  <2> QED
    BY <2>1, <2>2
<1>2. PICK u \in Users : u = token[t].user /\ InUse(u)
  BY <1>1 DEF AInv, TokensOK
<1>3. PICK email \in Emails : email = user[u].email
  BY <1>2 DEF AInv, User, InUse
<1>4. PICK b \in Request :
        /\ b = Begun(op, email, pc)
        /\ b.pc = pc /\ b.op = op /\ b.email = email
        /\ b.calm
  BY BegunFields DEF SessionOps
<1>5. PICK q : q = [b EXCEPT !.user = u, !.token = t]
  OBVIOUS
<1>6. /\ q \in Request
      /\ q.pc = pc /\ q.op = op /\ q.email = email /\ q.user = u /\ q.token = t
  BY <1>4, <1>5 DEF Request
<1>7. pc = "rotate" => Childless(t)
  BY <1>1 DEF AInv, TokensOK
<1>8. RequestOK(q)
  BY <1>1, <1>2, <1>3, <1>6, <1>7 DEF RequestOK
<1>9. req' = [req EXCEPT ![r] = q]
  BY <1>1, <1>2, <1>3, <1>4, <1>5 DEF Admit
<1> QED
  BY <1>1, <1>6, <1>8, <1>9, BeginStep
\* A request writes to the account it is about, and goes on or answers.
LEMMA PersonWrites ==
  ASSUME AInv, NEW r \in Requests, NEW p, p = req[r],
         p.pc \in {"claim", "link", "set"},
         NEW new \in User, new.email = user[p.user].email,
         user' = [user EXCEPT ![p.user] = new], UNCHANGED token,
         NEW q \in Request, Writes(r, p.email, q),
         \/ q = Idle
         \/ /\ q.pc \in {"touch", "issue"}
            /\ q.user = p.user /\ q.email = p.email /\ q.token = p.token /\ q.op = p.op
            /\ q.op = "register" => q.pc = "issue"
  PROVE  AInv'
<1>1. /\ RequestOK(p) /\ p.user \in Users
      /\ InUse(p.user) /\ user[p.user].email = p.email /\ p.token \notin Tokens
  BY DEF AInv, RequestOK
<1>2. /\ user' \in [Users -> User] /\ token' \in [Tokens -> Token]
      /\ RowsOK' /\ TokensOK' /\ Grows
      /\ \A v \in Users : user'[v].email = user[v].email
  BY <1>1, AccountWritten
<1>3. RequestOK(q)'
  <2>1. CASE q = Idle
    BY <2>1, IdleOK, AccountsAssumption DEF RequestOK, Idle
  <2>2. CASE q # Idle
    <3>1. (InUse(q.user) /\ user[q.user].email = q.email)'
      BY <1>1, <1>2, <2>2 DEF InUse
    <3> QED
      BY <1>1, <2>2, <3>1 DEF RequestOK
  <2> QED
    BY <2>1, <2>2
<1>4. ASSUME NEW v \in Users, user[v].email # p.email, Placeholder(v)
      PROVE  Placeholder(v)'
  BY <1>1, <1>4 DEF Placeholder, AInv
<1>5. \A t \in Tokens : Childless(t) => Childless(t)'
  BY DEF Childless
<1>6. \A v \in Users : InUse(v) /\ user[v].email # p.email /\ Placeholder(v)
                         => Placeholder(v)'
  BY <1>4
<1>7. \A t \in Tokens :
           token[t].life # "absent" /\ user[token[t].user].email # p.email /\ Childless(t)
             => Childless(t)'
  BY <1>5
<1> QED
  BY <1>2, <1>3, <1>6, <1>7, WriteStep

LEMMA AccountWritesInv ==
  ASSUME AInv, NEW r \in Requests, ClaimAccount(r) \/ LinkGoogle(r) \/ SetPassword(r)
  PROVE  AInv'
<1>1. PICK p \in Request : p = req[r] /\ RequestOK(p)
  BY DEF AInv
<1>2. p.pc \in {"claim", "link", "set"}
  BY <1>1 DEF ClaimAccount, LinkGoogle, SetPassword, At
<1>3. PICK old \in User : old = user[p.user] /\ p.user \in Users
  BY <1>1, <1>2 DEF RequestOK, AInv
<1>4. CASE ClaimAccount(r)
  <2>1. PICK new : new = [old EXCEPT !.password = p.password]
    OBVIOUS
  <2>2. new \in User /\ new.email = user[p.user].email
    BY <1>3, <2>1 DEF User, Request
  <2>3. user' = [user EXCEPT ![p.user] = new] /\ UNCHANGED token
    BY <1>1, <1>3, <1>4, <2>1 DEF ClaimAccount, AInv
  <2>4. PICK q : q = [p EXCEPT !.pc = "issue"]
    OBVIOUS
  <2>5. /\ q \in Request /\ q.pc = "issue" /\ q.user = p.user /\ q.email = p.email
        /\ q.token = p.token /\ q.op = p.op
    BY <2>4 DEF Request
  <2>6. Writes(r, p.email, q)
    BY <1>1, <1>4, <2>4 DEF ClaimAccount
  <2> QED
    BY <1>1, <1>2, <2>2, <2>3, <2>5, <2>6, PersonWrites
<1>5. CASE LinkGoogle(r)
  <2>1. PICK new : new = [old EXCEPT !.google = TRUE]
    OBVIOUS
  <2>2. new \in User /\ new.email = user[p.user].email
    BY <1>3, <2>1 DEF User
  <2>3. user' = [user EXCEPT ![p.user] = new] /\ UNCHANGED token
    BY <1>1, <1>3, <1>5, <2>1 DEF LinkGoogle, AInv
  <2>4. PICK q : q = [p EXCEPT !.pc = "touch"]
    OBVIOUS
  <2>5. /\ q \in Request /\ q.pc = "touch" /\ q.user = p.user /\ q.email = p.email
        /\ q.token = p.token /\ q.op = p.op
    BY <2>4 DEF Request
  <2>6. Writes(r, p.email, q)
    BY <1>1, <1>5, <2>4 DEF LinkGoogle
  <2>7. q.op # "register"
    BY <1>1, <1>5, <2>5 DEF LinkGoogle, At, RequestOK
  <2> QED
    BY <1>1, <1>2, <2>2, <2>3, <2>5, <2>6, <2>7, PersonWrites
<1>6. CASE SetPassword(r)
  <2>1. PICK new : new = [old EXCEPT !.password = p.password]
    OBVIOUS
  <2>2. new \in User /\ new.email = user[p.user].email
    BY <1>3, <2>1 DEF User, Request
  <2>3. user' = [user EXCEPT ![p.user] = new] /\ UNCHANGED token
    BY <1>1, <1>3, <1>6, <2>1 DEF SetPassword, AInv
  <2>4. Writes(r, p.email, Idle)
    BY <1>1, <1>6 DEF SetPassword
  <2> QED
    BY <1>1, <1>2, <2>2, <2>3, <2>4, IdleOK, PersonWrites
<1> QED
  BY <1>4, <1>5, <1>6

LEMMA CreateAccountInv ==
  ASSUME AInv, NEW r \in Requests, CreateAccount(r)
  PROVE  AInv'
<1>1. PICK p \in Request : p = req[r] /\ RequestOK(p)
  BY DEF AInv
<1>2. p.pc = "create" /\ p.email \in Emails /\ p.token \notin Tokens /\ p.op # "refresh"
  BY <1>1 DEF CreateAccount, At, RequestOK
<1>3. PICK u \in Users :
        /\ Insertable(u, p.email)
        /\ user' = [user EXCEPT ![u] = [NotAUser EXCEPT !.email = p.email,
             !.password = p.password, !.google = (p.op = "google")]]
        /\ Writes(r, p.email, [p EXCEPT !.user = u,
             !.pc = IF p.op = "google" THEN "touch" ELSE "issue"])
        /\ UNCHANGED token
  BY <1>1 DEF CreateAccount
<1>4. PICK blank \in User : blank = NotAUser
  BY DEF NotAUser, User
<1>5. PICK new : new = [blank EXCEPT !.email = p.email, !.password = p.password,
                                     !.google = (p.op = "google")]
  OBVIOUS
<1>6. new \in User /\ new.email = p.email
  <2>1. (p.op = "google") \in BOOLEAN
    OBVIOUS
  <2> QED
    BY <1>5, <2>1 DEF User, Request
<1>7. user' = [user EXCEPT ![u] = new]
  BY <1>3, <1>4, <1>5
<1>8. PICK pc \in {"touch", "issue"} : pc = IF p.op = "google" THEN "touch" ELSE "issue"
  OBVIOUS
<1>9. PICK q : q = [p EXCEPT !.user = u, !.pc = pc]
  OBVIOUS
<1>10. /\ q \in Request /\ q.pc = pc /\ q.user = u /\ q.email = p.email
       /\ q.token = p.token /\ q.op = p.op
  BY <1>8, <1>9 DEF Request
<1>11. Writes(r, p.email, q)
  BY <1>3, <1>8, <1>9
<1>12. /\ user' \in [Users -> User] /\ token' \in [Tokens -> Token]
       /\ RowsOK' /\ TokensOK' /\ Grows
       /\ ~InUse(u) /\ InUse(u)' /\ user'[u].email = p.email
       /\ \A v \in Users \ {u} : user'[v] = user[v]
  <2>1. Insertable(u, p.email) /\ UNCHANGED token /\ p.email \in Emails
    BY <1>2, <1>3
  <2> QED
    BY <1>6, <1>7, <2>1, AccountCreated
<1>13. RequestOK(q)'
  BY <1>2, <1>8, <1>10, <1>12 DEF RequestOK
<1>14. ASSUME NEW v \in Users, InUse(v), Placeholder(v)
       PROVE  Placeholder(v)'
  BY <1>12, <1>14 DEF Placeholder
<1>15. \A t \in Tokens : Childless(t) => Childless(t)'
  BY <1>3 DEF Childless
<1>16. \A v \in Users : InUse(v) /\ user[v].email # p.email /\ Placeholder(v)
                          => Placeholder(v)'
  BY <1>14
<1>17. \A t \in Tokens :
           token[t].life # "absent" /\ user[token[t].user].email # p.email /\ Childless(t)
             => Childless(t)'
  BY <1>15
<1> QED
  BY <1>10, <1>11, <1>12, <1>13, <1>16, <1>17, WriteStep

LEMMA ReadEmailInv ==
  ASSUME AInv, NEW r \in Requests, ReadEmail(r)
  PROVE  AInv'
<1>1. PICK p \in Request : p = req[r] /\ RequestOK(p)
  BY DEF AInv
<1>2. /\ p.pc = "email" /\ p.email \in Emails /\ p.token \notin Tokens
      /\ p.op # "refresh" /\ p.op # "register" /\ UNCHANGED <<user, token>>
  BY <1>1 DEF ReadEmail, At, RequestOK
<1>3. CASE Continues(r, [p EXCEPT !.pc = "create"])
  <2>1. PICK q : q = [p EXCEPT !.pc = "create"]
    OBVIOUS
  <2>2. /\ q \in Request /\ q.pc = "create" /\ q.user = p.user /\ q.email = p.email
        /\ q.token = p.token /\ q.op = p.op
    BY <2>1 DEF Request
  <2>3. RequestOK(q)
    BY <1>1, <1>2, <2>2 DEF RequestOK
  <2> QED
    BY <1>2, <1>3, <2>1, <2>2, <2>3, BeginStep DEF Continues
<1>4. ASSUME NEW u \in Registered(p.email), Continues(r, [p EXCEPT !.pc = "link", !.user = u])
      PROVE  AInv'
  <2>1. PICK q : q = [p EXCEPT !.pc = "link", !.user = u]
    OBVIOUS
  <2>2. u \in Users /\ user[u].email = p.email /\ InUse(u)
    BY <1>2, AccountsAssumption DEF Registered, InUse
  <2>3. /\ q \in Request /\ q.pc = "link" /\ q.user = u /\ q.email = p.email
        /\ q.token = p.token /\ q.op = p.op
    BY <2>1, <2>2 DEF Request
  <2>4. RequestOK(q)
    BY <1>2, <2>2, <2>3 DEF RequestOK
  <2> QED
    BY <1>2, <1>4, <2>1, <2>3, <2>4, BeginStep DEF Continues
<1> QED
  BY <1>1, <1>3, <1>4 DEF ReadEmail

LEMMA TouchLastLoginInv ==
  ASSUME AInv, NEW r \in Requests, TouchLastLogin(r)
  PROVE  AInv'
<1>1. PICK p \in Request : p = req[r] /\ RequestOK(p)
  BY DEF AInv
<1>2. /\ p.pc = "touch" /\ p.user \in Users /\ InUse(p.user)
      /\ user[p.user].email = p.email /\ p.token \notin Tokens
      /\ p.op # "refresh" /\ p.op # "register"
  BY <1>1 DEF TouchLastLogin, At, RequestOK
<1>3. PICK q : q = [p EXCEPT !.pc = "issue"]
  OBVIOUS
<1>4. /\ q \in Request /\ q.pc = "issue" /\ q.user = p.user /\ q.email = p.email
      /\ q.token = p.token /\ q.op = p.op
  BY <1>3 DEF Request
<1>5. req' = [req EXCEPT ![r] = q] /\ UNCHANGED token
  BY <1>1, <1>3 DEF TouchLastLogin, Continues
<1>6. RequestOK(q)
  BY <1>2, <1>4 DEF RequestOK
<1>7. CASE UNCHANGED user
  BY <1>4, <1>5, <1>6, <1>7, BeginStep
<1>8. CASE user' = SignedIn(p.user)
  <2>1. PICK old \in User : old = user[p.user]
    BY <1>2 DEF AInv
  <2>2. PICK new : new = [old EXCEPT !.signedIn = TRUE]
    OBVIOUS
  <2>3. /\ new \in User /\ new.email = old.email
        /\ new.password = old.password /\ new.google = old.google
    BY <2>2 DEF User
  <2>4. user' = [user EXCEPT ![p.user] = new]
    BY <1>2, <1>8, <2>1, <2>2 DEF SignedIn, AInv
  <2>5. /\ user' \in [Users -> User] /\ token' \in [Tokens -> Token]
        /\ RowsOK' /\ TokensOK' /\ Grows
        /\ \A v \in Users : user'[v].email = user[v].email
    BY <1>2, <1>5, <2>1, <2>3, <2>4, AccountWritten
  <2>6. RequestOK(q)'
    BY <1>2, <1>4, <2>5 DEF RequestOK, InUse
  <2>7. \A v \in Users : Placeholder(v) => Placeholder(v)'
    BY <1>2, <2>1, <2>3, <2>4 DEF Placeholder, AInv
  <2>8. \A t \in Tokens : Childless(t) => Childless(t)'
    BY <1>5 DEF Childless
  <2> QED
    BY <1>4, <1>5, <2>5, <2>6, <2>7, <2>8, QuietStep
<1> QED
  BY <1>1, <1>7, <1>8 DEF TouchLastLogin

---------------------------------------------------------------------------------
(* The tokens.                                                             *)

\* A token that is not revoked yet may be, and nothing else changes of the table.
LEMMA TokensRevoked ==
  ASSUME AInv, NEW ts, token' = Revoked(ts), UNCHANGED user
  PROVE  /\ user' \in [Users -> User] /\ token' \in [Tokens -> Token]
         /\ RowsOK' /\ TokensOK' /\ Grows
         /\ \A t \in Tokens : Childless(t) => Childless(t)'
         /\ \A t \in Tokens : t \in ts /\ token[t].life # "absent"
                                => token'[t].life = "revoked"
<1>1. ASSUME NEW t \in Tokens
      PROVE  /\ token'[t] \in Token
             /\ token'[t].user = token[t].user
             /\ token'[t].parent = token[t].parent
             /\ token[t].life # "absent" <=> token'[t].life # "absent"
             /\ token[t].life = "revoked" => token'[t].life = "revoked"
             /\ t \in ts /\ token[t].life # "absent" => token'[t].life = "revoked"
  <2>1. PICK old \in Token : old = token[t]
    BY DEF AInv
  <2>2. token'[t] = IF t \in ts /\ old.life = "live" THEN [old EXCEPT !.life = "revoked"]
                                                     ELSE old
    BY <2>1 DEF Revoked
  <2>3. /\ [old EXCEPT !.life = "revoked"] \in Token
        /\ [old EXCEPT !.life = "revoked"].user = old.user
        /\ [old EXCEPT !.life = "revoked"].parent = old.parent
        /\ [old EXCEPT !.life = "revoked"].life = "revoked"
    BY DEF Token
  <2>4. old.life \in {"absent", "live", "revoked"}
    BY DEF Token
  <2> QED
    BY <2>1, <2>2, <2>3, <2>4
<1>2. token' \in [Tokens -> Token]
  BY <1>1 DEF Revoked
<1>3. \A t \in Tokens : Childless(t) <=> Childless(t)'
  BY <1>1 DEF Childless
<1>4. RowsOK'
  BY DEF AInv, RowsOK, InUse
<1>5. TokensOK'
  BY <1>1, <1>3 DEF AInv, TokensOK, InUse
<1>6. Grows
  BY <1>1 DEF Grows
<1> QED
  BY <1>1, <1>2, <1>3, <1>4, <1>5, <1>6 DEF AInv

LEMMA RevokeInv ==
  ASSUME AInv, NEW r \in Requests, RevokeAllForUser(r) \/ RevokeToken(r)
  PROVE  AInv'
<1>1. PICK p \in Request : p = req[r] /\ RequestOK(p)
  BY DEF AInv
<1>2. PICK ts : token' = Revoked(ts) /\ (p.pc \in {"rotate", "revoke"} => ts = {p.token})
  BY <1>1 DEF RevokeAllForUser, RevokeToken, At
<1>3. UNCHANGED user
  BY DEF RevokeAllForUser, RevokeToken
<1>4. /\ user' \in [Users -> User] /\ token' \in [Tokens -> Token]
      /\ RowsOK' /\ TokensOK' /\ Grows
      /\ \A t \in Tokens : Childless(t) => Childless(t)'
      /\ \A t \in Tokens : t \in ts /\ token[t].life # "absent"
                             => token'[t].life = "revoked"
  BY <1>2, <1>3, TokensRevoked
<1>5. /\ \A v \in Users : InUse(v) /\ user[v].email # p.email /\ Placeholder(v)
                            => Placeholder(v)'
      /\ \A t \in Tokens :
           token[t].life # "absent" /\ user[token[t].user].email # p.email /\ Childless(t)
             => Childless(t)'
  BY <1>3, <1>4 DEF Placeholder
<1>6. CASE Writes(r, p.email, Idle)
  <2>1. RequestOK(Idle)'
    BY IdleOK, AccountsAssumption DEF RequestOK, Idle
  <2> QED
    BY <1>4, <1>5, <1>6, <2>1, IdleOK, WriteStep
<1>7. CASE p.pc = "rotate" /\ Writes(r, p.email, [p EXCEPT !.pc = "issue"])
  <2>1. PICK q : q = [p EXCEPT !.pc = "issue"]
    OBVIOUS
  <2>2. /\ q \in Request /\ q.pc = "issue" /\ q.user = p.user /\ q.email = p.email
        /\ q.token = p.token /\ q.op = p.op /\ q.calm = p.calm
    BY <2>1 DEF Request
  <2>3. p.token \in Tokens /\ p.user \in Users /\ token[p.token].life # "absent"
    BY <1>1, <1>7 DEF RequestOK, AInv, TokensOK
  <2>4. RequestOK(q)'
    <3>1. (InUse(q.user) /\ user[q.user].email = q.email)'
      BY <1>1, <1>3, <2>2, <2>3 DEF RequestOK, InUse
    <3>2. token'[q.token].life = "revoked" /\ token'[q.token].user = q.user
      BY <1>1, <1>2, <1>4, <1>7, <2>2, <2>3 DEF RequestOK, Grows
    <3>3. q.calm /\ q.op = "refresh" => Childless(q.token)'
      BY <1>1, <1>4, <1>7, <2>2, <2>3 DEF RequestOK
    <3>4. q.op # "register"
      BY <1>1, <1>7, <2>2 DEF RequestOK
    <3> QED
      BY <2>2, <2>3, <3>1, <3>2, <3>3, <3>4 DEF RequestOK
  <2> QED
    BY <1>4, <1>5, <1>7, <2>1, <2>2, <2>4, WriteStep
<1> QED
  BY <1>1, <1>6, <1>7 DEF RevokeAllForUser, RevokeToken, At

LEMMA IssueSessionInv ==
  ASSUME AInv, NEW r \in Requests, IssueSession(r)
  PROVE  AInv'
<1>1. PICK p \in Request : p = req[r] /\ RequestOK(p)
  BY DEF AInv
<1>2. PICK t \in Tokens :
        /\ token[t].life = "absent"
        /\ token' = [token EXCEPT ![t] = Stored(p.user, p.token)]
        /\ Writes(r, p.email, Idle)
        /\ UNCHANGED user
        /\ p.pc = "issue"
  BY <1>1 DEF IssueSession, At
<1>3. /\ p.user \in Users /\ InUse(p.user) /\ user[p.user].email = p.email
      /\ p.token \in Tokens => token[p.token].life = "revoked" /\ token[p.token].user = p.user
  BY <1>1, <1>2 DEF RequestOK
<1>4. PICK new \in Token :
        /\ new = Stored(p.user, p.token)
        /\ new.life = "live" /\ new.user = p.user /\ new.parent = p.token
  <2>1. PICK blank \in Token : blank = NotAToken
    BY DEF NotAToken, Token
  <2>2. PICK new : new = [blank EXCEPT !.life = "live", !.user = p.user, !.parent = p.token]
    OBVIOUS
  <2>3. new \in Token /\ new.life = "live" /\ new.user = p.user /\ new.parent = p.token
    BY <2>2 DEF Token, Request
  <2> QED
    BY <2>1, <2>2, <2>3 DEF Stored
<1>5. /\ token' \in [Tokens -> Token] /\ token'[t] = new
      /\ \A s \in Tokens \ {t} : token'[s] = token[s]
  BY <1>2, <1>4 DEF AInv
<1>6. \A s \in Tokens : Childless(s) /\ s # p.token => Childless(s)'
  BY <1>4, <1>5 DEF Childless
<1>7. RowsOK' /\ user' \in [Users -> User]
  BY <1>2 DEF AInv, RowsOK, InUse
<1>8. TokensOK'
  <2>1. ASSUME NEW s \in Tokens, token'[s].life # "absent"
        PROVE  (token[s].user \in Users /\ InUse(token[s].user))'
    BY <1>2, <1>3, <1>4, <1>5, <2>1 DEF AInv, TokensOK, InUse
  <2>2. ASSUME NEW s \in Tokens, token'[s].life # "revoked"
        PROVE  Childless(s)'
    BY <1>2, <1>3, <1>5, <1>6, <2>2 DEF AInv, TokensOK
  <2> QED
    BY <2>1, <2>2 DEF TokensOK
<1>9. Grows
  BY <1>2, <1>5 DEF Grows
<1>10. /\ \A v \in Users : InUse(v) /\ user[v].email # p.email /\ Placeholder(v)
                             => Placeholder(v)'
       /\ \A s \in Tokens :
            token[s].life # "absent" /\ user[token[s].user].email # p.email /\ Childless(s)
              => Childless(s)'
  BY <1>2, <1>3, <1>6 DEF Placeholder
<1>11. RequestOK(Idle)'
  BY IdleOK, AccountsAssumption DEF RequestOK, Idle
<1> QED
  BY <1>2, <1>5, <1>7, <1>8, <1>9, <1>10, <1>11, IdleOK, WriteStep

LEMMA FailInv ==
  ASSUME AInv, NEW r \in Requests, Fail(r)
  PROVE  AInv'
BY IdleOK, BeginStep DEF Fail

\* Time passes over a token.
LEMMA TokenExpiresInv ==
  ASSUME AInv, TokenExpires
  PROVE  AInv'
<1>1. PICK t \in Tokens :
        /\ token' = [token EXCEPT ![t].expired = TRUE]
        /\ UNCHANGED <<user, req>>
  BY DEF TokenExpires
<1>2. PICK old \in Token : old = token[t]
  BY DEF AInv
<1>3. PICK new : new = [old EXCEPT !.expired = TRUE]
  OBVIOUS
<1>4. /\ new \in Token /\ new.life = old.life /\ new.user = old.user
      /\ new.parent = old.parent
  BY <1>3 DEF Token
<1>5. token' = [token EXCEPT ![t] = new]
  BY <1>1, <1>2, <1>3 DEF AInv
<1>6. /\ token' \in [Tokens -> Token]
      /\ \A s \in Tokens : /\ token'[s].life = token[s].life
                           /\ token'[s].user = token[s].user
                           /\ token'[s].parent = token[s].parent
  BY <1>2, <1>4, <1>5 DEF AInv
<1>7. \A s \in Tokens : Childless(s) <=> Childless(s)'
  BY <1>6 DEF Childless
<1>8. RowsOK' /\ user' \in [Users -> User]
  BY <1>1 DEF AInv, RowsOK, InUse
<1>9. TokensOK' /\ Grows
  BY <1>1, <1>6, <1>7 DEF AInv, TokensOK, InUse, Grows
<1>10. \A v \in Users : InUse(v) /\ Placeholder(v) => Placeholder(v)'
  BY <1>1 DEF Placeholder
<1> QED
  BY <1>1, <1>6, <1>7, <1>8, <1>9, <1>10, OtherStep

LEMMA ServedInv ==
  ASSUME AInv, NEW r \in Requests, Served(r)
  PROVE  AInv'
BY BeginRegisterInv, AccountWritesInv, CreateAccountInv, BeginSignInInv, ReadEmailInv,
   TouchLastLoginInv, IssueSessionInv, BeginTokenInv, RevokeInv, FailInv
DEF Served

\* No step of a request on accounts changes an account's address.
LEMMA EmailsKept ==
  ASSUME AInv, NEW r \in Requests, Served(r), NEW u \in Users, InUse(u)
  PROVE  user'[u].email = user[u].email /\ InUse(u)'
<1>0. SUFFICES user'[u].email = user[u].email
  BY DEF InUse
<1>1. PICK p \in Request : p = req[r] /\ RequestOK(p)
  BY DEF AInv
<1>2. PICK old \in User : old = user[u]
  BY DEF AInv
<1>3. CASE UNCHANGED user
  BY <1>3
<1>4. CASE ClaimAccount(r) \/ LinkGoogle(r) \/ SetPassword(r) \/ TouchLastLogin(r)
  <2>1. PICK v \in Users : v = p.user
    BY <1>1, <1>4 DEF ClaimAccount, LinkGoogle, SetPassword, TouchLastLogin, At, RequestOK
  <2>2. \/ user' = [user EXCEPT ![v].password = p.password]
        \/ user' = [user EXCEPT ![v].google = TRUE]
        \/ user' = [user EXCEPT ![v].signedIn = TRUE]
        \/ user' = user
    BY <1>1, <1>4, <2>1 DEF ClaimAccount, LinkGoogle, SetPassword, TouchLastLogin, SignedIn
  <2>3. CASE u # v
    BY <2>2, <2>3 DEF AInv
  <2>4. CASE u = v
    <3>1. /\ [old EXCEPT !.password = p.password].email = old.email
          /\ [old EXCEPT !.google = TRUE].email = old.email
          /\ [old EXCEPT !.signedIn = TRUE].email = old.email
      BY DEF User
    <3>2. \/ user'[u] = [old EXCEPT !.password = p.password]
          \/ user'[u] = [old EXCEPT !.google = TRUE]
          \/ user'[u] = [old EXCEPT !.signedIn = TRUE]
          \/ user'[u] = old
      BY <1>2, <2>2, <2>4 DEF AInv
    <3> QED
      BY <1>2, <3>1, <3>2
  <2> QED
    BY <2>3, <2>4
<1>5. CASE CreateAccount(r)
  <2>1. PICK v \in Users : ~InUse(v) /\ \E new : user' = [user EXCEPT ![v] = new]
    BY <1>5 DEF CreateAccount, Insertable, InUse
  <2> QED
    BY <2>1 DEF AInv
<1> QED
  BY <1>3, <1>4, <1>5
  DEF Served, BeginRegister, BeginLogin, BeginGoogle, ReadEmail, IssueSession,
      BeginRefresh, RevokeAllForUser, RevokeToken, BeginLogout, BeginChangePassword, Fail

---------------------------------------------------------------------------------
(* The invitations.                                                        *)

Inviting == {"addnew", "lookup", "extend", "insert"}

\* What a request on invitations holds; the last line is what nobody protects.
TaskOK(q) ==
  /\ q.pc = "create" => q.email \in Emails
  /\ q.pc \in {"add"} \cup Inviting =>
       q.user \in Users /\ InUse(q.user) /\ user[q.user].email = q.email
  /\ q.pc \in {"join", "accept"} => q.user \in Users /\ InUse(q.user)
  /\ q.pc \in {"extend", "join", "accept"} =>
       /\ q.invitation \in Invites
       /\ invitation[q.invitation].status # "absent"
       /\ invitation[q.invitation].email = q.email
  /\ q.calm /\ q.pc \in {"extend", "join", "accept"} =>
       invitation[q.invitation].status = "pending"

\* At most one open invitation per address.
InvitationsOK ==
  /\ \A i, j \in Invites : /\ invitation[i].status = "pending"
                           /\ invitation[j].status = "pending"
                           /\ invitation[i].email = invitation[j].email
                           => i = j
  /\ \A i \in Invites : invitation[i].status = "absent" => invitation[i].email = NoEmail

Tracked(u) == \E i \in Invites : invitation[i].email = user[u].email

InProgress(u) == \E k \in Tasks : task[k].pc \in Inviting /\ task[k].user = u

IInv ==
  /\ AInv
  /\ member \in SUBSET Users
  /\ \A u \in member : InUse(u)
  /\ invited \in SUBSET Users
  /\ \A u \in invited : InUse(u) /\ (Tracked(u) \/ InProgress(u))
  /\ invitation \in [Invites -> Invitation]
  /\ InvitationsOK
  /\ task \in [Tasks -> Task]
  /\ \A k \in Tasks : TaskOK(task[k])

\* What is never undone in these tables.
IGrows ==
  /\ \A u \in Users : InUse(u) => user'[u].email = user[u].email
  /\ \A i \in Invites : invitation[i].status # "absent" =>
       invitation'[i].status # "absent" /\ invitation'[i].email = invitation[i].email

LEMMA RestingOK == Resting \in Task /\ Resting.pc = "idle" /\ TaskOK(Resting)
BY DEF Resting, Task, TaskOK, Inviting

LEMMA TaskBystander ==
  ASSUME IGrows, NEW q \in Task, TaskOK(q), NEW b \in BOOLEAN, b => q.calm,
         b => \A i \in Invites : invitation[i].status = "pending"
                                   => invitation'[i].status = "pending",
         NEW p, p = [q EXCEPT !.calm = b]
  PROVE  p \in Task /\ p.pc = q.pc /\ p.user = q.user /\ TaskOK(p)'
<1>1. /\ p \in Task /\ p.calm = b /\ p.pc = q.pc /\ p.user = q.user
      /\ p.email = q.email /\ p.invitation = q.invitation
  BY DEF Task
<1>2. p.pc = "create" => p.email \in Emails
  BY <1>1 DEF TaskOK
<1>3. /\ p.pc \in {"add"} \cup Inviting =>
           (p.user \in Users /\ InUse(p.user) /\ user[p.user].email = p.email)'
      /\ p.pc \in {"join", "accept"} => (p.user \in Users /\ InUse(p.user))'
  BY <1>1 DEF TaskOK, IGrows, InUse
<1>4. p.pc \in {"extend", "join", "accept"} =>
        (/\ p.invitation \in Invites
         /\ invitation[p.invitation].status # "absent"
         /\ invitation[p.invitation].email = p.email)'
  BY <1>1 DEF TaskOK, IGrows
<1>5. p.calm /\ p.pc \in {"extend", "join", "accept"} =>
        (invitation[p.invitation].status = "pending")'
  BY <1>1 DEF TaskOK
<1> QED
  BY <1>1, <1>2, <1>3, <1>4, <1>5 DEF TaskOK

\* A step of k to q.
LEMMA TaskStep ==
  ASSUME IInv, IGrows, NEW k \in Tasks, NEW q \in Task, TaskOK(q)',
         \/ task' = [task EXCEPT ![k] = q] /\ UNCHANGED invitation
         \/ task' = [s \in Tasks |-> IF s = k THEN q ELSE [task[s] EXCEPT !.calm = FALSE]]
  PROVE  /\ task' \in [Tasks -> Task] /\ \A s \in Tasks : TaskOK(task[s])'
         /\ task'[k] = q
         /\ \A s \in Tasks \ {k} : task'[s].pc = task[s].pc /\ task'[s].user = task[s].user
<1>1. ASSUME NEW s \in Tasks \ {k}
      PROVE  /\ task'[s] \in Task /\ TaskOK(task[s])'
             /\ task'[s].pc = task[s].pc /\ task'[s].user = task[s].user
  <2>1. PICK p \in Task : p = task[s] /\ TaskOK(p)
    BY DEF IInv
  <2>2. CASE task' = [task EXCEPT ![k] = q] /\ UNCHANGED invitation
    <3>1. PICK b \in BOOLEAN : b = p.calm
      BY DEF Task
    <3>2. p = [p EXCEPT !.calm = b]
      BY <3>1 DEF Task
    <3>3. TaskOK(p)'
      BY <2>1, <2>2, <3>1, <3>2, TaskBystander
    <3> QED
      BY <2>1, <2>2, <3>3 DEF IInv
  <2>3. CASE task' = [t \in Tasks |-> IF t = k THEN q ELSE [task[t] EXCEPT !.calm = FALSE]]
    <3>1. PICK new : new = [p EXCEPT !.calm = FALSE]
      OBVIOUS
    <3>2. new \in Task /\ new.pc = p.pc /\ new.user = p.user /\ TaskOK(new)'
      BY <2>1, <3>1, TaskBystander
    <3>3. task'[s] = new
      BY <2>1, <2>3, <3>1
    <3> QED
      BY <2>1, <3>2, <3>3
  <2> QED
    BY <2>2, <2>3
<1>2. task'[k] = q
  BY DEF IInv
<1>3. task' \in [Tasks -> Task]
  BY <1>1, <1>2 DEF IInv
<1>4. ASSUME NEW s \in Tasks PROVE TaskOK(task[s])'
  BY <1>1, <1>2
<1> QED
  BY <1>1, <1>2, <1>3, <1>4

\* Everybody becomes uneasy, or nothing happens that anybody could tell.
LEMMA TasksLookOn ==
  ASSUME IInv, IGrows,
         \/ UNCHANGED task /\ \A i \in Invites : invitation[i].status = "pending"
                                                   => invitation'[i].status = "pending"
         \/ task' = [s \in Tasks |-> [task[s] EXCEPT !.calm = FALSE]]
  PROVE  /\ task' \in [Tasks -> Task] /\ \A s \in Tasks : TaskOK(task[s])'
         /\ \A s \in Tasks : task'[s].pc = task[s].pc /\ task'[s].user = task[s].user
<1>1. ASSUME NEW s \in Tasks
      PROVE  /\ task'[s] \in Task /\ TaskOK(task[s])'
             /\ task'[s].pc = task[s].pc /\ task'[s].user = task[s].user
  <2>1. PICK p \in Task : p = task[s] /\ TaskOK(p)
    BY DEF IInv
  <2>2. CASE UNCHANGED task /\ \A i \in Invites : invitation[i].status = "pending"
                                                    => invitation'[i].status = "pending"
    <3>1. PICK b \in BOOLEAN : b = p.calm
      BY DEF Task
    <3>2. p = [p EXCEPT !.calm = b]
      BY <3>1 DEF Task
    <3>3. TaskOK(p)'
      BY <2>1, <2>2, <3>1, <3>2, TaskBystander
    <3> QED
      BY <2>1, <2>2, <3>3
  <2>3. CASE task' = [t \in Tasks |-> [task[t] EXCEPT !.calm = FALSE]]
    <3>1. PICK new : new = [p EXCEPT !.calm = FALSE]
      OBVIOUS
    <3>2. new \in Task /\ new.pc = p.pc /\ new.user = p.user /\ TaskOK(new)'
      BY <2>1, <3>1, TaskBystander
    <3>3. task'[s] = new
      BY <2>1, <2>3, <3>1
    <3> QED
      BY <2>1, <3>2, <3>3
  <2> QED
    BY <2>2, <2>3
<1>2. task' \in [Tasks -> Task]
  BY <1>1 DEF IInv
<1>3. ASSUME NEW s \in Tasks PROVE TaskOK(task[s])'
  BY <1>1
<1> QED
  BY <1>1, <1>2, <1>3

\* An account with an invitation keeps it.
LEMMA TrackedKept ==
  ASSUME IInv, IGrows, NEW u \in Users, InUse(u), Tracked(u)
  PROVE  Tracked(u)'
<1>1. PICK i \in Invites : invitation[i].email = user[u].email
  BY DEF Tracked
<1>2. invitation[i].status # "absent"
  BY <1>1 DEF IInv, InvitationsOK, InUse
<1> QED
  BY <1>1, <1>2 DEF IGrows, Tracked

\* A step of one request on invitations keeps the invariant: whoever it gave an account
\* stays in its hands until there is an invitation.
LEMMA TaskInv ==
  ASSUME IInv, AInv', IGrows, NEW k \in Tasks, NEW q \in Task, TaskOK(q)',
         NEW w, w = task[k].user,
         \/ task' = [task EXCEPT ![k] = q] /\ UNCHANGED invitation
         \/ task' = [s \in Tasks |-> IF s = k THEN q ELSE [task[s] EXCEPT !.calm = FALSE]],
         member' \in SUBSET Users, \A u \in member' : InUse(u)',
         invited' \in SUBSET Users,
         \A u \in invited' : u \in invited \/ (q.pc \in Inviting /\ q.user = u /\ InUse(u)'),
         invitation' \in [Invites -> Invitation], InvitationsOK',
         task[k].pc \in Inviting =>
           \/ q.pc \in Inviting /\ q.user = w
           \/ Tracked(w)'
           \/ w \notin invited'
  PROVE  IInv'
<1>1. /\ task' \in [Tasks -> Task] /\ \A s \in Tasks : TaskOK(task[s])'
      /\ task'[k] = q
      /\ \A s \in Tasks \ {k} : task'[s].pc = task[s].pc /\ task'[s].user = task[s].user
  BY TaskStep
<1>2. ASSUME NEW u \in invited', u \in invited
      PROVE  InUse(u)' /\ (Tracked(u)' \/ InProgress(u)')
  <2>1. u \in Users /\ InUse(u)
    BY <1>2 DEF IInv
  <2>2. InUse(u)'
    BY <2>1 DEF IGrows, InUse
  <2>3. CASE Tracked(u)
    BY <2>1, <2>2, <2>3, TrackedKept
  <2>4. CASE InProgress(u)
    <3>1. PICK s \in Tasks : task[s].pc \in Inviting /\ task[s].user = u
      BY <2>4 DEF InProgress
    <3>2. CASE s = k
      BY <1>1, <1>2, <2>2, <3>1, <3>2 DEF InProgress
    <3>3. CASE s # k
      BY <1>1, <2>2, <3>1, <3>3 DEF InProgress
    <3> QED
      BY <3>2, <3>3
  <2> QED
    BY <1>2, <2>3, <2>4 DEF IInv
<1>3. ASSUME NEW u \in invited', u \notin invited
      PROVE  InUse(u)' /\ (Tracked(u)' \/ InProgress(u)')
  BY <1>1, <1>3 DEF InProgress
<1> QED
  BY <1>1, <1>2, <1>3 DEF IInv

\* The accounts are left alone.
LEMMA AccountsKept ==
  ASSUME AInv, UNCHANGED <<user, token, req>>
  PROVE  AInv' /\ \A u \in Users : InUse(u)' <=> InUse(u)
BY DEF AInv, RowsOK, TokensOK, RequestOK, InUse, Childless, Placeholder

\* A statement that reads, and goes on as q.
LEMMA TaskReads ==
  ASSUME IInv, NEW k \in Tasks, NEW q \in Task, TaskOK(q),
         task' = [task EXCEPT ![k] = q],
         UNCHANGED <<user, token, req, member, invited, invitation>>,
         task[k].pc \in Inviting => q.pc \in Inviting /\ q.user = task[k].user
  PROVE  IInv'
<1>1. AInv' /\ \A u \in Users : InUse(u)' <=> InUse(u)
  BY AccountsKept DEF IInv
<1>2. IGrows
  BY DEF IGrows
<1>3. TaskOK(q)'
  BY <1>1 DEF TaskOK, InUse
<1>4. /\ member' \in SUBSET Users /\ \A u \in member' : InUse(u)'
      /\ invited' \in SUBSET Users /\ invitation' \in [Invites -> Invitation]
      /\ InvitationsOK'
  BY <1>1 DEF IInv, InvitationsOK
<1> QED
  BY <1>1, <1>2, <1>3, <1>4, TaskInv

\* A statement that adds the account of k to the trip, and goes on as q.
LEMMA TaskJoins ==
  ASSUME IInv, NEW k \in Tasks, NEW q \in Task, TaskOK(q),
         NEW u \in Users, InUse(u), member' = member \cup {u},
         \/ task' = [task EXCEPT ![k] = q]
         \/ task' = [s \in Tasks |-> IF s = k THEN q ELSE [task[s] EXCEPT !.calm = FALSE]],
         UNCHANGED <<user, token, req, invited, invitation>>,
         task[k].pc \in Inviting => q.pc \in Inviting /\ q.user = task[k].user
  PROVE  IInv'
<1>1. AInv' /\ \A v \in Users : InUse(v)' <=> InUse(v)
  BY AccountsKept DEF IInv
<1>2. IGrows
  BY DEF IGrows
<1>3. TaskOK(q)'
  BY <1>1 DEF TaskOK, InUse
<1>4. /\ member' \in SUBSET Users /\ \A v \in member' : InUse(v)'
      /\ invited' \in SUBSET Users /\ invitation' \in [Invites -> Invitation]
      /\ InvitationsOK'
  BY <1>1 DEF IInv, InvitationsOK
<1> QED
  BY <1>1, <1>2, <1>3, <1>4, TaskInv

LEMMA FindInviteeInv ==
  ASSUME IInv, NEW k \in Tasks, BeginInvite(k) \/ BeginInviteTool(k)
  PROVE  IInv'
<1>1. PICK email \in Emails, password \in Passwords \cup {NoPassword} :
        FindInvitee(k, email, password)
  BY DEF BeginInvite, BeginInviteTool
<1>2. PICK rest \in Task : rest = Resting
  BY RestingOK
<1>3. PICK b : b = [rest EXCEPT !.email = email, !.password = password, !.calm = TRUE]
  OBVIOUS
<1>4. b \in Task /\ b.email = email
  BY <1>3 DEF Task
<1>5. CASE Turns(k, "idle", [b EXCEPT !.pc = "create"])
  <2>1. PICK q : q = [b EXCEPT !.pc = "create"]
    OBVIOUS
  <2>2. q \in Task /\ q.pc = "create" /\ q.email = email
    BY <1>4, <2>1 DEF Task
  <2>3. TaskOK(q)
    BY <2>2 DEF TaskOK, Inviting
  <2>4. task' = [task EXCEPT ![k] = q] /\ task[k].pc = "idle"
    BY <1>5, <2>1 DEF Turns
  <2>5. UNCHANGED <<user, token, req, member, invited, invitation>>
    BY <1>1 DEF FindInvitee
  <2> QED
    BY <2>2, <2>3, <2>4, <2>5, TaskReads DEF Inviting
<1>6. ASSUME NEW u \in Registered(email), Turns(k, "idle", [b EXCEPT !.pc = "add", !.user = u])
      PROVE  IInv'
  <2>1. PICK q : q = [b EXCEPT !.pc = "add", !.user = u]
    OBVIOUS
  <2>2. u \in Users /\ user[u].email = email /\ InUse(u)
    BY AccountsAssumption DEF Registered, InUse
  <2>3. q \in Task /\ q.pc = "add" /\ q.email = email /\ q.user = u
    BY <1>4, <2>1, <2>2 DEF Task
  <2>4. TaskOK(q)
    BY <2>2, <2>3 DEF TaskOK, Inviting
  <2>5. task' = [task EXCEPT ![k] = q] /\ task[k].pc = "idle"
    BY <1>6, <2>1 DEF Turns
  <2>6. UNCHANGED <<user, token, req, member, invited, invitation>>
    BY <1>1 DEF FindInvitee
  <2> QED
    BY <2>3, <2>4, <2>5, <2>6, TaskReads DEF Inviting
<1> QED
  BY <1>1, <1>2, <1>3, <1>5, <1>6 DEF FindInvitee

LEMMA AddInv ==
  ASSUME IInv, NEW k \in Tasks, AddExisting(k) \/ AddInvited(k) \/ JoinTrip(k)
  PROVE  IInv'
<1>1. PICK p \in Task : p = task[k] /\ TaskOK(p)
  BY DEF IInv
<1>2. p.pc \in {"add", "addnew", "join"}
  BY <1>1 DEF AddExisting, AddInvited, JoinTrip, TurnsWriting, Turns
<1>3. p.user \in Users /\ InUse(p.user)
  BY <1>1, <1>2 DEF TaskOK, Inviting
<1>4. /\ member' = member \cup {p.user}
      /\ UNCHANGED <<user, token, req, invited, invitation>>
  BY <1>1 DEF AddExisting, AddInvited, JoinTrip
<1>5. CASE AddExisting(k)
  <2>1. /\ task' = [s \in Tasks |-> IF s = k THEN Resting ELSE [task[s] EXCEPT !.calm = FALSE]]
        /\ task[k].pc = "add"
    BY <1>5 DEF AddExisting, TurnsWriting
  <2> QED
    BY <1>3, <1>4, <2>1, RestingOK, TaskJoins DEF Inviting
<1>6. CASE AddInvited(k)
  <2>1. PICK q : q = [p EXCEPT !.pc = "lookup"]
    OBVIOUS
  <2>2. q \in Task /\ q.pc = "lookup" /\ q.user = p.user /\ q.email = p.email
    BY <2>1 DEF Task
  <2>3. /\ task' = [s \in Tasks |-> IF s = k THEN q ELSE [task[s] EXCEPT !.calm = FALSE]]
        /\ p.pc = "addnew"
    BY <1>1, <1>6, <2>1 DEF AddInvited, TurnsWriting
  <2>4. TaskOK(q)
    BY <1>1, <2>2, <2>3 DEF TaskOK, Inviting
  <2> QED
    BY <1>1, <1>3, <1>4, <2>2, <2>3, <2>4, TaskJoins DEF Inviting
<1>7. CASE JoinTrip(k)
  <2>1. PICK q : q = [p EXCEPT !.pc = "accept"]
    OBVIOUS
  <2>2. /\ q \in Task /\ q.pc = "accept" /\ q.user = p.user /\ q.email = p.email
        /\ q.invitation = p.invitation /\ q.calm = p.calm
    BY <2>1 DEF Task
  <2>3. /\ \/ task' = [task EXCEPT ![k] = q]
           \/ task' = [s \in Tasks |-> IF s = k THEN q ELSE [task[s] EXCEPT !.calm = FALSE]]
        /\ p.pc = "join"
    BY <1>1, <1>7, <2>1 DEF JoinTrip, TurnsWriting, Turns
  <2>4. TaskOK(q)
    BY <1>1, <2>2, <2>3 DEF TaskOK, Inviting
  <2>5. task[k].pc \notin Inviting
    BY <1>1, <2>3 DEF Inviting
  <2> QED
    BY <1>3, <1>4, <2>2, <2>3, <2>4, <2>5, TaskJoins
<1> QED
  BY <1>5, <1>6, <1>7

LEMMA CreateInvitedInv ==
  ASSUME IInv, NEW k \in Tasks, CreateInvited(k)
  PROVE  IInv'
<1>1. PICK p \in Task : p = task[k] /\ TaskOK(p)
  BY DEF IInv
<1>2. p.pc = "create" /\ p.email \in Emails
  BY <1>1 DEF CreateInvited, TurnsWriting, Turns, TaskOK
<1>3. ASSUME NEW u \in Users, Insertable(u, p.email),
             TurnsWriting(k, "create", [p EXCEPT !.pc = "addnew", !.user = u]),
             user' = [user EXCEPT ![u] = [NotAUser EXCEPT !.email = p.email,
                                                          !.password = p.password]],
             invited' = invited \cup {u},
             UNCHANGED <<token, req, member, invitation>>
      PROVE  IInv'
  <2>1. PICK q : q = [p EXCEPT !.pc = "addnew", !.user = u]
    OBVIOUS
  <2>2. q \in Task /\ q.pc = "addnew" /\ q.user = u /\ q.email = p.email
    BY <2>1 DEF Task
  <2>3. PICK blank \in User : blank = NotAUser
    BY DEF NotAUser, User
  <2>4. PICK new : new = [blank EXCEPT !.email = p.email, !.password = p.password]
    OBVIOUS
  <2>5. new \in User /\ new.email = p.email
    BY <1>2, <2>4 DEF User, Task
  <2>6. user' = [user EXCEPT ![u] = new]
    BY <1>3, <2>3, <2>4
  <2>7. AInv
    BY DEF IInv
  <2>8. /\ user' \in [Users -> User] /\ token' \in [Tokens -> Token]
        /\ RowsOK' /\ TokensOK' /\ Grows
        /\ ~InUse(u) /\ InUse(u)' /\ user'[u].email = p.email
        /\ \A v \in Users \ {u} : user'[v] = user[v]
    BY <1>2, <1>3, <2>5, <2>6, <2>7, AccountCreated
  <2>9. AInv'
    <3>1. \A v \in Users : InUse(v) /\ Placeholder(v) => Placeholder(v)'
      BY <2>8 DEF Placeholder
    <3>2. \A t \in Tokens : Childless(t) => Childless(t)'
      BY <1>3 DEF Childless
    <3> QED
      BY <1>3, <2>7, <2>8, <3>1, <3>2, OtherStep
  <2>10. IGrows
    BY <1>3, <2>8 DEF IGrows
  <2>11. TaskOK(q)'
    BY <2>2, <2>8 DEF TaskOK, Inviting
  <2>12. /\ member' \in SUBSET Users /\ \A v \in member' : InUse(v)'
         /\ invited' \in SUBSET Users /\ invitation' \in [Invites -> Invitation]
         /\ InvitationsOK'
    BY <1>3, <2>8 DEF IInv, InvitationsOK, InUse
  <2>13. /\ task' = [s \in Tasks |-> IF s = k THEN q ELSE [task[s] EXCEPT !.calm = FALSE]]
         /\ task[k].pc \notin Inviting
    BY <1>3, <2>1 DEF TurnsWriting, Inviting
  <2>14. \A v \in invited' : v \in invited \/ (q.pc \in Inviting /\ q.user = v /\ InUse(v)')
    BY <1>3, <2>2, <2>8 DEF Inviting
  <2> QED
    BY <2>2, <2>9, <2>10, <2>11, <2>12, <2>13, <2>14, TaskInv
<1>4. ASSUME NEW u \in Registered(p.email),
             Turns(k, "create", [p EXCEPT !.pc = "addnew", !.user = u]),
             UNCHANGED <<user, token, req, member, invited, invitation>>
      PROVE  IInv'
  <2>1. PICK q : q = [p EXCEPT !.pc = "addnew", !.user = u]
    OBVIOUS
  <2>2. u \in Users /\ user[u].email = p.email /\ InUse(u)
    BY <1>2, AccountsAssumption DEF Registered, InUse
  <2>3. q \in Task /\ q.pc = "addnew" /\ q.user = u /\ q.email = p.email
    BY <2>1, <2>2 DEF Task
  <2>4. TaskOK(q)
    BY <2>2, <2>3 DEF TaskOK, Inviting
  <2>5. task' = [task EXCEPT ![k] = q] /\ task[k].pc \notin Inviting
    BY <1>4, <2>1 DEF Turns, Inviting
  <2> QED
    BY <1>4, <2>3, <2>4, <2>5, TaskReads
<1> QED
  BY <1>1, <1>3, <1>4 DEF CreateInvited

LEMMA LookUpPendingInv ==
  ASSUME IInv, NEW k \in Tasks, LookUpPending(k)
  PROVE  IInv'
<1>1. PICK p \in Task : p = task[k] /\ TaskOK(p)
  BY DEF IInv
<1>2. p.pc = "lookup" /\ UNCHANGED <<user, token, req, member, invited, invitation>>
  BY <1>1 DEF LookUpPending, Turns
<1>3. p.user \in Users /\ InUse(p.user) /\ user[p.user].email = p.email
  BY <1>1, <1>2 DEF TaskOK, Inviting
<1>4. CASE Turns(k, "lookup", [p EXCEPT !.pc = "insert"])
  <2>1. PICK q : q = [p EXCEPT !.pc = "insert"]
    OBVIOUS
  <2>2. q \in Task /\ q.pc = "insert" /\ q.user = p.user /\ q.email = p.email
    BY <2>1 DEF Task
  <2>3. TaskOK(q)
    BY <1>3, <2>2 DEF TaskOK, Inviting
  <2>4. task' = [task EXCEPT ![k] = q]
    BY <1>4, <2>1 DEF Turns
  <2>5. q.pc \in Inviting /\ q.user = task[k].user
    BY <1>1, <2>2 DEF Inviting
  <2> QED
    BY <1>2, <2>2, <2>3, <2>4, <2>5, TaskReads
<1>5. ASSUME NEW i \in PendingFor(p.email),
             Turns(k, "lookup", [p EXCEPT !.pc = "extend", !.invitation = i])
      PROVE  IInv'
  <2>1. PICK q : q = [p EXCEPT !.pc = "extend", !.invitation = i]
    OBVIOUS
  <2>2. i \in Invites /\ invitation[i].status = "pending" /\ invitation[i].email = p.email
    BY DEF PendingFor
  <2>3. /\ q \in Task /\ q.pc = "extend" /\ q.user = p.user /\ q.email = p.email
        /\ q.invitation = i
    BY <2>1, <2>2 DEF Task
  <2>4. TaskOK(q)
    BY <1>3, <2>2, <2>3 DEF TaskOK, Inviting
  <2>5. task' = [task EXCEPT ![k] = q]
    BY <1>5, <2>1 DEF Turns
  <2>6. q.pc \in Inviting /\ q.user = task[k].user
    BY <1>1, <2>3 DEF Inviting
  <2> QED
    BY <1>2, <2>3, <2>4, <2>5, <2>6, TaskReads
<1> QED
  BY <1>1, <1>4, <1>5 DEF LookUpPending

\* The unique index, and an account that has got its invitation.
LEMMA InviteWrittenInv ==
  ASSUME IInv, NEW k \in Tasks, NEW i \in Invites, NEW new \in Invitation,
         invitation[i].status # "absent" => new.email = invitation[i].email,
         invitation' = [invitation EXCEPT ![i] = new],
         new.status # "absent",
         new.status = "pending" => PassesIndex(i, new.email),
         task' = [s \in Tasks |-> IF s = k THEN Resting ELSE [task[s] EXCEPT !.calm = FALSE]],
         task[k].pc \in Inviting => new.email = user[task[k].user].email,
         UNCHANGED <<user, token, req, member, invited>>
  PROVE  IInv'
<1>1. AInv' /\ \A v \in Users : InUse(v)' <=> InUse(v)
  BY AccountsKept DEF IInv
<1>2. /\ invitation' \in [Invites -> Invitation] /\ invitation'[i] = new
      /\ \A j \in Invites \ {i} : invitation'[j] = invitation[j]
  BY DEF IInv
<1>3. IGrows
  BY <1>2 DEF IGrows
<1>4. InvitationsOK'
  <2>1. ASSUME NEW j \in Invites, NEW l \in Invites,
               invitation'[j].status = "pending", invitation'[l].status = "pending",
               invitation'[j].email = invitation'[l].email
        PROVE  j = l
    BY <1>2, <2>1 DEF IInv, InvitationsOK, PassesIndex, PendingFor
  <2>2. \A j \in Invites : invitation'[j].status = "absent" => invitation'[j].email = NoEmail
    BY <1>2 DEF IInv, InvitationsOK
  <2> QED
    BY <2>1, <2>2 DEF InvitationsOK
<1>5. PICK q \in Task : q = Resting
  BY RestingOK
<1>6. TaskOK(q)'
  BY <1>5 DEF Resting, TaskOK, Inviting
<1>7. /\ member' \in SUBSET Users /\ \A v \in member' : InUse(v)'
      /\ invited' \in SUBSET Users /\ \A v \in invited' : v \in invited
  BY <1>1 DEF IInv
<1>8. PICK w : w = task[k].user
  OBVIOUS
<1>9. task[k].pc \in Inviting => Tracked(w)'
  <2>1. ASSUME task[k].pc \in Inviting
        PROVE  invitation'[i].email = user'[w].email
    BY <1>2, <1>8, <2>1
  <2> QED
    BY <2>1 DEF Tracked
<1>10. task' = [s \in Tasks |-> IF s = k THEN q ELSE [task[s] EXCEPT !.calm = FALSE]]
  BY <1>5
<1> QED
  BY <1>1, <1>2, <1>3, <1>4, <1>6, <1>7, <1>8, <1>9, <1>10, TaskInv

LEMMA InvitationWritesInv ==
  ASSUME IInv, NEW k \in Tasks,
         ExtendInvitation(k) \/ InsertInvitation(k) \/ WriteAccepted(k)
  PROVE  IInv'
<1>1. PICK p \in Task : p = task[k] /\ TaskOK(p)
  BY DEF IInv
<1>2. /\ task' = [s \in Tasks |-> IF s = k THEN Resting ELSE [task[s] EXCEPT !.calm = FALSE]]
      /\ UNCHANGED <<user, token, req, member, invited>>
  BY DEF ExtendInvitation, InsertInvitation, WriteAccepted, TurnsWriting
<1>3. CASE ExtendInvitation(k)
  <2>1. p.pc = "extend"
    BY <1>1, <1>3 DEF ExtendInvitation, TurnsWriting
  <2>2. /\ p.user \in Users /\ user[p.user].email = p.email
        /\ p.invitation \in Invites
        /\ invitation[p.invitation].email = p.email
    BY <1>1, <2>1 DEF TaskOK, Inviting
  <2>3. PICK i \in Invites : i = p.invitation
    BY <2>2
  <2>4. PICK old \in Invitation : old = invitation[i]
    BY DEF IInv
  <2>5. PICK new : new = [old EXCEPT !.status = "pending", !.expired = FALSE]
    OBVIOUS
  <2>6. new \in Invitation /\ new.status = "pending" /\ new.email = p.email
    BY <2>2, <2>3, <2>4, <2>5 DEF Invitation
  <2>7. invitation' = [invitation EXCEPT ![i] = new]
    BY <1>1, <1>3, <2>3, <2>4, <2>5 DEF ExtendInvitation, IInv
  <2>8. PassesIndex(i, new.email)
    BY <1>1, <1>3, <2>3, <2>6 DEF ExtendInvitation
  <2> QED
    BY <1>1, <1>2, <2>2, <2>3, <2>6, <2>7, <2>8, InviteWrittenInv
<1>4. CASE InsertInvitation(k)
  <2>1. p.pc = "insert"
    BY <1>1, <1>4 DEF InsertInvitation, TurnsWriting
  <2>2. p.user \in Users /\ user[p.user].email = p.email /\ InUse(p.user)
    BY <1>1, <2>1 DEF TaskOK, Inviting
  <2>3. PICK i \in Invites :
          /\ invitation[i].status = "absent"
          /\ PassesIndex(i, p.email)
          /\ invitation' = [invitation EXCEPT ![i] =
               [NotAnInvitation EXCEPT !.status = "pending", !.email = p.email]]
    BY <1>1, <1>4 DEF InsertInvitation
  <2>4. PICK blank \in Invitation : blank = NotAnInvitation
    BY DEF NotAnInvitation, Invitation
  <2>5. PICK new : new = [blank EXCEPT !.status = "pending", !.email = p.email]
    OBVIOUS
  <2>6. new \in Invitation /\ new.status = "pending" /\ new.email = p.email
    BY <2>5 DEF Invitation, Task
  <2>7. invitation' = [invitation EXCEPT ![i] = new]
    BY <2>3, <2>4, <2>5
  <2>8. /\ invitation[i].status # "absent" => new.email = invitation[i].email
        /\ new.status # "absent"
        /\ new.status = "pending" => PassesIndex(i, new.email)
        /\ task[k].pc \in Inviting => new.email = user[task[k].user].email
    BY <1>1, <2>2, <2>3, <2>6
  <2> QED
    BY <1>2, <2>6, <2>7, <2>8, InviteWrittenInv
<1>5. CASE WriteAccepted(k)
  <2>1. p.pc = "accept"
    BY <1>1, <1>5 DEF WriteAccepted, TurnsWriting
  <2>2. /\ p.user \in Users /\ p.invitation \in Invites
        /\ invitation[p.invitation].email = p.email
    BY <1>1, <2>1 DEF TaskOK
  <2>3. PICK i \in Invites : i = p.invitation
    BY <2>2
  <2>4. PICK old \in Invitation : old = invitation[i]
    BY DEF IInv
  <2>5. PICK new : new = [old EXCEPT !.status = "accepted", !.accepter = p.user]
    OBVIOUS
  <2>6. new \in Invitation /\ new.status = "accepted" /\ new.email = old.email
    BY <2>2, <2>5 DEF Invitation
  <2>7. invitation' = [invitation EXCEPT ![i] = new]
    BY <1>1, <1>5, <2>3, <2>4, <2>5 DEF WriteAccepted, IInv
  <2>8. task[k].pc \notin Inviting
    BY <1>1, <2>1 DEF Inviting
  <2> QED
    BY <1>2, <2>4, <2>6, <2>7, <2>8, InviteWrittenInv
<1> QED
  BY <1>3, <1>4, <1>5

LEMMA BeginAcceptInv ==
  ASSUME IInv, NEW k \in Tasks, BeginAccept(k)
  PROVE  IInv'
<1>1. PICK i \in Invites, u \in Users :
        /\ Open(i)
        /\ user[u].email # NoEmail
        /\ Turns(k, "idle", [Resting EXCEPT !.pc = "join", !.user = u, !.invitation = i,
                                            !.email = invitation[i].email, !.calm = TRUE])
  BY DEF BeginAccept
<1>2. PICK rest \in Task : rest = Resting
  BY RestingOK
<1>3. PICK q : q = [rest EXCEPT !.pc = "join", !.user = u, !.invitation = i,
                                !.email = invitation[i].email, !.calm = TRUE]
  OBVIOUS
<1>4. invitation[i].email \in Emails \cup {NoEmail}
  BY DEF IInv, Invitation
<1>5. /\ q \in Task /\ q.pc = "join" /\ q.user = u /\ q.invitation = i
      /\ q.email = invitation[i].email
  BY <1>2, <1>3, <1>4 DEF Task
<1>6. TaskOK(q)
  BY <1>1, <1>5 DEF TaskOK, Inviting, Open, InUse
<1>7. task' = [task EXCEPT ![k] = q] /\ task[k].pc \notin Inviting
  BY <1>1, <1>2, <1>3 DEF Turns, Inviting
<1>8. UNCHANGED <<user, token, req, member, invited, invitation>>
  BY DEF BeginAccept
<1> QED
  BY <1>5, <1>6, <1>7, <1>8, TaskReads

LEMMA AbandonInv ==
  ASSUME IInv, NEW k \in Tasks, Abandon(k)
  PROVE  IInv'
<1>1. AInv' /\ \A v \in Users : InUse(v)' <=> InUse(v)
  BY AccountsKept DEF IInv, Abandon
<1>2. IGrows
  BY DEF IGrows, Abandon
<1>3. PICK q \in Task : q = Resting
  BY RestingOK
<1>4. TaskOK(q)'
  BY <1>3 DEF Resting, TaskOK, Inviting
<1>5. /\ member' \in SUBSET Users /\ \A v \in member' : InUse(v)'
      /\ invited' \in SUBSET Users /\ \A v \in invited' : v \in invited
      /\ invitation' \in [Invites -> Invitation] /\ InvitationsOK'
  BY <1>1 DEF IInv, Abandon, InvitationsOK
<1>6. PICK w : w = task[k].user
  OBVIOUS
<1>7. task[k].pc \in Inviting => w \notin invited'
  BY <1>6 DEF Abandon, Inviting
<1>8. task' = [task EXCEPT ![k] = q] /\ UNCHANGED invitation
  BY <1>3 DEF Abandon
<1> QED
  BY <1>1, <1>2, <1>4, <1>5, <1>6, <1>7, <1>8, TaskInv

\* A step of nobody's request on invitations.
LEMMA ElsewhereInv ==
  ASSUME IInv, AInv', IGrows,
         \/ UNCHANGED task /\ \A i \in Invites : invitation[i].status = "pending"
                                                   => invitation'[i].status = "pending"
         \/ task' = [s \in Tasks |-> [task[s] EXCEPT !.calm = FALSE]],
         member' \subseteq member, UNCHANGED invited,
         invitation' \in [Invites -> Invitation], InvitationsOK'
  PROVE  IInv'
<1>1. /\ task' \in [Tasks -> Task] /\ \A s \in Tasks : TaskOK(task[s])'
      /\ \A s \in Tasks : task'[s].pc = task[s].pc /\ task'[s].user = task[s].user
  BY TasksLookOn
<1>2. \A u \in Users : InUse(u) => InUse(u)'
  BY DEF IGrows, InUse
<1>3. ASSUME NEW u \in invited
      PROVE  InUse(u)' /\ (Tracked(u)' \/ InProgress(u)')
  <2>1. u \in Users /\ InUse(u) /\ (Tracked(u) \/ InProgress(u))
    BY DEF IInv
  <2>2. CASE Tracked(u)
    BY <1>2, <2>1, <2>2, TrackedKept
  <2>3. CASE InProgress(u)
    BY <1>1, <1>2, <2>1, <2>3 DEF InProgress
  <2> QED
    BY <2>1, <2>2, <2>3
<1> QED
  BY <1>1, <1>2, <1>3 DEF IInv

LEMMA BystandersInv ==
  ASSUME IInv, RevokeInvitation \/ RemoveMember \/ InvitationExpires
  PROVE  IInv'
<1>1. UNCHANGED <<user, token, req, invited>>
  BY DEF RevokeInvitation, RemoveMember, InvitationExpires
<1>2. AInv'
  BY <1>1, AccountsKept DEF IInv
<1>3. CASE RemoveMember
  <2>1. /\ UNCHANGED invitation /\ member' \subseteq member
        /\ task' = [s \in Tasks |-> [task[s] EXCEPT !.calm = FALSE]]
    BY <1>3 DEF RemoveMember
  <2>2. IGrows /\ invitation' \in [Invites -> Invitation] /\ InvitationsOK'
    BY <1>1, <2>1 DEF IGrows, IInv, InvitationsOK
  <2> QED
    BY <1>1, <1>2, <2>1, <2>2, ElsewhereInv
<1>4. ASSUME NEW i \in Invites, NEW new \in Invitation,
             invitation[i].status = "pending",
             new.email = invitation[i].email, new.status # "absent",
             invitation' = [invitation EXCEPT ![i] = new], UNCHANGED member
      PROVE  /\ IGrows /\ invitation' \in [Invites -> Invitation] /\ InvitationsOK'
             /\ \A j \in Invites \ {i} : invitation'[j] = invitation[j]
             /\ invitation'[i] = new
  <2>1. /\ invitation' \in [Invites -> Invitation] /\ invitation'[i] = new
        /\ \A j \in Invites \ {i} : invitation'[j] = invitation[j]
    BY <1>4 DEF IInv
  <2>2. IGrows
    BY <1>1, <1>4, <2>1 DEF IGrows
  <2>3. InvitationsOK'
    <3>1. ASSUME NEW j \in Invites, NEW l \in Invites,
                 invitation'[j].status = "pending", invitation'[l].status = "pending",
                 invitation'[j].email = invitation'[l].email
          PROVE  j = l
      BY <1>4, <2>1, <3>1 DEF IInv, InvitationsOK
    <3>2. \A j \in Invites :
            invitation'[j].status = "absent" => invitation'[j].email = NoEmail
      BY <1>4, <2>1 DEF IInv, InvitationsOK
    <3> QED
      BY <3>1, <3>2 DEF InvitationsOK
  <2> QED
    BY <2>1, <2>2, <2>3
<1>5. CASE RevokeInvitation
  <2>1. PICK i \in Invites : /\ invitation[i].status = "pending"
                             /\ invitation' = [invitation EXCEPT ![i].status = "revoked"]
    BY <1>5 DEF RevokeInvitation, Revocable
  <2>2. PICK old \in Invitation : old = invitation[i]
    BY DEF IInv
  <2>3. PICK new : new = [old EXCEPT !.status = "revoked"]
    OBVIOUS
  <2>4. new \in Invitation /\ new.status # "absent" /\ new.email = old.email
    BY <2>3 DEF Invitation
  <2>5. invitation' = [invitation EXCEPT ![i] = new]
    BY <2>1, <2>2, <2>3 DEF IInv
  <2>6. /\ UNCHANGED member
        /\ task' = [s \in Tasks |-> [task[s] EXCEPT !.calm = FALSE]]
    BY <1>5 DEF RevokeInvitation
  <2>7. IGrows /\ invitation' \in [Invites -> Invitation] /\ InvitationsOK'
    BY <1>4, <2>1, <2>2, <2>4, <2>5, <2>6
  <2> QED
    BY <1>1, <1>2, <2>6, <2>7, ElsewhereInv
<1>6. CASE InvitationExpires
  <2>1. PICK i \in Invites : /\ invitation[i].status = "pending"
                             /\ invitation' = [invitation EXCEPT ![i].expired = TRUE]
    BY <1>6 DEF InvitationExpires, Open
  <2>2. PICK old \in Invitation : old = invitation[i]
    BY DEF IInv
  <2>3. PICK new : new = [old EXCEPT !.expired = TRUE]
    OBVIOUS
  <2>4. /\ new \in Invitation /\ new.status = "pending" /\ new.status # "absent"
        /\ new.email = old.email
    BY <2>1, <2>2, <2>3 DEF Invitation
  <2>5. invitation' = [invitation EXCEPT ![i] = new]
    BY <2>1, <2>2, <2>3 DEF IInv
  <2>6. UNCHANGED <<member, task>>
    BY <1>6 DEF InvitationExpires
  <2>7. /\ IGrows /\ invitation' \in [Invites -> Invitation] /\ InvitationsOK'
        /\ \A j \in Invites \ {i} : invitation'[j] = invitation[j]
        /\ invitation'[i] = new
    BY <1>4, <2>1, <2>2, <2>4, <2>5, <2>6
  <2>8. \A j \in Invites : invitation[j].status = "pending"
                             => invitation'[j].status = "pending"
    BY <2>4, <2>7
  <2> QED
    BY <1>1, <1>2, <2>6, <2>7, <2>8, ElsewhereInv
<1> QED
  BY <1>3, <1>5, <1>6

LEMMA AccountsInv ==
  ASSUME IInv, (\E r \in Requests : Served(r)) \/ TokenExpires,
         UNCHANGED <<member, invited, invitation, task>>
  PROVE  IInv'
<1>1. AInv' /\ \A u \in Users : InUse(u) => user'[u].email = user[u].email /\ InUse(u)'
  <2>1. AInv
    BY DEF IInv
  <2>2. CASE \E r \in Requests : Served(r)
    BY <2>1, <2>2, ServedInv, EmailsKept
  <2>3. CASE TokenExpires
    <3>1. AInv'
      BY <2>1, <2>3, TokenExpiresInv
    <3>2. UNCHANGED user
      BY <2>3 DEF TokenExpires
    <3> QED
      BY <3>1, <3>2 DEF InUse
  <2> QED
    BY <2>2, <2>3
<1>2. IGrows
  BY <1>1 DEF IGrows
<1>3. invitation' \in [Invites -> Invitation] /\ InvitationsOK'
  BY DEF IInv, InvitationsOK
<1> QED
  BY <1>1, <1>2, <1>3, ElsewhereInv

LEMMA IInitInv ==
  ASSUME IInit
  PROVE  IInv
<1>1. PICK row \in [Emails -> Users \cup {NoUser}] :
        /\ \A e, f \in Emails : row[e] = row[f] /\ row[e] # NoUser => e = f
        /\ user = [u \in Users |->
             IF \E e \in Emails : row[e] = u
               THEN [NotAUser EXCEPT !.email = CHOOSE e \in Emails : row[e] = u]
               ELSE NotAUser]
  BY DEF IInit, Init
<1>2. PICK blank \in User : blank = NotAUser /\ blank.email = NoEmail
  <2>1. NotAUser \in User /\ NotAUser.email = NoEmail
    BY DEF NotAUser, User
  <2> QED
    BY <2>1
<1>3. ASSUME NEW u \in Users
      PROVE  /\ user[u] \in User
             /\ \/ user[u] = NotAUser /\ user[u].email = NoEmail
                \/ user[u].email \in Emails /\ row[user[u].email] = u
  <2>1. CASE \E e \in Emails : row[e] = u
    <3>1. PICK e \in Emails : e = (CHOOSE f \in Emails : row[f] = u) /\ row[e] = u
      BY <2>1
    <3>2. PICK new : new = [blank EXCEPT !.email = e]
      OBVIOUS
    <3>3. new \in User /\ new.email = e
      BY <3>2 DEF User
    <3>4. user[u] = new
      BY <1>1, <1>2, <2>1, <3>1, <3>2
    <3> QED
      BY <3>1, <3>3, <3>4
  <2>2. CASE ~\E e \in Emails : row[e] = u
    BY <1>1, <1>2, <2>2
  <2> QED
    BY <2>1, <2>2
<1>4. user \in [Users -> User]
  BY <1>1, <1>3
<1>5. RowsOK
  BY <1>3, AccountsAssumption DEF RowsOK, InUse
<1>6. token \in [Tokens -> Token] /\ TokensOK
  BY AccountsAssumption DEF IInit, Init, NotAToken, Token, TokensOK, Childless
<1>7. req \in [Requests -> Request] /\ \A r \in Requests : RequestOK(req[r])
  BY IdleOK DEF IInit, Init
<1>8. task \in [Tasks -> Task] /\ \A k \in Tasks : TaskOK(task[k])
  BY RestingOK DEF IInit
<1>9. invitation \in [Invites -> Invitation] /\ InvitationsOK
  BY DEF IInit, NotAnInvitation, Invitation, InvitationsOK
<1> QED
  BY <1>4, <1>5, <1>6, <1>7, <1>8, <1>9 DEF IInit, IInv, AInv

LEMMA INextInv ==
  ASSUME IInv, [INext]_ivars
  PROVE  IInv'
<1>1. CASE UNCHANGED ivars
  <2>1. AInv'
    BY <1>1, AccountsKept DEF IInv, ivars
  <2>2. IGrows
    BY <1>1 DEF IGrows, ivars
  <2>3. /\ UNCHANGED <<task, invitation, invited>> /\ member' \subseteq member
        /\ invitation' \in [Invites -> Invitation] /\ InvitationsOK'
    BY <1>1 DEF IInv, InvitationsOK, ivars
  <2> QED
    BY <2>1, <2>2, <2>3, ElsewhereInv
<1>2. ASSUME NEW k \in Tasks, ServedTask(k)
      PROVE  IInv'
  BY <1>2, FindInviteeInv, AddInv, CreateInvitedInv, LookUpPendingInv, InvitationWritesInv,
     BeginAcceptInv, AbandonInv
  DEF ServedTask
<1> QED
  BY <1>1, <1>2, AccountsInv, BystandersInv DEF INext

\* The inductive invariant of accounts, tokens and invitations together.
THEOREM InvitationsInvariant == ISpec => []IInv
BY IInitInv, INextInv, PTL DEF ISpec

\* The types, and whom tokens and memberships belong to.
THEOREM ITypeCorrect == ISpec => []ITypeOK
<1>1. ASSUME IInv
      PROVE  ITypeOK
  <2>1. ATypeOK
    BY <1>1, AccountsAssumption DEF IInv, AInv, TokensOK, ATypeOK
  <2> QED
    BY <1>1, <2>1 DEF IInv, InUse, ITypeOK
<1> QED
  BY <1>1, InvitationsInvariant, PTL

\* One account and one open invitation per email, whoever creates them side by side.
THEOREM AddressesAreUnique == ISpec => []EmailsAreUnique
<1>1. ASSUME IInv, NEW email \in Emails
      PROVE  Cardinality(Registered(email)) <= 1 /\ Cardinality(PendingFor(email)) <= 1
  <2>1. ASSUME NEW S, \A x, y \in S : x = y
        PROVE  Cardinality(S) <= 1
    <3>1. CASE S = {}
      BY <3>1, FS_EmptySet
    <3>2. ASSUME NEW x \in S
          PROVE  Cardinality(S) <= 1
      <4>1. S = {x}
        BY <2>1
      <4>2. Cardinality({x}) = 1
        BY FS_Singleton
      <4> QED
        BY <4>1, <4>2
    <3> QED
      BY <3>1, <3>2
  <2>2. \A u, v \in Registered(email) : u = v
    BY <1>1, AccountsAssumption DEF IInv, AInv, RowsOK, InUse, Registered
  <2>3. \A i, j \in PendingFor(email) : i = j
    BY <1>1 DEF IInv, InvitationsOK, PendingFor
  <2> QED
    BY <2>1, <2>2, <2>3
<1>2. IInv => EmailsAreUnique
  BY <1>1 DEF EmailsAreUnique
<1> QED
  BY <1>2, InvitationsInvariant, PTL

\* Once no invitation request runs, everybody to whom one gave an account and a
\* membership has an invitation, unless that request was abandoned between its commits.
THEOREM InviteesAreTracked == ISpec => []InvitedAreTracked
<1>1. ASSUME IInv, \A k \in Tasks : task[k].pc = "idle"
      PROVE  \A u \in invited \cap member :
               \E i \in Invites : invitation[i].email = user[u].email
  <2>1. \A u \in Users : ~InProgress(u)
    BY <1>1 DEF InProgress, Inviting
  <2> QED
    BY <1>1, <2>1 DEF IInv, Tracked
<1>2. IInv => InvitedAreTracked
  BY <1>1 DEF InvitedAreTracked
<1> QED
  BY <1>2, InvitationsInvariant, PTL

---------------------------------------------------------------------------------
(* What a step may never do.                                               *)

\* A request moves by its own steps only.
LEMMA SoleMover ==
  ASSUME AInv, NEW r \in Requests, NEW s \in Requests, Served(s), Moves(r)
  PROVE  r = s
<1>1. SUFFICES ASSUME r # s
               PROVE  req'[r].pc = req[r].pc
  BY DEF Moves
<1>2. PICK p \in Request : p = req[r]
  BY DEF AInv
<1>3. ASSUME NEW q, req' = [req EXCEPT ![s] = q]
      PROVE  req'[r].pc = req[r].pc
  BY <1>1, <1>3 DEF AInv
<1>4. ASSUME NEW email, NEW q, Writes(s, email, q)
      PROVE  req'[r].pc = req[r].pc
  <2>1. req'[r] = [p EXCEPT !.calm = p.calm /\ p.email # email]
    BY <1>1, <1>2, <1>4 DEF Writes
  <2>2. [p EXCEPT !.calm = p.calm /\ p.email # email].pc = p.pc
    BY DEF Request
  <2> QED
    BY <1>2, <2>1, <2>2
<1>5. \/ \E q : req' = [req EXCEPT ![s] = q]
      \/ \E email, q : Writes(s, email, q)
  <2>1. CASE BeginRegister(s) \/ BeginLogin(s) \/ BeginGoogle(s) \/ BeginRefresh(s)
             \/ BeginLogout(s) \/ BeginChangePassword(s)
    <3>1. \E q : Admit(s, q)
      BY <2>1 DEF BeginRegister, BeginLogin, BeginGoogle, BeginRefresh, BeginLogout,
                  BeginChangePassword
    <3> QED
      BY <3>1 DEF Admit
  <2>2. CASE ReadEmail(s) \/ TouchLastLogin(s) \/ Fail(s)
    BY <2>2 DEF ReadEmail, TouchLastLogin, Fail, Continues
  <2>3. CASE ClaimAccount(s) \/ CreateAccount(s) \/ LinkGoogle(s) \/ IssueSession(s)
             \/ RevokeAllForUser(s) \/ RevokeToken(s) \/ SetPassword(s)
    BY <2>3 DEF ClaimAccount, CreateAccount, LinkGoogle, IssueSession, RevokeAllForUser,
                RevokeToken, SetPassword
  <2> QED
    BY <2>1, <2>2, <2>3 DEF Served
<1> QED
  BY <1>3, <1>4, <1>5

LEMMA MovesByItself ==
  ASSUME IInv, [INext]_ivars, NEW r \in Requests, Moves(r)
  PROVE  Served(r)
<1>1. \/ \E s \in Requests : Served(s)
      \/ UNCHANGED req
  BY DEF INext, TokenExpires, ServedTask, BeginInvite, BeginInviteTool, FindInvitee,
         AddExisting, CreateInvited, AddInvited, LookUpPending, ExtendInvitation,
         InsertInvitation, BeginAccept, JoinTrip, WriteAccepted, Abandon,
         RevokeInvitation, RemoveMember, InvitationExpires, ivars
<1> QED
  BY <1>1, SoleMover DEF IInv, Moves

LEMMA RegistrationStep ==
  ASSUME IInv, [INext]_ivars, NEW r \in Requests, NEW u \in Users,
         Moves(r), req[r].calm, req[r].op = "register", user'[u] # user[u]
  PROVE  Placeholder(u)
<1>1. PICK p \in Request : p = req[r] /\ RequestOK(p)
  BY DEF IInv, AInv
<1>2. Served(r)
  BY MovesByItself
<1>3. p.calm /\ p.pc \in {"claim", "create", "issue"}
  BY <1>1 DEF RequestOK
<1>4. \/ ClaimAccount(r) \/ CreateAccount(r)
      \/ UNCHANGED user
  BY <1>1, <1>2, <1>3
  DEF Served, BeginRegister, BeginLogin, BeginGoogle, ReadEmail, LinkGoogle, TouchLastLogin,
      IssueSession, BeginRefresh, RevokeAllForUser, RevokeToken, BeginLogout,
      BeginChangePassword, SetPassword, Fail, At
<1>5. CASE ClaimAccount(r)
  <2>1. p.pc = "claim" /\ user' = [user EXCEPT ![p.user].password = p.password]
    BY <1>1, <1>5 DEF ClaimAccount, At
  <2>2. u = p.user
    BY <2>1 DEF IInv, AInv
  <2> QED
    BY <1>1, <1>3, <2>1, <2>2 DEF RequestOK
<1>6. CASE CreateAccount(r)
  <2>1. PICK v \in Users : /\ user[v].email = NoEmail
                           /\ \E new : user' = [user EXCEPT ![v] = new]
    BY <1>6 DEF CreateAccount, Insertable
  <2>2. u = v
    BY <2>1 DEF IInv, AInv
  <2>3. user[u] = NotAUser
    BY <2>1, <2>2 DEF IInv, AInv, RowsOK, InUse
  <2> QED
    BY <2>3 DEF Placeholder, NotAUser
<1> QED
  BY <1>4, <1>5, <1>6

\* Registering, undisturbed, gives credentials to nobody who has some.
THEOREM RegistrationIsHarmless == ISpec => RegistrationReplacesNothing
<1>1. IInv /\ [INext]_ivars =>
        [\A r \in Requests, u \in Users :
           Moves(r) /\ req[r].calm /\ req[r].op = "register" /\ user'[u] # user[u]
             => Placeholder(u)]_avars
  BY RegistrationStep
<1> QED
  BY <1>1, InvitationsInvariant, PTL DEF ISpec, RegistrationReplacesNothing

LEMMA RefreshStep ==
  ASSUME IInv, [INext]_ivars, NEW r \in Requests, NEW t \in Tokens,
         Moves(r), req[r].calm, req[r].op = "refresh",
         token'[t] # token[t], token[t].life = "absent"
  PROVE  \A s \in Tokens : token[s].parent # req[r].token
<1>1. PICK p \in Request : p = req[r] /\ RequestOK(p)
  BY DEF IInv, AInv
<1>2. Served(r)
  BY MovesByItself
<1>3. ASSUME NEW ts, token' = Revoked(ts)
      PROVE  FALSE
  BY <1>3 DEF Revoked
<1>4. IssueSession(r)
  <2>1. ~RevokeAllForUser(r) /\ ~RevokeToken(r)
    BY <1>3 DEF RevokeAllForUser, RevokeToken
  <2> QED
    BY <1>2, <2>1
    DEF Served, BeginRegister, ClaimAccount, CreateAccount, BeginLogin, BeginGoogle,
        ReadEmail, LinkGoogle, TouchLastLogin, BeginRefresh, BeginLogout,
        BeginChangePassword, SetPassword, Fail
<1>5. p.pc = "issue" /\ p.calm /\ p.op = "refresh"
  BY <1>1, <1>4 DEF IssueSession, At
<1> QED
  BY <1>1, <1>5 DEF RequestOK, Childless

\* A refresh alone with its user gives a token its only successor.
THEOREM RefreshIsSingle == ISpec => UndisturbedRefreshIsSingle
<1>1. IInv /\ [INext]_ivars =>
        [\A r \in Requests, t \in Tokens :
           Moves(r) /\ req[r].calm /\ req[r].op = "refresh" /\ token'[t] # token[t]
           /\ token[t].life = "absent"
             => \A s \in Tokens : token[s].parent # req[r].token]_avars
  BY RefreshStep
<1> QED
  BY <1>1, InvitationsInvariant, PTL DEF ISpec, UndisturbedRefreshIsSingle

LEMMA DecisionStep ==
  ASSUME IInv, [INext]_ivars, NEW k \in Tasks, NEW i \in Invites,
         TaskMoves(k), task[k].calm, invitation[i].status \in {"accepted", "revoked"}
  PROVE  invitation'[i] = invitation[i]
<1>1. PICK p \in Task : p = task[k] /\ TaskOK(p)
  BY DEF IInv
<1>2. ASSUME NEW s \in Tasks \ {k}, NEW q, NEW pc, Turns(s, pc, q) \/ TurnsWriting(s, pc, q)
      PROVE  FALSE
  <2>1. task'[k] = p \/ task'[k] = [p EXCEPT !.calm = FALSE]
    BY <1>1, <1>2 DEF Turns, TurnsWriting, IInv
  <2>2. [p EXCEPT !.calm = FALSE].pc = p.pc
    BY DEF Task
  <2> QED
    BY <1>1, <2>1, <2>2 DEF TaskMoves
<1>3. CASE UNCHANGED invitation
  BY <1>3
<1>4. ASSUME NEW s \in Tasks,
             ExtendInvitation(s) \/ InsertInvitation(s) \/ WriteAccepted(s)
      PROVE  invitation'[i] = invitation[i]
  <2>1. \E q, pc : TurnsWriting(s, pc, q)
    BY <1>4 DEF ExtendInvitation, InsertInvitation, WriteAccepted
  <2>2. s = k
    BY <1>2, <2>1
  <2>3. CASE InsertInvitation(s)
    <3>1. PICK j \in Invites : /\ invitation[j].status = "absent"
                               /\ \E new : invitation' = [invitation EXCEPT ![j] = new]
      BY <2>3 DEF InsertInvitation
    <3> QED
      BY <3>1 DEF IInv
  <2>4. CASE ExtendInvitation(s) \/ WriteAccepted(s)
    <3>1. p.pc \in {"extend", "accept"} /\ p.calm
      BY <1>1, <2>2, <2>4 DEF ExtendInvitation, WriteAccepted, TurnsWriting
    <3>2. p.invitation \in Invites /\ invitation[p.invitation].status = "pending"
      BY <1>1, <3>1 DEF TaskOK
    <3>3. p.invitation # i
      BY <3>2
    <3>4. invitation'[i] = invitation[i]
      BY <1>1, <2>2, <2>4, <3>2, <3>3 DEF ExtendInvitation, WriteAccepted, IInv
    <3> QED
      BY <3>4
  <2> QED
    BY <1>4, <2>3, <2>4
<1>5. CASE RevokeInvitation \/ InvitationExpires
  <2>1. PICK j \in Invites :
          /\ invitation[j].status = "pending"
          /\ \/ invitation' = [invitation EXCEPT ![j].status = "revoked"]
             \/ invitation' = [invitation EXCEPT ![j].expired = TRUE]
    BY <1>5 DEF RevokeInvitation, Revocable, InvitationExpires, Open
  <2> QED
    BY <2>1 DEF IInv
<1>6. \/ UNCHANGED invitation
      \/ \E s \in Tasks : ExtendInvitation(s) \/ InsertInvitation(s) \/ WriteAccepted(s)
      \/ RevokeInvitation \/ InvitationExpires
  BY DEF INext, ServedTask, BeginInvite, BeginInviteTool, FindInvitee, AddExisting,
         CreateInvited, AddInvited, LookUpPending, BeginAccept, JoinTrip, Abandon,
         RemoveMember, ivars
<1> QED
  BY <1>3, <1>4, <1>5, <1>6

\* What was decided about an invitation stays decided, unless two requests overlap.
THEOREM DecisionsAreFinal == ISpec => UndisturbedDecisionIsFinal
<1>1. IInv /\ [INext]_ivars =>
        [\A k \in Tasks, i \in Invites :
           TaskMoves(k) /\ task[k].calm /\ invitation[i].status \in {"accepted", "revoked"}
             => invitation'[i] = invitation[i]]_ivars
  BY DecisionStep
<1> QED
  BY <1>1, InvitationsInvariant, PTL DEF ISpec, UndisturbedDecisionIsFinal
=================================================================================
