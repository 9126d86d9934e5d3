-------------------------------- MODULE Accounts --------------------------------
(***************************************************************************)
(* Accounts, sign-in and the refresh tokens of sessions.                   *)
(*                                                                         *)
(* The user service reads an account or a token and then writes, without   *)
(* a transaction: every statement is a step.  The rows of users and        *)
(* refresh_tokens are written by identity, whatever they hold by then;     *)
(* only the unique index on the email and Revoke's "revoked_at IS NULL"    *)
(* look at the row.                                                        *)
(*                                                                         *)
(* Hashing and the checks of a password's form are left out, so is an      *)
(* access token, which no table knows.  Google knows each email under one  *)
(* subject.                                                                *)
(***************************************************************************)
EXTENDS Naturals, FiniteSets

CONSTANTS
  Users,          \* identities of users rows
  Emails,         \* addresses
  Passwords,      \* what a client may enter
  Tokens,         \* identities of refresh_tokens rows
  NoUser,         \* no account
  NoEmail,        \* the email of a row not in use
  NoPassword,     \* password_hash is empty
  NoToken,        \* no refresh token
  MasterPassword, \* the operator's master password is configured
  Requests,       \* request slots: how many requests overlap
  Operations      \* the endpoints this instance serves

ASSUME AccountsAssumption ==
  /\ NoUser \notin Users
  /\ NoEmail \notin Emails
  /\ NoPassword \notin Passwords
  /\ NoToken \notin Tokens
  /\ MasterPassword \in BOOLEAN

VARIABLES
  user,   \* the users table
  token,  \* the refresh_tokens table
  req     \* the requests being served

avars == <<user, token, req>>

\* signedIn: last_login_at is set.
User == [email : Emails \cup {NoEmail}, password : Passwords \cup {NoPassword},
         google : BOOLEAN, signedIn : BOOLEAN]

NotAUser == [email |-> NoEmail, password |-> NoPassword, google |-> FALSE, signedIn |-> FALSE]

\* parent is the token that was exchanged for this one, if any.
Token == [life : {"absent", "live", "revoked"}, user : Users \cup {NoUser},
          expired : BOOLEAN, parent : Tokens \cup {NoToken}]

NotAToken == [life |-> "absent", user |-> NoUser, expired |-> FALSE, parent |-> NoToken]

SessionOps == {"register", "login", "google", "refresh", "logout", "password"}

\* pc names the statement that comes next; calm means that no other request has
\* written to this person's account or tokens since this one began.
Request == [pc       : {"idle", "claim", "create", "email", "link", "touch", "issue",
                        "reused", "rotate", "revoke", "set"},
            op       : {"none"} \cup SessionOps,
            email    : Emails \cup {NoEmail},
            user     : Users \cup {NoUser},
            password : Passwords \cup {NoPassword},
            token    : Tokens \cup {NoToken},
            calm     : BOOLEAN]

Idle == [pc |-> "idle", op |-> "none", email |-> NoEmail, user |-> NoUser,
         password |-> NoPassword, token |-> NoToken, calm |-> FALSE]

\* Some addresses may have been given an account by an invitation.
Init ==
  /\ \E row \in [Emails -> Users \cup {NoUser}] :
       /\ \A e, f \in Emails : row[e] = row[f] /\ row[e] # NoUser => e = f
       /\ user = [u \in Users |->
            IF \E e \in Emails : row[e] = u
              THEN [NotAUser EXCEPT !.email = CHOOSE e \in Emails : row[e] = u]
              ELSE NotAUser]
  /\ token = [t \in Tokens |-> NotAToken]
  /\ req = [r \in Requests |-> Idle]

---------------------------------------------------------------------------------
(* What requests share.                                                    *)

Registered(email) == {u \in Users : user[u].email = email}

\* An INSERT of u passes the unique index on the email.
Insertable(u, email) == user[u].email = NoEmail /\ Registered(email) = {}

\* Created by an invitation: no password and no Google link yet.
Placeholder(u) == user[u].password = NoPassword /\ ~user[u].google

Admit(r, q) ==
  /\ q.op \in Operations
  /\ req[r].pc = "idle"
  /\ req' = [req EXCEPT ![r] = q]

Begun(op, email, pc) == [Idle EXCEPT !.op = op, !.email = email, !.pc = pc, !.calm = TRUE]

At(r, pc) == req[r].pc = pc

Continues(r, q) == req' = [req EXCEPT ![r] = q]

\* r goes on as q after a write to this person's rows.
Writes(r, email, q) ==
  req' = [s \in Requests |->
            IF s = r THEN q ELSE [req[s] EXCEPT !.calm = @ /\ req[s].email # email]]

\* An error answer, a cancelled request or a crash.
Fail(r) ==
  /\ req[r].pc # "idle"
  /\ req' = [req EXCEPT ![r] = Idle]
  /\ UNCHANGED <<user, token>>

---------------------------------------------------------------------------------
(* Registration and sign-in.                                               *)

\* Mutated form of Claimable: an account with a Google link only is taken as well.
ClaimableByPassword(u) == user[u].password = NoPassword

\* Registering is refused for an account that already has a way to sign in.
Claimable(u) == Placeholder(u)

\* GetByEmail decides between claiming the placeholder and creating the account.
BeginRegister(r) ==
  \E email \in Emails, password \in Passwords :
    LET q == [Begun("register", email, "create") EXCEPT !.password = password]
    IN /\ \/ /\ Registered(email) = {}
             /\ Admit(r, q)
          \/ \E u \in Registered(email) :
               /\ Claimable(u)
               /\ Admit(r, [q EXCEPT !.pc = "claim", !.user = u])
       /\ UNCHANGED <<user, token>>

\* SetPasswordHash on the row found, then the name.
ClaimAccount(r) ==
  /\ At(r, "claim")
  /\ user' = [user EXCEPT ![req[r].user].password = req[r].password]
  /\ Writes(r, req[r].email, [req[r] EXCEPT !.pc = "issue"])
  /\ UNCHANGED token

\* INSERT, refused by the index if the email has come into use meanwhile.
CreateAccount(r) ==
  LET q == req[r]
  IN /\ At(r, "create")
     /\ \E u \in Users :
          /\ Insertable(u, q.email)
          /\ user' = [user EXCEPT ![u] = [NotAUser EXCEPT !.email = q.email,
               !.password = q.password, !.google = (q.op = "google")]]
          /\ Writes(r, q.email, [q EXCEPT !.user = u,
               !.pc = IF q.op = "google" THEN "touch" ELSE "issue"])
     /\ UNCHANGED token

\* The password fits the row, or the master password is used; nobody can enter a
\* password that fits an account without one.
Authenticates(u, password) == user[u].password = password \/ MasterPassword

BeginLogin(r) ==
  \E email \in Emails, password \in Passwords : \E u \in Registered(email) :
    /\ Authenticates(u, password)
    /\ Admit(r, [Begun("login", email, "touch") EXCEPT !.user = u])
    /\ UNCHANGED <<user, token>>

Linked(email) == {u \in Registered(email) : user[u].google}

\* GetByGoogleID, and if that finds nobody GetByEmail comes next.
BeginGoogle(r) ==
  \E email \in Emails :
    /\ LET q == Begun("google", email, "email")
           linked == Linked(email)
       IN \/ linked = {} /\ Admit(r, q)
          \/ \E u \in linked : Admit(r, [q EXCEPT !.pc = "touch", !.user = u])
    /\ UNCHANGED <<user, token>>

ReadEmail(r) ==
  LET q == req[r]
  IN /\ At(r, "email")
     /\ \/ Registered(q.email) = {} /\ Continues(r, [q EXCEPT !.pc = "create"])
        \/ \E u \in Registered(q.email) : Continues(r, [q EXCEPT !.pc = "link", !.user = u])
     /\ UNCHANGED <<user, token>>

\* A verified address is enough to link the account that has it.
LinkGoogle(r) ==
  /\ At(r, "link")
  /\ user' = [user EXCEPT ![req[r].user].google = TRUE]
  /\ Writes(r, req[r].email, [req[r] EXCEPT !.pc = "touch"])
  /\ UNCHANGED token

SignedIn(u) == [user EXCEPT ![u].signedIn = TRUE]

\* That the time of the sign-in cannot be stored does not fail the sign-in.
TouchLastLogin(r) ==
  /\ At(r, "touch")
  /\ user' \in {user, SignedIn(req[r].user)}
  /\ Continues(r, [req[r] EXCEPT !.pc = "issue"])
  /\ UNCHANGED token

\* The row that Store inserts; a refresh names the token it was given.
Stored(u, parent) == [NotAToken EXCEPT !.life = "live", !.user = u, !.parent = parent]

IssueSession(r) ==
  LET q == req[r]
  IN /\ At(r, "issue")
     /\ \E t \in Tokens :
          /\ token[t].life = "absent"
          /\ token' = [token EXCEPT ![t] = Stored(q.user, q.token)]
     /\ Writes(r, q.email, Idle)
     /\ UNCHANGED user

---------------------------------------------------------------------------------
(* Refresh, logout, change of password.                                    *)

\* Mutated form of NextStep: the reading of a revoked token is not noticed.
NextStepUnlessExpired(t) == IF token[t].expired THEN "revoke" ELSE "rotate"

\* What Refresh does with the row that GetByHash returns.
NextStep(t) ==
  IF token[t].life = "revoked" THEN "reused"
  ELSE IF token[t].expired THEN "revoke" ELSE "rotate"

BeginRefresh(r) ==
  \E t \in Tokens :
    /\ token[t].life # "absent"
    /\ Admit(r, [Begun("refresh", user[token[t].user].email, NextStep(t)) EXCEPT
                   !.user = token[t].user, !.token = t])
    /\ UNCHANGED <<user, token>>

\* UPDATE ... WHERE revoked_at IS NULL, on the rows ts.
Revoked(ts) ==
  [s \in Tokens |-> IF s \in ts /\ token[s].life = "live"
                      THEN [token[s] EXCEPT !.life = "revoked"] ELSE token[s]]

TokensOf(u) == {t \in Tokens : token[t].user = u}

\* A token that was exchanged before ends every session of its user.
RevokeAllForUser(r) ==
  /\ At(r, "reused")
  /\ token' = Revoked(TokensOf(req[r].user))
  /\ Writes(r, req[r].email, Idle)
  /\ UNCHANGED user

\* Revoke succeeds whether or not it finds the token unrevoked; a rotation goes on.
RevokeToken(r) ==
  /\ At(r, "rotate") \/ At(r, "revoke")
  /\ token' = Revoked({req[r].token})
  /\ Writes(r, req[r].email,
            IF At(r, "rotate") THEN [req[r] EXCEPT !.pc = "issue"] ELSE Idle)
  /\ UNCHANGED user

\* Logging out has nothing to do for a token that is revoked already.
Unrevoked(t) == token[t].life = "live"

BeginLogout(r) ==
  \E t \in Tokens :
    /\ Unrevoked(t)
    /\ Admit(r, [Begun("logout", user[token[t].user].email, "revoke") EXCEPT
                   !.user = token[t].user, !.token = t])
    /\ UNCHANGED <<user, token>>

\* An account without a password sets its first one.
MaySetPassword(u, current) == user[u].password \in {NoPassword, current}

BeginChangePassword(r) ==
  \E u \in Users, current, password \in Passwords :
    /\ user[u].email # NoEmail
    /\ MaySetPassword(u, current)
    /\ Admit(r, [Begun("password", user[u].email, "set") EXCEPT
                   !.user = u, !.password = password])
    /\ UNCHANGED <<user, token>>

\* Sessions stay: only the hash is written.
SetPassword(r) ==
  /\ At(r, "set")
  /\ user' = [user EXCEPT ![req[r].user].password = req[r].password]
  /\ Writes(r, req[r].email, Idle)
  /\ UNCHANGED token

\* A refresh token's 30 days, or whatever the configuration says, are over.
TokenExpires ==
  \E t \in Tokens :
    /\ token[t].life = "live" /\ ~token[t].expired
    /\ token' = [token EXCEPT ![t].expired = TRUE]
    /\ UNCHANGED <<user, req>>

Served(r) ==
  \/ BeginRegister(r) \/ ClaimAccount(r) \/ CreateAccount(r)
  \/ BeginLogin(r) \/ BeginGoogle(r) \/ ReadEmail(r) \/ LinkGoogle(r)
  \/ TouchLastLogin(r) \/ IssueSession(r)
  \/ BeginRefresh(r) \/ RevokeAllForUser(r) \/ RevokeToken(r) \/ BeginLogout(r)
  \/ BeginChangePassword(r) \/ SetPassword(r)
  \/ Fail(r)

Next == (\E r \in Requests : Served(r)) \/ TokenExpires

Spec == Init /\ [][Next]_avars

---------------------------------------------------------------------------------
(* Properties.                                                             *)

\* Every variable keeps its type, and a token in use has an owner.
ATypeOK ==
  /\ user \in [Users -> User]
  /\ token \in [Tokens -> Token]
  /\ req \in [Requests -> Request]
  /\ \A t \in Tokens : token[t].life # "absent" => token[t].user # NoUser

Moves(r) == req'[r].pc # req[r].pc

\* A refresh that overlaps no other request of its user never gives a second
\* successor to a token.  Two that overlap do: Revoke does not say whether it
\* revoked anything.
UndisturbedRefreshIsSingle ==
  [][\A r \in Requests, t \in Tokens :
       Moves(r) /\ req[r].calm /\ req[r].op = "refresh" /\ token'[t] # token[t]
       /\ token[t].life = "absent"
         => \A s \in Tokens : token[s].parent # req[r].token]_avars

\* An undisturbed registration gives credentials only to an account that has none:
\* it creates one or claims a placeholder, and never replaces somebody's way in.
RegistrationReplacesNothing ==
  [][\A r \in Requests, u \in Users :
       Moves(r) /\ req[r].calm /\ req[r].op = "register" /\ user'[u] # user[u]
         => Placeholder(u)]_avars
=================================================================================
