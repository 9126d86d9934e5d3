------------------------------ MODULE Invitations ------------------------------
(***************************************************************************)
(* Inviting an email to a trip.                                            *)
(*                                                                         *)
(* Invite creates the account, the membership and the invitation in three  *)
(* commits; Accept reads the invitation, joins the trip and writes the     *)
(* invitation as it read it.  Accounts serves registrations and sign-ins   *)
(* of the same people underneath.                                          *)
(*                                                                         *)
(* One trip; its planner, whom no rule here reads, is not among Users.     *)
(* Adding and joining are one step: Membership has their statements.       *)
(***************************************************************************)
EXTENDS Accounts

CONSTANTS
  Invites,      \* identities of trip_invitations rows
  NoInvite,     \* no invitation
  Tasks         \* slots of the invitation endpoints: how many requests overlap

ASSUME InvitationsAssumption == NoInvite \notin Invites

VARIABLES
  member,      \* the accounts with a live membership
  invited,     \* the accounts that Invite created, without those whose invitation
               \* it then failed to finish
  invitation,  \* the trip_invitations table
  task         \* the invitation requests being served

ivars == <<user, token, req, member, invited, invitation, task>>

\* accepter is a history of who accepted; the table has no such column.
Invitation == [status : {"absent", "pending", "accepted", "revoked"},
               email : Emails \cup {NoEmail}, expired : BOOLEAN,
               accepter : Users \cup {NoUser}]

NotAnInvitation == [status |-> "absent", email |-> NoEmail, expired |-> FALSE,
                    accepter |-> NoUser]

Task == [pc         : {"idle", "add", "create", "addnew", "lookup", "extend", "insert",
                       "join", "accept"},
         email      : Emails \cup {NoEmail},
         password   : Passwords \cup {NoPassword},
         user       : Users \cup {NoUser},
         invitation : Invites \cup {NoInvite},
         calm       : BOOLEAN]

Resting == [pc |-> "idle", email |-> NoEmail, password |-> NoPassword, user |-> NoUser,
            invitation |-> NoInvite, calm |-> FALSE]

IInit ==
  /\ Init
  /\ member = {}
  /\ invited = {}
  /\ invitation = [i \in Invites |-> NotAnInvitation]
  /\ task = [k \in Tasks |-> Resting]

---------------------------------------------------------------------------------
(* What the requests share.                                                *)

PendingFor(email) ==
  {i \in Invites : invitation[i].status = "pending" /\ invitation[i].email = email}

Turns(k, pc, q) ==
  /\ task[k].pc = pc
  /\ task' = [task EXCEPT ![k] = q]

\* k goes on as q after a write that the others can see.
TurnsWriting(k, pc, q) ==
  /\ task[k].pc = pc
  /\ task' = [s \in Tasks |-> IF s = k THEN q ELSE [task[s] EXCEPT !.calm = FALSE]]

\* An error answer, a cancelled request or a crash: what is committed stays.
Abandon(k) ==
  /\ task[k].pc # "idle"
  /\ task' = [task EXCEPT ![k] = Resting]
  /\ invited' = invited \ (IF task[k].pc \in {"addnew", "lookup", "extend", "insert"}
                             THEN {task[k].user} ELSE {})
  /\ UNCHANGED <<user, token, req, member, invitation>>

---------------------------------------------------------------------------------
(* Invite.                                                                 *)

\* FindByEmail: somebody with an account is added and not invited.
FindInvitee(k, email, password) ==
  LET q == [Resting EXCEPT !.email = email, !.password = password, !.calm = TRUE]
  IN /\ \/ Registered(email) = {} /\ Turns(k, "idle", [q EXCEPT !.pc = "create"])
        \/ \E u \in Registered(email) :
             Turns(k, "idle", [q EXCEPT !.pc = "add", !.user = u])
     /\ UNCHANGED <<user, token, req, member, invited, invitation>>

\* A planner chooses a password for the account.
BeginInvite(k) ==
  \E email \in Emails, password \in Passwords : FindInvitee(k, email, password)

\* An assistant never handles credentials.
BeginInviteTool(k) == \E email \in Emails : FindInvitee(k, email, NoPassword)

AddExisting(k) ==
  /\ task[k].user \notin member
  /\ TurnsWriting(k, "add", Resting)
  /\ member' = member \cup {task[k].user}
  /\ UNCHANGED <<user, token, req, invited, invitation>>

\* CreateInvited: a new row, or the row of whoever was faster.
CreateInvited(k) ==
  LET q == task[k]
  IN \/ \E u \in Users :
          /\ Insertable(u, q.email)
          /\ TurnsWriting(k, "create", [q EXCEPT !.pc = "addnew", !.user = u])
          /\ user' = [user EXCEPT ![u] = [NotAUser EXCEPT !.email = q.email,
                                                          !.password = q.password]]
          /\ invited' = invited \cup {u}
          /\ UNCHANGED <<token, req, member, invitation>>
     \/ \E u \in Registered(q.email) :
          /\ Turns(k, "create", [q EXCEPT !.pc = "addnew", !.user = u])
          /\ UNCHANGED <<user, token, req, member, invited, invitation>>

\* Mutated form of AddInvited: the answer is that of a person who had an account.
AddInvitedOnly(k) ==
  /\ task[k].user \notin member
  /\ TurnsWriting(k, "addnew", Resting)
  /\ member' = member \cup {task[k].user}
  /\ UNCHANGED <<user, token, req, invited, invitation>>

AddInvited(k) ==
  /\ task[k].user \notin member
  /\ TurnsWriting(k, "addnew", [task[k] EXCEPT !.pc = "lookup"])
  /\ member' = member \cup {task[k].user}
  /\ UNCHANGED <<user, token, req, invited, invitation>>

\* GetPending.
LookUpPending(k) ==
  LET q == task[k]
      found == PendingFor(q.email)
  IN /\ \/ found = {} /\ Turns(k, "lookup", [q EXCEPT !.pc = "insert"])
        \/ \E i \in found : Turns(k, "lookup", [q EXCEPT !.pc = "extend", !.invitation = i])
     /\ UNCHANGED <<user, token, req, member, invited, invitation>>

\* Mutated form of PassesIndex: no unique index on the pending invitations.
PassesAnyway(i, email) == TRUE

\* The unique index on (trip_id, email) where the status is pending.
PassesIndex(i, email) == PendingFor(email) \subseteq {i}

\* Update writes the status it read, pending, with the new deadline.
ExtendInvitation(k) ==
  LET i == task[k].invitation
  IN /\ PassesIndex(i, task[k].email)
     /\ TurnsWriting(k, "extend", Resting)
     /\ invitation' = [invitation EXCEPT ![i].status = "pending", ![i].expired = FALSE]
     /\ UNCHANGED <<user, token, req, member, invited>>

InsertInvitation(k) ==
  /\ TurnsWriting(k, "insert", Resting)
  /\ \E i \in Invites :
       /\ invitation[i].status = "absent"
       /\ PassesIndex(i, task[k].email)
       /\ invitation' = [invitation EXCEPT ![i] =
            [NotAnInvitation EXCEPT !.status = "pending", !.email = task[k].email]]
  /\ UNCHANGED <<user, token, req, member, invited>>

---------------------------------------------------------------------------------
(* Accept, Revoke, and what else happens.                                  *)

\* Mutated form of Open: any invitation can be answered.
OpenOrDecided(i) == invitation[i].status # "absent" /\ ~invitation[i].expired

Open(i) == invitation[i].status = "pending" /\ ~invitation[i].expired

\* GetByToken; the caller may have another email than the one invited.
BeginAccept(k) ==
  /\ \E i \in Invites, u \in Users :
       /\ Open(i)
       /\ user[u].email # NoEmail
       /\ Turns(k, "idle", [Resting EXCEPT !.pc = "join", !.user = u, !.invitation = i,
                                           !.email = invitation[i].email, !.calm = TRUE])
  /\ UNCHANGED <<user, token, req, member, invited, invitation>>

\* Join; ALREADY_PARTICIPANT is as good.
JoinTrip(k) ==
  LET q == task[k]
  IN /\ IF q.user \in member THEN Turns(k, "join", [q EXCEPT !.pc = "accept"])
        ELSE TurnsWriting(k, "join", [q EXCEPT !.pc = "accept"])
     /\ member' = member \cup {q.user}
     /\ UNCHANGED <<user, token, req, invited, invitation>>

\* Update WHERE id = ?, whatever the status has become.
WriteAccepted(k) ==
  /\ TurnsWriting(k, "accept", Resting)
  /\ invitation' = [invitation EXCEPT ![task[k].invitation].status = "accepted",
                                      ![task[k].invitation].accepter = task[k].user]
  /\ UNCHANGED <<user, token, req, member, invited>>

\* UPDATE ... WHERE status = 'pending'.
Revocable(i) == invitation[i].status = "pending"

\* A planner's request, after the trip's list was read.
RevokeInvitation ==
  /\ \E i \in Invites :
       /\ Revocable(i)
       /\ invitation' = [invitation EXCEPT ![i].status = "revoked"]
  /\ task' = [k \in Tasks |-> [task[k] EXCEPT !.calm = FALSE]]
  /\ UNCHANGED <<user, token, req, member, invited>>

\* A planner removes somebody from the trip.
RemoveMember ==
  /\ \E u \in member : member' = member \ {u}
  /\ task' = [k \in Tasks |-> [task[k] EXCEPT !.calm = FALSE]]
  /\ UNCHANGED <<user, token, req, invited, invitation>>

\* Mutated form of InvitationExpires: the status tells it, as the column allows.
InvitationLapses ==
  /\ \E i \in Invites :
       /\ Open(i)
       /\ invitation' = [invitation EXCEPT ![i].status = "expired"]
  /\ UNCHANGED <<user, token, req, member, invited, task>>

\* 14 days pass; the status stays.
InvitationExpires ==
  /\ \E i \in Invites :
       /\ Open(i)
       /\ invitation' = [invitation EXCEPT ![i].expired = TRUE]
  /\ UNCHANGED <<user, token, req, member, invited, task>>

ServedTask(k) ==
  \/ BeginInvite(k) \/ BeginInviteTool(k) \/ AddExisting(k) \/ CreateInvited(k) \/ AddInvited(k)
  \/ LookUpPending(k) \/ ExtendInvitation(k) \/ InsertInvitation(k)
  \/ BeginAccept(k) \/ JoinTrip(k) \/ WriteAccepted(k)
  \/ Abandon(k)

INext ==
  \/ /\ (\E r \in Requests : Served(r)) \/ TokenExpires
     /\ UNCHANGED <<member, invited, invitation, task>>
  \/ \E k \in Tasks : ServedTask(k)
  \/ RevokeInvitation \/ RemoveMember \/ InvitationExpires

ISpec == IInit /\ [][INext]_ivars

---------------------------------------------------------------------------------
(* Properties.                                                             *)

\* Every variable keeps its type; the accounts' own type invariant comes with it.
ITypeOK ==
  /\ ATypeOK
  /\ member \subseteq Users
  /\ invited \subseteq Users
  /\ invitation \in [Invites -> Invitation]
  /\ task \in [Tasks -> Task]
  /\ \A u \in member : user[u].email # NoEmail

\* One email has one account and at most one open invitation: registrations, Google
\* sign-ins and invitations create them side by side, each after a look at the table,
\* and the extension of a deadline writes "pending" over whatever happened since.
EmailsAreUnique ==
  \A email \in Emails :
    Cardinality(Registered(email)) <= 1 /\ Cardinality(PendingFor(email)) <= 1

TaskMoves(k) == task'[k].pc # task[k].pc

\* An invitation is decided once, unless the decision overlaps another: then Accept
\* overwrites a revocation, and so does the extension of the deadline.
UndisturbedDecisionIsFinal ==
  [][\A k \in Tasks, i \in Invites :
       TaskMoves(k) /\ task[k].calm /\ invitation[i].status \in {"accepted", "revoked"}
         => invitation'[i] = invitation[i]]_ivars

\* "They're still tracked with a pending invitation/token": when no invitation
\* request is running, everybody on the trip to whom an invitation gave an account has
\* an invitation, unless that request failed between its three commits.  Then nothing
\* repairs it: a second attempt finds an account and adds no invitation.
InvitedAreTracked ==
  (\A k \in Tasks : task[k].pc = "idle") =>
    \A u \in invited \cap member : \E i \in Invites : invitation[i].email = user[u].email
=================================================================================
