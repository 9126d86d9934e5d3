------------------------------- MODULE Membership -------------------------------
(***************************************************************************)
(* Who belongs to a trip, and with which role.                             *)
(*                                                                         *)
(* The rows of trip_participants have no version.  Update writes every     *)
(* column of the row it read; the number of planners and the history of a  *)
(* member are read in statements of their own before the write that        *)
(* depends on them, and none of this runs in a transaction.  So every      *)
(* statement is a step here.                                               *)
(*                                                                         *)
(* Of expenses and settlements only the people they name are kept, with    *)
(* the check of those people that precedes the write.  Bank details and    *)
(* display names are one descriptive column that no rule reads: it is left *)
(* out, a request that edits it is not.                                    *)
(***************************************************************************)
EXTENDS Naturals, FiniteSets

CONSTANTS
  Users,        \* accounts
  Members,      \* identities of trip_participants rows
  Expenses,     \* identities of expenses
  Settlements,  \* identities of settlements
  NoUser,       \* no account
  NoMember,     \* no row
  NoDoc,        \* no document
  Requests,     \* request slots: how many requests overlap
  Operations,   \* the endpoints this instance serves
  MaxWrites     \* bound: writes to the database

ASSUME MembershipAssumption ==
  /\ NoUser \notin Users
  /\ NoMember \notin Members
  /\ NoDoc \notin Expenses \cup Settlements
  /\ Expenses \cap Settlements = {}
  /\ IsFiniteSet(Members)
  /\ MaxWrites \in Nat

VARIABLES
  open,    \* the trip takes mutations: neither finalized nor archived
  member,  \* the trip_participants table
  doc,     \* who created a live document and whom it names; Nothing if none
  writes,  \* how many writes the database has taken
  req      \* the requests being served

vars == <<open, member, doc, writes, req>>

Docs == Expenses \cup Settlements

Roles == {"planner", "participant"}

Participant == [life : {"absent", "live", "deleted"},
                user : Users \cup {NoUser},
                role : Roles]

Unused == [life |-> "absent", user |-> NoUser, role |-> "participant"]

Document == [creator : Users \cup {NoUser}, people : SUBSET Users]
Nothing == [creator |-> NoUser, people |-> {}]

MemberOps == {"join", "add", "update", "remove"}
NamingOps == {"record", "edit"}

\* actor and role are the caller and the role ResolveTrip loaded for it; user is
\* the account to add, target the row to act on, change the role sent ("none" when
\* the request leaves it out) and label whether it edits descriptive columns;
\* seen is the row the service has read; since is the number of writes
\* when the request was admitted.
Request == [pc       : {"idle", "begun", "read", "checked"},
            op       : {"none"} \cup MemberOps \cup NamingOps,
            actor    : Users \cup {NoUser},
            role     : Roles,
            user     : Users \cup {NoUser},
            target   : Members \cup {NoMember},
            change   : Roles \cup {"none"},
            label    : BOOLEAN,
            subject  : Docs \cup {NoDoc},
            people   : SUBSET Users,
            seen     : Participant,
            since    : Nat]

Idle == [pc |-> "idle", op |-> "none", actor |-> NoUser, role |-> "participant",
         user |-> NoUser, target |-> NoMember, change |-> "none", label |-> FALSE,
         subject |-> NoDoc, people |-> {}, seen |-> Unused, since |-> 0]

Live(m) == member[m].life = "live"
LiveMembers == {m \in Members : Live(m)}
People == {member[m].user : m \in LiveMembers}
Planners == {m \in LiveMembers : member[m].role = "planner"}

\* A trip some time after Create: its planner, and others who have joined since.
Init ==
  /\ open = TRUE
  /\ \E in \in [Users -> Members \cup {NoMember}], role \in [Members -> Roles] :
       /\ \A u, v \in Users : in[u] = in[v] /\ in[u] # NoMember => u = v
       /\ member = [m \in Members |->
            IF \E u \in Users : in[u] = m
              THEN [life |-> "live", user |-> CHOOSE u \in Users : in[u] = m,
                    role |-> role[m]]
              ELSE Unused]
       /\ Planners # {}
  /\ doc = [d \in Docs |-> Nothing]
  /\ writes = 0
  /\ req = [r \in Requests |-> Idle]

---------------------------------------------------------------------------------
(* Admission.                                                              *)

Admit(r, q) ==
  /\ q.op \in Operations
  /\ req[r].pc = "idle"
  /\ open
  /\ req' = [req EXCEPT ![r] = q]
  /\ UNCHANGED <<open, member, doc, writes>>

\* What every admitted request carries.
Admitted(op, u, role) ==
  [Idle EXCEPT !.pc = "begun", !.op = op, !.actor = u, !.role = role, !.since = writes]

\* Join finds the trip by its code; the caller need not be a member.
BeginJoin(r) ==
  \E u \in Users :
    Admit(r, [Admitted("join", u, "participant") EXCEPT !.user = u])

\* Everything else passes ResolveTrip: m is the caller's row.
BeginAdd(r) ==
  \E m \in Planners, u \in Users :
    Admit(r, [Admitted("add", member[m].user, "planner") EXCEPT !.user = u])

BeginUpdate(r) ==
  \E m \in LiveMembers, t \in Members, change \in Roles \cup {"none"}, label \in BOOLEAN :
    /\ member[t].life # "absent"
    /\ change # "none" => member[m].role = "planner"
    /\ Admit(r, [Admitted("update", member[m].user, member[m].role) EXCEPT
                   !.target = t, !.change = change, !.label = label])

BeginRemove(r) ==
  \E m \in Planners, t \in Members :
    /\ member[t].life # "absent"
    /\ Admit(r, [Admitted("remove", member[m].user, "planner") EXCEPT !.target = t])

\* Create and Update of an expense, Record of a settlement.
BeginNaming(r) ==
  \E m \in LiveMembers, d \in Docs, people \in (SUBSET Users) \ {{}} :
    \/ /\ doc[d] = Nothing
       /\ Admit(r, [Admitted("record", member[m].user, member[m].role) EXCEPT
                      !.subject = d, !.people = people])
    \/ /\ doc[d] # Nothing /\ d \in Expenses
       /\ Admit(r, [Admitted("edit", member[m].user, member[m].role) EXCEPT
                      !.subject = d, !.people = people])

---------------------------------------------------------------------------------
(* Reads.                                                                  *)

Read(r) == UNCHANGED <<open, member, doc, writes>>

\* GetByTripAndUser finds nobody.
CheckNotMember(r) ==
  /\ req[r].pc = "begun" /\ req[r].op \in {"join", "add"}
  /\ req[r].user \notin People
  /\ req' = [req EXCEPT ![r].pc = "checked"]
  /\ Read(r)

\* What a member may change of a row: planners everything, others what describes
\* themselves.
MayChange(q, row) == q.role = "planner" \/ ~q.label \/ row.user = q.actor

\* Whether this update takes the role of planner away.
Demotes(q, row) == row.role = "planner" /\ q.change = "participant"

\* GetByID, for Update and for Remove; a planner cannot remove himself.
ReadTarget(r) ==
  LET q == req[r]
      row == member[q.target]
  IN /\ q.pc = "begun" /\ q.op \in {"update", "remove"}
     /\ row.life = "live"
     /\ q.op = "update" => MayChange(q, row)
     /\ q.op = "remove" => row.user # q.actor
     /\ req' = [req EXCEPT ![r].seen = row,
          ![r].pc = IF q.op = "remove" \/ Demotes(q, row) THEN "read" ELSE "checked"]
     /\ Read(r)

\* Mutated form of MayDemote: off by one.
MayDemoteAny(count) == count >= 1

\* A trip must have at least one planner.
MayDemote(count) == count > 1

CountPlanners(r) ==
  /\ req[r].pc = "read" /\ req[r].op = "update"
  /\ MayDemote(Cardinality(Planners))
  /\ req' = [req EXCEPT ![r].pc = "checked"]
  /\ Read(r)

\* Mutated form of HasActivity: what somebody entered for others is forgotten.
HasShare(u) == \E d \in Docs : u \in doc[d].people

\* Expenses count for the people they name and for their creator, settlements
\* for the two people they name.
HasActivity(u) ==
  \E d \in Docs : u \in doc[d].people \/ (d \in Expenses /\ u = doc[d].creator)

CheckActivity(r) ==
  /\ req[r].pc = "read" /\ req[r].op = "remove"
  /\ ~HasActivity(req[r].seen.user)
  /\ req' = [req EXCEPT ![r].pc = "checked"]
  /\ Read(r)

\* ValidateExpenseParticipants; Record looks its two people up.
AllMembers(people) == people \subseteq People

CheckPeople(r) ==
  /\ req[r].pc = "begun" /\ req[r].op \in NamingOps
  /\ AllMembers(req[r].people)
  /\ req' = [req EXCEPT ![r].pc = "checked"]
  /\ Read(r)

---------------------------------------------------------------------------------
(* Writes.                                                                 *)

Write(r, op) ==
  /\ req[r].pc = "checked" /\ req[r].op \in op
  /\ writes < MaxWrites
  /\ writes' = writes + 1
  /\ req' = [req EXCEPT ![r] = Idle]
  /\ UNCHANGED open

\* Mutated form of Insertable: the index is missing.
AnyRow(u, m) == member[m].life = "absent"

\* ux_trip_participants: one row per trip and user that is not deleted.
Insertable(u, m) == member[m].life = "absent" /\ u \notin People

InsertMember(r) ==
  /\ Write(r, {"join", "add"})
  /\ \E m \in Members :
       /\ Insertable(req[r].user, m)
       /\ member' = [member EXCEPT ![m] =
            [life |-> "live", user |-> req[r].user, role |-> "participant"]]
  /\ UNCHANGED doc

\* Mutated form of RoleToWrite: a role left out of the request counts as participant.
RoleAsSent(q) == IF q.change = "planner" THEN "planner" ELSE "participant"

\* The role as sent, otherwise as read.
RoleToWrite(q) == IF q.change = "none" THEN q.seen.role ELSE q.change

\* UPDATE ... WHERE id = ? AND deleted_at IS NULL.
UpdateMember(r) ==
  /\ Write(r, {"update"})
  /\ Live(req[r].target)
  /\ member' = [member EXCEPT ![req[r].target].role = RoleToWrite(req[r])]
  /\ UNCHANGED doc

\* Deleting a row that is deleted already answers with success as well.
RemoveMember(r) ==
  /\ Write(r, {"remove"})
  /\ member' = [member EXCEPT ![req[r].target].life = "deleted"]
  /\ UNCHANGED doc

\* Mutated form of CreatorToWrite: the creator is not filled in on creation.
CreatorOnFile(q) == doc[q.subject].creator

\* An edit leaves the creator alone.
CreatorToWrite(q) == IF q.op = "edit" THEN doc[q.subject].creator ELSE q.actor

WriteDocument(r) ==
  LET q == req[r]
  IN /\ Write(r, NamingOps)
     /\ (q.op = "edit") <=> (doc[q.subject] # Nothing)
     /\ doc' = [doc EXCEPT ![q.subject] =
          [creator |-> CreatorToWrite(q), people |-> q.people]]
     /\ UNCHANGED member

\* Deleting a document, which Ledger describes, in one step; the request may have
\* been admitted before the trip closed.
DeleteDocument(d) ==
  /\ doc[d] # Nothing
  /\ writes < MaxWrites
  /\ writes' = writes + 1
  /\ doc' = [doc EXCEPT ![d] = Nothing]
  /\ UNCHANGED <<open, member, req>>

\* Finalizing, archiving, and back.
OpenOrClose ==
  /\ open' = ~open
  /\ UNCHANGED <<member, doc, writes, req>>

\* An error answer, an update that found the row deleted, or a crash.
Fail(r) ==
  /\ req[r].pc # "idle"
  /\ req' = [req EXCEPT ![r] = Idle]
  /\ UNCHANGED <<open, member, doc, writes>>

---------------------------------------------------------------------------------
Begin(r) ==
  \/ BeginJoin(r) \/ BeginAdd(r) \/ BeginUpdate(r) \/ BeginRemove(r)
  \/ BeginNaming(r)

Serve(r) ==
  \/ CheckNotMember(r) \/ ReadTarget(r) \/ CountPlanners(r) \/ CheckActivity(r)
  \/ CheckPeople(r)
  \/ InsertMember(r) \/ UpdateMember(r) \/ RemoveMember(r) \/ WriteDocument(r)
  \/ Fail(r)

Next ==
  \/ \E r \in Requests : Begin(r) \/ Serve(r)
  \/ \E d \in Docs : DeleteDocument(d)
  \/ OpenOrClose

Spec == Init /\ [][Next]_vars

---------------------------------------------------------------------------------
(* Properties.                                                             *)

\* Every variable keeps its type; a row in use has a user, and a live document
\* names somebody.
TypeOK ==
  /\ open \in BOOLEAN
  /\ member \in [Members -> Participant]
  /\ \A m \in Members : member[m].life # "absent" => member[m].user \in Users
  /\ doc \in [Docs -> Document]
  /\ \A d \in Docs : doc[d] # Nothing => doc[d].creator \in Users /\ doc[d].people # {}
  /\ writes \in 0 .. MaxWrites
  /\ req \in [Requests -> Request]

\* Nobody is a member twice, whoever joins or adds him at the same time: the
\* check before the insert alone does not ensure it (Join, Add, the unique index).
OneMembership ==
  \A m, n \in LiveMembers : member[m].user = member[n].user => m = n

\* The write of a request during which nobody else wrote anything.
Undisturbed(r) ==
  /\ req[r].pc = "checked" /\ req'[r] = Idle
  /\ writes = req[r].since /\ writes' # writes

\* No request takes a trip's last planner away on its own: neither by a demotion,
\* nor by a removal, nor by writing back a role it has read (Update, Remove).
UndisturbedKeepsPlanner ==
  [][\A r \in Requests : Undisturbed(r) /\ Planners # {} => Planners' # {}]_vars

\* The people documents name, and who created an expense, are members.
HistoryNamesMembers ==
  \A d \in Docs :
    /\ doc[d].people \subseteq People
    /\ d \in Expenses /\ doc[d] # Nothing => doc[d].creator \in People

\* No request separates the members from the history on its own: removal looks at
\* all of the history, and history is written about members only (Remove, Create).
UndisturbedKeepsHistory ==
  [][\A r \in Requests : Undisturbed(r) /\ HistoryNamesMembers
       => HistoryNamesMembers']_vars

\* A role changes on a planner's word only: an undisturbed request that sends no
\* role, or whose caller is no planner, leaves all roles alone (Update).
UndisturbedKeepsRoles ==
  [][\A r \in Requests :
       /\ Undisturbed(r)
       /\ req[r].change = "none" \/ req[r].role # "planner"
       => \A m \in LiveMembers : member'[m].role = member[m].role]_vars

\* A trip must have at least one planner, whatever requests overlap (the rule
\* Update enforces, and the reason why a planner cannot remove himself).
TripHasPlanner == Planners # {}
=================================================================================
