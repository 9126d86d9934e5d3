---------------------------- MODULE MembershipProofs ----------------------------
(***************************************************************************)
(* Proofs about Membership for any number of users, rows, documents and    *)
(* requests.  The inductive invariant says what an admitted request        *)
(* carries (Shape) and, as long as nobody has written since it was         *)
(* admitted, that what it has read is still so (Fresh).  A write makes     *)
(* Fresh hold of every other request by moving the count of writes on.     *)
(***************************************************************************)
EXTENDS Membership, FiniteSetTheorems, TLAPS

\* What every admitted request carries, whatever happens to it.
Shape(q) ==
  /\ q.op \in {"join", "add"} => q.user \in Users
  /\ q.op \in {"update", "remove"} => q.target \in Members /\ member[q.target].life # "absent"
  /\ q.op \in NamingOps => q.subject \in Docs /\ q.people # {} /\ q.actor \in Users
  /\ q.op \in {"add", "remove"} => q.role = "planner"
  /\ q.change # "none" => q.op = "update" /\ q.role = "planner"

\* What a request has read and checked, as long as nobody has written since.
Remembers(q) ==
  /\ q.op # "join" => \E m \in LiveMembers : member[m].user = q.actor /\ member[m].role = q.role
  /\ q.op \in {"update", "remove"} /\ q.pc \in {"read", "checked"} => q.seen = member[q.target]
  /\ q.op = "remove" /\ q.pc \in {"read", "checked"} => q.seen.user # q.actor
  /\ q.op = "update" /\ q.pc = "checked" /\ Demotes(q, q.seen) => MayDemote(Cardinality(Planners))
  /\ q.op = "remove" /\ q.pc = "checked" => ~HasActivity(q.seen.user)
  /\ q.op \in NamingOps /\ q.pc = "checked" => AllMembers(q.people)

Fresh(q) ==
  /\ q.since <= writes
  /\ q.pc # "idle" /\ q.since = writes => Remembers(q)

RequestsOK == \A r \in Requests : Shape(req[r]) /\ Fresh(req[r])

\* One membership per user, stated of the rows.
RowsOK ==
  \A m, n \in Members :
    Live(m) /\ Live(n) /\ member[m].user = member[n].user => m = n

IInv == TypeOK /\ RowsOK /\ RequestsOK

LEMMA IdleRequest ==
  /\ Idle \in Request
  /\ Idle.pc = "idle" /\ Idle.op = "none" /\ Idle.change = "none" /\ Idle.since = 0
BY DEF Idle, Request, Roles, Participant, Unused

LEMMA IdleOK == ASSUME writes \in Nat PROVE Shape(Idle) /\ Fresh(Idle)
BY IdleRequest DEF Shape, Fresh, NamingOps

LEMMA InitInv == Init => IInv
<1> SUFFICES ASSUME Init PROVE IInv
  OBVIOUS
<1>1. PICK in \in [Users -> Members \cup {NoMember}], role \in [Members -> Roles] :
        /\ \A u, v \in Users : in[u] = in[v] /\ in[u] # NoMember => u = v
        /\ member = [m \in Members |->
             IF \E u \in Users : in[u] = m
               THEN [life |-> "live", user |-> CHOOSE u \in Users : in[u] = m,
                     role |-> role[m]]
               ELSE Unused]
  BY DEF Init
<1> DEFINE who(m) == CHOOSE u \in Users : in[u] = m
<1>2. \A m \in Members : (\E u \in Users : in[u] = m) => who(m) \in Users /\ in[who(m)] = m
  OBVIOUS
<1> HIDE DEF who
<1>3. \A m \in Members :
        \/ member[m] = Unused
        \/ /\ member[m] = [life |-> "live", user |-> who(m), role |-> role[m]]
           /\ who(m) \in Users /\ in[who(m)] = m
  BY <1>1, <1>2 DEF who
<1>4. \A m \in Members :
        /\ member[m] \in Participant
        /\ member[m].life # "absent" =>
             member[m].user = who(m) /\ who(m) \in Users /\ in[who(m)] = m
  <2> TAKE m \in Members
  <2>1. CASE member[m] = Unused
    BY <2>1 DEF Unused, Participant, Roles
  <2>2. CASE /\ member[m] = [life |-> "live", user |-> who(m), role |-> role[m]]
             /\ who(m) \in Users /\ in[who(m)] = m
    <3>1. role[m] \in Roles
      OBVIOUS
    <3>2. member[m].life = "live" /\ member[m].user = who(m) /\ member[m].role = role[m]
      BY <2>2
    <3>3. member[m] \in Participant
      BY <2>2, <3>1 DEF Participant
    <3> QED
      BY <2>2, <3>2, <3>3
  <2> QED
    BY <1>3, <2>1, <2>2
<1>5. member \in [Members -> Participant]
  BY <1>1, <1>4
<1>6. \A m \in Members : member[m].life # "absent" =>
        member[m].user = who(m) /\ who(m) \in Users /\ in[who(m)] = m
  BY <1>4
<1>7. RowsOK
  BY <1>6 DEF RowsOK, Live
<1>8. req \in [Requests -> Request] /\ \A r \in Requests : req[r] = Idle
  BY IdleRequest DEF Init
<1>9. doc \in [Docs -> Document] /\ \A d \in Docs : doc[d] = Nothing
  BY DEF Init, Document, Nothing
<1>10. TypeOK
  BY <1>5, <1>6, <1>8, <1>9, MembershipAssumption DEF Init, TypeOK
<1>11. RequestsOK
  BY <1>8, IdleOK DEF Init, RequestsOK
<1> QED
  BY <1>7, <1>10, <1>11 DEF IInv

\* A step that only changes a request keeps the invariant when the request it leaves
\* does.
LEMMA RequestStep ==
  ASSUME IInv, NEW r \in Requests, NEW q \in Request, Shape(q), Fresh(q),
         req' = [req EXCEPT ![r] = q], UNCHANGED <<member, doc, writes>>, open' \in BOOLEAN
  PROVE  IInv'
<1>1. TypeOK'
  BY DEF IInv, TypeOK
<1>2. RowsOK'
  BY DEF IInv, RowsOK, Live
<1>3. \A s \in Requests : req'[s] = IF s = r THEN q ELSE req[s]
  BY DEF IInv, TypeOK
<1>4. \A s \in Requests : Shape(req'[s]) /\ Fresh(req'[s])
  BY <1>3 DEF IInv, RequestsOK
<1>5. \A p : (Shape(p) => Shape(p)') /\ (Fresh(p) => Fresh(p)')
  BY DEF Shape, Fresh, Remembers, LiveMembers, Live, Planners, HasActivity, AllMembers, People,
         Demotes, MayDemote
<1>6. RequestsOK'
  BY <1>4, <1>5 DEF RequestsOK
<1> QED
  BY <1>1, <1>2, <1>6 DEF IInv

LEMMA AdmittedFields ==
  ASSUME IInv, NEW u \in Users, NEW role \in Roles,
         NEW op \in MemberOps \cup NamingOps
  PROVE  /\ Admitted(op, u, role) \in Request
         /\ Admitted(op, u, role).pc = "begun" /\ Admitted(op, u, role).op = op
         /\ Admitted(op, u, role).actor = u /\ Admitted(op, u, role).role = role
         /\ Admitted(op, u, role).since = writes /\ Admitted(op, u, role).change = "none"
<1>1. writes \in Nat
  BY MembershipAssumption DEF IInv, TypeOK
<1> QED
  BY <1>1 DEF Admitted, Idle, Request, Roles, Participant, Unused

LEMMA RowFacts ==
  ASSUME IInv, NEW m \in LiveMembers
  PROVE  m \in Members /\ member[m].user \in Users /\ member[m].role \in Roles
                       /\ member[m].life # "absent"
BY DEF IInv, TypeOK, LiveMembers, Live, Participant

LEMMA BeginInv ==
  ASSUME IInv, NEW r \in Requests, Begin(r)
  PROVE  IInv'
<1>w. writes \in Nat
  BY MembershipAssumption DEF IInv, TypeOK
<1>1. CASE BeginJoin(r)
  <2>1. PICK u \in Users : Admit(r, [Admitted("join", u, "participant") EXCEPT !.user = u])
    BY <1>1 DEF BeginJoin
  <2> DEFINE p == Admitted("join", u, "participant")
             q == [p EXCEPT !.user = u]
  <2>2. /\ p \in Request /\ p.pc = "begun" /\ p.op = "join" /\ p.since = writes
        /\ p.change = "none"
    BY AdmittedFields DEF Roles, MemberOps
  <2> HIDE DEF p
  <2>3. /\ q \in Request /\ q.pc = "begun" /\ q.op = "join" /\ q.since = writes
        /\ q.change = "none" /\ q.user = u
    BY <2>2 DEF Request
  <2>4. Shape(q) /\ Fresh(q)
    <3> HIDE DEF q
    <3> QED
      BY <1>w, <2>3 DEF Shape, Fresh, Remembers, NamingOps
  <2>5. req' = [req EXCEPT ![r] = q] /\ UNCHANGED <<open, member, doc, writes>>
    BY <2>1 DEF Admit, p
  <2> HIDE DEF q
  <2> QED
    BY <2>3, <2>4, <2>5, RequestStep DEF IInv, TypeOK
<1>2. CASE BeginAdd(r)
  <2>1. PICK m \in Planners, u \in Users :
          Admit(r, [Admitted("add", member[m].user, "planner") EXCEPT !.user = u])
    BY <1>2 DEF BeginAdd
  <2> DEFINE p == Admitted("add", member[m].user, "planner")
             q == [p EXCEPT !.user = u]
  <2>0. m \in LiveMembers /\ member[m].user \in Users /\ member[m].role = "planner"
    BY RowFacts DEF Planners
  <2>2. /\ p \in Request /\ p.pc = "begun" /\ p.op = "add" /\ p.since = writes
        /\ p.change = "none" /\ p.actor = member[m].user /\ p.role = "planner"
    BY <2>0, AdmittedFields DEF Roles, MemberOps
  <2> HIDE DEF p
  <2>3. /\ q \in Request /\ q.pc = "begun" /\ q.op = "add" /\ q.since = writes
        /\ q.change = "none" /\ q.user = u /\ q.actor = member[m].user /\ q.role = "planner"
    BY <2>2 DEF Request
  <2>4. Shape(q) /\ Fresh(q)
    <3> HIDE DEF q
    <3> QED
      BY <1>w, <2>0, <2>3 DEF Shape, Fresh, Remembers, NamingOps
  <2>5. req' = [req EXCEPT ![r] = q] /\ UNCHANGED <<open, member, doc, writes>>
    BY <2>1 DEF Admit, p
  <2> HIDE DEF q
  <2> QED
    BY <2>3, <2>4, <2>5, RequestStep DEF IInv, TypeOK
<1>3. CASE BeginUpdate(r)
  <2>1. PICK m \in LiveMembers, t \in Members, change \in Roles \cup {"none"}, label \in BOOLEAN :
          /\ member[t].life # "absent"
          /\ change # "none" => member[m].role = "planner"
          /\ Admit(r, [Admitted("update", member[m].user, member[m].role) EXCEPT
                         !.target = t, !.change = change, !.label = label])
    BY <1>3 DEF BeginUpdate
  <2> DEFINE p == Admitted("update", member[m].user, member[m].role)
             q == [p EXCEPT !.target = t, !.change = change, !.label = label]
  <2>0. member[m].user \in Users /\ member[m].role \in Roles
    BY RowFacts
  <2>2. /\ p \in Request /\ p.pc = "begun" /\ p.op = "update" /\ p.since = writes
        /\ p.actor = member[m].user /\ p.role = member[m].role
    BY <2>0, AdmittedFields DEF MemberOps
  <2> HIDE DEF p
  <2>3. /\ q \in Request /\ q.pc = "begun" /\ q.op = "update" /\ q.since = writes
        /\ q.change = change /\ q.target = t /\ q.actor = member[m].user
        /\ q.role = member[m].role
    BY <2>2 DEF Request
  <2>4. Shape(q) /\ Fresh(q)
    <3> HIDE DEF q
    <3> QED
      BY <1>w, <2>1, <2>3 DEF Shape, Fresh, Remembers, NamingOps
  <2>5. req' = [req EXCEPT ![r] = q] /\ UNCHANGED <<open, member, doc, writes>>
    BY <2>1 DEF Admit, p
  <2> HIDE DEF q
  <2> QED
    BY <2>3, <2>4, <2>5, RequestStep DEF IInv, TypeOK
<1>4. CASE BeginRemove(r)
  <2>1. PICK m \in Planners, t \in Members :
          /\ member[t].life # "absent"
          /\ Admit(r, [Admitted("remove", member[m].user, "planner") EXCEPT !.target = t])
    BY <1>4 DEF BeginRemove
  <2> DEFINE p == Admitted("remove", member[m].user, "planner")
             q == [p EXCEPT !.target = t]
  <2>0. m \in LiveMembers /\ member[m].user \in Users /\ member[m].role = "planner"
    BY RowFacts DEF Planners
  <2>2. /\ p \in Request /\ p.pc = "begun" /\ p.op = "remove" /\ p.since = writes
        /\ p.change = "none" /\ p.actor = member[m].user /\ p.role = "planner"
    BY <2>0, AdmittedFields DEF Roles, MemberOps
  <2> HIDE DEF p
  <2>3. /\ q \in Request /\ q.pc = "begun" /\ q.op = "remove" /\ q.since = writes
        /\ q.change = "none" /\ q.target = t /\ q.actor = member[m].user /\ q.role = "planner"
    BY <2>2 DEF Request
  <2>4. Shape(q) /\ Fresh(q)
    <3> HIDE DEF q
    <3> QED
      BY <1>w, <2>0, <2>1, <2>3 DEF Shape, Fresh, Remembers, NamingOps
  <2>5. req' = [req EXCEPT ![r] = q] /\ UNCHANGED <<open, member, doc, writes>>
    BY <2>1 DEF Admit, p
  <2> HIDE DEF q
  <2> QED
    BY <2>3, <2>4, <2>5, RequestStep DEF IInv, TypeOK
<1>5. CASE BeginNaming(r)
  <2>1. PICK m \in LiveMembers, d \in Docs, people \in (SUBSET Users) \ {{}}, op \in NamingOps :
          Admit(r, [Admitted(op, member[m].user, member[m].role) EXCEPT
                      !.subject = d, !.people = people])
    BY <1>5 DEF BeginNaming, NamingOps
  <2> DEFINE p == Admitted(op, member[m].user, member[m].role)
             q == [p EXCEPT !.subject = d, !.people = people]
  <2>0. member[m].user \in Users /\ member[m].role \in Roles
    BY RowFacts
  <2>2. /\ p \in Request /\ p.pc = "begun" /\ p.op = op /\ p.since = writes
        /\ p.change = "none" /\ p.actor = member[m].user /\ p.role = member[m].role
    BY <2>0, AdmittedFields
  <2> HIDE DEF p
  <2>3. /\ q \in Request /\ q.pc = "begun" /\ q.op = op /\ q.since = writes
        /\ q.change = "none" /\ q.subject = d /\ q.people = people
        /\ q.actor = member[m].user /\ q.role = member[m].role
    BY <2>2 DEF Request
  <2>4. Shape(q) /\ Fresh(q)
    <3> HIDE DEF q
    <3>1. people # {} /\ op \in {"record", "edit"}
      BY DEF NamingOps
    <3>2. /\ q.people # {} /\ q.op \notin {"join", "add", "update", "remove"}
          /\ q.op # "join" /\ q.pc # "checked" /\ q.pc # "read" /\ q.op \in NamingOps
      BY <2>3, <3>1
    <3>3. Shape(q)
      BY <2>0, <2>3, <3>2 DEF Shape
    <3>4. Remembers(q)
      BY <2>3, <3>2 DEF Remembers
    <3> QED
      BY <1>w, <2>3, <3>3, <3>4 DEF Fresh
  <2>5. req' = [req EXCEPT ![r] = q] /\ UNCHANGED <<open, member, doc, writes>>
    BY <2>1 DEF Admit, p
  <2> HIDE DEF q
  <2> QED
    BY <2>3, <2>4, <2>5, RequestStep DEF IInv, TypeOK
<1> QED
  BY <1>1, <1>2, <1>3, <1>4, <1>5 DEF Begin

\* A read that leaves the request as it was, with what it has found out.
LEMMA ReadInv ==
  ASSUME IInv, NEW r \in Requests,
         CheckNotMember(r) \/ ReadTarget(r) \/ CountPlanners(r) \/ CheckActivity(r)
           \/ CheckPeople(r)
  PROVE  IInv'
<1> DEFINE old == req[r]
<1>0. /\ old \in Request /\ Shape(old) /\ Fresh(old)
      /\ req \in [Requests -> Request] /\ open \in BOOLEAN
  BY DEF IInv, TypeOK, RequestsOK
<1>1. CASE CheckNotMember(r) \/ CheckPeople(r)
  <2> DEFINE q == [old EXCEPT !.pc = "checked"]
  <2>1. req' = [req EXCEPT ![r] = q] /\ UNCHANGED <<open, member, doc, writes>>
    BY <1>1 DEF CheckNotMember, CheckPeople, Read
  <2>2. old.pc = "begun"
    BY <1>1 DEF CheckNotMember, CheckPeople
  <2>3. q \in Request /\ q.pc = "checked"
        /\ q.op = old.op /\ q.user = old.user /\ q.target = old.target /\ q.actor = old.actor
        /\ q.subject = old.subject /\ q.people = old.people /\ q.role = old.role
        /\ q.change = old.change /\ q.since = old.since /\ q.seen = old.seen
    BY <1>0 DEF Request
  <2>4. old.op \in {"join", "add"} \/ (old.op \in NamingOps /\ AllMembers(old.people))
    BY <1>1 DEF CheckNotMember, CheckPeople
  <2>5. old.op \notin {"update", "remove"}
    BY <2>4 DEF NamingOps
  <2> HIDE DEF q, old
  <2>6. Shape(q)
    BY <1>0, <2>3 DEF Shape
  <2>7. Fresh(q)
    <3>1. old.op \in NamingOps => AllMembers(old.people)
      BY <2>4 DEF NamingOps
    <3> QED
      BY <1>0, <2>2, <2>3, <2>5, <3>1 DEF Fresh, Remembers
  <2> QED
    BY <1>0, <2>1, <2>3, <2>6, <2>7, RequestStep
<1>2. CASE ReadTarget(r)
  <2> DEFINE row == member[old.target]
             pc == IF old.op = "remove" \/ Demotes(old, row) THEN "read" ELSE "checked"
             q == [old EXCEPT !.seen = row, !.pc = pc]
  <2>1. req' = [req EXCEPT ![r] = q] /\ UNCHANGED <<open, member, doc, writes>>
    BY <1>0, <1>2 DEF ReadTarget, Read
  <2>2. /\ old.pc = "begun" /\ old.op \in {"update", "remove"}
        /\ old.op = "remove" => row.user # old.actor
    BY <1>2 DEF ReadTarget
  <2>3. row \in Participant
    BY <1>0, <2>2 DEF Shape, IInv, TypeOK
  <2>4. pc \in {"read", "checked"} /\ (pc = "checked" => old.op # "remove" /\ ~Demotes(old, row))
    OBVIOUS
  <2> HIDE DEF pc
  <2>5. q \in Request /\ q.pc = pc /\ q.seen = row
        /\ q.op = old.op /\ q.user = old.user /\ q.target = old.target /\ q.actor = old.actor
        /\ q.subject = old.subject /\ q.people = old.people /\ q.role = old.role
        /\ q.change = old.change /\ q.since = old.since
    BY <1>0, <2>3, <2>4 DEF Request
  <2>6. old.op \notin NamingOps
    BY <2>2 DEF NamingOps
  <2> HIDE DEF q
  <2>7. Shape(q)
    BY <1>0, <2>5 DEF Shape
  <2>8. Demotes(q, q.seen) <=> Demotes(old, row)
    BY <2>5 DEF Demotes
  <2>9. q.seen = member[q.target]
    BY <2>5
  <2> HIDE DEF row, old
  <2>10. Fresh(q)
    BY <1>0, <2>2, <2>4, <2>5, <2>6, <2>8, <2>9 DEF Fresh, Remembers
  <2> QED
    BY <1>0, <2>1, <2>5, <2>7, <2>10, RequestStep DEF row, old
<1>3. CASE CountPlanners(r) \/ CheckActivity(r)
  <2> DEFINE q == [old EXCEPT !.pc = "checked"]
  <2>1. req' = [req EXCEPT ![r] = q] /\ UNCHANGED <<open, member, doc, writes>>
    BY <1>3 DEF CountPlanners, CheckActivity, Read
  <2>2. /\ old.pc = "read" /\ old.op \in {"update", "remove"}
        /\ old.op = "update" => MayDemote(Cardinality(Planners))
        /\ old.op = "remove" => ~HasActivity(old.seen.user)
    BY <1>3 DEF CountPlanners, CheckActivity
  <2>3. q \in Request /\ q.pc = "checked"
        /\ q.op = old.op /\ q.user = old.user /\ q.target = old.target /\ q.actor = old.actor
        /\ q.subject = old.subject /\ q.people = old.people /\ q.role = old.role
        /\ q.change = old.change /\ q.since = old.since /\ q.seen = old.seen
    BY <1>0 DEF Request
  <2>4. old.op \notin NamingOps
    BY <2>2 DEF NamingOps
  <2> HIDE DEF q, old
  <2>5. Shape(q)
    BY <1>0, <2>3 DEF Shape
  <2>6. Fresh(q)
    BY <1>0, <2>2, <2>3, <2>4 DEF Fresh, Remembers
  <2> QED
    BY <1>0, <2>1, <2>3, <2>5, <2>6, RequestStep
<1> QED
  BY <1>1, <1>2, <1>3

\* A write moves the count on, so that no other request need remember anything.
LEMMA WriteStep ==
  ASSUME IInv, writes < MaxWrites, writes' = writes + 1, UNCHANGED open,
         req' \in [Requests -> Request], \A s \in Requests : req'[s] \in {req[s], Idle},
         member' \in [Members -> Participant],
         \A m \in Members : member'[m].life # "absent" => member'[m].user \in Users,
         \A m \in Members : member[m].life # "absent" => member'[m].life # "absent",
         RowsOK',
         doc' \in [Docs -> Document],
         \A d \in Docs : doc'[d] # Nothing => doc'[d].creator \in Users /\ doc'[d].people # {}
  PROVE  IInv'
<1>1. writes \in Nat /\ writes' \in 0 .. MaxWrites /\ writes' \in Nat
  BY MembershipAssumption DEF IInv, TypeOK
<1>2. TypeOK'
  BY <1>1 DEF IInv, TypeOK
<1>3. \A s \in Requests : Shape(req[s])'
  <2> TAKE s \in Requests
  <2>1. CASE req'[s] = Idle
    BY <2>1, IdleRequest DEF Shape, NamingOps
  <2>2. CASE req'[s] = req[s]
    <3>1. Shape(req[s])
      BY DEF IInv, RequestsOK
    <3> QED
      BY <2>2, <3>1 DEF Shape
  <2> QED
    BY <2>1, <2>2
<1>4. \A s \in Requests : Fresh(req[s])'
  <2> TAKE s \in Requests
  <2>1. Fresh(req[s]) /\ req[s].since \in Nat
    BY DEF IInv, RequestsOK, TypeOK, Request
  <2>2. CASE req'[s] = Idle
    BY <1>1, <2>2, IdleRequest DEF Fresh
  <2>3. CASE req'[s] = req[s]
    BY <1>1, <2>1, <2>3 DEF Fresh
  <2> QED
    BY <2>2, <2>3
<1> QED
  BY <1>2, <1>3, <1>4 DEF IInv, RequestsOK

\* What Write does, and what the rows are that it starts from.
LEMMA WriteFacts ==
  ASSUME IInv, NEW r \in Requests, NEW op, Write(r, op)
  PROVE  /\ writes < MaxWrites /\ writes' = writes + 1 /\ UNCHANGED open
         /\ req' \in [Requests -> Request]
         /\ \A s \in Requests : req'[s] \in {req[s], Idle}
         /\ Shape(req[r]) /\ req[r] \in Request
         /\ member \in [Members -> Participant]
         /\ \A m \in Members : member[m].life # "absent" => member[m].user \in Users
BY IdleRequest DEF Write, IInv, TypeOK, RequestsOK

LEMMA InsertMemberInv ==
  ASSUME IInv, NEW r \in Requests, InsertMember(r)
  PROVE  IInv'
<1>0. Write(r, {"join", "add"}) /\ UNCHANGED doc
  BY DEF InsertMember
<1> DEFINE u == req[r].user
<1>1. u \in Users
  BY <1>0, WriteFacts DEF Write, Shape
<1>2. PICK m \in Members :
        /\ member[m].life = "absent" /\ u \notin People
        /\ member' = [member EXCEPT ![m] = [life |-> "live", user |-> u, role |-> "participant"]]
  BY DEF InsertMember, Insertable
<1> HIDE DEF u
<1>3. [life |-> "live", user |-> u, role |-> "participant"] \in Participant
  BY <1>1 DEF Participant, Roles
<1>4. /\ member' \in [Members -> Participant]
      /\ member'[m].life = "live" /\ member'[m].user = u
      /\ \A n \in Members \ {m} : member'[n] = member[n]
  BY <1>0, <1>2, <1>3, WriteFacts
<1>5. \A n \in Members \ {m} : Live(n) => member[n].user # u
  BY <1>2 DEF People, LiveMembers
<1>6. RowsOK'
  BY <1>4, <1>5 DEF IInv, RowsOK, Live
<1> QED
  BY <1>0, <1>1, <1>2, <1>4, <1>6, WriteFacts, WriteStep DEF IInv, TypeOK

LEMMA UpdateMemberInv ==
  ASSUME IInv, NEW r \in Requests, UpdateMember(r)
  PROVE  IInv'
<1>0. Write(r, {"update"}) /\ UNCHANGED doc
  BY DEF UpdateMember
<1> DEFINE m == req[r].target
           role == RoleToWrite(req[r])
<1>1. m \in Members /\ role \in Roles
  BY <1>0, WriteFacts DEF Write, Shape, RoleToWrite, Request, Participant
<1>2. member' = [member EXCEPT ![m].role = role]
  BY DEF UpdateMember
<1> HIDE DEF m, role
<1>3. [member[m] EXCEPT !.role = role] \in Participant
  BY <1>0, <1>1, WriteFacts DEF Participant
<1>4. /\ member' \in [Members -> Participant]
      /\ \A n \in Members : member'[n].life = member[n].life /\ member'[n].user = member[n].user
  BY <1>0, <1>1, <1>2, <1>3, WriteFacts DEF Participant
<1>5. RowsOK'
  BY <1>4 DEF IInv, RowsOK, Live
<1> QED
  BY <1>0, <1>4, <1>5, WriteFacts, WriteStep DEF IInv, TypeOK

LEMMA RemoveMemberInv ==
  ASSUME IInv, NEW r \in Requests, RemoveMember(r)
  PROVE  IInv'
<1>0. Write(r, {"remove"}) /\ UNCHANGED doc
  BY DEF RemoveMember
<1> DEFINE m == req[r].target
<1>1. m \in Members /\ member[m].life # "absent"
  BY <1>0, WriteFacts DEF Write, Shape
<1>2. member' = [member EXCEPT ![m].life = "deleted"]
  BY DEF RemoveMember
<1> HIDE DEF m
<1>3. [member[m] EXCEPT !.life = "deleted"] \in Participant
  BY <1>0, <1>1, WriteFacts DEF Participant
<1>4. /\ member' \in [Members -> Participant]
      /\ \A n \in Members : member'[n].user = member[n].user
      /\ \A n \in Members : member'[n].life = IF n = m THEN "deleted" ELSE member[n].life
  BY <1>0, <1>1, <1>2, <1>3, WriteFacts DEF Participant
<1>5. RowsOK'
  BY <1>4 DEF IInv, RowsOK, Live
<1>6. \A n \in Members : member'[n].life # "absent" => member[n].life # "absent"
  BY <1>1, <1>4
<1>7. \A n \in Members : member'[n].life # "absent" => member'[n].user \in Users
  BY <1>0, <1>4, <1>6, WriteFacts
<1>8. \A n \in Members : member[n].life # "absent" => member'[n].life # "absent"
  BY <1>4
<1> QED
  BY <1>0, <1>4, <1>5, <1>7, <1>8, WriteFacts, WriteStep DEF IInv, TypeOK

LEMMA WriteDocumentInv ==
  ASSUME IInv, NEW r \in Requests, WriteDocument(r)
  PROVE  IInv'
<1>0. Write(r, NamingOps) /\ UNCHANGED member
  BY DEF WriteDocument
<1> DEFINE q == req[r]
           written == [creator |-> CreatorToWrite(q), people |-> q.people]
<1>1. /\ q.subject \in Docs /\ q.people # {} /\ q.people \subseteq Users /\ q.actor \in Users
      /\ (q.op = "edit") <=> (doc[q.subject] # Nothing)
  BY <1>0, WriteFacts DEF Write, Shape, Request, WriteDocument
<1>2. CreatorToWrite(q) \in Users
  BY <1>1 DEF CreatorToWrite, IInv, TypeOK
<1>3. doc' = [doc EXCEPT ![q.subject] = written]
  BY DEF WriteDocument
<1>4. written \in Document /\ written.creator \in Users /\ written.people # {}
  BY <1>1, <1>2 DEF Document
<1> HIDE DEF q, written
<1>5. /\ doc' \in [Docs -> Document]
      /\ \A d \in Docs : doc'[d] # Nothing => doc'[d].creator \in Users /\ doc'[d].people # {}
  BY <1>1, <1>3, <1>4 DEF IInv, TypeOK
<1>6. RowsOK'
  BY <1>0 DEF IInv, RowsOK, Live
<1> QED
  BY <1>0, <1>5, <1>6, WriteFacts, WriteStep DEF IInv, TypeOK

LEMMA DeleteDocumentInv ==
  ASSUME IInv, NEW d \in Docs, DeleteDocument(d)
  PROVE  IInv'
<1>1. Nothing \in Document
  BY DEF Nothing, Document
<1>2. /\ doc' \in [Docs -> Document]
      /\ \A e \in Docs : doc'[e] # Nothing => doc'[e].creator \in Users /\ doc'[e].people # {}
  BY <1>1 DEF DeleteDocument, IInv, TypeOK
<1>3. RowsOK'
  BY DEF DeleteDocument, IInv, RowsOK, Live
<1> QED
  BY <1>2, <1>3, WriteStep DEF DeleteDocument, IInv, TypeOK

LEMMA StepInv == IInv /\ [Next]_vars => IInv'
<1> SUFFICES ASSUME IInv, [Next]_vars PROVE IInv'
  OBVIOUS
<1>1. ASSUME NEW r \in Requests, Begin(r) PROVE IInv'
  BY <1>1, BeginInv
<1>2. ASSUME NEW r \in Requests, Serve(r) PROVE IInv'
  <2>1. CASE CheckNotMember(r) \/ ReadTarget(r) \/ CountPlanners(r) \/ CheckActivity(r)
               \/ CheckPeople(r)
    BY <2>1, ReadInv
  <2>2. CASE Fail(r)
    <3>1. Shape(Idle) /\ Fresh(Idle)
      BY IdleOK, MembershipAssumption DEF IInv, TypeOK
    <3> QED
      BY <2>2, <3>1, IdleRequest, RequestStep DEF Fail, IInv, TypeOK
  <2> QED
    BY <1>2, <2>1, <2>2, InsertMemberInv, UpdateMemberInv, RemoveMemberInv, WriteDocumentInv
       DEF Serve
<1>3. ASSUME NEW d \in Docs, DeleteDocument(d) PROVE IInv'
  BY <1>3, DeleteDocumentInv
<1>4. CASE UNCHANGED <<member, doc, writes, req>> /\ open' \in BOOLEAN
  <2>1. TypeOK' /\ RowsOK'
    BY <1>4 DEF IInv, TypeOK, RowsOK, Live
  <2>2. \A q : (Shape(q) => Shape(q)') /\ (Fresh(q) => Fresh(q)')
    BY <1>4 DEF Shape, Fresh, Remembers, LiveMembers, Live, Planners, HasActivity, AllMembers,
           People, Demotes, MayDemote
  <2>3. RequestsOK'
    BY <1>4, <2>2 DEF IInv, RequestsOK
  <2> QED
    BY <2>1, <2>3 DEF IInv
<1>5. CASE OpenOrClose
  BY <1>4, <1>5 DEF OpenOrClose, IInv, TypeOK
<1>6. CASE UNCHANGED vars
  BY <1>4, <1>6 DEF vars, IInv, TypeOK
<1> QED
  BY <1>1, <1>2, <1>3, <1>5, <1>6 DEF Next

\* The invariant holds in every reachable state.
THEOREM MembershipInvariant == Spec => []IInv
BY InitInv, StepInv, PTL DEF Spec

\* Every variable keeps its type (Membership's TypeOK).
THEOREM MembershipTypeCorrect == Spec => []TypeOK
<1>1. IInv => TypeOK
  BY DEF IInv
<1> QED
  BY <1>1, MembershipInvariant, PTL

\* Nobody is a member twice, whatever requests overlap (Join, Add, the unique index).
THEOREM NobodyIsMemberTwice == Spec => []OneMembership
<1>1. IInv => OneMembership
  BY DEF IInv, RowsOK, OneMembership, LiveMembers
<1> QED
  BY <1>1, MembershipInvariant, PTL

---------------------------------------------------------------------------------
(* What an undisturbed request keeps.                                      *)

\* The write of an undisturbed request is its own, and what it remembers is still so.
LEMMA UndisturbedWrite ==
  ASSUME IInv, [Next]_vars, NEW r \in Requests, Undisturbed(r)
  PROVE  /\ Shape(req[r]) /\ Remembers(req[r])
         /\ \/ InsertMember(r) \/ UpdateMember(r) \/ RemoveMember(r) \/ WriteDocument(r)
<1>1. Shape(req[r]) /\ Remembers(req[r])
  BY DEF Undisturbed, IInv, RequestsOK, Fresh
<1>2. req'[r] # req[r] /\ writes' # writes
  BY IdleRequest DEF Undisturbed
<1>3. req \in [Requests -> Request]
  BY DEF IInv, TypeOK
<1>4. ASSUME NEW s \in Requests, Begin(s) PROVE FALSE
  BY <1>2, <1>4 DEF Begin, BeginJoin, BeginAdd, BeginUpdate, BeginRemove, BeginNaming, Admit
<1>5. ASSUME NEW s \in Requests, Serve(s) PROVE s = r
  <2>1. \E q : req' = [req EXCEPT ![s] = q]
    <3>1. CASE CheckNotMember(s) \/ CountPlanners(s) \/ CheckActivity(s) \/ CheckPeople(s)
                 \/ ReadTarget(s)
      BY <1>2, <3>1 DEF CheckNotMember, CountPlanners, CheckActivity, CheckPeople, ReadTarget, Read
    <3> QED
      BY <1>5, <3>1 DEF Serve, InsertMember, UpdateMember, RemoveMember, WriteDocument, Write, Fail
  <2> QED
    BY <1>2, <1>3, <2>1
<1>6. ASSUME NEW d \in Docs, DeleteDocument(d) PROVE FALSE
  BY <1>2, <1>6 DEF DeleteDocument
<1>7. ~OpenOrClose /\ ~UNCHANGED vars
  BY <1>2 DEF OpenOrClose, vars
<1>8. Serve(r)
  BY <1>4, <1>5, <1>6, <1>7 DEF Next
<1>9. ~CheckNotMember(r) /\ ~ReadTarget(r) /\ ~CountPlanners(r) /\ ~CheckActivity(r)
        /\ ~CheckPeople(r) /\ ~Fail(r)
  BY <1>2 DEF CheckNotMember, ReadTarget, CountPlanners, CheckActivity, CheckPeople, Fail, Read
<1> QED
  BY <1>1, <1>8, <1>9 DEF Serve

\* Who is a member afterwards: one more, the same, or one less.
LEMMA InsertedRows ==
  ASSUME IInv, NEW r \in Requests, InsertMember(r)
  PROVE  /\ \A m \in LiveMembers : member'[m] = member[m]
         /\ LiveMembers \subseteq LiveMembers'
BY DEF InsertMember, Insertable, IInv, TypeOK, LiveMembers, Live

LEMMA UpdatedRows ==
  ASSUME IInv, NEW r \in Requests, UpdateMember(r)
  PROVE  /\ req[r].target \in LiveMembers
         /\ LiveMembers' = LiveMembers
         /\ \A m \in Members : member'[m].user = member[m].user
         /\ \A m \in Members :
              member'[m].role = IF m = req[r].target THEN RoleToWrite(req[r]) ELSE member[m].role
<1>1. req[r].target \in Members /\ member \in [Members -> Participant]
  BY WriteFacts DEF UpdateMember, Write, Shape
<1>2. member' = [member EXCEPT ![req[r].target].role = RoleToWrite(req[r])]
      /\ Live(req[r].target)
  BY DEF UpdateMember
<1> HIDE DEF UpdateMember
<1>3. \A m \in Members :
        /\ member'[m].life = member[m].life /\ member'[m].user = member[m].user
        /\ member'[m].role = IF m = req[r].target THEN RoleToWrite(req[r]) ELSE member[m].role
  BY <1>1, <1>2 DEF Participant
<1> QED
  BY <1>1, <1>2, <1>3 DEF LiveMembers, Live

LEMMA RemovedRows ==
  ASSUME IInv, NEW r \in Requests, RemoveMember(r)
  PROVE  /\ req[r].target \in Members
         /\ LiveMembers' = LiveMembers \ {req[r].target}
         /\ \A m \in Members : member'[m].user = member[m].user /\ member'[m].role = member[m].role
<1>1. req[r].target \in Members /\ member \in [Members -> Participant]
  BY WriteFacts DEF RemoveMember, Write, Shape
<1>2. member' = [member EXCEPT ![req[r].target].life = "deleted"]
  BY DEF RemoveMember
<1>3. \A m \in Members :
        /\ member'[m].life = IF m = req[r].target THEN "deleted" ELSE member[m].life
        /\ member'[m].user = member[m].user /\ member'[m].role = member[m].role
  BY <1>1, <1>2 DEF Participant
<1> QED
  BY <1>1, <1>3 DEF LiveMembers, Live

\* When planners may be demoted there is another planner.
LEMMA AnotherPlanner ==
  ASSUME IInv, MayDemote(Cardinality(Planners)), NEW t
  PROVE  \E m \in Planners : m # t
<1>1. Planners \subseteq Members /\ IsFiniteSet(Members)
  BY MembershipAssumption DEF Planners, LiveMembers
<1>2. IsFiniteSet(Planners)
  BY <1>1, FS_Subset
<1>3. Cardinality({}) = 0 /\ Cardinality({t}) = 1
  BY FS_EmptySet, FS_Singleton
<1>4. Planners # {} /\ Planners # {t}
  BY <1>3 DEF MayDemote
<1> QED
  BY <1>4

LEMMA KeepsPlanner ==
  ASSUME IInv, [Next]_vars, NEW r \in Requests, Undisturbed(r), Planners # {}
  PROVE  Planners' # {}
<1>0. Shape(req[r]) /\ Remembers(req[r]) /\ req[r].pc = "checked"
  BY UndisturbedWrite DEF Undisturbed
<1>1. CASE InsertMember(r)
  BY <1>1, InsertedRows DEF Planners
<1>2. CASE UpdateMember(r)
  <2> DEFINE t == req[r].target
  <2>1. /\ t \in LiveMembers /\ LiveMembers' = LiveMembers
        /\ \A m \in Members : m # t => member'[m].role = member[m].role
        /\ member'[t].role = RoleToWrite(req[r])
    BY <1>2, UpdatedRows DEF LiveMembers
  <2>2. req[r].op = "update" /\ req[r].seen = member[t]
    BY <1>0, <1>2 DEF UpdateMember, Write, Remembers
  <2>3. CASE Demotes(req[r], req[r].seen)
    <3>1. PICK m \in Planners : m # t
      BY <1>0, <2>2, <2>3, AnotherPlanner DEF Remembers
    <3> QED
      BY <2>1, <3>1 DEF Planners, LiveMembers
  <2>4. CASE ~Demotes(req[r], req[r].seen)
    <3>1. req[r].change \in Roles \cup {"none"}
      BY DEF IInv, TypeOK, Request
    <3>2. member[t].role = "planner" => member'[t].role = "planner"
      BY <2>1, <2>2, <2>4, <3>1 DEF Demotes, RoleToWrite, Roles
    <3> QED
      BY <2>1, <3>2 DEF Planners, LiveMembers
  <2> QED
    BY <2>3, <2>4
<1>3. CASE RemoveMember(r)
  <2> DEFINE t == req[r].target
  <2>1. /\ t \in Members /\ LiveMembers' = LiveMembers \ {t}
        /\ \A m \in Members : member'[m].role = member[m].role
    BY <1>3, RemovedRows
  <2>2. req[r].op = "remove" /\ req[r].role = "planner" /\ req[r].seen = member[t]
        /\ req[r].seen.user # req[r].actor
    BY <1>0, <1>3 DEF RemoveMember, Write, Remembers, Shape
  <2>3. PICK m \in LiveMembers : member[m].user = req[r].actor /\ member[m].role = "planner"
    BY <1>0, <2>2 DEF Remembers
  <2>4. m # t /\ m \in Members
    BY <2>2, <2>3 DEF LiveMembers
  <2>5. m \in Planners'
    BY <2>1, <2>3, <2>4 DEF Planners
  <2> QED
    BY <2>5
<1>4. CASE WriteDocument(r)
  BY <1>4 DEF WriteDocument, Planners, LiveMembers, Live
<1> QED
  BY <1>1, <1>2, <1>3, <1>4, UndisturbedWrite

LEMMA KeepsHistory ==
  ASSUME IInv, [Next]_vars, NEW r \in Requests, Undisturbed(r), HistoryNamesMembers
  PROVE  HistoryNamesMembers'
<1>0. Shape(req[r]) /\ Remembers(req[r]) /\ req[r].pc = "checked"
  BY UndisturbedWrite DEF Undisturbed
<1>1. CASE InsertMember(r)
  <2>1. People \subseteq People' /\ doc' = doc
    BY <1>1, InsertedRows DEF People, InsertMember
  <2> QED
    BY <2>1 DEF HistoryNamesMembers
<1>2. CASE UpdateMember(r)
  <2>0. LiveMembers' = LiveMembers /\ \A m \in LiveMembers : member'[m].user = member[m].user
    BY <1>2, UpdatedRows DEF LiveMembers
  <2>1. People' = People /\ doc' = doc
    BY <1>2, <2>0 DEF People, UpdateMember
  <2> QED
    BY <2>1 DEF HistoryNamesMembers
<1>3. CASE RemoveMember(r)
  <2> DEFINE t == req[r].target
             u == member[t].user
  <2>1. /\ LiveMembers' = LiveMembers \ {t} /\ doc' = doc
        /\ \A m \in Members : member'[m].user = member[m].user
    BY <1>3, RemovedRows DEF RemoveMember
  <2>2. ~HasActivity(u)
    BY <1>0, <1>3 DEF RemoveMember, Write, Remembers
  <2>3. \A p \in People : p # u => p \in People'
    <3> TAKE p \in People
    <3>1. PICK m \in LiveMembers : member[m].user = p
      BY DEF People
    <3>2. p # u => m \in LiveMembers' /\ member'[m].user = p
      BY <2>1, <3>1 DEF LiveMembers
    <3> QED
      BY <3>2 DEF People
  <2> HIDE DEF u
  <2>4. \A d \in Docs :
          u \notin doc[d].people /\ (d \in Expenses => u # doc[d].creator)
    BY <2>2 DEF HasActivity
  <2>5. ASSUME NEW d \in Docs
        PROVE  /\ doc'[d].people \subseteq People'
               /\ d \in Expenses /\ doc'[d] # Nothing => doc'[d].creator \in People'
    BY <2>1, <2>3, <2>4, <2>5 DEF HistoryNamesMembers
  <2> QED
    BY <2>5 DEF HistoryNamesMembers
<1>4. CASE WriteDocument(r)
  <2> DEFINE q == req[r]
             written == [creator |-> CreatorToWrite(q), people |-> q.people]
  <2>1. /\ q.op \in NamingOps /\ q.subject \in Docs /\ UNCHANGED member
        /\ (q.op = "edit") <=> (doc[q.subject] # Nothing)
        /\ doc' = [doc EXCEPT ![q.subject] = written]
    BY <1>0, <1>4 DEF WriteDocument, Write, Shape
  <2>2. q.people \subseteq People
    BY <1>0, <2>1 DEF Remembers, AllMembers
  <2>3. q.actor \in People
    BY <1>0, <2>1 DEF Remembers, NamingOps, People
  <2>4. q.subject \in Expenses => CreatorToWrite(q) \in People
    BY <2>1, <2>3 DEF CreatorToWrite, HistoryNamesMembers
  <2>5. People' = People
    BY <2>1 DEF People, LiveMembers, Live
  <2>6. \A d \in Docs : doc'[d] = IF d = q.subject THEN written ELSE doc[d]
    BY <2>1 DEF IInv, TypeOK
  <2> HIDE DEF q
  <2> QED
    BY <2>2, <2>4, <2>5, <2>6 DEF HistoryNamesMembers
<1> QED
  BY <1>1, <1>2, <1>3, <1>4, UndisturbedWrite

LEMMA KeepsRoles ==
  ASSUME IInv, [Next]_vars, NEW r \in Requests, Undisturbed(r),
         req[r].change = "none" \/ req[r].role # "planner",
         NEW m \in LiveMembers
  PROVE  member'[m].role = member[m].role
<1>0. Shape(req[r]) /\ Remembers(req[r]) /\ req[r].pc = "checked" /\ m \in Members
  BY UndisturbedWrite DEF Undisturbed, LiveMembers
<1>1. CASE InsertMember(r)
  BY <1>1, InsertedRows
<1>2. CASE UpdateMember(r)
  <2>1. req[r].op = "update" /\ req[r].change = "none"
    BY <1>0, <1>2 DEF UpdateMember, Write, Shape
  <2>2. RoleToWrite(req[r]) = member[req[r].target].role
    BY <1>0, <2>1 DEF RoleToWrite, Remembers
  <2> QED
    BY <1>0, <1>2, <2>2, UpdatedRows
<1>3. CASE RemoveMember(r)
  BY <1>0, <1>3, RemovedRows
<1>4. CASE WriteDocument(r)
  BY <1>4 DEF WriteDocument
<1> QED
  BY <1>1, <1>2, <1>3, <1>4, UndisturbedWrite

\* No request takes a trip's last planner away on its own, however many planners,
\* members and requests there are (Update, Remove).
THEOREM PlannerRemains == Spec => UndisturbedKeepsPlanner
<1>1. IInv /\ [Next]_vars =>
        [\A r \in Requests : Undisturbed(r) /\ Planners # {} => Planners' # {}]_vars
  BY KeepsPlanner
<1> QED
  BY <1>1, MembershipInvariant, PTL DEF Spec, UndisturbedKeepsPlanner

\* No request separates the members from the history on its own (Remove, Create, Update).
THEOREM HistoryRemains == Spec => UndisturbedKeepsHistory
<1>1. IInv /\ [Next]_vars =>
        [\A r \in Requests : Undisturbed(r) /\ HistoryNamesMembers => HistoryNamesMembers']_vars
  BY KeepsHistory
<1> QED
  BY <1>1, MembershipInvariant, PTL DEF Spec, UndisturbedKeepsHistory

\* A role changes on a planner's word only (Update).
THEOREM RolesRemain == Spec => UndisturbedKeepsRoles
<1>1. IInv /\ [Next]_vars =>
        [\A r \in Requests :
           /\ Undisturbed(r)
           /\ req[r].change = "none" \/ req[r].role # "planner"
           => \A m \in LiveMembers : member'[m].role = member[m].role]_vars
  BY KeepsRoles
<1> QED
  BY <1>1, MembershipInvariant, PTL DEF Spec, UndisturbedKeepsRoles
=================================================================================
