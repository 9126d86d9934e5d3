------------------------------ MODULE LedgerProofs ------------------------------
(***************************************************************************)
(* Proofs about Ledger for any number of requests, documents, members and  *)
(* versions.  The inductive invariant is TypeOK /\ LedgerInv; its core is  *)
(* that a request holding a document's current version holds its current   *)
(* content, so that a transaction whose version check succeeds writes what *)
(* it would have computed from the document as it is.                      *)
(***************************************************************************)
EXTENDS Ledger, TLAPS

\* The fields of a client's input, and the amounts among the naturals.
LEMMA InputFields ==
  ASSUME NEW in \in Input
  PROVE  /\ in.amount \in Amounts \cup {0}
         /\ in.note \in Notes \cup {NoNote}
BY DEF Input

LEMMA AmountsNat == (\A a \in Amounts \cup {0} : a \in Nat) /\ 0 \notin Amounts
BY RowsAssumption

LEMMA InputTypes ==
  ASSUME NEW in \in Input
  PROVE  in.amount \in Nat /\ in.note \in Notes \cup {NoNote}
<1>1. in.amount \in Amounts \cup {0}
  BY InputFields
<1>2. in.amount \in Nat
  BY <1>1, AmountsNat, Zenon
<1> QED
  BY <1>2, InputFields

\* Rows built by the pure functions are rows.
LEMMA RowFunctions ==
  ASSUME NEW old \in Row, NEW u \in Users, NEW in \in Input, NEW required \in BOOLEAN,
         NEW decision \in {"approved", "rejected"}
  PROVE  /\ Edited(old, in, required) \in Row
         /\ Decided(old, u, decision) \in Row
         /\ Deleted(old) \in Row
         /\ NewRow(u, in, required) \in Row
<1>0. in.amount \in Nat /\ in.note \in Notes \cup {NoNote}
  BY InputTypes
<1>1. Edited(old, in, required) \in Row
  <2>1. Reopens(old, required) \in BOOLEAN
    BY DEF Reopens
  <2> QED
    BY <1>0, <2>1 DEF Edited, Row, Status
<1>2. Decided(old, u, decision) \in Row
  BY DEF Decided, Row, Status
<1>3. Deleted(old) \in Row
  BY DEF Deleted, Row
<1>4. NewRow(u, in, required) \in Row
  BY <1>0 DEF NewRow, Row, Status
<1> QED
  BY <1>1, <1>2, <1>3, <1>4

\* The columns an UPDATE writes keep the identity of the row and move its version.
LEMMA OverwrittenRow ==
  ASSUME NEW old \in Row, NEW entity \in Row
  PROVE  /\ Overwritten(old, entity) \in Row
         /\ Overwritten(old, entity).version = old.version + 1
         /\ Overwritten(old, entity).life = old.life
         /\ Overwritten(old, entity).amount = entity.amount
<1>1. old.version + 1 \in Nat
  BY DEF Row
<1>2. Overwritten(old, entity) \in Row
  BY <1>1 DEF Overwritten, Row
<1> QED
  BY <1>2 DEF Overwritten, Row

\* An edit stores a positive amount when the row read had one.
LEMMA EditedAmount ==
  ASSUME NEW old \in Row, NEW in \in Input, NEW required \in BOOLEAN,
         old.amount \in Amounts
  PROVE  /\ Edited(old, in, required).amount \in Amounts
         /\ ~RowsChanged(in) => Edited(old, in, required).amount = old.amount
BY RowsAssumption DEF Edited, Row, Input, RowsChanged

LEMMA BlankRow == Blank \in Row /\ NoInput \in Input /\ NoSettings \in Settings
BY RowsAssumption DEF Blank, Row, Status, NoInput, Input, NoSettings, Settings

LEMMA IdleRequest == Idle \in Request /\ Idle.pc = "idle" /\ Idle.op = "none"
BY BlankRow DEF Idle, Request

LEMMA RequiredBoolean ==
  ASSUME NEW s \in Settings, NEW d
  PROVE  ApprovalRequired(s, d) \in BOOLEAN
BY DEF ApprovalRequired, Settings

---------------------------------------------------------------------------------
(* Type correctness and the inductive invariant.                           *)

LEMMA InitInv == Init => TypeOK /\ LedgerInv
<1> SUFFICES ASSUME Init PROVE TypeOK /\ LedgerInv
  OBVIOUS
<1>1. trip \in Trip
  BY LedgerAssumption DEF Init, Trip
<1>2. row \in [Docs -> Row] /\ \A d \in Docs : row[d] = Blank
  BY BlankRow DEF Init
<1>3. req \in [Requests -> Request] /\ \A r \in Requests : req[r] = Idle
  BY IdleRequest DEF Init
<1>4. TypeOK
  BY <1>1, <1>2, <1>3 DEF Init, TypeOK, Blank, NoEvent, EventKinds
<1>5. RowsOK
  BY <1>2 DEF RowsOK, Blank
<1>6. RequestsOK /\ VersionIdentifiesContent
  BY <1>3, IdleRequest DEF RequestsOK, RequestOK, VersionIdentifiesContent, SeenOK, DocumentOps
<1>7. LinesMatchAmount
  BY <1>2 DEF Init, LinesMatchAmount, Blank, Docs
<1> QED
  BY <1>4, <1>5, <1>6, <1>7 DEF LedgerInv

\* Admitting a request keeps the invariant when its arguments are well formed.
LEMMA AdmitInv ==
  ASSUME TypeOK, LedgerInv,
         NEW r \in Requests, NEW op \in DocumentOps \cup TripOps,
         NEW u \in Users, NEW d \in Docs \cup {NoDoc}, NEW v \in Nat,
         NEW in \in Input, NEW s \in Settings,
         op \in DocumentOps => d \in Docs,
         op \in DocumentOps \ {"create"} => row[d].life # "absent",
         op = "create" => in.amount \in Amounts,
         op = "update" => v <= row[d].version,
         Admit(r, op, u, d, v, in, s)
  PROVE  TypeOK' /\ LedgerInv'
<1> DEFINE new == [pc |-> "begun", op |-> op, user |-> u, doc |-> d, version |-> v,
                   input |-> in, settings |-> s, seen |-> Blank]
<1>1. new \in Request
  BY BlankRow DEF Request
<1>2. req' = [req EXCEPT ![r] = new] /\ UNCHANGED <<trip, row, payers, splits, events>>
  BY DEF Admit
<1>3. TypeOK'
  BY <1>1, <1>2 DEF TypeOK
<1>4. RequestOK(new)
  BY DEF RequestOK
<1>5. SeenOK(new)
  BY DEF SeenOK
<1> HIDE DEF new
<1>6. \A x \in Requests : RequestOK(req'[x]) /\ SeenOK(req'[x])
  BY <1>2, <1>4, <1>5 DEF LedgerInv, RequestsOK, VersionIdentifiesContent, TypeOK
<1>7. RequestsOK' /\ VersionIdentifiesContent'
  BY <1>2, <1>6 DEF RequestsOK, VersionIdentifiesContent, RequestOK, SeenOK
<1>8. RowsOK' /\ LinesMatchAmount'
  BY <1>2 DEF LedgerInv, RowsOK, LinesMatchAmount
<1> QED
  BY <1>3, <1>7, <1>8 DEF LedgerInv

\* Every way a request begins goes through Admit with such arguments.
LEMMA BeginInv ==
  ASSUME TypeOK, LedgerInv, NEW r \in Requests, Begin(r)
  PROVE  TypeOK' /\ LedgerInv'
<1>0. trip.settings \in Settings
  BY DEF TypeOK, Trip
<1>1. ASSUME NEW docs \in SUBSET Docs, BeginCreate(r, docs)
      PROVE  TypeOK' /\ LedgerInv'
  <2>1. PICK u \in Users, d \in docs, in \in CreateInputs :
               Admit(r, "create", u, d, 0, in, trip.settings)
    BY <1>1 DEF BeginCreate
  <2>2. in \in Input /\ in.amount # 0
    BY LedgerAssumption
  <2>3. in.amount \in Amounts
    BY <2>2, InputFields
  <2>4. d \in Docs
    BY <1>1
  <2> QED
    BY <1>0, <2>1, <2>2, <2>3, <2>4, AdmitInv DEF DocumentOps
<1>2. ASSUME NEW docs \in SUBSET Docs, BeginUpdate(r, docs)
      PROVE  TypeOK' /\ LedgerInv'
  <2>1. PICK u \in Users, d \in docs, in \in EditInputs : \E v \in 1 .. row[d].version :
               Admit(r, "update", u, d, v, in, trip.settings)
    BY <1>2 DEF BeginUpdate
  <2>2. PICK v \in 1 .. row[d].version :
               Admit(r, "update", u, d, v, in, trip.settings)
    BY <2>1
  <2>3. d \in Docs /\ row[d].version \in Nat
    BY <1>2 DEF TypeOK, Row
  <2>4. v \in Nat /\ v <= row[d].version /\ 1 <= row[d].version
    BY <2>3
  <2>5. row[d].life # "absent"
    BY <2>3, <2>4 DEF LedgerInv, RowsOK, Blank
  <2>6. in \in Input
    BY LedgerAssumption
  <2> QED
    BY <1>0, <2>2, <2>3, <2>4, <2>5, <2>6, AdmitInv DEF DocumentOps
<1>3. ASSUME NEW docs \in SUBSET Docs, NEW op \in {"delete", "approve", "reject"},
             BeginOther(r, op, docs)
      PROVE  TypeOK' /\ LedgerInv'
  <2>1. PICK u \in Users, d \in docs :
               /\ row[d].life # "absent"
               /\ Admit(r, op, u, d, 0, NoInput, trip.settings)
    BY <1>3 DEF BeginOther
  <2>2. d \in Docs
    BY <1>3
  <2> QED
    BY <1>0, <2>1, <2>2, BlankRow, AdmitInv DEF DocumentOps
<1>4. CASE BeginSettings(r)
  <2>1. PICK u \in Planners, s \in SettingsChoices, v \in 1 .. trip.version :
               Admit(r, "settings", u, NoDoc, v, NoInput, s)
    BY <1>4 DEF BeginSettings
  <2>2. v \in Nat
    BY DEF TypeOK, Trip
  <2>3. u \in Users /\ s \in Settings
    BY LedgerAssumption
  <2> QED
    BY <2>1, <2>2, <2>3, BlankRow, AdmitInv DEF DocumentOps, TripOps
<1>5. CASE BeginArchive(r)
  <2>1. PICK u \in Planners, op \in {"archive", "unarchive"} :
               Admit(r, op, u, NoDoc, 0, NoInput, NoSettings)
    BY <1>5 DEF BeginArchive
  <2>2. u \in Users
    BY LedgerAssumption
  <2> QED
    BY <2>1, <2>2, BlankRow, AdmitInv DEF DocumentOps, TripOps
<1>6. Expenses \in SUBSET Docs /\ Settlements \in SUBSET Docs
  BY DEF Docs
<1> QED
  BY <1>1, <1>2, <1>3, <1>4, <1>5, <1>6
     DEF Begin, BeginCreateExpense, BeginUpdateExpense, BeginDeleteExpense,
         BeginApproveExpense, BeginRejectExpense, BeginRecordSettlement,
         BeginUpdateSettlement, BeginDeleteSettlement, BeginApproveSettlement,
         BeginRejectSettlement

\* Beginning a request writes nothing to the tables.
LEMMA BeginWritesNothing ==
  ASSUME NEW r \in Requests, Begin(r)
  PROVE  UNCHANGED <<trip, row, payers, splits, events>>
BY DEF Begin, BeginCreateExpense, BeginUpdateExpense, BeginDeleteExpense,
         BeginApproveExpense, BeginRejectExpense, BeginRecordSettlement,
         BeginUpdateSettlement, BeginDeleteSettlement, BeginApproveSettlement,
         BeginRejectSettlement,
       BeginCreate, BeginUpdate, BeginOther, BeginSettings, BeginArchive, Admit

\* Ending a request, or moving only the trip row, disturbs nobody else.
LEMMA FinishInv ==
  ASSUME TypeOK, LedgerInv, NEW r \in Requests,
         req' = Finished(r), UNCHANGED <<row, payers, splits, events>>, trip' \in Trip
  PROVE  TypeOK' /\ LedgerInv'
<1>1. TypeOK'
  BY IdleRequest DEF TypeOK, Finished
<1>2. RequestOK(Idle) /\ SeenOK(Idle)
  BY IdleRequest DEF RequestOK, SeenOK, DocumentOps
<1>3. \A x \in Requests : RequestOK(req'[x]) /\ SeenOK(req'[x])
  BY <1>2 DEF LedgerInv, RequestsOK, VersionIdentifiesContent, TypeOK, Finished
<1>4. RequestsOK' /\ VersionIdentifiesContent'
  BY <1>3 DEF RequestsOK, VersionIdentifiesContent, RequestOK, SeenOK
<1>5. RowsOK' /\ LinesMatchAmount'
  BY DEF LedgerInv, RowsOK, LinesMatchAmount
<1> QED
  BY <1>1, <1>4, <1>5 DEF LedgerInv

\* A request reads a live document and remembers it whole.
LEMMA ReadInv ==
  ASSUME TypeOK, LedgerInv, NEW r \in Requests, ReadExpense(r) \/ ReadSettlement(r)
  PROVE  TypeOK' /\ LedgerInv'
<1> DEFINE q == req[r]
           new == [q EXCEPT !.pc = "read", !.seen = row[q.doc]]
<1>0. q \in Request /\ RequestOK(q)
  BY DEF TypeOK, LedgerInv, RequestsOK
<1>1. /\ q.pc = "begun"
      /\ q.op \in {"update", "delete", "approve", "reject"}
      /\ q.doc \in Docs
      /\ row[q.doc].life = "live"
      /\ q.op \in {"approve", "reject"} => row[q.doc].status = "pending"
      /\ req' = [req EXCEPT ![r] = new]
      /\ UNCHANGED <<trip, row, payers, splits, events>>
  BY DEF ReadExpense, ReadSettlement, Docs
<1>2. row[q.doc] \in Row /\ row[q.doc].amount \in Amounts
  BY <1>1 DEF TypeOK
<1>3. new \in Request
  BY <1>0, <1>2 DEF Request
<1>4. TypeOK'
  BY <1>1, <1>3 DEF TypeOK
<1>5. RequestOK(new)
  BY <1>0, <1>1, <1>2 DEF RequestOK, DocumentOps, Request
<1>6. SeenOK(new)
  BY <1>0, <1>2 DEF SeenOK, Request, Row
<1> HIDE DEF new
<1>7. \A x \in Requests : RequestOK(req'[x]) /\ SeenOK(req'[x])
  BY <1>1, <1>5, <1>6 DEF LedgerInv, RequestsOK, VersionIdentifiesContent, TypeOK
<1>8. RequestsOK' /\ VersionIdentifiesContent'
  BY <1>1, <1>7 DEF RequestsOK, VersionIdentifiesContent, RequestOK, SeenOK
<1>9. RowsOK' /\ LinesMatchAmount'
  BY <1>1 DEF LedgerInv, RowsOK, LinesMatchAmount
<1> QED
  BY <1>4, <1>8, <1>9 DEF LedgerInv

\* What every transaction on a document does: the row it leaves is stored
\* under a higher version or no longer live, the lines add up to its amount,
\* and the request ends.
Commits(r, d, new, kind, entity) ==
  /\ new \in Row /\ entity \in Row /\ kind \in EventKinds
  /\ new.life # "absent" /\ new.amount \in Amounts /\ new.version >= 1
  /\ row[d].version <= new.version
  /\ new.life = "live" => row[d].version < new.version
  /\ row' = [row EXCEPT ![d] = new]
  /\ payers' \in [Expenses -> Nat] /\ splits' \in [Expenses -> Nat]
  /\ \A e \in Expenses :
       /\ payers'[e] = IF e = d THEN new.amount ELSE payers[e]
       /\ splits'[e] = IF e = d THEN new.amount ELSE splits[e]
  /\ events' = [events EXCEPT ![d] =
                   [count |-> @.count + 1, kind |-> kind, amount |-> entity.amount]]
  /\ req' = Finished(r)
  /\ UNCHANGED trip

\* Such a transaction falsifies no other request's knowledge.
LEMMA CommitInv ==
  ASSUME TypeOK, LedgerInv, NEW r \in Requests, NEW d \in Docs, NEW new,
         NEW kind, NEW entity, Commits(r, d, new, kind, entity)
  PROVE  TypeOK' /\ LedgerInv'
<1> USE DEF Commits
<1>1. row' \in [Docs -> Row] /\ \A x \in Docs : row'[x] = IF x = d THEN new ELSE row[x]
  BY DEF TypeOK
<1>2. TypeOK'
  <2>1. events' \in [Docs -> [count : Nat, kind : EventKinds, amount : Nat]]
    BY DEF TypeOK, Row
  <2> QED
    BY <1>1, <2>1, IdleRequest DEF TypeOK, Finished
<1>3. RowsOK'
  BY <1>1 DEF LedgerInv, RowsOK
<1>4. LinesMatchAmount'
  BY <1>1 DEF LedgerInv, LinesMatchAmount, Docs
<1>5. ASSUME NEW x \in Requests
      PROVE  RequestOK(req[x])' /\ SeenOK(req[x])'
  <2>1. CASE x = r
    <3>1. req'[x] = Idle
      BY <2>1 DEF TypeOK, Finished
    <3> QED
      BY <3>1, IdleRequest DEF RequestOK, SeenOK, DocumentOps
  <2>2. CASE x # r
    <3> DEFINE q == req[x]
    <3>1. req'[x] = q /\ q \in Request /\ RequestOK(q) /\ SeenOK(q)
      BY <2>2 DEF TypeOK, Finished, LedgerInv, RequestsOK, VersionIdentifiesContent
    <3>2. q.version \in Nat /\ q.seen.version \in Nat
      BY <3>1 DEF Request, Row
    <3>3. CASE q.doc # d
      <4>1. q.doc \in Docs => row'[q.doc] = row[q.doc]
        BY <1>1, <3>3
      <4> QED
        BY <3>1, <4>1 DEF RequestOK, SeenOK
    <3>4. CASE q.doc = d
      <4>1. row'[q.doc] = new /\ row[d].version \in Nat /\ new.version \in Nat
        BY <1>1, <3>4 DEF TypeOK, Row
      <4>2. RequestOK(req[x])'
        BY <3>1, <3>2, <3>4, <4>1 DEF RequestOK
      <4>3. SeenOK(req[x])'
        BY <3>1, <3>2, <3>4, <4>1 DEF SeenOK
      <4> QED
        BY <4>2, <4>3
    <3> QED
      BY <3>3, <3>4
  <2> QED
    BY <2>1, <2>2
<1>6. RequestsOK' /\ VersionIdentifiesContent'
  BY <1>5 DEF RequestsOK, VersionIdentifiesContent
<1> QED
  BY <1>2, <1>3, <1>4, <1>6 DEF LedgerInv

\* A transaction whose version check succeeds holds the document as it is.
LEMMA HeldIsCurrent ==
  ASSUME TypeOK, LedgerInv, NEW r \in Requests, req[r].pc = "read",
         NEW v \in Nat, v <= req[r].seen.version, VersionHeld(r, v)
  PROVE  req[r].seen = row[req[r].doc]
<1>1. req[r] \in Request /\ RequestOK(req[r]) /\ SeenOK(req[r])
  BY DEF TypeOK, LedgerInv, RequestsOK, VersionIdentifiesContent
<1>2. req[r].doc \in Docs
  BY <1>1 DEF RequestOK, DocumentOps
<1>3. row[req[r].doc].version \in Nat /\ req[r].seen.version \in Nat
  BY <1>1, <1>2 DEF TypeOK, Request, Row
<1> QED
  BY <1>1, <1>3 DEF SeenOK, VersionHeld

LEMMA CreateInv ==
  ASSUME TypeOK, LedgerInv, NEW r \in Requests, CreateDocument(r)
  PROVE  TypeOK' /\ LedgerInv'
<1> DEFINE q == req[r]
           new == NewRow(q.user, q.input, ApprovalRequired(q.settings, q.doc))
<1>1. q \in Request /\ RequestOK(q) /\ q.op = "create"
  BY DEF TypeOK, LedgerInv, RequestsOK, CreateDocument
<1>2. q.doc \in Docs /\ q.user \in Users /\ q.input \in Input /\ q.input.amount \in Amounts
  BY <1>1 DEF RequestOK, DocumentOps, Request
<1>3. ApprovalRequired(q.settings, q.doc) \in BOOLEAN
  BY <1>1, RequiredBoolean DEF Request
<1>4. new \in Row
  <2> HIDE DEF q
  <2>1. "approved" \in {"approved", "rejected"} /\ Blank \in Row
    BY BlankRow
  <2> QED
    BY <1>2, <1>3, <2>1, RowFunctions
<1>5. new.life = "live" /\ new.amount = q.input.amount /\ new.version = 1
  BY DEF NewRow
<1>6. row[q.doc].version = 0
  BY <1>2 DEF CreateDocument, LedgerInv, RowsOK, Blank
<1>7. /\ row' = [row EXCEPT ![q.doc] = new]
      /\ payers' = Rewritten(payers, q.doc, new.amount)
      /\ splits' = Rewritten(splits, q.doc, new.amount)
      /\ events' = Emitted(r, "created", new)
      /\ req' = Finished(r)
      /\ UNCHANGED trip
  BY DEF CreateDocument, PayersBalance, Rewritten
<1>8. new.amount \in Nat
  BY <1>4 DEF Row
<1> HIDE DEF new
<1>9. payers' \in [Expenses -> Nat] /\ splits' \in [Expenses -> Nat]
  BY <1>7, <1>8 DEF TypeOK, Rewritten
<1>10. \A e \in Expenses :
         /\ payers'[e] = IF e = q.doc THEN new.amount ELSE payers[e]
         /\ splits'[e] = IF e = q.doc THEN new.amount ELSE splits[e]
  BY <1>7, <1>8 DEF TypeOK, Rewritten
<1>11. events' = [events EXCEPT ![q.doc] =
                   [count |-> @.count + 1, kind |-> "created", amount |-> new.amount]]
  BY <1>7 DEF Emitted
<1> HIDE DEF q
<1>20. Commits(r, q.doc, new, "created", new)
  BY <1>2, <1>4, <1>5, <1>6, <1>7, <1>9, <1>10, <1>11 DEF EventKinds, Commits
<1> QED
  BY <1>2, <1>20, CommitInv

LEMMA UpdateInv ==
  ASSUME TypeOK, LedgerInv, NEW r \in Requests, UpdateDocument(r)
  PROVE  TypeOK' /\ LedgerInv'
<1> DEFINE q == req[r]
           required == ApprovalRequired(q.settings, q.doc)
           entity == Edited(q.seen, q.input, required)
           new == Overwritten(row[q.doc], entity)
<1>1. q \in Request /\ RequestOK(q) /\ q.op = "update" /\ q.pc = "read"
  BY DEF TypeOK, LedgerInv, RequestsOK, UpdateDocument
<1>2. q.doc \in Docs /\ q.input \in Input /\ q.seen \in Row /\ q.seen.amount \in Amounts
  BY <1>1 DEF RequestOK, DocumentOps, Request
<1>3. required \in BOOLEAN
  BY <1>1, RequiredBoolean DEF Request
<1>4. q.seen = row[q.doc]
  BY <1>1, HeldIsCurrent DEF UpdateDocument, RequestOK, Request
<1>5. /\ entity \in Row
      /\ entity.amount \in Amounts
      /\ ~RowsChanged(q.input) => entity.amount = row[q.doc].amount
  <2> HIDE DEF q, required
  <2>1. q.user \in Users
    BY <1>1 DEF RequestOK, DocumentOps
  <2> QED
    BY <1>2, <1>3, <1>4, <2>1, RowFunctions, EditedAmount
<1>6. row[q.doc] \in Row /\ row[q.doc].life = "live"
  BY <1>2 DEF TypeOK, UpdateDocument, VersionHeld
<1>7. /\ new \in Row
      /\ new.version = row[q.doc].version + 1
      /\ new.life = "live"
      /\ new.amount = entity.amount
  <2> HIDE DEF entity
  <2> QED
    BY <1>5, <1>6, OverwrittenRow
<1>8. /\ row' = [row EXCEPT ![q.doc] = new]
      /\ IF RowsChanged(q.input)
           THEN /\ payers' = Rewritten(payers, q.doc, entity.amount)
                /\ splits' = Rewritten(splits, q.doc, entity.amount)
           ELSE UNCHANGED <<payers, splits>>
      /\ events' = Emitted(r, "updated", entity)
      /\ req' = Finished(r)
      /\ UNCHANGED trip
  BY <1>2 DEF UpdateDocument, TypeOK, PayersBalance, Rewritten
<1>9. entity.amount \in Nat
  BY <1>5 DEF Row
<1> HIDE DEF new, entity, required
<1>10. payers' \in [Expenses -> Nat] /\ splits' \in [Expenses -> Nat]
  BY <1>8, <1>9 DEF TypeOK, Rewritten
<1>11. \A e \in Expenses :
         /\ payers'[e] = IF e = q.doc THEN new.amount ELSE payers[e]
         /\ splits'[e] = IF e = q.doc THEN new.amount ELSE splits[e]
  BY <1>5, <1>7, <1>8, <1>9 DEF TypeOK, Rewritten, LedgerInv, LinesMatchAmount
<1>12. events' = [events EXCEPT ![q.doc] =
                   [count |-> @.count + 1, kind |-> "updated", amount |-> entity.amount]]
  BY <1>8 DEF Emitted
<1>13. row[q.doc].version \in Nat
  BY <1>6 DEF Row
<1> HIDE DEF q
<1>20. Commits(r, q.doc, new, "updated", entity)
  BY <1>2, <1>5, <1>7, <1>8, <1>10, <1>11, <1>12, <1>13 DEF EventKinds, Commits
<1> QED
  BY <1>2, <1>20, CommitInv

LEMMA DecideInv ==
  ASSUME TypeOK, LedgerInv, NEW r \in Requests, DecideDocument(r)
  PROVE  TypeOK' /\ LedgerInv'
<1> DEFINE q == req[r]
           decision == IF q.op = "approve" THEN "approved" ELSE "rejected"
           entity == Decided(q.seen, q.user, decision)
           new == Overwritten(row[q.doc], entity)
<1>1. q \in Request /\ RequestOK(q) /\ q.op \in {"approve", "reject"} /\ q.pc = "read"
  BY DEF TypeOK, LedgerInv, RequestsOK, DecideDocument
<1>2. q.doc \in Docs /\ q.user \in Users /\ q.seen \in Row /\ q.seen.amount \in Amounts
  BY <1>1 DEF RequestOK, DocumentOps, Request
<1>3. q.seen = row[q.doc]
  <2>1. q.seen.version \in Nat
    BY <1>2 DEF Row
  <2> QED
    BY <1>1, <2>1, HeldIsCurrent DEF DecideDocument
<1>4. entity \in Row /\ entity.amount = row[q.doc].amount
  <2>1. entity \in Row
    <3> HIDE DEF q
    <3> QED
      BY <1>2, BlankRow, RowFunctions
  <2> QED
    BY <1>2, <1>3, <2>1 DEF Decided, Row
<1>5. row[q.doc] \in Row /\ row[q.doc].life = "live"
  BY <1>2 DEF TypeOK, DecideDocument, VersionHeld
<1>6. /\ new \in Row
      /\ new.version = row[q.doc].version + 1
      /\ new.life = "live"
      /\ new.amount = row[q.doc].amount
  <2> HIDE DEF entity
  <2> QED
    BY <1>4, <1>5, OverwrittenRow
<1>7. /\ row' = [row EXCEPT ![q.doc] = new]
      /\ events' = Emitted(r, decision, entity)
      /\ req' = Finished(r)
      /\ UNCHANGED <<trip, payers, splits>>
  BY <1>2 DEF DecideDocument, TypeOK
<1> HIDE DEF new, entity
<1>8. payers' \in [Expenses -> Nat] /\ splits' \in [Expenses -> Nat]
  BY <1>7 DEF TypeOK
<1>9. \A e \in Expenses :
        /\ payers'[e] = IF e = q.doc THEN new.amount ELSE payers[e]
        /\ splits'[e] = IF e = q.doc THEN new.amount ELSE splits[e]
  BY <1>6, <1>7 DEF LedgerInv, LinesMatchAmount
<1>10. events' = [events EXCEPT ![q.doc] =
                   [count |-> @.count + 1, kind |-> decision, amount |-> entity.amount]]
  BY <1>7 DEF Emitted
<1>11. decision \in EventKinds /\ row[q.doc].version \in Nat
  BY <1>5 DEF EventKinds, Row
<1>12. new.amount \in Amounts
  BY <1>2, <1>3, <1>6
<1> HIDE DEF q, decision
<1>20. Commits(r, q.doc, new, decision, entity)
  BY <1>2, <1>4, <1>6, <1>7, <1>8, <1>9, <1>10, <1>11, <1>12 DEF Commits
<1> QED
  BY <1>2, <1>20, CommitInv

LEMMA DeleteInv ==
  ASSUME TypeOK, LedgerInv, NEW r \in Requests, DeleteDocument(r)
  PROVE  TypeOK' /\ LedgerInv'
<1> DEFINE q == req[r]
           new == Deleted(row[q.doc])
<1>1. q \in Request /\ RequestOK(q) /\ q.op = "delete" /\ q.pc = "read"
  BY DEF TypeOK, LedgerInv, RequestsOK, DeleteDocument
<1>2. q.doc \in Docs /\ q.seen \in Row
  BY <1>1 DEF RequestOK, DocumentOps, Request
<1>3. row[q.doc] \in Row /\ row[q.doc].life = "live"
  BY <1>2 DEF TypeOK, DeleteDocument
<1>4. row[q.doc].amount \in Amounts /\ row[q.doc].version >= 1
  BY <1>2, <1>3 DEF LedgerInv, RowsOK
<1>5. /\ new \in Row
      /\ new.life = "deleted"
      /\ new.version = row[q.doc].version
      /\ new.amount = row[q.doc].amount
  BY <1>3 DEF Deleted, Row
<1>6. /\ row' = [row EXCEPT ![q.doc] = new]
      /\ events' = Emitted(r, "deleted", q.seen)
      /\ req' = Finished(r)
      /\ UNCHANGED <<trip, payers, splits>>
  BY <1>2 DEF DeleteDocument, TypeOK
<1> HIDE DEF new
<1>7. payers' \in [Expenses -> Nat] /\ splits' \in [Expenses -> Nat]
  BY <1>6 DEF TypeOK
<1>8. \A e \in Expenses :
        /\ payers'[e] = IF e = q.doc THEN new.amount ELSE payers[e]
        /\ splits'[e] = IF e = q.doc THEN new.amount ELSE splits[e]
  BY <1>5, <1>6 DEF LedgerInv, LinesMatchAmount
<1>9. events' = [events EXCEPT ![q.doc] =
                  [count |-> @.count + 1, kind |-> "deleted", amount |-> q.seen.amount]]
  BY <1>6 DEF Emitted
<1>10. row[q.doc].version \in Nat
  BY <1>3 DEF Row
<1> HIDE DEF q
<1>11. /\ new.amount \in Amounts /\ new.version >= 1
       /\ row[q.doc].version <= new.version
       /\ new.life # "absent" /\ new.life # "live"
  BY <1>4, <1>5, <1>10
<1>20. Commits(r, q.doc, new, "deleted", q.seen)
  BY <1>2, <1>5, <1>6, <1>7, <1>8, <1>9, <1>11 DEF EventKinds, Commits
<1> QED
  BY <1>2, <1>20, CommitInv

\* Every step keeps the invariant.
LEMMA NextInv == TypeOK /\ LedgerInv /\ [Next]_vars => TypeOK' /\ LedgerInv'
<1> SUFFICES ASSUME TypeOK, LedgerInv, [Next]_vars PROVE TypeOK' /\ LedgerInv'
  OBVIOUS
<1>1. CASE UNCHANGED vars
  BY <1>1 DEF vars, TypeOK, LedgerInv, RowsOK, RequestsOK, RequestOK,
              VersionIdentifiesContent, SeenOK, LinesMatchAmount
<1>2. ASSUME NEW r \in Requests, Begin(r)
      PROVE  TypeOK' /\ LedgerInv'
  BY <1>2, BeginInv
<1>3. ASSUME NEW r \in Requests, Serve(r)
      PROVE  TypeOK' /\ LedgerInv'
  <2>1. CASE ReadExpense(r) \/ ReadSettlement(r)
    BY <2>1, ReadInv
  <2>2. CASE CreateExpense(r) \/ RecordSettlement(r)
    BY <2>2, CreateInv DEF CreateExpense, RecordSettlement
  <2>3. CASE UpdateExpense(r) \/ UpdateSettlement(r)
    BY <2>3, UpdateInv DEF UpdateExpense, UpdateSettlement
  <2>4. CASE DecideExpense(r) \/ DecideSettlement(r)
    BY <2>4, DecideInv DEF DecideExpense, DecideSettlement
  <2>5. CASE DeleteExpense(r) \/ DeleteSettlement(r)
    BY <2>5, DeleteInv DEF DeleteExpense, DeleteSettlement
  <2>6. CASE CommitSettings(r)
    <3>0. req[r].settings \in Settings /\ trip.version + 1 \in Nat /\ trip \in Trip
      BY DEF TypeOK, Trip, Request
    <3>1. trip' \in Trip
      BY <2>6, <3>0 DEF CommitSettings, Trip
    <3> QED
      BY <2>6, <3>1, FinishInv DEF CommitSettings
  <2>7. CASE CommitArchive(r)
    <3> DEFINE flag == (req[r].op = "archive")
    <3>0. trip.version + 1 \in Nat /\ trip \in Trip /\ flag \in BOOLEAN
      BY DEF TypeOK, Trip
    <3>2. trip' = [trip EXCEPT !.archived = flag, !.version = @ + 1]
      BY <2>7 DEF CommitArchive
    <3> HIDE DEF flag
    <3>1. trip' \in Trip
      BY <3>0, <3>2 DEF Trip
    <3> QED
      BY <2>7, <3>1, FinishInv DEF CommitArchive
  <2>8. CASE Fail(r)
    BY <2>8, FinishInv DEF Fail, TypeOK
  <2> QED
    BY <1>3, <2>1, <2>2, <2>3, <2>4, <2>5, <2>6, <2>7, <2>8 DEF Serve
<1> QED
  BY <1>1, <1>2, <1>3 DEF Next

\* Each variable keeps its type and the inductive invariant holds, whatever
\* the number of overlapping requests (all handlers of the ledger services).
THEOREM LedgerInvariant == Spec => [](TypeOK /\ LedgerInv)
  BY InitInv, NextInv, PTL DEF Spec

\* Type correctness; in particular no document in use ever has an amount a
\* client could not have entered.
THEOREM TypeCorrect == Spec => []TypeOK
  BY LedgerInvariant, PTL

\* The three tables of an expense agree after every transaction, although an
\* edit takes the amount from a row it read before the transaction began.
THEOREM LinesAgree == Spec => []LinesMatchAmount
<1>1. LedgerInv => LinesMatchAmount
  BY DEF LedgerInv
<1> QED
  BY <1>1, LedgerInvariant, PTL

\* Holding the current version means holding the current content.
THEOREM VersionIsContent == Spec => []VersionIdentifiesContent
<1>1. LedgerInv => VersionIdentifiesContent
  BY DEF LedgerInv
<1> QED
  BY <1>1, LedgerInvariant, PTL

---------------------------------------------------------------------------------
(* The ledger implements the atomic ledger.                                *)

\* The two specifications apply the same functions to rows.
LEMMA SameRows ==
  /\ Atomic!Docs = Docs /\ Atomic!Blank = Blank /\ Atomic!Input = Input
  /\ \A u, in, required : Atomic!NewRow(u, in, required) = NewRow(u, in, required)
  /\ \A old, in, required : Atomic!Edited(old, in, required) = Edited(old, in, required)
  /\ \A old, u, decision : Atomic!Decided(old, u, decision) = Decided(old, u, decision)
  /\ \A old, entity : Atomic!Overwritten(old, entity) = Overwritten(old, entity)
  /\ \A old : Atomic!Deleted(old) = Deleted(old)
  /\ \A in : Atomic!RowsChanged(in) <=> RowsChanged(in)
BY DEF Atomic!Docs, Docs, Atomic!Blank, Blank, Atomic!Input, Input,
       Atomic!NewRow, NewRow, Atomic!Edited, Edited, Atomic!Reopens, Reopens,
       Atomic!Decided, Decided, Atomic!Overwritten, Overwritten,
       Atomic!Deleted, Deleted, Atomic!RowsChanged, RowsChanged

LEMMA CreateAtomic ==
  ASSUME TypeOK, LedgerInv, NEW r \in Requests, CreateDocument(r)
  PROVE  Atomic!Create(req[r].doc) /\ req[r].doc \in Docs
<1> DEFINE q == req[r]
           required == ApprovalRequired(q.settings, q.doc)
<1>1. q \in Request /\ RequestOK(q) /\ q.op = "create"
  BY DEF TypeOK, LedgerInv, RequestsOK, CreateDocument
<1>2. q.doc \in Docs /\ q.user \in Users /\ q.input \in Input /\ q.input.amount \in Amounts
  BY <1>1 DEF RequestOK, DocumentOps, Request
<1>3. required \in BOOLEAN /\ q.input.amount # 0
  BY <1>1, <1>2, RequiredBoolean, AmountsNat DEF Request
<1>4. /\ row[q.doc].life = "absent"
      /\ row' = [row EXCEPT ![q.doc] = NewRow(q.user, q.input, required)]
      /\ payers' = Rewritten(payers, q.doc, q.input.amount)
      /\ splits' = Rewritten(splits, q.doc, q.input.amount)
  BY DEF CreateDocument, NewRow, PayersBalance, Rewritten
<1>5. Atomic!Rewrite(q.doc, q.input.amount)
  BY <1>4 DEF Atomic!Rewrite, Rewritten
<1> HIDE DEF q, required
<1>6. row' = [row EXCEPT ![q.doc] = Atomic!NewRow(q.user, q.input, required)]
  BY <1>4, SameRows
<1>7. q.input \in Atomic!Input
  BY <1>2, SameRows
<1>8. Atomic!Create(q.doc)
  BY <1>2, <1>3, <1>4, <1>5, <1>6, <1>7 DEF Atomic!Create
<1> QED
  BY <1>2, <1>8 DEF q

LEMMA UpdateAtomic ==
  ASSUME TypeOK, LedgerInv, NEW r \in Requests, UpdateDocument(r)
  PROVE  Atomic!Edit(req[r].doc) /\ req[r].doc \in Docs
<1> DEFINE q == req[r]
           required == ApprovalRequired(q.settings, q.doc)
           entity == Edited(row[q.doc], q.input, required)
<1>1. q \in Request /\ RequestOK(q) /\ q.op = "update" /\ q.pc = "read"
  BY DEF TypeOK, LedgerInv, RequestsOK, UpdateDocument
<1>2. q.doc \in Docs /\ q.input \in Input
  BY <1>1 DEF RequestOK, DocumentOps, Request
<1>3. required \in BOOLEAN
  BY <1>1, RequiredBoolean DEF Request
<1>4. q.seen = row[q.doc]
  BY <1>1, HeldIsCurrent DEF UpdateDocument, RequestOK, Request
<1>5. /\ row[q.doc].life = "live"
      /\ row' = [row EXCEPT ![q.doc] = Overwritten(@, entity)]
      /\ IF RowsChanged(q.input)
           THEN /\ payers' = Rewritten(payers, q.doc, entity.amount)
                /\ splits' = Rewritten(splits, q.doc, entity.amount)
           ELSE UNCHANGED <<payers, splits>>
  BY <1>4 DEF UpdateDocument, VersionHeld, PayersBalance, Rewritten
<1>6. IF RowsChanged(q.input) THEN Atomic!Rewrite(q.doc, entity.amount)
                              ELSE UNCHANGED <<payers, splits>>
  BY <1>5 DEF Atomic!Rewrite, Rewritten
<1> DEFINE abstract == Atomic!Edited(row[q.doc], q.input, required)
<1>7. abstract = entity
  BY SameRows
<1>8. row' = [row EXCEPT ![q.doc] = Atomic!Overwritten(@, abstract)]
  <2> HIDE DEF entity, abstract
  <2> QED
    BY <1>5, <1>7, SameRows
<1>9. IF Atomic!RowsChanged(q.input) THEN Atomic!Rewrite(q.doc, abstract.amount)
                                     ELSE UNCHANGED <<payers, splits>>
  <2> HIDE DEF entity, abstract
  <2> QED
    BY <1>6, <1>7, SameRows
<1>10. q.input \in Atomic!Input
  BY <1>2, SameRows
<1> HIDE DEF q, required, entity
<1>11. Atomic!Edit(q.doc)
  BY <1>3, <1>5, <1>8, <1>9, <1>10 DEF Atomic!Edit
<1> QED
  BY <1>2, <1>11 DEF q

LEMMA DecideAtomic ==
  ASSUME TypeOK, LedgerInv, NEW r \in Requests, DecideDocument(r)
  PROVE  Atomic!Decide(req[r].doc) /\ req[r].doc \in Docs
<1> DEFINE q == req[r]
           decision == IF q.op = "approve" THEN "approved" ELSE "rejected"
<1>1. q \in Request /\ RequestOK(q) /\ q.op \in {"approve", "reject"} /\ q.pc = "read"
  BY DEF TypeOK, LedgerInv, RequestsOK, DecideDocument
<1>2. q.doc \in Docs /\ q.user \in Users /\ q.seen \in Row /\ q.seen.status = "pending"
  BY <1>1 DEF RequestOK, DocumentOps, Request
<1>3. q.seen = row[q.doc]
  <2>1. q.seen.version \in Nat
    BY <1>2 DEF Row
  <2> QED
    BY <1>1, <2>1, HeldIsCurrent DEF DecideDocument
<1>4. /\ row[q.doc].life = "live"
      /\ row' = [row EXCEPT ![q.doc] = Overwritten(@, Decided(@, q.user, decision))]
      /\ UNCHANGED <<payers, splits>>
  BY <1>3 DEF DecideDocument, VersionHeld
<1>5. row' = [row EXCEPT ![q.doc] =
                Atomic!Overwritten(@, Atomic!Decided(@, q.user, decision))]
  BY <1>4, SameRows
<1>6. decision \in {"approved", "rejected"} /\ row[q.doc].status = "pending"
  BY <1>2, <1>3
<1> HIDE DEF q, decision
<1>7. Atomic!Decide(q.doc)
  BY <1>2, <1>4, <1>5, <1>6 DEF Atomic!Decide
<1> QED
  BY <1>2, <1>7 DEF q

LEMMA DeleteAtomic ==
  ASSUME TypeOK, LedgerInv, NEW r \in Requests, DeleteDocument(r)
  PROVE  Atomic!Delete(req[r].doc) /\ req[r].doc \in Docs
<1>1. req[r].doc \in Docs
  BY DEF TypeOK, LedgerInv, RequestsOK, RequestOK, DocumentOps, DeleteDocument
<1>2. /\ row[req[r].doc].life = "live"
      /\ row' = [row EXCEPT ![req[r].doc] = Atomic!Deleted(@)]
      /\ UNCHANGED <<payers, splits>>
  BY SameRows DEF DeleteDocument
<1> QED
  BY <1>1, <1>2 DEF Atomic!Delete

\* Every step of the ledger is one atomic operation on one document, or leaves
\* the three tables alone.
LEMMA StepAtomic == TypeOK /\ LedgerInv /\ [Next]_vars => [Atomic!Next]_(Atomic!tables)
<1> SUFFICES ASSUME TypeOK, LedgerInv, [Next]_vars
             PROVE  Atomic!Next \/ UNCHANGED <<row, payers, splits>>
  BY DEF Atomic!tables
<1>1. CASE UNCHANGED vars
  BY <1>1 DEF vars
<1>2. ASSUME NEW r \in Requests, Begin(r)
      PROVE  UNCHANGED <<row, payers, splits>>
  BY <1>2, BeginWritesNothing
<1>3. ASSUME NEW r \in Requests, Serve(r)
      PROVE  Atomic!Next \/ UNCHANGED <<row, payers, splits>>
  <2>1. CASE CreateDocument(r)
    BY <2>1, CreateAtomic, SameRows DEF Atomic!Next
  <2>2. CASE UpdateDocument(r)
    BY <2>2, UpdateAtomic, SameRows DEF Atomic!Next
  <2>3. CASE DecideDocument(r)
    BY <2>3, DecideAtomic, SameRows DEF Atomic!Next
  <2>4. CASE DeleteDocument(r)
    BY <2>4, DeleteAtomic, SameRows DEF Atomic!Next
  <2>5. CASE ReadExpense(r) \/ ReadSettlement(r) \/ CommitSettings(r) \/ CommitArchive(r) \/ Fail(r)
    BY <2>5 DEF ReadExpense, ReadSettlement, CommitSettings, CommitArchive, Fail
  <2> QED
    BY <1>3, <2>1, <2>2, <2>3, <2>4, <2>5
    DEF Serve, CreateExpense, RecordSettlement, UpdateExpense, UpdateSettlement,
        DecideExpense, DecideSettlement, DeleteExpense, DeleteSettlement
<1> QED
  BY <1>1, <1>2, <1>3 DEF Next

\* Optimistic locking is enough: however requests overlap and however stale the
\* rows they read, the tables evolve as if every successful request had run
\* alone (expense and settlement services over expenses.Update).
THEOREM LedgerLinearises == Spec => Linearises
<1>1. Init => Atomic!Init
  BY SameRows DEF Init, Atomic!Init
<1>2. QED
  BY <1>1, StepAtomic, LedgerInvariant, PTL DEF Spec, Linearises, Atomic!Spec

---------------------------------------------------------------------------------
(* The outbox.                                                             *)

\* What every transaction on a document publishes: one event more, about the row
\* it leaves.
Publishes(d, new, kind, amount) ==
  /\ row' = [row EXCEPT ![d] = new]
  /\ events' = [events EXCEPT ![d] =
                  [count |-> @.count + 1, kind |-> kind, amount |-> amount]]
  /\ \/ /\ new.life = "live" /\ new.version = row[d].version + 1
        /\ row[d].life # "deleted"
        /\ amount = new.amount
        /\ kind # "deleted"
        /\ kind \in {"approved", "rejected"} => new.status = kind
     \/ /\ new.life = "deleted" /\ new.version = row[d].version
        /\ row[d].life = "live"
        /\ kind = "deleted"

LEMMA PublishEvents ==
  ASSUME TypeOK, EventsFollowCommits, NEW d \in Docs, NEW new, NEW kind, NEW amount,
         Publishes(d, new, kind, amount)
  PROVE  EventsFollowCommits'
<1>1. ASSUME NEW x \in Docs, x # d
      PROVE  row'[x] = row[x] /\ events'[x] = events[x]
  BY <1>1 DEF TypeOK, Publishes
<1>2. /\ row'[d] = new
      /\ events'[d] = [count |-> events[d].count + 1, kind |-> kind, amount |-> amount]
  BY DEF TypeOK, Publishes
<1>3. row[d].version \in Nat /\ events[d].count \in Nat
  BY DEF TypeOK, Row
<1>4. /\ events[d].count = row[d].version + IF row[d].life = "deleted" THEN 1 ELSE 0
  BY DEF EventsFollowCommits
<1>5. /\ events'[d].count = row'[d].version + IF row'[d].life = "deleted" THEN 1 ELSE 0
      /\ row'[d].life = "live" => events'[d].amount = row'[d].amount
      /\ events'[d].kind = "deleted" <=> row'[d].life = "deleted"
      /\ events'[d].kind \in {"approved", "rejected"} => row'[d].status = events'[d].kind
  BY <1>2, <1>3, <1>4 DEF Publishes
<1> QED
  BY <1>1, <1>5 DEF EventsFollowCommits

LEMMA CreatePublishes ==
  ASSUME TypeOK, LedgerInv, NEW r \in Requests, CreateDocument(r)
  PROVE  \E new : Publishes(req[r].doc, new, "created", new.amount) /\ req[r].doc \in Docs
<1> DEFINE q == req[r]
           new == NewRow(q.user, q.input, ApprovalRequired(q.settings, q.doc))
<1>1. q.doc \in Docs
  BY DEF TypeOK, LedgerInv, RequestsOK, RequestOK, DocumentOps, CreateDocument
<1>2. row[q.doc] = Blank
  BY <1>1 DEF CreateDocument, LedgerInv, RowsOK
<1>3. /\ new.life = "live" /\ new.version = row[q.doc].version + 1
      /\ row[q.doc].life # "deleted"
  BY <1>2 DEF NewRow, Blank
<1>4. row' = [row EXCEPT ![q.doc] = new] /\ events' = Emitted(r, "created", new)
  BY DEF CreateDocument
<1> HIDE DEF new
<1>5. Publishes(q.doc, new, "created", new.amount)
  BY <1>3, <1>4 DEF Publishes, Emitted
<1> QED
  BY <1>1, <1>5

LEMMA UpdatePublishes ==
  ASSUME TypeOK, LedgerInv, NEW r \in Requests, UpdateDocument(r)
  PROVE  \E new : Publishes(req[r].doc, new, "updated", new.amount) /\ req[r].doc \in Docs
<1> DEFINE q == req[r]
           entity == Edited(q.seen, q.input, ApprovalRequired(q.settings, q.doc))
           new == Overwritten(row[q.doc], entity)
<1>1. q.doc \in Docs
  BY DEF TypeOK, LedgerInv, RequestsOK, RequestOK, DocumentOps, UpdateDocument
<1>2. row[q.doc] \in Row /\ row[q.doc].life = "live"
  BY <1>1 DEF TypeOK, UpdateDocument, VersionHeld
<1>3. /\ new.life = "live" /\ new.version = row[q.doc].version + 1
      /\ new.amount = entity.amount
  BY <1>2 DEF Overwritten, Row
<1>4. row' = [row EXCEPT ![q.doc] = new] /\ events' = Emitted(r, "updated", entity)
  BY <1>1 DEF UpdateDocument, TypeOK
<1> HIDE DEF new, entity
<1>5. Publishes(q.doc, new, "updated", new.amount)
  BY <1>2, <1>3, <1>4 DEF Publishes, Emitted
<1> QED
  BY <1>1, <1>5

LEMMA DecidePublishes ==
  ASSUME TypeOK, LedgerInv, NEW r \in Requests, DecideDocument(r)
  PROVE  \E new, kind : Publishes(req[r].doc, new, kind, new.amount) /\ req[r].doc \in Docs
<1> DEFINE q == req[r]
           decision == IF q.op = "approve" THEN "approved" ELSE "rejected"
           entity == Decided(q.seen, q.user, decision)
           new == Overwritten(row[q.doc], entity)
<1>1. q.doc \in Docs /\ q.seen \in Row
  BY DEF TypeOK, LedgerInv, RequestsOK, RequestOK, DocumentOps, DecideDocument, Request
<1>2. row[q.doc] \in Row /\ row[q.doc].life = "live"
  BY <1>1 DEF TypeOK, DecideDocument, VersionHeld
<1>3. entity.status = decision
  BY <1>1 DEF Decided, Row
<1>4. row' = [row EXCEPT ![q.doc] = new] /\ events' = Emitted(r, decision, entity)
  BY <1>1 DEF DecideDocument, TypeOK
<1>5. decision # "deleted"
  OBVIOUS
<1> HIDE DEF entity, decision
<1>6. /\ new.life = "live" /\ new.version = row[q.doc].version + 1
      /\ new.amount = entity.amount /\ new.status = entity.status
  BY <1>2 DEF Overwritten, Row
<1> HIDE DEF new
<1>7. Publishes(q.doc, new, decision, new.amount)
  BY <1>2, <1>3, <1>4, <1>5, <1>6 DEF Publishes, Emitted
<1> QED
  BY <1>1, <1>7

LEMMA DeletePublishes ==
  ASSUME TypeOK, LedgerInv, NEW r \in Requests, DeleteDocument(r)
  PROVE  \E new, amount : Publishes(req[r].doc, new, "deleted", amount) /\ req[r].doc \in Docs
<1> DEFINE q == req[r]
           new == Deleted(row[q.doc])
<1>1. q.doc \in Docs
  BY DEF TypeOK, LedgerInv, RequestsOK, RequestOK, DocumentOps, DeleteDocument
<1>2. row[q.doc] \in Row /\ row[q.doc].life = "live"
  BY <1>1 DEF TypeOK, DeleteDocument
<1>3. new.life = "deleted" /\ new.version = row[q.doc].version
  BY <1>2 DEF Deleted, Row
<1>4. row' = [row EXCEPT ![q.doc] = new] /\ events' = Emitted(r, "deleted", q.seen)
  BY <1>1 DEF DeleteDocument, TypeOK
<1> HIDE DEF new
<1>5. Publishes(q.doc, new, "deleted", q.seen.amount)
  BY <1>2, <1>3, <1>4 DEF Publishes, Emitted
<1> QED
  BY <1>1, <1>5

LEMMA EventsNext ==
  TypeOK /\ LedgerInv /\ EventsFollowCommits /\ [Next]_vars => EventsFollowCommits'
<1> SUFFICES ASSUME TypeOK, LedgerInv, EventsFollowCommits, [Next]_vars
             PROVE  EventsFollowCommits'
  OBVIOUS
<1>0. CASE UNCHANGED <<row, events>>
  BY <1>0 DEF EventsFollowCommits
<1>1. CASE UNCHANGED vars
  BY <1>0, <1>1 DEF vars
<1>2. ASSUME NEW r \in Requests, Begin(r)
      PROVE  UNCHANGED <<row, events>>
  BY <1>2, BeginWritesNothing
<1>3. ASSUME NEW r \in Requests, Serve(r)
      PROVE  EventsFollowCommits'
  <2>1. CASE CreateDocument(r)
    BY <2>1, CreatePublishes, PublishEvents
  <2>2. CASE UpdateDocument(r)
    BY <2>2, UpdatePublishes, PublishEvents
  <2>3. CASE DecideDocument(r)
    BY <2>3, DecidePublishes, PublishEvents
  <2>4. CASE DeleteDocument(r)
    BY <2>4, DeletePublishes, PublishEvents
  <2>5. CASE ReadExpense(r) \/ ReadSettlement(r) \/ CommitSettings(r) \/ CommitArchive(r) \/ Fail(r)
    BY <1>0, <2>5 DEF ReadExpense, ReadSettlement, CommitSettings, CommitArchive, Fail
  <2> QED
    BY <1>3, <2>1, <2>2, <2>3, <2>4, <2>5
    DEF Serve, CreateExpense, RecordSettlement, UpdateExpense, UpdateSettlement,
        DecideExpense, DecideSettlement, DeleteExpense, DeleteSettlement
<1> QED
  BY <1>0, <1>1, <1>2, <1>3 DEF Next

\* Every committed change of a document has exactly one event, and the newest
\* event tells its present amount and decision (emit inside the transactions).
THEOREM OutboxFollowsTables == Spec => []EventsFollowCommits
<1>1. Init => EventsFollowCommits
  BY DEF Init, EventsFollowCommits, Blank, NoEvent
<1>2. QED
  BY <1>1, EventsNext, LedgerInvariant, PTL DEF Spec

---------------------------------------------------------------------------------
(* Approvals.                                                              *)

\* A document this step leaves approved with another amount was edited by a
\* request that needed no approval.
CoversAmount ==
  \A d \in Docs :
    /\ row[d].life = "live"
    /\ row'[d].amount # row[d].amount
    /\ row'[d].status = "approved"
    => \E r \in Requests : /\ req[r].doc = d
                           /\ req[r].op = "update"
                           /\ ~ApprovalRequired(req[r].settings, d)

\* Editing under approval leaves no document approved.
LEMMA EditedUnderApproval ==
  ASSUME NEW old \in Row, NEW in
  PROVE  Edited(old, in, TRUE).status # "approved"
<1>1. CASE old.status = "pending"
  BY <1>1 DEF Edited, Reopens, Row
<1>2. CASE old.status # "pending"
  BY <1>2 DEF Edited, Reopens, Row
<1> QED
  BY <1>1, <1>2

LEMMA UpdateCovers ==
  ASSUME TypeOK, LedgerInv, NEW r \in Requests, UpdateDocument(r)
  PROVE  CoversAmount
<1> DEFINE q == req[r]
           required == ApprovalRequired(q.settings, q.doc)
           entity == Edited(q.seen, q.input, required)
           new == Overwritten(row[q.doc], entity)
<1>1. q.doc \in Docs /\ q.seen \in Row /\ q.op = "update" /\ required \in BOOLEAN
  BY RequiredBoolean
  DEF TypeOK, LedgerInv, RequestsOK, RequestOK, DocumentOps, UpdateDocument, Request
<1>2. row[q.doc] \in Row
  BY <1>1 DEF TypeOK
<1>3. new.status = entity.status
  <2> HIDE DEF entity
  <2> QED
    BY <1>2 DEF Overwritten, Row
<1>4. \A d \in Docs : row'[d] = IF d = q.doc THEN new ELSE row[d]
  BY <1>1 DEF UpdateDocument, TypeOK
<1>5. required => new.status # "approved"
  BY <1>1, <1>3, EditedUnderApproval
<1> HIDE DEF new, entity
<1>6. ASSUME NEW d \in Docs, row'[d].amount # row[d].amount, row'[d].status = "approved"
      PROVE  d = q.doc /\ ~ApprovalRequired(q.settings, d)
  BY <1>4, <1>5, <1>6
<1> QED
  BY <1>1, <1>6 DEF CoversAmount

LEMMA DecideCovers ==
  ASSUME TypeOK, LedgerInv, NEW r \in Requests, DecideDocument(r)
  PROVE  CoversAmount
<1> DEFINE q == req[r]
           decision == IF q.op = "approve" THEN "approved" ELSE "rejected"
           entity == Decided(q.seen, q.user, decision)
           new == Overwritten(row[q.doc], entity)
<1>1. q \in Request /\ q.pc = "read" /\ q.doc \in Docs /\ q.seen \in Row /\ q.seen.version \in Nat
  BY DEF TypeOK, LedgerInv, RequestsOK, RequestOK, DocumentOps, DecideDocument, Request, Row
<1>2. q.seen = row[q.doc]
  BY <1>1, HeldIsCurrent DEF DecideDocument
<1>3. entity.amount = row[q.doc].amount
  BY <1>1, <1>2 DEF Decided, Row
<1>4. row[q.doc] \in Row
  BY <1>1 DEF TypeOK
<1>5. \A d \in Docs : row'[d] = IF d = q.doc THEN new ELSE row[d]
  BY <1>1 DEF DecideDocument, TypeOK
<1> HIDE DEF entity
<1>6. new.amount = entity.amount
  BY <1>4 DEF Overwritten, Row
<1> HIDE DEF new
<1> QED
  BY <1>3, <1>5, <1>6 DEF CoversAmount

LEMMA StepCovers == TypeOK /\ LedgerInv /\ [Next]_vars => [CoversAmount]_vars
<1> SUFFICES ASSUME TypeOK, LedgerInv, Next PROVE CoversAmount
  OBVIOUS
<1>1. CASE UNCHANGED row
  BY <1>1 DEF CoversAmount
<1>2. ASSUME NEW r \in Requests, Begin(r)
      PROVE  UNCHANGED row
  BY <1>2, BeginWritesNothing
<1>3. ASSUME NEW r \in Requests, Serve(r)
      PROVE  CoversAmount
  <2>1. CASE CreateDocument(r)
    <3>1. req[r].doc \in Docs /\ row[req[r].doc].life # "live"
      BY <2>1 DEF TypeOK, LedgerInv, RequestsOK, RequestOK, DocumentOps, CreateDocument
    <3>2. \A d \in Docs : d # req[r].doc => row'[d] = row[d]
      BY <2>1 DEF CreateDocument, TypeOK
    <3> QED
      BY <3>1, <3>2 DEF CoversAmount
  <2>2. CASE UpdateDocument(r)
    BY <2>2, UpdateCovers
  <2>3. CASE DecideDocument(r)
    BY <2>3, DecideCovers
  <2>4. CASE DeleteDocument(r)
    <3>1. req[r].doc \in Docs
      BY <2>4 DEF TypeOK, LedgerInv, RequestsOK, RequestOK, DocumentOps, DeleteDocument
    <3>2. \A d \in Docs : row'[d].amount = row[d].amount
      BY <2>4, <3>1 DEF DeleteDocument, Deleted, TypeOK, Row
    <3> QED
      BY <3>2 DEF CoversAmount
  <2>5. CASE ReadExpense(r) \/ ReadSettlement(r) \/ CommitSettings(r) \/ CommitArchive(r) \/ Fail(r)
    BY <1>1, <2>5 DEF ReadExpense, ReadSettlement, CommitSettings, CommitArchive, Fail
  <2> QED
    BY <1>3, <2>1, <2>2, <2>3, <2>4, <2>5
    DEF Serve, CreateExpense, RecordSettlement, UpdateExpense, UpdateSettlement,
        DecideExpense, DecideSettlement, DeleteExpense, DeleteSettlement
<1> QED
  BY <1>1, <1>2, <1>3 DEF Next

\* A planner's approval never silently extends to an amount the planner did not
\* see (the reopen rule of both Update handlers together with the version check).
THEOREM ApprovalsCoverAmounts == Spec => ApprovalCoversAmount
<1>1. ApprovalCoversAmount <=> [][CoversAmount]_vars
  BY DEF ApprovalCoversAmount, CoversAmount
<1>2. QED
  BY <1>1, StepCovers, LedgerInvariant, PTL DEF Spec
=================================================================================
