--------------------------------- MODULE Ledger ---------------------------------
(***************************************************************************)
(* Requests working concurrently on the documents of one trip.             *)
(*                                                                         *)
(* A request is admitted against a snapshot of the trip row (ResolveTrip,  *)
(* then AssertMutable), reads the document it is about, and commits one    *)
(* database transaction.  Nothing is locked in between: the snapshot and   *)
(* the document may both be stale when the transaction runs, and the only  *)
(* guard left by then is the version in the UPDATE statement.              *)
(*                                                                         *)
(* A transaction is one step: its first statement locks the row it         *)
(* writes until COMMIT, and other requests see all of it or nothing.       *)
(***************************************************************************)
EXTENDS LedgerRows

CONSTANTS
  Planners,        \* the members whose role is planner
  Requests,        \* request slots: how many requests overlap
  SettingsChoices, \* trip settings a planner chooses from
  CreateInputs,    \* what clients send to create a document
  EditInputs,      \* what clients send to edit one
  Operations,      \* the endpoints this instance serves
  MaxVersion,      \* bound: versions of a document
  MaxTripVersion   \* bound: versions of the trip row

Settings == [approveExpenses : BOOLEAN, approveSettlements : BOOLEAN,
             editOpen : BOOLEAN]

ASSUME LedgerAssumption ==
  /\ Planners \subseteq Users
  /\ SettingsChoices \subseteq Settings
  /\ CreateInputs \subseteq {in \in Input : in.amount # 0}
  /\ EditInputs \subseteq Input
  /\ MaxVersion \in Nat
  /\ MaxTripVersion \in Nat

VARIABLES
  trip,    \* the trip row
  row,     \* the expenses and settlements tables
  payers,  \* expense_payers: the total per expense
  splits,  \* expense_splits: the total per expense
  events,  \* outbox_events: per document, how many and the latest
  req      \* the requests being served

tables == <<row, payers, splits>>
vars == <<trip, row, payers, splits, events, req>>

Trip == [finalized : BOOLEAN, archived : BOOLEAN, settings : Settings,
         version : Nat]

DocumentOps == {"create", "update", "delete", "approve", "reject"}
TripOps == {"settings", "archive", "unarchive", "finalize", "unfinalize"}

EventKinds == {"none", "created", "updated", "approved", "rejected", "deleted"}
NoEvent == [count |-> 0, kind |-> "none", amount |-> 0]

NoSettings == [approveExpenses |-> FALSE, approveSettlements |-> FALSE,
               editOpen |-> FALSE]

\* A slot that serves nobody.
Idle == [pc |-> "idle", op |-> "none", user |-> NoUser, doc |-> NoDoc,
         version |-> 0, input |-> NoInput, settings |-> NoSettings,
         seen |-> Blank]

Request == [pc       : {"idle", "begun", "read"},
            op       : {"none"} \cup DocumentOps \cup TripOps,
            user     : Users \cup {NoUser},
            doc      : Docs \cup {NoDoc},
            version  : Nat,
            input    : Input,
            settings : Settings,
            seen     : Row]

Init ==
  /\ \E s \in SettingsChoices :
       trip = [finalized |-> FALSE, archived |-> FALSE, settings |-> s,
               version |-> 1]
  /\ row = [d \in Docs |-> Blank]
  /\ payers = [e \in Expenses |-> 0]
  /\ splits = [e \in Expenses |-> 0]
  /\ events = [d \in Docs |-> NoEvent]
  /\ req = [r \in Requests |-> Idle]

---------------------------------------------------------------------------------
(* Rules the handlers apply to what they have read.                        *)

\* Mutated form of Mutable: a finalized trip still takes requests.
Unarchived(t) == ~t.archived

\* AssertMutable.
Mutable(t) == ~t.finalized /\ ~t.archived

\* Whether a write of d needs a planner's decision.
ApprovalRequired(s, d) ==
  IF d \in Expenses THEN s.approveExpenses ELSE s.approveSettlements

\* canEdit: a planner, anybody when the trip is open, otherwise the creator.
CanEdit(u, s, creator) == u \in Planners \/ s.editOpen \/ u = creator

\* Settlements are edited and deleted by planners only; decisions on either
\* kind are theirs too.
PlannerOnly(op, d) == op \in {"approve", "reject"} \/ d \in Settlements

---------------------------------------------------------------------------------
(* Admission: the trip snapshot is taken and checked.                      *)

Admit(r, op, u, d, v, in, s) ==
  /\ op \in Operations
  /\ req[r].pc = "idle"
  /\ req' = [req EXCEPT ![r] =
       [pc |-> "begun", op |-> op, user |-> u, doc |-> d, version |-> v,
        input |-> in, settings |-> s, seen |-> Blank]]
  /\ UNCHANGED <<trip, row, payers, splits, events>>

BeginCreate(r, docs) ==
  /\ Mutable(trip)
  /\ \E u \in Users, d \in docs, in \in CreateInputs :
       /\ row[d].life = "absent"
       /\ Admit(r, "create", u, d, 0, in, trip.settings)

\* The version a client sends is one it was shown earlier.
BeginUpdate(r, docs) ==
  /\ Mutable(trip)
  /\ \E u \in Users, d \in docs, in \in EditInputs :
       \E v \in 1 .. row[d].version :
         /\ PlannerOnly("update", d) => u \in Planners
         /\ Admit(r, "update", u, d, v, in, trip.settings)

\* Delete, Approve and Reject name a document and carry no version.
BeginOther(r, op, docs) ==
  /\ Mutable(trip)
  /\ \E u \in Users, d \in docs :
       /\ row[d].life # "absent"
       /\ PlannerOnly(op, d) => u \in Planners
       /\ Admit(r, op, u, d, 0, NoInput, trip.settings)

\* The handlers.
BeginCreateExpense(r) == BeginCreate(r, Expenses)
BeginUpdateExpense(r) == BeginUpdate(r, Expenses)
BeginDeleteExpense(r) == BeginOther(r, "delete", Expenses)
BeginApproveExpense(r) == BeginOther(r, "approve", Expenses)
BeginRejectExpense(r) == BeginOther(r, "reject", Expenses)

BeginRecordSettlement(r) == BeginCreate(r, Settlements)
BeginUpdateSettlement(r) == BeginUpdate(r, Settlements)
BeginDeleteSettlement(r) == BeginOther(r, "delete", Settlements)
BeginApproveSettlement(r) == BeginOther(r, "approve", Settlements)
BeginRejectSettlement(r) == BeginOther(r, "reject", Settlements)

---------------------------------------------------------------------------------
(* Reading the document and checking the request against it.               *)

ReadExpense(r) ==
  LET q == req[r] IN
  /\ q.pc = "begun"
  /\ q.op \in {"update", "delete", "approve", "reject"}
  /\ q.doc \in Expenses
  /\ row[q.doc].life = "live"
  /\ q.op \in {"update", "delete"} => CanEdit(q.user, q.settings, row[q.doc].creator)
  /\ q.op \in {"approve", "reject"} => row[q.doc].status = "pending"
  /\ req' = [req EXCEPT ![r].pc = "read", ![r].seen = row[q.doc]]
  /\ UNCHANGED <<trip, row, payers, splits, events>>

ReadSettlement(r) ==
  LET q == req[r] IN
  /\ q.pc = "begun"
  /\ q.op \in {"update", "delete", "approve", "reject"}
  /\ q.doc \in Settlements
  /\ row[q.doc].life = "live"
  /\ q.op \in {"approve", "reject"} => row[q.doc].status = "pending"
  /\ req' = [req EXCEPT ![r].pc = "read", ![r].seen = row[q.doc]]
  /\ UNCHANGED <<trip, row, payers, splits, events>>

---------------------------------------------------------------------------------
(* The transactions.                                                       *)

\* Mutated form of Emitted: the payload is built from the row as it was read.
EmittedFrom(r, kind, entity) ==
  [events EXCEPT ![req[r].doc] =
     [count |-> @.count + 1, kind |-> kind, amount |-> req[r].seen.amount]]

\* The outbox event written in the same transaction.
Emitted(r, kind, entity) ==
  [events EXCEPT ![req[r].doc] =
     [count |-> @.count + 1, kind |-> kind, amount |-> entity.amount]]

Finished(r) == [req EXCEPT ![r] = Idle]

\* The lines of an expense deleted and inserted again, with a new total.
Rewritten(table, d, total) ==
  IF d \in Expenses THEN [table EXCEPT ![d] = total] ELSE table

\* Mutated form of VersionHeld: the UPDATE matches on the id alone.
RowHeld(r, v) == row[req[r].doc].life = "live"

\* WHERE id = ? AND version = ? AND deleted_at IS NULL.
VersionHeld(r, v) ==
  /\ row[req[r].doc].life = "live"
  /\ row[req[r].doc].version = v

CreateDocument(r) ==
  LET q == req[r]
      new == NewRow(q.user, q.input, ApprovalRequired(q.settings, q.doc))
  IN /\ q.pc = "begun" /\ q.op = "create"
     /\ row[q.doc].life = "absent"
     /\ q.doc \in Expenses => PayersBalance(q.input.paid, new.amount)
     /\ row' = [row EXCEPT ![q.doc] = new]
     /\ payers' = Rewritten(payers, q.doc, q.input.paid)
     /\ splits' = Rewritten(splits, q.doc, new.amount)
     /\ events' = Emitted(r, "created", new)
     /\ req' = Finished(r)
     /\ UNCHANGED trip

CreateExpense(r) == req[r].doc \in Expenses /\ CreateDocument(r)
RecordSettlement(r) == req[r].doc \in Settlements /\ CreateDocument(r)

\* Columns computed from the row read; payers as sent, checked against the amount
\* computed; shares of that amount.  The client's version guards them all.
UpdateDocument(r) ==
  LET q == req[r]
      entity == Edited(q.seen, q.input, ApprovalRequired(q.settings, q.doc))
  IN /\ q.pc = "read" /\ q.op = "update"
     /\ q.doc \in Expenses /\ RowsChanged(q.input)
          => PayersBalance(q.input.paid, entity.amount)
     /\ VersionHeld(r, q.version)
     /\ row[q.doc].version < MaxVersion
     /\ row' = [row EXCEPT ![q.doc] = Overwritten(@, entity)]
     /\ IF RowsChanged(q.input)
          THEN /\ payers' = Rewritten(payers, q.doc, q.input.paid)
               /\ splits' = Rewritten(splits, q.doc, entity.amount)
          ELSE UNCHANGED <<payers, splits>>
     /\ events' = Emitted(r, "updated", entity)
     /\ req' = Finished(r)
     /\ UNCHANGED trip

UpdateExpense(r) == req[r].doc \in Expenses /\ UpdateDocument(r)
UpdateSettlement(r) == req[r].doc \in Settlements /\ UpdateDocument(r)

\* transition: guarded by the version the service itself read.
DecideDocument(r) ==
  LET q == req[r]
      decision == IF q.op = "approve" THEN "approved" ELSE "rejected"
      entity == Decided(q.seen, q.user, decision)
  IN /\ q.pc = "read" /\ q.op \in {"approve", "reject"}
     /\ VersionHeld(r, q.seen.version)
     /\ row[q.doc].version < MaxVersion
     /\ row' = [row EXCEPT ![q.doc] = Overwritten(@, entity)]
     /\ events' = Emitted(r, decision, entity)
     /\ req' = Finished(r)
     /\ UNCHANGED <<trip, payers, splits>>

DecideExpense(r) == req[r].doc \in Expenses /\ DecideDocument(r)
DecideSettlement(r) == req[r].doc \in Settlements /\ DecideDocument(r)

\* SoftDelete checks that the row is still there, not its version.
DeleteDocument(r) ==
  LET q == req[r]
  IN /\ q.pc = "read" /\ q.op = "delete"
     /\ row[q.doc].life = "live"
     /\ row' = [row EXCEPT ![q.doc] = Deleted(@)]
     /\ events' = Emitted(r, "deleted", q.seen)
     /\ req' = Finished(r)
     /\ UNCHANGED <<trip, payers, splits>>

DeleteExpense(r) == req[r].doc \in Expenses /\ DeleteDocument(r)
DeleteSettlement(r) == req[r].doc \in Settlements /\ DeleteDocument(r)

\* Any error answer: a check fails, the version moved, the transaction rolls
\* back, the process dies.  The database keeps nothing of the request.
Fail(r) ==
  /\ req[r].pc # "idle"
  /\ req' = Finished(r)
  /\ UNCHANGED <<trip, row, payers, splits, events>>

---------------------------------------------------------------------------------
(* The trip row: settings, archive.                                        *)

BeginSettings(r) ==
  /\ Mutable(trip)
  /\ \E u \in Planners, s \in SettingsChoices, v \in 1 .. trip.version :
       Admit(r, "settings", u, NoDoc, v, NoInput, s)

\* UpdateSettings: the flags are not among the columns written.
CommitSettings(r) ==
  /\ req[r].pc = "begun" /\ req[r].op = "settings"
  /\ trip.version = req[r].version
  /\ trip.version < MaxTripVersion
  /\ trip' = [trip EXCEPT !.settings = req[r].settings, !.version = @ + 1]
  /\ req' = Finished(r)
  /\ UNCHANGED <<row, payers, splits, events>>

BeginArchive(r) ==
  \E u \in Planners :
    \/ ~trip.archived /\ Admit(r, "archive", u, NoDoc, 0, NoInput, NoSettings)
    \/ trip.archived /\ Admit(r, "unarchive", u, NoDoc, 0, NoInput, NoSettings)

\* SetArchived writes the flag whatever the row says by now.
CommitArchive(r) ==
  /\ req[r].pc = "begun" /\ req[r].op \in {"archive", "unarchive"}
  /\ trip.version < MaxTripVersion
  /\ trip' = [trip EXCEPT !.archived = (req[r].op = "archive"), !.version = @ + 1]
  /\ req' = Finished(r)
  /\ UNCHANGED <<row, payers, splits, events>>

---------------------------------------------------------------------------------
Serve(r) ==
  \/ ReadExpense(r) \/ ReadSettlement(r)
  \/ CreateExpense(r) \/ RecordSettlement(r)
  \/ UpdateExpense(r) \/ UpdateSettlement(r)
  \/ DecideExpense(r) \/ DecideSettlement(r)
  \/ DeleteExpense(r) \/ DeleteSettlement(r)
  \/ CommitSettings(r) \/ CommitArchive(r)
  \/ Fail(r)

Begin(r) ==
  \/ BeginCreateExpense(r) \/ BeginUpdateExpense(r) \/ BeginDeleteExpense(r)
  \/ BeginApproveExpense(r) \/ BeginRejectExpense(r)
  \/ BeginRecordSettlement(r) \/ BeginUpdateSettlement(r) \/ BeginDeleteSettlement(r)
  \/ BeginApproveSettlement(r) \/ BeginRejectSettlement(r)
  \/ BeginSettings(r) \/ BeginArchive(r)

Next == \E r \in Requests : Begin(r) \/ Serve(r)

Spec == Init /\ [][Next]_vars

---------------------------------------------------------------------------------
(* Properties.                                                             *)

\* Every variable keeps its type; a document in use has a positive amount.
TypeOK ==
  /\ trip \in Trip
  /\ row \in [Docs -> Row]
  /\ \A d \in Docs : row[d].life # "absent" => row[d].amount \in Amounts
  /\ payers \in [Expenses -> Nat]
  /\ splits \in [Expenses -> Nat]
  /\ events \in [Docs -> [count : Nat, kind : EventKinds, amount : Nat]]
  /\ req \in [Requests -> Request]

\* What the payers paid and what the shares add up to is the amount in the
\* expense row, although they live in three tables and an edit may take the
\* amount from an old read (Update, GetByID).
LinesMatchAmount ==
  \A e \in Expenses : payers[e] = row[e].amount /\ splits[e] = row[e].amount

\* A request that still holds the current version of a live document holds its
\* current content: every committed change of a row moves its version.
SeenOK(q) ==
  q.pc = "read" =>
    /\ q.seen.version <= row[q.doc].version
    /\ /\ row[q.doc].life = "live"
       /\ q.seen.version = row[q.doc].version
       => q.seen = row[q.doc]

VersionIdentifiesContent == \A r \in Requests : SeenOK(req[r])

\* The optimistic check makes every request take effect as one step on the
\* current document: no edit or decision writes back what it read before
\* somebody else's commit (expenses.Update, settlements.Update).
Atomic == INSTANCE AtomicLedger
Linearises == Atomic!Spec

\* A document never comes out of an edit approved with another amount, unless
\* the request that edited it was admitted when no approval was needed: a
\* planner's decision does not cover what the planner did not decide on.
ApprovalCoversAmount ==
  [][\A d \in Docs :
       /\ row[d].life = "live"
       /\ row'[d].amount # row[d].amount
       /\ row'[d].status = "approved"
       => \E r \in Requests : /\ req[r].doc = d
                              /\ req[r].op = "update"
                              /\ ~ApprovalRequired(req[r].settings, d)]_vars

\* The outbox and the tables agree: one event per committed version, and the
\* latest event describes the document as it is now.
EventsFollowCommits ==
  \A d \in Docs :
    /\ events[d].count = row[d].version + IF row[d].life = "deleted" THEN 1 ELSE 0
    /\ row[d].life = "live" => events[d].amount = row[d].amount
    /\ events[d].kind = "deleted" <=> row[d].life = "deleted"
    /\ events[d].kind \in {"approved", "rejected"} => row[d].status = events[d].kind
---------------------------------------------------------------------------------
(* The inductive invariant behind these properties.                        *)

\* An unused identity has no row; a used one has a version and an amount.
RowsOK ==
  \A d \in Docs :
    IF row[d].life = "absent" THEN row[d] = Blank
                              ELSE row[d].version >= 1 /\ row[d].amount \in Amounts

\* What a request holds: its arguments are those admission checked, what it has
\* read passed the checks, and no version it holds is ahead of the row's.
RequestOK(q) ==
  /\ q.op \in DocumentOps => q.doc \in Docs /\ q.user \in Users
  /\ q.op \in DocumentOps \ {"create"} => row[q.doc].life # "absent"
  /\ q.op = "create" => q.input.amount \in Amounts
  /\ q.pc = "begun" /\ q.op = "update" => q.version <= row[q.doc].version
  /\ q.pc = "read" =>
       /\ q.op \in DocumentOps \ {"create"}
       /\ q.seen.life = "live"
       /\ q.seen.amount \in Amounts
       /\ q.op = "update" => q.version <= q.seen.version
       /\ q.op \in {"approve", "reject"} => q.seen.status = "pending"

RequestsOK == \A r \in Requests : RequestOK(req[r])

LedgerInv == RowsOK /\ RequestsOK /\ VersionIdentifiesContent /\ LinesMatchAmount
=================================================================================
