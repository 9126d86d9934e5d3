------------------------------- MODULE LedgerRows -------------------------------
(***************************************************************************)
(* The rows of the expense ledger and the pure functions the services      *)
(* apply to them.                                                          *)
(*                                                                         *)
(* A document is an expense or a settlement; both carry a status, an       *)
(* approver, a version that guards every UPDATE, and deleted_at.  Amounts  *)
(* are naturals in display units.  The descriptive columns (description,   *)
(* note, date, category, method, ...) are one column here, `note`.         *)
(***************************************************************************)
EXTENDS Naturals

CONSTANTS
  Expenses,     \* identities of expenses (uuid.New never returns one twice)
  Settlements,  \* identities of settlements
  Users,        \* members of the trip
  Amounts,      \* positive amounts a client may enter
  Notes,        \* texts a client may enter
  NoUser,       \* a nil user
  NoNote,       \* a nil text
  NoDoc         \* no document

ASSUME RowsAssumption ==
  /\ Expenses \cap Settlements = {}
  /\ Amounts \subseteq Nat \ {0}
  /\ NoUser \notin Users
  /\ NoNote \notin Notes
  /\ NoDoc \notin Expenses \cup Settlements

Docs == Expenses \cup Settlements

Status == {"pending", "approved", "rejected"}

Row == [life     : {"absent", "live", "deleted"},
        status   : Status,
        amount   : Nat,
        note     : Notes \cup {NoNote},
        creator  : Users \cup {NoUser},
        approver : Users \cup {NoUser},
        version  : Nat]

\* A row that was never inserted.
Blank == [life |-> "absent", status |-> "pending", amount |-> 0, note |-> NoNote,
          creator |-> NoUser, approver |-> NoUser, version |-> 0]

\* What a client sends.  amount = 0, note = NoNote and paid = 0 are fields left
\* out of the request; paid is what the payers it lists paid in all.
Input == [amount : Amounts \cup {0}, note : Notes \cup {NoNote},
          paid : Amounts \cup {0}]
NoInput == [amount |-> 0, note |-> NoNote, paid |-> 0]

\* rowsChanged: payers and splits are replaced by this edit.
RowsChanged(in) == in.amount # 0 \/ in.paid # 0

\* Mutated form of PayersBalance: the payers are stored unchecked.
AnyPayers(paid, amount) == TRUE

\* ValidatePayers: what the payers paid adds up to the amount.
PayersBalance(paid, amount) == paid = amount

\* The row Create and Record insert.
NewRow(u, in, required) ==
  [life |-> "live", status |-> IF required THEN "pending" ELSE "approved",
   amount |-> in.amount, note |-> in.note, creator |-> u, approver |-> NoUser,
   version |-> 1]

\* Mutated form of Reopens: the decision outlives the edit.
NeverReopens(row, required) == FALSE

\* A decided document goes back to review when it is edited under approval.
Reopens(row, required) == required /\ row.status # "pending"

\* Mutated form of Edited: an amount left out of the request is stored as zero.
EditedBlindly(row, in, required) ==
  [row EXCEPT !.amount   = in.amount,
              !.note     = IF in.note = NoNote THEN @ ELSE in.note,
              !.status   = IF Reopens(row, required) THEN "pending" ELSE @,
              !.approver = IF Reopens(row, required) THEN NoUser ELSE @]

\* The entity Update builds from the row it read and the fields sent.
Edited(row, in, required) ==
  [row EXCEPT !.amount   = IF in.amount = 0 THEN @ ELSE in.amount,
              !.note     = IF in.note = NoNote THEN @ ELSE in.note,
              !.status   = IF Reopens(row, required) THEN "pending" ELSE @,
              !.approver = IF Reopens(row, required) THEN NoUser ELSE @]

\* The entity Approve and Reject build.
Decided(row, u, decision) ==
  [row EXCEPT !.status   = decision,
              !.approver = IF decision = "approved" THEN u ELSE NoUser]

\* Mutated form of Overwritten: the UPDATE does not move the version.
Unversioned(row, entity) ==
  [row EXCEPT !.amount = entity.amount, !.note = entity.note,
              !.status = entity.status, !.approver = entity.approver]

\* The columns the UPDATE statement writes over the stored row.
Overwritten(row, entity) ==
  [row EXCEPT !.amount = entity.amount, !.note = entity.note,
              !.status = entity.status, !.approver = entity.approver,
              !.version = @ + 1]

\* DELETE only stamps deleted_at: neither version nor child rows change.
Deleted(row) == [row EXCEPT !.life = "deleted"]
=================================================================================
