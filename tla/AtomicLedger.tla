------------------------------ MODULE AtomicLedger ------------------------------
(***************************************************************************)
(* What the ledger promises its clients: every operation that succeeds     *)
(* takes effect in one indivisible step on the document as it is at that   *)
(* moment.  No request ever writes what it computed from an older version  *)
(* of the document, and an expense's payers and shares change together     *)
(* with its amount.                                                        *)
(***************************************************************************)
EXTENDS LedgerRows

VARIABLES row, payers, splits

tables == <<row, payers, splits>>

Init ==
  /\ row = [d \in Docs |-> Blank]
  /\ payers = [e \in Expenses |-> 0]
  /\ splits = [e \in Expenses |-> 0]

\* The payers and shares of an expense change to new ones that add up to its
\* amount; a settlement has neither.
Rewrite(d, amount) ==
  /\ payers' = IF d \in Expenses THEN [payers EXCEPT ![d] = amount] ELSE payers
  /\ splits' = IF d \in Expenses THEN [splits EXCEPT ![d] = amount] ELSE splits

Create(d) ==
  /\ row[d].life = "absent"
  /\ \E u \in Users, in \in Input, required \in BOOLEAN :
       /\ in.amount # 0
       /\ row' = [row EXCEPT ![d] = NewRow(u, in, required)]
       /\ Rewrite(d, in.amount)

Edit(d) ==
  /\ row[d].life = "live"
  /\ \E in \in Input, required \in BOOLEAN :
       LET edited == Edited(row[d], in, required)
       IN /\ row' = [row EXCEPT ![d] = Overwritten(@, edited)]
          /\ IF RowsChanged(in) THEN Rewrite(d, edited.amount)
                                ELSE UNCHANGED <<payers, splits>>

\* Only a pending document is decided, and deciding it changes nothing else.
Decide(d) ==
  /\ row[d].life = "live"
  /\ row[d].status = "pending"
  /\ \E u \in Users, decision \in {"approved", "rejected"} :
       row' = [row EXCEPT ![d] = Overwritten(@, Decided(@, u, decision))]
  /\ UNCHANGED <<payers, splits>>

Delete(d) ==
  /\ row[d].life = "live"
  /\ row' = [row EXCEPT ![d] = Deleted(@)]
  /\ UNCHANGED <<payers, splits>>

Next == \E d \in Docs : Create(d) \/ Edit(d) \/ Decide(d) \/ Delete(d)

Spec == Init /\ [][Next]_tables
=================================================================================
