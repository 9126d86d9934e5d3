-------------------------------- MODULE MCLedger --------------------------------
(* Instances of Ledger for TLC: one expense or one settlement, two requests  *)
(* that overlap, one planner and one ordinary member.                        *)
EXTENDS Ledger, TLC

CONSTANTS r1, r2, planner, member, x1, s1, text

MCCreateInputs == {[amount |-> 1, note |-> NoNote, paid |-> 1]}

\* Another amount, another text, other payers of the first amount.
MCEditInputs ==
  {[amount |-> 2, note |-> NoNote, paid |-> 2],
   [amount |-> 0, note |-> text, paid |-> 0],
   [amount |-> 0, note |-> NoNote, paid |-> 1]}

\* A behaviour is followed while all of it is about one document.
OneDocument ==
  \E d \in Docs : \A other \in Docs \ {d} :
    row[other].life = "absent" /\ \A r \in Requests : req[r].doc # other

\* Approval on for both kinds, or the open trip without approval.
MCSettingsChoices ==
  {[approveExpenses |-> TRUE, approveSettlements |-> TRUE, editOpen |-> FALSE],
   [approveExpenses |-> FALSE, approveSettlements |-> FALSE, editOpen |-> TRUE]}

Symmetric == Permutations({r1, r2})
=================================================================================
