----------------------------- MODULE MCFinalization -----------------------------
(* Instances of Finalization for TLC: an expense and a settlement, a planner   *)
(* and two requests that overlap.                                              *)
EXTENDS Finalization, TLC

CONSTANTS r1, r2, planner, member, x1, s1

MCCreateInputs == {[amount |-> 1, note |-> NoNote, paid |-> 1]}

MCEditInputs == {[amount |-> 2, note |-> NoNote, paid |-> 2]}

\* Settlements wait for a planner; expenses do not.
MCSettingsChoices ==
  {[approveExpenses |-> FALSE, approveSettlements |-> TRUE, editOpen |-> TRUE]}

Symmetric == Permutations({r1, r2})
=================================================================================
