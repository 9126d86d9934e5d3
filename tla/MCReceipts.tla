------------------------------- MODULE MCReceipts -------------------------------
(* Instances of Receipts for TLC: one receipt and two requests that overlap.  *)
EXTENDS Receipts, TLC

CONSTANTS r1, r2, c1, i1, i2, i3, x1, x2, ann, bob

Symmetric == Permutations({r1, r2}) \cup Permutations({i1, i2, i3})
               \cup Permutations({x1, x2})
=================================================================================
