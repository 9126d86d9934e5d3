------------------------------ MODULE MCMembership ------------------------------
(* Instances of Membership for TLC.                                           *)
EXTENDS Membership, TLC

CONSTANTS r1, r2, ann, bob, m1, m2, m3, x1, s1

Symmetric == Permutations({r1, r2}) \cup Permutations({ann, bob})
               \cup Permutations({m1, m2, m3})
=================================================================================
