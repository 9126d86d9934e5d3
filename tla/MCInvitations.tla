----------------------------- MODULE MCInvitations -----------------------------
(* Instances of Invitations for TLC: one address, two overlapping requests on *)
(* accounts and sessions and two on invitations.                              *)
EXTENDS Invitations, TLC

CONSTANTS r1, r2, u1, u2, t1, t2, t3, i1, i2, k1, k2, ann

Symmetric == Permutations({r1, r2}) \cup Permutations({u1, u2})
               \cup Permutations({t1, t2, t3}) \cup Permutations({i1, i2})
               \cup Permutations({k1, k2})

\* A behaviour is followed while it is about sessions, without an invitation, or
\* about an invitation, with one registration or sign-in beside it up to its session.
OneSubject ==
  \/ /\ \A i \in Invites : invitation[i].status = "absent"
     /\ \A k \in Tasks : task[k].pc = "idle"
     /\ member = {}
  \/ /\ \A t \in Tokens : token[t].life = "absent"
     /\ \E r \in Requests : \A s \in Requests : s = r \/ req[s].pc = "idle"
=================================================================================
