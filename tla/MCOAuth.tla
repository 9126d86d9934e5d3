--------------------------------- MODULE MCOAuth ---------------------------------
(***************************************************************************)
(* Two users and one tool, two visits to the consent page, two             *)
(* connections, three pairs of tokens, three calls.                        *)
(***************************************************************************)
EXTENDS OAuth, TLC

CONSTANTS ann, bob, v1, v2, g1, g2, p1, p2, p3

\* The third pair is kept for a second rotation, see Focus.
Symmetry == Permutations(Users) \cup Permutations(Calls) \cup Permutations({v1, v2})
              \cup Permutations({g1, g2}) \cup Permutations({p1, p2})

Busy == {c \in Calls : call[c].pc # "idle"}

\* One consent of one user and its connection.
OneLine ==
  /\ Cardinality({v \in Visits : visit[v].status # "absent"}) <= 1
  /\ Cardinality({g \in Grants : grant[g].life # "absent"}) <= 1
  /\ Cardinality({call[c].user : c \in Calls} \cup {visit[v].user : v \in Visits}
                   \cup {NoUser}) <= 2

\* What a behaviour is followed through: two consents, or two connections, with two calls
\* at a time, of which a verification overlaps with others on one line only; on one line
\* also three refreshes and revocations at a time, or a third pair of tokens and one call.
Focus ==
  LET rotating == \A c \in Busy : call[c].op \in {"refresh", "revoke"}
  IN  /\ OneLine \/ Cardinality(Busy) <= 1 \/ \A c \in Busy : call[c].op # "verify"
      /\ p3 \in Fresh \/ (OneLine /\ Fresh = {})
      /\ Cardinality(Busy) <= CASE p3 \notin Fresh       -> 1
                                [] OneLine /\ rotating -> 3
                                [] OTHER               -> 2
==================================================================================
