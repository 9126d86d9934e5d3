-------------------------------- MODULE TokenLine --------------------------------
(***************************************************************************)
(* What the authorization server promises about one consent: it is decided *)
(* once, exchanged at most once, and from then on there is one line of     *)
(* refresh tokens, each replaced by the next, until the line ends.         *)
(***************************************************************************)
CONSTANTS Visits, Pairs, NoPair

VARIABLES
  decision,  \* what became of each visit to the consent page
  current,   \* the refresh token that can be used for it
  spent      \* refresh tokens handed out so far

lineVars == <<decision, current, spent>>

LineInit ==
  /\ decision = [v \in Visits |-> "absent"]
  /\ current = [v \in Visits |-> NoPair]
  /\ spent = {}

Decide(v, from, to) ==
  /\ decision[v] = from
  /\ decision' = [decision EXCEPT ![v] = to]
  /\ UNCHANGED <<current, spent>>

\* A token that was never handed out before becomes the current one.
HandOut(v, p) ==
  /\ p \in Pairs \ spent
  /\ current' = [current EXCEPT ![v] = p]
  /\ spent' = spent \cup {p}

Rotate(v) ==
  /\ current[v] # NoPair
  /\ \E p \in Pairs : HandOut(v, p)
  /\ UNCHANGED decision

\* Revoked or expired; a revoked connection ends all its lines at once.
End(vs) ==
  /\ current' = [v \in Visits |-> IF v \in vs THEN NoPair ELSE current[v]]
  /\ UNCHANGED <<decision, spent>>

\* A code buys the first token; the lines vs of a connection that is retired for it
\* end in the same step.
Exchange(v, vs) ==
  /\ decision[v] = "approved"
  /\ decision' = [decision EXCEPT ![v] = "used"]
  /\ \E p \in Pairs \ spent :
       /\ current' = [w \in Visits |-> IF w = v THEN p
                                       ELSE IF w \in vs THEN NoPair ELSE current[w]]
       /\ spent' = spent \cup {p}

LineNext ==
  \/ \E v \in Visits :
       \/ Decide(v, "absent", "pending")
       \/ Decide(v, "pending", "approved") \/ Decide(v, "pending", "denied")
       \/ Rotate(v)
       \/ \E vs \in SUBSET Visits : Exchange(v, vs)
  \/ \E vs \in SUBSET Visits : End(vs)

LineSpec == LineInit /\ [][LineNext]_lineVars
==================================================================================
