------------------------------ MODULE Finalization ------------------------------
(***************************************************************************)
(* Finalizing a trip while its ledger is in use.                           *)
(*                                                                         *)
(* Finalize runs the balance calculation twice inside one transaction:     *)
(* once to refuse a trip with pending documents, once for the settlement   *)
(* plan it publishes.  The database gives each SELECT the newest committed *)
(* state (READ COMMITTED), so every statement is a step of its own here    *)
(* and other requests commit between them.                                 *)
(*                                                                         *)
(* Amounts stay per document; participants and exchange rates, which the   *)
(* calculation also reads, do not appear in this module.                   *)
(***************************************************************************)
EXTENDS Ledger, FiniteSetsExt

VARIABLES
  calc,  \* what each finalizing request has read so far
  plan   \* the payload of the latest trip event

fvars == <<trip, row, payers, splits, events, req, calc, plan>>

NoPlan == [paid    |-> [e \in Expenses |-> 0],
           owed    |-> [e \in Expenses |-> 0],
           settled |-> [s \in Settlements |-> 0]]

NoCalc == [stage    |-> "none",
           checked  |-> [d \in Docs |-> Blank],
           during   |-> [d \in Docs |-> {}],
           approved |-> {},
           plan     |-> NoPlan]

Plan == [paid : [Expenses -> Nat], owed : [Expenses -> Nat],
         settled : [Settlements -> Nat]]

Stages == {"none", "expenses", "settlements", "plan", "payers", "splits",
           "transfers", "commit"}

\* during: history, the rows each document has had since the request was admitted.
Calc == [stage : Stages, checked : [Docs -> Row], during : [Docs -> SUBSET Row],
         approved : SUBSET Expenses, plan : Plan]

FInit ==
  /\ Init
  /\ calc = [r \in Requests |-> NoCalc]
  /\ plan = NoPlan

\* What a calculation counts: approved, and not deleted.
Counts(x) == x.life = "live" /\ x.status = "approved"
Approved == {d \in Docs : Counts(row[d])}

---------------------------------------------------------------------------------
(* Finalize.                                                               *)

\* A planner, on a trip that was not finalized when the request arrived; an
\* archived trip may be finalized.
BeginFinalize(r) ==
  /\ ~trip.finalized
  /\ \E u \in Planners : Admit(r, "finalize", u, NoDoc, 0, NoInput, NoSettings)
  /\ calc' = [calc EXCEPT ![r].stage = "expenses",
                          ![r].during = [d \in Docs |-> {row[d]}]]
  /\ UNCHANGED plan

Reads(r, from, to) ==
  /\ calc[r].stage = from
  /\ UNCHANGED <<trip, row, payers, splits, events, req, plan>>

\* First Calculate: the expense list.
CheckExpenses(r) ==
  /\ Reads(r, "expenses", "settlements")
  /\ calc' = [calc EXCEPT
       ![r].stage = "settlements",
       ![r].checked = [d \in Docs |-> IF d \in Expenses THEN row[d] ELSE @[d]]]

Pending(rows) == {d \in Docs : rows[d].life = "live" /\ rows[d].status = "pending"}

\* Mutated form of Refused: the pending items are not looked at.
RefusesNothing(rows) == FALSE

\* "Resolve pending items".
Refused(rows) == Pending(rows) # {}

\* First Calculate: the settlements; then the decision to go on.
CheckSettlements(r) ==
  LET checked == [d \in Docs |-> IF d \in Settlements THEN row[d] ELSE calc[r].checked[d]]
  IN /\ Reads(r, "settlements", "plan")
     /\ ~Refused(checked)
     /\ calc' = [calc EXCEPT ![r].stage = "plan", ![r].checked = checked]

\* FinalSettlement, second Calculate: the expense list again.
PlanExpenses(r) ==
  /\ Reads(r, "plan", "payers")
  /\ calc' = [calc EXCEPT ![r].stage = "payers",
                          ![r].approved = Approved \cap Expenses]

\* Mutated form of PlanPayers: expenses that are not approved count as well.
PlanAllPayers(r) ==
  /\ Reads(r, "payers", "splits")
  /\ calc' = [calc EXCEPT ![r].stage = "splits", ![r].plan.paid = payers]

\* hydrate: the payers of the expenses listed, then their splits.
PlanPayers(r) ==
  /\ Reads(r, "payers", "splits")
  /\ calc' = [calc EXCEPT ![r].stage = "splits",
       ![r].plan.paid = [e \in Expenses |->
                           IF e \in calc[r].approved THEN payers[e] ELSE 0]]

PlanSplits(r) ==
  /\ Reads(r, "splits", "transfers")
  /\ calc' = [calc EXCEPT ![r].stage = "transfers",
       ![r].plan.owed = [e \in Expenses |->
                           IF e \in calc[r].approved THEN splits[e] ELSE 0]]

PlanSettlements(r) ==
  /\ Reads(r, "transfers", "commit")
  /\ calc' = [calc EXCEPT ![r].stage = "commit",
       ![r].plan.settled = [s \in Settlements |->
                              IF s \in Approved THEN row[s].amount ELSE 0]]

\* SetFinalized writes the flag whatever the row says by now; the event with
\* the plan is part of the transaction.
CommitFinalize(r) ==
  /\ calc[r].stage = "commit"
  /\ trip.version < MaxTripVersion
  /\ trip' = [trip EXCEPT !.finalized = TRUE, !.version = @ + 1]
  /\ plan' = calc[r].plan
  /\ req' = Finished(r)
  /\ calc' = [calc EXCEPT ![r] = NoCalc]
  /\ UNCHANGED <<row, payers, splits, events>>

---------------------------------------------------------------------------------
(* Unfinalize.                                                             *)

BeginUnfinalize(r) ==
  /\ trip.finalized
  /\ \E u \in Planners : Admit(r, "unfinalize", u, NoDoc, 0, NoInput, NoSettings)
  /\ UNCHANGED <<calc, plan>>

CommitUnfinalize(r) ==
  /\ req[r].pc = "begun" /\ req[r].op = "unfinalize"
  /\ trip.version < MaxTripVersion
  /\ trip' = [trip EXCEPT !.finalized = FALSE, !.version = @ + 1]
  /\ plan' = NoPlan
  /\ req' = Finished(r)
  /\ UNCHANGED <<row, payers, splits, events, calc>>

---------------------------------------------------------------------------------
Finalizing(r) ==
  \/ CheckExpenses(r) \/ CheckSettlements(r)
  \/ PlanExpenses(r) \/ PlanPayers(r) \/ PlanSplits(r) \/ PlanSettlements(r)
  \/ CommitFinalize(r) \/ CommitUnfinalize(r)

Watched(c) ==
  IF c.stage = "none" THEN c
  ELSE [c EXCEPT !.during = [d \in Docs |-> @[d] \cup {row'[d]}]]

\* A request that ends takes what it had read with it.
Beside(r) ==
  /\ calc' = [x \in Requests |-> IF x = r /\ req'[r].pc = "idle" THEN NoCalc
                                                               ELSE Watched(calc[x])]
  /\ UNCHANGED plan

LedgerStep(r) == (Begin(r) \/ Serve(r)) /\ Beside(r)

FNext == \E r \in Requests :
  LedgerStep(r) \/ BeginFinalize(r) \/ BeginUnfinalize(r) \/ Finalizing(r)

\* A handler that has begun keeps running until it answers or dies.
Progress(r) == Finalizing(r) \/ (Serve(r) /\ Beside(r))

FSpec == FInit /\ [][FNext]_fvars /\ \A r \in Requests : WF_fvars(Progress(r))

---------------------------------------------------------------------------------
(* Properties.                                                             *)

\* Every variable keeps its type, only a finalizing request has read rows, and it
\* counts what was paid for approved expenses only.
FTypeOK ==
  /\ TypeOK
  /\ calc \in [Requests -> Calc]
  /\ plan \in Plan
  /\ \A r \in Requests :
       /\ calc[r].stage # "none" => req[r].op = "finalize"
       /\ \A e \in Expenses : calc[r].plan.paid[e] # 0 => e \in calc[r].approved

\* A figure that a document with these rows accounts for: nothing, if it did not count
\* once, or what it once amounted to, if it did.
Explained(figure, rows) ==
  \/ figure = 0 /\ \E x \in rows : ~Counts(x)
  \/ (\E x \in rows : Counts(x)) /\ (\E x \in rows : figure = x.amount)

\* Whatever commits while the balances are calculated, twice and a statement at a time,
\* a published plan is made of what its documents said in the meantime: none of them was
\* pending all along, and each is in it with an amount that it had then, or without one
\* if it did not count then; a settlement with both at one moment.  So of a document
\* nobody touched the plan says what it says (finalization.Finalize, balance.Calculate).
EveryFigureHeld ==
  [][\A r \in Requests :
       calc[r].stage = "commit" /\ req'[r] = Idle /\ trip'.version # trip.version =>
         LET during == calc[r].during IN
         /\ \A d \in Docs : \E x \in during[d] : ~(x.life = "live" /\ x.status = "pending")
         /\ \A e \in Expenses :
              Explained(plan'.paid[e], during[e]) /\ Explained(plan'.owed[e], during[e])
         /\ \A s \in Settlements :
              \E x \in during[s] : plan'.settled[s] = IF Counts(x) THEN x.amount ELSE 0]_fvars

\* Requests on documents that are still running.
Stragglers == {r \in Requests : req[r].op \in DocumentOps}

\* The requests that were admitted before a trip was finalized end, and it admits none
\* after: it comes to rest, unless it is unfinalized first (AssertMutable).
FinalizedTripComesToRest == trip.finalized ~> (Stragglers = {} \/ ~trip.finalized)

\* Every mutation rejects a finalized trip: no document changes while the trip
\* is finalized (what AssertMutable is there for).
FinalizedTripIsFrozen == [][trip.finalized => UNCHANGED tables]_fvars

\* The balances a plan is made of sum to zero: what was paid is what is owed
\* (the condition Calculate logs an error about).
BalancesSumToZero ==
  \A r \in Requests :
    calc[r].stage \in {"transfers", "commit"} =>
      MapThenSumSet(LAMBDA e : calc[r].plan.paid[e], Expenses)
        = MapThenSumSet(LAMBDA e : calc[r].plan.owed[e], Expenses)
=================================================================================
