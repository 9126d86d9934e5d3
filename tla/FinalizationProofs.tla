--------------------------- MODULE FinalizationProofs ---------------------------
(***************************************************************************)
(* Proofs about Finalization, over the invariant of the ledger that        *)
(* LedgerProofs establishes.                                               *)
(*                                                                         *)
(* A calculation keeps the rows each document has had since it began.      *)
(* Whatever it reads is one of them, or the lines of one of them, and they *)
(* only become more; so what it has concluded from them stays concluded.   *)
(***************************************************************************)
EXTENDS Finalization, LedgerProofs

\* The documents the first calculation has read so far.
Checked(c) ==
  CASE c.stage \in {"none", "expenses"} -> {}
    [] c.stage = "settlements"          -> Expenses
    [] OTHER                            -> Docs

\* What a settlement contributes to a plan.
Contribution(x) == IF Counts(x) THEN x.amount ELSE 0

\* What a calculation has read so far is accounted for by the rows there were.
Held(c) ==
  /\ \A d \in Checked(c) : c.checked[d] \in c.during[d]
  /\ c.stage \in {"plan", "payers", "splits", "transfers", "commit"} => ~Refused(c.checked)
  /\ c.stage \in {"payers", "splits", "transfers", "commit"} =>
       \A e \in Expenses : \E x \in c.during[e] : e \in c.approved <=> Counts(x)
  /\ c.stage \in {"splits", "transfers", "commit"} =>
       \A e \in Expenses : Explained(c.plan.paid[e], c.during[e])
  /\ c.stage \in {"transfers", "commit"} =>
       \A e \in Expenses : Explained(c.plan.owed[e], c.during[e])
  /\ c.stage = "commit" =>
       \A s \in Settlements : \E x \in c.during[s] : c.plan.settled[s] = Contribution(x)

CalcOK(c) ==
  /\ c \in Calc
  /\ c.stage \in {"none", "expenses", "settlements", "plan", "payers"} => c.plan = NoPlan
  /\ \A e \in Expenses : c.plan.paid[e] # 0 => e \in c.approved
  /\ c.stage # "none" => \A d \in Docs : row[d] \in c.during[d]
  /\ Held(c)

\* Only a request that finalizes calculates.
Owned(r) ==
  IF calc[r].stage = "none" THEN calc[r] = NoCalc
  ELSE req[r].op = "finalize" /\ req[r].pc = "begun"

FInv ==
  /\ TypeOK
  /\ LedgerInv
  /\ calc \in [Requests -> Calc]
  /\ plan \in Plan
  /\ \A r \in Requests : Owned(r) /\ CalcOK(calc[r])

---------------------------------------------------------------------------------
(* How calculations stand beside other requests.                           *)

LEMMA CalcFields ==
  ASSUME NEW c \in Calc
  PROVE  /\ c.stage \in Stages
         /\ c.checked \in [Docs -> Row]
         /\ c.during \in [Docs -> SUBSET Row]
         /\ c.approved \in SUBSET Expenses
         /\ c.plan \in Plan
BY DEF Calc

LEMMA NothingPaid == \A e \in Expenses : NoPlan.paid[e] = 0
BY DEF NoPlan

LEMMA NoCalcOK == NoCalc \in Calc /\ NoPlan \in Plan /\ CalcOK(NoCalc)
<1>1. NoPlan \in Plan
  BY DEF NoPlan, Plan
<1>2. NoCalc \in Calc
  BY <1>1, BlankRow DEF NoCalc, Calc, Stages
<1>3. \A e \in Expenses : NoPlan.paid[e] = 0
  BY NothingPaid
<1>4. NoCalc.stage = "none" /\ NoCalc.plan = NoPlan
  BY DEF NoCalc
<1>5. Checked(NoCalc) = {}
  BY <1>4 DEF Checked
<1> QED
  BY <1>1, <1>2, <1>3, <1>4, <1>5 DEF CalcOK, Held

\* More rows account for whatever fewer rows account for.
LEMMA HeldGrows ==
  ASSUME NEW c \in Calc, Held(c), NEW k \in Calc,
         k.stage = c.stage, k.checked = c.checked, k.approved = c.approved, k.plan = c.plan,
         \A d \in Docs : c.during[d] \subseteq k.during[d]
  PROVE  Held(k)
<1>1. Checked(k) = Checked(c) /\ Checked(c) \subseteq Docs
  BY DEF Checked, Docs
<1>2. \A d \in Checked(k) : k.checked[d] \in k.during[d]
  BY <1>1 DEF Held
<1>3. ASSUME NEW e \in Expenses, NEW v, Explained(v, c.during[e])
      PROVE  Explained(v, k.during[e])
  BY <1>3 DEF Explained, Docs
<1>4. k.stage \in {"payers", "splits", "transfers", "commit"} =>
        \A e \in Expenses : \E x \in k.during[e] : e \in k.approved <=> Counts(x)
  BY DEF Held, Docs
<1>5. k.stage = "commit" =>
        \A s \in Settlements : \E x \in k.during[s] : k.plan.settled[s] = Contribution(x)
  BY DEF Held, Docs
<1>6. k.stage \in {"splits", "transfers", "commit"} =>
        \A e \in Expenses : Explained(k.plan.paid[e], k.during[e])
  BY <1>3 DEF Held
<1>7. k.stage \in {"transfers", "commit"} =>
        \A e \in Expenses : Explained(k.plan.owed[e], k.during[e])
  BY <1>3 DEF Held
<1> QED
  BY <1>2, <1>4, <1>5, <1>6, <1>7 DEF Held

\* A calculation goes on beside a commit of somebody else.
LEMMA WatchedOK ==
  ASSUME NEW c, CalcOK(c), row' \in [Docs -> Row], NEW k, k = Watched(c)
  PROVE  CalcOK(k)' /\ k.stage = c.stage /\ (c.stage = "none" => k = c)
<1>0. c \in Calc
  BY DEF CalcOK
<1>1. CASE c.stage = "none"
  <2>1. k = c
    BY <1>1 DEF Watched
  <2> QED
    BY <1>1, <2>1 DEF CalcOK
<1>2. CASE c.stage # "none"
  <2>1. PICK rows : rows = [d \in Docs |-> c.during[d] \cup {row'[d]}]
    OBVIOUS
  <2>2. rows \in [Docs -> SUBSET Row]
    BY <1>0, <2>1 DEF Calc
  <2>3. k = [c EXCEPT !.during = rows]
    BY <1>0, <1>2, <2>1 DEF Watched, Calc
  <2>4. /\ k \in Calc /\ k.during = rows /\ k.stage = c.stage
        /\ k.checked = c.checked /\ k.approved = c.approved /\ k.plan = c.plan
    BY <1>0, <2>2, <2>3 DEF Calc
  <2>5. \A d \in Docs : c.during[d] \subseteq k.during[d] /\ row'[d] \in k.during[d]
    BY <2>1, <2>4
  <2>6. Held(k)
    BY <1>0, <2>4, <2>5, HeldGrows DEF CalcOK
  <2> QED
    BY <1>2, <2>4, <2>5, <2>6 DEF CalcOK
<1> QED
  BY <1>1, <1>2

---------------------------------------------------------------------------------
(* The statements of a finalization.                                       *)

\* A step that concerns the calculation of one request; the others look on.
LEMMA StepOfOne ==
  ASSUME FInv, TypeOK', LedgerInv', plan' \in Plan, NEW r \in Requests, NEW c,
         \/ calc' = [calc EXCEPT ![r] = c] /\ UNCHANGED row
         \/ calc' = [x \in Requests |-> IF x = r THEN c ELSE Watched(calc[x])],
         \A x \in Requests \ {r} : req'[x] = req[x],
         CalcOK(c)',
         IF c.stage = "none" THEN c = NoCalc
                             ELSE req'[r].op = "finalize" /\ req'[r].pc = "begun"
  PROVE  FInv'
<1>1. c \in Calc /\ calc \in [Requests -> Calc]
  BY DEF CalcOK, FInv
<1>2. row \in [Docs -> Row] /\ row' \in [Docs -> Row]
  BY DEF FInv, TypeOK
<1>3. calc'[r] = c /\ DOMAIN calc' = Requests /\ calc' = [x \in Requests |-> calc'[x]]
  BY <1>1
<1>4. ASSUME NEW x \in Requests \ {r}
      PROVE  (Owned(x) /\ CalcOK(calc[x]))'
  <2>1. Owned(x) /\ CalcOK(calc[x]) /\ req'[x] = req[x]
    BY DEF FInv
  <2>2. CASE calc' = [calc EXCEPT ![r] = c] /\ UNCHANGED row
    <3>1. calc'[x] = calc[x]
      BY <1>1, <2>2
    <3> QED
      BY <2>1, <2>2, <3>1 DEF Owned, CalcOK
  <2>3. CASE calc' = [y \in Requests |-> IF y = r THEN c ELSE Watched(calc[y])]
    <3>1. PICK was : was = calc[x]
      OBVIOUS
    <3>2. PICK k : k = Watched(was)
      OBVIOUS
    <3>3. CalcOK(k)' /\ k.stage = was.stage /\ (was.stage = "none" => k = was)
      BY <1>2, <2>1, <3>1, <3>2, WatchedOK
    <3>4. calc'[x] = k
      BY <2>3, <3>1, <3>2
    <3> QED
      BY <2>1, <3>1, <3>3, <3>4 DEF Owned
  <2> QED
    BY <2>2, <2>3
<1>5. (Owned(r) /\ CalcOK(calc[r]))'
  BY <1>3 DEF Owned
<1>6. calc' \in [Requests -> Calc]
  BY <1>3, <1>4, <1>5 DEF CalcOK
<1> QED
  BY <1>4, <1>5, <1>6 DEF FInv

\* A SELECT changes nothing but what the request knows.
LEMMA ReadStep ==
  ASSUME FInv, NEW r \in Requests, NEW c, CalcOK(c),
         calc[r].stage # "none", c.stage # "none",
         calc' = [calc EXCEPT ![r] = c],
         UNCHANGED <<trip, row, payers, splits, events, req, plan>>
  PROVE  FInv'
<1>1. TypeOK' /\ LedgerInv'
  <2>1. TypeOK /\ LedgerInv /\ UNCHANGED vars
    BY DEF FInv, vars
  <2> QED
    BY <2>1, NextInv
<1>2. CalcOK(c)'
  BY DEF CalcOK
<1>3. req'[r].op = "finalize" /\ req'[r].pc = "begun"
  BY DEF FInv, Owned
<1> QED
  BY <1>1, <1>2, <1>3, StepOfOne DEF FInv

LEMMA CheckExpensesInv ==
  ASSUME FInv, NEW r \in Requests, CheckExpenses(r)
  PROVE  FInv'
<1>1. PICK was \in Calc : was = calc[r] /\ CalcOK(was)
  BY DEF FInv
<1>2. PICK seen : seen = [d \in Docs |-> IF d \in Expenses THEN row[d] ELSE was.checked[d]]
  OBVIOUS
<1>3. PICK c : c = [was EXCEPT !.stage = "settlements", !.checked = seen]
  OBVIOUS
<1>4. was.stage = "expenses" /\ calc' = [calc EXCEPT ![r] = c]
  BY <1>1, <1>2, <1>3 DEF CheckExpenses, Reads, FInv
<1>5. seen \in [Docs -> Row] /\ \A e \in Expenses : seen[e] = row[e]
  BY <1>1, <1>2 DEF FInv, TypeOK, Docs, Calc
<1>6. /\ c \in Calc /\ c.stage = "settlements" /\ c.checked = seen
      /\ c.plan = was.plan /\ c.approved = was.approved /\ c.during = was.during
  BY <1>1, <1>3, <1>5 DEF Calc, Stages
<1>7. CalcOK(c)
  <2>1. Checked(c) = Expenses
    BY <1>6 DEF Checked
  <2>2. \A d \in Docs : row[d] \in c.during[d]
    BY <1>1, <1>4, <1>6 DEF CalcOK
  <2>3. Held(c)
    BY <1>5, <1>6, <2>1, <2>2 DEF Held, Docs
  <2> QED
    BY <1>1, <1>4, <1>6, <2>2, <2>3 DEF CalcOK
<1> QED
  BY <1>1, <1>4, <1>6, <1>7, ReadStep DEF CheckExpenses, Reads

LEMMA CheckSettlementsInv ==
  ASSUME FInv, NEW r \in Requests, CheckSettlements(r)
  PROVE  FInv'
<1>1. PICK was \in Calc : was = calc[r] /\ CalcOK(was)
  BY DEF FInv
<1>2. PICK seen : seen = [d \in Docs |-> IF d \in Settlements THEN row[d] ELSE was.checked[d]]
  OBVIOUS
<1>3. PICK c : c = [was EXCEPT !.stage = "plan", !.checked = seen]
  OBVIOUS
<1>4. was.stage = "settlements" /\ calc' = [calc EXCEPT ![r] = c] /\ ~Refused(seen)
  BY <1>1, <1>2, <1>3 DEF CheckSettlements, Reads, FInv
<1>5. /\ seen \in [Docs -> Row]
      /\ \A s \in Settlements : seen[s] = row[s]
      /\ \A e \in Expenses : seen[e] = was.checked[e]
  BY <1>1, <1>2, RowsAssumption DEF FInv, TypeOK, Docs, Calc
<1>6. /\ c \in Calc /\ c.stage = "plan" /\ c.checked = seen
      /\ c.plan = was.plan /\ c.approved = was.approved /\ c.during = was.during
  BY <1>1, <1>3, <1>5 DEF Calc, Stages
<1>7. CalcOK(c)
  <2>1. Checked(c) = Docs /\ Checked(was) = Expenses
    BY <1>4, <1>6 DEF Checked
  <2>2. \A d \in Docs : row[d] \in c.during[d]
    BY <1>1, <1>4, <1>6 DEF CalcOK
  <2>3. \A e \in Expenses : was.checked[e] \in was.during[e]
    BY <1>1, <2>1 DEF CalcOK, Held
  <2>4. \A d \in Docs : c.checked[d] \in c.during[d]
    BY <1>5, <1>6, <2>2, <2>3 DEF Docs
  <2>5. Held(c)
    BY <1>4, <1>6, <2>1, <2>4 DEF Held
  <2> QED
    BY <1>1, <1>4, <1>6, <2>2, <2>5 DEF CalcOK
<1> QED
  BY <1>1, <1>4, <1>6, <1>7, ReadStep DEF CheckSettlements, Reads

LEMMA PlanExpensesInv ==
  ASSUME FInv, NEW r \in Requests, PlanExpenses(r)
  PROVE  FInv'
<1>1. PICK was \in Calc : was = calc[r] /\ CalcOK(was)
  BY DEF FInv
<1>2. PICK found \in SUBSET Expenses : found = Approved \cap Expenses
  OBVIOUS
<1>3. PICK c : c = [was EXCEPT !.stage = "payers", !.approved = found]
  OBVIOUS
<1>4. was.stage = "plan" /\ calc' = [calc EXCEPT ![r] = c]
  BY <1>1, <1>2, <1>3 DEF PlanExpenses, Reads, FInv
<1>5. \A e \in Expenses : e \in found <=> Counts(row[e])
  BY <1>2 DEF Approved, Docs
<1>6. /\ c \in Calc /\ c.stage = "payers" /\ c.approved = found
      /\ c.plan = was.plan /\ c.checked = was.checked /\ c.during = was.during
  BY <1>1, <1>2, <1>3 DEF Calc, Stages
<1>7. CalcOK(c)
  <2>1. Checked(c) = Docs /\ Checked(was) = Docs
    BY <1>4, <1>6 DEF Checked
  <2>2. \A d \in Docs : row[d] \in c.during[d]
    BY <1>1, <1>4, <1>6 DEF CalcOK
  <2>3. c.plan = NoPlan
    BY <1>1, <1>4, <1>6 DEF CalcOK
  <2>4. \A e \in Expenses : c.plan.paid[e] = 0
    BY <2>3, NothingPaid
  <2>5. \A e \in Expenses : \E x \in c.during[e] : e \in c.approved <=> Counts(x)
    BY <1>5, <1>6, <2>2 DEF Docs
  <2>6. ~Refused(c.checked) /\ \A d \in Docs : c.checked[d] \in c.during[d]
    BY <1>1, <1>4, <1>6, <2>1 DEF CalcOK, Held
  <2>7. Held(c)
    BY <1>6, <2>1, <2>5, <2>6 DEF Held
  <2> QED
    BY <1>6, <2>2, <2>3, <2>4, <2>7 DEF CalcOK
<1> QED
  BY <1>1, <1>4, <1>6, <1>7, ReadStep DEF PlanExpenses, Reads

\* The sums of an expense's lines are accounted for, as far as they are counted.
LEMMA LinesExplained ==
  ASSUME FInv, NEW c, CalcOK(c), c.stage \in {"payers", "splits"}, NEW e \in Expenses
  PROVE  /\ Explained(IF e \in c.approved THEN payers[e] ELSE 0, c.during[e])
         /\ Explained(IF e \in c.approved THEN splits[e] ELSE 0, c.during[e])
<1>1. payers[e] = row[e].amount /\ splits[e] = row[e].amount
  BY DEF FInv, LedgerInv, LinesMatchAmount
<1>2. row[e] \in c.during[e] /\ \E x \in c.during[e] : e \in c.approved <=> Counts(x)
  BY DEF CalcOK, Held, Docs
<1> QED
  BY <1>1, <1>2 DEF Explained

LEMMA PlanPayersInv ==
  ASSUME FInv, NEW r \in Requests, PlanPayers(r)
  PROVE  FInv'
<1>1. PICK was \in Calc : was = calc[r] /\ CalcOK(was)
  BY DEF FInv
<1>2. PICK sums : sums = [e \in Expenses |-> IF e \in was.approved THEN payers[e] ELSE 0]
  OBVIOUS
<1>3. PICK p : p = [was.plan EXCEPT !.paid = sums]
  OBVIOUS
<1>4. PICK c : c = [was EXCEPT !.stage = "splits", !.plan = p]
  OBVIOUS
<1>5. was.stage = "payers" /\ calc' = [calc EXCEPT ![r] = c]
  BY <1>1, <1>2, <1>3, <1>4 DEF PlanPayers, Reads, FInv, Calc
<1>6. sums \in [Expenses -> Nat]
  BY <1>2 DEF FInv, TypeOK
<1>7. p \in Plan /\ p.paid = sums
  BY <1>1, <1>3, <1>6 DEF Calc, Plan
<1>8. /\ c \in Calc /\ c.stage = "splits" /\ c.plan = p
      /\ c.approved = was.approved /\ c.checked = was.checked /\ c.during = was.during
  BY <1>1, <1>4, <1>7 DEF Calc, Stages
<1>9. CalcOK(c)
  <2>1. Checked(c) = Docs /\ Checked(was) = Docs
    BY <1>5, <1>8 DEF Checked
  <2>2. \A e \in Expenses : c.plan.paid[e] # 0 => e \in c.approved
    BY <1>2, <1>7, <1>8
  <2>3. \A e \in Expenses : Explained(sums[e], was.during[e])
    BY <1>1, <1>2, <1>5, LinesExplained
  <2>4. \A e \in Expenses : Explained(c.plan.paid[e], c.during[e])
    BY <1>7, <1>8, <2>3
  <2>5. Held(c)
    BY <1>1, <1>5, <1>8, <2>1, <2>4 DEF CalcOK, Held
  <2> QED
    BY <1>1, <1>5, <1>8, <2>2, <2>5 DEF CalcOK
<1> QED
  BY <1>1, <1>5, <1>8, <1>9, ReadStep DEF PlanPayers, Reads

LEMMA PlanSplitsInv ==
  ASSUME FInv, NEW r \in Requests, PlanSplits(r)
  PROVE  FInv'
<1>1. PICK was \in Calc : was = calc[r] /\ CalcOK(was)
  BY DEF FInv
<1>2. PICK sums : sums = [e \in Expenses |-> IF e \in was.approved THEN splits[e] ELSE 0]
  OBVIOUS
<1>3. PICK p : p = [was.plan EXCEPT !.owed = sums]
  OBVIOUS
<1>4. PICK c : c = [was EXCEPT !.stage = "transfers", !.plan = p]
  OBVIOUS
<1>5. was.stage = "splits" /\ calc' = [calc EXCEPT ![r] = c]
  BY <1>1, <1>2, <1>3, <1>4 DEF PlanSplits, Reads, FInv, Calc
<1>6. sums \in [Expenses -> Nat]
  BY <1>2 DEF FInv, TypeOK
<1>7. p \in Plan /\ p.owed = sums /\ p.paid = was.plan.paid
  BY <1>1, <1>3, <1>6 DEF Calc, Plan
<1>8. /\ c \in Calc /\ c.stage = "transfers" /\ c.plan = p
      /\ c.approved = was.approved /\ c.checked = was.checked /\ c.during = was.during
  BY <1>1, <1>4, <1>7 DEF Calc, Stages
<1>9. CalcOK(c)
  <2>1. Checked(c) = Docs /\ Checked(was) = Docs
    BY <1>5, <1>8 DEF Checked
  <2>2. \A e \in Expenses : c.plan.paid[e] # 0 => e \in c.approved
    BY <1>1, <1>7, <1>8 DEF CalcOK
  <2>3. \A e \in Expenses : Explained(sums[e], was.during[e])
    BY <1>1, <1>2, <1>5, LinesExplained
  <2>4. \A e \in Expenses : Explained(c.plan.owed[e], c.during[e])
    BY <1>7, <1>8, <2>3
  <2>5. \A e \in Expenses : Explained(c.plan.paid[e], c.during[e])
    BY <1>1, <1>5, <1>7, <1>8 DEF CalcOK, Held
  <2>6. Held(c)
    BY <1>1, <1>5, <1>8, <2>1, <2>4, <2>5 DEF CalcOK, Held
  <2> QED
    BY <1>1, <1>5, <1>8, <2>2, <2>6 DEF CalcOK
<1> QED
  BY <1>1, <1>5, <1>8, <1>9, ReadStep DEF PlanSplits, Reads

LEMMA PlanSettlementsInv ==
  ASSUME FInv, NEW r \in Requests, PlanSettlements(r)
  PROVE  FInv'
<1>1. PICK was \in Calc : was = calc[r] /\ CalcOK(was)
  BY DEF FInv
<1>2. PICK sums : sums = [s \in Settlements |-> IF s \in Approved THEN row[s].amount ELSE 0]
  OBVIOUS
<1>3. PICK p : p = [was.plan EXCEPT !.settled = sums]
  OBVIOUS
<1>4. PICK c : c = [was EXCEPT !.stage = "commit", !.plan = p]
  OBVIOUS
<1>5. was.stage = "transfers" /\ calc' = [calc EXCEPT ![r] = c]
  BY <1>1, <1>2, <1>3, <1>4 DEF PlanSettlements, Reads, FInv, Calc
<1>6. sums \in [Settlements -> Nat]
      /\ \A s \in Settlements : sums[s] = Contribution(row[s])
  BY <1>2 DEF FInv, TypeOK, Docs, Row, Approved, Contribution, Counts
<1>7. p \in Plan /\ p.settled = sums /\ p.paid = was.plan.paid /\ p.owed = was.plan.owed
  BY <1>1, <1>3, <1>6 DEF Calc, Plan
<1>8. /\ c \in Calc /\ c.stage = "commit" /\ c.plan = p
      /\ c.approved = was.approved /\ c.checked = was.checked /\ c.during = was.during
  BY <1>1, <1>4, <1>7 DEF Calc, Stages
<1>9. CalcOK(c)
  <2>1. Checked(c) = Docs /\ Checked(was) = Docs
    BY <1>5, <1>8 DEF Checked
  <2>2. \A e \in Expenses : c.plan.paid[e] # 0 => e \in c.approved
    BY <1>1, <1>7, <1>8 DEF CalcOK
  <2>3. \A s \in Settlements : row[s] \in c.during[s]
    BY <1>1, <1>5, <1>8 DEF CalcOK, Docs
  <2>4. \A s \in Settlements : \E x \in c.during[s] : c.plan.settled[s] = Contribution(x)
    BY <1>6, <1>7, <1>8, <2>3
  <2>5. \A e \in Expenses : /\ Explained(c.plan.paid[e], c.during[e])
                            /\ Explained(c.plan.owed[e], c.during[e])
    BY <1>1, <1>5, <1>7, <1>8 DEF CalcOK, Held
  <2>6. Held(c)
    BY <1>1, <1>5, <1>8, <2>1, <2>4, <2>5 DEF CalcOK, Held
  <2> QED
    BY <1>1, <1>5, <1>8, <2>2, <2>6 DEF CalcOK
<1> QED
  BY <1>1, <1>5, <1>8, <1>9, ReadStep DEF PlanSettlements, Reads

---------------------------------------------------------------------------------
(* The remaining steps, and the invariant.                                 *)

\* The flag and the version are all a finalization writes of the trip.
LEMMA TripMoves ==
  ASSUME trip \in Trip, NEW b \in BOOLEAN,
         trip' = [trip EXCEPT !.finalized = b, !.version = @ + 1]
  PROVE  trip' \in Trip
<1>1. PICK was \in Trip : was = trip
  OBVIOUS
<1>2. was.version + 1 \in Nat
  BY DEF Trip
<1> QED
  BY <1>1, <1>2 DEF Trip

LEMMA FInitInv == FInit => FInv
<1> SUFFICES ASSUME FInit PROVE FInv
  OBVIOUS
<1>1. TypeOK /\ LedgerInv
  BY InitInv DEF FInit
<1>2. \A r \in Requests : calc[r] = NoCalc
  BY DEF FInit
<1>3. calc \in [Requests -> Calc] /\ plan \in Plan
  BY NoCalcOK DEF FInit
<1>4. \A r \in Requests : CalcOK(calc[r])
  BY <1>2, NoCalcOK
<1>5. \A r \in Requests : Owned(r)
  <2>1. NoCalc.stage = "none"
    BY DEF NoCalc
  <2> QED
    BY <1>2, <2>1 DEF Owned
<1> QED
  BY <1>1, <1>3, <1>4, <1>5 DEF FInv

\* The request that publishes a plan forgets what it has read.
LEMMA CommitFinalizeInv ==
  ASSUME FInv, NEW r \in Requests, CommitFinalize(r)
  PROVE  FInv'
<1>1. trip' \in Trip
  BY TripMoves DEF CommitFinalize, FInv, TypeOK
<1>2. /\ req' = Finished(r) /\ UNCHANGED <<row, payers, splits, events>>
      /\ calc' = [calc EXCEPT ![r] = NoCalc] /\ plan' = calc[r].plan
  BY DEF CommitFinalize
<1>3. TypeOK' /\ LedgerInv'
  BY <1>1, <1>2, FinishInv DEF FInv
<1>4. plan' \in Plan
  BY <1>2, CalcFields DEF FInv
<1>5. CalcOK(NoCalc)'
  BY NoCalcOK DEF CalcOK, NoCalc
<1>6. \A x \in Requests \ {r} : req'[x] = req[x]
  BY <1>2 DEF Finished, FInv, TypeOK
<1>7. IF NoCalc.stage = "none" THEN NoCalc = NoCalc
                               ELSE req'[r].op = "finalize" /\ req'[r].pc = "begun"
  BY DEF NoCalc
<1> QED
  BY <1>2, <1>3, <1>4, <1>5, <1>6, <1>7, StepOfOne

\* A step that changes no row and leaves every calculation as it is.
LEMMA CalcsUntouched ==
  ASSUME FInv, TypeOK', LedgerInv', UNCHANGED <<calc, row>>, plan' \in Plan,
         NEW r \in Requests, calc[r].stage = "none",
         \A x \in Requests \ {r} : req'[x] = req[x]
  PROVE  FInv'
<1>1. calc[r] = NoCalc /\ calc \in [Requests -> Calc]
  BY DEF FInv, Owned
<1>2. calc' = [calc EXCEPT ![r] = NoCalc]
  BY <1>1
<1>3. CalcOK(NoCalc)'
  BY NoCalcOK DEF CalcOK, NoCalc
<1>4. IF NoCalc.stage = "none" THEN NoCalc = NoCalc
                               ELSE req'[r].op = "finalize" /\ req'[r].pc = "begun"
  BY DEF NoCalc
<1> QED
  BY <1>2, <1>3, <1>4, StepOfOne

LEMMA BeginFinalizeInv ==
  ASSUME FInv, NEW r \in Requests, BeginFinalize(r)
  PROVE  FInv'
<1>1. PICK u \in Planners : Admit(r, "finalize", u, NoDoc, 0, NoInput, NoSettings)
  BY DEF BeginFinalize
<1>2. u \in Users
  BY LedgerAssumption
<1>3. TypeOK' /\ LedgerInv'
  BY <1>1, <1>2, BlankRow, AdmitInv DEF FInv, TripOps, DocumentOps
<1>4. /\ req[r].pc = "idle"
      /\ req'[r].op = "finalize" /\ req'[r].pc = "begun"
      /\ \A x \in Requests \ {r} : req'[x] = req[x]
      /\ UNCHANGED row
  BY <1>1 DEF Admit, FInv, TypeOK
<1>5. calc[r] = NoCalc
  BY <1>4 DEF FInv, Owned
<1>6. PICK rows : rows = [d \in Docs |-> {row[d]}]
  OBVIOUS
<1>7. PICK c : c = [NoCalc EXCEPT !.stage = "expenses", !.during = rows]
  OBVIOUS
<1>8. calc' = [calc EXCEPT ![r] = c] /\ UNCHANGED plan
  BY <1>5, <1>6, <1>7 DEF BeginFinalize, FInv
<1>9. rows \in [Docs -> SUBSET Row]
  BY <1>6 DEF FInv, TypeOK
<1>10. /\ c.stage = "expenses" /\ c.plan = NoPlan /\ c.during = rows /\ c \in Calc
       /\ Checked(c) = {}
  BY <1>7, <1>9, NoCalcOK DEF NoCalc, Calc, Stages, Checked
<1>11. CalcOK(c)'
  <2>1. \A e \in Expenses : c.plan.paid[e] = 0
    BY <1>10, NothingPaid
  <2>2. \A d \in Docs : row'[d] \in c.during[d]
    BY <1>4, <1>6, <1>10
  <2> QED
    BY <1>10, <2>1, <2>2 DEF CalcOK, Held
<1> QED
  BY <1>3, <1>4, <1>8, <1>10, <1>11, StepOfOne DEF FInv

LEMMA UnfinalizeInv ==
  ASSUME FInv, NEW r \in Requests, BeginUnfinalize(r) \/ CommitUnfinalize(r)
  PROVE  FInv'
<1>1. CASE BeginUnfinalize(r)
  <2>1. PICK u \in Planners : Admit(r, "unfinalize", u, NoDoc, 0, NoInput, NoSettings)
    BY <1>1 DEF BeginUnfinalize
  <2>2. u \in Users
    BY LedgerAssumption
  <2>3. TypeOK' /\ LedgerInv'
    BY <2>1, <2>2, BlankRow, AdmitInv DEF FInv, TripOps, DocumentOps
  <2>4. /\ req[r].pc = "idle" /\ UNCHANGED row
        /\ \A x \in Requests \ {r} : req'[x] = req[x]
    BY <2>1 DEF Admit, FInv, TypeOK
  <2>5. calc[r].stage = "none"
    BY <2>4 DEF FInv, Owned
  <2> QED
    BY <1>1, <2>3, <2>4, <2>5, CalcsUntouched DEF BeginUnfinalize, FInv
<1>2. CASE CommitUnfinalize(r)
  <2>1. trip' \in Trip
    BY <1>2, TripMoves DEF CommitUnfinalize, FInv, TypeOK
  <2>2. /\ req' = Finished(r) /\ UNCHANGED <<row, payers, splits, events, calc>>
        /\ plan' = NoPlan /\ req[r].op = "unfinalize"
    BY <1>2 DEF CommitUnfinalize
  <2>3. TypeOK' /\ LedgerInv'
    BY <2>1, <2>2, FinishInv DEF FInv
  <2>4. calc[r].stage = "none"
    BY <2>2 DEF FInv, Owned
  <2>5. \A x \in Requests \ {r} : req'[x] = req[x]
    BY <2>2 DEF Finished, FInv, TypeOK
  <2> QED
    BY <2>2, <2>3, <2>4, <2>5, NoCalcOK, CalcsUntouched
<1> QED
  BY <1>1, <1>2

\* A request of the ledger calculates nothing; a finalization that fails forgets
\* what it had read.
LEMMA LedgerStepInv ==
  ASSUME FInv, NEW r \in Requests, LedgerStep(r)
  PROVE  FInv'
<1>1. TypeOK' /\ LedgerInv'
  <2>1. TypeOK /\ LedgerInv /\ Next
    BY DEF FInv, LedgerStep, Next
  <2> QED
    BY <2>1, NextInv
<1>2. row' \in [Docs -> Row] /\ calc \in [Requests -> Calc]
  BY <1>1 DEF FInv, TypeOK
<1>3. \A x \in Requests \ {r} : req'[x] = req[x]
  <2>1. CASE Begin(r)
    BY <2>1 DEF FInv, TypeOK, Begin, BeginCreateExpense, BeginUpdateExpense,
       BeginDeleteExpense, BeginApproveExpense, BeginRejectExpense,
       BeginRecordSettlement, BeginUpdateSettlement, BeginDeleteSettlement,
       BeginApproveSettlement, BeginRejectSettlement, BeginCreate, BeginUpdate,
       BeginOther, BeginSettings, BeginArchive, Admit
  <2>2. CASE Serve(r)
    BY <2>2 DEF FInv, TypeOK, Serve, ReadExpense, ReadSettlement, CreateExpense,
       RecordSettlement, UpdateExpense, UpdateSettlement, DecideExpense,
       DecideSettlement, DeleteExpense, DeleteSettlement, CreateDocument,
       UpdateDocument, DecideDocument, DeleteDocument, CommitSettings,
       CommitArchive, Fail, Finished
  <2> QED
    BY <2>1, <2>2 DEF LedgerStep
<1>4. plan' \in Plan /\ CalcOK(NoCalc)'
  BY NoCalcOK DEF LedgerStep, Beside, FInv, CalcOK, NoCalc
<1>5. NoCalc.stage = "none"
  BY DEF NoCalc
<1>6. CASE calc[r].stage = "none"
  <2>1. calc[r] = NoCalc
    BY <1>6 DEF FInv, Owned
  <2>2. Watched(calc[r]) = NoCalc
    BY <1>5, <2>1 DEF Watched
  <2>3. calc' = [x \in Requests |-> IF x = r THEN NoCalc ELSE Watched(calc[x])]
    BY <2>2 DEF LedgerStep, Beside
  <2> QED
    BY <1>1, <1>3, <1>4, <1>5, <2>3, StepOfOne
<1>7. CASE calc[r].stage # "none"
  <2>1. req[r].op = "finalize" /\ req[r].pc = "begun"
    BY <1>7 DEF FInv, Owned
  <2>2. Fail(r)
    <3>1. ~Begin(r)
      BY <2>1 DEF Begin, BeginCreateExpense, BeginUpdateExpense,
         BeginDeleteExpense, BeginApproveExpense, BeginRejectExpense,
         BeginRecordSettlement, BeginUpdateSettlement, BeginDeleteSettlement,
         BeginApproveSettlement, BeginRejectSettlement, BeginCreate, BeginUpdate,
         BeginOther, BeginSettings, BeginArchive, Admit
    <3> QED
      BY <2>1, <3>1 DEF LedgerStep, Serve, ReadExpense, ReadSettlement,
         CreateExpense, RecordSettlement, UpdateExpense, UpdateSettlement,
         DecideExpense, DecideSettlement, DeleteExpense, DeleteSettlement,
         CreateDocument, UpdateDocument, DecideDocument, DeleteDocument,
         CommitSettings, CommitArchive
  <2>3. req'[r].pc = "idle"
    BY <2>2, IdleRequest DEF Fail, Finished, FInv, TypeOK
  <2>4. calc' = [x \in Requests |-> IF x = r THEN NoCalc ELSE Watched(calc[x])]
    BY <2>3 DEF LedgerStep, Beside
  <2> QED
    BY <1>1, <1>3, <1>4, <1>5, <2>4, StepOfOne
<1> QED
  BY <1>6, <1>7

LEMMA FNextInv == FInv /\ [FNext]_fvars => FInv'
<1> SUFFICES ASSUME FInv, [FNext]_fvars PROVE FInv'
  OBVIOUS
<1>1. CASE UNCHANGED fvars
  <2>1. TypeOK' /\ LedgerInv'
    <3>1. TypeOK /\ LedgerInv /\ UNCHANGED vars
      BY <1>1 DEF FInv, fvars, vars
    <3> QED
      BY <3>1, NextInv
  <2>2. UNCHANGED <<row, req, calc, plan>>
    BY <1>1 DEF fvars
  <2>3. \A r \in Requests : (Owned(r) /\ CalcOK(calc[r]))'
    BY <2>2 DEF FInv, Owned, CalcOK
  <2> QED
    BY <2>1, <2>2, <2>3 DEF FInv
<1>2. ASSUME NEW r \in Requests, Finalizing(r)
      PROVE  FInv'
  BY <1>2, CheckExpensesInv, CheckSettlementsInv, PlanExpensesInv, PlanPayersInv,
     PlanSplitsInv, PlanSettlementsInv, CommitFinalizeInv, UnfinalizeInv
  DEF Finalizing
<1> QED
  BY <1>1, <1>2, LedgerStepInv, BeginFinalizeInv, UnfinalizeInv DEF FNext

\* Spec of the finalization without its fairness.
LEMMA FSafe == FSpec => FInit /\ [][FNext]_fvars
BY PTL DEF FSpec

\* What a finalization has read is accounted for by what the documents have said since it
\* began.
THEOREM FinalizationInvariant == FSpec => []FInv
BY FSafe, FInitInv, FNextInv, PTL

\* Every variable keeps its type, and only approved expenses are counted as paid.
THEOREM FTypeCorrect == FSpec => []FTypeOK
<1>1. FInv => FTypeOK
  BY DEF FInv, FTypeOK, Owned, CalcOK
<1> QED
  BY <1>1, FinalizationInvariant, PTL

---------------------------------------------------------------------------------
(* What a published plan is worth.                                         *)

\* The part of EveryFigureHeld that concerns one step.
PublishesWhatHeld ==
  \A r \in Requests :
     calc[r].stage = "commit" /\ req'[r] = Idle /\ trip'.version # trip.version =>
       LET during == calc[r].during IN
       /\ \A d \in Docs : \E x \in during[d] : ~(x.life = "live" /\ x.status = "pending")
       /\ \A e \in Expenses :
            Explained(plan'.paid[e], during[e]) /\ Explained(plan'.owed[e], during[e])
       /\ \A s \in Settlements :
            \E x \in during[s] : plan'.settled[s] = IF Counts(x) THEN x.amount ELSE 0

\* The step that publishes is the commit of the request that calculated.
LEMMA PublishingStep ==
  ASSUME FInv, [FNext]_fvars, NEW r \in Requests,
         calc[r].stage = "commit", req'[r] = Idle, trip'.version # trip.version
  PROVE  CommitFinalize(r)
<1>1. req[r].op = "finalize" /\ req[r].pc = "begun"
  BY DEF FInv, Owned
<1>2. ~UNCHANGED trip /\ req'[r] # req[r]
  BY <1>1, IdleRequest
<1>3. PICK x \in Requests :
        LedgerStep(x) \/ BeginFinalize(x) \/ BeginUnfinalize(x) \/ Finalizing(x)
  BY <1>2 DEF FNext, fvars
<1>4. ~BeginFinalize(x) /\ ~BeginUnfinalize(x)
  BY <1>2 DEF BeginFinalize, BeginUnfinalize, Admit
<1>5. ~Begin(x)
  BY <1>2, BeginWritesNothing
<1>6. ASSUME LedgerStep(x)
      PROVE  FALSE
  <2>1. CommitSettings(x) \/ CommitArchive(x)
    BY <1>2, <1>5, <1>6 DEF LedgerStep, Serve, ReadExpense, ReadSettlement,
       CreateExpense, RecordSettlement, UpdateExpense, UpdateSettlement,
       DecideExpense, DecideSettlement, DeleteExpense, DeleteSettlement,
       CreateDocument, UpdateDocument, DecideDocument, DeleteDocument, Fail
  <2>2. x # r /\ req' = Finished(x)
    BY <1>1, <2>1 DEF CommitSettings, CommitArchive
  <2> QED
    BY <1>2, <2>2 DEF Finished, FInv, TypeOK
<1>7. CommitFinalize(x) \/ CommitUnfinalize(x)
  BY <1>2, <1>3, <1>4, <1>6 DEF Finalizing, CheckExpenses, CheckSettlements,
     PlanExpenses, PlanPayers, PlanSplits, PlanSettlements, Reads
<1>8. req' = Finished(x)
  BY <1>7 DEF CommitFinalize, CommitUnfinalize
<1>9. x = r
  BY <1>2, <1>8 DEF Finished, FInv, TypeOK
<1> QED
  BY <1>1, <1>7, <1>9 DEF CommitUnfinalize

LEMMA PublishingHolds ==
  ASSUME FInv, [FNext]_fvars
  PROVE  PublishesWhatHeld
<1> SUFFICES ASSUME NEW r \in Requests, calc[r].stage = "commit", req'[r] = Idle,
                    trip'.version # trip.version, NEW during, during = calc[r].during
             PROVE  /\ \A d \in Docs :
                         \E x \in during[d] : ~(x.life = "live" /\ x.status = "pending")
                    /\ \A e \in Expenses : /\ Explained(plan'.paid[e], during[e])
                                            /\ Explained(plan'.owed[e], during[e])
                    /\ \A s \in Settlements :
                         \E x \in during[s] : plan'.settled[s] = Contribution(x)
  BY DEF PublishesWhatHeld, Contribution
<1>1. PICK c \in Calc : c = calc[r] /\ CalcOK(c)
  BY DEF FInv
<1>2. plan' = c.plan /\ c.stage = "commit" /\ c.during = during /\ Held(c)
  BY <1>1, PublishingStep DEF CommitFinalize, CalcOK
<1>3. ASSUME NEW d \in Docs
      PROVE  \E x \in during[d] : ~(x.life = "live" /\ x.status = "pending")
  <2>1. c.checked[d] \in c.during[d]
    BY <1>2 DEF Held, Checked
  <2>2. ~(c.checked[d].life = "live" /\ c.checked[d].status = "pending")
    BY <1>2 DEF Held, Refused, Pending
  <2> QED
    BY <1>2, <2>1, <2>2
<1>4. /\ \A e \in Expenses : /\ Explained(plan'.paid[e], during[e])
                              /\ Explained(plan'.owed[e], during[e])
      /\ \A s \in Settlements : \E x \in during[s] : plan'.settled[s] = Contribution(x)
  BY <1>2 DEF Held
<1> QED
  BY <1>3, <1>4

\* Whatever commits in between, every figure of a published plan is what its document said
\* at some moment of the calculation, and nothing was pending all along (Finalize).
THEOREM EveryFigureHeldOnce == FSpec => EveryFigureHeld
<1>1. FInv /\ [FNext]_fvars => PublishesWhatHeld
  BY PublishingHolds
<1>2. EveryFigureHeld <=> [][PublishesWhatHeld]_fvars
  BY DEF EveryFigureHeld, PublishesWhatHeld
<1> QED
  BY <1>1, <1>2, FSafe, FinalizationInvariant, PTL

=================================================================================
