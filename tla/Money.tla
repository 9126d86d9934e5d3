---------------------------------- MODULE Money ----------------------------------
(***************************************************************************)
(* The arithmetic of a trip: rounding, splits, conversion, balances, the   *)
(* payments that settle them, and a member's statement.                    *)
(*                                                                         *)
(* An amount is a number of sub-units, the finest amount the model tells   *)
(* apart; the currency c is shown in minor units of Minor[c] sub-units     *)
(* (100 IDR has no decimals, 1.00 USD has two).  People are numbers: their *)
(* order is the order of the user ids, which breaks every tie.             *)
(***************************************************************************)
EXTENDS Integers, FiniteSets, Sequences, Functions

CONSTANTS
  Currencies, \* supported currencies
  People,     \* user ids
  Minor,      \* sub-units in the minor unit a currency is shown in
  Epsilon     \* sub-units in 0.01: less counts as nothing

ASSUME MoneyAssumption ==
  /\ People \subseteq Nat
  /\ IsFiniteSet(People)
  /\ IsFiniteSet(Currencies)
  /\ Minor \in [Currencies -> Nat \ {0}]
  /\ Epsilon \in Nat \ {0}

Total(f) == SumFunction(f)

Abs(v) == IF v < 0 THEN -v ELSE v

Least(S) == CHOOSE m \in S : \A v \in S : m <= v

IsZero(v) == Abs(v) < Epsilon

\* v to a multiple of unit, a half to the even one.
Round(v, unit) ==
  LET q == Abs(v) \div unit
      r == Abs(v) % unit
      up == 2 * r > unit \/ (2 * r = unit /\ q % 2 = 1)
      size == unit * (IF up THEN q + 1 ELSE q)
  IN  IF v < 0 THEN -size ELSE size

\* n / d to a whole number, a half away from zero.
DivRound(n, d) ==
  LET size == (2 * Abs(n) + d) \div (2 * d) IN IF n < 0 THEN -size ELSE size

---------------------------------------------------------------------------------
(* Splits.  A split, like a list of payers, is a function on the people in it. *)

\* Mutated form of FairPart: the units that rounding down leaves are not given out.
FairPartRoundedDown(units, weight, p) == (units * weight[p]) \div Total(weight)

\* p's part when whole units are shared by weight: rounded down, and one of the
\* units left for those with the largest fractions.
FairPart(units, weight, p) ==
  LET all == Total(weight)
      floor == [q \in DOMAIN weight |-> (units * weight[q]) \div all]
      fraction == [q \in DOMAIN weight |-> (units * weight[q]) % all]
      ahead == {q \in DOMAIN weight :
                  fraction[q] > fraction[p] \/ (fraction[q] = fraction[p] /\ q < p)}
  IN  floor[p] + (IF Cardinality(ahead) < units - Total(floor) THEN 1 ELSE 0)

\* Weights below zero count as zero; without any weight everybody counts the same.
Positive(weight) ==
  LET kept == [p \in DOMAIN weight |-> IF weight[p] > 0 THEN weight[p] ELSE 0]
  IN  IF Total(kept) = 0 THEN [p \in DOMAIN weight |-> 1] ELSE kept

SplitProportional(total, weight, unit) ==
  LET rounded == Round(total, unit)
      part(p) == unit * FairPart(Abs(rounded) \div unit, Positive(weight), p)
  IN  [p \in DOMAIN weight |-> IF rounded < 0 THEN -part(p) ELSE part(p)]

SplitEqual(total, who, unit) == SplitProportional(total, [p \in who |-> 1], unit)

\* What each diner had: the lines of the bill shared among those on them.
Subtotals(items, unit) ==
  [p \in UNION {items[i].who : i \in DOMAIN items} |->
     Total([i \in DOMAIN items |->
              IF p \in items[i].who THEN SplitEqual(items[i].amount, items[i].who, unit)[p]
                                    ELSE 0])]

ItemsTotal(items) == Total([i \in DOMAIN items |-> items[i].amount])

SplitByItem(items, extras, unit) ==
  LET had == Subtotals(items, unit)
      spread == SplitProportional(extras, had, unit)
  IN  [p \in DOMAIN had |-> had[p] + spread[p]]

\* A percentage is counted in thousandths, and summed to hundredths.
Hundred == 100000
Hundredth == 10

Kinds == {"equal", "manual", "percent", "shares", "item"}

\* The bill a client sends: parts are the people, amounts, percentages or shares of
\* its kind, items and extras the lines, and tax, service and discount, of an itemised one.
Splits(bill, unit) ==
  CASE bill.kind = "equal"               -> SplitEqual(bill.amount, DOMAIN bill.parts, unit)
    [] bill.kind = "manual"              -> bill.parts
    [] bill.kind \in {"percent", "shares"} -> SplitProportional(bill.amount, bill.parts, unit)
    [] bill.kind = "item"                -> SplitByItem(bill.items, bill.extras, unit)

NoneNegative(f) == \A p \in DOMAIN f : f[p] >= 0

WeightsFit(parts) == parts # <<>> /\ NoneNegative(parts) /\ Total(parts) > 0

ItemsFit(bill, unit) ==
  /\ bill.items # <<>>
  /\ \A i \in DOMAIN bill.items : bill.items[i].who # {} /\ bill.items[i].amount >= 0
  /\ ItemsTotal(bill.items) + bill.extras >= 0
  /\ LET expected == IF bill.amount > 0 THEN bill.amount
                                        ELSE ItemsTotal(bill.items) + bill.extras
     IN  Round(Total(SplitByItem(bill.items, bill.extras, unit)), unit) = Round(expected, unit)

\* CalculateSplits returns no error.
SplitsFit(bill, unit) ==
  CASE bill.kind = "equal"   -> bill.parts # <<>>
    [] bill.kind = "manual"  -> /\ bill.parts # <<>>
                                /\ NoneNegative(bill.parts)
                                /\ Round(Total(bill.parts), unit) = Round(bill.amount, unit)
    [] bill.kind = "percent" -> /\ WeightsFit(bill.parts)
                                /\ Round(Total(bill.parts), Hundredth) = Hundred
    [] bill.kind = "shares"  -> WeightsFit(bill.parts)
    [] bill.kind = "item"    -> ItemsFit(bill, unit)

\* ValidatePayers returns no error.
PayersFit(amount, payers, unit) ==
  /\ payers # <<>>
  /\ \A p \in DOMAIN payers : payers[p] > 0
  /\ Round(Total(payers), unit) = Round(amount, unit)

---------------------------------------------------------------------------------
(* Conversion.  A table has for each direction its rate, or 0 without one. *)

Directions == {d \in Currencies \X Currencies : d[1] # d[2]}

Convertible(table, from, to) ==
  from # to => \E d \in {<<from, to>>, <<to, from>>} : table[d] > 0

Convert(table, amount, from, to) ==
  IF from = to THEN amount
  ELSE IF table[<<from, to>>] > 0 THEN amount * table[<<from, to>>]
  ELSE DivRound(amount, table[<<to, from>>])

(* Balances.  A document is an expense or a settlement; a settlement counts as *)
(* paid by its sender and owed by its receiver.                            *)

\* The amount charged to a card replaces the trip's rate, if it is in the base currency.
HasOverride(doc, base) == doc.charged > 0 /\ doc.chargedIn = base /\ doc.amount > 0

InBase(doc, base, table, amount) ==
  IF HasOverride(doc, base) THEN DivRound(amount * doc.charged, doc.amount)
                            ELSE Convert(table, amount, doc.currency, base)

RatesKnown(docs, base, table) ==
  \A doc \in Range(docs) : HasOverride(doc, base) \/ Convertible(table, doc.currency, base)

At0(f, p) == IF p \in DOMAIN f THEN f[p] ELSE 0

Paid(docs, base, table, p) ==
  Total([i \in DOMAIN docs |-> InBase(docs[i], base, table, At0(docs[i].payers, p))])

Owed(docs, base, table, p) ==
  Total([i \in DOMAIN docs |-> InBase(docs[i], base, table, At0(docs[i].splits, p))])

NetBalances(docs, base, table) ==
  [p \in People |-> Paid(docs, base, table, p) - Owed(docs, base, table, p)]

(* What a trip spent: in its summary, expense by expense, and in the list of a *)
(* member's trips, currency by currency.                                   *)

TotalExpenses(docs, base, table) ==
  Total([i \in DOMAIN docs |->
           IF docs[i].kind = "settlement" THEN 0
           ELSE IF HasOverride(docs[i], base) THEN docs[i].charged
           ELSE InBase(docs[i], base, table, docs[i].amount)])

SpentIn(docs, c) ==
  Total([i \in DOMAIN docs |->
           IF docs[i].kind # "settlement" /\ docs[i].currency = c THEN docs[i].amount ELSE 0])

\* A currency without a rate is left out; charged amounts are not looked at.
TotalSpend(docs, base, table) ==
  Total([c \in {k \in Currencies : Convertible(table, k, base)} |->
           Convert(table, SpentIn(docs, c), c, base)])

(* The payments that settle the balances, greedily.                        *)

Debtors(net) == {p \in People : net[p] < 0 /\ ~IsZero(net[p])}
Creditors(net) == {p \in People : net[p] > 0 /\ ~IsZero(net[p])}

Largest(net, S) ==
  CHOOSE p \in S : \A q \in S : Abs(net[p]) > Abs(net[q]) \/ (Abs(net[p]) = Abs(net[q]) /\ p <= q)

\* Mutated form of Paired: the creditor is the first one, and is paid all that is owed.
PairedInFull(state) ==
  LET from == Largest(state.net, Debtors(state.net))
      to == Least(Creditors(state.net))
      amount == Abs(state.net[from])
  IN  [net  |-> [state.net EXCEPT ![from] = @ + amount, ![to] = @ - amount],
       plan |-> Append(state.plan, [from |-> from, to |-> to, amount |-> amount])]

\* The largest debtor pays the largest creditor as much as settles one of them.
Paired(state) ==
  LET from == Largest(state.net, Debtors(state.net))
      to == Largest(state.net, Creditors(state.net))
      amount == Least({Abs(state.net[from]), state.net[to]})
  IN  [net  |-> [state.net EXCEPT ![from] = @ + amount, ![to] = @ - amount],
       plan |-> Append(state.plan, [from |-> from, to |-> to, amount |-> amount])]

\* What is left and the plan once no debtor or no creditor remains, or at the cap.
Optimize(net) ==
  LET cap == 2 * Cardinality(People)
      run[n \in 0..cap] ==
        IF n = 0 THEN [net |-> net, plan |-> <<>>]
        ELSE LET before == run[n - 1]
             IN  IF Debtors(before.net) = {} \/ Creditors(before.net) = {} THEN before
                                                                          ELSE Paired(before)
  IN  run[cap]

(* A member's statement, alone or against one other member.                *)

\* A change of 0.01 or less is not a line of the statement, unless it is a repayment.
Line(doc, delta) == IF doc.kind = "settlement" \/ Abs(delta) > Epsilon THEN delta ELSE 0

Statement(docs, base, table, p) ==
  Total([i \in DOMAIN docs |->
           LET doc == docs[i]
           IN  Line(doc, InBase(doc, base, table, At0(doc.payers, p))
                           - InBase(doc, base, table, At0(doc.splits, p)))])

\* Mutated form of Debt: the share is taken as it is, although others paid too.
DebtInFull(doc, base, table, debtor, payer) ==
  IF payer \in DOMAIN doc.payers THEN InBase(doc, base, table, At0(doc.splits, debtor)) ELSE 0

\* What debtor owes payer of one document: the share of the debtor, in proportion to
\* what the payer paid of it.
Debt(doc, base, table, debtor, payer) ==
  LET paid == [q \in DOMAIN doc.payers |-> InBase(doc, base, table, doc.payers[q])]
  IN  IF Total(paid) <= 0 THEN 0
      ELSE DivRound(InBase(doc, base, table, At0(doc.splits, debtor)) * At0(paid, payer), Total(paid))

StatementAgainst(docs, base, table, p, q) ==
  Total([i \in DOMAIN docs |->
           Line(docs[i], Debt(docs[i], base, table, q, p) - Debt(docs[i], base, table, p, q))])
=================================================================================
