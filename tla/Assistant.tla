-------------------------------- MODULE Assistant --------------------------------
(***************************************************************************)
(* The tools an AI assistant calls over MCP beside the members' own        *)
(* client, and what is promised of a trip's money with both at work.       *)
(*                                                                         *)
(* A tool resolves the trip, names its people, settles the currency and    *)
(* its rate and looks for a recent duplicate, each a read of its own,      *)
(* before it calls the same service the client does.  An assistant that    *)
(* sees no answer may call again with the same details.                    *)
(***************************************************************************)
EXTENDS TripMoney

CONSTANT PageSize  \* how many of a day's expenses the lookup of a duplicate reads: 100

ASSUME AssistantAssumption == PageSize \in Nat \ {0}

\* The bill adds up: lines, tax, service and discount make its total.
AddsUp(bill) ==
  bill.kind = "item" =>
    Round(bill.amount, Minor[bill.currency])
      = Round(ItemsTotal(bill.items) + bill.extras, Minor[bill.currency])

\* The connection may write, the trip and its people are read; a charged amount is not
\* among a tool's arguments.
BeginTool(r, author, bill) ==
  /\ bill.chargedIn = NoCurrency
  /\ Admit("tool", r, [Idle EXCEPT !.pc = "currency", !.tool = TRUE, !.author = author,
                                   !.bill = bill])

CreateBillExpense(r, author, bill) ==
  /\ bill \in Sound /\ bill.kind = "item"
  /\ AddsUp(bill)
  /\ BeginTool(r, author, bill)

AddExpense(r, author, bill) ==
  /\ bill \in Sound /\ bill.kind # "item"
  /\ BeginTool(r, author, bill)

RecordSettlement(r, author, bill) ==
  /\ bill.kind = "settlement" /\ RepaymentFits(bill)
  /\ BeginTool(r, author, bill)

\* A currency needs a rate before an amount in it is recorded; a repayment is not
\* looked for among those already recorded.
CurrencyFor(r) ==
  /\ At(r, "currency")
  /\ Convertible(rate, req[r].bill.currency, req[r].base)
  /\ Continues(r, [req[r] EXCEPT !.pc = IF req[r].bill.kind = "settlement" THEN "create"
                                                                          ELSE "duplicate"])

\* The same purchase by what is compared.  An amount of more digits than the row keeps
\* equals none that is stored.
SamePurchase(row, bill, author) ==
  /\ row.kind # "settlement" /\ row.author = author /\ row.recent
  /\ row.title = bill.title /\ row.day = bill.day
  /\ row.currency = bill.currency /\ row.amount = bill.amount

Alike(row, bill, author) == SamePurchase(row, bill, author) /\ ~bill.fine

\* Mutated form of Duplicates: the kind of split has to be the same too.
DuplicatesOfKind(page, bill, author) ==
  {d \in page : Alike(doc[d], bill, author) /\ doc[d].kind = bill.kind}

Duplicates(page, bill, author) == {d \in page : Alike(doc[d], bill, author)}

\* The day's expenses are listed newest first and only one page of them is read, so that
\* the recent ones come first.  Which of them come first is left open: rows are dated
\* before their transactions begin, in no order of the commits.
Recents(day) == {d \in LiveExpenses : doc[d].recent /\ doc[d].day = day}

FirstPages(day) ==
  IF Cardinality(Recents(day)) <= PageSize
    THEN {Recents(day)}
    ELSE {page \in SUBSET Recents(day) : Cardinality(page) = PageSize}

RecentDuplicate(r) ==
  LET q == req[r] IN
  /\ At(r, "duplicate")
  /\ \E page \in FirstPages(q.bill.day) :
       Continues(r, IF Duplicates(page, q.bill, q.author) # {}
                      THEN Idle
                      ELSE [q EXCEPT !.pc = "create", !.unseen = Recents(q.bill.day) \ page])

\* An error of the lookup counts as no duplicate.
LookupFails(r) ==
  /\ At(r, "duplicate")
  /\ Continues(r, [req[r] EXCEPT !.pc = "create", !.unseen = Documents])

\* Mutated form of SetExchangeRate: the base currency is accepted too.
SetExchangeRateOfBase(r, from, v) ==
  /\ "tool" \in Operations
  /\ BeginRate(r, <<from, trip.base>>, v)

\* set_exchange_rate: from another currency to the base.
SetExchangeRate(r, from, v) ==
  /\ from # trip.base
  /\ "tool" \in Operations
  /\ BeginRate(r, <<from, trip.base>>, v)

Next ==
  \/ \E r \in Requests :
       \/ \E a \in Authors, b \in Bills :
            \/ BeginCreate(r, a, b) \/ BeginRecord(r, a, b)
            \/ CreateBillExpense(r, a, b) \/ AddExpense(r, a, b) \/ RecordSettlement(r, a, b)
       \/ \E d \in Documents, b \in Bills, c \in {"set", "clear", "keep"} :
            BeginEdit(r, d, b, c)
       \/ CreateDocument(r) \/ UpdateExpense(r)
       \/ \E c \in Currencies : BeginSettings(r, c)
       \/ CountExpenses(r) \/ SaveSettings(r)
       \/ \E d \in Directions, v \in Rates : BeginRate(r, d, v)
       \/ \E c \in Currencies, v \in Rates : SetExchangeRate(r, c, v)
       \/ DeleteReverse(r) \/ UpsertRate(r) \/ BeginLock(r) \/ LockAll(r)
       \/ CurrencyFor(r) \/ RecentDuplicate(r) \/ LookupFails(r)
       \/ Fail(r)
  \/ \E d \in Documents : DeleteDocument(d) \/ WindowCloses(d)
  \/ \E d \in Directions : DeleteRate(d)

Spec == Init /\ [][Next]_vars

---------------------------------------------------------------------------------
(* Properties.                                                             *)

\* Every variable has its type; nobody owes a negative amount.
TTypeOK ==
  /\ trip \in [base : Currencies, version : 1 .. MaxVersion]
  /\ rate \in [Directions -> Rates \cup {0}]
  /\ DOMAIN doc = Documents /\ \A d \in Documents : IsDocument(doc[d])
  /\ DOMAIN req = Requests /\ \A r \in Requests : IsRequest(req[r])
  /\ raced \subseteq {"documents", "rates"}

\* A split gives out its amount to the minor unit, exactly unless it was entered by hand,
\* and in proportion: nobody is more than a minor unit away from the exact share, a larger
\* weight never owes less, a zero weight owes nothing (money.SplitProportional under every
\* kind of CalculateSplits, whatever the amounts and weights).
Exact(row, unit) ==
  /\ Round(Total(row.splits), unit) = Round(row.amount, unit)
  /\ row.kind # "manual" => Total(row.splits) = Round(row.amount, unit)
  /\ \A p, q \in DOMAIN row.weights :
       /\ row.weights[p] = 0 => row.splits[p] = 0
       /\ row.weights[p] > row.weights[q] => row.splits[p] >= row.splits[q]
       /\ Abs(row.splits[p] * Total(row.weights) - Round(row.amount, unit) * row.weights[p])
            < unit * Total(row.weights)

SplitsAreExact == \A d \in LiveExpenses : Exact(doc[d], Minor[doc[d].currency])

Recorded == [d \in Live |-> doc[d]]
Net == NetBalances(Recorded, trip.base, rate)

\* The trip can be looked at: every currency has a rate.  A request in progress has
\* changed no row yet, so that it is enough to look between requests.
Viewed == (\A r \in Requests : At(r, "idle")) /\ RatesKnown(Recorded, trip.base, rate)

\* The suggested payments settle the trip: afterwards no debtor and creditor of 0.01 or
\* more are left, nobody pays or receives more than the balance says, and there are fewer
\* payments than people with a balance (Optimize stops before its cap of iterations).
Settles(net, result) ==
  /\ Debtors(result.net) = {} \/ Creditors(result.net) = {}
  /\ \A p \in People : IF net[p] < 0 THEN result.net[p] \in net[p] .. 0
                                     ELSE result.net[p] \in 0 .. net[p]
  /\ \A i \in DOMAIN result.plan : result.plan[i].amount >= Epsilon
  /\ Len(result.plan) <= Cardinality(Debtors(net) \cup Creditors(net))
  /\ result.plan # <<>> => Len(result.plan) < Cardinality(Debtors(net) \cup Creditors(net))

PlanSettles ==
  LET net == Net IN
  Viewed => net \in [People -> Int] /\ Settles(net, Optimize(net))

\* What a document may be off by between the ways of looking at it: lines of 0.01 or less
\* that are left out, a division for each person, and payers against shares to the minor unit.
Slack(row) ==
  Cardinality(People) * (Epsilon + 2)
    + Abs(InBase(row, trip.base, rate, Total(row.payers))
            - InBase(row, trip.base, rate, Total(row.splits)))

\* Unless an expense was charged otherwise, what the list of trips says was spent is what
\* the trip's own summary says (ListMine against Calculate), a division each apart.
TotalsAgree ==
  (\A d \in LiveExpenses : ~HasOverride(doc[d], trip.base)) =>
    Abs(TotalSpend(Recorded, trip.base, rate) - TotalExpenses(Recorded, trip.base, rate))
      <= Cardinality(LiveExpenses) + Cardinality(Currencies)

\* A member's statement, computed apart from the balances and line by line, ends at the
\* member's balance, and so do the member's statements against each of the others taken
\* together, whoever paid for whom in what currency (Ledger against Calculate); the totals
\* shown for the trip agree too.
StatementsAgree ==
  LET net == Net
      slack == Total([d \in Live |-> Slack(doc[d])])
  IN  Viewed =>
        /\ net \in [People -> Int]
        /\ TotalsAgree
        /\ \A p \in People :
             LET others == [q \in People \ {p} |-> StatementAgainst(Recorded, trip.base, rate, p, q)]
             IN  /\ Abs(Statement(Recorded, trip.base, rate, p) - net[p]) <= slack
                 /\ Abs(Total(others) - net[p]) <= slack

\* "A currency pair is one slot, not two" (fx/service.go): the two directions of a pair
\* never both have a rate, unless requests that set it overlapped.
OneSlotPerPair ==
  "rates" \notin raced =>
    \A d \in Directions : rate[d] = 0 \/ rate[Opposite(d)] = 0

\* Every expense is still under the base currency it was recorded under, and a charged
\* amount is in that currency and not for an expense in it, unless a write of an expense
\* overlapped with one of the settings: "base_currency cannot change after expenses
\* exist" (trip/service.go), "enforced at write time" (balance/service.go).
OneBaseCurrency ==
  "documents" \notin raced =>
    \A d \in LiveExpenses :
      /\ doc[d].base = trip.base
      /\ doc[d].chargedIn \in {NoCurrency, trip.base}
      /\ doc[d].chargedIn # NoCurrency => doc[d].currency # trip.base

CreatesThroughTool(r, d) ==
  /\ req[r].tool /\ At(r, "create") /\ req'[r].pc = "idle"
  /\ req[r].bill.kind # "settlement"
  /\ doc[d].life = "absent" /\ doc'[d].life = "live"

\* A tool creates no expense like a recent one, of this author from either client, edited
\* or not (recentDuplicate of mcp/tools.go).  Those it could not know of are excepted: all
\* of them if the lookup failed, those beyond the page it read, and those another request
\* has written since.
RetryRecordsOnce ==
  [][\A r \in Requests, d \in Documents :
       CreatesThroughTool(r, d) =>
         \A e \in Live \ req[r].unseen : ~Alike(doc[e], req[r].bill, req[r].author)]_vars

\* The claim without exceptions: "an AI tool that retries a call does not record the
\* purchase twice" (mcp/tools.go).
PurchaseRecordedOnce ==
  [][\A r \in Requests, d \in Documents :
       CreatesThroughTool(r, d) =>
         \A e \in Live : ~SamePurchase(doc[e], req[r].bill, req[r].author)]_vars
=================================================================================
