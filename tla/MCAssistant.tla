------------------------------ MODULE MCAssistant ------------------------------
(* Instances of Assistant for TLC: three people, a currency with decimals and one   *)
(* without, two overlapping requests on two documents, and a third for a retry.  *)
EXTENDS Assistant, TLC

CONSTANTS r1, r2, d1, d2, d3, usd, idr, meal, sum

\* The third document is kept for a retry, see OneSubject.
Symmetric == Permutations({r1, r2}) \cup Permutations({d1, d2})

\* A sub-unit is half a cent; 0.01 is Epsilon.
MCMinor == (usd :> 2) @@ (idr :> 200)

Of(kind, title, currency, amount, parts, payers) ==
  [NoBill EXCEPT !.kind = kind, !.title = title, !.day = 1, !.currency = currency, !.amount = amount,
                 !.parts = parts, !.payers = payers]

MCSorted(d) == d = <<idr, usd>>

\* Bills for the interleavings.
Dinner == Of("equal", meal, idr, 1000, (1 :> 1) @@ (2 :> 1) @@ (3 :> 1), 1 :> 1000)
SameByHand == [Dinner EXCEPT !.kind = "manual", !.parts = (1 :> 500) @@ (2 :> 500)]
Charged == [Dinner EXCEPT !.charged = 7, !.chargedIn = usd]
InDollars == [Dinner EXCEPT !.currency = usd]
Repayment == Of("settlement", meal, usd, 100, 1 :> 100, 2 :> 100)

NextDay == [Dinner EXCEPT !.day = 2]
Finer == [Dinner EXCEPT !.fine = TRUE]

\* Bills of a client that sends the same purchase again.
Dinners == {Dinner, NextDay}

Meals == {Dinner, SameByHand, Charged, InDollars, NextDay, Finer, Repayment}

\* Bills for the arithmetic: amounts between the minor units, weights that do not divide
\* them, percentages that round to a hundred, shared lines under tax and under a discount.
Three(a, b, c) == (1 :> a) @@ (2 :> b) @@ (3 :> c)

Split(kind, parts) ==
  {Of(kind, sum, usd, 2003, parts, (2 :> 600) @@ (3 :> 1403)),
   Of(kind, sum, idr, 700, parts, 1 :> 700)}

Itemised(shared, own, extras) ==
  LET lines == <<[amount |-> shared, who |-> {1, 2, 3}], [amount |-> own, who |-> {2}]>>
      all == ItemsTotal(lines) + extras
  IN  {[Of("item", sum, c, all, <<>>, 1 :> all) EXCEPT !.items = lines, !.extras = extras] :
         c \in {usd, idr}}

Sums ==
  UNION {Split("equal", Three(1, 1, 1)), Split("shares", Three(0, 1, 2)),
         Split("shares", Three(2, 1, 2)), Split("percent", Three(33333, 33333, 33333)),
         Split("percent", (1 :> 50004) @@ (2 :> 50000)), Split("manual", (1 :> 301) @@ (3 :> 400)),
         {Of("manual", sum, usd, 1000, Three(333, 333, 333), 2 :> 1000)},
         Itemised(500, 401, 333), Itemised(700, 0, -400)}

MCBills == Meals \cup Sums

\* What a behaviour is followed through: rates are set, by overlapping requests, before
\* there are documents; the second author only has dinner, before any save; a sum is
\* recorded by one request, alone or beside one meal nobody edited; there is one document
\* only once the base currency was saved; a race ends with the answer; once the window of
\* a document closed only tools begin, and nothing is saved.  Purchases of two days
\* or of finer amounts are for tools, one by one, before anything is edited or saved; so are
\* a failed lookup and a third document, beside two recent ones.
OneSubject ==
  LET used == {d \in Documents : doc[d].life # "absent"}
      busy == {r \in Requests : req[r].pc # "idle"}
      rating == {r \in busy : Subject(req[r]) = "rates"}
      sums == {d \in used : doc[d].title = sum}
      summing == {r \in busy : req[r].bill.title = sum}
      old == {d \in used : doc[d].life = "live" /\ ~doc[d].recent}
      untouched == trip.version = 1 /\ \A d \in used : doc[d].version = 1 /\ doc[d].recent
      retries == {r \in busy : \/ req[r].bill \in {NextDay, Finer} \/ Cardinality(used) = 2
                              \/ req[r].unseen = Documents}
  IN  /\ Cardinality(used) = 2 => Cardinality(busy) <= 1 /\ \E d \in used : doc[d].recent
      /\ d3 \in used => used = Documents /\ busy = {}
      /\ trip.version = 2 => Cardinality(used) <= 1
      /\ Cardinality({d \in used : doc[d].version = 2}) <= 1
      /\ raced # {} => busy = rating
      /\ old # {} => trip.version = 1 /\ raced = {} /\ \A r \in busy : req[r].tool
      /\ rating # {} => rating = busy
      /\ rating # {} \/ "rates" \in raced => used = {} /\ trip.version = 1
      /\ sums \cup summing # {} =>
           /\ Cardinality(sums) + Cardinality(summing) = 1 /\ busy = summing
           /\ untouched
      /\ \A r \in busy : req[r].author = 2 => req[r].bill = Dinner
      /\ (\E r \in busy : req[r].author = 2) \/ (\E d \in used : doc[d].author = 2) =>
           trip.version = 1 /\ rating = {} /\ raced = {}
      /\ retries # {} \/ d3 \in used \/ (\E d \in used : doc[d].day = 2) =>
           /\ untouched /\ raced = {} /\ \A d \in used : doc[d].currency = idr
           /\ \A r \in busy :
                busy = {r} /\ req[r].tool /\ req[r].bill \in {Dinner, NextDay, Finer}
=================================================================================
