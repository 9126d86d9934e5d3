-------------------------------- MODULE TripMoney --------------------------------
(***************************************************************************)
(* The money of one trip: its base currency and exchange rates, and the    *)
(* expenses and repayments recorded in its currencies, by the members and  *)
(* by the AI tools they connected.                                         *)
(*                                                                         *)
(* A request sees the trip as it was when it was admitted.  Only the row   *)
(* it writes is checked again, by version: a trip's update does not know   *)
(* of expenses written since they were counted, nor an expense's insert of *)
(* a base currency changed since.  A transaction is one step, except for   *)
(* the exchange rate's, whose delete and insert see different rows.        *)
(*                                                                         *)
(* Every actor is a planner and every document approved: Ledger and        *)
(* Membership are about permissions, approvals and closed trips.  The      *)
(* controllers turn multi-currency on for every trip.                      *)
(***************************************************************************)
EXTENDS Money

CONSTANTS
  Documents,   \* identities of expense and settlement rows
  Authors,     \* people who send requests
  Bills,       \* what they may send
  Rates,       \* rates a planner may set
  NoDoc,       \* no row
  Titles,      \* their descriptions
  NoTitle,     \* the description of a row not in use
  NoCurrency,  \* no currency
  Requests,    \* request slots: how many requests overlap
  Sorted(_),   \* a direction that comes before its opposite in the order of the codes
  Operations,  \* the endpoints and tools this instance serves
  MaxVersion   \* bound on the versions of the trip and of a document

IsShares(f) == DOMAIN f \subseteq People /\ f \in [DOMAIN f -> Nat]

MaybeCurrency == Currencies \cup {NoCurrency}

\* The input of a create or an edit, for a day: charged is what a card was charged, if
\* given.  Amounts are in sub-units, the last digit an amount column keeps; fine means that
\* the amount was sent with digits below it, which the row does not have.
IsBill(b) ==
  /\ DOMAIN b = {"kind", "title", "day", "amount", "fine", "currency", "parts", "items",
                 "extras", "payers", "charged", "chargedIn"}
  /\ b.day \in Nat /\ b.fine \in BOOLEAN
  /\ b.kind \in Kinds \cup {"none", "settlement"} /\ b.title \in Titles \cup {NoTitle}
  /\ b.amount \in Nat /\ b.currency \in MaybeCurrency
  /\ IsShares(b.parts) /\ IsShares(b.payers)
  /\ b.items \in Seq([amount : Nat, who : SUBSET People]) /\ b.extras \in Int
  /\ b.charged \in Nat /\ b.chargedIn \in MaybeCurrency

ASSUME TripMoneyAssumption ==
  /\ \A b \in Bills : IsBill(b) /\ b.kind # "none" /\ b.currency \in Currencies
  /\ IsFiniteSet(Documents)
  /\ Authors \subseteq People
  /\ Rates \subseteq Nat \ {0}
  /\ NoCurrency \notin Currencies
  /\ \A d \in Directions : Sorted(d) <=> ~Sorted(<<d[2], d[1]>>)
  /\ MaxVersion \in Nat \ {0}

VARIABLES
  trip,  \* base currency and version of the trips row
  rate,  \* the trip's exchange_rates rows: 0 where there is none
  doc,   \* the documents
  req,   \* the requests being served
  raced  \* history: what was written by overlapping requests

vars == <<trip, rate, doc, req, raced>>

NoBill == [kind |-> "none", title |-> NoTitle, day |-> 0, amount |-> 0, fine |-> FALSE,
           currency |-> NoCurrency, parts |-> <<>>, items |-> <<>>, extras |-> 0, payers |-> <<>>,
           charged |-> 0, chargedIn |-> NoCurrency]

\* An expense or a settlement with its payer and split rows.
IsDocument(row) ==
  /\ DOMAIN row = {"life", "kind", "title", "day", "amount", "currency", "payers", "splits",
                   "weights", "charged", "chargedIn", "base", "author", "recent", "version"}
  /\ row.life \in {"absent", "live", "deleted"}
  /\ row.kind \in Kinds \cup {"none", "settlement"} /\ row.title \in Titles \cup {NoTitle}
  /\ row.day \in Nat /\ row.amount \in Nat /\ row.charged \in Nat
  /\ {row.currency, row.chargedIn, row.base} \subseteq MaybeCurrency
  /\ IsShares(row.payers) /\ IsShares(row.splits) /\ IsShares(row.weights)
  /\ row.author \in Authors \cup {0} /\ row.recent \in BOOLEAN
  /\ row.version \in 0 .. MaxVersion

\* base: history, the trip's base currency as the writing request saw it.
\* recent: created within the duplicate window of two minutes.
NoDocument == [life |-> "absent", kind |-> "none", title |-> NoTitle, day |-> 0, amount |-> 0,
               currency |-> NoCurrency, payers |-> <<>>, splits |-> <<>>, weights |-> <<>>,
               charged |-> 0, chargedIn |-> NoCurrency, base |-> NoCurrency, author |-> 0,
               recent |-> FALSE, version |-> 0]

\* pc names the statement that comes next; base and version are those the request saw;
\* calm means that no other request has written to its subject since it was admitted, and
\* unseen holds the documents a tool about to create has not seen as they are now.
IsRequest(q) ==
  /\ DOMAIN q = {"pc", "tool", "base", "next", "version", "bill", "author", "doc",
                 "direction", "rate", "listed", "found", "calm", "unseen"}
  /\ q.pc \in {"idle", "create", "edit", "currency", "duplicate", "count", "save",
               "reverse", "upsert", "lock"}
  /\ {q.base, q.next} \subseteq MaybeCurrency /\ q.version \in 0 .. MaxVersion
  /\ IsBill(q.bill) /\ q.author \in Authors \cup {0} /\ q.doc \in Documents \cup {NoDoc}
  /\ q.direction \in Directions \cup {<<>>} /\ q.rate \in Rates \cup {0}
  /\ q.listed \in {<<>>} \cup [Directions -> Rates \cup {0}]
  /\ {q.tool, q.found, q.calm} \subseteq BOOLEAN /\ q.unseen \subseteq Documents

Idle == [pc |-> "idle", tool |-> FALSE, base |-> NoCurrency, next |-> NoCurrency,
         version |-> 0, bill |-> NoBill, author |-> 0, doc |-> NoDoc, direction |-> <<>>,
         rate |-> 0, listed |-> <<>>, found |-> FALSE, calm |-> FALSE, unseen |-> {}]

Init ==
  /\ trip \in [base : Currencies, version : {1}]
  /\ rate = [d \in Directions |-> 0]
  /\ doc = [d \in Documents |-> NoDocument]
  /\ req = [r \in Requests |-> Idle]
  /\ raced = {}

---------------------------------------------------------------------------------
(* What requests share.                                                    *)

Live == {d \in Documents : doc[d].life = "live"}
LiveExpenses == {d \in Live : doc[d].kind # "settlement"}

At(r, pc) == req[r].pc = pc

Admit(op, r, q) ==
  /\ op \in Operations
  /\ At(r, "idle")
  /\ req' = [req EXCEPT ![r] = [q EXCEPT !.base = trip.base, !.calm = TRUE]]
  /\ UNCHANGED <<trip, rate, doc, raced>>

Continues(r, q) ==
  /\ req' = [req EXCEPT ![r] = q]
  /\ UNCHANGED <<trip, rate, doc, raced>>

\* What a request depends on: the rates, or the base currency and the documents.
Subject(q) == IF q.pc \in {"reverse", "upsert", "lock"} THEN "rates" ELSE "documents"

Disturbed(q, subject, written) ==
  [q EXCEPT !.calm = @ /\ Subject(q) # subject,
            !.unseen = IF q.tool /\ q.pc = "create" THEN @ \cup written ELSE @]

\* r is answered after its write, which disturbs the others; it raced if it was disturbed.
Answered(r, subject, written) ==
  /\ req' = [s \in Requests |-> IF s = r THEN Idle ELSE Disturbed(req[s], subject, written)]
  /\ raced' = IF req[r].calm THEN raced ELSE raced \cup {subject}

\* An error answer, a cancelled request, a rolled back transaction or a crash.
Fail(r) ==
  /\ ~At(r, "idle")
  /\ Continues(r, Idle)

---------------------------------------------------------------------------------
(* Expenses and repayments.                                                *)

\* A charged amount is in the base currency, and only for an expense in another one.
ChargedFits(bill, base) ==
  bill.chargedIn # NoCurrency => bill.chargedIn = base /\ bill.currency # base

RepaymentFits(bill) == bill.amount > 0 /\ DOMAIN bill.payers # DOMAIN bill.parts

\* The expenses whose payers and splits pass validation.
Sound ==
  {bill \in Bills :
     /\ bill.kind # "settlement"
     /\ bill.amount > 0
     /\ PayersFit(bill.amount, bill.payers, Minor[bill.currency])
     /\ SplitsFit(bill, Minor[bill.currency])}

\* The members' client, which has no itemised split of its own.
BeginCreate(r, author, bill) ==
  /\ bill \in Sound /\ bill.kind # "item"
  /\ ChargedFits(bill, trip.base)
  /\ Admit("create", r, [Idle EXCEPT !.pc = "create", !.author = author, !.bill = bill])

BeginRecord(r, author, bill) ==
  /\ bill.kind = "settlement"
  /\ RepaymentFits(bill)
  /\ Admit("record", r, [Idle EXCEPT !.pc = "create", !.author = author, !.bill = bill])

Written(bill, base) ==
  [NoDocument EXCEPT
     !.life = "live", !.kind = bill.kind, !.title = bill.title, !.day = bill.day,
     !.amount = bill.amount, !.currency = bill.currency, !.payers = bill.payers,
     !.splits = IF bill.kind = "settlement" THEN bill.parts
                                            ELSE Splits(bill, Minor[bill.currency]),
     !.weights = IF bill.kind \in {"percent", "shares"} THEN bill.parts ELSE <<>>,
     !.charged = bill.charged, !.chargedIn = bill.chargedIn, !.base = base]

CreateDocument(r) ==
  /\ At(r, "create")
  /\ \E d \in Documents :
       /\ doc[d].life = "absent"
       /\ doc' = [doc EXCEPT ![d] = [Written(req[r].bill, req[r].base) EXCEPT
                    !.author = req[r].author, !.recent = TRUE, !.version = 1]]
       /\ Answered(r, "documents", {d})
  /\ UNCHANGED <<trip, rate>>

\* The bill with the charged amount it will have: sent anew, cleared, or kept from the
\* row, unless the expense is in the base currency by now.
Overriding(row, bill, choice, base) ==
  CASE choice = "set"   -> bill
    [] choice = "clear" \/ (choice = "keep" /\ bill.currency = base) ->
         [bill EXCEPT !.charged = 0, !.chargedIn = NoCurrency]
    [] OTHER            -> [bill EXCEPT !.charged = row.charged, !.chargedIn = row.chargedIn]

BeginEdit(r, d, bill, choice) ==
  /\ d \in LiveExpenses
  /\ doc[d].version < MaxVersion
  /\ bill \in Sound /\ bill.kind # "item"
  /\ choice = "set" => ChargedFits(bill, trip.base)
  /\ Admit("edit", r, [Idle EXCEPT !.pc = "edit", !.doc = d, !.version = doc[d].version,
             !.bill = Overriding(doc[d], bill, choice, trip.base)])

UpdateExpense(r) ==
  LET d == req[r].doc IN
  /\ At(r, "edit")
  /\ doc[d].life = "live" /\ doc[d].version = req[r].version
  /\ doc' = [doc EXCEPT ![d] = [Written(req[r].bill, req[r].base) EXCEPT
               !.author = doc[d].author, !.recent = doc[d].recent, !.version = req[r].version + 1]]
  /\ Answered(r, "documents", {d})
  /\ UNCHANGED <<trip, rate>>

\* SoftDelete keeps the row; nothing reads a deleted one.
DeleteDocument(d) ==
  /\ "delete" \in Operations
  /\ d \in Live
  /\ doc' = [doc EXCEPT ![d] = [NoDocument EXCEPT !.life = "deleted"]]
  /\ req' = [r \in Requests |-> Disturbed(req[r], "documents", {})]
  /\ UNCHANGED <<trip, rate, raced>>

\* Two minutes have passed since d was created.
WindowCloses(d) ==
  /\ doc[d].recent
  /\ doc' = [doc EXCEPT ![d].recent = FALSE]
  /\ UNCHANGED <<trip, rate, req, raced>>

---------------------------------------------------------------------------------
(* The trip's settings.                                                    *)

BeginSettings(r, base) ==
  /\ trip.version < MaxVersion
  /\ Admit("settings", r, [Idle EXCEPT !.pc = "count", !.version = trip.version,
             !.next = base])

\* Mutated form of CountExpenses: the base currency changes under expenses.
SkipCount(r) ==
  /\ At(r, "count")
  /\ Continues(r, [req[r] EXCEPT !.pc = "save"])

\* The base currency may not change once there is an expense.
CountExpenses(r) ==
  /\ At(r, "count")
  /\ Continues(r, IF LiveExpenses # {} /\ req[r].next # req[r].base
                    THEN Idle ELSE [req[r] EXCEPT !.pc = "save"])

SaveSettings(r) ==
  /\ At(r, "save")
  /\ trip.version = req[r].version
  /\ trip' = [base |-> req[r].next, version |-> trip.version + 1]
  /\ Answered(r, "documents", {})
  /\ UNCHANGED <<rate, doc>>

---------------------------------------------------------------------------------
(* Exchange rates.                                                         *)

Opposite(d) == <<d[2], d[1]>>

\* Another transaction has deleted the row of direction d and not committed yet.
Locked(r, d) ==
  \E s \in Requests \ {r} : At(s, "upsert") /\ req[s].found /\ Opposite(req[s].direction) = d

BeginRate(r, d, v) ==
  Admit("rate", r, [Idle EXCEPT !.pc = "reverse", !.direction = d, !.rate = v])

\* Mutated form of DeleteReverse: the opposite row is kept.
KeepReverse(r) ==
  /\ At(r, "reverse")
  /\ Continues(r, [req[r] EXCEPT !.pc = "upsert"])

DeleteReverse(r) ==
  LET reverse == Opposite(req[r].direction) IN
  /\ At(r, "reverse")
  /\ ~Locked(r, reverse)
  /\ Continues(r, [req[r] EXCEPT !.pc = "upsert", !.found = rate[reverse] > 0])

\* The upsert, and the commit that makes it and the delete visible.
UpsertRate(r) ==
  LET d == req[r].direction IN
  /\ At(r, "upsert")
  /\ ~Locked(r, d)
  /\ rate' = [rate EXCEPT ![d] = req[r].rate,
                           ![Opposite(d)] = IF req[r].found THEN 0 ELSE @]
  /\ Answered(r, "rates", {})
  /\ UNCHANGED <<trip, doc>>

DeleteRate(d) ==
  /\ "delete rate" \in Operations
  /\ rate[d] > 0
  /\ \A r \in Requests : ~Locked(r, d)
  /\ rate' = [rate EXCEPT ![d] = 0]
  /\ req' = [r \in Requests |-> Disturbed(req[r], "rates", {})]
  /\ UNCHANGED <<trip, doc, raced>>

\* Finalizing a trip makes the rates it finds final: each is written again as it was
\* read, and of the two directions of a pair only the one that is read first.
BeginLock(r) ==
  Admit("lock", r, [Idle EXCEPT !.pc = "lock", !.listed = rate])

LockAll(r) ==
  LET seen == req[r].listed
      pinned == {d \in Directions : seen[d] > 0 /\ (seen[Opposite(d)] > 0 => Sorted(d))}
  IN /\ At(r, "lock")
     /\ \A d \in pinned : ~Locked(r, d)
     /\ rate' = [d \in Directions |-> IF d \in pinned THEN seen[d] ELSE rate[d]]
     /\ Answered(r, "rates", {})
     /\ UNCHANGED <<trip, doc>>
=================================================================================
