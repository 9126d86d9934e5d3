----------------------------- MODULE ReceiptsProofs -----------------------------
(***************************************************************************)
(* Proofs about Receipts for any number of receipts, lines, expenses,      *)
(* diners and requests.  The inductive invariant says of each request what *)
(* no other request can take from it: an upload alone knows its receipt    *)
(* until it has answered, an extraction in its transaction alone holds its *)
(* row, and what its DELETE has found stays all there is of the readings.  *)
(*                                                                         *)
(* What a request has read of a row others may write is known only while   *)
(* it is calm: that the lines a conversion has read are still the lines,   *)
(* and that a receipt it found open has not been converted.                *)
(***************************************************************************)
EXTENDS Receipts, SumProofs

Shaped(q) == q \in Request

\* What a request carries, whatever the others do.
Carries(q) ==
  /\ Shaped(q)
  /\ q.op = "upload" => q.receipt \in Receipts /\ q.pc \in {"stored", "created"}
  /\ q.op \in ReceiptOps => q.receipt \in Receipts
  /\ q.op \in {"update", "remove"} => q.item \in Items
  /\ q.op = "expense" => q.expense \in Expenses
  /\ q.op = "extract" => q.expense = NoExpense
  /\ q.pc \in {"locked", "emptied"} => q.op = "extract"
  /\ q.pc = "hidden" => q.op = "delete"

\* What it knows of the tables.
Knows(q) ==
  /\ q.op = "upload" =>
       /\ q.pc = "stored" => receipt[q.receipt].life = "absent"
       /\ receipt[q.receipt].life # "deleted" => q.receipt \in image
  /\ q.pc = "hidden" => receipt[q.receipt].life = "deleted"
  /\ q.pc = "emptied" =>
       \A i \in LinesOf(q.receipt) : line[i].reading # 0 => i \in q.doomed

\* Two requests that never have a receipt in common.
Apart(p, q) ==
  /\ p.op = "upload" /\ q.op = "upload" => p.receipt # q.receipt
  /\ p.pc \in {"locked", "emptied"} /\ q.pc \in {"locked", "emptied"} =>
       p.receipt # q.receipt

RequestsOK ==
  /\ req = [r \in Requests |-> req[r]]
  /\ \A r \in Requests : Carries(req[r]) /\ Knows(req[r])
  /\ \A r, s \in Requests : r # s => Apart(req[r], req[s])

TablesOK ==
  /\ receipt \in [Receipts -> ReceiptRow]
  /\ line \in [Items -> Line]
  /\ expense \in [Expenses -> Expense]
  /\ readings \in 0 .. MaxReadings
  /\ \A c \in Receipts : receipt[c].life = "absent" =>
       receipt[c].status # "converted" /\ receipt[c].expense = NoExpense
  /\ abandoned \subseteq Receipts /\ image \subseteq Receipts

IInv == TablesOK /\ LinkIsLive /\ PhotographIsKept /\ ExtractionsNeverMix /\ RequestsOK

LEMMA IdleFields ==
  /\ Shaped(Idle) /\ Idle.pc = "idle" /\ Idle.op = "none" /\ Idle.receipt = NoReceipt
  /\ Idle.expense = NoExpense /\ Idle.price = 0 /\ Idle.item = NoItem
BY DEF Idle, NoClaims, Shaped, Request

LEMMA IdleOK == Carries(Idle) /\ Knows(Idle) /\ \A q : Apart(Idle, q) /\ Apart(q, Idle)
BY IdleFields DEF Carries, Knows, Apart, ReceiptOps

LEMMA InitInv == Init => IInv
<1> SUFFICES ASSUME Init PROVE IInv
  OBVIOUS
<1>1. \A c \in Receipts : receipt[c] = NoRow
  BY DEF Init
<1>2. NoRow \in ReceiptRow /\ NoRow.life = "absent" /\ NoRow.status = "uploaded"
      /\ NoRow.expense = NoExpense
  BY DEF NoRow, ReceiptRow, Statuses
<1>3. \A i \in Items : line[i] = NoLine
  BY DEF Init
<1>4. NoLine \in Line /\ NoLine.life = "absent"
  BY DEF NoLine, Line
<1>5. \A x \in Expenses : expense[x] = NotRecorded
  BY DEF Init
<1>6. TablesOK
  <2>1. NotRecorded \in Expense
    BY DEF NotRecorded, Expense
  <2>2. readings \in 0 .. MaxReadings
    BY ReceiptsAssumption DEF Init
  <2> QED
    BY <1>1, <1>2, <1>3, <1>4, <1>5, <2>1, <2>2 DEF Init, TablesOK
<1>7. LinkIsLive /\ PhotographIsKept /\ ExtractionsNeverMix
  BY <1>1, <1>2, <1>3, <1>4 DEF LinkIsLive, PhotographIsKept, ExtractionsNeverMix, Live, LinesOf
<1>8. RequestsOK
  BY IdleOK DEF Init, RequestsOK
<1> QED
  BY <1>6, <1>7, <1>8 DEF IInv

\* A step that only changes a request.
LEMMA RequestStep ==
  ASSUME IInv, NEW r \in Requests, NEW q, Carries(q), Knows(q),
         \A s \in Requests \ {r} : Apart(q, req[s]) /\ Apart(req[s], q),
         Continues(r, q), UNCHANGED <<receipt, image, abandoned, line, expense, readings>>
  PROVE  IInv'
<1>1. TablesOK' /\ LinkIsLive' /\ PhotographIsKept' /\ ExtractionsNeverMix'
  BY DEF IInv, TablesOK, LinkIsLive, PhotographIsKept, ExtractionsNeverMix, Live, LinesOf
<1>2. req' = [s \in Requests |-> req'[s]]
      /\ \A s \in Requests : req'[s] = IF s = r THEN q ELSE req[s]
  BY DEF IInv, RequestsOK, Continues
<1>3. \A s \in Requests : Carries(req'[s]) /\ Knows(req'[s])
  BY <1>2 DEF IInv, RequestsOK
<1>4. \A p : Knows(p) => Knows(p)'
  BY DEF Knows, LinesOf
<1>5. \A s, t \in Requests : s # t => Apart(req'[s], req'[t])
  BY <1>2 DEF IInv, RequestsOK
<1>6. RequestsOK'
  BY <1>2, <1>3, <1>4, <1>5 DEF RequestsOK
<1> QED
  BY <1>1, <1>6 DEF IInv

\* What two requests agree on when only the calm of one has changed.
Alike(p, q) ==
  /\ p.pc = q.pc /\ p.op = q.op /\ p.receipt = q.receipt
  /\ p.item = q.item /\ p.doomed = q.doomed
  /\ p.total = q.total /\ p.diners = q.diners

LEMMA CalmFields ==
  ASSUME NEW q, NEW b \in BOOLEAN, Carries(q)
  PROVE  Carries([q EXCEPT !.calm = b]) /\ Alike([q EXCEPT !.calm = b], q)
<1> DEFINE p == [q EXCEPT !.calm = b]
<1>1. Shaped(q)
  BY DEF Carries
<1>2. /\ p.pc = q.pc /\ p.op = q.op /\ p.receipt = q.receipt /\ p.item = q.item
      /\ p.expense = q.expense /\ p.price = q.price /\ p.lines = q.lines
      /\ p.doomed = q.doomed /\ p.total = q.total /\ p.diners = q.diners /\ p.grid = q.grid
      /\ p.calm = b
  BY <1>1 DEF Shaped, Request
<1>3. p = [pc |-> q.pc, op |-> q.op, receipt |-> q.receipt, item |-> q.item,
           expense |-> q.expense, price |-> q.price, lines |-> q.lines,
           doomed |-> q.doomed, total |-> q.total, diners |-> q.diners, grid |-> q.grid,
           calm |-> b]
  BY <1>1 DEF Shaped, Request
<1> HIDE DEF p
<1>4. Shaped(p)
  BY <1>1, <1>2, <1>3 DEF Shaped, Request
<1>5. Carries(p)
  BY <1>2, <1>4 DEF Carries
<1> QED
  BY <1>2, <1>5 DEF Alike, p

\* What a step leaves of the requests: r goes on as q, the others lose their calm.
LEMMA Served ==
  ASSUME IInv, NEW r \in Requests, NEW q, NEW cs, Writes(r, cs, q) \/ Continues(r, q)
  PROVE  /\ req' = [s \in Requests |-> req'[s]]
         /\ req'[r] = q
         /\ \A s \in Requests \ {r} : Carries(req'[s]) /\ Alike(req'[s], req[s])
<1>1. req = [s \in Requests |-> req[s]] /\ \A s \in Requests : Carries(req[s])
  BY DEF IInv, RequestsOK
<1>2. \A s \in Requests : Alike(req[s], req[s])
  BY DEF Alike
<1>3. CASE Writes(r, cs, q)
  <2>1. \A s \in Requests \ {r} : \E b \in BOOLEAN : req'[s] = [req[s] EXCEPT !.calm = b]
    BY <1>3 DEF Writes
  <2> QED
    BY <1>1, <1>3, <2>1, CalmFields DEF Writes
<1>4. CASE Continues(r, q)
  BY <1>1, <1>2, <1>4 DEF Continues
<1> QED
  BY <1>3, <1>4

\* A step that writes: r goes on as q, and what the others know is still so.
LEMMA WriteStep ==
  ASSUME IInv, NEW r \in Requests, NEW q, NEW cs, Writes(r, cs, q) \/ Continues(r, q),
         TablesOK', LinkIsLive', PhotographIsKept', ExtractionsNeverMix',
         Carries(q), Knows(q)',
         \A s \in Requests \ {r} : Apart(q, req[s]) /\ Apart(req[s], q),
         \A s \in Requests \ {r} : \A p : Alike(p, req[s]) /\ Knows(req[s]) => Knows(p)'
  PROVE  IInv'
<1>1. /\ req' = [s \in Requests |-> req'[s]]
      /\ req'[r] = q
      /\ \A s \in Requests \ {r} : Carries(req'[s]) /\ Alike(req'[s], req[s])
  BY Served
<1>2. \A s \in Requests : Carries(req'[s])
  BY <1>1
<1>3. \A s \in Requests : Knows(req[s])'
  <2> TAKE s \in Requests
  <2>1. CASE s = r
    BY <1>1, <2>1
  <2>2. CASE s # r
    BY <1>1, <2>2 DEF IInv, RequestsOK
  <2> QED
    BY <2>1, <2>2
<1>4. \A s, t \in Requests : s # t => Apart(req'[s], req'[t])
  <2>1. \A s, t \in Requests : s # t => Apart(req[s], req[t])
    BY DEF IInv, RequestsOK
  <2> QED
    BY <1>1, <2>1 DEF Apart, Alike
<1>5. RequestsOK'
  BY <1>1, <1>2, <1>3, <1>4 DEF RequestsOK
<1> QED
  BY <1>5 DEF IInv

\* A request that neither uploads nor is in a transaction holds nothing against others.
LEMMA Free ==
  ASSUME NEW q, q.op # "upload", q.pc \notin {"locked", "emptied", "hidden"}
  PROVE  /\ Knows(q) /\ Knows(q)'
         /\ \A s : Apart(q, s) /\ Apart(s, q)
BY DEF Knows, Apart

\* Steps that write lines: those of a reading stay in place or go.
LEMMA LineStep ==
  ASSUME IInv, NEW r \in Requests, NEW q, NEW cs, Writes(r, cs, q),
         Carries(q), q.op # "upload", q.pc \notin {"locked", "emptied", "hidden"},
         line' \in [Items -> Line],
         \A i \in Items : line'[i].life = "live" =>
            \/ line'[i].reading = 0
            \/ /\ line[i].life = "live" /\ line'[i].receipt = line[i].receipt
               /\ line'[i].reading = line[i].reading,
         UNCHANGED <<receipt, image, abandoned, expense, readings>>
  PROVE  IInv'
<1>1. TablesOK' /\ LinkIsLive' /\ PhotographIsKept'
  BY DEF IInv, TablesOK, LinkIsLive, PhotographIsKept, Live
<1>2. \A c : \A i \in LinesOf(c)' : line'[i].reading # 0 =>
        i \in LinesOf(c) /\ line'[i].reading = line[i].reading
  BY DEF LinesOf
<1>3. ExtractionsNeverMix'
  BY <1>2 DEF IInv, ExtractionsNeverMix
<1>4. \A s \in Requests \ {r} : \A p : Alike(p, req[s]) /\ Knows(req[s]) => Knows(p)'
  BY <1>2 DEF Knows, Alike
<1> QED
  BY <1>1, <1>3, <1>4, Free, WriteStep

---------------------------------------------------------------------------------
(* Steps that only read.                                                   *)

LEMMA BegunFields ==
  ASSUME IInv, NEW c \in Receipts, NEW op \in ReceiptOps
  PROVE  /\ Shaped(Begun(op, c))
         /\ Begun(op, c).pc = "begun" /\ Begun(op, c).op = op
         /\ Begun(op, c).receipt = c /\ Begun(op, c).expense = receipt[c].expense
<1>1. receipt[c].expense \in Expenses \cup {NoExpense}
  BY DEF IInv, TablesOK, ReceiptRow
<1> QED
  BY <1>1 DEF Begun, Idle, NoClaims, Shaped, Request

LEMMA AdmitStep ==
  ASSUME IInv, NEW r \in Requests, NEW q, Carries(q), q.op # "upload", q.pc = "begun",
         Admit(r, q), UNCHANGED <<receipt, image, abandoned, line, expense, readings>>
  PROVE  IInv'
BY Free, RequestStep DEF Admit, Continues

LEMMA BeginInv ==
  ASSUME IInv, NEW r \in Requests,
         \/ BeginExtract(r) \/ BeginAdd(r) \/ BeginUpdateItem(r) \/ BeginDeleteItem(r)
         \/ BeginAssign(r) \/ BeginConvert(r) \/ BeginDelete(r) \/ BeginDeleteExpense(r)
  PROVE  IInv'
<1>0. UNCHANGED <<receipt, image, abandoned, line, expense, readings>>
  BY DEF BeginExtract, BeginAdd, BeginUpdateItem, BeginDeleteItem, BeginAssign, BeginConvert,
         BeginDelete, BeginDeleteExpense
<1>1. CASE BeginExtract(r)
  <2>1. PICK c \in Receipts : Editable(c) /\ Admit(r, Begun("extract", c))
    BY <1>1 DEF BeginExtract
  <2>2. receipt[c].expense = NoExpense
    BY <2>1 DEF Editable, IInv, LinkIsLive
  <2>3. Carries(Begun("extract", c))
    BY <2>2, BegunFields DEF Carries, ReceiptOps
  <2> QED
    BY <1>0, <2>1, <2>3, BegunFields, AdmitStep DEF ReceiptOps
<1>2. CASE BeginAdd(r) \/ BeginAssign(r) \/ BeginConvert(r) \/ BeginDelete(r)
  <2>1. PICK c \in Receipts, op \in {"add", "assign", "convert", "delete"} :
          Admit(r, Begun(op, c))
    BY <1>2 DEF BeginAdd, BeginAssign, BeginConvert, BeginDelete
  <2>2. Carries(Begun(op, c))
    BY BegunFields DEF Carries, ReceiptOps
  <2> QED
    BY <1>0, <2>1, <2>2, BegunFields, AdmitStep DEF ReceiptOps
<1>3. CASE BeginUpdateItem(r) \/ BeginDeleteItem(r)
  <2>1. PICK c \in Receipts, i \in Items :
          \/ Admit(r, GetItem(Begun("update", c), i))
          \/ Admit(r, [Begun("remove", c) EXCEPT !.item = i])
    BY <1>3 DEF BeginUpdateItem, BeginDeleteItem
  <2>2. line[i].price \in Nat
    BY DEF IInv, TablesOK, Line
  <2>3. CASE Admit(r, GetItem(Begun("update", c), i))
    <3> DEFINE b == Begun("update", c)
               q == GetItem(b, i)
    <3>b. Shaped(b) /\ b.pc = "begun" /\ b.op = "update" /\ b.receipt = c
      BY BegunFields DEF ReceiptOps
    <3>q. q = [b EXCEPT !.item = i, !.price = line[i].price]
      BY DEF GetItem
    <3> HIDE DEF q, b
    <3>1. q.pc = "begun" /\ q.op = "update" /\ q.receipt = c /\ q.item = i /\ Shaped(q)
      BY <2>2, <3>b, <3>q DEF Shaped, Request
    <3>2. Carries(q)
      BY <3>1 DEF Carries, ReceiptOps
    <3> QED
      BY <1>0, <2>3, <3>1, <3>2, AdmitStep DEF q, b
  <2>4. CASE Admit(r, [Begun("remove", c) EXCEPT !.item = i])
    <3> DEFINE q == [Begun("remove", c) EXCEPT !.item = i]
    <3>1. q.pc = "begun" /\ q.op = "remove" /\ q.receipt = c /\ q.item = i /\ Shaped(q)
      BY BegunFields DEF Shaped, Request, ReceiptOps
    <3> HIDE DEF q
    <3>2. Carries(q)
      BY <3>1 DEF Carries, ReceiptOps
    <3> QED
      BY <1>0, <2>4, <3>1, <3>2, AdmitStep DEF q
  <2> QED
    BY <2>1, <2>3, <2>4
<1>4. CASE BeginDeleteExpense(r)
  <2>1. PICK x \in Expenses :
          Admit(r, [Idle EXCEPT !.pc = "begun", !.op = "expense", !.expense = x])
    BY <1>4 DEF BeginDeleteExpense
  <2> DEFINE q == [Idle EXCEPT !.pc = "begun", !.op = "expense", !.expense = x]
  <2>2. q.pc = "begun" /\ q.op = "expense" /\ q.expense = x /\ Shaped(q)
    BY DEF Idle, NoClaims, Shaped, Request
  <2> HIDE DEF q
  <2>3. Carries(q)
    BY <2>2 DEF Carries, ReceiptOps
  <2> QED
    BY <1>0, <2>1, <2>2, <2>3, AdmitStep DEF q
<1> QED
  BY <1>1, <1>2, <1>3, <1>4

LEMMA RequestFacts ==
  ASSUME IInv, NEW r \in Requests
  PROVE  /\ Carries(req[r]) /\ Shaped(req[r]) /\ Knows(req[r])
         /\ \A s \in Requests \ {r} : Apart(req[r], req[s]) /\ Apart(req[s], req[r])
BY DEF IInv, RequestsOK, Carries

LEMMA LinesType ==
  ASSUME NEW c
  PROVE  LinesOf(c) \in SUBSET Items
BY DEF LinesOf

\* What the lines cost.
Costs(lines) == [i \in lines |-> line[i].price]

LEMMA TotalIs ==
  ASSUME NEW lines \in SUBSET Items
  PROVE  Total(lines) = Sum(Costs(lines), lines)
<1>1. IsFiniteSet(lines)
  BY ReceiptsAssumption, FS_Subset
<1>2. PICK costs : costs = Costs(lines)
  OBVIOUS
<1>3. PICK own : PartialSums(own, costs, SUBSET lines)
  BY <1>1, PartialSumsExist
<1> DEFINE Adds(iter) ==
      iter = [s \in SUBSET lines |->
                IF s = {} THEN 0 ELSE line[Picked(s)].price + iter[s \ {Picked(s)}]]
<1>4. ASSUME NEW s \in SUBSET lines, s # {}
      PROVE  costs[Picked(s)] = line[Picked(s)].price
  <2>1. Picked(s) \in s
    BY <1>4 DEF Picked
  <2> QED
    BY <1>2, <2>1 DEF Costs
<1>5. \A iter : Adds(iter) <=> PartialSums(iter, costs, SUBSET lines)
  BY <1>4 DEF PartialSums
<1>6. PICK taken : taken = CHOOSE iter : Adds(iter)
  OBVIOUS
<1>7. PartialSums(taken, costs, SUBSET lines)
  <2>1. Adds(own)
    BY <1>3, <1>5
  <2>2. Adds(taken)
    BY <1>6, <2>1
  <2> QED
    BY <1>5, <2>2
<1>8. Total(lines) = taken[lines]
  BY <1>6 DEF Total, Price, MapThenSumSet, MapThenFoldSet, Picked
<1>9. Sum(costs, lines) = taken[lines]
  BY <1>1, <1>7, SumIs
<1> QED
  BY <1>2, <1>8, <1>9

LEMMA TotalType ==
  ASSUME IInv, NEW lines \in SUBSET Items
  PROVE  Total(lines) \in Nat
<1>1. PICK costs : costs = Costs(lines)
  OBVIOUS
<1>2. IsFiniteSet(lines)
  BY ReceiptsAssumption, FS_Subset
<1>3. \A i \in lines : costs[i] \in Nat
  BY <1>1 DEF Costs, IInv, TablesOK, Line
<1>4. Sum(costs, lines) \in Nat
  BY <1>2, <1>3, SumNat
<1> QED
  BY <1>1, <1>4, TotalIs

LEMMA BillFields ==
  ASSUME IInv, NEW q, Shaped(q), NEW lines \in SUBSET Items
  PROVE  /\ Shaped(Bill(q, lines)) /\ Bill(q, lines).pc = "read"
         /\ Bill(q, lines).op = q.op /\ Bill(q, lines).receipt = q.receipt
         /\ Bill(q, lines).item = q.item /\ Bill(q, lines).expense = q.expense
         /\ Bill(q, lines).calm = q.calm
<1> DEFINE total == Total({i \in lines : Claims(i) # {}})
           diners == Eaters(lines)
<1>1. Bill(q, lines) = [q EXCEPT !.pc = "read", !.lines = lines, !.total = total,
                                 !.diners = diners]
  BY DEF Bill
<1>2. total \in Nat
  BY TotalType
<1>3. diners \in SUBSET Diners
  BY DEF Eaters, IInv, TablesOK, Line
<1> HIDE DEF total, diners
<1> QED
  BY <1>1, <1>2, <1>3 DEF Shaped, Request

\* Reading on: the request takes what it has read and is at read.
LEMMA ReadStep ==
  ASSUME IInv, NEW r \in Requests, NEW q, Continues(r, q), Shaped(q), q.pc = "read",
         q.op = req[r].op, q.receipt = req[r].receipt, q.item = req[r].item,
         q.expense = req[r].expense, q.op # "upload",
         UNCHANGED <<receipt, image, abandoned, line, expense, readings>>
  PROVE  IInv'
<1>1. Carries(q)
  BY RequestFacts DEF Carries
<1> QED
  BY <1>1, Free, RequestStep

LEMMA ReadInv ==
  ASSUME IInv, NEW r \in Requests,
         ReadImage(r) \/ CheckEditable(r) \/ CheckGrid(r) \/ ReadBill(r)
  PROVE  IInv'
<1>0. UNCHANGED <<receipt, image, abandoned, line, expense, readings>>
  BY DEF ReadImage, CheckEditable, CheckGrid, ReadBill
<1>1. CASE ReadImage(r) \/ CheckEditable(r)
  <2> DEFINE q == [req[r] EXCEPT !.pc = "read"]
  <2>1. Continues(r, q) /\ req[r].op # "upload"
    BY <1>1 DEF ReadImage, CheckEditable, At
  <2>2. /\ Shaped(q) /\ q.pc = "read" /\ q.op = req[r].op /\ q.receipt = req[r].receipt
        /\ q.item = req[r].item /\ q.expense = req[r].expense
    BY RequestFacts DEF Shaped, Request
  <2> HIDE DEF q
  <2> QED
    BY <1>0, <2>1, <2>2, ReadStep
<1>2. CASE CheckGrid(r)
  <2>1. PICK grid \in [Items -> SUBSET Diners] :
          Continues(r, [req[r] EXCEPT !.pc = "read", !.grid = grid])
    BY <1>2 DEF CheckGrid, ActiveParticipants
  <2> DEFINE q == [req[r] EXCEPT !.pc = "read", !.grid = grid]
  <2>2. req[r].op # "upload"
    BY <1>2 DEF CheckGrid, At
  <2>3. /\ Shaped(q) /\ q.pc = "read" /\ q.op = req[r].op /\ q.receipt = req[r].receipt
        /\ q.item = req[r].item /\ q.expense = req[r].expense
    BY RequestFacts DEF Shaped, Request
  <2>4. Continues(r, q)
    BY <2>1
  <2> HIDE DEF q
  <2> QED
    BY <1>0, <2>2, <2>3, <2>4, ReadStep
<1>3. CASE ReadBill(r)
  <2> DEFINE lines == LinesOf(req[r].receipt)
             q == Bill(req[r], lines)
  <2>1. Continues(r, q) /\ req[r].op # "upload"
    BY <1>3 DEF ReadBill, At
  <2>2. /\ Shaped(q) /\ q.pc = "read" /\ q.op = req[r].op /\ q.receipt = req[r].receipt
        /\ q.item = req[r].item /\ q.expense = req[r].expense
    BY RequestFacts, LinesType, BillFields
  <2> HIDE DEF q
  <2> QED
    BY <1>0, <2>1, <2>2, ReadStep
<1> QED
  BY <1>1, <1>2, <1>3

\* The extraction's transaction up to its last statement, and the end of a request.
LEMMA TransactionInv ==
  ASSUME IInv, NEW r \in Requests, LockReceipt(r) \/ DeleteLines(r) \/ Fail(r)
  PROVE  IInv'
<1>0. UNCHANGED <<receipt, image, abandoned, line, expense, readings>>
  BY DEF LockReceipt, DeleteLines, Fail
<1>1. CASE LockReceipt(r)
  <2> DEFINE q == [req[r] EXCEPT !.pc = "locked"]
  <2>1. Continues(r, q) /\ req[r].op = "extract" /\ ~Locked(req[r].receipt)
    BY <1>1 DEF LockReceipt, At
  <2>2. /\ Shaped(q) /\ q.pc = "locked" /\ q.op = req[r].op /\ q.receipt = req[r].receipt
        /\ q.item = req[r].item /\ q.expense = req[r].expense
    BY RequestFacts DEF Shaped, Request
  <2> HIDE DEF q
  <2>3. Carries(q) /\ Knows(q)
    BY <2>1, <2>2, RequestFacts DEF Carries, Knows
  <2>4. \A s \in Requests \ {r} : Apart(q, req[s]) /\ Apart(req[s], q)
    BY <2>1, <2>2 DEF Locked, Apart
  <2> QED
    BY <1>0, <2>1, <2>3, <2>4, RequestStep
<1>2. CASE DeleteLines(r)
  <2> DEFINE lines == LinesOf(req[r].receipt)
             q == [req[r] EXCEPT !.pc = "emptied", !.doomed = lines]
  <2>1. Continues(r, q) /\ req[r].op = "extract" /\ req[r].pc = "locked"
    BY <1>2 DEF DeleteLines, At
  <2>l. lines \in SUBSET Items
    BY LinesType
  <2> HIDE DEF lines
  <2>2. /\ Shaped(q) /\ q.pc = "emptied" /\ q.op = req[r].op /\ q.receipt = req[r].receipt
        /\ q.item = req[r].item /\ q.expense = req[r].expense /\ q.doomed = lines
    BY <2>l, RequestFacts DEF Shaped, Request
  <2> HIDE DEF q
  <2>3. Carries(q)
    BY <2>1, <2>2, RequestFacts DEF Carries
  <2>4. Knows(q)
    BY <2>1, <2>2 DEF Knows, lines
  <2>5. \A s \in Requests \ {r} : Apart(q, req[s]) /\ Apart(req[s], q)
    BY <2>1, <2>2, RequestFacts DEF Apart
  <2> QED
    BY <1>0, <2>1, <2>3, <2>4, <2>5, RequestStep
<1>3. CASE Fail(r)
  <2>1. Continues(r, Idle)
    BY <1>3 DEF Fail, Continues
  <2> QED
    BY <1>0, <2>1, IdleOK, RequestStep
<1> QED
  BY <1>1, <1>2, <1>3

---------------------------------------------------------------------------------
(* Steps that write.                                                       *)

LEMMA AddItemInv ==
  ASSUME IInv, NEW r \in Requests, AddItem(r)
  PROVE  IInv'
<1> DEFINE c == req[r].receipt
<1>1. c \in Receipts
  BY RequestFacts DEF AddItem, At, Carries, ReceiptOps
<1>2. PICK i \in Items, price \in Prices :
        line' = [line EXCEPT ![i] = CreatedItem(c, price)]
  BY DEF AddItem
<1>3. Writes(r, {c}, Idle) /\ UNCHANGED <<receipt, image, abandoned, expense, readings>>
  BY DEF AddItem
<1> HIDE DEF c
<1>4. CreatedItem(c, price) \in Line /\ CreatedItem(c, price).reading = 0
  BY <1>1, ReceiptsAssumption DEF CreatedItem, NoLine, Line
<1>5. line' \in [Items -> Line]
      /\ \A j \in Items : line'[j] = IF j = i THEN CreatedItem(c, price) ELSE line[j]
  BY <1>2, <1>4 DEF IInv, TablesOK
<1> QED
  BY <1>3, <1>4, <1>5, IdleFields, IdleOK, LineStep

LEMMA UpdateItemInv ==
  ASSUME IInv, NEW r \in Requests, UpdateItem(r) \/ DeleteItem(r)
  PROVE  IInv'
<1> DEFINE i == req[r].item
           c == req[r].receipt
<1>1. i \in Items /\ req[r].price \in Nat
  BY RequestFacts DEF UpdateItem, DeleteItem, At, Carries, Shaped, Request
<1>2. line[i] \in Line /\ line \in [Items -> Line] /\ line[i].life = "live"
  BY <1>1 DEF UpdateItem, DeleteItem, Writable, IInv, TablesOK
<1>3. Writes(r, {c}, Idle) /\ UNCHANGED <<receipt, image, abandoned, expense, readings>>
  BY DEF UpdateItem, DeleteItem
<1>4. PICK new \in Line :
        /\ line' = [line EXCEPT ![i] = new]
        /\ new.life = "live" => new.receipt = line[i].receipt /\ new.reading = line[i].reading
  <2>1. CASE UpdateItem(r)
    <3>1. PICK price \in Prices \cup {req[r].price} : line' = [line EXCEPT ![i].price = price]
      BY <2>1 DEF UpdateItem
    <3>2. price \in Nat
      BY <1>1, ReceiptsAssumption
    <3> DEFINE new == [line[i] EXCEPT !.price = price]
    <3>3. new \in Line /\ new.receipt = line[i].receipt /\ new.reading = line[i].reading
      BY <1>2, <3>2 DEF Line
    <3>4. line' = [line EXCEPT ![i] = new]
      BY <3>1
    <3> QED
      BY <3>3, <3>4
  <2>2. CASE DeleteItem(r)
    <3> DEFINE new == [NoLine EXCEPT !.life = "gone"]
    <3>1. new \in Line /\ new.life = "gone"
      BY DEF NoLine, Line
    <3>2. line' = [line EXCEPT ![i] = new]
      BY <2>2 DEF DeleteItem
    <3> QED
      BY <3>1, <3>2
  <2> QED
    BY <2>1, <2>2
<1> HIDE DEF i, c
<1>5. line' \in [Items -> Line] /\ \A j \in Items : line'[j] = IF j = i THEN new ELSE line[j]
  BY <1>1, <1>2, <1>4
<1> QED
  BY <1>1, <1>2, <1>3, <1>4, <1>5, IdleFields, IdleOK, LineStep

LEMMA ClaimsInv ==
  ASSUME IInv, NEW r \in Requests, ClearClaims(r) \/ InsertClaims(r)
  PROVE  IInv'
<1> DEFINE c == req[r].receipt
<1>0. UNCHANGED <<receipt, image, abandoned, expense, readings>> /\ line \in [Items -> Line]
  BY DEF ClearClaims, InsertClaims, IInv, TablesOK
<1>1. CASE ClearClaims(r)
  <2> DEFINE q == IF req[r].grid = NoClaims THEN Idle ELSE [req[r] EXCEPT !.pc = "cleared"]
  <2>1. Writes(r, {c}, q) /\ req[r].op = "assign"
    BY <1>1 DEF ClearClaims, At
  <2>2. /\ [req[r] EXCEPT !.pc = "cleared"].pc = "cleared"
        /\ [req[r] EXCEPT !.pc = "cleared"].op = "assign"
        /\ Carries([req[r] EXCEPT !.pc = "cleared"])
    <3> DEFINE p == [req[r] EXCEPT !.pc = "cleared"]
    <3>1. /\ Shaped(p) /\ p.pc = "cleared" /\ p.op = "assign" /\ p.receipt = c
          /\ p.item = req[r].item /\ p.expense = req[r].expense
      BY <2>1, RequestFacts DEF Shaped, Request
    <3> HIDE DEF p
    <3>2. Carries(p)
      BY <2>1, <3>1, RequestFacts DEF Carries
    <3> QED
      BY <3>1, <3>2 DEF p
  <2>3. Carries(q) /\ q.op # "upload" /\ q.pc \notin {"locked", "emptied", "hidden"}
    BY <2>2, IdleFields, IdleOK
  <2>4. \A i \in Items : [line[i] EXCEPT !.claims = {}] \in Line
                         /\ [line[i] EXCEPT !.claims = {}].life = line[i].life
                         /\ [line[i] EXCEPT !.claims = {}].receipt = line[i].receipt
                         /\ [line[i] EXCEPT !.claims = {}].reading = line[i].reading
    BY <1>0 DEF Line
  <2>5. line' \in [Items -> Line]
        /\ \A i \in Items : line'[i].life = line[i].life /\ line'[i].receipt = line[i].receipt
                            /\ line'[i].reading = line[i].reading
    BY <1>0, <1>1, <2>4 DEF ClearClaims
  <2> HIDE DEF q, c
  <2> QED
    BY <1>0, <2>1, <2>3, <2>5, LineStep
<1>2. CASE InsertClaims(r)
  <2> DEFINE grid == req[r].grid
  <2>1. Writes(r, {c}, Idle)
        /\ line' = [i \in Items |-> [line[i] EXCEPT !.claims = @ \cup grid[i]]]
    BY <1>2 DEF InsertClaims
  <2>2. \A i \in Items : grid[i] \subseteq Diners
    BY RequestFacts DEF Shaped, Request
  <2> HIDE DEF grid, c
  <2>3. \A i \in Items : LET new == [line[i] EXCEPT !.claims = @ \cup grid[i]]
                         IN /\ new \in Line /\ new.life = line[i].life
                            /\ new.receipt = line[i].receipt
                            /\ new.reading = line[i].reading
    BY <1>0, <2>2 DEF Line
  <2>4. line' \in [Items -> Line]
        /\ \A i \in Items : line'[i].life = line[i].life /\ line'[i].receipt = line[i].receipt
                            /\ line'[i].reading = line[i].reading
    BY <2>1, <2>3
  <2> QED
    BY <1>0, <2>1, <2>4, IdleFields, IdleOK, LineStep
<1> QED
  BY <1>1, <1>2

\* The line StoreReading inserts.
ReadLine(c, n, cost) ==
  [NoLine EXCEPT !.life = "live", !.receipt = c, !.reading = n, !.price = cost]

LEMMA ReadLineFields ==
  ASSUME NEW c \in Receipts, NEW n \in Nat, NEW cost \in Nat
  PROVE  /\ ReadLine(c, n, cost) \in Line
         /\ ReadLine(c, n, cost).reading = n /\ ReadLine(c, n, cost).receipt = c
<1> DEFINE new == ReadLine(c, n, cost)
<1>1. new \in [life : {"live"}, receipt : {c}, reading : {n}, price : {cost}, claims : {{}}]
  BY DEF NoLine, ReadLine
<1> HIDE DEF new
<1>2. new \in Line /\ new.reading = n /\ new.receipt = c
  BY <1>1 DEF Line
<1> QED
  BY <1>2 DEF new

\* Each reading is stored whole: what the DELETE found is all there was of the others.
LEMMA StoreReadingInv ==
  ASSUME IInv, NEW r \in Requests, StoreReading(r)
  PROVE  IInv'
<1> DEFINE c == req[r].receipt
           old == req[r]
<1>1. /\ old.op = "extract" /\ old.pc = "emptied" /\ old.expense = NoExpense
      /\ c \in Receipts
      /\ \A i \in LinesOf(c) : line[i].reading # 0 => i \in old.doomed
  BY RequestFacts DEF StoreReading, At, Carries, Knows, ReceiptOps
<1>f. PICK fresh \in SUBSET {i \in Items : line[i].life = "absent"} :
        \E price \in [fresh -> Prices] :
          line' = [i \in Items |->
             IF i \in fresh
               THEN [NoLine EXCEPT !.life = "live", !.receipt = c,
                                   !.reading = readings + 1, !.price = price[i]]
             ELSE IF i \in old.doomed THEN [NoLine EXCEPT !.life = "gone"]
             ELSE line[i]]
  BY DEF StoreReading
<1>2. PICK price \in [fresh -> Prices] :
          line' = [i \in Items |->
             IF i \in fresh
               THEN [NoLine EXCEPT !.life = "live", !.receipt = c,
                                   !.reading = readings + 1, !.price = price[i]]
             ELSE IF i \in old.doomed THEN [NoLine EXCEPT !.life = "gone"]
             ELSE line[i]]
  BY <1>f
<1>3. /\ receipt' = [receipt EXCEPT ![c].status = "extracted", ![c].expense = NoExpense]
      /\ readings' = readings + 1 /\ Writes(r, {c}, Idle)
      /\ UNCHANGED <<image, abandoned, expense>> /\ readings < MaxReadings
  BY <1>1 DEF StoreReading
<1>4. readings \in 0 .. MaxReadings /\ line \in [Items -> Line] /\ receipt \in [Receipts -> ReceiptRow]
  BY DEF IInv, TablesOK
<1> HIDE DEF c, old
<1>5. \A i \in Items :
        /\ line'[i] \in Line
        /\ line'[i].life = "live" =>
             \/ i \in fresh /\ line'[i].reading = readings + 1 /\ line'[i].receipt = c
             \/ i \notin old.doomed /\ line'[i] = line[i]
  <2> TAKE i \in Items
  <2>1. CASE i \in fresh
    <3> DEFINE new == ReadLine(c, readings + 1, price[i])
    <3>p. price[i] \in Prices
      BY <2>1
    <3>n. \A p \in Prices : p \in Nat
      BY ReceiptsAssumption
    <3>m. readings + 1 \in Nat
      BY <1>4
    <3>1. price[i] \in Nat /\ readings + 1 \in Nat
      BY <3>p, <3>n, <3>m
    <3>2. new \in Line /\ new.reading = readings + 1 /\ new.receipt = c
      BY <1>1, <3>1, ReadLineFields
    <3>3. line'[i] = new
      BY <1>2, <2>1 DEF ReadLine
    <3> QED
      BY <2>1, <3>2, <3>3
  <2>2. CASE i \notin fresh
    <3>1. [NoLine EXCEPT !.life = "gone"] \in Line
          /\ [NoLine EXCEPT !.life = "gone"].life = "gone"
      BY DEF NoLine, Line
    <3> QED
      BY <1>2, <1>4, <2>2, <3>1
  <2> QED
    BY <2>1, <2>2
<1>6. line' \in [Items -> Line]
  BY <1>2, <1>5
<1>7. /\ receipt' \in [Receipts -> ReceiptRow]
      /\ \A d \in Receipts : receipt'[d].life = receipt[d].life
      /\ receipt'[c].status = "extracted" /\ receipt'[c].expense = NoExpense
      /\ \A d \in Receipts \ {c} : receipt'[d] = receipt[d]
  <2>1. receipt[c] \in ReceiptRow
    BY <1>1, <1>4
  <2>2. [receipt[c] EXCEPT !.status = "extracted", !.expense = NoExpense] \in ReceiptRow
    BY <2>1 DEF ReceiptRow, Statuses
  <2> QED
    BY <1>1, <1>3, <1>4, <2>1, <2>2 DEF ReceiptRow
<1>8. TablesOK'
  <2>1. readings' \in 0 .. MaxReadings
    BY <1>3, <1>4, ReceiptsAssumption
  <2> QED
    BY <1>3, <1>6, <1>7, <2>1 DEF IInv, TablesOK
<1>9. LinkIsLive' /\ PhotographIsKept'
  BY <1>3, <1>7 DEF IInv, LinkIsLive, PhotographIsKept, Live
<1>10. \A d : \A i \in LinesOf(d)' :
         \/ d = c /\ line'[i].reading = readings + 1
         \/ i \in LinesOf(d) \ old.doomed /\ line'[i] = line[i]
  BY <1>5 DEF LinesOf
<1>11. \A d \in Receipts : \A i \in LinesOf(d)' : line'[i].reading # 0 =>
         \/ d = c /\ line'[i].reading = readings + 1
         \/ d # c /\ i \in LinesOf(d) /\ line'[i] = line[i]
  BY <1>1, <1>10
<1>12. ExtractionsNeverMix'
  BY <1>11 DEF IInv, ExtractionsNeverMix
<1>13. \A s \in Requests \ {r} : \A p : Alike(p, req[s]) /\ Knows(req[s]) => Knows(p)'
  <2> TAKE s \in Requests \ {r}
  <2> TAKE p
  <2> HAVE Alike(p, req[s]) /\ Knows(req[s])
  <2>1. Carries(req[s]) /\ Apart(old, req[s])
    BY RequestFacts DEF old
  <2>2. p.pc = "emptied" => p.receipt # c /\ p.receipt \in Receipts
    BY <1>1, <2>1 DEF Alike, Apart, Carries, ReceiptOps, c, old
  <2>3. p.op = "upload" => p.receipt \in Receipts
    BY <2>1 DEF Alike, Carries
  <2>4. p.pc = "hidden" => p.receipt \in Receipts
    BY <2>1 DEF Alike, Carries, ReceiptOps
  <2>5. p.pc = "emptied" =>
          \A i \in LinesOf(p.receipt)' : line'[i].reading # 0 => i \in p.doomed
    BY <1>11, <2>2 DEF Alike, Knows
  <2>6. p.op = "upload" =>
          /\ p.pc = "stored" => receipt'[p.receipt].life = "absent"
          /\ receipt'[p.receipt].life # "deleted" => p.receipt \in image'
    BY <1>3, <1>7, <2>3 DEF Alike, Knows
  <2>7. p.pc = "hidden" => receipt'[p.receipt].life = "deleted"
    BY <1>7, <2>4 DEF Alike, Knows
  <2> QED
    BY <2>5, <2>6, <2>7 DEF Knows
<1> QED
  BY <1>3, <1>8, <1>9, <1>12, <1>13, IdleFields, IdleOK, Free, WriteStep

\* Steps that write the receipts table: what is deleted stays so, and only an upload
\* makes a row, its own.
LEMMA ReceiptStep ==
  ASSUME IInv, NEW r \in Requests, NEW q, NEW cs, Writes(r, cs, q) \/ Continues(r, q),
         Carries(q), Knows(q)',
         \A s \in Requests \ {r} : Apart(q, req[s]) /\ Apart(req[s], q),
         receipt' \in [Receipts -> ReceiptRow],
         \A c \in Receipts : receipt[c].life = "deleted" => receipt'[c].life = "deleted",
         \A c \in Receipts : receipt[c].life = "live" => receipt'[c].life # "absent",
         \A c \in Receipts : receipt[c].life = "absent" =>
           \/ receipt'[c] = receipt[c]
           \/ req[r].op = "upload" /\ c = req[r].receipt /\ receipt'[c].life = "live",
         expense' \in [Expenses -> Expense],
         LinkIsLive',
         UNCHANGED <<image, abandoned, line, readings>>
  PROVE  IInv'
<1>1. receipt \in [Receipts -> ReceiptRow] /\ \A c \in Receipts : receipt[c].life \in {"absent", "live", "deleted"}
  BY DEF IInv, TablesOK, ReceiptRow
<1>2. TablesOK'
  BY <1>1 DEF IInv, TablesOK
<1>3. \A c \in Receipts : Live(c)' => Live(c) \/ c \in image
  <2>1. req[r].op = "upload" /\ receipt[req[r].receipt].life # "deleted" =>
          req[r].receipt \in image
    BY RequestFacts DEF Knows
  <2> QED
    BY <1>1, <2>1 DEF Live
<1>4. PhotographIsKept' /\ ExtractionsNeverMix'
  BY <1>3 DEF IInv, PhotographIsKept, ExtractionsNeverMix, LinesOf
<1>5. \A s \in Requests \ {r} : \A p : Alike(p, req[s]) /\ Knows(req[s]) => Knows(p)'
  <2> TAKE s \in Requests \ {r}
  <2> TAKE p
  <2> HAVE Alike(p, req[s]) /\ Knows(req[s])
  <2>1. Carries(req[s]) /\ Apart(req[r], req[s])
    BY RequestFacts
  <2>2. p.op = "upload" =>
          /\ p.receipt \in Receipts
          /\ p.pc = "stored" => receipt[p.receipt].life = "absent"
          /\ receipt[p.receipt].life # "deleted" => p.receipt \in image
          /\ req[r].op = "upload" => p.receipt # req[r].receipt
    BY <2>1 DEF Alike, Apart, Carries, Knows
  <2>3. p.op = "upload" =>
          /\ p.pc = "stored" => receipt'[p.receipt].life = "absent"
          /\ receipt'[p.receipt].life # "deleted" => p.receipt \in image'
    BY <1>1, <2>2
  <2>4. p.pc = "hidden" => receipt'[p.receipt].life = "deleted"
    BY <2>1 DEF Alike, Carries, Knows, ReceiptOps
  <2>5. p.pc = "emptied" =>
          \A i \in LinesOf(p.receipt)' : line'[i].reading # 0 => i \in p.doomed
    BY DEF Alike, Knows, LinesOf
  <2> QED
    BY <2>3, <2>4, <2>5 DEF Knows
<1> QED
  BY <1>2, <1>4, <1>5, WriteStep

LEMMA ExpenseShape ==
  ASSUME IInv
  PROVE  /\ expense \in [Expenses -> Expense]
         /\ receipt \in [Receipts -> ReceiptRow]
BY DEF IInv, TablesOK

LEMMA CreateReceiptInv ==
  ASSUME IInv, NEW r \in Requests, CreateReceipt(r)
  PROVE  IInv'
<1> DEFINE c == req[r].receipt
<1>q. PICK q : q = [req[r] EXCEPT !.pc = "created"]
  OBVIOUS
<1>1. /\ req[r].op = "upload" /\ req[r].pc = "stored" /\ c \in Receipts
      /\ receipt[c].life = "absent" /\ c \in image
  BY RequestFacts DEF CreateReceipt, At, Carries, Knows
<1>2. /\ receipt' = [receipt EXCEPT ![c].life = "live"] /\ Continues(r, q)
      /\ UNCHANGED <<image, abandoned, line, expense, readings>>
  BY <1>q DEF CreateReceipt
<1>3. /\ Shaped(q) /\ q.pc = "created" /\ q.op = "upload" /\ q.receipt = c
      /\ q.item = req[r].item /\ q.expense = req[r].expense
  BY <1>1, <1>q, RequestFacts DEF Shaped, Request
<1>4. receipt[c].status # "converted" /\ receipt[c].expense = NoExpense
  BY <1>1 DEF IInv, TablesOK
<1> HIDE DEF c
<1>r. [receipt[c] EXCEPT !.life = "live"] \in ReceiptRow
  BY <1>1, ExpenseShape DEF ReceiptRow
<1>5. /\ receipt' \in [Receipts -> ReceiptRow]
      /\ receipt'[c].life = "live" /\ receipt'[c].status = receipt[c].status
      /\ receipt'[c].expense = receipt[c].expense
      /\ \A d \in Receipts \ {c} : receipt'[d] = receipt[d]
  BY <1>1, <1>2, <1>r, ExpenseShape DEF ReceiptRow
<1>6. Carries(q)
  BY <1>1, <1>3 DEF Carries, ReceiptOps
<1>7. Knows(q)'
  BY <1>1, <1>2, <1>3 DEF Knows
<1>8. \A s \in Requests \ {r} : Apart(q, req[s]) /\ Apart(req[s], q)
  BY <1>1, <1>3, RequestFacts DEF Apart, c
<1>9. LinkIsLive'
  BY <1>2, <1>4, <1>5 DEF IInv, LinkIsLive, Live
<1>10. /\ expense' \in [Expenses -> Expense]
  BY <1>2, ExpenseShape
<1>11. \A d \in Receipts :
         /\ receipt[d].life = "deleted" => receipt'[d].life = "deleted"
         /\ receipt[d].life = "live" => receipt'[d].life # "absent"
         /\ receipt[d].life = "absent" =>
              \/ receipt'[d] = receipt[d]
              \/ req[r].op = "upload" /\ d = req[r].receipt /\ receipt'[d].life = "live"
  BY <1>1, <1>5 DEF c
<1>12. Writes(r, {}, q) \/ Continues(r, q)
  BY <1>2
<1> QED
  BY <1>2, <1>5, <1>6, <1>7, <1>8, <1>9, <1>10, <1>11, <1>12, ReceiptStep

LEMMA StoreFailureInv ==
  ASSUME IInv, NEW r \in Requests, StoreFailure(r)
  PROVE  IInv'
<1> DEFINE c == req[r].receipt
<1>1. /\ req[r].op = "extract" /\ req[r].expense = NoExpense /\ c \in Receipts
      /\ receipt[c].life = "live"
  BY RequestFacts DEF StoreFailure, At, Carries, ReceiptOps, Live
<1>2. /\ receipt' = [receipt EXCEPT ![c].status = "failed", ![c].expense = NoExpense]
      /\ Writes(r, {c}, Idle)
      /\ UNCHANGED <<image, abandoned, line, expense, readings>>
  BY <1>1 DEF StoreFailure
<1> HIDE DEF c
<1>3. [receipt[c] EXCEPT !.status = "failed", !.expense = NoExpense] \in ReceiptRow
  BY <1>1, ExpenseShape DEF ReceiptRow, Statuses
<1>4. /\ receipt' \in [Receipts -> ReceiptRow]
      /\ receipt'[c].life = "live" /\ receipt'[c].status = "failed"
      /\ receipt'[c].expense = NoExpense
      /\ \A d \in Receipts \ {c} : receipt'[d] = receipt[d]
  BY <1>1, <1>2, <1>3, ExpenseShape DEF ReceiptRow
<1>5. LinkIsLive'
  BY <1>2, <1>4 DEF IInv, LinkIsLive, Live
<1>6. /\ expense' \in [Expenses -> Expense]
  BY <1>2, ExpenseShape
<1>7. Knows(Idle)'
  BY IdleFields, Free DEF ReceiptOps
<1> QED
  BY <1>1, <1>2, <1>4, <1>5, <1>6, <1>7, IdleOK, ReceiptStep

LEMMA ConvertInv ==
  ASSUME IInv, NEW r \in Requests, ConvertToExpense(r)
  PROVE  IInv'
<1> DEFINE c == req[r].receipt
<1>1. c \in Receipts /\ receipt[c].life = "live"
  BY DEF ConvertToExpense, Live
<1>2. PICK x \in Expenses :
        /\ expense[x].life = "absent"
        /\ expense' = [expense EXCEPT ![x] =
             [life |-> "live", receipt |-> c, total |-> req[r].total,
              diners |-> req[r].diners]]
        /\ receipt' = [receipt EXCEPT ![c].status = "converted", ![c].expense = x]
  BY DEF ConvertToExpense
<1>3. Writes(r, {c}, Idle) /\ UNCHANGED <<image, abandoned, line, readings>>
  BY DEF ConvertToExpense
<1>n. PICK new : new = [life |-> "live", receipt |-> c, total |-> req[r].total,
                        diners |-> req[r].diners]
  OBVIOUS
<1>t. new \in Expense /\ new.life = "live"
  <2>1. req[r].total \in Nat /\ req[r].diners \in SUBSET Diners
    BY RequestFacts DEF Shaped, Request
  <2> QED
    BY <1>1, <1>n, <2>1 DEF Expense
<1>w. expense' = [expense EXCEPT ![x] = new]
  BY <1>2, <1>n
<1> HIDE DEF c
<1>4. [receipt[c] EXCEPT !.status = "converted", !.expense = x] \in ReceiptRow
  BY <1>1, ExpenseShape DEF ReceiptRow, Statuses
<1>5. /\ receipt' \in [Receipts -> ReceiptRow]
      /\ receipt'[c].life = "live" /\ receipt'[c].status = "converted"
      /\ receipt'[c].expense = x
      /\ \A d \in Receipts \ {c} : receipt'[d] = receipt[d]
  BY <1>1, <1>2, <1>4, ExpenseShape DEF ReceiptRow
<1>6. /\ expense'[x].life = "live" /\ \A y \in Expenses \ {x} : expense'[y] = expense[y]
      /\ expense' \in [Expenses -> Expense]
  BY <1>t, <1>w, ExpenseShape
<1>7. LinkIsLive'
  <2>1. NoExpense \notin Expenses
    BY ReceiptsAssumption
  <2>2. \A d \in Receipts : receipt[d].expense \in Expenses \cup {NoExpense}
    BY ExpenseShape DEF ReceiptRow
  <2> QED
    BY <1>2, <1>5, <1>6, <2>1, <2>2 DEF IInv, LinkIsLive, Live
<1>8. Knows(Idle)'
  BY IdleFields, Free DEF ReceiptOps
<1> QED
  BY <1>1, <1>3, <1>5, <1>6, <1>7, <1>8, IdleOK, ReceiptStep

LEMMA DeleteReceiptInv ==
  ASSUME IInv, NEW r \in Requests, DeleteReceipt(r)
  PROVE  IInv'
<1> DEFINE c == req[r].receipt
<1>q. PICK q : q = [req[r] EXCEPT !.pc = "hidden"]
  OBVIOUS
<1>1. /\ req[r].op = "delete" /\ req[r].pc = "begun" /\ c \in Receipts
      /\ receipt[c].life = "live"
  BY DEF DeleteReceipt, At, Live
<1>2. /\ receipt' = [receipt EXCEPT ![c].life = "deleted"] /\ Writes(r, {c}, q)
      /\ UNCHANGED <<image, abandoned, line, expense, readings>>
  BY <1>q DEF DeleteReceipt
<1>3. /\ Shaped(q) /\ q.pc = "hidden" /\ q.op = "delete" /\ q.receipt = c
      /\ q.item = req[r].item /\ q.expense = req[r].expense
  BY <1>1, <1>q, RequestFacts DEF Shaped, Request
<1> HIDE DEF c
<1>4. [receipt[c] EXCEPT !.life = "deleted"] \in ReceiptRow
  BY <1>1, ExpenseShape DEF ReceiptRow
<1>5. /\ receipt' \in [Receipts -> ReceiptRow] /\ receipt'[c].life = "deleted"
      /\ \A d \in Receipts \ {c} : receipt'[d] = receipt[d]
  BY <1>1, <1>2, <1>4, ExpenseShape DEF ReceiptRow
<1>6. Carries(q)
  BY <1>1, <1>3 DEF Carries, ReceiptOps
<1>7. Knows(q)'
  BY <1>3, <1>5 DEF Knows
<1>8. \A s \in Requests \ {r} : Apart(q, req[s]) /\ Apart(req[s], q)
  BY <1>3 DEF Apart
<1>9. LinkIsLive'
  BY <1>2, <1>5 DEF IInv, LinkIsLive, Live
<1>10. /\ expense' \in [Expenses -> Expense]
  BY <1>2, ExpenseShape
<1> QED
  BY <1>1, <1>2, <1>5, <1>6, <1>7, <1>8, <1>9, <1>10, ReceiptStep

LEMMA DeleteExpenseInv ==
  ASSUME IInv, NEW r \in Requests, DeleteExpense(r)
  PROVE  IInv'
<1> DEFINE x == req[r].expense
           linked == {c \in Receipts : Live(c) /\ receipt[c].expense = x}
<1>1. x \in Expenses
  BY RequestFacts DEF DeleteExpense, At, Carries
<1>2. /\ receipt' = ClearExpenseLink(x) /\ expense' = [expense EXCEPT ![x].life = "deleted"]
      /\ Writes(r, linked, Idle) /\ UNCHANGED <<image, abandoned, line, readings>>
  BY DEF DeleteExpense
<1> HIDE DEF x, linked
<1>3. \A c \in Receipts :
        LET new == [receipt[c] EXCEPT !.status = "extracted", !.expense = NoExpense]
        IN /\ new \in ReceiptRow /\ new.life = receipt[c].life
           /\ new.status = "extracted" /\ new.expense = NoExpense
  BY ExpenseShape DEF ReceiptRow, Statuses
<1>4. /\ receipt' \in [Receipts -> ReceiptRow]
      /\ \A c \in Receipts :
           IF Live(c) /\ receipt[c].expense = x
             THEN /\ receipt'[c].life = "live" /\ receipt'[c].status = "extracted"
                  /\ receipt'[c].expense = NoExpense
             ELSE receipt'[c] = receipt[c]
  BY <1>2, <1>3, ExpenseShape DEF ClearExpenseLink, Live
<1>5. /\ \A y \in Expenses \ {x} : expense'[y] = expense[y]
      /\ expense' \in [Expenses -> Expense]
  <2>1. PICK gone : gone = [expense[x] EXCEPT !.life = "deleted"]
    OBVIOUS
  <2>2. expense[x] \in Expense
    BY <1>1, ExpenseShape
  <2>3. gone \in Expense
    BY <2>1, <2>2 DEF Expense
  <2>4. expense' = [expense EXCEPT ![x] = gone]
    BY <1>2, <2>1
  <2> QED
    BY <1>1, <2>3, <2>4, ExpenseShape
<1>6. LinkIsLive'
  <2>1. \A d \in Receipts : receipt[d].expense \in Expenses \cup {NoExpense}
    BY ExpenseShape DEF ReceiptRow
  <2> QED
    BY <1>4, <1>5, <2>1 DEF IInv, LinkIsLive, Live
<1>7. Knows(Idle)'
  BY IdleFields, Free DEF ReceiptOps
<1>8. \A c \in Receipts :
        /\ receipt[c].life = "deleted" => receipt'[c].life = "deleted"
        /\ receipt[c].life = "live" => receipt'[c].life # "absent"
        /\ receipt[c].life = "absent" => receipt'[c] = receipt[c]
  BY <1>4 DEF Live
<1> QED
  BY <1>2, <1>4, <1>5, <1>6, <1>7, <1>8, IdleOK, ReceiptStep

\* The image is there before the row, and nobody else knows of the receipt yet.
LEMMA PutImageInv ==
  ASSUME IInv, NEW r \in Requests, PutImage(r)
  PROVE  IInv'
<1>1. PICK c \in Receipts :
        /\ receipt[c].life = "absent"
        /\ \A s \in Requests : req[s].receipt # c
        /\ Admit(r, [Idle EXCEPT !.pc = "stored", !.op = "upload", !.receipt = c])
        /\ image' = image \cup {c}
        /\ UNCHANGED <<receipt, abandoned, line, expense, readings>>
  BY DEF PutImage
<1>q. PICK q : q = [Idle EXCEPT !.pc = "stored", !.op = "upload", !.receipt = c]
  OBVIOUS
<1>2. Shaped(q) /\ q.pc = "stored" /\ q.op = "upload" /\ q.receipt = c
  BY <1>q DEF Idle, NoClaims, Shaped, Request
<1>3. Carries(q)
  BY <1>2 DEF Carries, ReceiptOps
<1>4. receipt[c].life = "absent" /\ UNCHANGED receipt /\ c \in image'
  BY <1>1
<1>5. Knows(q)'
  BY <1>2, <1>4 DEF Knows
<1>6. \A s \in Requests \ {r} : Apart(q, req[s]) /\ Apart(req[s], q)
  BY <1>1, <1>2 DEF Apart
<1>7. TablesOK' /\ LinkIsLive' /\ PhotographIsKept' /\ ExtractionsNeverMix'
  BY <1>1 DEF IInv, TablesOK, LinkIsLive, PhotographIsKept, ExtractionsNeverMix, Live, LinesOf
<1>8. \A s \in Requests \ {r} : \A p : Alike(p, req[s]) /\ Knows(req[s]) => Knows(p)'
  BY <1>1 DEF Knows, Alike, LinesOf
<1>9. Writes(r, {}, q) \/ Continues(r, q)
  BY <1>1, <1>q DEF Admit, Continues
<1> QED
  BY <1>3, <1>5, <1>6, <1>7, <1>8, <1>9, WriteStep

\* The upload answers for a receipt that is there, or takes its image back.
LEMMA AnswerInv ==
  ASSUME IInv, NEW r \in Requests, AnswerUpload(r) \/ CleanUp(r)
  PROVE  IInv'
<1> DEFINE c == req[r].receipt
<1>1. /\ req[r].op = "upload" /\ c \in Receipts
      /\ receipt[c].life # "deleted" => c \in image
  BY RequestFacts DEF AnswerUpload, CleanUp, At, Carries, Knows
<1>2. Continues(r, Idle) /\ UNCHANGED <<receipt, line, expense, readings>>
  BY DEF AnswerUpload, CleanUp
<1>3. \/ UNCHANGED <<abandoned, image>>
      \/ /\ image' = image \ {c}
         /\ abandoned' = IF Live(c) THEN abandoned \cup {c} ELSE abandoned
  BY DEF AnswerUpload, CleanUp
<1>4. \A s \in Requests \ {r} : req[s].op = "upload" => req[s].receipt # c
  BY <1>1, RequestFacts DEF Apart
<1> HIDE DEF c
<1>5. TablesOK' /\ LinkIsLive' /\ ExtractionsNeverMix'
  BY <1>1, <1>2, <1>3
     DEF IInv, TablesOK, LinkIsLive, ExtractionsNeverMix, Live, LinesOf
<1>6. PhotographIsKept'
  BY <1>1, <1>2, <1>3 DEF IInv, PhotographIsKept, Live
<1>7. \A s \in Requests \ {r} : \A p : Alike(p, req[s]) /\ Knows(req[s]) => Knows(p)'
  BY <1>2, <1>3, <1>4 DEF Knows, Alike, LinesOf
<1>8. Writes(r, {}, Idle) \/ Continues(r, Idle)
  BY <1>2
<1>9. Knows(Idle)'
  BY IdleFields, Free DEF ReceiptOps
<1> QED
  BY <1>5, <1>6, <1>7, <1>8, <1>9, IdleOK, WriteStep

\* Only the image of a deleted receipt goes.
LEMMA DropImageInv ==
  ASSUME IInv, NEW r \in Requests, DropImage(r)
  PROVE  IInv'
<1> DEFINE c == req[r].receipt
<1>1. receipt[c].life = "deleted"
  BY RequestFacts DEF DropImage, At, Knows
<1>2. /\ Continues(r, Idle) /\ image' = image \ {c}
      /\ UNCHANGED <<receipt, abandoned, line, expense, readings>>
  BY DEF DropImage
<1> HIDE DEF c
<1>3. TablesOK' /\ LinkIsLive' /\ ExtractionsNeverMix'
  BY <1>2 DEF IInv, TablesOK, LinkIsLive, ExtractionsNeverMix, Live, LinesOf
<1>4. PhotographIsKept'
  BY <1>1, <1>2 DEF IInv, PhotographIsKept, Live
<1>5. \A s \in Requests \ {r} : \A p : Alike(p, req[s]) /\ Knows(req[s]) => Knows(p)'
  BY <1>1, <1>2 DEF Knows, Alike, LinesOf
<1>6. Writes(r, {}, Idle) \/ Continues(r, Idle)
  BY <1>2
<1>7. Knows(Idle)'
  BY IdleFields, Free DEF ReceiptOps
<1> QED
  BY <1>3, <1>4, <1>5, <1>6, <1>7, IdleOK, WriteStep

---------------------------------------------------------------------------------

LEMMA StepInv == IInv /\ [Next]_vars => IInv'
<1> SUFFICES ASSUME IInv, [Next]_vars PROVE IInv'
  OBVIOUS
<1>1. ASSUME NEW r \in Requests,
             PutImage(r) \/ CreateReceipt(r) \/ AnswerUpload(r) \/ CleanUp(r)
      PROVE  IInv'
  BY <1>1, PutImageInv, CreateReceiptInv, AnswerInv
<1>2. ASSUME NEW r \in Requests,
             \/ BeginExtract(r) \/ ReadImage(r) \/ StoreFailure(r)
             \/ LockReceipt(r) \/ DeleteLines(r) \/ StoreReading(r) \/ Fail(r)
      PROVE  IInv'
  BY <1>2, BeginInv, ReadInv, StoreFailureInv, TransactionInv, StoreReadingInv
<1>3. ASSUME NEW r \in Requests,
             \/ BeginAdd(r) \/ AddItem(r) \/ BeginUpdateItem(r) \/ BeginDeleteItem(r)
             \/ CheckEditable(r) \/ UpdateItem(r) \/ DeleteItem(r)
      PROVE  IInv'
  BY <1>3, BeginInv, ReadInv, AddItemInv, UpdateItemInv
<1>4. ASSUME NEW r \in Requests,
             \/ BeginAssign(r) \/ CheckGrid(r) \/ ClearClaims(r) \/ InsertClaims(r)
             \/ BeginConvert(r) \/ ReadBill(r) \/ ConvertToExpense(r)
      PROVE  IInv'
  BY <1>4, BeginInv, ReadInv, ClaimsInv, ConvertInv
<1>5. ASSUME NEW r \in Requests,
             \/ BeginDelete(r) \/ DeleteReceipt(r) \/ DropImage(r)
             \/ BeginDeleteExpense(r) \/ DeleteExpense(r)
      PROVE  IInv'
  BY <1>5, BeginInv, DeleteReceiptInv, DropImageInv, DeleteExpenseInv
<1>6. CASE UNCHANGED vars
  <2>1. TablesOK' /\ LinkIsLive' /\ PhotographIsKept' /\ ExtractionsNeverMix'
    BY <1>6 DEF vars, IInv, TablesOK, LinkIsLive, PhotographIsKept, ExtractionsNeverMix,
                Live, LinesOf
  <2>2. \A q : Knows(q) => Knows(q)'
    BY <1>6 DEF vars, Knows, LinesOf
  <2>3. RequestsOK'
    BY <1>6, <2>2 DEF vars, IInv, RequestsOK
  <2> QED
    BY <2>1, <2>3 DEF IInv
<1> QED
  BY <1>1, <1>2, <1>3, <1>4, <1>5, <1>6 DEF Next

\* The invariant holds in every reachable state.
THEOREM ReceiptsInvariant == Spec => []IInv
BY InitInv, StepInv, PTL DEF Spec

\* A receipt is converted exactly as long as the expense it became is there
\* (ConvertToExpense and the deletion of the expense, each one transaction).
THEOREM LinksAreLive == Spec => []LinkIsLive
<1>1. IInv => LinkIsLive
  BY DEF IInv
<1> QED
  BY <1>1, ReceiptsInvariant, PTL

\* A receipt that can be seen and was not given up by its upload has its photograph (Upload
\* stores the image before the row and takes it back only when it answers with an error).
THEOREM PhotographsAreKept == Spec => []PhotographIsKept
<1>1. IInv => PhotographIsKept
  BY DEF IInv
<1> QED
  BY <1>1, ReceiptsInvariant, PTL

\* Every table and every request keeps its type, the copies that requests carry
\* included (the columns of the receipt, item and expense rows).
THEOREM ReceiptsTypeCorrect == Spec => []RTypeOK
<1>1. IInv => RTypeOK
  BY DEF IInv, TablesOK, RequestsOK, Carries, Shaped, RTypeOK
<1> QED
  BY <1>1, ReceiptsInvariant, PTL

\* Extractions that overlap never leave lines of two readings on one receipt (the
\* transaction of Extract updates the row before it deletes the lines).
THEOREM ReadingsNeverMix == Spec => []ExtractionsNeverMix
<1>1. IInv => ExtractionsNeverMix
  BY DEF IInv
<1> QED
  BY <1>1, ReceiptsInvariant, PTL

---------------------------------------------------------------------------------
(* A converted receipt is read-only for an undisturbed request: while a    *)
(* request is calm, the status it went by is the row's, and a line it has  *)
(* looked up never moves to another receipt.                               *)

Owned(i, c) == line[i].life # "absent" /\ (line[i].life = "live" => line[i].receipt = c)

Holds(q) ==
  /\ q.op \in {"update", "remove"} => Owned(q.item, q.receipt)
  /\ q.pc = "emptied" => \A i \in Items \cap q.doomed : Owned(i, q.receipt)

Trusts(q) ==
  q.calm =>
    /\ \/ q.op \in {"extract", "add"}
       \/ q.op \in {"update", "remove"} /\ q.pc = "read"
       => Editable(q.receipt)
    /\ q.op \in {"assign", "convert"} =>
         Live(q.receipt) /\ receipt[q.receipt].status = "extracted"

CalmOK == \A r \in Requests : Holds(req[r]) /\ Trusts(req[r])

\* No line comes back or moves to another receipt.
LinesStay ==
  \A i \in Items : line[i].life # "absent" =>
    /\ line'[i].life # "absent"
    /\ line'[i].life = "live" => line[i].life = "live" /\ line'[i].receipt = line[i].receipt

LEMMA CalmLeft ==
  ASSUME IInv, NEW r \in Requests, NEW q, NEW cs,
         Writes(r, cs, q) \/ (Continues(r, q) /\ cs = {}), NEW s \in Requests \ {r}
  PROVE  req'[s].calm => req[s].calm /\ req[s].receipt \notin cs
<1>1. req = [t \in Requests |-> req[t]] /\ Shaped(req[s])
  BY DEF IInv, RequestsOK, Carries
<1>2. CASE Writes(r, cs, q)
  <2>1. req'[s] = [req[s] EXCEPT !.calm = req[s].calm /\ req[s].receipt \notin cs]
    BY <1>2 DEF Writes
  <2>2. req'[s].calm = (req[s].calm /\ req[s].receipt \notin cs)
    BY <1>1, <2>1 DEF Shaped, Request
  <2> QED
    BY <1>1, <2>2 DEF Shaped, Request
<1>3. CASE Continues(r, q) /\ cs = {}
  BY <1>1, <1>3 DEF Continues
<1> QED
  BY <1>2, <1>3

LEMMA CalmStep ==
  ASSUME IInv, CalmOK, NEW r \in Requests, NEW q, NEW cs,
         Writes(r, cs, q) \/ (Continues(r, q) /\ cs = {}), LinesStay, Holds(q)', Trusts(q)',
         \A c \in Receipts : Live(c) /\ receipt'[c] # receipt[c] => c \in cs
  PROVE  CalmOK'
<1> SUFFICES ASSUME NEW s \in Requests PROVE Holds(req[s])' /\ Trusts(req[s])'
  BY DEF CalmOK
<1>1. CASE s = r
  BY <1>1, Served
<1>2. CASE s # r
  <2>1. /\ Carries(req[s]) /\ Carries(req'[s]) /\ Alike(req'[s], req[s])
        /\ Holds(req[s]) /\ Trusts(req[s])
    BY <1>2, Served, RequestFacts DEF CalmOK
  <2>3. \A c : \A i \in Items : Owned(i, c) => Owned(i, c)'
    BY DEF LinesStay, Owned
  <2>4. Holds(req[s])'
    BY <2>1, <2>3 DEF Holds, Alike, Carries
  <2>5. req'[s].calm => req[s].calm /\ req[s].receipt \notin cs
    BY <1>2, CalmLeft
  <2>6. \A c : Live(c) /\ c \notin cs => receipt'[c] = receipt[c]
    BY DEF Live
  <2>7. Trusts(req[s])'
    BY <2>1, <2>5, <2>6 DEF Trusts, Alike, Editable, Live
  <2> QED
    BY <2>4, <2>7
<1> QED
  BY <1>1, <1>2

LEMMA IdleTrusts == Holds(Idle)' /\ Trusts(Idle)' /\ Holds(Idle) /\ Trusts(Idle)
BY IdleFields DEF Holds, Trusts

\* What ConvertedIsReadOnly asks of a step of r.
ReadsOnly(r) ==
  req[r].calm =>
    \A c \in Receipts : receipt[c].status = "converted" /\ Live(c) =>
      /\ \A i \in LinesOf(c) : line'[i] = line[i]
      /\ LinesOf(c)' = LinesOf(c)
      /\ receipt'[c].status # "converted" => expense'[receipt[c].expense].life = "deleted"

\* A step of r leaves the lines of those that stay calm as they were.
Spares(r) ==
  \A s \in Requests \ {r}, c \in Receipts : req'[s].calm /\ req[s].receipt = c =>
    LinesOf(c)' = LinesOf(c) /\ \A i \in LinesOf(c) : line'[i] = line[i]

\* A step that touches no table of receipts or lines.
LEMMA QuietStep ==
  ASSUME IInv, CalmOK, NEW r \in Requests, NEW q, Continues(r, q), UNCHANGED <<receipt, line>>,
         Holds(q), Trusts(q)
  PROVE  CalmOK' /\ ReadsOnly(r) /\ Spares(r)
<1>1. LinesStay
  BY DEF LinesStay
<1>2. ReadsOnly(r) /\ Spares(r)
  BY DEF ReadsOnly, Spares, LinesOf
<1>3. Holds(q)' /\ Trusts(q)'
  BY DEF Holds, Trusts, Owned, Editable, Live
<1>4. Writes(r, {}, q) \/ (Continues(r, q) /\ {} = {})
  OBVIOUS
<1> QED
  BY <1>1, <1>2, <1>3, <1>4, CalmStep

LEMMA CalmQuiet ==
  ASSUME IInv, CalmOK, NEW r \in Requests,
         \/ PutImage(r) \/ AnswerUpload(r) \/ CleanUp(r) \/ DropImage(r) \/ Fail(r)
  PROVE  CalmOK' /\ ReadsOnly(r) /\ Spares(r)
<1>1. CASE PutImage(r)
  <2>1. PICK c : /\ Admit(r, [Idle EXCEPT !.pc = "stored", !.op = "upload", !.receipt = c])
                 /\ UNCHANGED <<receipt, line>>
    BY <1>1 DEF PutImage
  <2> DEFINE q == [Idle EXCEPT !.pc = "stored", !.op = "upload", !.receipt = c]
  <2>2. q.op = "upload" /\ q.pc = "stored"
    BY DEF Idle
  <2>3. Continues(r, q)
    BY <2>1 DEF Admit, Continues
  <2> HIDE DEF q
  <2>4. Holds(q) /\ Trusts(q)
    BY <2>2 DEF Holds, Trusts
  <2> QED
    BY <2>1, <2>3, <2>4, QuietStep
<1>2. CASE AnswerUpload(r) \/ CleanUp(r) \/ DropImage(r) \/ Fail(r)
  <2>1. Continues(r, Idle) /\ UNCHANGED <<receipt, line>>
    BY <1>2 DEF AnswerUpload, CleanUp, DropImage, Fail, Continues
  <2> QED
    BY <2>1, IdleTrusts, QuietStep
<1> QED
  BY <1>1, <1>2

LEMMA CalmBegin ==
  ASSUME IInv, CalmOK, NEW r \in Requests,
         \/ BeginExtract(r) \/ BeginAdd(r) \/ BeginUpdateItem(r) \/ BeginDeleteItem(r)
         \/ BeginAssign(r) \/ BeginConvert(r) \/ BeginDelete(r) \/ BeginDeleteExpense(r)
  PROVE  CalmOK' /\ ReadsOnly(r) /\ Spares(r)
<1>0. UNCHANGED <<receipt, line>>
  BY DEF BeginExtract, BeginAdd, BeginUpdateItem, BeginDeleteItem, BeginAssign, BeginConvert,
         BeginDelete, BeginDeleteExpense
<1>1. CASE BeginExtract(r) \/ BeginAdd(r) \/ BeginAssign(r) \/ BeginConvert(r) \/ BeginDelete(r)
  <2>1. PICK c \in Receipts, op \in {"extract", "add", "assign", "convert", "delete"} :
          /\ Admit(r, Begun(op, c))
          /\ op \in {"extract", "add"} => Editable(c)
          /\ op \in {"assign", "convert"} => Live(c) /\ receipt[c].status = "extracted"
    BY <1>1 DEF BeginExtract, BeginAdd, BeginAssign, BeginConvert, BeginDelete
  <2> DEFINE q == Begun(op, c)
  <2>2. q.pc = "begun" /\ q.op = op /\ q.receipt = c
    BY BegunFields DEF ReceiptOps
  <2>3. Continues(r, q)
    BY <2>1 DEF Admit, Continues
  <2> HIDE DEF q
  <2>4. Holds(q) /\ Trusts(q)
    BY <2>1, <2>2 DEF Holds, Trusts
  <2> QED
    BY <1>0, <2>3, <2>4, QuietStep
<1>2. CASE BeginUpdateItem(r) \/ BeginDeleteItem(r)
  <2>1. PICK c \in Receipts, i \in Items :
          /\ ItemBelongsToReceipt(i, c)
          /\ \/ Admit(r, GetItem(Begun("update", c), i))
             \/ Admit(r, [Begun("remove", c) EXCEPT !.item = i])
    BY <1>2 DEF BeginUpdateItem, BeginDeleteItem
  <2>2. PICK q : /\ Continues(r, q)
                 /\ \/ q = GetItem(Begun("update", c), i)
                    \/ q = [Begun("remove", c) EXCEPT !.item = i]
    BY <2>1 DEF Admit, Continues
  <2>3. q.pc = "begun" /\ q.op \in {"update", "remove"} /\ q.receipt = c /\ q.item = i
    BY <2>2 DEF GetItem, Begun, Idle
  <2>4. Owned(i, c)
    BY <2>1 DEF ItemBelongsToReceipt, LinesOf, Owned
  <2>5. Holds(q) /\ Trusts(q)
    BY <2>3, <2>4 DEF Holds, Trusts
  <2> QED
    BY <1>0, <2>2, <2>5, QuietStep
<1>3. CASE BeginDeleteExpense(r)
  <2>1. PICK x : Admit(r, [Idle EXCEPT !.pc = "begun", !.op = "expense", !.expense = x])
    BY <1>3 DEF BeginDeleteExpense
  <2> DEFINE q == [Idle EXCEPT !.pc = "begun", !.op = "expense", !.expense = x]
  <2>2. q.op = "expense" /\ q.pc = "begun"
    BY DEF Idle
  <2>3. Continues(r, q)
    BY <2>1 DEF Admit, Continues
  <2> HIDE DEF q
  <2>4. Holds(q) /\ Trusts(q)
    BY <2>2 DEF Holds, Trusts
  <2> QED
    BY <1>0, <2>3, <2>4, QuietStep
<1> QED
  BY <1>1, <1>2, <1>3

\* A request that reads on trusts what it trusted.
LEMMA CalmOn ==
  ASSUME IInv, CalmOK, NEW r \in Requests, NEW q, Continues(r, q), UNCHANGED <<receipt, line>>,
         q.op = req[r].op, q.receipt = req[r].receipt, q.item = req[r].item,
         q.calm = req[r].calm, q.op \in {"update", "remove"} => Editable(q.receipt),
         q.pc = "emptied" => q.doomed = LinesOf(q.receipt)
  PROVE  CalmOK' /\ ReadsOnly(r) /\ Spares(r)
<1>1. Holds(req[r]) /\ Trusts(req[r])
  BY DEF CalmOK
<1>2. Holds(q)
  BY <1>1 DEF Holds, Owned, LinesOf
<1>3. Trusts(q)
  BY <1>1 DEF Trusts
<1> QED
  BY <1>2, <1>3, QuietStep

LEMMA CalmRead ==
  ASSUME IInv, CalmOK, NEW r \in Requests,
         \/ ReadImage(r) \/ CheckEditable(r) \/ CheckGrid(r) \/ ReadBill(r)
         \/ LockReceipt(r) \/ DeleteLines(r)
  PROVE  CalmOK' /\ ReadsOnly(r) /\ Spares(r)
<1>0. UNCHANGED <<receipt, line>>
  BY DEF ReadImage, CheckEditable, CheckGrid, ReadBill, LockReceipt, DeleteLines
<1>1. CASE ReadImage(r) \/ CheckEditable(r) \/ LockReceipt(r)
  <2>1. PICK pc \in {"read", "locked"} :
          /\ Continues(r, [req[r] EXCEPT !.pc = pc])
          /\ req[r].op \in {"update", "remove"} => Editable(req[r].receipt)
    BY <1>1 DEF ReadImage, CheckEditable, LockReceipt, At
  <2> DEFINE q == [req[r] EXCEPT !.pc = pc]
  <2>2. /\ q.pc = pc /\ q.op = req[r].op /\ q.receipt = req[r].receipt
        /\ q.item = req[r].item /\ q.calm = req[r].calm
    BY RequestFacts DEF Shaped, Request
  <2>3. Continues(r, q)
    BY <2>1
  <2> HIDE DEF q
  <2> QED
    BY <1>0, <2>1, <2>2, <2>3, CalmOn
<1>2. CASE CheckGrid(r)
  <2>1. PICK grid : Continues(r, [req[r] EXCEPT !.pc = "read", !.grid = grid])
    BY <1>2 DEF CheckGrid
  <2> DEFINE q == [req[r] EXCEPT !.pc = "read", !.grid = grid]
  <2>2. /\ q.pc = "read" /\ q.op = req[r].op /\ q.receipt = req[r].receipt
        /\ q.item = req[r].item /\ q.calm = req[r].calm
    BY RequestFacts DEF Shaped, Request
  <2>3. Continues(r, q) /\ req[r].op = "assign"
    BY <1>2, <2>1 DEF CheckGrid, At
  <2> HIDE DEF q
  <2> QED
    BY <1>0, <2>2, <2>3, CalmOn
<1>3. CASE ReadBill(r)
  <2> DEFINE lines == LinesOf(req[r].receipt)
             q == Bill(req[r], lines)
  <2>1. Continues(r, q) /\ req[r].op = "convert"
    BY <1>3 DEF ReadBill, At
  <2>2. /\ q.pc = "read" /\ q.op = req[r].op /\ q.receipt = req[r].receipt
        /\ q.item = req[r].item /\ q.calm = req[r].calm
    BY RequestFacts, LinesType, BillFields
  <2> HIDE DEF q, lines
  <2>3. q.op \notin {"update", "remove"} /\ q.pc # "emptied"
    BY <2>1, <2>2
  <2> QED
    BY <1>0, <2>1, <2>2, <2>3, CalmOn
<1>4. CASE DeleteLines(r)
  <2> DEFINE lines == LinesOf(req[r].receipt)
             q == [req[r] EXCEPT !.pc = "emptied", !.doomed = lines]
  <2>1. Continues(r, q) /\ req[r].op = "extract"
    BY <1>4 DEF DeleteLines, At
  <2> HIDE DEF lines
  <2>2. /\ q.pc = "emptied" /\ q.op = req[r].op /\ q.receipt = req[r].receipt
        /\ q.item = req[r].item /\ q.calm = req[r].calm /\ q.doomed = lines
    BY RequestFacts DEF Shaped, Request
  <2> HIDE DEF q
  <2>3. q.doomed = LinesOf(q.receipt)
    BY <2>2 DEF lines
  <2> QED
    BY <1>0, <2>1, <2>2, <2>3, CalmOn
<1> QED
  BY <1>1, <1>2, <1>3, <1>4

\* A step that writes lines of the receipt it works on, when it may be trusted that
\* this receipt is not converted.
LEMMA CalmLines ==
  ASSUME IInv, CalmOK, NEW r \in Requests, NEW q, NEW cs, Writes(r, cs, q),
         UNCHANGED receipt, Holds(q)', Trusts(q)', NEW b \in Receipts, b \in cs,
         req[r].calm /\ Live(b) => receipt[b].status # "converted",
         line' \in [Items -> Line],
         \A i \in Items :
           \/ line'[i] = line[i]
           \/ line[i].life = "absent" /\ line'[i].receipt = b
           \/ /\ line[i].life = "live" /\ line[i].receipt = b
              /\ \/ line'[i].life = "gone"
                 \/ line'[i].life = "live" /\ line'[i].receipt = b
  PROVE  CalmOK' /\ ReadsOnly(r) /\ Spares(r)
<1>1. LinesStay
  BY DEF LinesStay
<1>2. ASSUME NEW c, c # b
      PROVE  (\A i \in LinesOf(c) : line'[i] = line[i]) /\ LinesOf(c)' = LinesOf(c)
  <2>1. \A i \in LinesOf(c) : i \in Items /\ line'[i] = line[i]
    BY <1>2 DEF LinesOf
  <2>2. LinesOf(c) \subseteq LinesOf(c)'
    BY <2>1 DEF LinesOf
  <2>3. \A i \in LinesOf(c)' : i \in LinesOf(c)
    <3> SUFFICES ASSUME NEW i \in Items, line'[i].life = "live", line'[i].receipt = c
                 PROVE  line[i].life = "live" /\ line[i].receipt = c
      BY DEF LinesOf
    <3> QED
      BY <1>2
  <2> QED
    BY <2>1, <2>2, <2>3
<1>3. ReadsOnly(r)
  BY <1>2 DEF ReadsOnly
<1>4. Spares(r)
  <2>1. \A s \in Requests \ {r} : req'[s].calm => req[s].receipt # b
    BY CalmLeft
  <2> QED
    BY <1>2, <2>1 DEF Spares
<1> QED
  BY <1>1, <1>3, <1>4, CalmStep

LEMMA CalmItem ==
  ASSUME IInv, CalmOK, NEW r \in Requests, AddItem(r) \/ UpdateItem(r) \/ DeleteItem(r)
  PROVE  CalmOK' /\ ReadsOnly(r) /\ Spares(r)
<1> DEFINE c == req[r].receipt
<1>1. /\ c \in Receipts
      /\ req[r].op = "add" \/ (req[r].op \in {"update", "remove"} /\ req[r].pc = "read")
      /\ Holds(req[r]) /\ Trusts(req[r])
  BY RequestFacts DEF AddItem, UpdateItem, DeleteItem, At, Carries, ReceiptOps, CalmOK
<1>2. Writes(r, {c}, Idle) /\ UNCHANGED receipt
  BY DEF AddItem, UpdateItem, DeleteItem
<1>3. req[r].calm => receipt[c].status # "converted"
  BY <1>1 DEF Trusts, Editable
<1>4. line \in [Items -> Line]
  BY DEF IInv, TablesOK
<1>5. CASE AddItem(r)
  <2>1. PICK i \in Items, price \in Prices :
          line[i].life = "absent" /\ line' = [line EXCEPT ![i] = CreatedItem(c, price)]
    BY <1>5 DEF AddItem
  <2> HIDE DEF c
  <2>2. CreatedItem(c, price) \in Line /\ CreatedItem(c, price).receipt = c
    BY <1>1, ReceiptsAssumption DEF CreatedItem, NoLine, Line
  <2>3. line' \in [Items -> Line]
        /\ \A j \in Items : line'[j] = IF j = i THEN CreatedItem(c, price) ELSE line[j]
    BY <1>4, <2>1, <2>2
  <2> QED
    BY <1>1, <1>2, <1>3, <2>1, <2>2, <2>3, IdleTrusts, CalmLines
<1>6. CASE UpdateItem(r) \/ DeleteItem(r)
  <2> DEFINE i == req[r].item
  <2>1. i \in Items /\ req[r].price \in Nat /\ line[i].life = "live"
        /\ req[r].op \in {"update", "remove"}
    BY <1>6, RequestFacts DEF UpdateItem, DeleteItem, At, Carries, Shaped, Request, Writable
  <2>2. line[i].receipt = c
    BY <1>1, <2>1 DEF Holds, Owned
  <2>3. PICK new \in Line :
          /\ line' = [line EXCEPT ![i] = new]
          /\ new.life = "gone" \/ (new.life = "live" /\ new.receipt = line[i].receipt)
    <3>1. CASE UpdateItem(r)
      <4>1. PICK price \in Prices \cup {req[r].price} :
              line' = [line EXCEPT ![i].price = price]
        BY <3>1 DEF UpdateItem
      <4>2. price \in Nat
        BY <2>1, ReceiptsAssumption
      <4> DEFINE new == [line[i] EXCEPT !.price = price]
      <4>3. new \in Line /\ new.receipt = line[i].receipt /\ new.life = "live"
        BY <1>4, <2>1, <4>2 DEF Line
      <4>4. line' = [line EXCEPT ![i] = new]
        BY <4>1
      <4> QED
        BY <4>3, <4>4
    <3>2. CASE DeleteItem(r)
      <4> DEFINE new == [NoLine EXCEPT !.life = "gone"]
      <4>1. new \in Line /\ new.life = "gone"
        BY DEF NoLine, Line
      <4>2. line' = [line EXCEPT ![i] = new]
        BY <3>2 DEF DeleteItem
      <4> QED
        BY <4>1, <4>2
    <3> QED
      BY <1>6, <3>1, <3>2
  <2> HIDE DEF i, c
  <2>4. line' \in [Items -> Line] /\ \A j \in Items : line'[j] = IF j = i THEN new ELSE line[j]
    BY <1>4, <2>1, <2>3
  <2> QED
    BY <1>1, <1>2, <1>3, <2>1, <2>2, <2>3, <2>4, IdleTrusts, CalmLines
<1> QED
  BY <1>5, <1>6

LEMMA CalmClaims ==
  ASSUME IInv, CalmOK, NEW r \in Requests, ClearClaims(r) \/ InsertClaims(r)
  PROVE  CalmOK' /\ ReadsOnly(r) /\ Spares(r)
<1> DEFINE c == req[r].receipt
<1>1. /\ c \in Receipts /\ req[r].op = "assign" /\ Trusts(req[r])
  BY RequestFacts DEF ClearClaims, InsertClaims, At, Carries, ReceiptOps, CalmOK
<1>2. UNCHANGED receipt /\ line \in [Items -> Line]
  BY DEF ClearClaims, InsertClaims, IInv, TablesOK
<1>3. req[r].calm => receipt[c].status # "converted"
  BY <1>1 DEF Trusts
<1>4. PICK q : /\ Writes(r, {c}, q)
               /\ \/ q = Idle
                  \/ q = [req[r] EXCEPT !.pc = "cleared"] /\ ClearClaims(r)
  <2>1. CASE ClearClaims(r)
    <3> DEFINE q == IF req[r].grid = NoClaims THEN Idle ELSE [req[r] EXCEPT !.pc = "cleared"]
    <3>1. Writes(r, {c}, q)
      BY <2>1 DEF ClearClaims
    <3>2. q = Idle \/ q = [req[r] EXCEPT !.pc = "cleared"]
      OBVIOUS
    <3> HIDE DEF q
    <3> QED
      BY <2>1, <3>1, <3>2
  <2>2. CASE InsertClaims(r)
    <3>1. Writes(r, {c}, Idle)
      BY <2>2 DEF InsertClaims
    <3> QED
      BY <3>1
  <2> QED
    BY <2>1, <2>2
<1>5. Holds(q)' /\ Trusts(q)'
  <2>1. CASE q = Idle
    BY <2>1, IdleTrusts
  <2>2. CASE q = [req[r] EXCEPT !.pc = "cleared"]
    <3>1. /\ q.pc = "cleared" /\ q.op = "assign" /\ q.receipt = c
          /\ q.calm = req[r].calm
      BY <1>1, <2>2, RequestFacts DEF Shaped, Request
    <3>2. Holds(q)'
      BY <3>1 DEF Holds
    <3>3. Trusts(q)'
      BY <1>1, <1>2, <3>1 DEF Trusts, Live
    <3> QED
      BY <3>2, <3>3
  <2> QED
    BY <1>4, <2>1, <2>2
<1>6. PICK claim \in [Items -> SUBSET Diners] :
        /\ line' = [i \in Items |-> [line[i] EXCEPT !.claims = claim[i]]]
        /\ \A i \in Items : i \notin LinesOf(c) => claim[i] = line[i].claims
  <2>0. \A i \in Items : line[i].claims \subseteq Diners /\ req[r].grid[i] \subseteq Diners
    BY <1>2, RequestFacts DEF Line, Shaped, Request
  <2>1. CASE ClearClaims(r)
    <3> DEFINE claim == [i \in Items |-> IF i \in LinesOf(c) THEN {} ELSE line[i].claims]
    <3>1. \A i \in Items : line[i] = [line[i] EXCEPT !.claims = line[i].claims]
      BY <1>2 DEF Line
    <3>2. line' = [i \in Items |-> [line[i] EXCEPT !.claims = claim[i]]]
      BY <2>1, <3>1 DEF ClearClaims
    <3>3. claim \in [Items -> SUBSET Diners]
      BY <2>0
    <3> QED
      BY <3>2, <3>3
  <2>2. CASE InsertClaims(r)
    <3> DEFINE claim == [i \in Items |-> line[i].claims \cup req[r].grid[i]]
    <3>1. line' = [i \in Items |-> [line[i] EXCEPT !.claims = claim[i]]]
      BY <2>2 DEF InsertClaims
    <3>2. claim \in [Items -> SUBSET Diners]
      BY <2>0
    <3>3. \A i \in Items : i \notin LinesOf(c) => claim[i] = line[i].claims
      BY <2>2 DEF InsertClaims
    <3> QED
      BY <3>1, <3>2, <3>3
  <2> QED
    BY <2>1, <2>2
<1> HIDE DEF c
<1>7. \A i \in Items :
        /\ line'[i] \in Line /\ line'[i].life = line[i].life /\ line'[i].receipt = line[i].receipt
        /\ i \notin LinesOf(c) => line'[i] = line[i]
  <2> TAKE i \in Items
  <2>1. line'[i] = [line[i] EXCEPT !.claims = claim[i]] /\ line[i] \in Line
        /\ claim[i] \subseteq Diners
    BY <1>2, <1>6
  <2>2. /\ line'[i] \in Line /\ line'[i].life = line[i].life
        /\ line'[i].receipt = line[i].receipt
    BY <2>1 DEF Line
  <2>3. i \notin LinesOf(c) => line'[i] = line[i]
    BY <1>6, <2>1 DEF Line
  <2> QED
    BY <2>2, <2>3
<1>8. line' \in [Items -> Line]
  BY <1>6, <1>7
<1>9. \A i \in LinesOf(c) : line[i].life = "live" /\ line[i].receipt = c
  BY DEF LinesOf
<1> QED
  BY <1>1, <1>2, <1>3, <1>4, <1>5, <1>7, <1>8, <1>9, CalmLines

LEMMA CalmReading ==
  ASSUME IInv, CalmOK, NEW r \in Requests, StoreReading(r)
  PROVE  CalmOK' /\ ReadsOnly(r) /\ Spares(r)
<1> DEFINE c == req[r].receipt
           doomed == req[r].doomed
<1>1. /\ c \in Receipts /\ req[r].op = "extract" /\ req[r].pc = "emptied"
      /\ Holds(req[r]) /\ Trusts(req[r]) /\ req[r].expense = NoExpense
  BY RequestFacts DEF StoreReading, At, Carries, ReceiptOps, CalmOK
<1>2. PICK fresh, new :
        /\ fresh \subseteq {i \in Items : line[i].life = "absent"}
        /\ line' = [i \in Items |-> IF i \in fresh THEN new[i]
                                    ELSE IF i \in doomed THEN [NoLine EXCEPT !.life = "gone"]
                                    ELSE line[i]]
        /\ \A i \in fresh : new[i].receipt = c
  <2>1. PICK fresh \in SUBSET {i \in Items : line[i].life = "absent"} :
          \E price \in [fresh -> Prices] :
            line' = [i \in Items |->
               IF i \in fresh
                 THEN [NoLine EXCEPT !.life = "live", !.receipt = c,
                                     !.reading = readings + 1, !.price = price[i]]
               ELSE IF i \in doomed THEN [NoLine EXCEPT !.life = "gone"]
               ELSE line[i]]
    BY DEF StoreReading
  <2>2. PICK price \in [fresh -> Prices] :
          line' = [i \in Items |->
             IF i \in fresh
               THEN [NoLine EXCEPT !.life = "live", !.receipt = c,
                                   !.reading = readings + 1, !.price = price[i]]
             ELSE IF i \in doomed THEN [NoLine EXCEPT !.life = "gone"]
             ELSE line[i]]
    BY <2>1
  <2> DEFINE new == [i \in fresh |-> ReadLine(c, readings + 1, price[i])]
  <2>3. \A i \in fresh : new[i].receipt = c
    BY DEF ReadLine, NoLine
  <2>4. line' = [i \in Items |-> IF i \in fresh THEN new[i]
                                 ELSE IF i \in doomed THEN [NoLine EXCEPT !.life = "gone"]
                                 ELSE line[i]]
    BY <2>2 DEF ReadLine
  <2> HIDE DEF new
  <2> QED
    BY <2>3, <2>4
<1>3. /\ receipt' = [receipt EXCEPT ![c].status = "extracted", ![c].expense = NoExpense]
      /\ Writes(r, {c}, Idle)
  BY <1>1 DEF StoreReading
<1>4. req[r].calm => receipt[c].status # "converted"
  BY <1>1 DEF Trusts, Editable
<1>5. \A i \in Items \cap doomed : Owned(i, c)
  BY <1>1 DEF Holds
<1>6. [NoLine EXCEPT !.life = "gone"].life = "gone"
  BY DEF NoLine
<1> HIDE DEF c, doomed
<1>7. \A i \in Items :
        \/ line'[i] = line[i]
        \/ line[i].life = "absent" /\ line'[i].receipt = c
        \/ line[i].life # "absent" /\ Owned(i, c) /\ line'[i].life = "gone"
  BY <1>2, <1>5, <1>6 DEF Owned
<1>8. LinesStay
  BY <1>7 DEF LinesStay
<1>9. \A d \in Receipts : d # c => receipt'[d] = receipt[d]
  BY <1>3, ExpenseShape
<1>10. ASSUME NEW d, d # c
       PROVE  (\A i \in LinesOf(d) : line'[i] = line[i]) /\ LinesOf(d)' = LinesOf(d)
  <2>1. \A i \in LinesOf(d) : i \in Items /\ line'[i] = line[i]
    BY <1>7, <1>10 DEF LinesOf, Owned
  <2>2. LinesOf(d) \subseteq LinesOf(d)'
    BY <2>1 DEF LinesOf
  <2>3. \A i \in LinesOf(d)' : i \in LinesOf(d)
    BY <1>7, <1>10 DEF LinesOf
  <2> QED
    BY <2>1, <2>2, <2>3
<1>11. ReadsOnly(r)
  BY <1>4, <1>9, <1>10 DEF ReadsOnly
<1>12. Spares(r)
  <2>1. \A s \in Requests \ {r} : req'[s].calm => req[s].receipt # c
    BY <1>3, CalmLeft
  <2> QED
    BY <1>10, <2>1 DEF Spares
<1> QED
  BY <1>3, <1>8, <1>9, <1>11, <1>12, IdleTrusts, CalmStep DEF Live

\* A step that writes receipts and no line.
LEMMA CalmRows ==
  ASSUME IInv, CalmOK, NEW r \in Requests, NEW q, NEW cs,
         Writes(r, cs, q) \/ (Continues(r, q) /\ cs = {}),
         UNCHANGED line, Holds(q)', Trusts(q)',
         \A c \in Receipts : Live(c) /\ receipt'[c] # receipt[c] => c \in cs,
         \A c \in Receipts :
           req[r].calm /\ Live(c) /\ receipt[c].status = "converted" =>
             \/ receipt'[c].status = "converted"
             \/ expense'[receipt[c].expense].life = "deleted"
  PROVE  CalmOK' /\ ReadsOnly(r) /\ Spares(r)
<1>1. LinesStay
  BY DEF LinesStay
<1>2. ReadsOnly(r) /\ Spares(r)
  BY DEF ReadsOnly, Spares, LinesOf
<1> QED
  BY <1>1, <1>2, CalmStep

LEMMA CalmCreate ==
  ASSUME IInv, CalmOK, NEW r \in Requests, CreateReceipt(r)
  PROVE  CalmOK' /\ ReadsOnly(r) /\ Spares(r)
<1>q. PICK q : q = [req[r] EXCEPT !.pc = "created"]
  OBVIOUS
<1>1. q.pc = "created" /\ q.op = "upload"
  BY <1>q, RequestFacts DEF CreateReceipt, At, Shaped, Request
<1>2. Continues(r, q) /\ UNCHANGED line
      /\ receipt' = [receipt EXCEPT ![req[r].receipt].life = "live"]
  BY <1>q DEF CreateReceipt
<1>3. req[r].receipt \in Receipts /\ receipt[req[r].receipt].life = "absent"
  BY RequestFacts DEF CreateReceipt, At, Carries, Knows
<1>4. \A c \in Receipts : Live(c) => receipt'[c] = receipt[c]
  BY <1>2, <1>3, ExpenseShape DEF Live
<1>5. Holds(q)' /\ Trusts(q)'
  BY <1>1 DEF Holds, Trusts
<1>6. Writes(r, {}, q) \/ (Continues(r, q) /\ {} = {})
  BY <1>2
<1> QED
  BY <1>2, <1>4, <1>5, <1>6, CalmRows

LEMMA CalmFailure ==
  ASSUME IInv, CalmOK, NEW r \in Requests, StoreFailure(r)
  PROVE  CalmOK' /\ ReadsOnly(r) /\ Spares(r)
<1> DEFINE c == req[r].receipt
<1>1. req[r].op = "extract" /\ Trusts(req[r])
  BY DEF StoreFailure, At, CalmOK
<1>2. Writes(r, {c}, Idle) /\ UNCHANGED line
      /\ receipt' = [receipt EXCEPT ![c].status = "failed", ![c].expense = req[r].expense]
  BY DEF StoreFailure
<1>3. req[r].calm => receipt[c].status # "converted"
  BY <1>1 DEF Trusts, Editable
<1> HIDE DEF c
<1>4. \A d \in Receipts : d # c => receipt'[d] = receipt[d]
  BY <1>2, ExpenseShape
<1> QED
  BY <1>2, <1>3, <1>4, IdleTrusts, CalmRows

LEMMA CalmConvert ==
  ASSUME IInv, CalmOK, NEW r \in Requests, ConvertToExpense(r)
  PROVE  CalmOK' /\ ReadsOnly(r) /\ Spares(r)
<1> DEFINE c == req[r].receipt
<1>1. c \in Receipts /\ Writes(r, {c}, Idle) /\ UNCHANGED line
  BY DEF ConvertToExpense, Live
<1>2. PICK x : receipt' = [receipt EXCEPT ![c].status = "converted", ![c].expense = x]
  BY DEF ConvertToExpense
<1> HIDE DEF c
<1>3. /\ \A d \in Receipts : d # c => receipt'[d] = receipt[d]
      /\ receipt'[c].status = "converted"
  BY <1>1, <1>2, ExpenseShape DEF ReceiptRow
<1> QED
  BY <1>1, <1>3, IdleTrusts, CalmRows

LEMMA CalmDelete ==
  ASSUME IInv, CalmOK, NEW r \in Requests, DeleteReceipt(r)
  PROVE  CalmOK' /\ ReadsOnly(r) /\ Spares(r)
<1> DEFINE c == req[r].receipt
<1>q. PICK q : q = [req[r] EXCEPT !.pc = "hidden"]
  OBVIOUS
<1>1. q.pc = "hidden" /\ q.op = "delete" /\ c \in Receipts
  BY <1>q, RequestFacts DEF DeleteReceipt, At, Shaped, Request, Live
<1>2. Writes(r, {c}, q) /\ UNCHANGED line
      /\ receipt' = [receipt EXCEPT ![c].life = "deleted"]
  BY <1>q DEF DeleteReceipt
<1> HIDE DEF c
<1>3. /\ \A d \in Receipts : d # c => receipt'[d] = receipt[d]
      /\ receipt'[c].status = receipt[c].status
  BY <1>1, <1>2, ExpenseShape DEF ReceiptRow
<1>4. Holds(q)' /\ Trusts(q)'
  BY <1>1 DEF Holds, Trusts
<1> QED
  BY <1>2, <1>3, <1>4, CalmRows

LEMMA CalmDeleteExpense ==
  ASSUME IInv, CalmOK, NEW r \in Requests, DeleteExpense(r)
  PROVE  CalmOK' /\ ReadsOnly(r) /\ Spares(r)
<1> DEFINE x == req[r].expense
           linked == {c \in Receipts : Live(c) /\ receipt[c].expense = x}
<1>1. x \in Expenses
  BY RequestFacts DEF DeleteExpense, At, Carries
<1>2. /\ receipt' = ClearExpenseLink(x) /\ expense' = [expense EXCEPT ![x].life = "deleted"]
      /\ Writes(r, linked, Idle) /\ UNCHANGED line
  BY DEF DeleteExpense
<1>3. \A c \in Receipts : c \notin linked => receipt'[c] = receipt[c]
  BY <1>2, ExpenseShape DEF ClearExpenseLink
<1>4. \A c \in linked : receipt[c].expense = x
  OBVIOUS
<1> HIDE DEF x, linked
<1>5. expense'[x].life = "deleted"
  BY <1>1, <1>2, ExpenseShape
<1> QED
  BY <1>2, <1>3, <1>4, <1>5, IdleTrusts, CalmRows

LEMMA CalmAction ==
  ASSUME IInv, CalmOK, NEW r \in Requests,
         \/ PutImage(r) \/ CreateReceipt(r) \/ AnswerUpload(r) \/ CleanUp(r)
         \/ BeginExtract(r) \/ ReadImage(r) \/ StoreFailure(r)
         \/ LockReceipt(r) \/ DeleteLines(r) \/ StoreReading(r)
         \/ BeginAdd(r) \/ AddItem(r)
         \/ BeginUpdateItem(r) \/ BeginDeleteItem(r) \/ CheckEditable(r)
         \/ UpdateItem(r) \/ DeleteItem(r)
         \/ BeginAssign(r) \/ CheckGrid(r) \/ ClearClaims(r) \/ InsertClaims(r)
         \/ BeginConvert(r) \/ ReadBill(r) \/ ConvertToExpense(r)
         \/ BeginDelete(r) \/ DeleteReceipt(r) \/ DropImage(r)
         \/ BeginDeleteExpense(r) \/ DeleteExpense(r)
         \/ Fail(r)
  PROVE  CalmOK' /\ ReadsOnly(r) /\ Spares(r)
BY CalmQuiet, CalmCreate, CalmBegin, CalmRead, CalmFailure, CalmReading, CalmItem, CalmClaims,
   CalmConvert, CalmDelete, CalmDeleteExpense

LEMMA PcKept ==
  ASSUME IInv, NEW r \in Requests, NEW q, NEW cs, Writes(r, cs, q) \/ Continues(r, q)
  PROVE  \A s \in Requests \ {r} : ~Moves(s)
BY Served DEF Moves, Alike

LEMMA AdmitMoves ==
  ASSUME IInv, NEW r \in Requests, NEW q, Admit(r, q)
  PROVE  \A s \in Requests \ {r} : ~Moves(s)
<1>1. Writes(r, {}, q) \/ Continues(r, q)
  BY DEF Admit, Continues
<1> QED
  BY <1>1, PcKept

\* A step moves one request.
LEMMA OneMoves ==
  ASSUME IInv, NEW r \in Requests,
         \/ PutImage(r) \/ CreateReceipt(r) \/ AnswerUpload(r) \/ CleanUp(r)
         \/ BeginExtract(r) \/ ReadImage(r) \/ StoreFailure(r)
         \/ LockReceipt(r) \/ DeleteLines(r) \/ StoreReading(r)
         \/ BeginAdd(r) \/ AddItem(r)
         \/ BeginUpdateItem(r) \/ BeginDeleteItem(r) \/ CheckEditable(r)
         \/ UpdateItem(r) \/ DeleteItem(r)
         \/ BeginAssign(r) \/ CheckGrid(r) \/ ClearClaims(r) \/ InsertClaims(r)
         \/ BeginConvert(r) \/ ReadBill(r) \/ ConvertToExpense(r)
         \/ BeginDelete(r) \/ DeleteReceipt(r) \/ DropImage(r)
         \/ BeginDeleteExpense(r) \/ DeleteExpense(r)
         \/ Fail(r)
  PROVE  \A s \in Requests \ {r} : ~Moves(s)
<1>1. CASE \/ PutImage(r) \/ BeginExtract(r) \/ BeginAdd(r) \/ BeginUpdateItem(r)
           \/ BeginDeleteItem(r) \/ BeginAssign(r) \/ BeginConvert(r) \/ BeginDelete(r)
           \/ BeginDeleteExpense(r)
  BY <1>1, AdmitMoves DEF PutImage, BeginExtract, BeginAdd, BeginUpdateItem, BeginDeleteItem,
     BeginAssign, BeginConvert, BeginDelete, BeginDeleteExpense
<1>2. CASE \/ StoreFailure(r) \/ StoreReading(r) \/ AddItem(r) \/ UpdateItem(r)
           \/ DeleteItem(r) \/ ClearClaims(r) \/ InsertClaims(r) \/ ConvertToExpense(r)
           \/ DeleteReceipt(r) \/ DeleteExpense(r)
  BY <1>2, PcKept DEF StoreFailure, StoreReading, AddItem, UpdateItem, DeleteItem, ClearClaims,
     InsertClaims, ConvertToExpense, DeleteReceipt, DeleteExpense
<1>3. CASE \/ CreateReceipt(r) \/ AnswerUpload(r) \/ CleanUp(r) \/ ReadImage(r)
           \/ LockReceipt(r) \/ DeleteLines(r) \/ CheckEditable(r) \/ CheckGrid(r)
           \/ ReadBill(r) \/ DropImage(r) \/ Fail(r)
  <2>1. \A q : Continues(r, q) => Writes(r, {}, q) \/ Continues(r, q)
    OBVIOUS
  <2>2. \A q : Continues(r, q) => \A s \in Requests \ {r} : ~Moves(s)
    BY <2>1, PcKept
  <2> QED
    BY <1>3, <2>2 DEF CreateReceipt, AnswerUpload, CleanUp, ReadImage, LockReceipt,
       DeleteLines, CheckEditable, CheckGrid, ReadBill, DropImage, Fail, Continues
<1> QED
  BY <1>1, <1>2, <1>3

LEMMA CalmInit == Init => CalmOK
BY IdleTrusts DEF Init, CalmOK

LEMMA CalmNext ==
  ASSUME IInv, CalmOK, [Next]_vars
  PROVE  /\ CalmOK'
         /\ \A r \in Requests : Moves(r) => ReadsOnly(r)
<1>1. CASE UNCHANGED vars
  <2>1. \A r \in Requests : ~Moves(r)
    BY <1>1 DEF vars, Moves
  <2>2. \A q : (Holds(q) => Holds(q)') /\ (Trusts(q) => Trusts(q)')
    BY <1>1 DEF vars, Holds, Trusts, Owned, Editable, Live
  <2>3. CalmOK'
    BY <1>1, <2>2 DEF vars, CalmOK
  <2> QED
    BY <2>1, <2>3
<1>2. CASE Next
  BY <1>2, CalmAction, OneMoves DEF Next
<1> QED
  BY <1>1, <1>2

\* A converted receipt is read-only for every request no other write has disturbed
\* since it began (rule R-5, EnsureEditable and the checks of the handlers).
THEOREM ConvertedStaysReadOnly == Spec => ConvertedIsReadOnly
<1>1. IInv /\ CalmOK /\ [Next]_vars => IInv' /\ CalmOK'
  BY StepInv, CalmNext
<1>2. IInv /\ CalmOK /\ [Next]_vars =>
        [\A r \in Requests, c \in Receipts :
           Moves(r) /\ req[r].calm /\ receipt[c].status = "converted" /\ Live(c) =>
             /\ \A i \in LinesOf(c) : line'[i] = line[i]
             /\ LinesOf(c)' = LinesOf(c)
             /\ receipt'[c].status # "converted" =>
                  expense'[receipt[c].expense].life = "deleted"]_vars
  BY CalmNext DEF ReadsOnly
<1> QED
  BY InitInv, CalmInit, <1>1, <1>2, PTL DEF Spec, ConvertedIsReadOnly

---------------------------------------------------------------------------------
(* What an undisturbed conversion bills is what the lines cost when the    *)
(* expense is written: nobody has touched them since they were added up.   *)

\* The lines of c, as they are, are what q has added up.
Fresh(q, c) ==
  /\ q.total = Sum(Costs(LinesOf(c)), LinesOf(c))
  /\ \A i \in LinesOf(c) : Claims(i) # {} /\ Claims(i) \subseteq q.diners

FreshOK ==
  \A r \in Requests, c \in Receipts :
    req[r].calm /\ At(r, "convert", "read") /\ req[r].receipt = c => Fresh(req[r], c)

\* Lines that stay as they were still add up to the same.
LEMMA FreshStays ==
  ASSUME NEW q, NEW p, NEW c, Fresh(q, c), p.total = q.total, p.diners = q.diners,
         LinesOf(c)' = LinesOf(c), \A i \in LinesOf(c) : line'[i] = line[i]
  PROVE  Fresh(p, c)'
<1>1. Costs(LinesOf(c))' = Costs(LinesOf(c))
  BY DEF Costs
<1>2. p.total = Sum(Costs(LinesOf(c)), LinesOf(c))'
  BY <1>1 DEF Fresh, Sum
<1>3. (\A i \in LinesOf(c) : Claims(i) # {} /\ Claims(i) \subseteq p.diners)'
  BY DEF Fresh, Claims
<1> QED
  BY <1>2, <1>3 DEF Fresh

LEMMA OthersStayFresh ==
  ASSUME IInv, FreshOK, NEW r \in Requests, NEW q, NEW cs,
         Writes(r, cs, q) \/ (Continues(r, q) /\ cs = {}), Spares(r),
         NEW s \in Requests \ {r}, NEW c \in Receipts, req'[s].calm, At(s, "convert", "read")',
         req'[s].receipt = c
  PROVE  \A p : p = req'[s] => Fresh(p, c)'
<1> SUFFICES ASSUME NEW p, p = req'[s] PROVE Fresh(p, c)'
  OBVIOUS
<1>1. Alike(p, req[s]) /\ req[s].calm
  BY Served, CalmLeft
<1>2. At(s, "convert", "read") /\ req[s].receipt = c
  BY <1>1 DEF At, Alike
<1>3. Fresh(req[s], c)
  BY <1>1, <1>2 DEF FreshOK
<1>4. LinesOf(c)' = LinesOf(c) /\ \A i \in LinesOf(c) : line'[i] = line[i]
  BY <1>2 DEF Spares
<1> QED
  BY <1>1, <1>3, <1>4, FreshStays DEF Alike

\* r is not at the reading of a bill.
Elsewhere(q) == q.op # "convert" \/ q.pc # "read"

LEMMA ElsewhereOrBilled ==
  ASSUME IInv, NEW r \in Requests,
         \/ PutImage(r) \/ CreateReceipt(r) \/ AnswerUpload(r) \/ CleanUp(r)
         \/ BeginExtract(r) \/ ReadImage(r) \/ StoreFailure(r)
         \/ LockReceipt(r) \/ DeleteLines(r) \/ StoreReading(r)
         \/ BeginAdd(r) \/ AddItem(r)
         \/ BeginUpdateItem(r) \/ BeginDeleteItem(r) \/ CheckEditable(r)
         \/ UpdateItem(r) \/ DeleteItem(r)
         \/ BeginAssign(r) \/ CheckGrid(r) \/ ClearClaims(r) \/ InsertClaims(r)
         \/ BeginConvert(r) \/ ConvertToExpense(r)
         \/ BeginDelete(r) \/ DeleteReceipt(r) \/ DropImage(r)
         \/ BeginDeleteExpense(r) \/ DeleteExpense(r)
         \/ Fail(r)
  PROVE  \E q, cs : (Writes(r, cs, q) \/ (Continues(r, q) /\ cs = {})) /\ Elsewhere(q)
<1>0. req[r] \in Request
  BY RequestFacts DEF Shaped
<1>1. \A q : Continues(r, q) /\ Elsewhere(q) =>
        \E p, cs : (Writes(r, cs, p) \/ (Continues(r, p) /\ cs = {})) /\ Elsewhere(p)
  OBVIOUS
<1>2. \A q, ds : Writes(r, ds, q) /\ Elsewhere(q) =>
        \E p, cs : (Writes(r, cs, p) \/ (Continues(r, p) /\ cs = {})) /\ Elsewhere(p)
  OBVIOUS
<1>3. Elsewhere(Idle)
  BY IdleFields DEF Elsewhere
<1>4. CASE PutImage(r)
  <2>1. PICK q, c : /\ q = [Idle EXCEPT !.pc = "stored", !.op = "upload", !.receipt = c]
                    /\ Continues(r, q)
    BY <1>4 DEF PutImage, Admit, Continues
  <2>2. Elsewhere(q)
    BY <2>1 DEF Elsewhere, Idle
  <2> QED
    BY <1>1, <2>1, <2>2
<1>5. CASE \/ BeginExtract(r) \/ BeginAdd(r) \/ BeginAssign(r) \/ BeginConvert(r)
           \/ BeginDelete(r)
  <2>1. PICK q, op, c : q = Begun(op, c) /\ Continues(r, q)
    BY <1>5 DEF BeginExtract, BeginAdd, BeginAssign, BeginConvert, BeginDelete, Admit, Continues
  <2>2. Elsewhere(q)
    BY <2>1 DEF Elsewhere, Begun, Idle
  <2> QED
    BY <1>1, <2>1, <2>2
<1>6. CASE BeginUpdateItem(r) \/ BeginDeleteItem(r) \/ BeginDeleteExpense(r)
  <2>1. CASE BeginUpdateItem(r)
    <3>1. PICK q, c, i : Continues(r, q) /\ q = GetItem(Begun("update", c), i)
      BY <2>1 DEF BeginUpdateItem, Admit, Continues
    <3>2. Elsewhere(q)
      BY <3>1 DEF Elsewhere, GetItem, Begun, Idle
    <3> QED
      BY <1>1, <3>1, <3>2
  <2>2. CASE BeginDeleteItem(r)
    <3>1. PICK q, c, i : Continues(r, q) /\ q = [Begun("remove", c) EXCEPT !.item = i]
      BY <2>2 DEF BeginDeleteItem, Admit, Continues
    <3>2. Elsewhere(q)
      BY <3>1 DEF Elsewhere, Begun, Idle
    <3> QED
      BY <1>1, <3>1, <3>2
  <2>3. CASE BeginDeleteExpense(r)
    <3>1. PICK q, x : /\ Continues(r, q)
                      /\ q = [Idle EXCEPT !.pc = "begun", !.op = "expense", !.expense = x]
      BY <2>3 DEF BeginDeleteExpense, Admit, Continues
    <3>2. Elsewhere(q)
      BY <3>1 DEF Elsewhere, Idle
    <3> QED
      BY <1>1, <3>1, <3>2
  <2> QED
    BY <1>6, <2>1, <2>2, <2>3
<1>7. CASE CreateReceipt(r) \/ LockReceipt(r) \/ ReadImage(r) \/ CheckEditable(r)
  <2>1. PICK q, pc : /\ Continues(r, q) /\ q = [req[r] EXCEPT !.pc = pc]
                     /\ req[r].op # "convert"
    BY <1>7 DEF CreateReceipt, LockReceipt, ReadImage, CheckEditable, At
  <2>2. Elsewhere(q)
    BY <1>0, <2>1 DEF Elsewhere, Request
  <2> QED
    BY <1>1, <2>1, <2>2
<1>8. CASE DeleteLines(r)
  <2>1. PICK q, lines : /\ Continues(r, q)
                        /\ q = [req[r] EXCEPT !.pc = "emptied", !.doomed = lines]
    BY <1>8 DEF DeleteLines
  <2>2. Elsewhere(q)
    BY <1>0, <2>1 DEF Elsewhere, Request
  <2> QED
    BY <1>1, <2>1, <2>2
<1>9. CASE CheckGrid(r)
  <2>1. PICK q, grid : /\ Continues(r, q) /\ req[r].op = "assign"
                       /\ q = [req[r] EXCEPT !.pc = "read", !.grid = grid]
    BY <1>9 DEF CheckGrid, At
  <2>2. Elsewhere(q)
    BY <1>0, <2>1 DEF Elsewhere, Request
  <2> QED
    BY <1>1, <2>1, <2>2
<1>10. CASE ClearClaims(r)
  <2>1. PICK q, cs : Writes(r, cs, q) /\ (q = Idle \/ q = [req[r] EXCEPT !.pc = "cleared"])
    BY <1>10 DEF ClearClaims
  <2>2. Elsewhere(q)
    BY <1>0, <1>3, <2>1 DEF Elsewhere, Request
  <2> QED
    BY <1>2, <2>1, <2>2
<1>11. CASE DeleteReceipt(r)
  <2>1. PICK q, cs : Writes(r, cs, q) /\ q = [req[r] EXCEPT !.pc = "hidden"]
    BY <1>11 DEF DeleteReceipt
  <2>2. Elsewhere(q)
    BY <1>0, <2>1 DEF Elsewhere, Request
  <2> QED
    BY <1>2, <2>1, <2>2
<1>12. CASE AnswerUpload(r) \/ CleanUp(r) \/ DropImage(r) \/ Fail(r)
  <2>1. Continues(r, Idle)
    BY <1>12 DEF AnswerUpload, CleanUp, DropImage, Fail, Continues
  <2> QED
    BY <1>1, <1>3, <2>1
<1>13. CASE \/ StoreFailure(r) \/ StoreReading(r) \/ AddItem(r) \/ UpdateItem(r)
            \/ DeleteItem(r) \/ InsertClaims(r) \/ ConvertToExpense(r) \/ DeleteExpense(r)
  <2>1. PICK cs : Writes(r, cs, Idle)
    BY <1>13 DEF StoreFailure, StoreReading, AddItem, UpdateItem, DeleteItem, InsertClaims,
       ConvertToExpense, DeleteExpense
  <2> QED
    BY <1>2, <1>3, <2>1
<1> QED
  BY <1>4, <1>5, <1>6, <1>7, <1>8, <1>9, <1>10, <1>11, <1>12, <1>13

\* What has been read is what the lines say at that moment.
LEMMA ReadsFresh ==
  ASSUME IInv, NEW r \in Requests, ReadBill(r)
  PROVE  \E q : /\ Continues(r, q)
                /\ \A c \in Receipts : q.receipt = c => Fresh(q, c)
<1>1. PICK lines : lines = LinesOf(req[r].receipt)
  OBVIOUS
<1>2. lines \in SUBSET Items /\ \A i \in lines : Claims(i) # {}
  BY <1>1, LinesType DEF ReadBill, Billable
<1>3. PICK q : q = Bill(req[r], lines)
  OBVIOUS
<1>4. Continues(r, q)
  BY <1>1, <1>3 DEF ReadBill
<1>5. {i \in lines : Claims(i) # {}} = lines
  BY <1>2
<1>6. q.total = Total(lines) /\ q.diners = Eaters(lines) /\ q.receipt = req[r].receipt
  BY <1>3, <1>5, RequestFacts DEF Bill, Shaped, Request
<1>7. \A i \in lines : Claims(i) \subseteq q.diners
  BY <1>6 DEF Eaters, Claims
<1>8. q.total = Sum(Costs(lines), lines)
  BY <1>2, <1>6, TotalIs
<1>9. \A c \in Receipts : q.receipt = c => Fresh(q, c)
  BY <1>1, <1>2, <1>6, <1>7, <1>8 DEF Fresh
<1> QED
  BY <1>4, <1>9

LEMMA FreshQuiet ==
  ASSUME NEW q, NEW c, Fresh(q, c), UNCHANGED line
  PROVE  Fresh(q, c)'
<1>1. LinesOf(c)' = LinesOf(c)
  BY DEF LinesOf
<1> QED
  BY <1>1, FreshStays

LEMMA FreshAction ==
  ASSUME IInv, CalmOK, FreshOK, NEW r \in Requests,
         \/ PutImage(r) \/ CreateReceipt(r) \/ AnswerUpload(r) \/ CleanUp(r)
         \/ BeginExtract(r) \/ ReadImage(r) \/ StoreFailure(r)
         \/ LockReceipt(r) \/ DeleteLines(r) \/ StoreReading(r)
         \/ BeginAdd(r) \/ AddItem(r)
         \/ BeginUpdateItem(r) \/ BeginDeleteItem(r) \/ CheckEditable(r)
         \/ UpdateItem(r) \/ DeleteItem(r)
         \/ BeginAssign(r) \/ CheckGrid(r) \/ ClearClaims(r) \/ InsertClaims(r)
         \/ BeginConvert(r) \/ ReadBill(r) \/ ConvertToExpense(r)
         \/ BeginDelete(r) \/ DeleteReceipt(r) \/ DropImage(r)
         \/ BeginDeleteExpense(r) \/ DeleteExpense(r)
         \/ Fail(r)
  PROVE  FreshOK'
<1>1. Spares(r)
  BY CalmAction
<1>2. PICK q, cs :
        /\ Writes(r, cs, q) \/ (Continues(r, q) /\ cs = {})
        /\ Elsewhere(q) \/ \A c \in Receipts : q.receipt = c => Fresh(q, c)'
  <2>1. CASE ReadBill(r)
    <3>1. PICK q : Continues(r, q) /\ \A c \in Receipts : q.receipt = c => Fresh(q, c)
      BY <2>1, ReadsFresh
    <3>2. UNCHANGED line
      BY <2>1 DEF ReadBill
    <3>3. \A c \in Receipts : q.receipt = c => Fresh(q, c)'
      BY <3>1, <3>2, FreshQuiet
    <3> QED
      BY <3>1, <3>3
  <2>2. CASE ~ReadBill(r)
    BY <2>2, ElsewhereOrBilled
  <2> QED
    BY <2>1, <2>2
<1>3. req'[r] = q
  BY <1>2, Served
<1> SUFFICES ASSUME NEW s \in Requests, NEW c \in Receipts,
                    (req[s].calm /\ At(s, "convert", "read") /\ req[s].receipt = c)'
             PROVE  Fresh(req[s], c)'
  BY DEF FreshOK
<1>4. CASE s = r
  <2>1. ~Elsewhere(q) /\ q.receipt = c
    BY <1>3, <1>4 DEF At, Elsewhere
  <2>2. Fresh(q, c)'
    BY <1>2, <2>1
  <2> QED
    BY <1>3, <1>4, <2>2
<1>5. CASE s # r
  BY <1>1, <1>2, <1>5, OthersStayFresh
<1> QED
  BY <1>4, <1>5

LEMMA FreshNext ==
  ASSUME IInv, CalmOK, FreshOK, [Next]_vars
  PROVE  FreshOK'
<1>1. CASE UNCHANGED vars
  <2>1. \A q, c : Fresh(q, c) => Fresh(q, c)'
    BY <1>1, FreshQuiet DEF vars
  <2>2. req' = req
    BY <1>1 DEF vars
  <2> QED
    BY <2>1, <2>2 DEF FreshOK, At
<1>2. CASE Next
  BY <1>2, FreshAction DEF Next
<1> QED
  BY <1>1, <1>2

\* Only a conversion makes an expense.
LEMMA ConversionRecords ==
  ASSUME IInv, [Next]_vars, NEW r \in Requests, Moves(r), NEW x \in Expenses,
         expense[x].life = "absent", expense'[x].life = "live"
  PROVE  /\ At(r, "convert", "read") /\ req[r].receipt \in Receipts
         /\ expense'[x].total = req[r].total /\ expense'[x].diners = req[r].diners
<1>1. expense' # expense
  OBVIOUS
<1>2. PICK s \in Requests : ConvertToExpense(s) \/ DeleteExpense(s)
  BY <1>1 DEF Next, vars, PutImage, CreateReceipt, AnswerUpload, CleanUp, BeginExtract, ReadImage,
     StoreFailure, LockReceipt, DeleteLines, StoreReading, BeginAdd, AddItem, BeginUpdateItem,
     BeginDeleteItem, CheckEditable, UpdateItem, DeleteItem, BeginAssign, CheckGrid, ClearClaims,
     InsertClaims, BeginConvert, ReadBill, BeginDelete, DeleteReceipt, DropImage,
     BeginDeleteExpense, Fail
<1>3. ConvertToExpense(s)
  BY <1>2, ExpenseShape DEF DeleteExpense
<1>4. s = r
  BY <1>3, OneMoves
<1>5. PICK y \in Expenses :
        /\ expense[y].life = "absent"
        /\ expense' = [expense EXCEPT ![y] =
              [life |-> "live", receipt |-> req[r].receipt, total |-> req[r].total,
               diners |-> req[r].diners]]
  BY <1>3, <1>4 DEF ConvertToExpense
<1>6. x = y
  BY <1>5, ExpenseShape
<1> QED
  BY <1>3, <1>4, <1>5, <1>6, ExpenseShape DEF ConvertToExpense, Live

\* An undisturbed conversion bills what the lines cost now, every one of them, to the
\* people who claimed them (rule A-3, the arithmetic of Convert).
THEOREM EveryLineIsBilled == Spec => ConversionBillsEveryLine
<1>1. Init => FreshOK
  BY IdleFields DEF Init, FreshOK, At
<1>2. ASSUME IInv, FreshOK, [Next]_vars
      PROVE  \A r \in Requests, x \in Expenses :
               Moves(r) /\ req[r].calm /\ expense[x].life = "absent"
                 /\ expense'[x].life = "live" =>
                   LET lines == LinesOf(req[r].receipt)
                   IN /\ expense'[x].total = Total(lines)
                      /\ \A i \in lines :
                           Claims(i) # {} /\ Claims(i) \subseteq expense'[x].diners
  <2> SUFFICES ASSUME NEW r \in Requests, NEW x \in Expenses, Moves(r), req[r].calm,
                      expense[x].life = "absent", expense'[x].life = "live"
               PROVE  LET lines == LinesOf(req[r].receipt)
                      IN /\ expense'[x].total = Total(lines)
                         /\ \A i \in lines :
                              Claims(i) # {} /\ Claims(i) \subseteq expense'[x].diners
    OBVIOUS
  <2>1. PICK c \in Receipts : c = req[r].receipt
    BY <1>2, ConversionRecords
  <2>2. Fresh(req[r], c)
    BY <1>2, <2>1, ConversionRecords DEF FreshOK
  <2>3. expense'[x].total = req[r].total /\ expense'[x].diners = req[r].diners
    BY <1>2, ConversionRecords
  <2>4. Total(LinesOf(c)) = Sum(Costs(LinesOf(c)), LinesOf(c))
    BY TotalIs, LinesType
  <2> QED
    BY <2>1, <2>2, <2>3, <2>4 DEF Fresh
<1>3. IInv /\ CalmOK /\ FreshOK /\ [Next]_vars => IInv' /\ CalmOK' /\ FreshOK'
  BY StepInv, CalmNext, FreshNext
<1>4. IInv /\ FreshOK /\ [Next]_vars =>
        [\A r \in Requests, x \in Expenses :
           Moves(r) /\ req[r].calm /\ expense[x].life = "absent" /\ expense'[x].life = "live" =>
             LET lines == LinesOf(req[r].receipt)
             IN /\ expense'[x].total = Total(lines)
                /\ \A i \in lines :
                     Claims(i) # {} /\ Claims(i) \subseteq expense'[x].diners]_vars
  BY <1>2
<1> QED
  BY InitInv, CalmInit, <1>1, <1>3, <1>4, PTL DEF Spec, ConversionBillsEveryLine
=================================================================================
