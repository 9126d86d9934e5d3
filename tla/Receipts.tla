-------------------------------- MODULE Receipts --------------------------------
(***************************************************************************)
(* A receipt from its photograph to the expense it becomes.                *)
(*                                                                         *)
(* The service works on the row it read at the start of a request.         *)
(* Receipts have no version: Update writes every column of that copy, and  *)
(* only the two statements of an extraction and the conversion run in a    *)
(* transaction.  GetByID itself reads the row and then the lines.  So each *)
(* read, each statement outside a transaction and each call of the object  *)
(* storage is a step.  A row lock is held from the first statement of an   *)
(* extraction's transaction to its commit; other writers of the row wait.  *)
(*                                                                         *)
(* Whether the trip takes mutations, and whether the caller uploaded the   *)
(* receipt or plans the trip, is settled when a request is admitted: a     *)
(* request that is refused there changes nothing and does not appear.      *)
(* Tax, service charge and the text of a receipt are left out.             *)
(***************************************************************************)
EXTENDS Naturals, FiniteSets, FiniteSetsExt

CONSTANTS
  Receipts,     \* identities of receipts
  Items,        \* identities of receipt lines
  Expenses,     \* identities of the expenses that receipts become
  Diners,       \* participants who can claim a line
  Prices,       \* what a line may cost
  NoReceipt,    \* no receipt
  NoItem,       \* no line
  NoExpense,    \* no expense
  Requests,     \* request slots: how many requests overlap
  Operations,   \* the endpoints this instance serves
  MaxReadings   \* bound: successful extractions

ASSUME ReceiptsAssumption ==
  /\ NoReceipt \notin Receipts
  /\ NoItem \notin Items
  /\ NoExpense \notin Expenses
  /\ IsFiniteSet(Items)
  /\ Prices \subseteq Nat
  /\ MaxReadings \in Nat

VARIABLES
  receipt,   \* the receipts table
  image,     \* the receipts whose image is in the object storage
  abandoned, \* history: the receipts whose upload was answered with an error
  line,      \* receipt_items with receipt_item_assignments
  expense,   \* the expenses created from receipts
  readings,  \* how many extractions have stored lines
  req        \* the requests being served

vars == <<receipt, image, abandoned, line, expense, readings, req>>

Statuses == {"uploaded", "extracted", "failed", "converted"}

\* "extracting" is a status of the life cycle that no statement ever writes.
ReceiptRow == [life : {"absent", "live", "deleted"}, status : Statuses,
               expense : Expenses \cup {NoExpense}]

NoRow == [life |-> "absent", status |-> "uploaded", expense |-> NoExpense]

\* reading tells which extraction stored the line; 0 for one entered by hand.
Line == [life : {"absent", "live", "gone"}, receipt : Receipts \cup {NoReceipt},
         reading : Nat, price : Nat, claims : SUBSET Diners]

NoLine == [life |-> "absent", receipt |-> NoReceipt, reading |-> 0, price |-> 0,
           claims |-> {}]

Expense == [life : {"absent", "live", "deleted"}, receipt : Receipts \cup {NoReceipt},
            total : Nat, diners : SUBSET Diners]

NotRecorded == [life |-> "absent", receipt |-> NoReceipt, total |-> 0, diners |-> {}]

ReceiptOps == {"extract", "add", "update", "remove", "assign", "convert", "delete"}

\* status and lines are what the request read of the receipt, doomed the lines its
\* uncommitted DELETE found, grid the claims sent; calm means that no other
\* request has written to the receipt since this one began.
Request == [pc      : {"idle", "stored", "created", "begun", "read", "locked",
                       "emptied", "cleared", "hidden"},
            op      : {"none", "upload", "expense"} \cup ReceiptOps,
            receipt : Receipts \cup {NoReceipt},
            item    : Items \cup {NoItem},
            expense : Expenses \cup {NoExpense},
            price   : Nat,
            lines   : SUBSET Items,
            doomed  : SUBSET Items,
            total   : Nat,
            diners  : SUBSET Diners,
            grid    : [Items -> SUBSET Diners],
            calm    : BOOLEAN]

NoClaims == [i \in Items |-> {}]

Idle == [pc |-> "idle", op |-> "none", receipt |-> NoReceipt, item |-> NoItem,
         expense |-> NoExpense, price |-> 0, lines |-> {}, doomed |-> {},
         total |-> 0, diners |-> {}, grid |-> NoClaims, calm |-> FALSE]

Init ==
  /\ receipt = [c \in Receipts |-> NoRow]
  /\ image = {}
  /\ abandoned = {}
  /\ line = [i \in Items |-> NoLine]
  /\ expense = [x \in Expenses |-> NotRecorded]
  /\ readings = 0
  /\ req = [r \in Requests |-> Idle]

---------------------------------------------------------------------------------
(* What requests share.                                                    *)

Live(c) == c \in Receipts /\ receipt[c].life = "live"
LinesOf(c) == {i \in Items : line[i].life = "live" /\ line[i].receipt = c}
Price(i) == line[i].price
Claims(i) == line[i].claims

Total(lines) == MapThenSumSet(Price, lines)
Eaters(lines) == UNION {line[i].claims : i \in lines}

\* Mutated form of Locked: the first statement of the transaction locks nothing.
NeverLocked(c) == FALSE

\* UPDATE ... WHERE id holds the row until its transaction ends.
Locked(c) ==
  \E r \in Requests : req[r].receipt = c /\ req[r].pc \in {"locked", "emptied"}

\* A line that an open transaction has deleted: whoever writes to it waits.
Doomed(i) == \E r \in Requests : i \in req[r].doomed

Admit(r, q) ==
  /\ q.op \in Operations
  /\ req[r].pc = "idle"
  /\ req' = [req EXCEPT ![r] = q]

\* The copy of the row that the request works on: its link, too, is as read.
Begun(op, c) == [Idle EXCEPT !.pc = "begun", !.op = op, !.receipt = c,
                             !.expense = receipt[c].expense, !.calm = TRUE]

At(r, op, pc) == req[r].op = op /\ req[r].pc = pc

\* r goes on as q without having written anything.
Continues(r, q) == req' = [req EXCEPT ![r] = q]

\* r goes on as q after a write to the receipts cs that the others can see.
Writes(r, cs, q) ==
  req' = [s \in Requests |->
            IF s = r THEN q
            ELSE [req[s] EXCEPT !.calm = @ /\ req[s].receipt \notin cs]]

\* An error answer, a cancelled request or a crash: what is not committed is undone.
Fail(r) ==
  /\ req[r].pc # "idle"
  /\ req' = [req EXCEPT ![r] = Idle]
  /\ UNCHANGED <<receipt, image, abandoned, line, expense, readings>>

\* Mutated form of Editable: a converted receipt can be changed.
EditableAlways(c) == Live(c)

\* Found among the trip's receipts and not converted; the caller's rights hold.
Editable(c) == Live(c) /\ receipt[c].status # "converted"

---------------------------------------------------------------------------------
(* Upload.                                                                 *)

\* The image goes into the storage before there is a row.
PutImage(r) ==
  \E c \in Receipts :
    /\ receipt[c].life = "absent"
    /\ c \notin image
    /\ \A s \in Requests : req[s].receipt # c
    /\ Admit(r, [Idle EXCEPT !.pc = "stored", !.op = "upload", !.receipt = c])
    /\ image' = image \cup {c}
    /\ UNCHANGED <<receipt, abandoned, line, expense, readings>>

\* Mutated form of CreateReceipt: the image is cleaned up on this path as well.
CreateReceiptDropImage(r) ==
  LET c == req[r].receipt
  IN /\ At(r, "upload", "stored")
     /\ receipt' = [receipt EXCEPT ![c].life = "live"]
     /\ image' = image \ {c}
     /\ Continues(r, [req[r] EXCEPT !.pc = "created"])
     /\ UNCHANGED <<abandoned, line, expense, readings>>

CreateReceipt(r) ==
  /\ At(r, "upload", "stored")
  /\ receipt' = [receipt EXCEPT ![req[r].receipt].life = "live"]
  /\ Continues(r, [req[r] EXCEPT !.pc = "created"])
  /\ UNCHANGED <<image, abandoned, line, expense, readings>>

\* Create reads the row back before it returns.
AnswerUpload(r) ==
  /\ At(r, "upload", "created")
  /\ Live(req[r].receipt)
  /\ Continues(r, Idle)
  /\ UNCHANGED <<receipt, image, abandoned, line, expense, readings>>

\* Create failed, in the INSERT or in reading back the row that is there after it.
CleanUp(r) ==
  LET c == req[r].receipt
  IN /\ req[r].op = "upload"
     /\ image' = image \ {c}
     /\ abandoned' = IF Live(c) THEN abandoned \cup {c} ELSE abandoned
     /\ Continues(r, Idle)
     /\ UNCHANGED <<receipt, line, expense, readings>>

---------------------------------------------------------------------------------
(* Extract.                                                                *)

BeginExtract(r) ==
  /\ \E c \in Receipts : Editable(c) /\ Admit(r, Begun("extract", c))
  /\ UNCHANGED <<receipt, image, abandoned, line, expense, readings>>

\* Nothing is claimed and the image is there; now the model is asked.
ReadImage(r) ==
  LET c == req[r].receipt
  IN /\ At(r, "extract", "begun")
     /\ Eaters(LinesOf(c)) = {}
     /\ c \in image
     /\ Continues(r, [req[r] EXCEPT !.pc = "read"])
     /\ UNCHANGED <<receipt, image, abandoned, line, expense, readings>>

\* Mutated form of StoreFailure: the receipt stays in the status of the attempt.
StoreAttempt(r) ==
  LET c == req[r].receipt
  IN /\ At(r, "extract", "read")
     /\ Live(c) /\ ~Locked(c)
     /\ receipt' = [receipt EXCEPT ![c].status = "extracting"]
     /\ Writes(r, {c}, Idle)
     /\ UNCHANGED <<image, abandoned, line, expense, readings>>

\* The model gave no usable answer; the row is written as the request read it.
StoreFailure(r) ==
  LET c == req[r].receipt
  IN /\ At(r, "extract", "read")
     /\ Live(c) /\ ~Locked(c)
     /\ receipt' = [receipt EXCEPT ![c].status = "failed", ![c].expense = req[r].expense]
     /\ Writes(r, {c}, Idle)
     /\ UNCHANGED <<image, abandoned, line, expense, readings>>

\* The transaction's first statement, Update; others see it at the commit.
LockReceipt(r) ==
  LET c == req[r].receipt
  IN /\ At(r, "extract", "read")
     /\ Live(c) /\ ~Locked(c)
     /\ Continues(r, [req[r] EXCEPT !.pc = "locked"])
     /\ UNCHANGED <<receipt, image, abandoned, line, expense, readings>>

\* The DELETE finds the lines committed so far, with their claims.
DeleteLines(r) ==
  /\ At(r, "extract", "locked")
  /\ Continues(r, [req[r] EXCEPT !.pc = "emptied", !.doomed = LinesOf(req[r].receipt)])
  /\ UNCHANGED <<receipt, image, abandoned, line, expense, readings>>

\* The INSERT and the commit.
StoreReading(r) ==
  LET c == req[r].receipt
  IN /\ At(r, "extract", "emptied")
     /\ readings < MaxReadings
     /\ \E fresh \in SUBSET {i \in Items : line[i].life = "absent"} :
          \E price \in [fresh -> Prices] :
            line' = [i \in Items |->
              IF i \in fresh
                THEN [NoLine EXCEPT !.life = "live", !.receipt = c,
                                    !.reading = readings + 1, !.price = price[i]]
              ELSE IF i \in req[r].doomed THEN [NoLine EXCEPT !.life = "gone"]
              ELSE line[i]]
     /\ receipt' = [receipt EXCEPT ![c].status = "extracted", ![c].expense = req[r].expense]
     /\ readings' = readings + 1
     /\ Writes(r, {c}, Idle)
     /\ UNCHANGED <<image, abandoned, expense>>

---------------------------------------------------------------------------------
(* Lines and claims.                                                       *)

BeginAdd(r) ==
  /\ \E c \in Receipts : Editable(c) /\ Admit(r, Begun("add", c))
  /\ UNCHANGED <<receipt, image, abandoned, line, expense, readings>>

\* A line entered by hand belongs to no reading and nobody claims it yet.
CreatedItem(c, price) ==
  [NoLine EXCEPT !.life = "live", !.receipt = c, !.price = price]

\* A plain INSERT, whatever the receipt has become.
AddItem(r) ==
  LET c == req[r].receipt
  IN /\ At(r, "add", "begun")
     /\ \E i \in Items, price \in Prices :
          /\ line[i].life = "absent"
          /\ line' = [line EXCEPT ![i] = CreatedItem(c, price)]
     /\ Writes(r, {c}, Idle)
     /\ UNCHANGED <<receipt, image, abandoned, expense, readings>>

\* The handler looks for the line on the receipt before it calls the service.
ItemBelongsToReceipt(i, c) == Live(c) /\ i \in LinesOf(c)

\* The line as GetItem finds it: what the client does not send stays like this.
GetItem(q, i) == [q EXCEPT !.item = i, !.price = line[i].price]

BeginUpdateItem(r) ==
  /\ \E c \in Receipts, i \in Items :
       /\ ItemBelongsToReceipt(i, c)
       /\ Admit(r, GetItem(Begun("update", c), i))
  /\ UNCHANGED <<receipt, image, abandoned, line, expense, readings>>

BeginDeleteItem(r) ==
  /\ \E c \in Receipts, i \in Items :
       /\ ItemBelongsToReceipt(i, c)
       /\ Admit(r, [Begun("remove", c) EXCEPT !.item = i])
  /\ UNCHANGED <<receipt, image, abandoned, line, expense, readings>>

CheckEditable(r) ==
  /\ At(r, "update", "begun") \/ At(r, "remove", "begun")
  /\ Editable(req[r].receipt)
  /\ Continues(r, [req[r] EXCEPT !.pc = "read"])
  /\ UNCHANGED <<receipt, image, abandoned, line, expense, readings>>

\* WHERE id = ?: waits for a transaction that has deleted the line, then finds none.
Writable(r) ==
  /\ line[req[r].item].life = "live"
  /\ ~Doomed(req[r].item)

\* A request that does not change the price writes the one it has read.
UpdateItem(r) ==
  /\ At(r, "update", "read")
  /\ Writable(r)
  /\ \E price \in Prices \cup {req[r].price} :
       line' = [line EXCEPT ![req[r].item].price = price]
  /\ Writes(r, {req[r].receipt}, Idle)
  /\ UNCHANGED <<receipt, image, abandoned, expense, readings>>

DeleteItem(r) ==
  /\ At(r, "remove", "read")
  /\ Writable(r)
  /\ line' = [line EXCEPT ![req[r].item] = [NoLine EXCEPT !.life = "gone"]]
  /\ Writes(r, {req[r].receipt}, Idle)
  /\ UNCHANGED <<receipt, image, abandoned, expense, readings>>

\* Neither the trip's state nor the uploader matters here.
BeginAssign(r) ==
  /\ \E c \in Receipts :
       Live(c) /\ receipt[c].status = "extracted" /\ Admit(r, Begun("assign", c))
  /\ UNCHANGED <<receipt, image, abandoned, line, expense, readings>>

\* The members of the trip; who leaves and joins is the subject of Membership.
ActiveParticipants == Diners

\* The grid names lines that are on the receipt and active participants.
CheckGrid(r) ==
  /\ At(r, "assign", "begun")
  /\ \E grid \in [Items -> SUBSET ActiveParticipants] :
       /\ \A i \in Items : grid[i] # {} => i \in LinesOf(req[r].receipt)
       /\ Continues(r, [req[r] EXCEPT !.pc = "read", !.grid = grid])
  /\ UNCHANGED <<receipt, image, abandoned, line, expense, readings>>

\* The claims of every line are deleted, and this is committed.
ClearClaims(r) ==
  LET c == req[r].receipt
  IN /\ At(r, "assign", "read")
     /\ \A i \in LinesOf(c) : Claims(i) # {} => ~Doomed(i)
     /\ line' = [i \in Items |-> IF i \in LinesOf(c) THEN [line[i] EXCEPT !.claims = {}]
                                 ELSE line[i]]
     /\ Writes(r, {c}, IF req[r].grid = NoClaims THEN Idle
                       ELSE [req[r] EXCEPT !.pc = "cleared"])
     /\ UNCHANGED <<receipt, image, abandoned, expense, readings>>

\* One INSERT: all of it, or an error because a line is gone or a claim exists.
InsertClaims(r) ==
  LET c == req[r].receipt
      grid == req[r].grid
  IN /\ At(r, "assign", "cleared")
     /\ \A i \in Items : grid[i] # {} =>
          i \in LinesOf(c) /\ ~Doomed(i) /\ Claims(i) \cap grid[i] = {}
     /\ line' = [i \in Items |-> [line[i] EXCEPT !.claims = @ \cup grid[i]]]
     /\ Writes(r, {c}, Idle)
     /\ UNCHANGED <<receipt, image, abandoned, expense, readings>>

---------------------------------------------------------------------------------
(* Convert, delete, and the deletion of the expense.                       *)

BeginConvert(r) ==
  /\ \E c \in Receipts :
       Live(c) /\ receipt[c].status = "extracted" /\ Admit(r, Begun("convert", c))
  /\ UNCHANGED <<receipt, image, abandoned, line, expense, readings>>

\* Mutated form of Billable: lines nobody claimed are left to the payer.
BillableClaimed(lines) == Eaters(lines) # {}

\* There are lines, and somebody claimed each of them.
Billable(lines) == lines # {} /\ \A i \in lines : Claims(i) # {}

\* The arithmetic of the shares: what the lines cost and who pays for them.
Bill(q, lines) ==
  LET claimed == {i \in lines : Claims(i) # {}}
  IN [q EXCEPT !.pc = "read", !.lines = lines, !.total = Total(claimed),
               !.diners = Eaters(lines)]

ReadBill(r) ==
  LET lines == LinesOf(req[r].receipt)
  IN /\ At(r, "convert", "begun")
     /\ Billable(lines)
     /\ Continues(r, Bill(req[r], lines))
     /\ UNCHANGED <<receipt, image, abandoned, line, expense, readings>>

\* One transaction: the expense, the link and the status.
ConvertToExpense(r) ==
  LET c == req[r].receipt
  IN /\ At(r, "convert", "read")
     /\ Live(c) /\ ~Locked(c)
     /\ \E x \in Expenses :
          /\ expense[x].life = "absent"
          /\ expense' = [expense EXCEPT ![x] =
               [life |-> "live", receipt |-> c, total |-> req[r].total,
                diners |-> req[r].diners]]
          /\ receipt' = [receipt EXCEPT ![c].status = "converted", ![c].expense = x]
     /\ Writes(r, {c}, Idle)
     /\ UNCHANGED <<image, abandoned, line, readings>>

BeginDelete(r) ==
  /\ \E c \in Receipts : Live(c) /\ Admit(r, Begun("delete", c))
  /\ UNCHANGED <<receipt, image, abandoned, line, expense, readings>>

\* SoftDelete; the expense the receipt became is left alone.
DeleteReceipt(r) ==
  LET c == req[r].receipt
  IN /\ At(r, "delete", "begun")
     /\ Live(c) /\ ~Locked(c)
     /\ receipt' = [receipt EXCEPT ![c].life = "deleted"]
     /\ Writes(r, {c}, [req[r] EXCEPT !.pc = "hidden"])
     /\ UNCHANGED <<image, abandoned, line, expense, readings>>

DropImage(r) ==
  /\ At(r, "delete", "hidden")
  /\ image' = image \ {req[r].receipt}
  /\ Continues(r, Idle)
  /\ UNCHANGED <<receipt, abandoned, line, expense, readings>>

BeginDeleteExpense(r) ==
  /\ \E x \in Expenses :
       /\ expense[x].life = "live"
       /\ Admit(r, [Idle EXCEPT !.pc = "begun", !.op = "expense", !.expense = x])
  /\ UNCHANGED <<receipt, image, abandoned, line, expense, readings>>

\* Mutated form of ClearExpenseLink: the receipt is not looked for.
KeepExpenseLink(x) == receipt

\* UPDATE ... WHERE expense_id = ?: a deleted receipt keeps its link.
ClearExpenseLink(x) ==
  [c \in Receipts |->
     IF Live(c) /\ receipt[c].expense = x
       THEN [receipt[c] EXCEPT !.status = "extracted", !.expense = NoExpense]
       ELSE receipt[c]]

\* One transaction: the link goes with the expense.
DeleteExpense(r) ==
  LET x == req[r].expense
      linked == {c \in Receipts : Live(c) /\ receipt[c].expense = x}
  IN /\ At(r, "expense", "begun")
     /\ expense[x].life = "live"
     /\ \A c \in linked : ~Locked(c)
     /\ receipt' = ClearExpenseLink(x)
     /\ expense' = [expense EXCEPT ![x].life = "deleted"]
     /\ Writes(r, linked, Idle)
     /\ UNCHANGED <<image, abandoned, line, readings>>

---------------------------------------------------------------------------------

Next ==
  \E r \in Requests :
    \/ PutImage(r) \/ CreateReceipt(r) \/ AnswerUpload(r) \/ CleanUp(r)
    \/ BeginExtract(r) \/ ReadImage(r) \/ StoreFailure(r)
    \/ LockReceipt(r) \/ DeleteLines(r) \/ StoreReading(r)
    \/ BeginAdd(r) \/ AddItem(r)
    \/ BeginUpdateItem(r) \/ BeginDeleteItem(r) \/ CheckEditable(r)
    \/ UpdateItem(r) \/ DeleteItem(r)
    \/ BeginAssign(r) \/ CheckGrid(r) \/ ClearClaims(r) \/ InsertClaims(r)
    \/ BeginConvert(r) \/ ReadBill(r) \/ ConvertToExpense(r)
    \/ BeginDelete(r) \/ DeleteReceipt(r) \/ DropImage(r)
    \/ BeginDeleteExpense(r) \/ DeleteExpense(r)
    \/ Fail(r)

Spec == Init /\ [][Next]_vars

---------------------------------------------------------------------------------
(* Properties.                                                             *)

\* Every variable keeps its type: whatever a request writes, of what it read.
RTypeOK ==
  /\ receipt \in [Receipts -> ReceiptRow]
  /\ image \subseteq Receipts
  /\ abandoned \subseteq Receipts
  /\ line \in [Items -> Line]
  /\ expense \in [Expenses -> Expense]
  /\ readings \in 0 .. MaxReadings
  /\ req \in [Requests -> Request]

\* A receipt that is not deleted is converted exactly when it has a link, and the
\* expense linked is there: the status and the link are written together, and the
\* deletion of the expense takes the link away in its own transaction.
LinkIsLive ==
  \A c \in Receipts : Live(c) =>
    /\ receipt[c].status = "converted" <=> receipt[c].expense # NoExpense
    /\ receipt[c].expense # NoExpense => expense[receipt[c].expense].life = "live"

\* Extractions that overlap do not mix their lines: the UPDATE that comes first in
\* the transaction keeps the second one's DELETE behind the first one's commit.
ExtractionsNeverMix ==
  \A c \in Receipts : \A i, j \in LinesOf(c) :
    line[i].reading # 0 /\ line[j].reading # 0 => line[i].reading = line[j].reading

\* "so a flaky model never costs the user their photograph": a receipt has its image from
\* the moment it can be seen until it is deleted, whatever extractions, failures, edits and
\* deletions overlap and wherever a process dies, with one exception: when its row was
\* inserted and its uploader was told otherwise, the image is cleaned up (Upload).
PhotographIsKept == \A c \in Receipts \ abandoned : Live(c) => c \in image

Moves(r) == req'[r].pc # req[r].pc

\* A converted receipt is read-only (rule R-5) for every request that overlaps no
\* other write to it: its lines and claims stay, and it is converted until its
\* expense is deleted.  An overlapping request can break this: see ConvertsOnce.
ConvertedIsReadOnly ==
  [][\A r \in Requests, c \in Receipts :
       Moves(r) /\ req[r].calm /\ receipt[c].status = "converted" /\ Live(c) =>
         /\ \A i \in LinesOf(c) : line'[i] = line[i]
         /\ LinesOf(c)' = LinesOf(c)
         /\ receipt'[c].status # "converted" => expense'[receipt[c].expense].life = "deleted"]_vars

\* An undisturbed conversion bills every line, to people who claimed it: no line
\* is left to the payer unseen (rule A-3).
ConversionBillsEveryLine ==
  [][\A r \in Requests, x \in Expenses :
       Moves(r) /\ req[r].calm /\ expense[x].life = "absent" /\ expense'[x].life = "live" =>
         LET lines == LinesOf(req[r].receipt)
         IN /\ expense'[x].total = Total(lines)
            /\ \A i \in lines : Claims(i) # {} /\ Claims(i) \subseteq expense'[x].diners]_vars

\* "a receipt produces one expense, once" (rule C-6).  Two conversions that both
\* read the row before the other's commit make two.
ConvertsOnce ==
  \A x, y \in Expenses :
    /\ expense[x].life = "live" /\ expense[y].life = "live"
    /\ expense[x].receipt = expense[y].receipt
    => x = y
=================================================================================
