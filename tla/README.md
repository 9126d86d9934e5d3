# TripMate ledger: TLA+ specifications and proofs

These modules describe the services under `services/tripmate/v1` of the TripMate
backend: a Go HTTP server in front of one PostgreSQL database.  Friends on a trip
record expenses and repayments, a planner reviews them, and at the end the trip is
finalized into a list of who pays whom.

Every handler of the server has the same shape.  A middleware (`ResolveTrip`) loads
the trip and the caller's membership into the request; the service checks its rules
against that snapshot, reads the rows it needs in statements of their own, and writes
in one transaction (`db/uow.go`).  The transaction uses the default isolation, READ
COMMITTED; rows are never locked by a read.  What keeps overlapping requests apart is
therefore a version number in some UPDATE statements, a few unique indexes, and
otherwise nothing.  That is what the models are about: **the gap between the snapshot
a rule was checked on and the write that relies on it.**

## 1. Inventory

| Component | State | Operations | Interacts with | Hard part | Correct when |
|---|---|---|---|---|---|
| Expense ledger (`domain/expense`) | `expenses`, `expense_payers`, `expense_splits` | Create, Update, Delete, Approve, Reject, List, Get | trip snapshot, participants, outbox | amount and lines live in three tables; edits start from an old read; review by a planner | lines add up to the amount; no lost update; approval covers the amount approved; one event per change |
| Settlements (`domain/settlement`) | `settlements` | Record, Update, Delete, Approve, Reject | trip snapshot, participants, outbox | as above, no lines | as above |
| Trips (`domain/trip`) | `trips` | Create, Find, UpdateSettings, Archive, Unarchive, DetachCover | everything reads it | flags change under running requests; base currency may change while there are no expenses | version-checked settings; the base currency never changes once there are expenses |
| Trip authorization (`pkg/middleware`) | none; a snapshot per request | ResolveTrip | trips, participants | the snapshot is never refreshed | a request acts with a role its caller had |
| Finalization (`domain/finalization`) | `trips.is_finalized`, outbox | Finalize, Unfinalize | balances, FX, trips | two balance calculations, each of several statements, inside one transaction | every figure published was true of its document while the plan was made |
| Balances (`domain/balance`) | none | Calculate, Summary, Ledger, FinalSettlement, Optimize | participants, ledger, FX | reads five tables in five statements; rounding | balances sum to zero; debts settle them |
| Participants (`domain/participant`) | `trip_participants` | Join, Add, List, Update, Remove | trip snapshot, ledger history | no version, no transaction; count and history read before the write | one membership per user; a planner remains; history names members |
| Invitations (`domain/invitation`) | `trip_invitations`, `users` | Invite, Accept, Revoke, List | participants, users | three commits in one request; `Update` unconditional | an invited member is tracked; a decision is final |
| Receipts (`domain/receipt`) | `receipts`, items, assignments; images in object storage | Upload, Extract, Add/Update/DeleteItem, SetAssignments, ConvertToExpense, Delete | recognition, storage, expense ledger | no version: every write stores a copy read earlier; a slow extraction next to edits | one receipt, one expense; a converted receipt is read-only and its expense is there; the photograph is not lost |
| OAuth server (`domain/oauth`) | clients, requests, grants, tokens | RegisterClient, Authorize, Approve, Deny, Exchange, VerifyAccess, RevokeGrant | users | single-use codes, rotating refresh tokens, reuse with a grace period | a code is exchanged once; a revoked grant has no usable token |
| User accounts and sessions (`domain/user`) | `refresh_tokens`, `users` | Register, Authenticate, AuthenticateGoogle, Refresh, Logout, ChangePassword, CreateInvited | invitations | accounts created from three sides; rotation read-then-write | one account per email; nobody's credentials are replaced; a refresh token is used once |
| Exchange rates (`domain/fx`) | `exchange_rates` | SetTripRate, DeleteTripRate, EffectiveTable, LockAll | trips, finalization | one slot per pair of currencies in two rows | one direction stored; rates frozen with the trip |
| Money (`pkg/money`, `domain/expense/calculator.go`) | none | SplitEqual, SplitProportional, CalculateSplits, ValidatePayers | ledger, balances | rounding to the currency's scale | parts add up exactly, in proportion |
| Assistant tools (`controllers/mcp`) | none of their own | createBillExpense, addExpense, recordSettlement, setExchangeRate, inviteParticipant, read-only tools | OAuth tokens, every service above | retries of calls whose answer was lost; a rate must exist before an amount needs it | a retry does not record a purchase twice |
| Outbox (`outbox_events`) | events | Create | ledger, finalization | written with the change; nothing in this repository delivers it | agrees with the tables |
| Categories, trip codes, rate limiter, OCR and storage clients, configuration, migrations | small or none | | | see `PROJECT.json` | |

## 2. Plan

The modules, most important first; each extends the ones it composes.

1. **Ledger core**: `LedgerRows` (rows and the pure functions applied to them),
   `Ledger` (requests and transactions), `AtomicLedger` (what the ledger promises),
   `LedgerProofs`.
2. **Finalization**, over `Ledger`: what is frozen, and from which reads.
3. **Membership**: roles, and the people documents name.
4. **OAuth**, which implements `TokenLine`, the promise that a code and a refresh token
   are used once.
5. **Receipts**: from the photograph to the expense.
6. **Accounts**, and **Invitations** over it: one table of users written from three sides.
7. **Money** (the arithmetic), **TripMoney** over it (base currency, rates and documents
   of one trip) and **Assistant** over that (the tools, and the properties of the money).

Each of `Finalization`, `Membership`, `Receipts`, `OAuth`, `Invitations` and `Assistant`
has its module of proofs (`FinalizationProofs`, `MembershipProofs`, `ReceiptsProofs`,
`OAuthProofs`, which holds the refinement of `TokenLine` too, `InvitationsProofs`, which
covers `Accounts` as well, and `AssistantProofs`, which covers `Money` and `TripMoney`).
`SumProofs` has what the last ones need of sums over finite sets; it is about no code.

What would come next: the list of expenses with its totals per page, and the covers and
exports of a trip.

## 3. The modules

### LedgerRows, Ledger, AtomicLedger

`LedgerRows` has the row of a document (an expense or a settlement) and the pure
functions the services apply to it: `NewRow` (Create, Record), `Edited` (the entity
Update builds, with the review reopened by `Reopens`), `Decided` (Approve, Reject),
`Overwritten` (the columns of the UPDATE), `Deleted`, `PayersBalance`
(ValidatePayers).

`Ledger` runs any number of requests over these rows.

| Model | Code |
|---|---|
| `trip` | the row of `trips`: flags, settings, version |
| `row`, `payers`, `splits` | `expenses`/`settlements`, and what the lines of `expense_payers` and `expense_splits` add up to |
| `events` | `outbox_events`: per document how many, and the latest |
| `req[r]` | one HTTP request: its arguments, the settings of the trip snapshot, the row it has read |
| `BeginCreateExpense`, `BeginUpdateSettlement`, ..., `BeginSettings`, `BeginArchive` | the controllers: ResolveTrip, the shape of the input, then AssertMutable on the snapshot |
| `ReadExpense`, `ReadSettlement` | `service.expense`, `service.owned`, and the checks made on the row |
| `CreateExpense`, `RecordSettlement`, `UpdateExpense`, `UpdateSettlement`, `DecideExpense`, `DecideSettlement`, `DeleteExpense`, `DeleteSettlement` | the transaction of the operation, with its version check and its event |
| `CommitSettings`, `CommitArchive` | UpdateSettings (version-checked), SetArchived (not) |
| `Fail` | every error answer, rollback and crash: the database keeps nothing of the request |

A transaction is one step.  Its first statement locks the row it writes until COMMIT,
so no other writer of that document runs in between, and other sessions see nothing of
it before COMMIT.

`AtomicLedger` is the promise: every document is a record that one step creates,
edits, decides or deletes, computed from **its current content**.  `Linearises` states
that `Ledger` implements it under the identity mapping of the rows; what makes it true
is `VersionHeld` together with the fact that every committed change moves the version.

### Finalization

Extends `Ledger` with the two variables `calc` (what each finalizing request has read)
and `plan` (the payload of the latest trip event).  Finalize is eight steps: the
expense list and the settlements of the first calculation, the refusal of pending
documents, then the second calculation's expense list, payers, splits and settlements,
and the write of the flag with the event.  READ COMMITTED gives each SELECT the newest
committed state, so other requests commit between these steps.  Unfinalize is one
write.

The calculations take no snapshot, so that a document's approval and its figures, or what
was paid and what is owed, may be of different moments.  `during` records the rows each
document has had since the request was admitted, and `EveryFigureHeld` states what remains,
whatever commits meanwhile: every figure of the plan is the amount of one of those rows, or
nothing if one of them did not count.

### Membership

`member` is `trip_participants`, `doc` the people a document names, `open` whether the
trip takes mutations.  Join, Add, Update and Remove are followed statement by
statement: `CheckNotMember`, `ReadTarget`, `CountPlanners`, `CheckActivity` read;
`InsertMember`, `UpdateMember`, `RemoveMember` write.  `CheckPeople` and
`WriteDocument` are the check and the write of the ledger's Create, Update and Record.
`since` is the number of database writes when a request was admitted, so that
`writes = since` says that nobody else has written anything since.

### OAuth, TokenLine

`clients`, `visit`, `grant` and `pair` are the tables `oauth_clients`,
`oauth_auth_requests`, `oauth_grants` and `oauth_tokens`, an access token and its refresh
token together; `call` holds the calls being served.  A call starts with its first read,
and a call refused there changes nothing and is left out.

| Model | Code |
|---|---|
| `RegisterClient`, `Authorize` | the inserts of RegisterClient and Authorize |
| `BeginApprove`, `BeginDeny`, `Pending`, `Approve`, `Deny` | pendingRequest, and the conditional UpdateRequestStatus (`InStatus`) |
| `BeginExchange`, `Exchangeable`, `FindConnection`, `Reuse`, `Open` | exchangeCode and upsertGrant: the checks of the code, the connection that is there, and the rest of the transaction with or without it |
| `BeginRefresh`, `Presented`, `ReadGrant`, `Rotate` | refresh |
| `BeginVerify`, `Presented`, `ReadGrant`, `Touch` | VerifyAccess, as the assistant's endpoint calls it |
| `BeginRevoke`, `Owns`, `BeginRetiring`, `Retire` | RevokeGrant and revokeGrant; a refresh with a stale token and an exchange that finds its connection idle go through `BeginRetiring` as well |
| `Leave` | a refusal, a lost race, an error, or the answer of a call that writes nothing |
| `ConsentRunsOut`, `TokenAges`, `GrantIdles` | the deadlines and the idle time |

revokeGrant takes two steps because its second UPDATE sees the tokens that were
committed when it started: a refresh that had passed its checks may insert a pair and
commit before the revocation does, and that pair is never revoked.  What protects the
user is that every use looks at the grant too, which `RevocationIsEffective` states.

`TokenLine` knows of a consent only whether it was decided and exchanged, and which
refresh token is current.  `OAuth` implements it with `current` the one unrevoked token
that descends from the consent.

### Receipts

`receipt` and `line` are the tables (`line` with its assignments), `image` the object
storage, `expense` the expenses made from receipts.  `Repo.Update` writes every column of
a copy read earlier and asks for nothing, so all that orders two requests are the row
locks of a transaction that writes the row first.

| Model | Code |
|---|---|
| `PutImage`, `CreateReceipt`, `AnswerUpload`, `CleanUp` | Upload: the object, the row, the answer, and the removal of the object when the insert failed |
| `BeginExtract`, `ReadImage`, `StoreFailure`, `LockReceipt`, `DeleteLines`, `StoreReading` | Extract: the recognition runs outside the transaction, whose UPDATE, DELETE and INSERTs are steps, because the DELETE finds the lines committed when it starts |
| `BeginAdd`, `AddItem`; `BeginUpdateItem`, `CheckEditable`, `UpdateItem`; `BeginDeleteItem`, `DeleteItem` | the edits of a line, `ItemBelongsToReceipt` in the controller before the service reads again |
| `BeginAssign`, `CheckGrid`, `ClearClaims`, `InsertClaims` | SetAssignments and ReplaceAssignments, which is not in a transaction: its DELETE and its INSERT commit apart |
| `BeginConvert`, `ReadBill`, `ConvertToExpense` | the reads and checks, then one transaction: the expense, then the receipt |
| `BeginDelete`, `DeleteReceipt`, `DropImage` | Delete: the row, then the object |
| `BeginDeleteExpense`, `DeleteExpense` | the ledger's Delete with ClearExpenseLink in its transaction |

The removal of the object takes the image of a receipt too, when the row was inserted and
only the answer was an error; `abandoned` records it and `PhotographIsKept` excepts it.

A request carries `calm` while no other request has written to its receipt.
`ConvertedIsReadOnly` and `ConversionBillsEveryLine` are promised to calm requests only:
an edit that has passed its check writes to a receipt converted since, and a line added
after `ReadBill` is on no bill.

### Accounts, Invitations

`user` and `token` are `users` and `refresh_tokens`; `member` and `invitation` what an
invitation writes of the trip.  An account is inserted by Register, by a first sign-in
with Google and by CreateInvited, each after a look for the address; the unique index
(`Insertable`) refuses the second.  Placeholder accounts have no password, or one that a
planner chose (`BeginInvite`; an assistant chooses none, `BeginInviteTool`).

Invite commits three times: `CreateInvited`, `AddInvited`, then `ExtendInvitation` or
`InsertInvitation`.  `Abandon` may follow any of them; a membership left without an
invitation by it stays so, since a second attempt takes the way of `AddExisting`, and
`InvitedAreTracked` leaves these out.  Accept joins the trip (`JoinTrip`) and then writes
the invitation it had read (`WriteAccepted`).

Refresh is a lookup (`BeginRefresh`, with what comes next in `NextStep`: rotate, or revoke
everything when the token was used before), `RevokeToken` and `IssueSession`, three
commits.

### Money, TripMoney, Assistant

`Money` has the arithmetic and no state.  Amounts are whole numbers of a sub-unit smaller
than what is displayed: `Minor[c]` sub-units make the smallest displayed amount of a
currency, and `Epsilon` is the 0.01 below which the optimizer and the statements ignore a
balance.  `SplitProportional` gives everybody the whole part of the exact share and the
units left over to the largest remainders; `SplitByItem` splits each line and spreads the rest over
the subtotals; `Optimize` pairs the largest debtor with the largest creditor until one
side is empty; `NetBalances`, `Statement`, `StatementAgainst`, `TotalExpenses` and
`TotalSpend` are Calculate, Ledger and the totals of the trip lists.

`TripMoney` records documents with these functions and changes what they depend on.
UpdateSettings counts the expenses (`CountExpenses`) before its version-checked UPDATE
(`SaveSettings`); SetTripRate deletes the reverse row and upserts its own
(`DeleteReverse`, `UpsertRate`); Finalize's LockAll reads the rates and writes them back
(`BeginLock`, `LockAll`).  `raced` records that a write to the documents or to the rates
overlapped with another, which is what `OneBaseCurrency` and `OneSlotPerPair` make an
exception for: the code does not keep them then, and TLC finds it as soon as the exception
is removed.

`Assistant` adds the tools: `CurrencyFor` asks for a rate, `RecentDuplicate` looks for the
same description, amount and currency by the same author within two minutes
(`WindowCloses` ends them), then the service is called as for everybody else.

| Model | Code |
|---|---|
| `day`, `Recents`, `FirstPages`, `PageSize` | `recentDuplicate` lists the expenses of the bill's day, newest first, and only one page of a hundred |
| `fine` | the amount was sent with more digits than `NUMERIC(20,6)` keeps: what is stored never equals it again, and `Alike` finds nothing |
| `LookupFails` | an error of the list counts as no duplicate, and the tool goes on to create |
| `unseen` | history: the documents a tool about to create has not seen as they are now, which are those off the page, all of them after a failure, and those that others have written since |

`RetryRecordsOnce` is about the documents a tool could know of, and `PurchaseRecordedOnce`,
which is violated, about all.

## 4. What the runs show

| Run | Instance | Result |
|---|---|---|
| `ledger` | one document, an expense or a settlement; two requests, a planner and a member, three versions of the document and two of the trip | `TypeOK`, `LinesMatchAmount`, `VersionIdentifiesContent`, `EventsFollowCommits`, `ApprovalCoversAmount` and the refinement `Linearises` hold |
| `finalization` | an expense, a settlement, two requests, a planner | whatever commits between the statements, every figure of a published plan was true of its document while the plan was made and no document was pending throughout (`EveryFigureHeld`); a finalized trip comes to rest (`FinalizedTripComesToRest`) |
| `membership` | two users, three rows, one expense, two requests, two writes | one membership per user whatever overlaps; no undisturbed request loses the last planner, separates members from history, or changes a role without a planner's word |
| `oauth` | two users, one tool, two consents, two connections, three pairs of tokens, three calls | one connection per user and tool (`OneConnection`), a consent of the right user behind every token and every scope (`ConsentBehindEveryToken`), no connection cut off without cause (`RevokedOnlyForCause`); one decision and one exchange, and a refresh token replaced at most once (the refinement `ImplementsTokenLine`); no call begun after a revocation gets past its checks (`RevocationIsEffective`) |
| `receipts` | one receipt, lines at two prices, one diner, two requests, two extractions | the link to an expense is live (`LinkIsLive`), extractions do not mix (`ExtractionsNeverMix`), the photograph stays unless its upload was answered with an error (`PhotographIsKept`), whatever overlaps; an undisturbed conversion bills every line and an undisturbed request leaves a converted receipt alone |
| `accounts` | one address, two accounts, three refresh tokens, two requests on accounts, two on invitations | one account and one open invitation per address (`EmailsAreUnique`), invited people are tracked (`InvitedAreTracked`), a registration replaces nobody's way in (`RegistrationReplacesNothing`); an undisturbed refresh has one successor, an undisturbed decision is final |
| `trip_money` | three people, a currency with decimals and one without, bills of every kind of split, two requests, two documents and a third for a retry | shares are exact and in proportion (`SplitsAreExact`), the payments settle the trip (`PlanSettles`), statements, balances and totals tell the same (`StatementsAgree`), one rate per pair, one base currency; a tool creates no expense like one it could see (`RetryRecordsOnce`) |
| `finalized_frozen` | one expense | **violated**: a document changes in a finalized trip |
| `balances_torn` | one expense | **violated**: payers and shares of different versions in one balance |
| `last_planner` | two planners | **violated**: two overlapping demotions leave no planner |
| `receipt_converts_once` | one receipt, two requests | **violated**: two conversions create two expenses |
| `purchase_recorded_twice` | one request at a time | **violated**: a retry whose lookup fails records the purchase again |

The five violations are disagreements between the code and what it says of itself;
each is a `finding` in `PROJECT.json` with the line it contradicts.

* `finalized_frozen`.  A request passes AssertMutable; Finalize runs to completion; the
  request commits.  Neither its UPDATE nor its transaction looks at the trip again.
* `balances_torn`.  Finalize lists the expenses and their payers, an edit of the amount
  commits, Finalize reads the new shares.  The code logs an error about the sum and
  goes on.
* `last_planner`.  Two planners demote one another (or themselves); both requests count
  two planners before either writes.
* `receipt_converts_once`.  Both conversions read the receipt as not yet converted; the
  second transaction waits for the first one's row lock, then overwrites its link.
* `purchase_recorded_twice`.  The tool has created the expense and is called again, with
  nothing else going on.  The list of the day's expenses fails, which is read as no
  duplicate, and the expense is created again.

### Bounds

Two requests are enough for the hazards above, each of which is one stale read against
one commit (or a chain of commits made by the other slot, which is reused).  A third
version of a document lets a request be overtaken twice.  `MaxVersion`,
`MaxTripVersion`, `MaxWrites` and `MaxReadings` are guards on the writes; beyond them
only the sets of identities, which are used up, bound a behaviour, and the runs where
that happens do not check deadlock.  Two amounts are enough to tell an old amount from a
new one, one text to tell an edit that changes no line.  Slots are interchangeable, users
and rows of Membership as well: SYMMETRY is declared in runs without liveness.  In
`membership` the document is an expense, which both its people and its creator tie to the
trip; a settlement is the case without creator.

Four runs follow a behaviour only while it stays with one subject (a state CONSTRAINT;
states beyond it are not explored):

* `ledger`: one document.  Documents meet only in the trip's settings.
* `accounts`: sessions without an invitation, or invitations with one registration or
  sign-in beside them.
* `oauth`: two consents or two connections with two calls at a time; or one of each, for
  one user, with a verification beside another call, with three refreshes and revocations
  at a time, or with the third pair of tokens and one call, which is what a second,
  wrong, rotation of one token would need.
* `trip_money`: rates are set, by overlapping requests, before there are documents; a
  bill of the arithmetic is recorded alone or next to one plain meal; the second author
  sends only the one meal that a duplicate is looked for, before the settings are saved;
  once a document is no longer recent only tools begin, and the settings are not saved;
  beside two documents only a tool begins, which may create a third; purchases on two days,
  finer amounts and failed lookups come one at a time, before anything is edited; nothing
  follows a race.

A page of one row stands for the hundred of the code: two recent expenses are then more
than a lookup reads.  In `trip_money` a sub-unit is half a cent, the amounts lie between
the displayed units and the weights do not divide them, so that every rounding happens; a rate of 3 makes the
reverse conversion inexact.

### Fairness

`FSpec` assumes weak fairness of each begun request's own progress, error answers
included: a handler that has been started keeps executing until it answers, and a
process that dies ends its requests (`Fail`).  No fairness is assumed of clients: no
request needs to be started, or to succeed.  The other components promise nothing that
must eventually happen: the code retries nothing and delivers nothing by itself.

## 5. What is proved

`LedgerProofs` proves, for any sets of expenses, settlements, users and requests and
any bounds, under `RowsAssumption` and `LedgerAssumption` (identities are distinct from
the nil values, amounts are positive naturals, the bounds are naturals):

| Theorem | Statement |
|---|---|
| `LedgerInvariant` | `Spec => [](TypeOK /\ LedgerInv)` |
| `TypeCorrect` | `Spec => []TypeOK` |
| `LinesAgree` | `Spec => []LinesMatchAmount` |
| `VersionIsContent` | `Spec => []VersionIdentifiesContent` |
| `OutboxFollowsTables` | `Spec => []EventsFollowCommits` |
| `ApprovalsCoverAmounts` | `Spec => ApprovalCoversAmount` |
| `LedgerLinearises` | `Spec => Linearises` |

The argument.  `LedgerInv` is the conjunction of `RowsOK` (a used identity has a
version and an amount), `RequestsOK` (what a running request holds passed the checks of
its admission, and no version it holds is ahead of the row's), `LinesMatchAmount` and
`VersionIdentifiesContent`.  The last two are not inductive alone: that a request which
holds the current version holds the current content survives the commit of *another*
request only because that commit moves the version past everything anybody holds, which
is `RequestsOK`.  Refinement then follows action by action: under `VersionHeld` the row
the transaction computes from is the current row, so the step is a step of
`AtomicLedger`; a step that touches no row is a stutter.  `ApprovalsCoverAmounts` uses
the same fact: only an edit changes an amount, and an edit admitted under review leaves
the document pending.  `OutboxFollowsTables` adds to the invariant that the number of
events is the number of committed changes.

`MembershipProofs`, for any users, documents and requests:

| Theorem | Statement |
|---|---|
| `MembershipInvariant` | the inductive invariant |
| `MembershipTypeCorrect` | `Spec => []TypeOK` |
| `NobodyIsMemberTwice` | `Spec => []OneMembership` |
| `PlannerRemains` | `Spec => UndisturbedKeepsPlanner` |
| `HistoryRemains` | `Spec => UndisturbedKeepsHistory` |
| `RolesRemain` | `Spec => UndisturbedKeepsRoles` |

A request reads its target, counts the planners or the documents, and writes in
statements of its own.  The invariant says, for each point between two of them, that
what the request has read is still so *if nothing has been written since* (`Fresh`).
Every write moves the count of writes on, so whoever else is under way has nothing left
to show; and the request's own steps extend what it knows by what the statement
answers.  `OneMembership` needs none of this: the insertion is refused by the index.

`ReceiptsProofs`, for any receipts, requests, images and expenses:

| Theorem | Statement |
|---|---|
| `ReceiptsInvariant` | the inductive invariant |
| `ReceiptsTypeCorrect` | `Spec => []RTypeOK` |
| `LinksAreLive` | `Spec => []LinkIsLive` |
| `PhotographsAreKept` | `Spec => []PhotographIsKept` |
| `ReadingsNeverMix` | `Spec => []ExtractionsNeverMix` |
| `ConvertedStaysReadOnly` | `Spec => ConvertedIsReadOnly` |
| `EveryLineIsBilled` | `Spec => ConversionBillsEveryLine` |

An upload alone knows its receipt until it has answered, so nobody deletes the image it
still has to record; the removal after an error answer is the one way in which a visible
receipt loses its image, and `abandoned` holds exactly those.  The transaction of an extraction holds the receipt's row from its
first statement, so what its DELETE found is all there was of earlier readings when its
INSERT adds the new one.  `ConvertedIsReadOnly` rests on a second invariant over the
first: the status a calm request remembers is the row's, so it was refused if the
receipt was converted; what it writes lies outside converted receipts.
`EveryLineIsBilled` rests on a third: what a calm conversion has read is what the lines of
its receipt cost, and every line has a claimant among the diners it bills (`Fresh`).  A
line of another receipt changes neither, which for the cost is a property of sums.

The proof of `RTypeOK` found a mistake in an earlier form of the model.  The bound
`MaxReadings` stood in the guard of `LockReceipt`, so that extractions of two receipts
could both pass it and store a reading beyond it.  No run showed it, because the
instance has one receipt.  The bound is now in `StoreReading`, which counts the reading.

`OAuthProofs`, for any users, consents, grants, pairs of tokens and calls, under
`OAuthAssumption`:

| Theorem | Statement |
|---|---|
| `OAuthInvariant` | the inductive invariant |
| `OAuthTypeCorrect` | `Spec => []OTypeOK` |
| `OneConnectionEach` | `Spec => []OneConnection` |
| `ConsentStands` | `Spec => []ConsentBehindEveryToken` |
| `RevocationReaches` | `Spec => []RevocationIsEffective` |
| `NobodyIsCutOff` | `Spec => RevokedOnlyForCause` |
| `TokensAreOneLine` | `Spec => ImplementsTokenLine` |

Nothing in the four tables is ever undone: a row stays, a used consent stays used, a
revoked grant stays revoked (`Grows`).  What a call has read is recorded in a form that
survives such growth (`Knows`), so only the step of the call itself has to be looked at.

The refinement follows from `LineInvariant`: an exchange that has taken its
code holds it alone until it commits (`CodesOK`), and a consent has at most one refresh
token that is neither used nor revoked (`SingleLine`).  Each action then shrinks the
lines, decides a consent, rotates a token or exchanges a code (`Moves`), and each of
these is a step of `TokenLine` or a stutter.

`FinalizationProofs`, over the invariant of the ledger:

| Theorem | Statement |
|---|---|
| `FinalizationInvariant` | the inductive invariant |
| `FTypeCorrect` | `FSpec => []FTypeOK` |
| `EveryFigureHeldOnce` | `FSpec => EveryFigureHeld` |

The rows a document has had since the admission (`during`) only become more, and the row
it has now is always one of them.  So what a statement reads, a status, or by
`LinesMatchAmount` lines that add up to an amount, is explained by `during` when it is
read, and stays so at every later commit.

`InvitationsProofs`, for any accounts, addresses, tokens, invitations and requests, under
`AccountsAssumption` and `InvitationsAssumption`:

| Theorem | Statement |
|---|---|
| `InvitationsInvariant` | the inductive invariant |
| `ITypeCorrect` | `ISpec => []ITypeOK` |
| `AddressesAreUnique` | `ISpec => []EmailsAreUnique` |
| `InviteesAreTracked` | `ISpec => []InvitedAreTracked` |
| `RefreshIsSingle` | `ISpec => UndisturbedRefreshIsSingle` |
| `RegistrationIsHarmless` | `ISpec => RegistrationReplacesNothing` |
| `DecisionsAreFinal` | `ISpec => UndisturbedDecisionIsFinal` |

They are theorems of `ISpec`, where invitations create accounts beside registrations and
Google sign-ins.  An account keeps its address, and a token its owner and its revocation
(`Grows`); an invitation keeps its address (`IGrows`).  Anything else that a request has
read, a placeholder, a token without a successor or a pending invitation, is known only
while the request is calm, and every write takes the calm from the requests it could
mislead (`WriteStep`, `TaskStep`).  `InviteesAreTracked` adds that whoever an invitation
gave an account is, until there is an invitation, in the hands of the request that
created it (`InProgress`).

`AssistantProofs`, for any people, currencies, bills, documents, rates and requests, under
`MoneyAssumption`, `TripMoneyAssumption` and `AssistantAssumption` (people, currencies and documents are finitely
many; a bill is in a supported currency, its amounts and weights are naturals; a rate is
positive; each pair of currencies has one direction that sorts first):

| Theorem | Statement |
|---|---|
| `InductiveInvariant` | the inductive invariant |
| `TypeCorrect` | `Spec => []TTypeOK` |
| `EverySplitIsExact` | `Spec => []SplitsAreExact` |
| `PaymentsSettle` | `Spec => []PlanSettles` |
| `ViewsAgree` | `Spec => []StatementsAgree` |
| `PairsAreOneSlot` | `Spec => []OneSlotPerPair` |
| `BaseCurrencyKept` | `Spec => []OneBaseCurrency` |
| `RetriesRecordOnce` | `Spec => RetryRecordsOnce` |

The invariant `TripInv` has two parts.  A row in use holds a split that is `Exact`
(`RowOK`); and a request carries what its next statement needs (`Carries`), what it
charges fits the base currency it saw (`Charged`), and what it has read is still so while
it is calm (`StillSo`): the base currency, the absence of expenses and of the reverse rate.
Every write that could falsify one of these takes the calm from the others, or is recorded
in `raced`.  Apart from the calm, a tool about to create has seen nothing like its expense
outside `unseen` (`Compared`): a lookup that finds nothing leaves unseen what is off its
page, a failed one everything, and each later write adds the document it wrote.

* `EverySplitIsExact`.  The floors of the exact shares fall short of the units by fewer
  than there are fractions above zero, and the largest fractions get one unit each; that
  exactly so many people are among the largest is counting by rank (`RankCount`).  A split by item
  sums such splits over the lines, and the tax or the discount is spread by another.
* `PaymentsSettle`.  A payment leaves neither of its two sides on the other side of zero
  and settles one of them, so payments made and balances left are together never more than
  there were balances (`Progress`), and the last payment settles two.  Therefore the cap
  on the iterations (twice the number of people) is never what ends them.
* `ViewsAgree`.  A conversion is within half a sub-unit of the value at the rate.  What
  somebody paid less what somebody owed is the balance up to the rounding of each line;
  the same document divided among the others in proportion to what each has paid adds up to the
  same, up to half a sub-unit for each division; summing over the documents and exchanging
  the order of the two sums gives the statements.

A total is a sum over a set, and `Optimize` an iteration.  The library proves facts about
those by induction theorems that take a predicate, which the provers at hand cannot
instantiate.  `SumProofs` therefore states induction about a set: the set of the subsets
for which something holds contains the whole one, since no subset is a least one outside
it (`SubsetInduction`; `NaturalInduction` for the rounds of `Optimize`).  That the partial
sums, and the rounds, exist and are unique is proved first, in the same way.

Only model-checked: `FinalizedTripComesToRest`, since TLAPS does not prove liveness.  Every
other property of a passing run is a theorem.  What the findings report are runs: a
counterexample is shown, not proved.

## 6. What is not modelled

* In `Ledger` and `Finalization` amounts are natural numbers and who pays which part is
  kept only as the sum of the lines; shares, currencies and rates are the subject of
  `Money` and `TripMoney`, where in turn every actor is a planner and every document
  approved.
* All descriptive columns of a document are one column `note`; the charged amount and
  its currency, the category, the split method and the date belong to it.
* In `Ledger` and `Finalization` roles are constant: members who change role are the
  subject of `Membership`, where in turn documents are reduced to the people they name.
* Receipts leaves out tax, service charge and texts, and so the refusal of a conversion
  whose total has parts below the currency's smallest unit.
* Lists, gets and other reads that decide nothing, among them the filtered list of
  expenses and the tools that only read.  An order by amount has no tie-break there, so a
  page may repeat an expense; no state depends on it.
* Passwords, redirect URIs, PKCE and client secrets are conditions a request meets or
  not.  A refresh that asks for a narrower scope gets the grant's.
* An edit of an expense always sends its rows; one of the text, the date or the charged
  amount alone, which an itemised expense takes too, is not in `TripMoney` (`Ledger` has
  it: `note`).  Divisions there are exact before they are rounded, where `money.Div` first
  keeps sixteen digits, which differs for weights of that many digits only.
* Which of more than a page of recent expenses a lookup reads is left open: their time is
  taken before the transaction that inserts them, in no order of the commits.
* The comment of the receipts adapter that the set of assignments is replaced atomically
  (`db/tripmate/receipts/adapter_gorm_postgresql.go:219`) does not hold: its DELETE and its
  INSERT commit apart, and `Receipts` has them as two steps.
* Repayments recorded by an assistant are not looked for among those already recorded:
  the code promises it only of expenses.  A repayment does not keep the base currency
  from changing either; only expenses are counted.
* "The fewest payments that settle everyone up" (`controllers/mcp/types.go`) is not what
  a greedy pairing gives; `PlanSettles` states what it does give.
* Expense categories (single-row writes under a unique index), trip codes (random, five
  attempts, unique), the rate limiter (counters of one process), recognition and storage
  clients, configuration and tools: no interleaving that could break a promise of theirs.
* Delivery of outbox events: no code of the repository does it.
