# A TLA+ verification of ATHR

ATHR is a point-of-sale system for a chain of branches: Electron tills that go on
selling while they are offline (`pos-electron`), a NestJS/PostgreSQL server that is
the source of truth (`backend`) and a Next.js back office (`admin-web`). This
directory holds TLA+ models of the parts whose correctness depends on what happens
*between* two steps, the TLC runs that check them on small instances, and TLAPS
proofs of what matters most for every value of the constants.

## Inventory

| Part | State it keeps | Operations | Talks to |
|---|---|---|---|
| Till store (`electron/main.ts`) | SQLite file: `stock`, `sales_local`, `outbox`, `held_sales`, `sync_meta`; secure state file: device, session, accounting context | `pos:sale`, `sync:*` handlers, hold/resume, login/logout, enroll | renderer by IPC, server by HTTP |
| Sync engine (`src/sync.ts`, `sync-policy.ts`) | `activeSync`, timer, failure count | `performSync`, `syncLoop`, `startSync`, `classifySyncError` | till store, `POST /pos/sale`, `GET /sync/pull`, heartbeat |
| Factory reset (`factory-reset-runtime.ts`) | `resetInProgress` | check, decommission, wipe | till store, `terminals` |
| Sales (`sales.service.ts`) | `SalesInvoice`, `InventoryStock`, `InventoryMovement`, `Customer`, `PosTerminal.last_sale_sequence` | `createSale`, `createReturn` | shifts, customers, inventory ledger |
| Shifts (`shifts.service.ts`) | `Shift` | `open`, `close`, `issueOfflineContext` | sales, returns |
| Terminals (`terminals.service.ts`) | `PosTerminal` | enroll, heartbeat, revoke, decommission | tills |
| Transfers (`transfers.service.ts`) | `Transfer`, `TransferItem`, `TransferCommand`, `TransferTransitMovement` | create, ship, receive, cancel, reconcile | inventory ledger (triggers) |
| Catalog sync (`sync.service.ts`) | `SyncChange` journal | pull, snapshot | every writer of the catalog and of stock (triggers) |
| Purchasing (`purchasing.service.ts`, `purchasing-accounting.ts`) | purchase invoices, supplier returns, cost movements, `cost_price` | receive, return to supplier, reverse | stock and cost ledgers (SQL functions) |
| Pricing (`pricing/`) | price books, versioned entries, overrides, discounts, role limits | submit, approve, schedule, activate, end, supersede, request and approve an exception, resolve | quotes, catalog sync |
| Tax (`tax/`) | tax codes, exemptions | submit to supersede, approve and revoke | quotes |
| Promotions (`promotions/`) | promotions, bundles, coupons, redemptions | draft to end, redeem, evaluate | quotes |
| Products and reference data (`products/`, `uom/`, `brands/`, `assortment/`, `customers/`, `offers/`) | rows with a key, unit conversions, item type, offer suggestions, cached counts | create, supersede, decide, list | sales, catalog sync |
| Identity (`identity/`) | tenants, memberships, invitations, scopes, policy snapshots, support grants | invite, accept, change role or status, seed the policy | every guard |
| Authentication (`auth/`, `users/`) | users, refresh tokens, a cache of rights | login, refresh, logout, validate, grant and revoke | admin web, tills |
| Terminals at the server (`terminals/`) | `PosTerminal`, enrollment codes, credentials | issue a code, enroll, heartbeat, revoke, enable, decommission | tills |
| Sellers (`sellers/`) | commission settings, plans, closed periods | report, settings, close a period | sales, returns |
| Error path (`common/*.filter.ts`, `sync-policy.ts`, `api.ts`) | none at the server; tries, backoff and suspicion at the till | map an exception, classify, confirm a revocation | every handler |
| Till session (`api.ts`, `App.tsx`, `secure-store.ts`) | tokens, terminal, accounting context: file, renderer copy, screen copy | enroll, login on and off line, refresh, logout | auth, terminals, shifts |
| Till screens (`RegisterScreen.tsx`, `SalesScreen.tsx`) | cart, drafts, dialogs, lists, return form | sell, hold, resume, close the shift, page, return | till store, server |
| Till start and update (`local-state-migration.ts`, `local-db-migrations.ts`, `auto-update.ts`) | older directories, database, manifest, installer | migrate, offer, verify, install | till store, release information |
| Admin web (`server-session.ts`, pages) | cookies | renew in the middle of a request, forms | everything at the server |

What makes the system hard, and the properties that make each part correct:

* **Till and server are joined by an unreliable wire.** A request may time out and
  still be served, be retried while its first attempt runs, or be answered after the
  till crashed. A completed sale must never be lost, booked twice or un-booked.
* **The sync engine reads, awaits and writes.** Between any two awaits the cashier
  may sell, log out, reset the device; the process may crash; a write may fail.
* **Server transactions interleave** at READ COMMITTED, protected by row locks, an
  advisory lock, unique indexes and conditional updates. One open shift a branch; a
  closed shift's cash stays right; a line is never returned twice.
* **The catalog is copied by cursor.** A change has its sequence before it is
  visible, a pull reads in several statements and takes several pages, and a till may
  crash between two of them. What the till has not got must still be ahead of it.
* **Stock is kept twice**, as a quantity and as a ledger that triggers post and check
  at commit. Units are neither made nor lost, the two agree, and no legal sequence of
  commands ends in a transaction the triggers refuse.
* **Most services read, decide and write in separate statements** without a
  transaction: memberships, invitations, price books, tax codes, promotions, coupons,
  unit conversions, heartbeats. What protects them is a unique index or a condition in
  the `UPDATE`, where there is one; two requests at once, or a process that dies after
  the first write, meet the window where there is not.
* **Answers outlive the question.** A token, a right, a count, a page or an accounting
  context arrives after the cashier, the clock or the row has moved on.
* **Money is rounded**: discounts by largest remainder, credits unit by unit, the moving
  average to the cent, prices gross and net. Cents must add up.
* **Progress.** Sales waiting for upload must get there once the network is back.

`PROJECT.json` lists every hazard at the line where it bites.

## Modules

| Module | Models |
|---|---|
| `TillSync` | one till, its sync engine, the wire, `createSale`, factory reset |
| `SaleLedger` | what `TillSync` promises: sold once, booked at most once |
| `TillSyncProofs` | theorems about `TillSync` |
| `ShiftDrawer` | `open`, `close`, `createSale`'s shift and customer part, `createReturn` |
| `ShiftDrawerProofs` | theorems about `ShiftDrawer` |
| `CatalogSync` | the `SyncChange` journal, `pull`, the pull loop and `sync:apply_pull` |
| `CatalogSyncProofs` | theorems about `CatalogSync` |
| `Transfers` | `create`, `ship`, `receive`, `cancel`, and the ledger triggers |
| `TransfersProofs` | theorems about `Transfers` |
| `Sums` | lemmas about sums over finite sets and amounts shared out over them |
| `CounterProofs`, `CommerceProofs`, `BackOfficeProofs` | theorems about the parts of the three compositions |
| `Purchasing` | receipts, supplier returns, reversals, the moving average |
| `Membership` | memberships, the last-owner safeguard, invitations, scopes |
| `PermissionPolicy` | policy snapshots seeded by several releases, support grants |
| `Sessions` | refresh tokens and the cookies of the admin web |
| `UserRights` | users, capabilities, identity claims and the cache in front of them |
| `TerminalRegistry` | enrollment codes, credentials, revocation, heartbeat |
| `SellerPeriods` | commission settings, reports, closed periods |
| `ErrorPath` | from an exception to the till's verdict |
| `PriceBooks`, `PriceEntries`, `TaxCodes` | versioned prices and rates under maker and checker |
| `MakerChecker` | what `PriceBooks` and `TaxCodes` promise: one lifecycle of a versioned row |
| `PriceExceptions` | overrides, discounts, exemptions and their limits |
| `Promotions`, `Coupons` | lifecycles of offers, redemption of a coupon |
| `Quotes` | price, tax, promotion and bundle arithmetic as operators |
| `Catalogue`, `Listings` | reference data with keys and versions; totals with a cache |
| `TillSession` | the three copies of terminal, tokens and accounting context |
| `Register`, `OperationsScreen` | cart, drafts, payment, shift close; lists and the return form |
| `TillUpdate`, `LocalMigration` | the updater; the start over an older release's files |
| `MCTillSync`, `MCShiftDrawer`, `MCCatalogSync`, `MCTransfers` | small instances of one module |
| `MCBackOffice`, `MCCommerce`, `MCCounter` | small instances of several independent parts |

### TillSync

*Disk* variables are the SQLite file and survive a crash; `ctx` is the secure file.
`persistedMutation` either replaces the file or leaves it as it was, so a handler
is one step, with a failing alternative while the budget `MaxFaults` lasts, and
with a refusing one while a factory reset runs. *Engine* variables are `performSync`
cut at its awaits: `pc` names the await it is at. *Wire*: `net` holds the requests
under way, `reply` the answer the till waits for; a request the till gave up on is
no longer `live`, but still served. *Server*: `Begin` is `createSale` from the
device check and the terminal's row lock to its look for an existing invoice;
`Commit` the rest of the transaction; `Rollback` its expiry, deadlock or lost
connection.

Abstractions. A cart is a function from variants to quantities; prices, tax and
texts do not occur, and a sale refused because of them is `Refuse`. The warnings
other than sequence and stock may or may not join any sale. Two abandoned requests
for one sale are one message (they are identical and each is only served or lost). A
pull is one page. The two renames of a factory reset are one step. Whether a row's
backoff is over is a choice, but a forced sync takes every pending row and a row
never tried is always due.

### ShiftDrawer

Each statement that another request could make behave differently is a step.
`close` is not a transaction: a read, two sums in either order, a conditional
update. `createSale` decides from the shift status it read first whether to
reconcile a closed shift. A piece costs one unit of cash, a return is of one line,
and every command is tried once (replays are `TillSync`'s subject).

### CatalogSync

The server's writers are connections with open transactions: `Write` is what a
trigger does (it draws the sequence and writes the row), `Commit` makes both visible.
`ReadJournal` and `ReadRows` are the statements of `pull`, which runs in no
transaction: the rows may be newer than the page, and each table newer than the one
before. `ApplyPull` is one SQLite transaction: cursor, price list, stock and
`catalog_valid_until` together. `sync:apply_pull` checks the answer first:
`RefusePull` is an answer whose cursor or stock rows it refuses, which sales below zero
make happen, and `PullBlocked` any other error that `classifySyncError` does not try
again. Both stop the engine with a reason and without a timer until `SyncNow`. A value is named by the sequence of the change that
wrote it. `PriceTakesEffect` is a scheduled price that comes into force, which no
trigger sees. The till serves one branch; the sellers list, which every answer
replaces whole, is left out, and so is the upload phase before the pull (`TillSync`).

### Transfers

A command is one `Serializable` transaction that locks its transfer, hence one step.
Its guard is the service's (`MayShip`, `MayReceive`, `MayCancel`), its effect is what
the service writes and what the deferred triggers post (`Post`), and
`DatabaseAccepts` is what the triggers and constraints demand at commit. Any request
may come at any time and again, with its key or a new one; a replayed or refused one
changes nothing. `Sell` is the stock part of `createSale`. `qty_reserved` is left
out: nothing in the repository writes it.

The repository's README says that a receipt "adds exactly the quantities stored on
the transfer". The code, and this model of it, take what the request says, partial,
damaged and missing quantities included.

### Purchasing

Each operation is one `Serializable` transaction that the service runs again when it
fails to serialize, hence one action. Money is in cents and unit costs in
ten-thousandths of a cent, the six decimals of the column. A request comes at any time
and again, under its own command or, as a second click does, under a new one;
`Post` is what the two SQL functions write, the moving average among it, and sales, customer
returns and transfers move the same stock in between, below zero too.

### Back office: Membership, PermissionPolicy, Sessions, UserRights, TerminalRegistry, SellerPeriods, ErrorPath

`Membership` has request slots that go through the services' statements one step at a
time; `Die` ends one between any two. `PermissionPolicy` has an instance of each
release running `ensureSeeded`, with the same deaths. `Sessions` has tabs that send the
cookies they had, and answers in any order. In `UserRights` a lookup reads at one
moment and is cached from its arrival on; requests of one user share it; the clock is
explicit. `TerminalRegistry` splits `enroll`, `heartbeat` and `selfDecommission` where
they check first and write later. `SellerPeriods` reads sales, returns and overrides
in any order, the statements of one `Promise.all`; a closing looks the settings up
twice at once, for the period and for its report, and each look is `getSettings`
statement by statement (`look`), so that two looks of one closing can both meet no row.
Sales arrive after the day they were made.
`ErrorPath` carries a failure from the handler through the filter, a proxy and the
network to `classifySyncError` and to the confirmation of a revoked credential; the
phrases the filter looks for are members of a set. The delay to the next attempt is the
code's table, its cap and the jitter on top of it, in milliseconds; `Hash` stands for
the hash of the operation and the attempt, any natural to the proof.

### Commerce: PriceBooks, PriceEntries, TaxCodes, PriceExceptions, Promotions, Coupons, Quotes, Catalogue, Listings

A service call that reads first and writes later is open in a calls function between
its two steps, and its write repeats only the condition its `UPDATE` has. Price books
and tax codes are written by different services, but both implement `MakerChecker`: a
row edited as a draft, submitted, approved by another, and put in force in the step that
retires its rivals. The mapping takes a book's slot to be its scope, filled while it is
a default or would become one, and leaves its name out (`BookRow`); a code fills the one
slot of its category, is never retired without a successor, and its author, though on
record, is not barred from approving it as a book's is (`CodeRow`, `AuthorBarred`). Reads and renames stutter. An approval by the submitter is let through only
if marked as having read the draft before the submission (`sawDraft`). A promotion's
benefit is reduced to its type and to which of its columns are given, which is what
`assertBenefitShape` asks on creation and nobody asks on an edit. `Coupons`
takes `redeem` statement by statement with a crash after any. `Quotes` has no
behaviour of its own: its state is an input, the operators are the service's functions,
and the properties compare them with a reference definition, which the run does over all
inputs of a bounded range and the proof for every input (the tax split with exact
division, the chosen entry with the best under the documented order, a discounted line with
the shelf price less the discount, a bundle's parts with their exact shares). `Catalogue` has a
desk for each kind of row; `Listings` shares a promise among those who wait for it.

### Counter: TillSession, Register, OperationsScreen, TillUpdate, LocalMigration

Each call to the main process or the server is answered by an action of its own, and
between the two the user does what the screen lets him do: a disabled button or a modal
dialog is a guard, a flag that is cleared in a `finally` is part of the answer.
`TillSession` keeps apart the encrypted file, the renderer's copy and the screen's.
In `Register` the payment dialog keeps the pointer off the screen but not the keys. A
payment is in the main process from `Confirm` on and goes on there when its screen is
gone; `Unmounted` says what took it: the end of the session, the answer to a close of the
shift (`requestShiftClose` awaits the drafts and looks at nothing after), or a button
reached with Tab. `SyncReports` lets either report of a sync come at any time, which
`TillSync` would narrow.
`TillUpdate` has the manifest's cache at the server, the offer, the download and the
dialogs; between "Install now" and the quit the till works while `shell.openPath` is
awaited (`InstallNow`, `RunInstaller`). `LocalMigration` writes one file a step and stops at any of them.

### Compositions

`TillSync` composes till, engine, wire and server; `CatalogSync` writers, server and
till; `ShiftDrawer` shifts, sales and returns. The parts in `MCBackOffice`,
`MCCommerce` and `MCCounter` write no table in common, so their product has no
behaviour that matters beyond those of its factors: a behaviour follows one part,
chosen at the start, while the others stay in their initial state, and one run
explores all of them at the cost of their sum.

### Windows the properties name

Several properties excuse exactly the interleaving the code leaves open, kept in a
history variable, so that they say the window is the *only* way to the bad state:
`overlapped` (two membership changes in flight may leave a tenant without an owner),
`doubled` (two accepts of one invitation), `raced` (a logout or a second renewal during
a renewal), `crossed` (a revocation between an enrollment's checks and its write),
`late` and `firstUse` (a sale that arrives after the closing of its period, two lookups
that meet no settings row, of two requests or of one closing), `sawDraft` and `early` (an approval or activation that read the
row before the change it should have seen), `overtaken` (a first sale between the
check and the change of an item type), `freed` (the end of an earlier return clears
the flag of a form opened since), `left` and `asked` (what took the screen from a
payment, and whether a close was already asked for when it was confirmed), `since` and
`during` (the payment saved under the install dialog, and those saved while the
installer is being started). The till's catalog has `passedOver` in the same role: a change that
drew its sequence before a pull and committed after it.

## Runs

| Run | Instance | Shows |
|---|---|---|
| `till_crash` | two equal sales, stock for one, one crash, one reset; 0.98 M states | `SaleKept`, `NoConflict`, `SentIsFinal`, refinement of `SaleLedger` |
| `till_faults` | one sale, one each of crash, failed write, refusal, reset, other movement; 1.6 M states | `SaleKept` |
| `till_live` | one sale, one crash, lossy network that recovers | `SaleEventuallyResolved` |
| `till_negative` | a second till sells the last unit | **violated** `SaleEventuallyResolved` |
| `till_pull_race` | a sale during the pull | **violated** `PullKeepsReservations` |
| `drawer` | two managers, tills, returns; two shifts; 0.87 M states | `OneOpenShift`, `ReturnsWithinSale`, `ClosedShiftOnlyGrows` |
| `drawer_close_race` | a cash sale across a close | **violated** `ClosedShiftReconciled` |
| `catalog` | two variants, two writers, stock below zero, pages of one change, one failure or crash, one scheduled price; 0.71 M states | `CatalogHonest`, `CatalogConverges` |
| `transfers` | two transfers, four commands, a sale; symmetric; 17 k states | `UnitsConserved`, `LedgersReconcile`, `DatabaseAgrees`, `UsedKeysAreInert` |
| `backoffice` | the seven back-office parts; 1.7 M states | see below |
| `commerce` | the nine commerce parts and `Purchasing`; 1.9 M states | see below |
| `counter` | the five counter parts; 2.9 M states | see below |

`SaleKept` is `NoSaleLost` (a completed sale is with the till or invoiced) and
`NoOrphanedSending` (only a failed write leaves a row the engine will not find);
`CatalogHonest` is `DifferenceAccounted` and `ValidMeansComplete`. `CatalogConverges`
says that once changes stop the till's catalog comes to be the server's, up to what it
misses with reason, unless the engine has stopped with a reason on the screen
(`BlockedForAReason`) or a branch's stock stays below zero (`BelowZero`).

| Property | Says |
|---|---|
| `MembershipSafe` | the tenant keeps an active owner; an accepted invitation let one identity in, with its scope |
| `PolicyForward` | no start, side by side or half done, takes the policy away or sets it back; a support grant that is over stays over |
| `SessionSafe` | one live token a login, and it is the one the browser holds or is about to get; a logout is final |
| `RightsTakeEffect` | a changed right is in force within the time to live plus one lookup |
| `TerminalCredential` | one code lets in one device; who is let in after a revocation has a newer credential; a revoked terminal keeps none, unless an enrollment under way was overtaken |
| `CommissionReproducible` | the net sales a closed period paid for still follow from the books; one settings row a tenant, but for two lookups that met none |
| `FailureVerdict` | a sale is put aside only on a decision, tried again only for a fault, within 18 minutes (the cap of a quarter of an hour and a fifth of it as jitter); a credential is given up only on two refusals apart; both filters answer a registered code as registered |
| `OneLifecycle` | books and codes refine `MakerChecker`, whatever requests overlap: no step skips a stage, who approves is not who submitted nor, for a book, its author (`ApprovedByAnother`), and what is put in force retires exactly its rivals |
| `OneInForce` | one default book a scope, one active entry and tax code, each with its history; an entry's price is one its own flag allows, inherited or given |
| `LiveOffersComplete` | what is live is what was scheduled, with both names, components and return policy; it may differ from what was approved (below) |
| `CouponCounted` | uses, redemptions and answers agree through crashes and retries |
| `QuoteSound` | price, tax, benefit and bundle against their reference: a line at an inclusive price is within (300 + rate)/200 cents a unit of the shelf price less the discount, one at an exclusive price carries its tax to half a cent and rate/200 a unit and is dearer than the shelf by rounding only, neither is below zero unless the discount exceeds the net; no cost for who may not see it |
| `CatalogueSound` | one row a key, one factor in force, one verdict a suggestion, a type that history fixes |
| `TotalsFresh` | a total counts every row answered before it was asked for, of one tenant |
| `ReceiptBookedOnce` | a repeated receipt finds the first, by command or by the supplier's number |
| `CentsExact` | discounts and supplier credits add up to the cent |
| `ReversalUndoesReceipt` | a reversal follows its receipt directly in both ledgers and restores quantity and cost |
| `CostLedgerSound` | the cost ledger is a chain that ends at `cost_price`; rounding is within half a cent a unit |
| `EvidenceKept` | nobody rewrites an exception, approves his own, or revives a revoked one |
| `ContextOwned` | an accounting context names the terminal and the cashier it is used for |
| `OneSalePerCart`, `PaymentsWatched` | a cart is sold once; a payment's dialog stands locked until the receipt is printed, unless the session ended, a close asked for before it was answered, or Tab left the dialog |
| `PagesAndReturnsHonest` | a label is over its page or a list that loads; one return an opening of the form |
| `LegacyTakenWhole` | a till that runs has all the sales of the older database, wherever the machine had stopped |
| `UpdateSafe` | versions only go forward, to a published release, over no unsent sale but one saved under the install dialog and those saved while the installer was being started |

Bounds. Two sales are the least that can compete for a terminal sequence, a row of
the outbox or the last unit; one crash can fall at every point of both uploads, and
a second one only repeats the recovery from a state the first has reached. The
retry loop itself is unbounded. Budgets are in the guards (`MaxCrashes`,
`MaxFaults`, `MaxRefusals`, `MaxResets`, `MaxOtherMoves`, `MaxShifts`, `MaxSequence`,
`MaxFailures`, `MaxScheduled`, `MaxSold`, `MaxQty`). Two changes by two writers are
the least that can commit out of order, and with pages of one they make a pull of two
pages. Four commands ship a transfer and receive it in three parts, or drive two
transfers that compete for one stock; two units make a partial receipt, and a second
line makes the status depend on more than one. In the other runs two open requests
are the least that can interleave, and each run lets at least one more come after
them (`MaxRequests`, `MaxEdits`, `MaxEntryCalls`, `MaxTaxCalls`, `MaxExcCalls`,
`MaxPromoCalls`, `MaxAttempts`), so that what a race left behind is used again.
Three tokens are two renewals of one login; three instances are an old release and two
new ones; two codes let a terminal be enrolled again; a `LastDay` of one has a sale of the period
that arrives before, while or after it is closed, and a return on either side of its
end; the `Attempts` are the first, the first under the cap and the first at it, with
hashes that give the least, a middle and the largest jitter; two payments are one left
behind and one on the screen (`MaxPayments`); four clock ticks exceed time to live and lookup
together. Five purchasing steps are receipt, movement, return or reversal, and their
repetition. The amounts of `Quotes` hold every remainder the rates and the quantities
produce at the cent. Requests and tabs are interchangeable: the symmetry exchanges
those of all parts at once, which is sound since no property distinguishes them.
Deadlock is allowed where the system may stop: a wiped till, a branch without customers,
no commands or budgets left.

Fairness (`till_live`, `till_negative`). Weak fairness of every step of the engine
and of the server: Node's event loop and PostgreSQL keep running. Strong fairness of
the timer, which other events may keep replacing, and of a row becoming due, since a
backoff is at most 18 minutes, a quarter of an hour and its jitter. The cashier signs in again after a crash. Outages end
eventually (`<>[][~Outage]_vars`): without that nothing can be uploaded. There is no
fairness for the cashier pressing "Sync now", for the operating system's `online`
event or for a new sale. Local writes succeed in these runs: when both writes of a
sync's end fail the timer is lost, which `FinishFails` models.

Fairness (`catalog`). Weak fairness of the engine's and the handler's steps, where the
engine's timer is set, and of every open transaction's end (PostgreSQL and Prisma's
transaction timeout see to that). An engine that stopped has no timer, and nobody is
bound to press "Sync now". Nothing makes writers write or prices come into force.

### What the violated runs show

* `till_negative`: the server lets stock go below zero, but the till refuses such a
  catalog entry, calls the error unknown, and a sync that ends blocked leaves no
  timer. Sales that wait for a retry then wait for a person.
* `till_pull_race`: the outbox is checked before the compatibility, heartbeat and
  pull requests, and the snapshot is applied after them, over the stock that a sale
  taken meanwhile had reserved.
* `drawer_close_race`: a cash sale that read its shift as open and commits after
  `close` took its sums is in neither.

Also met while modelling, without a run: the loser of a race to create a customer is
answered 409, which the till does not retry; the change a cursor passed over
(`passedOver`) reaches the till only when the variant changes again; a coupon retry
under a used-up cap is refused before its replay is recognised; a tenant may lose its
last owner to two demotions at once. And:

* One closing of a period on a tenant without settings may create two settings rows:
  `closePeriod` runs `getSettings` directly and inside `report` at once, and the only
  unique key is the id. `sellers.repository.ts:109` speaks of a loser whose violation is
  retried as a read; a loser that reads the highest id after the winner's insert has no
  violation.
* `promotion.service.ts:79` edits a draft that is approved and keeps `approved_by`: what
  goes live may never have been approved. It does not call `assertBenefitShape` either, so a
  live benefit may lack its value; where such a promotion has the highest priority,
  `computeBenefit` returns nothing and no other promotion is tried.
* An approver may submit the promotion again after approving it, and be both names.
* The author of a tax code may approve it once a colleague has submitted it
  (`tax-code.service.ts:146` looks at the submitter only): the gap that
  `price-book.service.ts:120` describes and closes for books.
* A discount can make a line dearer: 4 cents net at 14 %, shelf price 4, five pieces, buy
  two get one at 50 % is asked 25 instead of 20, the rounding of a unit multiplied by the
  quantity. A fixed amount above the net, or a percentage above 100, makes an inclusive
  price negative.
* A payment whose screen is taken away (the windows above) is saved with nobody told, or
  refused unseen. F2 moves the focus under an open dialog.
* Sales paid while `shell.openPath` is awaited are in the outbox when the update runs.

## Proofs

`TillSyncProofs` proves `Spec => []TillInv` and from it `TypeOK`, `NoSaleLost`,
`NoConflict`, `NoOrphanedSending`, `[][...]` for `SentIsFinal`, and the refinement
of `SaleLedger`, and `SaleKept`, for any sets of sales and variants, any carts, stock and budgets.
`NoSaleLost` is not inductive: that a favourable answer tells the truth needs what
the wire may hold (`WireInv`), which needs where the engine is (`EngineInv`); that a
replay is recognised needs that what `createSale` read is still true when it commits
(`TxInv`, the terminal's row lock); that no two sales share a sequence needs
`SequenceInv`; that a reset erases nothing needs `ResetInv`; and `RowsInv` ties the
till's rows to the server's invoices. Assumptions: `CartAssumption`,
`StockAssumption`, `BoundAssumption`, which only give the constants their types.

`Sums` holds what the proofs need to know of a sum over a finite set, the form in which
the models write an aggregate of the database: that it is an integer, that any element
may be taken out of it, how it changes when its function changes at one or two elements,
that a sum of naturals is at least each term, that a sum of zeros and ones counts, that terms
within half of m add up to at most that for each (`SumHalves`); and, for
the allocation of cents, that of n ranked elements exactly k have fewer than k before them
(`RankedBelow`), from which follow the largest-remainder rule (`LargestRemainders`) and the
errors of rounded shares (`ErrorsAddUp`). The sum of the community modules is a
recursive function chosen with `CHOOSE`; that it exists and is unique is proved first.
Each fact is shown by taking a smallest subset that contradicts it (`LeastSubset`, from
the minimum principle of a well-founded relation), since no induction theorem of the
library, all of which take a formula as a parameter, can be used.

`ShiftDrawerProofs` proves `OneOpenShift` from: while someone holds the branch's
advisory lock no shift is open, and at most one person holds it. `ReturnsWithinSale`
needs `LineHeld`: of a line at most one return is between its sum and its commit, and
while it is, what was returned leaves room for it. `ClosedShiftOnlyGrows` and `TypeOK`
need only what a request knows at each step (`DrawerInv`). Assumptions: finitely many
sales and returns, and the types of the constants.

`CatalogSyncProofs` proves `Spec => []CatalogInv` and from it `TypeOK`,
`DifferenceAccounted`, `ValidMeansComplete` and with them `CatalogHonest`, for any
variants, writers, page size and bounds. `DifferenceAccounted` speaks of the till's rows and the committed tables
only; what is between them is the pull under way. So the invariant also says that
what the pull has read differs from the tables only by changes committed after its
first statement, and that its page holds every change that statement saw between the
two cursors (`InFlight`); that a change still open behind the cursor was noted when
the cursor went past it (`OpenAccounted`); that sequences are unique and cursors never
ahead of them (`Numbered`, `Bounded`); and it keeps the reasons for the variant part
and the price part of a row apart (`DiskAccounted`), because a delta leaves the row of
an active variant without a price alone. `FinishComplete` is what
`ValidMeansComplete` needs at the engine's last status write. Assumption:
`CatalogAssumption`.

`TransfersProofs` proves `LedgersReconcile`, `TypeOK` and `UsedKeysAreInert` for any
branches, variants, transfers, keys and orders. The argument: each command hands the
database stock and counts that differ by the same movements (`Consistent`); given
that, what the triggers post keeps every ledger equal to what it summarises
(`PostReconciles`). For a shipment this needs that a transfer not yet shipped has
blank lines (`Unshipped`), the strengthening. `UnitsConserved` then follows from how the
two sums, over branches and over transfers, change by the same movements
(`CommandConserves`). `DatabaseAgrees` holds in every state of `AcceptInv`
(`InvariantAccepts`), which adds that a transfer orders something and ships what it
ordered (`DocumentsSound`), that every idempotency key posted so far is for a quantity the
line has reached, so that the next one is new (`PostedReached`), and that a stock row
without movements still has its opening stock, so that the opening balance the trigger
derives is not negative (`UnmovedIsOpening`). Assumption: `TransfersAssumption`, with
finitely many branches, variants and transfers.

The other three proof modules have one section for each part of their composition: the
part's inductive invariant, one lemma an action, and the theorem; a last section shows
that a behaviour of the composition is one of each part (`PartSpecs`) and states the
results about its `Spec`. What the invariants add to the properties is mostly what a
request has *read* and not yet written:

| Theorem | Property | What the inductive invariant adds |
|---|---|---|
| `CartSoldOnce`, `PaymentStaysWatched` | `OneSalePerCart`, `PaymentsWatched` | every payment has a cart of its own, one on the screen at most (`CartsApart`), not yet among the sold ones (`NotSoldYet`); a close asked for outside the dialog is known to the payment (`ClosesKnown`) |
| `ContextStaysOwned` | `ContextOwned` | what each request in flight was sent with, so that the comparison after its await is enough |
| `ScreenStaysHonest` | `PagesAndReturnsHonest` | which answer each list still waits for; which opening a return in flight belongs to |
| `LegacyIsWhole` | `LegacyTakenWhole` | what is on disk at each point of a start, and what the interrupted starts before it left |
| `UpdateMovesForward` | `UpdateSafe` | the offer on the screen is newer than the version; under the install dialog and after it the outbox holds at most what was saved since |
| `ApproverIsAnother` | `ApprovedByAnother` | what an approval has read of the row it will write (`ApprovalsOK`, `TaxCallsOK`) |
| `OnePriceInForce` | `OneInForce` | the slot of a scope is held exactly while it has a default (`HeldOK`); a code and its successor point to each other (`LinksOK`); the versions of an entry are a chain (`HistoryUpTo`) |
| `VersionsShareLifecycle` | `OneLifecycle` | what a replacement found in the scope is a default exactly as long as it is active (`HandOversOK`), so that it retires exactly the rivals (`BookRivals`, `CodeRivals`) |
| `EvidenceIsKept` | `EvidenceKept` | an approval under way is not by who asked |
| `OffersStayComplete` | `LiveOffersComplete` | what a call has read of an offer is still true of it (`PromoMoves`, `BundleMoves`) |
| `CouponSpentOnce` | `CouponCounted` | a request about to reserve has a row of its own that took nothing (`OwnRowsOK`) |
| `CatalogueStaysSound`, `TotalsStayFresh` | `CatalogueSound`, `TotalsFresh` | what a check has found stays true up to its write; how old a count that is shared can be |
| `ReceiptsBookedOnce`, `CentsStayExact` | `ReceiptBookedOnce`, `CentsExact` | the lines of an invoice are those prepared from its paper (`InvoicesOk`), and what went back of each line and was credited for it leaves the rest creditable (`CreditsOk`) |
| `ReversalsUndoReceipts`, `CostLedgerStaysSound` | `ReversalUndoesReceipt`, `CostLedgerSound` | the ledger is a chain of rows whose fields agree (`ChainOk`), its receipts are those of the invoices, one row each (`ReceiptKeys`), and where something was sent back the receipt is no longer the last movement (`SentBack`) |
| `QuotesStaySound` | `QuoteSound` | nothing: each question is answered afresh, and one lemma a function says what the answer is |
| `TenantKeepsOwner` | `MembershipSafe` | while nothing overlaps, the write that was counted for leaves an owner (`WriteSafe`); who lets an identity in has not been overtaken (`InvOK`, `EntryDone`) |
| `PolicyNeverSetBack` | `PolicyForward` | what an instance is about to switch off is not newer than the newest active snapshot (`SeedingOK`) |
| `OneLiveToken` | `SessionSafe` | the token in an answer under way is live and known to nobody else (`TabOK`) |
| `RightsReachRequests` | `RightsTakeEffect` | how old the row a lookup or a cache entry stands for can be |
| `CredentialPerCode` | `TerminalCredential` | credentials are numbered by their issue and each used its code up; what the requests at the desks have checked |
| `PeriodsReproducible` | `CommissionReproducible` | what a request has read of a range that is over is what the books still say (`Honest`); a second row, or a lookup about to create one, has met another that found none |
| `FailureMetAsDeserved` | `FailureVerdict` | every answer under way is one that fits the reason it was given for (`AnswerOK`); the jitter is less than a fifth of the delay; the evidence at the till is a refused heartbeat on record |

Two arguments of `Purchasing` are worth following. That `preparePurchaseReceipt`'s check of
its own allocation never refuses: the shares rounded down miss the discount by the sum of
the remainders over the subtotal (`RemaindersAddUp`), which is less than the number of
lines; in the order of the remainders exactly that many lines have fewer before them
(`RankedBelow`), so the cents handed out are the cents left, and each goes to a line with a
remainder, which has room for it (`LargestRemainders`, `AllocationFair`). That a credit is
exact in the end: whatever a return's rounded price is, it is capped by what is left of the
line, and the last units take all of that (`CreditStep`).

The arithmetic of `Quotes` rests on one fact about `money`, that it is within half a cent
(`CentsIs`). With it the inclusive and the exclusive tax are exact (`InclusiveExact`,
`ExclusiveExact`), and every share of a bundle's price is off by half a cent at most
(`ShareIs`). The errors of all shares add up to what the shares miss of the price
(`ErrorsAddUp`); the last part takes that, so its error is the sum of the others' errors
with the sign changed (`PartsAddUp`), and that sum is bounded term by term (`SumHalves`).
That the walk over the levels finds the best entry uses that the first position with a
candidate exists (`FirstPosition`, from `LeastSubset`) and that a level's rank is its
position (`LevelRanks`, `WinnerIsBest`). What a discount leaves is bounded per unit and
multiplied by the quantity, as the code does (`InclusiveLeft`, `ExclusiveLeft`,
`BenefitIsWithin`). The proof also showed the arms of `TaxSplit`'s
`CASE` to overlap for an exempt customer with an inclusive price, where TLC takes the
first arm and TLA+ promises neither; the arms there and those of
`CompareVersions` and `classifySyncError`, which overlapped too, now exclude each other in
the order of the code.

Assumptions: those the modules state about their constants, all evaluated by the runs:
sets are finite where they are counted, bounds and times are naturals, a tenant starts
with an owner (`MembershipAssumption`), no clerk of the tax codes has the identity that
stands for the null of `submitted_by` (`TaxClerksAssumption`), the policy versions have a highest one
(`PolicyAssumption`), the plans contain the default (`SellerAssumption`), the number of
counts the cache keeps is a natural (`CacheAssumption`), papers are what the DTO lets through (`PurchasingAssumption`) and the
invoices booked before the cost ledger have numbers of their own, as the migration leaves
them (`LegacyAssumption`), and prices are cents and not negative, a line has a unit, a bundle
a component, and a promotion's cap, where it has one, is at least one, a zero being no cap to
`computeBenefit` (`QuotesAssumption`), and the hash of a jitter is a natural
(`HashAssumption`). Two theorems need more than types. `UpdateMovesForward` has
the hypothesis `InOrder`: the constant lists the releases in the order
`CompareVersions` gives them, which the five releases of the run satisfy; that the
comparison is the order of semantic versioning is what the run checks.
`PolicyNeverSetBack` needs the greatest of a set to exist, which it too gets from the
minimum principle (`WFMin`).

Only model-checked: liveness (`SaleEventuallyResolved`, `CatalogConverges`), since
fairness and `ENABLED` are outside the prover's reach. Every safety invariant and every
action property of a passing run, and both refinements, are theorems. `ApprovedByAnother`
follows from `OneLifecycle` and is stated as a theorem only.

## Plan

Done: `TillSync` first, since a lost or doubled sale is the worst the system can do;
then `ShiftDrawer`, `CatalogSync` and `Transfers`, each with its proofs; then
`Purchasing`, the back office, commerce and the counter; then the theorems about the
last three, and the lifecycle that books and codes share. Next:

* Compositions of what shares state: an upload with the shift it names (`TillSync` and
  `ShiftDrawer`), the register with the outbox (`Register` and `TillSync`), stock
  through sale, return, transfer and purchase.

## Not modelled

Reports and notifications only read or send. Layout, wording, printing and the forms of
the admin web over the API carry no state of their own. Scripts, seeds, the performance
harness, configuration and the wiring of the Prisma client are tooling. Log redaction,
checksums, encryption, password hashes and JWT signatures are functions of one value and
external here. The end of a shift's close is `ShiftDrawer`'s: `Register` stops at the
counting of the drawer. Of the modelled parts `PROJECT.json` says what is left out: branch
access and audit rows, manual stock adjustments, tenant creation, tax categories, the
number codecs of the local migration. Apart from manual adjustments, which meet sales
at a stock row as transfers do, no interleaving or failure decides their correctness.
