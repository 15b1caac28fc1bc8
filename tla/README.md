# A formal model of Hadoum

The Hadoum back office runs an orphanage: stock, expenses and budgets, donors, contracts,
visitors, assets, staff, children. It is an API (`src/hadoum_api`, NestJS and Prisma over
PostgreSQL) and a single-page application (`src/hadoum_frontend`, React). The hard part of
the API is the same everywhere. A user submits an operation, a second user approves it (the
*four-eyes* rule), and the operation is then carried out, by HTTP handlers that read a row,
decide, and write several awaits later. The database runs at its default isolation (READ
COMMITTED; nothing in the source sets another), so two handlers interleave at every await,
and only row locks and guarded `updateMany` writes order them. The hard part of the
application is that it keeps by hand what it shows, from calls that may be answered in any
order, fail, or take effect and be reported as failed. The modules of this directory model
the handlers statement by statement and the pages call by call, check them with TLC, and
prove with TLAPS what holds for any number of calls, rows and users.

## 1. Inventory

Paths of the API below are under `src/hadoum_api/src`, those of the application under
`src/hadoum_frontend/src/app`. `PROJECT.json` lists the same components, with what is
modelled of each.

| component | state | operations | talks to | what is hard | what makes it correct |
|---|---|---|---|---|---|
| stock-items | `StockItem`: quantity, active flag, unit cost, pending action and payload | create, entry, exit, adjustment, count, transfer, archive, update, approve, reject, request changes | validations (before its own transaction), stock-movements (inside it) | each handler decides on a row it read earlier; a review is three separate commits | no negative stock; sensitive movements approved by another; an approval applied once, and the one that was submitted |
| stock-movements | append-only ledger | `record`, in the caller's transaction | stock-items | the quantity before is a stale read | every change is in the ledger, which can be read back |
| validations | `ValidationRequest`, polymorphic over the resource | create, reviewPending, lists | every approval workflow | find then insert, find then update by id | at most one pending per resource; nobody reviews their own |
| finances: workflow | `Transaction.expenseWorkflowStatus` | submit, approve, reject, resubmit, complete, cancel | budget, validations, in one transaction | some writes are guarded, some are not | moves only along the table; agrees with its requests |
| finances: budget | `BudgetLine` per category and month | lock, three sums, upsert, delete, defaults | workflow | aggregates that see different moments | reservations fit the budget |
| finances: transactions | the financial fields, the link to a donation, files | create, PATCH, delete, uploads | budget, donations, upload | a lock on fields tested on a stale read | what was approved does not change |
| donations, campaigns | `Donation` with an idempotency key, `Campaign` with a status | create, update, transition, alerts | finances (one transaction) | retries with the same key; a campaign that closes meanwhile | one donation and one transaction per key; the table of campaign transitions |
| donors, communications | `DonorProfile`: type, recurring fields | create, update | donations | recurring fields recomputed from a stale type | a one-time donor has no monthly amount |
| donor-reports | `DonorReport` status, photos, PDF key | create, generate, mark sent, photos | upload, communications | generation is slow and overlaps with sending | a sent report does not change, and is sent once |
| supplier-contracts, administrative-procedures, entry-logs, maintenance-tickets, activities, fund-requests | a status and a pending action | create, submit, approve, reject, edit, archive | validations | the action approved is read before the request is closed; edits and archives do not ask whether one is pending | the status and the pending request agree; a refused or archived row does not come back |
| inventory-assets, goods-movement-logs | asset status, assignee, open exits | assign, transfer, dispose, exit, return, approve | validations, each other | an open exit is looked for when requested, not when approved | one open exit per asset; a disposed asset does not move |
| incidents | status and its history, attachment | create, edit, change of status, delete | upload | history written from a stale read | the history is a chain that ends at the status |
| staff | three tables of persons, files, attendance | create, edit, promotion, exit, reintegration | upload | a person moves between tables while others edit | a person is in one table |
| contacts | `Contact`, `ContactCategory` | create with a search of similar ones, force, update, deactivate, reactivate, close a category | every form that names a contact | the search and the insert are two statements | active contacts have no unknown twin, and an active category |
| children, spaces, reports | records and documents | CRUD, uploads | upload | documents beside their rows | a row names a file that is there |
| upload | objects of the storage, by key | upload, delete | every service with files | nothing writes an object and a row at once | as above |
| notifications | one row per recipient | create, createForRole, read | every service | alerts looked for, then created | an alert reaches every director, once |
| auth, guards | users, tokens with a role and an expiry | login, reset, guards | every controller | roles are written again in the menus | a menu offers what its role may call |
| application: pages | the list shown, the open form, calls in flight | load, save, act, remove, filter | the API | late answers, failures, second clicks | the list is that of the server; a form takes effect once |
| application: session | user and token in the browser | login (real or demo), logout, expiry | auth | answers of an earlier session | nobody else's 401 logs a user out |
| application: contact box and form | text, category, latest request; panels of the form | type, choose, create, retry | contacts | answers overtaken; a photo that fails | the list is what is asked for; a saved contact is picked |
| audit-logs, metrics, dashboard, health, scripts | rows, counters | written after the answer; reads | everyone | nothing reads them back to decide | |

The hazards, each at its line and with the properties that cover it, are the list
`hazards` of `PROJECT.json`.

## 2. Plan

Order of the modules, the most important first:

1. `StockItems` (done): the item, its ledger, its validations; proofs in `StockItemsProofs`.
2. `ExpenseBudget` (done): workflow, budget, transactions; proofs in `ExpenseBudgetProofs`.
3. `Donations` (done): donations with their idempotency key, campaigns, and the guards of
   finances on a transaction that a donation owns. It implements the abstract
   `DonationLedger`; proofs in `DonationsProofs`.
4. `AdminResources` (done): what the services with a validation share (`ReviewedResources`),
   one module per service, and the windows that offer their operations (`ResourceScreens`);
   proofs in `AdminResourcesProofs`.
5. `BackOffice` (done): the parts that share no state with the others, a module each:
   `StoredFiles`, `DonorReports`, `Team`, `ListPages` with `ListPageTable`, `Menus`,
   `Contacts`, `ContactSearch`, `Alerts`, `IncidentHistory`, `DonorProfiles`; proofs in
   `StoredFilesProofs`, `ServicesProofs` and `ScreensProofs`, and for the whole in `BackOfficeProofs`.
6. Left aside: an abstract stock ledger (a quantity and a list of signed changes) refined by
   `StockItems`, since `EveryChangeIsRecorded` and `LedgerTellsQuantities` already say what it would; the cache of
   budgets in the finances page.

## 3. Modules

### Conventions

A handler (one HTTP call) is a process `r \in Requests`: `pc[r]` is its next step and
`local[r]` what it holds in memory. `Start...` is its first read and the checks after it;
a handler that those checks refuse changes nothing and is not a step. Each later action
is one awaited statement, or one transaction whose first statement locks the one row every
competitor needs. `Fail(r)` is a statement that fails or a process that dies: what was
committed stays, the open transaction is rolled back, its locks are released. Roles follow
the `@Roles` of the controllers. Operators marked "Mutant" are not part of the model: each
is a plausible mistake in the operator that follows, which a named property catches.

### StockItems

State: `item` (the `StockItem` row), `movements` (its ledger in commit order), `validations`
(its requests), `pc`, `local`, `faults`. Some fields are history that the database does not keep. Of a
request: `op`, the operation it was created for; `applied`, what was carried out on its approval;
`together`, whether two reviewers found it pending at the same time; `failed`, whether an approval of it ended
before its operation was carried out. Of a movement and a handler: `read`, how many movements there were when
the quantity before was read.

| code (`stock-items.service.ts`) | actions |
|---|---|
| `createEntry`, `createExit`, `createAdjustment`, `createInventoryCount`, `createTransfer`, `archive`, `update` | `StartEntry`, `StartExit`, `StartAdjustment`, `StartCount` then `Recount`, ...; `ApplyEntry`, `ApplyExit`, `ApplyAdjustment`, `ApplyTransfer`, `ApplyArchive`, `ApplyUpdate` |
| `submitPendingOperation` with `ValidationsService.create` | `SubmitFind`, `SubmitInsert`, `SubmitMark`: three commits |
| `approve`, `reject`, `requestChanges` with `reviewPending` | `StartApprove`, `StartRefusal`; `ReviewFind`, `ReviewUpdate`; `DecideArchive`, `DecideStock`, `DecideRefusal` |

Abstracted: the three loss types are one (`PERTE`); quantities are whole; a missing unit cost
is 0; names, units, expiry and documents are left out. The thresholds of
`stock-items.constants.ts` are constants of the module.

Three properties say how much of what one expects of a stock remains when calls overlap:

* `ApprovalsAreCarriedOutOnce`: an approved request is carried out once, and not at all only if its approval was
  refused or died at its last step; nothing else is carried out. The one exception is two reviewers who found the
  request pending at the same time, which `stock_double_approval` exploits.
* `LedgerTellsQuantities`: the ledger can be read back. It ends at the stock of the item, a movement states a change of
  what those before it left, and starts from a quantity the ledger shows: for an exit or an approved operation the very
  last, for the others the one their handler read first, which may be old.
* `OnlyLateMovementsOnceArchived`: a movement reaches an archived item only with an approval, or by a handler that had
  read it before, and then takes nothing out of the stock. (An entry, a transfer or a positive adjustment does not
  test `isActive` again when it is applied.)

### ExpenseBudget

State: `expenses`, `budgets`, `validations` per expense, `holder` (the row lock of each budget
line), `pc`, `local`, `faults`; and the history `overtaken` (approvals in flight whose figures a step of another
handler has changed) and `moved` (decided expenses whose line, amount or type has changed since).

| code | actions |
|---|---|
| `expense-workflow.service.ts` submit, resubmit | `StartSubmit`, `StartResubmit`; `Submit`, the transaction of the guarded write and the new request |
| approve | `StartApprove`, `LockBudgetLine` (`SELECT ... FOR UPDATE`), `SumFirst`, `SumSecond`, `SumLegacy` (one statement each, since a transaction uses one connection), `Close` |
| reject | `StartReject`, `Close` |
| complete, cancel (`performTransition`) | `StartLifecycle`, `ApplyLifecycle`, by id and unguarded |
| `finances.service.ts` create, PATCH, delete | `Create`, `StartUpdate` and `ApplyUpdate`, `StartDelete` and `ApplyDelete` |
| `budget.service.ts` upsert, delete, ensureDefaults | `SetBudget`, `DeleteBudget`, `EnsureDefaults` |

Abstracted: a "line" stands for a category and a month; files and supplier contacts are
left out. A transaction that has written its expense row holds that row until it ends,
and what it writes afterwards is only touched by holders of the row, so the write and
what follows are one step.

All calls may overlap. Three of them are not held back by a guard or by the lock of the line, and the properties say
what that costs and no more: complete and cancel may write over one another (`OnlyAllowedTransitions`); a PATCH that
read an expense before its approval may change it afterwards (`OnlyLateUpdatesMoveReservations`); an approval may take
its line beyond the budget if a PATCH or a creation changed, after it began, the figures that it goes by
(`ApprovalFitsBudget`, through `overtaken`). Of the second kind there is one more twist: an update
that read the expense decided passes the check if it repeats the amount, and then writes it back over what a late
update has made of it; `moved` is there for that.

### Donations and DonationLedger

State: `donations`, `transactions`, the status of each of the `campaigns`, `activeDonors`, `pc`,
`local`, `faults`, and one history, `answers`: the donation that each answer to a `POST`
named, with the key of the call. A row bears the name of the call that makes it, so a donation and
its transaction (`Donation.transactionId`) have the same name; `madeBy` is history too.

| code | actions |
|---|---|
| `donations.service.ts` create | `StartCreate` (the look-up of the key), `CheckDonor`, `CheckCampaign`, `InsertTransaction`, `InsertDonation`, `Commit`, `Reread` (after P2002), `AnswerDonation` |
| `finances.service.ts` createTransaction, updateTransaction, deleteTransaction | `CreateTransaction`; `StartFinance`, `CheckLink`, `WriteTransaction` |
| `campaigns.service.ts` activate, terminate, cancel | `StartTransition`, `MoveCampaign` |
| `donors.service.ts` deactivate, reactivate, and those of the contact | `SetActive` |

What the transaction of `create` inserts is seen by others from its commit on. The unique index
is stricter than the reads: an insert with a key that an open transaction holds waits for it
(`KeyInFlight`), then fails or not (`KeyTaken`). The empty string is a key of its own: the
DTO lets it through, the handler does not look it up, and the index stores it, so a second
donation with it is refused and rolled back.

`DonationLedger` is what the comments of `DonationsService` promise, without handlers: `Record` adds
a donation and its entry in one step, under a key no other bears, and nothing ever changes or
leaves; `Answer` names a donation that bears the key of the call. `Donations` maps its rows to it with
`INSTANCE DonationLedger WITH gifts <- Gifts, credits <- Credits`, where `Credits` are the
transactions made for donations *that are still income of category DON*: an entry that Finance
reclassifies would be a credit that leaves.

Abstracted: type and category are `DON` (an income of that category) or not; of the protected
fields, kind and amount; dates, names and payment methods behave as the amount does.

### AdminResources and its services

`ReviewedResources` is what eight services have in common. State: `rows` (one row per item, with
its status, its class, its validation and its pending action), `pending` (the open requests), `pc`
and `local` per handler, `faults`, and the history `clean`: no two handlers have overlapped and none
has died so far. A handler is its first read with the checks that follow (in the module of the
service), then the statements of one of four patterns:

| code | actions |
|---|---|
| a direct operation: read, check, `update` by id | `StartWrite`, `Write` |
| a creation | `Insert`; with a request, `StartRecord`, `Record`, then a submission |
| `ValidationsService.create`, then the mark of the row | `Find`, `InsertRequest`, `Mark` |
| `reviewPending`, then the update of the row | `Look`, `Close`, `Apply` |

| module | service | operations |
|---|---|---|
| `SupplierContracts` | supplier-contracts | creation with its request in one transaction, update, renewal, termination, archive, decisions |
| `AdministrativeProcedures` | administrative-procedures | creation, update (with the statuses set by hand), submission, finalization, renewal, archive, decisions |
| `MaintenanceTickets` | maintenance-tickets | creation, update, assignment, closure, submission of a closure, decisions |
| `InventoryAssets` | inventory-assets | creation, update, assignment, transfer, disposal, archive, decisions |
| `EntryLogs` | entry-logs | creation, update, correction of a departure, check-in, check-out, cancellation, refusal, archive, decisions |
| `GoodsMovementLogs` | goods-movement-logs | creation, with or without its request, update, return, archive, decisions |
| `Submissions` | activities, fund-requests | creation, approval, refusal |

`ResourceScreens` holds the windows of the application about these rows: `Offered` is what the
window of a row shows to a user, `Accepted` what the service lets pass: the checks of its operations, each named in
the module of the service (`CanSubmitContract`, `CanCheckIn`, ...) and used there as the guard of the action, and what
`ValidationsService` finds next (`CreateAccepts`, `ReviewAccepts`). `AdminResources`
composes them and states the properties. What they say, besides their comments:

* Serially, a row and its requests agree (`RequestsAgree`), and what is submitted stays sensible
  until it is decided (`PendingStaysSensible`) but for three doors that the code leaves open: a
  contract can be archived while its validation is pending (and is then made active again by
  the approval, which is why contracts are left out of `ArchivedStaysArchived`), a procedure can be given any status
  set by hand, goods whose archive was asked for can come back.
* What is kept for a decision is decided by another than the submitter whatever overlaps or dies
  (`SensitiveChangesAreDecided`), except where the need of a decision is itself read first, and
  where a refusal writes back the status as it was read (goods): there it holds in clean behaviours.
* An asset that is out may go out again (`AssetsGoOutOnce`): every exit waits for its approval before it counts as
  one, and the approval does not look whether another was approved since. No overlap is needed.
* `OfferedIsAccepted` compares the two places where the conditions are written. A procedure displayed as EXPIRE
  only loses buttons; the assignment of a ticket and the status of a ticket or an asset are offered by
  no window; activities and fund requests have no decision buttons. The pages of tickets and of
  the register are in the source but not routed (`routes.tsx:66`, `:70`).

Abstracted: terms and dates of contracts and procedures, the place of an asset and who has it, the
hours of an entry. All exits that name an asset name the same one. A closed request is never read again, so
only the open ones are kept.

### StoredFiles

`uploadService.upload` and `deleteFile` against the writes of the services, for every place of the database
that names a file. A slot has a kind (`SlotKinds`), which is the sequence of awaited calls of each of
its operations as its service orders them: an incident's attachment deletes, uploads, writes; a purchase
order uploads, writes, cleans up; a document of a child is replaced without deleting the old one.
State: `there`, `named`, `stored`, `fileSteps` and `handling`, and the history `lost`.
`RowsHaveTheirFiles` confirms, under any overlap and death, the comment of `contacts.service.ts:334` and
`finances.service.ts:416` ("a mid-operation failure never leaves the field pointing at an already-deleted
object") for the slots it speaks of, and says which others may name a file that is gone.
Files that nothing names any more stay in the storage and are no violation. The files of one
transaction are looked at slot by slot; a contact is never removed, so its slot has no removal.

### DonorReports

`donor-reports.service.ts`: `StartCreate`, `InsertReport`; `StartGenerate`, `CheckDonor`, `Build`, `Render` (the
drawing and the upload), `UpdateReport`; `StartMarkSent`, `Send` (the transaction of the status and the communication); the photos,
uploaded, approved and deleted. `ChangeDonorType` is what an update of the donor does meanwhile. A
generation that overlaps the sending leaves a report GENERATED that has its communication, and
two sendings write two communications, although `markSent` is described as idempotent
(`donor-reports.service.ts:292-299`): `SentReportsAreCommunicated` says what remains true.

### Team

The three tables of `StaffService` and the page that shows them. A chain is the sequence of calls behind one button
(move, edit, get, show); any call may fail, and what the page then believes is part of the state.
`EveryoneIsOnOneList` is about the tables whatever happens, and about the page unless it went
`astray`: it cannot know of another browser's change, and a chain that fails half-way does not tell it of the half done.

### ListPages and ListPageTable

Every other page that shows a list. `ListPages` is the life of one page: the first load, forms
that open, save (`SubmitForm`, `Save`, `SaveFails`, `SendFile`, `FileFails`), and close, a file that is sent again by itself
or given up (`ResendFile`, `GiveFileUp`), rows that are removed, answers that are taken in
(`ShowAnswer`) or followed by a load (`ReadList`, `ShowList`). `ListPageTable` gives the 24 pages and windows
as records: how the save button is held, what a file that fails does, how the answer is shown, what
the server makes of a second call. The buttons of a detail window (archive, close, check in, record a return) are forms that
nothing holds. One file stands for the three documents of an expense, which are sent one after the other; the buttons that
remove a document from the form, and those that send or remove one from a detail window, change the documents and not the list,
and are left out. What the properties leave out is what the code does:

* a late answer closes whichever opening of the form is open;
* a list loaded in the background can put back what a later answer changed; a list captured when
  the call was sent (attendance, documents of a child) brings back or loses rows when calls overlap;
* a form whose button is never held makes a second row on a second click; one whose flag is not reset
  cannot be saved again after a failure until it is reopened;
* a form of incidents, attendance or a new child or member whose file fails fails as a whole, and saving it
  again makes a second row. The form of an expense stays open to send the file alone, as its comment says
  (`FinancesPage.tsx:135-138`), and tells the page of what was saved only when it closes; if it was left before the
  file failed, the page is not told;
* edit forms send every field as shown, so the last one saved wins.

`budgetCache` of the finances page (`FinancesPage.tsx:647-702`), which shows stale figures after a decision made elsewhere, is not a
list of rows and is left out.

### Menus

A browser: `session`, `onPage`, login attempts, expiry, and the calls of each page `unanswered`. The menus are
those of `Sidebar.tsx` (`NAV_BY_ROLE`), the calls those each page sends as it opens, `Allowed` the `@Roles` of the controllers.
`MenuPagesLoad` has one exception: the menu of the BOARD has `/app/reports`, and `ReportsController` lets
directors and supervisors in only. The belated 401 of an earlier session throws out the user who logged in since
(`services/api.ts:46` asks nobody); a demo session, which has no token, is thrown out by its first
call; a demo login under way may replace a real session. Other tabs of the browser are left out.

### Contacts and ContactSearch

`Contacts` has the services and the form: `StartCreateContact` (category, similar contacts), `InsertContact`, `StartUpdate`,
`UpdateContact`, `Deactivate`, `Reactivate`; `CreateCategory`, `StartCloseCategory` (the count), `CloseCategory`; and
`ContactFormModal` with its panels (fields, a similar contact proposed, a photo to send again). Two contacts are
similar if they share a *mark*: phone, e-mail, or name within an organisation. `ContactsAreSought` says which twins
and which orphans of a closed category can exist: a re-activated contact may be in a closed category, which
the comment of `contact-categories.service.ts:60-62` means to exclude. `SavedContactIsPicked` follows the form through duplicates,
forced creations and photos.

`ContactSearch` is `useContactSearch` in its box: a pause after every change, a request, answers in any order,
those superseded ignored. The categories a caller allows are known only once they have been listed.

### Alerts

No clock sends alerts: the reading of a list looks, per row and per condition in turn, for a notification of that
type about the row, and if there is none creates one for every director, all at once and each by its own statement. The reading
goes on when all are created or as soon as one fails (`Promise.all`); the others go on by themselves. Eight services repeat
this; campaigns and donor reports swallow what fails and go on, the others let it fail the list (`swallows`). Actions:
`ReadAlerts`, `LookForAlert`, `CreateAlert`, `CreateAlertFails`, `ReadingDies`. The conditions are chosen at each reading.
`AlertsComeOnce`: a director is told twice only if an alert was looked for while another reading was sending it; and one whose
notification failed is never told once a colleague was.

### IncidentHistory

`changeStatus` of incidents: `StartChange` (the read and its check), `InsertEntry` and `UpdateStatus` (one transaction), `DeleteIncident`. Entries are in the order of
their dates; one that is not committed bears its handler, and goes with it (`ChangeDies`). `HistoryTellsTheStatus` holds of the whole chain when changes do not overlap, and says what is left when they do.

### DonorProfiles

A profile's type and the two fields only a sponsor has. `StartUpdateProfile` reads the row and computes the two from
the type to come (`Resolved`, which is `resolveRecurringFields`), `WriteProfile` writes them by id, named or not,
and the type only if named; `UpdateDies`. The comment of `donors.service.ts:77` says a one-time donor can
never keep a monthly amount; `RecurringFollowsType` finds that so unless the last update crossed another, and the
next one that crosses none clears it again.

### BackOffice

The parts above from `StoredFiles` on share no state. `BackOffice` lets a behaviour be about one of them while the others stay as they
begin; interleaving them would multiply the states and show nothing more, since no step of one reads what another writes.

## 4. Runs

| run | cfg | shows |
|---|---|---|
| stock_races | `StockRaces` | any overlap of three calls, one of which may die: `QuantityNeverNegative`, `SensitiveMovementsAreApproved`, `EveryChangeIsRecorded`, `ArchivedItemsLoseStockByApproval`, `ApprovalsAreCarriedOutOnce`, `LedgerTellsQuantities`, `OnlyLateMovementsOnceArchived` |
| stock_serial | `StockSerial` | four calls one after the other: `AppliedIsWhatWasSubmitted`, `PendingAgreement`, `StockIsArchivedByApproval` |
| stock_double_approval | `StockDoubleApproval` | refutes `AppliedAtMostOnce` |
| stock_stale_payload | `StockStalePayload` | refutes `AppliedIsWhatWasSubmitted` when calls overlap |
| expense_budget | `ExpenseBudget` | the workflow under overlap: `PendingAgreement`, `DecidedByAnother`, `ApprovalFitsBudget`, `OnlyAllowedTransitions`, `OnlyLateUpdatesMoveReservations`, and `HandlersEnd` |
| expense_locked | `ExpenseLocked` | refutes `ReservationsAreFrozen` with a PATCH that overlaps an approval |
| expense_income | `ExpenseIncome` | refutes `IncomeStaysOut`, one call after the other |
| donations | `Donations` | three calls that overlap, one of which may die: `LedgerMatchesDonations`, `RetriesAgree`, `DraftsHaveNoDonations`, and the refinement `ImplementsLedger` |
| campaign_closed | `CampaignClosed` | refutes `OnlyAllowedTransitions` with two transitions that overlap |
| admin_resources | `AdminResources` | one row of any of eight kinds, two handlers that may overlap and one that may die: `RequestsAgree`, `PendingStaysSensible`, `OfferedIsAccepted`, `SensitiveChangesAreDecided`, `ArchivedStaysArchived` |
| movement_twice | `MovementTwice` | refutes `AssetsGoOutOnce` with two movements of one asset, one call after the other |
| back_office | `BackOffice` | a behaviour about one of ten parts: `RowsHaveTheirFiles`, `SentReportsAreCommunicated`, `EveryoneIsOnOneList`, `PagesShowTheirRows`, `FormsSaveOnce`, `MenuPagesLoad`, `ContactsAreSought`, `SavedContactIsPicked`, `ListIsWhatIsAsked`, `AlertsComeOnce`, `HistoryTellsTheStatus`, `RecurringFollowsType` |

**Serial and concurrent.** The three properties of `stock_serial` are what the service gives when
calls do not overlap. `stock_stale_payload` shows that an overlap takes the first away, and the other two fall with it: a
review that finds the stock short leaves the item pending with its request closed, and stock comes in after an
empty item was read. They are still worth checking serially: an operation refused, resubmitted, counted and archived in an
unexpected order must not carry out something else. `StockItemsProofs` proves them for any number of serial calls, and the eight
of `stock_races` for any number of calls that overlap or die.

**Bounds.** Stock: an item of two units, where removing one is routine and removing two is
sensitive (by quantity, and by value once the unit cost is 6), adjustments of -2, -1 and 1
around the threshold of 50 %, counts above and below. Three overlapping calls are a
submitter and two reviewers, or two removals and an archive: each race of the code involves
two handlers, a third makes the state that the race needs. Four serial calls are: submit,
refuse, resubmit, approve. `MaxInFlight` bounds the overlap and `MaxFaults` the deaths.
Expenses: two expenses of amounts 1 and 2 on a line of 3: each fits, both fit together, and
two of amount 2 do not. Books start with submitted expenses (a state the service reaches by
create and submit, which are actions too) so that three calls reach approval against approval.
A PATCH body gives one field (`OneField`): bodies with several fields are checked by the same
guard and written by the same statement.
Donations: three calls, one key and the empty one, one campaign, one donor and two amounts, so that
a retry may come with another body: two donations and a PATCH or a deletion,
a donation between two transitions, or a first try, its retry and a third that finds either. The
theorems cover any number.

Administration: one row of any kind, one director, one supervisor, one educator, two overlapping
handlers, one death. Every property speaks of one row and its requests; a race needs two handlers, and
what they leave behind is met by the next calls, whose number is not bounded (`MaxIds` bounds the requests open at once, which
serially is one). Two types of entries suffice, the one whose exit is validated and one other, and one way of disposal. With one row the
open exit of an asset never refuses a movement: `movement_twice` has two, and one handler.
Files: one slot of any kind, three keys (a file, and two replacements that overlap), two handlers.
Reports: one report with one photo, two generated files, two handlers. Team: three rows and three
versions of a row, two calls of the page in flight, other browsers at will; nothing new begins once the page has gone astray (`IsFollowed`).
Pages: two rows, two calls in flight, two openings of forms, three changes of a row: a call that is
answered late meets another opening, and another row. Menus: the four roles, two sessions one after the other, two pages.
Contacts: two contacts with one mark and one category, two handlers. Search: two texts, three categories, and one request
overtaken, since each answer is compared with the latest only. Alerts: two conditions, two directors, two
readings. Incidents: three entries, a status to begin with that may be a legacy one, two changes. Profiles: either
type, both fields, two updates; a third adds nothing, since a write makes all the others stale alike.

**Sizes.** `stock_races` has 376834 states and `stock_serial` 330999, both up to the symmetry of calls and supervisors;
`expense_budget`, without symmetry since it checks liveness, 600559; `back_office` 2.4 million. In `expense_budget` all twelve
calls overlap: nothing is left out but a fourth call.

**Fairness.** `HandlersEnd` assumes weak fairness of *some* handler step: the event loop
resumes an await that can be resumed. No order among handlers, no fairness of clients and no
absence of failures is assumed. It shows that a handler that dies holding a budget line, or that
is refused in the middle, releases it.

`CHECK_DEADLOCK FALSE` everywhere: a behaviour has finitely many calls, or versions of its rows, or files,
and stops where that bound or the business itself (a row that is gone, a page that went astray) leaves nothing to do.

## 5. Theorems

Each holds for every value of the constants that meets the assumptions of the modules: no bound on
calls, overlap, faults, rows or versions. What the assumptions ask: a "none" is not one of the values it
stands beside; amounts and quantities are positive, thresholds, budgets and the bounds of the runs (`MaxFaults`,
`MaxIds`, ...) naturals; expenses and contact categories are finite sets (a table has finitely many rows, and their
amounts are summed); roles of the administration are disjoint; the pages given to `ListPages` are of the forms that its
header describes (`PagesAssumption`).

Most properties are not inductive alone, since a handler writes what it decided on a row that has
changed since. The invariants below say what its memory still guarantees. A proof has one lemma per action, and under it a step for each part the action can disturb.

### StockItemsProofs

Whatever overlaps or dies: `TypeCorrect`, `StockSafe` (`QuantityNeverNegative`), `FourEyes`
(`SensitiveMovementsAreApproved`), `LedgerReadsBack` (`LedgerTellsQuantities`), `ApprovalsCarryOutOnce`
(`ApprovalsAreCarriedOutOnce`), and the action properties `LedgerExplains`
(`EveryChangeIsRecorded`), `ArchivedStockIsGuarded` (`ArchivedItemsLoseStockByApproval`) and `ArchivedStockMovesLate`
(`OnlyLateMovementsOnceArchived`).

`IInv`: the signed quantity agrees with the call (`SoundHandler`), a stored payload moves stock the
way its type says (`SoundPending`), a direct exit or adjustment was routine on the values it will
record, and what will be applied directly was read on an active item (`AppliesRoutine`), and a reviewer past the test of
self-review holds a request that somebody else submitted (`HoldsRequest`). Every action keeps the handlers it does not run
(`OneHandlerMoves`). `LedgerInv` adds that what a handler read first is a quantity the ledger shows (`ReadsLedger`), which
later movements do not change. `ReviewInv` is about a request that no two reviewers found together (`ReviewedAlone`):
one handler at most holds it, it is pending until that one closes it, and what is carried out for it is
carried out by that one.

When no two calls overlap and none dies (`OneAtATime`, the constants of `stock_serial`; the
refuting runs show that it is needed):
`ApprovalsApplyTheirOwn` (`AppliedIsWhatWasSubmitted`), `ItemAndRequestsAgree`
(`PendingAgreement`) and `StockIsNotArchivedAlone` (`StockIsArchivedByApproval`).

`SerialInv`: between two statements the item and the requests disagree by what the one
handler has still to write and by no more (`At`, one case per step), and a pending item stays active and keeps
the stock its operation takes (`AwaitsBearable`), so no approval is refused half-way.

### ExpenseBudgetProofs

Whatever overlaps or dies: `TypeCorrect`; `RequestsAgree` (`PendingAgreement`): the state of an
expense and its requests change together; `DecisionsAreReviewed` (`DecidedByAnother`): what is
approved, completed or cancelled was approved by somebody else than its author. `IInv` adds that
a row not yet created was never submitted, and that what complete and cancel are about to
overwrite is already decided (`OverwritesDecided`), which is why their missing guard cannot break
the four-eyes rule.

Three more are about steps, again whatever overlaps or dies: `TransitionsAreAllowed` (`OnlyAllowedTransitions`),
`ReservationsMoveLate` (`OnlyLateUpdatesMoveReservations`) and `ApprovalsFitTheirBudget` (`ApprovalFitsBudget`). Each names the
overlap that the code does not hold back, and shows that there is no other. They follow from what a step of a handler looks
like (`Shape`: it writes at most one row, and in one of four ways) and from what the handler knows of that row:

* `CallsInv`: complete and cancel go on from an expense they found approved, so that what they write over can
  only have become completed or cancelled since.
* `FrozenInv`: an update that read its expense decided repeats its figures (`KeepsFigures`), and changes them only where
  an update that read it earlier has changed them before.
* `BudgetInv`, below, for the approvals that nobody has overtaken.

`BudgetInv` is why the three sums of an approval, each read by its own statement,
do not miss anything. The lock keeps the budget of the line and lets no other expense be reserved on
it meanwhile (`HoldsItsLine`). An expense may be completed between two sums; then it leaves what the
first sums and joins what the second sums, in this order, so it is in one of them (`HasReserved`,
`HasConsumed`); read in the other order the sums could miss it. Nothing else joins, or the approval counts as overtaken
(`WriterBringsNothing`); so the sums read are at least those at the decision, and the comparison made on them
(`HasCompared`) bounds the line. What it takes of arithmetic are lemmas on `Total`, the
sum over a finite set of pairs (`TotalStep`, `TotalUnion`, `TotalMonotone`): `Total` is a recursive
function, and the induction is by a set of least cardinality among those where the
lemma would fail.

Of `HandlersEnd`, what is not about fairness is proved for any number of calls and lines, whatever overlaps or dies.
`SomebodyCanGoOn`: while handlers are in flight, the next statement of one of them waits for nothing (`CanGoOn`, all that
a step of `Step` asks for). Its invariant, `ProgressInv`, is that who holds a line is an approval between its lock and
its decision (`HoldersWork`), and such a one waits for no lock. `HandlersRunDown`: a statement brings its handler nearer to its
end (`Remaining`) and puts no other back, so a handler runs five at most.

### DonationsProofs

`TypeCorrect`, `LedgerAgrees` (`LedgerMatchesDonations`), `RetriesAreSafe` (`RetriesAgree`),
`DraftsAreEmpty` (`DraftsHaveNoDonations`), and the refinement `LedgerImplemented`
(`ImplementsLedger`): initial states map to initial states, a `Commit` to a `Record`, an
`AnswerDonation` to an `Answer`, and every other step to a stutter.

`IInv` has why the unguarded writes of Finance are harmless (`SoundFinance`): a row read by PATCH or
DELETE comes from a call that is past its commit (`Past`), so it is either linked already, and
then the row of its donation as read, or will never be. It also has what the index gives: a call
about to commit holds a key that no donation bears, and that no other such call holds
(`SoundCreate`, `OneInsertPerKey`).

### AdminResourcesProofs

For the eight services together: `RequestsAlwaysAgree` (`RequestsAgree`), `PendingIsSensible`
(`PendingStaysSensible`), `ArchiveIsFinal` (`ArchivedStaysArchived`), and, whatever overlaps or dies,
`ChangesAreDecided` (`SensitiveChangesAreDecided`).

`AdminInv` has two halves. `HandlersInv` holds under any overlap: a handler that carries a status
which is to be decided is an approval, and a reviewer past its check holds a request of
its own row by somebody else. `SerialInv` holds while the history `clean` does: one handler at most is at work,
the row and the requests differ by what it has still to write (`Fits`), and every row that no handler is at work
on is settled (`Settles`). The lemmas on `Start...` are grouped by the four patterns of `ReviewedResources`
(`MayWrite`, `MaySubmit`, `MayDecide`, `MayRecord`), so a service shows only that what it starts is of its pattern.

`OffersAreAccepted` (`OfferedIsAccepted`) compares the pages with the services, kind of row by kind of row
(`ContractOffers`, ..., `MovementOffers` for the directors, `DecisionOffers` for the supervisors). A button of a director
is hidden while the row awaits a validation; then, the row being settled, no request is open (`NothingIsOpen`) and a
submission is accepted. A button of a supervisor is shown for a row that awaits one or for an open request; the two are the same,
there is exactly one (`OneIsOpen`), directors submitted it (`SubmittersInv`) and no supervisor is one, so
the review is accepted. The approvals of assets, entries and goods also ask that the row name its operation: `AdminInv` has that a row
which awaits a validation does (`Named`).

### StoredFilesProofs, ServicesProofs, ScreensProofs, BackOfficeProofs

The first three prove, for each part by itself, that its property is invariant; `BackOfficeProofs` shows that a
behaviour of `BackOffice` is a behaviour of every part, and states them of the whole.

| part | theorem (of the part) | why it holds |
|---|---|---|
| `StoredFiles` | `StoredFilesAreThere` (`FilesAreThere`) | `FilesInv`: a key is of one slot for ever (`KeysAreOfOneSlot`, `OldKeysStay`), a key about to be written is stored and known to its handler only (`NewKeysAreFresh`), one about to be cleaned up is named no more (`CleanedUpIsUnnamed`) |
| `DonorReports` | `SentReportsStay` (`SentReportsAreKept`) | `ReportsInv`: what a handler checked holds until another overlaps it on the report |
| `Team` | `OneListForEveryone` (`PeopleAreListedOnce`) | `PeopleInv` on the tables; `PageInv`: a row that the page does not show as it is belongs to exactly one call, which holds what it will show |
| `ListPages` | `PagesShowWhatIsThere` (`PagesFollowTheServer`) | `ShownInv`: unless calls crossed that do not bear it, a difference between list and table is covered by a call in flight, or by the form that is left to send its file again |
| | `FormsAreTakenOnce` (`FormsTakeEffectOnce`) | `SavedOnce`: an opening that is orderly has one call at most, and none once it took effect |
| `Menus` | `MenusLoad` (`MenusOfferWhatLoads`) | `CallIsKept`: a call bears the session it was sent by |
| `Contacts` | `ContactsFound` (`ContactsAreLookedFor`) | `HandlersKnow`: what a handler read holds, or is marked as stale |
| | `SavedContactsArePicked` (`SavedContactsAreHandedOver`) | `FormInv`: an open form that was told of a contact holds it, or waits for its photo |
| `ContactSearch` | `BoxListsWhatIsAsked` (`ListsFollowTheBox`) | `ListFollowsTheBox`: the latest request is that of the box as it is, unless it pauses |
| `Alerts` | `AlertsOnceEach` (`AlertsAreSentOnce`) | `AlertsInv`: who sends an alert knows who is left, two that send one cross, and an alert that was dealt with is under way or settled for everybody |
| `IncidentHistory` | `HistoryIsKept` (`HistoriesAreTold`) | `HistoryInv`: an open transaction has one entry that only it sees, what it read is a status the incident had, and while no two changes overlap that entry is the last |
| `DonorProfiles` | `ProfilesFollow` (`RecurringFieldsFollow`) | `FreshUpdatesFollowType`: what an update computed fits its type as long as nobody wrote since |

### What is only model-checked

* `HandlersEnd`: from `SomebodyCanGoOn` and `HandlersRunDown` to the end of every handler it takes fairness, which is about
  `ENABLED`, and a count of the statements left, which is an induction; both are beyond the prover.
* The properties of the refuting runs; `OnlyAllowedTransitions` of campaigns is one of them.

## 6. Disagreements with the source

Each is a run that TLC must find violated, with the sentence it contradicts in `findings`:

1. Two supervisors approve one stock operation twice (`AppliedAtMostOnce`).
2. An approval carries out the operation read before the request it closes
   (`AppliedIsWhatWasSubmitted`).
3. A PATCH that overlaps an approval changes an approved expense (`ReservationsAreFrozen`).
4. A PATCH turns a pending expense into income that keeps its workflow state (`IncomeStaysOut`).
5. Two transitions of a campaign take it from one final status to the other, or reopen it
   (`OnlyAllowedTransitions` of `Donations`).
6. An asset is out twice: two exits recorded while neither counts as one are both approved (`AssetsGoOutOnce`).

Two overlaps of expenses go wrong the same way as 3 and 5 and have no run of their own: a PATCH or a creation between the first
read of an approval and its decision, after which one amount was compared with the budget and another is reserved, and
complete and cancel, each of which may write over the other's final state. They are the exceptions that `ApprovalFitsBudget` and
`OnlyAllowedTransitions` name.

Besides these, properties of passing runs name, as exceptions, behaviour that a comment or a document
excludes; each is described under its module: a donor report sent twice and one that is regenerated while it is
sent (`donor-reports.service.ts:292-299`), an active contact in a closed category
(`contact-categories.service.ts:60-62`), the reports in the menu of the BOARD
(`src/hadoum_frontend/src/imports/Hadoum_FigmaMake_Guidelines_v7.md:27`, `:81`, `:134`), a contract archived while
its validation is pending that becomes active again (`supplier-contracts.service.ts:412`), a one-time donor with a
monthly amount (`donors.service.ts:77`).

## 7. Not modelled

* Reads that decide nothing: filters, dashboards, sums, exports, signed URLs; audit rows and metrics.
* What nothing reads back: the notifications that follow a submission or a decision, the dismissal of
  notifications in the bell (a dismissed one reappears when the list is loaded again).
* Layout: PDF files, the fields of forms, texts, the keyboard, the static and demonstration pages.
* Records without a rule between them: schools, medical records, observations, events, schedules, leave, the texts and targets of campaigns.
* The reset of a password, mail, and several tabs of one browser.
* Seeds, migrations, imports and the scripts of deployment and backup.
