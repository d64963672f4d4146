# KEYA in TLA+

Formal models of KEYA, the platform that sells flats off plan, follows the
works that build them and pays the companies as the works are accepted. The
modules are translated from the code of `src/backend` (Django, PostgreSQL with
row level security, Celery) and of `src/apps` (React). TLC checks them on small
instances; TLAPS proves the theorems listed below for every value of the
constants.

The short way in: `Reservation.tla` (the heart of the sale), its two
properties that only hold while requests take turns, and `ReservationProofs.tla`; then `PaymentFile.tla`, where the
money is, with `PaymentFileProofs.tla`; then `Site.tla`, where nothing is stored and everything is derived, with `SiteProofs.tla`.

Contents: 1 how the system runs · 2 the components · 3 the modules ·
4 what the runs show · 5 bounds · 6 fairness · 7 what is proved · 8 what is
only model-checked · 9 what is not modelled · 10 disagreements found ·
11 observations without a run · 12 what is left · 13 running it.

## 1. How the system runs, and what a step is

These facts of the code shape every module.

* **One request, one transaction.** `core/middleware.py` (lines 15-51) opens a
  transaction around every authenticated request. PostgreSQL runs it at its
  default level, READ COMMITTED: each statement sees what has been committed
  when it starts, so two reads in one handler may disagree, and a check may be
  outdated when the write it allowed is made.
* **A domain error is not a rollback.** The views catch the domain exceptions
  and answer 4xx *inside* that transaction. What the handler wrote before
  refusing is committed (an expired hold stays expired although the request
  that expired it is refused). A database error, a violated constraint or a
  trigger, does roll the request back, unless the handler wrapped the statement
  in a savepoint.
* **Row locks.** Some handlers take a row with `select_for_update()` and decide
  on the row read again under the lock. Such a handler, whose every read is of
  rows that lock protects, is **one action**. All others are split at the point where
  they can be overtaken: `...Read`, `...Check`, `...Write`, with other workers
  running in between. What a worker remembers between its steps is the variable
  `task[w]`.
* **Objects are stale.** A Django object keeps the values it was loaded with
  and `save(update_fields=...)` overwrites the columns it names. An UPDATE
  waits for the row lock, then applies to the row as it has become; it does not
  check again what the handler decided on.
* **Nothing is scheduled.** The expiry of holds and the release of disbursements
  happen when somebody reads; the only batch is the command
  `expire_reservations`.
* `RESERVATION_HOLD_HOURS` is 24; time is modelled as the fact that a hold is
  overdue.

**In turn.** Several rules are enforced by a check made without a lock. They are
true of requests that take turns and false of requests that overlap. Both
facts are of interest: the modules have the real, overlapping steps, and the MC
modules add a history variable `overlapped` (set as soon as a step leaves two
workers in the middle of a request) or `met` (in `MCControlSync`: when a local
write meets a synchronisation, or the server handles two submissions at a time; in `MCSite`:
when a row is written between a comparison and its rows). `MCDesk` remembers the messages `lost`.
A property whose name ends in `InTurn` is claimed only while that history is
clean; a property without that suffix holds in every interleaving of its run.
`MCReservation` needs no history: its two runs use two workers and one worker.

## 2. The components

State, operations, interactions and what makes each correct. `PROJECT.json`
lists the same components with their sources.

**Reservation cycle of a lot** (`sales/services.py` 48-345, 554-1027, 1480-1662).
State: the reservation rows, the lot's commercial status, the LotClient rows.
Operations: request, validate, expire (under lock by the handlers of a file,
without by catalogue, lists and sweep), cancel by client or administrator,
record a receipt, declare, confirm or reject a transfer, evaluate the two
automatic transitions, sign. Interacts with contracts, calls, programmes (an
administrator edits the lot). Hard: unlocked read-decide-write against locked
handlers; a lot row cached with the reservation. Correct when: one blocking
reservation per lot; a file that received money is never released; the lot
follows its reservation; a closed file never returns; no sale without the money.

**Contract versions** (`sales/services.py` 346-552). State: numbered versions
with status and text. Operations: create, edit, submit, return to draft,
approve, sign; a trigger and two unique indexes stand behind them. Interacts
with the reservation, which a signature may commit. Hard: no lock on versions.
Correct when: a signed version is immutable, an approved one frozen, one in
preparation at most, the latest is the one signed, signature and last payment
in any order commit the file.

**Payment calls, receipts, allocations, notices** (`sales/services.py` 554-1027,
1480-1662). State: calls with frozen amounts and caps, receipts by bank
reference, allocations, notices. Operations: issue the fees, the first
instalment and each tier; record, allocate, reconcile; declare, confirm,
reject. Interacts with the legal template of Pricing, the accepted milestones
of Inspections, and the reservation. Hard: any order of a dozen operations,
replays, rounding, a template changed between calls. Correct when: nothing is
imputed twice, the file is always as far as its rows justify and no farther,
the calls add up to the legal shares.

**Programme account and disbursements** (`sales/services.py` 1030-1480). State:
the requests with status and proof of movement; the balance is a sum of rows.
Operations: prepare, check eligibility, execute, confirm, reconcile, cancel, and
a release that any reading performs. Interacts with the field (inspections and
evidence block a milestone), with the assignment of a company and with receipts;
none of them knows the account lock. Hard: exactly that. Correct when: the account is never
overdrawn, one open request per milestone, one movement per bank reference, an ended
request stays ended, a missing confirmation stays visible, payment only when due.

**Offline inspection: CONTROL PWA** (`apps/control-pwa/src`,
`inspections/services.py`). State: drafts in IndexedDB, the mounted form, the chain
of its pending writes, the running cycles, the cached missions; on the server the
inspections, reserves, documents. Operations: fill, add and remove
photos, retry a failed write, discard a conflict; poll, upload, submit; check
and write on the server. Hard: everything is asynchronous, answers get lost,
the application is closed at any time. Correct when: no input lost, nothing
sent twice, what the screen says is true, no decision left aside.

**CONTROL PWA: missions list, media, session.** The cached list of missions,
image compression, the session hand-over. Correct when a device never acts on a
mission as if it were fresher than it is (the row is in `ControlSync`).

**CONTROL API** (`control/`). Lists the missions of an inspector with the open
reserve of the lot and its last event, and receives the inspections made from
that list. Correct when a list of any age is either good enough or refused.

**Inspections, reserves, missions** (`inspections/services.py`). State:
inspections, reserves whose status is derived from their last TrustEvent,
missions. Operations: create an inspection (with the conflict check, or without
through its own endpoint), open, reject and lift a reserve, correct it, create a
mission; computes the technical acceptance of a milestone, which the payment of
the company depends on. Hard: everything is derived from the order of rows; the
check of the latest event is not atomic with the write. Correct when: a stale
submission is refused, acceptance is given and taken by what should give and
take it, the reserve of a lot is the one its milestone and its missions name.

**TrustEvent** (`trust/`). Append-only list; the repository has one write. State
of the trust levels is a function of the last events.

**Works and evidence** (`evidence/`). Declarations, documents with their hash,
pieces; a Celery task, sent before the commit and retried, processes images.
Correct when a document whose message was not lost is processed.

**Task inbox** (`tasks/`). One row per subject, reason and person; generators
run in Celery or in the request; any member of the organisation may complete a
task. Hard: messages lost, delivered twice or taken before the commit; two
generators at once. Correct when what was handled has exactly one task.

**Requests of the sale** (`sales/views.py`, `sales/urls.py`). Thirty-four
requests over the operations above. Hard: a refusal commits, some reads write,
an answer may be lost and the request sent again. Correct when an answer is
final: a refusal leaves nothing, a repetition changes nothing.

**Procurement** (`procurement/services.py`). State: bids, the event that selects
one, adjustments, lot ledger, control office charges. Operations: create and
select a bid, adjust its cost inside its margin, assign a mission and charge it,
create the ledger, compute the shares of the programme's costs. Hard: no lock
anywhere. Correct when: one selected bid, adjustments within the margin, the
global rate charged once, ledger immutable, negative margins alerted, rounding
drift bounded.

**Pricing** (`pricing/services.py`). Channel rates, the tiers of the legal
template with the pointer to the active one, control office rates. Correct when
one template is active per country pack and its caps grow to 100.

**Programmes, assets, lots, milestones, cost repartition, requests**
(`programs/services.py`). Creation and edition of the tree, milestones
instantiated from a template, assignment of companies, requests of new programmes.

**Public window and notifications** (`sales/public.py`, `sales/notifications.py`).
The catalogue expires what it meets; the notifications file and close tasks for
the client, the sellers and Finance. Correct when an inbox says what the file says.

**HOME and BUILD read models** (`home/`, `build/`). Statuses computed from the
TrustEvent history for the client and the builder. Correct when they agree
with each other and with the reserve they describe.

**Support and messaging.** An append-only thread; a dispute with a terminal
status.

**Back office, accounts, organisations.** Identity, roles, tokens.

**Audit trail.** A row inserted in the transaction of the act.

**Request transaction and row level security** (`core/`). Section 1.

**Web, HOME, BUILD front ends; design system; deployment.** Views over the API,
rendering components, settings.

## 3. The modules

| module | models | kind |
|---|---|---|
| `LotSale` | what a buyer and the catalogue may rely on: free, held, engaged, reserved, sold | abstract |
| `Reservation` | the reservation cycle, with its stale steps | detailed |
| `Contract` | the versions and their unlocked transitions | detailed |
| `PaymentFile` | the money of one file | detailed |
| `Account` | a balance: receive, reserve, release, spend | abstract |
| `Disbursement` | the requests on one programme account | detailed |
| `ControlSync` | device, network and server of one mission | composed |
| `Site` | the history of one lot's works, what is derived from it, and its readers | detailed |
| `Inbox` | Celery messages, workers and the filing of tasks | detailed |
| `Desk` | the requests of the sale: answers, replays and tasks of one file (extends `Inbox`) | composed |
| `Repartition` | rounding and shares of the programme costs | pure operators |
| `Procurement` | bids, adjustments, charges, ledger of one lot (extends `Repartition`) | detailed |
| `MC...` | constants, symmetry, history variables for TLC | checking |
| `...Proofs` | theorems of the component | proofs |

How state and actions correspond to the code:

**Reservation.** `status`, `validated`, `signed` are columns; `due` is
`held_until <= now`; `funds` is the level that the receipts of the file have
reached ("received" money not yet imputed, "fees" covered, "deposit" covered), an
abstraction of the amounts `PaymentFile` has; `declared` is the call a pending notice is about;
`buyers` are the LotClient rows; `lotLock` is the lot row held FOR UPDATE by
`request_reservation`. `RequestLock`, `RequestRefuse`, `RequestAccept`,
`RequestInsert` are the steps of `request_reservation`: expiry of the overdue
hold through *another copy* of the lot, the refusal on the first copy, the
insertion. `SweepRead/SweepCheck/ExpireWrite` is `_expire_if_overdue` as the
catalogue, the lists and the command call it; `ExpireUnderLock` is the same
function called by a handler that owns the row. `CancelRead/CancelCheck/
CancelWrite` is `_cancel`. `CloseRow` keeps the rule of `_set_lot_status`: the
lot is written only when the status *cached* with the reservation differs.
`Validate`, `RecordReceipt`, `DeclarePayment`, `RejectNotice`, `SettleCall`,
`ConfirmNotice`, `SignContract` and `NewContractVersion` own the row; `Evaluate` is
`evaluate_reservation_transitions`, with both transitions possible in one call.
`LotUpdateRead/LotUpdateWrite` is the administrator's `update_lot`.

**Contract.** One step reads, one writes, for creation, edition, the three
transitions and the signature. `Writable` is the trigger of migration 0004,
`AloneInProgress` the partial unique index, `IsNext` the unique number. `SignWrite` owns the
reservation row and evaluates the file; `FirstInstalmentPaid` is the payment side
of the same evaluation.

**PaymentFile.** All handlers own the reservation row before they read, so each
is one action. `Share` is the rounded legal share, `IssueFirst` deducts
the fees, `TierAmount` is what remains to call up to the next cap and, for the last tier,
the exact balance. `Confirm` creates or replays a receipt and imputes what the
receipt and the call still allow (`Owed`), then reconciles and evaluates.

**Disbursement.** `account` is the programme row FOR UPDATE. `PrepareRead` reads
the beneficiary and the milestone before the lock; `Prepare`/`PrepareReplay` run
under it. `CheckLock/CheckRefuse/CheckAccept/Grant` and `ExecuteLock/
ExecuteRefuse/ExecuteAccept/Pay` separate lock, decision and write, because
the field (`FieldReport`), the assignments (`AssignLot`) and `ReceiptReconciled`
move without that lock. `Released` is the release of lapsed requests that every
reading of the account performs, alone (`ReadAccount`) or at the start of a check.

**ControlSync.** `store` is IndexedDB, `form` the mounted view with its memory
(`draftRef`), `jobs` the chain of pending writes (each link reads the store again, then
writes), `engine[c]` the position of cycle *c* and the snapshot it holds,
`inflight` the lock per draft, `row` the cached mission, `wire` the submissions on
their way. The order of `syncDraftUnlocked` is kept: `Mark`, one `Upload` per
photo, `MakeEvidence`, submission, `Answer`, `Patch`, `Release`. `Check` and `Write` are the
two halves of `create_inspection`. `Lose`, `Restart`, `FailJob`, `OtherInspects` and `Correction`
are the environment.

**Procurement.** Every handler is a `Read` (with its checks) and a `Write`. `MissionRead`
builds the charge, `MissionWeigh` decides on the alert, `MissionWrite` inserts
them. `Percent` rounds half up to a cent, as `quantize(..., ROUND_HALF_UP)`;
`LotShare` is the share of a lot by surface or by equal parts; `Drift` is how
far the sum of the shares is from the total.

**Site.** `history` is all the append-only tables of a lot in one sequence, ordered by
`created_at` and `sequence`; a row is its position, a reserve the inspection that opened it.
Nothing else is stored, as in the code: `Status`, `Accepted`, `LotReserve`, `MissionRow`,
`ControlState`, `PendingMission` are the queries of `inspections/services.py`, `HomeShare`,
`Overview`, `Notable`, `Feed` those of HOME, `LotRow`, `MilestoneRows`, `Exceptions` those of BUILD.
`device[i]` is the list an inspector has cached (`Refresh`), of any age. `Check` is the comparison
of `create_inspection`, `Write` its rows; `Inspect` is the endpoint that makes no comparison and takes any
declaration, document and reserve. `Declare`, `AddPiece`, `Assign`, `Correct` are single inserts.
The `nouvelle_inspection` event of a reserve is merged with the outcome written after it.

**Inbox.** `subject[s]` is whether the transaction that writes a reserve, a mission or a document has
committed; `queue[s]` holds its messages with the attempts already made, sent at `Announce`, before
`Conclude` commits or rolls back. `Take` acknowledges; `ReadSubject` gives up on a row that is not there
(`tasks/tasks.py` has no retry); `ProcessDocument` tries again `MaxRetries` times. `Get`, `Insert`, `SecondGet`
and `Commit` are the four places where `_get_or_create_task` can be overtaken: the unique constraint waits for
an uncommitted row (the guard of `Insert`), then refuses. Alerts are filed by the request itself (`Alert`,
`Abort`). `SendAgain` and `Crash` are Celery's. The four ways of completing a task differ in which tasks they reach.

**Desk.** Each endpoint of `sales/urls.py` is an operator of the file that returns an answer (200, 201, 404 or 409)
and the file it leaves; `Serve(q)` is one request. `PaymentNoticeConfirm` is built from the operators of the receipt,
its allocation and its reconciliation, as the code calls them. `Expire` and `Released` are the writes that reads make.
The handlers are those of `Reservation`, `Contract`, `PaymentFile` and `Disbursement`, where they interleave;
here they are together, one at a time, with their answers and the tasks of `sales/notifications.py`.
`FileNext` is all requests and all that happens between them (`FileSpec`, what is proved about); the run follows the same
requests scene by scene.

Some definitions have a twin that is used nowhere
(`SettledByAny`, `OpenRequestIsDraft`, `AcceptedWhatever`, ...): each is the same
definition with one plausible mistake, and `PROJECT.json` ("mutants") says which
property breaks when it replaces the right one. The comment above each says so.

## 4. What the runs show

States are distinct states found by TLC.

| run | states | what it asks | result |
|---|---|---|---|
| `reservation_race` | 661 000 | two overlapping requests (or a request and the sweep), two rows | one blocking reservation, no sale without money, closed stays closed |
| `reservation_serial` | 9 600 | one request at a time, fair | no paid file released, lot follows reservation, only lapsed holds expire, `LotSale` implemented, lapsed holds released in the end |
| `contract` | 26 500 | two workers, three versions, two texts, and the payments | signed immutable, text changed in a draft only, one in progress, signed and paid is committed, in any interleaving; latest signed, in turn |
| `payment_file` | 1 160 000 | every order of the operations on the money | no double imputation, no missed and no premature transition, confirmed notices imputed, legal shares and exact price |
| `disbursement` | 545 000 | two finance requests, the field moving | `Account` implemented, one open request per milestone, the proof only advances; paid when due, in turn |
| `control_sync` | 663 000 | two cycles, one disturbance of each kind, fair | nothing sent twice, the screen is true, conflicts wait, nothing left aside, while writes and cycles do not meet |
| `procurement` | 1 040 000 | two requests on the bids, missions and ledger of a lot | drift bounded, in any interleaving; the four rules without a lock, in turn |
| `site` | 499 000 | two milestones, two inspectors with cached lists, declarations, documents, reserves in every order | acceptance moves as it should, the readers agree, a lone reserve is shown, what comes from a device is expected (in turn) |
| `desk` | 52 600 | every request of the sale from every state of a file, and repeated; messages and alerts filed by two workers and two users | answers are final, inboxes follow the file, one task each, nothing announced is forgotten |
| `reservation_paid` | | two overlapping requests | violated, section 10 |
| `site_recontrol` | | a mission on a milestone that needs a second control | violated, section 10 |
| `control_lost` | | a comment typed during a synchronisation | violated, section 10 |

What the properties say that is not obvious:

* `ClosedStaysClosed` is about *stale writes*: while one is pending, handlers
  that move the row forward run. It holds because they lock and test the status again.
* `NoMissedTransition` says that evaluating the file again changes
  nothing: whichever event came last, the transition it completes was made. It needs every
  handler that completes a condition to call the evaluation.
* `CalledIsLegal` is about hundredths: a share is rounded to a whole franc while the price and the caps are not, so
  the total called is legal to within half a franc, and the last tier must bring it to the price exactly. Its mutant rounds the last tier too.
* `ConfirmedIsImputed` is about a confirmation that finds its reference already recorded and partly spent:
  what is left goes to the call, now and after whatever follows.
* `ProofOnlyAdvances` keeps a reconciliation and its reason from the beneficiary who confirms too late, in any interleaving.
* `TextChangesInDraft` and `SignedIsImmutable` hold against stale writes because the trigger has the last word. An approved
  version has no such guard: see section 11.
* `ImplementsAccount` covers a balance nobody stores: Django sums rows
  that several operations write, and the two eligibility checks of CDC T10 must
  not both see the same money.
* `PaidWhenDueInTurn` relates the payment to the field and the assignment *at the
  moment of payment*, though both were read when the request was prepared.
* `SettledIsTrueInTurn` is what the inspector relies on to clear the device: "synced" means
  applied, and "conflict" means not applied unless an answer was lost or the application closed.
* `UploadedOnceInTurn` counts the documents on the server against the failures that
  really happened: a retry without a failure may not upload again.
* `OneLockedInTurn`, `MarginKeptInTurn` and `GlobalChargedOnceInTurn` have no
  constraint behind them, and fail as soon as requests overlap.
* `AcceptanceMoves` says which row may give a milestone its acceptance, and which row takes it: the
  payment of the company hangs on it, and nothing stores it. It holds over overlapping submissions too.
* `ReadersAgree` compares four sets of queries over the same rows: HOME shows "verified" exactly when the payment side
  says accepted (unless something came on an older declaration), BUILD never more progress than HOME.
* `SyncedIsExpectedInTurn`: because a reserve is compared by its *last event*, a list of missions of any age is
  good enough; its mutant compares with the inspections, and lets a follow-up of a lifted reserve through.
* `AnswersAreFinal` runs every request twice from every reachable file: what a refusal leaves (it commits),
  whether a lost answer can be asked for again, whether a bank movement is still recognised after the file has moved on.
* `InboxFollowsFile` holds over tasks filed and closed by six notifications, and over tasks that people tick
  themselves; what a closed task says is claimed of those the code closed.
* `FiledExactlyOnce` needs both halves of `_get_or_create_task`: the wait on an uncommitted row, and the second get.
* `AnnouncedIsHandledInTurn` says when a message is enough: when no worker stopped with it, nor took it before the commit
  more often than it is retried. The code does not ensure either; the property says that nothing else can lose it.

## 5. Bounds, and why they are enough

Every bound is a constant of the module, or of the MC module, with a comment.

* **Two workers.** All hazards of the code that were listed are between the
  check of one handler and the commit of another. The facts that hold in every
  interleaving are proved for any number of workers.
* **Two reservation rows, two requests, two bids, two missions.** Uniqueness
  needs two; the second may be created after the first is closed, which is the
  interesting case of a stale expiry.
* **Three versions.** One signed, one approved and one in progress at a time.
* **Two milestones, two companies, two references, amounts 1 and 2, `MaxReceived` 3.**
  Two requests of 2 exceed the balance, 1 and 2 fit exactly.
* **PaymentFile: price 6.60, fee 1, templates 35/70/100, 33.33/98.50/100 and 100 alone, amounts 0.50 and 2.** In hundredths, as the
  columns count. The shares round down and up, one of them above the price; the last tier then has an
  exact balance, or nothing to call. A receipt may be smaller or larger
  than a call, and two receipts may share one. One file; all on one day, so a replay is identical when
  the amount is.
* **ControlSync: one mission, two drafts, two cycles, one photo, two pending writes,
  one disturbance of each kind** (`Budget`: two mounts of the form, one each of close, lost
  answer, failed write, other inspector, restart, retry of a failed local write). A
  second draft exists to replace a discarded one; a second cycle to overlap the
  first. One reserve per declaration. A behaviour of `control_sync` ends with
  the first meeting (`Meetings = 1`), because its properties are claimed up to then; in `control_lost`
  it goes on to three.
* **Procurement: rates of 10.50 % and 20.50 %, three lots of which one has no surface at first, two sale prices,
  gaps -1 and 2, `MaxGain` 0, one revision of the costs (101 and 10, not multiples of
  the lots).** Amounts are cents. `MaxGain` bounds the negative gaps a bid may accumulate.
  The drift is quantified over both methods of repartition.
* **Site: two milestones, two inspectors, at most two declarations, two documents, two missions, three inspections
  and one correction, six rows in all** (`Rehearsal`). A reserve, its correction, its follow-up and another reserve fit
  in one history, as do two declarations of one milestone; what the theorems of `SiteProofs` say needs no bound.
* **Desk: one file, two bank references, calls of `Due` 2, amounts 1 and 2, two notices, two contract versions,
  two disbursements, one ticked task.** An amount may be half of a call or all of it, and a receipt may be spent on another
  call. The file is followed in scenes, each from the file a client has at that point (`Opening`): the fees, the
  first instalment, the contract, the account once it is sold. A scene is not reset, so every request meets every state of it.
* **Inbox: two workers, two users, one retry, one repetition of each message, one subject at a time** (`InScene`):
  tasks of two subjects have nothing in common but the workers. Two reserves, one of which nobody declared.
* Symmetry is used only in runs without liveness, on sets whose members the
  modules never tell apart.
* Deadlock is not checked: every module has bounded rows and the code stops when
  nobody asks anything. Two handlers that wait for each other's row locks
  are aborted by PostgreSQL; see section 12.

Where detail was merged: `NextDraft` (lock and second reading of the draft, which no
other cycle can separate usefully), `Patch` (the two writes of one outcome), retries
always due (`backoff.ts` only delays them), server-side evidence rows not counted.

## 6. Fairness

`reservation_serial` (`FairSpec` of `Reservation`): a worker finishes the request
it runs (weak fairness of its steps: a WSGI worker is not suspended for ever); a
write that waits for the lot row gets it in the end although the lock is
taken again and again (strong fairness: PostgreSQL grants row locks in queue
order); the sweep comes back for every hold (strong fairness: the command is run by
a scheduler, and every reading of the catalogue does the same). Without the sweep nothing
releases a hold nobody looks at; the code does not schedule it itself, and
this is an assumption on the deployment.

`control_sync` (`MCFair`): the 15 s poll starts a cycle, promises of IndexedDB and of the network
settle, so each cycle goes on (weak fairness); the server handles what it
received (weak fairness). Nothing is assumed of the inspector: filling, closing
and discarding are never forced, and losses and restarts are never promised to be absent,
they are bounded.

`desk` (`InboxFairness`): the request that announced a subject ends, by a commit or a rollback; a worker
takes what is queued and goes on with what it took; a request goes on filing its task (weak fairness each). Nothing is
assumed of Celery beyond that: a crash loses the message, a message may come twice, and no repetition is promised.

All other runs are safety only.

## 7. What is proved

Every safety property of a passing run, invariant or action property, and both refinements, is a theorem about all values
of the constants. The named assumptions of the modules say that

* the constants have their type: `NoneIsNobody`, `NoneIsNothing`, `NoneIsNoRow` (`None` stands for no row), `MaxVersionInNat`,
  `DraftIds`, `BudgetHasNames`, `DecisionIsAField`, `LotIsOfTheProgramme`, `AmountsAreIntegers`, `CostsAreIntegers`;
* what is summed or counted is finite: `FileIsFinite`, `RowsAreFinite`, `MissionsAreFinite`, `LotIsFinite`, `FewReferences`;
* what people type is positive, as the services and the check constraints require, and counted in the unit of its column, a
  hundredth of a franc (`AmountsArePositive`, `AmountsAreCounted`): no price, fee, receipt or allocation is assumed to be in whole francs;
* the last cap of a legal template is exactly 100 %, the others are below it and above -1 %, in hundredths of a percent
  (`SchedulesAreLegal`, which follows from what `pricing/services.py` 180-198 demands when a template is created, and leaves out that the caps
  increase strictly); no tier is named like the two other kinds of call, which the model puts in one table with the tiers;
* there is a company to work for (`SomeCompany`).

No theorem bounds the number of workers, rows, receipts, drafts, photos, messages or events. Each proof has the three usual
facts, the initial states satisfy the inductive invariant, each action preserves it, it gives the property; one lemma or
step per action.

**Two kinds of theorem.** Most are about `Spec`, that is, about every interleaving. Those whose name ends in `InTurn` (or
that state such a property) are about the specification of the MC module, `Spec` with the history `overlapped` or `met`,
which never disables a step. The invariant then says of the history
what a lock would ensure: until requests overlap, what a worker in the middle of a request has read is still true
(`StillAsRead`, `StillTrue`, `DueInTurn`, `NothingStale`). The theorems ending in `Alone` are about one worker.

**Sums and inductions.** The balance, what a receipt has left, the shares of a lot and the progress of a site are sums over sets
(`SumFunctionOnSet`). The induction theorems of the library have an operator for a parameter, which no
prover here can instantiate. `SubsetInduction` does without: it takes *the set of the good subsets* of a finite set and
concludes from `FS_StrictSubsetOrderingWellFounded` and `WFMin` that every subset is good. From there `SumsExist`,
`SumStep`, `SumUpdate`, `SumGrows`, `SumSame`. These lemmas open five proof modules (`PaymentFile`, `Disbursement`, `Procurement`,
`Site`, `Desk`), each with those it needs, so that each file can be checked alone.

### The sale

**`ReservationProofs`.** `IInv == TypeOK /\ OneBlockingReservation /\ LockDiscipline`.
`OneBlockingReservation` is not inductive alone: `RequestInsert` adds a blocking row
on the strength of a check made earlier. `LockDiscipline` says that the worker
between `RequestLock` and `RequestInsert` is the one that owns the lot, and that
once its check has passed the only blocking rows are those it has itself seen to
be overdue (`stale`), which it expires with the insertion: nobody else adds one. Theorems: `TypeCorrect`, `OneBlockingCorrect`,
`ClosedStaysClosedCorrect`, `ProgressIsPaidCorrect`. So the lot lock is enough: the partial unique index never
refuses anything.

Its second part is about a set of workers with one member (`Alone`) and any number of reservations:
`LoneInv == PaidIsNeverReleased /\ LotFollowsReservation /\ FilesInOrder /\ Remembers(w)`. `Remembers` says
that what the handler has read (a hold, its deadline, the absence of receipts and notices, the lot) is still so when it
writes: exactly what overlapping requests lose, and what a lock of the row would give them. `FilesInOrder` ties money and
notices to the stage of the file. `LoneNext` sorts all steps into four kinds of moves (`Stays`, `Opens`, `Releases`,
`Advances`), and each kind is a step of `LotSale`. Theorems: `PaidIsNeverReleasedAlone`, `LotFollowsReservationAlone`,
`OnlyLapsedHoldsExpireAlone` and the refinement `ImplementsSaleAlone`.

**`ContractProofs`.** `IInv == TypeOK /\ TaskDiscipline /\ KnownVersions /\ OneInProgress /\
PaidIsReserved /\ SignedAndPaidIsCommitted`. What a stale handler has read is nearly
useless; `TaskDiscipline` says that it still has a version and a text to write,
`KnownVersions` that this version exists, `PaidIsReserved` that only a
reserved file has its first instalment paid. Theorems: `TypeCorrect`, `OneInProgressCorrect`, `SignedAndPaidCorrect`,
`SignedIsImmutableCorrect`, `TextChangesInDraftCorrect` (a text typed into a version submitted meanwhile is refused by the trigger).
In turn, `TurnInv == IInv /\ (~overlapped => StillAsRead)`: the version a transition is about to write still has the status that
allowed it, and the one about to be signed is still approved and the latest. Hence `ApprovedIsFrozenCorrect` and `LatestIsSignedCorrect`.

**`PaymentFileProofs`.** `IInv == TypeOK /\ CallsInOrder /\ NoDoubleImputation /\ NoMissedTransition /\ StageIsPaid /\
CalledIsLegal`. Even the type of an allocation needs the sums: it is positive because the receipt and the call both have something
left. `CallsInOrder` (the fees are called first and as they are set, no tier before the first instalment) carries
`CalledIsLegal`: whatever was called before, and under whichever template, a new call brings the total to a share, and a last tier
to the price. `ShareIsNear` is the arithmetic of the rounding, half a franc at most for any hundredths of price and cap. `NoMissedTransition`
and `StageIsPaid` are the two directions of one fact, preserved by every handler because each ends in the evaluation;
what is imputed only grows, so no transition is ever to be taken back. `ConfirmedIsImputedCorrect` has an invariant of its own, `NInv`,
which adds that a notice names an issued call: since an issued call and a recorded receipt keep their amounts (`OnlyGrows`), balances only
shrink, and one that has reached zero stays there. `CoverStaysCorrect` is the action
property: what covers a call is never taken back, and a decided notice stays as decided.

**`DisbursementProofs`.** `IInv == TypeOK /\ ControlDiscipline /\ OneOpenPerMilestone /\
OneMovementPerReference /\ FlowFollowsExecution /\ AbsenceStaysVisible`. `ControlDiscipline`
ties the worker in the middle of a check or an execution to the account lock and to the status its row then
still has; `FlowFollowsExecution` ties the proof of movement to the status and the
reference. Theorems: `TypeCorrect`, `OneOpenCorrect`, `OneMovementCorrect`,
`AbsenceStaysVisibleCorrect`, `EndedStaysEndedCorrect`, `ProofOnlyAdvancesCorrect`.
The money: `MoneyInv == IInv /\ RowsHaveTerms /\ GrantIsCovered /\ NeverOverdrawn`. `GrantIsCovered` says that what a worker
found in the account during its check is still there when it grants, since only the holder of the account reserves and receipts only add.
A step moves the balance in one of four ways (a receipt, a reservation, a release, a payment of what is
reserved) or leaves it, and these are the steps of `Account`: `NeverOverdrawnCorrect` and the refinement
`ImplementsAccountCorrect`, over any number of requests and in any interleaving. In turn, `TurnInv == IInv /\ DueInTurn`, where `DueInTurn` says that
an execution in progress finds its milestone free and its company assigned until it pays, gives `PaidWhenDueCorrect`.

**`DeskProofs`.** Of the inboxes: `IInv == TypeOK /\ RowsAreRows /\ FilingIsKnown /\ InsertedAlone /\ RefusedByARow /\ FiledExactlyOnce`.
`FiledExactlyOnce` is not inductive: `InsertedAlone` says that a row inserted and not yet committed has no
rival, committed or not, and `RefusedByARow` that the row which refused an insert is still there at the second get (no task is
ever deleted). Theorems: `TypeCorrect`, `FiledExactlyOnceCorrect`, for any number of workers, users, retries and repetitions.

Of the file: `FileSpec` takes an empty file through every request and every step of the world, without the scenes the run cuts it into.
`FileInv(f) == f \in File /\ Unborn(f) /\ TellsTruth(f)`. `TellsTruth` is stronger than `InboxFollowsFile`: a task also
agrees with the subject it names, which is what one needs to know when a notice is decided or a version
signed. Most requests are `Quiet` (no task, notice or validation changes and paid money stays paid, so what was settled remains so);
the six that file or close tasks are taken one by one. `InboxFollowsFileCorrect`. `AnswersAreFinalCorrect` shows of each request, from any
file that satisfies the invariant, that a refusal leaves at most the expiry and the release that reading performs, and that a repetition
answers without doing anything again; for that, expiring and releasing twice is the same as once (`ExpireOf`, `ReleasedOf`).

### The works

**`SiteProofs`.** `Inv == TypeOK /\ RowsReferBack /\ DeviceRemembers /\ SentIsKnown`, and `IInv`, which adds
`SyncedIsExpectedInTurn`. `RowsReferBack`: a row names an earlier row of the right kind, so no later row changes what an
earlier one meant. `DeviceRemembers`: a cached mission carries the event that was the last one of its reserve, or none, when
the list was made; `SentIsKnown` carries this over the comparison. The last event of a reserve tells its status, and
numbers only grow: that is why the comparison needs no clock. Theorems: `TypeCorrect`, `RowsReferBackCorrect`,
`SyncedIsExpectedCorrect`, `AcceptanceMovesCorrect`, `LoneReserveIsShownCorrect`, `ReadersAgreeCorrect`; together, for histories of
any length, the rules by which a milestone is accepted, and what each reader shows of it. The last one compares two percentages:
HOME's sum of weights is at least BUILD's, milestone by milestone, and rounding to the nearest (a half to the even, as Python
does) is monotone.

**`ControlSyncProofs`.** `IInv == TypeOK /\ StoreKeyed /\ ReserveExists /\ LockDiscipline /\ WireDiscipline`.
`OneCyclePerDraft` is not inductive: `LockDiscipline` says that a cycle with a draft in hand has put its id in `draftsInFlight`,
so that a cycle which finds the id free is its only holder. That needs `StoreKeyed`: the id is locked with the copy of the list, the draft
then read again, and the id taken out is that of the draft in hand. `WireDiscipline` ties an awaited submission to the one cycle
that waits for it. Theorems: `TypeCorrect`, `OneCyclePerDraftCorrect`, `OneAwaitedSubmissionCorrect`, for any number of drafts, photos,
overlapping cycles, lost answers and restarts.

The four properties of the run need more, in turn:
* `SubmittedOnceInTurnCorrect`: `Lineage` says that all copies of a draft, in the store, in memory, in a cycle, on the wire, claim
  the same expected event, and that this event is past (`Spent`) once an inspection of the draft was inserted. The events of a target only
  grow, so no later copy can pass the comparison.
* `SettledIsTrueInTurnCorrect` and `ConflictWaitsInTurnCorrect`: `TurnInv` adds that nothing is stale before the
  first meeting (`NothingStale`), that the server handles one submission (`OneHandled`), that failed writes were not retried
  (`NoRetry`) and that what was applied is stored as applied or about to be (`Told`, as long as no answer is lost).
* `UploadedOnceInTurnCorrect`: `UploadInv` follows one photo from the form to the server. It belongs to one
  draft (`OneHome`), enters the store with the write that adds it (`NotYetStored`, `AddedFirst`), is marked before it is sent (`Marked`),
  and the documents made of it never outnumber the trials that lost answers and restarts explain, one less while it may still be sent (`Bounded`, `Safe`).

Looking for these invariants corrected three properties, which smaller bounds had let through: the retry of a failed write puts back the
memory of the form, and with it photos already uploaded (`UploadedOnceInTurn` is claimed until a write fails) and fields already decided
(`ConflictWaitsInTurn` then keeps the status, not the fields), a second retry may drop a decision (`NothingAbandonedInTurn` speaks of what
stays saved); and two mounts of the form with pending writes on one draft are a meeting too. `Pending` is 2 for that reason.

### Procurement

**`ProcurementProofs`.** `IInv == TypeOK /\ PendingHasBid /\ LedgerHasBid` gives `TypeCorrect`, `LedgerIsFrozenCorrect`,
`LedgerHasBidCorrect`, in any interleaving. `DriftIsBoundedCorrect` needs no more: each rounded share misses its exact value by half a cent
at most, and the misses of all lots add up (`SharesMissByHalves`, `DriftOfShares`), for any surfaces and any number of lots.
In turn, `TurnInv == IInv /\ ChargesAreAssigned /\ (~overlapped => Turns /\ Weighed)`: `Turns` is the three properties without a
constraint (`OneLocked`, `MarginKept`, `GlobalChargedOnce`) and `StillTrue`, and `Weighed` that whoever is about to insert
a charge which leaves a negative margin has decided to raise the alert. Theorems: `OneLockedInTurnCorrect`, `MarginKeptInTurnCorrect`, `GlobalChargedOnceInTurnCorrect`,
`ChargeIsWeighedInTurnCorrect`, for any number of workers, bids and missions.

`OneCyclePerDraftCorrect`, `OneAwaitedSubmissionCorrect`, `OneMovementCorrect`, `EndedStaysEndedCorrect`, `AbsenceStaysVisibleCorrect`,
`NeverOverdrawnCorrect`, `ApprovedIsFrozenCorrect`, `CoverStaysCorrect`, `LedgerIsFrozenCorrect`, `LedgerHasBidCorrect` and `RowsReferBackCorrect`
state properties that no run repeats: the theorem holds for every instance.

## 8. What is only model-checked

* Liveness: `LapsedHoldIsReleased`, `NothingAbandonedInTurn`, `AnnouncedIsHandledInTurn`. It rests on fairness, hence on
  `ENABLED`, which the prover does not handle.
* That properties break when requests overlap, and the three disagreements of section 10: a counterexample is an instance.
* That the interesting cases occur: a theorem would also hold of a system that does nothing. The runs fire every action.
* `ImplementsSale` and the rules of the sale proved for one worker say nothing about several; `reservation_paid` shows why.

## 9. What is not modelled, and why

* Access control: row level policies, roles, tokens. They say who may
  act, not what happens over time; the models let anybody act.
* Wording, e-mail and PDF texts, formats, pagination, image compression.
* The audit row, in the same transaction as the act it records.
* Front ends other than CONTROL: they hold what they fetched and send one request per gesture.
* External parts: PostgreSQL, IndexedDB and the network are modelled from how
  the code uses them (row locks, unique indexes, key-value writes, lost answers), and Celery
  from its settings: acknowledgement when a message is taken, no result.
* The parts planned in section 12.

## 10. Disagreements found

Each is a violation run with a short counterexample.

1. `reservation_paid`: `_cancel` (`sales/services.py:289`) decides without a row lock; a receipt
   recorded between its check and its write leaves a cancelled reservation that holds money.
   B-051, line 61: « Blocage avec encaissement : ni expiration, ni annulation. »
2. `site_recontrol`: a milestone comes back to the controls to assign (a document after its inspection, a failed
   follow-up); a new mission on the same declaration carries no event when no reserve is open, while the submission is
   compared with the last inspection (`inspections/services.py:547`, `142`): it is refused for good, with nobody
   else at work. `control/services.py:119`: « un premier envoi réussit donc toujours tant que personne d'autre n'a
   déjà écrit sur la même cible depuis ».
3. `control_lost`: `syncDraftUnlocked` (`sync/syncEngine.ts:167`) writes back the draft it read before its
   network calls, over what the form saved meanwhile. `InspectionFormView.tsx:113-116`: « aucune
   saisie n'est perdue ».

## 11. Observations without a run

Met while modelling. Each is in a model, where it limits a property or lies outside what one claims,
unless it says otherwise. None is claimed to be wrong: they are what a maintainer should know.

The sale (`sales/services.py`):

* `update_lot` may overwrite the status of a lot under hold (`programs/services.py:238`).
* The request that itself releases a lapsed hold tests the copy of the lot it loaded before (line 166) and is refused;
  the next one succeeds (`B-048`, line 104: « nouvelle demande acceptée »).
* An expiry decided on an old reading compares with the lot status it has in memory (72-76), and may free a lot that another
  reservation holds by then; two overlapping requests are needed.
* `sign_contract_as_client` looks for the latest version without a lock (537): one created before the signature is written
  leaves an outdated version signed.
* `transition_contract` (488) can return to draft a version approved in the meantime (`B-049`, line 22: « Une version
  `APPROVED` ne se modifie plus »).
* `confirm_payment_notice` (1604) may confirm a notice on a replayed receipt with nothing left to impute (`B-056`, line 22).
* Shares are rounded to the nearest franc, so a first instalment or an intermediate tier may exceed the legal cap by up to half a franc (573, 626,
  634), where `B-050` (line 45) says « ne dépasse jamais le plafond cumulé légal du palier ». Nothing checks that a price is in whole
  francs: with hundredths, a share near 100 % may round above the price, and the last tier is then refused as negative; and a template of one
  tier calls the rounded price, since only the later tiers have an exact balance (626, 635).
* After a template switch the next tier's amount may be zero or negative; the insertion is refused
  and reported as « vient déjà d'être émis » (585, 634).
* A lot reassigned after a payment blocks its reconciliation for good (1330).
* Readings of the account release lapsed requests without the programme lock.
* A declaration sent again is compared by its reference only, not by its date (« rejouée à l'identique »). A repetition of a
  declaration after its rejection, or of a preparation after its cancellation, creates a new row; a repetition of an
  allocation imputes again (`AnswersAreFinal` leaves that one request out).

Tasks and messages:

* A cancelled or expired reservation never closes « Réservation à valider », and a call settled by a direct allocation, or by
  reconciling another receipt after the confirmation, never closes « Appel de fonds à régler »
  (`B-056`: « Les tâches d'action se ferment d'elles-mêmes »). `InboxFollowsFile` therefore speaks of a pending
  task of validation only of a file that is not validated, and says nothing of pending calls.
* Messages are sent before the commit (`inspections/services.py` 217-223, 401; `evidence/services.py:58`): a fast worker finds no
  reserve or mission and gives up, as `tasks/tasks.py` has no retry, unlike `evidence/tasks.py`. A broker that is down when
  `create_mission` sends makes the request fail and roll back.
* `_get_or_create_task` is unique whatever the status: an alert is not raised again once done, where the docstring
  (`tasks/services.py` 235-237) promises one only « tant que la première reste pending ».
* A programme request may be decided twice; its author keeps the label of the first decision.

The field (`inspections/services.py`, `evidence/`):

* `create_inspection` compares the latest event without a lock: two overlapping
  submissions are both applied, though the comment at line 141 says « aucune fenêtre de course possible ».
* `create_reserve_correction` and the direct `InspectionViewSet` do not test the reserve's status: a lifted reserve may reopen.
* A lot may have two open reserves; only the newest is named by missions and milestones, so a milestone under the
  older one is shown as awaiting its control, and a mission on another milestone may lift it.
* Acceptance (291-325) looks only at the milestone's *last* declaration: declaring again and having
  that inspected as conform accepts the milestone while its earlier reserve is open, where `B-050` (lines 60-61) says
  « aucune réserve ouverte par une inspection de ce jalon n'est encore ouverte ».
* A failed follow-up (`rejetee`) closes the reserve: the milestone may then be accepted without it being lifted.
* An inspection conforms and is accepted without a document, while the milestone says it awaits documents (`B-054`, line 24).
* Photos that an inspector's device sends after his inspection take the acceptance away, as any later document does.
* An inspection of a document counts for `pending_mission_for`, not for the « completed » of `list_missions_for_inspector`.
* HOME's percentage counts inspections and BUILD's does not, where `trust/services.py` speaks of « EXACTEMENT le même
  pourcentage »; no row of a milestone ever reaches the last level, so HOME stops at 80.

The CONTROL application:

* A lost answer followed by a retry is a conflict of the device with itself, while the banner says the
  input was not sent; a draft created by discarding a conflict starts without a known event and can only conflict again;
  a cycle holding an old list may bring back a discarded draft.

Procurement and pricing:

* Selection, adjustment, global charge and negative margin alert fail under overlap
  (`procurement/services.py` 390, 823, 598). A fixed-amount entry under the reserved name `global` disables the
  global rate. All surfaces zero makes the repartition divide by zero (not in the model).
* `activate_legal_payment_tier_template` rewrites who activated a template on re-activation, though its docstring says never
  (not in the model).

## 12. What is left

In this order.

1. The `InTurn` rules under a row lock: which lock would make the history `overlapped` unnecessary, handler by handler.
2. `FinanceLocks`: the order in which the handlers of `PaymentFile` take reservation, receipt, notice and
   programme rows, to show where a cycle of waits is possible and that the victim leaves no trace.
3. The pointer to the active template (`_upsert_active_pointer`), disputes, the creation and deletion of programmes and lots.

## 13. Running it

In this directory, for a run and for a proof module:

    tlc -workers 2 -config reservation_race.cfg MCReservation
    tlapm ReservationProofs.tla

`PROJECT.json` lists runs, properties, mutants, theorems, hazards, and the source lines of every definition.
