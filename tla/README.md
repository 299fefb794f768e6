# Fakturo in TLA+

Formal models of the Fakturo invoicing service: what its requests do to each other when they overlap,
fail half way or are late. The models are translated from the Python source; TLC checks them on small
instances and TLAPS proves the safety properties for every instance.

Paths below are relative to the repository root. `PROJECT.json` maps every definition to its lines.

## 1. The system

Fakturo is one uvicorn process running a FastAPI application. A request is an asyncio task; it has a
database session of its own (`database.py`, `get_db`) and gives way to other requests at every `await`:
on PostgreSQL (READ COMMITTED, SQLAlchemy's unit of work), on Redis (cache and blacklist), on an
outgoing HTTP call. Plain `def` dependencies run in a pool of threads. A Celery worker in another
process makes PDFs. So almost every rule of the service has the form *read, decide, write later*, and the
question asked of each component is what is left of the decision by the time of the write.

| Component | State | Operations | Interacts with | What is hard | What makes it correct |
|---|---|---|---|---|---|
| Invoice life cycle (`routers/invoices.py`, `services/invoice_service.py`, `repositories/invoice_repository.py`) | rows of `invoices`, entries of `audit_log` | create, change status, delete a draft, overdue batch | clients (foreign key and lookup), database sessions, the calendar | a status is checked in one statement and overwritten in another; the batch races payments; two rows per change | statuses follow `STATUS_MAP`, the audit log explains the status, only the owner's requests write |
| Clients and their cache (`routers/clients.py`, `services/client_service.py`, `repositories/client_repository.py`, `cache.py`) | rows of `clients` with a version column, copies in Redis with a time to live | GET (read through), POST, PATCH, DELETE (write through) | invoices (foreign key), Redis | fills arrive late; Redis fails after the commit; optimistic locking | a copy is a content the row has had, no update is lost, copies agree with rows in the end |
| Sessions and tokens (`routers/auth.py`, `services/auth_service.py`, `repositories/auth_repository.py`, `security/tokens.py`) | rows of `refresh_tokens`, `blacklist:{jti}` keys, signed tokens with an expiry | login, refresh, logout, logout of all devices, logout of one device | users, Redis, the clock | check then revoke; two commits per refresh; seconds rounded in three places | rotation revokes, logout lasts, only one's own sessions are revoked and none is missed |
| Login rate limit (`security/rate_limit.py`) | a dictionary of `LoginAttempt` in memory | check, count a failure, clear | login, threads, the clock | thread race on the dictionary, an `await` between check and count, 2^n out of range | back-off holds whatever overlaps, a late failure never shortens a lock |
| Registration (`routers/auth.py`, `repositories/user_repository.py`) | rows of `users` | register | unique index on the e-mail | lookup, then insert | who is told "registered" owns the account |
| Tags (`repositories/tag_repository.py`) | rows of `tags`, `invoice_tags` | create, bulk upsert, list, add to an invoice | invoices | lookup, then insert; two lists in opposite orders deadlock; no caller yet | a bulk upsert returns all its names, for its owner only; nobody waits for ever |
| Reports and listings (`repositories/invoice_repository.py`, `routers/invoices.py`) | none (reads) | stats, paged and filtered list, export | invoices | several statements, several snapshots; pages over moving rows | sums agree with counts, a page misses nothing, an invoice comes with its items |
| Amounts (`schemas.py`, `db_models.py`) | none (arithmetic) | subtotal, total with VAT, columns of two decimals | invoice creation | rounding per item, a rate that went through a float, columns that round again | the amount of an invoice is that of the items shown with it |
| PDF and e-mail (`celery_app.py`, `routers/invoices.py`) | messages of the broker, retries | check and enqueue, generate, send | invoices, broker, worker processes | delivered twice, retried, crashes, run after the invoice was deleted | nothing accepted is forgotten, one mail, every chain ends |
| Connections (`database.py`) | a pool of 2 + 3 connections | acquire, wait 30 s, give back | every request | a request holds a connection while it waits for Redis or a slow reader | connections come back, no request waits for ever |
| Middleware (`middleware.py`, `main.py`) | none | size limit, CORS, timing | every request | who answers inside and who outside of CORS; a response that has started | one answer per request, readable by the front end |
| Error mapping (`exceptions.py`, `exception_handlers.py`, `main.py`) | the class hierarchy, the handlers by class | raise, look up along the bases, answer | every handler | a class whose family nobody registered; what a library raises where no `except` is | 500 is answered to exactly the failures that no handler is for, never to one that the code means to answer |
| Schema migrations (`alembic/`) | catalog, rows, `alembic_version` | upgrade and downgrade, revision by revision in one transaction | every repository, through `db_models.py` | rows that contradict a revision, leftovers of a downgrade, a call that is cut off | the revision fixes the catalog, the head is what the models declare but for one primary key, no data is dropped |
| ARES lookup, setup, backup script, tests | - | - | - | - | see section 6 |

Every hazard met is in `PROJECT.json` under `hazards`, at the line where it bites, with the properties that
would notice it going wrong.

## 2. Modules

| Module | Models | Kind |
|---|---|---|
| `InvoiceStatus` | `Status`, `STATUS_MAP` | constants |
| `InvoiceLifecycle` | what the service promises of one invoice's status | abstract specification |
| `InvoiceLedger` | what overlapping requests together do to invoices, clients and the audit log | abstract specification |
| `Invoices` | invoice requests, statement by statement | detailed specification |
| `ClientReplica` | what the service promises of the clients: a log each, and a copy that lags behind | abstract specification |
| `SessionFamilies` | what the service promises of the refresh tokens: who they belong to and what continues what | abstract specification |
| `ClientCache` | client requests over PostgreSQL and Redis | specification, with fairness |
| `AuthSessions` | token and session requests over `refresh_tokens` and the blacklist | specification, with a clock |
| `RateLimit` | `LoginAttempt`, its dictionary, threads and the login coroutine | specification, with a clock |
| `CacheOverlap` | `ClientCache` with the history of which clients overlapping requests have disturbed | extension of `ClientCache` |
| `Failures` | the exception classes and the answers of their handlers | operators |
| `Pipeline` | middlewares, session, pool and answer of any request; extends `Failures` | specification, with fairness |
| `PdfChains` | what is promised of a request for a PDF, without broker and workers | abstract specification |
| `PdfWorkflow` | the endpoint, the broker, the Celery workers and their faults | specification, with fairness |
| `Amounts` | `subtotal`, `total_with_vat`, the columns | operators |
| `InvoiceReports` | creation with items, and the statistics, listing and export that read many rows; extends `Amounts` | specification |
| `Accounts` | registration and tags under their unique indexes | specification, with fairness |
| `Schema`, `Revisions` | the operations of Alembic on a catalog, and the 25 revision files, and `db_models.py` | operators and constants |
| `Migrations` | calls of alembic over databases with rows; extends `Revisions` | specification |
| `RevisionFacts` | what has to be known of the 25 files to reason about databases with rows | assumptions without a parameter, which TLC computes |
| `MC*` | model values and symmetry for TLC | instances |
| `*_proofs` | the theorems, checked by TLAPS | proofs |

The four specifications of overlapping requests (`Invoices`, `ClientCache`, `AuthSessions`, `RateLimit`) have
the same frame. `Requests` is a set of *slots*: the requests in flight at the same time. `task[r]` says where
the request in slot `r` is (`pc`) and what it has read that it will use later: its local variables and the
objects of its session. A slot that has answered takes the next request, so a behaviour is an endless stream of
requests and the number of slots only bounds how many overlap. In `Accounts` and `PdfWorkflow` a request is made
once, so that its identity can serve as the id of what it made.

One action is one uninterrupted piece of a handler: from one `await` whose result matters to the next, or up
to a commit. A commit applies the statements of its transaction at once, because they hold the locks of the
rows they write until then; `Accounts` keeps the uncommitted rows apart, because there a statement waits for
them. `Fail(r)` ends a request at any point in flight: a statement fails, the connection is lost, the pool
times out. What has been committed stays, the rest does not happen. A failure *after* a commit, where the caller
gets no answer although the write took place, is a second outcome of the committing actions.

### Invoices

State: `invoices` (rows, or `NotInserted`/`Deleted`), `audit` (the entries of `audit_log` per invoice),
`clients` (owner of each client, or `Deleted`), `today`.

| Actions | Code |
|---|---|
| `CreateLoad`, `InsertInvoice`, `ReloadInvoice` | `create_invoice`: validator and client lookup; INSERT under the foreign key and the unique number; the SELECT after the commit, whose `scalar_one` can find nothing |
| `StatusLoad`, `SetStatus` | `change_status`: owner's SELECT and `valid_status_change`; audit entry and UPDATE by id in one transaction |
| `DeleteLoad`, `DeleteRow`, `ExistsCheck` | `delete_draft_invoice`: owner's SELECT and draft check; DELETE by id; the look whether the row is still there |
| `OverdueCall`, `OverdueScan`, `OverdueCommit` | `update_overdue`: the date is taken when the statement is built, rows are found by the statement's snapshot, and READ COMMITTED looks again at a row it had to wait for |
| `ClientDeleteLoad`, `ClientDelete` | `delete_client`, as far as invoices are concerned |

`InvoiceLifecycle` is the promise: an invoice appears as a draft, moves along `STATUS_MAP`, and disappears
only as a draft. `Lifecycle == INSTANCE InvoiceLifecycle WITH status <- ...` is the refinement mapping. It
holds when requests do not overlap, and is proved for that case; with two overlapping requests it does not,
see section 5.

`InvoiceLedger` is the promise that is kept when they do overlap: every commit is one step on the tables, and the guard of the
step is what is left of the check that was made before it. A status is moved along `STATUS_MAP` not from what it is but
from one that it *has had* (`Had`: what the audit log names, and the `overdue` that the batch writes without an entry); the
batch takes only rows that are sent and past due as of today; a number and a client of the same owner are guaranteed by the
constraints alone; and a row that is deleted does not come back. Any deletion of an invoice is allowed: the check
for a draft is the one that nothing is left of. `ImplementsLedger` is the instance under the same variables.

### ClientCache

State: `rows` (version and content per client), `cache` (per user and client). A content is the sequence of
the patches applied to the row, so "older", "newer" and "has been committed" are prefixes. `acked` and
`gone` are history: the updates and deletions whose requests have been answered. Actions follow the handlers
(`GetCache`, `GetSelect`, `GetFill`; `CreateCommit`, `CreateRefresh`, `CreateFill`; `UpdateLoad`,
`UpdateCommit`, `UpdateFill`; `DeleteLoad`, `DeleteCommit`, `DeleteCache`), plus `Expire` for the time to live of
600 seconds. `UpdateCommit` has the version check of `version_id_col`, and the PATCH that changes nothing,
for which SQLAlchemy emits no UPDATE and so compares nothing.

`ClientReplica` is what all of this comes to for a caller who does not see requests, reads and versions: the log of a
client grows patch by patch until the client is deleted, and the cache gets some prefix of it, under the key of the owner, or
loses it. `Replica == INSTANCE ClientReplica WITH log <- ..., copy <- cache` drops the version column. Unlike the life
cycle of an invoice it is implemented whatever requests overlap: a commit is a `Create`, `Patch` or `Delete`, a Redis
command a `Copy` or `Drop`, and nothing else is seen. What it leaves open, how far a copy may lag, is the
subject of `ReadYourWrites` and `EventuallyCoherent`.

### AuthSessions

State: `sessions` (a token pair's row, with the expiry of its access token), `blacklist` (when each key
expires), `now`. Time is counted in ticks, `TicksPerSecond` to the second, because `exp`, the decoder's
clock and the key's time to live are whole seconds while `time.time()` is not. Actions follow the handlers
(`LoginMint`, `PostToken`; `RefreshLoad`, `RotateRevoke`; `LogoutStart`, `Blacklist`, `CookieRevoke`;
`AllAuthenticate`, `AllList`, `AllRevoke`; `DeviceAuthenticate`, `DeviceFind`, `DeviceRevoke`). `Lose` is a
restart of Redis without the key. `parent`, `loggedOut` and `lost` are history.

`SessionFamilies` is the promise about refresh tokens, without clocks and requests: a login starts a family, a refresh continues
it for the same user from a token that is revoked by then, a logout revokes tokens of one user, and no token is issued
twice or revived. The refinement mapping joins a row with its `parent`. Here, too, overlapping requests
keep the promise; that two of them may continue the same token is part of it.

Clients are assumed to send the access token in `Authorization` and the refresh token in the cookie; the
`type` claim of a bearer token is not modelled. Passwords are not modelled: `LoginMint` is a login that
succeeded. A jti is never issued twice.

### RateLimit

State: `attempt_logger` (the object registered for an address), `attempts` (the state of every
`LoginAttempt` object, registered or not), `now` in seconds. `Arrive`, `Create`, `Lookup` are `get_la_inst`
in a thread: the test, the assignment and the read at the end are three steps. `Check` is `check_timeout`;
`Refuse`, `Grant` and `Fail` are what the coroutine does after it has awaited the user. `Horizon` is the largest
n for which now + 2^n seconds is still a date: beyond it `logging_attempt` raises after it has counted.
The dictionary is in memory, so a restart of the process is the initial state.

### CacheOverlap

`disturbed` is the set of clients on which two requests have overlapped and may still be felt: a client leaves it
when no request on it is in flight and none of its entries is in the cache. It is a history variable: `Watch`
only observes the steps of `ClientCache`. With it, "invalidation on update" can be said of overlapping requests
too: what an overlap leaves behind is an entry that lives 600 seconds, nothing else.

### Failures and Pipeline

`Failures` has the class hierarchy of `exceptions.py` as a function from class to parent, the families that
`main.py` registers, and the status each handler answers. What serving a request can raise is of two sorts. `Foreseen` is
the classes of the `raise` statements, and the two that FastAPI answers itself. `Uncaught` is what libraries
raise and no `except` of the code is for: timeouts of the pool, errors of the driver, a row that is stale at a flush, a row that is not
found by `scalar_one`, Redis, the broker of Celery, a lock whose end is no date, answers of ARES that do not parse; and `LibraryError`, which
stands for every class that is not named.

`Pipeline` takes any request from the outermost middleware to its last byte. `Arrive` is the way in through
`MaxBodySizeMiddleware` and `CORSMiddleware`, which may answer themselves, or raise over a header field that they cannot
read (a `content-length` that is no number, an `origin` that is no text: `Unreadable`), and are then answered 500
outside of everything; a handler then executes statements, commits,
raises, responds or streams in any order, at most `MaxSteps` of them; `Unwind` and `Close` are the `finally` of
`get_db`. A streaming response keeps its session open until the stream ends. The pool is two numbers' worth of
state: who holds a connection, and how many are idle. `Expire` is `pool_timeout`. What an exception leads to
depends on whether the response has started.

### PdfWorkflow

`RequestPdf` (owner's SELECT), `Enqueue` (202), then messages: `Fetch`, `Begin` (the acknowledgement, early as
`acks_late` is not set), `Generate`, `NotFound`, `Publish` (the result is stored and the next task of the chain is
sent), `Refused` (the connection error of `autoretry_for`, retried up to `max_retries`), `Broken` (any other exception
of `generate_pdf`, such as one of the database or of the rendering, which ends the chain without a retry), `Send`. Faults: `Crash` of
a worker in any stage, `CrashAfterSend` between the mail and the end of its task, `DeliverAgain` when the visibility timeout
passes on a fetched message. `Delete` removes the invoice at any time in between. Broker and worker pool are
external: modelled as Celery with Redis and the settings of `celery_app.py` use them. The mail is the one that
`send_email_task` would send; the function itself only prints.

`PdfChains` has no broker and no workers: once a request is accepted there is one piece of work for it at a time, first the
PDF and then the mail, and it ends in one outcome, which is the right one (`not found` only of an invoice that is gone,
`refused` only after the last retry, `failed` only instead of a PDF). `Chains == INSTANCE PdfChains WITH pending <- Pending` maps to it
what is in the queue, what the workers have and, of a worker that has rendered a PDF and not yet stored it, the task that it
is about to publish. Only a request in `repeated`, of which a message came twice, may have work that was done already.

### Amounts and InvoiceReports

`Amounts` computes in integers: prices and quantities in thousandths, amounts in hundredths. `HalfEven` is the
`Decimal` context of Python, `HalfUp` the numeric of PostgreSQL, and `total_with_vat` takes the rate through a float, so
that a tie is never exact. `SumTo` is `sum()` as a recursive function, so that it can be proved about. Prices and
quantities are taken to be not negative, which `InvoiceItemCreate` does not demand.

`InvoiceReports` creates an invoice in the statements of `create_invoice` (the number from the sequence, the items, the commit)
and lets the single writes of the life cycle happen between the statements of a report: the two of `/stats`, the
SELECT of a page and the `selectinload` after it, page after page, with LIMIT and OFFSET, by id, by a date or, as
the export does, by nothing. `quiet`, `moved`, `always` and `gone` record what was written meanwhile.

### Accounts

`RegisterLookup`, `RegisterInsert`, `RegisterRefresh`; `CreateLookup`, `CreateInsert` of `create_tag`; `BulkBegin`,
`BulkInsertRow`, `BulkCommit`, `BulkList` of `bulk_upsert_tags`. `open[r]` is what the transaction of `r` has
inserted and not committed; an INSERT on the same key waits for it, and `EndDeadlock` is the detector of PostgreSQL.
A bulk upsert is given any list of at most as many entries as there are names, in any order and with repetitions; the
empty list is answered 500, as an INSERT without rows is.

### Schema, Revisions, Migrations

A catalog is a set of facts (a column of a table, NOT NULL, a column of the primary key, an index, a label of an enumerated type...), and
each operation of Alembic adds and removes facts, or raises. `Revisions` has one definition per revision file,
with its upgrade and its downgrade, and `metadata`, the catalog that the classes of `db_models.py` describe. Of the rows
only what can stop a statement is kept: which tables have any, which columns are NULL somewhere. `Migrations` runs calls
of alembic (to the head, to the base, one step) in one transaction each (`run_migrations_online`); a call may
raise or be cut off at every statement, and between calls the service stores rows that the current catalog allows. Left
out of the catalog are column types (but for the time zone of a timestamp), server defaults and sequences, and the columns that
a foreign key joins. The classes and the revisions agree on all the rest but for one fact, `DeclaredOnly`: the class
`InvoiceTag` declares its inherited `id` as part of the primary key, and no revision puts it there (section 5). A call is a record of its target, the revision it works on, the
statements of it that are `done`, and the database that its transaction sees; `Begin`, `Execute`, `Stamp` (the revision is
done), `Commit`, `Raise` and `Crash` are its steps. `Straight`, `Upgrade(k)` and `Downgrade(k)` are the
databases that an empty one goes through from the first revision to the head, and between two of them.

## 3. Runs

| Run | Instance | Shows |
|---|---|---|
| `InvoicesRaces` | 2 slots, 2 users, 1 client, 1 invoice, 2 days, 2 audit entries | the audit log explains every status; invoice and client stay with one owner; only the owner writes; the batch never undoes a payment; `InvoiceLedger` is implemented |
| `InvoicesSerial` | 1 slot, 2 users, 2 clients, 2 invoices, 3 audit entries | `Invoices` implements `InvoiceLifecycle` |
| `InvoicesPaid` | 2 slots, 1 user | the disagreement of section 5 |
| `ClientCacheRaces` | 2 slots, 2 users, 1 client, 2 patches, 3 updates, fair | copies were committed; no lost update; an acknowledged update or deletion is what the cache answers, unless an overlap has disturbed it; copies agree with rows in the end; `ClientReplica` is implemented |
| `AuthSessionsRaces` | 2 slots, 2 users of which 1 is active, 2 pairs, lives of one second, 2 seconds | a token with a successor is revoked; only own sessions are revoked; a logout of all devices misses none; `SessionFamilies` is implemented |
| `AuthSessionsClock` | 2 slots, 1 pair, 3 ticks per second, lives of two seconds, 1 lost key | a logout lasts to the last second of the token |
| `RateLimitRaces` | 2 slots, 1 address, 3 objects, horizon 4, 10 seconds | back-off; late failures never shorten a lock; at most one object per slot |
| `Pipeline` | 3 requests, a pool of 1 + 1, 2 statements each, 6 kinds of request, one class with a handler and one without, fair | connections come back; one answer per request; who may read it; 500 for what has no handler and for nothing else; every request ends |
| `PdfWorkflow` | 2 requests, 1 invoice, 2 workers, 2 retries, 2 faults, fair | nothing accepted is forgotten; one mail unless a message came twice; every chain ends; `PdfChains` is implemented |
| `InvoiceReports` | 2 users, 3 invoices, 2 creations at a time, 3 item lists, 4 walks | amounts are those of the items; statistics add up and pages meet every invoice when they may; invoices come with their items |
| `Accounts` | 3 requests, 1 e-mail, 2 owners, 2 names in lists of up to two, fair | who is welcomed owns the account; a bulk upsert returns all its names; nobody waits for ever; and the facts of `RevisionFacts` hold |
| `Migrations` | all 25 revisions, statement by statement, rows in 7 tables | the revision fixes the catalog; the head is `db_models.py` but for `DeclaredOnly`; a revision raises only over leftovers; no upgrade drops rows or filled columns |

Why these bounds are enough to be interesting. Every race between requests is between two of them on one
row; two slots give all interleavings of two requests, and of a third one started after either has ended. Two users are
needed where the property is about tenants; there is one invoice (or client), so that every request meets the
other. Three updates let two PATCHes overlap and a third build on either. Two pairs are a session
and its successor, or the sessions of two users; two successors of one token need a third pair and are left to
the theorem. Two days let an invoice become past due while a request is in flight. In `AuthSessionsClock`
the life of a token is six ticks and the clock runs for nine, so the key is written at every offset
within a second, up to two seconds late, and is watched beyond the end of the token. In `RateLimitRaces` the
clock passes the lock of 8 seconds, both slots pass the check at a count of 3, and the second failure after it
is beyond the horizon. In `Pipeline` the third request queues while two hold the pool, one of the two connections is
beyond `pool_size` and closed when it comes back, and of the classes that a handler may raise there is one with a handler
(`InvalidStatusChangeError`) and one without (`StaleDataError`), next to the `TimeoutError` of the pool and the `ValueError` of a
header field: which of all the classes have a handler is a theorem. In `PdfWorkflow` a message can be retried, be retried for the last time and
fail; two faults are a crash of each worker, or a repeated delivery and a crash. In `InvoiceReports` three invoices
make a page of one move under the offset, and two of them share a due date. In `Accounts` two bulk upserts take the
names in opposite orders, or the same name twice, and a third request inserts what one of them has not committed. `Migrations` has no bound but one
row, or none, per table.

`MaxDay`, `MaxAudit`, `MaxUpdates`, `MaxTime`, `MaxLost`, `MaxSteps`, `MaxFaults`, `MaxId` are bounds and nothing else;
each is a guard and is named as a bound where it is declared. In `RateLimit` the clock must stop before
`Backoff[Horizon]` seconds (with the code's horizon: some four thousand years of uptime), or the count is
unbounded. The check for deadlock is off in `PdfWorkflow` and `Accounts` only, where every request is made once and
the system stops when all are done; that they end there and not earlier is what their liveness properties say.

Fairness:

- `ClientCache`: weak fairness of `Proceed(r) \/ Fail(r)` for each slot (an asyncio task that has been started is
  resumed, and every wait in it ends with a result or an exception), and of `Expire \/ Refill` for each key (Redis
  expires keys by itself).
- `Pipeline`: weak fairness of `Serve(r)` for each request: the event loop goes on with every task, the timer of the
  pool fires, a client reads what it is sent or goes away. Which of the possible steps is taken is not assumed.
- `PdfWorkflow`: weak fairness of each worker's own steps and of the fetching of each message: workers that crash
  are started again, the broker keeps its messages. That the faults are finitely many is the bound `MaxFaults`.
- `Accounts`: weak fairness of `Serve(r)`: statements end, and the deadlock detector runs.

No fairness is assumed of the start of any request, of a failure, or of a particular outcome.

Each property has a variant of a mapped definition, a plausible slip in the code it models (a
missing WHERE, a forgotten commit, a swapped comparison), under which TLC finds it violated; the variants
stand in the modules next to the definitions and are listed in `PROJECT.json` under `mutants`.

## 4. Theorems

Proved for any number of slots, users, rows, workers, connections and any bounds, from the assumptions named in
the modules (markers such as `Deleted` are not rows, nor entries and tokens of the abstract specifications; `Requests` is finite and `Backoff` does not decrease in
`RateLimit`; `TicksPerSecond` is positive; the pool has room for one connection; the lists of items, the walks and the due
dates of `InvoiceReports` are of their types, see `InvoiceReportsAssumption`).

| Theorem | Property | Argument |
|---|---|---|
| `Invoices_proofs!TypeCorrect` | `TypeOK` (of no run) | by action |
| `Invoices_proofs!PendingWritesAreSound` | (inductive part) | the owner and client of a row never change, ids are not reused, so what was read about *them* cannot become false |
| `Invoices_proofs!AuditIsSound` | `AuditExplainsStatus`, with `AuditEntriesLegal` | entry and status change in one step; legality of an entry was fixed when it was read |
| `Invoices_proofs!TenantsAreConsistent` | `TenantConsistent` | the foreign key at the INSERT and at the DELETE of the client, with the pending INSERT's client being the caller's or deleted |
| `Invoices_proofs!TenantsAreIsolated` | `OnlyOwnerWrites` | from `PendingWritesSound` |
| `Invoices_proofs!BatchRespectsPayment` | `PaidIsLostOnlyToStaleRequests` | the second look of READ COMMITTED at the row |
| `Invoices_proofs!SerialChecksHold`, `SerialRefinement` | `ImplementsLifecycle` | with one slot no step comes between check and write; then every step maps to a step or a stutter of `InvoiceLifecycle` |
| `Invoices_proofs!StaleChecksAreSound` | (inductive part `StaleChecksSound`) | a log only grows, so a status that it once accounted for stays in `Had` (`HadGrows`), and the status of a row always is (`HadExplains`, from `AuditExplainsStatus`); the calendar does not go back |
| `Invoices_proofs!LedgerRefinement` | `ImplementsLedger` | each commit is the step of the ledger that `PendingWritesSound` and `StaleChecksSound` leave the guard of; every other step leaves the tables alone |
| `ClientCache_proofs!TypeCorrect`, `ReadsAreSound` | `TypeOK` (of no run) | contents only grow, and the version grows with them |
| `ClientCache_proofs!CacheIsCommitted`, `NoLostUpdate` | `CachedWasCommitted`, `UpdatesBuildOnWhatWasRead` | from `ReadsSound` |
| `ClientCache_proofs!QuietReadYourWrites`, `QuietDeletedNotFound` | `ReadYourWrites`, `DeletedNotFound` | `OverlapInv`: of an undisturbed client, a copy has all acknowledged patches (`CalmCache`) and the one request in flight has read the current row (`CalmReads`); a request that has deleted the row is the reason why it is gone (`DeletersSound`, `AnswersSound`) |
| `ClientCache_proofs!ReplicaRefinement` | `ImplementsReplica` | a fill is a `Copy` because what the request holds was committed (`ReadsSound`), a commit is a `Patch` or `Delete` because the version check looks at the current row; every other step is a stutter |
| `AuthSessions_proofs!TypeCorrect`, `WorkIsSound` | `TypeOK` (of no run) | a row's user and expiry never change and `revoked` is never reset (`SessionsGrow`); the time to live is cut by less than one second (`Quotient`) |
| `AuthSessions_proofs!RotationRevokes` | `RotatedIsRevoked` | the token a pending pair continues is revoked already |
| `AuthSessions_proofs!LogoutIsFinal` | `LogoutHolds` | strengthened to `LogoutsCovered`: the key outlives the last second of the token, or that second has come, or Redis has lost the key |
| `AuthSessions_proofs!OnlyOwnSessionsRevoked`, `LogoutAllIsComplete` | `OnlyOwnDevices`, `LogoutAllCovers` | from `PendingWorkSound`: a session that was not listed was revoked or expired then, and still is |
| `AuthSessions_proofs!FamiliesRefinement` | `ImplementsFamilies` | from `PendingWorkSound` and `NewPairsValid` (a pair about to be inserted is not revoked): `PostToken` is a `Login` or a `Rotate`, the four revoking steps are a `Revoke` of one user |
| `RateLimit_proofs!TypeCorrect` | (types and `Found`) | an address that was known stays known, an object that a login holds has been constructed |
| `RateLimit_proofs!OnlySuccessOpens` | `OnlySuccessShortens` | from `Locks`: a lock reaches as far as the count asks for and no further from now, so a higher count cannot end earlier |
| `RateLimit_proofs!BackoffHolds` | `GuessesAreBounded` | count plus logins in flight does not change when a failure is counted, and grows only at a check, which has seen the lock of the count end |
| `RateLimit_proofs!FewCounters` | `CountersAreFew` | `FewInv` counts the objects that are still to come: a login is `Late` when it found its address unknown and the address is known by now, and only logins that overlap the first one of an address can become late |
| `Pipeline_proofs!EveryRaiseIsHandled` | (of `Failures`) | the two steps along the base classes, class by class: a class that can be raised has a handler exactly if it is not `Uncaught`, and no handler answers 413 or 500 |
| `Pipeline_proofs!TypeCorrect`, `PoolIsAccounted` | `ConnectionsAccounted` | `PoolInv`: holders and idle connections together never exceed the pool, and every way out of a handler passes one of the two `finally` steps (`Taking`, `Giving`) |
| `Pipeline_proofs!OneAnswer`, `ReadableAnswers`, `NoForeseen500` | `AnsweredOnce`, `ReadableByOurs`, `OnlyUnforeseenIs500` | `AnswerInv`: where a request is says how often it has been answered, and who made the answer says which header it has; a finished request whose failure is in `Uncaught` was answered 500, or its 200 was cut short, and no other is answered 500 (`Failing`: where a failure can come from) |
| `PdfWorkflow_proofs!TypeCorrect` | `TypeOK` (of no run) | with `MaxRetries` as the bound of every message |
| `PdfWorkflow_proofs!NothingIsForgotten` | `AcceptedIsSomewhere` | a message leaves the queue to a worker and a worker only for an outcome, for its successor or back to the queue (`HowMessagesLeave`, `HowMessagesStay`) |
| `PdfWorkflow_proofs!MailsAreNotRepeated` | `OneMailPerRequest` | `MailInv`: of a request no message of which came twice there is one message at a time, and none once a mail has left |
| `PdfWorkflow_proofs!ChainsRefinement` | `ImplementsChains` | with `OnlyWhileOpen` (a message that came once belongs to a request without an outcome), a worker's message is nowhere else (`NotElsewhere`), so that what it carries leaves `Pending` as a whole (`PendingSplits`, `WorkIsReplaced`, `EndRefines`) |
| `Pipeline_proofs!QueueIsServed`, `EveryStepCounts` | (safety part of `EveryRequestEnds`) | who queues holds nothing, so a connection is idle or comes back; the steps left, `4 * steps + 6` at most, go down with every own step and are put up by nobody |
| `Database_proofs!TypeCorrect`, `WelcomeIsSound` | `WelcomeIsOwnAccount` | the unique index decides, and accounts are never taken over |
| `Database_proofs!BulkIsComplete` | `BulkReturnsAll` | `BulkInv`: a name that has been passed is committed or in the own transaction, never in another's; committed rows stay |
| `Database_proofs!UniqueIndexHolds` | (the index itself) | `UniqueRows`: the keys of committed rows and of rows of open transactions are distinct; an INSERT waits for whoever is in its way |
| `Database_proofs!NobodyWaitsInVain`, `EveryStepCounts` | (safety part of `EveryRequestEnds`) | whoever holds rows is in an upsert; if all of those wait, a smallest closed set of them (`CircleExists`) is the circle that the detector ends. For this one the requests must be finitely many |
| `Database_proofs!RevisionFixes`, `HeadServes`, `RaisesOverLeftovers` | `RevisionFixesCatalog`, `HeadServesModels`, `RaisesOnlyOverLeftovers` | `MigrationsInv`, below; the head lacks exactly `DeclaredOnly` of what the classes declare |
| `Database_proofs!UpgradesKeep` | `UpgradesKeepColumns` | `KeptSoFar`: an upgrade under way has kept what it found; each statement keeps that (`ApplyKeeps`), a renaming because its new name is that of no earlier table |
| `Database_proofs!HeadHasIndexes` | (composition) | the two unique indexes on which `WelcomeIsSound` and `BulkIsComplete` rest are those that `HeadServes` finds at the head |
| `InvoiceReports_proofs!TypeCorrect` | `TypeOK` (of no run) | by action; what a page is of, and that `SumTo` of naturals is one, are lemmas |
| `InvoiceReports_proofs!StatsAddUp` | `QuietStatsAddUp` | `StatsInv`: as long as the report is quiet, its groups are those of the rows there are; the four statuses split the rows of a user (`GroupsAddUp`, from `DisjointSums`) |
| `InvoiceReports_proofs!AmountIsSound` | `AmountIsThatOfItems` | `AmountInv`: a creation whose items were inserted had some; what fits the columns is stored as it is |
| `InvoiceReports_proofs!TotalAmountIsClose`, `AmountIsClose` | (of `Amounts`; `ShownIsClose`) | each of the two roundings of an item is to the nearest (`HalfEvenIsNearest`), and the errors add up (`CloseAdds`) |
| `InvoiceReports_proofs!ItemsComeAlong` | `ListedWithItems` | `ItemsInv`: an invoice of the page that is not there any more is in `gone`; those that are there have items |
| `InvoiceReports_proofs!PagesAreSound` | `PagesMeetEachOnce` | `PagesInv`, below |

`MigrationsInv` says where a database is: its catalog is that of the straight path (`Expected`) but for types and labels that are
there besides, a column is NULL only in tables with rows, and every type is one of `db_models.py`. It is inductive because of
two lemmas about a statement: `ApplyKeepsLikeness`, that it does the same to two catalogs that differ in types and labels only,
and `NextStatement`, that the statement that is next is the one that the straight path continues with. So what 25 files do
to databases with any rows, on any path of upgrades and downgrades, comes down to what they do to an empty one, once. That is
a matter of computing and not of proof: `RevisionFacts` states it as named assumptions (`UpgradesLead`, `DowngradesLead`,
`Ends`, `KnownStatements`, `UpgradesDropLittle`, `NamesAreNew`, `Triples`, `Lengths`) about definitions that have no
parameter, so nothing is assumed of an instance. The provers cannot unfold the folds and the recursive functions under them;
TLC evaluates every one of the assumptions in the run `Accounts`, whose tables they are about.

`PagesInv` is why OFFSET works, when it does: what has been met so far has no repetitions, is as long as the offset, and is
exactly what comes first of the rows there are *now* (`ComesFirst`). Two sets of rows that come first and are equally large are
equal (`SameFirst`), so the page that OFFSET cuts out of a new SELECT goes on where the last one ended
(`NextPage`). A write keeps this by id unless a row was `moved`; nothing does by a date, where an invoice that is created
may come in front, so there the walk must be `quiet` and its dates different.

Sums and lists call for induction. The induction theorems of the library take an operator and cannot be used; `WFMin` (a
nonempty set of naturals has a least element) can, and gives `InductionOnNat` for sets. `SumExists` and
`SumsAgree` make the recursive function of `SumTo` the sum of its terms by it, and every further fact of `SumTo` is one more
set that has 0 and with each number the next.

Only model-checked: liveness (`EventuallyCoherent`, `EveryRequestEnds`, `EveryChainEnds`), which is out of the prover's reach:
fairness and ENABLED are. What they rest on, and is not about fairness, is proved for `Pipeline` and `Accounts`: nobody waits for what nobody gives back
(`QueueIsServed`, `NobodyWaitsInVain`), and no step can be repeated without end (`EveryStepCounts`). Every other property of a passing run is stated by a theorem.

The inductive parts `PendingWritesSound`, `ReadsSound`, `PendingWorkSound`, `ChecksStillHold` and `StaleChecksSound`, and
`AuditEntriesLegal`, are stated in the modules and proved, but are properties of no run: those that rest on them are. Nor are
`UniqueRows`, `QueueMoves`, `WaitsAreForSomebody` and `StepsCount`, which only the theorems named above state.

## 5. Where the code and what is said of it part

`InvoicesPaid` has a counterexample a few steps long: `STATUS_MAP` has no way out of `paid`, and "Not allowed to
delete invoices that was sent already". But a PATCH that read `sent` may commit `overdue` over a payment, and a
DELETE that read `draft` may remove an invoice that has been sent and paid since: both writes name the row by
id only.

Seen in the models, without a run of their own:

- "Invoice was already deleted" is never answered to the second of two overlapping DELETEs: both find nothing left
  and answer 204.
- "Redis caching (client lookups) with cache invalidation on update": a GET that read the row before a PATCH (or a DELETE) may
  fill the cache after it; the old copy is served until it expires. `ReadYourWrites` says how far this reaches: without
  `\ disturbed` it is violated.
- "per-IP rate limiting on login": a login that overlaps the first one of its address may replace the address's object in the
  dictionary, with the failures counted on it. `GuessesAreBounded` says what remains.
- `/stats` reads its groups and its totals in two snapshots, so the groups need not add up; `QuietStatsAddUp` says when they do.
- A refresh token can be used twice by overlapping refreshes, which both find it unrevoked: it then has two successors.
  `RotatedIsRevoked` only promises that the token itself is revoked.
- A loser of two registrations of one e-mail is answered 500, not 400: the unique index raises where nobody catches it.
- The downgrades do not drop the enumerated types, so after a downgrade to the base the next upgrade raises
  (`RaisesOnlyOverLeftovers`), and a last revision that sets NOT NULL raises over rows that the services of earlier
  revisions could store.

- `InvoiceTag` inherits `id` from `Base`, where it is a primary key (`database.py:27`), so that the class declares the key
  (`id`, `invoice_id`, `tag_id`) (`db_models.py:150-151`). The migrations make the key (`invoice_id`, `tag_id`)
  (`e8d94323252d:48`) and later add a plain `id` NOT NULL (`86b28ddb1e34:42`). The tests create their tables from the
  classes (`tests/conftest.py`), so they run on another key than the service does. `HeadServesModels` holds the difference
  of the head and the classes to this one fact.
- Much of what libraries raise is answered 500 where a caller could expect something better. `StaleDataError` is caught in
  `update_client` only (`client_repository.py:36`), and not where an invoice or a client that another request has deleted is flushed
  (`invoice_repository.py:170`, `client_repository.py:43`); `scalar_one` finds nothing when the invoice is gone after its commit
  (`invoice_repository.py:98`); a lock too far ahead is no date (`rate_limit.py:28`); Redis, the broker and an answer of ARES
  without the expected fields have no `except`; a `content-length` that is no number and an `origin` that is no text raise in
  the middlewares (`middleware.py`). `OnlyUnforeseenIs500` says that these are all.

What holds in spite of the races is as much the result: the audit log, tenant isolation, optimistic locking,
rotation, logout, back-off, the pool and the one answer per request survive every interleaving.

## 6. Not modelled, and the plan

Not modelled, each with its reason:

- The ARES lookup: one HTTP call without state. Its exceptions are in `Failures`.
- The backup script: a shell script outside the service, one run after the other.
- Application setup, configuration, rendering and logging; the tests.
- `add_tag_to_invoice`, which has no caller and cannot succeed (`InvoiceTag` inherits the column `id`, which the migrations make
  NOT NULL without a default); the endpoints of `get_sum_by_status` and `get_invoices_above_avg`, single statements over one
  snapshot, of which the first is the first half of `/stats`.
- `SlowRequestMiddleware`: not installed.
- Passwords and the `type` claim of tokens: a login that succeeds is `LoginMint`; the access token is in the header, the refresh
  token in the cookie.
- Column types, server defaults, sequences and the columns that a foreign key joins; offline migrations.
- That an unpaid invoice becomes overdue cannot be stated as liveness: nothing in the repository calls the batch by
  itself.

Next, most important first:

1. `Pipeline` as the resource of `Invoices` and `ClientCache`: a slot that holds its connection across the waits of the
   detailed model.
2. `add_tag_to_invoice`, once a router calls it: it looks the tag up by owner and the invoice by id alone.

