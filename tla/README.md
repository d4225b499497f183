# A verification project for golang-base

TLA+ models of the parts of golang-base whose correctness depends on the order
in which things happen: the permission check and its Redis cache, the user and
permission administration, the migration command, the real-time message service,
the HTTP server with its middleware and tokens, the file storage, the exports and
the logger. TLC checks small instances of every model, and TLAPS proves every
safety property and action property of the passing runs, the sum of a table's
column widths excepted, for instances of every size.

Contents: [the system](#the-system), [the modules](#the-modules-and-the-code),
[the runs](#the-runs), [fairness](#fairness), [the proofs](#the-proofs),
[where code and documents disagree](#where-code-and-documents-disagree),
[what is not modelled](#what-is-not-modelled), [the plan](#the-plan).

## The system

golang-base is a Fiber HTTP server over PostgreSQL (through bun) and Redis,
with two commands beside it (`cmd/migrate`, `cmd/seed`) and an example of a
Socket.IO service. Handlers call a service, the service calls a repository, and
the repository runs single SQL statements. **No code path opens a transaction**,
and no lock is held across two statements. Every request has its own goroutine,
several instances of the server may share one database, and the commands may
run at any time. So the unit of atomicity in all database models is one SQL
statement or one Redis command.

| Component | State | Operations | Talks to | Hard behaviour |
|---|---|---|---|---|
| Permission check and cache (`middleware/permission.go`, invalidations in `auth/service.go`) | Redis entries `role_perms:*`, `user_perms:*`, TTL 24 h; rows of `role_permissions`, `user_permissions` | check of a request, bulk update of a role, single grant and revoke, expiry | every guarded route; the role seeder and user deletion write the rows behind its back | fills racing invalidations, dropped Redis errors, aborted bulk updates, deleted users |
| Access decisions (`HasPermission`, `GetComputedPermissions`, `AllowedPermissions`) | none of their own | three answers to "may this user do this?" | the same rows | several reads per answer, expiry in between, disagreement |
| User administration (`auth/handler.go`, `service.go`, `repository.go`, super-admin seeder) | `users`, `roles`, `user_roles`, `user_permissions`, `permission_changes_log` with their keys | create, update, delete, grant, deny, revoke, seed | cache (invalidations) | multi-statement updates, dropped errors, cascades, actors deleted on the way |
| Migration command (`cmd/migrate/main.go`) | the schema, table `migrations`, the directory of files | up, down, fresh, create, list | the database alone | kills between statements, dropped errors, overlapping runs |
| Message service (`example/socketio/handler/service.go`) | `msgChan`, `stopChan`, `started`, the worker | Publish and its variants, `Channel`, Start, Stop | Socket.IO server | a full channel, shutdown, restart |
| HTTP server (`app`, `middleware/*`, `pkg/metrics`) | in-flight gauge, request counter, log records, spans | every request: recover, Metrics, RequestID, Tracing, RequestLogger, CORS, limiter, handler, error handler | every route | panics and errors on the way out, a server that comes up without a database or storage |
| Tokens (`pkg/jwt`, `AuthMiddleware`, Login, RefreshToken, Me) | none: tokens are signed | issue, validate, refresh | users table at login and in Me | expiry, tokens outlive their user |
| File storage (`modules/storage`, `pkg/storage`) | the directory, the bucket | upload, delete, presigned link, download | disk, S3, GCS | multi-step uploads, faults, kills, racing deletions |
| Exports (`pkg/export`) | gofpdf's cursor, font, images, footer, pages | FromStructs, Excel, Generate, the helpers of Document | handlers and services | page breaks, state one call leaves to the next |
| Logger (`pkg/logger`) | level, directory, open files, slog's default logger | Setup, SetDir, request loggers, records | everything | Setup in two critical sections, files closed under a logger |
| Event dispatcher (`pkg/event`) | listeners under an RWMutex | subscribe, dispatch | no caller | listeners run under the lock |
| Pagination, OCR client, generic cache, mail, queue, crypto, validation, Socket.IO wrapper, seeder registry, configuration | little or none | wrappers and formatting | libraries | edge values |

What makes each part correct:

* **cache**: a stale entry has a nameable cause and ends with its TTL; a hit
  never lets through what has no row, outside those causes; a deleted user is
  never let through; every request is answered; an undisturbed bulk update
  leaves what was asked for.
* **decisions**: an answer was right at some instant of the call; the three
  decisions agree where they are meant to.
* **administration**: an email identifies an account; no dangling reference; a
  deleted account stays deleted; an update leaves what it computed; no account
  loses its roles without a reason; a change of an override is in the audit log.
* **migrations**: the tracking table says what is in effect; up and down deliver,
  or it is known what they pass over; rollback respects references.
* **messages**: order, no loss, no duplicate; a graceful Stop loses nothing and
  returns; accepted messages are emitted.
* **server**: the gauge, the counter, the log and the span of a request tell what
  its client saw; every request is answered and the gauge drains; a session ends.
* **storage**: a key that was answered is whole, a deletion is final, a link ends;
  whatever is left behind has a cause.
* **exports**: every row is shown once and in order below its header, in the font
  it was given; a header shows its own logo, and the columns are those of the struct.
* **logger**: after Setup the default logger is the one that was asked for, its
  files are open and no others; a record is in app.log and in its level's file.

## The modules and the code

`PROJECT.json` maps every definition to the lines it stands for.

| Module | Models | State ↔ code | Actions ↔ code |
|---|---|---|---|
| `PermissionCache` | check, cache, invalidation, seeder, deletion | `rows` permission tables; `cache` Redis; `req[q]` the middleware's locals; `op[w]` the service's locals; `seeder` the seed command | `Arrive`, `GetUserByID`, `CacheGet`, `DbRead`, `CacheSet` are the middleware's steps for one key after another; `BeginUpdate`, `GrantRow`, `RevokeRow`, `AbortOp`, `Invalidate`, `LogPermissionChange` the service; `Expire` the TTL; `DeleteUser`, `SeedTruncate`, `SeedGrant` the writers that know no cache |
| `AccessDecision` | the three decisions | `db` rows and clock; `check` one call of HasPermission | `ReadUser`, `ReadOverrides`, `ReadRole` its queries; one action per change of a row; `GetComputedPermissions`, `AllowedPermissions` as functions of one state |
| `UserAccounts` | user administration and audit | the five tables with UNIQUE, foreign keys and cascades; `call[c]` the locals of a request | one action per statement: `CheckEmail`, `InsertUser`, `ReadRoles`, `WriteUser`, `ClearRoles`, `InsertRoles`, `DeleteUser`, `ChangeRow`, `WriteLog`; `Begin...` the handlers' checks |
| `Migrations` | cmd/migrate | `rows` the table `migrations` with ids and batches; `schema` what is in effect; `files`, `written`, `blank` the directory, its files with SQL and its empty ones; `run[p]` a process | one action per statement of up, down, fresh; `AddFile`, `WriteFile` for create; `Kill` anywhere |
| `BroadcastQueue` | the message service | `buffer`, `sendq` the channel and its blocked senders; `wpc`, `hand` the worker; `started`, `stopClosed`, `stop` Start and Stop | `Publish`, `SendBlocks`, `Start`, `StopCall`, `WaitEnds`, `StopReturn`, `Take`, `Dispatch`, `SeeStop`, `Exit` |
| `DeliveryQueue` | what the service promises | a queue, what is being emitted, what was emitted | `Offer`, `Take`, `Deliver` |
| `ApiServer` | the server, its middleware, tokens, login, health, scrape | `inFlight`, `total` the collectors; `issued` the tokens out there; `users` the table; `dbUp`, `storageUp` what start-up left; `req[q]` the goroutine of a request with its log record, span and answer | `Enter` the way in; `AuthMiddleware`; `Handle` the handlers `Login`, `RefreshToken`, `Me`, `Health`, `Scrape`, `Unmatched`; `Leave` the middleware after Next (or its deferred calls); `Answer` the gauge, recover and `customErrorHandler`; `Tick`, `DeleteUser` beside them |
| `FileStorage` | storage module and providers | `store` the objects with the chunks that are there; `folder` the directory; `up[u]` an upload; `links` presigned URLs | `Upload`, `Create`, `CopyChunk`, `CopyFails`, `CopyEnds` the steps of the three providers, `Commit` the effect at the bucket and `Answer` what the process hears of it; `Delete`, `DeleteFolder`, `PresignedURL` the other handlers; `Crash`, `Tick` the environment |
| `TableExport` | struct tags, sheet, PDF pages | `table` FromStructs' result; `sheet` the writes of the Excel exporter; `canvas` gofpdf: `items` what was drawn, in order, each with its page, place and font, `footers` the total on every page, cursor, bold, images; `footer` the registered function; `drawing` the loop of drawRows | `ExcelGenerate`; `Generate`; `NewDocument`, `Title`, `Header`, `Paragraph`, `Spacer`, `SetFooter`, `Table`, `Bytes` the helpers; `drawRow`, `RowsDone` the loop |
| `LoggerSetup` | Setup and logging | `handlers` every handler built, with the files still open; `default` slog's logger; `openFiles`, `current`, `initialised`, `dir` the package variables; `calls[c]` a Setup in progress; `logs[r]` a record on its way | `Call`, `Check`, `Build`, `Install`, `SetDefault`, `Close` the parts of Setup between two shared accesses; `SetDir`; `WithRequestID`, `HandleCombined`, `HandleLevel` a request that logs |

Each component's theorems are in a module of their own, `PermissionCacheProofs`,
`AccessDecisionProofs`, `UserAccountsProofs`, `MigrationsProofs`,
`BroadcastQueueProofs`, `ApiServerProofs` and `LoggerSetupProofs`, which extends
the component's; `FilesProofs` extends both `FileStorage` and `TableExport`, which
make files and share nothing (so the latter's specification is `ExportSpec`, from
`ExportInit` and `ExportNext`). The inductive invariant of a component is at the end
of the component's module. An `MC` module names the values of
a component's constants for TLC.

`BroadcastQueue` refines `DeliveryQueue` (the blocked senders are the tail of the
queue). The database modules overlap on purpose, each keeping in detail what its
properties tell apart: `PermissionCache` sees permissions as rows that exist,
`AccessDecision` gives rows their `is_granted` and `expires_at`, `UserAccounts`
gives them their author, and takes the cache away. `ApiServer` runs the requests
around these decisions, and has of the users table only who is in it.

Abstractions worth knowing:

* a Redis or SQL call may fail at any time when the run allows it (`Faults`,
  `DbFails`); a nil Redis client is one whose every call fails;
* in `PermissionCache` the roles read for a request are any set, since
  `UserAccounts` may change them at any time;
* in `UserAccounts` a column group's value is the call that wrote it, so that a
  lost update is visible; ids are never reused (`uuid.NewV7`);
* a migration's SQL is one simple query, so all or nothing; the clock of
  `AccessDecision` has a bound `MaxTime`;
* a token is its claims, since nobody forges one; the clock of `ApiServer` and
  that of `FileStorage` have a bound `MaxTime`; the limiter may refuse any request;
* a file is a number of chunks; gofpdf (`AddPages`, `Place`, `Draw`, `Bold`, `Down`) is
  modelled from how the exporters use it, with heights in whole millimeters; an
  image it cannot read, or a format it is not told, is an error it keeps, so that the
  document is `refused` in the end (`Outcomes`, `Spoil`);
* two statements are one step where nothing can tell: the seeder's COUNT and
  TRUNCATE (`SeedTruncate` is the TRUNCATE when there were rows, the COUNT when
  there were none), and in
  `AccessDecision` the SELECT of the user and that of its roles, whose error is
  dropped (`ReadUser`; a user deleted between the two has no roles and no overrides
  left);
* `PermissionCache` checks one administrative operation at a time with TLC: two
  are beyond a run of a few minutes, and the proofs cover any number;
* variables listed under "History" in a module record causes (who was disturbed,
  what was left behind) and are read by no step.

Each module also holds the *mutants* of some of its definitions: the same
definition with a plausible bug (a dropped guard, a missing statement, a swapped
order). Every checked property is violated by one of them, which shows that the
run can tell that code from the real one.

## The runs

`M` is the module, bounds are those of the cfg. All passing runs are exhaustive.

| Run | Instance | Checks |
|---|---|---|
| `permission_cache` | 1 role + super_admin, 1 user, 1 permission, 2 requests, 1 operation, seeder, Redis and Postgres may fail | `TypeOK`, `StaleExplained`, `DeletedUserRefused`, `UpdateDelivers`, `HitMeansGranted`, `StaleGrantEnds` (fair) |
| `permission_revocation` | 1 request, 1 operation, no faults, no seeder and no deletion (`RevocationSpec`) | violates `NoRowNotGranted` |
| `broadcast_queue` | capacity 2, 3 messages, 2 workers, 2 Stops | `TypeOK`, `Fifo`, `StopDrains`, `ImplementsQueue`, `AcceptedEmitted`, `StopReturns` (fair) |
| `broadcast_restart` | the same, 1 Stop | violates `StartServes` |
| `user_accounts` | 2 accounts + 2 free ids, 3 emails, super_admin, 1 permission, 2 calls of any kind, statements may fail | `TypeOK`, `KeysHold`, `RolelessExplained`, `UpdateDelivers`, `OverridesAudited`, `DeletedStaysDeleted` |
| `migrations` | 2 migrations, the second referencing the first, the file of one may be empty and that of the other written over, 3 runs, faults and kills | `TypeOK`, `DriftExplained`, `CommandDelivers`, `RollbackOrder` |
| `access_decision` | 1 user, 2 roles + super_admin, 1 permission and its wildcard, 2 instants, faults | `TypeOK`, `AnswerExplained`, `DecisionsAgree` |
| `access_revoked` | the same, no faults | violates `RevokedRefused` |
| `api_server` | 2 requests of 6 kinds, 1 user with the tokens of an earlier login, lifetimes 1 and 2, 4 instants, with and without database and storage | `TypeOK`, `ViewsAgree`, `SessionBound`, `RequestsAnswered` (fair) |
| `file_storage` | 2 uploads of 2 chunks, every provider, expiries 0 to 3 with a limit of 2, 4 instants, 1 kill | `TypeOK`, `AnswersHold`, `LeftoversExplained` |
| `table_export` | 3 struct types, up to 3 rows, A4, 2 bottom margins, 2 row heights, 6 brand headers (2 readers, a reader with the path of a file, that file, a buffer used for 2 images), 4 column widths, 3 helper calls | `ExportTypeOK`, `RowsShown`, `LogosShown`, `ColumnsRight` |
| `logger_setup` | 2 callers, 3 reconfigurations of 2 levels and 2 directories, 1 request, records of 3 levels | `TypeOK`, `SetupSettles`, `RecordsPlaced` |

Why these bounds are enough for the questions asked:

* *Cache*: keys do not interact (each entry is filled, left or deleted by itself),
  so one role and one user are every kind of key; a race needs one fill, one
  writer and at most one more writer, which the two safety instances have. One
  permission is enough for set/row differences in either direction; the proofs
  remove all these bounds.
* *Messages*: three messages against a capacity of two are what it takes to fill
  the channel and block or refuse a sender; two workers are a restart. The proofs
  remove these bounds too.
* *Accounts*: every disturbance is between two calls; a user who acts and is
  deleted while the other call goes on needs two accounts.
* *Migrations*: a batch of two with a reference is the smallest where order
  matters, and where a listing can break off with a row read and one not; a third
  run makes room for up, up, down and for fresh in between.
* *Server*: requests meet at the gauge, the counter, the clock, the users and the
  tokens; two requests are a refresh and the use of what it gave out, or two in
  flight, and the tokens of an earlier login stand for a third. The clock reaches
  the end of the longest session, the sum of the two lifetimes.
* *Storage*: uploads have different keys and meet at the folder alone, so two are
  enough; two chunks are the least that can break off in the middle, and one kill
  can fall between any two steps of either.
* *Exports*: two rows of 90 mm fill a page and a spacer reaches its end, so every
  helper can be the one that meets the end of a page; three calls are a header,
  a table and what comes after it. The headers hold every pair of logos that can share
  a key: two readers, a reader and the file it names, one buffer with two images.
* *Logger*: a fault of Setup needs two calls that overlap and a third that finds
  what they left; records meet Setup one at a time.
* *Decisions*: `AnswerExplained` counts changes up to two, and two roles are
  needed for a change between two role lookups.

`CHECK_DEADLOCK FALSE` stands where the instance ends: all requests, calls or
runs are used up. `AccessDecision` never ends and is checked for deadlock.

Things the checks taught that are worth knowing:

* `StaleExplained` is as strong as it can be: every cause it lists occurs.
  Without faults, seeder and deletion, what remains is one race, that of
  `permission_revocation`: the run switches those writers off, and TLC's shortest
  trace is SELECT, revoke, DEL, SET.
* `AnswerExplained` needs its exceptions. A deletion of the user takes the
  overrides along; when it comes between HasPermission's reads of the user and
  of the overrides, the roles read earlier decide alone and uncover a revocation.
  Two changes can do it too: an override that revokes is inserted after the
  overrides were read, and a role is granted the permission before the roles are
  read. Neither state alone would grant it. A failed query of the overrides lets
  the roles decide as well (`service.go`, line 431), one of the roles, dropped in
  `GetUserByID`, leaves it to the overrides alone. Its second half bounds all
  these: a yes is granted by some override or role at an instant of the call.
* `RolelessExplained` lists the ways an account loses all its roles through a
  request that did not ask for it, each a behaviour of `UpdateUser`.
* `KeysHold` implies that a user who ever changed an override cannot be
  deleted: `changed_by` has no cascade, so the DELETE fails with an error 500.
* After `fresh` was killed between DROP SCHEMA and CREATE SCHEMA no run of the
  command succeeds any more.
* A request that panicked is counted and answered as a 500 but has no log record
  and no status on its span. On a server with database and storage no request
  panics; without one of them every login, every `me` or every `/health` does.
* `SessionBound` holds for sessions that refresh with refresh tokens. An access
  token is accepted by the refresh endpoint too, so whoever renews one in time
  keeps a session for ever, also after the user was deleted.
* The local provider leaves a part of the file when an upload fails, GCS may
  commit a truncated object; only S3 stores whole objects or none. At both a whole
  object may be left whose key nobody was told: its effect comes before its answer,
  which may be an error, or a kill may come first. Local links never end.
* A `down` whose listing breaks off reverts the later part of the batch and says
  that it completed (`rows.Err` is not asked for); an `up` passes over an empty file
  and says that all went well. `CommandDelivers` names both; what a broken listing
  left is in effect and tracked, so that the next down takes it.
* A logo is known to gofpdf by its path, or by the address of its bytes: a second
  reader, a buffer filled anew and a file written anew show the first image, and a
  reader that comes with the path of a file shares the file's key.
* A Start while a Stop waits may let that Stop panic, as its WaitGroup is used again
  before Wait has returned (`StopReturn`).
* After a page break that repeats a header the rows are bold; with a bottom margin
  above 14 mm gofpdf breaks the page first and no header is repeated.
* Without overlapping calls Setup keeps exactly the installed files open. Two that
  overlap may leave a default logger of another configuration than the installed
  one, one whose files are closed, or files nobody closes. And after any Setup
  a request that began before it goes on writing to closed files.

## Fairness

Safety runs use `Spec`. Liveness runs use `FairSpec`:

* `PermissionCache`: weak fairness of the steps of a request that has arrived
  (its goroutine runs; Redis and Postgres answer, if only with an error or a
  time-out) and of `Expire` for each key (Redis honours the TTL). No fairness of
  arrivals, of administrators, of the seeder. `StaleGrantEnds` follows from
  these alone.
* `ApiServer`: weak fairness of the steps of a request that has entered: its
  goroutine runs, and no step waits for another request. No fairness of arrivals,
  of the clock or of deletions.
* `BroadcastQueue`: weak fairness of each worker's step and of the waking and
  the return of each Stop (the Go scheduler runs what can run). No fairness of publishers, of Start,
  of Stop. The choice in `select` needs none: `AcceptedEmitted` stops promising
  once a Stop has closed `stopChan`, and `StopReturns` holds because the messages
  of an instance are finitely many; publishers who never pause could keep the
  drain loop busy for ever.

## The proofs

The eight proof modules are checked by TLAPS down to the last leaf. Their theorems
hold for all values of the constants that satisfy the named assumptions:

| Proofs of | Assumption | What it asks |
|---|---|---|
| `PermissionCache` | `PermissionCacheAssumption` | roles and users are different keys, super_admin is a role, `Miss` is not a set of permissions, the route's and the seeder's sets are of the right type |
| `BroadcastQueue` | `BroadcastAssumption` | a positive capacity, as `NewService` gives it |
| `UserAccounts` | `UserAccountsAssumption` | super_admin is a role, the first accounts have ids, `Nobody` is none |
| `Migrations` | `MigrationsAssumption` | versions are positive numbers (the code takes them from the file names), a migration references earlier ones only |
| `AccessDecision` | `AccessAssumption` | super_admin is a role, the wildcard is not an action, the clock is a number |
| `ApiServer` | `ApiServerAssumption` | finitely many requests, an access token lives at least a tick and a refresh token no shorter, `Nobody` is no user |
| `FileStorage` | `FileStorageAssumption` | a file has a chunk, the default expiry is within the limit |
| `TableExport` | `TableExportAssumption` | lengths are natural numbers, and a page has room for a brand header, the header of a table and a row between its margins |
| `LoggerSetup` | `LoggerSetupAssumption` | the levels are a sequence of numbers, none of them the name of `app.log` |

Every safety theorem has the same shape. `Init` implies the inductive invariant,
each of its parts has a lemma with one step per action, and the properties follow
from the conjunction. Where an action changes several fields of an actor's record,
a lemma of its own says what it does to that actor and that it leaves the others
alone. Safety is proved of `Spec`, which `FairSpec` implies.

**PermissionCache.** `StaleExplained` is not inductive: a fill may be about to
store anything. `CacheInv` adds `FillFresh` (rows on their way to Redis are those
of Postgres unless a write has overtaken them, in which case the request is in
`overlapped` and its SET puts the key into `leftover`), `LateStopped` (a request
of a deleted user is at `GetUserByID` or denied) and `UpdateProgress` (the rows
of an undisturbed role are the target, less what is still to grant, plus what is
still to revoke). `CacheInvariant` proves `Spec => []CacheInv` with one lemma per
conjunct and one step per action. From it: `TypeCorrect`, `StaleAlwaysExplained`,
`DeletedUsersRefused`, and the action properties `HitsMeanGranted` and
`UpdatesDeliver`.

**BroadcastQueue.** `Fifo` says that offered = emitted, in hand, buffered and
blocked, in that order. It needs to know that only a worker between two selects
holds a message (`HandMatches`), and `StopDrains` needs to know where every
accepted message is (`Accounted`), that a waiting Stop still has somebody to
drain what it owes (`StopOrder`, `Owed`), and that one that was woken has nothing
left to wait for (`Drained`). `Distinct` (a message is in one place)
is what makes a receive an abstract `Take`. `BroadcastInvariant` proves that the
conjunction `BroadcastInv` is inductive; `TypeCorrect`, `OrderKept` and
`StopIsGraceful` are its parts. `QueueImplemented` proves the refinement of
`DeliveryQueue`: a send is an `Offer`, a receive a `Take`, an emission a
`Deliver`, everything else a stutter. Both theorems need no bound on workers;
`Fifo` itself speaks of one worker, since two may emit out of order.

**UserAccounts.** The tables alone say too little: an UPDATE could bring back an
account, or an INSERT into `user_roles` name a user who never was. `PhasesOK` says
what a call knows between its statements (before the INSERT into `users` it has no
user, later the user is one whose id was given out; ids are never reused),
`LoggedOver` that a call is over once its row is in the log or could not be,
`NoneFound` that an update about to leave its user without a role had found none,
and `UndisturbedSoFar` what an undisturbed call has achieved. `KeysHold` is proved
statement by statement, the cascades of a DELETE included. `UpdatesDeliver` and
`DeletedStayDeleted` are action properties from the same invariant.

**Migrations.** `DriftExplained` needs what a run believes to be true of the
database. In any company a run's memory has the shape of its position (`Shape`).
Alone with the database, an up has the last batch and has tracked what it dealt
with or passed over it as empty (`UpAlone`), a down has listed the last batch, or the
later part of it when its listing broke off (`DownAlone`, `Unlisted`). For the order of
rollbacks, rows of later ids are of later batches (`BatchesGrow`) and a reference
was tracked before what references it (`ReferencesFirst`), up to migrations in
doubt (`Doubted`), which a disturbed run may leave in any state. `CommandsDeliver`
covers up, fresh and down; `RollbacksInOrder` needs the smallest of a set of ids,
from the well-foundedness of the natural numbers.

**AccessDecision.** `AnswerExplained` is about the end of a call, the invariant
about its way there. As long as nothing changed, what was read is so
(`ReadSoFar`); after one change the answer the rest of the call would give
(`Outlook`) was right before the change or is right now (`AnswerAhead`); and the
present always counts (`PresentSeen`). A lemma for each kind of change says
which rows it can alter for the call's user and permission. `DecisionsAgree`
relates three functions of one state and is proved from `TypeOK` alone.

**ApiServer.** The gauge is the size of the set of measured requests inside, and a
counter that of the measured requests that have left with its status
(`TotalExact`, over `CountedUnder`); each action moves one request into such a set,
out of one, or leaves all as they are. What a request has on record fits its
outcome (`RecordsFit`), which makes the status the metrics worked out before the
error handler ran the one the client gets. `SessionBound` needs to know of every
token how long it is good (`TokenBound`) and that its user was there at the login,
so before any deletion.

**FileStorage.** The keys told are those of the uploads that ended well
(`ToldStored`); the stage of an upload says which provider it runs on
(`Stages`); a local file holds what was copied so far (`LocalGrows`), which is why
the last chunk makes it whole; what a bucket holds and no client has heard of yet is
whole too (`CommittedWhole`); and a link was signed for at most `MaxExpiry`
(`LinkTerms`). The folder, which a racing `DeleteFolder` may remove, is in
`Stages` because `Create` fails without it.

**TableExport.** What was drawn is never taken back, so an operation is described
by what it adds to the canvas: one more item below the others on the last page
(`Adds`), or a number of items that are no rows (`Grows`). A lemma for each
operation of gofpdf and each helper says which; they compose (`GrowsTwice`).
`Sound` is what every one of them keeps: items are on pages there are and end above
the cursor on the last one (`Laid`), which is why the next item overlaps none; and
an image was brought by a header that is drawn (`ImagesAsked`), which is why a header
shows its own logo or that of an earlier one of the same source. `TableGoesOn` is
what the loop of drawRows knows before a row: the rows so far, and a header on the
last page that the next row will be below, unless the bottom margin was raised so
far that gofpdf breaks the page first. That a row stays above the margin after a
break of either kind is what the assumption on the layout is for.
`ExportInvariant` proves `ExportInv` inductive; `ExportTypeCorrect`, `ExportRows`,
`ExportLogos` and `ExportSheet` are its consequences.

**LoggerSetup.** A call builds what it was made for (`CallsBuild`). A handler's
files are the package's once, from its installation to the next, and a call closes
only what was given up before (`OwnedOnce`): that gives `OwnerOpen` under every
interleaving. While calls do not overlap, `Handover` says who is responsible for
the files that are open at each step, from which `Settled` follows. `BothFiles`
follows a record between its two writes.

Only model-checked:

* the liveness properties `StaleGrantEnds`, `AcceptedEmitted`, `StopReturns` and
  `RequestsAnswered`: liveness under fairness is beyond the prover;
* `WidthsFit`, and with it `ColumnsRight` as a whole: the widths of a table are
  summed by a fold over their sequence, and a fact about the sum of every sequence
  needs induction over data. Its second half also relies on there being no column
  of less than a millimeter, since the model's widths are whole numbers; the run's
  constants leave room for that.

## Where code and documents disagree

Three runs end in a violation on purpose. Each checks one sentence of the
documentation, a comment or a test, and TLC shows the behaviour that breaks it.

1. `permission_revocation`: "Presence = allowed. No row = permission not granted"
   (`docs/blueprint/auth.md`). SELECT, revoke, DEL, SET leaves the revoked
   permission in Redis for a day.
2. `broadcast_restart`: "Start spawns the background worker goroutine to process
   messages from the channel" (`service.go`). After a Stop the new worker exits
   at once.
3. `access_revoked`: an override with `granted: false` revokes a permission
   (integration test, comment of `HasPermission`). The middleware takes the row
   for a grant.

Others the models follow the code in, with an exception in a property or a
comment where it matters:

* `down`: "Rollback the last migration" (usage text, `README.md`). The whole last
  batch is rolled back.
* The audit log's action is "grant (INSERT) or revoke (DELETE)"
  (`docs/blueprint/auth.md`). A PUT with `granted: false` writes a row and logs
  "revoke".
* "RequestLogger emits one structured JSON log record per HTTP request"
  (`request_logger.go`). A request that panicked has none.
* "swaps the default logger atomically" (`logger.go`). The swap is outside the
  lock, after the configuration was installed.
* "Initialize the structured logger first so every later boot step is captured"
  (`cmd/api/main.go`). Setup is called in `app.New`, after the connections.
* `db := database.InitPostgres(cfg); if db != nil` (`cmd/api/main.go`). The value
  is the error: the pool is closed at exit only when there is none.
* A footer is "rendered at the bottom of every PDF page" (`export.go`), is registered
  "for every page (goes through the whole doc)" (`pdf.go`) and is "drawn on every
  page" (`document.go`). gofpdf draws it as a page ends (`AddPages`), and Generate
  registers it after the last row (`RowsDone`): every table that takes two pages has
  its footer on the last one alone. In a document the pages ended before `SetFooter`
  have none, and the total of "Page X of Y" is that of the registration. Any table
  of two pages shows it, so no run looks for it and no property excuses it.
* Fields tagged `json:"-"` are skipped (`struct.go`), unless they have an export
  tag as well.

## What is not modelled

`PROJECT.json` lists every component with its status and the reason. In short:
wrappers of libraries (mail, queue, Socket.IO server, trace provider, OCR) and
formulas without state (pagination, responses, validation) have no behaviour a
model would add to. The event dispatcher, the generic cache, the OCR client and
the queue have no caller in the repository: how they are used, on which their
behaviour depends, is not there to be modelled. `Register` of the auth service
has no route. Configuration and connections are in `ApiServer` by their outcome.

Within the modelled parts the following is left out: request validation, the
wording of answers, list and query endpoints (they change nothing), the matrix of
permissions for the user interface, the sorting of listings; the counting of the
limiter and the duration histogram; the check of paths in the local provider;
the formatting of cells, horizontal positions and styles, rows of a `MinRowHeight`
of 0 (gofpdf prints them over one another), documents begun with a table without
columns, the options of the Excel exporter and its errors (a sheet that is full, a
name that is refused); the format (pretty) of the logger, which is one more part of
its configuration, and stdout; errors that are no `*fiber.Error` or wrap one, which
no handler returns (`effectiveStatus` uses `errors.As`, the error handler a type
assertion, and they would differ on a wrapped one); and the signing of a token that fails, which HMAC with a byte key does not.

## The plan

Done, in this order, the most important behaviour first:

1. `PermissionCache`, its runs, `PermissionCacheProofs`.
2. `DeliveryQueue`, `BroadcastQueue`, its runs, `BroadcastQueueProofs`.
3. `UserAccounts`, 4. `Migrations`, 5. `AccessDecision`, with their runs.
6. `ApiServer`: pipeline, tokens and login, in one module because a session is a
   sequence of requests.
7. `FileStorage`, 8. `TableExport`, 9. `LoggerSetup`, with their runs.

Proofs, one module per component:

10. `LoggerSetupProofs`, 11. `AccessDecisionProofs`, 12. `UserAccountsProofs`,
13. `MigrationsProofs`, 14. `ApiServerProofs`, 15. `FilesProofs`, first for
`FileStorage`, then for `TableExport`.

Left: `WidthsFit`, and the liveness properties, which the provers cannot reach.

A run may make place for another when a proof has answered its question for
every size. That is now so for the safety half of every run, but for the widths
of `table_export`.
