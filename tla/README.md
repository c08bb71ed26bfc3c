# envious: TLA+ specifications and proofs

envious keeps environment variables: a server (`web/`: a REST API and an admin
dashboard in one Go process, on SQLite or Postgres) and a command line client
(`cli/`). This directory models the parts of it that keep state, checks them on
small instances with TLC and proves their main properties, for all values of
the constants, with TLAPS. Paths are relative to the root of the repository;
`sqlite.go`, `server.go` and `auth.go` stand for
`web/internal/storage/sqlite.go`, `web/internal/api/server.go` and
`web/internal/auth/auth.go`.

Check a model with `tlc -config VarApi.cfg MCVarApi` and a proof with
`tlapm VarApiProofs.tla`. `PROJECT.json` holds, by name, the lines each
definition translates, the runs, for each checked property a mutation of the
code's model that breaks it, the hazards and the theorems.

## 1. Inventory

| component | state | operations | what is hard | what makes it correct |
|---|---|---|---|---|
| storage: versioned writes (`sqlite.go` 768-913) | rows and history of variables, ids, `writeMu`, open transactions | `SetVar`, `UpdateVar`, `DeleteVar` | races of transactions, stale snapshots, bounded retries, lost commit answers, crashes | a set is atomic; no version is lost or written twice; the history is complete; an acknowledged write stays; every call returns |
| storage: catalog (`sqlite.go` 532-670) | applications, environments, variables, history, id counters, the pragma of each pooled connection | create and delete of each | cascades depend on a per-connection pragma; ids are skipped and used again on Postgres | no row without its parent; nothing is inherited from, or deleted with, another row |
| storage: opening Postgres (`sqlite.go` 100-134, 235-299) | the sequence of application ids | `openPostgres`, `CreateApp` | replicas start while others create, or end while the database works on their INSERTs | no new name is refused as a duplicate |
| storage: SQLite migration (`sqlite.go` 300-512) | schema version, tables, pragma, transaction | `migrateSQLite` | a kill at any statement; `DROP TABLE` cascades | no row is lost; every environment keeps its application |
| storage: encryption (`sqlite.go` 916-968) | key derived from `ENCRYPTION_KEY` | `encrypt`, `decrypt` | a key that is changed or removed while values sealed with the old one stay | what clients are given is never the sealed form of a value, unless the key was lost; the documented rotation keeps every value |
| API and dashboard: variables (`server.go`) | none of their own: lookups, writes, audits and answers of concurrent requests | set, update and delete by id, import | an id looked up and used later; a write without its audit; partial imports | an acknowledged deletion is final; the trail is true |
| API and dashboard: applications and environments (`server.go`) | audits under way | create and delete, by JSON and by form | the change is committed before its audit is tried; the dashboard drops errors | the trail explains the tables, but for what was warned of |
| dashboard: pages of variables (`server.go` 583-641) | the browser's page number | `CountVars`, `ListVarsPage` | a page computed from an earlier count; deletions move places | a walk to the end misses only what others' writes moved past it |
| sessions | a signed cookie | login, logout | — | — |
| auth: the API key (`auth.go` 16-40, `web/cmd/server/main.go`) | hash in the database, key file, output | `InitAdminKey`, `writeInitialAPIKeyFile` | several replicas, crashes between storing and printing, old files | the key that was shown is the key that is accepted |
| auth: cached verification (`auth.go` 49-92) | hash and its age, in memory | `CachedVerifier` | the read happens outside the mutex | a decision is behind the database by a bounded time only |
| middleware, configuration, version | rate limiter of a library; constants | — | — | — |
| server process (`web/cmd/server/main.go`) | where `main` is, listener, requests in progress | start, serve, graceful shutdown | a listener that fails; a kill at any point; the ten seconds of the shutdown | a request meets a closed store only after the ten seconds; a stop ends; a server serves again |
| CLI: writing by name (`cli/cmd/vars.go`, `cli/internal/client`) | one command's progress | `variable set`, `variable import` | several requests about a catalog that changes; timeouts | it writes where it was told to; its exit status is true |
| CLI: export and import (`cli/cmd/vars.go` 225-342) | a `.env` file | `variable export`, `variable import` | values with `=`, blanks, line breaks; an environment that changes meanwhile | what was exported is what is imported |
| CLI: login and configuration (`cli/cmd/login.go`, `cli/internal/config`) | one file | `Load`, `Save` | a file that is truncated before it is written, by concurrent commands | a login keeps what it was not given |

How they interact: the CLI calls the REST API over HTTP, with the API key in a
header; the middleware asks `CachedVerifier`, which asks the storage; a handler
calls storage operations one after the other, each on a connection of the pool
that `database/sql` chooses, and then `LogActivity` and the structured log.
On Postgres several replicas of the server share a database; on SQLite there is
one. Nothing else is shared but the database, `writeMu` and the cached hash.

## 2. Modules

| module | models | builds on |
|---|---|---|
| `VersionedStore` | abstract: what the table of variables promises | |
| `VarStore` | `SetVar` statement by statement, `DeleteVar`, other writers, crashes, both databases | refines `VersionedStore` |
| `VarStoreInv` | the inductive invariant of `VarStore` | `VarStore` |
| `Catalog` | creations and deletions with their cascades, pool, restarts | each operation atomic: `VarStore` |
| `SequenceRepair` | opening Postgres beside `CreateApp` | |
| `Migration` | opening an SQLite file of any age | |
| `CatalogApi` | the handlers that create and delete applications and environments, with their audits | extends `Catalog` |
| `VarApi` | the handlers that change variables | atomic store: `VarStore` |
| `AdminKey` | the birth of the API key | |
| `AuthCache` | its verification | |
| `Server` | `main`: start, listener, requests, shutdown, supervisor | composes `Migration` and `AdminKey` |
| `Cli` | a writing command of the CLI | extends `Catalog` |
| `DotEnv` | the text of export and import, as functions | |
| `CliConfig` | logins and the configuration file | |
| `Contents` | values under `ENCRYPTION_KEY`, restarts, the dashboard's pages | extends `DotEnv` |
| `Transfer` | export and import between servers | composes `Contents` and `CliConfig` |
| `MC*` | small sets for TLC | |
| `CatalogProofs` | theorems about `Catalog`, `CatalogApi` and `Cli` | |
| `DotEnvProofs`, `TransferProofs` | lemmas about the text of an export; theorems about `Contents`, `CliConfig` and `Transfer`, which cite them | |
| the other `*Proofs` | theorems and their proofs | the module of that name |

They were written in the order of the table's importance: `VarStore` first,
which every claim about versions rests on, then the tables around it
(`Catalog`, `SequenceRepair`, `Migration`), then what calls it (`VarApi`,
`CatalogApi`, `Cli`), the key, the process that holds it all (`Server`), and
what users do with values over several commands (`Transfer`). In each, a Go function that takes several statements is
several actions, named for the statements; a function that is one statement,
or that another module shows to be atomic, is one action. Failures are actions
of their own (`WriteFails`, `GiveUp`, `LineFails`). Operators marked "mutant"
are plausible mistakes; no specification uses them.

### VarStore

`pc[p]` is where the `SetVar` call of goroutine `p` stands: waiting for
`writeMu` (`Lock`, SQLite only), the SELECT that fixes the snapshot (`Read`),
the UPDATE or INSERT (`Write`, `WriteConflicts`), history and COMMIT
(`Commit`, `CommitConflicts`), the sleep (`Backoff`), the return with its
deferred unlock (`Return`); `GiveUp` is a cancelled context or an error that is
not retriable. `variables`, `versions` and `nextId` are the two tables and the
id counter. The databases themselves are not in the repository and are modelled
by what the code meets of them: SQLite refuses to turn a snapshot that is out
of date, or that another writer holds the lock against, into a writer, at once;
Postgres makes a writer wait for the writer of its row, fails it with 40001 or
23505 when the row has changed, may fail any commit with 40001, and may lose
the connection after a commit. `DeleteVar`, which does not take `writeMu`,
`OtherWrite` (audit entries, catalog writes) and `Crash` interleave with
everything. A row's `by` is a ghost: the call that wrote it.

### Catalog

Sets of records for the four tables; `Remove` follows the cascades from a
deleted row when the connection enforces them; `enforcing` is the set of SQLite
connections on which the pragma has been run. `Renew` is the pool replacing a
connection, `Restart` the server's start: pragma on one connection, and on
Postgres the repair that may give the id of a deleted application out again.
`InsertFails` is a refused INSERT on Postgres, which changes no table but leaves
a gap in the ids.
Reads change nothing and are left out, and so are timestamps and values. The
history keeps one record per variable here; its versions are `VarStore`'s.

### VarApi

A request receives its operation (`Receive`), a request by id looks its row up
(`Lookup`, `Missing`, `LookupFails`), writes (`Write`, `WriteFails`, which on
Postgres may hide a commit, `Duplicate`, the 409 of a lost insert race), audits (`Audit`, `AuditFails`), streams the entry
to the log (`Stream`), answers (`Reply`). `wrote` is a ghost: the ids each
request touched.

### CatalogApi

A handler executes one operation of `Catalog` and, as a step of its own, records
it: `HandleCreateApp` and its like set `job`, `Audit` or `AuditFails` ends it,
`Restarted` is the process that ends in between. `trail` counts the entries of
`activity_logs`. Two ghosts count the changes it lacks: `missed` those of which a
log line or an error answered to the client tells (500, 400 from
`handleDeleteApp`, a page with the error from `handleAdminCreateEnv`) or whose
process ended first; `silent` those that took effect although the database's
answer was lost, in the three dashboard handlers that drop the error and redirect
as if nothing had happened (`server.go` 550-553, 559-563, 680-684). The handlers
of variables write neither these tables nor these entries and are `VarApi`'s.

### Server

`phase` is where `main` is: opening the store (every step of `Migration`),
making and showing the key (every step of `AdminKey`), waiting for a signal,
`Shutdown`, the deferred `Close`. The listener is a goroutine of its own
(`Listen`, `ListenFails`); requests are accepted, store, and answer; `TenSeconds`
is the shutdown's deadline; `Die` is a kill or an `os.Exit` anywhere. What starts
the process again is not in `web/`: docker and Kubernetes restart one that ended,
and Kubernetes also one that does not answer `/healthz` (`Probe`,
`web/k8s/deployment.yaml`).

### Contents, DotEnv, CliConfig, Transfer

A sealed value remembers the secret it was sealed with; `Opened` gives it back,
or, without a secret, its bytes (`Cipher`). `Restart` changes a server's secret,
`bared` remembers that one was lost. A walk through the pages of an environment
is `CountVars` and `ReadPage` for each page, with others' `Set` and `Delete` in
between. Ghosts are `seen`, `stayed` and `slipped`: the variables that a deletion
on an earlier page has moved onto it (`Slips`), those behind the places the last
count knew (`Behind`), and those of a page that was shown empty because its
statement failed or one of its values does not open. `DotEnv` has the text of an export as a
sequence of characters and what the two imports, which do the same to a line,
read from it. Lines are the pieces between the positions of breaks (`Ends`), in
the ascending order that `Sorted` gives a set of numbers; `Order` lists the keys
of an environment in the same way. `Texts` are the values there may be: those
users set (`Values`), those of the first state, and, by `TextsAssumption`, what an
import finds in an exported line (`Found`), so that exports and imports can go on
for ever. The other half of `TextsAssumption`, that no text users set is the
sealed form of a value, stands for the authenticated encryption of `encrypt`. `CliConfig` has the file as absent, empty or whole: `LoginLoads`,
`LoginTruncates`, `LoginWrites`. `Transfer` lets a user export, log in elsewhere
or not, and import, by the CLI or on the dashboard, while all of that happens.

### AuthCache, AdminKey, SequenceRepair, Migration, Cli

`AuthCache`: the look at the cache, the read without the mutex and the store
are three steps of each request slot; a clock of ticks; `MaxDelay` bounds, by
assumption, the ticks between the database's answer and its use. `AdminKey`:
check, make, set, file, print, with crashes in between, replicas with
directories of their own, and an operator who deletes the row. `SequenceRepair`:
`nextval` takes effect at once, the INSERT when it ends; the repair's subquery
and its `setval` are two steps; `End` is a replica that is killed, or stops ten
seconds after a signal, at any moment, while the database goes on with its
INSERTs. `spanning` and `spanned` are ghosts: the ids that INSERTs have held while
a repair was under way. `Migration`: one action per statement, over databases of
every age the code recognises; `Kill` also stands for an error of any statement,
and `Renew` is the pool's new connection, without the pragma, before, after or
between the statements. `Cli`: one command next to all the steps of `Catalog`, each of
its requests failing, timing out, or being served after the client gave up.

## 3. Runs

| run | instance | distinct states | shows |
|---|---|---|---|
| `varstore_sqlite` | 2 callers, 2 keys, 2 values, 2 attempts, 3 calls | 315 126 | `IInv`, `Queued`, `HistoryComplete`, `NoLostUpdate`, `FailsLate`, `Returns`, `Refines` |
| `varstore_postgres` | 2 callers, 1 key, 1 value, 2 attempts, 3 calls | 75 153 | `WritesCurrent`, `NoLostUpdate`, `AckedDurable`, `RetriesUncommitted`, `Returns` |
| `catalog_api` | both databases, 1 connection, 1 name, 2 handlers, ids up to 2, each entry twice at most | 512 979 | `AppsAccounted`, `EnvsAccounted` |
| `var_api` | 3 requests, 1 key, an import of 2 lines, ids up to 2 | 1 118 147 | `DeletedStaysGone`, `StreamedIsStored`, `SetsAreTrue`, `AuditedOrWarned` |
| `auth_cache` | 2 slots, a lifetime of 2 ticks, a delay of 1, 2 keys, 4 ticks | 186 739 | `OldKeyExpires`, `NewKeyArrives` |
| `sequence_phantoms` | 2 replicas, 2 creations at a time, ids up to 4 | 2 962 724 | `Phantoms` |
| `server` | 1 process with old databases of 2 environments, 1 variable, 2 applications; 3 keys, 2 requests, 2 faults | 1 420 847 | `PrintedIsValid`, `ShownOrPending`, `NothingLost`, `AppsKept`, `Graceful`, `Stops`, `ServesAgain` |
| `catalog_cli` | both databases, 1 connection, 2 names, 2 keys, ids up to 2; 5 commands of 2 lines | 692 472 | `Chained`, `HistoryOwn`, `StartEmpty`, `NoCollateral`; `RightTarget`, `ExitIsTrue` |
| `contents` | 2 servers, 2 secrets or none, 3 variables, pages of 2, 2 logins, 2 events | 929 875 | `WalkComplete`, `NoCiphertext`, `RoundTrip`, `RotationWindow`, `KeyKept` |
| `catalog_orphans`, `sequence_replicas`, `deletes_only_its_id` | as above, `catalog_orphans` with 2 connections | | violated: section 5 |

Why the bounds are enough. A lost update or a doubled version needs two calls
on one key, one to overtake the other, and one attempt to fail: two callers,
three calls, two attempts, with a delete and a recreate of the key in the third.
A second key shows that the calls of different keys do not disturb each other,
and, on Postgres, one suffices because rows lock separately. A cascade of all
levels needs one row per table; ids up to 2 let a row be deleted and another one
created, make ids of different tables coincide, and let Postgres skip an id or give
it out twice. One connection is both with the pragma and, once renewed, without it.
`CliSpec` takes all the steps of `Catalog`, so one run checks the properties of
both. Two handlers are enough for two audits to be under way, each entry twice for an id that returns; longer histories
are the proofs'. A phantom needs an INSERT that holds an id across a repair and a
second one that is given it: two calls and two repairs, ids up to 4. In `VarApi` the interesting race is lookup, delete, set, delete: three requests
on one key. The largest lag of the cache is one delay plus one lifetime, which
four ticks leave room for. Two faults hit one migration, or start, and the one
that repeats it. Two events (`MaxEvents`: changes by others, restarts, failures,
logins, each next export) suffice for a walk to meet a deletion and a creation, or a change and a restart, or a
secret to be changed and restored between an export and an import; the values
are one with `=`, an empty one, one that begins with a blank, and one with a line
break whose second line assigns another variable and whose first is then a value
too. The CLI's ids reach 2, so that an id is given out again on Postgres;
environment 2 stands for those whose id prints with an exponent (`WideEnv`,
10^6 in the code), applications of that size are left to the proof. The proofs of
section 4 lift all these bounds for most of the properties.

Bounds of the models: `MaxRequests` (calls of `SetVar`), `Ids`/`MaxId` (ids
given out), `MaxTwice` (how often one entry is recorded), `MaxKey` (keys
generated), `MaxTime` (clock), `MaxFaults`, `MaxEvents`. They are guards; beyond
them nothing is claimed by TLC.

Deadlock is not checked in `varstore_*` and `var_api`, where the number of
requests is bounded and the last one ends everything, in `server`, where a process
whose listener has failed waits for ever once no fault is left, and in
`contents`, whose events are bounded. It is checked in all others.

Fairness. `VarStore`: weak fairness of each call's own steps, as the Go
scheduler runs every goroutine that can run and the databases answer each
statement; strong fairness of `Lock`, because `sync.Mutex` hands itself to a
waiter that has starved for a millisecond. Under these `Returns` holds though
other calls keep committing: the attempts are bounded. Callers are not obliged
to call, `GiveUp`, deletes and crashes are not obliged to happen. `Server`: weak
fairness of what the process and its supervisor do by themselves (`Progress`):
`main` is one goroutine that the scheduler runs, statements are answered, the ten
seconds pass and a process that ended is started again. Handlers, signals, kills
and failures are not obliged to happen or to end, so `Stops` rests on the
deadline alone; `ServesAgain` is about a server that fails finitely often, and
takes the Kubernetes probe for one whose listener failed.

## 4. Proofs

All the theorems hold for any sets of callers, keys, values, names, connections,
requests, servers, secrets and texts, and for any bounds. The only assumptions are those of the
modules' `ASSUME`s, which TLC evaluates in the runs, and those written in the
theorem (one replica).

| module | theorem | inductive invariant |
|---|---|---|
| `VarStoreProofs` | `TypeCorrect`, `QueueCorrect`, `CurrentCorrect`, `Invariance`, `NoLostUpdateCorrect`, `HistoryCorrect`, `AckedCorrect`, `FailsLateCorrect`, `RetriesCorrect` | `IInv` (in `VarStoreInv`, also checked by `varstore_sqlite`) |
| | `Refinement`: `Spec` implements `VersionedStore` | `IInv` |
| `CatalogProofs` | `TypeCorrect`, `ChainedCorrect`, `HistoryOwnCorrect` | `Chained` itself; `HistoryInv` |
| | `StartEmptyCorrect`, `NoCollateralCorrect` (of every step) | `IdsInv`, `Chained` |
| | of `CatalogApi`: `ApiImplementsCatalog`: the handlers implement `Catalog` | |
| | `AppsAccountedCorrect`, `EnvsAccountedCorrect` | `AccountInv`, `EnvAccountInv` |
| | of `Cli`: `CliTypeCorrect`, `RightTargetCorrect`, `ExitIsTrueCorrect` | `TargetInv`, `ExitInv` |
| `VarApiProofs` | `VarApiTypeCorrect`, `DeletedStaysGoneCorrect`, `StreamedIsStoredCorrect`, `SetsAreTrueCorrect`, `AuditedOrWarnedCorrect` | `ApiInv` |
| `AuthCacheProofs` | `OldKeyExpiresCorrect`, `NewKeyArrivesCorrect` | `LagInv` |
| `ServerProofs` | of `AdminKey`: `ShownOrPendingCorrect`; `PrintedIsValidAlone`, for one replica | `ShownOrPending`; `Alone` |
| | of `Migration`: `MigrationCorrect` | `MigrationInv` |
| | of `Server`: `NothingLostServed`, `AppsKeptServed`, `PrintedIsValidServed`, `ShownOrPendingServed`, `GracefulServed` | the same, by `Composed`; `GracefulInv` |
| `SequenceRepairProofs` | `PhantomsCorrect`, for any number of replicas | `RepairInv` |
| `DotEnvProofs` | `CodecRoundTrip`: what is clean comes back from export and import | |
| `TransferProofs` | `TypeCorrect` | `TypeOK`, with `KeyInv` |
| | of `CliConfig`: `KeyKeptCorrect` | `KeyInv` |
| | of `Contents`: `NoCiphertextCorrect`; `WalkCompleteCorrect` | `CipherInv`; `WalkInv` |
| | of `Transfer`: `RoundTripCorrect`, `RotationWindowCorrect` | `MoveInv` |

Why the strengthenings are needed:

- `VarStore`. That no two calls write one version does not survive a step by
  itself: a call may be about to commit a version that exists. `SnapshotCurrent`
  (on SQLite a snapshot that is not stale shows the committed row) makes
  `WritesCurrent` inductive: a call that has written still has the latest row
  and is the only one on its key. With `PendingOK`, its version is the next one
  of a live variable, and with `FreshInserts` and `IdsOK`, or the first one of
  an id nobody has; so it is new to `Writes`, which includes what was
  acknowledged. `HistoryOK` says the history has no gaps. The refinement maps
  the rows to the abstract table and the history of live rows to the abstract
  history: `Commit` is `Create` or `Update`, `DeleteVar` is `Delete`, and every
  other step, the crash among them, stutters.
- `Catalog`. An entry that outlived its variable is harmless because every id
  in use or left over is smaller than the next one (`IdsBehind`). `Chained` is
  inductive: on Postgres a cascade takes all the rows below and a creation has
  its parent.
  `Unique` and `Behind` say that an id is held once and never ahead of its
  counter: what a deletion takes along has lost its parent, and a new row's id
  is nobody's parent yet.
- `CatalogApi`. An entry moves from a handler to the trail or to what was warned
  of, so that `Accounted`, the sum of trail, warnings, what the dashboard dropped
  and what is on its way, changes only when a table does; nothing is accounted of
  an environment whose id is still to come (`Unused`), and ids that refused INSERTs
  used up stay without any entry (`Settled`).
- `SequenceRepair`. Every id that exists, or that an INSERT holds, is behind the
  sequence or was held by an INSERT while the last repair was under way
  (`Covered`); `UnderWay` is the same of a repair that has read `MAX(id)` and not
  yet set the sequence. `nextval` then gives out an id that no row and no other
  INSERT has, unless it is one of those.
- `Server`. `MigrationInv` relates the open transaction, the statements done so
  far and the pragma to the database as it was first; `Composed` says that every
  step of the process is one of `Migration` or a stutter, and one of `AdminKey`
  or a stutter.
- `VarApi`. The id a deletion has looked up belongs to one key for ever
  (`OwnersOK`: ids are not given out again). Whatever happens to the key
  between the lookup and the delete, after the delete the key has no row, and
  the id, which no other key can have, is dead; dead ids stay dead (`Gone`).
  `Counted` is what a request is going to say in the trail, `Reported` that it
  cannot be answered before it has been audited or warned of.
- `AuthCache`. `Behind` relates the hash in the cache, and those that have been
  read and not stored yet, to the last time each was current: a cached hash was
  current at most `MaxDelay` before its time.
- `Cli`. `AppNamed` and `EnvNamed`: the ids it has resolved were given out
  under these names, and no row that is created later has them (`RowsBehind`).
- `DotEnv`. The text of an export is the concatenation of one row per variable,
  each ending in a break, and everything an import does is a function of such
  texts: the lines of `x \o y`, when `x` ends in a break, are those of `x` and
  those of `y` (`LinesConcat`), and so are the variables read (`ParseConcat`). A
  row of a clean variable is one line and gives that variable (`ParseRow`). That
  `Sorted` is the one ascending list of a set (`SortedLists`, `SortedIs`) carries
  the order of lines. The induction over the number of variables (`Imported`) uses
  a set for the property, `SetInduction`, where the library's theorems would need
  an operator.
- `CliConfig`. `LoginOK` says what a login is going to save: with no other under
  way, the key it was given or else the last one; and that the file is empty while
  it is between truncation and write.
- `Contents`. `CipherInv`: unless a secret was lost, what a server without a
  secret holds was sealed without one, so it is never shown bytes; and every text
  in rows, file and import is one of `Texts`. `WalkInv`: what stayed and has a
  place before the page to come has been shown, or slipped. A new key only moves
  others to later places (`OrderedGrows`), a deletion moves those behind it one
  place forward, so that one of them at most crosses the end of the pages shown
  (`OrderedShrinks`), the page that is due covers the places after those shown
  (`DueIs`), and the last page ends behind the last place counted (`PagesAre`).
- `Transfer`. `MoveInv`: the file has each key once, and, while others left the
  exported environment alone, all of its keys; an import has stored the variables
  of the file that are not among the lines left (`LastOf`, `Brought`), and
  nothing but those into an environment that was empty. A line cannot undo an
  earlier one because keys differ (`Once`).

Only model-checked: the liveness properties (`Returns`, `Stops`, `ServesAgain`),
which need `ENABLED`. Every invariant and action property the passing runs check
has a theorem.

## 5. What was found

Three runs end with a counterexample to what the repository says:

1. `catalog_orphans`: `PRAGMA foreign_keys = ON` (`sqlite.go` 81) is run on one
   connection of the pool. SQLite keeps the setting per connection and the pool
   opens others and replaces each after five minutes, so the cascades the
   schema declares do not happen on them: environments without an application,
   variables without an environment and history without a variable stay behind
   or can be created.
2. `sequence_replicas`: the repair of the sequence (`sqlite.go` 128) reads the
   largest id and sets the sequence without regard to what other replicas have
   taken since; a later `CreateApp` then meets the "phantom duplicate-key
   error" the comment above it (124-127) says it prevents. `Phantoms`
   is what the repair does achieve.
3. `deletes_only_its_id`: `DELETE /api/vars/:id` (`server.go` 528-532) looks up
   the key of the id and deletes by key. If the variable was deleted and set
   again in between, another variable than the named one is deleted.

Other statements that TLC refutes when they are added to a configuration; they
stand at the end of their modules and no run checks them:

- `VarStore!QueuesInsteadOfRetries`: the comment of `writeMu` (`sqlite.go`
  36-38) says that writers queue instead of being retried; deletes, audits and
  catalog writes do not take it and make a set start again (the retries at 769
  are needed on SQLite, too).
- `SequenceRepair!NoPhantom` with one replica (`Replicas <- OneReplica`, as in
  the run with two): a replica that ends with an INSERT in progress, killed or ten
  seconds after a signal (`main.go` 109-113), reads the largest id without it when
  it starts again and sets the sequence back; the INSERT commits, and the next
  `CreateApp` meets its id.
- `CatalogApi!NothingSilent`: "Every mutation and login lands in the audit trail"
  (`docs/documentation.html` 164). The dashboard's handlers that create an
  application or delete an application or environment (`server.go` 550-553,
  559-563, 680-684) drop the store's error and redirect with 302. When only the
  database's answer was lost, the change exists and neither trail nor log nor user
  knows of it. `AppsAccounted` and `EnvsAccounted` count such changes apart
  (`silent`): with them the trail and the warnings explain the tables.
- `VarApi!AuditedEach`: every mutation is in the trail (`USER_GUIDE.md`
  301-303); the audit is a statement after the commit and may fail
  (`server.go` 187). `AuditedOrWarned` is what holds.
- `VarApi!TrueDelete`: "missing deletes return 404, not false success"
  (`README.md` 89); of two concurrent deletions of one variable both may be
  answered 204 (`server.go` 532).
- `VarApi!MissingIsGone`: 404 stands for a missing variable (`USER_GUIDE.md`
  211); `handleDeleteVarByID` answers any error of the lookup with it
  (`server.go` 529).
- `AuthCache!RotationIsFinal`: a rotation takes effect on reload (`auth.go`
  51); a request that read the old hash may store it after the new one was
  cached, and the old key is accepted again for one lifetime (`auth.go` 82-90).
- `AdminKey` with two replicas (`Replicas <- TwoReplicas`) refutes
  `PrintedIsValid`: both find no key, both make one, the last upsert wins and
  both print theirs (`auth.go` 34). With one replica and a crash before the
  output it refutes `KeyDisplayed` (`auth.go` 16-17): the key is lost.
- `AdminKey!FileIsFresh`: after a rotation the key is in the file
  (`USER_GUIDE.md` 347); the file is created with O_EXCL and an old one is
  taken for the new (`main.go` 123-127).
- `Server!AlwaysHealthy`: while the process is up, `/healthz` answers ok
  (`server.go` 208, `USER_GUIDE.md` 328); a process whose listener failed stays
  up and answers nobody (`main.go` 97-105). Kubernetes' probe restarts it, docker
  does not.
- `Transfer!FamiliarRoundTrip`: export and import are a familiar round trip
  (`README.md` 88) for every value; one with a line break comes back shorter, and
  its other lines are taken for variables of their own; one that ends in blanks
  loses them (`vars.go` 264-266, 313-328). `RoundTrip` is what holds.

Three observations that are no property of a model. `USER_GUIDE.md` 178-179 says
the pool is 25 open and 5 idle connections on Postgres; `config.go` 47-48 sets
10 and 10 whatever the database, and `poolOf` (`sqlite.go` 58-67) then never
takes the defaults of `openPostgres`. `normalizeKey` (`sqlite.go` 963-968) takes
the first 32 bytes of `ENCRYPTION_KEY` and pads a shorter one: two keys that
agree so far are one secret. And on Postgres, where the id of a deleted application can return after a restart, a
CLI command may resolve an application's name, lose it, and write to the
environment of that name in the application that took its id. `RightTarget`
therefore claims the application on SQLite only.

## 6. What is not modelled, and why

- The session cookie: one constant signature under `ENCRYPTION_KEY`, no state on
  the server; a browser without a valid one is redirected and changes nothing.
- What a cipher is: a sealed value opens with its secret and with no other.
- Middleware, configuration, version, templates, deployment files: libraries,
  constants, text.
- The CLI's commands about applications and environments are one request each.
  `ListActivity` and the other lists are reads.
- The rate limit: a library's counters, per client address and in memory.
- The buffer of the imports' scanners, 1 MiB for a line (`vars.go` 314, `server.go`
  747): a variable is set by a body of at most 1 MB (`server.go` 61), whose JSON or
  form is longer than the line `key=value`. A file that is too large for a
  form is refused before anything is stored.
- bcrypt is equality of keys, random keys are all different, and the clock of
  `AuthCache` does not go back.

Hazards that no property covers yet are in `PROJECT.json` with the reason.

## 7. Plan

1. An abstract audited store that `VarApi` and `CatalogApi` both implement, as
   `VarStore` implements `VersionedStore`.
2. `Migration` composed with `Catalog`: ids of environments deleted before the
   migration.
3. `Server` for several replicas on Postgres, with `SequenceRepair` as a step of
   each start.
