# Verification of gorouter

TLA+ models of gorouter (`src/gorouter`), an OpenAI-compatible proxy written in
Go: clients send chat requests with an API key, gorouter picks an upstream
provider, falls back to others when it is unavailable, counts usage, and
limits rates; administrators manage users, keys, providers, limits and combos.
The models are checked with TLC on small instances, and their main invariants
are proved for all instances with TLAPS.

## 1. Inventory

| Component | State it keeps | Operations | Touches |
|---|---|---|---|
| provider rows (`db/*`) | status, cooldown_until, backoff_level, ... per row | FindByID, List, Update (all columns), MarkCooldown, ClearCooldown, UpdateStatus | everything below |
| health monitor (`provider/health.go`) | ticker, stop channel, probe goroutines | round every 30 s, probe, recordSuccess, recordFailure, Stop | reads a row, writes the whole row back |
| combo execution (`combo/combo.go`) | none of its own | Execute over the items in order, executeItem, markCooldown | rows, upstreams |
| direct chat path (`handlers/v1/chat.go`) | none of its own | candidates, at most 3 attempts, latency write, cooldown mark | rows, upstreams, router |
| router (`routing/router.go`) | strategy | filter and order candidates | rows |
| provider and model administration (`handlers/admin/providers.go`, `admin_models.go`) | none | create with models, update, delete, test, enable, disable | rows, models, audit |
| combo administration (`handlers/user_combos.go`, `admin_combos.go`) | combos and their items, in order | create, auto-generate, update, delete, add, remove, reorder, list, execute | models, combo execution |
| rate limiter (`middleware/ratelimit.go`) | cache of limits, windows per user | checkLimits, cleanupLoop | limits table, quotas |
| quotas (`ratelimit.go`, `handlers/admin/quotas.go`) | used tokens and cost, end of period | check, renew, increment, create, edit, delete, reset | rate limiter, chat |
| chat, responses and messages endpoints (`handlers/v1/*.go`) | none | answer or stream, record usage | providers, usage events, quotas |
| API keys (`apikeys/service.go`) | keys, status | create, validate, revoke, rotate | users |
| users | role, status | update, suspend, delete | keys |
| process (`cmd/server/main.go`) | listener, workers | start, shutdown | all workers, database |
| sync worker (`sync/worker.go`) | stop and done channels | sync every 5 min, Stop | reads the database |
| audit log (`audit/audit.go`) | goroutine per entry | Log | database |
| SQLite store (`db/sqlite.go`) | tables, a pool of one connection | migration, statements | all |
| PostgreSQL store (`db/postgres.go`) | tables with foreign keys | migration, statements | all |
| JSON store (`db/dbmanager.go`) | maps in memory, one file | load, statements, save, Close | all |
| the rest | -- | adapters, translation, token optimisation, retention, OAuth, web pages, metrics | -- |

PROJECT.json lists all of them, those that are not modelled with the reason.

What is hard in this code, and what the properties are about:

* **Reads and whole-row writes.** A provider row is read, kept across a call of
  seconds, and written back with every column, by four kinds of actors, while
  others run single statements on the same row. No statement is conditional.
* **Dropped errors.** The request path ignores what its statements return, and
  runs some of them under a context the client can cancel.
* **Look up, then lock.** The rate limiter takes a window from a map under one
  lock and locks the window itself afterwards; a cleanup runs in between.
* **Stopping.** `main` waits for workers over channels, while ticks are due,
  requests arrive, probes run and audit entries are written.
* **Check, then act.** Quotas, key limits and rotations read in one statement
  and write in another.
* **Several statements, no transaction.** A provider is created, updated and
  deleted together with its models, a combo together with its items, one
  statement at a time; any of them may fail, or the process may end after it.
* **Three stores.** They differ in what they enforce: SQLite declares foreign
  keys and does not switch them on, and has one connection; PostgreSQL checks
  them; the JSON store changes maps first and rewrites a file in place after.
* **Starts.** The migration and the bootstrap administrator meet what earlier
  runs of the process, and its administrators, have left.
* **The many ends of an answer.** Upstream ends, is cut, or is slow; the client
  leaves; each of the three endpoints, streaming or not, tells, records and
  charges in its own way.

## 2. Modules

| Module | Models | Status |
|---|---|---|
| `ProviderStore` | a provider row, the statements on it, the two filters | done |
| `ProviderHealth` | chat requests, monitor, administrator and time over provider rows | done |
| `MCProviderHealth` | instances for TLC | done |
| `ProviderHealthProofs`, `ProviderHealthProgressProofs` | proofs about ProviderHealth: what holds, and what must happen or never will | done |
| `ServerShutdown`, `ServerShutdownProofs` | the end of the process | done |
| `AdmissionLog` | what the rate limiter promises: an abstract specification | done |
| `RateLimiter`, `MCRateLimiter`, `RateLimiterProofs` | limit cache and sliding windows; implements `AdmissionLog` | done |
| `Users` | the users table and the handlers that change it | done |
| `ApiKeys`, `MCApiKeys`, `ApiKeysProofs` | API keys over `Users` | done |
| `Answers` | what the client of a call is promised: the abstract specification | done |
| `Metering`, `MCMetering`, `MeteringProofs` | the calls of the three endpoints, quotas and usage; implements `Answers` | done |
| `CatalogRows` | rows, their life, and the statements on them | done |
| `SqliteStore`, `PostgresStore`, `JsonStore` | what each store makes of a statement | done |
| `Catalog`, `MCCatalog`, `CatalogProofs`, `CatalogScanProofs` | the handlers of the catalog, starts and crashes, over each store | done |

### ProviderStore and ProviderHealth

`ProviderStore` has the columns routing depends on, and one operator per
statement. `cooldown_until` is a number of ticks left (0: passed, `NoDeadline`:
NULL), so that time does not have to be counted: `Tick` ages the table and
every copy a goroutine holds. MarkCooldown raises backoff_level in PostgreSQL
only; `BumpsBackoff` says which store it is.

`ProviderHealth` composes everything that writes rows:

| variable | in the code |
|---|---|
| `conn[p]` | the row of provider p |
| `chat[r]` | the goroutine of a chat request: where it is, the item or candidate, its copy of the row, whether its client has left |
| `check[p]` | the goroutine of `checkProvider` with its copy |
| `edit[p]` | an administrator's `Update` with its copy |

A request goes through `combo.Execute` (`CallItem`, `SkipItem`,
`ItemUnavailable`, `ItemGarbled`, `ItemRejected`, `ItemOk`, `ComboExhausted`)
and then, unless an item succeeded, through `executeDirectRequest`
(`SelectCandidates`, `RefuseDirect`, `SkipCandidate`, `CallCandidate`,
`CallEnds`, `WriteLatency`, `MarkCandidate`, `GiveUp`). A step is what happens
between two points at which another goroutine can change the table: one read
or one statement, with the local work around it. `CallEnds` and `WriteLatency`
are the two halves of `updateProviderLatency`; `Probe` and `Record` those of
recordSuccess and recordFailure; `BeginEdit` and `EndEdit` those of an edit.
Upstream answers are the five classes the callers tell apart. The order of the
candidates is left open, so the result holds for every routing strategy.

`StepsLeft` bounds what a request can still take, from where it is, its item and
its attempts: two steps an item, four a candidate. `GetsCloser` says that each
of its own steps lowers the bound and no step of others raises it, so that the
fallback ends without any assumption about the upstreams, the store or the
client; `RequestsFinish` adds the fairness of the goroutines, on a store whose
statements return (`StatementsEnd`).

`CooldownEnteredOnlyBy` names who takes a provider out of rotation: a combo whose
call failed or was cut off by its client, a direct request whose call failed while
its client was there, the monitor at its threshold, and whoever writes back a copy
of the row read while it was cooling. The monitor's failures include a secret
that cannot be read and every answer but a 2xx, a 401 or 403 among them; a request
never holds a 4xx against its provider.

Left out: bodies, secrets, and the OAuth refresh, which no SQL store can reach
(they have no such columns). How a call ends and what it records is in
`Metering`, the creation and deletion of rows in `Catalog`. The rows are those
of the SQL stores, which give a copy to a reader; the JSON store, which gives the row
itself, makes no difference to how many steps a request has left, since `StepsLeft`
looks at no row.

On SQLite a list of combos never returns while there is a combo (see `Catalog`),
and on PostgreSQL combos come without items, so a chat request that goes
through the items and then on to the direct path is one of a store that
lists combos with their items, the JSON store (`provider_fallback`); on SQLite
items are executed through `POST /me/combos/{id}/execute`, which runs the same
`Execute`.

### ServerShutdown

`main` at its steps after the signal; the listener; the worker and the monitor
with their channels, a channel that is only closed being a boolean and a
ticker channel holding at most one tick; probes, requests and audit goroutines
as small state machines. `select` with several channels ready is a free choice,
as in Go.

### RateLimiter

One request at a time passes `getLimit` (`CacheHit`, `CacheMiss`, `LoadRow`,
`LoadDefault`, `FillCache`), reads the clock, `getWindow` (`GetWindow`,
`NewWindow`), and then the check under the window's lock (`RefuseMinute`,
`RefuseDay`, `Admit`). A window is named after the request that allocated it,
so two windows of the same user can be told apart. The lists hold the requests
appended, whose recorded time is `at`. `DropExpired` and `CleanWindow` are the
cleanup loop, `PutLimit` and `DeleteLimit` the administrator. Nothing in the
program calls RecordTokenUsage, so the token list stays empty and its limit
refuses nothing. The quota, which is checked before, is in `Metering`.

`AdmissionLog` is the limiter without its lists. A request is asked, timed (it
has read its clock), joined to a log, and then admitted or refused by all that
was ever admitted on that log: admitted only if the limit has room *now*,
refused only if it had none by the clock *the request read*. A log is closed
when nothing on it counts. `stageOf` maps a request of `RateLimiter` to its
stage, and `LogIsKept`, the specification of `AdmissionLog` under that mapping,
says that two lists which are cleaned by whoever comes by, with whatever clock,
never forget an entry that matters and never count one that does not. It says
nothing of a user's two windows together: what the orphans cost is in
`OverLimitNeedsOrphan`, for the minute and for the day.

### Users and ApiKeys

`Users` has a row per user and, per administrator's request, `edit[a]`: the
handler it is in and, for `Update`, the row it read. `ReadUser` is the FindByID
all three handlers begin with; `WriteUser`, `DecideStatus` and `DeleteUser` are
their statements. Two history variables record what was decided: `banned`
(suspended or deleted by UpdateStatus or Delete, and not activated since) and
`overwritten` (an Update wrote back a different, older status).

`ApiKeys` extends `Users` with the keys and the calls of the service, one step
per statement: `CountKeys` and `InsertKey` are CreateKey; `StartRotate`, these
two, and `Revoke` are RotateKey; `StartRevoke` and `Revoke` are RevokeKey;
`Lookup`, `CheckOwner` and `Touch` are ValidateKey, and `Served` is the end of
the request. `UserStep` lets the handlers of `Users` run in between. `Fail`
ends a call wherever a statement can fail, so that a rotation can leave a
replacement and the old key active. An expiry is a term, which passes once and
for all keys that have it. `answered` remembers for which keys a revocation or
a rotation has been answered with success; a validation remembers whether its
key was dead, or its owner banned, when it began.

Left out: names, scopes, the format and hashing of keys (a key string stands
for its row), and `RevokeAllForUser`, which nothing calls. The stores are the
SQL ones: a read gives a copy.

### Metering and Answers

`Metering` follows a call from the rate limiter's quota check to its last
statement, for the three endpoints, streaming or not.

| variable | in the code |
|---|---|
| `store` | `sql`; `json`, where no quota can be created; `file`, a JSON store whose file already had a map of quotas |
| `quota` | the user's row of quotas: cap, usage, and whether its month is over |
| `edit` | the usage and the end of period that `QuotaHandler.Update` has read |
| `req[r]` | the goroutine of a call: where it is, what its client was told, what its event says, what it will charge, whether the client has left |
| `lapsed` | history: since usage was last cleared a call passed without being compared with a cap, or an edit put old usage back |
| `charged` | history: the tokens charged since then |
| `raced` | history: since then an edit wrote over usage, or one of two writers of the live row of the JSON store undid the other |

`MetricsMiddleware` puts its `statusWriter` around every response, and that has no
`Flush`: in the deployed server no handler finds an `http.Flusher` (the recorders of
the tests are Flushers). What is modelled is what follows. A chat stream of a
provider has sent its 200 when it ends in an error event (`ChatStreamFails`); one
of a combo is a single chunk and needs no flush (`ComboStreams`); a stream of the
responses endpoint returns behind an error body before it calls upstream, and is
not recorded (`ResponsesStreamFails`); a stream of messages takes the missing
Flusher and runs to its end (`StreamOpens`, `StreamDone`, `StreamCut`). The loops of
`StreamResponse` and of the responses stream are never reached.

`CheckQuota`, `RefuseQuota`, `FindOver`, `RenewPeriod` and `RenewFails` are
checkQuota. On an SQL store a renewal is one statement, and the copy in hand is
cleared with it. The JSON store hands out the row itself, and its `ResetMonthly`
lets the month end now: `ClearLiveRow` clears the row, `RenewPeriod` gives it the new
month, and the comparison comes after that; in between others see a month that is
over. Its increment is a read and a write, unlocked: `CountLost` is two increments
of which one is lost, `ClearingLost` a clearing undone by an increment.
`CallFails`, `CallCut` and `CallAnswers` are the other ways a call ends. Which of
them records and what it tells depends on the endpoint, exactly as the returns
and breaks of the handlers do. `RecordEvent`, `CountUsage` and
`CountFails` are recordUsage. `CreateQuota`, `BeginEdit`, `EndEdit`, `EndEditDeleted`,
`DeleteQuota` and `ResetUsage` are the administrator's handlers, `PeriodEnds`
the calendar. Tokens stand for costs too: both caps are compared and charged by
the same statements. `OneRow` is a bound: on the JSON store, where nothing keeps
user_id unique, two rows for one user, and a row held by somebody while it is
replaced by another, are left out.

`Answers` is the promise to a client: a call is pending, may be opened as a
stream, is told its result once or dropped after it was opened, and its client
may leave. `seenBy` maps a call to it (`Seen`, substituted for `view`), and
`AnswersKept`, the specification of `Answers` under that mapping, is a property
of `Metering`.

### Catalog and the stores

`CatalogRows` keeps of a row its life only (unused, there, gone). A statement
is one call of a repository: what it does, to which rows, its turn in its
handler, and whether the handler looks at its error. `SqliteStore`,
`PostgresStore` and `JsonStore` have an operator for each repository call: what
it finds, what it refuses (`Accepts`), what it makes of the rows (`After`).
`Catalog` takes the three as instances and chooses one at the start.

| variable | in the code |
|---|---|
| `phase`, `schema`, `starts` | the process, and what the migration of SQLite finds |
| `life` | the rows of the database, or of the maps of the JSON store |
| `made`, `file` | JSON: the maps that are not nil, and what the file holds |
| `conn` | SQLite: who keeps the only connection across statements |
| `call[c]` | a handler: what it was asked, the statements it has yet to run, the one it is saving, the rows it counts on |
| `torn`, `told`, `lost`, `back`, `excused` | history: a cut file; what a client was last told of a row; rows lost, rows brought back, and models left behind, by a named cause |

A handler begins by what it reads (`CreateProvider`, ..., `DeleteUser`), and
plans its statements; DeleteProvider and UpdateProvider plan again after they
listed the models (`ListToDelete`, `ListToUpdate`). `Run` does one statement;
on the JSON store `FindNilMap` and `MakeMap` may come before it, and `Save`
comes after it. `StatementRefused`, `StatementFails` and `SaveFails` are its
errors: `Fail` says what each handler does then. `ListCombos` is the list that
holds SQLite's connection while it asks for it again, until `ClientLeaves`;
`ExecuteCombo` and `Execute` read a combo twice, and `Recover` is the end of the
panic if it went in between. `OnlyScansBlock` says that such a list is all that
keeps a connection across statements, and that every other call under way has
in hand what its next step is about. `Open` and `BootstrapAdmin` are the start of the
process, `Crash` and `Stop` its ends; `OtherSave` is a save by the repositories
that are not modelled here, since all of them write the same file.

What is simplified: a model keeps its provider; rows that share a model_id are
one; the order of items is left out; failures of the database during a start
are left out; the monitor's and the requests' writes of provider rows are in
`ProviderHealth` only. On the JSON store a `RemoveItem` that does not
meet the item is answered 204, and promises nothing here; the list of a user's
combos filters by a field no handler sets, so that it is always empty there.

## 3. Runs

| Run | Question | Bounds | Result |
|---|---|---|---|
| `provider_health` | type, deadlines, who may begin and who may end a cooldown or a disabling | 1 provider, 1 request slot, a combo with that provider, 3 attempts, backoff up to 2, threshold 2, all cooldowns 1 to 2 ticks, failing statements, all actors | holds, 1.6 million states |
| `provider_fallback` | every request is answered, and gets closer to its answer with each step | 2 providers, a combo over both, 2 attempts, a store whose statements return | holds under fairness, 6,032 states |
| `cooldown_ends` | do providers serve again when nothing fails any more? | 1 provider, 1 client that keeps sending | violated |
| `cooldown_is_kept` | does a cooldown last until its deadline? | 1 provider, 2 direct requests, no monitor, no edits | violated |
| `server_shutdown` | drain, quiet workers, termination | 2 requests, 2 probes, sync on | holds |
| `shutdown_without_sync` | termination with no sync URL | 1 request, 1 probe | violated |
| `rate_limiter` | windows within limits, memory of admissions, cleanup, who overshoots; implements `AdmissionLog` | 1 user, 3 requests, limits with 1 and 2 a minute or day, minute 1, day 2, TTL 1, clock up to 4 | holds, 1.28 million states up to symmetry |
| `rate_limit_holds` | is the limit of a minute a limit? | 1 user, 2 requests, limit 1 | violated |
| `api_keys` | how far the key limit is exceeded, revocations last, dead keys and banned owners are refused | 4 keys, limit 2, 2 calls, 1 user, 2 administrators, 1 role, 1 term | holds, 473,509 states up to symmetry |
| `banned_is_refused` | is a suspended user's key refused? | 1 key, 1 call, 1 user, 2 administrators | violated |
| `metering` | how far a cap is exceeded, what the row holds, what clients are told, what is recorded; implements `Answers` | 2 calls, caps 0 (none) and 1, 1 token an answer, usage up to 3, three kinds of store | holds, 2.11 million states up to symmetry |
| `catalog` | answered creations and deletions last, what is left behind and why, what blocks | 2 calls, a provider with 2 models, a combo with 2 items, 2 starts, 6 workloads, 3 stores | holds, 1.49 million states up to symmetry |

Why the bounds are enough. Rows are independent of each other: an action writes
one row and only `SelectCandidates` reads several, so the row properties need
one provider, and fallback needs two. A request slot is reused, so one slot
gives any sequence of requests, interleaved with a probe, an edit and two
statements of the administrator at a time: four actors with copies of the same
row. A threshold of 2 with levels up to 2 reaches both branches of
recordFailure; ComboTicks 2 with a cap of 2 makes the level and the cap matter.
In the shutdown model every goroutine has a handful of positions, and two of
each kind are enough for one to be early and one late. In the limiter three
requests against limits of 1 and 2 give one that is over every limit; a
clock of 4 with a day of 2 lets entries leave both windows, and the cleanup
drop a window, before the last request comes.

Two calls and a limit of 2 give the largest overshoot, 3 keys, with a key
to spare that would show a larger one. Two administrators are the editor and
the one who bans; a second user would only have keys and rows of his own. Roles
play no part in what is checked of keys, so one is enough.

In `metering` two calls are the one that is charged and the one that renews or
is checked in between; a cap of 1 is passed by the second charge; usage up to 3
is one more than `BoundedOvershoot` allows for two calls. The store, the
endpoints and all ways to end are chosen freely in each call. In `catalog` one
provider and one combo are enough, since no handler relates two; two models and
two items are the one a handler has dealt with and the one it has not. A
workload is the set of handlers a behaviour uses: the six are the groups of
handlers that touch the same rows, every handler is in one of them, and each
races with itself and with the others of its group. Two starts give a crash
and what it left behind.

CHECK_DEADLOCK is off for the shutdown (the process ends), the limiter (each
request arrives once and the clock stops) and the catalog (the starts run out,
and a process that was refused stays down).

**Fairness.** `ProviderHealth!FairSpec`: the monitor's rounds and probes, the
clock, and, where `StatementsEnd` holds, each request's next step. Goroutines are
scheduled and upstream calls have timeouts, but a request's own statements (its list of
combos, the latency write) wait without a deadline: on the JSON store for a mutex
that is always released, on PostgreSQL for a connection that every query gives
back; on SQLite for the only connection, which a list of combos may keep for
ever (`ListsFreezeTheDatabase`). There nothing is assumed of a request and
`RequestsFinish` says nothing; `GetsCloser` needs no fairness and holds on every store.
Clients and administrators owe nothing. `BusySpec`, used only
for `cooldown_ends`, adds clients that keep sending and of whose requests some
reach a provider: it makes the violation one of the program and not of an
idle one. `ServerShutdown!FairSpec`: main and the workers run, syncs and rounds
end (their contexts have deadlines), the 30 s of the drain pass, and a closed
stop channel is chosen by `select` sooner or later (strong fairness, since a
tick may be chosen a number of times before it). No signal need come, and no
handler need ever return. `Metering` and `Catalog` state no fairness: their
steps need nobody but the call itself. Of what can block, `OnlyScansBlock` has
the connection that is kept across statements, and `NobodyWaits` and
`ListsFreezeTheDatabase` say what follows; the mutexes of the JSON store and the
queue of the pool, which are given back by whoever has them, are not modelled.

## 4. What the violations show

* `cooldown_ends`: the monitor probes active rows only, and a direct success
  clears nothing, so a provider in cooldown is not probed and not selected
  again, however long ago its deadline passed. The documentation says a success
  clears the cooldown. Only a combo that names the provider, or the
  administrator, gets it back. `CooldownWithoutEnd` is the general statement: for
  any number of providers, requests and attempts, one that is in no combo, and of
  whose row no older copy is on its way, stays in cooldown until it is enabled or
  disabled by hand.
* `cooldown_is_kept`: two requests fail at the same provider. The first marks
  the cooldown between the read and the write of the other's latency update,
  which writes all columns back as they were.
* `shutdown_without_sync`: without a sync URL `Start` returns before its
  goroutine exists, and `Stop` waits for that goroutine for ever. The database
  is never closed. `StuckWithoutSync` proves it for any number of requests and
  probes, without any fairness: no schedule gets main out of there.
* `rate_limit_holds`: a request gets a fresh window; before it locks it the
  cleanup sees it empty and drops it from the map; the next request gets
  another one. Both are admitted. `OverLimitNeedsOrphan` shows this is the only
  way for a user to exceed the limit of a minute, or of a day.
* `banned_is_refused`: one administrator opens a user to edit his name, another
  suspends him, the edit is saved and writes back the status it had read. The
  suspension is gone, nobody is told, and the user's keys are good again.
  `BannedNeedsOverwrite` shows that nothing else lets a banned user in.

Five more places where the code does not do what the documents say
(`spec-driven-llm-wiki/spec/docs/`). The models do what the code does, so that
no property that holds is to be read as a promise of the documents kept:

* **Streams** (`middleware/metrics.go:40`). As said under `Metering`, a chat stream of a
  provider and every stream of the responses endpoint end in an error after the
  200. Documents 010 (lines 31, 289) and 015 (line 289) promise both streams.
  `CutIsTold`, `EndedIsRecorded` and `EventsMatchAnswers` hold of the streams as they
  end now; a `statusWriter` that could flush would change all three.
* **Reset of a quota** (`handlers/admin/quotas.go:214`). The handler passes the id of
  the quota where the id of a user is expected: on an SQL store nothing is reset,
  and the answer says it was. Document 012 (lines 23, 276, 293-297) says that the user
  can request again.
* **Quotas on the JSON store** (`db/dbmanager.go:1306`). The map is made in a copy of
  the store and `Create` panics, unless the file already had quotas; so nobody is
  refused there. Document 012 (line 273) says that an exceeded quota is answered 429.
* **Starts on SQLite** (`db/sqlite.go:283`). The migration adds a column its own
  CREATE TABLE has, so that a fresh database, and any database at the second start,
  is refused. Documents 001 (lines 269, 286-290) and 017 (lines 307-308) promise
  a default that starts and migrations that can be repeated. `Catalog` begins SQLite
  with no database or with an older one, and only the latter starts, once.
* **The last administrator** (`handlers/admin/users.go:228`). No handler looks whether
  another one is left. Document 003 (lines 109, 127, 202) says that the last one can
  be neither suspended nor deleted. Once the bootstrap administrator is deleted, a
  server on an SQL store does not start again, and on the JSON store the deleted row is
  overwritten, which `DeletionsKept` excuses and does not justify.

## 5. Proofs

TLAPS proves, for any number of providers, requests, users and probes, and for
any durations, limits and thresholds allowed by the assumptions of the modules:

* `ProviderHealthProofs`: `TypeCorrect`, `DeadlineAlwaysSet`,
  `CooldownsEnteredByTheNamed`. That a cooldown has a deadline is not inductive: a
  copy read earlier is written back later, so the same must be said of every copy at
  the moments it may be written. `ConnSupported`, `ChatSupported`,
  `CheckSupported` and `EditSupported` say it of a row and of its live copies. Who
  enters a cooldown follows step by step from the types (`PutInCooldown`,
  `CooledBy`). Lemmas `ConnKept`, `CheckKept`, `EditKept`
  and `Moves` state once what a step needs to show for the parts it leaves
  alone.
* `ServerShutdownProofs`: `TypeCorrect`, `DrainCorrect`, `StoppedForGood`, from
  two orderings: `DrainOrder` (listener closed, then drained, then the database)
  and `StopOrder` (main is past a Stop only when that worker has returned).
* `RateLimiterProofs`: `TypeCorrect`, `WindowsCorrect`, `NothingForgotten`,
  `OnlyOrphansOvershoot`, `KeepsLog`. The invariant adds `ClocksBehind` (no
  request's clock is ahead of now) and `ListsAdmitted` (a list holds admitted
  requests, of that window): a stale clock then never counts fewer requests than
  are in the window now, which is why checks with old clocks cannot overfill it.
  `KeepsLog` is the refinement of `AdmissionLog`. A refusal must come from
  requests admitted to the same window, which is what `ListsAdmitted` says; an
  admission must be justified by the whole log as of now, which is
  `AdmissionsRemembered` with `ClocksBehind`; and a new log must be empty, for
  which `WindowsOpened` says that a window was opened by a request that has
  joined. `ListsJudge` compares list and log once for both; the steps of the
  limit cache and of the cleanup of lists are stutters. The counting is done
  with the library's theorems on finite sets.
* `ApiKeysProofs`: `TypeCorrect`, `OvershootBounded`, `RevocationsHold`,
  `DeadKeysRefused`, `BansHoldUnlessOverwritten`. The limit alone is not
  inductive: a creation that has counted is as good as a key, and `Overshoot`
  bounds keys and such creations together. `DeadNoticed` and `BanNoticed` say
  where a validation notices; they rest on `LookupMatches` (owner and expiry of
  a row never change) and on `BannedSeen` (a ban shows in the row unless it was
  written over). `CallInv` gathers what is said of one call, so that a step only
  has to show it for the call that moves.

* `MeteringProofs`: `TypeCorrect`, `CutsAreTold`, `EndsAreRecorded` and
  `EventsAreTrue` follow from what is sound of one call at
  each of its places (`CallsSound`), so that a step has to show it for one call.
  `KeepsAnswers` is the refinement: every step is one of `Answers` or leaves the
  view as it was. `LedgerIsExact` is inductive with the types, through
  `StepKinds`, which sorts the steps by what they do to the row.
  `OvershootIsBounded` needs `Overshoot`,
  which counts a call in flight as what it can still charge: the bound
  on usage alone does not survive the next charge. The products it needs are lemmas of
  their own.
* `CatalogProofs`: `TypeCorrect`, `CreationsStay`, `DeletionsStay`,
  `OrphansHaveCauses`, `StraysStayOnSqlite`, `PanicsNeedDeletes`,
  all from one invariant. Of each call it says that its statements
  fit its handler (`Planned`), that what it counts on is in the rows (`Founded`)
  and, but for the statement it is saving, in the file (`Stored`: a client is told
  only after the save, and a restart has only the file), and that a deletion on
  its way has every model that is not excused among the statements it has yet to
  run (`Cleared`). `InsertsApart` keeps two calls from inserting one row;
  `ProviderFirst`, `ItemsCovered`, `FileInv` and `ToldInv` say how rows, file and what
  clients were told hang together; `QuietDown` that nothing is in flight while the
  process is down. `Effect` states once what a statement does on any store,
  and `Performs` what it does to everything else, so that the stores are taken
  apart in three lemmas only.
* `CatalogScanProofs`: `OnlyScansHoldBack`, on top of that invariant. `HasWork`
  names what a call needs for its next step: for a run a statement to do, for a
  save the statement to save, for a list a handler that lists. It needs in
  addition that only an UpdateProvider updates the provider (`ListsAfter`), for
  what comes after that statement is a list. `MoveWorks` reduces a step to the
  call that moves.

`ProviderHealthProofs` also has `CooldownsLiftedByTheNamed` and
`DisabledLeftByTheNamed`, and `RateLimiterProofs` has `LiveWindowsStay`: action
properties, from the same invariants and one lemma each (`ActiveAgain`: a row
becomes active by a success, by the administrator or by a copy that was;
`WindowLeaves`: only the cleanup takes a window out of the map).

`AnswersComeCloser` proves `GetsCloser`, the argument for termination that
needs no fairness: for any combo, any providers and any number of attempts
`StepsLeft` falls with each step of a request. It rests on `Placed`: the item of
a request is one of the combo or the one after it, and a request that is at a
candidate has attempts left. That there is a step to take, and what follows when it is
taken, is under *Liveness* below.

**Liveness.** The prover has no rule for ENABLED, by which WF and SF are
defined: it takes it for an unknown predicate. So each argument is made with the
guards of the actions first (`Can...`), and the step from the guards to ENABLED is
a hypothesis of a corollary of its own, stated for the fair specification the runs
check. That a guard enables its action, and is in fact equivalent to that,
holds in every state of the instances of the runs: `GuardsEnable` in the 6300
states of `server_shutdown` and the 864 of the same instance without a sync URL;
`CanServe` in the 1.6 million of `provider_health` and the 6,032 of
`provider_fallback`; `CanAdvance` in the 1.49 million of `catalog`. None of the
hypotheses is about data that the bounds of those runs cut off.

* `ShutdownIsLive` proves `ShutdownEnds` for any number of requests and probes
  from `GuardedFairness`, one leads-to per place of main (`StopSyncEnds` to
  `ClosingEnds`). In `WaitSyncEnds` and `WaitHealthEnds` a worker comes back to its
  select however often a due tick is chosen over the closed channel, and that is
  where the fairness must be strong; a worker that returned stays so
  (`ReturnedForGood`), and a channel main closed stays closed (`StopFlags`).
  `FairShutdownIsLive` is the corollary.
* `NoRequestIsStuck`: a request in service always meets the guard of a next step.
  `RequestsFinishStepwise` has the rest of `RequestsFinish` but one inference: a
  request with no steps left is done; if all from n steps left come to their
  end, so do all from n + 1 (`OneStepCloser`: the next step lowers the bound,
  by `AnswersComeCloser`, and fairness takes it); and nobody has more than
  `StepsAtMost`. Induction over n is what the prover cannot do on a
  temporal formula. `FairRequestsFinishStepwise` is the corollary.
* `NobodyWaits`: on any store, with any number of calls, while no list of
  combos has the connection every call under way meets the guard of a next
  step.

**What never happens.** `ListsFreezeTheDatabase`: while such a list has the
connection of the SQLite pool no row of the database changes, and only its client's
leaving, a crash or a stop gives the connection back. `StuckWithoutSync` and
`CooldownWithoutEnd` are described in section 4. The last rests on `ItemsFromCombo`
(what a request calls as an item is named by the combo) and on `RequestsReadFresh`
(a copy that will be written back is that of the row at the time it is read): a
row in cooldown gives copies in cooldown, the monitor does not look at it, and every
other statement on it keeps the status.

Only model-checked: `RequestsFinish` as a whole, for the induction named above,
and the hypotheses about ENABLED. The violated properties are false
and have no proof; for two of them the general statement behind the
counterexample is proved (section 4), and for `cooldown_is_kept`, `rate_limit_holds` and
`banned_is_refused` the statement of what alone leads there
(`CooldownsLiftedByTheNamed`, `OnlyOrphansOvershoot`, `BansHoldUnlessOverwritten`).

## 6. Not modelled

* **Audit log and statistics.** That an entry is written is in `ServerShutdown`;
  nothing says when it must be. Queries over usage and audit rows only read.
* **Retention cleanup.** One timed delete per table, on nothing the models read.
* **OAuth refresh.** No SQL store has the columns, so no provider gets there.
* **Embeddings, images, audio, rerank.** One upstream call each, no state.
* **Aliases and settings.** Rows that no decision modelled here depends on.
* **Adapters, translators, token optimisation.** Conversion of data, without
  state shared between requests. That a cut or empty answer leaves them as it does is
  in `Metering`; their content is not.
* **The order of the routing strategies.** `ProviderHealth` leaves the order of
  the candidates open, so what holds there holds for each of them.
* **Retry-After.** The counter it is computed from is in `RateLimiter`; the
  header is not.
* **Login, refresh tokens, configuration, encryption, metrics, web pages.**
* **The last administrator.** No handler looks whether one is left, against what
  document 003 says (section 4); what follows at the next start is in `Catalog`.
* **A stale or default limit that admits more than the user's own.** `RateLimiter` has
  both, but its bound is the most generous limit in use.
