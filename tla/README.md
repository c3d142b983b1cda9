# Verification of the task API

TLA+ models, TLC configurations and TLAPS proofs for graph-code-challenge: a Go
HTTP API over a `tasks` table in Postgres, with an optional cache in Redis. The
paths below are relative to the repository, the modules are in this directory.

## The system

| component | state | operations | modelled in |
|---|---|---|---|
| Cache decorator, `internal/repository/redis/redistask` | Redis keys `task:{id}`, `tasks:list:gen`, `tasks:list:{gen}:...`, `tasks:count`, `tasks:count:lock`; all with a TTL | `Create`, `GetByID`, `List`, `Update`, `Delete`, `Count`: each an SQL statement of the adapter it wraps, before or after one to five Redis commands | `RedisTask` |
| Postgres adapter, `internal/repository/postgres` | the `tasks` table; rows are soft-deleted | one statement per operation | `TaskTable`, the selection of `List` in `ListWalk`, the columns in `TaskApi` |
| Service, `internal/service/taskservice` | none | clamps the limit of a list, asks for one row more than the page holds, cuts it off and derives `has_more` and `next_cursor`; gives a new task its default status | `ListWalk`, `TaskApi` |
| Process, `cmd/api` | the servers, the channel of their results, the shutdown deadline, the clients of Redis and Postgres | `run()`, a goroutine per server, the gauge refresher, signals | `Lifecycle` |
| HTTP server and profiler | a listener, active connections | `Serve`, `Shutdown`; routes and the order of the middleware | `Lifecycle`, `TaskApi` |
| Gauge, `internal/metrics` and `refreshTaskGauge` | the last count | refreshed every 15 seconds, each time under two seconds of deadline; it is the only caller of `Count` | `TimedCount`; as a caller in `RedisTask`, as a goroutine in `Lifecycle` |
| Handlers and validator | none | bind, validate, call the service, map the error to a status | `TaskApi`, the list request of a walk in `ListWalk` |
| Middleware | request counter, log | request id, log, recovery, metrics | `TaskApi`, without the request id |
| Configuration, `internal/config` | none | merge the environment and `.env`, parse, validate; the cache derives its TTLs | `Config`, loaded by `Lifecycle` |
| Migrator, `cmd/migrate` | the schema version and its dirty flag, kept by golang-migrate | up, down, version | `Migrate` |

Handlers call the service, the service the repository, which is the decorator
when `REDIS_URL` is set and the adapter otherwise. Every request has a goroutine
and every API process the same Redis and Postgres, so the decorator's calls
interleave at every command. That is where the hard behaviour is: a value read
before a write and stored after it, invalidations that fail or never run,
commands whose answer is lost, locks that expire under their owner. The other
hard part is the end of a process, where servers fail, signals arrive and
requests outlive their deadline while clients are being closed. The count lock adds
durations: a TTL, two deadlines and an interval that must fit one another. The
migrator is a program of its own, of which several may run on one database.
`PROJECT.json` lists these hazards at the line where they bite.

## Modules

`TaskTable` is the table. A row is the number of writes it has taken and whether
it is live: the version stands for the column values, so that "this answer misses
that write" can be said as a comparison of numbers. `Inserted`, `Updated` and
`Deleted` are the three statements with their WHERE clauses in `CanInsert`,
`CanUpdate`, `CanDelete`.

`RedisTask` is the decorator. `pc[p]` is where goroutine `p` is in its call; each
action is one Redis command or one SQL statement with the control that follows
it up to the next one:

| code | actions |
|---|---|
| `Create`, `Update`, `Delete` | the same names (statement), then `Evict`, `Retire`, and for the count `AcquireLock`, `Invalidate`, `Release` |
| `GetByID` | `LoadTask`, `ReadTask`, `StoreTask` |
| `List` | `ListKey` (the generation script), `LoadPage`, `ReadPage`, `StorePage` |
| `Count` | `LoadCount`, `AcquireLock`, `RecheckCount`, `ReadCount`, `SetCount`, `Release` |
| go-redis's retries | `AnswerLost` |
| contexts, processes | `ContextEnds`, `Crash` |
| TTLs and eviction | `DropTask`, `DropPage`, `DropGeneration`, `DropCount`, `DropLock` |

What is abstracted, and why that is enough:

- A Redis key is a set of at most one value. Values are tables: a page or a count
  is identified with the table it was computed from. Requests with different page
  keys share only the generation, so one key per generation stands for all.
- Tokens from `crypto/rand` never repeat. They are numbered in the order in which
  they first become the generation.
- A command on a call's context fails once that context is done; a command on
  `context.WithoutCancel` fails only when Redis does. A failed command may or may
  not have taken effect. `Commit` has the same choice for statements.
- `redis.New` leaves go-redis's retries on. `AnswerLost` lets a command that has
  taken effect be sent again, where that differs from an expiry: `SET` of a
  generation, a page, a task or a count, the generation script and `SET NX`.
  `Resends = FALSE` is a client with `MaxRetries = -1`.
- There is no clock. That the TTL does not take the lock from a count whose
  context is live is what `TimedCount` shows of the durations (`LockOutlivesCount`).
  `LockEvictable = TRUE` drops this and lets Redis lose the lock at any time.
- `acked` and `since` are history: `acked[r]` counts, for each task, the writes
  that returned success without a warning about the cache that serves `r`, and
  `since[p]` is what had been acknowledged when `p`'s read began. `born[g]` is
  the table when generation `g` was drawn.

`MCRedisTask` adds the symmetry set for TLC.

`FreshReads` is what the cache promises a reader, with no cache in it: writes
commit, some of them are acknowledged, and a read is answered once, with a mixture
of past tables that lacks no write acknowledged before the read began and holds
nothing uncommitted. It is weaker than linearizability on purpose: two reads in a
row may go back behind a write whose caller has not been answered. `RedisTask`
implements it for lists and for counts: `Reads(o)` is the instance for the reads of
kind `o`, with the versions of the rows for `now`, `acked[o]` and the histories of these
calls. `ListsAreFresh` and `CountsAreFresh` are the properties. Gets do not keep this
contract, since a late store of a task is evicted by nobody (`StaleTaskWasStoredLate`
says how far it goes).

`TimedCount` is the count once more, with time. Ticks pass; TTLs, deadlines and the
ticker of the gauge count down, and `Tick` is held back while a goroutine has
something due. `pc` is as in `RedisTask`; a command takes effect within `MaxDelay` of
being sent, even when the deadline of its call falls in between, and its answer takes
as long again. What `RedisTask` cannot tell is modelled here: a `SET` whose client gave
up waiting (`sets`) lands after the lock was released; an invalidation has a
deadline longer than the lock's TTL; the gauge keeps its value when a refresh fails
and loses it with its process. `how` remembers what a cached count relied on when it
was stored: its lock (`"held"`), a lock that Redis dropped (`"evicted"`), a client
that did not wait (`"stray"`), or nothing (`"late"`). A writer is taken for
acknowledged only when its `DEL` succeeded.

`ListWalk` is a client that follows `next_cursor`, as the teardown of the load
test does. It composes the adapter's selection, the service's probe and cursor
and the client. The cache appears as what `RedisTask` shows of it: a page is
computed from some table not older than the last write acknowledged before the
request, so two pages of a walk may come from tables of different ages, even in the
wrong order. That is the contract of `FreshReads` with the whole table as its one
key, which `RedisTask` gives for each row: a page of one moment is a special case of
it, and the one that the code produces, since a page is the result of one `SELECT`.

`Lifecycle` is one process: `run()` step by step, a goroutine per server, the
requests with the point up to which they hold a connection or still have
something to invalidate, the refresher, signals and the ten seconds of shutdown.

`Config` is `config.Load` as a function of the environment and the `.env` file. A value
is one of what the parsers and the validation tell apart: unset, empty, not parsable,
or a number. Durations have their width: ten times `REDIS_TTL` is an `int64` in the
code and a word of 16 bits here. `Lifecycle` starts by loading any of 8,100
environments with any of three files.

`Migrate` is the migrate command: `run()`, the three commands, the version check that
`Down` makes before golang-migrate takes its lock, and `reportVersion`, which reads
without it. golang-migrate is external, modelled from the contract the migrator
relies on: a session lock, a version, a dirty flag set before a migration and cleared
after it. A process may die and a statement fail between any two steps, its effect in
place or not, and `Repair` is the operator who follows the advice of the warning.

`TaskApi` is a request on its way in and out of the service, with the table at the
end of it. `stage[r]` is where its goroutine is:

| code | actions |
|---|---|
| `bindJSON`, `bindQuery`, `parseID`, `Validate...Request` | `Handle`, with `Accepted` |
| the service and the statement below it | `Create`, `Update`, `Delete`, `Get`, `List`, `Fail` |
| the rest of the handler, `writeError` | `Respond` |
| `Metrics`, `Recovery`, `RequestLogger` after `c.Next` | `ObserveRequest`, `Panic`, `Log` |

A text is one of the classes that the validator and the column tell apart, and at
most one field of a request is not as it should be. The validator counts
characters and `VARCHAR(n)` does too, with limits written down in two places:
`Storable` is translated from the migration, `CheckTitle` and `CheckText` from the
validator. The cache shows itself in two ways: a get may be answered after its task
was deleted, and a committed write may be answered with an error.

`MCTaskApi` adds the symmetry set for TLC.

## Runs

| run | shows | bounds |
|---|---|---|
| `lists` | `ListsSeeAckedWrites`: a list never misses a write that was acknowledged before it began; `ListInv`, the invariant behind it; `ListsAreFresh`, the refinement of `FreshReads`; `CachesConverge`: once the writes stop, pages agree with the table for good | 2 goroutines, 1 task, 1 update per task, 2 generations before the last eviction |
| `tasks` | `StaleTaskWasStoredLate`: a cached task that misses an acknowledged write was out of date when it was stored; nothing else makes one stale; `CountsAreFresh`: counts implement `FreshReads` | 2 goroutines, 1 task, 1 write after the first, a lock that Redis does not lose |
| `counts` | `CountsSeeAckedWrites`, `OneCounterAtATime`: no count misses an acknowledged create or delete, although locks are orphaned, expire and are released late | 2 goroutines, 1 task |
| `live` | `EveryCallReturns`; `CachesConverge` for tasks and the count | 2 goroutines, 1 task, a lock that Redis may lose |
| `gauge` | `LockOutlivesCount`, `LockedCountIsCurrent`, `GaugeLagsByAnInterval`, `GaugeLagsByTTL` | 1 process, 1 writer, 1 write; durations below |
| `walk` | `WalkMissesNothing`, `PagesDescend`, `HasMoreIsExact`, `WalkEnds` | 3 ids, limits below and above the default and the maximum, 2 writes, with and without a filter |
| `requests` | `StatusTellsWhatHappened`, `DeletedForGood`, `RowsAreValid`, `InternalErrorHasACause`, `RecordsAgree` | 2 requests of any kind, 1 task |
| `lifecycle` | `CleanExitServedAll`, `FailureIsReported`, `StaleOnlyPastDeadline`, `ConfigIsUsable`, `EveryKeyExpires`, `RunEnds` | 1 or 2 servers, 2 requests |
| `migrate` | `CleanSchemaIsTrue`, `FailedMigrationStopsTheRest`, `DownUndoesOne`, `QuietReportIsTrue` | 2 operators, 2 migrations |
| `resend`, `deleted`, `disconnect` | three promises of the README that the code does not keep, see below | as `lists` and `tasks` |

Why the bounds are enough. Every hazard of the cache is an overlap of one reader
with one writer; with two goroutines that make call after call, each is also the
other's predecessor, its orphaned lock and its abandoned page. Ids do not
interact (an entry, a version and an acknowledgment are per id), so one task
shows what any would. `MaxVer` bounds the writes to a row and `MaxGens` the
generations after which Redis loses no more: the second generation can already
be confused with the first, and a third, drawn by a write, can follow. In `walk`,
three ids and pages of one or two make walks of one to three pages and a last
page that is full; a client walks once, which loses nothing, as walks share no state.
`Requests` is two so that one can be served while the other is
not; in `requests` it is two so that a delete can overtake an update that was already
accepted. `MaxWrites` bounds the writes during the whole run. In `migrate`, two
migrations are the fewest for which `up` goes on after one and `down` stops after one;
the repository has one so far, and the code is for any number.

The durations of `gauge` keep the order of the ones in the code with numbers that TLC
can count to, a tick being something like a second:

| constant | in the code | in the run |
|---|---|---|
| `CountTimeout` | `taskCountRefreshTimeout`, 2 s | 1 |
| `LockTTL` | `countLockTTL`, 3 s | 2 |
| `InvalidationTimeout` | `countInvalidationLimit`, 4 s | 3 |
| `Interval` | `taskCountRefreshInterval`, 15 s | 3 |
| `CountTTL` | `REDIS_TTL`, 60 s by default | 3 |
| `MaxDelay` | how long a command may be on its way | 1 |

`LockAssumption` and `IntervalAssumption` are what the properties need of them:
`CountTimeout + MaxDelay <= LockTTL`, so the code relies on commands that arrive within
a second, and `CountTimeout + 2 * MaxDelay <= Interval`. Both hold with equality in the
run: with less, `LockOutlivesCount` would fail, and `GaugeLagsByAnInterval` is tight,
as a bound of `Lag - 1` is violated. Nothing in the code enforces that a command
arrives within a second: go-redis gives up on the context it was handed only between
attempts, and a `SET` that the kernel has accepted is on its way. One refresher is
enough because refreshers of several processes meet only at the lock, which the
writer takes in the same way; the overlap of two counts is in `counts`.

`RedisFails` is off in `live`: a Redis that fails forever adds nothing to the calls,
since a failing command is answered by `ContextEnds` and `Crash` all the same; in
`lists` it is on, as the pages converge because they expire. `CHECK_DEADLOCK FALSE` in
`lifecycle`, `requests` and `walk`: a process ends, so does a request, and the last
client stops at the end of its walk.

### Fairness

`RedisTask!FairSpec`: a goroutine in a call goes on, since Go schedules it and
go-redis and pgx answer or fail (the number of retries is bounded, so `AnswerLost`
gets no fairness and cannot go on for ever); the contexts in which the loop of
`acquireCountLock` runs end, since both have deadlines; tasks, pages and counts
expire, since all are stored with a TTL. Nothing makes a call begin, a generation
be evicted or the lock be dropped. `ListWalk!FairSpec`: a client that began goes
on, and its requests are answered or fail. `Lifecycle!FairSpec`: `run()`, the Serve
goroutines, the handlers and the refresher go on, and ten seconds pass; no
server has to fail, no request to arrive and no signal to come.

### Where the code and the README of the repository disagree

- `resend`. `README.md:316` says that no later read constructs a key with a
  previous token. The client may send the `SET` of a token twice, and the second
  can land after another write's `SET`: then the old token is the generation again,
  and pages stored under it are read again until they expire.
- `deleted`. `README.md:240` says that a get treats a deleted task as missing. A
  get that read the row before the delete and stores it after the eviction makes
  later gets return it, for up to `REDIS_TTL`.
- `disconnect`. `README.md:328` says that a client that disconnects right after
  its write still gets its stale entries dropped. The statement itself runs on
  the request's context; if that ends while the committed statement is being
  answered, the decorator sees an error and invalidates nothing.

Two more that no run is spent on. `InternalErrorHasACause` has to except texts with the
character U+0000: the validator accepts them and Postgres does not, so this input is
answered with 500 where `README.md:246` says that invalid input returns 400.
And `RecordsAgree` has to except a panic: `Recovery` answers with 500, but it was
registered before `Metrics`, whose code after `c.Next` the panic skips, so the help
text of `requests_total` (`metrics.go:35`, "Total number of HTTP requests served") does
not hold for it, nor for `/metrics` and `/swagger`, which are registered earlier.

Others where no run is spent on the sentence, but the property that holds shows
where it stops holding:

- `README.md:516` says that the gauge can lag by up to the 15-second refresh interval.
  `GaugeLagsByAnInterval` needs the interval, the time a refresh takes and the delays:
  a value read early in one refresh stands until the next one ends. And it holds only
  of counts that were cached under the lock: when an invalidation gave up, or a `SET`
  landed after its lock was released, the count stands for a whole `REDIS_TTL` more
  (`GaugeLagsByTTL`).
- `README.md:320` says that every key expires. `EveryKeyExpires` needs a `REDIS_TTL` of at
  most a tenth of the largest `time.Duration`, 29 years: beyond it `d.ttl*generationTTLFactor`
  overflows, and a negative expiration is none for `SET`.
- `cmd/migrate` prints the version of a schema and warns when it is dirty. With no
  version it returns before it looks at the flag (`main.go:98`), so a rollback of the
  first migration that failed is reported as "none applied" (`QuietReportIsTrue`, which has
  to except this case). It also warns, of a failed migration, while another operator's
  migration is simply running, and a `down` that another `down` overtakes between its look
  at the version and its lock fails where it would otherwise say "nothing to roll back".
- A variable that is set to nothing hides the value in `.env`: godotenv leaves it alone,
  and the code reads it as absent (`Effective`).

## Proofs

`RedisTaskProofs` proves `TypeCorrect`, `Spec => []TypeOK`, for any sets of ids and
goroutines, any faults and any bounds: one step per action, with lemmas for the
statements, the tokens and the stored values.

It also proves `ListsCorrect`, `Spec => []ListsSeeAckedWrites`, under the
assumption `~Resends` (the run `resend` shows why it is needed).
`ListsSeeAckedWrites` speaks only of lists that have returned, so it is not
inductive. `ListInv` says why it holds: the generation in place is the newest one
drawn and was drawn after every acknowledged write (`ListStore`); a write that is
past its `SET` of the generation is reflected by the generation in place
(`WriteRetires`), which is what makes it safe to acknowledge; a list works under a
generation that reflects all it must, and a page stored under a generation is
never older than the generation (`ListKeeps`). The proof looks at a step in two
ways. For the goroutine that steps there is a lemma per action. For all others
a step only ages the table and keeps, loses or draws a generation (`Ages`), and
`StoreKept` and `CallKept` show once that this disturbs nothing. `ListInvariant` is
the theorem that `ListInv` holds.

`RedisTaskCountProofs` proves the invariants of the tasks and the counts, and none of it
needs `~Resends`.

- `TasksCorrect`, `Spec => []StaleTaskWasStoredLate`, with no assumption. A write that is
  past its eviction has left no cached task older than itself but such as were stored
  late (`TaskCall`), so that acknowledging it leaves `TaskStore` true.
- `CountsTakeTurns`, `Spec => []OneCounterAtATime`, and `CountsCorrect`, `Spec =>
  []CountsSeeAckedWrites`, under the assumption `~LockEvictable`: Redis does not drop the
  lock key while its owner counts within its deadline. For the TTL that is what
  `LockOutlives` shows; memory pressure is another matter, since `docker-compose.yml` runs
  Redis with `allkeys-lru`, and nothing is claimed of it. The goroutine that counts holds
  the lock alone (`LockInv`), and once a write has had the lock no count on its way
  misses it (`Excluded`), nor, after its `DEL`, does the cached one (`CountWrite`).

`RedisTaskReadProofs` proves that the decorator implements `FreshReads`, for any number of
tasks and goroutines: `ListsImplement`, `Spec => ListsAreFresh`, when commands are not sent
twice, and `CountsImplement`, `Spec => CountsAreFresh`, when Redis keeps the lock. `FreshReads`
bounds an answer on both sides. The lower bound is what `ListsCorrect` and
`CountsCorrect` prove. The upper one is `ReadPast`: what is cached for reads of a kind and
what a running one was given are never newer than the table, which holds because a
table only ages. Every lemma has the kind as a parameter. A statement is a `Write` of
one row, the last step of a write an `Acknowledge`, the start of a call a `Begin` or a
`Leave`, and the step in which a read returns an `Answer`; every other step is a
stutter (`Stutter`), since it neither begins nor ends a read (`SilentView`).

`TimedCountProofs` proves all five properties of `TimedCount` for every choice of durations
with `CountTimeout + MaxDelay <= LockTTL` and `CountTimeout + 2 * MaxDelay <= Interval`. The
argument is about clocks that run towards each other: a refresh has used as much of
its interval as of its deadline (`ClockInv`), and the lock it took has at least
`MaxDelay` more to live than its deadline (`Holds`), unless Redis dropped it. `LockOutlives`
and `LockedIsCurrent` follow, the latter with what a write that has had the lock leaves
behind (`AckInv`). The gauge needs two more: what a refresh was given missed nothing
when it began, and what the gauge shows missed nothing when the refresh that set it
began (`LagInv`, for `GaugeLags`); and how far a count falls behind while its `SET` is on
its way and its key is there (`StaleInv`, for `GaugeLagsAtMost`).

`LifecycleProofs` proves all safety properties of `Lifecycle` for any number of requests.
`CleanExitServedAll` is about the last state of the process. What leads there is in
`LifecycleInv`: `run()` waits for as many results as there are servers left (`CountInv`),
an error that a server returned is in the channel until `run()` has taken it
(`ResultInv`), and a server that has been shut down has no request left unless the ten
seconds are over and the exit code says so (`DrainInv`). `ConfigUsable` and `KeysExpire`
follow from what `Load` validates, and that the configuration never changes.

`TaskApiProofs` proves all properties of `TaskApi` for any number of requests and ids.
They speak of requests that have been answered; `RequestInv` says what is settled at
each stage on the way there: that nothing was changed before the repository, that what
reaches it was accepted, what is known once the status is. `RowsAreValid` is used for
more than itself: an update that Postgres refuses is the client's doing only because
what the row held before could be stored.

`ListWalkProofs` proves all safety properties of `ListWalk` for any ids, clients, limits,
filters and writes. Its first part is about sets of ids: what `ORDER BY id DESC LIMIT n`
leaves of one (`LargestFit`, `LargestFill`), and from that `OnePage`, which says what a
page of `Service.List` is: all candidates, or the first ones of more, with the last of
them as the cursor. The heart of `WalkInv` is `CoverInv`: down to its cursor a walk lacks
no task that was in the table all along. It holds across an answer because every page
is cut from a table at least as new as the begin of the walk (`TimesInv`). Proving
`PagesDescend` showed that an earlier form of it watched the pages of any client
instead of the one whose request was answered, and could miss a page given twice;
it now names that client.

`MigrateProofs` proves the types and all four other properties of `Migrate` for any number
of operators and migrations. `CleanSchemaIsTrue` is not inductive: between marking and clearing, the version
is ahead of the schema. `MigrateInv` adds that whoever is in the middle of a migration
holds the lock alone (`HoldsAlone`), that the version is then where the migration
leads and the schema at most one step from it (`SchemaInv`), and how much a `down` has
undone by each of its steps (`UndoneInv`). That a failed migration stops the rest follows:
nobody is about to mark a schema that is already dirty.

The assumptions are those on the constants, named in the modules and evaluated by
every run.

Every safety property of the passing runs is proved, on top of being checked by TLC.
Only model-checked is liveness, which is out of the prover's reach: `EveryCallReturns`,
`CachesConverge`, `WalkEnds`, `RunEnds`. So are the runs that expect a violation, which
need a behaviour and not a proof.

## Plan

Built, in this order: `TaskTable`, `RedisTask` with its runs, the proofs of types and
lists, `ListWalk`, `Lifecycle`, `TaskApi`, `FreshReads` with the refinement, `TimedCount`,
`Migrate`, `Config`, the proofs of the refinement and of `Migrate`, and those of the tasks
and counts, `TimedCount`, `Lifecycle`, `TaskApi` and `ListWalk`. What remains:

1. A contract for gets like `FreshReads`, with the late store in it.
2. That `ListWalk`'s abstraction of the repository is what `FreshReads` promises: both state
   it, and only a reader compares them.

## Not modelled

- Logging, Swagger, the health check binary and the container files: output and
  configuration without state of their own.
- The request id: a value that is passed along and compared with nothing. The rest of
  the middleware is in `TaskApi`.
- The load test, but for its teardown, the walk of `ListWalk`: it generates load.
- A Redis client that corrupts values (`json.Unmarshal` failing) reads as a miss, which
  `LoadTask` and `LoadPage` already have as a failed command.
- Restarts of Postgres: they lose nothing that was committed.
- The read, write, idle and header timeouts of the HTTP server: net/http applies them
  to connections, which `Lifecycle` has only as the requests on them.
