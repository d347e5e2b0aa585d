# A TLA+ verification of the enterprise API

This directory models the concurrent and failure-prone core of the Go service in
`src/` (a Gin HTTP API over PostgreSQL and Redis): authentication with rotating
refresh tokens and session limits, the access-token cache and blacklist, the login
lockout, the throttle, the rate limiter, the worker pool and the audit trail it
writes, the roles and permissions of the admin API, the start of the service with its
migrations and its seed, and its end; and the load-test client beside it. TLC checks the models on small
instances; TLAPS proves the most important properties for every value of the
constants.

## 1. The system

| Component | Source | State | Operations | Interacts with |
|---|---|---|---|---|
| Refresh tokens and sessions | `internal/modules/auth` | tables `users`, `refresh_tokens`, `sessions` | Register, Login, RefreshToken, Logout | PostgreSQL, statement by statement; JWT helper |
| Access tokens | `internal/middleware/auth.go`, `shared/utils/cache.go`, `jwt.go` | in-memory `TokenCache`, Redis `blacklist:*` | AuthRequired, Get / Set / sweep, Logout's blacklisting | Redis; in front of every protected route |
| Login lockout | `auth_service.go` | Redis `login_attempts:*`, `login_lockout:*` | checkLoginAttempts, recordFailedAttempt, clearing on success | Redis; called by Login |
| Worker pool | `shared/utils/worker.go` | channel of 1000 tasks, 10 workers | Submit, worker loop, Shutdown | runs what ActivityLogger submits |
| Activity log | `middleware/logger.go` | `activity_logs` | ActivityLogger | every request submits an INSERT after its handler; PostgreSQL; the end of the process |
| Rate limiter | `middleware/rate_limiter.go` | Redis `rate_limit:<ip>:<device>` | GET, then MULTI INCR EXPIRE | every request, before the handler |
| Throttle | `middleware/throttler.go` | `sync.Map` of token buckets | LoadOrStore, Allow, cleanup goroutine | every request, first |
| RBAC and admin API | `middleware/rbac.go`, `internal/modules/admin` | `roles`, `permissions`, `user_roles`, `role_permissions` | CRUD, SetRoles, AssignPermissions, RequirePermission | PostgreSQL transactions |
| Default admin seed | `admin_service.go` | the same tables | SeedDefaultAdmin at every start | PostgreSQL, statement by statement |
| Migrations | `internal/database/migrate.go` | `schema_migrations`, the schema | RunMigrations at every start | PostgreSQL, one transaction per file |
| Process life cycle | `cmd/api/main.go` | - | start, serve, SIGTERM, `srv.Shutdown`, deferred `db.Close` | all of the above |
| Load-test client | `cmd/loadtest/main.go` | metrics of each scenario | warmup, three scenarios of concurrent workers, summaries | the API, over HTTP |
| Incidents | `internal/modules/incident` | table `incidents` (no migration creates it) | Create, List | one statement per request |
| Storage, logger, configuration, websocket placeholder, stateless middleware | various | - | - | - |

What is hard in this code: no request runs in a transaction, so the SQL
statements and Redis commands of concurrent requests interleave; most errors are
ignored; a client can cancel the context of its request, and a process can die,
between any two statements; cached decisions outlive what they were based on.
`PROJECT.json` lists every such hazard with the line where it bites and the
properties that watch it.

## 2. Modules

### Sessions

One action is one SQL statement, the unit that commits on its own
(`pgxpool.Pool.Exec` outside a transaction); a handler is a goroutine with a
program counter. `users`, `refreshTokens` and `sessions` are the tables, keyed by
the token hash (UNIQUE in both tables; a token and its hash are one model value).
`stamp` is `last_accessed_at`, which nothing ever updates. Arrival actions
(`Login`, `Register`, `Refresh`, `Logout`) stand for the code up to the first
statement on these two tables; then

| Code | Actions |
|---|---|
| `RefreshToken` | `Find`, `DeleteExpired` or `DeleteSession`, `DeleteToken`, then as below |
| `generateTokens` | `InsertToken`, `InsertSession` |
| `enforceSessionLimit` | `Evict` (any set of newest rows the subquery may return), `Cleanup` and the reply |
| `Logout` | `LogoutSession`, `LogoutToken` |

Every statement can fail (`Fault`, bounded by `MaxFaults`); the handler then does
what the code does, which is mostly to carry on. A failing INSERT of a refresh
token may have stored its row or not. `Crash` ends all handlers. History
variables record what was answered (`granted`, `loggedOut`) and where a fault
excuses a property (`missed`: an eviction did not happen; `dirty`: an orphan may
be left).

Abstractions: a statement reads and writes at one point in time (PostgreSQL's
statement snapshot is taken at its start); `now()` orders sessions as their
INSERTs commit; password checks and JWT signing are abstracted; only tokens that
some reply handed out are presented.

`TokenLedger` is the same service as the holder of a refresh token sees it: a token
is asked for, handed out, usable, and dead for good. It knows no tables and no
requests. `Sessions` implements it (`Implements`): a token is new until a reply has
handed it out, usable while `RefreshToken` would find its row and find it valid, and
dead from then on (`ClientView`). Statements before the reply, and rows of tokens
that no client has, are stuttering steps. The ledger lets two requests exchange one
token, because the code does; it makes the exchanged token useless by the time of
the reply only if `Rotates`, which `Sessions` gives the value `MaxFaults <= 1`: with
two faults both DELETEs of the token can fail.

### AccessTokens

One action is one critical section of the cache's mutex, one Redis command, or
the JWT check; `req` holds what a request goroutine is about to do. Time is
discrete. `Get`'s delete of an expired entry is an action of its own
(`CacheDelete`), because the code takes the write lock separately. `MaxLag`, the
longest time a request takes from its arrival to the end of the middleware or of
the logout, is an assumption: the code does not bound it, and the bounds proved
are stated in terms of it. The TTL of a blacklist entry is the rest of the
token's life, so the entry is `t \in blacklist /\ now < exp[t]`.

### LoginLockout

The two keys of one e-mail address (keys of different addresses never meet), one
action per Redis command. A TTL counts down with `Tick`; a key whose TTL reaches
zero is gone; `INCR` on an absent key creates it without a TTL, as Redis does.
An `INCR` that reports an error may have counted or not; the handler goes on with 0
either way.
`excused` records that a fault, or a login with the right password that cleared a
lockout set by others, may have left a full counter without a lockout. `LockoutFollows`
says nothing then; `GuessBound` goes on: a fault between count and lockout gives the
concurrent logins one more guess each, and the next counted failure locks.

### RateLimiter

One client key: `Get` is the GET and the decision taken on it, `IncrExpire` the
MULTI transaction, which Redis may or may not have run when it reports an error.
`LimiterTick` is Redis's expiry. `recent` records the increments of the last
`Duration` ticks.
Nothing is assumed of how long a request takes between the two.

### Throttle

One key of the map `clients`. `entry` is the bucket in the map and `using[h]` the
one a request has loaded, which need not be the same: the cleanup goroutine decides
to delete (`FindIdle`) and deletes (`Delete`) in two steps, and looks at nothing but
`lastSeen` in the first.

| Code | Actions |
|---|---|
| `getLimiter` | `LoadOrStore` (atomic in `sync.Map`), `Touch` (the unsynchronised store of `lastSeen`) |
| `Throttle` | `Allow` |
| `init` | `FindIdle`, `Delete` |

The time stored in `lastSeen` was read up to `MaxLag` seconds before, so a slow
request can set it back; on the platforms Go supports with 64-bit words a racing read
sees some value that was stored. The goroutine wakes up once a minute in the code and
at any time in the model. `x/time/rate` fills a bucket continuously and the model
once a second. `watch` is history: a period that may begin at any moment, the requests
that have passed in it, and whether the cleanup has deleted the bucket in it.

### TaskPool and WorkerPool

`TaskPool` says what a worker pool promises: a set of waiting and a set of running
tasks, both bounded, and nothing running after it has stopped. `WorkerPool` is
`worker.go` at the grain of channel operations: the buffered channel, the `select`
of each worker (which parks when neither channel is ready and picks at random
when both are), the direct hand-over of a send to a parked worker, `close(closed)`
and `wg.Wait()`. `Abstract` in `WorkerPool` is the refinement mapping: waiting are
the tasks in the buffer, running those a worker holds, and the pool has stopped
when `Shutdown` has returned.

### AuditTrail

`AuditTrail` extends `WorkerPool` by what feeds it and by what ends it: the requests,
whose audit records are the tasks, the INSERTs that the workers run, and `main`. A
task is a connection of the server, which can bring one request after another; when
its handler has returned, `Log` submits the record. The pool's own steps are those of
`WorkerPool`, so that what is proved of it holds here.

| Code | Actions |
|---|---|
| `net/http`: accept, read, hang up | `Arrive`, `Handle`, `HangUp` |
| a handler that panics | `Panic` (`ActivityLogger` defers nothing and the router has no `gin.Recovery`: the request ends without a record) |
| `ActivityLogger` after `c.Next()` | `Log` (`Submit`, and the reply ends) |
| the submitted function: `db.Exec` | `Acquire` (a connection of pgxpool), `Store` (PostgreSQL commits), `Return` |
| the pool | `PoolStep` |
| `main` after `<-quit` | `Signal`, `Drained` (`srv.Shutdown` is done), `Exited` (the deferred `db.Close()`), `TimeOut` (`logger.Fatal`), `Crash` |

A record is `"pending"` from its submission until it is stored, has failed or is
dropped by a full buffer. `main` never shuts the pool down: it closes the database,
which waits for the connections in use and refuses new ones. Nobody calls the pool's
`Shutdown` at all; it stays a step that may happen, so that nothing shown rests on
its absence. The limit of 30 s is written into `main`, although `README.md:55` of the
repository calls the timeout configurable. The INSERT runs with
`context.Background()`, so nothing bounds the wait of `db.Close()` but the database.

### LoadTest

The client runs four scenarios one after another (`stage`), each with its workers, its
WaitGroup and its metrics. What a worker does is a table of its requests: at a
request, after an answer, the answer is recorded or not and the worker goes on at
`next` (`WarmupSteps`, `HealthSteps`, `MixedSteps`, `AdminSteps`, one for each worker
function). `Answer` takes such a step, `Check` is the test at the head of a loop,
`Deadline` the moment a worker's time is up; `Spawn`, `Stop` and `Snapshot` are
`runScenario` and `warmup`. The server may answer anything at any time, or nothing
(`"error"`, the client's timeout). What is recorded is abstracted to how often.

### MigrationLog and Startup

`Startup` is what every instance does before it serves, with any number of
instances on one database: `RunMigrations`, then `SeedDefaultAdmin`. One action is
one SQL statement outside a transaction, the DDL of a migration, or a commit.

| Code | Actions |
|---|---|
| `createMigrationsTable`, `getAppliedMigrations` | `CreateTable`, `ReadApplied` |
| the loop of `RunMigrations` | `Exec` (BEGIN and the DDL), `Record` (the version and COMMIT) |
| `SeedDefaultAdmin` | `FindAdmin`, `FindRole`, `CreateRole`, `CreateUser`, `AssignRole` |
| `seedPermissions` | `CreatePerm`, once for each permission; `Assign` and `Commit` for the transaction of `AssignPermissions` |
| `main` | `Start`, `Fatal`, `Serve`, `Stop`; `Crash` is a kill |

What `ReadApplied` reads can be less than the table holds: `rows.Err()` is not
looked at, so a result that breaks off counts as complete. A DDL that creates the
same objects as an open transaction waits for it on the keys of the catalogue
(`Holds`), and goes on or fails when that one has ended. `AssignPermissions` runs at
READ COMMITTED, so its DELETE does not see the rows of a transaction that has not
committed. An error ends the process in `RunMigrations` (`Fatal`) and only the seed
in `SeedDefaultAdmin`. The history flags `first` (of an instance: it found nothing
seeded, and nothing has disturbed it since) and `seeded` (such a seed has ended) say
when `FirstSeedLasts` promises something. `lost` and `lostRole` record what an error or
a kill has kept from the admin, or another run's AssignPermissions has deleted, and
`Carried` is what a run in progress still has to assign: `AccessAccounted` says that
nothing else can be missing.

`MigrationLog` is what the migrations promise: a log that grows by one file, in order.
`Startup` implements it with `versions` as the log.

### Assignments and Rbac

`Rbac` is the admin API behind `RequirePermission`. A link `<<owner, member>>` is a
row of `user_roles` or `role_permissions`; the two tables have the same shape, and
`SetRoles` and `AssignPermissions` treat them alike except for `ON CONFLICT`. A
request that has passed the check is at `"handler"`, and what it asks for shows with
its first statement.

| Code | Actions |
|---|---|
| `RequirePermission` | `RequirePermission` (with `CanManage`, the join) |
| `SetRoles`, `AssignPermissions` | `Begin` (BEGIN, and the DELETE's snapshot), `DeleteRows`, `Insert`, `Commit` |
| `DeleteRole`, `DeletePermission` | `Delete`, `LockRow`, `Cascade` |
| `CreateUser` | `CreateUser`, `AssignRole`, `Answer` |
| `CreateRole`, `CreatePermission` | `CreateRow` |
| `UpdatePermission`, `UpdateRole` | `FindRow`, `FindRole`, then `UpdateRow` |
| any error, list or get | `Abort` |

PostgreSQL at READ COMMITTED is modelled by what a statement sees and what it waits
for (`Waits`). A DELETE takes the rows its snapshot shows, after waiting for open
transactions that have deleted one; rows inserted later stay. An INSERT waits for an
open transaction that has inserted or deleted the same row, or that removes a row it
refers to; a removal waits for those that have inserted references. A DELETE of
several rows takes them together: taken one by one it could only wait longer, or be
aborted in a deadlock. Any request can fail at any time (`Abort`), which includes
PostgreSQL's choice among transactions that wait for each other. Ids are not used
again, a request may name any id that exists or existed, and the columns of a
permission are abstracted to whether they are `manage` and `admin`.

`Assignments` is what this promises: a replacement takes effect at once, at its
commit, and leaves what was asked for except for links that others have written or
removed since it began; a failing one changes nothing; a role or permission goes
together with its links. `Rbac` implements it with its open replacements as
`pending`; `asked` and `touched` are history that the mapping needs.

What it does not promise is that the last of two overlapping `SetRoles` wins. Both
are answered with 200, and the user keeps the roles of both, although `README.md:143`
of the repository says the endpoint replaces them.

### Module structure

`MC<Module>` instantiates a module for TLC (model values, symmetry);
`<Module>Proofs` holds its theorems (`CounterProofs` those of `LoginLockout` and of
`RateLimiter`, the two counters in Redis, whose definitions have distinct names for it). Operators with *Mutant* in their comment are
deliberately wrong variants of the definition that follows them, kept to show
that each property notices such a slip.

## 3. What TLC checks

| Run | Instance | Question |
|---|---|---|
| `Sessions` | 2 users, one not yet registered, 2 handlers, 3 tokens, limit 1, 1 fault | session limit, orphaned tokens, rotation with failed statements and crashes; only rows of the acting user are deleted; the reply of a request that nobody overlaps is usable; refinement of `TokenLedger` |
| `AccessTokens` | 2 tokens issued at time 0, 2 handlers, cache of 1, 1 fault, clock to 7 | how stale an acceptance can be; a dead token stays dead; the cache's size bound |
| `LoginLockout` | 2 handlers, threshold 3, window 2, 1 fault | lockout follows the counter; guesses past the threshold, with and without faults; a lockout ends (liveness) |
| `RateLimiter` | 3 handlers, limit 3, window 4, 2 faults | requests per window; no counter that never expires; a block ends (liveness) |
| `Throttle` | 2 handlers, 3 buckets, burst 2, rate 1, idle limit 3, lag 1 | requests that pass in any period, with buckets deleted while in use |
| `AuditTrail` | 2 workers, buffer of 1, 4 connections | no lost wake-up, refinement of `TaskPool`; no record lost in a living process and few at its end; no handler without a database; records are settled, the pool's Shutdown returns, a signal ends the process (liveness) |
| `Startup` | 2 instances, 3 files, 3 permissions, 2 faults, 2 kills | schema and record move together, in order; whatever the admin lacks has a named cause; a first seed lasts; refinement of `MigrationLog`; every start ends (liveness) |
| `Rbac` | 2 requests, 2 users, 2 roles, 1 permission, lists of up to 2 | atomic replacements, refinement of `Assignments`; nothing waits for a lock left behind; access to the admin API goes only by a request that takes it; lost updates only by overlap |
| `LoadTest` | 2 workers in each scenario, counts to 2 | summaries are final; how far a worker overruns its time; the load test ends (liveness) |

Two handlers suffice for every pairwise race, and every race of the code is
between two requests (a token, a counter or a cache entry is the only thing they
share). With a limit of one, three tokens let two logins exceed it together and let
a rotation race with a login. Clocks run to the sum of the times involved and
beyond: in `AccessTokens` to 7, with a life of 4, a cache TTL of 1, a leeway of 1
and a lag of 1. In `Throttle` three buckets are one for the map and one for
each request; the idle limit exceeds the lag by two ticks, so a period can hold a
deletion with traffic on both sides. In `Startup` three files and three permissions give a loop a first,
a middle and a last turn, and two kills let both instances die once, or one die
twice. In `AuditTrail` the four connections are one more than the pool has places
(`BufferSize` and one for each worker), so records are dropped and the bound of
`ExitLoss` is met. In `LoadTest` both bounds of `OverrunBound` that are above one are
met, and the counts need to tell only a summary from what follows it. The bounds are constants: the number of tokens, `LastIssue` (the last time at
which a token is issued), `MaxFaults`, `MaxCrashes`, `MaxTime`, `MaxCount` (counters
saturate there).

The types are checked by TLC where a type says something of its own (`AuditTrail`, and
`LoadTest`, where a negative WaitGroup would be a panic); for the other modules they
are proved.

Deadlock is not checked in the `Sessions` runs, where the model runs out of
tokens, in `Rbac`, where nobody may be left who can use the API, and in `AuditTrail`
and `LoadTest`, where a process ends.

One run each of `Sessions`, `AccessTokens` and `Startup`
checks what a document, a comment or a test says and the code does not do; TLC's counterexample is
the finding listed in `PROJECT.json`:

* `Sessions_logout`: a refresh that overlaps a logout leaves a live session.
* `AccessTokens_logout`: a cached token is accepted after its logout.
* `Startup_full_access`: the first start dies between the INSERT of the admin and that
  of its role (`admin_service.go:95`, `:101`); every later start finds the admin and
  skips the seed, and the admin has no role. A start that dies after it has created
  permissions and before it assigns them (`:145`) leads there by a longer way: the next
  one skips them as existing (`:139`) and creates an admin who never gets them.

More divergences need no run of their own. The window of the rate limiter does not
slide, although `README.md:48` of the repository says so: every counted request renews
the TTL of one counter (`rate_limiter.go:30`), which adds up until the client has been
silent for a window, so that a client that stays below the limit in every window is
answered 429 in the end. A counter of failed logins whose EXPIRE was lost
(`auth_service.go:99`) stays until the next failure or success, however long. Not only
a death takes permissions from the first admin: an INSERT that fails for any reason
counts as "may already exist" (`admin_service.go:137`), and of two seeds that overlap,
the later DELETE of AssignPermissions can remove what the other has granted
(`role_repo.go:100`); `AccessAccounted` lists these causes. `UpdatePermission`
writes back every column it has read (`admin_service.go:402`, `:418`), so of two updates
of different columns one can be undone; `OnlyAskedFor` says that only overlap does that. The load-test client
answers Ctrl+C with "Interrupted, printing results..." (`cmd/loadtest/main.go:542`) and
goes on as before. It counts every login that is not answered 200 as failed
(`:325`), and a request that is refused with 429 as a success (`:42`); where a
token is not given, the response is never closed (`:411`). `Register` passes an empty string as the
client's address, which `$4::inet` rejects (`auth_service.go:57`, `:164`): it
creates the user and then answers 409, although `tests/integration/load_test.go:224`
expects 201 (a mixed worker of the load test does not mind: its next login succeeds); in `Sessions` no registration gets past `InsertToken`. Two refreshes with one token can both pass
the SELECT before either DELETE, and both are answered with a new pair
(`auth_service.go:112`, `:124`); `RotationRevokes` says that the old token is gone
all the same. The orphan clean-up of one login or refresh can
delete the refresh token that an overlapping one of the same user has stored but not
yet given a session (`auth_service.go:209` between `:163` and `:177`), so a 200 reply
can carry a dead refresh token; `AloneReplyUsable` shows that only overlap, or a
fault, does that. And a refresh deletes the old refresh token but never blacklists
the old access token, although `README.md:42` of the repository says the old pair is
revoked: no code path of `RefreshToken` writes to the blacklist.

### Fairness

* `LoginLockout` and `RateLimiter`: weak fairness of the clock (time passes;
  in `LoginLockout` it stops while a request has reached `MaxLag`) and of the next
  command of each request that has arrived: a goroutine runs on, and go-redis times
  out a command that gets no answer, which is a `Fault`. Nothing is assumed of
  arrivals, of passwords being right, or of crashes.
* `AuditTrail`: weak fairness of each worker's loop, which includes that
  `db.Exec` returns (the audit INSERT has no timeout of its own, so this is an
  assumption on the database and its driver), of `wg.Wait`, of the timer of
  `srv.Shutdown` and of the end of `db.Close()`; strong fairness of `Exit`,
  because a `select` with several ready cases picks one uniformly at random, so a
  worker does not choose the task channel for ever. Nothing is assumed of clients,
  handlers, signals and crashes.
* `LoadTest`: weak fairness of everything: goroutines run on, time passes, and
  `http.Client.Timeout` ends every request, the reading of its body included.
* `Startup`: weak fairness of the next statement of each process that has been
  started. Nothing is assumed of starts and restarts, and nothing of kills: a process
  that waits for another's transaction goes on when that one commits or dies.

## 4. What is proved

`SessionsProofs` proves, for any sets of users, tokens and handlers, any limit
and any number of faults:

* `SpecWellFormed`: the inductive invariant `WellFormed`: the types, every row
  of either table has an owner (`RowsOwned`), and a request in progress carries
  an owned new token, an owned old one, and the user they belong to (`HandlerOK`).
  Without it, an `Evict` or `Cleanup` could not be tied to the rows it deletes.
* `SpecTypeOK`, `SpecSessionLimit`, `SpecOrphansAccounted`, `SpecOnlyOwnRows`.
  For the session limit the step that matters is that an INSERT adds one row and
  one evicting handler, and that an `Evict` leaves at most `MaxSessions` rows.
* `SpecLineages`: a token that a handler is about to hand out is known to no other
  handler and to no client, and its parent is a token that some reply handed out
  (`Lineage`, `Lineages`). Neither of the next two is inductive without it: only it
  says that the rows of another request are not those of this one.
* `SpecRotationRevokes`, by the invariant `Rotated`. A token that is being exchanged
  can only still be stored after its DELETE if that was the one fault (`Rotating`);
  then the other DELETE has taken its session, so that it is an orphan, and the
  clean-up that precedes the reply takes it. No request can give a granted token a
  session again, which is why the state lasts (`RotatingStays`).
* `SpecAloneReplyUsable`, by the invariant `Settled`. While a request is alone, no
  other handler acts for its user, and statements of other users leave its rows
  alone (`StatementIsolated`), so what it has stored is there (`Undisturbed`). Its
  own `Evict` keeps its session because every stored stamp is below the clock
  (`StampsPast`), so the new session is the newest (`NewestKept`); its own
  `Cleanup` keeps the token because it has that session.
* `SpecImplements`: `Sessions` implements `TokenLedger`. An arrival is an `Ask` or a
  stutter; a statement that deletes rows, and `Expire`, is a `Revoke` of one user's
  tokens (`StepRevokes`, with `StatementOwnRows`); the reply is the `HandOut`
  (`CleanupHandsOut`). `Lineages` is what the mapping needs: a granted token is the
  new token of no request, so no later INSERT brings it back (`GrantedNotInserted`).
  The promise about the exchanged token is `RotationRevokes` in the state after the
  reply.

`AccessTokensProofs` proves for any TTLs, cache size and number of requests:

* `SpecInv`: the inductive invariant: types; only issued tokens are presented,
  cached or blacklisted; a request is at most `MaxLag` old (`Timely`); a cache
  entry was made by a request that verified the token, so its end is bounded by
  `exp` plus the slack (`EntriesBounded`) and, once the token is revoked, by the
  revocation plus the slack (`RevokedBounded`).
* `SpecStaleBound`, `SpecExpiryBound`, `SpecDeadStaysDead`, `SpecCacheBounded`
  and `SpecTypeOK` follow from it.

`CounterProofs` proves two counters of Redis, each for itself. Of `LoginLockout` it proves, for any threshold, window, lag, number of concurrent
requests and number of faults, `SpecTypeOK`, `SpecLockoutFollows` and
`SpecGuessBound`. For the first property the invariant relates the two TTLs
(`HasTTL`, `Follows`): the counter outlives the lockout by `MaxLag` at most, and a
request that can still renew the counter is older than the lockout. For the second
(`Bounded`), a guess past the threshold belongs to a request on its way to the
lockout or to one that a fault has kept from setting it (`Forgiven`), and once the
account is locked only requests that have passed the check guess.
Of `RateLimiter`, which shares no variable or constant with it, it proves, for any
limit, window, number of concurrent requests and number of faults, `LimiterSpecInv`
(a request that has read a counter below the limit adds one to it, `CountBounded`;
the counted requests of the last window have distinct counter values and the last
one set the TTL, `RecentCounted`), and from it `LimiterSpecTypeOK`, `LimiterSpecWindowBound` and `LimiterSpecSilentClientPasses`.

`ThrottleProofs` proves, for any burst, rate, idle limit and number of requests,
`SpecTypeOK` and `SpecPassBound`. The invariant is an account (`Account`): what has
passed, what the bucket in the map still holds, and one for each request with a
removed bucket never exceed the allowance. A deletion adds a full bucket and makes
every request a stray, and `EntryOK` says that it happens once in a period: an entry
made after it cannot be idle long enough.

`WorkerPoolProofs` proves, for any workers, tasks and buffer size, `SpecInv`
(types, `NoLostWakeup`, `OnePlace`: no task is run twice, or runs and waits, and that a worker holds a task exactly while
it runs one), and `SpecImplements`: every behaviour of `WorkerPool` is one of
`TaskPool` under the mapping `Abstract`. The bound on running tasks comes from an
injection of the tasks held into the workers other than the one that takes a task.
Every step of `AuditTrail` is a step of the pool or leaves it alone (`AuditUsesPool`),
so all of this carries over (`AuditNoLostWakeup`, `AuditImplements`). On the pool's invariant rest
those of the records: what is pending is in the pool, and what waits there is pending and
not run (`AuditAccounted`), from which `AuditExitLoss` counts what an exit loses by an
injection into the buffer's places and the workers, and `AuditDropsAreBacklog` the
records that wait in a full buffer, without those that workers run; `AuditHandlersHaveDb` needs only `main` and the requests.

`StartupProofs` proves, for any number of instances, files, permissions, faults and
kills, that the migrations implement `MigrationLog` (`SpecImplements`), and
`SpecTypeOK`, `SpecSchemaRecorded`, `SpecAccessAccounted` and `SpecFirstSeedLasts`.
The invariant has three parts. `MigrationInv`: the applied files are a prefix of all
files, and a file that the loop of an instance has left behind is applied, so
the least one that is left is the next of the prefix or is applied already. `AccessInv`:
`AccessAccounted`, and how far each seed has brought the database (`AccessOK`): what it
has left behind is there or recorded as lost. `FirstInv`: what an undisturbed first
seed finds at each step, and that no instance is in the seed once one has ended.

`RbacProofs` proves, for any number of requests, users, roles and permissions and
for lists of any length, that `Rbac` implements `Assignments` (`SpecImplements`),
and `SpecTypeOK`, `SpecWaitsForRunning`, `SpecAccessTakenOnPurpose` and
`SpecOnlyAskedFor`. The invariant says
what a transaction holds at each point (`HoldsOK`), that the rows it has deleted or
is about to are still there for the others and the ends of those it has inserted
stay (`RowsOK`), and that no row is deleted by two transactions (`Apart`). On this
rests the link to `Assignments`: every row of the owner is on its way out or was
written by others, and every row asked for is inserted, still to be, or touched by
others (`ReplaceOK`); a removal takes all links of its row (`RemoveOK`), because a
transaction that would insert one waits for it and it waits for those that have. For
`SpecAccessTakenOnPurpose` it matters that what a replacement deletes and was asked for
is inserted again before its commit, by itself (`ReplaceOK`, last part), and that every
link has both its ends (`Linked`), so that a row can only go with its links, in one
step that ends a removal. For
`SpecOnlyAskedFor` a second invariant (`Kept`) says that what an update has read and
will write back is still what the row holds, unless another update came in between:
ids are not used again, and nothing else writes columns.

`LoadTestProofs` proves, for any number of workers, `SpecInv` and from it
`SpecTypeOK`, `SpecSummaryIsFinal` and `SpecOverrunBound`. The invariant `Inv` has
three parts. The WaitGroup is the number of workers that run (`Alive`), and these are
workers of the scenario that `main` is at (`AliveHere`), because those of the
scenarios before have returned and those of the later ones have not started
(`Staged`); so `Wait` returns when all workers of the scenario have. At each place of
its function a worker whose time is up has got at most as many answers since as the
table `Spent` says (`WorkerOK`): the lemma `StepsSpend` shows that no row of the four
tables of steps leads to a place that allows fewer than one more, and in the loop of
`adminWorker` for a token, where time is not looked at, no worker is late.

The assumptions are those the modules name: sets of tokens, handlers and workers are
finite, the null values are not members of them, the limits are positive (the
configuration falls back to a positive default for the session limit), and
there is at least one user, role and permission (the seed's).

Every invariant, action property and refinement that a passing run checks is proved. Only
model-checked are the liveness properties (`LockoutEnds`, `LimitEnds`, `RecordsSettle`,
`ShutdownReturns`, `DrainEnds`, `StartEnds`, `LoadTestEnds`), which are out of the
prover's reach, and the three violations of section 3.

## 5. What is not modelled, and the plan

Left out for good: file storage (created and never used), the logger's files, the
configuration, stateless middleware, the websocket
placeholder and the incident module (one statement per request). Parts of modelled
components that nothing calls (`TokenCache.Delete`, `UpdateLastAccessed`,
`FindOldest`, ...) have no action. Two listed hazards have no property. `Register` fails
after it has created the user (section 3), and neither the code nor a document of the
repository says what should hold then. And a request acts on a permission that its
user may have lost since `RequirePermission` looked (`rbac.go:24`): the code neither
rechecks it nor bounds the time, and `Rbac` models just that.
