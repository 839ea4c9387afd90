# Formal models of the FastAPI service

TLA+ modules kept beside `src/`, the TLC instances that check them and the
theorems TLAPS proves about them. `PROJECT.json` lists components, runs,
mutants, hazards and the source lines every definition stands for.

## 1. The system

A FastAPI application (JSON API, `/admin` screens, static checks) with MySQL
behind SQLAlchemy (a writer, read replicas, a pool of its own for background
work), Redis for everything that expires, and Celery workers.

| component | source | state | operations |
|---|---|---|---|
| login sessions | `core/security/refresh_store.py`, `auth_service.py` | Redis: `auth:rt:{jti}`, `auth:user:{sub}:fams`, `auth:fam:{fam}:revoked`, each with a TTL | login, rotate (`GETDEL`), logout, revoke a family, revoke a user |
| account changes | `user_service.py`, `user/admin.py`, `scripts/create_superuser.py` | `users` row | update, delete, promote, set password; each decides with `revocation_for` whether sessions end, and revokes before its commit |
| resource manager | `core/resources.py` | list of resources, deadline | register, acquire, close |
| lifespan | `resources.py`, `background_tasks.py`, `session.py` | tracked tasks, `_closed`, engines, Redis client | spawn, drain, dispose_engine, close_redis, stop_queue_listener |
| admin sessions | `core/security/admin_session.py`, `admin_auth.py` | Redis: `admin:sess:{hmac}`, `admin:user_sessions:{uid}` | load, save, touch, delete, revoke_user; login, authenticate, logout, CSRF check |
| rate limiter | `core/security/rate_limiter.py` | Redis counters with a window | hit, reset |
| database router | `core/db/router.py`, `session.py` | flags in `session.info`, round-robin cursor | get_bind, retry on the primary, read-only enforcement |
| access log | `user_info_middleware.py`, `client_ip.py`, sink and repository in `features/home` | rows | collect, spawn, save |
| retention | `access_log_retention_service.py`, `home/tasks.py` | rows | purge in batches |
| Celery worker | `celery/worker_lifecycle.py`, `celery/task.py` | pools, loop | fork, run_async, shutdown |
| queue logging | `utils/logs/queue_logging.py`, `setup.py` | bounded queue, listener | enqueue, start, reconfigure, restart after fork, stop |
| app registry, configuration | `core/registry.py`, `main.py`, `config.py` | discovered apps, operations | discovery and wiring of hooks, models, routers, admin, tasks; validation of the settings |
| access policy | `core/security/access.py`, `dependencies.py` | declarations per operation | the guard at startup, the dependencies of a request, ownership |
| repositories, content features, error responses | `core/repositories/`, `features/*`, `core/exception.py` | rows | create, update, delete, list; error translation |
| migrations | `migrations/` | tables, columns, `alembic_version` | upgrade and downgrade over six revisions |

**How they interact.** Handlers own the transaction: services change rows and
Redis, the handler commits last. An account change revokes the refresh families
and the admin sessions of its user in Redis *before* it commits, so that a
Redis failure stops the commit (fail-closed). Every response spawns an access
log task on the background runner; the lifespan registers the log queue, the
engines, Redis and the runner with the resource manager and closes them in the
reverse order. A process (web server, Celery worker, migration) first loads the
settings, then asks the registry for the feature apps and wires those of their
parts it needs; the guard looks at the operations once all are mounted.

**What is hard.** Redis and the database are two stores without a common
transaction, each command is a step of its own, and any number of requests
interleave between any two steps; a request may die after each; keys expire.
Shutdown composes four components under nested timeouts. Forked workers
inherit state. Per component, what makes it correct:

* *login sessions*: one live token per family; a revoked family ends; every
  live token can be found by a revocation; no token for an account that may no
  longer have one.
* *account changes*: sessions end before the change commits; a change is not lost.
* *resource manager, lifespan*: everything registered is tried; the end comes
  in bounded time; tasks are gone before the engines they use.
* *admin sessions*: a deleted session is not brought back; absolute expiry; the
  index covers every session that can act.
* *rate limiter*: at most `limit` per window, counted for the right client, and
  every counter expires.
* *router*: no read from a replica after a write; no write in a read-only session.
* *access log, retention*: exactly the expired rows go, also across a failure
  between batches and beside another purge; a purge ends.
* *worker, queue logging*: what is logged is written in order and once, or
  counted as dropped; a child uses nothing its parent uses.
* *registry, access policy*: nothing that is there is left out; no operation is
  served that does not say who may call it.
* *repositories, content features*: content is changed only by who may, and only
  as asked; the answer is what has happened.
* *migrations*: the tables are what the version says, whatever runs went before.

## 2. Plan

| order | module | what | state |
|---|---|---|---|
| 1 | `RefreshTokens` | login sessions with the account changes that end them | done, proved |
| 2 | `ResourceManager` | the generic close under one deadline | done, proved |
| 3 | `Shutdown` (composes 2) | the lifespan: drain, engines, Redis, log queue | done, proved to implement 2 |
| 4 | `SessionBook`, `AdminSessions` | what the admin sessions promise; the middleware and store, login and revocation | done, proved to implement the first |
| 5 | `DatabaseRouter` | `get_bind`, failover, read-only sessions over lagging replicas | done, proved |
| 6 | `LoginThrottle` | `RateLimiter`, the client's address, login and registration attempts | done, proved |
| 7 | `AccessLog` | rows from the response to the table, the purge in batches, pages | done, proved |
| 8 | `BoundedLog`, `LogQueue`, `Worker` | what a log promises; the queue with its listener thread; the fork of a Celery worker that copies it, the pools and the loop | done, proved to implement the first |
| 9 | `Routes`, `AppAssembly` | the operations with their declarations, the settings, the registry, the guard | done, proved |
| 10 | `Migrations` | the six revisions statement by statement | done, proved |
| 11 | `Application` (composes 9, 10) | the requests of an assembled application: who may call, transactions, errors, answers | done, proved |

The runs are kept few, each under a few minutes, and ask each component its own
questions; where a property is proved for every value of the constants, the run
shows it on an instance where its cases happen. Type invariants are proved, not
run.

Worth having next: a book like `SessionBook` above `RefreshTokens`; two
`alembic` runs at once.

## 3. Modules and code

### RefreshTokens

One action per Redis command, `MULTI` block or database statement. `pc[r]` and
`op[r]` say where request `r` is.

| code | actions |
|---|---|
| `login`, `verify_credentials`, `issue_tokens` | `LoginBegin`, (`Flush` for the re-hash), `Issue`, `LoginCommit` |
| `refresh`, `AuthService.rotate` | `Consume`, `Check`, `Load`, `Issue` or `RevokeFamily` |
| `logout` | `Logout` |
| `update_user`, the admin form (`deactivate`, `activate`, `promote`, `demote`) and the admin deletion (`remove`) | `ChangeBegin`, `Members`, `MarkAll`, `Flush`, `CommitChange` |
| `delete_user` (`delete`), `create_superuser --set-password` (`password`) | `ChangeBegin`, `Flush`, `Members`, `MarkAll`, `CommitChange` |
| any error, disconnect or killed worker | `Abort` |
| expiry of Redis keys and of the JWT | `Tick` |

A password is a version number, the old hash format a flag. `Merge` is the
unit of work of the ORM: only the columns that differ from the value read are
written. A row lock (`lock`) is held from the flush to the end of the
transaction. `Leeway` is `JWT_LEEWAY_SECONDS`: `decode` accepts a token that
long after its Redis key is gone. `raced`, `late`, `old` and `stale` are
history variables; nothing in the code reads them.

`raced` delimits what the code promises: a family registered while a
revocation of its user has read the index and not committed, or registered
after its own marker. Those families are what the two `violation` runs show,
and every invariant excepts exactly them.

### ResourceManager and Shutdown

`ResourceManager` leaves open what a cleanup does. `Shutdown` extends it and
conjoins the steps of the components with its actions: `DrainBegins` is
`BeginCleanup` of resource 4 together with the first part of `drain`. Time
counts in seconds, a timer that is due fires before time passes
(`asyncio.timeout` and the loop). When the timeout of `close` and the one of
`drain` fall due in the same instant, the first cancels `drain` inside
`asyncio.wait`, whichever callback runs first; `DrainCancels` therefore asks
for `now < due`. `Blocking` resources (the log queue, whose `stop` joins a
thread) cannot be cut off by a timeout. `ImplementsManager` says that the whole,
seen through the variables of `ResourceManager`, is one of its behaviours; what
is proved of `ResourceManager` holds of `Shutdown` through it.

### AdminSessions

One action per Redis command or `MULTI` block. A request runs through the
middleware (`Load`, the handler, then the write at the start of the response);
the handler only changes what is in its session (`out`) and whether it wants a
new id (`rotate`).

| code | actions |
|---|---|
| `RedisSessionMiddleware.__call__`, `load` | `Load`, `DropExpired` |
| login form, `login`, `logout`, `authenticate`, `AdminCsrfMiddleware` | `Form`, `LogIn`, `LogOut`, `Authenticate`, `Refuse` |
| a demotion in the account form of `/admin` | `Edit`, `Members`, `Sweep`, `Commit` or `EditFails`, then the response |
| the same from the API or `create_superuser`; a new superuser | `ChangeBegin`, `Members`, `Sweep`, `Commit` |
| `_commit`: `delete`, `touch`, `save` | `Clear`, `Touch`, `Replace`, then `SaveNew`, `SaveOver` or `SaveExpired`, then `Index` |
| errors, disconnects, killed workers; time | `Abort`, `Tick` |

A session id stands for its Redis key (the HMAC is a function of it), TTLs
count in ticks. `Left` is what `_ttl` computes of the absolute lifetime: whole
seconds, rounded down, so a tick less is possible; that also covers the time
between the computing of a TTL and the command that sets it, which `SaveNew`
does in one step. A response may have changed
what else a session holds (sqladmin's messages): that is why `Replace` is
enabled also where the user is the same. `raced` and `old` are history;
`raced` holds the ids indexed while a revocation was between its `SMEMBERS` and
its `DEL`, the same gap as in `refresh_revoke_gap`: such an id escapes the
revocation and `UsableIndexed` excepts exactly it.

`SessionBook` is what all this promises, without Redis: sessions that are live
or not, ids that browsers have been given, and changes under way with the
sessions they have `due` to end. Its steps are whole: `Open`, `Give`, `End`,
`Revoke`, then `Settle` or `Fail`, `Grant`. A session may be `missed` only by a
`Give` while a change of its user is under way; `Settle` has to find every
session due ended or missed. `AdminSessions` maps its state to it (`LiveIds`,
`Whom`, `Due`; `raced` is `missed`): `SaveNew` is `Open`, the cookie of `Index`
`Give`, the commit `Settle` or `Grant`, an error `Fail`; deletes, sweeps,
touches and time are `End`, all else is invisible. A demotion takes effect in
`Settle`, so at that moment the user has none left of the sessions that
browsers had when it began, except the missed.

### DatabaseRouter

`Open` is one of the three dependencies; each statement is one action, because
`get_bind` and the execution that follows do not yield to the same session.
`BindRead` and `BindWrite` are the two halves of `get_bind`. The row is one
version number and MySQL is external: `snap` (a transaction reads each server
from a snapshot), `lock`, `Replicate` (in order, late). `Select` may be
answered by the replica or, in a read-only session, fail with a connection
error at any time (`RetryOnPrimary`: rollback, pin, same statement). A statement
that is refused changes nothing, so refusal is the missing guard. `got` is what
the session has last read or committed. With `DB_ROUTER_ENABLED` off there is
one engine; both cases are initial states.

### LoginThrottle

| code | definitions |
|---|---|
| `ClientIPResolver.resolve` | `Resolve`, fed by `Forwarded` and `Peer` (external: what proxies make of the header) |
| `RateLimiter.hit` (one `MULTI`), its result, `reset` | `Hit`, `Allowed`, `RetryAfter`, `Reset` |
| `login_rate_limit`, then the login | `LoginIp`, `LoginUser`, `Verify`, `Reset` |
| `register_rate_limit` | `Register` |
| errors and disconnects; expiry of keys | `Abort`, `Tick` |

A key is a tuple and a window a number of seconds that `Tick` counts down. A
counter stops at its limit plus one, since `Allowed` sees no difference above.
`promise` (what a `Retry-After` said) and `recent` (logins let through) are
history. The `/admin` login has the same steps on keys of its own, and no
actions of its own.

### AccessLog

| code | definitions |
|---|---|
| `dispatch`, `_record`, `spawn` | `Answer` |
| `HomeAccessLogSink.save`, `_save_access_log` | `Insert`, `CommitRow`, `SaveFails` |
| `purge_expired` | `PurgeBegin` (the cutoff), `PurgeCommit`, `PurgeEnd` |
| `delete_created_before` | `PurgeSelect` (`Batches`), `PurgeDelete` |
| `background_db_session` | `PurgeFails` |
| `UserAccessLogAdmin.can_delete` in `/admin` | `AdminDelete` |
| `get_all`, `get_by_user_id`, `get_recent_logs` | `Listings`, `Page` |

A request and the id of its row are one number. `due` is the set of rows with
`created_at` before the cutoff of a purge: rows inserted later have a later
`created_at` and are never in it. The `SELECT` has no order, so a batch is any
`BatchSize` of the due rows that are committed; the `DELETE` waits for rows
another purge has deleted and not committed, and deletes nothing where they are
gone. `deleted` is the number of ids selected, not of rows met. An administrator
may delete rows of any age in `/admin` (`home/admin.py:155`), so `RetentionKept`
is about the steps of purges: the service's promise, not the table's.

### BoundedLog, LogQueue and Worker

`BoundedLog` is what file logging promises one process. `LogQueue` is the queue
of one process with its listener thread; `Pending` (the record the thread
holds, then the queue) is the refinement mapping. Of such a log follow `InOrder`
(what is written and what is pending are in the order of logging, nothing twice)
and `Accounted` (the rest was counted as dropped). `Worker` uses it twice: its
variables are those of the main process, `Child` is the copy a fork makes.

| code | actions |
|---|---|
| `BoundedQueueHandler.enqueue` | `Log` |
| `start_queue_listener`, `stop_queue_listener`, `configure_logging(force=True)` | `Start`, `StopCalled`, `StopReturns`, `Reconfigured` |
| `QueueListener._monitor` and `Queue.get` (Python's) | `Lock`, `Wait`, `Take`, `WriteOut` |
| `on_worker_process_init` | `RenewPool`, `ResetLoop`, `Restart`, `Announce` |
| `run_async` with the sessions of a task; what it logs | `RunTask`, `ChildLogs` |
| `on_worker_process_shutdown`; exit or death of a child | `ShutdownSignal`, `Exit` |

Of the standard library the mutex of the queue and the waiters of its condition
are kept, because a fork copies both: a waiter of the parent is `"dead"` in the
child and may swallow a notification, a mutex held at the fork is never freed.
While a process stops or reconfigures its log, its other threads log nothing
(`Log` waits for `calls` to be idle): what they would put behind the sentinel is
outside `StopFlushes`.

### Routes, AppAssembly, Migrations and Application

`Routes` lists every operation with what its declaration puts into its
dependency tree, and the guard as a function of a set of operations.
`AppAssembly` is one process being put together, a step per call of `main.py`,
`celery/app.py` or `env.py`. `shape[app][part]` is what lies in the tree: a part
is absent, right, does not import, or has one of the mistakes the registry looks
for (`Shapes`).

| code | definitions |
|---|---|
| building of the settings, `validate_env_source`, `validate_renamed_settings`, `validate_deployment_safety` | `SettingsAccepted`, `LoadSettings` |
| `AppRegistry.discover`, `install_hooks`, `import_models`, `install_routers`, `install_admin`, the task modules | `Discover`, `Wire` and one action each |
| `_add_health_and_docs`; `AccessPolicyGuard.verify` | `AddHealthAndDocs`; `Verify` with `Violations` |

`Migrations` has the six revisions as sequences of statements; `Execute` runs
the next one. A DDL statement of MySQL commits what was open (`saved`), an
`UPDATE` that moves the times does not. `Die` is a run that ends between two
statements, `CreateDbTables` a server in `DEBUG` started on the same database.

`Application` extends both: when the server is up, requests are served
(`Followed`), when the process is a migration, its commands run.

| code | actions |
|---|---|
| routing, a body that is no JSON, `get_current_principal`, `require_superuser`, `register_rate_limit`, the body | `Arrive` |
| services up to the statement: `get_by_username`, `get_by_id`, `ensure_can_modify` | `Load` |
| `create`, `update`, `delete` of the repository, `DBErrorTranslator` | `Flush` |
| the response model in the handler, over the refreshed row | `Validate` |
| `service.commit()` in the handler; its `return response` | `Commit`; `Respond` |
| errors, which roll back; a disconnect or a killed server, before the commit or behind it | `Ends`; `Cancel` |

`stored` and `accounts` are what is committed, `holds` the row or name a
transaction has written and locked. The answer is an error code; `Status` is
its HTTP status. Between the commit and the answer a request is `"saved"`: who is
cancelled there is `"gone"` with the row in the table and nobody told. Whether
`register_rate_limit` refuses is open in `Arrive`; its counter is in
`LoginThrottle`. `troubled` is history: the database or the response model has
failed this request.

## 4. Runs

| run | checks | shows |
|---|---|---|
| `refresh_chain` | `OneHolder`, `AtMostOneLateToken`, `MintsFollowTheRow` | a session stays one chain, ends after at most one late token, and mints only for the row as it is, against changes that revoke first |
| `refresh_password` | `LiveTokenTracked`, `OldSessionsEndedBeforeCommit`, `MintsFollowTheRow` | two sessions against the changes that write first |
| `refresh_revoke_gap`, `refresh_rehash` | one documented claim each | violated, see section 7 |
| `admin_sessions` | `AbsoluteLifetime`, `UsableIndexed`, `SessionsEndedBeforeCommit`, `DeadStaysDead`, `ImplementsBook` | the store implements `SessionBook`; no admin session outlives its limits, comes back, keeps its id through a login or escapes a revocation |
| `database_router` | `OneReplica`, `NoLostUpdate`, `ReadOnlyLeavesNoTrace`, `SessionMonotonic` | sessions over lagging replicas do not read backwards, lose an update or write when they may not |
| `shutdown` | `NothingForgotten`, `InTime`, `DrainedMeansQuiet`, `NoneRunsPastTheWait`, `ImplementsManager`, `ShutdownEnds` | the lifespan implements the resource manager, tries every cleanup in bounded time and ends; a drain that gets past its wait leaves no task running |
| `shutdown_stragglers` | `StragglersCancelled` | violated with the timeouts of the code |
| `login_throttle` | `RetryAfterHolds`, `AttemptsBounded`, `CountersEnd` | a client that writes its own headers gets two windows' worth of attempts in any window, and every lockout ends when it was said to |
| `access_log` | `PagesPartition`, `RetentionKept`, `PurgeComplete`, `PurgeEnds` | two purges beside new rows and an administrator's deletions: purges take only expired rows, success means all due rows are gone, a purge ends |
| `worker` | `MainLogKept`, `ChildLogKept`, `StopFlushes`, `ChildStandsAlone`, `MainLogFlows`, `ChildLagsByOne` | both queues implement `BoundedLog` across stop, reconfiguration and fork; every record is written in the end; the child uses nothing of its parent's |
| `application` | `NothingLeftOut`, `EveryOperationGuarded`, `AnswersAreTruthful`, `RegistrationsSettled`, `ChangesAreEntitled`, `SchemaFollowsVersion` | what starts is complete and guarded; content is changed by who may; answers are true; the schema is what its version says |

**Bounds.** Two requests are enough for every race of the properties, which
relate a request to one concurrent other (a second rotation, a revocation, a
change); one user, since every key and row is a single user's. One family with
three tokens gives two rotations in a row; two families with two tokens give a
login beside a session. `TTL = 2` puts an expiry of the index or marker strictly
between two registrations, `Leeway = 1` a token that decodes after its key is
gone. `MaxPw = 1` bounds the password changes. The kinds of change are split
over the runs by the order in which they write and revoke: `deactivate` and
`activate` in `refresh_chain`, `delete` and `password` in `refresh_password`.
`promote` and `demote` change another column in the steps of `activate` and
`deactivate`, `remove` deletes the row in those of `deactivate`; they are in the
instances of the two `violation` runs, and the theorems cover all.
In `admin_sessions` one user, two ids and two requests give a form session and the
login that replaces it beside a second browser or a revocation; `MaxAge = 3`
and `Idle = 2` let the idle TTL be cut off by the absolute lifetime. Two
sessions, two replicas and `MaxChanges = 2` in `database_router` give replicas
that lag behind each other by up to two changes; the round robin wraps. In
`shutdown` the budgets are those of the code in seconds against a `Deadline` of
6 that they exceed together; `MaxTasks = 2` with three tasks makes the runner
refuse, `DrainTimeouts = {2, 5}` are one that leaves `drain` time within its
budget and the default. In `login_throttle` limits of 1 and 2 are
passed by two logins at a time, windows of 2 and 3 s differ and can be met at
every second, two proxies make the address neither the first nor the last of
the list. In `access_log` three rows are more than one batch of two, the second
purge overlaps the first at every step, retentions 0 and 1 with ages up to 2
days have rows on both sides of the boundary and on it; one task at a time
orders the rows' inserts, whose interleaving no property is about.

`worker`: a queue of two and three records make it full with the sentinel still
to come; the child is forked at every state of the queue; both engines have a
connection of the parent in their pool, one task uses one of them; the shutdown
signal comes up to twice, as `worker_lifecycle.py` expects.

`application`: `AssemblyInit` lets at most one thing differ from the tree (a part
of an app, the declaration of an operation, a setting) in each process and
environment, since the registry stops at the first mistake. Requests are
followed in the production server of the tree as it is (`Followed`; staging is
assembled and refused alike and would only double the states), revisions
in one migration process (`Migrating`). Two requests, three principals (an
author, another user, a superuser), one row each of a post with an author, of a
reply from before authors were recorded and of a product, one free name, two
fields. Of the revisions every path up and down over all six is taken;
`MaxShift` ends a path on which runs that keep failing would move the times
again and again, and `harm` allows one death or the tables of a `DEBUG` server,
not both.

**Fairness.** `RefreshTokens` states none: its properties are about safety, and
a client may stop at any time. `ResourceManager` and `Shutdown` assume weak
fairness of the steps the event loop runs by itself (the next cleanup, a timer
that is due, the passing of time, the return of `close`). Nothing is assumed of
tasks, `aclose` or `dispose`: they may hang. The blocking `stop` is assumed to
return within `MaxBlock`; `drain` returns once its tasks are done, because the
loop wakes it. `CHECK_DEADLOCK FALSE` in the shutdown runs, in `worker` and in
`application`: a closed process has no further step, and requests are finite.

`LoginThrottle` assumes that time passes. `AccessLog` assumes weak fairness of
the next step of a purge that has begun (a worker runs its task) and strong
fairness of its `DELETE`, because InnoDB grants a row lock in the order of the
requests; requests, beat and failures owe nothing. `Worker` assumes that threads
that can run do, that a join returns when the thread has ended and that a child
goes on with its setup; nothing makes a process log, stop or exit.
`AdminSessions`, `DatabaseRouter` and `Application` state no fairness.

Symmetry is used over requests, families, tokens, session ids and database
sessions, never in a run with a liveness property.

## 5. Proofs

`RefreshTokensProofs` proves for any number of users, requests, families and
tokens and any TTL and leeway:

* `RefreshTyped`: `TypeOK`;
* `RefreshOneHolder`: `OneHolder`. Not inductive alone: `Shape` adds
  `TokenShape` (a token that is live in Redis or was handed out has been signed,
  for a user) and, for each request, `Sound`: a request under way has a user,
  its phase fits its operation, the family a rotation works for has some token,
  and a login about to commit holds an issued token. `Consume` kills the token
  before it lets the request hold the family, `Issue` gives it back when it registers the next.

and, on top of these, of revocation:

* `RefreshOneLateToken`: a second late token would need a second rotation
  beyond the check, which `OneHolder` excludes, or a live token left over;
* `RefreshTokenTracked`: `LiveTokenTracked`, by relating, for a sweep between
  its `SMEMBERS` and its commit, what it has read to what is registered.
* `RefreshEndedBeforeCommit`: `OldSessionsEndedBeforeCommit`, from `EndInv`. A
  family has one user (`OneOwner`), who is the one a rotation works for
  (`Rotates`), and the families a sweep began with are the user's, then named by
  `SMEMBERS`, then marked for the whole TTL (`Begun`, `Listed`, `Swept`). No
  request is in flight across two ticks and a TTL is at least two, so a marker
  cannot run out before the commit it was set for;
* `RefreshMintsFollow`: `MintsFollowTheRow` where no hash of the old format is
  stored (`Bcrypt = {}`) or no password changes (`"password" \notin Kinds`), the
  instances of `refresh_password` and of `refresh_chain`. A login's commit then
  changes nothing a token claims (`SameClaims`), and every other commit makes the
  user's requests in flight stale. With both it does not hold: the run
  `refresh_rehash` shows a login's rehash undo a password change.

`ResourceManagerProofs` proves `NothingForgotten` and `InTime` for any number
of resources, budgets and deadline, from an invariant that orders the cleanups
(`left`, `at`) and bounds `now` by the deadline plus the reserve of each
cleanup tried. `ShutdownImplementsManager` then shows that each step of
`Shutdown` is a step of `ResourceManager` or leaves its variables alone, so both
hold of it too (`ShutdownForgetsNothing`, `ShutdownInTime`). `DrainedMeansQuiet`,
`NoneRunsPastTheWait` and `EngineFailuresStayApart` follow from `ShutdownInv`,
for any number of tasks and engines: only tracked tasks are alive, `drain` gets
past its wait only by cancelling what is left or with nothing left, and the
loop over the engines has behind it only engines disposed of or failed.

`AdminSessionsProofs` proves, for any users, requests, ids and lifetimes, the
type invariant and each property of the run. `AbsoluteLifetime`, `DeadStaysDead`
and `OwnerIsFinal` come from `AdminInv`: only issued ids are live or known to a
browser, and what a request remembers (`Holds`) is still true of its session
although its key may be gone.
The owner it has loaded is the point: `SaveOver` writes back with `XX`, so it can
neither revive the session nor give it to someone else, and `SaveNew` takes an
id that was never issued. `UsableIndexed` and `SessionsEndedBeforeCommit` need
`EndInv` on top. `Indexed` says what is left of an index plus the age of a
session in it is at least `MaxAge`: `EXPIRE` and the passing of time keep that
sum, which a comparison of the two TTLs alone would not survive. `Ending` follows
a revocation from the sessions its user has when it begins over those `SMEMBERS`
names to those the `DEL` leaves, which are the raced ones.

`StoreKeepsTheBook` proves that the store implements `SessionBook`, step by step
(`BookStep`, one lemma for each kind of step). Most steps need only `OnlyEnds`:
with no id issued or handed out, `KeepsDead` leaves nothing but an end. `Settle`
is `Ending` of the committing request. Two more facts are needed (`BookInv`): an
id that was never issued has no age, so that its first TTL is positive even with
a tick lost to rounding (`1 < MaxAge`), and a promotion never revokes.
`OwnerIsFinal` follows from the book as well, so the run checks the book.

`DatabaseRouterProofs` proves `RouterTypeOK`, `OneReplica`, `NoLostUpdate` and
`ReadOnlyLeavesNoTrace` for any number of sessions and replicas, from
`RouterInv`: replicas and snapshots are never ahead (`Behind`), snapshots are
where the pins say (`Pinned`), changes and reads for update stand under a lock
(`Locked`). `SessionMonotonic` needs sticky routing and one more invariant,
`Forward`: the server of the next read, after which the session only moves to
the primary, shows at least what the session has got.

`LoginThrottleProofs` proves `ResolvedIsTheClient` (whatever the header and the
number of proxies, the address is the client's: `Forwarded` ends with what the
proxies appended), `ThrottleTypeOK`, and `RetryAfterHolds` from `ThrottleInv`:
a key with a counter has a TTL, and what is left of a TTL is at most a second
more than what was promised. `CountersAlwaysExpire` is the safety half of `CountersEnd`.
`AttemptsAreBounded` proves `AttemptsBounded` for any limits and windows from
`BudgetInv`: of the logins of the last window's length, those since the counter
of the address was started (`Fresh`) were counted in it, and those before were
counted in one window that is over. Both are cardinalities of sets of pairs
(`LetThrough`), so no sum over the ages has to be taken.

`AccessLogProofs` proves `AccessLogTypeOK`, `RetentionKept` and `PurgeComplete`
for any number of rows and purges and any batch size. The invariant says of each
purge that a due row stays expired as long as it is there (`DueIsExpired`), and
that after a short batch no owed row is left outside it (`ShortBatchIsLast`);
the second is what makes `deleted < batch_size` a sound end of the loop although
other purges delete the same rows. `AllPages` proves that pages of any length of
any part of the log partition it (`AllPagesPartition`), of which `PagesPartition`
is the instance the run checks. No induction over the listings is needed: the
order by time and id is total (`BeforeIsTotal`), so the place of a row in a
sorted listing is one more than the number of rows before it, hence there is one
listing (`OneListing`), which the two queries cut at the same place.

`WorkerProofs` proves that `LogQueue` implements `BoundedLog` for any capacity
and any number of records (`QueueIsBoundedLog`), step by step: only `Log` accepts
or drops and only `WriteOut` writes, all else leaves what is pending alone. The
invariant `QueueInv` says that the sentinel is in the queue only while a stop is
under way, once and at its end, so that what the thread does with it never
costs a record. `Worker`'s main process runs `LogQueue` (`WorkerRunsQueue`), so
`MainLogKept` and `StopFlushes` hold of it, and with `Accounted` every record is
written, pending or counted. For the child a fork copies the queue at any moment:
`ChildInv` says that this copy never holds a sentinel, that no thread takes from
it before the restart, and that beside the new listener only waiters of the
parent wait for it, which are dead. The parent's log is in order, so what the
child takes over is too (`Inherit` of `BoundedLog`). From this follow `ChildLogKept` and `ChildLogOrdered`. `LifeInv` goes
through the stages of a child (the pools renewed, the loop reset, the queue
restarted) and gives `ChildStandsAlone` and `WorkerTypeOK`.

`ApplicationProofs` has three inductive invariants. `AssemblyInv` says which stage
has what behind it, and that what is mounted comes from the routers; with it
`NothingLeftOut` and `EveryOperationGuarded` hold of every start of the tree
with one mistake. That the guard leaves nothing needs the case distinction of
`GuardedCalls`: an operation whose dependency tree has exactly one level is
declared by exactly one of the four marks. `RequestInv` says of each request
what it may ask (`Asked`), what its transaction holds (`Holding`) and what it was
told (`Told`), and of the tables that rows keep app and author and that a name
belongs to the committed request that registered it (`Kept`). The point is that
two transactions never hold the same row or name, so a commit disturbs nothing
another request has found: `AppliedFacts` bounds what a commit changes,
`OthersStay` and `CommitStep` carry the others over it. From it follow
`AnswersAreTruthful`, `RegistrationsSettled` and `ChangesAreEntitled` for any
number of requests, users, names, rows and fields.

`MigrationInv` is what makes `SchemaFollowsVersion` inductive: at every statement
the version and the position say which objects are there (`There`), which times
have microseconds (`IsWide`) and which have been moved (`IsMoved`). This is exact
while only whole revisions were run (`InStep`), a lower bound unless a run died on
the way down (`NothingMissing`), and for the time zones exact unless a run died
(`MovedOnce`). It rests on facts about the six revisions as they stand: every
object is added once, to a table that is there, and nothing that was there before
is part of it (`Chained`), so that each drop of the way down takes exactly what
the way up added; no time is listed twice (`TimesAre`) and all their tables are
older than the revision that converts them; what the last revision drops holds no
time (`TimesStay`); and the chain ends at what the models declare (`AtHead`).
`StartOfRun` and `EndOfRevision` join one revision to the next in both directions,
`WhatFails` shows that nothing fails until a server has created tables or a run
has died, and then, unless on the way down, only what adds to a database that
misses nothing. `MaxShift` is a constant that the theorem asks nothing of: it
holds for every bound, and any finite history moves a time a bounded number of
times, so it holds however often runs that fail move a time again.

They rest on the assumptions named in the modules (`RefreshAssumption`,
`ManagerAssumption`, `ShutdownAssumption`, `AdminAssumption`,
`RouterAssumption`, `ThrottleAssumption`, `AccessLogAssumption`,
`QueueAssumption`, `WorkerAssumption`, `ApplicationAssumption`) and nothing
else. `RefreshMintsFollow` also takes `Bcrypt = {} \/ "password" \notin Kinds`.
Every invariant and every action property of the runs is proved. Only
model-checked is what needs fairness, which is beyond the prover: `CountersEnd`,
`PurgeEnds`, `MainLogFlows`, `ChildLagsByOne`, `ShutdownEnds`, and of
`ImplementsManager` the fairness (that every step is one of the manager's is proved).

## 6. Not modelled

Access tokens live out their 15 minutes by design and are not modelled.
Wrong passwords, the dummy hash and response texts change no state. The
router's reading of raw SQL text (`_depth0_words`, `_text_is_readable`) is a
text scanner and is not modelled. Of an access log row only the
age is kept, so a filtered listing is one of any subset of the rows; truncation, masking and statistics are data. Background sessions
are bound to the primary alone and take no routing decision. Redis is one
instance that does not lose writes; a Redis failure is an `Abort`.

Searches, the sales report and the other raw SQL repositories only read. Of the
settings what stops a process is modelled, not the fields. Of the error handlers
the choice of the status is, the body is formatting. `AppAssembly` gives what a
module exports as a value; how Python imports it is left out. Of the revisions
defaults, types other than those of the times and the offline mode are left out,
and the paths for SQLite do nothing but what the models declare; two `alembic`
runs at once are not modelled, which nothing in the code excludes. A log record
is a number: formatters, filters, masking and file rotation are text and files.
The screens of the administration (column lists, filters) and the developer
scripts (`review_gate.py`, `new_app.py`) keep no state of the running service.

## 7. Disagreements between code and text

* `refresh_revoke_gap`: `RefreshTokenStore.revoke_user` reads the index and marks
  and deletes it in a second round trip. A login that registers in between loses
  its index entry and gets no marker. The docstring says all families are revoked.
* `refresh_rehash`: the re-hash of an old hash at login writes unconditionally
  and can put an old password back over `create_superuser --set-password`.
* `shutdown_stragglers`: `drain` waits 5 s inside a cleanup budget of 5 s, so the
  outer timeout ends it before it cancels what is left. The guide describes
  accept-stop, 5 s wait, cancel, await.

Met while modelling, and part of the models as the code does it:

* `AdminSessionStore.revoke_user` has the same gap between `SMEMBERS` and `DEL`;
  `authenticate` still refuses a session of a user who may not enter any more, but
  after a password change such a session goes on working.
* `worker_lifecycle.py:95` and the docstring of
  `restart_queue_listener_after_fork` say the child's log works again. When the
  parent's listener waited at the fork, the first record of the child may wake
  that absent waiter and stays in the queue until a second one comes
  (`ChildLagsByOne`). Forked while the listener holds the mutex, the child
  blocks at its first record. What was pending at the fork is written by both
  processes, and what is pending when a child exits is lost and not counted.
* A stop with the queue full raises `queue.Full`; nothing is joined and the
  number of dropped records is not reported. The summary of
  `close` is logged behind the stop of the listener and never reaches the file.
* One engine whose `dispose` hangs takes the time of the engines behind it
  (`dispose_engine` goes through them one by one under one timeout).
* A `PATCH` that races a committed delete of its row answers 500
  (`StaleDataError`), where the docstring promises 404; a `DELETE` of a row
  that is gone meanwhile answers 204. Neither is untrue (`AnswersAreTruthful`).
* The revision that stores times as UTC converts column by column. A run that dies
  half-way has converted some of them for good, and the next run converts these
  again; the file asks for a backup. `SchemaFollowsVersion` promises the times
  only where no run has died.
* A database created by a `DEBUG` server at an older version fails the next
  upgrade at the table that is already there; nothing is lost.
