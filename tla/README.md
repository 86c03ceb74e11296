# ClassConnect backend: TLA+ models, checks and proofs

This directory models the ClassConnect backend (a FastAPI service over PostgreSQL,
Firestore, Gemini and FCM) in TLA+. TLC checks the models on small instances; TLAPS
proves the theorems for every value of the constants. `PROJECT.json` lists components,
runs, mutants, findings, hazards and theorems, and gives the source lines of every
definition. Line numbers below are those of `src/`.

    tlc -workers 2 -config AccountsEveryOp.cfg MCUserAccounts
    tlapm UserAccountsProofs.tla

## 1. The system

One container runs `scripts/start.sh`: `pre_migrate.py`, `alembic upgrade head`, the
seed script, then uvicorn with **two worker processes**. Several containers may start at
once (ECS). Within a worker every request is an asyncio task: it runs alone until it
awaits the database, a thread (`asyncio.to_thread`, for Firestore and Gemini) or HTTP.
Between two awaits of a request, any other request of any worker may run. They share
PostgreSQL and Firestore and nothing in memory.

| component | state | operations | talks to |
|---|---|---|---|
| Authentication, user accounts (`features/auth`) | table `users` | first-request creation, Google sign-in, `/user/save`, `/verify-role-code`, `/me`, `/signout`, `/user/fcm-token` | Firebase (token check), PostgreSQL |
| Student scopes (`features/college`) | `users.college_id, department_id, batch_id` and the display strings `dept, batch` | `POST /scopes/student`, `GET /scopes/me` | access codes, catalogue, groups |
| College access codes | Firestore `colleges/{id}.accessCode` | read on every assignment; edited outside the backend | Firestore |
| Staff scopes | table `user_scopes` | `POST /scopes/staff`, `DELETE /scopes/{id}`, `GET /scopes/me` | access codes, catalogue, groups; role in `users` |
| Catalogue and seed | `colleges`, `departments`, `batches` | `POST /departments`, `seed_ukf.py`, listings | PostgreSQL, groups |
| General groups | Firestore `colleges/{id}/groups/*` | created by the seed and after each assignment; members added by the app | Firestore |
| AI quota (`features/ai`) | table `ai_usage` | `POST /ai/generate` | Gemini, PostgreSQL |
| Notifications | `users.fcm_token` | `POST /notify/message` | groups, PostgreSQL, FCM |
| JWT tokens | none (stateless) | issued at sign-in and refresh | - |
| Rate limits | counters in each worker's memory | sign-in, refresh | - |
| Database sessions | connection pool, one session per request | `get_db` | PostgreSQL |
| HTTP pipeline, startup, migrations | - | middlewares, exception handlers, `start.sh` | - |

### What is hard here

- **Stale reads.** Authentication loads the user and puts it into the session's identity
  map. A handler's own SELECT of the same row returns that object with its *old* values,
  so a check in the handler judges what was true before the first await.
- **Partial UPDATEs.** A commit writes the columns whose value differs from the *loaded*
  one, by primary key, without a version or a lock. Two requests therefore interleave
  column by column.
- **Check, then act.** The immutability of a scope, the AI quota, the existence of a group
  and the seed's lookups are all a read, some awaits, and a write.
- **Two stores.** PostgreSQL commits and Firestore writes are separate; either may fail
  after the other has succeeded.
- **Crashes.** The seed commits many times; a container may die between any two commits,
  and `start.sh` goes on to serve if a step fails.

- **A shared pool.** A session holds a connection from its first statement to its commit,
  through calls to Gemini, Firestore and FCM, and asks for one again after the commit.
- **Layers.** An exception passes the exception handlers, two middlewares and a catch-all;
  where it turns into a response decides what the client gets.

The full list of hazards, with lines, is in `PROJECT.json`; one without a property has a
note that says why.

### What makes each part correct

- Accounts: every authenticated request has a user; creation races end with one row.
- Student scopes: department and batch always come from one admissible request of that
  user, are never lost, and are set only by a request that found none.
- Staff scopes: only staff get them, only for the catalogue's departments and batches, and
  only their owner removes them.
- Quota: at most five rows of `ai_usage` per user in any 24 hours, and a user at the limit
  gets below it again.
- Groups: one document per batch or department, never replaced once it has members.
- Seed: repeatable; whatever failed or died before, a run that completes leaves everything
  there.
- Startup: every container comes to serve, on tables that agree with `alembic_version`.
- Notifications: everyone who is a member and has a token is pushed to, once, and the sender
  is not; a registration that was answered counts.
- Pipeline and pool: refusals are complete, no connection is lost, and nobody waits for ever
  because others keep theirs.
- Rate limits: a bound on what an address gets through, and an end to every refusal.

## 2. The modules

| module | models | extends / instantiates |
|---|---|---|
| `OrmSession` | what a commit of a session writes (`session.py` and its use of SQLAlchemy) | |
| `UserAccounts` | table `users`, all its writers but the FCM token | `OrmSession`, `ScopeRegister` |
| `ScopeRegister` | abstract: registers that only a client that found them empty sets | |
| `StaffScopes` | table `user_scopes` | |
| `AiQuota` | table `ai_usage` | |
| `GeneralGroups` | the Firestore documents of the general groups | |
| `SeedUkf` | the catalogue, the seed script, `create_department` | |
| `Startup` | `start.sh`: pre_migrate, alembic, seed, `init_db`, server; containers that die | `SeedUkf` |
| `Notifications` | `POST /notify/message`, `users.fcm_token` | `GeneralGroups`, `OrmSession` |
| `Pipeline` | middlewares, exception handlers, credentials, the connection pool | |
| `RateLimit` | slowapi's counters in each worker | |
| `MC...` | finite instances: catalogues, sets of requests, symmetry | the module |
| `...Proofs` | theorems | the module, `TLAPS` |

In every module a request (or a run of the seed) occupies a *slot* with a program counter
`pc` (`step` or `stage` in the later modules), the request `job` and what its session loaded, `snap`. A slot serves any number of
requests one after the other, so behaviours are unbounded; the number of slots is the
bound on concurrency. Each action is the code between two awaits at which another request
could make a difference. `Fail` lets the database, Firestore or the worker fail under any
request: what it has committed stays, the rest is rolled back (`get_db`).

### UserAccounts

State: `rows` (the committed table), `accessCode` (Firestore), and per slot `pc`, `job`,
`snap`. `everCode` is a history variable, the codes each college has ever had.

| action | code |
|---|---|
| `Begin`, `Lookup` | `get_current_user`, or the first SELECT of `get_or_create_google_user` |
| `Recheck`, `Insert`, `Reload` | `get_or_create_user` (second SELECT; INSERT and COMMIT, IntegrityError included; refresh, or SELECT after the rollback) |
| `NoUser` | the caller of a `get_or_create_user` that returned `None` |
| `StampCollege` | the end of `get_or_create_google_user` |
| `SaveUser`, `VerifyRoleCode`, `Me`, `Forbid` | `save_user`, `update_user_role`, `/me` and `/signout`, the 403 of a body that names someone else |
| `AssignCheck`, `AssignValidate`, `AssignCommit` | `assign_student_scope`: the check on the loaded object; access code, department and batch; the commit |
| `ChangeAccessCode` | the Firestore document, edited outside |

`CommitUser` is the one place where a row is written back, through `OrmSession!Flush`: the
dirty columns of the loaded object are laid over the *current* row. `VerifyRoleCode` is a
direct `UPDATE ... SET role`. The unique `email` makes `Insert` and `CommitUser` fail.

Left out: `name`, `photo_url` and timestamps (no property tells them apart), `fcm_token`
(`Notifications` has it),
the wording of errors, and the making of the general group after the commit, which cannot
fail the request (`GeneralGroups` has it). Department and batch rows are constants, since
no handler updates or deletes them; departments that appear later only add requests.
`CodesOf` says which access codes a college may come to have.

`ScopeRegister` is what `assign_student_scope` really gives its users. A client claims a
register that it finds empty, and may set it once, empty or not by then. `claim` is mapped to
the user whose assignment a request is about, from authentication to commit, if it loaded no
scope (`ClaimOf`); `scope` to department and batch. Immutability would be the same register
with claim and set in one step.

### StaffScopes, AiQuota, GeneralGroups, SeedUkf

- `StaffScopes`: `Admit` judges the role that authentication loaded, `Validate` is the
  access code (either outcome) and `_validate_scope`, `Insert` the commit; `Find` and
  `Delete` are the two statements of `remove_staff_scope`; `ChangeRole` stands for the
  writers of `users.role`. `issued` says that uuid4 does not repeat, `everStaff` who has
  ever had a staff role.
- `AiQuota`: `Count`, `Generate`, `Record`. Timestamps are *ages* that `Tick` advances, so
  time is unbounded and the state finite. `used_at` defaults to `now()`, in PostgreSQL the
  start of the transaction, which authentication opened: `txAge` carries its age, and a row
  can enter the table already out of the window. A Gemini error is an answer like any
  other (`generate_response` returns it as text) and counts.
- `GeneralGroups`: `Get` and `Set` are the two calls to Firestore, made alike by the
  handlers and the seed; `Join` is the app adding a member.
- `SeedUkf`: one action per SELECT and commit of `seed_ukf.py`. `Abort` is any exception that
  ends a run, `Crash` may strike anywhere, `Start` begins any further run,
  `HodCreatesDepartment` and `AssignmentEnsuresGroup` are the servers that already run beside
  it. A run without `FIREBASE_SERVICE_ACCOUNT_JSON` makes no groups and prints "UKF seed
  complete" all the same (`seed_ukf.py:51`): it ends as `skipped`, of which `SeedComplete`
  claims the catalogue but no groups.

### Startup

State: what there is of the tables (`schema`), the migration `alembic_version` names
(`version`), whether it also has the row of `pre_migrate.py` (`stray`), and per container its
`stage` and the version its upgrade has read (`heads`). `production` is the environment's
word; `calm` says that from now on nothing fails.

| action | code |
|---|---|
| `Boot` | `CMD` of the Dockerfile; ECS starts a container that is down |
| `PreMigrate` | `pre_migrate.py`; a failure is skipped over by `\|\| echo` |
| `ReadHeads`, `Upgrade` | `alembic upgrade head`: look at `alembic_version`, then all missing migrations in the one transaction of `migrations/env.py` |
| `Seed`, `Seeding` | `seed_ukf.py`: the run of SeedUkf in the container's own slot, failing at once without its tables; after any exception bash goes on |
| `Serve` | uvicorn's lifespan with `init_db`, which does nothing in production |
| `Die`, `Handle`, `Settle` | a container is killed; requests to servers that run already; the end of failures |

PostgreSQL's DDL is transactional, so an upgrade that meets a table that exists leaves
nothing. `init_db` adds tables but no columns (`create_all`).

### Notifications

State: `fcm_token`, and per request what it has read: `loaded` (the token its session loaded),
`uids`, `due` and `pushed`; `touched` is a history variable, the users whose membership or token
somebody else changed after the request had read it: a registration its user's token, a
notification the members.

| action | code |
|---|---|
| `Receive` | authentication, and the 403 of `update_fcm_token` |
| `ReadMembers`, `QueryTokens`, `Push`, `Answer` | `notify_message`: members from Firestore in a thread, tokens in one SELECT, one push after the other |
| `SaveToken` | `save_fcm_token`: the commit writes the column only if it differs from the loaded value (`OrmSession!Flush`) |
| `Drop` | an exception: `{"sent": 0}`, a 500, or no answer |
| `GroupStep` | any step of `GeneralGroups` |

`Send` is an attempt: `send_notification` logs what goes wrong and returns.

### Pipeline

State: the connections the pool can still give (`free`), and per request where it is (`step`),
how many connections its session has, the exception that ended its handler, the response
and the headers added to it. A worker's pool has 30 (`pool_size` + `max_overflow`).

| action | code |
|---|---|
| `Preflight` | CORSMiddleware, added last and so outermost |
| `Receive` | body, slowapi and credential (`Accepts`), before any statement |
| `Connect`, `TimeOut` | a statement gets a connection, or `pool_timeout` ends the wait |
| `Commit`, `NextStatement` | a commit or rollback gives it back; `refresh`, or the handler after an auto-created user, asks again |
| `Finish`, `Close` | the handler returns or raises, if it ever does; `get_db` closes (before the response: FastAPI 0.115) |
| `HandlersAnswer`, `Logging`, `Security`, `ServerAnswers` | the layers, from the inside |

An exception that no handler takes leaves `LoggingMiddleware` as an UnboundLocalError, since
its finally block reads `response`, and passes `SecurityHeadersMiddleware`; the handler for
`Exception` runs outside of both. Of the JWTs, the refresh token is accepted by
`/auth/refresh` alone and the access token by no endpoint.

### RateLimit

A window per worker and address: `Hit` counts first and compares then; `Tick` is time,
`Restart` a worker that uvicorn replaces. `served` is a history variable: for each counter, how
long ago each of the latest 2 * limit requests was let through.

## 3. What TLC checks

| run | property | what it says |
|---|---|---|
| AccountsEveryOp | `ScopeFromOneRequest` | department and batch of a user are those of one admissible assignment of that user, never a mix |
| | `ScopeKept` | no step takes an assigned scope away |
| | `ScopeMovesOnlyByOverlap` | it moves only by an assignment that authenticated before the first committed |
| | `ScopeUnlistedOnlyByStamp` | a scoped student sees the scope, unless a first sign-in without college erased its college |
| | `ResolvedUnlessContested` | creation races end with a user, unless another user may come to hold the email (here one saves it) |
| | `ImplementsRegister` | whatever overlaps, the table implements `ScopeRegister` |
| StaffEveryOp | `ScopesEarned`, `RemovedByOwnerOnly` | rows well-formed and of users who have been staff; they go only by their owner's DELETE |
| AiQuota | `OvershootBounded`, `QuotaResets` | overlaps exceed the limit by less than the number of slots; no user stays at the limit forever |
| StartupDeploy | `SchemaMatchesVersion` | `alembic_version` is never ahead of the tables, and in production equal to them, whoever upgrades, dies or starts at once |
| | `CatalogueSound`, `SeedComplete` | no half-seeded department ever; a run that reports completion is complete, its groups too if it had a credential |
| | `EveryContainerServes` | once nothing dies any more, every container serves, whatever failed in its `start.sh` |
| | `SomeRunCompletes` | runs that start together may kill each other, but one gets through |
| NotifyOverlap | `ExactUnlessTouched` | whoever nothing changes meanwhile is pushed to exactly when he is a member with a token, although pushes to others fail; the sender never |
| | `RegistrationKept` | an answered registration has taken effect, although the session compares with the token it loaded |
| | `SetsBounded` | a group is set at most once per writer's slot, in any number of attempts |
| PipelinePool | `ConnectionsReturned` | no connection is lost whichever exception ends a handler |
| | `RefusalsAreComplete` | what is raised on purpose becomes a refusal with all headers, at whatever layer |
| | `NobodyWaitsForOthers` | though handlers keep their connections for ever, every other request comes to work or is answered |
| RateLimit | `BurstBounded` | at most 2 * limit - 1 get through a worker within any period, also across two windows (a worker that starts again begins anew) |
| | `RefusedGetsThrough` | a client that is refused and keeps trying gets through again |

A type invariant is checked per module (`BootTypeOK` and `NotifyTypeOK` contain those of `SeedUkf`
and `GeneralGroups`). Each property has a mutant in the module, a bug that
the code could plausibly have, which breaks it in the same run.

### Disagreements between code and documentation

Each is a run that TLC must find violated:

| run | what the code says of itself | what happens |
|---|---|---|
| AccountsDoubleSubmit | "Student scope is immutable once assigned" | two assignments overlap, both pass the check on their loaded object, and the second replaces the first |
| AccountsOutOfSync | "Denormalized display strings, kept in sync with department_id/batch_id" (`user_db.py:20`) | a plain profile save after an assignment writes its own `dept` and `batch`; nothing need overlap |
| AccountsSharedEmail | "Race condition: another request created the user" | a different uid with the same email (a Google `sub` and a Firebase uid of one person) causes the same IntegrityError, and the user is `None` |
| StartupUnmigrated | "alembic upgrade head" (`README.md:31`; `start.sh:6` has it too, with "failed, continuing") | `pre_migrate.py` records a revision that no migration has, alembic cannot locate it from then on, and in production the server answers without tables. With a `DATABASE_URL` as in `.env.example:4` (`postgresql+asyncpg://`) `pre_migrate.py` fails instead, and the migrations run |
| GroupsReplaced | "this seed path must never delete or replace them" | a `set` after a stale `get` replaces a group that has members |

More were met while modelling and have no run of their own:

- A profile save after an assignment may also change `college_id` to a college that the
  assigned department does not belong to (`auth_repository_impl.py:96`); `GET /scopes/me` then
  lists such a scope.
- The stamp of a first sign-in without college erases the college of a scope assigned
  meanwhile: `/scopes/me` is empty and another assignment is refused.
  `ScopeUnlistedOnlyByStamp` names it.
- A user whose role changes between authentication and insert gets a staff scope although
  it is no longer staff (`college_router.py:161`): `ScopesEarned` claims no more than that it
  has been. And an advisor may insert staff scopes (`college_router.py:158`) that
  `GET /scopes/me` does not show it (`college_repository_impl.py:376`).
- Two overlapping generations at four recorded ones make six, against
  "limits_user_to_five_requests_per_24_hours" (`test_ai_rate_limit.py:23`):
  `OvershootBounded` says by how much, and that it takes an overlap; the invariant that the
  test's name states, `QuotaKept`, is proved for requests that do not overlap.
- "Adds security headers to every response" (`security_middleware.py:6`): not to an answer to
  a preflight, nor to the 500 of an unhandled exception, which is made outside of the
  middleware. "Outermost first" (`app_root.py:53`) is the reverse of how `add_middleware`
  nests. `RefusalsAreComplete` claims the headers of refusals, and of the 500 nothing.
- `seed_ukf.py` prints "UKF seed complete" where it has skipped the groups (`seed_ukf.py:51`).
- Neither the Gemini client (`ai_service.py:23`) nor the engine (`session.py:16`) has a
  timeout: a handler may keep its connection for ever, and its client gets no answer.
- "Returns JWT access token (60min)" (`app_root.py:41`): no endpoint accepts it; all of them
  ask for a Firebase token (`Accepts`).
- A handler whose commit succeeded may end in a 500, because `refresh` asks for a connection
  again and may not get one; a body that does not validate is refused after authentication
  may have created the user.
- `"sent"` counts the tokens, not the pushes that FCM took; a token stays with the user of a
  device who has signed out, also when another user of the device registers it.

### Bounds

- Slots: two for accounts and staff scopes, which is the smallest number for a race of any two
  writers; a third writer acts between two steps of the others only through the row,
  which a slot that is reused does as well. AccountsOutOfSync has one: nothing need overlap
  there. Two writers in GroupsReplaced and NotifyOverlap, and two notifications or
  registrations beside them, so that each kind overlaps itself and the other.
- NotifyOverlap: one sender with a device, whose token must not come up, and two users who may
  both be members with a token, so that a push that fails may come before another one is due.
- Containers: two, each at any stage while the other is at any other; a third would meet the
  same rows. Four actors touch the catalogue: two runs, HODs and assignments.
- Pool: three requests on two connections, so that two can hold what the third waits for, and
  all three can be between commit and refresh. The code's 30 changes nothing but the size.
- Rate limit: limit 3, period 3 ticks, two workers, one address (addresses share nothing).
- Catalogue: two colleges, one department and one batch each (a mix of two assignments is
  then visible in every column), of which one changes its access code and one never has any;
  in the seed two departments of two batches, enough for a "first" and a "next" department and
  for a partly seeded one.
- Requests (`EveryOpJobs`, `OutOfSyncJobs`, ...): every endpoint, a body that fails each check,
  and two assignments that differ in everything.
- Quota: limit 2 with a window of two ages (0 and 1), two users and two slots.
  Ids bounds the rows inside the window at once; it leaves room for one user's overshoot
  and another's row.
- StaffScopes: two ids ever, so a row may be deleted and another inserted, not more.
- Symmetry is used over slots and other interchangeable values in runs without liveness only.

### Fairness

- `AiQuota`: weak fairness of `Tick` alone: time passes. No request is owed an answer, since
  Gemini and clients owe none.
- `Startup!BootSpec`: weak fairness of each container: bash goes on to the next line whether
  a step succeeds or not, and ECS starts a container that is down. That every step returns or
  raises is an assumption about PostgreSQL and Firestore: `start.sh` sets no time limit. `Die` is not fair, and the liveness properties assume that things settle (`calm`),
  since a container that is killed for ever serves never. HODs create no departments then: a
  department at the wrong moment does kill a run, which its container does not repeat.
- `Pipeline`: weak fairness of a wait for the pool (a connection or `pool_timeout`) and of the
  layers, which wait for nothing. Nothing is assumed of a handler: no timeout makes Gemini,
  PostgreSQL or Firestore answer it. So what is claimed is not that every request is answered,
  but that none waits for ever on account of others (`NobodyWaitsForOthers`).
- `RateLimit`: weak fairness of `Tick`: time passes.

Deadlock is checked everywhere but in StartupDeploy and StartupUnmigrated, where every
container ends up serving.

## 4. What is proved

`UserAccountsProofs` proves, for any set of slots, users, colleges and request bodies:

- `AccountsInvariant`: the inductive invariant `IInv`. `ScopeFromOneRequest` is not inductive:
  what a request *will* flush depends on what it loaded. `IInv` adds `SessionOK`: which
  session contents go with which `pc`, that a loaded row has department and batch together or
  neither, that requests past the check loaded neither and are admissible.
- `TypeCorrect`, `ScopeComesFromOneRequest`, `AssignedScopeIsKept`, `ScopeMovesByOverlapOnly`,
  `ScopeIsUnlistedByStampOnly`, `UsersAreResolved`, `AccountsImplementRegister`: all that
  AccountsEveryOp checks, without further hypotheses.
- `UsersAreResolved` is inductive with `EmailInv`: every row has an email that is its user's own,
  by token or by save (`OwnEmails`). So an insert that failed has met the row of the same user,
  which is not deleted, or the email is contested; AccountsSharedEmail shows a contested one.
- `AccountsImplementRegister` maps every step to a step or a stutter of `ScopeRegister`: what
  changes the scope is a commit past the check, so its request holds the claim.
- `ScopeImmutableOneAtATime`: if no two requests of one user are in progress at the same time
  (`[]OneAtATime`; those of different users overlap at will), a scope is immutable. The
  invariant `Fresh` says that what a request loaded is still what the row has. So
  AccountsDoubleSubmit has one cause, two requests of one user that overlap.

The argument rests on the partial UPDATE (lemmas `FlushRow`, `ScopeStep`): a handler whose
object leaves the scope columns as loaded cannot write them, however stale they are; and an
assignment past the check loaded both as NULL, so it writes both or nothing. The action
properties rest on who writes (`WriterStep`: whoever changes a row is one request of that user,
which inserts it, updates its role or flushes an object) and on which columns each of the
flushes may change (`StampedColumns`, `SavedColumns`, `ScopedColumns`). `ListedStep` goes through
the writers one by one.

`AiQuotaProofs`: `IInv` adds to the rows in the window the requests of the user that have
passed the count (`Load`): a request takes its place when it passes, not when it records.
Only a request that passes adds to it (`LoadStep`). From it `QuotaOvershoot` (n slots exceed
the limit by at most n - 1), `QuotaKeptOneByOne` (one slot: the limit is kept) and
`QuotaKeptOneAtATime`: with any number of slots the limit is kept, if no two requests of one user
overlap.

`GeneralGroupsProofs`: `IInv` counts the sets done and the writers about to set, which once
a group exists can only shrink. From it `GroupSetsBounded`, and `GroupsKeptOneByOne` for a
single writer. `GroupsKeptOneAtATime` has any number of writers: what GroupsReplaced shows takes
two that make sure of the same group at the same time, because otherwise a group found missing
is still missing when it is set (`FoundMissing`).

`StaffScopesProofs`: an insert relies on checks made two awaits earlier, a delete on what was
found one await earlier. `IInv` says what of them still holds (`RequestOK`): the user *has
been* staff, the scope is the catalogue's, and the row found is still its owner's or gone for
good, because ids are not issued twice. From it `ScopesAreEarned` and `ScopesRemovedByOwner`.

`StartupProofs`, the seed: a run decides by what it finds, but the catalogue only grows and a
department's batches come at once (lemma `GrowsStep`). So what a run has passed stays behind
it (`Passed`, `RunOK`), however many others insert, crash or start again (`OthersKeep`). From
it `CatalogueIsSound` and `CompletionIsTrue`.

`StartupProofs`, the deployment: every step of it is a step of `SeedUkf` or leaves its variables
alone (`SeedStep`), so the lemma `DeploymentRunsSeed` carries the two theorems over to containers
(`DeploymentCatalogueSound`, `DeploymentSeedComplete`). `SchemaMatchesVersion` is not inductive:
an upgrade decides by the version it *read*. `BootInv` adds `ReadOK`, that the tables of that
version are there (tables only appear), so a migration either adds all that is missing or
finds one of its tables and stops (`VersionNeverAhead`). `ServesOnHeadIfMigrated` says what
StartupUnmigrated takes: if nothing fails (`calm`) and the row of `pre_migrate.py` is never there
(`~stray`, as where `DATABASE_URL` has the form that it cannot read), every server has all its
tables, however the upgrades of the containers overlap (`MigratesOK`).

`PipelineProofs`: `IInv` says at which steps a session holds its connection (`HoldsOK`), so those
who wait hold nothing and the count of `ConnectionsAreReturned` is kept (lemmas on the
cardinality of the holders); and what response and headers belong to each
layer (`AnswerOK`), from which `RefusalsComplete`.

`NotificationsProofs`: a request reads members and tokens at two moments. `NotifyInv` says of
each reading that it is still true of every user whom nothing touched since the members were read
(`StillTrue`), and `BystanderKeeps` that others' steps touch whom they change. From it
`NotifiedExactly` and `RegistrationsKept`. A step of `NotifyNext` is one of `GeneralGroups!Next` or
leaves its variables alone (`GroupsBeside`), which carries `GroupSetsBounded` over.

`RateLimitProofs`: `BurstBounded` looks across two windows, of which the state of the limiter
knows only the second. `IInv` locates both in the log (`WindowOK`): the request that opened the
running window is its last there and as old as the window, and the one `limit` places further
is a period old. It holds the log in order (`Ordered`). From it `BurstsAreBounded` and
`RateLimitTypeCorrect`, for every limit and period.

Assumptions: those named in the modules (functions of the catalogue have their types,
`None` is no other value, slots and ids are finite sets), evaluated by TLC in every run.
`OneAtATime` is an assumption about clients, which the code does not enforce: the runs with an
expected violation show what happens without.

Only model-checked: `QuotaResets`, `SomeRunCompletes`, `EveryContainerServes`,
`NobodyWaitsForOthers` and `RefusedGetsThrough`, which are liveness under fairness and out of the
prover's reach. Every other property of the passing runs is a theorem. Of the five that runs
refute, `ScopeImmutable`, `GroupsNeverReplaced` and `ServesOnHead` are theorems under the
hypothesis that rules the violation out, `UserResolved` in the form `ResolvedUnlessContested`;
`LabelsInSync` has none.

## 5. Not modelled, and what is left

- Configuration, logging, entities and DTO modules: no state, and of their control flow only
  the validation of fields, which the models take as an assumption (`JobsAssumption`) or as an
  outcome (`"validation"` in `Pipeline`).
- Expiry and re-issue of JWTs: the backend keeps nothing about them and nothing ends one
  before its time (`auth_router.py:183` says so), so that there is no state to relate. What is
  modelled is which endpoint accepts which.
- Initialization of the Firebase app (`firebase_auth.py:8`): check-then-initialize, but the
  first request that authenticates in a worker runs it in the event loop, without an await,
  before any thread of `asyncio.to_thread` can; two initializations do not meet.
- The read-only listings, the wording of answers, the payload of a push, the text of Gemini.
- The Flutter client, Firebase, FCM, slowapi, SQLAlchemy, alembic: external; what the code
  relies on is stated where it is used.

Left to do: the reverse of the conditional theorems, that nothing less than their hypotheses
will do, which TLC's counterexamples show for the small instances only.
