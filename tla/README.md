# Ploydok: a verification project

Ploydok is a self-hosted platform that deploys applications on one Docker (or
Swarm) host. A TypeScript API (`apps/api`) serves the dashboard, keeps its state
in PostgreSQL (`packages/db`), queues work in Redis with BullMQ, and runs the
workers of those queues and a dozen timers in the same process. A Rust agent
(`apps/agent`) executes the privileged Docker operations, Caddy routes the
traffic, BuildKit builds the images.

The modules in this directory model the parts of that system where several
actors meet over shared rows, jobs and containers. TLC checks them on small
instances (the `runs` of `PROJECT.json`); TLAPS proves the main invariants for
every value of the constants (the `theorems`).

## 1. Inventory

For each part: the state it keeps, what it does, whom it meets, what is hard, and
what makes it correct. Paths are relative to `src/apps/api/src` unless they begin
with `packages/` or `apps/`.

| Part | State | Operations | Correct when |
|---|---|---|---|
| Deploy lock (`worker/app-deploy-lock.ts`) | a map from application to the tail of a promise chain | `withLock(key, fn)` | same-key functions never overlap, run first come first served, each gets its turn, and the map does not leak |
| Deploy queue (`worker/queue-enqueue.ts`, `worker/queue-claim.ts`, `worker/queues.ts`) | a `builds` row and a BullMQ job | insert the row and add the job; claim the row | a job that is delivered twice does its work once; a row without a job does not wait for ever |
| Deploy handler (`worker/index.ts`, `worker/handlers/deploy.ts`) | `builds.status`, `apps.status`, `apps.container_id`, local variables between awaits | claim, start, build, go live, catch, finally | a row tells the truth about its build, terminal rows stay, every build ends |
| Cancel (`routes/apps.ts`) | the queue and the row | remove the queued jobs, write `cancelled` | a cancelled build stays cancelled and loses nobody else's |
| Reaper (`worker/jobs/reap-stuck-builds.ts`) | none of its own | select what is too old, cancel, repair `apps.status` | what no process drives ends |
| Container runner (`worker/runner.ts`, `caddy/client.ts`) | containers of two colours, the Caddy upstream, `apps.container_id` | blue-green deploy, stop, restart, rollback | traffic is never sent to a container that is gone, and an old container dies only after the switch |
| Swarm runner (`worker/swarm-runner.ts`) | one service for each application | create or update, wait for convergence | at most one service for an application |
| Push webhooks (`webhook-handlers/push.ts`, `webhooks/coalescing.ts`) | deliveries, queued jobs | deduplicate, coalesce, enqueue | the newest commit of a branch is deployed |
| Image update watcher (`worker/jobs/image-update-watch.ts`) | `apps.pending_image_digest` | compare digests, reserve, enqueue | a new digest is deployed once, and a failed one does not block the next |
| Scheduled jobs (`worker/jobs/scheduled-jobs-runner.ts`) | `scheduled_job_runs` with one `running` row for each job | claim, run, record, purge | runs of one job do not overlap, and a crashed run does not block the job |
| Password rotation (`databases/rotation.ts`, `worker/jobs/rotate-databases.ts`) | `databases.rotation_in_progress`, the database's users, the secrets and links of the applications | add the new password, swap the links, redeploy, poll, drop the old user or roll back | no application is left with credentials that were dropped |
| Sessions and codes (`auth/sessions.ts`, `auth/backup-codes.ts`, `auth/totp-throttle.ts`) | `sessions`, `backup_codes` | rotate a refresh token, consume a code, regenerate | a token or a code is used once |
| Event webhooks (`worker/event-webhook-dispatcher.ts`) | retry counters in memory | deliver, retry, give up | a delivery ends, and a failing receiver is recorded |
| Auto-heal and reconcilers (`worker/jobs/auto-heal.ts`, `services/*-reconciler.ts`) | locks and budgets in Redis | compare the host with the rows, restart or relabel | they do not fight a deploy |
| Deletion (`worker/handlers/delete-app.ts`) | `app_delete_jobs` with a cursor of steps | tear down step by step, resumable | each step is repeatable, nothing is left behind |
| Previews (`worker/handlers/preview-*.ts`) | `preview_deployments` | deploy, tear down | a closed pull request leaves no container |
| Caddy, domains, certificates (`caddy/`, `worker/handlers/domain-verify.ts`) | the Caddy configuration, `domains` | put and delete routes, verify | routes match the rows |
| Backups (`databases/backup.ts`, `restore.ts`, volume backups) | `backups` | dump, upload, restore | a `succeeded` row has a file |
| Auth (`auth/`: password, WebAuthn, TOTP, SSO, PAT, roles) | users, challenges, memberships | log in, check a scope | mostly cryptography and table look-ups |
| Audit log (`packages/db/src/queries/audit-log.ts`, `worker/jobs/audit-anchor.ts`, Rust CLI) | a hash chain | append, anchor, verify | the chain has no gap |
| Agent (`apps/agent`) | Docker itself | validate and execute commands | refuses what the validator forbids |
| Builders, scanners, log archive, GC (`worker/buildkit.ts`, `nixpacks.ts`, `railpack.ts`, `trivy.ts`, `handlers/gc-*.ts`) | files, images, registry | external commands | - |
| Front end, installer, marketplace, billing, organizations, advisories | - | pages, forms, table updates | - |

### How the parts meet

`POST /apps/:id/deploy`, a push and the image watcher all insert a
`builds` row and add a job that carries the row's id. A slot of the deploy Worker
takes the job, looks the application up, waits for the lock of that application
(one lock for each API *process*), claims the row with a conditional `UPDATE`, and
drives it: `running` with `started_at`, `apps.status = building`, clone, build,
push, start, route, `apps.status = running` (`serving` for static sites), then the
final status in a `finally` block. Three other actors write the same rows at any
time: a user who cancels, the reaper in each process, and the job itself when
BullMQ finds it stalled and hands it to a second slot. Restart, stop, rollback,
auto-heal, the recovery at boot and deletion touch the same containers without
the lock, a request for the status of an application corrects its row, and a cron
pushes the routes of all applications to Caddy, whose list of routes is read and
written as a whole.

### What is hard

* Between any two awaits of a handler others run. The code protects itself with
  one in-process lock, with conditional updates, and with re-reading a row before
  writing it; the last is not atomic.
* Redis and PostgreSQL are updated separately: a row without a job, a job without
  a row, a job that is handed out twice.
* A process can die anywhere. Then its lock and local variables are gone, rows and
  jobs stay, BullMQ redelivers after a while with the *same* attempt number, and
  the reaper judges by timestamps that may never have been written.
* The service is updated with `order: start-first`
  (`installer/templates/docker-stack.yml`), so two processes overlap.

`PROJECT.json` lists each hazard at its line with the properties that watch it.

## 2. Plan

| Step | Modules | Status |
|---|---|---|
| 1 | `FifoLock` (contract), `KeyedLock` (promise chain), `KeyedLockProofs` | done |
| 2 | `DeployPipeline`, `DeployPipelineProofs` | done |
| 3 | `DatabaseRotation`, `DatabaseRotationProofs` | done |
| 4 | `ScheduledJobs`, `ScheduledJobsProofs` | done |
| 5 | `ContainerRunner`, `ContainerRunnerProofs`: the runner with deletion, auto-heal, reconcilers and the boot around it | done |
| 6 | `PushDeploy`, `PushDeployProofs`, `ImageUpdate`, `ImageUpdateProofs`: what reaches the queue | done |
| 7 | `RefreshSession`, `RefreshSessionProofs` | done |
| 8 | previews beside the runner; the Swarm runner | open |

The modules meet in three places. `DeployPipeline` uses the contract that
`KeyedLock` implements. `ContainerRunner` refines the one step `GoLive` or
`DeployFails` of `DeployPipeline` into the steps of the runner and takes from it
that deploys of one application are serialised. `PushDeploy` and `ImageUpdate`
model how rows and jobs come to be, with attempts of the handler as one or a few
steps; redelivery after a stall, which those steps leave out, is what
`DeployPipeline` is about.

## 3. The modules and the code

### `FifoLock` and `KeyedLock`

`KeyedLock` is `createInProcessKeyedLock`. A call has a promise of its own; the
map holds the promise of the last call of each key. `Call` is the synchronous
part of `withLock` (read the tail, install the own promise as the new tail),
`Enter` is the continuation after `await previous`, and `Finish` is the `finally`
block: resolve, and delete the map entry if it is still the own one. The property
`ContractSpec` says that this implements `FifoLock`: each key has a queue of
waiting calls and a holder. The pipeline uses `FifoLock`.

### `DeployPipeline`

A build and its job share one name. Variables fall in groups: the row (`bstatus`,
`started`, `overdue`), the job in Redis (`job`, `owner`, `made`, `stalls`), the
application (`astatus`, `container`), each slot's program counter and the local
variables of `handleDeploy` it keeps across awaits (`on`, `attempt`, `seen`,
`final`, `thrown`), the lock of each process, and each process's reaper. `live` and
`wentLive` are history variables for the properties.

| Action | Code |
|---|---|
| `InsertRow`, `AddJob`, `AddFails` | `enqueueWithDbRow`: transaction, `queue.add`, its failure |
| `Take`, `Resolve`, `ResolveFails`, `Enter`, `Report` | the deploy Worker in `startWorker` around `withAppDeployLock` |
| `Claim`, `ClaimFails` | `claimQueuedRow`, with `failed` allowed from the second attempt |
| `ReadApp`, `LostAccess`, `ThrowEarly`, `Start`, `MarkBuilding` | `handleDeploy` before its `try` block |
| `GoLive`, `DeployFails`, `FallbackFails` | the `try` and `catch` blocks |
| `FinalRead`, `FinalWrite`, `QueryFails` | the `finally` block |
| `CancelRemove`, `CancelWrite`, `CancelLost` | the cancel route |
| `Age`, `ReapSelect`, `ReapUpdate`, `RepairRead`, `RepairWrite` | the reaper |
| `StalledJob`, `Removable` | BullMQ, from how the code uses it (external) |
| `Crash` | a process dies and restarts (external) |

Abstractions, in the order in which they matter:

* The work between `building` and the record of the new version on the `apps` row
  (clone, detect, build, scan, push, runner, hooks) is one step with two outcomes.
  What a half-done runtime leaves on the host belongs to the runner's module.
* Time is a flag. A row may become overdue at any moment while it is active, so a
  deploy that is alive and slow is reaped as well.
* A failing query is modelled where it changes the outcome: the claim, the two
  statements of the `finally` block, the `catch` block's own update, everything
  before the `try` block.
* In the cancel route the check of the row and the removal of the jobs are one
  step; the write is another.
* Jobs of the image watcher carry `imageUpdate`, which changes the fallback of the
  `catch` block; they are in `ImageUpdate`.

### `DatabaseRotation`

One managed database, the applications linked to it, and any number of calls of
`rotatePassword`. A login is a user name and a password; the name is the number of
`_new` suffixes, as the code builds it, and for Redis always `default_new` after
the first. `accounts` is what the database accepts, `row` what `databases` records,
`secret[a]` what the linked secrets of an application hold, `env[a]` what its
running container got. Any number of calls may overlap, because the lock is checked
in one statement and set in another.

Four history variables say what happened. `touched` collects the applications that
users link or unlink; the properties speak of the others, `Steady`. `blind` are the
logins that a call took for created without a confirmation, `crossed` says that a
call went past its `CREATE USER` beside another one or over a row that had changed
since it read it, `torn` are the applications whose secrets were deleted by a call
that stopped before it inserted them again.

| Action | Code |
|---|---|
| `Begin`, `LockRow` | the preconditions; the update of `rotation_in_progress` |
| `AddUser`, `WriteRow` | `addNewPassword` over `execInDbContainer`; history and `databases` |
| `ReadLinks`, `DeleteSecrets`, `InsertSecrets` | the loop over the links (also that of the rollback) |
| `Enqueue`, `PollHealthy`, `PollGivesUp`, `DropOld`, `Finish` | redeploy jobs, the poll, `dropOldUser`, the unlock |
| `UndoRow`, `UndoLinks`, `UndoEnqueue`, `UndoDrop`, `UndoFails`, `Unlock` | `rollbackRotation` |
| `Throws`, `Release`, `ReleaseFails` | the `catch` block |
| `RedeployJob` | `handleDeploy` rejects the payload of a redeploy job |
| `DeployStart`, `DeployEnd`, `DeployFails` | a user's deploy, as far as the rotation sees it |
| `LinkRead`, `LinkWrite`, `Unlink` | the link routes |
| `Crash` | the process dies and restarts (external) |

The variables of one link are one set: a failure inside the loop that inserts them
is a failure before it. What the commands do follows from how they connect:

* An exec that ends without an exit frame, or is closed after 15 seconds, counts as
  exit code 0 (`rotation.ts:106-121`), so `AddUser` may always go on without a user.
  That such an exec takes effect later is not modelled.
* `psql` connects as the old user. Only the first one, `POSTGRES_USER` of the template
  and so a superuser, may create users: the second rotation of a PostgreSQL database
  is always refused unless its exec goes unanswered (`CanAdd`).
* The old user is dropped as the new one, a plain role, which may not drop the
  superuser or anybody else; the failure is logged (`DropUser`). Only the rollback of
  a first rotation, which connects as the superuser, drops a user.
* `mongosh` connects without a login and is refused. `redis-cli` gets the command as
  one word and without a login, fails, and ends with exit code 0: every Redis rotation
  records a login that was never created.

Kinds for which the code has no command are left out.

### `ScheduledJobs`

A call of `runScheduledJobNow` and its run row share a name, which is used again
once the row is closed. Time is two flags, `due` and `stale`. What a claim takes
for stale is fixed when the call begins (`startedAt`), not when its transaction
runs, and `_activeJobs` is read then and written only after the claim.

| Action | Code |
|---|---|
| `Begin` | `runScheduledJobsTick` or `POST /:id/run`, to the check of `_activeJobs` |
| `Claim`, `ClaimFails` | the transaction of `claimScheduledJobRun`, with the unique index |
| `Activate`, `ExecEnds` | `_activeJobs.add`; the command and the `finally` block, which runs as soon as the last transaction is under way |
| `Finish`, `FinishFails` | that transaction: it writes the run and, with the `next_run_at` that the claim computed, the job |
| `Patch` | `PATCH /:id`: `enabled`, and a `next_run_at` that it read or computed |
| `BecomesDue`, `Age` | time |
| `Reuse`, `Crash` | a new call; a process dies (external) |

### `ContainerRunner`

One application of the Docker runtime. `slot[c]` is the container that has the
name of colour `c`, with the operation that created it as its Docker id and its
health; `route` is its upstream in Caddy; `row` has `status`, `container_id` and
whether `updated_at` lies within the reconciler's grace window. An operation `op[o]`
is one call of a deploy, restart, stop, rollback or deletion: it has a step, the
colour that it took for the current one, and the status that it read. `mixed` is a
history variable: something other than a deploy has started.

| Action | Code |
|---|---|
| `Deploy`, `Restart`, `Stop`, `Rollback`, `Delete` | the handlers and routes, up to the first await on the host |
| `QueueAdd`, `EnqueueFails`, `ClaimDelete`, `Erase` | `enqueueAppDeleteJob` and `handleDeleteApp` |
| `HaltStop`, `HaltRemove`, `Unroute`, `Settle` | `stopApp`, and the first half of `restartApp`; both colours side by side |
| `ReadColors`, `Create`, `Inspect`, `EvictStop`, `EvictRemove`, `Recreate` | the choice of the colour and `createContainerWithStaleSlotRecovery` |
| `Start`, `pollHealthcheck`, `Cleanup`, `Switch`, `Mark`, `Drain`, `OldStop`, `OldRemove` | the rest of `runBlueGreen`; a rollback goes from `Start` to `Switch`, removes the old container and writes the row last |
| `Throw`, `Thrown` | an escaping error: the `catch` block of the deploy handler, which writes a status, and the others, which write none |
| `TickRead`, `OtherGet`, `Patch` | the route cron; `putRouteFirst` for another application or service, which writes our route back as it read it. `push` is the set of routes that upserts under way will write; any number may overlap, as the two reconcilers of one tick do |
| `GetRead`, `GetWrite`, `GraceEnds` | `reconcileAppStatus` behind `GET /apps`, and its window of sixty seconds |
| `AutoHeal`, `GcOrphans`, `BootIngress`, `BootRecover` | the crons and the boot |
| `Probe`, `CaddyForgets`, `Crash` | Docker, Caddy, the process (external) |

A container's name is its colour, so a call by name meets whatever has the name at
that time, and a call by id fails once the container was replaced: that is where
operations disturb each other. Abstractions: the agent reports a container
within one step; `GetWrite` writes both columns in one step (the code uses two
statements); our own `setUpstream` is one step, those of others are two; the grace
period of thirty seconds outlasts a request for the status that was under way when it
began (`Drain`); the collector's 24 hours outlast every operation
(`GcOrphans` waits for `Quiet`). A deploy also reads the build rows for the current
colour, but these hold Docker ids, which name none.

### `PushDeploy`

One application and its branch. Requests are numbered as they arrive; `Push[r]` is
the push that request `r` delivers, so two requests may carry the same body.
`delivery` and `build` are the rows that a request wrote, `job` the jobs under
their ids (the base key, the base key with a count, or a fresh one), `queue` the
waiting ones. `crowd` and `by` are history variables: requests whose handling
overlapped, and the request whose handler removed a job.

| Action | Code |
|---|---|
| `Receive` | the webhook route: the look-up of the body's hash, then `queueMicrotask` |
| `GetJob`, `GetState`, `resolveCoalesceJobId`, `Drop`, `Mark` | the coalescing part of `handlePushGeneric`, a step for each await |
| `InsertDelivery`, `createPendingBuild`, `Add` | its end, also that of a filtered push and of a tag |
| `Abort` | an error, which is logged after the request was answered |
| `Take`, `Resolve`, `ResolveFails` | a slot of the deploy Worker takes a job and awaits `resolveDeployJobAppId`; then the job joins the `line` for the application's lock |
| `Succeed`, `Fail` | an attempt of `handleDeploy`, at the head of the line |
| `Promote` | BullMQ (external) |

`overtaken` records the requests that a newer one passed between slot and lock,
`gaveUp` those whose last attempt ended before the lock. A refused claim, a user's
cancellation and the reaper are in `DeployPipeline`.

### `ImageUpdate`

One application that runs an image. Digests are numbered in the order in which the
tag takes them: a tag that moves back to an old digest is not modelled.

| Action | Code |
|---|---|
| `TickRead`, `TickDigest`, `TickBaseline`, `TickReserve`, `TickEnqueue` | `runImageUpdateWatchOnce` and `triggerRedeploy` |
| `Claim`, `ReadApp`, `CancelStale`, `Start`, `GoLive`, `Finalize`, `End` | `handleDeploy` with `imageUpdate`, or a deploy by hand |
| `LostAccess` | its early return when the user of a manual deploy has lost the application |
| `Catch`, `Release` | its `catch` block |
| `Bail` | an error between the claim and the `try`, in the `catch` or in the `finally` block: the row may go on to say `running`, which no retry can claim |
| `SetTracking`, `Deploy`, `Cancel` | the routes |
| `Reap`, `Crash`, `Promote`, `MoveTag` | the reaper; the process, BullMQ and the registry (external) |

`broke` is a history variable. It records the events after which the code leaves a
reservation or a status behind (section 7): a fatal error before the last attempt, an
error outside the `try` block, a cancellation, a crash, tracking turned off while
something is reserved, a deploy by hand that fails over a status other than
`running`, and an update that the reaper cancels while it waits, or before a retry.
The reaper itself cancels every row that is pending or has been running for half an
hour, also one whose worker is alive; when that worker succeeds it settles its
reservation and nothing is left behind. A row without `started_at` (`claimed`) is
never old.

### `RefreshSession`

One session, the tabs of a browser and the cookies they share. Tokens are numbered.
`rotated` says whether the last exchange is within the ten seconds in which the API
takes an old token for that of a slower tab.

| Action | Code |
|---|---|
| `Call`, `Send`, `Receive`, `LoseAnswer`, `Retry` | `apiFetchCore` and `doRefresh` in a tab, which has one refresh in flight |
| `Verify`, `Recheck`, `Revoke`, `Rotate` | `POST /auth/refresh` |
| `Logout` | `POST /auth/logout`, or the revocation from another session |
| `Expire`, `Age` | time |

`excuse` records what may end a session: a logout, an answer that got lost, an
exchange that is older than ten seconds while a refresh is under way. The expiry of
a session after seven days is left out.

## 4. The runs

Every bound is a constant in a `.cfg`. `TypeOK` is checked for the
pipeline and for the pushes; for every module type correctness is a theorem for all
values of the constants (section 5).

| Run | Instance | Shows |
|---|---|---|
| `keyed_lock` | 4 calls, 2 keys | mutual exclusion, exact map, refinement of `FifoLock`, no starvation |
| `deploy_redelivery` | 1 build with 2 attempts, 2 processes with a slot each, 1 stall, 1 crash | without a common lock the claim alone gives one driver, one go-live, truthful rows, sticky terminal statuses |
| `deploy_two_builds` | 2 builds of one application, 2 slots of 1 process, one build may be cancelled | the lock keeps deploys apart; a cancel removes the sibling's job |
| `deploy_live` | fairness; 1 build, 2 slots, 1 stall, 1 crash, a cancel | pending rows are decided, started builds end, jobs end |
| `rotation` | fairness; PostgreSQL, 1 linked application, 2 calls one after the other or overlapping, 1 deploy, link or unlink, 1 crash or lost release (1,072,435 states) | the row and the secrets of an application that stays linked name no refused login and follow the row, also after a failed, rolled back, overlapping, unanswered or interrupted rotation; the lock is released |
| `rotation_redeploy` | as above, 2 linked applications | finding: a completed rotation reports applications as redeployed that run with the old login |
| `scheduled` | fairness; 1 job, 2 calls in 1 process whose names are used again, 1 crash, 1 patch | no double execution in a process, only overdue runs replaced, the newest run holds the running row, due jobs run, abandoned rows are closed |
| `container_runner` | any 2 operations of any kind, 1 mishap (3,590,939 states) | while only deploys run, the row names a container that passed its health check and was not stopped |
| `container_live` | fairness; a deploy, a deletion and the recovery at boot, 1 mishap (454,787 states) | row and containers converge, and the route again and again, beside upserts that overlap; a deleted application keeps no running container |
| `push` | fairness; 4 requests (2 pushes, a repetition, a filtered one), 2 slots, 2 attempts, 1 failure (414,382 states) | no accepted push is swallowed by the id of an older job, deploys are in order unless overtaken before the lock, accepted pushes land |
| `image_update` | fairness; 3 digests, 5 jobs, 2 attempts, 3 mishaps or acts of users (360,947 states) | updates go forward, the row names digests that were live, a reservation has an owner, the row catches up |
| `refresh` | 3 tabs, 4 tokens, 1 lost answer | a token is exchanged once, tabs do not end each other's session, the cookie follows the row, revocation is final |

Why the bounds are enough for the interesting cases: a redelivery needs one stall
or crash and a second slot, a retry needs two attempts, a sibling needs a second
build, a retried rotation a second password, a late finish a second call. For the
runner, two operations and one mishap make every eviction, every late write and
every recovery happen; with a crash one operation is left for the boot. A push is
swallowed by the job of the push before it, so two pushes and a repetition do; two
slots, the default of `PLOYDOK_DEPLOY_CONCURRENCY` (`env.ts:45`), let one overtake
the other. Two rotations are the retry of a failed one, or overlap. The
order of updates needs three digests: the one that was dropped, the one that was
reserved after it, and the first. Three tabs make one win, one lose at the exchange
and one lose at the check. The theorems do not depend on the bounds.

**Fairness.** Handlers go on (`WF` of a slot's steps and of taking a job), BullMQ
eventually notices a job whose owner is gone, the reaper's timer fires, time
passes. Nothing forces a user to deploy or to cancel, or a process to crash. A
stalled job that is *not* abandoned is not fair: a live slot renews its lock.
A rotation that has begun goes on: its queries, its exec (15 s) and its poll
(5 min) all end. For the scheduled jobs the timer fires, commands end (they have a
timeout), time passes, and a claim that could succeed is not rolled back for ever
by failing queries (`SF`). Users' patches are bounded, since each may move
`next_run_at` away.
In `ContainerRunner` operations go on, a process that died boots, Docker probes, and
the route cron, the collector and requests for the status keep coming; a push of the
cron reaches Caddy, in whatever order with other upserts. Nothing makes the others
stop, so `Converges` asks for the right route again and again: an upsert that read
the list before the cron healed it may undo the healing at every tick. `Converges`
also holds for deploys beside restarts and beside rollbacks without a mishap; with
one those instances are too large for a run. In `PushDeploy` handlers go on, and so do
the worker and the backoff; which handler or job comes next is open. In `ImageUpdate`
the watcher, the handler with the claims and the backoff go on.

## 5. What is proved

`KeyedLockProofs`: the invariant `ChainInv` says that the unfinished calls of a
key form one chain, from the call whose predecessor is resolved to the one in the
map. Mutual exclusion, the exact map and every step of the refinement follow.

`DeployPipelineProofs`: `IInv` is type correctness with `Core`, a conjunction of
`OneDriver`, `OutcomeIsTrue`, `SlotInv` and the bounds on `wentLive`. None is
inductive alone: `OutcomeIsTrue` needs to know that the status a slot is about to
write agrees with what happened to the image (`SlotInv`), that needs the slot to
be the only driver (`OneDriver`), and `OneDriver` needs that a row a slot drives
is `running` or `cancelled`, so that nobody can claim it. The argument has one
step for each group of actions: those that leave the watched variables alone,
those that write a row through `updateBuildStatus`, those of a slot.
`SequentialInProcess` follows from the lock's holder being unique and
`TerminalIsSticky` from the conditional update.

The proofs assume only the typing of the constants (`PipelineAssumption`).
`PipelineSlotInv` is the middle of that argument as a theorem.

`DatabaseRotationProofs`: for any number of calls that overlap in any way, any kind of
database, and execs that answer or do not; of the constants only their typing is
assumed. Until calls cross (`Orderly`), one call at most is past its `CREATE USER`
(`OnePast`), the invariant says for every point of it which login the row holds and
which secrets are already replaced (`RowPhase`, `SecretPhase`), and the login to fall
back to is one that works or was never confirmed (`Trusted`). `Core` also says that
calls can only cross when an exec went unanswered (`crossed => blind # {}`): the first
user is the only one who may create users (`Shape`), so a second call finds the name
taken and is refused. Nothing is claimed after both, calls that crossed and an exec
without an answer (`Excused`).

`ScheduledJobsProofs`: a claim replaces only rows that were stale when it began.
`SeenInv` (what a call saw as stale still is) carries that from the check to the
transaction; with it "only overdue runs are replaced" and "the newest run holds the
running row" are inductive together.

With one process, `OneInProcess` follows as well (`ScheduleOneInProcess` assumes it).

`ContainerRunnerProofs`: for any number of operations and mishaps. `Core` says, as
long as nothing but deploys has started, what a deploy knows at each step. Before it
writes the row, the colour it read is the one in the row, so whatever it evicts or
cleans up is the other one; after the write the colour it read is the other one, so
what it removes is not what the row names. Neither is inductive without the rest:
deploys are one at a time, the status reconciler does not correct the container of a
row whose container exists, and a container that passed the check is still the
deploy's own (`Checked`). With the last, the row names only containers that were
checked. Mishaps may come at every step.

`ImageUpdateProofs`: for any digests, jobs and attempts. `Ordered` says that digests
grow along the way of an update: queued jobs, what is live and what the row records
are at most the reservation, the reservation is at most what the watcher read, that
at most the tag; a job that is past the check of its reservation is not older than
what is live. `Forward` needs it at `GoLive`, and the check of the handler
establishes it. `Owned` alone is not inductive: that a job with the reserved digest
exists does not say that it is the only one, and a second one could give the
reservation away. `Reserved` therefore says, until `broke`, that the reservation is a
lock with one owner (`OneOwner`: the watcher until it has queued the job, then that
job until it is finalized or gives up), and that a job which is to be run again has a
build row that the claim accepts (`RowsFollow`), since a job whose claim is refused
ends without giving anything back. This is where the reaper, which may cancel any
row, and errors outside the `try` block matter. `OneUpdateInFlight` is what it says besides.

`PushDeployProofs`: for any requests, repetitions, tags, slots, attempts and
failures, with and without coalescing. `IInv` has these parts besides the three
properties:

* `Queued` and `JobsKnown`: the queue holds waiting jobs, each once, and a job belongs
  to a request whose handler is done.
* `KeysKnown`: who uses which id. The suffix next to an active job is the number of
  deliveries. It is a new id because the number in the id of every job, and of every
  handler past `insertDelivery`, is smaller, which in turn holds because the handler
  that chose a number has since added a delivery itself.
* `InTurn` and `Alone`: a handler that is not in `crowd` is the only one, later
  requests have not been handled, and the id that it chose is still free. So its
  `add` is not ignored (`NotSwallowed`), and its request is newer than all that waits,
  runs or is deployed.
* `Lanes`: take a job that was never tried, whose push was handled alone and was not
  overtaken (`Clean`). No newer job is before it in the queue, in a slot while it
  waits, or before it in the line for the lock.
* `Ahead`: nothing newer was deployed before such a job. Only the head of the line goes
  live, so `InOrder` follows at `Succeed`, for any number of slots.

`SinglePushesAreKept` rests on `OwnJobs`: a push with an id of its own never meets
another handler's job, so it needs no condition on overlapping handlers. Of the
constants the proofs assume `PushAssumption`, which is their typing.

`RefreshSessionProofs`: for any tabs, tokens and lost answers. Tokens come from a
counter and the session has the newest (`Counted`), a token on its way is known to
nobody else (`Unseen`), the jar lacks the newest only while it is on its way
(`Covered`), and without an excuse a token that does not match was exchanged in the
last ten seconds (`Calm`), so that no tab is taken for a replay.

## 6. Only model-checked

Liveness (`EveryCallEnters`, `StartedEnds`, `JobsEnd`, `PendingIsDecided`,
`LockEnds`, `DueJobRuns`, `RunsEnd`, `Converges`, `Forgotten`, `Lands`, `CatchesUp`)
is checked by TLC on the instances above; the prover does not handle fairness. Every
other property of a passing run is also a theorem.

## 7. Further divergences

Met while modelling, found by TLC on these modules with the property given here
where there is one, and not kept as runs:

* `reap-stuck-builds.ts:48-50` says the reaper covers a worker that crashed and left a
  row `running`, and `deploy.ts:411` "On any error: mark build `failed`". A row is
  claimed before `started_at` is set; a throw or a crash in between leaves it `NULL`,
  and `lt(started_at, threshold)` is never true of `NULL`
  (`bstatus[b] = "running" ~> bstatus[b] # "running"`).
* `deploy.ts:1623-1624` says "a failed redeploy must NOT overwrite" `running`. The
  `catch` block compares the status that the handler read at its start, and that is
  `building` when an earlier deploy died; the next failed deploy writes `failed` over
  a live application.
* `rotation.ts:6` says "Lock the database row". The flag is read at 268 and set
  without a condition at 308-311: two calls both rotate
  (`Cardinality` of the calls past `LockRow` is at most 1). When the exec of one of
  them gets no answer, the row and the secrets may end with a login that the other
  dropped (`RowLoginWorks` without `Excused`).
* `rotate-databases.ts:69` logs "will retry". An error between the creation of the
  user and the update of the row leaves the user `<name>_new`, and every later
  `CREATE USER` of that name fails. So does the second rotation of any PostgreSQL
  database, which connects as a role that may not create users.
* `rotation.ts:14` says "DROP old user". The new role may not drop the superuser; the
  failure is logged and the old password stays valid. After a MongoDB or Redis
  command the code does not know what the server did: `mongosh` is refused, and
  `redis-cli` ends with exit code 0 although no user was created.
* An error or a crash between the delete and the insert of a link's secrets
  (`rotation.ts:388`) leaves the application without them; no later step restores
  them before the next rotation (`SecretsWork` without `torn`).
* `builds` of a cancelled deploy: a build is cancelled in flight, its handler marks
  the application `building` and dies. The row is terminal, so the reaper never
  repairs `apps.status`, although `reap-stuck-builds.ts:51-52` promises no
  "perpetually spinning deployment" (`astatus[a] = "building" ~> astatus[a] # "building"`).
* `worker/index.ts:233-234` says the lock "keeps same-app deploys sequential". It
  does so in one process (`SequentialInProcess`); two processes overlap during an
  update of the service.
* `routes/apps.ts:1843-1845` says a build cancelled in flight flips back to
  `succeeded`. `updateBuildStatus` writes only active rows, so it stays
  `cancelled`, also when the image went live.
* A link request that read the connection string before a rotation and writes after
  it keeps the old login (`SecretsFollowRow` for all of `links`).
* A claim of a scheduled job closes an overdue row with "Previous runner stopped
  before recording completion" (`scheduled-jobs-runner.ts:347`) while a runner in
  another process may still be executing.
* `runner.ts:1397` says "runBlueGreen already wrote "failed" via its own DB update path
  on error". It writes no status on its error path; a restart that fails leaves
  `restarting`, which neither the status reconciler nor the reaper touches.
* A rollback removes the old container before it writes the row, so an error or a
  crash in between leaves a row that names a container that is gone (`RowServed`
  with rollbacks). It also routes to the new container before any health check.
* A process that dies after it claimed a deletion leaves the application in
  `deleting`: the redelivered job cannot claim a row that is `running`.
* `gc-orphan-containers.ts:20-24` says it "Protects against leftover blue/green
  containers when a deploy crashes between DB commit and container cleanup". It removes
  only containers whose application has no row; a leftover of an application that
  exists stays until the next deploy evicts it.
* `push.ts:262-266` marks a delivery `coalesced` only when it did not run, since
  otherwise it "would be a lie". `findRecentEnqueuedDeliveryByApp` says "the most
  recent" (`webhook-deliveries.ts:43`) and has no `ORDER BY`: it may mark a push that was deployed
  (`delivery[r] = "coalesced" => build[r] # "succeeded"`).
* Two handlers of pushes that overlap both add the base key: one add is ignored and
  its build waits for the reaper (`NotSwallowed` without `crowd`). A handler that
  removes a job which has just become active throws, and the push is lost.
* `insertDelivery` stores no body (`deliveries.ts:90-98`), so `replayDelivery` always
  throws `ReplayPayloadMissingError`.
* `image-update-watch.ts:7` says "Any later digest change triggers a redeploy". The
  `catch` block gives the reservation back when the attempts are used up, but an error
  that is fatal ends the job before, and so do an error outside the `try` block (the
  row stays `running` and refuses the retry), a cancellation, a crash, and the reaper
  when it cancels an update that has waited for half an hour. The reservation stays
  and no later digest is deployed (`CatchesUp` without `broke`). When tracking is turned off and on,
  the cancelled update leaves the status `pending`, which the watcher does not look at.
* `worker/index.ts:233-234` serialises the deploys of an application, and not in their
  order: with two slots a newer push may pass an older one while both await
  `resolveDeployJobAppId` (`InOrder` without `overtaken`).
* `caddy-reconcile.ts:16-18` says that a tick "does GETs only" when Caddy has every
  route. `reconcileCaddyRoutes` always writes, beside `reconcileServiceRoutes`, over a
  list that both read as a whole, so the two may undo each other's routes.
* A refresh whose answer is lost leaves the browser with an old token; its next
  refresh after ten seconds counts as a replay and ends the session
  (`TabsAgree` without `excuse`).
* Swarm, from reading: the deletion, the restart, auto-heal and the boot call the
  Docker runner's `stopApp` and `restartApp` for applications of the Swarm runtime
  too; a service that was created and did not become healthy is not recorded.

## 8. Not modelled

The map covers a few percent of the repository's lines. Most of the rest has no state
that two actors share, and a model of it would restate it:

* The front end (pages, forms, generated routes) is about a third of the code. Its one
  protocol with the API, the refresh of a session, is in `RefreshSession`.
* Generated code (`packages/agent-proto`), schema, validation of requests and
  serialisation.
* Routes that read or update one row (settings, domains, environment variables,
  organizations, billing, marketplace, advisories).
* Builders, scanners, log archive, registry and image collection, backups: external
  commands, files and uploads. Their effect on a deploy is one step of `DeployPipeline`.
* Login, WebAuthn, TOTP, SSO, personal access tokens, the audit chain: cryptography
  and look-ups. A backup code is consumed by one conditional update.
* The Swarm runner and the migration of Docker applications to Swarm at boot: Swarm
  does the rolling update itself. A module would need a model of Swarm's tasks that
  this code does not determine.
* Previews: jobs of their own, next in the plan.
* Event webhooks: a sequential loop of attempts.
