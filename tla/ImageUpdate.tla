---------------------------- MODULE ImageUpdate ----------------------------
(***************************************************************************)
(* The automatic update of one application that runs an image: the watcher *)
(* asks the registry for the digest behind the tag, reserves a new digest  *)
(* in the application's row and queues a deploy that is pinned to it; the  *)
(* deploy handler checks the reservation again and settles it at the end.  *)
(*                                                                         *)
(* The watcher reads the row, waits for the registry and then writes, next *)
(* to deploys, to a user who turns tracking off and on, deploys by hand or *)
(* cancels a build, and to a process that dies.  Digests are numbered in   *)
(* the order in which the tag takes them; 0 is NULL.                       *)
(***************************************************************************)
EXTENDS Naturals

CONSTANTS
    MaxDigest,   \* a bound: the digests that the tag takes
    MaxJobs,     \* a bound: the deploy jobs
    MaxAttempts, \* attempts of an update's job (deployDefaults)
    MaxTrouble   \* a bound: failures, cancellations, reaped builds, toggles, crashes

ASSUME ImageAssumption ==
    /\ MaxDigest \in Nat \ {0} /\ MaxJobs \in Nat
    /\ MaxAttempts \in Nat \ {0} /\ MaxTrouble \in Nat

VARIABLES
    registry, \* the digest behind the tag
    app,      \* the row: status, track_latest, last_ and pending_image_digest
    tick,     \* the watcher: its step, the digest it read of the row, and of
              \* the registry
    jobs,     \* jobs[j]: a deploy job, with the status of its build row, which
              \* is "claimed" while it is "running" without a started_at
    worker,   \* the handler under the application's lock: its step, its job,
              \* the status that it read of the row, and whether it may retry
    pinned,   \* the digest that an update put live last
    shipped,  \* the digests that an update put live, and the baseline
    broke,    \* something happened after which the code leaves a reservation
              \* or a status behind that stops the updates (see Owned)
    trouble   \* how much went wrong

vars == <<registry, app, tick, jobs, worker, pinned, shipped, broke, trouble>>

Digests == 0..MaxDigest
Jobs    == 1..MaxJobs
Status  == {"running", "pending", "building", "failed"}
NoJob   == [kind |-> "none", from |-> 0, to |-> 0, build |-> "none",
            st |-> "none", made |-> 0]

TypeOK ==
    /\ registry \in 1..MaxDigest
    /\ app \in [status : Status, track : BOOLEAN, last : Digests, pending : Digests]
    /\ tick \in [pc : {"idle", "digest", "baseline", "reserve", "enqueue"},
                 last : Digests, to : Digests]
    /\ jobs \in [Jobs ->
          [kind : {"none", "update", "manual"}, from : Digests, to : Digests,
           build : {"none", "pending", "claimed", "running", "succeeded", "failed",
                    "cancelled"},
           st : {"none", "waiting", "delayed", "active", "ended"}, made : 0..MaxAttempts]]
    /\ worker \in [pc : {"idle", "read", "cancel", "start", "run", "finalize", "end", "release"},
                   j : 0..MaxJobs, status : Status, fatal : BOOLEAN]
    /\ pinned \in Digests /\ shipped \subseteq Digests
    /\ broke \in BOOLEAN /\ trouble \in 0..MaxTrouble

Trouble   == trouble < MaxTrouble /\ trouble' = trouble + 1
TickIdle  == [pc |-> "idle", last |-> 0, to |-> 0]
NotBusy   == [pc |-> "idle", j |-> 0, status |-> "running", fatal |-> FALSE]
Job       == jobs[worker.j]
IsUpdate  == Job.kind = "update"
Active    == {"pending", "claimed", "running"}
Attempts(j) == IF jobs[j].kind = "update" THEN MaxAttempts ELSE 1

-----------------------------------------------------------------------------
(* The registry, which is not part of the repository.                       *)

MoveTag ==
    /\ registry < MaxDigest
    /\ registry' = registry + 1
    /\ UNCHANGED <<app, tick, jobs, worker, pinned, shipped, broke, trouble>>

-----------------------------------------------------------------------------
(* runImageUpdateWatchOnce, for this application; one tick at a time.       *)

(* fetchImageWatchCandidates, and what is skipped.                         *)
TickRead ==
    /\ tick.pc = "idle"
    /\ app.track /\ app.status = "running" /\ app.pending = 0
    /\ tick' = [pc |-> "digest", last |-> app.last, to |-> 0]
    /\ UNCHANGED <<registry, app, jobs, worker, pinned, shipped, broke, trouble>>

(* agent.registryImageDigest, compared with the row as it was read.        *)
TickDigest ==
    /\ tick.pc = "digest"
    /\ \/ /\ tick' = CASE tick.last = 0 -> [tick EXCEPT !.pc = "baseline", !.to = registry]
                       [] tick.last = registry -> TickIdle
                       [] OTHER -> [tick EXCEPT !.pc = "reserve", !.to = registry]
          /\ UNCHANGED trouble
       \/ Trouble /\ tick' = TickIdle
    /\ UNCHANGED <<registry, app, jobs, worker, pinned, shipped, broke>>

(* The first observation; the UPDATE has no condition but the id.          *)
TickBaseline ==
    /\ tick.pc = "baseline"
    /\ app' = [app EXCEPT !.last = tick.to]
    /\ shipped' = shipped \cup {tick.to}
    /\ tick' = TickIdle
    /\ UNCHANGED <<registry, jobs, worker, pinned, broke, trouble>>

(* The condition of the UPDATE that reserves.                              *)
Reservable == app.track /\ app.last = tick.last /\ app.pending = 0

(* A mutant: the digest counts as deployed when it is reserved.            *)
ReserveRecords ==
    /\ tick.pc = "reserve"
    /\ \/ /\ Reservable
          /\ app' = [app EXCEPT !.pending = tick.to, !.last = tick.to, !.status = "pending"]
          /\ tick' = [tick EXCEPT !.pc = "enqueue"]
       \/ /\ ~Reservable
          /\ tick' = TickIdle
          /\ UNCHANGED app
    /\ UNCHANGED <<registry, jobs, worker, pinned, shipped, broke, trouble>>

(* triggerRedeploy: the reservation.                                       *)
TickReserve ==
    /\ tick.pc = "reserve"
    /\ \/ /\ Reservable
          /\ app' = [app EXCEPT !.pending = tick.to, !.status = "pending"]
          /\ tick' = [tick EXCEPT !.pc = "enqueue"]
       \/ /\ ~Reservable
          /\ tick' = TickIdle
          /\ UNCHANGED app
    /\ UNCHANGED <<registry, jobs, worker, pinned, shipped, broke, trouble>>

(* A mutant: the release does not restore the status.                      *)
EnqueueKeepsStatus ==
    /\ tick.pc = "enqueue"
    /\ \/ \E j \in Jobs :
             /\ \A i \in 1..(j - 1) : jobs[i] # NoJob
             /\ jobs[j] = NoJob
             /\ jobs' = [jobs EXCEPT ![j] =
                   [kind |-> "update", from |-> tick.last, to |-> tick.to,
                    build |-> "pending", st |-> "waiting", made |-> 0]]
             /\ UNCHANGED <<app, trouble>>
       \/ /\ Trouble
          /\ app' = IF app.pending = tick.to THEN [app EXCEPT !.pending = 0] ELSE app
          /\ UNCHANGED jobs
    /\ tick' = TickIdle
    /\ UNCHANGED <<registry, worker, pinned, shipped, broke>>

(* The build row and the job, or the release when one of them fails.       *)
TickEnqueue ==
    /\ tick.pc = "enqueue"
    /\ \/ \E j \in Jobs :
             /\ \A i \in 1..(j - 1) : jobs[i] # NoJob
             /\ jobs[j] = NoJob
             /\ jobs' = [jobs EXCEPT ![j] =
                   [kind |-> "update", from |-> tick.last, to |-> tick.to,
                    build |-> "pending", st |-> "waiting", made |-> 0]]
             /\ UNCHANGED <<app, trouble>>
       \/ /\ Trouble
          /\ app' = IF app.pending = tick.to
                    THEN [app EXCEPT !.pending = 0, !.status = "running"] ELSE app
          /\ UNCHANGED jobs
    /\ tick' = TickIdle
    /\ UNCHANGED <<registry, worker, pinned, shipped, broke>>

-----------------------------------------------------------------------------
(* handleDeploy, as far as it concerns an image.                            *)

(* claimQueuedRow: a retry may claim a failed row, which has its           *)
(* started_at from the attempt before.                                     *)
Claimable(j) == jobs[j].build = "pending" \/ (jobs[j].made > 0 /\ jobs[j].build = "failed")
Claimed(j)   == IF jobs[j].build = "pending" THEN "claimed" ELSE "running"

(* The lock and the claim; a job whose row cannot be claimed ends.         *)
Claim(j) ==
    /\ worker.pc = "idle"
    /\ jobs[j].st = "waiting"
    /\ \/ /\ Claimable(j)
          /\ jobs' = [jobs EXCEPT ![j].build = Claimed(j), ![j].st = "active"]
          /\ worker' = [NotBusy EXCEPT !.pc = "read", !.j = j]
       \/ /\ ~Claimable(j)
          /\ jobs' = [jobs EXCEPT ![j].st = "ended"]
          /\ UNCHANGED worker
    /\ UNCHANGED <<registry, app, tick, pinned, shipped, broke, trouble>>

(* A mutant: only the tracking is looked at again.                         *)
StaleTracking == IsUpdate /\ ~app.track

(* The reservation is not what it was when the job was queued.             *)
Stale ==
    /\ IsUpdate
    /\ ~app.track \/ app.last # Job.from \/ app.pending # Job.to

(* getAppForDeploy.                                                        *)
ReadApp ==
    /\ worker.pc = "read"
    /\ worker' = [worker EXCEPT !.pc = IF Stale THEN "cancel" ELSE "start",
                                !.status = app.status]
    /\ UNCHANGED <<registry, app, tick, jobs, pinned, shipped, broke, trouble>>

(* What a write of a final status leaves in the row: the user or the       *)
(* reaper may have cancelled it.                                           *)
Outcome(status) == IF Job.build = "cancelled" THEN "cancelled" ELSE status

(* BullMQ: where a failed attempt leaves the job.                          *)
After(fatal) == IF fatal \/ Job.made + 1 = Attempts(worker.j) THEN "ended" ELSE "delayed"

(* The update is not wanted any more.  The status stays as it is: the      *)
(* "pending" that the reservation wrote is left behind.                    *)
CancelStale ==
    /\ worker.pc = "cancel"
    /\ jobs' = [jobs EXCEPT ![worker.j].build = "cancelled", ![worker.j].st = "ended"]
    /\ app' = IF app.pending = Job.to THEN [app EXCEPT !.pending = 0] ELSE app
    /\ worker' = NotBusy
    /\ UNCHANGED <<registry, tick, pinned, shipped, broke, trouble>>

(* The user who asked for the deploy has lost the application meanwhile.   *)
LostAccess ==
    /\ worker.pc = "start" /\ ~IsUpdate
    /\ Trouble
    /\ jobs' = [jobs EXCEPT ![worker.j].build = Outcome("failed"), ![worker.j].st = "ended"]
    /\ worker' = NotBusy
    /\ UNCHANGED <<registry, app, tick, pinned, shipped, broke>>

Start ==
    /\ worker.pc = "start"
    /\ jobs' = [jobs EXCEPT ![worker.j].build = Outcome("running")]
    /\ app' = [app EXCEPT !.status = "building"]
    /\ worker' = [worker EXCEPT !.pc = "run"]
    /\ UNCHANGED <<registry, tick, pinned, shipped, broke, trouble>>

(* runBlueGreen, with the pinned reference or with the tag.                *)
GoLive ==
    /\ worker.pc = "run"
    /\ app' = [app EXCEPT !.status = "running"]
    /\ pinned' = IF IsUpdate THEN Job.to ELSE pinned
    /\ shipped' = IF IsUpdate THEN shipped \cup {Job.to} ELSE shipped
    /\ worker' = [worker EXCEPT !.pc = IF IsUpdate THEN "finalize" ELSE "end"]
    /\ UNCHANGED <<registry, tick, jobs, broke, trouble>>

(* The digest becomes the last one, if the reservation still stands.       *)
Finalize ==
    /\ worker.pc = "finalize"
    /\ app' = IF app.track /\ app.pending = Job.to
              THEN [app EXCEPT !.last = Job.to, !.pending = 0] ELSE app
    /\ worker' = [worker EXCEPT !.pc = "end"]
    /\ UNCHANGED <<registry, tick, jobs, pinned, shipped, broke, trouble>>

End ==
    /\ worker.pc = "end"
    /\ jobs' = [jobs EXCEPT ![worker.j].build = Outcome("succeeded"), ![worker.j].st = "ended",
                            ![worker.j].made = @ + 1]
    /\ worker' = NotBusy
    /\ UNCHANGED <<registry, app, tick, pinned, shipped, broke, trouble>>

(* What the status falls back to: an update knows the one it found.        *)
fallbackStatus == IF IsUpdate \/ worker.status = "running" THEN "running" ELSE "failed"

(* A step of the attempt throws.                                           *)
Catch(fatal) ==
    /\ worker.pc \in {"run", "finalize"}
    /\ Trouble
    /\ app' = [app EXCEPT !.status = fallbackStatus]
    /\ worker' = [worker EXCEPT !.pc = "release", !.fatal = fatal]
    /\ broke' = (broke \/ fallbackStatus = "failed"
                       \/ (fatal /\ IsUpdate /\ Job.made + 1 < MaxAttempts))
    /\ UNCHANGED <<registry, tick, jobs, pinned, shipped>>

(* A mutant: the last attempt keeps the reservation.                       *)
ReleaseNever ==
    /\ worker.pc = "release"
    /\ jobs' = [jobs EXCEPT
          ![worker.j].build = Outcome("failed"), ![worker.j].made = @ + 1,
          ![worker.j].st = After(worker.fatal)]
    /\ worker' = NotBusy
    /\ broke' = (broke \/ (IsUpdate /\ Job.build = "cancelled" /\ Job.made + 1 < MaxAttempts))
    /\ UNCHANGED <<registry, app, tick, pinned, shipped, trouble>>

(* The reservation is given up by the last attempt only, also when the     *)
(* error is fatal and there will be no other.  The retry of a build that   *)
(* was reaped under way is refused by the claim, and gives up nothing.     *)
Release ==
    /\ worker.pc = "release"
    /\ app' = IF IsUpdate /\ Job.made + 1 >= MaxAttempts /\ app.pending = Job.to
              THEN [app EXCEPT !.pending = 0] ELSE app
    /\ jobs' = [jobs EXCEPT
          ![worker.j].build = Outcome("failed"), ![worker.j].made = @ + 1,
          ![worker.j].st = After(worker.fatal)]
    /\ worker' = NotBusy
    /\ broke' = (broke \/ (IsUpdate /\ Job.build = "cancelled" /\ Job.made + 1 < MaxAttempts))
    /\ UNCHANGED <<registry, tick, pinned, shipped, trouble>>

(* What the build row and the status may be when an error ends the handler *)
(* without, or in, the catch and finally blocks.                           *)
Left ==
    {<<Job.build, app.status>>} \cup
    CASE worker.pc = "cancel" -> {<<"cancelled", app.status>>}
      [] worker.pc = "start"  -> {<<Outcome("running"), s>> : s \in {app.status, "building"}}
      [] worker.pc \in {"run", "finalize", "release"} -> {<<Outcome("failed"), app.status>>}
      [] OTHER -> {}

(* A statement before the try, in the catch block or in the finally block  *)
(* throws: the job is retried or ends, the reservation stays and the row   *)
(* may go on to say "running", which no retry can claim.                   *)
Bail(fatal) ==
    /\ worker.pc # "idle"
    /\ fatal => worker.pc \in {"read", "start"}
    /\ Trouble
    /\ \E left \in Left :
          /\ jobs' = [jobs EXCEPT
                ![worker.j].build = left[1], ![worker.j].made = @ + 1,
                ![worker.j].st = After(fatal)]
          /\ app' = [app EXCEPT !.status = left[2]]
          /\ broke' = (broke \/ IsUpdate \/ left[2] = "building")
    /\ worker' = NotBusy
    /\ UNCHANGED <<registry, tick, pinned, shipped>>

(* BullMQ: the backoff of a failed attempt is over.                        *)
Promote(j) ==
    /\ jobs[j].st = "delayed"
    /\ jobs' = [jobs EXCEPT ![j].st = "waiting"]
    /\ UNCHANGED <<registry, app, tick, worker, pinned, shipped, broke, trouble>>

-----------------------------------------------------------------------------
(* Users and faults.                                                        *)

(* PATCH /apps/:id with trackLatest; turning it off drops the reservation. *)
SetTracking(on) ==
    /\ on # app.track
    /\ IF on THEN UNCHANGED trouble ELSE Trouble
    /\ app' = [app EXCEPT !.track = on, !.pending = IF on THEN @ ELSE 0]
    /\ broke' = (broke \/ (~on /\ app.pending # 0))
    /\ UNCHANGED <<registry, tick, jobs, worker, pinned, shipped>>

(* POST /apps/:id/deploy.                                                  *)
Deploy(j) ==
    /\ jobs[j] = NoJob
    /\ \A i \in 1..(j - 1) : jobs[i] # NoJob
    /\ Trouble
    /\ jobs' = [jobs EXCEPT ![j] = [NoJob EXCEPT !.kind = "manual", !.build = "pending",
                                                 !.st = "waiting"]]
    /\ UNCHANGED <<registry, app, tick, worker, pinned, shipped, broke>>

(* The cancellation of a build: every job of the application that no       *)
(* worker holds is removed, and the row is cancelled.                      *)
Cancel(j) ==
    /\ jobs[j].build \in Active
    /\ Trouble
    /\ jobs' = [i \in Jobs |->
          [jobs[i] EXCEPT !.build = IF i = j THEN "cancelled" ELSE @,
                          !.st = IF @ \in {"waiting", "delayed"} THEN "ended" ELSE @]]
    /\ broke' = TRUE
    /\ UNCHANGED <<registry, app, tick, worker, pinned, shipped>>

(* The process dies: the job of the worker is delivered again, the watcher *)
(* forgets what it was about to queue.                                     *)
Crash ==
    /\ tick # TickIdle \/ worker # NotBusy
    /\ Trouble
    /\ tick' = TickIdle
    /\ worker' = NotBusy
    /\ jobs' = IF worker = NotBusy THEN jobs ELSE [jobs EXCEPT ![worker.j].st = "waiting"]
    /\ broke' = TRUE
    /\ UNCHANGED <<registry, app, pinned, shipped>>

(* reapStuckBuilds: a row that says "running" for half an hour, whether a  *)
(* worker is busy with it or not, or "pending", and the repair of the      *)
(* status; a row without a started_at is never old.  The job is not        *)
(* removed, but its row cannot be claimed again, so that nobody settles    *)
(* the reservation of an update that no worker has in its hands.           *)
Reap(j) ==
    /\ jobs[j].build \in {"pending", "running"}
    /\ Trouble
    /\ jobs' = [jobs EXCEPT ![j].build = "cancelled"]
    /\ app' = IF app.status = "building" /\ \A i \in Jobs \ {j} : jobs[i].build \notin Active
              THEN [app EXCEPT !.status = "running"] ELSE app
    /\ broke' = (broke \/ (jobs[j].kind = "update" /\ worker.j # j))
    /\ UNCHANGED <<registry, tick, worker, pinned, shipped>>

-----------------------------------------------------------------------------
Init ==
    /\ registry = 1
    /\ app = [status |-> "running", track |-> TRUE, last |-> 0, pending |-> 0]
    /\ tick = TickIdle
    /\ jobs = [j \in Jobs |-> NoJob]
    /\ worker = NotBusy
    /\ pinned = 0 /\ shipped = {} /\ broke = FALSE /\ trouble = 0

Tick == TickRead \/ TickDigest \/ TickBaseline \/ TickReserve \/ TickEnqueue

Handle ==
    \/ ReadApp \/ CancelStale \/ Start \/ GoLive \/ Finalize \/ End
    \/ LostAccess \/ Release
    \/ \E fatal \in BOOLEAN : Catch(fatal) \/ Bail(fatal)

Next ==
    \/ MoveTag \/ Tick \/ Handle \/ Crash
    \/ \E on \in BOOLEAN : SetTracking(on)
    \/ \E j \in Jobs : Claim(j) \/ Promote(j) \/ Deploy(j) \/ Cancel(j) \/ Reap(j)

Spec == Init /\ [][Next]_vars

(* The cron ticks, the worker takes jobs and works on them, and the        *)
(* backoffs of BullMQ end; users need not act.                             *)
Fairness ==
    /\ WF_vars(Tick)
    /\ WF_vars(Handle \/ \E j \in Jobs : Claim(j))
    /\ WF_vars(\E j \in Jobs : Promote(j))

FairSpec == Spec /\ Fairness

-----------------------------------------------------------------------------
(* Properties.                                                              *)

(* The digest that the row calls the last one is the baseline or was put   *)
(* live by an update, whatever was turned off, cancelled or crashed        *)
(* between the reservation and the end of its deploy.                      *)
LastWasLive == app.last # 0 => app.last \in shipped

(* Updates go forward: neither a retry of an old update nor one that was   *)
(* queued before tracking was turned off and on puts an older digest live  *)
(* over the one of a newer update.                                         *)
Forward == [][pinned' >= pinned /\ app'.last >= app.last]_<<pinned, app>>

(* A reservation belongs to somebody who settles it: the watcher is about  *)
(* to queue its job, or a job that will be run still has it, whatever      *)
(* lookups, attempts and enqueues fail, are retried or interleave with     *)
(* deploys by hand and with the reaper.  After the events that set broke   *)
(* the code leaves it behind: a cancellation, a crash, tracking turned off *)
(* under it, a fatal error before the last attempt, an error outside the   *)
(* try of handleDeploy, and an update that was reaped before its end.      *)
Owned ==
    app.pending # 0 /\ ~broke =>
        \/ tick.pc = "enqueue" /\ tick.to = app.pending
        \/ \E j \in Jobs : /\ jobs[j].kind = "update" /\ jobs[j].to = app.pending
                           /\ jobs[j].st \in {"waiting", "delayed", "active"}

(* While tracking is on, the row catches up with the tag, although         *)
(* lookups, enqueueing and attempts fail, deploys by hand come between and *)
(* are reaped, a build is reaped while its worker goes on to succeed, and  *)
(* tracking is turned off and on, until one of the events that set broke.  *)
CatchesUp == []<>(app.last = registry \/ ~app.track \/ broke)

=============================================================================
