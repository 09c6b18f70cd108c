--------------------------- MODULE DeployPipeline ---------------------------
(***************************************************************************)
(* The life of a deploy: POST /apps/:id/deploy inserts a `builds` row and  *)
(* adds a BullMQ job; a slot of the deploy Worker takes the job, waits for *)
(* the application's lock, claims the row and runs handleDeploy; users     *)
(* cancel builds; the reaper cancels the rows that look stuck; API         *)
(* processes crash and restart, and BullMQ hands a stalled job out again.  *)
(*                                                                         *)
(* A build and its job share one name.  A step is what a process does      *)
(* between two awaits that others can observe; a database statement is     *)
(* atomic.  Time is a flag: a row is overdue when the timestamp the reaper *)
(* compares is older than STUCK_THRESHOLD_MS.  The runtime's work on an    *)
(* image is one step: a build goes live when apps.status and container_id  *)
(* record it, and what fails before that record fails the deploy.          *)
(***************************************************************************)
EXTENDS Naturals, Sequences, FiniteSets

CONSTANTS
    Apps,        \* rows of `apps`
    Builds,      \* rows of `builds` that can be requested
    AppOf,       \* builds.app_id
    MaxAttempts, \* opts.attempts of a build's job: 1 from the API, 3 from a push
    Kind,        \* how an application is served: "docker", "swarm" or "static"
    Procs,       \* API processes, each with its own workers, lock and reaper
    Workers,     \* slots of the deploy Workers (PLOYDOK_DEPLOY_CONCURRENCY each)
    ProcOf,      \* the process a slot belongs to
    Cancellable, \* the builds that users may cancel
    MaxStalls,   \* bound on stalls of a job; BullMQ's maxStalledCount is 1
    MaxCrashes,  \* bound on crashes
    None

ASSUME PipelineAssumption ==
    /\ AppOf \in [Builds -> Apps]
    /\ MaxAttempts \in [Builds -> Nat \ {0}]
    /\ Kind \in [Apps -> {"docker", "swarm", "static"}]
    /\ ProcOf \in [Workers -> Procs]
    /\ Cancellable \subseteq Builds
    /\ MaxStalls \in Nat
    /\ MaxCrashes \in Nat
    /\ None \notin Workers /\ None \notin Builds

VARIABLES
    bstatus,   \* builds.status, "absent" before the row is inserted
    started,   \* builds.started_at is set
    overdue,   \* builds.started_at, or created_at if that is NULL, is too old
    adding,    \* builds whose row is inserted and whose queue.add is in flight
    job,       \* state of a build's job in Redis
    owner,     \* the slot that holds the job's BullMQ lock, or None
    made,      \* job.attemptsMade
    stalls,    \* how often the job was found stalled
    cancelling,\* cancel requests that have removed jobs and not yet written
    astatus,   \* apps.status
    container, \* apps.container_id is set
    live,      \* some deploy of the application was recorded live (history)
    wentLive,  \* how often a build was recorded live (history)
    pc,        \* where a slot is
    on,        \* the build a slot works on
    attempt,   \* `attempt` of the slot's job
    seen,      \* app.status as handleDeploy read it
    final,     \* finalStatus of handleDeploy
    thrown,    \* what left the handler: "no", "fatal" or "transient"
    waiters,   \* the lock of each process and application (FifoLock)
    holder,
    reaper,    \* the reaper of each process
    crashes    \* crashes so far

rowVars == <<bstatus, started, overdue>>
jobVars == <<adding, job, owner, made, stalls, cancelling>>
appVars == <<astatus, container, live, wentLive>>
slotVars == <<pc, on, attempt, seen, final, thrown>>
lockVars == <<waiters, holder>>
vars == <<rowVars, jobVars, appVars, slotVars, lockVars, reaper, crashes>>

LockKeys == Procs \X Apps

Lock == INSTANCE FifoLock WITH Keys <- LockKeys, Calls <- Workers

Active == {"pending", "running"}
Succeeded == {"succeeded", "succeeded_with_warning"}
Terminal == Succeeded \cup {"failed", "cancelled"}

\* Slots between the claim of a row and the last write to it.
Driving == {"read", "start", "mark", "build", "final", "commit"}

KeyOf(w) == <<ProcOf[w], AppOf[on[w]]>>

ReaperIdle == [at |-> "idle", todo |-> {}, row |-> None, fix |-> "failed"]

AppStatuses == {"created", "building", "running", "serving", "failed"}

RowsOK ==
    /\ bstatus \in [Builds -> Active \cup Terminal \cup {"absent"}]
    /\ started \in [Builds -> BOOLEAN]
    /\ overdue \in [Builds -> BOOLEAN]

JobsOK ==
    /\ adding \subseteq Builds
    /\ cancelling \subseteq Builds
    /\ job \in [Builds -> {"absent", "waiting", "active", "completed", "failed"}]
    /\ owner \in [Builds -> Workers \cup {None}]
    /\ made \in [Builds -> Nat]
    /\ stalls \in [Builds -> 0 .. MaxStalls]

AppsOK ==
    /\ astatus \in [Apps -> AppStatuses]
    /\ container \in [Apps -> BOOLEAN]
    /\ live \in [Apps -> BOOLEAN]
    /\ wentLive \in [Builds -> Nat]

SlotsOK ==
    /\ pc \in [Workers -> Driving \cup {"idle", "resolve", "lock", "claim", "report"}]
    /\ on \in [Workers -> Builds \cup {None}]
    /\ attempt \in [Workers -> Nat]
    /\ seen \in [Workers -> AppStatuses]
    /\ final \in [Workers -> Succeeded \cup {"failed"}]
    /\ thrown \in [Workers -> {"no", "fatal", "transient"}]

LocksOK ==
    /\ waiters \in [LockKeys -> Seq(Workers)]
    /\ holder \in [LockKeys -> Workers \cup {None}]

ReapersOK ==
    reaper \in [Procs -> [at : {"idle", "update", "repair", "write"},
                          todo : SUBSET Builds,
                          row : Builds \cup {None},
                          fix : {"running", "failed"}]]

TypeOK ==
    RowsOK /\ JobsOK /\ AppsOK /\ SlotsOK /\ LocksOK /\ ReapersOK /\ crashes \in 0 .. MaxCrashes

\* How a live application is recorded: Swarm and static ones have no container_id.
LiveStatus(a) == IF Kind[a] = "static" THEN "serving" ELSE "running"

Init ==
    /\ bstatus = [b \in Builds |-> "absent"]
    /\ started = [b \in Builds |-> FALSE]
    /\ overdue = [b \in Builds |-> FALSE]
    /\ adding = {}
    /\ cancelling = {}
    /\ job = [b \in Builds |-> "absent"]
    /\ owner = [b \in Builds |-> None]
    /\ made = [b \in Builds |-> 0]
    /\ stalls = [b \in Builds |-> 0]
    /\ live \in [Apps -> BOOLEAN]
    /\ astatus = [a \in Apps |-> IF live[a] THEN LiveStatus(a) ELSE "created"]
    /\ container = [a \in Apps |-> live[a] /\ Kind[a] = "docker"]
    /\ wentLive = [b \in Builds |-> 0]
    /\ pc = [w \in Workers |-> "idle"]
    /\ on = [w \in Workers |-> None]
    /\ attempt = [w \in Workers |-> 0]
    /\ seen = [w \in Workers |-> "created"]
    /\ final = [w \in Workers |-> "succeeded"]
    /\ thrown = [w \in Workers |-> "no"]
    /\ Lock!Init
    /\ reaper = [p \in Procs |-> ReaperIdle]
    /\ crashes = 0
-----------------------------------------------------------------------------
(* Requesting a deploy: enqueueWithDbRow.                                  *)

\* The transaction that inserts the row.
InsertRow(b) ==
    /\ bstatus[b] = "absent"
    /\ bstatus' = [bstatus EXCEPT ![b] = "pending"]
    /\ adding' = adding \cup {b}
    /\ UNCHANGED <<started, overdue, job, owner, made, stalls, cancelling,
                   appVars, slotVars, lockVars, reaper, crashes>>

\* deployQueue.add.
AddJob(b) ==
    /\ b \in adding
    /\ adding' = adding \ {b}
    /\ job' = [job EXCEPT ![b] = "waiting"]
    /\ UNCHANGED <<rowVars, owner, made, stalls, cancelling,
                   appVars, slotVars, lockVars, reaper, crashes>>

\* Redis refuses, or the process dies first.  The route of POST /:id/deploy
\* passes no onQueueAddError, so the row stays.
AddFails(b) ==
    /\ b \in adding
    /\ adding' = adding \ {b}
    /\ UNCHANGED <<rowVars, job, owner, made, stalls, cancelling,
                   appVars, slotVars, lockVars, reaper, crashes>>
-----------------------------------------------------------------------------
(* updateBuildStatus and claimQueuedRow, as functions of the rows.         *)

\* A mutant: the UPDATE without its condition on the status.
UpdateBuildStatusAlways(b, s) == [bstatus EXCEPT ![b] = s]

\* updateBuildStatus: `WHERE status IN (pending, running)`.
UpdateBuildStatus(b, s) ==
    IF bstatus[b] \in Active THEN [bstatus EXCEPT ![b] = s] ELSE bstatus

\* A mutant: a redelivered job takes over the row of the attempt that crashed.
ExpectedStatusesTakeOver(n) ==
    IF n > 1 THEN {"pending", "failed"} ELSE {"pending", "running"}

\* The statuses from which an attempt may claim its row.
ExpectedStatuses(n) == IF n > 1 THEN {"pending", "failed"} ELSE {"pending"}
-----------------------------------------------------------------------------
(* A slot of the deploy Worker.                                            *)

Goto(w, label) == pc' = [pc EXCEPT ![w] = label]

\* A mutant: the lock is released only by a handler that returns.
LeaveHandlerKeepsLock(w, how) ==
    /\ Goto(w, "report")
    /\ thrown' = [thrown EXCEPT ![w] = how]
    /\ IF how = "no" THEN Lock!Release(KeyOf(w)) ELSE UNCHANGED lockVars

\* The handler returns or throws: the lock's finally block releases it.
LeaveHandler(w, how) ==
    /\ Goto(w, "report")
    /\ thrown' = [thrown EXCEPT ![w] = how]
    /\ Lock!Release(KeyOf(w))

\* The local variables of a handler that is over.
Forget(W) ==
    /\ pc' = [w \in Workers |-> IF w \in W THEN "idle" ELSE pc[w]]
    /\ on' = [w \in Workers |-> IF w \in W THEN None ELSE on[w]]
    /\ attempt' = [w \in Workers |-> IF w \in W THEN 0 ELSE attempt[w]]
    /\ seen' = [w \in Workers |-> IF w \in W THEN "created" ELSE seen[w]]
    /\ final' = [w \in Workers |-> IF w \in W THEN "succeeded" ELSE final[w]]
    /\ thrown' = [w \in Workers |-> IF w \in W THEN "no" ELSE thrown[w]]

\* BullMQ gives a waiting job to a free slot.
Take(w, b) ==
    /\ pc[w] = "idle"
    /\ job[b] = "waiting"
    /\ job' = [job EXCEPT ![b] = "active"]
    /\ owner' = [owner EXCEPT ![b] = w]
    /\ on' = [on EXCEPT ![w] = b]
    /\ attempt' = [attempt EXCEPT ![w] = made[b] + 1]
    /\ Goto(w, "resolve")
    /\ UNCHANGED <<rowVars, adding, made, stalls, cancelling, appVars,
                   seen, final, thrown, lockVars, reaper, crashes>>

\* A mutant: runDeploy() without the lock.
ResolveNoLock(w) ==
    /\ pc[w] = "resolve"
    /\ Goto(w, "claim")
    /\ UNCHANGED <<rowVars, jobVars, appVars, on, attempt, seen, final, thrown,
                   lockVars, reaper, crashes>>

\* resolveDeployJobAppId, then the call of withAppDeployLock.
Resolve(w) ==
    /\ pc[w] = "resolve"
    /\ Lock!Request(KeyOf(w), w)
    /\ Goto(w, "lock")
    /\ UNCHANGED <<rowVars, jobVars, appVars, on, attempt, seen, final, thrown,
                   reaper, crashes>>

\* The query of resolveDeployJobAppId fails: no lock was asked for.
ResolveFails(w) ==
    /\ pc[w] = "resolve"
    /\ Goto(w, "report")
    /\ thrown' = [thrown EXCEPT ![w] = "transient"]
    /\ UNCHANGED <<rowVars, jobVars, appVars, on, attempt, seen, final, lockVars,
                   reaper, crashes>>

\* The lock is ours: handleDeploy starts.
Enter(w) ==
    /\ pc[w] = "lock"
    /\ Lock!Grant(KeyOf(w))
    /\ holder'[KeyOf(w)] = w
    /\ Goto(w, "claim")
    /\ UNCHANGED <<rowVars, jobVars, appVars, on, attempt, seen, final, thrown,
                   reaper, crashes>>

\* claimQueuedRow succeeds.
Claim(w) ==
    /\ pc[w] = "claim"
    /\ bstatus[on[w]] \in ExpectedStatuses(attempt[w])
    /\ bstatus' = [bstatus EXCEPT ![on[w]] = "running"]
    /\ Goto(w, "read")
    /\ UNCHANGED <<started, overdue, jobVars, appVars, on, attempt, seen, final,
                   thrown, lockVars, reaper, crashes>>

\* claimQueuedRow finds no row to claim: audited, and the job is done.
ClaimFails(w) ==
    /\ pc[w] = "claim"
    /\ bstatus[on[w]] \notin ExpectedStatuses(attempt[w])
    /\ LeaveHandler(w, "no")
    /\ UNCHANGED <<rowVars, jobVars, appVars, on, attempt, seen, final, reaper, crashes>>

\* getAppForDeploy.
ReadApp(w) ==
    /\ pc[w] = "read"
    /\ seen' = [seen EXCEPT ![w] = astatus[AppOf[on[w]]]]
    /\ Goto(w, "start")
    /\ UNCHANGED <<rowVars, jobVars, appVars, on, attempt, final, thrown, lockVars,
                   reaper, crashes>>

\* The user who asked may no longer deploy: the row is failed, the job is done.
LostAccess(w) ==
    /\ pc[w] = "start"
    /\ bstatus' = UpdateBuildStatus(on[w], "failed")
    /\ LeaveHandler(w, "no")
    /\ UNCHANGED <<started, overdue, jobVars, appVars, on, attempt, seen, final,
                   reaper, crashes>>

\* Everything that throws between the claim and the try block: a missing app,
\* image_ref, repository or branch, build_method "compose", a failed query, the
\* log directory.  No catch or finally block of handleDeploy covers it.
ThrowEarly(w, how) ==
    /\ pc[w] \in {"read", "start", "mark", "build"}
    /\ LeaveHandler(w, how)
    /\ UNCHANGED <<rowVars, jobVars, appVars, on, attempt, seen, final, reaper, crashes>>

\* updateBuildStatus(running, {startedAt}); a no-op on a row that was cancelled.
Start(w) ==
    /\ pc[w] = "start"
    /\ bstatus' = UpdateBuildStatus(on[w], "running")
    /\ IF bstatus[on[w]] \in Active
       THEN /\ started' = [started EXCEPT ![on[w]] = TRUE]
            /\ overdue' = [overdue EXCEPT ![on[w]] = FALSE]
       ELSE UNCHANGED <<started, overdue>>
    /\ Goto(w, "mark")
    /\ UNCHANGED <<jobVars, appVars, on, attempt, seen, final, thrown,
                   lockVars, reaper, crashes>>

\* apps.status := "building".
MarkBuilding(w) ==
    /\ pc[w] = "mark"
    /\ astatus' = [astatus EXCEPT ![AppOf[on[w]]] = "building"]
    /\ Goto(w, "build")
    /\ UNCHANGED <<rowVars, jobVars, container, live, wentLive, on, attempt, seen,
                   final, thrown, lockVars, reaper, crashes>>

\* Clone, build, push and runtime succeed: the new version serves, and the
\* runtime records it on the application.  A failed post-deploy hook only warns.
GoLive(w, s) ==
    LET a == AppOf[on[w]] IN
    /\ pc[w] = "build"
    /\ astatus' = [astatus EXCEPT ![a] = LiveStatus(a)]
    /\ container' = [container EXCEPT ![a] = (Kind[a] = "docker")]
    /\ live' = [live EXCEPT ![a] = TRUE]
    /\ wentLive' = [wentLive EXCEPT ![on[w]] = @ + 1]
    /\ final' = [final EXCEPT ![w] = s]
    /\ Goto(w, "final")
    /\ UNCHANGED <<rowVars, jobVars, on, attempt, seen, thrown, lockVars, reaper, crashes>>

\* The catch block: the application falls back to "running" only if it was
\* "running" when the handler read it.
DeployFails(w, how) ==
    /\ pc[w] = "build"
    /\ astatus' = [astatus EXCEPT ![AppOf[on[w]]] =
                      IF seen[w] = "running" THEN "running" ELSE "failed"]
    /\ final' = [final EXCEPT ![w] = "failed"]
    /\ thrown' = [thrown EXCEPT ![w] = how]
    /\ Goto(w, "final")
    /\ UNCHANGED <<rowVars, jobVars, container, live, wentLive, on, attempt, seen,
                   lockVars, reaper, crashes>>

\* The catch block's own UPDATE fails: apps.status stays as it is.
FallbackFails(w) ==
    /\ pc[w] = "build"
    /\ final' = [final EXCEPT ![w] = "failed"]
    /\ thrown' = [thrown EXCEPT ![w] = "transient"]
    /\ Goto(w, "final")
    /\ UNCHANGED <<rowVars, jobVars, appVars, on, attempt, seen, lockVars, reaper, crashes>>

\* The finally block reads the row: a cancelled build is left alone.
FinalRead(w) ==
    /\ pc[w] = "final"
    /\ IF bstatus[on[w]] = "cancelled"
       THEN LeaveHandler(w, thrown[w])
       ELSE Goto(w, "commit") /\ UNCHANGED <<thrown, lockVars>>
    /\ UNCHANGED <<rowVars, jobVars, appVars, on, attempt, seen, final, reaper, crashes>>

\* A mutant: finalStatus is still its initial "succeeded" when it is written.
FinalWriteOptimistic(w) ==
    /\ pc[w] = "commit"
    /\ bstatus' = UpdateBuildStatus(on[w], "succeeded")
    /\ LeaveHandler(w, thrown[w])
    /\ UNCHANGED <<started, overdue, jobVars, appVars, on, attempt, seen, final,
                   reaper, crashes>>

\* ... and otherwise gets its final status.
FinalWrite(w) ==
    /\ pc[w] = "commit"
    /\ bstatus' = UpdateBuildStatus(on[w], final[w])
    /\ LeaveHandler(w, thrown[w])
    /\ UNCHANGED <<started, overdue, jobVars, appVars, on, attempt, seen, final,
                   reaper, crashes>>

\* The UPDATE of the claim, or a query of the finally block, fails: the row stays
\* as it is and the error leaves the handler in place of what was thrown before.
QueryFails(w) ==
    /\ pc[w] \in {"claim", "final", "commit"}
    /\ LeaveHandler(w, "transient")
    /\ UNCHANGED <<rowVars, jobVars, appVars, on, attempt, seen, final, reaper, crashes>>

\* BullMQ records the outcome, if the slot still holds the job's lock: done, or
\* failed for good (UnrecoverableError), or failed with attempts left.
Report(w) ==
    LET b == on[w]
        mine == owner[b] = w
        retry == thrown[w] = "transient" /\ made[b] + 1 < MaxAttempts[b]
    IN
    /\ pc[w] = "report"
    /\ job' = IF ~mine THEN job
              ELSE [job EXCEPT ![b] = CASE thrown[w] = "no" -> "completed"
                                        [] retry -> "waiting"
                                        [] OTHER -> "failed"]
    /\ made' = IF mine THEN [made EXCEPT ![b] = @ + 1] ELSE made
    /\ owner' = IF mine THEN [owner EXCEPT ![b] = None] ELSE owner
    /\ Forget({w})
    /\ UNCHANGED <<rowVars, adding, stalls, cancelling, appVars, lockVars, reaper, crashes>>

\* A job whose lock was not renewed, because its process died or its event loop
\* was blocked, goes back to the queue (maxStalledCount times) and then fails.
\* attemptsMade does not count it.
StalledJob(b) ==
    /\ job[b] = "active"
    /\ owner' = [owner EXCEPT ![b] = None]
    /\ IF stalls[b] < MaxStalls
       THEN /\ job' = [job EXCEPT ![b] = "waiting"]
            /\ stalls' = [stalls EXCEPT ![b] = @ + 1]
       ELSE /\ job' = [job EXCEPT ![b] = "failed"]
            /\ UNCHANGED stalls
    /\ UNCHANGED <<rowVars, adding, made, cancelling, appVars, slotVars, lockVars,
                   reaper, crashes>>
-----------------------------------------------------------------------------
(* POST /:id/builds/:buildId/cancel.                                       *)

\* Job.remove refuses a job that a slot holds locked.
Removable(b) ==
    \/ job[b] = "waiting"
    \/ job[b] = "active" /\ (owner[b] = None \/ on[owner[b]] # b)

\* The row is not terminal: every removable job of the application is removed.
\* What fails of it, a locked job or all of it without Redis, fails silently.
CancelRemove(b) ==
    /\ b \in Cancellable \ cancelling
    /\ bstatus[b] \in Active
    /\ cancelling' = cancelling \cup {b}
    /\ \/ job' = [c \in Builds |->
                     IF AppOf[c] = AppOf[b] /\ Removable(c) THEN "absent" ELSE job[c]]
       \/ UNCHANGED job
    /\ UNCHANGED <<rowVars, adding, owner, made, stalls, appVars, slotVars, lockVars,
                   reaper, crashes>>

\* A mutant: the other spelling of the status.
CancelWriteMisspelt(b) ==
    /\ b \in cancelling
    /\ cancelling' = cancelling \ {b}
    /\ bstatus' = UpdateBuildStatus(b, "canceled")
    /\ UNCHANGED <<started, overdue, adding, job, owner, made, stalls, appVars,
                   slotVars, lockVars, reaper, crashes>>

\* The row is cancelled, unless it became terminal meanwhile.
CancelWrite(b) ==
    /\ b \in cancelling
    /\ cancelling' = cancelling \ {b}
    /\ bstatus' = UpdateBuildStatus(b, "cancelled")
    /\ UNCHANGED <<started, overdue, adding, job, owner, made, stalls, appVars,
                   slotVars, lockVars, reaper, crashes>>

\* The request ends between the two: its process dies or the query fails.
CancelLost(b) ==
    /\ b \in cancelling
    /\ cancelling' = cancelling \ {b}
    /\ UNCHANGED <<rowVars, adding, job, owner, made, stalls, appVars, slotVars, lockVars,
                   reaper, crashes>>
-----------------------------------------------------------------------------
(* reapStuckBuilds, at boot and every five minutes.                        *)

\* Half an hour passes for a row that the reaper could select.
Age(b) ==
    /\ bstatus[b] = "pending" \/ (bstatus[b] = "running" /\ started[b])
    /\ ~overdue[b]
    /\ overdue' = [overdue EXCEPT ![b] = TRUE]
    /\ UNCHANGED <<bstatus, started, jobVars, appVars, slotVars, lockVars, reaper, crashes>>

\* Mutants: the reaper without one of its two phases.
StuckPendingOnly(phase) == {b \in Builds : bstatus[b] = "pending" /\ overdue[b]}
StuckRunningOnly(phase) ==
    {b \in Builds : bstatus[b] = "running" /\ started[b] /\ overdue[b]}

\* The candidates of a phase.  started_at < threshold is not true of NULL.
Stuck(phase) ==
    IF phase = "running"
    THEN {b \in Builds : bstatus[b] = "running" /\ started[b] /\ overdue[b]}
    ELSE {b \in Builds : bstatus[b] = "pending" /\ overdue[b]}

\* The SELECT of a phase.
ReapSelect(p, phase) ==
    /\ reaper[p].at = "idle"
    /\ Stuck(phase) # {}
    /\ reaper' = [reaper EXCEPT ![p].at = "update", ![p].todo = Stuck(phase)]
    /\ UNCHANGED <<rowVars, jobVars, appVars, slotVars, lockVars, crashes>>

\* updateBuildStatus(cancelled) for one candidate.
ReapUpdate(p, b) ==
    /\ reaper[p].at = "update"
    /\ b \in reaper[p].todo
    /\ bstatus' = UpdateBuildStatus(b, "cancelled")
    /\ reaper' = [reaper EXCEPT ![p].at = "repair", ![p].todo = @ \ {b}, ![p].row = b]
    /\ UNCHANGED <<started, overdue, jobVars, appVars, slotVars, lockVars, crashes>>

\* On to the next candidate, or back to sleep.
ReaperNext(r) ==
    IF r.todo = {} THEN ReaperIdle ELSE [ReaperIdle EXCEPT !.at = "update", !.todo = r.todo]

\* repairAppStatusAfterReap reads: no other active build, and still "building"?
RepairRead(p) ==
    LET a == AppOf[reaper[p].row]
        busy == \E b \in Builds : AppOf[b] = a /\ bstatus[b] \in Active
    IN
    /\ reaper[p].at = "repair"
    /\ reaper' = [reaper EXCEPT ![p] =
                     IF busy \/ astatus[a] # "building" THEN ReaperNext(@)
                     ELSE [@ EXCEPT !.at = "write",
                                    !.fix = IF container[a] THEN "running" ELSE "failed"]]
    /\ UNCHANGED <<rowVars, jobVars, appVars, slotVars, lockVars, crashes>>

\* ... and writes apps.status.
RepairWrite(p) ==
    /\ reaper[p].at = "write"
    /\ astatus' = [astatus EXCEPT ![AppOf[reaper[p].row]] = reaper[p].fix]
    /\ reaper' = [reaper EXCEPT ![p] = ReaperNext(@)]
    /\ UNCHANGED <<rowVars, jobVars, container, live, wentLive, slotVars, lockVars, crashes>>
-----------------------------------------------------------------------------
\* A process dies and restarts: its slots, its lock and its reaper are gone; its
\* jobs stay "active" in Redis until BullMQ finds them stalled.
Crash(p) ==
    /\ crashes < MaxCrashes
    /\ crashes' = crashes + 1
    /\ Forget({w \in Workers : ProcOf[w] = p})
    /\ waiters' = [k \in LockKeys |-> IF k[1] = p THEN <<>> ELSE waiters[k]]
    /\ holder' = [k \in LockKeys |-> IF k[1] = p THEN None ELSE holder[k]]
    /\ reaper' = [reaper EXCEPT ![p] = ReaperIdle]
    /\ UNCHANGED <<rowVars, jobVars, appVars>>

\* The steps of a slot that has a job.
SlotStep(w) ==
    \/ Resolve(w) \/ ResolveFails(w) \/ Enter(w) \/ Claim(w) \/ ClaimFails(w) \/ ReadApp(w)
    \/ LostAccess(w) \/ Start(w) \/ MarkBuilding(w)
    \/ \E s \in Succeeded : GoLive(w, s)
    \/ \E how \in {"fatal", "transient"} : ThrowEarly(w, how) \/ DeployFails(w, how)
    \/ FallbackFails(w) \/ FinalRead(w) \/ FinalWrite(w) \/ QueryFails(w) \/ Report(w)

ReaperStep(p) ==
    \/ \E phase \in {"running", "pending"} : ReapSelect(p, phase)
    \/ \E b \in Builds : ReapUpdate(p, b)
    \/ RepairRead(p) \/ RepairWrite(p)

Next ==
    \/ \E b \in Builds :
          \/ InsertRow(b) \/ AddJob(b) \/ AddFails(b) \/ StalledJob(b)
          \/ CancelRemove(b) \/ CancelWrite(b) \/ CancelLost(b) \/ Age(b)
          \/ \E w \in Workers : Take(w, b)
    \/ \E w \in Workers : SlotStep(w)
    \/ \E p \in Procs : ReaperStep(p) \/ Crash(p)

Spec == Init /\ [][Next]_vars

\* Handlers, BullMQ, the reaper's timer and time itself go on; nobody has to ask
\* for a deploy, cancel one or crash.
Fairness ==
    /\ \A w \in Workers : WF_vars(SlotStep(w)) /\ WF_vars(\E b \in Builds : Take(w, b))
    /\ \A b \in Builds :
          /\ WF_vars(AddJob(b) \/ AddFails(b))
          /\ WF_vars(StalledJob(b) /\ (owner[b] \notin Workers \/ on[owner[b]] # b))
          /\ WF_vars(CancelWrite(b) \/ CancelLost(b))
          /\ WF_vars(Age(b))
    /\ \A p \in Procs : WF_vars(ReaperStep(p))

FairSpec == Spec /\ Fairness
-----------------------------------------------------------------------------
Drives(w, b) == pc[w] \in Driving /\ on[w] = b

(* The atomic claim: however often BullMQ hands a job out, one slot at a   *)
(* time drives a build, and while it does nobody can claim the row.        *)
OneDriver ==
    \A w \in Workers, b \in Builds : Drives(w, b) =>
        /\ bstatus[b] \in {"running", "cancelled"}
        /\ \A v \in Workers : Drives(v, b) => v = w

(* withAppDeployLock around handleDeploy: in one process at most one deploy*)
(* of an application is between its claim and its last write.              *)
SequentialInProcess ==
    \A v, w \in Workers :
        ( /\ pc[v] \in Driving /\ pc[w] \in Driving
          /\ ProcOf[v] = ProcOf[w] /\ AppOf[on[v]] = AppOf[on[w]] ) => v = w

(* A build's image goes live at most once: neither the retry of a failed   *)
(* attempt nor the redelivery of a crashed or stalled job runs it again    *)
(* after it went live.                                                     *)
LiveAtMostOnce == \A b \in Builds : wentLive[b] <= 1

(* A row says `succeeded` only of a build that went live, and of a build   *)
(* that went live it never says that it failed or still waits.             *)
OutcomeIsTrue ==
    \A b \in Builds :
        /\ bstatus[b] \in Succeeded => wentLive[b] = 1
        /\ bstatus[b] \in {"absent", "pending", "failed"} => wentLive[b] = 0

\* The part of SlotInv that is about one slot.
SlotOK(w) ==
    /\ pc[w] # "idle" => on[w] \in Builds /\ attempt[w] <= made[on[w]] + 1
    /\ pc[w] \in Driving \cup {"claim"} => holder[KeyOf(w)] = w
    /\ pc[w] \in {"read", "start", "mark", "build"} => wentLive[on[w]] = 0
    /\ pc[w] \in {"final", "commit"} =>
           wentLive[on[w]] = IF final[w] = "failed" THEN 0 ELSE 1

(* What a slot may rely on between two awaits: it still holds its lock from*)
(* the claim to the last write, its attempt is no newer than the job's, and*)
(* the status it is about to write agrees with what happened to the image. *)
(* With OneDriver and OutcomeIsTrue this is inductive.                     *)
SlotInv == \A w \in Workers : SlotOK(w)

(* The sticky terminal statuses of updateBuildStatus: a terminal row never *)
(* changes, except that the retry of a failed build claims it again.       *)
TerminalIsSticky ==
    [][\A b \in Builds : bstatus[b] \in Terminal =>
          \/ bstatus'[b] = bstatus[b]
          \/ bstatus[b] = "failed" /\ bstatus'[b] = "running" /\ made[b] > 0]_vars

(* A row that waits is decided in the end: claimed, cancelled or reaped,   *)
(* even when queue.add failed or its job was removed or dropped.           *)
PendingIsDecided == \A b \in Builds : bstatus[b] = "pending" ~> bstatus[b] # "pending"

(* A build that recorded its start ends, whatever crashes.                 *)
StartedEnds ==
    \A b \in Builds :
        (bstatus[b] = "running" /\ started[b]) ~> bstatus[b] \in Terminal

(* No job stays in the queue or in a slot for ever: no deadlock on the lock*)
JobsEnd == \A b \in Builds : job[b] \in {"waiting", "active"} ~> job[b] \notin {"waiting", "active"}
=============================================================================
