---------------------------- MODULE PushDeploy ----------------------------
(***************************************************************************)
(* From a push webhook to the deploy queue, for one application and its    *)
(* branch: the deduplication of a delivery, the filters, the coalescing of *)
(* pushes through the id of their job, and the queue that runs the jobs.   *)
(*                                                                         *)
(* The request is answered before the push is handled, and each handler    *)
(* runs by itself (queueMicrotask), so handlers interleave at every await. *)
(* BullMQ, which is not part of the repository, is modelled by what the    *)
(* handlers rely on: add ignores an id that exists in any state, remove    *)
(* throws for a job that a worker has locked, and finished jobs are kept.  *)
(***************************************************************************)
EXTENDS Naturals, FiniteSets, Sequences, SequencesExt

CONSTANTS
    N,           \* how many requests arrive; they are numbered in that order
    Push,        \* Push[r]: the push that request r delivers
    Kind,        \* Kind[p]: "branch", "tag", or "skip" for a push that the
                 \* filters do not let through
    Coalesce,    \* apps.coalesce_pushes
    Slots,       \* PLOYDOK_DEPLOY_CONCURRENCY
    MaxAttempts, \* opts.attempts of a job
    MaxTrouble   \* a bound: failing steps of handlers, failing attempts

Requests == 1..N

ASSUME PushAssumption ==
    /\ N \in Nat /\ Slots \in Nat \ {0} /\ MaxAttempts \in Nat \ {0}
    /\ MaxTrouble \in Nat
    /\ Push \in [Requests -> Nat]
    /\ \A r \in Requests : Kind[Push[r]] \in {"branch", "tag", "skip"}
    /\ Coalesce \in BOOLEAN

VARIABLES
    pc,       \* pc[r]: how far the handler of request r is
    saw,      \* saw[r]: the state that it read of the job that it drops
    key,      \* key[r]: the job id that it chose
    delivery, \* delivery[r]: the decision in the delivery row that r wrote
    build,    \* build[r]: the status of the build row that r inserted
    job,      \* job[j]: the job with id j: its request, state and attempts
    queue,    \* the ids of the waiting jobs, oldest first
    line,     \* the ids of the jobs that hold or await the application's lock
    deployed, \* what went live: the requests, with the number of the attempt
    crowd,    \* the requests whose handling overlapped that of another one
    overtaken,\* history: the requests that a newer one passed before the lock
    gaveUp,   \* history: the requests whose last attempt ended before the lock
    by,       \* by[r]: the request whose handler removed r's job, 0 for none
    trouble   \* how much went wrong

handlerVars == <<pc, saw, key, crowd, by>>
rowVars     == <<delivery, build>>
lockVars    == <<line, overtaken, gaveUp>>
jobVars     == <<job, queue, deployed, lockVars>>
vars == <<handlerVars, rowVars, jobVars, trouble>>

-----------------------------------------------------------------------------
(* Job ids: the base key, the base key with a count, or a fresh one.        *)

Base == <<"base", 0>>
Suffixed(n) == <<"suffix", n>>
Fresh(r) == <<"fresh", r>>
JobIds == {Base} \cup {Suffixed(n) : n \in 0..N} \cup {Fresh(r) : r \in Requests}

NoJob == [req |-> 0, st |-> "none", made |-> 0]
JobStates == {"none", "waiting", "delayed", "active", "completed", "failed"}
Steps == {"new", "getJob", "getState", "drop", "mark", "insert", "build", "add",
          "done", "dedup", "lost"}

TypeOK ==
    /\ pc \in [Requests -> Steps]
    /\ saw \in [Requests -> JobStates \cup {"unknown"}]
    /\ key \in [Requests -> JobIds]
    /\ delivery \in [Requests -> {"none", "enqueued", "coalesced", "skipped"}]
    /\ build \in [Requests -> {"none", "pending", "succeeded", "failed"}]
    /\ job \in [JobIds -> [req : 0..N, st : JobStates, made : 0..MaxAttempts]]
    /\ queue \in Seq(JobIds) /\ line \in Seq(JobIds)
    /\ deployed \in Seq([req : Requests, made : 1..MaxAttempts])
    /\ crowd \subseteq Requests /\ overtaken \subseteq Requests /\ gaveUp \subseteq Requests
    /\ by \in [Requests -> 0..N]
    /\ trouble \in 0..MaxTrouble

Over     == {"done", "dedup", "lost"}
Busy     == {r \in Requests : pc[r] \notin Over \cup {"new"}}
Goto(r, label) == pc' = [pc EXCEPT ![r] = label]
Trouble  == trouble < MaxTrouble /\ trouble' = trouble + 1
IsTag(r) == Kind[Push[r]] = "tag"

-----------------------------------------------------------------------------
(* The webhook route.                                                       *)

(* findRecentByPayloadHash: the body of r was recorded before.             *)
Recorded(r) == \E q \in Requests : Push[q] = Push[r] /\ delivery[q] # "none"

(* A duplicate is dropped within the window of a minute, and handled again *)
(* after it.                                                               *)
Receive(r) ==
    /\ pc[r] = "new"
    /\ \A q \in Requests : q < r => pc[q] # "new"
    /\ \/ Recorded(r) /\ Goto(r, "dedup") /\ UNCHANGED crowd
       \/ /\ Goto(r, CASE Kind[Push[r]] = "skip" -> "insert"
                       [] IsTag(r) \/ ~Coalesce -> "insert"
                       [] OTHER -> "getJob")
          /\ crowd' = IF Busy = {} THEN crowd ELSE crowd \cup Busy \cup {r}
    /\ key' = [key EXCEPT ![r] = IF IsTag(r) \/ ~Coalesce THEN Fresh(r) ELSE Base]
    /\ UNCHANGED <<saw, by, rowVars, jobVars, trouble>>

-----------------------------------------------------------------------------
(* handlePushGeneric.                                                       *)

(* deployQueue.getJob(base key).                                           *)
GetJob(r) ==
    /\ pc[r] = "getJob"
    /\ Goto(r, IF job[Base] = NoJob THEN "insert" ELSE "getState")
    /\ UNCHANGED <<saw, key, crowd, by, rowVars, jobVars, trouble>>

(* A mutant: only what waits is dropped; a finished job keeps its id.      *)
KeepFinished(r, st) ==
    IF st \in {"waiting", "delayed"} THEN <<Base, "drop">>
    ELSE IF st = "active"
         THEN <<Suffixed(Cardinality({q \in Requests : delivery[q] # "none"})), "insert">>
         ELSE <<Base, "insert">>

(* resolveCoalesceJobId: next to an active job the id gets the number of   *)
(* deliveries as a suffix, a job in any other state is dropped.            *)
resolveCoalesceJobId(r, st) ==
    IF st = "active"
    THEN <<Suffixed(Cardinality({q \in Requests : delivery[q] # "none"})), "insert">>
    ELSE <<Base, "drop">>

(* existingJob.getState(), and the count that is read next to an active    *)
(* job.  The job may have been removed since it was found.                 *)
GetState(r) ==
    /\ pc[r] = "getState"
    /\ LET st == IF job[Base] = NoJob THEN "unknown" ELSE job[Base].st
           choice == resolveCoalesceJobId(r, st)
       IN  /\ saw' = [saw EXCEPT ![r] = IF choice[2] = "drop" THEN st ELSE "none"]
           /\ key' = [key EXCEPT ![r] = choice[1]]
           /\ Goto(r, choice[2])
    /\ UNCHANGED <<crowd, by, rowVars, jobVars, trouble>>

(* existingJob.remove(): it throws when a worker holds the job, and the    *)
(* push is lost: the error is logged.                                      *)
Drop(r) ==
    /\ pc[r] = "drop"
    /\ \/ /\ job[Base].st = "active"
          /\ Goto(r, "lost")
          /\ UNCHANGED <<job, queue, by>>
       \/ /\ job[Base].st # "active"
          /\ Goto(r, IF saw[r] \in {"waiting", "delayed"} THEN "mark" ELSE "insert")
          /\ job' = [job EXCEPT ![Base] = NoJob]
          /\ \/ \E i \in DOMAIN queue : queue[i] = Base /\ queue' = RemoveAt(queue, i)
             \/ (\A i \in DOMAIN queue : queue[i] # Base) /\ UNCHANGED queue
          /\ by' = IF job[Base].st \in {"waiting", "delayed"}
                   THEN [by EXCEPT ![job[Base].req] = r] ELSE by
    /\ saw' = [saw EXCEPT ![r] = "none"]
    /\ UNCHANGED <<key, crowd, rowVars, deployed, lockVars, trouble>>

(* findRecentEnqueuedDeliveryByApp has no ORDER BY: any delivery of the    *)
(* application with the decision enqueued.  markDeliveryCoalesced on it.   *)
Mark(r) ==
    /\ pc[r] = "mark"
    /\ LET found == {q \in Requests : delivery[q] = "enqueued"}
       IN  \/ found = {} /\ UNCHANGED delivery
           \/ \E q \in found : delivery' = [delivery EXCEPT ![q] = "coalesced"]
    /\ Goto(r, "insert")
    /\ UNCHANGED <<saw, key, crowd, by, build, jobVars, trouble>>

(* insertDelivery, with the decision of the filters.                       *)
InsertDelivery(r) ==
    /\ pc[r] = "insert"
    /\ LET skip == Kind[Push[r]] = "skip"
       IN  /\ delivery' = [delivery EXCEPT ![r] = IF skip THEN "skipped" ELSE "enqueued"]
           /\ Goto(r, IF skip THEN "done" ELSE "build")
    /\ UNCHANGED <<saw, key, crowd, by, build, jobVars, trouble>>

createPendingBuild(r) ==
    /\ pc[r] = "build"
    /\ build' = [build EXCEPT ![r] = "pending"]
    /\ Goto(r, "add")
    /\ UNCHANGED <<saw, key, crowd, by, delivery, jobVars, trouble>>

(* deployQueue.add: nothing happens when the id exists.                    *)
Add(r) ==
    /\ pc[r] = "add"
    /\ \/ /\ job[key[r]] = NoJob
          /\ job' = [job EXCEPT ![key[r]] = [req |-> r, st |-> "waiting", made |-> 0]]
          /\ queue' = Append(queue, key[r])
       \/ /\ job[key[r]] # NoJob
          /\ UNCHANGED <<job, queue>>
    /\ Goto(r, "done")
    /\ key' = [key EXCEPT ![r] = Base]
    /\ UNCHANGED <<saw, crowd, by, rowVars, deployed, lockVars, trouble>>

(* A query or a call of Redis fails, or the process dies.                  *)
Abort(r) ==
    /\ r \in Busy
    /\ Trouble
    /\ Goto(r, "lost")
    /\ key' = [key EXCEPT ![r] = Base] /\ saw' = [saw EXCEPT ![r] = "none"]
    /\ UNCHANGED <<crowd, by, rowVars, jobVars>>

-----------------------------------------------------------------------------
(* The queue and its worker.                                                *)

(* A free slot of the worker takes the oldest job.                         *)
Take ==
    /\ queue # <<>>
    /\ Cardinality({j \in JobIds : job[j].st = "active"}) < Slots
    /\ job' = [job EXCEPT ![Head(queue)].st = "active"]
    /\ queue' = Tail(queue)
    /\ UNCHANGED <<handlerVars, rowVars, deployed, lockVars, trouble>>

(* The jobs whose slot awaits resolveDeployJobAppId.                       *)
Resolving == {j \in JobIds : job[j].st = "active" /\ \A i \in DOMAIN line : line[i] # j}

(* The slot knows the application, and joins the line for its lock.        *)
Resolve(j) ==
    /\ j \in Resolving
    /\ line' = Append(line, j)
    /\ overtaken' = overtaken \cup {job[i].req : i \in {i \in Resolving : job[i].req < job[j].req}}
    /\ UNCHANGED <<handlerVars, rowVars, job, queue, deployed, gaveUp, trouble>>

(* An attempt of j failed: BullMQ keeps the job for good, or for a retry.  *)
Retry(j, fatal) ==
    job' = [job EXCEPT ![j].st = IF fatal \/ job[j].made + 1 = MaxAttempts
                                 THEN "failed" ELSE "delayed",
                       ![j].made = @ + 1]

(* The query throws: the attempt ends before the handler, and the build's  *)
(* row stays as it is (the reaper of DeployPipeline closes it in the end). *)
ResolveFails(j) ==
    /\ j \in Resolving
    /\ Trouble
    /\ Retry(j, FALSE)
    /\ gaveUp' = IF job[j].made + 1 = MaxAttempts THEN gaveUp \cup {job[j].req} ELSE gaveUp
    /\ UNCHANGED <<handlerVars, rowVars, queue, deployed, line, overtaken>>

(* The jobs of an application hold its lock one after the other, in the    *)
(* order in which they asked for it.                                       *)
HoldsLock(j) == line # <<>> /\ j = Head(line)

(* A mutant: the handler runs without the lock.                            *)
SucceedUnlocked(j) ==
    /\ job[j].st = "active"
    /\ build' = [build EXCEPT ![job[j].req] = "succeeded"]
    /\ deployed' = Append(deployed, [req |-> job[j].req, made |-> job[j].made + 1])
    /\ job' = [job EXCEPT ![j].st = "completed", ![j].made = @ + 1]
    /\ line' = SelectSeq(line, LAMBDA i : i # j)
    /\ UNCHANGED <<handlerVars, delivery, queue, overtaken, gaveUp, trouble>>

(* One attempt of handleDeploy, under the lock of the application: it goes *)
(* live, or it fails for good, or it fails with attempts left.             *)
Succeed(j) ==
    /\ HoldsLock(j)
    /\ build' = [build EXCEPT ![job[j].req] = "succeeded"]
    /\ deployed' = Append(deployed, [req |-> job[j].req, made |-> job[j].made + 1])
    /\ job' = [job EXCEPT ![j].st = "completed", ![j].made = @ + 1]
    /\ line' = Tail(line)
    /\ UNCHANGED <<handlerVars, delivery, queue, overtaken, gaveUp, trouble>>

Fail(j, fatal) ==
    /\ HoldsLock(j)
    /\ Trouble
    /\ build' = [build EXCEPT ![job[j].req] = "failed"]
    /\ Retry(j, fatal)
    /\ line' = Tail(line)
    /\ UNCHANGED <<handlerVars, delivery, queue, deployed, overtaken, gaveUp>>

(* A mutant: the end of the backoff counts as an attempt.                  *)
PromoteCounting(j) ==
    /\ job[j].st = "delayed"
    /\ job' = [job EXCEPT ![j].st = "waiting", ![j].made = @ + 1]
    /\ queue' = Append(queue, j)
    /\ UNCHANGED <<handlerVars, rowVars, deployed, lockVars, trouble>>

(* The backoff is over.                                                    *)
Promote(j) ==
    /\ job[j].st = "delayed"
    /\ job' = [job EXCEPT ![j].st = "waiting"]
    /\ queue' = Append(queue, j)
    /\ UNCHANGED <<handlerVars, rowVars, deployed, lockVars, trouble>>

-----------------------------------------------------------------------------
Init ==
    /\ pc = [r \in Requests |-> "new"]
    /\ saw = [r \in Requests |-> "none"]
    /\ key = [r \in Requests |-> Base]
    /\ delivery = [r \in Requests |-> "none"]
    /\ build = [r \in Requests |-> "none"]
    /\ job = [j \in JobIds |-> NoJob]
    /\ queue = <<>> /\ line = <<>>
    /\ deployed = <<>> /\ crowd = {} /\ overtaken = {} /\ gaveUp = {}
    /\ by = [r \in Requests |-> 0]
    /\ trouble = 0

Handle(r) ==
    \/ GetJob(r) \/ GetState(r) \/ Drop(r) \/ Mark(r) \/ InsertDelivery(r)
    \/ createPendingBuild(r) \/ Add(r)

Await(j) == Resolve(j) \/ ResolveFails(j)
Attempt(j) == Succeed(j) \/ \E fatal \in BOOLEAN : Fail(j, fatal)

Next ==
    \/ \E r \in Requests : Receive(r) \/ Handle(r) \/ Abort(r)
    \/ Take
    \/ \E j \in JobIds : Await(j) \/ Attempt(j) \/ Promote(j)

Spec == Init /\ [][Next]_vars

(* Handlers and the worker go on; a request need never arrive.  Which      *)
(* handler or which job comes next is left open.                           *)
Fairness ==
    /\ WF_vars(\E r \in Requests : Handle(r))
    /\ WF_vars(Take \/ \E j \in JobIds : Await(j) \/ Attempt(j) \/ Promote(j))

FairSpec == Spec /\ Fairness

-----------------------------------------------------------------------------
(* Properties.                                                              *)

Waits(r) == \E j \in JobIds : job[j].req = r /\ job[j].st \in {"waiting", "delayed", "active"}
Ended(r) == build[r] \in {"succeeded", "failed"} \/ r \in gaveUp
Accepted(r) == pc[r] = "done" /\ Kind[Push[r]] # "skip"

(* A push that was accepted while no other was being handled is not        *)
(* swallowed: its build has a job, or has run, or a newer push removed the *)
(* job.  BullMQ ignores an id that exists, also that of a finished job.    *)
NotSwallowed ==
    \A r \in Requests : Accepted(r) /\ r \notin crowd => Waits(r) \/ Ended(r) \/ by[r] # 0

(* The slots of the worker deploy pushes in their order: a push goes live  *)
(* after a newer one only when it was retried, or was handled next to      *)
(* another one, or when the newer one overtook it in the other slot, before*)
(* both had asked for the application's lock; although the ids of their    *)
(* jobs alternate between the base key and the suffixed ones.              *)
InOrder ==
    \A i, k \in DOMAIN deployed :
        i < k /\ deployed[i].req > deployed[k].req
            => deployed[k].made > 1 \/ deployed[k].req \in crowd \cup overtaken

Settled(r) ==
    \/ build[r] = "succeeded"
    \/ Ended(r) /\ ~Waits(r)
    \/ by[r] # 0 /\ pc[by[r]] \in {"done", "lost"}

(* Again and again every such push has been deployed or has failed, unless *)
(* the handling of a newer one has removed its job: none waits for ever.   *)
(* An attempt is one step here: the refused claim of a build, its          *)
(* cancellation by a user and the reaper are in DeployPipeline and not in  *)
(* this module.                                                            *)
Lands == []<>(\A r \in Requests : Accepted(r) /\ r \notin crowd => Settled(r))
=============================================================================
