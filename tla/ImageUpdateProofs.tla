------------------------- MODULE ImageUpdateProofs -------------------------
(***************************************************************************)
(* Proofs about ImageUpdate, for any number of digests, jobs, attempts and *)
(* failures.                                                               *)
(***************************************************************************)
EXTENDS ImageUpdate, TLAPS

AppRow  == [status : Status, track : BOOLEAN, last : Digests, pending : Digests]
TickRow == [pc : {"idle", "digest", "baseline", "reserve", "enqueue"},
            last : Digests, to : Digests]
JobRow  ==
    [kind : {"none", "update", "manual"}, from : Digests, to : Digests,
     build : {"none", "pending", "claimed", "running", "succeeded", "failed", "cancelled"},
     st : {"none", "waiting", "delayed", "active", "ended"}, made : 0..MaxAttempts]
WorkRow ==
    [pc : {"idle", "read", "cancel", "start", "run", "finalize", "end", "release"},
     j : 0..MaxJobs, status : Status, fatal : BOOLEAN]

(* A job that is still to be run has attempts left.                        *)
AttemptsLeft ==
    \A j \in Jobs : jobs[j].st \in {"waiting", "delayed", "active"} => jobs[j].made < Attempts(j)

(* The worker is busy with a job that is active; only updates finalize.    *)
Working ==
    /\ worker.pc # "idle" => worker.j \in Jobs /\ jobs[worker.j].st = "active"
    /\ worker.pc = "idle" => worker = NotBusy
    /\ worker.pc = "finalize" => jobs[worker.j].kind = "update" /\ jobs[worker.j].to \in shipped

(* No digest that is pinned, recorded or queued is beyond d.               *)
UpTo(d) ==
    /\ pinned <= d /\ app.last <= d
    /\ \A j \in Jobs : jobs[j].kind = "update" => jobs[j].to <= d

(* Digests grow from the jobs to the reservation, the watcher and the tag, *)
(* and while the watcher looks up a digest nothing is reserved.            *)
Ordered ==
    /\ UpTo(registry)
    /\ \A j \in Jobs : jobs[j].kind = "update" => jobs[j].to # 0
    /\ tick.pc \in {"baseline", "reserve", "enqueue"} =>
          tick.to # 0 /\ tick.to <= registry /\ UpTo(tick.to)
    /\ tick.pc \in {"digest", "baseline", "reserve"} => app.pending = 0
    /\ tick.pc = "enqueue" => app.pending \in {0, tick.to}
    /\ app.pending # 0 => app.pending <= registry /\ UpTo(app.pending)
    /\ worker.pc \in {"start", "run"} /\ jobs[worker.j].kind = "update" =>
          pinned <= jobs[worker.j].to

IInv == TypeOK /\ AttemptsLeft /\ Working /\ LastWasLive /\ Ordered

-----------------------------------------------------------------------------
(* Type correctness.                                                        *)

(* A failure is counted within its bound.                                  *)
LEMMA TroubleType ==
    ASSUME TypeOK, Trouble PROVE trouble' \in 0..MaxTrouble
  BY ImageAssumption DEF TypeOK, Trouble

(* What the initial and idle values are.                                   *)
LEMMA IdleTypes == TickIdle \in TickRow /\ NotBusy \in WorkRow /\ NoJob \in JobRow
  BY ImageAssumption DEF TickIdle, NotBusy, NoJob, TickRow, WorkRow, JobRow, Digests, Status, Jobs

LEMMA InitInv == Init => IInv
  <1> SUFFICES ASSUME Init PROVE IInv
    OBVIOUS
  <1>1. TypeOK
    <2>1. jobs \in [Jobs -> JobRow] /\ tick \in TickRow /\ worker \in WorkRow
      BY IdleTypes DEF Init
    <2>2. registry \in 1..MaxDigest /\ app \in AppRow /\ trouble \in 0..MaxTrouble
      BY ImageAssumption DEF Init, AppRow, Digests, Status
    <2> QED
      BY <2>1, <2>2, ImageAssumption
      DEF Init, TypeOK, AppRow, TickRow, WorkRow, JobRow, Digests
  <1>2. AttemptsLeft /\ Working /\ LastWasLive /\ Ordered
    BY ImageAssumption
    DEF Init, AttemptsLeft, Working, LastWasLive, Ordered, UpTo, NoJob, NotBusy, TickIdle, Jobs
  <1> QED
    BY <1>1, <1>2 DEF IInv

(* The steps of the watcher, the tag and the user keep the types.          *)
LEMMA TickType ==
    ASSUME TypeOK, MoveTag \/ Tick PROVE TypeOK'
  <1>1. CASE MoveTag
    BY <1>1, ImageAssumption DEF MoveTag, TypeOK, Digests
  <1>2. CASE TickRead
    BY <1>2, ImageAssumption DEF TickRead, TypeOK, Digests
  <1>3. CASE TickDigest
    <2>1. tick' \in TickRow
      <3>1. registry \in Digests
        BY ImageAssumption DEF TypeOK, Digests
      <3>2. [tick EXCEPT !.pc = "baseline", !.to = registry] \in TickRow
        BY <3>1 DEF TypeOK, TickRow
      <3>3. [tick EXCEPT !.pc = "reserve", !.to = registry] \in TickRow
        BY <3>1 DEF TypeOK, TickRow
      <3> QED
        BY <1>3, <3>2, <3>3, IdleTypes DEF TickDigest
    <2>2. trouble' \in 0..MaxTrouble
      BY <1>3, TroubleType DEF TickDigest, TypeOK
    <2> QED
      BY <1>3, <2>1, <2>2 DEF TickDigest, TypeOK, TickRow
  <1>4. CASE TickBaseline
    BY <1>4, IdleTypes DEF TickBaseline, TypeOK, TickRow
  <1>5. CASE TickReserve
    BY <1>5, IdleTypes DEF TickReserve, TypeOK, TickRow, Status
  <1>6. CASE TickEnqueue
    <2>1. jobs' \in [Jobs -> JobRow]
      BY <1>6, ImageAssumption DEF TickEnqueue, TypeOK, JobRow, Digests
    <2>2. trouble' \in 0..MaxTrouble
      BY <1>6, TroubleType DEF TickEnqueue, TypeOK
    <2>3. app' \in AppRow
      <3>1. [app EXCEPT !.pending = 0, !.status = "running"] \in AppRow
        <4>1. 0 \in Digests /\ app \in AppRow
          BY ImageAssumption DEF TypeOK, AppRow, Digests
        <4> QED
          BY <4>1 DEF AppRow, Status
      <3>2. app' = app \/ app' = [app EXCEPT !.pending = 0, !.status = "running"]
        BY <1>6 DEF TickEnqueue
      <3> QED
        BY <3>1, <3>2 DEF TypeOK, AppRow
    <2> QED
      BY <1>6, <2>1, <2>2, <2>3, IdleTypes DEF TickEnqueue, TypeOK, TickRow, JobRow, AppRow
  <1> QED
    BY <1>1, <1>2, <1>3, <1>4, <1>5, <1>6 DEF Tick

(* What an error outside the try leaves behind.                            *)
BailLeaves(fatal, left) ==
    /\ jobs' = [jobs EXCEPT
          ![worker.j].build = left[1], ![worker.j].made = @ + 1, ![worker.j].st = After(fatal)]
    /\ app' = [app EXCEPT !.status = left[2]]
    /\ broke' = (broke \/ IsUpdate \/ left[2] = "building")

LEMMA LeftType ==
    ASSUME app \in AppRow, Job \in JobRow, NEW left \in Left
    PROVE  /\ left[1] \in {"none", "pending", "claimed", "running", "succeeded", "failed",
                           "cancelled"}
           /\ left[2] \in Status
  <1>0. app.status \in Status /\ "building" \in Status
    BY DEF AppRow, Status
  <1>1. \A t : Outcome(t) \in {t, "cancelled"}
    BY DEF Outcome
  <1>2. /\ left[1] \in {Job.build, "cancelled", Outcome("running"), Outcome("failed")}
        /\ left[2] \in {app.status, "building"}
    BY DEF Left
  <1>3. Job.build \in {"none", "pending", "claimed", "running", "succeeded", "failed",
                       "cancelled"}
    BY DEF JobRow
  <1> QED
    BY <1>0, <1>1, <1>2, <1>3

(* The steps of the handler keep the types.                                *)
LEMMA HandleType ==
    ASSUME TypeOK, AttemptsLeft, Working, Handle PROVE TypeOK'
  <1> USE DEF AppRow, TickRow, JobRow, WorkRow
  <1>0. app \in AppRow /\ jobs \in [Jobs -> JobRow] /\ worker \in WorkRow /\ 0 \in Digests
    BY ImageAssumption DEF TypeOK, Digests
  <1>a. ASSUME worker.pc # "idle"
        PROVE  worker.j \in Jobs /\ Job \in JobRow /\ Job.made + 1 \in 0..MaxAttempts
    <2>1. worker.j \in Jobs /\ jobs[worker.j].st = "active" /\ Job \in JobRow
      BY <1>a, <1>0 DEF Working, Job
    <2>2. Job.made < Attempts(worker.j)
      BY <2>1 DEF AttemptsLeft, Job
    <2>3. Attempts(worker.j) \in 0..MaxAttempts
      BY ImageAssumption DEF Attempts
    <2> QED
      BY <2>1, <2>2, <2>3, ImageAssumption
  <1>b. \A p \in Digests : [app EXCEPT !.pending = p] \in AppRow
    BY <1>0
  <1>c. \A t \in Status : [app EXCEPT !.status = t] \in AppRow
    BY <1>0
  <1>1. CASE ReadApp
    <2>1. worker' \in WorkRow
      BY <1>1, <1>0 DEF ReadApp
    <2> QED
      BY <1>1, <2>1 DEF ReadApp, TypeOK
  <1>2. CASE CancelStale
    <2>1. jobs' \in [Jobs -> JobRow]
      <3>1. worker.j \in Jobs
        BY <1>2, <1>a DEF CancelStale
      <3>2. [jobs[worker.j] EXCEPT !.build = "cancelled", !.st = "ended"] \in JobRow
        <4>1. jobs[worker.j] \in JobRow
          BY <3>1, <1>0
        <4> QED
          BY <4>1
      <3>3. jobs' = [jobs EXCEPT ![worker.j] =
                        [jobs[worker.j] EXCEPT !.build = "cancelled", !.st = "ended"]]
        BY <1>2, <3>1, <1>0 DEF CancelStale
      <3> QED
        BY <3>1, <3>2, <3>3, <1>0
    <2>2. app' \in AppRow
      BY <1>2, <1>0, <1>b DEF CancelStale
    <2> QED
      BY <1>2, <2>1, <2>2, IdleTypes DEF CancelStale, TypeOK
  <1>3. CASE Start
    <2>1. app' \in AppRow
      BY <1>3, <1>c DEF Start, Status
    <2>2. worker' \in WorkRow
      BY <1>3, <1>0 DEF Start
    <2>3. jobs' \in [Jobs -> JobRow]
      BY <1>3, <1>0, <1>a DEF Start, Outcome
    <2> QED
      BY <1>3, <2>1, <2>2, <2>3 DEF Start, TypeOK
  <1>4. CASE GoLive
    <2>1. app' \in AppRow
      BY <1>4, <1>c DEF GoLive, Status
    <2>2. worker' \in WorkRow
      BY <1>4, <1>0 DEF GoLive
    <2>3. pinned' \in Digests /\ shipped' \subseteq Digests
      BY <1>4, <1>a DEF GoLive, TypeOK
    <2> QED
      BY <1>4, <2>1, <2>2, <2>3 DEF GoLive, TypeOK
  <1>5. CASE Finalize
    <2>1. [app EXCEPT !.last = Job.to, !.pending = 0] \in AppRow
      BY <1>5, <1>0, <1>a DEF Finalize
    <2>2. app' \in AppRow
      BY <1>5, <1>0, <2>1 DEF Finalize
    <2>3. worker' \in WorkRow
      BY <1>5, <1>0 DEF Finalize
    <2> QED
      BY <1>5, <2>2, <2>3 DEF Finalize, TypeOK
  <1>6. CASE End
    <2>1. jobs' \in [Jobs -> JobRow]
      BY <1>6, <1>0, <1>a DEF End, Outcome, Job
    <2> QED
      BY <1>6, <2>1, IdleTypes DEF End, TypeOK
  <1>7. ASSUME NEW fatal \in BOOLEAN, Catch(fatal) PROVE TypeOK'
    <2>1. app' \in AppRow
      BY <1>7, <1>c DEF Catch, Status, fallbackStatus
    <2>2. worker' \in WorkRow
      BY <1>7, <1>0 DEF Catch
    <2>3. trouble' \in 0..MaxTrouble
      BY <1>7, TroubleType DEF Catch
    <2>4. broke' \in BOOLEAN
      BY <1>7 DEF Catch
    <2> QED
      BY <1>7, <2>1, <2>2, <2>3, <2>4 DEF Catch, TypeOK
  <1>8. CASE Release
    <2>1. jobs' \in [Jobs -> JobRow]
      BY <1>8, <1>0, <1>a DEF Release, Outcome, After, Job
    <2>2. app' \in AppRow
      BY <1>8, <1>0, <1>b DEF Release
    <2>3. broke' \in BOOLEAN
      BY <1>8 DEF Release
    <2> QED
      BY <1>8, <2>1, <2>2, <2>3, IdleTypes DEF Release, TypeOK
  <1>9. CASE LostAccess
    <2>1. jobs' \in [Jobs -> JobRow]
      BY <1>9, <1>0, <1>a DEF LostAccess, Outcome, Job
    <2>2. trouble' \in 0..MaxTrouble
      BY <1>9, TroubleType DEF LostAccess
    <2> QED
      BY <1>9, <2>1, <2>2, IdleTypes DEF LostAccess, TypeOK
  <1>10. ASSUME NEW fatal \in BOOLEAN, Bail(fatal) PROVE TypeOK'
    <2>0. PICK left \in Left : BailLeaves(fatal, left)
      BY <1>10 DEF Bail, BailLeaves
    <2>a. worker.j \in Jobs /\ Job \in JobRow /\ Job.made + 1 \in 0..MaxAttempts
      BY <1>10, <1>a DEF Bail
    <2>b. /\ left[1] \in {"none", "pending", "claimed", "running", "succeeded", "failed",
                          "cancelled"}
          /\ left[2] \in Status
      BY <1>0, <2>a, LeftType
    <2>1. jobs' \in [Jobs -> JobRow]
      <3>1. [Job EXCEPT !.build = left[1], !.made = Job.made + 1, !.st = After(fatal)] \in JobRow
        BY <2>a, <2>b DEF After
      <3> QED
        BY SMTT(20), <1>0, <2>0, <2>a, <3>1 DEF BailLeaves, Job
    <2>2. app' \in AppRow
      BY <1>c, <2>0, <2>b DEF BailLeaves
    <2>3. trouble' \in 0..MaxTrouble
      BY <1>10, TroubleType DEF Bail
    <2>4. broke' \in BOOLEAN
      BY <2>0 DEF BailLeaves
    <2> QED
      BY <1>10, <2>1, <2>2, <2>3, <2>4, IdleTypes DEF Bail, TypeOK
  <1> QED
    BY <1>1, <1>2, <1>3, <1>4, <1>5, <1>6, <1>7, <1>8, <1>9, <1>10 DEF Handle

(* The steps of the queue, of users and of faults keep the types.          *)
LEMMA OtherType ==
    ASSUME TypeOK, Working,
           \/ Crash \/ \E on \in BOOLEAN : SetTracking(on)
           \/ \E j \in Jobs : Claim(j) \/ Promote(j) \/ Deploy(j) \/ Cancel(j) \/ Reap(j)
    PROVE  TypeOK'
  <1> USE DEF AppRow, TickRow, JobRow, WorkRow
  <1>0. app \in AppRow /\ jobs \in [Jobs -> JobRow] /\ worker \in WorkRow /\ 0 \in Digests
    BY ImageAssumption DEF TypeOK, Digests
  <1>1. CASE Crash
    <2>1. jobs' \in [Jobs -> JobRow]
      <3>1. worker.j \in Jobs \/ worker = NotBusy
        BY DEF Working
      <3>2. \A j \in Jobs : [jobs EXCEPT ![j].st = "waiting"] \in [Jobs -> JobRow]
        BY <1>0
      <3> QED
        BY <1>1, <1>0, <3>1, <3>2 DEF Crash
    <2>2. trouble' \in 0..MaxTrouble
      BY <1>1, TroubleType DEF Crash
    <2> QED
      BY <1>1, <2>1, <2>2, IdleTypes DEF Crash, TypeOK
  <1>2. ASSUME NEW on \in BOOLEAN, SetTracking(on) PROVE TypeOK'
    <2>1. app' \in AppRow
      BY <1>2, <1>0 DEF SetTracking
    <2>2. trouble' \in 0..MaxTrouble
      BY <1>2, TroubleType DEF SetTracking, TypeOK
    <2>3. broke' \in BOOLEAN
      BY <1>2 DEF SetTracking
    <2> QED
      BY <1>2, <2>1, <2>2, <2>3 DEF SetTracking, TypeOK
  <1>3. ASSUME NEW j \in Jobs, Claim(j) PROVE TypeOK'
    <2>1. jobs' \in [Jobs -> JobRow]
      <3>1. [jobs[j] EXCEPT !.build = Claimed(j), !.st = "active"] \in JobRow
        BY ZenonT(30), <1>0 DEF Claimed
      <3>2. [jobs[j] EXCEPT !.st = "ended"] \in JobRow
        BY <1>0
      <3>3. \/ jobs' = [jobs EXCEPT ![j] = [jobs[j] EXCEPT !.build = Claimed(j), !.st = "active"]]
            \/ jobs' = [jobs EXCEPT ![j] = [jobs[j] EXCEPT !.st = "ended"]]
        BY <1>3, <1>0 DEF Claim
      <3> QED
        BY ZenonT(30), <1>0, <3>1, <3>2, <3>3
    <2>2. [NotBusy EXCEPT !.pc = "read", !.j = j] \in WorkRow
      <3>1. j \in 0..MaxJobs
        BY ImageAssumption DEF Jobs
      <3> QED
        BY <3>1 DEF NotBusy, Status
    <2>3. worker' \in WorkRow
      BY <1>3, <1>0, <2>2 DEF Claim
    <2> QED
      BY <1>3, <2>1, <2>3 DEF Claim, TypeOK
  <1>4. ASSUME NEW j \in Jobs, Promote(j) PROVE TypeOK'
    <2>1. jobs' \in [Jobs -> JobRow]
      BY <1>4, <1>0 DEF Promote
    <2> QED
      BY <1>4, <2>1 DEF Promote, TypeOK
  <1>5. ASSUME NEW j \in Jobs, Deploy(j) PROVE TypeOK'
    <2>1. [NoJob EXCEPT !.kind = "manual", !.build = "pending", !.st = "waiting"] \in JobRow
      BY IdleTypes
    <2>2. jobs' \in [Jobs -> JobRow]
      BY <1>5, <1>0, <2>1 DEF Deploy
    <2>3. trouble' \in 0..MaxTrouble
      BY <1>5, TroubleType DEF Deploy
    <2> QED
      BY <1>5, <2>2, <2>3 DEF Deploy, TypeOK
  <1>6. ASSUME NEW j \in Jobs, Cancel(j) PROVE TypeOK'
    <2>1. jobs' \in [Jobs -> JobRow]
      <3>1. \A i \in Jobs : [jobs[i] EXCEPT !.build = IF i = j THEN "cancelled" ELSE @,
               !.st = IF @ \in {"waiting", "delayed"} THEN "ended" ELSE @] \in JobRow
        <4> TAKE i \in Jobs
        <4>1. jobs[i] \in JobRow
          BY <1>0
        <4> QED
          BY <4>1
      <3> QED
        BY <1>6, <3>1 DEF Cancel
    <2>2. trouble' \in 0..MaxTrouble
      BY <1>6, TroubleType DEF Cancel
    <2> QED
      BY <1>6, <2>1, <2>2 DEF Cancel, TypeOK
  <1>7. ASSUME NEW j \in Jobs, Reap(j) PROVE TypeOK'
    <2>1. jobs' \in [Jobs -> JobRow]
      BY <1>7, <1>0 DEF Reap
    <2>2. app' \in AppRow
      BY <1>7, <1>0 DEF Reap, Status
    <2>3. trouble' \in 0..MaxTrouble
      BY <1>7, TroubleType DEF Reap
    <2>4. broke' \in BOOLEAN
      BY <1>7 DEF Reap
    <2> QED
      BY <1>7, <2>1, <2>2, <2>3, <2>4 DEF Reap, TypeOK
  <1> QED
    BY <1>1, <1>2, <1>3, <1>4, <1>5, <1>6, <1>7

(* Every step keeps the types.                                             *)
LEMMA StepType ==
    ASSUME TypeOK, AttemptsLeft, Working, Next PROVE TypeOK'
  BY TickType, HandleType, OtherType DEF Next

-----------------------------------------------------------------------------
(* What a step does to the digests.                                         *)

(* A job keeps its kind and digest; only the watcher queues updates.       *)
JobKept(j) ==
    \/ jobs'[j].kind = jobs[j].kind /\ jobs'[j].to = jobs[j].to
    \/ jobs[j] = NoJob /\ jobs'[j].kind = "manual"
    \/ jobs[j] = NoJob /\ TickEnqueue /\ jobs'[j].kind = "update" /\ jobs'[j].to = tick.to

(* How the watcher's step, the reservation, the last digest and the pinned *)
(* one may change.                                                         *)
TickMoves ==
    \/ tick' = tick
    \/ tick'.pc = "idle"
    \/ TickRead \/ TickDigest \/ TickReserve

RowMoves ==
    /\ app'.pending = app.pending \/ app'.pending = 0 \/ TickReserve
    /\ \/ app'.last = app.last
       \/ worker.pc = "finalize" /\ app.pending = Job.to /\ app'.last = Job.to
       \/ TickBaseline /\ app'.last = tick.to
    /\ \/ pinned' = pinned
       \/ worker.pc = "run" /\ IsUpdate /\ pinned' = Job.to
    /\ registry' = registry \/ registry' = registry + 1

LEMMA Moves ==
    ASSUME TypeOK, Working, Next
    PROVE  TickMoves /\ RowMoves /\ \A i \in Jobs : JobKept(i)
  <1> USE DEF AppRow, JobRow
  <1>0. app \in AppRow /\ jobs \in [Jobs -> JobRow]
    BY DEF TypeOK
  <1>a. ASSUME jobs' = jobs PROVE \A i \in Jobs : JobKept(i)
    BY <1>a DEF JobKept
  <1>1. CASE MoveTag
    BY <1>1, <1>a DEF MoveTag, TickMoves, RowMoves
  <1>2. CASE TickRead
    BY <1>2, <1>a DEF TickRead, TickMoves, RowMoves
  <1>3. CASE TickDigest
    BY <1>3, <1>a DEF TickDigest, TickMoves, RowMoves
  <1>4. CASE TickBaseline
    BY <1>4, <1>a, <1>0 DEF TickBaseline, TickMoves, RowMoves, TickIdle
  <1>5. CASE TickReserve
    BY <1>5, <1>a, <1>0 DEF TickReserve, TickMoves, RowMoves, TickIdle
  <1>6. CASE TickEnqueue
    <2>1. TickMoves
      BY <1>6 DEF TickEnqueue, TickMoves, TickIdle
    <2>2. RowMoves
      BY <1>6, <1>0 DEF TickEnqueue, RowMoves
    <2>3. \A i \in Jobs : JobKept(i)
      BY <1>6, <1>0 DEF TickEnqueue, JobKept
    <2> QED
      BY <2>1, <2>2, <2>3
  <1>7. CASE ReadApp
    BY <1>7, <1>a DEF ReadApp, TickMoves, RowMoves
  <1>8. CASE CancelStale
    <2>1. TickMoves /\ RowMoves
      BY <1>8, <1>0 DEF CancelStale, TickMoves, RowMoves
    <2>2. \A i \in Jobs : JobKept(i)
      BY <1>8, <1>0 DEF CancelStale, JobKept
    <2> QED
      BY <2>1, <2>2
  <1>9. CASE Start
    <2>1. TickMoves /\ RowMoves
      BY <1>9, <1>0 DEF Start, TickMoves, RowMoves
    <2>2. \A i \in Jobs : JobKept(i)
      BY <1>9, <1>0 DEF Start, JobKept
    <2> QED
      BY <2>1, <2>2
  <1>10. CASE GoLive
    BY <1>10, <1>a, <1>0 DEF GoLive, TickMoves, RowMoves
  <1>11. CASE Finalize
    BY <1>11, <1>a, <1>0 DEF Finalize, TickMoves, RowMoves
  <1>12. CASE End
    <2>1. TickMoves /\ RowMoves
      BY <1>12, <1>0 DEF End, TickMoves, RowMoves
    <2>2. \A i \in Jobs : JobKept(i)
      BY <1>12, <1>0 DEF End, JobKept
    <2> QED
      BY <2>1, <2>2
  <1>13. ASSUME NEW fatal \in BOOLEAN, Catch(fatal)
         PROVE  TickMoves /\ RowMoves /\ \A i \in Jobs : JobKept(i)
    BY <1>13, <1>a, <1>0 DEF Catch, TickMoves, RowMoves
  <1>14. CASE Release
    <2>1. TickMoves /\ RowMoves
      BY <1>14, <1>0 DEF Release, TickMoves, RowMoves
    <2>2. \A i \in Jobs : JobKept(i)
      BY <1>14, <1>0 DEF Release, JobKept
    <2> QED
      BY <2>1, <2>2
  <1>15. CASE Crash
    <2>1. TickMoves /\ RowMoves
      BY <1>15, <1>0 DEF Crash, TickMoves, RowMoves, TickIdle
    <2>2. \A i \in Jobs : JobKept(i)
      BY <1>15, <1>0 DEF Crash, JobKept
    <2> QED
      BY <2>1, <2>2
  <1>16. ASSUME NEW on \in BOOLEAN, SetTracking(on)
         PROVE  TickMoves /\ RowMoves /\ \A i \in Jobs : JobKept(i)
    BY <1>16, <1>a, <1>0 DEF SetTracking, TickMoves, RowMoves
  <1>17. ASSUME NEW j \in Jobs, Claim(j) \/ Promote(j) \/ Deploy(j) \/ Cancel(j) \/ Reap(j)
         PROVE  TickMoves /\ RowMoves /\ \A i \in Jobs : JobKept(i)
    <2>1. TickMoves /\ RowMoves
      BY <1>17, <1>0 DEF Claim, Promote, Deploy, Cancel, Reap, TickMoves, RowMoves
    <2>2. CASE Claim(j) \/ Promote(j)
      BY <2>1, <2>2, <1>0 DEF Claim, Promote, JobKept
    <2>3. CASE Deploy(j)
      BY <2>1, <2>3, <1>0 DEF Deploy, JobKept, NoJob
    <2>4. CASE Cancel(j)
      BY <2>1, <2>4, <1>0 DEF Cancel, JobKept
    <2>5. CASE Reap(j)
      BY <2>1, <2>5, <1>0 DEF Reap, JobKept
    <2> QED
      BY <1>17, <2>2, <2>3, <2>4, <2>5
  <1>18. CASE LostAccess
    <2>1. TickMoves /\ RowMoves
      BY <1>18, <1>0 DEF LostAccess, TickMoves, RowMoves
    <2>2. \A i \in Jobs : JobKept(i)
      BY <1>18, <1>0 DEF LostAccess, JobKept
    <2> QED
      BY <2>1, <2>2
  <1>19. ASSUME NEW fatal \in BOOLEAN, Bail(fatal)
         PROVE  TickMoves /\ RowMoves /\ \A i \in Jobs : JobKept(i)
    <2>0. PICK left \in Left : BailLeaves(fatal, left)
      BY <1>19 DEF Bail, BailLeaves
    <2>1. TickMoves /\ RowMoves
      BY <1>19, <1>0, <2>0 DEF Bail, BailLeaves, TickMoves, RowMoves
    <2>2. \A i \in Jobs : JobKept(i)
      BY <1>0, <2>0 DEF BailLeaves, JobKept
    <2> QED
      BY <2>1, <2>2
  <1> QED
    BY <1>1, <1>2, <1>3, <1>4, <1>5, <1>6, <1>7, <1>8, <1>9, <1>10, <1>11, <1>12, <1>13,
       <1>14, <1>15, <1>16, <1>17, <1>18, <1>19 DEF Next, Tick, Handle

-----------------------------------------------------------------------------
(* The other parts of the invariant.                                        *)

(* Where the lookup and the reservation leave the watcher.                 *)
LEMMA DigestStep ==
    ASSUME TypeOK, TickDigest
    PROVE  \/ tick'.pc = "idle"
           \/ tick'.pc \in {"baseline", "reserve"} /\ tick'.to = registry
  <1>1. tick \in TickRow
    BY DEF TypeOK, TickRow
  <1>2. \/ tick' = [tick EXCEPT !.pc = "baseline", !.to = registry]
        \/ tick' = TickIdle
        \/ tick' = [tick EXCEPT !.pc = "reserve", !.to = registry]
    BY DEF TickDigest
  <1>3. CASE tick' = TickIdle
    BY <1>3 DEF TickIdle
  <1>4. CASE tick' = [tick EXCEPT !.pc = "baseline", !.to = registry]
    BY <1>1, <1>4 DEF TickRow
  <1>5. CASE tick' = [tick EXCEPT !.pc = "reserve", !.to = registry]
    BY <1>1, <1>5 DEF TickRow
  <1> QED
    BY <1>2, <1>3, <1>4, <1>5

LEMMA ReserveStep ==
    ASSUME TypeOK, TickReserve
    PROVE  \/ tick'.pc = "idle"
           \/ tick'.pc = "enqueue" /\ tick'.to = tick.to /\ app'.pending = tick.to
  <1>1. tick \in TickRow /\ app \in AppRow
    BY DEF TypeOK, TickRow, AppRow
  <1>2. CASE tick' = TickIdle
    BY <1>2 DEF TickIdle
  <1>3. CASE /\ tick' = [tick EXCEPT !.pc = "enqueue"]
             /\ app' = [app EXCEPT !.pending = tick.to, !.status = "pending"]
    <2>1. tick'.pc = "enqueue" /\ tick'.to = tick.to
      BY <1>1, <1>3 DEF TickRow
    <2>2. app'.pending = tick.to
      BY <1>1, <1>3 DEF AppRow
    <2> QED
      BY <2>1, <2>2
  <1> QED
    BY <1>2, <1>3 DEF TickReserve

(* A bound on the digests is kept, unless the watcher is about to record   *)
(* or to queue a greater one.                                              *)
LEMMA UpToKept ==
    ASSUME TypeOK, Working, Next, NEW d \in Nat, NEW e \in Nat, d <= e, UpTo(d),
           tick.pc \in {"baseline", "enqueue"} => tick.to <= d
    PROVE  /\ pinned' <= e /\ app'.last <= e
           /\ \A j \in Jobs : jobs'[j].kind = "update" => jobs'[j].to <= e
  <1>0. /\ pinned \in Nat /\ app.last \in Nat /\ tick.to \in Nat
        /\ \A j \in Jobs : jobs[j].to \in Nat
    BY ImageAssumption DEF TypeOK, Digests
  <1>1. pinned' <= e
    BY <1>0, Moves DEF RowMoves, UpTo, Working, Job, IsUpdate
  <1>2. app'.last <= e
    BY <1>0, Moves DEF RowMoves, UpTo, Working, Job, TickBaseline
  <1>3. ASSUME NEW j \in Jobs, jobs'[j].kind = "update" PROVE jobs'[j].to <= e
    BY <1>0, <1>3, Moves DEF JobKept, UpTo, TickEnqueue
  <1> QED
    BY <1>1, <1>2, <1>3

LEMMA StepOrdered ==
    ASSUME IInv, TypeOK', Next PROVE Ordered'
  <1> USE DEF IInv
  <1>0. /\ registry \in Nat /\ registry' \in Nat /\ tick.to \in Nat /\ app.pending \in Nat
        /\ registry <= registry' /\ registry # 0
    BY Moves, ImageAssumption DEF RowMoves, TypeOK, Digests
  <1>1. UpTo(registry)'
    BY <1>0, UpToKept DEF Ordered, UpTo
  <1>2. \A j \in Jobs : jobs'[j].kind = "update" => jobs'[j].to # 0
    BY Moves DEF Ordered, JobKept, TickEnqueue
  <1>3. ASSUME tick'.pc \in {"baseline", "reserve", "enqueue"}
        PROVE  tick'.to # 0 /\ tick'.to <= registry' /\ UpTo(tick.to)'
    <2>1. CASE TickDigest
      <3>1. tick'.to = registry
        BY <2>1, <1>3, DigestStep
      <3>2. tick.pc = "digest"
        BY <2>1 DEF TickDigest
      <3> QED
        BY <3>1, <3>2, <1>0, UpToKept DEF Ordered, UpTo
    <2>2. CASE tick' = tick \/ TickReserve
      <3>1. tick'.to = tick.to /\ tick.pc \in {"baseline", "reserve", "enqueue"}
        BY <2>2, <1>3 DEF TickReserve, TickIdle, TypeOK
      <3> QED
        BY <3>1, <1>0, UpToKept DEF Ordered, UpTo
    <2> QED
      BY <1>3, <2>1, <2>2, Moves DEF TickMoves, TickRead
  <1>4. ASSUME tick'.pc \in {"digest", "baseline", "reserve"} PROVE app'.pending = 0
    <2>1. CASE TickRead \/ TickDigest
      BY <2>1 DEF TickRead, TickDigest, Ordered
    <2>2. CASE TickReserve
      BY <2>2, <1>4 DEF TickReserve, TickIdle, TypeOK
    <2>3. CASE tick' = tick /\ ~TickReserve
      BY <2>3, <1>4, Moves DEF RowMoves, Ordered
    <2> QED
      BY <1>4, <2>1, <2>2, <2>3, Moves DEF TickMoves
  <1>5. ASSUME tick'.pc = "enqueue" PROVE app'.pending \in {0, tick'.to}
    <2>1. CASE TickReserve
      BY <2>1, <1>5, ReserveStep
    <2>2. CASE tick' = tick /\ ~TickReserve
      BY <2>2, <1>5, Moves DEF RowMoves, Ordered
    <2>3. ~TickRead /\ ~TickDigest
      BY <1>5, DigestStep DEF TickRead
    <2> QED
      BY <1>5, <2>1, <2>2, <2>3, Moves DEF TickMoves
  <1>6. ASSUME app'.pending # 0 PROVE app'.pending <= registry' /\ UpTo(app.pending)'
    <2>1. CASE TickReserve
      <3>1. tick.pc = "reserve" /\ (app' = app \/ app'.pending = tick.to)
        BY <2>1 DEF TickReserve, TypeOK
      <3>2. app'.pending = tick.to
        BY <3>1, <1>6 DEF Ordered
      <3> QED
        BY <3>1, <3>2, <1>0, UpToKept DEF Ordered, UpTo
    <2>2. CASE ~TickReserve
      <3>1. app'.pending = app.pending
        BY <2>2, <1>6, Moves DEF RowMoves
      <3>2. tick.pc \in {"baseline", "enqueue"} => tick.to <= app.pending
        BY <3>1, <1>6, <1>0 DEF Ordered
      <3> QED
        BY <3>1, <3>2, <1>6, <1>0, UpToKept DEF Ordered, UpTo
    <2> QED
      BY <2>1, <2>2
  <1>7. ASSUME worker'.pc \in {"start", "run"}, jobs'[worker'.j].kind = "update"
        PROVE  pinned' <= jobs'[worker'.j].to
    <2>1. CASE ReadApp
      <3>1. worker'.pc = "start" /\ ~Stale /\ worker'.j = worker.j
        BY <2>1, <1>7 DEF ReadApp, TypeOK
      <3>2. worker.j \in Jobs /\ Job.to = app.pending /\ Job.kind = "update"
        BY <2>1, <3>1, <1>7 DEF ReadApp, Stale, IsUpdate, Job, Working
      <3> QED
        BY <2>1, <3>1, <3>2 DEF ReadApp, Ordered, UpTo, Job
    <2>2. CASE ~ReadApp
      <3>1. /\ worker'.j = worker.j /\ worker.pc \in {"start", "run"}
            /\ pinned' = pinned
        <4>1. CASE Tick \/ MoveTag \/ \E on \in BOOLEAN : SetTracking(on)
          BY <4>1, <1>7 DEF Tick, TickRead, TickDigest, TickBaseline, TickReserve, TickEnqueue,
                       MoveTag, SetTracking
        <4>2. CASE Handle
          <5>0. worker \in WorkRow
            BY DEF TypeOK, WorkRow
          <5>1. CASE Start
            BY <5>0, <5>1 DEF Start, WorkRow
          <5>2. CASE CancelStale \/ End \/ Release \/ LostAccess
                     \/ \E fatal \in BOOLEAN : Bail(fatal)
            <6>1. worker' = NotBusy
              BY <5>2 DEF CancelStale, End, Release, LostAccess, Bail
            <6> QED
              BY <6>1, <1>7 DEF NotBusy
          <5>3. CASE GoLive \/ Finalize \/ \E fatal \in BOOLEAN : Catch(fatal)
            BY <5>0, <5>3, <1>7 DEF GoLive, Finalize, Catch, WorkRow
          <5> QED
            BY <4>2, <2>2, <5>1, <5>2, <5>3 DEF Handle
        <4>3. CASE Crash
          BY <4>3, <1>7 DEF Crash, NotBusy
        <4>4. ASSUME NEW j \in Jobs, Claim(j) \/ Promote(j) \/ Deploy(j) \/ Cancel(j) \/ Reap(j)
              PROVE  /\ worker'.j = worker.j /\ worker.pc \in {"start", "run"}
                     /\ pinned' = pinned
          BY <4>4, <1>7 DEF Claim, Promote, Deploy, Cancel, Reap, NotBusy
        <4> QED
          BY <4>1, <4>2, <4>3, <4>4 DEF Next
      <3>2. worker.j \in Jobs /\ jobs[worker.j].st = "active"
        BY <3>1 DEF Working
      <3>3. jobs'[worker.j].kind = jobs[worker.j].kind /\ jobs'[worker.j].to = jobs[worker.j].to
        BY <3>2, Moves DEF JobKept, NoJob
      <3> QED
        BY <3>1, <3>3, <1>7 DEF Ordered
    <2> QED
      BY <2>1, <2>2
  <1> QED
    BY <1>1, <1>2, <1>3, <1>4, <1>5, <1>6, <1>7 DEF Ordered

(* The last digest is the baseline or the one that the worker has shipped. *)
LEMMA StepLast ==
    ASSUME IInv, Next PROVE LastWasLive'
  <1>1. shipped \subseteq shipped'
    BY DEF Next, Tick, Handle, MoveTag, TickRead, TickDigest, TickBaseline, TickReserve,
       TickEnqueue, ReadApp, CancelStale, LostAccess, Start, GoLive, Finalize, End, Catch,
       Release, Bail, Crash, SetTracking, Claim, Promote, Deploy, Cancel, Reap
  <1>2. CASE app'.last = app.last
    BY <1>1, <1>2 DEF IInv, LastWasLive
  <1>3. CASE worker.pc = "finalize" /\ app'.last = Job.to
    BY <1>1, <1>3 DEF IInv, Working, LastWasLive, Job
  <1>4. CASE TickBaseline /\ app'.last = tick.to
    BY <1>4 DEF TickBaseline, LastWasLive
  <1> QED
    BY <1>2, <1>3, <1>4, Moves DEF IInv, RowMoves

(* Attempts are counted when they end, and the last one ends the job.      *)
LEMMA StepAttempts ==
    ASSUME IInv, Next PROVE AttemptsLeft'
  <1> USE DEF IInv, JobRow
  <1>0. jobs \in [Jobs -> JobRow] /\ \A j \in Jobs : Attempts(j) \in Nat /\ jobs[j].made \in Nat
    BY ImageAssumption DEF TypeOK, Attempts
  <1>1. CASE jobs' = jobs
    BY <1>1 DEF AttemptsLeft, Attempts
  <1>2. CASE TickEnqueue
    BY <1>0, <1>2, ImageAssumption DEF TickEnqueue, AttemptsLeft, Attempts
  <1>3. CASE CancelStale \/ LostAccess \/ Start \/ End
    BY <1>0, <1>3 DEF CancelStale, LostAccess, Start, End, AttemptsLeft, Attempts
  <1>4. CASE Release
    <2>1. worker.j \in Jobs /\ Job.made < Attempts(worker.j)
      BY <1>4 DEF Release, Working, AttemptsLeft, Job
    <2> QED
      BY <1>0, <1>4, <2>1 DEF Release, AttemptsLeft, Attempts, After, Job
  <1>10. ASSUME NEW fatal \in BOOLEAN, Bail(fatal) PROVE AttemptsLeft'
    <2>0. PICK left \in Left : BailLeaves(fatal, left)
      BY <1>10 DEF Bail, BailLeaves
    <2>1. worker.j \in Jobs /\ Job.made < Attempts(worker.j)
      BY <1>10 DEF Bail, Working, AttemptsLeft, Job
    <2>2. /\ jobs'[worker.j].st = After(fatal) /\ jobs'[worker.j].made = Job.made + 1
          /\ jobs'[worker.j].kind = Job.kind
          /\ \A j \in Jobs : j # worker.j => jobs'[j] = jobs[j]
      BY <1>0, <2>0, <2>1 DEF BailLeaves, Job
    <2> QED
      BY <1>0, <2>1, <2>2 DEF AttemptsLeft, Attempts, After, Job
  <1>5. CASE Crash
    <2>1. worker = NotBusy \/ (worker.j \in Jobs /\ jobs[worker.j].st = "active")
      BY DEF Working
    <2> QED
      BY <1>0, <1>1, <1>5, <2>1 DEF Crash, AttemptsLeft, Attempts
  <1>6. ASSUME NEW j \in Jobs, Claim(j) \/ Promote(j) \/ Reap(j) PROVE AttemptsLeft'
    BY <1>0, <1>6 DEF Claim, Promote, Reap, AttemptsLeft, Attempts
  <1>7. ASSUME NEW j \in Jobs, Deploy(j) PROVE AttemptsLeft'
    BY <1>0, <1>7 DEF Deploy, AttemptsLeft, Attempts, NoJob
  <1>8. ASSUME NEW j \in Jobs, Cancel(j) PROVE AttemptsLeft'
    BY <1>0, <1>8 DEF Cancel, AttemptsLeft, Attempts
  <1>9. CASE MoveTag \/ TickRead \/ TickDigest \/ TickBaseline \/ TickReserve \/ ReadApp
             \/ GoLive \/ Finalize \/ (\E fatal \in BOOLEAN : Catch(fatal))
             \/ \E on \in BOOLEAN : SetTracking(on)
    BY <1>1, <1>9 DEF MoveTag, TickRead, TickDigest, TickBaseline, TickReserve, ReadApp,
                      GoLive, Finalize, Catch, SetTracking
  <1> QED
    BY <1>2, <1>3, <1>4, <1>5, <1>6, <1>7, <1>8, <1>9, <1>10 DEF Next, Tick, Handle

(* The worker's job stays active while it works on it.                     *)
LEMMA StepWorking ==
    ASSUME IInv, Next PROVE Working'
  <1> USE DEF IInv, JobRow, WorkRow
  <1>0. jobs \in [Jobs -> JobRow] /\ worker \in WorkRow
    BY DEF TypeOK
  <1>a. ASSUME worker' = NotBusy PROVE Working'
    BY <1>a DEF Working, NotBusy
  <1>b. ASSUME worker' = worker, shipped \subseteq shipped',
               worker.pc # "idle" => /\ jobs'[worker.j].st = "active"
                                     /\ jobs'[worker.j].kind = jobs[worker.j].kind
                                     /\ jobs'[worker.j].to = jobs[worker.j].to
        PROVE  Working'
    BY <1>b DEF Working
  <1>1. CASE CancelStale \/ LostAccess \/ End \/ Release \/ Crash
             \/ \E fatal \in BOOLEAN : Bail(fatal)
    BY <1>1, <1>a DEF CancelStale, LostAccess, End, Release, Crash, Bail
  <1>2. CASE MoveTag \/ TickRead \/ TickDigest \/ TickBaseline \/ TickReserve
             \/ \E on \in BOOLEAN : SetTracking(on)
    BY <1>2, <1>b DEF MoveTag, TickRead, TickDigest, TickBaseline, TickReserve, SetTracking,
                      Working
  <1>3. CASE TickEnqueue
    <2>1. \A j \in Jobs : jobs[j] # NoJob => jobs'[j] = jobs[j]
      BY <1>0, <1>3 DEF TickEnqueue
    <2>2. worker.pc # "idle" => jobs'[worker.j] = jobs[worker.j]
      BY <2>1 DEF Working, NoJob
    <2> QED
      BY <1>3, <1>b, <2>2 DEF TickEnqueue, Working
  <1>4. CASE ReadApp \/ Start \/ \E fatal \in BOOLEAN : Catch(fatal)
    <2>1. CASE ReadApp \/ \E fatal \in BOOLEAN : Catch(fatal)
      BY <1>0, <2>1 DEF ReadApp, Catch, Working
    <2>2. CASE Start
      BY <1>0, <2>2 DEF Start, Working
    <2> QED
      BY <1>4, <2>1, <2>2
  <1>5. CASE GoLive
    BY <1>0, <1>5 DEF GoLive, Working, IsUpdate, Job
  <1>6. CASE Finalize
    BY <1>0, <1>6 DEF Finalize, Working
  <1>7. ASSUME NEW j \in Jobs, Claim(j) PROVE Working'
    <2>1. CASE /\ jobs' = [jobs EXCEPT ![j].build = Claimed(j), ![j].st = "active"]
               /\ worker' = [NotBusy EXCEPT !.pc = "read", !.j = j]
      <3>1. jobs'[j].st = "active"
        BY <1>0, <2>1
      <3>2. worker'.pc = "read" /\ worker'.j = j
        BY <2>1 DEF NotBusy
      <3> QED
        BY <3>1, <3>2 DEF Working
    <2>2. CASE worker' = worker
      BY <1>7, <2>2, <1>a DEF Claim, Working
    <2> QED
      BY <1>7, <2>1, <2>2 DEF Claim
  <1>8. ASSUME NEW j \in Jobs, Promote(j) \/ Deploy(j) \/ Cancel(j) \/ Reap(j) PROVE Working'
    <2>1. worker.pc # "idle" => jobs'[worker.j].st = "active"
      <3>1. CASE Promote(j) \/ Reap(j)
        BY <1>0, <3>1 DEF Promote, Reap, Working
      <3>2. CASE Deploy(j)
        BY <1>0, <3>2 DEF Deploy, Working, NoJob
      <3>3. CASE Cancel(j)
        BY ZenonT(30), <1>0, <3>3 DEF Cancel, Working
      <3> QED
        BY <1>8, <3>1, <3>2, <3>3
    <2>2. worker.pc # "idle" => /\ jobs'[worker.j].kind = jobs[worker.j].kind
                                /\ jobs'[worker.j].to = jobs[worker.j].to
      BY Moves DEF Working, JobKept, NoJob
    <2>3. worker' = worker /\ shipped' = shipped
      BY <1>8 DEF Promote, Deploy, Cancel, Reap
    <2> QED
      BY <2>1, <2>2, <2>3, <1>b
  <1> QED
    BY <1>1, <1>2, <1>3, <1>4, <1>5, <1>6, <1>7, <1>8 DEF Next, Tick, Handle

(* The invariant is inductive.                                             *)
LEMMA StepInv == IInv /\ [Next]_vars => IInv'
  <1>1. ASSUME IInv, Next PROVE IInv'
    <2>1. TypeOK'
      BY <1>1, StepType DEF IInv
    <2> QED
      BY <1>1, <2>1, StepAttempts, StepWorking, StepLast, StepOrdered DEF IInv
  <1>2. ASSUME IInv, UNCHANGED vars PROVE IInv'
    BY <1>2 DEF vars, IInv, TypeOK, AttemptsLeft, Attempts, Working, LastWasLive, Ordered, UpTo
  <1> QED
    BY <1>1, <1>2

-----------------------------------------------------------------------------
(* Who owns the reservation.                                                *)

(* An update that still has to be finalized.                               *)
Open(j) ==
    /\ jobs[j].kind = "update" /\ jobs[j].st \in {"waiting", "delayed", "active"}
    /\ ~(worker.j = j /\ worker.pc = "end")

(* The reservation has one owner: the watcher before it has queued the     *)
(* job, the job from then on until it is finalized or gives it up.         *)
OneOwner ==
    /\ \A j \in Jobs : Open(j) => app.track /\ app.pending = jobs[j].to
    /\ \A i, j \in Jobs : Open(i) /\ Open(j) => i = j
    /\ tick.pc = "enqueue" => app.track /\ app.pending = tick.to /\ \A j \in Jobs : ~Open(j)
    /\ app.pending # 0 => tick.pc = "enqueue" \/ \E j \in Jobs : Open(j)

(* The row of an update that waits can be claimed, only updates are found  *)
(* stale, and an update that fails for good was at its end.                *)
RowsFollow ==
    /\ \A j \in Jobs : jobs[j].kind = "update" /\ jobs[j].st \in {"waiting", "delayed"} => Claimable(j)
    /\ worker.pc = "cancel" => jobs[worker.j].kind = "update"
    /\ worker.pc = "release" /\ worker.fatal /\ jobs[worker.j].kind = "update" =>
          jobs[worker.j].made + 1 >= MaxAttempts

(* Both hold until one of the events after which a reservation may stay.   *)
Reserved == ~broke => OneOwner /\ RowsFollow

LEMMA InitReserved == Init => Reserved
  BY DEF Init, Reserved, OneOwner, RowsFollow, Open, NoJob, NotBusy, TickIdle

(* A step that touches neither the reservation nor the set of open updates.*)
LEMMA OwnerKept ==
    ASSUME OneOwner, app'.track = app.track, app'.pending = app.pending,
           tick' = tick \/ (tick.pc # "enqueue" /\ tick'.pc # "enqueue"),
           \A j \in Jobs : (Open(j)' <=> Open(j)) /\ (Open(j) => jobs'[j].to = jobs[j].to)
    PROVE  OneOwner'
  BY DEF OneOwner

(* The watcher, the tag and the user.                                      *)
LEMMA TickOwner ==
    ASSUME IInv, OneOwner, ~broke',
           MoveTag \/ Tick \/ \E on \in BOOLEAN : SetTracking(on)
    PROVE  OneOwner'
  <1> USE DEF IInv
  <1>0. /\ app \in AppRow /\ jobs \in [Jobs -> JobRow] /\ tick \in TickRow
        /\ tick.pc \in {"baseline", "reserve", "enqueue"} => tick.to # 0
        /\ \A j \in Jobs : jobs[j].kind = "update" => jobs[j].to # 0
    BY DEF TypeOK, AppRow, JobRow, TickRow, Ordered
  <1>1. CASE MoveTag \/ TickRead
    BY <1>1, OwnerKept DEF MoveTag, TickRead, Open
  <1>2. CASE TickDigest
    <2>1. tick'.pc # "enqueue"
      BY <1>2, <1>0, DigestStep DEF TickDigest, TickRow
    <2> QED
      BY <1>2, <2>1, OwnerKept DEF TickDigest, Open
  <1>3. CASE TickBaseline
    BY <1>0, <1>3, OwnerKept DEF TickBaseline, Open, TickIdle, AppRow
  <1>4. CASE TickReserve
    <2>1. CASE Reservable
      <3>1. \A j \in Jobs : ~Open(j) /\ ~Open(j)'
        BY <1>0, <1>4, <2>1 DEF Reservable, OneOwner, Open, TickReserve
      <3>2. app'.track /\ app'.pending = tick.to /\ tick'.pc = "enqueue" /\ tick'.to = tick.to
        BY <1>0, <1>4, <2>1 DEF TickReserve, Reservable, AppRow, TickRow
      <3> QED
        BY <3>1, <3>2 DEF OneOwner
    <2>2. CASE ~Reservable
      BY <1>4, <2>2, OwnerKept DEF TickReserve, Open, TickIdle
    <2> QED
      BY <2>1, <2>2
  <1>5. CASE TickEnqueue
    <2>0. app.track /\ app.pending = tick.to /\ \A j \in Jobs : ~Open(j)
      BY <1>5 DEF TickEnqueue, OneOwner
    <2>1. ASSUME NEW j \in Jobs, app' = app,
                 jobs' = [jobs EXCEPT ![j] =
                    [kind |-> "update", from |-> tick.last, to |-> tick.to,
                     build |-> "pending", st |-> "waiting", made |-> 0]],
                 jobs[j] = NoJob
          PROVE  OneOwner'
      <3>1. \A i \in Jobs : Open(i)' => i = j
        BY <1>0, <1>5, <2>0, <2>1 DEF Open, TickEnqueue
      <3>2. Open(j)' /\ jobs'[j].to = tick.to
        <4>1. ~(worker.j = j /\ worker.pc = "end")
          BY <2>1 DEF Working, NoJob
        <4> QED
          BY <1>0, <1>5, <2>1, <4>1 DEF Open, TickEnqueue
      <3>3. tick'.pc = "idle"
        BY <1>5 DEF TickEnqueue, TickIdle
      <3> QED
        BY <2>0, <2>1, <3>1, <3>2, <3>3 DEF OneOwner
    <2>2. CASE jobs' = jobs /\ app'.pending = 0
      <3>1. \A j \in Jobs : ~Open(j)'
        BY <1>5, <2>0, <2>2 DEF Open, TickEnqueue
      <3> QED
        BY <1>5, <2>2, <3>1 DEF TickEnqueue, OneOwner, TickIdle
    <2>3. CASE UNCHANGED jobs /\ app' = [app EXCEPT !.pending = 0, !.status = "running"]
      BY <1>0, <2>2, <2>3 DEF AppRow
    <2> QED
      BY <1>5, <2>0, <2>1, <2>3 DEF TickEnqueue
  <1>6. ASSUME NEW on \in BOOLEAN, SetTracking(on) PROVE OneOwner'
    <2>1. \A j \in Jobs : ~Open(j) /\ ~Open(j)'
      BY <1>0, <1>6 DEF SetTracking, OneOwner, Open
    <2>2. tick.pc # "enqueue" /\ app.pending = 0
      BY <1>0, <1>6, <2>1 DEF SetTracking, OneOwner
    <2>3. app'.pending = 0 /\ tick' = tick
      BY <1>0, <1>6, <2>2 DEF SetTracking, AppRow
    <2> QED
      BY <2>1, <2>2, <2>3 DEF OneOwner
  <1> QED
    BY <1>1, <1>2, <1>3, <1>4, <1>5, <1>6 DEF Tick

(* The handler.                                                            *)
LEMMA HandleOwner ==
    ASSUME IInv, OneOwner, RowsFollow, ~broke', ~broke, Handle PROVE OneOwner'
  <1> USE DEF IInv
  <1>0. /\ app \in AppRow /\ jobs \in [Jobs -> JobRow] /\ worker \in WorkRow
        /\ tick.pc = "enqueue" => tick.to # 0
        /\ \A j \in Jobs : jobs[j].kind = "update" => jobs[j].to # 0
    BY DEF TypeOK, AppRow, JobRow, WorkRow, Ordered
  <1>a. worker.pc # "idle" /\ worker.j \in Jobs /\ jobs[worker.j].st = "active"
    BY DEF Handle, ReadApp, CancelStale, LostAccess, Start, GoLive, Finalize, End, Catch,
           Release, Bail, Working
  <1>b. /\ tick' = tick /\ app'.track = app.track
    BY <1>0 DEF Handle, ReadApp, CancelStale, LostAccess, Start, GoLive, Finalize, End, Catch,
                Release, Bail, AppRow
  <1>1. CASE ReadApp \/ Start \/ \E fatal \in BOOLEAN : Catch(fatal)
    <2>1. /\ app'.pending = app.pending
          /\ \A j \in Jobs : /\ jobs'[j].kind = jobs[j].kind /\ jobs'[j].to = jobs[j].to
                             /\ jobs'[j].st = jobs[j].st
      <3>1. CASE ReadApp \/ \E fatal \in BOOLEAN : Catch(fatal)
        BY <1>0, <3>1 DEF ReadApp, Catch, AppRow
      <3>2. CASE Start
        BY <1>0, <3>2 DEF Start, AppRow, JobRow
      <3> QED
        BY <1>1, <3>1, <3>2
    <2>2. worker'.j = worker.j /\ worker'.pc # "end" /\ worker.pc # "end"
      BY <1>0, <1>1 DEF ReadApp, Start, Catch, WorkRow
    <2> QED
      BY <1>b, <2>1, <2>2, OwnerKept DEF Open
  <1>2. CASE GoLive
    <2>1. app'.pending = app.pending /\ jobs' = jobs
      BY <1>0, <1>2 DEF GoLive, AppRow
    <2>2. worker'.j = worker.j /\ worker.pc # "end" /\ (worker'.pc = "end" => ~IsUpdate)
      BY <1>0, <1>2 DEF GoLive, WorkRow
    <2> QED
      BY <1>b, <2>1, <2>2, OwnerKept DEF Open, IsUpdate, Job
  <1>c. ASSUME \A j \in Jobs : Open(j)' <=> Open(j) /\ j # worker.j,
               Open(worker.j) => app'.pending = 0,
               ~Open(worker.j) => app'.pending = app.pending,
               \A j \in Jobs : jobs'[j].to = jobs[j].to
        PROVE  OneOwner'
    <2>1. CASE Open(worker.j)
      <3>1. \A j \in Jobs : ~Open(j)'
        BY <1>a, <1>c, <2>1 DEF OneOwner
      <3>2. tick.pc # "enqueue"
        BY <1>a, <2>1 DEF OneOwner
      <3> QED
        BY <1>b, <1>c, <2>1, <3>1, <3>2 DEF OneOwner
    <2>2. CASE ~Open(worker.j)
      BY <1>b, <1>c, <2>2, OwnerKept
    <2> QED
      BY <2>1, <2>2
  <1>3. CASE Finalize
    <2>1. Open(worker.j)
      BY <1>3, <1>a DEF Finalize, Open, Working
    <2>2. app.track /\ app.pending = Job.to
      BY <1>a, <2>1 DEF OneOwner, Job
    <2>3. app'.pending = 0 /\ jobs' = jobs
      BY <1>0, <1>3, <2>2 DEF Finalize, AppRow
    <2>4. worker'.j = worker.j /\ worker'.pc = "end" /\ worker.pc # "end"
      BY <1>0, <1>3 DEF Finalize, WorkRow
    <2>5. \A j \in Jobs : Open(j)' <=> Open(j) /\ j # worker.j
      BY <2>3, <2>4 DEF Open
    <2> QED
      BY <1>c, <2>1, <2>3, <2>5
  <1>4. CASE End
    <2>1. ~Open(worker.j)
      BY <1>4 DEF End, Open
    <2>2. \A j \in Jobs : Open(j)' <=> Open(j) /\ j # worker.j
      BY <1>0, <1>4, <1>a DEF End, Open, NotBusy, JobRow, Jobs
    <2>3. app' = app /\ \A j \in Jobs : jobs'[j].to = jobs[j].to
      BY <1>0, <1>4 DEF End, JobRow
    <2> QED
      BY <1>c, <2>1, <2>2, <2>3
  <1>5. CASE CancelStale
    <2>1. Open(worker.j)
      BY <1>5, <1>a DEF CancelStale, Open, RowsFollow
    <2>2. app.pending = Job.to
      BY <1>a, <2>1 DEF OneOwner, Job
    <2>3. app'.pending = 0
      BY <1>0, <1>5, <2>2 DEF CancelStale, AppRow
    <2>4. \A j \in Jobs : Open(j)' <=> Open(j) /\ j # worker.j
      BY <1>0, <1>5, <1>a DEF CancelStale, Open, NotBusy, JobRow, Jobs
    <2>5. \A j \in Jobs : jobs'[j].to = jobs[j].to
      BY <1>0, <1>5 DEF CancelStale, JobRow
    <2> QED
      BY <1>c, <2>1, <2>3, <2>4, <2>5
  <1>7. CASE LostAccess
    <2>1. ~Open(worker.j)
      BY <1>7 DEF LostAccess, Open, IsUpdate, Job
    <2>2. \A j \in Jobs : Open(j)' <=> Open(j) /\ j # worker.j
      BY <1>0, <1>7, <1>a DEF LostAccess, Open, NotBusy, JobRow, Jobs
    <2>3. app' = app /\ \A j \in Jobs : jobs'[j].to = jobs[j].to
      BY <1>0, <1>7 DEF LostAccess, JobRow
    <2> QED
      BY <1>c, <2>1, <2>2, <2>3
  <1>8. ASSUME NEW fatal \in BOOLEAN, Bail(fatal) PROVE OneOwner'
    <2>0. PICK left \in Left : BailLeaves(fatal, left)
      BY <1>8 DEF Bail, BailLeaves
    <2>1. ~IsUpdate /\ ~Open(worker.j)
      BY <2>0 DEF BailLeaves, Open, IsUpdate, Job
    <2>2. \A j \in Jobs : jobs'[j].to = jobs[j].to /\ jobs'[j].kind = jobs[j].kind
      BY <1>0, <2>0 DEF BailLeaves, JobRow
    <2>3. \A j \in Jobs : j # worker.j => jobs'[j] = jobs[j]
      BY <1>0, <2>0 DEF BailLeaves
    <2>4. worker' = NotBusy /\ worker'.pc # "end"
      BY <1>8 DEF Bail, NotBusy
    <2>5. \A j \in Jobs : Open(j)' <=> Open(j) /\ j # worker.j
      BY <2>1, <2>2, <2>3, <2>4 DEF Open, IsUpdate, Job
    <2>6. app'.pending = app.pending
      BY <1>0, <2>0 DEF BailLeaves, AppRow
    <2> QED
      BY <1>c, <2>1, <2>2, <2>5, <2>6
  <1>6. CASE Release
    <2>0. /\ Job.made \in Nat /\ MaxAttempts \in Nat /\ Job.made < Attempts(worker.j)
      BY <1>0, <1>a, ImageAssumption DEF Job, JobRow, AttemptsLeft
    <2>1. Open(worker.j) <=> IsUpdate
      BY <1>6, <1>a DEF Release, Open, IsUpdate, Job
    <2>2. \A j \in Jobs : jobs'[j].to = jobs[j].to /\ jobs'[j].kind = jobs[j].kind
      BY <1>0, <1>6 DEF Release, JobRow
    <2>3. \A j \in Jobs : j # worker.j => (Open(j)' <=> Open(j))
      BY <1>0, <1>6 DEF Release, Open, NotBusy, Jobs, JobRow
    <2>4. CASE IsUpdate /\ Job.made + 1 < MaxAttempts
      <3>1. ~worker.fatal
        BY <1>6, <2>0, <2>4 DEF RowsFollow, Release, IsUpdate, Job
      <3>2. jobs'[worker.j].st = "delayed"
        BY <1>0, <1>6, <1>a, <2>0, <2>4, <3>1 DEF Release, After, Attempts, IsUpdate, Job, JobRow
      <3>3. \A j \in Jobs : j = worker.j => Open(j)'
        BY <1>6, <1>a, <2>2, <2>4, <3>2 DEF Open, IsUpdate, Job, Release, NotBusy
      <3>4. app' = app
        BY <1>6, <2>0, <2>4 DEF Release
      <3> QED
        BY <1>a, <1>b, <2>1, <2>2, <2>3, <2>4, <3>3, <3>4, OwnerKept
    <2>5. CASE IsUpdate /\ Job.made + 1 >= MaxAttempts
      <3>1. app.pending = Job.to
        BY <1>a, <2>1, <2>5 DEF OneOwner, Job
      <3>2. app'.pending = 0
        BY <1>0, <1>6, <2>5, <3>1 DEF Release, AppRow
      <3>3. jobs'[worker.j].st = "ended"
        BY <1>0, <1>6, <1>a, <2>0, <2>5 DEF Release, After, Attempts, IsUpdate, Job, JobRow
      <3>4. \A j \in Jobs : j = worker.j => ~Open(j)'
        BY <1>6, <3>3 DEF Open, Release, NotBusy
      <3> QED
        BY <1>a, <1>c, <2>1, <2>2, <2>3, <2>5, <3>2, <3>4
    <2>6. CASE ~IsUpdate
      <3>1. app' = app
        BY <1>6, <2>6 DEF Release
      <3>2. \A j \in Jobs : j = worker.j => ~Open(j)'
        BY <1>a, <2>2, <2>6 DEF Open, IsUpdate, Job
      <3> QED
        BY <1>a, <1>c, <2>1, <2>2, <2>3, <2>6, <3>1, <3>2
    <2> QED
      BY <2>0, <2>4, <2>5, <2>6
  <1> QED
    BY <1>1, <1>2, <1>3, <1>4, <1>5, <1>6, <1>7, <1>8 DEF Handle

(* The queue, and the faults that do not count as one of those events.     *)
LEMMA OtherOwner ==
    ASSUME IInv, OneOwner, RowsFollow,
           ~broke',
           NEW j \in Jobs, Claim(j) \/ Promote(j) \/ Deploy(j) \/ Reap(j)
    PROVE  OneOwner'
  <1> USE DEF IInv
  <1>0. app \in AppRow /\ jobs \in [Jobs -> JobRow] /\ worker \in WorkRow
    BY DEF TypeOK, AppRow, JobRow, WorkRow
  <1>1. CASE Claim(j)
    <2>1. CASE /\ jobs' = [jobs EXCEPT ![j].build = Claimed(j), ![j].st = "active"]
               /\ worker' = [NotBusy EXCEPT !.pc = "read", !.j = j]
      <3>1. \A i \in Jobs : /\ jobs'[i].kind = jobs[i].kind /\ jobs'[i].to = jobs[i].to
                            /\ jobs'[i].st = IF i = j THEN "active" ELSE jobs[i].st
        BY <1>0, <2>1 DEF JobRow
      <3>2. worker'.pc # "end" /\ worker.pc # "end" /\ jobs[j].st = "waiting"
        BY <1>1, <2>1 DEF Claim, NotBusy
      <3> QED
        BY <1>1, <3>1, <3>2, OwnerKept DEF Claim, Open
    <2>2. CASE /\ ~Claimable(j) /\ jobs' = [jobs EXCEPT ![j].st = "ended"] /\ worker' = worker
      <3>1. jobs[j].kind # "update"
        BY <1>1, <2>2 DEF Claim, RowsFollow
      <3>2. \A i \in Jobs : /\ jobs'[i].kind = jobs[i].kind /\ jobs'[i].to = jobs[i].to
                            /\ i # j => jobs'[i].st = jobs[i].st
        BY <1>0, <2>2 DEF JobRow
      <3> QED
        BY <1>1, <2>2, <3>1, <3>2, OwnerKept DEF Claim, Open
    <2> QED
      BY <1>1, <2>1, <2>2 DEF Claim
  <1>2. CASE Promote(j)
    <2>1. \A i \in Jobs : /\ jobs'[i].kind = jobs[i].kind /\ jobs'[i].to = jobs[i].to
                          /\ jobs'[i].st = IF i = j THEN "waiting" ELSE jobs[i].st
      BY <1>0, <1>2 DEF Promote, JobRow
    <2> QED
      BY <1>2, <2>1, OwnerKept DEF Promote, Open
  <1>3. CASE Deploy(j)
    <2>1. jobs[j].kind = "none" /\ jobs'[j].kind = "manual"
          /\ \A i \in Jobs : i # j => jobs'[i] = jobs[i]
      BY <1>0, <1>3 DEF Deploy, NoJob
    <2> QED
      BY <1>3, <2>1, OwnerKept DEF Deploy, Open
  <1>4. CASE Reap(j)
    <2>1. \A i \in Jobs : /\ jobs'[i].kind = jobs[i].kind /\ jobs'[i].to = jobs[i].to
                          /\ jobs'[i].st = jobs[i].st
      BY <1>0, <1>4 DEF Reap, JobRow
    <2>2. app'.track = app.track /\ app'.pending = app.pending
      BY <1>0, <1>4 DEF Reap, AppRow
    <2> QED
      BY <1>4, <2>1, <2>2, OwnerKept DEF Reap, Open
  <1> QED
    BY <1>1, <1>2, <1>3, <1>4

(* The build rows go on following their jobs.                              *)
LEMMA StepRows ==
    ASSUME IInv, RowsFollow, Next, ~broke' PROVE RowsFollow'
  <1> USE DEF IInv
  <1>0. /\ jobs \in [Jobs -> JobRow] /\ worker \in WorkRow /\ MaxAttempts \in Nat
        /\ \A j \in Jobs : jobs[j].made \in Nat
    BY ImageAssumption DEF TypeOK, JobRow, WorkRow
  <1>a. ASSUME jobs' = jobs, worker' = worker PROVE RowsFollow'
    BY <1>a DEF RowsFollow, Claimable
  <1>1. CASE MoveTag \/ TickRead \/ TickDigest \/ TickBaseline \/ TickReserve
             \/ \E on \in BOOLEAN : SetTracking(on)
    BY <1>1, <1>a DEF MoveTag, TickRead, TickDigest, TickBaseline, TickReserve, SetTracking
  <1>2. CASE TickEnqueue
    <2>1. ASSUME NEW j \in Jobs, jobs[j] = NoJob, worker' = worker,
                 jobs' = [jobs EXCEPT ![j] =
                    [kind |-> "update", from |-> tick.last, to |-> tick.to,
                     build |-> "pending", st |-> "waiting", made |-> 0]]
          PROVE  RowsFollow'
      <3>1. jobs'[j].build = "pending" /\ \A i \in Jobs : i # j => jobs'[i] = jobs[i]
        BY <1>0, <2>1
      <3>2. worker.pc # "idle" => worker.j \in Jobs /\ worker.j # j
        BY <2>1 DEF Working, NoJob
      <3> QED
        BY <2>1, <3>1, <3>2 DEF RowsFollow, Claimable
    <2> QED
      BY <1>2, <1>a, <2>1 DEF TickEnqueue
  <1>b. worker.pc # "idle" => worker.j \in Jobs
    BY DEF Working
  <1>3. CASE ReadApp
    <2>1. worker'.pc = (IF Stale THEN "cancel" ELSE "start") /\ worker'.j = worker.j
      BY <1>0, <1>3 DEF ReadApp, WorkRow
    <2> QED
      BY <1>3, <1>b, <2>1 DEF ReadApp, RowsFollow, Claimable, Stale, IsUpdate, Job
  <1>4. CASE Start \/ GoLive \/ Finalize
    <2>1. worker'.j = worker.j /\ worker'.pc \in {"run", "finalize", "end"}
      BY <1>0, <1>4 DEF Start, GoLive, Finalize, WorkRow
    <2>2. worker.j \in Jobs /\ jobs[worker.j].st = "active"
      BY <1>4 DEF Start, GoLive, Finalize, Working
    <2>3. \A i \in Jobs : jobs'[i].st = jobs[i].st /\ (i # worker.j => jobs'[i] = jobs[i])
      <3>1. CASE Start
        BY <1>0, <3>1 DEF Start, JobRow
      <3>2. CASE jobs' = jobs
        BY <3>2
      <3> QED
        BY <1>4, <3>1, <3>2 DEF GoLive, Finalize
    <2> QED
      BY <2>1, <2>2, <2>3 DEF RowsFollow, Claimable
  <1>5. ASSUME NEW fatal \in BOOLEAN, Catch(fatal) PROVE RowsFollow'
    <2>1. /\ jobs' = jobs /\ worker'.j = worker.j /\ worker.pc # "idle"
          /\ worker'.pc = "release" /\ worker'.fatal = fatal
      BY <1>0, <1>5 DEF Catch, WorkRow
    <2>2. fatal /\ jobs[worker.j].kind = "update" => ~(Job.made + 1 < MaxAttempts)
      BY <1>5 DEF Catch, IsUpdate, Job
    <2>3. jobs[worker.j].made \in Nat
      BY <1>0, <1>b, <2>1
    <2> QED
      BY <1>0, <2>1, <2>2, <2>3 DEF RowsFollow, Claimable, Job
  <1>6. CASE CancelStale \/ LostAccess \/ End \/ Release
    <2>1. worker.j \in Jobs /\ worker' = NotBusy
      BY <1>6, <1>b DEF CancelStale, LostAccess, End, Release
    <2>2. \A i \in Jobs : i # worker.j => jobs'[i] = jobs[i]
      BY <1>0, <1>6 DEF CancelStale, LostAccess, End, Release
    <2>3. ASSUME jobs'[worker.j].kind = "update", jobs'[worker.j].st \in {"waiting", "delayed"}
          PROVE  jobs'[worker.j].made > 0 /\ jobs'[worker.j].build = "failed"
      <3>1. Release
        BY <1>0, <1>6, <2>1, <2>3 DEF CancelStale, LostAccess, End, JobRow
      <3>2. /\ IsUpdate /\ Job.made + 1 < MaxAttempts
            /\ jobs'[worker.j].made = Job.made + 1 /\ jobs'[worker.j].build = Outcome("failed")
        <4>1. /\ IsUpdate /\ jobs'[worker.j].st = After(worker.fatal)
              /\ jobs'[worker.j].made = Job.made + 1 /\ jobs'[worker.j].build = Outcome("failed")
          BY <1>0, <2>1, <2>3, <3>1 DEF Release, JobRow, IsUpdate, Job
        <4>2. Job.made + 1 # MaxAttempts /\ Job.made < MaxAttempts
          BY <2>1, <2>3, <3>1, <4>1 DEF After, Attempts, IsUpdate, Job, AttemptsLeft, Release, Working
        <4> QED
          BY <1>0, <2>1, <4>1, <4>2 DEF Job
      <3> QED
        <4>1. Job.build # "cancelled"
          BY <3>1, <3>2 DEF Release
        <4>2. Job.made \in Nat
          BY <1>0, <2>1 DEF Job
        <4> QED
          BY <3>2, <4>1, <4>2 DEF Outcome
    <2> QED
      BY <2>1, <2>2, <2>3 DEF RowsFollow, Claimable, NotBusy
  <1>11. ASSUME NEW fatal \in BOOLEAN, Bail(fatal) PROVE RowsFollow'
    <2>0. PICK left \in Left : BailLeaves(fatal, left)
      BY <1>11 DEF Bail, BailLeaves
    <2>1. worker' = NotBusy /\ worker.j \in Jobs
      BY <1>11, <1>b DEF Bail
    <2>2. /\ jobs'[worker.j].kind = Job.kind /\ Job.kind # "update"
          /\ \A i \in Jobs : i # worker.j => jobs'[i] = jobs[i]
      BY <1>0, <2>0, <2>1 DEF BailLeaves, JobRow, IsUpdate, Job
    <2> QED
      BY <2>1, <2>2 DEF RowsFollow, Claimable, NotBusy
  <1>7. ASSUME NEW j \in Jobs, Claim(j) PROVE RowsFollow'
    <2>1. /\ worker'.pc \in {"idle", "read"} /\ jobs'[j].st \in {"active", "ended"}
          /\ \A i \in Jobs : i # j => jobs'[i] = jobs[i]
      BY <1>0, <1>7 DEF Claim, NotBusy, JobRow
    <2> QED
      BY <2>1 DEF RowsFollow, Claimable
  <1>8. ASSUME NEW j \in Jobs, Promote(j) PROVE RowsFollow'
    <2>1. /\ worker' = worker
          /\ \A i \in Jobs : /\ jobs'[i].build = jobs[i].build /\ jobs'[i].made = jobs[i].made
                             /\ jobs'[i].kind = jobs[i].kind
                             /\ i # j => jobs'[i].st = jobs[i].st
      BY <1>0, <1>8 DEF Promote, JobRow
    <2> QED
      BY <1>8, <1>b, <2>1 DEF RowsFollow, Claimable, Promote
  <1>9. ASSUME NEW j \in Jobs, Deploy(j) PROVE RowsFollow'
    <2>1. /\ worker' = worker /\ jobs'[j].build = "pending"
          /\ \A i \in Jobs : i # j => jobs'[i] = jobs[i]
      BY <1>0, <1>9 DEF Deploy, NoJob
    <2>2. worker.pc # "idle" => worker.j # j
      BY <1>9 DEF Deploy, Working, NoJob
    <2> QED
      BY <1>b, <2>1, <2>2 DEF RowsFollow, Claimable
  <1>10. ~Crash /\ \A j \in Jobs : ~Cancel(j)
    BY DEF Crash, Cancel
  <1>12. ASSUME NEW j \in Jobs, Reap(j) PROVE RowsFollow'
    <2>1. /\ worker' = worker /\ \A i \in Jobs : i # j => jobs'[i] = jobs[i]
          /\ jobs'[j].kind = jobs[j].kind /\ jobs'[j].st = jobs[j].st /\ jobs'[j].made = jobs[j].made
      BY <1>0, <1>12 DEF Reap, JobRow
    <2>2. jobs[j].kind = "update" => worker.j = j
      BY <1>12 DEF Reap
    <2>3. jobs[j].kind = "update" => jobs[j].st = "active"
      BY <2>2, ImageAssumption DEF Working, NotBusy, Jobs
    <2> QED
      BY <1>b, <2>1, <2>3 DEF RowsFollow, Claimable
  <1> QED
    BY <1>1, <1>2, <1>3, <1>4, <1>5, <1>6, <1>7, <1>8, <1>9, <1>10, <1>11, <1>12
    DEF Next, Tick, Handle

LEMMA StepReserved == IInv /\ Reserved /\ [Next]_vars => Reserved'
  <1>1. ASSUME IInv, Reserved, Next, ~broke' PROVE OneOwner' /\ RowsFollow'
    <2>1. ~broke
      BY <1>1 DEF Next, Tick, Handle, MoveTag, TickRead, TickDigest, TickBaseline, TickReserve,
         TickEnqueue, ReadApp, CancelStale, LostAccess, Start, GoLive, Finalize, End, Catch,
         Release, Bail, Crash, SetTracking, Claim, Promote, Deploy, Cancel, Reap
    <2>2. OneOwner /\ RowsFollow
      BY <1>1, <2>1 DEF Reserved
    <2>3. ~Crash /\ \A j \in Jobs : ~Cancel(j)
      BY <1>1 DEF Crash, Cancel
    <2> QED
      BY <1>1, <2>1, <2>2, <2>3, TickOwner, HandleOwner, OtherOwner, StepRows DEF Next
  <1>2. ASSUME Reserved, UNCHANGED vars PROVE Reserved'
    BY <1>2 DEF vars, Reserved, OneOwner, RowsFollow, Claimable, Open
  <1> QED
    BY <1>1, <1>2 DEF Reserved

-----------------------------------------------------------------------------
(* The theorems.                                                            *)

(* The inductive invariant holds in every reachable state.                 *)
THEOREM Invariance == Spec => []IInv
  BY InitInv, StepInv, PTL DEF Spec

(* The row, the jobs and the worker have their types; an attempt beyond    *)
(* the last one is never started.                                          *)
THEOREM TypeCorrect == Spec => []TypeOK
  <1>1. IInv => TypeOK
    BY DEF IInv
  <1> QED
    BY <1>1, Invariance, PTL

(* The digest that image-update-watch.ts and deploy.ts record as the last  *)
(* one was really put live, for any interleaving of the watcher, deploys,  *)
(* users, retries and crashes.                                             *)
THEOREM LastIsLive == Spec => []LastWasLive
  <1>1. IInv => LastWasLive
    BY DEF IInv
  <1> QED
    BY <1>1, Invariance, PTL

(* Updates go forward: the check of the reservation at the start of an     *)
(* update's deploy is enough to keep old jobs and retries from putting an  *)
(* older digest live.                                                      *)
THEOREM UpdatesGoForward == Spec => Forward
  <1>1. IInv /\ [Next]_vars => [pinned' >= pinned /\ app'.last >= app.last]_<<pinned, app>>
    <2>1. ASSUME IInv, Next PROVE pinned' >= pinned /\ app'.last >= app.last
      <3>0. pinned \in Nat /\ app.last \in Nat /\ app.pending \in Nat /\ tick.to \in Nat
        BY <2>1, ImageAssumption DEF IInv, TypeOK, Digests
      <3>1. RowMoves
        BY <2>1, Moves DEF IInv
      <3>2. pinned' >= pinned
        BY <2>1, <3>0, <3>1 DEF RowMoves, IInv, Ordered, IsUpdate, Job
      <3>3. app'.last >= app.last
        <4>1. CASE worker.pc = "finalize" /\ app.pending = Job.to /\ app'.last = Job.to
          <5>1. app.pending # 0
            BY <2>1, <4>1 DEF IInv, Working, Ordered, Job
          <5> QED
            BY <2>1, <3>0, <4>1, <5>1 DEF IInv, Ordered, UpTo
        <4>2. CASE TickBaseline /\ app'.last = tick.to
          BY <2>1, <3>0, <4>2 DEF IInv, Ordered, UpTo, TickBaseline
        <4> QED
          BY <3>0, <3>1, <4>1, <4>2 DEF RowMoves
      <3> QED
        BY <3>2, <3>3
    <2>2. ASSUME UNCHANGED vars PROVE UNCHANGED <<pinned, app>>
      BY <2>2 DEF vars
    <2> QED
      BY <2>1, <2>2
  <1> QED
    BY <1>1, Invariance, PTL DEF Spec, Forward

LEMMA ReservedInv == Spec => []Reserved
  BY InitReserved, StepReserved, Invariance, PTL DEF Spec

(* A reservation always belongs to somebody who will settle it, the watcher*)
(* or one update, whatever fails or is retried, until an event that        *)
(* image-update-watch.ts and deploy.ts do not clean up after.              *)
THEOREM ReservationIsOwned == Spec => []Owned
  <1>1. Reserved => Owned
    BY DEF Reserved, OneOwner, Owned, Open
  <1> QED
    BY <1>1, ReservedInv, PTL

(* The reservation works as a lock: two updates are never queued or under  *)
(* way together, and the one there is carries the reserved digest.         *)
OneUpdate ==
    ~broke => /\ \A i, j \in Jobs : Open(i) /\ Open(j) => i = j
              /\ \A j \in Jobs : Open(j) => app.pending = jobs[j].to

(* Until one of the events that leave a reservation behind, the watcher    *)
(* queues no second update of an application, and none for a digest that   *)
(* is not reserved, whatever fails, is retried or is deployed by hand.     *)
THEOREM OneUpdateInFlight == Spec => []OneUpdate
  <1>1. Reserved => OneUpdate
    BY DEF Reserved, OneOwner, OneUpdate
  <1> QED
    BY <1>1, ReservedInv, PTL
=============================================================================
