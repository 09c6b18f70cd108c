------------------------- MODULE ScheduledJobsProofs -------------------------
(***************************************************************************)
(* Proofs about ScheduledJobs, for any jobs, calls and processes.  A claim *)
(* that replaces a running row saw it as stale when it began, and stale    *)
(* rows stay stale; that is why SeenInv is part of the invariant.          *)
(***************************************************************************)
EXTENDS ScheduledJobs, TLAPS

USE ScheduleAssumption

(* The inductive invariant.  A call that has not claimed has no row; what  *)
(* it saw as stale is stale and belongs to its job.                        *)
SeenInv ==
    \A c \in Calls :
        /\ at[c] \in {"new", "claim"} => run[c] = "none"
        /\ \A d \in seen[c] : stale[d]

IInv == TypeOK /\ SeenInv /\ OnlyStaleIsReplaced /\ NewestHoldsTheJob

LEMMA InitSchedule == Init => IInv
  BY DEF Init, IInv, TypeOK, SeenInv, OnlyStaleIsReplaced, NewestHoldsTheJob,
         Engaged, Rivals, Outcomes

LEMMA StepType == ASSUME TypeOK, [Next]_vars PROVE TypeOK'
<1>1. CASE UNCHANGED vars
  BY <1>1 DEF TypeOK, vars, jobVars, callVars, bounds
<1>2. ASSUME NEW c \in Calls, NEW byUser \in BOOLEAN, Begin(c, byUser) PROVE TypeOK'
  <2>1. seen' \in [Calls -> SUBSET Calls]
    BY <1>2 DEF TypeOK, Begin, Rivals
  <2>2. QED  BY <1>2, <2>1 DEF TypeOK, Begin, Goto, jobVars, bounds
<1>3. ASSUME NEW c \in Calls, Claim(c) PROVE TypeOK'
  BY <1>3 DEF TypeOK, Claim, Goto, Outcomes, bounds
<1>4. ASSUME NEW c \in Calls, ClaimFails(c) PROVE TypeOK'
  BY <1>4 DEF TypeOK, ClaimFails, Leave, Goto, Outcomes, jobVars, bounds
<1>5. ASSUME NEW c \in Calls, Activate(c) PROVE TypeOK'
  BY <1>5 DEF TypeOK, Activate, Goto, jobVars, bounds
<1>6. ASSUME NEW c \in Calls, NEW s \in Outcomes, ExecEnds(c, s) PROVE TypeOK'
  BY <1>6 DEF TypeOK, ExecEnds, Goto, Outcomes, jobVars, bounds
<1>7. ASSUME NEW c \in Calls, Finish(c) PROVE TypeOK'
  <2>1. due' \in [Jobs -> BOOLEAN]
    BY <1>7 DEF TypeOK, Finish
  <2>2. QED  BY <1>7, <2>1 DEF TypeOK, Finish, Leave, Goto, Outcomes, bounds
<1>8. ASSUME NEW c \in Calls, FinishFails(c) PROVE TypeOK'
  BY <1>8 DEF TypeOK, FinishFails, Leave, Goto, Outcomes, jobVars, bounds
<1>9. ASSUME NEW c \in Calls, Reuse(c) PROVE TypeOK'
  BY <1>9 DEF TypeOK, Reuse, Goto, bounds
<1>10. ASSUME NEW c \in Calls, Age(c) PROVE TypeOK'
  BY <1>10 DEF TypeOK, Age, jobVars, callVars, bounds
<1>11. ASSUME NEW j \in Jobs, BecomesDue(j) PROVE TypeOK'
  BY <1>11 DEF TypeOK, BecomesDue, callVars, bounds
<1>12. ASSUME NEW j \in Jobs, NEW on \in BOOLEAN, NEW passed \in BOOLEAN, Patch(j, on, passed)
       PROVE  TypeOK'
  BY <1>12 DEF TypeOK, Patch, callVars
<1>13. ASSUME NEW p \in Procs, Crash(p) PROVE TypeOK'
  BY <1>13 DEF TypeOK, Crash, Outcomes, jobVars
<1>14. QED
  BY <1>1, <1>2, <1>3, <1>4, <1>5, <1>6, <1>7, <1>8, <1>9, <1>10, <1>11, <1>12, <1>13
     DEF Next, CallStep

LEMMA StepSchedule ==
    ASSUME IInv, [Next]_vars
    PROVE  (SeenInv /\ OnlyStaleIsReplaced /\ NewestHoldsTheJob)'
<1>0. TypeOK /\ TypeOK'
  BY StepType DEF IInv
<1> DEFINE Rest == SeenInv /\ OnlyStaleIsReplaced /\ NewestHoldsTheJob
<1> USE <1>0 DEF IInv, TypeOK, SeenInv, OnlyStaleIsReplaced, NewestHoldsTheJob, Engaged, Rivals
<1>1. CASE UNCHANGED vars
  BY <1>1 DEF vars, jobVars, callVars, bounds
<1>2. ASSUME NEW c \in Calls, NEW byUser \in BOOLEAN, Begin(c, byUser) PROVE Rest'
  BY <1>2 DEF Begin, Goto, jobVars, bounds
<1>3. ASSUME NEW c \in Calls, Claim(c) PROVE Rest'
  <2>1. SeenInv'
    BY <1>3 DEF Claim, Goto
  <2>2. ASSUME NEW d \in Calls, Engaged(d)', latest'[JobOf[d]] # d PROVE stale'[d]
    <3>1. CASE JobOf[d] # JobOf[c]
      BY <1>3, <2>2, <3>1 DEF Claim, Goto
    <3>2. CASE JobOf[d] = JobOf[c]
      <4>1. d # c /\ Engaged(d)
        BY <1>3, <2>2, <3>2 DEF Claim, Goto
      <4>2. CASE latest[JobOf[d]] # d
        BY <1>3, <4>1, <4>2 DEF Claim
      <4>3. CASE latest[JobOf[d]] = d
        <5>1. d \in seen[c]
          BY <1>3, <3>2, <4>1, <4>3 DEF Claim, Blockers
        <5>2. QED  BY <1>3, <5>1 DEF Claim
      <4>4. QED  BY <4>2, <4>3
    <3>3. QED  BY <3>1, <3>2
  <2>3. NewestHoldsTheJob'
    BY <1>3 DEF Claim, Goto
  <2>4. QED  BY <2>1, <2>2, <2>3
<1>4. ASSUME NEW c \in Calls, ClaimFails(c) PROVE Rest'
  BY <1>4 DEF ClaimFails, Leave, Goto, jobVars, bounds
<1>5. ASSUME NEW c \in Calls, Activate(c) PROVE Rest'
  BY <1>5 DEF Activate, Goto, jobVars, bounds
<1>6. ASSUME NEW c \in Calls, NEW s \in Outcomes, ExecEnds(c, s) PROVE Rest'
  BY <1>6 DEF ExecEnds, Goto, jobVars, bounds
<1>7. ASSUME NEW c \in Calls, Finish(c) PROVE Rest'
  BY SMTT(20), <1>7 DEF Finish, Leave, Goto, Outcomes, bounds
<1>8. ASSUME NEW c \in Calls, FinishFails(c) PROVE Rest'
  BY <1>8 DEF FinishFails, Leave, Goto, jobVars, bounds
<1>9. ASSUME NEW c \in Calls, Reuse(c) PROVE Rest'
  BY <1>9 DEF Reuse, Goto, bounds
<1>10. ASSUME NEW c \in Calls, Age(c) PROVE Rest'
  BY <1>10 DEF Age, jobVars, callVars, bounds
<1>11. ASSUME NEW j \in Jobs, BecomesDue(j) PROVE Rest'
  BY <1>11 DEF BecomesDue, callVars, bounds
<1>12. ASSUME NEW j \in Jobs, NEW on \in BOOLEAN, NEW passed \in BOOLEAN, Patch(j, on, passed)
       PROVE  Rest'
  BY <1>12 DEF Patch, callVars
<1>13. ASSUME NEW p \in Procs, Crash(p) PROVE Rest'
  BY <1>13 DEF Crash, jobVars
<1>14. QED
  BY <1>1, <1>2, <1>3, <1>4, <1>5, <1>6, <1>7, <1>8, <1>9, <1>10, <1>11, <1>12, <1>13
     DEF Next, CallStep

(* Every step of claimScheduledJobRun, runScheduledJobNow, the routes and  *)
(* a crash keeps the invariant.                                            *)
THEOREM ScheduleInvariant == Spec => []IInv
<1>1. IInv /\ [Next]_vars => IInv'
  BY StepType, StepSchedule DEF IInv
<1>2. QED  BY InitSchedule, <1>1, PTL DEF Spec

(* scheduled_job_runs and scheduled_jobs hold only values of their schema. *)
THEOREM ScheduleTypeOK == Spec => []TypeOK
<1>1. IInv => TypeOK
  BY DEF IInv
<1>2. QED  BY ScheduleInvariant, <1>1, PTL

(* However many processes claim a job, a run in time is never replaced.    *)
THEOREM ScheduleOnlyStaleIsReplaced == Spec => []OnlyStaleIsReplaced
<1>1. IInv => OnlyStaleIsReplaced
  BY DEF IInv
<1>2. QED  BY ScheduleInvariant, <1>1, PTL

(* The call that claimed a job last holds its one running row until it has *)
(* recorded the outcome.                                                   *)
THEOREM ScheduleNewestHoldsTheJob == Spec => []NewestHoldsTheJob
<1>1. IInv => NewestHoldsTheJob
  BY DEF IInv
<1>2. QED  BY ScheduleInvariant, <1>1, PTL
-----------------------------------------------------------------------------
(* One process: no claim begins while a call of the job executes, and one  *)
(* that began before sees no row of a call that claims after it as stale.  *)
Single == \A p, q \in Procs : p = q

Young(c) == at[c] \in {"new", "claim", "add"} => ~stale[c]
Listed(c) == at[c] = "exec" => JobOf[c] \in active[ProcOf[c]]
Newest(c) == Executing(c) => latest[JobOf[c]] = c
Unseen(c) == \A d \in Rivals(c) : (at[d] = "claim" /\ Executing(c)) => c \notin seen[d]

OneInv == \A c \in Calls : Young(c) /\ Listed(c) /\ Newest(c) /\ Unseen(c)

LEMMA StepOne ==
    ASSUME Single, IInv, OneInv, [Next]_vars
    PROVE  OneInv'
<1>0. TypeOK /\ TypeOK' /\ \A c, d \in Calls : ProcOf[c] = ProcOf[d]
  BY StepType DEF IInv, Single
<1> USE <1>0 DEF TypeOK, OneInv, Young, Listed, Newest, Unseen, Executing, Rivals
<1>1. CASE UNCHANGED vars
  BY <1>1 DEF vars, jobVars, callVars, bounds
<1>2. ASSUME NEW c \in Calls, NEW byUser \in BOOLEAN, Begin(c, byUser) PROVE OneInv'
  BY <1>2 DEF Begin, Goto, jobVars, bounds
<1>3. ASSUME NEW c \in Calls, Claim(c) PROVE OneInv'
  <2>1. \A d \in Calls : JobOf[d] = JobOf[c] => ~Executing(d)
    BY <1>3 DEF Claim, Blockers, IInv, NewestHoldsTheJob, Engaged
  <2>2. \A d \in Calls : c \notin seen[d]
    BY <1>3 DEF Claim, IInv, SeenInv
  <2>3. QED  BY <1>3, <2>1, <2>2 DEF Claim, Goto, bounds
<1>4. ASSUME NEW c \in Calls, ClaimFails(c) PROVE OneInv'
  BY <1>4 DEF ClaimFails, Leave, Goto, jobVars, bounds
<1>5. ASSUME NEW c \in Calls, Activate(c) PROVE OneInv'
  BY <1>5 DEF Activate, Goto, jobVars, bounds
<1>6. ASSUME NEW c \in Calls, NEW s \in Outcomes, ExecEnds(c, s) PROVE OneInv'
  BY <1>6 DEF ExecEnds, Goto, jobVars, bounds
<1>7. ASSUME NEW c \in Calls, Finish(c) \/ FinishFails(c) PROVE OneInv'
  <2>1. /\ at' = [at EXCEPT ![c] = "over"] /\ seen' = [seen EXCEPT ![c] = {}]
        /\ UNCHANGED <<stale, active, latest>>
    BY <1>7 DEF Finish, FinishFails, Leave, Goto, jobVars
  <2>2. QED  BY <2>1
<1>8. ASSUME NEW c \in Calls, Reuse(c) PROVE OneInv'
  BY <1>8 DEF Reuse, Goto, bounds
<1>9. ASSUME NEW c \in Calls, Age(c) PROVE OneInv'
  BY <1>9 DEF Age, IInv, SeenInv, jobVars, callVars, bounds
<1>10. ASSUME NEW j \in Jobs, BecomesDue(j) PROVE OneInv'
  BY <1>10 DEF BecomesDue, callVars, bounds
<1>11. ASSUME NEW j \in Jobs, NEW on \in BOOLEAN, NEW passed \in BOOLEAN, Patch(j, on, passed)
       PROVE  OneInv'
  BY <1>11 DEF Patch, callVars
<1>12. ASSUME NEW p \in Procs, Crash(p) PROVE OneInv'
  BY <1>12 DEF Crash, Single, jobVars
<1>13. QED
  BY <1>1, <1>2, <1>3, <1>4, <1>5, <1>6, <1>7, <1>8, <1>9, <1>10, <1>11, <1>12
     DEF Next, CallStep

(* With one API process, _activeJobs and the unique index together keep a  *)
(* job from being executed twice at the same time, for any calls.          *)
THEOREM ScheduleOneInProcess ==
    ASSUME Single
    PROVE  Spec => []OneInProcess
<1>1. Init => OneInv
  BY DEF Init, OneInv, Young, Listed, Newest, Unseen, Executing
<1>2. IInv /\ OneInv /\ [Next]_vars => OneInv'
  BY StepOne
<1>3. OneInv => OneInProcess
  BY DEF OneInv, Newest, OneInProcess
<1>4. QED  BY <1>1, <1>2, <1>3, ScheduleInvariant, PTL DEF Spec
=============================================================================
