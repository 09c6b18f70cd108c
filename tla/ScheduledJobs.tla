---------------------------- MODULE ScheduledJobs ----------------------------
(***************************************************************************)
(* User-defined scheduled jobs.  Every API process has a timer that lists  *)
(* the due jobs and calls runScheduledJobNow for each; users call it too.  *)
(* A call claims the job in a transaction that inserts a run row (a unique *)
(* index allows one `running` row for a job), executes the command, and    *)
(* records the outcome in a second transaction.  A row that is running for *)
(* too long is declared dead by the next claim.                            *)
(*                                                                         *)
(* A call and its run row share one name.  Time is two flags: next_run_at  *)
(* has passed (due), and a run is older than its timeout and a minute      *)
(* (stale).                                                                *)
(***************************************************************************)
EXTENDS Naturals

CONSTANTS
    Jobs,       \* rows of scheduled_jobs
    Calls,      \* calls of runScheduledJobNow
    JobOf,      \* the job of a call
    Procs,      \* API processes
    ProcOf,     \* the process of a call
    MaxCrashes, \* bound on crashes
    MaxPatches, \* bound on the users' changes of jobs
    None

ASSUME ScheduleAssumption ==
    /\ JobOf \in [Calls -> Jobs]
    /\ ProcOf \in [Calls -> Procs]
    /\ MaxCrashes \in Nat
    /\ MaxPatches \in Nat
    /\ None \notin Calls

VARIABLES
    enabled, \* scheduled_jobs.enabled
    due,     \* scheduled_jobs.next_run_at has passed
    last,    \* scheduled_jobs.last_run_status
    latest,  \* the call that claimed the job last (history)
    nextBy,  \* the call that computed next_run_at, None for a user (history)
    run,     \* scheduled_job_runs.status of a call's row, or "none"
    stale,   \* the row's started_at is older than timeout_seconds + 60
    at,      \* where a call is
    manual,  \* the call is a user's: allowDisabled
    seen,    \* the stale rows as of the call's startedAt
    outcome, \* the status that the call will record
    active,  \* _activeJobs of each process
    crashes, \* crashes so far
    patches  \* changes of jobs so far

jobVars == <<enabled, due, last, latest, nextBy>>
callVars == <<at, manual, seen, outcome>>
bounds == <<crashes, patches>>
vars == <<jobVars, run, stale, callVars, active, bounds>>

Outcomes == {"succeeded", "failed", "timeout"}

\* A call between the commit of its claim and the end of its command.
Executing(c) == at[c] \in {"add", "exec"}

\* A call that has claimed its job and has not recorded the outcome.
Engaged(c) == at[c] \in {"add", "exec", "finish"}

Rivals(c) == {d \in Calls : JobOf[d] = JobOf[c]}

TypeOK ==
    /\ enabled \in [Jobs -> BOOLEAN]
    /\ due \in [Jobs -> BOOLEAN]
    /\ last \in [Jobs -> Outcomes \cup {"never", "running"}]
    /\ latest \in [Jobs -> Calls \cup {None}]
    /\ nextBy \in [Jobs -> Calls \cup {None}]
    /\ run \in [Calls -> Outcomes \cup {"none", "running"}]
    /\ stale \in [Calls -> BOOLEAN]
    /\ at \in [Calls -> {"new", "claim", "add", "exec", "finish", "over"}]
    /\ manual \in [Calls -> BOOLEAN]
    /\ seen \in [Calls -> SUBSET Calls]
    /\ outcome \in [Calls -> Outcomes]
    /\ active \in [Procs -> SUBSET Jobs]
    /\ crashes \in 0 .. MaxCrashes
    /\ patches \in 0 .. MaxPatches

Init ==
    /\ enabled = [j \in Jobs |-> TRUE]
    /\ due = [j \in Jobs |-> FALSE]
    /\ last = [j \in Jobs |-> "never"]
    /\ latest = [j \in Jobs |-> None]
    /\ nextBy = [j \in Jobs |-> None]
    /\ run = [c \in Calls |-> "none"]
    /\ stale = [c \in Calls |-> FALSE]
    /\ at = [c \in Calls |-> "new"]
    /\ manual = [c \in Calls |-> FALSE]
    /\ seen = [c \in Calls |-> {}]
    /\ outcome = [c \in Calls |-> "failed"]
    /\ active = [p \in Procs |-> {}]
    /\ crashes = 0
    /\ patches = 0
-----------------------------------------------------------------------------
(* claimScheduledJobRun.                                                   *)

Goto(c, label) == at' = [at EXCEPT ![c] = label]

\* The call returns or throws, and its local values are gone.
Leave(c) ==
    /\ Goto(c, "over")
    /\ manual' = [manual EXCEPT ![c] = FALSE]
    /\ seen' = [seen EXCEPT ![c] = {}]
    /\ outcome' = [outcome EXCEPT ![c] = "failed"]

\* The timer found the job due, or a user asks; _activeJobs does not hold the
\* job, and startedAt is taken.
Begin(c, byUser) ==
    /\ at[c] = "new"
    /\ byUser \/ (enabled[JobOf[c]] /\ due[JobOf[c]])
    /\ JobOf[c] \notin active[ProcOf[c]]
    /\ manual' = [manual EXCEPT ![c] = byUser]
    /\ seen' = [seen EXCEPT ![c] = {d \in Rivals(c) : stale[d]}]
    /\ Goto(c, "claim")
    /\ UNCHANGED <<jobVars, run, stale, outcome, active, bounds>>

\* A mutant: staleness is judged when the transaction runs.
BlockersNow(c) == {d \in Rivals(c) : run[d] = "running" /\ ~stale[d]}

\* A mutant: no claim closes a stale row.
BlockersAll(c) == {d \in Rivals(c) : run[d] = "running"}

\* A mutant: every running row counts as stale.
BlockersNone(c) == {}

\* The running rows that the UPDATE of the claim does not close.
Blockers(c) == {d \in Rivals(c) : run[d] = "running" /\ d \notin seen[c]}

\* A mutant: the row is inserted and the job is not updated.
ClaimKeepsJob(c) ==
    /\ at[c] = "claim"
    /\ enabled[JobOf[c]] \/ manual[c]
    /\ Blockers(c) = {}
    /\ run' = [d \in Calls |->
                  IF d = c THEN "running"
                  ELSE IF d \in Rivals(c) /\ run[d] = "running" THEN "timeout" ELSE run[d]]
    /\ latest' = [latest EXCEPT ![JobOf[c]] = c]
    /\ Goto(c, "add")
    /\ UNCHANGED <<enabled, due, last, nextBy, stale, manual, seen, outcome, active, bounds>>

\* A mutant: the stale rows stay open, and no index forbids it.
ClaimNoClose(c) ==
    /\ at[c] = "claim"
    /\ enabled[JobOf[c]] \/ manual[c]
    /\ Blockers(c) = {}
    /\ run' = [run EXCEPT ![c] = "running"]
    /\ last' = [last EXCEPT ![JobOf[c]] = "running"]
    /\ latest' = [latest EXCEPT ![JobOf[c]] = c]
    /\ due' = [due EXCEPT ![JobOf[c]] = FALSE]
    /\ nextBy' = [nextBy EXCEPT ![JobOf[c]] = c]
    /\ Goto(c, "add")
    /\ UNCHANGED <<enabled, stale, manual, seen, outcome, active, bounds>>

\* The transaction: stale rows are closed, the row is inserted, the job updated.
Claim(c) ==
    /\ at[c] = "claim"
    /\ enabled[JobOf[c]] \/ manual[c]
    /\ Blockers(c) = {}
    /\ run' = [d \in Calls |->
                  IF d = c THEN "running"
                  ELSE IF d \in Rivals(c) /\ run[d] = "running" THEN "timeout" ELSE run[d]]
    /\ last' = [last EXCEPT ![JobOf[c]] = "running"]
    /\ latest' = [latest EXCEPT ![JobOf[c]] = c]
    /\ due' = [due EXCEPT ![JobOf[c]] = FALSE]
    /\ nextBy' = [nextBy EXCEPT ![JobOf[c]] = c]
    /\ Goto(c, "add")
    /\ UNCHANGED <<enabled, stale, manual, seen, outcome, active, bounds>>

\* It is rolled back: disabled meanwhile, the unique index, a failed query.
ClaimFails(c) ==
    /\ at[c] = "claim"
    /\ Leave(c)
    /\ UNCHANGED <<jobVars, run, stale, active, bounds>>
-----------------------------------------------------------------------------
(* runScheduledJobNow.                                                     *)

\* _activeJobs.add, after the await.
Activate(c) ==
    /\ at[c] = "add"
    /\ active' = [active EXCEPT ![ProcOf[c]] = @ \cup {JobOf[c]}]
    /\ Goto(c, "exec")
    /\ UNCHANGED <<jobVars, run, stale, manual, seen, outcome, bounds>>

\* The command ends, fails or runs into its timeout.  The finally block removes
\* the job from _activeJobs as soon as the last transaction is under way.
ExecEnds(c, s) ==
    /\ at[c] = "exec"
    /\ outcome' = [outcome EXCEPT ![c] = s]
    /\ active' = [active EXCEPT ![ProcOf[c]] = @ \ {JobOf[c]}]
    /\ Goto(c, "finish")
    /\ UNCHANGED <<jobVars, run, stale, manual, seen, bounds>>

\* That transaction.  next_run_at gets the value that the claim computed, which
\* may be in the past, or in the future, if a later claim or a user changed it.
Finish(c) ==
    LET j == JobOf[c] IN
    /\ at[c] = "finish"
    /\ run' = [run EXCEPT ![c] = outcome[c]]
    /\ last' = [last EXCEPT ![j] = outcome[c]]
    /\ \E passed \in BOOLEAN :
          /\ nextBy[j] = c => passed = due[j]
          /\ due' = [due EXCEPT ![j] = passed]
    /\ nextBy' = [nextBy EXCEPT ![j] = c]
    /\ Leave(c)
    /\ UNCHANGED <<enabled, latest, stale, active, bounds>>

\* It fails: the row stays `running`.
FinishFails(c) ==
    /\ at[c] = "finish"
    /\ Leave(c)
    /\ UNCHANGED <<jobVars, run, stale, active, bounds>>

\* The name of a call that is over serves for a new one.
Reuse(c) ==
    LET without(f) == [j \in Jobs |-> IF f[j] = c THEN None ELSE f[j]] IN
    /\ at[c] = "over"
    /\ run[c] # "running"
    /\ run' = [run EXCEPT ![c] = "none"]
    /\ latest' = without(latest)
    /\ nextBy' = without(nextBy)
    /\ stale' = [stale EXCEPT ![c] = FALSE]
    /\ seen' = [d \in Calls |-> seen[d] \ {c}]
    /\ Goto(c, "new")
    /\ UNCHANGED <<enabled, due, last, manual, outcome, active, bounds>>
-----------------------------------------------------------------------------
(* Time, users and crashes.                                                *)

\* next_run_at passes.
BecomesDue(j) ==
    /\ ~due[j]
    /\ due' = [due EXCEPT ![j] = TRUE]
    /\ UNCHANGED <<enabled, last, latest, nextBy, run, stale, callVars, active, bounds>>

\* A run grows older than its timeout and a minute.  The timeout of the command
\* starts only when its container does.
Age(c) ==
    /\ run[c] = "running" /\ ~stale[c]
    /\ at[c] # "add"
    /\ stale' = [stale EXCEPT ![c] = TRUE]
    /\ UNCHANGED <<jobVars, run, callVars, active, bounds>>

\* PATCH /:id writes `enabled`, and next_run_at as it read or computed it.
Patch(j, on, passed) ==
    /\ patches < MaxPatches
    /\ patches' = patches + 1
    /\ enabled' = [enabled EXCEPT ![j] = on]
    /\ due' = [due EXCEPT ![j] = passed]
    /\ nextBy' = [nextBy EXCEPT ![j] = None]
    /\ UNCHANGED <<last, latest, run, stale, callVars, active, crashes>>

\* A process dies: its calls are gone, their rows stay.
Crash(p) ==
    LET gone(c) == ProcOf[c] = p /\ at[c] # "new" IN
    /\ crashes < MaxCrashes
    /\ crashes' = crashes + 1
    /\ at' = [c \in Calls |-> IF gone(c) THEN "over" ELSE at[c]]
    /\ manual' = [c \in Calls |-> manual[c] /\ ~gone(c)]
    /\ seen' = [c \in Calls |-> IF gone(c) THEN {} ELSE seen[c]]
    /\ outcome' = [c \in Calls |-> IF gone(c) THEN "failed" ELSE outcome[c]]
    /\ active' = [active EXCEPT ![p] = {}]
    /\ UNCHANGED <<jobVars, run, stale, patches>>

CallStep(c) ==
    \/ Claim(c) \/ Activate(c)
    \/ \E s \in Outcomes : ExecEnds(c, s)
    \/ Finish(c) \/ FinishFails(c)

Next ==
    \/ \E c \in Calls :
          \/ \E byUser \in BOOLEAN : Begin(c, byUser)
          \/ CallStep(c) \/ ClaimFails(c) \/ Reuse(c) \/ Age(c)
    \/ \E j \in Jobs : BecomesDue(j) \/ \E on, passed \in BOOLEAN : Patch(j, on, passed)
    \/ \E p \in Procs : Crash(p)

Spec == Init /\ [][Next]_vars

\* Calls go on, the timers fire and time passes.  A claim that can succeed is not
\* rolled back for ever.
FairSpec ==
    /\ Spec
    /\ \A c \in Calls :
          /\ WF_vars(CallStep(c) \/ ClaimFails(c)) /\ SF_vars(Claim(c))
          /\ WF_vars(Begin(c, FALSE)) /\ WF_vars(Reuse(c)) /\ WF_vars(Age(c))
    /\ \A j \in Jobs : WF_vars(BecomesDue(j))
-----------------------------------------------------------------------------
(* _activeJobs and the unique index together: one process never executes a *)
(* job twice at the same time, whoever asks for it and however long it is, *)
(* as long as no other process takes the job over.                         *)
OneInProcess ==
    \A c, d \in Calls :
        ( /\ Executing(c) /\ Executing(d)
          /\ JobOf[c] = JobOf[d] /\ ProcOf[c] = ProcOf[d] ) => c = d

(* A call loses its job to another one only after its run was overdue: the *)
(* claims of other processes do not cut short a run that is in time.       *)
OnlyStaleIsReplaced ==
    \A c \in Calls : (Engaged(c) /\ latest[JobOf[c]] # c) => stale[c]

(* While the newest run of a job executes, its row is the one running row, *)
(* and no claim can slip in before it is overdue.                          *)
NewestHoldsTheJob ==
    \A c \in Calls : (Engaged(c) /\ latest[JobOf[c]] = c) =>
        /\ run[c] = "running"
        /\ \A d \in Rivals(c) \ {c} : run[d] # "running"

(* A job that is due and stays enabled is claimed, even after a crash left *)
(* a running row behind.                                                   *)
DueJobRuns == \A j \in Jobs : (due[j] /\ enabled[j]) ~> (~due[j] \/ ~enabled[j])

(* The row of a run whose process died is closed, if its job stays enabled.*)
RunsEnd == \A c \in Calls : run[c] = "running" ~> (run[c] # "running" \/ ~enabled[JobOf[c]])
=============================================================================
