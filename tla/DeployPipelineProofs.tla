------------------------ MODULE DeployPipelineProofs ------------------------
(***************************************************************************)
(* For any number of applications, builds, processes, slots, attempts and  *)
(* crashes: one slot drives a build, its image goes live at most once, the *)
(* row tells the truth about it, and terminal statuses are sticky.         *)
(***************************************************************************)
EXTENDS DeployPipeline, SequenceTheorems, TLAPS

IInv == TypeOK /\ OneDriver /\ LiveAtMostOnce /\ OutcomeIsTrue /\ SlotInv

\* In the initial state nothing was requested and every slot is free.
LEMMA InitIInv == Init => IInv
<1> SUFFICES ASSUME Init PROVE IInv
  OBVIOUS
<1> USE PipelineAssumption
<1>1. TypeOK
  <2>1. RowsOK
    BY DEF Init, RowsOK
  <2>2. JobsOK
    BY DEF Init, JobsOK
  <2>3. AppsOK
    BY DEF Init, AppsOK, AppStatuses, LiveStatus
  <2>4. SlotsOK
    BY DEF Init, SlotsOK, Driving, Succeeded, AppStatuses
  <2>5. LocksOK
    BY EmptySeq DEF Init, LocksOK, Lock!Init
  <2>6. ReapersOK
    BY DEF Init, ReapersOK, ReaperIdle
  <2>7. crashes \in 0 .. MaxCrashes
    BY DEF Init
  <2> QED BY <2>1, <2>2, <2>3, <2>4, <2>5, <2>6, <2>7 DEF TypeOK
<1>2. OneDriver /\ SlotInv
  BY DEF Init, OneDriver, SlotInv, SlotOK, Drives, Driving
<1>3. LiveAtMostOnce /\ OutcomeIsTrue
  BY DEF Init, LiveAtMostOnce, OutcomeIsTrue, Succeeded
<1> QED BY <1>1, <1>2, <1>3 DEF IInv

-----------------------------------------------------------------------------
(* Types.  Most steps change one group of variables.                       *)

\* updateBuildStatus keeps the rows well-formed.
LEMMA UpdateType ==
    ASSUME RowsOK, NEW b, NEW s \in Active \cup Terminal
    PROVE  UpdateBuildStatus(b, s) \in [Builds -> Active \cup Terminal \cup {"absent"}]
BY DEF RowsOK, UpdateBuildStatus

\* Leaving a handler keeps the lock well-formed.
LEMMA LeaveType ==
    ASSUME TypeOK, NEW w \in Workers, NEW how \in {"no", "fatal", "transient"},
           LeaveHandler(w, how)
    PROVE  /\ LocksOK'
           /\ pc' = [pc EXCEPT ![w] = "report"]
           /\ thrown' = [thrown EXCEPT ![w] = how]
           /\ waiters' = waiters
           /\ holder[KeyOf(w)] # None
           /\ holder' = [holder EXCEPT ![KeyOf(w)] = None]
BY DEF TypeOK, LocksOK, LeaveHandler, Lock!Release, Goto

\* The shape of the state after a step of a slot.
LEMMA SlotType ==
    ASSUME IInv, NEW w \in Workers, SlotStep(w)
    PROVE  TypeOK'
<1> USE PipelineAssumption
<1>0. TypeOK /\ RowsOK /\ JobsOK /\ AppsOK /\ SlotsOK /\ LocksOK /\ ReapersOK
      /\ crashes \in 0 .. MaxCrashes
  BY DEF IInv, TypeOK
<1>a. pc[w] # "idle" => on[w] \in Builds
  BY DEF IInv, SlotInv, SlotOK
<1>b. pc[w] # "idle" => /\ AppOf[on[w]] \in Apps
                        /\ KeyOf(w) \in LockKeys
                        /\ astatus[AppOf[on[w]]] \in AppStatuses
                        /\ made[on[w]] \in Nat
  BY <1>0, <1>a DEF KeyOf, LockKeys, AppsOK, JobsOK
<1>1. CASE Resolve(w)
  <2>1. LocksOK'
    <3>1. pc[w] # "idle" /\ waiters' = [waiters EXCEPT ![KeyOf(w)] = Append(@, w)] /\ holder' = holder
      BY <1>1 DEF Resolve, Lock!Request
    <3>2. Append(waiters[KeyOf(w)], w) \in Seq(Workers)
      BY <1>0, <1>b, <3>1 DEF LocksOK
    <3> QED BY <1>0, <3>1, <3>2 DEF LocksOK
  <2>2. SlotsOK'
    BY <1>0, <1>1 DEF Resolve, Goto, SlotsOK
  <2>3. RowsOK' /\ JobsOK' /\ AppsOK' /\ ReapersOK' /\ (crashes \in 0 .. MaxCrashes)'
    BY <1>0, <1>1 DEF Resolve, RowsOK, JobsOK, AppsOK, ReapersOK, rowVars, jobVars, appVars
  <2> QED BY <2>1, <2>2, <2>3 DEF TypeOK
<1>2. CASE Enter(w)
  <2>1. LocksOK'
    <3>1. waiters[KeyOf(w)] \in Seq(Workers) /\ waiters[KeyOf(w)] # <<>>
      BY <1>0, <1>b, <1>2 DEF Enter, Lock!Grant, LocksOK
    <3>2. Head(waiters[KeyOf(w)]) \in Workers /\ Tail(waiters[KeyOf(w)]) \in Seq(Workers)
      BY <3>1, HeadTailProperties
    <3> QED BY <1>0, <1>2, <3>2 DEF Enter, Lock!Grant, LocksOK
  <2>2. SlotsOK'
    BY <1>0, <1>2 DEF Enter, Goto, SlotsOK
  <2>3. RowsOK' /\ JobsOK' /\ AppsOK' /\ ReapersOK' /\ (crashes \in 0 .. MaxCrashes)'
    BY <1>0, <1>2 DEF Enter, RowsOK, JobsOK, AppsOK, ReapersOK, rowVars, jobVars, appVars
  <2> QED BY <2>1, <2>2, <2>3 DEF TypeOK
<1>3. CASE Claim(w) \/ ReadApp(w) \/ Start(w) \/ MarkBuilding(w)
  <2>1. LocksOK' /\ JobsOK' /\ ReapersOK' /\ (crashes \in 0 .. MaxCrashes)'
    BY <1>0, <1>3 DEF Claim, ReadApp, Start, MarkBuilding, lockVars, jobVars,
                      LocksOK, JobsOK, ReapersOK
  <2>2. RowsOK'
    <3>1. CASE Claim(w)
      BY <1>0, <3>1 DEF Claim, RowsOK, Active
    <3>2. CASE Start(w)
      <4>1. bstatus' \in [Builds -> Active \cup Terminal \cup {"absent"}]
        BY <1>0, <3>2, UpdateType DEF Start, Active
      <4> QED BY <1>0, <3>2, <4>1 DEF Start, RowsOK
    <3>3. CASE ReadApp(w) \/ MarkBuilding(w)
      BY <1>0, <3>3 DEF ReadApp, MarkBuilding, rowVars, RowsOK
    <3> QED BY <1>3, <3>1, <3>2, <3>3
  <2>3. SlotsOK'
    BY <1>0, <1>b, <1>3 DEF Claim, ReadApp, Start, MarkBuilding, Goto, SlotsOK, Driving
  <2>4. AppsOK'
    BY <1>0, <1>3 DEF Claim, ReadApp, Start, MarkBuilding, appVars, AppsOK, AppStatuses
  <2> QED BY <2>1, <2>2, <2>3, <2>4 DEF TypeOK
<1>4. CASE ClaimFails(w) \/ LostAccess(w) \/ QueryFails(w)
             \/ \E how \in {"fatal", "transient"} : ThrowEarly(w, how)
  <2>1. PICK how \in {"no", "fatal", "transient"} : LeaveHandler(w, how)
    BY <1>4 DEF ClaimFails, LostAccess, QueryFails, ThrowEarly
  <2>2. LocksOK' /\ pc' = [pc EXCEPT ![w] = "report"] /\ thrown' = [thrown EXCEPT ![w] = how]
    BY <1>0, <2>1, LeaveType
  <2>3. SlotsOK'
    BY <1>0, <1>4, <2>2 DEF ClaimFails, LostAccess, QueryFails, ThrowEarly, SlotsOK
  <2>4. JobsOK' /\ AppsOK' /\ ReapersOK' /\ (crashes \in 0 .. MaxCrashes)'
    BY <1>0, <1>4 DEF ClaimFails, LostAccess, QueryFails, ThrowEarly, jobVars, appVars,
                      JobsOK, AppsOK, ReapersOK
  <2>5. RowsOK'
    BY <1>0, <1>4, UpdateType DEF ClaimFails, LostAccess, QueryFails, ThrowEarly, rowVars, RowsOK, Terminal
  <2> QED BY <2>2, <2>3, <2>4, <2>5 DEF TypeOK
<1>5. CASE (\E s \in Succeeded : GoLive(w, s)) \/ FallbackFails(w)
             \/ \E how \in {"fatal", "transient"} : DeployFails(w, how)
  <2>1. LocksOK' /\ JobsOK' /\ ReapersOK' /\ RowsOK' /\ (crashes \in 0 .. MaxCrashes)'
    BY <1>0, <1>5 DEF GoLive, DeployFails, FallbackFails, appVars, lockVars, jobVars, rowVars, LocksOK, JobsOK,
                      ReapersOK, RowsOK
  <2>2. SlotsOK'
    BY <1>0, <1>5 DEF GoLive, DeployFails, FallbackFails, Goto, SlotsOK, Driving
  <2>3. AppsOK'
    <3>1. ASSUME NEW s \in Succeeded, GoLive(w, s) PROVE AppsOK'
      <4>1. /\ astatus' = [astatus EXCEPT ![AppOf[on[w]]] = LiveStatus(AppOf[on[w]])]
            /\ container' = [container EXCEPT ![AppOf[on[w]]] = (Kind[AppOf[on[w]]] = "docker")]
            /\ live' = [live EXCEPT ![AppOf[on[w]]] = TRUE]
            /\ wentLive' = [wentLive EXCEPT ![on[w]] = @ + 1]
            /\ pc[w] = "build"
        BY <3>1 DEF GoLive
      <4>2. LiveStatus(AppOf[on[w]]) \in AppStatuses
        BY DEF LiveStatus, AppStatuses
      <4>3. astatus' \in [Apps -> AppStatuses] /\ live' \in [Apps -> BOOLEAN]
        BY <1>0, <4>1, <4>2 DEF AppsOK
      <4>4. container' \in [Apps -> BOOLEAN]
        BY <1>0, <4>1 DEF AppsOK
      <4>5. wentLive' \in [Builds -> Nat]
        BY <1>0, <1>a, <4>1 DEF AppsOK
      <4> QED BY <4>3, <4>4, <4>5 DEF AppsOK
    <3>2. ASSUME NEW how, DeployFails(w, how) PROVE AppsOK'
      BY <1>0, <3>2 DEF DeployFails, AppsOK, AppStatuses
    <3>3. CASE FallbackFails(w)
      BY <1>0, <3>3 DEF FallbackFails, appVars, AppsOK
    <3> QED BY <1>5, <3>1, <3>2, <3>3
  <2> QED BY <2>1, <2>2, <2>3 DEF TypeOK
<1>6. CASE FinalRead(w) \/ FinalWrite(w)
  <2>1. JobsOK' /\ AppsOK' /\ ReapersOK' /\ (crashes \in 0 .. MaxCrashes)'
    BY <1>0, <1>6 DEF FinalRead, FinalWrite, jobVars, appVars, JobsOK, AppsOK, ReapersOK
  <2>2. thrown[w] \in {"no", "fatal", "transient"} /\ final[w] \in Active \cup Terminal
    BY <1>0 DEF SlotsOK, Terminal
  <2>3. RowsOK'
    BY <1>0, <1>6, <2>2, UpdateType DEF FinalRead, FinalWrite, rowVars, RowsOK
  <2>4. LocksOK' /\ SlotsOK'
    <3>1. on' = on /\ attempt' = attempt /\ seen' = seen /\ final' = final
      BY <1>6 DEF FinalRead, FinalWrite
    <3>2. CASE LeaveHandler(w, thrown[w])
      <4>1. LocksOK' /\ pc' = [pc EXCEPT ![w] = "report"]
            /\ thrown' = [thrown EXCEPT ![w] = thrown[w]]
        BY <1>0, <2>2, <3>2, LeaveType
      <4> QED BY <1>0, <2>2, <3>1, <4>1 DEF SlotsOK
    <3>3. CASE Goto(w, "commit") /\ UNCHANGED <<thrown, lockVars>>
      BY <1>0, <3>1, <3>3 DEF Goto, lockVars, LocksOK, SlotsOK, Driving
    <3> QED BY <1>6, <3>2, <3>3 DEF FinalRead, FinalWrite
  <2> QED BY <2>1, <2>3, <2>4 DEF TypeOK
<1>7. CASE Report(w)
  <2>1. RowsOK' /\ AppsOK' /\ LocksOK' /\ ReapersOK' /\ (crashes \in 0 .. MaxCrashes)'
    BY <1>0, <1>7 DEF Report, rowVars, appVars, lockVars, RowsOK, AppsOK, LocksOK, ReapersOK
  <2>2. SlotsOK'
    BY <1>0, <1>7 DEF Report, Forget, SlotsOK, Succeeded, AppStatuses
  <2>3. JobsOK'
    <3>1. pc[w] # "idle" /\ adding' = adding /\ stalls' = stalls /\ cancelling' = cancelling
      BY <1>7 DEF Report
    <3>2. job' \in [Builds -> {"absent", "waiting", "active", "completed", "failed"}]
      BY <1>0, <1>7 DEF Report, JobsOK
    <3>3. made' = made \/ made' = [made EXCEPT ![on[w]] = made[on[w]] + 1]
      BY <1>7 DEF Report
    <3>4. made' \in [Builds -> Nat]
      BY <1>0, <1>a, <1>b, <3>1, <3>3 DEF JobsOK
    <3>5. owner' = owner \/ owner' = [owner EXCEPT ![on[w]] = None]
      BY <1>7 DEF Report
    <3>6. owner' \in [Builds -> Workers \cup {None}]
      BY <1>0, <3>5 DEF JobsOK
    <3> QED BY <1>0, <3>1, <3>2, <3>4, <3>6 DEF JobsOK
  <2> QED BY <2>1, <2>2, <2>3 DEF TypeOK
<1>8. CASE ResolveFails(w)
  BY <1>0, <1>8 DEF ResolveFails, Goto, TypeOK, RowsOK, JobsOK, AppsOK, SlotsOK, LocksOK,
       ReapersOK, rowVars, jobVars, appVars, lockVars
<1> QED BY <1>1, <1>2, <1>3, <1>4, <1>5, <1>6, <1>7, <1>8 DEF SlotStep

\* The shape of the state after any step.
LEMMA TypeStep ==
    ASSUME IInv, [Next]_vars
    PROVE  TypeOK'
<1> USE PipelineAssumption
<1>0. TypeOK /\ RowsOK /\ JobsOK /\ AppsOK /\ SlotsOK /\ LocksOK /\ ReapersOK
      /\ crashes \in 0 .. MaxCrashes
  BY DEF IInv, TypeOK
<1>1. ASSUME NEW b \in Builds,
             InsertRow(b) \/ AddJob(b) \/ AddFails(b) \/ StalledJob(b)
               \/ CancelRemove(b) \/ CancelWrite(b) \/ CancelLost(b) \/ Age(b)
      PROVE  TypeOK'
  <2>1. AppsOK' /\ SlotsOK' /\ LocksOK' /\ ReapersOK' /\ (crashes \in 0 .. MaxCrashes)'
    BY <1>0, <1>1 DEF InsertRow, AddJob, AddFails, StalledJob, CancelRemove, CancelWrite,
         CancelLost, Age,
         appVars, slotVars, lockVars, AppsOK, SlotsOK, LocksOK, ReapersOK
  <2>2. RowsOK'
    <3>1. CASE CancelWrite(b)
      BY <1>0, <3>1, UpdateType DEF CancelWrite, RowsOK, Terminal
    <3>2. CASE InsertRow(b) \/ Age(b)
      BY <1>0, <3>2 DEF InsertRow, Age, RowsOK, Active
    <3>3. CASE AddJob(b) \/ AddFails(b) \/ StalledJob(b) \/ CancelRemove(b) \/ CancelLost(b)
      BY <1>0, <3>3 DEF AddJob, AddFails, StalledJob, CancelRemove, CancelLost, rowVars, RowsOK
    <3> QED BY <1>1, <3>1, <3>2, <3>3
  <2>3. JobsOK'
    <3>1. CASE InsertRow(b) \/ AddJob(b) \/ AddFails(b) \/ CancelWrite(b) \/ CancelLost(b)
               \/ Age(b)
      BY <1>0, <3>1 DEF InsertRow, AddJob, AddFails, CancelWrite, CancelLost, Age, jobVars, JobsOK
    <3>2. CASE StalledJob(b)
      BY <1>0, <3>2 DEF StalledJob, JobsOK
    <3>3. CASE CancelRemove(b)
      BY <1>0, <3>3 DEF CancelRemove, JobsOK
    <3> QED BY <1>1, <3>1, <3>2, <3>3
  <2> QED BY <2>1, <2>2, <2>3 DEF TypeOK
<1>2. ASSUME NEW b \in Builds, NEW w \in Workers, Take(w, b) PROVE TypeOK'
  <2>1. RowsOK' /\ AppsOK' /\ LocksOK' /\ ReapersOK' /\ (crashes \in 0 .. MaxCrashes)'
    BY <1>0, <1>2 DEF Take, rowVars, appVars, lockVars, RowsOK, AppsOK, LocksOK, ReapersOK
  <2>2. JobsOK'
    BY <1>0, <1>2 DEF Take, JobsOK
  <2>3. SlotsOK'
    BY <1>0, <1>2 DEF Take, Goto, SlotsOK, JobsOK
  <2> QED BY <2>1, <2>2, <2>3 DEF TypeOK
<1>3. ASSUME NEW w \in Workers, SlotStep(w) PROVE TypeOK'
  BY <1>3, SlotType
<1>4. ASSUME NEW p \in Procs, ReaperStep(p) PROVE TypeOK'
  <2>1. JobsOK' /\ SlotsOK' /\ LocksOK' /\ (crashes \in 0 .. MaxCrashes)'
    BY <1>0, <1>4 DEF ReaperStep, ReapSelect, ReapUpdate, RepairRead, RepairWrite,
         jobVars, slotVars, lockVars, JobsOK, SlotsOK, LocksOK
  <2>2. RowsOK'
    <3>1. ASSUME NEW b \in Builds, ReapUpdate(p, b) PROVE RowsOK'
      BY <1>0, <3>1, UpdateType DEF ReapUpdate, RowsOK, Terminal
    <3> QED BY <1>0, <1>4, <3>1 DEF ReaperStep, ReapSelect, RepairRead, RepairWrite, rowVars, RowsOK
  <2>3. AppsOK'
    <3>1. reaper[p].fix \in AppStatuses
      BY <1>0 DEF ReapersOK, AppStatuses
    <3> QED BY <1>0, <1>4, <3>1 DEF ReaperStep, ReapSelect, ReapUpdate, RepairRead, RepairWrite,
         appVars, AppsOK
  <2>4. ReapersOK'
    <3> DEFINE R == [at : {"idle", "update", "repair", "write"}, todo : SUBSET Builds,
                     row : Builds \cup {None}, fix : {"running", "failed"}]
    <3>1. reaper \in [Procs -> R] /\ reaper[p] \in R
      BY <1>0 DEF ReapersOK
    <3>2. ReaperNext(reaper[p]) \in R
      BY <3>1 DEF ReaperNext, ReaperIdle
    <3>3. ASSUME NEW phase \in {"running", "pending"}, ReapSelect(p, phase) PROVE ReapersOK'
      <4>1. Stuck(phase) \in SUBSET Builds
        BY DEF Stuck
      <4> QED BY <3>1, <3>3, <4>1 DEF ReapSelect, ReapersOK
    <3>4. ASSUME NEW b \in Builds, ReapUpdate(p, b) PROVE ReapersOK'
      BY <3>1, <3>4 DEF ReapUpdate, ReapersOK
    <3>5. CASE RepairRead(p)
      BY <3>1, <3>2, <3>5 DEF RepairRead, ReapersOK
    <3>6. CASE RepairWrite(p)
      BY <3>1, <3>2, <3>6 DEF RepairWrite, ReapersOK
    <3> QED BY <1>4, <3>3, <3>4, <3>5, <3>6 DEF ReaperStep
  <2> QED BY <2>1, <2>2, <2>3, <2>4 DEF TypeOK
<1>5. ASSUME NEW p \in Procs, Crash(p) PROVE TypeOK'
  <2>1. RowsOK' /\ JobsOK' /\ AppsOK'
    BY <1>0, <1>5 DEF Crash, rowVars, jobVars, appVars, RowsOK, JobsOK, AppsOK
  <2>2. SlotsOK'
    BY <1>0, <1>5 DEF Crash, Forget, SlotsOK, Succeeded, AppStatuses
  <2>3. LocksOK'
    BY <1>0, <1>5, EmptySeq DEF Crash, LocksOK
  <2>4. ReapersOK' /\ (crashes \in 0 .. MaxCrashes)'
    BY <1>0, <1>5 DEF Crash, ReapersOK, ReaperIdle
  <2> QED BY <2>1, <2>2, <2>3, <2>4 DEF TypeOK
<1>6. CASE UNCHANGED vars
  BY <1>0, <1>6 DEF vars, rowVars, jobVars, appVars, slotVars, lockVars, TypeOK, RowsOK,
       JobsOK, AppsOK, SlotsOK, LocksOK, ReapersOK
<1> QED BY <1>1, <1>2, <1>3, <1>4, <1>5, <1>6 DEF Next
-----------------------------------------------------------------------------
(* The invariant reads eight variables; a step that leaves them alone keeps*)
(* it.                                                                     *)

Watched == <<bstatus, wentLive, pc, on, attempt, final, holder, made>>

Core == OneDriver /\ LiveAtMostOnce /\ OutcomeIsTrue /\ SlotInv

\* A step that changes nothing the invariant reads.
LEMMA QuietStep ==
    ASSUME Core, UNCHANGED Watched
    PROVE  Core'
BY DEF Core, Watched, OneDriver, Drives, LiveAtMostOnce, OutcomeIsTrue, SlotInv, SlotOK, KeyOf

\* A row is inserted, or leaves an active status for `cancelled`.
LEMMA RowStep ==
    ASSUME IInv, NEW b \in Builds, NEW s \in {"pending", "cancelled"},
           bstatus' = [bstatus EXCEPT ![b] = s],
           s = "pending" => bstatus[b] = "absent",
           UNCHANGED <<wentLive, pc, on, attempt, final, holder, made>>
    PROVE  Core'
<1>0. RowsOK /\ OneDriver /\ LiveAtMostOnce /\ OutcomeIsTrue /\ SlotInv
  BY DEF IInv, TypeOK
<1>1. OneDriver'
  BY <1>0 DEF OneDriver, Drives, RowsOK
<1>2. LiveAtMostOnce' /\ OutcomeIsTrue'
  BY <1>0 DEF LiveAtMostOnce, OutcomeIsTrue, RowsOK, Succeeded
<1>3. SlotInv'
  BY <1>0 DEF SlotInv, SlotOK, KeyOf
<1> QED BY <1>1, <1>2, <1>3 DEF Core

\* updateBuildStatus(cancelled), by a user or by the reaper.
LEMMA CancelStep ==
    ASSUME IInv, NEW b \in Builds, bstatus' = UpdateBuildStatus(b, "cancelled"),
           UNCHANGED <<wentLive, pc, on, attempt, final, holder, made>>
    PROVE  Core'
<1>1. CASE bstatus[b] \in Active
  BY <1>1, RowStep DEF UpdateBuildStatus
<1>2. CASE bstatus[b] \notin Active
  BY <1>2, QuietStep DEF UpdateBuildStatus, Watched, IInv, Core
<1> QED BY <1>1, <1>2

\* While a slot moves, what the other slots rely on stays true: its lock is not
\* theirs, and neither is the build that goes live.
LEMMA OtherSlots ==
    ASSUME IInv, NEW w \in Workers, NEW l, on[w] \in Builds,
           pc' = [pc EXCEPT ![w] = l],
           UNCHANGED <<on, attempt, made>>,
           \A v \in Workers : v # w => final'[v] = final[v],
           \/ holder' = holder
           \/ holder' = [holder EXCEPT ![KeyOf(w)] = None] /\ holder[KeyOf(w)] = w
           \/ holder' = [holder EXCEPT ![KeyOf(w)] = w] /\ holder[KeyOf(w)] = None,
           \/ wentLive' = wentLive
           \/ pc[w] = "build" /\ wentLive' = [wentLive EXCEPT ![on[w]] = @ + 1]
    PROVE  \A v \in Workers : v # w => SlotOK(v)'
<1> SUFFICES ASSUME NEW v \in Workers, v # w PROVE SlotOK(v)'
  OBVIOUS
<1> USE PipelineAssumption
<1>0. TypeOK /\ SlotsOK /\ LocksOK /\ JobsOK /\ AppsOK /\ OneDriver /\ SlotOK(v) /\ SlotOK(w)
  BY DEF IInv, TypeOK, SlotInv
<1>1. pc'[v] = pc[v] /\ on'[v] = on[v] /\ attempt'[v] = attempt[v] /\ final'[v] = final[v]
      /\ KeyOf(v)' = KeyOf(v)
  BY <1>0 DEF SlotsOK, KeyOf
<1>2. pc'[v] # "idle" => on'[v] \in Builds /\ attempt'[v] <= made'[on'[v]] + 1
  BY <1>0, <1>1 DEF SlotOK
<1>3. pc'[v] \in Driving \cup {"claim"} => holder'[KeyOf(v)] = v
  <2>1. SUFFICES ASSUME pc[v] \in Driving \cup {"claim"} PROVE holder'[KeyOf(v)] = v
    BY <1>1
  <2>2. holder[KeyOf(v)] = v
    BY <1>0, <2>1 DEF SlotOK
  <2>3. KeyOf(v) \in LockKeys
    BY <1>0, <2>1 DEF SlotOK, KeyOf, LockKeys, Driving
  <2>4. holder'[KeyOf(v)] = holder[KeyOf(v)]
    <3>1. KeyOf(v) # KeyOf(w) \/ holder' = holder
      BY <2>2
    <3> QED BY <1>0, <2>3, <3>1 DEF LocksOK
  <2> QED BY <2>2, <2>4
<1>4. pc[v] \in Driving => wentLive'[on[v]] = wentLive[on[v]]
  <2>1. SUFFICES ASSUME pc[v] \in Driving, pc[w] = "build",
                        wentLive' = [wentLive EXCEPT ![on[w]] = @ + 1]
                 PROVE  wentLive'[on[v]] = wentLive[on[v]]
    OBVIOUS
  <2>2. on[v] \in Builds /\ Drives(v, on[v]) /\ Drives(w, on[w])
    BY <1>0, <2>1 DEF SlotOK, Drives, Driving
  <2>3. on[v] # on[w]
    BY <1>0, <2>2 DEF OneDriver
  <2> QED BY <1>0, <2>1, <2>2, <2>3 DEF AppsOK
<1> QED BY <1>0, <1>1, <1>2, <1>3, <1>4 DEF SlotOK, Driving

\* A slot that was not driving does not start to, and the row of a build changes
\* only when its driver stops driving it.
LEMMA DriverKeeps ==
    ASSUME IInv, NEW w \in Workers, NEW l, on' = on, pc' = [pc EXCEPT ![w] = l],
           l \in Driving => pc[w] \in Driving,
           \A b \in Builds : \/ bstatus'[b] = bstatus[b]
                             \/ b = on[w] /\ pc[w] \in Driving /\ l \notin Driving
    PROVE  OneDriver'
<1>0. SlotsOK /\ OneDriver
  BY DEF IInv, TypeOK
<1>1. \A v \in Workers, b \in Builds : Drives(v, b)' => Drives(v, b)
  BY <1>0 DEF SlotsOK, Drives
<1>2. \A v \in Workers, b \in Builds : Drives(v, b)' => bstatus'[b] = bstatus[b]
  <2> SUFFICES ASSUME NEW v \in Workers, NEW b \in Builds, Drives(v, b)'
               PROVE  bstatus'[b] = bstatus[b]
    OBVIOUS
  <2>1. Drives(v, b)
    BY <1>1
  <2>2. ~ (b = on[w] /\ pc[w] \in Driving /\ l \notin Driving)
    BY <1>0, <2>1 DEF OneDriver, Drives, SlotsOK
  <2> QED BY <2>2
<1> QED BY <1>0, <1>1, <1>2 DEF OneDriver

\* Leaving the handler.
LEMMA LeaveKeeps ==
    ASSUME IInv, NEW w \in Workers, NEW how \in {"no", "fatal", "transient"},
           LeaveHandler(w, how), pc[w] \in Driving \cup {"claim"},
           UNCHANGED <<on, attempt, made, final, wentLive>>,
           \A b \in Builds : \/ bstatus'[b] = bstatus[b]
                             \/ b = on[w] /\ pc[w] \in Driving
    PROVE  OneDriver' /\ SlotInv'
<1>0. TypeOK /\ SlotsOK /\ SlotOK(w)
  BY DEF IInv, TypeOK, SlotInv
<1>1. on[w] \in Builds /\ holder[KeyOf(w)] = w /\ attempt[w] <= made[on[w]] + 1
  BY <1>0 DEF SlotOK, Driving
<1>2. pc' = [pc EXCEPT ![w] = "report"] /\ holder' = [holder EXCEPT ![KeyOf(w)] = None]
  BY <1>0, LeaveType
<1>3. OneDriver'
  BY <1>2, DriverKeeps DEF Driving
<1>4. \A v \in Workers : v # w => SlotOK(v)'
  BY <1>1, <1>2, OtherSlots
<1>5. SlotOK(w)'
  BY <1>0, <1>1, <1>2 DEF SlotsOK, SlotOK, Driving
<1> QED BY <1>3, <1>4, <1>5 DEF SlotInv

\* A step of a slot keeps the invariant.
LEMMA SlotKeeps ==
    ASSUME IInv, NEW w \in Workers, SlotStep(w)
    PROVE  Core'
<1> USE PipelineAssumption
<1>0. TypeOK /\ RowsOK /\ JobsOK /\ AppsOK /\ SlotsOK /\ LocksOK /\ OneDriver
      /\ LiveAtMostOnce /\ OutcomeIsTrue /\ SlotInv /\ SlotOK(w)
  BY DEF IInv, TypeOK, SlotInv
<1>a. pc[w] # "idle" => on[w] \in Builds /\ attempt[w] <= made[on[w]] + 1
  BY <1>0 DEF SlotOK
<1>b. pc[w] # "idle" => KeyOf(w) \in LockKeys
  BY <1>a DEF KeyOf, LockKeys
<1>c. pc[w] \in Driving => bstatus[on[w]] \in {"running", "cancelled"}
  BY <1>0, <1>a DEF OneDriver, Drives, Driving
<1>1. CASE Resolve(w) \/ ResolveFails(w)
  <2>1. PICK l \in {"lock", "report"} : pc' = [pc EXCEPT ![w] = l]
    BY <1>1 DEF Resolve, ResolveFails, Goto
  <2>2. /\ pc[w] = "resolve"
        /\ UNCHANGED <<bstatus, wentLive, on, attempt, final, holder, made>>
    BY <1>1 DEF Resolve, ResolveFails, Lock!Request, rowVars, jobVars, appVars, lockVars
  <2>3. OneDriver'
    BY <2>1, <2>2, DriverKeeps DEF Driving
  <2>4. \A v \in Workers : v # w => SlotOK(v)'
    BY <1>a, <2>1, <2>2, OtherSlots
  <2>5. SlotOK(w)'
    BY <1>0, <1>a, <2>1, <2>2 DEF SlotsOK, SlotOK, Driving
  <2>6. LiveAtMostOnce' /\ OutcomeIsTrue'
    BY <1>0, <2>2 DEF LiveAtMostOnce, OutcomeIsTrue
  <2> QED BY <2>3, <2>4, <2>5, <2>6 DEF Core, SlotInv
<1>2. CASE Enter(w)
  <2>1. /\ pc[w] = "lock" /\ pc' = [pc EXCEPT ![w] = "claim"]
        /\ UNCHANGED <<bstatus, wentLive, on, attempt, final, made>>
    BY <1>2 DEF Enter, Goto, rowVars, jobVars, appVars
  <2>2. /\ holder[KeyOf(w)] = None
        /\ holder' = [holder EXCEPT ![KeyOf(w)] = w]
        /\ holder'[KeyOf(w)] = w
    <3>1. /\ holder[KeyOf(w)] = None
          /\ holder' = [holder EXCEPT ![KeyOf(w)] = Head(waiters[KeyOf(w)])]
          /\ holder'[KeyOf(w)] = w
      BY <1>2 DEF Enter, Lock!Grant
    <3>2. Head(waiters[KeyOf(w)]) = w
      BY <1>0, <1>b, <2>1, <3>1 DEF LocksOK
    <3> QED BY <3>1, <3>2
  <2>3. OneDriver'
    BY <2>1, DriverKeeps DEF Driving
  <2>4. \A v \in Workers : v # w => SlotOK(v)'
    BY <1>a, <2>1, <2>2, OtherSlots
  <2>5. SlotOK(w)'
    <3>1. pc'[w] = "claim" /\ KeyOf(w)' = KeyOf(w)
      BY <1>0, <2>1 DEF SlotsOK, KeyOf
    <3> QED BY <1>a, <2>1, <2>2, <3>1 DEF SlotOK, Driving
  <2>6. LiveAtMostOnce' /\ OutcomeIsTrue'
    BY <1>0, <2>1 DEF LiveAtMostOnce, OutcomeIsTrue
  <2> QED BY <2>3, <2>4, <2>5, <2>6 DEF Core, SlotInv
<1>3. CASE Claim(w)
  <2>1. /\ pc[w] = "claim" /\ pc' = [pc EXCEPT ![w] = "read"]
        /\ bstatus[on[w]] \in {"pending", "failed"}
        /\ bstatus' = [bstatus EXCEPT ![on[w]] = "running"]
        /\ UNCHANGED <<wentLive, on, attempt, final, made, holder>>
    BY <1>3 DEF Claim, Goto, ExpectedStatuses, jobVars, appVars, lockVars
  <2>2. on[w] \in Builds /\ wentLive[on[w]] = 0
    BY <1>0, <1>a, <2>1 DEF OutcomeIsTrue
  <2>3. \A v \in Workers : ~ Drives(v, on[w])
    BY <1>0, <2>1, <2>2 DEF OneDriver
  <2>4. \A v \in Workers, b \in Builds : Drives(v, b)' => (v = w /\ b = on[w]) \/ Drives(v, b)
    BY <1>0, <2>1 DEF SlotsOK, Drives
  <2>5. OneDriver'
    BY <1>0, <2>1, <2>2, <2>3, <2>4 DEF OneDriver, RowsOK
  <2>6. \A v \in Workers : v # w => SlotOK(v)'
    BY <2>1, <2>2, OtherSlots
  <2>7. SlotOK(w)'
    <3>1. pc'[w] = "read" /\ KeyOf(w)' = KeyOf(w) /\ holder[KeyOf(w)] = w
      BY <1>0, <2>1 DEF SlotsOK, KeyOf, SlotOK
    <3> QED BY <1>a, <2>1, <2>2, <3>1 DEF SlotOK, Driving
  <2>8. LiveAtMostOnce' /\ OutcomeIsTrue'
    BY <1>0, <2>1, <2>2 DEF LiveAtMostOnce, OutcomeIsTrue, RowsOK, Succeeded
  <2> QED BY <2>5, <2>6, <2>7, <2>8 DEF Core, SlotInv
<1>4. CASE ReadApp(w) \/ Start(w) \/ MarkBuilding(w)
  <2>1. PICK l \in {"start", "mark", "build"} : pc' = [pc EXCEPT ![w] = l]
    BY <1>4 DEF ReadApp, Start, MarkBuilding, Goto
  <2>2. /\ pc[w] \in {"read", "start", "mark"}
        /\ UNCHANGED <<wentLive, on, attempt, final, made, holder>>
    BY <1>4 DEF ReadApp, Start, MarkBuilding, jobVars, appVars, lockVars
  <2>3. \A b \in Builds : bstatus'[b] = bstatus[b]
    <3>1. CASE Start(w)
      BY <1>0, <1>c, <2>2, <3>1 DEF Start, UpdateBuildStatus, Active, Driving, RowsOK
    <3>2. CASE ReadApp(w) \/ MarkBuilding(w)
      BY <3>2 DEF ReadApp, MarkBuilding, rowVars
    <3> QED BY <1>4, <3>1, <3>2
  <2>4. OneDriver'
    BY <2>1, <2>2, <2>3, DriverKeeps DEF Driving
  <2>5. \A v \in Workers : v # w => SlotOK(v)'
    BY <1>a, <2>1, <2>2, OtherSlots
  <2>6. SlotOK(w)'
    <3>1. pc'[w] = l /\ KeyOf(w)' = KeyOf(w) /\ holder[KeyOf(w)] = w /\ wentLive[on[w]] = 0
      BY <1>0, <2>1, <2>2 DEF SlotsOK, KeyOf, SlotOK, Driving
    <3> QED BY <1>a, <2>1, <2>2, <3>1 DEF SlotOK, Driving
  <2>7. LiveAtMostOnce' /\ OutcomeIsTrue'
    BY <1>0, <2>2, <2>3 DEF LiveAtMostOnce, OutcomeIsTrue
  <2> QED BY <2>4, <2>5, <2>6, <2>7 DEF Core, SlotInv
<1>5. CASE ClaimFails(w) \/ QueryFails(w) \/ \E how \in {"fatal", "transient"} : ThrowEarly(w, how)
  <2>1. PICK how \in {"no", "fatal", "transient"} : LeaveHandler(w, how)
    BY <1>5 DEF ClaimFails, QueryFails, ThrowEarly
  <2>2. /\ pc[w] \in Driving \cup {"claim"}
        /\ UNCHANGED <<bstatus, wentLive, on, attempt, final, made>>
    BY <1>5 DEF ClaimFails, QueryFails, ThrowEarly, rowVars, jobVars, appVars, Driving
  <2>3. OneDriver' /\ SlotInv'
    BY <2>1, <2>2, LeaveKeeps
  <2>4. LiveAtMostOnce' /\ OutcomeIsTrue'
    BY <1>0, <2>2 DEF LiveAtMostOnce, OutcomeIsTrue
  <2> QED BY <2>3, <2>4 DEF Core
<1>6. CASE LostAccess(w) \/ FinalWrite(w)
  <2>1. PICK how \in {"no", "fatal", "transient"} : LeaveHandler(w, how)
    BY <1>0, <1>6 DEF LostAccess, FinalWrite, SlotsOK
  <2>2. PICK s \in Succeeded \cup {"failed"} :
          /\ bstatus' = UpdateBuildStatus(on[w], s)
          /\ wentLive[on[w]] = IF s = "failed" THEN 0 ELSE 1
    BY <1>0, <1>6 DEF LostAccess, FinalWrite, SlotsOK, SlotOK
  <2>3. /\ pc[w] \in Driving
        /\ UNCHANGED <<wentLive, on, attempt, final, made>>
    BY <1>6 DEF LostAccess, FinalWrite, jobVars, appVars, Driving
  <2>4. \A b \in Builds : bstatus'[b] = bstatus[b] \/ (b = on[w] /\ bstatus'[b] = s)
    BY <1>0, <2>2 DEF UpdateBuildStatus, RowsOK
  <2>5. OneDriver' /\ SlotInv'
    BY <2>1, <2>3, <2>4, LeaveKeeps
  <2>6. LiveAtMostOnce' /\ OutcomeIsTrue'
    BY <1>0, <2>2, <2>3, <2>4 DEF LiveAtMostOnce, OutcomeIsTrue, Succeeded
  <2> QED BY <2>5, <2>6 DEF Core
<1>7. CASE (\E how \in {"fatal", "transient"} : DeployFails(w, how)) \/ FallbackFails(w)
  <2>1. /\ pc[w] = "build" /\ pc' = [pc EXCEPT ![w] = "final"]
        /\ final' = [final EXCEPT ![w] = "failed"]
        /\ UNCHANGED <<bstatus, wentLive, on, attempt, made, holder>>
    BY <1>7 DEF DeployFails, FallbackFails, Goto, rowVars, jobVars, appVars, lockVars
  <2>2. \A v \in Workers : v # w => final'[v] = final[v]
    BY <1>0, <2>1 DEF SlotsOK
  <2>3. OneDriver'
    BY <2>1, DriverKeeps DEF Driving
  <2>4. \A v \in Workers : v # w => SlotOK(v)'
    BY <1>a, <2>1, <2>2, OtherSlots
  <2>5. SlotOK(w)'
    <3>1. pc'[w] = "final" /\ KeyOf(w)' = KeyOf(w) /\ holder[KeyOf(w)] = w
          /\ wentLive[on[w]] = 0 /\ final'[w] = "failed"
      BY <1>0, <2>1 DEF SlotsOK, KeyOf, SlotOK, Driving
    <3> QED BY <1>a, <2>1, <3>1 DEF SlotOK, Driving
  <2>6. LiveAtMostOnce' /\ OutcomeIsTrue'
    BY <1>0, <2>1 DEF LiveAtMostOnce, OutcomeIsTrue
  <2> QED BY <2>3, <2>4, <2>5, <2>6 DEF Core, SlotInv
<1>8. ASSUME NEW s \in Succeeded, GoLive(w, s) PROVE Core'
  <2>1. /\ pc[w] = "build" /\ pc' = [pc EXCEPT ![w] = "final"]
        /\ final' = [final EXCEPT ![w] = s]
        /\ wentLive' = [wentLive EXCEPT ![on[w]] = @ + 1]
        /\ UNCHANGED <<bstatus, on, attempt, made, holder>>
    BY <1>8 DEF GoLive, Goto, rowVars, jobVars, lockVars
  <2>2. \A v \in Workers : v # w => final'[v] = final[v]
    BY <1>0, <2>1 DEF SlotsOK
  <2>3. on[w] \in Builds /\ wentLive[on[w]] = 0 /\ bstatus[on[w]] \in {"running", "cancelled"}
    BY <1>0, <1>a, <1>c, <2>1 DEF SlotOK, Driving
  <2>4. OneDriver'
    BY <2>1, DriverKeeps DEF Driving
  <2>5. \A v \in Workers : v # w => SlotOK(v)'
    BY <2>1, <2>2, <2>3, OtherSlots
  <2>6. SlotOK(w)'
    <3>1. pc'[w] = "final" /\ KeyOf(w)' = KeyOf(w) /\ holder[KeyOf(w)] = w /\ final'[w] = s
      BY <1>0, <2>1 DEF SlotsOK, KeyOf, SlotOK, Driving
    <3>2. wentLive'[on[w]] = 1 /\ s # "failed"
      BY <1>0, <2>1, <2>3 DEF AppsOK, Succeeded
    <3> QED BY <1>a, <2>1, <3>1, <3>2 DEF SlotOK, Driving
  <2>7. LiveAtMostOnce' /\ OutcomeIsTrue'
    BY <1>0, <2>1, <2>3 DEF LiveAtMostOnce, OutcomeIsTrue, AppsOK, Succeeded
  <2> QED BY <2>4, <2>5, <2>6, <2>7 DEF Core, SlotInv
<1>9. CASE FinalRead(w)
  <2>1. pc[w] = "final" /\ UNCHANGED <<bstatus, wentLive, on, attempt, final, made>>
    BY <1>9 DEF FinalRead, rowVars, jobVars, appVars
  <2>2. LiveAtMostOnce' /\ OutcomeIsTrue'
    BY <1>0, <2>1 DEF LiveAtMostOnce, OutcomeIsTrue
  <2>3. CASE LeaveHandler(w, thrown[w])
    <3>1. thrown[w] \in {"no", "fatal", "transient"}
      BY <1>0 DEF SlotsOK
    <3>2. OneDriver' /\ SlotInv'
      BY <2>1, <2>3, <3>1, LeaveKeeps DEF Driving
    <3> QED BY <2>2, <3>2 DEF Core
  <2>4. CASE pc' = [pc EXCEPT ![w] = "commit"] /\ holder' = holder
    <3>1. OneDriver'
      BY <2>1, <2>4, DriverKeeps DEF Driving
    <3>2. \A v \in Workers : v # w => SlotOK(v)'
      BY <1>a, <2>1, <2>4, OtherSlots
    <3>3. pc'[w] = "commit" /\ KeyOf(w)' = KeyOf(w)
      BY <1>0, <2>1, <2>4 DEF SlotsOK, KeyOf
    <3>4. SlotOK(w)'
      BY <1>0, <2>1, <2>4, <3>3 DEF SlotOK, Driving
    <3> QED BY <2>2, <3>1, <3>2, <3>4 DEF Core, SlotInv
  <2> QED BY <1>9, <2>3, <2>4 DEF FinalRead, Goto, lockVars
<1>10. CASE Report(w)
  <2>1. /\ pc[w] = "report"
        /\ UNCHANGED <<bstatus, wentLive, holder>>
        /\ pc' = [v \in Workers |-> IF v = w THEN "idle" ELSE pc[v]]
        /\ \A v \in Workers : v # w => on'[v] = on[v] /\ attempt'[v] = attempt[v] /\ final'[v] = final[v]
    BY <1>0, <1>10 DEF Report, Forget, rowVars, appVars, lockVars, SlotsOK
  <2>2. \A b \in Builds : made'[b] >= made[b]
    <3>1. made' = made \/ made' = [made EXCEPT ![on[w]] = made[on[w]] + 1]
      BY <1>10 DEF Report
    <3> QED BY <1>0, <3>1 DEF JobsOK
  <2>3. OneDriver'
    BY <1>0, <2>1 DEF OneDriver, Drives, Driving
  <2>4. ASSUME NEW v \in Workers PROVE SlotOK(v)'
    <3>1. CASE v = w
      BY <2>1, <3>1 DEF SlotOK, Driving
    <3>2. CASE v # w
      <4>1. pc'[v] = pc[v] /\ on'[v] = on[v] /\ attempt'[v] = attempt[v] /\ final'[v] = final[v]
            /\ KeyOf(v)' = KeyOf(v) /\ SlotOK(v)
        BY <1>0, <2>1, <3>2 DEF KeyOf, SlotInv
      <4>2. pc[v] # "idle" => attempt[v] <= made'[on[v]] + 1
        <5>1. pc[v] # "idle" => /\ on[v] \in Builds /\ made[on[v]] \in Nat /\ attempt[v] \in Nat
                                /\ attempt[v] <= made[on[v]] + 1
          BY <1>0, <4>1 DEF SlotOK, JobsOK, SlotsOK
        <5>2. on[v] \in Builds => made'[on[v]] \in Nat
          BY SlotType DEF TypeOK, JobsOK
        <5> QED BY <2>2, <5>1, <5>2
      <4> QED BY <2>1, <4>1, <4>2 DEF SlotOK
    <3> QED BY <3>1, <3>2
  <2>5. LiveAtMostOnce' /\ OutcomeIsTrue'
    BY <1>0, <2>1 DEF LiveAtMostOnce, OutcomeIsTrue
  <2> QED BY <2>3, <2>4, <2>5 DEF Core, SlotInv
<1> QED BY <1>1, <1>2, <1>3, <1>4, <1>5, <1>6, <1>7, <1>8, <1>9, <1>10 DEF SlotStep

\* Every step keeps the invariant.
LEMMA CoreStep ==
    ASSUME IInv, [Next]_vars
    PROVE  Core'
<1> USE PipelineAssumption
<1>0. TypeOK /\ RowsOK /\ JobsOK /\ SlotsOK /\ LocksOK /\ Core
  BY DEF IInv, TypeOK, Core
<1>1. ASSUME NEW b \in Builds, AddJob(b) \/ AddFails(b) \/ StalledJob(b) \/ CancelRemove(b)
                                \/ CancelLost(b) \/ Age(b)
      PROVE  Core'
  <2>1. UNCHANGED Watched
    BY <1>1 DEF AddJob, AddFails, StalledJob, CancelRemove, CancelLost, Age, Watched,
         rowVars, jobVars, appVars, slotVars, lockVars
  <2> QED BY <1>0, <2>1, QuietStep
<1>2. ASSUME NEW b \in Builds, InsertRow(b) PROVE Core'
  BY <1>2, RowStep DEF InsertRow, appVars, slotVars, lockVars
<1>3. ASSUME NEW b \in Builds, CancelWrite(b) PROVE Core'
  BY <1>3, CancelStep DEF CancelWrite, appVars, slotVars, lockVars
<1>4. ASSUME NEW b \in Builds, NEW w \in Workers, Take(w, b) PROVE Core'
  <2>1. /\ pc[w] = "idle" /\ pc' = [pc EXCEPT ![w] = "resolve"]
        /\ on' = [on EXCEPT ![w] = b]
        /\ attempt' = [attempt EXCEPT ![w] = made[b] + 1]
        /\ UNCHANGED <<bstatus, wentLive, final, holder, made>>
    BY <1>4 DEF Take, Goto, rowVars, appVars, lockVars
  <2>2. \A v \in Workers : v # w => pc'[v] = pc[v] /\ on'[v] = on[v] /\ attempt'[v] = attempt[v]
    BY <1>0, <2>1 DEF SlotsOK
  <2>3. pc'[w] = "resolve" /\ on'[w] = b /\ attempt'[w] = made[b] + 1 /\ made[b] \in Nat
    BY <1>0, <2>1 DEF SlotsOK, JobsOK
  <2>4. OneDriver'
    BY <1>0, <2>1, <2>2, <2>3 DEF Core, OneDriver, Drives, Driving
  <2>5. SlotInv'
    <3>1. SlotOK(w)'
      BY <2>1, <2>3 DEF SlotOK, Driving
    <3>2. ASSUME NEW v \in Workers, v # w PROVE SlotOK(v)'
      <4>1. KeyOf(v)' = KeyOf(v) /\ SlotOK(v)
        BY <1>0, <2>2, <3>2 DEF KeyOf, Core, SlotInv
      <4> QED BY <2>1, <2>2, <3>2, <4>1 DEF SlotOK
    <3> QED BY <3>1, <3>2 DEF SlotInv
  <2>6. LiveAtMostOnce' /\ OutcomeIsTrue'
    BY <1>0, <2>1 DEF Core, LiveAtMostOnce, OutcomeIsTrue
  <2> QED BY <2>4, <2>5, <2>6 DEF Core
<1>5. ASSUME NEW w \in Workers, SlotStep(w) PROVE Core'
  BY <1>5, SlotKeeps
<1>6. ASSUME NEW p \in Procs, ReaperStep(p) PROVE Core'
  <2>1. ASSUME NEW b \in Builds, ReapUpdate(p, b) PROVE Core'
    BY <2>1, CancelStep DEF ReapUpdate, jobVars, appVars, slotVars, lockVars
  <2>2. CASE (\E phase \in {"running", "pending"} : ReapSelect(p, phase))
             \/ RepairRead(p) \/ RepairWrite(p)
    <3>1. UNCHANGED Watched
      BY <2>2 DEF ReapSelect, RepairRead, RepairWrite, Watched, rowVars, jobVars, appVars,
           slotVars, lockVars
    <3> QED BY <1>0, <3>1, QuietStep
  <2> QED BY <1>6, <2>1, <2>2 DEF ReaperStep
<1>7. ASSUME NEW p \in Procs, Crash(p) PROVE Core'
  <2>1. /\ \A v \in Workers : ProcOf[v] = p => pc'[v] = "idle"
        /\ \A v \in Workers : ProcOf[v] # p =>
              /\ pc'[v] = pc[v] /\ on'[v] = on[v] /\ attempt'[v] = attempt[v]
              /\ final'[v] = final[v]
        /\ holder' = [k \in LockKeys |-> IF k[1] = p THEN None ELSE holder[k]]
        /\ UNCHANGED <<bstatus, wentLive, made>>
    BY <1>7 DEF Crash, Forget, rowVars, jobVars, appVars
  <2>2. OneDriver'
    BY <1>0, <2>1 DEF Core, OneDriver, Drives, Driving
  <2>3. ASSUME NEW v \in Workers PROVE SlotOK(v)'
    <3>1. CASE ProcOf[v] = p
      BY <2>1, <3>1 DEF SlotOK, Driving
    <3>2. CASE ProcOf[v] # p
      <4>1. KeyOf(v)' = KeyOf(v) /\ SlotOK(v)
        BY <1>0, <2>1, <3>2 DEF KeyOf, Core, SlotInv
      <4>2. pc[v] # "idle" => holder'[KeyOf(v)] = holder[KeyOf(v)]
        BY <2>1, <3>2, <4>1 DEF SlotOK, KeyOf, LockKeys
      <4> QED BY <2>1, <3>2, <4>1, <4>2 DEF SlotOK, Driving
    <3> QED BY <3>1, <3>2
  <2>4. LiveAtMostOnce' /\ OutcomeIsTrue'
    BY <1>0, <2>1 DEF Core, LiveAtMostOnce, OutcomeIsTrue
  <2> QED BY <2>2, <2>3, <2>4 DEF Core, SlotInv
<1>8. CASE UNCHANGED vars
  BY <1>0, <1>8, QuietStep DEF vars, rowVars, jobVars, appVars, slotVars, lockVars, Watched
<1> QED BY <1>1, <1>2, <1>3, <1>4, <1>5, <1>6, <1>7, <1>8 DEF Next
-----------------------------------------------------------------------------
(* The results.                                                            *)

(* The inductive invariant of the pipeline: the state is well-formed, and  *)
(* what a slot relies on between two awaits of handleDeploy is true.       *)
THEOREM PipelineInvariant == Spec => []IInv
<1>1. IInv /\ [Next]_vars => IInv'
  BY TypeStep, CoreStep DEF IInv, Core
<1> QED BY InitIInv, <1>1, PTL DEF Spec

(* Every variable of the pipeline keeps its type.                          *)
THEOREM PipelineTypeOK == Spec => []TypeOK
<1>1. IInv => TypeOK
  BY DEF IInv
<1> QED BY PipelineInvariant, <1>1, PTL

(* claimQueuedRow: at most one slot, over all processes, drives a build,   *)
(* however often BullMQ delivers its job.                                  *)
THEOREM PipelineOneDriver == Spec => []OneDriver
<1>1. IInv => OneDriver
  BY DEF IInv
<1> QED BY PipelineInvariant, <1>1, PTL

(* No retry, redelivery or crash makes a build go live twice.              *)
THEOREM PipelineLiveAtMostOnce == Spec => []LiveAtMostOnce
<1>1. IInv => LiveAtMostOnce
  BY DEF IInv
<1> QED BY PipelineInvariant, <1>1, PTL

(* A row never says `succeeded` of a build that did not go live, nor       *)
(* `failed` of one that did.                                               *)
THEOREM PipelineOutcomeIsTrue == Spec => []OutcomeIsTrue
<1>1. IInv => OutcomeIsTrue
  BY DEF IInv
<1> QED BY PipelineInvariant, <1>1, PTL

(* Between two awaits a slot may rely on its lock, on its attempt being no *)
(* newer than the job's and on the status it is about to write.            *)
THEOREM PipelineSlotInv == Spec => []SlotInv
<1>1. IInv => SlotInv
  BY DEF IInv
<1> QED BY <1>1, PipelineInvariant, PTL

(* withAppDeployLock: one process deploys an application one build at a    *)
(* time.  Two slots between claim and last write hold the same lock.       *)
THEOREM PipelineSequentialInProcess == Spec => []SequentialInProcess
<1>1. IInv => SequentialInProcess
  BY ZenonT(30) DEF IInv, SlotInv, SlotOK, SequentialInProcess, KeyOf
<1> QED BY PipelineInvariant, <1>1, PTL

(* updateBuildStatus never changes a terminal row; only the claim of a     *)
(* later attempt does, and only from `failed`.                             *)
THEOREM PipelineTerminalIsSticky == Spec => TerminalIsSticky
<1> DEFINE Sticky(b) == bstatus[b] \in Terminal =>
              \/ bstatus'[b] = bstatus[b]
              \/ bstatus[b] = "failed" /\ bstatus'[b] = "running" /\ made[b] > 0
<1>1. ASSUME IInv, [Next]_vars, NEW b \in Builds PROVE Sticky(b)
  <2>0. RowsOK /\ JobsOK /\ SlotsOK /\ SlotInv
    BY <1>1 DEF IInv, TypeOK
  <2>1. ASSUME NEW c, NEW s, bstatus' = UpdateBuildStatus(c, s) PROVE Sticky(b)
    BY <2>0, <2>1 DEF UpdateBuildStatus, RowsOK, Terminal, Succeeded, Active
  <2>2. ASSUME NEW w \in Workers, Claim(w) PROVE Sticky(b)
    <3>1. /\ bstatus[on[w]] \in {"pending", "failed"}
          /\ bstatus[on[w]] = "failed" => attempt[w] > 1
          /\ bstatus' = [bstatus EXCEPT ![on[w]] = "running"]
          /\ on[w] \in Builds /\ attempt[w] <= made[on[w]] + 1
      BY <2>0, <2>2 DEF Claim, ExpectedStatuses, SlotInv, SlotOK
    <3>2. attempt[w] \in Nat /\ made[on[w]] \in Nat
      BY <2>0, <3>1 DEF SlotsOK, JobsOK
    <3> QED BY <2>0, <3>1, <3>2 DEF RowsOK, Terminal, Succeeded
  <2>3. ASSUME NEW w \in Workers, SlotStep(w) PROVE Sticky(b)
    <3>1. CASE Start(w) \/ LostAccess(w) \/ FinalWrite(w)
      BY <3>1, <2>1 DEF Start, LostAccess, FinalWrite
    <3>2. CASE ~ (Start(w) \/ LostAccess(w) \/ FinalWrite(w) \/ Claim(w))
      <4>1. bstatus' = bstatus
        BY <2>3, <3>2 DEF SlotStep, Resolve, ResolveFails, Enter, ClaimFails, ReadApp,
             MarkBuilding, GoLive, ThrowEarly, DeployFails, FallbackFails, FinalRead,
             QueryFails, Report, rowVars
      <4> QED BY <4>1
    <3> QED BY <2>2, <3>1, <3>2
  <2>4. ASSUME NEW c \in Builds, InsertRow(c) PROVE Sticky(b)
    BY <2>0, <2>4 DEF InsertRow, RowsOK, Terminal, Succeeded
  <2>5. ASSUME NEW c \in Builds, CancelWrite(c) PROVE Sticky(b)
    BY <2>1, <2>5 DEF CancelWrite
  <2>6. ASSUME NEW c \in Builds, AddJob(c) \/ AddFails(c) \/ StalledJob(c) \/ CancelRemove(c)
                                  \/ CancelLost(c) \/ Age(c)
        PROVE  Sticky(b)
    BY <2>6 DEF AddJob, AddFails, StalledJob, CancelRemove, CancelLost, Age, rowVars
  <2>7. ASSUME NEW c \in Builds, NEW w \in Workers, Take(w, c) PROVE Sticky(b)
    BY <2>7 DEF Take, rowVars
  <2>8. ASSUME NEW p \in Procs, ReaperStep(p) PROVE Sticky(b)
    <3>1. ASSUME NEW c \in Builds, ReapUpdate(p, c) PROVE Sticky(b)
      BY <2>1, <3>1 DEF ReapUpdate
    <3> QED BY <2>8, <3>1 DEF ReaperStep, ReapSelect, RepairRead, RepairWrite, rowVars
  <2>9. ASSUME NEW p \in Procs, Crash(p) PROVE Sticky(b)
    BY <2>9 DEF Crash, rowVars
  <2>10. CASE UNCHANGED vars
    BY <2>10 DEF vars, rowVars
  <2> QED BY <1>1, <2>3, <2>4, <2>5, <2>6, <2>7, <2>8, <2>9, <2>10 DEF Next
<1>2. IInv /\ [Next]_vars => [\A b \in Builds : Sticky(b)]_vars
  BY <1>1
<1> QED BY PipelineInvariant, <1>2, PTL DEF Spec, TerminalIsSticky
=============================================================================
