----------------------- MODULE ContainerRunnerProofs -----------------------
(***************************************************************************)
(* Proofs about module ContainerRunner, for any set of operations and any  *)
(* number of mishaps: the types, and, while an application is only         *)
(* deployed, that its row names a container that passed its health check   *)
(* and has not been stopped (RowServed).                                   *)
(*                                                                         *)
(* The invariant says what a deploy knows at each step.  Up to the write   *)
(* of the row, the colour it read is the one in the row, so what it evicts *)
(* or cleans up is the other colour; after it, the colour it read is the   *)
(* other one, so what it removes is not what the row names.  Both need     *)
(* that deploys are one at a time and that the status reconciler does not  *)
(* correct the container of a row whose container exists.  That the new    *)
(* container is checked before the row names it needs that, between the    *)
(* poll and the write, nothing takes its name.                             *)
(***************************************************************************)
EXTENDS ContainerRunner, TLAPS

(* The steps at which a deploy has read the colour and not written the row *)
(* yet, and those after the write.                                         *)
Before == {"create", "inspect", "evictStop", "evictRemove", "recreate",
           "start", "poll", "cleanup", "switch", "mark"}
After == {"drain", "oldStop", "oldRemove"}

DeployOnly ==
    \A o \in Ops : /\ op[o].pc \in {"idle", "done", "colors"} \cup Before \cup After
                   /\ Running(o) => op[o].kind = "deploy"
OneDeploy == \A o, p \in Ops : Running(o) /\ Running(p) => o = p
ColorKnown ==
    \A o \in Ops : /\ op[o].pc \in Before => op[o].cur = row.cid
                   /\ op[o].pc \in After => New(o) = row.cid
Checked ==
    \A o \in Ops : op[o].pc \in {"switch", "mark"}
                   => Mine(o) /\ slot[New(o)].h \in {"healthy", "unhealthy"}
NamedExists ==
    /\ row.st # "gone" /\ row.cid \in Colors /\ slot[row.cid] # None
    /\ slot[row.cid].h \in {"healthy", "unhealthy"}

Core == ~mixed => /\ DeployOnly /\ OneDeploy /\ ColorKnown /\ Checked
                  /\ NamedExists /\ get.cid = "keep"
IInv == TypeOK /\ Core

-----------------------------------------------------------------------------
(* Types.                                                                   *)

LEMMA OppositeColor ==
    \A c \in Colors : /\ oppositeColor(c) \in Colors
                      /\ oppositeColor(c) # c
                      /\ oppositeColor(oppositeColor(c)) = c
BY DEF oppositeColor, Colors

LEMMA SetRowType ==
    ASSUME TypeOK, NEW st \in Statuses, NEW cid \in Colors \cup {None}, SetRow(st, cid)
    PROVE  row' \in Row
BY DEF SetRow, TypeOK, Row

LEMMA GotoType ==
    ASSUME TypeOK, NEW o \in Ops, NEW pc \in Steps, Goto(o, pc)
    PROVE  op' \in [Ops -> Operation]
<1>1. NoOp(pc) \in Operation
  BY DEF NoOp, Operation, Statuses, Colors
<1>2. op[o] \in Operation
  BY DEF TypeOK
<1>3. [op[o] EXCEPT !.pc = pc] \in Operation
  BY <1>2 DEF Operation
<1> QED BY <1>1, <1>3 DEF Goto, TypeOK

LEMMA TroubleType ==
    ASSUME TypeOK, Trouble
    PROVE  trouble' \in 0..MaxTrouble
BY ConstantsAssumption DEF Trouble, TypeOK

LEMMA CallType ==
    ASSUME TypeOK, NEW eff \in [Colors -> Container \cup {None}], Call(eff)
    PROVE  slot' \in [Colors -> Container \cup {None}] /\ trouble' \in 0..MaxTrouble
BY TroubleType DEF Call, TypeOK

LEMMA EffectType ==
    ASSUME TypeOK, NEW c \in Colors
    PROVE  /\ Exited(slot, c) \in [Colors -> Container \cup {None}]
           /\ Removed(slot, c) \in [Colors -> Container \cup {None}]
<1>1. slot[c] = None \/ slot[c] \in Container
  BY DEF TypeOK
<1>2. slot[c] # None => [slot[c] EXCEPT !.h = "exited"] \in Container
  BY <1>1 DEF Container, Health
<1> QED BY <1>1, <1>2 DEF Exited, Removed, TypeOK

LEMMA NewColor ==
    ASSUME TypeOK, NEW o \in Ops
    PROVE  New(o) \in Colors /\ New(o) # op[o].cur
BY OppositeColor DEF New, TypeOK, Operation

LEMMA ThrownType ==
    ASSUME TypeOK, NEW o \in Ops, Thrown(o)
    PROVE  row' \in Row /\ op' \in [Ops -> Operation]
<1>1. fallbackStatus(op[o].seen) \in Statuses /\ row.cid \in Colors \cup {None}
  BY DEF fallbackStatus, Statuses, TypeOK, Row, Operation
<1>2. row' \in Row
  BY <1>1, SetRowType DEF Thrown, TypeOK
<1>3. (IF op[o].kind = "delete" /\ op[o].pc \in {"unroute", "settle"}
       THEN "erase" ELSE "done") \in Steps
  BY DEF Steps
<1> QED BY <1>2, <1>3, GotoType DEF Thrown

LEMMA BeginType ==
    ASSUME TypeOK, NEW o \in Ops, NEW kind \in AllKinds, NEW pc \in Steps,
           NEW seen \in Statuses, NEW owes \in {"keep", "stop", "remove"},
           Begin(o, kind, pc, seen, owes)
    PROVE  /\ op' \in [Ops -> Operation]
           /\ togo' \in [Ops -> [Colors -> {"keep", "stop", "remove"}]]
           /\ mixed' \in BOOLEAN
<1>1. [kind |-> kind, pc |-> pc, cur |-> "green", seen |-> seen] \in Operation
  BY DEF Operation, Colors
<1> QED BY <1>1 DEF Begin, TypeOK

LEMMA DeriveType ==
    ASSUME NEW st, NEW h, NEW fresh
    PROVE  deriveLiveStatus(st, h, fresh) \in {st, "running", "failed"}
BY DEF deriveLiveStatus

LEMMA CorrectionType ==
    ASSUME TypeOK, NEW c \in Colors \cup {row.cid}, NEW h
    PROVE  Correction(c, h) \in [st : {"keep", "running", "failed"},
                                 cid : Colors \cup {"keep"}]
BY DeriveType DEF Correction

LEMMA ChosenType ==
    ASSUME TypeOK, NEW c \in Chosen(row.cid, Snapshot)
    PROVE  c \in Colors
BY DEF Chosen, Best, TypeOK, Row

(* What an operation begins with.                                          *)
LEMMA StartType ==
    ASSUME TypeOK, NEW o \in Ops, StartOp(o)
    PROVE  TypeOK'
<1>0. row \in Row /\ row.st \in Statuses /\ row.cid \in Colors \cup {None}
  BY DEF TypeOK, Row
<1>t. ASSUME restartApp(o), UNCHANGED up PROVE TypeOK'
  <2>1. /\ op' \in [Ops -> Operation] /\ mixed' \in BOOLEAN
        /\ togo' \in [Ops -> [Colors -> {"keep", "stop", "remove"}]]
    BY <1>t, BeginType DEF restartApp, Steps, Statuses, AllKinds
  <2>2. row' \in Row
    BY <1>t, <1>0, SetRowType DEF restartApp, Statuses
  <2> QED BY <2>1, <2>2, <1>t DEF restartApp, TypeOK, cronVars
<1>1. CASE Deploy(o)
  <2>1. /\ op' \in [Ops -> Operation] /\ mixed' \in BOOLEAN
        /\ togo' \in [Ops -> [Colors -> {"keep", "stop", "remove"}]]
    BY <1>1, <1>0, BeginType DEF Deploy, Steps, AllKinds
  <2>2. row' \in Row
    BY <1>1, <1>0, SetRowType DEF Deploy, Statuses
  <2> QED BY <2>1, <2>2, <1>1 DEF Deploy, TypeOK, cronVars
<1>2. CASE Restart(o)
  BY <1>2, <1>t DEF Restart
<1>3. CASE AutoHeal(o)
  BY <1>3, <1>t DEF AutoHeal
<1>4. CASE Stop(o)
  <2>1. /\ op' \in [Ops -> Operation] /\ mixed' \in BOOLEAN
        /\ togo' \in [Ops -> [Colors -> {"keep", "stop", "remove"}]]
    BY <1>4, BeginType DEF Stop, Steps, Statuses, AllKinds
  <2> QED BY <2>1, <1>4 DEF Stop, TypeOK, cronVars
<1>5. CASE Rollback(o)
  <2>1. /\ op' \in [Ops -> Operation] /\ mixed' \in BOOLEAN
        /\ togo' \in [Ops -> [Colors -> {"keep", "stop", "remove"}]]
    BY <1>5, BeginType DEF Rollback, Steps, Statuses, AllKinds
  <2> QED BY <2>1, <1>5 DEF Rollback, TypeOK, cronVars
<1>6. CASE Delete(o)
  <2>1. /\ op' \in [Ops -> Operation] /\ mixed' \in BOOLEAN
        /\ togo' \in [Ops -> [Colors -> {"keep", "stop", "remove"}]]
    BY <1>6, <1>0, BeginType DEF Delete, Steps, AllKinds
  <2>2. row' \in Row
    BY <1>6, <1>0, SetRowType DEF Delete, Statuses
  <2> QED BY <2>1, <2>2, <1>6 DEF Delete, TypeOK, cronVars
<1> QED BY <1>1, <1>2, <1>3, <1>4, <1>5, <1>6 DEF StartOp

(* The steps of an operation.                                              *)
LEMMA WorkType ==
    ASSUME TypeOK, NEW o \in Ops,
           Work(o) \/ Throw(o) \/ EnqueueFails(o)
    PROVE  TypeOK'
<1>0. row \in Row /\ row.st \in Statuses /\ row.cid \in Colors \cup {None}
  BY DEF TypeOK, Row
<1>n. New(o) \in Colors /\ op[o] \in Operation /\ op[o].cur \in Colors
      /\ op[o].seen \in Statuses
  BY NewColor DEF TypeOK, Operation
<1>c. ASSUME Created(o) PROVE slot' \in [Colors -> Container \cup {None}]
  <2>1. [id |-> o, h |-> "created"] \in Container
    BY DEF Container, Ids, Health
  <2> QED BY <2>1, <1>c, <1>n DEF Created, TypeOK
<1>1. CASE QueueAdd(o)
  <2>1. op' \in [Ops -> Operation]
    BY <1>1, GotoType DEF QueueAdd, Steps
  <2> QED BY <2>1, <1>1 DEF QueueAdd, TypeOK, cronVars
<1>2. CASE ClaimDelete(o)
  <2>1. op' \in [Ops -> Operation]
    BY <1>2, GotoType DEF ClaimDelete, Steps
  <2> QED BY <2>1, <1>2 DEF ClaimDelete, TypeOK, cronVars
<1>3. CASE Unroute(o)
  <2>1. op' \in [Ops -> Operation]
    BY <1>3, GotoType DEF Unroute, Steps
  <2> QED BY <2>1, <1>3 DEF Unroute, TypeOK, cronVars
<1>4. CASE Settle(o)
  <2>1. op' \in [Ops -> Operation]
    BY <1>4, GotoType DEF Settle, Steps
  <2>2. row' \in Row
    BY <1>4, SetRowType DEF Settle, Statuses
  <2> QED BY <2>1, <2>2, <1>4 DEF Settle, TypeOK, cronVars
<1>5. CASE Erase(o)
  <2>1. op' \in [Ops -> Operation]
    BY <1>5, GotoType DEF Erase, Steps
  <2>2. row' \in Row
    BY <1>5 DEF Erase, Row, Statuses
  <2> QED BY <2>1, <2>2, <1>5 DEF Erase, TypeOK, cronVars
<1>6. ASSUME NEW c \in Colors, HaltStop(o, c) PROVE TypeOK'
  <2>1. slot' \in [Colors -> Container \cup {None}] /\ trouble' \in 0..MaxTrouble
    BY <1>6, EffectType, CallType DEF HaltStop
  <2> QED BY <2>1, <1>6 DEF HaltStop, TypeOK, cronVars
<1>7. ASSUME NEW c \in Colors, HaltRemove(o, c) PROVE TypeOK'
  <2>1. slot' \in [Colors -> Container \cup {None}] /\ trouble' \in 0..MaxTrouble
    BY <1>7, EffectType, CallType DEF HaltRemove
  <2>2. op' \in [Ops -> Operation]
    <3>1. \A pc \in Steps : [op[o] EXCEPT !.pc = pc] \in Operation
      BY <1>n DEF Operation
    <3>2. "unroute" \in Steps /\ op[o].pc \in Steps
      BY <1>n DEF Steps, Operation
    <3> QED BY <3>1, <3>2, <1>7 DEF HaltRemove, TypeOK
  <2> QED BY <2>1, <2>2, <1>7 DEF HaltRemove, TypeOK, cronVars
<1>8. CASE ReadColors(o)
  <2>1. CASE row.st = "gone"
    BY <2>1, <1>8, ThrownType DEF ReadColors, TypeOK, cronVars
  <2>2. CASE row.st # "gone"
    <3>1. getCurrentColor \in Colors
      BY <1>0 DEF getCurrentColor, Colors
    <3>2. [op[o] EXCEPT !.cur = getCurrentColor, !.pc = "create"] \in Operation
      BY <3>1, <1>n DEF Operation, Steps
    <3> QED BY <3>2, <2>2, <1>8 DEF ReadColors, TypeOK, cronVars
  <2> QED BY <2>1, <2>2
<1>9. CASE Create(o)
  <2>1. op' \in [Ops -> Operation]
    BY <1>9, GotoType DEF Create, Steps
  <2>2. slot' \in [Colors -> Container \cup {None}]
    BY <1>9, <1>c DEF Create, TypeOK
  <2> QED BY <2>1, <2>2, <1>9 DEF Create, TypeOK, cronVars
<1>10. CASE Inspect(o)
  <2>1. op' \in [Ops -> Operation] /\ row' \in Row
    BY <1>10, <1>0, GotoType, ThrownType DEF Inspect, Steps
  <2> QED BY <2>1, <1>10 DEF Inspect, TypeOK, cronVars
<1>11. CASE EvictStop(o)
  <2>1. slot' \in [Colors -> Container \cup {None}] /\ trouble' \in 0..MaxTrouble
    BY <1>11, <1>n, EffectType, CallType DEF EvictStop
  <2>2. op' \in [Ops -> Operation]
    BY <1>11, GotoType DEF EvictStop, Steps
  <2> QED BY <2>1, <2>2, <1>11 DEF EvictStop, TypeOK, cronVars
<1>12. CASE EvictRemove(o)
  <2>1. slot' \in [Colors -> Container \cup {None}] /\ trouble' \in 0..MaxTrouble
    BY <1>12, <1>n, EffectType, CallType DEF EvictRemove
  <2>2. op' \in [Ops -> Operation]
    BY <1>12, GotoType DEF EvictRemove, Steps
  <2> QED BY <2>1, <2>2, <1>12 DEF EvictRemove, TypeOK, cronVars
<1>13. CASE Recreate(o)
  <2>1. op' \in [Ops -> Operation] /\ row' \in Row
    BY <1>13, <1>0, GotoType, ThrownType DEF Recreate, Steps
  <2>2. slot' \in [Colors -> Container \cup {None}]
    BY <1>13, <1>c DEF Recreate, TypeOK
  <2> QED BY <2>1, <2>2, <1>13 DEF Recreate, TypeOK, cronVars
<1>14. CASE Start(o)
  <2>1. op' \in [Ops -> Operation] /\ row' \in Row
    BY <1>14, <1>0, GotoType, ThrownType DEF Start, Steps
  <2>2. slot' \in [Colors -> Container \cup {None}]
    <3>1. CASE Mine(o) /\ slot' = [slot EXCEPT ![New(o)].h = "starting"]
      <4>1. slot[New(o)] \in Container
        BY <3>1, <1>n DEF Mine, TypeOK
      <4>2. [slot[New(o)] EXCEPT !.h = "starting"] \in Container
        BY <4>1 DEF Container, Health
      <4> QED BY <4>2, <3>1, <1>n DEF TypeOK
    <3>2. CASE UNCHANGED slot
      BY <3>2 DEF TypeOK
    <3> QED BY <3>1, <3>2, <1>14 DEF Start
  <2> QED BY <2>1, <2>2, <1>14 DEF Start, TypeOK, cronVars
<1>15. CASE pollHealthcheck(o)
  <2>1. op' \in [Ops -> Operation]
    BY <1>15, GotoType DEF pollHealthcheck, Steps
  <2> QED BY <2>1, <1>15 DEF pollHealthcheck, TypeOK, cronVars
<1>16. CASE Cleanup(o)
  <2>1. slot' \in [Colors -> Container \cup {None}] /\ trouble' \in 0..MaxTrouble
    BY <1>16, <1>n, EffectType, CallType DEF Cleanup, TypeOK
  <2>2. op' \in [Ops -> Operation] /\ row' \in Row
    BY <1>16, ThrownType DEF Cleanup
  <2> QED BY <2>1, <2>2, <1>16 DEF Cleanup, TypeOK, cronVars
<1>17. CASE Switch(o)
  <2>1. op' \in [Ops -> Operation]
    BY <1>17, GotoType DEF Switch, Steps
  <2> QED BY <2>1, <1>17, <1>n DEF Switch, TypeOK, cronVars
<1>18. CASE Mark(o)
  <2>1. op' \in [Ops -> Operation]
    BY <1>18, GotoType DEF Mark, Steps
  <2>2. row' \in Row
    BY <1>18, <1>n, SetRowType DEF Mark, Statuses
  <2> QED BY <2>1, <2>2, <1>18 DEF Mark, TypeOK, cronVars
<1>19. CASE Drain(o)
  <2>1. op' \in [Ops -> Operation]
    BY <1>19, GotoType DEF Drain, Steps
  <2> QED BY <2>1, <1>19 DEF Drain, TypeOK, cronVars
<1>20. CASE OldStop(o)
  <2>1. slot' \in [Colors -> Container \cup {None}] /\ trouble' \in 0..MaxTrouble
    BY <1>20, <1>n, EffectType, CallType DEF OldStop
  <2>2. op' \in [Ops -> Operation]
    BY <1>20, GotoType DEF OldStop, Steps
  <2> QED BY <2>1, <2>2, <1>20 DEF OldStop, TypeOK, cronVars
<1>21. CASE OldRemove(o)
  <2>1. slot' \in [Colors -> Container \cup {None}] /\ trouble' \in 0..MaxTrouble
    BY <1>21, <1>n, EffectType, CallType DEF OldRemove
  <2>2. op' \in [Ops -> Operation]
    BY <1>21, GotoType DEF OldRemove, Steps
  <2> QED BY <2>1, <2>2, <1>21 DEF OldRemove, TypeOK, cronVars
<1>22. CASE Throw(o)
  <2>1. op' \in [Ops -> Operation] /\ row' \in Row /\ trouble' \in 0..MaxTrouble
    BY <1>22, ThrownType, TroubleType DEF Throw
  <2> QED BY <2>1, <1>22 DEF Throw, TypeOK, cronVars
<1>23. CASE EnqueueFails(o)
  <2>1. op' \in [Ops -> Operation]
    BY <1>23, GotoType DEF EnqueueFails, Steps
  <2>2. row' \in Row
    BY <1>23, <1>0, <1>n, SetRowType DEF EnqueueFails
  <2> QED BY <2>1, <2>2, <1>23 DEF EnqueueFails, TypeOK, cronVars
<1> QED BY <1>1, <1>2, <1>3, <1>4, <1>5, <1>6, <1>7, <1>8, <1>9, <1>10, <1>11,
           <1>12, <1>13, <1>14, <1>15, <1>16, <1>17, <1>18, <1>19, <1>20,
           <1>21, <1>22, <1>23 DEF Work

(* Caddy, the status reconciler, the containers and the process.           *)
LEMMA EnvironmentType ==
    ASSUME TypeOK,
           \/ Caddy \/ Get \/ GraceEnds \/ Crash \/ Boot
           \/ \E c \in Colors : Probe(c) \/ GcOrphans(c)
    PROVE  TypeOK'
<1>0. row \in Row /\ row.st \in Statuses /\ row.cid \in Colors \cup {None}
  BY DEF TypeOK, Row
<1>p. PushTarget \in Colors \cup {None}
  BY <1>0 DEF PushTarget
<1>1. CASE TickRead
  BY <1>1, <1>p DEF TickRead, TypeOK, opVars
<1>2. CASE OtherGet
  BY <1>2 DEF OtherGet, TypeOK, opVars
<1>3. ASSUME NEW r \in Colors \cup {None}, Patch(r) PROVE TypeOK'
  BY <1>3 DEF Patch, TypeOK, opVars
<1>4. CASE CaddyForgets
  BY <1>4, TroubleType DEF CaddyForgets, TypeOK, opVars, cronVars
<1>5. CASE GetRead
  <2>1. get' \in [st : {"keep", "running", "failed"}, cid : Colors \cup {"keep"}]
    BY <1>5, CorrectionType, ChosenType DEF GetRead
  <2> QED BY <2>1, <1>5 DEF GetRead, TypeOK, opVars
<1>6. CASE GetWrite
  <2>1. /\ get.st \in {"keep", "running", "failed"}
        /\ get.cid \in Colors \cup {"keep"}
    BY DEF TypeOK
  <2>2. (IF get.st = "keep" THEN row.st ELSE get.st) \in Statuses
    BY <2>1, <1>0 DEF Statuses
  <2>3. (IF get.cid = "keep" THEN row.cid ELSE get.cid) \in Colors \cup {None}
    BY <2>1, <1>0
  <2>4. row' \in Row
    BY <2>2, <2>3, <1>6, SetRowType DEF GetWrite
  <2> QED BY <2>4, <1>6 DEF GetWrite, NoGet, TypeOK, opVars
<1>7. CASE GraceEnds
  <2>1. row' \in Row
    BY <1>7, <1>0 DEF GraceEnds, Row
  <2> QED BY <2>1, <1>7 DEF GraceEnds, TypeOK, opVars, cronVars
<1>8. ASSUME NEW c \in Colors, Probe(c) PROVE TypeOK'
  <2>1. slot[c] \in Container
    BY <1>8 DEF Probe, TypeOK
  <2>2. \A h \in Health : [slot[c] EXCEPT !.h = h] \in Container
    BY <2>1 DEF Container
  <2>3. slot' \in [Colors -> Container \cup {None}]
    BY <2>2, <1>8 DEF Probe, TypeOK, Health
  <2>4. trouble' \in 0..MaxTrouble
    BY <1>8, TroubleType DEF Probe, TypeOK
  <2> QED BY <2>3, <2>4, <1>8 DEF Probe, TypeOK, opVars, cronVars
<1>9. ASSUME NEW c \in Colors, GcOrphans(c) PROVE TypeOK'
  BY <1>9, EffectType DEF GcOrphans, TypeOK, opVars, cronVars
<1>10. CASE Crash
  <2>1. NoOp("done") \in Operation
    BY DEF NoOp, Operation, Steps, Colors, Statuses
  <2>2. op' \in [Ops -> Operation]
    BY <2>1, <1>10 DEF Crash, TypeOK
  <2>3. togo' \in [Ops -> [Colors -> {"keep", "stop", "remove"}]]
    BY <1>10 DEF Crash, TypeOK
  <2> QED BY <2>2, <2>3, <1>10, TroubleType DEF Crash, TypeOK, NoGet
<1>11. CASE BootIngress
  BY <1>11, <1>p DEF BootIngress, TypeOK, opVars, cronVars
<1>12. CASE BootRecover
  <2>1. ASSUME NEW o \in Ops, restartApp(o) PROVE TypeOK'
    <3>1. /\ op' \in [Ops -> Operation] /\ mixed' \in BOOLEAN
          /\ togo' \in [Ops -> [Colors -> {"keep", "stop", "remove"}]]
      BY <2>1, BeginType DEF restartApp, Steps, Statuses, AllKinds
    <3>2. row' \in Row
      BY <2>1, <1>0, SetRowType DEF restartApp, Statuses
    <3> QED BY <3>1, <3>2, <2>1, <1>12 DEF restartApp, BootRecover, TypeOK, cronVars
  <2>2. CASE UNCHANGED <<row, slot, route, opVars, cronVars, mixed, trouble>>
    BY <2>2, <1>12 DEF BootRecover, TypeOK, opVars, cronVars
  <2> QED BY <2>1, <2>2, <1>12 DEF BootRecover
<1> QED BY <1>1, <1>2, <1>3, <1>4, <1>5, <1>6, <1>7, <1>8, <1>9, <1>10, <1>11,
           <1>12 DEF Caddy, Get, Boot

LEMMA InitType == Init => TypeOK
<1> SUFFICES ASSUME Init PROVE TypeOK
  OBVIOUS
<1>1. row \in Row /\ get \in [st : {"keep", "running", "failed"}, cid : Colors \cup {"keep"}]
  BY DEF Init, Row, Statuses, Colors, NoGet
<1>2. [id |-> Past, h |-> "healthy"] \in Container
  BY DEF Container, Ids, Health
<1>3. slot \in [Colors -> Container \cup {None}]
  BY <1>2 DEF Init
<1>4. NoOp("idle") \in Operation
  BY DEF NoOp, Operation, Steps, Colors, Statuses
<1>5. op \in [Ops -> Operation] /\ togo \in [Ops -> [Colors -> {"keep", "stop", "remove"}]]
  BY <1>4 DEF Init
<1>6. 0 \in 0..MaxTrouble
  BY ConstantsAssumption
<1>7. route \in Colors \cup {None}
  BY DEF Init, Colors
<1> QED BY <1>1, <1>3, <1>5, <1>6, <1>7 DEF Init, TypeOK

LEMMA StepType == TypeOK /\ [Next]_vars => TypeOK'
<1> SUFFICES ASSUME TypeOK, [Next]_vars PROVE TypeOK'
  OBVIOUS
<1>1. CASE UNCHANGED vars
  BY <1>1 DEF vars, opVars, cronVars, TypeOK
<1>2. ASSUME NEW o \in Ops, StartOp(o) PROVE TypeOK'
  BY <1>2, StartType
<1>3. ASSUME NEW o \in Ops, Work(o) \/ Throw(o) \/ EnqueueFails(o) PROVE TypeOK'
  BY <1>3, WorkType
<1>4. ASSUME \/ Caddy \/ Get \/ GraceEnds \/ Crash \/ Boot
             \/ \E c \in Colors : Probe(c) \/ GcOrphans(c)
      PROVE  TypeOK'
  BY <1>4, EnvironmentType
<1> QED BY <1>1, <1>2, <1>3, <1>4 DEF Next

(* Every state of the runner is well typed, whatever calls run side by     *)
(* side: the colour a call works on is always one of the two (the default  *)
(* of getCurrentColor), and what the reconciler writes is a status.        *)
THEOREM TypeCorrect == Spec => []TypeOK
BY InitType, StepType, PTL DEF Spec

-----------------------------------------------------------------------------
(* The invariant of deploys.                                                *)

LEMMA InitCore == Init => Core
<1> SUFFICES ASSUME Init PROVE Core
  OBVIOUS
<1>1. \A o \in Ops : op[o].pc = "idle"
  BY DEF Init, NoOp
<1>2. DeployOnly /\ OneDeploy /\ ColorKnown /\ Checked
  BY <1>1 DEF DeployOnly, OneDeploy, ColorKnown, Checked, Running, Before, After
<1>3. NamedExists
  <2>1. slot["green"] = [id |-> Past, h |-> "healthy"]
    BY DEF Init, Colors
  <2>2. [id |-> Past, h |-> "healthy"] \in Container
    BY DEF Container, Ids, Health
  <2> QED BY <2>1, <2>2, ConstantsAssumption DEF Init, NamedExists, Colors
<1> QED BY <1>2, <1>3 DEF Init, Core, NoGet

(* A step of o that leaves the row's name and the containers alone keeps   *)
(* what the other operations know.                                         *)
LEMMA GotoCore ==
    ASSUME IInv, ~mixed, NEW o \in Ops, Running(o), op[o].pc # "done",
           NEW pc, Goto(o, pc), pc \in {"done"} \cup Before \cup After,
           UNCHANGED mixed, UNCHANGED get,
           row'.cid = row.cid, row'.st # "gone", slot'[row.cid] = slot[row.cid],
           pc \in Before => op[o].pc \in Before,
           pc \in After => New(o) = row.cid,
           pc \in {"switch", "mark"} =>
               Mine(o)' /\ slot'[New(o)].h \in {"healthy", "unhealthy"}
    PROVE  Core'
<1>0. /\ TypeOK /\ DeployOnly /\ OneDeploy /\ ColorKnown /\ Checked
      /\ NamedExists /\ get.cid = "keep"
  BY DEF IInv, Core
<1>1. op[o] \in Operation /\ op[o].kind = "deploy"
  BY <1>0 DEF TypeOK, DeployOnly
<1>2. /\ op'[o].pc = pc
      /\ pc # "done" => op'[o].cur = op[o].cur /\ op'[o].kind = "deploy"
  BY <1>0, <1>1 DEF Goto, NoOp, TypeOK, Operation
<1>3. \A p \in Ops \ {o} : op'[p] = op[p] /\ ~Running(p) /\ op[p].pc \in {"idle", "done"}
  BY <1>0 DEF Goto, TypeOK, OneDeploy, Running
<1>4. pc # "done" => New(o)' = New(o)
  BY <1>2 DEF New
<1>5. DeployOnly'
  BY <1>2, <1>3, <1>0 DEF DeployOnly, Running
<1>6. OneDeploy'
  BY <1>2, <1>3 DEF OneDeploy, Running
<1>7. ColorKnown'
  BY <1>2, <1>3, <1>4, <1>0 DEF ColorKnown, Before, After
<1>8. Checked'
  BY <1>2, <1>3, <1>4 DEF Checked, Mine
<1>9. NamedExists'
  BY <1>0 DEF NamedExists
<1> QED BY <1>0, <1>5, <1>6, <1>7, <1>8, <1>9 DEF Core

(* A deploy that fails leaves the row's container alone.                   *)
LEMMA ThrownCore ==
    ASSUME IInv, ~mixed, NEW o \in Ops, Running(o), Thrown(o),
           UNCHANGED mixed, UNCHANGED get, slot'[row.cid] = slot[row.cid]
    PROVE  Core'
<1>0. TypeOK /\ DeployOnly /\ NamedExists
  BY DEF IInv, Core
<1>1. op[o].kind = "deploy" /\ row \in Row
  BY <1>0 DEF DeployOnly, TypeOK
<1>2. row'.cid = row.cid /\ row'.st # "gone"
  BY <1>0, <1>1 DEF Thrown, SetRow, NamedExists, fallbackStatus, Row
<1>3. Goto(o, "done")
  BY <1>1 DEF Thrown
<1>4. op[o].pc # "done"
  BY DEF Running
<1> QED BY <1>2, <1>3, <1>4, GotoCore DEF Before, After

(* What a stop or a removal leaves at the other name.                      *)
LEMMA CallElsewhere ==
    ASSUME TypeOK, NEW c \in Colors, NEW d \in Colors, c # d,
           Call(Exited(slot, c)) \/ Call(Removed(slot, c)) \/ slot' = slot
    PROVE  slot'[d] = slot[d]
BY DEF Call, Exited, Removed, TypeOK

LEMMA StartCore ==
    ASSUME IInv, NEW o \in Ops, StartOp(o), ~mixed'
    PROVE  Core'
<1>1. Deploy(o) /\ ~mixed /\ mixed' = (mixed \/ "deploy" # "deploy")
  BY DEF StartOp, Deploy, Restart, AutoHeal, Stop, Rollback, Delete, restartApp,
         Begin, IInv, TypeOK
<1>2. /\ TypeOK /\ DeployOnly /\ OneDeploy /\ ColorKnown /\ Checked
      /\ NamedExists /\ get.cid = "keep"
  BY <1>1 DEF IInv, Core
<1>3. \A p \in Ops : op[p].pc \in {"idle", "done"}
  BY <1>1, <1>2 DEF Deploy, DeployOnly, Running
<1>4. /\ \A p \in Ops \ {o} : op'[p] = op[p]
      /\ op'[o].pc = "colors" /\ op'[o].kind = "deploy"
  BY <1>1, <1>2 DEF Deploy, Begin, TypeOK
<1>5. row'.cid = row.cid /\ row'.st # "gone" /\ slot' = slot /\ get' = get
  BY <1>1 DEF Deploy, SetRow, cronVars
<1>6. DeployOnly' /\ OneDeploy'
  BY <1>3, <1>4 DEF DeployOnly, OneDeploy, Running
<1>7. ColorKnown' /\ Checked'
  BY <1>3, <1>4 DEF ColorKnown, Checked, Before, After
<1>8. NamedExists'
  BY <1>2, <1>5 DEF NamedExists
<1> QED BY <1>2, <1>5, <1>6, <1>7, <1>8 DEF Core

LEMMA WorkCore ==
    ASSUME IInv, NEW o \in Ops, ~mixed,
           Work(o) \/ Throw(o) \/ EnqueueFails(o)
    PROVE  Core'
<1>0. /\ TypeOK /\ DeployOnly /\ OneDeploy /\ ColorKnown /\ Checked
      /\ NamedExists /\ get.cid = "keep"
  BY DEF IInv, Core
<1>k. op[o].pc \in {"idle", "done", "colors"} \cup Before \cup After
  BY <1>0 DEF DeployOnly
<1>r. op[o].pc \in {"colors"} \cup Before \cup After
      => Running(o) /\ op[o].kind = "deploy" /\ op[o].pc # "done"
  BY <1>0 DEF DeployOnly, Running, Before, After
<1>n. New(o) \in Colors /\ New(o) # op[o].cur /\ op[o].cur \in Colors
  BY <1>0, NewColor DEF TypeOK, Operation
<1>w. row.cid \in Colors /\ slot[row.cid] # None /\ row.st # "gone" /\ row \in Row
  BY <1>0 DEF NamedExists, TypeOK
<1>b. op[o].pc \in Before => op[o].cur = row.cid /\ New(o) # row.cid
  BY <1>0, <1>n DEF ColorKnown
<1>1. CASE QueueAdd(o) \/ ClaimDelete(o) \/ Unroute(o) \/ Settle(o) \/ Erase(o)
           \/ EnqueueFails(o) \/ \E c \in Colors : HaltStop(o, c) \/ HaltRemove(o, c)
  BY <1>1, <1>k DEF QueueAdd, ClaimDelete, Unroute, Settle, Erase, EnqueueFails,
                    HaltStop, HaltRemove, Before, After
<1>2. CASE ReadColors(o)
  <2>1. /\ op' = [op EXCEPT ![o].cur = getCurrentColor, ![o].pc = "create"]
        /\ op[o].pc = "colors" /\ row' = row /\ slot' = slot /\ get' = get
        /\ mixed' = mixed
    BY <1>2, <1>w DEF ReadColors, cronVars
  <2>2. getCurrentColor = row.cid
    BY <1>w, ConstantsAssumption DEF getCurrentColor
  <2>3. op'[o].cur = row.cid /\ op'[o].pc = "create" /\ op'[o].kind = "deploy"
    BY <2>1, <2>2, <1>0, <1>r DEF TypeOK, Operation
  <2>4. \A p \in Ops \ {o} : op'[p] = op[p] /\ op[p].pc \in {"idle", "done"}
    BY <2>1, <1>0, <1>r DEF TypeOK, OneDeploy, Running
  <2>5. DeployOnly' /\ OneDeploy'
    BY <2>3, <2>4 DEF DeployOnly, OneDeploy, Running, Before
  <2>6. ColorKnown'
    BY <2>1, <2>3, <2>4 DEF ColorKnown, Before, After
  <2>7. Checked' /\ NamedExists'
    BY <2>1, <2>3, <2>4, <1>0 DEF Checked, NamedExists
  <2> QED BY <2>1, <2>5, <2>6, <2>7, <1>0 DEF Core
<1>3. CASE Create(o)
  <2>1. op[o].pc \in Before /\ slot'[row.cid] = slot[row.cid]
    BY <1>3, <1>b, <1>w, <1>0 DEF Create, Created, Before, TypeOK
  <2> QED BY <2>1, <1>3, <1>r, <1>w, GotoCore DEF Create, Before, After, cronVars
<1>4. CASE Inspect(o)
  <2>1. op[o].pc \in Before
    BY <1>4 DEF Inspect, Before
  <2>2. CASE Thrown(o)
    BY <2>1, <2>2, <1>4, <1>r, <1>w, ThrownCore DEF Inspect, cronVars
  <2>3. CASE Goto(o, "evictStop") /\ UNCHANGED row
    BY <2>1, <2>3, <1>4, <1>r, <1>w, GotoCore DEF Inspect, Before, After, cronVars
  <2> QED BY <2>2, <2>3, <1>4 DEF Inspect
<1>5. CASE EvictStop(o)
  <2>1. op[o].pc \in Before
    BY <1>5 DEF EvictStop, Before
  <2>2. slot'[row.cid] = slot[row.cid]
    BY <2>1, <1>5, <1>b, <1>n, <1>w, <1>0, CallElsewhere DEF EvictStop
  <2> QED BY <2>1, <2>2, <1>5, <1>r, <1>w, GotoCore DEF EvictStop, Before, After, cronVars
<1>6. CASE EvictRemove(o)
  <2>1. op[o].pc \in Before
    BY <1>6 DEF EvictRemove, Before
  <2>2. slot'[row.cid] = slot[row.cid]
    BY <2>1, <1>6, <1>b, <1>n, <1>w, <1>0, CallElsewhere DEF EvictRemove
  <2> QED BY <2>1, <2>2, <1>6, <1>r, <1>w, GotoCore DEF EvictRemove, Before, After, cronVars
<1>7. CASE Recreate(o)
  <2>1. op[o].pc \in Before /\ slot'[row.cid] = slot[row.cid]
    BY <1>7, <1>b, <1>w, <1>0 DEF Recreate, Created, Before, TypeOK
  <2>2. CASE Thrown(o)
    BY <2>1, <2>2, <1>7, <1>r, ThrownCore DEF Recreate, cronVars
  <2>3. CASE Goto(o, "start") /\ UNCHANGED row
    BY <2>1, <2>3, <1>7, <1>r, <1>w, GotoCore DEF Recreate, Before, After, cronVars
  <2> QED BY <2>2, <2>3, <1>7 DEF Recreate
<1>8. CASE Start(o)
  <2>1. op[o].pc \in Before /\ slot'[row.cid] = slot[row.cid]
    BY <1>8, <1>b, <1>w, <1>0 DEF Start, Before, TypeOK
  <2>2. CASE Thrown(o)
    BY <2>1, <2>2, <1>8, <1>r, ThrownCore DEF Start, cronVars
  <2>3. CASE /\ Goto(o, IF op[o].kind = "rollback" THEN "switch" ELSE "poll")
             /\ UNCHANGED row
    <3>1. Goto(o, "poll")
      BY <2>1, <2>3, <1>r
    <3> QED BY <2>1, <2>3, <3>1, <1>8, <1>r, <1>w, GotoCore DEF Start, Before, After, cronVars
  <2> QED BY <2>2, <2>3, <1>8 DEF Start
<1>9. CASE pollHealthcheck(o)
  <2>1. op[o].pc \in Before /\ op[o].pc = "poll"
    BY <1>9 DEF pollHealthcheck, Before
  <2>2. CASE Mine(o) /\ slot[New(o)].h = "healthy" /\ Goto(o, "switch")
    <3>1. New(o)' = New(o)
      BY <2>2, <1>0 DEF Goto, New, TypeOK, Operation
    <3>2. Mine(o)' /\ slot'[New(o)].h \in {"healthy", "unhealthy"}
      BY <3>1, <2>2, <1>9 DEF Mine, pollHealthcheck
    <3> QED BY <2>1, <2>2, <3>2, <1>9, <1>r, <1>w, GotoCore
            DEF pollHealthcheck, Before, After, cronVars
  <2>3. CASE Goto(o, "cleanup")
    BY <2>1, <2>3, <1>9, <1>r, <1>w, GotoCore DEF pollHealthcheck, Before, After, cronVars
  <2> QED BY <2>2, <2>3, <1>9 DEF pollHealthcheck
<1>10. CASE Cleanup(o)
  <2>1. op[o].pc \in Before
    BY <1>10 DEF Cleanup, Before
  <2>2. slot'[row.cid] = slot[row.cid]
    BY <2>1, <1>10, <1>b, <1>n, <1>w, <1>0, CallElsewhere DEF Cleanup
  <2> QED BY <2>1, <2>2, <1>10, <1>r, <1>w, ThrownCore DEF Cleanup, cronVars
<1>11. CASE Switch(o)
  <2>1. op[o].pc \in Before /\ op[o].pc = "switch" /\ Goto(o, "mark")
    BY <1>11, <1>r DEF Switch, Before
  <2>2. New(o)' = New(o)
    BY <2>1, <1>0 DEF Goto, New, TypeOK, Operation
  <2>3. Mine(o)' /\ slot'[New(o)].h \in {"healthy", "unhealthy"}
    BY <2>1, <2>2, <1>0, <1>11 DEF Mine, Checked, Switch
  <2> QED BY <2>1, <2>3, <1>11, <1>r, <1>w, GotoCore DEF Switch, Before, After, cronVars
<1>12. CASE Mark(o)
  <2>1. /\ op[o].pc = "mark" /\ Goto(o, "drain") /\ Running(o)
        /\ slot' = slot /\ get' = get /\ mixed' = mixed
    BY <1>12, <1>r DEF Mark, Before, cronVars
  <2>2. slot[New(o)] # None /\ slot[New(o)].h \in {"healthy", "unhealthy"}
    BY <2>1, <1>0 DEF Checked, Mine
  <2>3. row'.cid = New(o) /\ row'.st # "gone"
    BY <1>12, <1>w DEF Mark, SetRow
  <2>4. op'[o].pc = "drain" /\ op'[o].kind = "deploy" /\ New(o)' = New(o)
    BY <2>1, <1>0, <1>r DEF Goto, New, TypeOK, Operation, Before
  <2>5. \A p \in Ops \ {o} : op'[p] = op[p] /\ op[p].pc \in {"idle", "done"}
    BY <2>1, <1>0 DEF Goto, TypeOK, OneDeploy, Running
  <2>6. DeployOnly' /\ OneDeploy'
    BY <2>4, <2>5 DEF DeployOnly, OneDeploy, Running, After
  <2>7. ColorKnown' /\ Checked'
    BY <2>3, <2>4, <2>5 DEF ColorKnown, Checked, Before, After
  <2>8. NamedExists'
    BY <2>1, <2>2, <2>3, <1>n DEF NamedExists
  <2> QED BY <2>1, <2>6, <2>7, <2>8, <1>0 DEF Core
<1>13. CASE Drain(o)
  <2>1. op[o].pc \in After /\ New(o) = row.cid
    BY <1>13, <1>0 DEF Drain, After, ColorKnown
  <2> QED BY <2>1, <1>13, <1>r, <1>w, GotoCore DEF Drain, Before, After, cronVars
<1>14. CASE OldStop(o)
  <2>1. op[o].pc \in After /\ New(o) = row.cid
    BY <1>14, <1>0 DEF OldStop, After, ColorKnown
  <2>2. slot'[row.cid] = slot[row.cid]
    BY <2>1, <1>14, <1>n, <1>0, CallElsewhere DEF OldStop
  <2> QED BY <2>1, <2>2, <1>14, <1>r, <1>w, GotoCore DEF OldStop, Before, After, cronVars
<1>15. CASE OldRemove(o)
  <2>1. op[o].pc \in After /\ New(o) = row.cid /\ Goto(o, "done")
    BY <1>15, <1>0, <1>r DEF OldRemove, After, ColorKnown
  <2>2. slot'[row.cid] = slot[row.cid]
    BY <2>1, <1>15, <1>n, <1>0, CallElsewhere DEF OldRemove
  <2> QED BY <2>1, <2>2, <1>15, <1>r, <1>w, GotoCore DEF OldRemove, Before, After, cronVars
<1>16. CASE Throw(o)
  <2>1. op[o].pc \in {"colors"} \cup Before
    BY <1>16, <1>k DEF Throw, MayThrow, Before, After
  <2> QED BY <2>1, <1>16, <1>r, <1>w, ThrownCore DEF Throw, cronVars
<1> QED BY <1>1, <1>2, <1>3, <1>4, <1>5, <1>6, <1>7, <1>8, <1>9, <1>10, <1>11,
           <1>12, <1>13, <1>14, <1>15, <1>16 DEF Work

(* A step that leaves the operations alone.                                *)
LEMMA QuietCore ==
    ASSUME IInv, ~mixed, UNCHANGED op, row'.cid = row.cid, row'.st # "gone",
           get'.cid = "keep",
           \A c \in Colors : slot[c] # None =>
               /\ slot'[c] # None /\ slot'[c].id = slot[c].id
               /\ slot[c].h \in {"healthy", "unhealthy"}
                  => slot'[c].h \in {"healthy", "unhealthy"}
    PROVE  Core'
<1>0. /\ TypeOK /\ DeployOnly /\ OneDeploy /\ ColorKnown /\ Checked
      /\ NamedExists /\ get.cid = "keep"
  BY DEF IInv, Core
<1>1. \A o \in Ops : New(o)' = New(o) /\ New(o) \in Colors
  BY <1>0, NewColor DEF New
<1>2. DeployOnly' /\ OneDeploy'
  BY <1>0 DEF DeployOnly, OneDeploy, Running
<1>3. ColorKnown'
  BY <1>0, <1>1 DEF ColorKnown
<1>4. Checked'
  BY <1>0, <1>1 DEF Checked, Mine
<1>5. NamedExists'
  BY <1>0 DEF NamedExists
<1> QED BY <1>2, <1>3, <1>4, <1>5 DEF Core

LEMMA EnvironmentCore ==
    ASSUME IInv, ~mixed, ~mixed',
           \/ Caddy \/ Get \/ GraceEnds \/ Crash \/ Boot
           \/ \E c \in Colors : Probe(c) \/ GcOrphans(c)
    PROVE  Core'
<1>0. /\ TypeOK /\ DeployOnly /\ OneDeploy /\ ColorKnown /\ Checked
      /\ NamedExists /\ get.cid = "keep"
  BY DEF IInv, Core
<1>w. row.cid \in Colors /\ slot[row.cid] # None /\ row.st # "gone" /\ row \in Row
  BY <1>0 DEF NamedExists, TypeOK
<1>1. CASE TickRead \/ OtherGet \/ CaddyForgets
           \/ \E r \in Colors \cup {None} : Patch(r)
  BY <1>1, <1>0, <1>w, QuietCore DEF TickRead, OtherGet, Patch, CaddyForgets,
     opVars, cronVars
<1>2. CASE GetRead
  <2>1. Chosen(row.cid, Snapshot) = {row.cid}
    <3>1. Snapshot[row.cid] = slot[row.cid].h
      BY <1>w DEF Snapshot, HealthOf
    <3>2. slot[row.cid].h # "none"
      BY <1>w, <1>0 DEF TypeOK, Container, Health
    <3> QED BY <3>1, <3>2, <1>w, ConstantsAssumption DEF Chosen
  <2>2. get'.cid = "keep"
    BY <2>1, <1>2 DEF GetRead, Correction
  <2> QED BY <2>2, <1>2, <1>w, QuietCore DEF GetRead, opVars
<1>3. CASE GetWrite
  <2>1. row'.cid = row.cid
    BY <1>3, <1>0 DEF GetWrite, SetRow
  <2>2. row'.st # "gone"
    BY <1>3, <1>0, <1>w DEF GetWrite, SetRow, TypeOK
  <2>3. get'.cid = "keep"
    BY <1>3 DEF GetWrite, NoGet
  <2> QED BY <2>1, <2>2, <2>3, <1>3, QuietCore DEF GetWrite, opVars
<1>4. CASE GraceEnds
  BY <1>4, <1>0, <1>w, QuietCore DEF GraceEnds, Row, opVars, cronVars
<1>5. ASSUME NEW c \in Colors, Probe(c) PROVE Core'
  <2>1. \A d \in Colors : slot[d] # None =>
               /\ slot'[d] # None /\ slot'[d].id = slot[d].id
               /\ slot[d].h \in {"healthy", "unhealthy"}
                  => slot'[d].h \in {"healthy", "unhealthy"}
    <3>1. slot[c] \in Container
      BY <1>5, <1>0 DEF Probe, TypeOK
    <3>2. \A h \in Health : [slot[c] EXCEPT !.h = h] \in Container
      BY <3>1 DEF Container
    <3>3. \A h \in Health : [slot[c] EXCEPT !.h = h] # None
      BY <3>2, ConstantsAssumption
    <3> QED BY <1>5, <1>0, <3>1, <3>3 DEF Probe, TypeOK, Container, Health
  <2> QED BY <2>1, <1>5, <1>0, <1>w, QuietCore DEF Probe, opVars, cronVars
<1>6. ASSUME NEW c \in Colors, GcOrphans(c) PROVE Core'
  BY <1>6, <1>w DEF GcOrphans
<1>7. CASE Crash
  <2>1. \A o \in Ops : op'[o].pc \in {"idle", "done"}
    BY <1>7, <1>0 DEF Crash, NoOp, DeployOnly, Before, After
  <2>2. DeployOnly' /\ OneDeploy' /\ ColorKnown' /\ Checked'
    BY <2>1 DEF DeployOnly, OneDeploy, ColorKnown, Checked, Running, Before, After
  <2>3. NamedExists' /\ get'.cid = "keep"
    BY <1>7, <1>0 DEF Crash, NamedExists, NoGet
  <2> QED BY <2>2, <2>3 DEF Core
<1>8. CASE BootIngress
  BY <1>8, <1>0, <1>w, QuietCore DEF BootIngress, opVars, cronVars
<1>9. CASE BootRecover
  <2>1. UNCHANGED <<row, slot, route, opVars, cronVars, mixed, trouble>>
    BY <1>9 DEF BootRecover, restartApp, Begin
  <2> QED BY <2>1, <1>0, <1>w, QuietCore DEF opVars, cronVars
<1> QED BY <1>1, <1>2, <1>3, <1>4, <1>5, <1>6, <1>7, <1>8, <1>9 DEF Caddy, Get, Boot

LEMMA MixedStays ==
    ASSUME TypeOK, mixed, Next
    PROVE  mixed'
<1>1. ASSUME NEW o \in Ops, StartOp(o) PROVE mixed'
  BY <1>1 DEF StartOp, Deploy, Restart, AutoHeal, Stop, Rollback, Delete,
              restartApp, Begin, TypeOK
<1>2. ASSUME NEW o \in Ops, Work(o) \/ Throw(o) \/ EnqueueFails(o) PROVE mixed'
  BY <1>2 DEF Work, QueueAdd, ClaimDelete, Unroute, Settle, Erase, HaltStop,
     HaltRemove, ReadColors, Create, Inspect, EvictStop, EvictRemove, Recreate,
     Start, pollHealthcheck, Cleanup, Switch, Mark, Drain, OldStop, OldRemove,
     Throw, EnqueueFails
<1>3. ASSUME Caddy \/ Get \/ GraceEnds \/ Crash \/ BootIngress PROVE mixed'
  BY <1>3 DEF Caddy, Get, GraceEnds, Crash, BootIngress, TickRead, OtherGet,
              Patch, CaddyForgets, GetRead, GetWrite
<1>4. ASSUME NEW c \in Colors, Probe(c) \/ GcOrphans(c) PROVE mixed'
  BY <1>4 DEF Probe, GcOrphans
<1>5. ASSUME BootRecover PROVE mixed'
  BY <1>5 DEF BootRecover, restartApp, Begin, TypeOK
<1> QED BY <1>1, <1>2, <1>3, <1>4, <1>5 DEF Next, Boot

LEMMA StepInv == IInv /\ [Next]_vars => IInv'
<1> SUFFICES ASSUME IInv, [Next]_vars PROVE IInv'
  OBVIOUS
<1>1. TypeOK'
  BY StepType DEF IInv
<1>2. ASSUME UNCHANGED vars PROVE Core'
  BY <1>2 DEF IInv, Core, vars, opVars, cronVars, DeployOnly, OneDeploy,
     ColorKnown, Checked, NamedExists, Running, Mine, New
<1>3. ASSUME Next, mixed PROVE Core'
  BY <1>3, MixedStays DEF IInv, Core
<1>4. ASSUME Next, mixed' PROVE Core'
  BY <1>4 DEF Core
<1>5. ASSUME Next, ~mixed, ~mixed' PROVE Core'
  BY <1>5, StartCore, WorkCore, EnvironmentCore DEF Next
<1> QED BY <1>1, <1>2, <1>3, <1>4, <1>5 DEF IInv

(* The invariant above holds in every state of the runner.                 *)
THEOREM Invariance == Spec => []IInv
<1>1. Init => IInv
  BY InitType, InitCore DEF IInv
<1> QED BY <1>1, StepInv, PTL DEF Spec

(* However many deploys follow one another, and whatever fails, dies or is *)
(* read late, the row of an application that is only deployed names a      *)
(* container that passed its health check and has not been stopped since.  *)
THEOREM RowIsServed == Spec => []RowServed
<1>1. IInv => RowServed
  BY ConstantsAssumption DEF IInv, Core, NamedExists, RowServed, Served
<1> QED BY <1>1, Invariance, PTL

=============================================================================
