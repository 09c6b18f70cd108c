-------------------------- MODULE ContainerRunner --------------------------
(***************************************************************************)
(* The containers of one application of the Docker runtime, and everything *)
(* that starts, stops and routes to them: the blue-green runner            *)
(* (worker/runner.ts) as the deploy handler, a restart, a rollback, a stop *)
(* and a deletion use it, the auto-heal cron and the boot recovery that    *)
(* call a restart, the cron that pushes routes to Caddy, the status        *)
(* reconciler behind GET /apps, and the other applications whose routes    *)
(* live in the same list of Caddy.                                         *)
(*                                                                         *)
(* Deploys of one application are serialised by withAppDeployLock (module  *)
(* KeyedLock).  Nothing else takes that lock.  A container's name is       *)
(* determined by its colour, so a name is reused; its Docker id is that of *)
(* the operation that created it.                                          *)
(***************************************************************************)
EXTENDS Naturals, FiniteSets

CONSTANTS
    Ops,          \* operations; each is used for one call
    Kinds,        \* what the calls may be
    None,
    MaxTrouble    \* a bound: deaths of the process, failing calls, restarts
                  \* of Caddy and containers that fall ill, taken together

Colors == {"blue", "green"}
AllKinds == {"deploy", "restart", "stop", "rollback", "delete"}
Past == "past"
Ids == Ops \cup {Past}
Health == {"created", "starting", "healthy", "unhealthy", "exited"}
Container == [id : Ids, h : Health]

ASSUME ConstantsAssumption ==
    /\ None \notin Colors \cup Ops \cup {Past} \cup Container
    /\ Past \notin Ops
    /\ Kinds \subseteq AllKinds
    /\ MaxTrouble \in Nat

VARIABLES
    row,      \* the apps row: status, container_id (a colour or None), and
              \* whether updated_at is within the reconciler's grace window
    slot,     \* slot[c]: the container that has the name of colour c
    route,    \* the upstream of the application in Caddy
    op,       \* op[o]: how far operation o is
    togo,     \* togo[o]: the colours whose removal o still owes, and how far
    push,     \* the routes that upserts under way will write as ours
    get,      \* what a GET request that reconciles the row will write
    up,       \* the process: up, down, or booting
    mixed,    \* an operation that is no deploy has started
    trouble   \* how much went wrong

opVars    == <<op, togo>>
cronVars  == <<push, get>>
vars == <<row, slot, route, opVars, cronVars, up, mixed, trouble>>

-----------------------------------------------------------------------------
(* Types.                                                                   *)

Statuses == {"running", "building", "restarting", "stopped", "failed",
             "deleting", "gone"}
Steps == {"idle", "enqueue", "claim", "halt", "unroute", "settle", "erase",
          "colors", "create", "inspect", "evictStop", "evictRemove",
          "recreate", "start", "poll", "cleanup", "switch", "mark", "drain",
          "oldStop", "oldRemove", "done"}
Row       == [st : Statuses, cid : Colors \cup {None}, fresh : BOOLEAN]
Operation == [kind : AllKinds \cup {"none"}, pc : Steps, cur : Colors,
              seen : Statuses]
NoGet     == [st |-> "keep", cid |-> "keep"]

TypeOK ==
    /\ row \in Row
    /\ slot \in [Colors -> Container \cup {None}]
    /\ route \in Colors \cup {None}
    /\ op \in [Ops -> Operation]
    /\ togo \in [Ops -> [Colors -> {"keep", "stop", "remove"}]]
    /\ push \subseteq Colors \cup {None}
    /\ get \in [st : {"keep", "running", "failed"}, cid : Colors \cup {"keep"}]
    /\ up \in {"up", "down", "recover"}
    /\ mixed \in BOOLEAN
    /\ trouble \in 0..MaxTrouble

-----------------------------------------------------------------------------
(* Helpers.                                                                 *)

oppositeColor(c) == IF c = "blue" THEN "green" ELSE "blue"

Running(o) == op[o].pc \notin {"idle", "done"}
Quiet      == \A o \in Ops : ~Running(o)

(* An operation that has ended keeps nothing.                              *)
NoOp(pc) == [kind |-> "none", pc |-> pc, cur |-> "green", seen |-> "running"]
Goto(o, pc) ==
    op' = [op EXCEPT ![o] = IF pc = "done" THEN NoOp(pc)
                            ELSE [@ EXCEPT !.pc = pc]]

(* `update apps set ... where id = appId` changes nothing once the row is  *)
(* deleted.                                                                *)
SetRow(st, cid) ==
    row' = IF row.st = "gone" THEN row ELSE [st |-> st, cid |-> cid, fresh |-> TRUE]

(* A container that the agent reports as running, starting or unhealthy.   *)
LiveHealth == {"starting", "healthy", "unhealthy"}
Live(c) == c # None /\ slot[c] # None /\ slot[c].h \in LiveHealth
Served(c) == c # None /\ slot[c] # None

(* The colour that o deploys to, and whether its container is still there. *)
New(o) == oppositeColor(op[o].cur)
Mine(o) == slot[New(o)] # None /\ slot[New(o)].id = o

HealthOf(c) == IF slot[c] = None THEN "none" ELSE slot[c].h

Trouble == trouble < MaxTrouble /\ trouble' = trouble + 1

-----------------------------------------------------------------------------
(* Starting an operation.                                                   *)

Begin(o, kind, pc, seen, owes) ==
    /\ op[o].pc = "idle"
    /\ up # "down"
    /\ op' = [op EXCEPT ![o] = [kind |-> kind, pc |-> pc, cur |-> "green",
                                seen |-> seen]]
    /\ togo' = [togo EXCEPT ![o] = [c \in Colors |-> owes]]
    /\ mixed' = (mixed \/ kind # "deploy")

(* handleDeploy, under the lock: read the row, mark it building.           *)
Deploy(o) ==
    /\ "deploy" \in Kinds
    /\ \A p \in Ops : op[p].kind = "deploy" => ~Running(p)
    /\ row.st # "gone"
    /\ Begin(o, "deploy", "colors", row.st, "keep")
    /\ SetRow("building", row.cid)
    /\ UNCHANGED <<slot, route, cronVars, up, trouble>>

(* The prelude of restartApp: the row says restarting.                     *)
restartApp(o) ==
    /\ Begin(o, "restart", "halt", "running", "stop")
    /\ SetRow("restarting", row.cid)
    /\ UNCHANGED <<slot, route, cronVars, trouble>>

Restart(o) ==
    /\ "restart" \in Kinds
    /\ row.st # "gone"
    /\ restartApp(o)
    /\ UNCHANGED up

(* runAutoHealOnce: a restart when the container that the row names, or    *)
(* the best one of the application, is unhealthy.  The tick runs one at a  *)
(* time; the lock in Redis and the budget only restrict it further.        *)
rank(h) == CASE h = "healthy" -> 4 [] h = "unhealthy" -> 3
             [] h = "starting" -> 2 [] h = "exited" -> 1 [] OTHER -> 0

Best(snap) ==
    {c \in Colors : snap[c] # "none"
                    /\ \A d \in Colors : snap[d] # "none"
                                         => rank(snap[d]) <= rank(snap[c])}

Chosen(cid, snap) ==
    IF cid # None /\ snap[cid] # "none" THEN {cid} ELSE Best(snap)

Snapshot == [c \in Colors |-> HealthOf(c)]

AutoHeal(o) ==
    /\ "restart" \in Kinds
    /\ up = "up"
    /\ row.st \in {"running", "restarting"}
    /\ \E c \in Chosen(row.cid, Snapshot) : HealthOf(c) = "unhealthy"
    /\ restartApp(o)
    /\ UNCHANGED up

Stop(o) ==
    /\ "stop" \in Kinds
    /\ row.st # "gone"
    /\ Begin(o, "stop", "halt", "running", "stop")
    /\ UNCHANGED <<row, slot, route, cronVars, up, trouble>>

Rollback(o) ==
    /\ "rollback" \in Kinds
    /\ row.st # "gone"
    /\ Begin(o, "rollback", "colors", "running", "keep")
    /\ UNCHANGED <<row, slot, route, cronVars, up, trouble>>

(* DELETE /apps/:id: the row says deleting and the job row is pending.     *)
Delete(o) ==
    /\ "delete" \in Kinds
    /\ row.st # "gone"
    /\ Begin(o, "delete", "enqueue", row.st, "stop")
    /\ SetRow("deleting", row.cid)
    /\ UNCHANGED <<slot, route, cronVars, up, trouble>>

(* queue.add; when it fails the job row goes, and the status that the      *)
(* request read comes back.                                                *)
QueueAdd(o) ==
    /\ op[o].pc = "enqueue"
    /\ Goto(o, "claim")
    /\ UNCHANGED <<row, slot, route, togo, cronVars, up, mixed, trouble>>

EnqueueFails(o) ==
    /\ op[o].pc = "enqueue"
    /\ Goto(o, "done")
    /\ SetRow(op[o].seen, row.cid)
    /\ UNCHANGED <<slot, route, togo, cronVars, up, mixed, trouble>>

(* The worker claims the job row; it is no longer pending.                 *)
ClaimDelete(o) ==
    /\ op[o].pc = "claim"
    /\ Goto(o, "halt")
    /\ UNCHANGED <<row, slot, route, togo, cronVars, up, mixed, trouble>>

-----------------------------------------------------------------------------
(* stopContainer: a stop and a forced removal, both by name; either error  *)
(* is logged and swallowed.                                                *)

Exited(s, c) ==
    [s EXCEPT ![c] = IF @ = None \/ @.h = "created" THEN @
                     ELSE [@ EXCEPT !.h = "exited"]]
Removed(s, c) == [s EXCEPT ![c] = None]

(* One gRPC call on the container of colour c, which may fail.             *)
Call(effect) ==
    \/ slot' = effect /\ UNCHANGED trouble
    \/ Trouble /\ slot' = slot

(* Both colours, side by side: Promise.allSettled.                         *)
HaltStop(o, c) ==
    /\ op[o].pc = "halt" /\ togo[o][c] = "stop"
    /\ Call(Exited(slot, c))
    /\ togo' = [togo EXCEPT ![o][c] = "remove"]
    /\ UNCHANGED <<row, route, op, cronVars, up, mixed>>

HaltRemove(o, c) ==
    /\ op[o].pc = "halt" /\ togo[o][c] = "remove"
    /\ Call(Removed(slot, c))
    /\ togo' = [togo EXCEPT ![o][c] = "keep"]
    /\ op' = [op EXCEPT ![o].pc =
                IF \A d \in Colors \ {c} : togo[o][d] = "keep"
                THEN "unroute" ELSE @]
    /\ UNCHANGED <<row, route, cronVars, up, mixed>>

(* removeUpstream.                                                         *)
Unroute(o) ==
    /\ op[o].pc = "unroute"
    /\ route' = None
    /\ Goto(o, IF op[o].kind = "restart" THEN "colors" ELSE "settle")
    /\ UNCHANGED <<row, slot, togo, cronVars, up, mixed, trouble>>

(* The last write of stopApp, and what follows it in handleDeleteApp.      *)
Settle(o) ==
    /\ op[o].pc = "settle"
    /\ SetRow("stopped", None)
    /\ Goto(o, IF op[o].kind = "delete" THEN "erase" ELSE "done")
    /\ UNCHANGED <<slot, route, togo, cronVars, up, mixed, trouble>>

Erase(o) ==
    /\ op[o].pc = "erase"
    /\ row' = [st |-> "gone", cid |-> None, fresh |-> TRUE]
    /\ Goto(o, "done")
    /\ UNCHANGED <<slot, route, togo, cronVars, up, mixed, trouble>>

-----------------------------------------------------------------------------
(* runBlueGreen and rollbackApp.                                            *)

(* What an escaping error leaves: the deploy handler writes a status that  *)
(* depends on the one it read; the deletion goes on; the others write      *)
(* nothing.                                                                *)
fallbackStatus(seen) == IF seen = "running" THEN "running" ELSE "failed"

Thrown(o) ==
    /\ IF op[o].kind = "deploy"
       THEN SetRow(fallbackStatus(op[o].seen), row.cid)
       ELSE UNCHANGED row
    /\ Goto(o, IF op[o].kind = "delete" /\ op[o].pc \in {"unroute", "settle"}
               THEN "erase" ELSE "done")

MayThrow == {"unroute", "settle", "erase", "colors", "create", "inspect",
             "recreate", "start", "switch", "mark"}

Throw(o) ==
    /\ op[o].pc \in MayThrow
    /\ Trouble
    /\ Thrown(o)
    /\ UNCHANGED <<slot, route, togo, cronVars, up, mixed>>

(* getCurrentColor: the colour of container_id; an unknown one counts as   *)
(* green.  The build rows hold Docker ids, which name no colour.           *)
getCurrentColor == IF row.cid = None THEN "green" ELSE row.cid

ReadColors(o) ==
    /\ op[o].pc = "colors"
    /\ IF row.st = "gone"
       THEN Thrown(o)
       ELSE /\ op' = [op EXCEPT ![o].cur = getCurrentColor,
                                ![o].pc = "create"]
            /\ UNCHANGED row
    /\ UNCHANGED <<slot, route, togo, cronVars, up, mixed, trouble>>

Created(o) == slot' = [slot EXCEPT ![New(o)] = [id |-> o, h |-> "created"]]

Create(o) ==
    /\ op[o].pc = "create"
    /\ \/ /\ slot[New(o)] = None
          /\ Created(o)
          /\ Goto(o, "start")
       \/ /\ slot[New(o)] # None
          /\ Goto(o, "inspect")
          /\ UNCHANGED slot
    /\ UNCHANGED <<row, route, togo, cronVars, up, mixed, trouble>>

(* The name is taken: a container that Caddy routes to is left alone, any  *)
(* other is taken for a leftover.                                          *)
Inspect(o) ==
    /\ op[o].pc = "inspect"
    /\ \/ route = New(o) /\ Thrown(o)
       \/ route # New(o) /\ Goto(o, "evictStop") /\ UNCHANGED row
    /\ UNCHANGED <<slot, route, togo, cronVars, up, mixed, trouble>>

EvictStop(o) ==
    /\ op[o].pc = "evictStop"
    /\ Call(Exited(slot, New(o)))
    /\ Goto(o, "evictRemove")
    /\ UNCHANGED <<row, route, togo, cronVars, up, mixed>>

EvictRemove(o) ==
    /\ op[o].pc = "evictRemove"
    /\ Call(Removed(slot, New(o)))
    /\ Goto(o, "recreate")
    /\ UNCHANGED <<row, route, togo, cronVars, up, mixed>>

Recreate(o) ==
    /\ op[o].pc = "recreate"
    /\ \/ /\ slot[New(o)] = None
          /\ Created(o)
          /\ Goto(o, "start")
          /\ UNCHANGED row
       \/ /\ slot[New(o)] # None
          /\ Thrown(o)
          /\ UNCHANGED slot
    /\ UNCHANGED <<route, togo, cronVars, up, mixed, trouble>>

(* containerStart by id.  A rollback routes at once; the others wait.      *)
Start(o) ==
    /\ op[o].pc = "start"
    /\ \/ /\ Mine(o)
          /\ slot' = [slot EXCEPT ![New(o)].h = "starting"]
          /\ Goto(o, IF op[o].kind = "rollback" THEN "switch" ELSE "poll")
          /\ UNCHANGED row
       \/ /\ ~Mine(o)
          /\ Thrown(o)
          /\ UNCHANGED slot
    /\ UNCHANGED <<route, togo, cronVars, up, mixed, trouble>>

(* pollHealthcheck by id: healthy, or the retries ran out, or the          *)
(* container is gone.                                                      *)
pollHealthcheck(o) ==
    /\ op[o].pc = "poll"
    /\ \/ Mine(o) /\ slot[New(o)].h = "healthy" /\ Goto(o, "switch")
       \/ (Mine(o) => slot[New(o)].h # "healthy") /\ Goto(o, "cleanup")
    /\ UNCHANGED <<row, slot, route, togo, cronVars, up, mixed, trouble>>

(* Not healthy: stopContainer by id, then DeployFailedError.               *)
Cleanup(o) ==
    /\ op[o].pc = "cleanup"
    /\ IF Mine(o) THEN Call(Removed(slot, New(o)))
       ELSE UNCHANGED <<slot, trouble>>
    /\ Thrown(o)
    /\ UNCHANGED <<route, togo, cronVars, up, mixed>>

(* A mutant: a deploy swaps directly, as a rollback does.                  *)
SwapDirectly(o) ==
    /\ op[o].pc = "switch"
    /\ route' = New(o)
    /\ Goto(o, "oldStop")
    /\ UNCHANGED <<row, slot, togo, cronVars, up, mixed, trouble>>

(* setUpstream, by name.                                                   *)
Switch(o) ==
    /\ op[o].pc = "switch"
    /\ route' = New(o)
    /\ Goto(o, IF op[o].kind = "rollback" THEN "oldStop" ELSE "mark")
    /\ UNCHANGED <<row, slot, togo, cronVars, up, mixed, trouble>>

Mark(o) ==
    /\ op[o].pc = "mark"
    /\ SetRow("running", New(o))
    /\ Goto(o, IF op[o].kind = "rollback" THEN "done" ELSE "drain")
    /\ UNCHANGED <<slot, route, togo, cronVars, up, mixed, trouble>>

(* The grace period.  It lasts 30 s; a GET that was under way when it      *)
(* began has ended when it ends.                                           *)
Drain(o) ==
    /\ op[o].pc = "drain"
    /\ get = NoGet
    /\ Goto(o, "oldStop")
    /\ UNCHANGED <<row, slot, route, togo, cronVars, up, mixed, trouble>>

OldStop(o) ==
    /\ op[o].pc = "oldStop"
    /\ Call(Exited(slot, op[o].cur))
    /\ Goto(o, "oldRemove")
    /\ UNCHANGED <<row, route, togo, cronVars, up, mixed>>

OldRemove(o) ==
    /\ op[o].pc = "oldRemove"
    /\ Call(Removed(slot, op[o].cur))
    /\ Goto(o, IF op[o].kind = "rollback" THEN "mark" ELSE "done")
    /\ UNCHANGED <<row, route, togo, cronVars, up, mixed>>

-----------------------------------------------------------------------------
(* Caddy.  setUpstream reads the list of all routes and writes a whole     *)
(* list back (putRouteFirst), so an upsert of another application or of a  *)
(* service writes our route too, as it was when it read the list.  The     *)
(* cron pushes the route of every application whose row says running or    *)
(* restarting, and in the same pass those of the services, side by side.   *)
(* Nothing keeps upserts apart: any number of them may be under way.  Two  *)
(* that will write the same route count once, because a reader that comes  *)
(* right after the first write reads that route again.                     *)

PushTarget == IF row.st \in {"running", "restarting"} THEN row.cid ELSE None

(* A mutant: routes are pushed only when the process boots.                *)
TickAtBoot ==
    /\ up = "recover"
    /\ PushTarget # None
    /\ push' = push \cup {PushTarget}
    /\ UNCHANGED <<row, slot, route, opVars, get, up, mixed, trouble>>

(* reconcileIngressOnce has read the rows, and pushes ours.                *)
TickRead ==
    /\ up # "down"
    /\ PushTarget # None
    /\ push' = push \cup {PushTarget}
    /\ UNCHANGED <<row, slot, route, opVars, get, up, mixed, trouble>>

(* Another upsert has read the list.                                       *)
OtherGet ==
    /\ up # "down"
    /\ push' = push \cup {route}
    /\ UNCHANGED <<row, slot, route, opVars, get, up, mixed, trouble>>

Patch(r) ==
    /\ r \in push
    /\ route' = r
    /\ push' = push \ {r}
    /\ UNCHANGED <<row, slot, opVars, get, up, mixed, trouble>>

(* Caddy is restarted or recreated and forgets its routes.                 *)
CaddyForgets ==
    /\ Trouble
    /\ route' = None
    /\ UNCHANGED <<row, slot, opVars, cronVars, up, mixed>>

-----------------------------------------------------------------------------
(* GET /apps/:id: reconcileAppStatus compares the row with the containers, *)
(* then writes container_id and status, whatever the row holds by then.    *)

(* A container that lives makes a settled status running; a dead one makes *)
(* a running one failed, and so does a missing one after the grace window. *)
deriveLiveStatus(st, h, fresh) ==
    CASE st \notin {"running", "stopped", "failed"} -> st
      [] h \in LiveHealth -> "running"
      [] st = "running" /\ ~(h = "none" /\ fresh) -> "failed"
      [] OTHER -> st

(* The columns to write, "keep" for one that is left alone.                  *)
Correction(c, h) ==
    LET st == deriveLiveStatus(row.st, h, row.fresh)
    IN  [st  |-> IF st = row.st THEN "keep" ELSE st,
         cid |-> IF c = row.cid THEN "keep" ELSE c]

GetRead ==
    /\ up # "down"
    /\ get = NoGet /\ row.st # "gone"
    /\ \/ \E c \in Chosen(row.cid, Snapshot) :
             get' = Correction(c, HealthOf(c))
       \/ /\ Chosen(row.cid, Snapshot) = {}
          /\ get' = Correction(row.cid, "none")
    /\ UNCHANGED <<row, slot, route, opVars, push, up, mixed, trouble>>

GetWrite ==
    /\ get # NoGet
    /\ SetRow(IF get.st = "keep" THEN row.st ELSE get.st,
              IF get.cid = "keep" THEN row.cid ELSE get.cid)
    /\ get' = NoGet
    /\ UNCHANGED <<slot, route, opVars, push, up, mixed, trouble>>

(* Sixty seconds after the last write of the row.                          *)
GraceEnds ==
    /\ row.fresh
    /\ row' = [row EXCEPT !.fresh = FALSE]
    /\ UNCHANGED <<slot, route, opVars, cronVars, up, mixed, trouble>>

-----------------------------------------------------------------------------
(* The containers themselves, the process, and its boot.                    *)

(* Docker's health probe.                                                  *)
Probe(c) ==
    /\ slot[c] # None
    /\ \/ /\ slot[c].h = "starting"
          /\ \E h \in {"healthy", "unhealthy"} :
                slot' = [slot EXCEPT ![c].h = h]
          /\ UNCHANGED trouble
       \/ /\ slot[c].h = "healthy"
          /\ Trouble
          /\ slot' = [slot EXCEPT ![c].h = "unhealthy"]
    /\ UNCHANGED <<row, route, opVars, cronVars, up, mixed>>

(* A mutant: only containers in the state running are looked at.           *)
GcHealthy(c) ==
    /\ up # "down" /\ Quiet
    /\ row.st = "gone"
    /\ HealthOf(c) = "healthy"
    /\ slot' = Removed(slot, c)
    /\ UNCHANGED <<row, route, opVars, cronVars, up, mixed, trouble>>

(* runOrphanContainerGc: a container that has been up for a day, and whose *)
(* application has no row, is removed by id.  A day outlasts every call;   *)
(* the agent reports no uptime for a container that is not running.        *)
GcOrphans(c) ==
    /\ up # "down" /\ Quiet
    /\ row.st = "gone"
    /\ HealthOf(c) \in {"healthy", "unhealthy"}
    /\ slot' = Removed(slot, c)
    /\ UNCHANGED <<row, route, opVars, cronVars, up, mixed, trouble>>

(* The API and its worker are one process.                                 *)
Crash ==
    /\ up # "down"
    /\ Trouble
    /\ up' = "down"
    /\ op' = [o \in Ops |-> IF op[o].pc \in {"idle", "claim"} THEN op[o]
                            ELSE NoOp("done")]
    /\ push' = {} /\ get' = NoGet
    /\ togo' = [o \in Ops |-> IF op[o].pc = "claim" THEN togo[o]
                              ELSE [c \in Colors |-> "keep"]]
    /\ UNCHANGED <<row, slot, route, mixed>>

(* bootInfra: push the routes, then recover what should run and does not.  *)
BootIngress ==
    /\ up = "down"
    /\ up' = "recover"
    /\ route' = IF PushTarget # None THEN PushTarget ELSE route
    /\ UNCHANGED <<row, slot, opVars, cronVars, mixed, trouble>>

hasLiveRuntime == \E c \in Chosen(row.cid, Snapshot) : HealthOf(c) \in LiveHealth

BootRecover ==
    /\ up = "recover"
    /\ up' = "up"
    /\ IF row.st \in {"running", "restarting"} /\ ~hasLiveRuntime
       THEN \E o \in Ops : restartApp(o)
       ELSE UNCHANGED <<row, slot, route, opVars, cronVars, mixed, trouble>>

-----------------------------------------------------------------------------
(* The specification.  The application runs on green.                       *)

Init ==
    /\ row = [st |-> "running", cid |-> "green", fresh |-> FALSE]
    /\ slot = [c \in Colors |->
                 IF c = "green" THEN [id |-> Past, h |-> "healthy"]
                 ELSE None]
    /\ route = "green"
    /\ op = [o \in Ops |-> NoOp("idle")]
    /\ togo = [o \in Ops |-> [c \in Colors |-> "keep"]]
    /\ push = {} /\ get = NoGet
    /\ up = "up" /\ mixed = FALSE
    /\ trouble = 0

StartOp(o) ==
    \/ Deploy(o) \/ Restart(o) \/ AutoHeal(o) \/ Stop(o) \/ Rollback(o)
    \/ Delete(o)

(* What o does by itself once it runs.                                     *)
Work(o) ==
    \/ QueueAdd(o) \/ ClaimDelete(o) \/ Unroute(o) \/ Settle(o) \/ Erase(o)
    \/ \E c \in Colors : HaltStop(o, c) \/ HaltRemove(o, c)
    \/ ReadColors(o) \/ Create(o) \/ Inspect(o) \/ EvictStop(o)
    \/ EvictRemove(o) \/ Recreate(o) \/ Start(o) \/ pollHealthcheck(o)
    \/ Cleanup(o) \/ Switch(o) \/ Mark(o) \/ Drain(o) \/ OldStop(o)
    \/ OldRemove(o)

Caddy == TickRead \/ OtherGet \/ CaddyForgets \/ \E r \in Colors \cup {None} : Patch(r)
Get == GetRead \/ GetWrite
Boot == BootIngress \/ BootRecover

Next ==
    \/ \E o \in Ops : StartOp(o) \/ (up # "down" /\ Work(o))
                      \/ Throw(o) \/ EnqueueFails(o)
    \/ Caddy \/ Get \/ GraceEnds
    \/ \E c \in Colors : Probe(c) \/ GcOrphans(c)
    \/ Crash \/ Boot

Spec == Init /\ [][Next]_vars

(* Calls go on by themselves; the crons tick every 30 and 60 s, and a push *)
(* of the cron reaches Caddy, in whatever order with other upserts;        *)
(* requests for the status keep coming; Docker probes; the collector runs; *)
(* a process that died boots.                                              *)
Fairness ==
    /\ WF_vars(Boot \/ (up # "down" /\ \E o \in Ops : Work(o)))
    /\ WF_vars(TickRead) /\ WF_vars(Patch(PushTarget))
    /\ WF_vars(Get \/ GraceEnds)
    /\ WF_vars(\E c \in Colors : Probe(c) \/ GcOrphans(c))

FairSpec == Spec /\ Fairness

-----------------------------------------------------------------------------
(* Properties.                                                              *)

(* While an application is only deployed, and whatever fails, dies or is   *)
(* read late meanwhile, the container that its row names exists, was seen  *)
(* healthy once and has not been stopped: the old one is stopped only      *)
(* after the row names the new one, and the row names the new one only     *)
(* after its health check.  A restart, a stop and a rollback do not        *)
(* promise this.                                                           *)
RowServed ==
    ~mixed => /\ Served(row.cid)
              /\ slot[row.cid].h \in {"healthy", "unhealthy"}

(* Once calls cease, the row, the containers and Caddy come to agree: an   *)
(* application that is said to run has a live container under the name in  *)
(* its row, for good, and Caddy routes to it again and again, whatever     *)
(* other upserts write over it.  (An upsert that read the list before the  *)
(* cron healed the route, and writes it after, undoes it until the next    *)
(* tick, so for good only once none of them overlaps.)  The route cron,    *)
(* the status reconciler and the boot make it so after races of two calls, *)
(* late pushes of a route, a crash or a restart of Caddy.                  *)
Converges ==
    LET Said == up = "up" /\ row.st = "running"
    IN  <>[](Said => Live(row.cid)) /\ []<>(Said => route = row.cid)

(* A deleted application ends up without a running container, also when a  *)
(* deploy was under way and started one after the deletion had stopped     *)
(* both colours: the collector of orphans removes it.                      *)
Forgotten == row.st = "gone" ~> \A c \in Colors : ~Live(c)

=============================================================================
