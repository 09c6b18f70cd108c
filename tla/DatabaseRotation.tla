-------------------------- MODULE DatabaseRotation --------------------------
(***************************************************************************)
(* Rotating the password of one managed database: rotatePassword and       *)
(* rollbackRotation, called by POST /databases/:id/rotate and by an hourly *)
(* timer, beside users who deploy, link and unlink applications.           *)
(*                                                                         *)
(* A login is a user name and a password.  A user name is the number of    *)
(* "_new" suffixes of the first one; for Redis it is 0 for the first user  *)
(* and 1 for "default_new".  A password is the number of its generation.   *)
(***************************************************************************)
EXTENDS Naturals, FiniteSets

CONSTANTS
    Apps,         \* applications of the database's project
    Linked,       \* those that are linked to it at first
    Rotators,     \* concurrent calls of rotatePassword
    Kind,         \* databases.kind
    MaxRotations, \* bound on the passwords generated
    MaxRequests,  \* bound on the deploys, links and unlinks that users ask for
    MaxFaults     \* bound on crashes and on failures to release the lock

ASSUME RotationAssumption ==
    /\ Linked \subseteq Apps
    /\ Kind \in {"postgres", "mongo", "redis"}
    /\ MaxRotations \in Nat
    /\ MaxRequests \in Nat
    /\ MaxFaults \in Nat

VARIABLES
    accounts, \* the logins that the database accepts
    row,      \* connection string and master password in `databases`
    locked,   \* databases.rotation_in_progress
    links,    \* applications with a row in app_db_links
    secret,   \* the logins in the linked secrets of an application
    env,      \* the logins in the environment of its running container
    astatus,  \* apps.status; an "orphan" is building and its deploy died
    held,     \* the logins that a deploy in flight has read
    linking,  \* the login that a link request in flight has read, as a set
    jobs,     \* redeploy jobs in the deploy queue
    requests, \* deploys, links and unlinks asked for so far
    pc, old, new, ids, \* local variables of the calls: ids are linkedAppIds,
    todo, cur, \* ... links left in the loop, and the one at work, as a set
    serial,   \* passwords generated so far
    faults,   \* crashes and lost releases so far
    touched,  \* applications without a link at first, or that users link or unlink
    blind,    \* history: logins counted as created although no exec confirmed it
    crossed,  \* history: a call went past its CREATE USER while another was past its
              \* own, or over a row that was written since it had read it
    torn      \* history: applications whose secrets were deleted by a call that an
              \* error or a crash stopped before it inserted them again

dbVars == <<accounts, row, locked, links, secret>>
appVars == <<env, astatus, held, linking, jobs, requests>>
callVars == <<pc, old, new, ids, todo, cur, serial>>
histVars == <<blind, crossed, torn>>
vars == <<dbVars, appVars, callVars, faults, touched, histVars>>

Logins == [user : Nat, pw : Nat]
First == [user |-> 0, pw |-> 0]
Users(S) == {c.user : c \in S}

\* Calls that hold the lock, or believe so.
Rotating == {"add", "write", "links", "swap", "insert", "poll", "drop", "done",
             "undo", "undoLinks", "undoSwap", "undoInsert", "undoDrop", "unlock", "release"}

DbOK ==
    /\ accounts \subseteq Logins
    /\ row \in Logins
    /\ locked \in BOOLEAN
    /\ links \subseteq Apps
    /\ secret \in [Apps -> SUBSET Logins]

AppsOK ==
    /\ env \in [Apps -> SUBSET Logins]
    /\ astatus \in [Apps -> {"running", "building", "orphan", "failed"}]
    /\ held \in [Apps -> SUBSET Logins]
    /\ linking \in [Apps -> SUBSET Logins]
    /\ jobs \subseteq Apps
    /\ requests \in 0 .. MaxRequests
    /\ touched \subseteq Apps

CallsOK ==
    /\ pc \in [Rotators -> Rotating \cup {"idle", "lock"}]
    /\ old \in [Rotators -> Logins]
    /\ new \in [Rotators -> Logins]
    /\ ids \in [Rotators -> SUBSET Apps]
    /\ todo \in [Rotators -> SUBSET Apps]
    /\ cur \in [Rotators -> SUBSET Apps]
    /\ serial \in 0 .. MaxRotations
    /\ faults \in 0 .. MaxFaults

HistoryOK ==
    /\ blind \subseteq Logins
    /\ crossed \in BOOLEAN
    /\ torn \subseteq Apps

TypeOK == DbOK /\ AppsOK /\ CallsOK /\ HistoryOK

Init ==
    /\ accounts = {First}
    /\ row = First
    /\ locked = FALSE
    /\ links = Linked
    /\ touched = Apps \ links
    /\ secret = [a \in Apps |-> IF a \in links THEN {First} ELSE {}]
    /\ env = secret
    /\ astatus = [a \in Apps |-> "running"]
    /\ held = [a \in Apps |-> {}]
    /\ linking = [a \in Apps |-> {}]
    /\ jobs = {}
    /\ requests = 0
    /\ pc = [r \in Rotators |-> "idle"]
    /\ old = [r \in Rotators |-> First]
    /\ new = [r \in Rotators |-> First]
    /\ ids = [r \in Rotators |-> {}]
    /\ todo = [r \in Rotators |-> {}]
    /\ cur = [r \in Rotators |-> {}]
    /\ serial = 0
    /\ faults = 0
    /\ blind = {}
    /\ crossed = FALSE
    /\ torn = {}
-----------------------------------------------------------------------------
(* rotatePassword.                                                         *)

Goto(r, label) == pc' = [pc EXCEPT ![r] = label]

\* The call returns or throws, and its local variables are gone.
Return(r) ==
    /\ Goto(r, "idle")
    /\ old' = [old EXCEPT ![r] = First]
    /\ new' = [new EXCEPT ![r] = First]
    /\ ids' = [ids EXCEPT ![r] = {}]
    /\ todo' = [todo EXCEPT ![r] = {}]
    /\ cur' = [cur EXCEPT ![r] = {}]

NewUser(u) == IF Kind = "redis" THEN 1 ELSE u + 1

\* The row is read and rotation_in_progress is not set.
Begin(r) ==
    /\ pc[r] = "idle"
    /\ ~locked
    /\ serial < MaxRotations
    /\ serial' = serial + 1
    /\ old' = [old EXCEPT ![r] = row]
    /\ new' = [new EXCEPT ![r] = [user |-> NewUser(row.user), pw |-> serial']]
    /\ Goto(r, "lock")
    /\ UNCHANGED <<dbVars, appVars, ids, todo, cur, faults, touched, histVars>>

\* rotation_in_progress is set, without another look at it.
LockRow(r) ==
    /\ pc[r] = "lock"
    /\ locked' = TRUE
    /\ Goto(r, "add")
    /\ UNCHANGED <<accounts, row, links, secret, appVars, old, new, ids, todo, cur, serial,
                   faults, touched, histVars>>

\* psql connects as the old user.  Only the first one, POSTGRES_USER of the
\* template, may create users, and a taken name is refused.  mongosh connects
\* without a login and is refused; redis-cli gets the command as one word, and
\* without a login, and ends with exit code 0 all the same.
CanAdd(r) ==
    /\ Kind = "postgres"
    /\ old[r].user = 0
    /\ new[r].user \notin Users(accounts)

\* The calls that believe that their new user exists.
Past == {"write", "links", "swap", "insert", "poll", "drop", "done",
         "undo", "undoLinks", "undoSwap", "undoInsert", "undoDrop"}

\* addNewPassword.  An exec that ends without an exit frame, or is closed after
\* 15 seconds, counts as exit code 0.
AddUser(r) ==
    /\ pc[r] = "add"
    /\ \/ CanAdd(r) /\ accounts' = accounts \cup {new[r]} /\ UNCHANGED blind
       \/ blind' = blind \cup {new[r]} /\ UNCHANGED accounts
    /\ crossed' = (crossed \/ row # old[r] \/ \E q \in Rotators \ {r} : pc[q] \in Past)
    /\ Goto(r, "write")
    /\ UNCHANGED <<row, locked, links, secret, appVars, old, new, ids, todo, cur, serial,
                   faults, touched, torn>>

\* The old password goes to the history, the new login to `databases`.
WriteRow(r) ==
    /\ pc[r] = "write"
    /\ row' = new[r]
    /\ Goto(r, "links")
    /\ UNCHANGED <<accounts, locked, links, secret, appVars, old, new, ids, todo, cur, serial,
                   faults, touched, histVars>>

\* The links are read once; their applications are the ones to redeploy and poll.
ReadLinks(r) ==
    /\ pc[r] = "links"
    /\ ids' = [ids EXCEPT ![r] = links]
    /\ todo' = [todo EXCEPT ![r] = links]
    /\ Goto(r, "swap")
    /\ UNCHANGED <<dbVars, appVars, old, new, cur, serial, faults, touched, histVars>>

\* The secrets of one link are deleted ...
DeleteSecrets(r, a) ==
    /\ pc[r] \in {"swap", "undoSwap"}
    /\ a \in todo[r]
    /\ secret' = [secret EXCEPT ![a] = {}]
    /\ todo' = [todo EXCEPT ![r] = @ \ {a}]
    /\ cur' = [cur EXCEPT ![r] = {a}]
    /\ Goto(r, IF pc[r] = "swap" THEN "insert" ELSE "undoInsert")
    /\ UNCHANGED <<accounts, row, locked, links, appVars, old, new, ids, serial,
                   faults, touched, histVars>>

\* A mutant: the variables are built from the old connection string.
InsertSecretsStale(r) ==
    /\ pc[r] \in {"insert", "undoInsert"}
    /\ secret' = [a \in Apps |-> IF a \in cur[r] THEN secret[a] \cup {old[r]} ELSE secret[a]]
    /\ cur' = [cur EXCEPT ![r] = {}]
    /\ torn' = torn \ cur[r]
    /\ Goto(r, IF pc[r] = "insert" THEN "swap" ELSE "undoSwap")
    /\ UNCHANGED <<accounts, row, locked, links, appVars, old, new, ids, todo, serial,
                   faults, touched, blind, crossed>>

\* ... and inserted again, with the login that the application shall use.
InsertSecrets(r) ==
    /\ pc[r] \in {"insert", "undoInsert"}
    /\ secret' = [a \in Apps |->
                     IF a \in cur[r]
                     THEN secret[a] \cup {IF pc[r] = "insert" THEN new[r] ELSE old[r]}
                     ELSE secret[a]]
    /\ cur' = [cur EXCEPT ![r] = {}]
    /\ torn' = torn \ cur[r]
    /\ Goto(r, IF pc[r] = "insert" THEN "swap" ELSE "undoSwap")
    /\ UNCHANGED <<accounts, row, locked, links, appVars, old, new, ids, todo, serial,
                   faults, touched, blind, crossed>>

\* A redeploy job for each link.  Without links there is nothing to wait for.
Enqueue(r) ==
    /\ pc[r] = "swap" /\ todo[r] = {}
    /\ jobs' = jobs \cup ids[r]
    /\ Goto(r, IF ids[r] = {} THEN "drop" ELSE "poll")
    /\ UNCHANGED <<dbVars, env, astatus, held, linking, requests, old, new, ids, todo, cur, serial,
                   faults, touched, histVars>>

\* A poll finds every application running ...
PollHealthy(r) ==
    /\ pc[r] = "poll"
    /\ \A a \in ids[r] : astatus[a] = "running"
    /\ Goto(r, "drop")
    /\ UNCHANGED <<dbVars, appVars, old, new, ids, todo, cur, serial, faults, touched, histVars>>

\* ... or one failed, or the five minutes are over.
PollGivesUp(r) ==
    /\ pc[r] = "poll"
    /\ \E a \in ids[r] : astatus[a] # "running"
    /\ Goto(r, "undo")
    /\ UNCHANGED <<dbVars, appVars, old, new, ids, todo, cur, serial, faults, touched, histVars>>

\* dropOldUser(gone, stays): psql connects as the user that stays, and the plain
\* roles that CREATE USER makes may drop nobody; mongosh and redis-cli have no
\* login here either.  A failure is only logged.
DropUser(gone, stays) ==
    \/ /\ Kind = "postgres" /\ stays = 0
       /\ accounts' = {c \in accounts : c.user # gone}
    \/ UNCHANGED accounts

DropOld(r) ==
    /\ pc[r] = "drop"
    /\ DropUser(old[r].user, new[r].user)
    /\ Goto(r, "done")
    /\ UNCHANGED <<row, locked, links, secret, appVars, old, new, ids, todo, cur, serial,
                   faults, touched, histVars>>

\* password_rotated_at is set and the lock released.
Finish(r) ==
    /\ pc[r] = "done"
    /\ locked' = FALSE
    /\ Return(r)
    /\ UNCHANGED <<accounts, row, links, secret, appVars, serial,
                   faults, touched, histVars>>
-----------------------------------------------------------------------------
(* rollbackRotation.                                                       *)

\* A mutant: the row keeps the new login.
UndoRowKeeps(r) ==
    /\ pc[r] = "undo"
    /\ Goto(r, "undoLinks")
    /\ UNCHANGED <<dbVars, appVars, old, new, ids, todo, cur, serial, faults, touched, histVars>>

UndoRow(r) ==
    /\ pc[r] = "undo"
    /\ row' = old[r]
    /\ Goto(r, "undoLinks")
    /\ UNCHANGED <<accounts, locked, links, secret, appVars, old, new, ids, todo, cur, serial,
                   faults, touched, histVars>>

\* A mutant: the secrets of the applications are not restored.
UndoLinksNone(r) ==
    /\ pc[r] = "undoLinks"
    /\ todo' = [todo EXCEPT ![r] = {}]
    /\ Goto(r, "undoSwap")
    /\ UNCHANGED <<dbVars, appVars, old, new, ids, cur, serial, faults, touched, histVars>>

\* The links are read again.
UndoLinks(r) ==
    /\ pc[r] = "undoLinks"
    /\ todo' = [todo EXCEPT ![r] = links]
    /\ Goto(r, "undoSwap")
    /\ UNCHANGED <<dbVars, appVars, old, new, ids, cur, serial, faults, touched, histVars>>

UndoEnqueue(r) ==
    /\ pc[r] = "undoSwap" /\ todo[r] = {}
    /\ jobs' = jobs \cup ids[r]
    /\ Goto(r, "undoDrop")
    /\ UNCHANGED <<dbVars, env, astatus, held, linking, requests, old, new, ids, todo, cur, serial,
                   faults, touched, histVars>>

UndoDrop(r) ==
    /\ pc[r] = "undoDrop"
    /\ DropUser(new[r].user, old[r].user)
    /\ Goto(r, "unlock")
    /\ UNCHANGED <<row, locked, links, secret, appVars, old, new, ids, todo, cur, serial,
                   faults, touched, histVars>>

\* The call stops here: secrets that it has deleted stay deleted.
Tear(r) ==
    /\ torn' = torn \cup cur[r]
    /\ cur' = [cur EXCEPT ![r] = {}]

\* A step of the rollback fails: logged, and on to its finally block.
UndoFails(r) ==
    /\ pc[r] \in {"undo", "undoLinks", "undoSwap", "undoInsert", "undoDrop"}
    /\ Tear(r)
    /\ Goto(r, "unlock")
    /\ UNCHANGED <<dbVars, appVars, old, new, ids, todo, serial, faults, touched, blind, crossed>>

\* The finally block releases the lock; RotationFailedError follows.
Unlock(r) ==
    /\ pc[r] = "unlock"
    /\ locked' = FALSE
    /\ Goto(r, "release")
    /\ UNCHANGED <<accounts, row, links, secret, appVars, old, new, ids, todo, cur, serial,
                   faults, touched, histVars>>
-----------------------------------------------------------------------------
(* The catch block of rotatePassword.                                      *)

\* Any step of the try block, or the release of the rollback, throws.
Throws(r) ==
    /\ pc[r] \in {"add", "write", "links", "swap", "insert", "poll", "drop", "done", "unlock"}
    /\ Tear(r)
    /\ Goto(r, "release")
    /\ UNCHANGED <<dbVars, appVars, old, new, ids, todo, serial, faults, touched, blind, crossed>>

\* A mutant: the error leaves the function and the lock stays.
ReleaseForgets(r) ==
    /\ pc[r] = "release"
    /\ Return(r)
    /\ UNCHANGED <<dbVars, appVars, serial, faults, touched, histVars>>

\* The lock is released, whoever holds it by now.
Release(r) ==
    /\ pc[r] = "release"
    /\ locked' = FALSE
    /\ Return(r)
    /\ UNCHANGED <<accounts, row, links, secret, appVars, serial,
                   faults, touched, histVars>>

\* "Ignore secondary error".
ReleaseFails(r) ==
    /\ pc[r] = "release"
    /\ faults < MaxFaults
    /\ faults' = faults + 1
    /\ Return(r)
    /\ UNCHANGED <<dbVars, appVars, serial, touched, histVars>>
-----------------------------------------------------------------------------
(* The applications.                                                       *)

\* One more request of a user.
Request == requests < MaxRequests /\ requests' = requests + 1

\* A user deploys an application: its secrets are read ...
DeployStart(a) ==
    /\ astatus[a] \in {"running", "failed"}
    /\ Request
    /\ astatus' = [astatus EXCEPT ![a] = "building"]
    /\ held' = [held EXCEPT ![a] = secret[a]]
    /\ UNCHANGED <<dbVars, env, linking, jobs, callVars, faults, touched, histVars>>

\* ... and the new container runs with them,
DeployEnd(a) ==
    /\ astatus[a] = "building"
    /\ astatus' = [astatus EXCEPT ![a] = "running"]
    /\ env' = [env EXCEPT ![a] = held[a]]
    /\ held' = [held EXCEPT ![a] = {}]
    /\ UNCHANGED <<dbVars, linking, jobs, requests, callVars, faults, touched, histVars>>

\* or the old one goes on, or the deploy died and the reaper repairs the row.
DeployFails(a) ==
    /\ astatus[a] \in {"building", "orphan"}
    /\ \E s \in {"running", "failed"} : astatus' = [astatus EXCEPT ![a] = s]
    /\ held' = [held EXCEPT ![a] = {}]
    /\ UNCHANGED <<dbVars, env, linking, jobs, requests, callVars, faults, touched, histVars>>

\* A redeploy job carries `appId` and a `kind` that DeployPayloadSchema does not
\* know, and no buildId: handleDeploy rejects it.
RedeployJob(a) ==
    /\ a \in jobs
    /\ jobs' = jobs \ {a}
    /\ UNCHANGED <<dbVars, env, astatus, held, linking, requests, callVars, faults, touched, histVars>>

\* POST /apps/:id/databases/:dbId/link reads the connection string ...
LinkRead(a) ==
    /\ linking[a] = {}
    /\ Request
    /\ linking' = [linking EXCEPT ![a] = {row}]
    /\ touched' = touched \cup {a}
    /\ UNCHANGED <<dbVars, env, astatus, held, jobs, callVars, faults, histVars>>

\* ... replaces the secrets and inserts the link.
LinkWrite(a) ==
    /\ linking[a] # {}
    /\ secret' = [secret EXCEPT ![a] = linking[a]]
    /\ links' = links \cup {a}
    /\ linking' = [linking EXCEPT ![a] = {}]
    /\ UNCHANGED <<accounts, row, locked, env, astatus, held, jobs, requests, callVars, faults,
                   touched, histVars>>

\* DELETE of the same.
Unlink(a) ==
    /\ a \in links
    /\ Request
    /\ secret' = [secret EXCEPT ![a] = {}]
    /\ links' = links \ {a}
    /\ touched' = touched \cup {a}
    /\ UNCHANGED <<accounts, row, locked, env, astatus, held, linking, jobs, callVars, faults,
                   histVars>>

\* The API process dies and restarts.
Crash ==
    /\ faults < MaxFaults
    /\ faults' = faults + 1
    /\ pc' = [r \in Rotators |-> "idle"]
    /\ old' = [r \in Rotators |-> First]
    /\ new' = [r \in Rotators |-> First]
    /\ ids' = [r \in Rotators |-> {}]
    /\ todo' = [r \in Rotators |-> {}]
    /\ cur' = [r \in Rotators |-> {}]
    /\ torn' = torn \cup UNION {cur[r] : r \in Rotators}
    /\ astatus' = [a \in Apps |-> IF astatus[a] = "building" THEN "orphan" ELSE astatus[a]]
    /\ held' = [a \in Apps |-> {}]
    /\ linking' = [a \in Apps |-> {}]
    /\ UNCHANGED <<dbVars, env, jobs, requests, serial, touched, blind, crossed>>

\* The steps of a call that has begun.
RotationStep(r) ==
    \/ LockRow(r) \/ AddUser(r) \/ WriteRow(r) \/ ReadLinks(r)
    \/ \E a \in Apps : DeleteSecrets(r, a)
    \/ InsertSecrets(r) \/ Enqueue(r) \/ PollHealthy(r) \/ PollGivesUp(r)
    \/ DropOld(r) \/ Finish(r)
    \/ UndoRow(r) \/ UndoLinks(r) \/ UndoEnqueue(r) \/ UndoDrop(r) \/ UndoFails(r) \/ Unlock(r)
    \/ Throws(r) \/ Release(r) \/ ReleaseFails(r)

AppStep(a) ==
    \/ DeployStart(a) \/ DeployEnd(a) \/ DeployFails(a) \/ RedeployJob(a)
    \/ LinkRead(a) \/ LinkWrite(a) \/ Unlink(a)

Next ==
    \/ \E r \in Rotators : Begin(r) \/ RotationStep(r)
    \/ \E a \in Apps : AppStep(a)
    \/ Crash

Spec == Init /\ [][Next]_vars

\* A call that has begun goes on; its awaits end.
FairSpec == Spec /\ \A r \in Rotators : WF_vars(RotationStep(r))
-----------------------------------------------------------------------------
\* Two calls met, and the exec of one of them ended without an answer.
Excused == crossed /\ blind # {}

(* The login in `databases` is one that the database accepts, or one whose *)
(* creation no exec confirmed: the row is restored before its user is      *)
(* dropped, whatever step throws or dies.  Overlapping calls, which the    *)
(* lock does not keep apart, cannot break it as long as every exec answers,*)
(* because CREATE USER refuses the second one.                             *)
RowLoginWorks == Excused \/ row \in accounts \cup blind

\* The applications that stay linked.
Steady == Apps \ touched

(* ... and so are the logins in the secrets of the applications that stay  *)
(* linked: a user is dropped only when none of them names it any more.  An *)
(* application is without secrets only while a call replaces them, or after*)
(* an error or a crash between the delete and the insert.                  *)
SecretsWork ==
    \/ Excused
    \/ \A a \in Steady :
          /\ secret[a] \subseteq accounts \cup blind
          /\ secret[a] = {} => a \in torn \/ \E r \in Rotators : a \in cur[r]

\* What r does when it completes.
Completes(r) == pc[r] = "done" /\ pc'[r] = "idle" /\ faults' = faults

(* A rotation that completes has replaced the secrets of every application *)
(* that stays linked, and by nothing else than the login that it recorded, *)
(* although other calls may have begun, failed or ended meanwhile.         *)
SecretsFollowRow ==
    [][\A r \in Rotators :
          Completes(r) => Excused \/ \A a \in Steady : secret[a] = {row}]_vars

(* Without a crash or a failing release the lock is released, by success,  *)
(* rollback or error.                                                      *)
LockEnds == locked ~> (~locked \/ faults > 0)
-----------------------------------------------------------------------------
(* What comments of the code say and the code does not do.                 *)

(* rotation.ts, steps 7 to 9: the applications are redeployed, and polled  *)
(* until they run, before the rotation drops the old user and reports them *)
(* as appsRedeployed.  The redeploy jobs are rejected, every application   *)
(* still counts as running, and its container has the old login.           *)
RedeployedAppsUseNewLogin ==
    \A r \in Rotators : pc[r] = "done" => \A a \in ids[r] \ touched : env[a] = {new[r]}
=============================================================================
