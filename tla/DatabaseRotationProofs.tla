----------------------- MODULE DatabaseRotationProofs -----------------------
(***************************************************************************)
(* For every kind of database, every set of applications and any number of *)
(* calls that overlap as they like, throw, crash or get no answer from an  *)
(* exec: unless calls met and an exec went unanswered, a rotation never    *)
(* leaves the database's row, or the secrets of an application that stays  *)
(* linked, with a login that was created and is gone.                      *)
(***************************************************************************)
EXTENDS DatabaseRotation, TLAPS

\* The logins that work, or of which nobody knows.
Trusted == accounts \cup blind

\* The first user is the only one numbered 0, and nobody drops it; only the first
\* user can create another one.
Shape ==
    /\ First \in accounts
    /\ \A c \in accounts : c.user \in {0, 1}
    /\ row.user = 0 => row = First
    /\ \A r \in Rotators :
         /\ old[r].user = 0 => old[r] = First
         /\ pc[r] # "idle" => new[r].user = NewUser(old[r].user)
         /\ cur[r] # {} => pc[r] \in {"insert", "undoInsert"}

\* An application that no user touches keeps its link.
LinksInv ==
    /\ Steady \subseteq links
    /\ \A a \in Steady : linking[a] = {}

\* Where a call is, and which login the row and the secrets hold there.
RowPhase(r) ==
    /\ pc[r] \in Past => old[r] \in Trusted /\ new[r] \in Trusted
    /\ pc[r] = "write" => row = old[r]
    /\ pc[r] \in {"links", "swap", "insert", "poll", "drop", "done"} => row = new[r]
    /\ pc[r] \in {"undoLinks", "undoSwap", "undoInsert", "undoDrop"} => row = old[r]

SecretPhase(r) ==
    /\ pc[r] = "swap" => \A a \in Steady \ todo[r] : secret[a] = {new[r]}
    /\ pc[r] = "insert" => \A a \in Steady \ todo[r] :
           secret[a] = IF a \in cur[r] THEN {} ELSE {new[r]}
    /\ pc[r] \in {"poll", "drop", "done"} => \A a \in Steady : secret[a] = {new[r]}
    /\ pc[r] = "undoSwap" => \A a \in Steady \ todo[r] : secret[a] = {old[r]}
    /\ pc[r] = "undoInsert" => \A a \in Steady \ todo[r] :
           secret[a] = IF a \in cur[r] THEN {} ELSE {old[r]}
    /\ pc[r] = "undoDrop" => \A a \in Steady : secret[a] = {old[r]}

OnePast == \A r, s \in Rotators : pc[r] \in Past /\ pc[s] \in Past => r = s

RowTrusted == row \in Trusted

SecretsTrusted ==
    \A a \in Steady :
        /\ secret[a] \subseteq Trusted
        /\ secret[a] = {} => a \in torn \/ \E r \in Rotators : a \in cur[r]

\* What holds until two calls meet.
Orderly ==
    /\ RowTrusted
    /\ SecretsTrusted
    /\ OnePast
    /\ \A r \in Rotators : RowPhase(r) /\ SecretPhase(r)

Core ==
    /\ Shape
    /\ LinksInv
    /\ crossed => blind # {}
    /\ ~crossed => Orderly

IInv == TypeOK /\ Core

LEMMA FirstLogin == First \in Logins
BY DEF First, Logins

LEMMA NewLogin == ASSUME NEW u \in Nat, NEW n \in Nat PROVE [user |-> NewUser(u), pw |-> n] \in Logins
BY DEF NewUser, Logins

LEMMA NewIsLater == ASSUME NEW u \in Nat PROVE NewUser(u) \in Nat /\ NewUser(u) # 0
BY DEF NewUser

LEMMA InitIInv == Init => IInv
<1>1. SUFFICES ASSUME Init PROVE IInv
  OBVIOUS
<1>2. DbOK /\ AppsOK
  <2>1. secret \in [Apps -> SUBSET Logins]
    BY <1>1, FirstLogin DEF Init
  <2>2. DbOK
    BY <1>1, <2>1, FirstLogin, RotationAssumption DEF Init, DbOK
  <2>3. requests \in 0 .. MaxRequests
    BY <1>1, RotationAssumption DEF Init
  <2>4. AppsOK
    BY <1>1, <2>1, <2>3, RotationAssumption DEF Init, AppsOK
  <2> QED
    BY <2>2, <2>4
<1>3. CallsOK /\ HistoryOK
  <2>1. serial \in 0 .. MaxRotations /\ faults \in 0 .. MaxFaults
    BY <1>1, RotationAssumption DEF Init
  <2>2. CallsOK
    BY <1>1, <2>1, FirstLogin DEF Init, CallsOK
  <2>3. HistoryOK
    BY <1>1 DEF Init, HistoryOK
  <2> QED
    BY <2>2, <2>3
<1>4. Shape
  BY <1>1 DEF Init, Shape, First
<1>5. LinksInv /\ ~crossed
  BY <1>1, RotationAssumption DEF Init, LinksInv, Steady
<1>6. \A r \in Rotators : pc[r] \notin Past
  BY <1>1 DEF Init, Past
<1>7. RowTrusted /\ SecretsTrusted
  BY <1>1 DEF Init, RowTrusted, SecretsTrusted, Trusted, Steady
<1>8. Orderly
  BY <1>6, <1>7 DEF Orderly, OnePast, RowPhase, SecretPhase, Past
<1> QED
  BY <1>2, <1>3, <1>4, <1>5, <1>8 DEF IInv, TypeOK, Core

\* What a step of a call does to the types.
LEMMA CallType ==
    ASSUME TypeOK, NEW r \in Rotators, Begin(r) \/ RotationStep(r)
    PROVE  TypeOK'
<1>0. DbOK /\ AppsOK /\ CallsOK /\ HistoryOK
  BY DEF TypeOK
<1> USE <1>0, RotationAssumption
<1>1. CASE Begin(r)
  <2>1. row.user \in Nat /\ serial + 1 \in Nat /\ serial + 1 \in 0 .. MaxRotations
    BY <1>1 DEF Begin, DbOK, CallsOK, Logins
  <2>2. [user |-> NewUser(row.user), pw |-> serial + 1] \in Logins
    BY <2>1, NewLogin
  <2>3. CallsOK'
    BY <1>1, <2>1, <2>2 DEF Begin, Goto, DbOK, CallsOK
  <2> QED
    BY <1>1, <2>3 DEF Begin, TypeOK, DbOK, AppsOK, HistoryOK, dbVars, appVars, histVars
<1>2. CASE LockRow(r) \/ WriteRow(r) \/ UndoRow(r) \/ Unlock(r)
  <2>1. new[r] \in Logins /\ old[r] \in Logins
    BY DEF CallsOK
  <2>2. DbOK'
    BY <1>2, <2>1 DEF LockRow, WriteRow, UndoRow, Unlock, DbOK
  <2>3. CallsOK'
    BY <1>2 DEF LockRow, WriteRow, UndoRow, Unlock, Goto, CallsOK, Rotating
  <2>4. AppsOK' /\ HistoryOK'
    BY <1>2 DEF LockRow, WriteRow, UndoRow, Unlock, AppsOK, HistoryOK, appVars, histVars
  <2> QED
    BY <2>2, <2>3, <2>4 DEF TypeOK
<1>3. CASE Finish(r) \/ Release(r) \/ ReleaseFails(r)
  <2>1. CallsOK'
    BY <1>3, FirstLogin DEF Finish, Release, ReleaseFails, Return, Goto, CallsOK
  <2> QED
    BY <1>3, <2>1 DEF Finish, Release, ReleaseFails, TypeOK, DbOK, AppsOK, HistoryOK, dbVars,
                      appVars, histVars
<1>4. CASE AddUser(r)
  <2>1. new[r] \in Logins
    BY DEF CallsOK
  <2>2. HistoryOK' /\ DbOK'
    BY <1>4, <2>1 DEF AddUser, HistoryOK, DbOK
  <2>3. CallsOK' /\ AppsOK'
    BY <1>4 DEF AddUser, Goto, CallsOK, AppsOK, Rotating, appVars
  <2> QED
    BY <2>2, <2>3 DEF TypeOK
<1>5. CASE DropOld(r) \/ UndoDrop(r)
  BY <1>5 DEF DropOld, UndoDrop, DropUser, Goto, TypeOK, DbOK, AppsOK, CallsOK, HistoryOK,
              Rotating, appVars, histVars
<1>6. CASE ReadLinks(r) \/ UndoLinks(r) \/ PollHealthy(r) \/ PollGivesUp(r)
  BY <1>6 DEF ReadLinks, UndoLinks, PollHealthy, PollGivesUp,
              Goto, TypeOK, DbOK, AppsOK, CallsOK, HistoryOK, Rotating, dbVars, appVars, histVars
<1>7. CASE UndoFails(r) \/ Throws(r)
  BY <1>7 DEF UndoFails, Throws, Tear, Goto, TypeOK, DbOK, AppsOK, CallsOK, HistoryOK, Rotating,
              dbVars, appVars
<1>8. CASE Enqueue(r) \/ UndoEnqueue(r)
  BY <1>8 DEF Enqueue, UndoEnqueue, Goto, TypeOK, DbOK, AppsOK, CallsOK, HistoryOK, Rotating,
              dbVars, histVars
<1>9. CASE \E a \in Apps : DeleteSecrets(r, a)
  BY <1>9 DEF DeleteSecrets, Goto, TypeOK, DbOK, AppsOK, CallsOK, HistoryOK, Rotating, appVars,
              histVars
<1>10. CASE InsertSecrets(r)
  BY <1>10 DEF InsertSecrets, Goto, TypeOK, DbOK, AppsOK, CallsOK, HistoryOK, Rotating, appVars
<1> QED
  BY <1>1, <1>2, <1>3, <1>4, <1>5, <1>6, <1>7, <1>8, <1>9, <1>10 DEF RotationStep

\* ... and a step of an application or a crash.
LEMMA OtherType ==
    ASSUME TypeOK, (\E a \in Apps : AppStep(a)) \/ Crash \/ UNCHANGED vars
    PROVE  TypeOK'
<1>0. DbOK /\ AppsOK /\ CallsOK /\ HistoryOK
  BY DEF TypeOK
<1> USE <1>0, RotationAssumption
<1>1. ASSUME NEW a \in Apps, DeployStart(a) \/ DeployEnd(a) \/ DeployFails(a) \/ RedeployJob(a)
                               \/ LinkRead(a)
      PROVE  TypeOK'
  <2>1. AppsOK'
    BY <1>1 DEF DeployStart, DeployEnd, DeployFails, RedeployJob, LinkRead, Request, AppsOK, DbOK,
                dbVars
  <2>2. DbOK' /\ CallsOK' /\ HistoryOK'
    BY <1>1 DEF DeployStart, DeployEnd, DeployFails, RedeployJob, LinkRead, DbOK, CallsOK,
                HistoryOK, dbVars, callVars, histVars
  <2> QED
    BY <2>1, <2>2 DEF TypeOK
<1>2. ASSUME NEW a \in Apps, LinkWrite(a) \/ Unlink(a)
      PROVE  TypeOK'
  <2>1. AppsOK' /\ DbOK'
    BY <1>2 DEF LinkWrite, Unlink, Request, DbOK, AppsOK
  <2>2. CallsOK' /\ HistoryOK'
    BY <1>2 DEF LinkWrite, Unlink, CallsOK, HistoryOK, callVars, histVars
  <2> QED
    BY <2>1, <2>2 DEF TypeOK
<1>3. CASE Crash
  <2>1. CallsOK'
    BY <1>3, FirstLogin DEF Crash, CallsOK
  <2>2. UNION {cur[r] : r \in Rotators} \subseteq Apps
    BY DEF CallsOK
  <2>3. HistoryOK'
    BY <1>3, <2>2 DEF Crash, HistoryOK
  <2>4. AppsOK' /\ DbOK'
    BY <1>3 DEF Crash, AppsOK, DbOK, dbVars
  <2> QED
    BY <2>1, <2>3, <2>4 DEF TypeOK
<1>4. CASE UNCHANGED vars
  BY <1>4 DEF vars, dbVars, appVars, callVars, histVars, TypeOK, DbOK, AppsOK, CallsOK, HistoryOK
<1> QED
  BY <1>1, <1>2, <1>3, <1>4 DEF AppStep

\* A call leaves the links alone, and the local variables of the others.
LEMMA CallFrame ==
    ASSUME TypeOK, NEW r \in Rotators, Begin(r) \/ RotationStep(r)
    PROVE  /\ UNCHANGED <<links, linking, touched>>
           /\ Steady' = Steady
           /\ \A s \in Rotators \ {r} : /\ pc'[s] = pc[s] /\ old'[s] = old[s] /\ new'[s] = new[s]
                                        /\ todo'[s] = todo[s] /\ cur'[s] = cur[s]
<1>0. CallsOK
  BY DEF TypeOK
<1> USE <1>0 DEF Steady
<1>1. CASE Begin(r) \/ LockRow(r) \/ WriteRow(r) \/ UndoRow(r) \/ Unlock(r) \/ AddUser(r)
             \/ DropOld(r) \/ UndoDrop(r)
  BY <1>1 DEF Begin, LockRow, WriteRow, UndoRow, Unlock, AddUser, DropOld, UndoDrop, Goto, CallsOK,
              dbVars, appVars
<1>2. CASE Finish(r) \/ Release(r) \/ ReleaseFails(r)
  BY <1>2 DEF Finish, Release, ReleaseFails, Return, Goto, CallsOK, dbVars, appVars
<1>3. CASE ReadLinks(r) \/ UndoLinks(r) \/ PollHealthy(r) \/ PollGivesUp(r) \/ Enqueue(r)
             \/ UndoEnqueue(r)
  BY <1>3 DEF ReadLinks, UndoLinks, PollHealthy, PollGivesUp, Enqueue, UndoEnqueue, Goto, CallsOK,
              dbVars, appVars
<1>4. CASE UndoFails(r) \/ Throws(r) \/ InsertSecrets(r) \/ \E a \in Apps : DeleteSecrets(r, a)
  BY <1>4 DEF UndoFails, Throws, Tear, InsertSecrets, DeleteSecrets, Goto, CallsOK, dbVars, appVars
<1> QED
  BY <1>1, <1>2, <1>3, <1>4 DEF RotationStep

\* A step of a call that is not past its CREATE USER, and does not get there.
Before(r) == pc[r] \notin Past /\ ~AddUser(r)

LEMMA BeforeFrame ==
    ASSUME TypeOK, Shape, NEW r \in Rotators, Begin(r) \/ RotationStep(r), Before(r)
    PROVE  /\ UNCHANGED <<accounts, row, secret, blind, crossed>>
           /\ torn' = torn
           /\ \A s \in Rotators : cur'[s] = cur[s]
           /\ pc'[r] \notin Past
<1>0. CallsOK /\ cur[r] = {} /\ HistoryOK
  BY DEF TypeOK, Shape, Before, Past
<1>1. pc[r] \in {"idle", "lock", "add", "unlock", "release"}
  BY <1>0 DEF CallsOK, Before, Past, Rotating
<1>2. Begin(r) \/ LockRow(r) \/ Unlock(r) \/ Throws(r) \/ Release(r) \/ ReleaseFails(r)
  BY <1>1 DEF RotationStep, Before, Past, WriteRow, UndoRow, DropOld, UndoDrop, Finish, ReadLinks,
              UndoLinks, PollHealthy, PollGivesUp, Enqueue, UndoEnqueue, UndoFails, InsertSecrets,
              DeleteSecrets
<1>3. CASE Begin(r) \/ LockRow(r) \/ Unlock(r)
  BY <1>3, <1>0 DEF Begin, LockRow, Unlock, Goto, CallsOK, dbVars, histVars, Past
<1>4. CASE Throws(r)
  BY <1>4, <1>0 DEF Throws, Tear, Goto, CallsOK, HistoryOK, dbVars, Past
<1>5. CASE Release(r) \/ ReleaseFails(r)
  BY <1>5, <1>0 DEF Release, ReleaseFails, Return, Goto, CallsOK, dbVars, histVars, Past
<1> QED
  BY <1>2, <1>3, <1>4, <1>5

\* The first user stays, and no call drops or creates anything but the second one.
LEMMA CallShape ==
    ASSUME TypeOK, Shape, NEW r \in Rotators, Begin(r) \/ RotationStep(r)
    PROVE  Shape'
<1>0. DbOK /\ CallsOK /\ First.user = 0
  BY DEF TypeOK, First
<1>1. \A s \in Rotators \ {r} : /\ pc'[s] = pc[s] /\ old'[s] = old[s] /\ new'[s] = new[s]
                                /\ cur'[s] = cur[s]
  BY CallFrame
<1> DEFINE Accts(A) == First \in A /\ \A c \in A : c.user \in {0, 1}
           Mine(p, o, n, k) == /\ o.user = 0 => o = First
                               /\ p # "idle" => n.user = NewUser(o.user)
                               /\ k # {} => p \in {"insert", "undoInsert"}
           Row(w) == w.user = 0 => w = First
<1>2. SUFFICES Accts(accounts)' /\ Row(row)' /\ Mine(pc[r], old[r], new[r], cur[r])'
  BY <1>1 DEF Shape
<1>3. Accts(accounts) /\ Row(row) /\ Mine(pc[r], old[r], new[r], cur[r])
  BY DEF Shape
<1>4. old[r].user \in Nat /\ new[r].user \in Nat /\ row.user \in Nat
  BY <1>0 DEF CallsOK, DbOK, Logins
<1>5. CASE Begin(r)
  <2>1. old'[r] = row /\ new'[r].user = NewUser(row.user)
    BY <1>5, <1>0 DEF Begin, CallsOK
  <2> QED
    BY <1>5, <2>1, <1>3, <1>0 DEF Begin, Goto, dbVars, CallsOK
<1>6. CASE LockRow(r) \/ PollHealthy(r) \/ PollGivesUp(r) \/ Unlock(r) \/ Enqueue(r)
             \/ UndoEnqueue(r) \/ ReadLinks(r) \/ UndoLinks(r)
  <2>1. UNCHANGED <<accounts, row, old, new, cur>>
    BY <1>6 DEF LockRow, PollHealthy, PollGivesUp, Unlock, Enqueue, UndoEnqueue, ReadLinks,
                UndoLinks, dbVars
  <2>2. pc[r] \notin {"idle", "insert", "undoInsert"}
    BY <1>6 DEF LockRow, PollHealthy, PollGivesUp, Unlock, Enqueue, UndoEnqueue, ReadLinks, UndoLinks
  <2> QED
    BY <2>1, <2>2, <1>3
<1>7. CASE WriteRow(r) \/ UndoRow(r)
  <2>1. NewUser(old[r].user) # 0
    BY <1>4, NewIsLater
  <2>2. pc[r] \in {"write", "undo"} /\ UNCHANGED <<accounts, old, new, cur>>
    BY <1>7 DEF WriteRow, UndoRow
  <2>3. row' = new[r] \/ row' = old[r]
    BY <1>7 DEF WriteRow, UndoRow
  <2>4. Row(row)'
    BY <2>1, <2>2, <2>3, <1>3
  <2>5. Mine(pc[r], old[r], new[r], cur[r])'
    BY <2>2, <1>3
  <2>6. Accts(accounts)'
    BY <2>2, <1>3
  <2> QED
    BY <2>4, <2>5, <2>6
<1>8. CASE AddUser(r)
  <2>1. pc[r] = "add" /\ UNCHANGED <<row, old, new, cur>>
    BY <1>8 DEF AddUser
  <2>2. accounts' = accounts \/ (accounts' = accounts \cup {new[r]} /\ new[r].user = 1)
    BY <1>8, <2>1, <1>3 DEF AddUser, CanAdd, NewUser
  <2>3. Accts(accounts)'
    BY <2>2, <1>3
  <2>4. Mine(pc[r], old[r], new[r], cur[r])' /\ Row(row)'
    BY <2>1, <1>3
  <2> QED
    BY <2>3, <2>4
<1>9. CASE DropOld(r) \/ UndoDrop(r)
  <2>1. pc[r] \in {"drop", "undoDrop"} /\ UNCHANGED <<row, old, new, cur>>
    BY <1>9 DEF DropOld, UndoDrop
  <2>2. new[r].user # 0
    BY <2>1, <1>3, <1>4, NewIsLater
  <2>3. accounts' = accounts \/ accounts' = {c \in accounts : c.user # new[r].user}
    BY <1>9, <2>2 DEF DropOld, UndoDrop, DropUser
  <2>4. Accts(accounts)'
    BY <2>2, <2>3, <1>3, <1>0
  <2>5. Mine(pc[r], old[r], new[r], cur[r])' /\ Row(row)'
    BY <2>1, <1>3
  <2> QED
    BY <2>4, <2>5
<1>10. CASE Finish(r) \/ Release(r) \/ ReleaseFails(r)
  <2>1. UNCHANGED <<accounts, row>>
    BY <1>10 DEF Finish, Release, ReleaseFails, dbVars
  <2>2. pc'[r] = "idle" /\ old'[r] = First /\ cur'[r] = {}
    BY <1>10, <1>0 DEF Finish, Release, ReleaseFails, Return, Goto, CallsOK
  <2> QED
    BY <2>1, <2>2, <1>3
<1>11. CASE UndoFails(r) \/ Throws(r)
  <2>1. UNCHANGED <<accounts, row, old, new>> /\ cur'[r] = {} /\ pc[r] # "idle"
    BY <1>11, <1>0 DEF UndoFails, Throws, Tear, dbVars, CallsOK
  <2> QED
    BY <2>1, <1>3
<1>12. CASE InsertSecrets(r)
  <2>1. UNCHANGED <<accounts, row, old, new>> /\ cur'[r] = {} /\ pc[r] # "idle"
    BY <1>12, <1>0 DEF InsertSecrets, CallsOK
  <2> QED
    BY <2>1, <1>3
<1>13. ASSUME NEW a \in Apps, DeleteSecrets(r, a)
       PROVE  Accts(accounts)' /\ Row(row)' /\ Mine(pc[r], old[r], new[r], cur[r])'
  <2>1. UNCHANGED <<accounts, row, old, new>> /\ pc[r] # "idle"
    BY <1>13 DEF DeleteSecrets
  <2>2. pc'[r] \in {"insert", "undoInsert"}
    BY <1>13, <1>0 DEF DeleteSecrets, Goto, CallsOK
  <2> QED
    BY <2>1, <2>2, <1>3
<1> QED
  BY <1>5, <1>6, <1>7, <1>8, <1>9, <1>10, <1>11, <1>12, <1>13 DEF RotationStep

\* Two calls meet only where an exec gave no answer: CREATE USER refuses the
\* second user of a name.
LEMMA CallCrossed ==
    ASSUME TypeOK, Core, NEW r \in Rotators, Begin(r) \/ RotationStep(r)
    PROVE  crossed' => blind' # {}
<1>0. CallsOK /\ HistoryOK /\ DbOK /\ Shape
  BY DEF TypeOK, Core
<1>1. CASE AddUser(r)
  <2>1. CASE blind' = blind \cup {new[r]}
    BY <2>1
  <2>2. CASE CanAdd(r) /\ UNCHANGED blind
    <3>1. SUFFICES ASSUME crossed', blind = {} PROVE FALSE
      BY <2>2
    <3>2. Orderly /\ ~crossed
      BY <3>1 DEF Core
    <3>3. pc[r] = "add" /\ (row # old[r] \/ \E q \in Rotators \ {r} : pc[q] \in Past)
      BY <1>1, <3>1, <3>2 DEF AddUser
    <3>4. old[r] = First /\ new[r].user = 1
      BY <1>0, <2>2, <3>3 DEF CanAdd, Shape, NewUser
    <3>5. \A c \in accounts : c.user = 0
      BY <1>0, <2>2, <3>4 DEF CanAdd, Shape, Users
    <3>6. row \in accounts
      BY <3>1, <3>2 DEF Orderly, RowTrusted, Trusted
    <3>7. row = First
      BY <1>0, <3>5, <3>6 DEF Shape
    <3>8. PICK q \in Rotators \ {r} : pc[q] \in Past
      BY <3>3, <3>4, <3>7
    <3>9. new[q] \in accounts
      BY <3>1, <3>2, <3>8 DEF Orderly, RowPhase, Trusted
    <3>10. new[q].user # 0
      <4>1. pc[q] # "idle" /\ old[q].user \in Nat
        BY <1>0, <3>8 DEF Past, CallsOK, Logins
      <4> QED
        BY <1>0, <4>1, NewIsLater DEF Shape
    <3> QED
      BY <3>5, <3>9, <3>10
  <2> QED
    BY <1>1, <2>1, <2>2 DEF AddUser
<1>2. CASE ~AddUser(r)
  <2>1. crossed' = crossed /\ blind' = blind
    BY <1>2 DEF Begin, RotationStep, LockRow, WriteRow, ReadLinks, DeleteSecrets, InsertSecrets,
                Enqueue, PollHealthy, PollGivesUp, DropOld, Finish, UndoRow, UndoLinks, UndoEnqueue,
                UndoDrop, UndoFails, Unlock, Throws, Release, ReleaseFails, histVars
  <2> QED
    BY <2>1 DEF Core
<1> QED
  BY <1>1, <1>2

\* A step of a call that keeps out of the way of the others.
LEMMA BeforeOrderly ==
    ASSUME TypeOK, Shape, Orderly, NEW r \in Rotators, Begin(r) \/ RotationStep(r), Before(r)
    PROVE  Orderly'
<1>1. /\ UNCHANGED <<accounts, row, secret, blind, torn>>
      /\ \A s \in Rotators : cur'[s] = cur[s]
      /\ pc[r] \notin Past /\ pc'[r] \notin Past
  BY BeforeFrame DEF Before
<1>2. /\ Steady' = Steady
      /\ \A s \in Rotators \ {r} : /\ pc'[s] = pc[s] /\ old'[s] = old[s] /\ new'[s] = new[s]
                                   /\ todo'[s] = todo[s]
  BY CallFrame
<1>3. RowTrusted' /\ SecretsTrusted'
  BY <1>1, <1>2 DEF Orderly, RowTrusted, SecretsTrusted, Trusted
<1>4. OnePast'
  BY <1>1, <1>2 DEF Orderly, OnePast
<1>5. ASSUME NEW s \in Rotators PROVE RowPhase(s)' /\ SecretPhase(s)'
  <2>1. CASE s = r
    BY <2>1, <1>1 DEF RowPhase, SecretPhase, Past
  <2>2. CASE s # r
    <3>1. RowPhase(s) /\ SecretPhase(s)
      BY DEF Orderly
    <3>2. RowPhase(s)'
      BY <2>2, <3>1, <1>1, <1>2 DEF RowPhase, Trusted
    <3>3. SecretPhase(s)'
      BY <2>2, <3>1, <1>1, <1>2 DEF SecretPhase
    <3> QED
      BY <3>2, <3>3
  <2> QED
    BY <2>1, <2>2
<1> QED
  BY <1>3, <1>4, <1>5 DEF Orderly

\* A call passes its CREATE USER and meets nobody.
LEMMA AddOrderly ==
    ASSUME TypeOK, Shape, Orderly, NEW r \in Rotators, AddUser(r), ~crossed'
    PROVE  Orderly'
<1>0. CallsOK
  BY DEF TypeOK
<1>1. row = old[r] /\ \A q \in Rotators \ {r} : pc[q] \notin Past
  BY DEF AddUser
<1>2. Trusted' = Trusted \cup {new[r]}
  BY DEF AddUser, Trusted
<1>3. UNCHANGED <<row, secret, torn, touched, old, new, cur>> /\ pc'[r] = "write"
  BY <1>0 DEF AddUser, Goto, CallsOK
<1>4. \A s \in Rotators \ {r} : pc'[s] = pc[s]
  BY <1>0 DEF AddUser, Goto, CallsOK
<1>5. RowTrusted' /\ SecretsTrusted'
  BY <1>2, <1>3 DEF Orderly, RowTrusted, SecretsTrusted, Steady
<1>6. OnePast'
  BY <1>1, <1>4 DEF OnePast
<1>7. RowPhase(r)' /\ SecretPhase(r)'
  BY <1>1, <1>2, <1>3 DEF Orderly, RowTrusted, RowPhase, SecretPhase
<1>8. \A s \in Rotators \ {r} : RowPhase(s)' /\ SecretPhase(s)'
  BY <1>1, <1>4 DEF RowPhase, SecretPhase, Past
<1> QED
  BY <1>5, <1>6, <1>7, <1>8 DEF Orderly

\* A step of the only call past its CREATE USER.
LEMMA PastOrderly ==
    ASSUME TypeOK, Shape, LinksInv, Orderly, NEW r \in Rotators, Begin(r) \/ RotationStep(r),
           pc[r] \in Past
    PROVE  Orderly'
<1>0. /\ DbOK /\ CallsOK /\ HistoryOK
      /\ RowTrusted /\ SecretsTrusted /\ RowPhase(r) /\ SecretPhase(r)
      /\ old[r] \in Trusted /\ new[r] \in Trusted
  BY DEF TypeOK, Orderly, RowPhase
<1>1. \A s \in Rotators \ {r} : pc[s] \notin Past /\ cur[s] = {}
  BY DEF Orderly, OnePast, Shape, Past
<1>2. /\ Steady' = Steady /\ links' = links
      /\ \A s \in Rotators \ {r} : pc'[s] = pc[s] /\ cur'[s] = cur[s]
  BY CallFrame
<1>3. Steady \subseteq Apps
  BY DEF Steady
<1> DEFINE Held(a) == \E q \in Rotators : a \in cur[q]
<1>4. \A a : Held(a) <=> a \in cur[r]
  BY <1>1
<1>5. SUFFICES /\ RowTrusted' /\ RowPhase(r)' /\ SecretPhase(r)'
               /\ \A a \in Steady : /\ secret'[a] \subseteq Trusted'
                                    /\ secret'[a] = {} => a \in torn' \/ a \in cur'[r]
  <2>1. \A s \in Rotators \ {r} : RowPhase(s)' /\ SecretPhase(s)'
    BY <1>1, <1>2 DEF RowPhase, SecretPhase, Past
  <2>2. OnePast'
    BY <1>1, <1>2 DEF OnePast
  <2>3. SecretsTrusted'
    BY <1>2, <1>5 DEF SecretsTrusted
  <2> QED
    BY <1>5, <2>1, <2>2, <2>3 DEF Orderly
<1>6. \A a \in Steady : /\ secret[a] \subseteq Trusted
                        /\ secret[a] = {} => a \in torn \/ a \in cur[r]
  BY <1>0, <1>4 DEF SecretsTrusted
<1>7. CASE PollHealthy(r) \/ PollGivesUp(r) \/ Enqueue(r) \/ UndoEnqueue(r)
  <2>1. UNCHANGED <<accounts, blind, row, secret, torn, old, new, cur, todo>>
    BY <1>7 DEF PollHealthy, PollGivesUp, Enqueue, UndoEnqueue, dbVars, histVars
  <2>2. \/ pc[r] = "poll" /\ pc'[r] \in {"drop", "undo"}
        \/ pc[r] = "swap" /\ pc'[r] \in {"drop", "poll"} /\ todo[r] = {}
        \/ pc[r] = "undoSwap" /\ pc'[r] = "undoDrop" /\ todo[r] = {}
    BY <1>7, <1>0 DEF PollHealthy, PollGivesUp, Enqueue, UndoEnqueue, Goto, CallsOK
  <2>3. RowTrusted' /\ RowPhase(r)'
    BY <1>0, <2>1, <2>2 DEF RowTrusted, RowPhase, Trusted, Past
  <2>4. SecretPhase(r)'
    BY <1>0, <1>2, <2>1, <2>2 DEF SecretPhase
  <2> QED
    BY <1>6, <2>1, <2>3, <2>4 DEF Trusted
<1>8. CASE Finish(r) \/ UndoFails(r) \/ Throws(r)
  <2>1. UNCHANGED <<accounts, blind, row, secret>> /\ torn' = torn \cup cur[r]
    <3>1. CASE Finish(r)
      BY <3>1, <1>0 DEF Finish, Shape, histVars, HistoryOK
    <3> QED
      BY <1>8, <3>1 DEF UndoFails, Throws, Tear, dbVars
  <2>2. pc'[r] \in {"unlock", "release", "idle"}
    BY <1>8, <1>0 DEF Finish, Return, UndoFails, Throws, Goto, CallsOK
  <2>3. RowTrusted' /\ RowPhase(r)' /\ SecretPhase(r)'
    BY <1>0, <2>1, <2>2 DEF RowTrusted, RowPhase, SecretPhase, Trusted, Past
  <2> QED
    BY <1>6, <2>1, <2>3 DEF Trusted
<1>9. CASE WriteRow(r) \/ UndoRow(r)
  <2>1. UNCHANGED <<accounts, blind, secret, torn, old, new, cur, todo>>
    BY <1>9 DEF WriteRow, UndoRow, histVars
  <2>2. \/ pc[r] = "write" /\ pc'[r] = "links" /\ row' = new[r]
        \/ pc[r] = "undo" /\ pc'[r] = "undoLinks" /\ row' = old[r]
    BY <1>9, <1>0 DEF WriteRow, UndoRow, Goto, CallsOK
  <2>3. RowTrusted' /\ RowPhase(r)'
    BY <1>0, <2>1, <2>2 DEF RowTrusted, RowPhase, Trusted, Past
  <2>4. SecretPhase(r)'
    BY <2>2 DEF SecretPhase
  <2> QED
    BY <1>6, <2>1, <2>3, <2>4 DEF Trusted
<1>10. CASE ReadLinks(r) \/ UndoLinks(r)
  <2>1. UNCHANGED <<accounts, blind, row, secret, torn, old, new, cur>> /\ todo'[r] = links
    BY <1>10, <1>0 DEF ReadLinks, UndoLinks, dbVars, histVars, CallsOK
  <2>2. \/ pc[r] = "links" /\ pc'[r] = "swap"
        \/ pc[r] = "undoLinks" /\ pc'[r] = "undoSwap"
    BY <1>10, <1>0 DEF ReadLinks, UndoLinks, Goto, CallsOK
  <2>3. RowTrusted' /\ RowPhase(r)'
    BY <1>0, <2>1, <2>2 DEF RowTrusted, RowPhase, Trusted, Past
  <2>4. Steady' \ todo'[r] = {}
    BY <2>1, <1>2 DEF LinksInv
  <2>5. SecretPhase(r)'
    BY <2>2, <2>4 DEF SecretPhase
  <2> QED
    BY <1>6, <2>1, <2>3, <2>5 DEF Trusted
<1>11. ASSUME NEW a \in Apps, DeleteSecrets(r, a)
       PROVE  /\ RowTrusted' /\ RowPhase(r)' /\ SecretPhase(r)'
              /\ \A b \in Steady : /\ secret'[b] \subseteq Trusted'
                                   /\ secret'[b] = {} => b \in torn' \/ b \in cur'[r]
  <2>1. /\ secret'[a] = {} /\ \A b \in Apps \ {a} : secret'[b] = secret[b]
        /\ todo'[r] = todo[r] \ {a} /\ cur'[r] = {a}
    BY <1>11, <1>0 DEF DeleteSecrets, DbOK, CallsOK
  <2>2. \/ pc[r] = "swap" /\ pc'[r] = "insert"
        \/ pc[r] = "undoSwap" /\ pc'[r] = "undoInsert"
    BY <1>11, <1>0 DEF DeleteSecrets, Goto, CallsOK
  <2>3. UNCHANGED <<accounts, blind, row, torn, old, new>> /\ cur[r] = {}
    BY <1>11, <2>2 DEF DeleteSecrets, histVars, Shape
  <2>4. RowTrusted' /\ RowPhase(r)'
    BY <1>0, <2>2, <2>3 DEF RowTrusted, RowPhase, Trusted, Past
  <2>5. SecretPhase(r)'
    BY <1>0, <1>2, <1>3, <2>1, <2>2, <2>3 DEF SecretPhase
  <2>6. \A b \in Steady : /\ secret'[b] \subseteq Trusted'
                          /\ secret'[b] = {} => b \in torn' \/ b \in cur'[r]
    BY <1>3, <1>6, <2>1, <2>3 DEF Trusted
  <2> QED
    BY <2>4, <2>5, <2>6
<1>12. CASE InsertSecrets(r)
  <2> DEFINE login == IF pc[r] = "insert" THEN new[r] ELSE old[r]
  <2>1. /\ \A b \in Apps : secret'[b] = IF b \in cur[r] THEN secret[b] \cup {login} ELSE secret[b]
        /\ torn' = torn \ cur[r] /\ cur'[r] = {}
    BY <1>12, <1>0 DEF InsertSecrets, CallsOK
  <2>2. \/ pc[r] = "insert" /\ pc'[r] = "swap"
        \/ pc[r] = "undoInsert" /\ pc'[r] = "undoSwap"
    BY <1>12, <1>0 DEF InsertSecrets, Goto, CallsOK
  <2>3. UNCHANGED <<accounts, blind, row, old, new, todo>>
    BY <1>12 DEF InsertSecrets
  <2>4. RowTrusted' /\ RowPhase(r)'
    BY <1>0, <2>2, <2>3 DEF RowTrusted, RowPhase, Trusted, Past
  <2>5. SecretPhase(r)'
    BY <1>0, <1>2, <1>3, <2>1, <2>2, <2>3 DEF SecretPhase
  <2>6. login \in Trusted
    BY <1>0
  <2>7. \A b \in Steady : /\ secret'[b] \subseteq Trusted'
                          /\ secret'[b] = {} => b \in torn' \/ b \in cur'[r]
    BY <1>3, <1>6, <2>1, <2>3, <2>6 DEF Trusted
  <2> QED
    BY <2>4, <2>5, <2>7
<1>13. CASE DropOld(r) \/ UndoDrop(r)
  <2>1. UNCHANGED <<blind, row, secret, torn, old, new, cur>>
    BY <1>13 DEF DropOld, UndoDrop, histVars
  <2>2. new[r].user # 0
    <3>1. pc[r] # "idle" /\ old[r].user \in Nat
      BY <1>0 DEF Past, CallsOK, Logins
    <3> QED
      BY <3>1, NewIsLater DEF Shape
  <2>3. CASE accounts' = accounts
    <3>1. \/ pc[r] = "drop" /\ pc'[r] = "done"
          \/ pc[r] = "undoDrop" /\ pc'[r] = "unlock"
      BY <1>13, <1>0 DEF DropOld, UndoDrop, Goto, CallsOK
    <3>2. RowTrusted' /\ RowPhase(r)'
      BY <1>0, <2>1, <2>3, <3>1 DEF RowTrusted, RowPhase, Trusted, Past
    <3>3. SecretPhase(r)'
      BY <1>0, <1>2, <2>1, <3>1 DEF SecretPhase
    <3> QED
      BY <1>6, <2>1, <2>3, <3>2, <3>3 DEF Trusted
  <2>4. CASE accounts' # accounts
    <3>1. pc[r] = "undoDrop" /\ pc'[r] = "unlock" /\ old[r].user = 0
      BY <1>13, <1>0, <2>2, <2>4 DEF DropOld, UndoDrop, DropUser, Goto, CallsOK
    <3>2. accounts' = {c \in accounts : c.user # new[r].user}
      BY <1>13, <2>2, <2>4 DEF DropOld, UndoDrop, DropUser
    <3>3. old[r] = First /\ First \in accounts'
      BY <3>1, <3>2, <2>2 DEF Shape, First
    <3>4. row = old[r] /\ \A a \in Steady : secret[a] = {old[r]}
      BY <1>0, <3>1 DEF RowPhase, SecretPhase
    <3>5. RowTrusted' /\ RowPhase(r)' /\ SecretPhase(r)'
      BY <2>1, <3>1, <3>3, <3>4 DEF RowTrusted, RowPhase, SecretPhase, Trusted, Past
    <3> QED
      BY <2>1, <3>3, <3>4, <3>5 DEF Trusted
  <2> QED
    BY <2>3, <2>4
<1> QED
  <2>1. ~(Begin(r) \/ LockRow(r) \/ AddUser(r) \/ Unlock(r) \/ Release(r) \/ ReleaseFails(r))
    BY DEF Begin, LockRow, AddUser, Unlock, Release, ReleaseFails, Past
  <2> QED
    BY <2>1, <1>7, <1>8, <1>9, <1>10, <1>11, <1>12, <1>13 DEF RotationStep

\* A step of a call.
LEMMA CallCore ==
    ASSUME TypeOK, Core, NEW r \in Rotators, Begin(r) \/ RotationStep(r)
    PROVE  Core'
<1>1. Shape' /\ (crossed' => blind' # {})
  BY CallShape, CallCrossed DEF Core
<1>2. LinksInv'
  BY CallFrame DEF Core, LinksInv
<1>3. ASSUME ~crossed' PROVE Orderly'
  <2>1. ~crossed
    BY <1>3 DEF Begin, RotationStep, LockRow, AddUser, WriteRow, ReadLinks, DeleteSecrets,
                InsertSecrets, Enqueue, PollHealthy, PollGivesUp, DropOld, Finish, UndoRow,
                UndoLinks, UndoEnqueue, UndoDrop, UndoFails, Unlock, Throws, Release,
                ReleaseFails, histVars
  <2>2. Shape /\ LinksInv /\ Orderly
    BY <2>1 DEF Core
  <2>3. CASE pc[r] \in Past
    BY <2>2, <2>3, PastOrderly
  <2>4. CASE AddUser(r)
    BY <1>3, <2>2, <2>4, AddOrderly
  <2>5. CASE pc[r] \notin Past /\ ~AddUser(r)
    BY <2>2, <2>5, BeforeOrderly DEF Before
  <2> QED
    BY <2>3, <2>4, <2>5
<1> QED
  BY <1>1, <1>2, <1>3 DEF Core

\* Applications do not touch what the calls rely on.
LEMMA OtherCore ==
    ASSUME TypeOK, Core, (\E a \in Apps : AppStep(a)) \/ Crash \/ UNCHANGED vars
    PROVE  Core'
<1>0. Shape /\ LinksInv /\ (crossed => blind # {}) /\ (~crossed => Orderly)
      /\ DbOK /\ AppsOK /\ CallsOK
  BY DEF Core, TypeOK
<1> DEFINE Kept == /\ UNCHANGED <<accounts, row, callVars, histVars>>
                   /\ Steady' \subseteq Steady
                   /\ \A b \in Steady' : secret'[b] = secret[b]
<1>1. ASSUME Kept PROVE Shape' /\ (crossed' => blind' # {}) /\ (~crossed' => Orderly')
  <2>1. Shape' /\ (crossed' => blind' # {})
    BY <1>0, <1>1 DEF callVars, histVars, Shape
  <2>2. ASSUME ~crossed' PROVE Orderly'
    <3>1. Orderly
      BY <1>0, <1>1, <2>2 DEF histVars
    <3>2. RowTrusted' /\ SecretsTrusted' /\ OnePast'
      BY <1>1, <3>1 DEF callVars, histVars, Orderly, RowTrusted, SecretsTrusted, OnePast, Trusted
    <3>3. ASSUME NEW r \in Rotators PROVE RowPhase(r)' /\ SecretPhase(r)'
      <4>1. RowPhase(r) /\ SecretPhase(r)
        BY <3>1 DEF Orderly
      <4>2. UNCHANGED <<pc, old, new, todo, cur, row, accounts, blind>>
        BY <1>1 DEF callVars, histVars
      <4>3. RowPhase(r)'
        BY <4>1, <4>2 DEF RowPhase, Trusted
      <4>4. SecretPhase(r)'
        BY <1>1, <4>1, <4>2 DEF SecretPhase
      <4> QED
        BY <4>3, <4>4
    <3> QED
      BY <3>2, <3>3 DEF Orderly
  <2> QED
    BY <2>1, <2>2
<1>2. ASSUME NEW a \in Apps, DeployStart(a) \/ DeployEnd(a) \/ DeployFails(a) \/ RedeployJob(a)
      PROVE  Core'
  <2>1. UNCHANGED <<accounts, row, links, secret, linking, touched, callVars, histVars>>
    BY <1>2 DEF DeployStart, DeployEnd, DeployFails, RedeployJob, dbVars
  <2>2. Kept /\ LinksInv'
    BY <1>0, <2>1 DEF Steady, LinksInv
  <2> QED
    BY <1>1, <2>2 DEF Core
<1>3. ASSUME NEW a \in Apps, LinkRead(a) PROVE Core'
  <2>1. Steady' = Steady \ {a} /\ UNCHANGED <<accounts, row, links, secret, callVars, histVars>>
    BY <1>3 DEF LinkRead, Steady, dbVars
  <2>2. LinksInv'
    BY <1>0, <1>3, <2>1 DEF LinkRead, LinksInv, AppsOK, Steady
  <2> QED
    BY <1>1, <2>1, <2>2 DEF Core
<1>4. ASSUME NEW a \in Apps, LinkWrite(a) \/ Unlink(a) PROVE Core'
  <2>1. a \notin Steady' /\ Steady' \subseteq Steady
    BY <1>0, <1>4 DEF LinkWrite, Unlink, Steady, LinksInv
  <2>2. \A b \in Steady' : secret'[b] = secret[b]
    BY <1>0, <1>4, <2>1 DEF LinkWrite, Unlink, DbOK, Steady
  <2>3. LinksInv'
    BY <1>0, <1>4, <2>1 DEF LinkWrite, Unlink, LinksInv, AppsOK, Steady
  <2>4. UNCHANGED <<accounts, row, callVars, histVars>>
    BY <1>4 DEF LinkWrite, Unlink
  <2> QED
    BY <1>1, <2>1, <2>2, <2>3, <2>4 DEF Core
<1>5. CASE Crash
  <2>1. UNCHANGED <<accounts, row, links, secret, touched, blind, crossed>> /\ Steady' = Steady
    BY <1>5 DEF Crash, dbVars, Steady
  <2>2. \A r \in Rotators : pc'[r] = "idle" /\ old'[r] = First /\ cur'[r] = {}
    BY <1>5 DEF Crash
  <2>3. LinksInv'
    BY <1>0, <1>5, <2>1 DEF Crash, LinksInv, Steady
  <2>4. Shape'
    BY <1>0, <2>1, <2>2 DEF Shape
  <2>5. ASSUME ~crossed' PROVE Orderly'
    <3>1. Orderly
      BY <1>0, <2>1, <2>5
    <3>2. RowTrusted'
      BY <2>1, <3>1 DEF Orderly, RowTrusted, Trusted
    <3>3. SecretsTrusted'
      BY <1>5, <2>1, <3>1 DEF Crash, Orderly, SecretsTrusted, Trusted
    <3>4. \A r \in Rotators : pc'[r] \notin Past
      BY <2>2 DEF Past
    <3>5. OnePast' /\ \A r \in Rotators : RowPhase(r)' /\ SecretPhase(r)'
      BY <3>4 DEF OnePast, RowPhase, SecretPhase, Past
    <3> QED
      BY <3>2, <3>3, <3>5 DEF Orderly
  <2> QED
    BY <1>0, <2>1, <2>3, <2>4, <2>5 DEF Core
<1>6. CASE UNCHANGED vars
  <2>1. Kept /\ LinksInv'
    BY <1>0, <1>6 DEF vars, dbVars, appVars, callVars, histVars, Steady, LinksInv
  <2> QED
    BY <1>1, <2>1 DEF Core
<1> QED
  BY <1>2, <1>3, <1>4, <1>5, <1>6 DEF AppStep

(* The inductive invariant, for any number of overlapping calls: until two *)
(* of them meet, at most one is past its CREATE USER, and at each point of *)
(* rotatePassword and of its rollback it is known which login the row and  *)
(* the secrets hold; and they meet only after an exec without an answer.   *)
THEOREM RotationInvariant == Spec => []IInv
<1>1. IInv /\ [Next]_vars => IInv'
  <2>1. SUFFICES ASSUME IInv, [Next]_vars PROVE IInv'
    OBVIOUS
  <2>2. TypeOK /\ Core
    BY <2>1 DEF IInv
  <2>3. ASSUME NEW r \in Rotators, Begin(r) \/ RotationStep(r) PROVE IInv'
    BY <2>2, <2>3, CallType, CallCore DEF IInv
  <2>4. CASE (\E a \in Apps : AppStep(a)) \/ Crash \/ UNCHANGED vars
    BY <2>2, <2>4, OtherType, OtherCore DEF IInv
  <2> QED
    BY <2>1, <2>3, <2>4 DEF Next
<1> QED
  BY <1>1, InitIInv, PTL DEF Spec

(* Every status, login and counter of the rotation stays in its type.      *)
THEOREM RotationTypeOK == Spec => []TypeOK
<1>1. IInv => TypeOK
  BY DEF IInv
<1> QED
  BY <1>1, RotationInvariant, PTL

(* Whatever throws, dies or overlaps, the login recorded in `databases` is *)
(* one that the database accepts or that no exec confirmed, unless two     *)
(* calls met over an unanswered exec.                                      *)
THEOREM RotationRowLoginWorks == Spec => []RowLoginWorks
<1>1. IInv => RowLoginWorks
  BY DEF IInv, Core, Orderly, RowTrusted, Trusted, RowLoginWorks, Excused
<1> QED
  BY <1>1, RotationInvariant, PTL

(* ... and so it is with the secrets of every application that stays       *)
(* linked, which are missing only where the replacement of them was cut    *)
(* off.                                                                    *)
THEOREM RotationSecretsWork == Spec => []SecretsWork
<1>1. IInv => SecretsWork
  BY DEF IInv, Core, Orderly, SecretsTrusted, Trusted, SecretsWork, Excused
<1> QED
  BY <1>1, RotationInvariant, PTL

(* A rotation that completes has replaced the secrets of every application *)
(* that stays linked by the recorded login.                                *)
THEOREM RotationSecretsFollowRow == Spec => SecretsFollowRow
<1>1. IInv /\ [Next]_vars =>
        [\A r \in Rotators :
            Completes(r) => Excused \/ \A a \in Steady : secret[a] = {row}]_vars
  <2>1. SUFFICES ASSUME IInv, NEW r \in Rotators, Completes(r), ~Excused
                 PROVE  \A a \in Steady : secret[a] = {row}
    OBVIOUS
  <2>2. pc[r] = "done" /\ RowPhase(r) /\ SecretPhase(r)
    BY <2>1 DEF IInv, Core, Orderly, Completes, Excused
  <2> QED
    BY <2>2 DEF RowPhase, SecretPhase
<1> QED
  BY <1>1, RotationInvariant, PTL DEF Spec, SecretsFollowRow
=============================================================================
