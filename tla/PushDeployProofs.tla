-------------------------- MODULE PushDeployProofs --------------------------
(***************************************************************************)
(* Proofs about PushDeploy, for any number of requests, slots, attempts    *)
(* and failures, whichever requests repeat a push, are tags or are         *)
(* filtered, and whether or not pushes are coalesced.                      *)
(***************************************************************************)
EXTENDS PushDeploy, SequenceTheorems, FiniteSetTheorems, TLAPS

JobRow     == [req : 0..N, st : JobStates, made : 0..MaxAttempts]
LiveStates == {"waiting", "delayed", "active"}
Delivered  == {q \in Requests : delivery[q] # "none"}

(* The queue holds waiting jobs, each once.                                *)
Queued ==
    /\ \A i \in DOMAIN queue : job[queue[i]].st = "waiting"
    /\ \A i, k \in DOMAIN queue : queue[i] = queue[k] => i = k

(* The line for the lock holds active jobs, each once.                     *)
Lined ==
    /\ \A i \in DOMAIN line : job[line[i]].st = "active"
    /\ \A i, k \in DOMAIN line : line[i] = line[k] => i = k

(* A job belongs to a request whose handler is done; a job that is still   *)
(* to be run has attempts left; what is delayed was tried.                 *)
JobsKnown ==
    /\ \A j \in JobIds : job[j].st = "none" => job[j] = NoJob
    /\ \A j \in JobIds : job[j].st # "none" => job[j].req \in Requests /\ pc[job[j].req] = "done"
    /\ \A j \in JobIds : job[j].st \in LiveStates => job[j].made < MaxAttempts
    /\ \A j \in JobIds : job[j].st = "delayed" => job[j].made > 0
    /\ \A i \in DOMAIN deployed : pc[deployed[i].req] = "done"

(* Who uses which id: a fresh one belongs to its request, and the number   *)
(* in a suffix is less than the number of deliveries once that of its own  *)
(* request is there, so the next suffix is a new one.                      *)
KeysKnown ==
    /\ \A r \in Requests : pc[r] \in {"getJob", "getState", "drop", "mark"} =>
          key[r] = Base /\ Kind[Push[r]] # "skip"
    /\ \A r \in Requests : pc[r] \in {"build", "add"} => Kind[Push[r]] # "skip"
    /\ \A r, q \in Requests : key[r] = Fresh(q) => r = q
    /\ \A r \in Requests : job[Fresh(r)].st # "none" => pc[r] = "done"
    /\ \A r \in Requests : pc[r] \notin Over \cup {"build", "add"} => delivery[r] = "none"
    /\ \A n \in 0..N : job[Suffixed(n)].st # "none" => n < Cardinality(Delivered)
    /\ \A n \in 0..N, r \in Requests : key[r] = Suffixed(n) =>
          /\ pc[r] = "insert" => n <= Cardinality(Delivered)
          /\ pc[r] \in {"build", "add"} => n < Cardinality(Delivered)

(* Requests arrive in their order.                                         *)
InTurn == \A r, q \in Requests : r < q /\ pc[r] = "new" => pc[q] = "new"

(* A handler that is not in the crowd is the only one, newer requests are  *)
(* not handled yet, and the id under which it will add its job is free.    *)
Alone ==
    /\ \A r, q \in Busy : r # q => r \in crowd
    /\ \A r \in Busy : r \notin crowd =>
          /\ \A q \in Requests : q > r => pc[q] \in {"new", "dedup"}
          /\ pc[r] \in {"mark", "insert", "build", "add"} /\ Kind[Push[r]] # "skip" =>
                job[key[r]].st = "none"

(* A job that was never tried, of a push that was handled alone and that   *)
(* no newer one passed on its way to the lock.                             *)
Clean(j) == job[j].made = 0 /\ job[j].req \notin crowd \cup overtaken

(* No newer job is before such a job in the queue, in the slots or in the  *)
(* line for the lock.                                                      *)
Lanes ==
    /\ \A i, k \in DOMAIN queue :
          i < k /\ Clean(queue[k]) => job[queue[i]].req < job[queue[k]].req
    /\ \A i \in JobIds, k \in DOMAIN queue :
          job[i].st = "active" /\ Clean(queue[k]) => job[i].req < job[queue[k]].req
    /\ \A i, k \in DOMAIN line :
          i < k /\ Clean(line[k]) => job[line[i]].req <= job[line[k]].req
    /\ \A i \in DOMAIN line, j \in Resolving :
          Clean(j) => job[line[i]].req <= job[j].req

(* No newer push was deployed before it.                                   *)
Ahead ==
    /\ \A i \in DOMAIN deployed, k \in DOMAIN queue :
          Clean(queue[k]) => deployed[i].req <= job[queue[k]].req
    /\ \A i \in DOMAIN deployed, j \in JobIds :
          job[j].st = "active" /\ Clean(j) => deployed[i].req <= job[j].req

Shape == TypeOK /\ Queued /\ Lined /\ JobsKnown
IInv  == /\ Shape /\ KeysKnown /\ InTurn /\ Alone /\ NotSwallowed
         /\ Lanes /\ Ahead /\ InOrder

-----------------------------------------------------------------------------
(* Facts about the operators of the model.                                  *)

(* The ids differ.                                                         *)
LEMMA Ids ==
    /\ Base \in JobIds
    /\ \A n \in 0..N : Suffixed(n) \in JobIds /\ Suffixed(n) # Base
    /\ \A r \in Requests : Fresh(r) \in JobIds /\ Fresh(r) # Base
    /\ \A n \in 0..N, r \in Requests : Suffixed(n) # Fresh(r)
    /\ \A m, n \in 0..N : Suffixed(m) = Suffixed(n) => m = n
    /\ \A r, q \in Requests : Fresh(r) = Fresh(q) => r = q
    /\ \A j \in JobIds : \/ j = Base \/ \E n \in 0..N : j = Suffixed(n)
                         \/ \E r \in Requests : j = Fresh(r)
  BY DEF JobIds, Base, Suffixed, Fresh

(* The number of deliveries is bounded by the number of requests.          *)
LEMMA Count == IsFiniteSet(Delivered) /\ Cardinality(Delivered) \in 0..N
  <1>1. IsFiniteSet(Requests) /\ Cardinality(Requests) = N
    BY PushAssumption, FS_Interval DEF Requests
  <1>2. Delivered \subseteq Requests
    BY DEF Delivered
  <1>3. IsFiniteSet(Delivered) /\ Cardinality(Delivered) <= N
    BY <1>1, <1>2, FS_Subset
  <1> QED
    BY <1>3, PushAssumption, FS_CardinalityType

(* What is left of a sequence when its element at i is removed.            *)
LEMMA Removed ==
    ASSUME NEW S, NEW s \in Seq(S), NEW i \in DOMAIN s
    PROVE  /\ RemoveAt(s, i) \in Seq(S)
           /\ Len(RemoveAt(s, i)) = Len(s) - 1
           /\ \A k \in 1..(Len(s) - 1) :
                 RemoveAt(s, i)[k] = s[IF k < i THEN k ELSE k + 1]
  <1> DEFINE a == SubSeq(s, 1, i - 1)
             b == SubSeq(s, i + 1, Len(s))
  <1>0. Len(s) \in Nat /\ i \in 1..Len(s) /\ DOMAIN s = 1..Len(s)
    BY LenProperties
  <1>1. a \in Seq(S) /\ Len(a) = i - 1 /\ \A k \in 1..(i - 1) : a[k] = s[k]
    <2>1. \A k \in 1..(i - 1) : s[k] \in S
      BY <1>0, ElementOfSeq
    <2>2. 1 \in Int /\ i - 1 \in Int
      BY <1>0
    <2> QED
      BY <1>0, <2>1, <2>2, SubSeqProperties
  <1>2. b \in Seq(S) /\ Len(b) = Len(s) - i /\ \A k \in 1..(Len(s) - i) : b[k] = s[i + k]
    <2>1. \A k \in (i + 1)..Len(s) : s[k] \in S
      BY <1>0, ElementOfSeq
    <2>2. i + 1 \in Int /\ Len(s) \in Int
      BY <1>0
    <2> QED
      BY SMTT(20), <1>0, <2>1, <2>2, SubSeqProperties
  <1> DEFINE c == a \o b
  <1> HIDE DEF a, b
  <1>3. /\ c \in Seq(S) /\ Len(c) = Len(a) + Len(b)
        /\ \A k \in 1..(Len(a) + Len(b)) :
              c[k] = IF k <= Len(a) THEN a[k] ELSE b[k - Len(a)]
    BY <1>1, <1>2, ConcatProperties
  <1> HIDE DEF c
  <1>4. Len(a) + Len(b) = Len(s) - 1
    BY <1>0, <1>1, <1>2
  <1>5. ASSUME NEW k \in 1..(Len(s) - 1)
        PROVE  c[k] = s[IF k < i THEN k ELSE k + 1]
    <2>1. CASE k < i
      BY <1>0, <1>1, <1>3, <1>4, <2>1
    <2>2. CASE ~(k < i)
      <3>1. k - Len(a) \in 1..(Len(s) - i) /\ i + (k - Len(a)) = k + 1
        BY <1>0, <1>1, <2>2
      <3>2. c[k] = b[k - Len(a)]
        BY <1>0, <1>1, <1>3, <1>4, <2>2
      <3> QED
        BY <1>2, <2>2, <3>1, <3>2
    <2> QED
      BY <2>1, <2>2
  <1> QED
    BY <1>3, <1>4, <1>5 DEF RemoveAt, a, b, c

-----------------------------------------------------------------------------
(* What the steps do.                                                       *)

(* The state of the job decides under which id a push is added.            *)
LEMMA GetStateStep ==
    ASSUME TypeOK, NEW r \in Requests, GetState(r)
    PROVE  /\ \/ key'[r] = Base /\ pc'[r] = "drop"
              \/ key'[r] = Suffixed(Cardinality(Delivered)) /\ pc'[r] = "insert"
           /\ key' \in [Requests -> JobIds] /\ pc' \in [Requests -> Steps]
           /\ saw' \in [Requests -> JobStates \cup {"unknown"}]
  <1> DEFINE st == IF job[Base] = NoJob THEN "unknown" ELSE job[Base].st
             choice == resolveCoalesceJobId(r, st)
  <1>1. \/ choice[1] = Base /\ choice[2] = "drop"
        \/ choice[1] = Suffixed(Cardinality(Delivered)) /\ choice[2] = "insert"
    BY DEF resolveCoalesceJobId, Delivered
  <1>2. st \in JobStates \cup {"unknown"}
    BY Ids DEF TypeOK
  <1>3. /\ saw' = [saw EXCEPT ![r] = IF choice[2] = "drop" THEN st ELSE "none"]
        /\ key' = [key EXCEPT ![r] = choice[1]]
        /\ pc' = [pc EXCEPT ![r] = choice[2]]
    BY DEF GetState, Goto
  <1> HIDE DEF st, choice
  <1>4. choice[1] \in JobIds
    BY <1>1, Ids, Count
  <1> QED
    BY <1>1, <1>2, <1>3, <1>4 DEF TypeOK, JobStates, Steps

(* A handler's step concerns its own request.                              *)
LEMMA RequestStep ==
    ASSUME TypeOK, NEW r \in Requests, Receive(r) \/ Handle(r) \/ Abort(r)
    PROVE  /\ pc[r] \notin Over /\ pc'[r] # "new" /\ pc'[r] \in Steps
           /\ \A q \in Requests : q # r => pc'[q] = pc[q] /\ key'[q] = key[q]
           /\ deployed' = deployed /\ crowd \subseteq crowd'
           /\ line' = line /\ overtaken' = overtaken /\ gaveUp' = gaveUp
           /\ Receive(r) \/ (r \in Busy /\ crowd' = crowd)
  <1>0. pc \in [Requests -> Steps] /\ key \in [Requests -> JobIds]
    BY DEF TypeOK
  <1>1. CASE Receive(r)
    <2>1. \E label \in {"dedup", "insert", "getJob"} : Goto(r, label)
      BY <1>1 DEF Receive
    <2>2. /\ pc[r] = "new" /\ deployed' = deployed /\ crowd \subseteq crowd'
          /\ line' = line /\ overtaken' = overtaken /\ gaveUp' = gaveUp
      BY <1>1 DEF Receive, jobVars, lockVars
    <2>3. \A q \in Requests : q # r => key'[q] = key[q]
      BY <1>0, <1>1 DEF Receive
    <2> QED
      BY <1>0, <1>1, <2>1, <2>2, <2>3 DEF Goto, Over, Steps
  <1>2. CASE Handle(r) \/ Abort(r)
    <2>1. pc[r] \notin Over \cup {"new"}
      BY <1>2 DEF Handle, GetJob, GetState, Drop, Mark, InsertDelivery, createPendingBuild, Add,
                  Abort, Busy, Over
    <2>2. \E label \in Steps \ {"new"} : Goto(r, label)
      <3>1. CASE GetState(r)
        BY <3>1, <1>0, GetStateStep DEF Goto, Steps, GetState
      <3> QED
        BY <1>2, <3>1 DEF Handle, GetJob, Drop, Mark, InsertDelivery, createPendingBuild, Add,
                          Abort, Steps
    <2>3. \A q \in Requests : q # r => key'[q] = key[q]
      BY <1>0, <1>2 DEF Handle, GetJob, GetState, Drop, Mark, InsertDelivery,
                        createPendingBuild, Add, Abort
    <2>4. /\ deployed' = deployed /\ crowd' = crowd
          /\ line' = line /\ overtaken' = overtaken /\ gaveUp' = gaveUp
      BY <1>2 DEF Handle, GetJob, GetState, Drop, Mark, InsertDelivery, createPendingBuild,
                  Add, Abort, jobVars, lockVars
    <2> QED
      BY <1>0, <2>1, <2>2, <2>3, <2>4 DEF Goto, Busy
  <1> QED
    BY <1>1, <1>2

(* A queue that lost elements: g says where those that are left were.      *)
Shrunk(g) ==
    /\ g \in [DOMAIN queue' -> DOMAIN queue]
    /\ \A k \in DOMAIN queue' : queue'[k] = queue[g[k]]
    /\ \A k, l \in DOMAIN queue' : k < l => g[k] < g[l]

LEMMA DropStep ==
    ASSUME TypeOK, Queued, NEW r \in Requests, Drop(r), job[Base].st # "active"
    PROVE  /\ queue' \in Seq(JobIds)
           /\ job' = [job EXCEPT ![Base] = NoJob]
           /\ \E g : Shrunk(g) /\ \A k \in DOMAIN queue' : queue'[k] # Base
  <1>0. queue \in Seq(JobIds) /\ Len(queue) \in Nat /\ DOMAIN queue = 1..Len(queue)
    BY LenProperties DEF TypeOK
  <1>1. job' = [job EXCEPT ![Base] = NoJob]
    BY DEF Drop
  <1>2. CASE (\A i \in DOMAIN queue : queue[i] # Base) /\ queue' = queue
    <2> DEFINE g == [k \in DOMAIN queue |-> k]
    <2>1. Shrunk(g)
      BY <1>2 DEF Shrunk
    <2> QED
      BY <1>0, <1>1, <1>2, <2>1
  <1>3. ASSUME NEW i \in DOMAIN queue, queue[i] = Base, queue' = RemoveAt(queue, i)
        PROVE  /\ queue' \in Seq(JobIds)
               /\ \E g : Shrunk(g) /\ \A k \in DOMAIN queue' : queue'[k] # Base
    <2> DEFINE g == [k \in DOMAIN queue' |-> IF k < i THEN k ELSE k + 1]
    <2>1. /\ queue' \in Seq(JobIds) /\ Len(queue') = Len(queue) - 1
          /\ \A k \in 1..(Len(queue) - 1) : queue'[k] = queue[IF k < i THEN k ELSE k + 1]
      BY <1>0, <1>3, Removed
    <2>2. DOMAIN queue' = 1..(Len(queue) - 1)
      BY <2>1, LenProperties
    <2>3. Shrunk(g)
      BY <1>0, <1>3, <2>1, <2>2 DEF Shrunk
    <2>4. \A k \in DOMAIN queue' : g[k] # i
      BY <1>0, <2>2
    <2> HIDE DEF g
    <2>5. \A k \in DOMAIN queue' : queue'[k] # Base
      BY <1>3, <2>3, <2>4 DEF Shrunk, Queued
    <2> QED
      BY <2>1, <2>3, <2>5
  <1> QED
    BY <1>1, <1>2, <1>3 DEF Drop

LEMMA TakeStep ==
    ASSUME TypeOK, Queued, Take
    PROVE  /\ queue' \in Seq(JobIds)
           /\ 1 \in DOMAIN queue /\ queue[1] \in JobIds /\ job[queue[1]].st = "waiting"
           /\ job' = [job EXCEPT ![queue[1]].st = "active"]
           /\ \E g : Shrunk(g) /\ \A k \in DOMAIN queue' : g[k] > 1 /\ queue'[k] # queue[1]
  <1>0. queue \in Seq(JobIds) /\ Len(queue) \in Nat /\ DOMAIN queue = 1..Len(queue) /\ queue # <<>>
    BY LenProperties DEF TypeOK, Take
  <1>1. Head(queue) = queue[1] /\ 1 \in DOMAIN queue
    BY <1>0
  <1>2. /\ queue' \in Seq(JobIds) /\ Len(queue') = Len(queue) - 1
        /\ \A k \in 1..Len(queue') : queue'[k] = queue[k + 1]
    BY <1>0, HeadTailProperties DEF Take
  <1>3. DOMAIN queue' = 1..(Len(queue) - 1)
    BY <1>2, LenProperties
  <1> DEFINE g == [k \in DOMAIN queue' |-> k + 1]
  <1>4. Shrunk(g)
    BY <1>0, <1>2, <1>3 DEF Shrunk
  <1>5. \A k \in DOMAIN queue' : g[k] > 1
    BY <1>0, <1>3
  <1> HIDE DEF g
  <1>6. \A k \in DOMAIN queue' : queue'[k] # queue[1]
    BY <1>0, <1>1, <1>4, <1>5 DEF Shrunk, Queued
  <1>7. queue[1] \in JobIds /\ job[queue[1]].st = "waiting"
    BY <1>0, <1>1, ElementOfSeq DEF Queued
  <1> QED
    BY <1>1, <1>2, <1>4, <1>5, <1>6, <1>7 DEF Take

(* The jobs in the line.                                                   *)
LEMMA LineRows ==
    ASSUME TypeOK
    PROVE  /\ line \in Seq(JobIds) /\ Len(line) \in Nat /\ DOMAIN line = 1..Len(line)
           /\ \A i \in DOMAIN line : line[i] \in JobIds
  <1>1. line \in Seq(JobIds)
    BY DEF TypeOK
  <1> QED
    BY <1>1, LenProperties, ElementOfSeq

(* The holder of the lock is the first one in the line.                    *)
LEMMA Holder ==
    ASSUME TypeOK, Lined, NEW j \in JobIds, HoldsLock(j)
    PROVE  /\ 1 \in DOMAIN line /\ line[1] = j /\ job[j].st = "active"
           /\ Tail(line) \in Seq(JobIds) /\ DOMAIN Tail(line) = 1..(Len(line) - 1)
           /\ \A k \in DOMAIN Tail(line) : /\ k + 1 \in DOMAIN line
                                           /\ Tail(line)[k] = line[k + 1]
                                           /\ Tail(line)[k] # j
  <1>0. line # <<>> /\ Head(line) = j
    BY DEF HoldsLock
  <1>1. 1 \in DOMAIN line /\ line[1] = j
    BY <1>0, LineRows
  <1>2. /\ Tail(line) \in Seq(JobIds) /\ Len(Tail(line)) = Len(line) - 1
        /\ \A k \in 1..Len(Tail(line)) : Tail(line)[k] = line[k + 1]
    BY <1>0, LineRows, HeadTailProperties
  <1>3. DOMAIN Tail(line) = 1..(Len(line) - 1)
    BY <1>2, LenProperties
  <1>4. \A k \in DOMAIN Tail(line) : k + 1 \in DOMAIN line /\ k + 1 # 1
    BY <1>3, LineRows
  <1>5. job[j].st = "active"
    BY <1>1 DEF Lined
  <1> QED
    BY <1>1, <1>2, <1>3, <1>4, <1>5 DEF Lined

(* A job joins the line.                                                   *)
LEMMA ResolveStep ==
    ASSUME TypeOK, NEW j \in JobIds, Resolve(j)
    PROVE  /\ job[j].st = "active" /\ \A i \in DOMAIN line : line[i] # j
           /\ line' \in Seq(JobIds) /\ DOMAIN line' = 1..(Len(line) + 1)
           /\ line'[Len(line) + 1] = j /\ \A k \in DOMAIN line : line'[k] = line[k]
           /\ job' = job /\ queue' = queue /\ deployed' = deployed /\ build' = build
           /\ gaveUp' = gaveUp /\ overtaken \subseteq overtaken'
  <1>1. line' = Append(line, j)
    BY DEF Resolve
  <1>2. /\ line' \in Seq(JobIds) /\ DOMAIN line' = 1..(Len(line) + 1)
        /\ line'[Len(line) + 1] = j /\ \A k \in DOMAIN line : line'[k] = line[k]
    BY <1>1, LineRows
  <1> QED
    BY <1>2 DEF Resolve, Resolving, rowVars

(* What an attempt does to its job, whether it gets to the lock or not.    *)
LEMMA TryStep ==
    ASSUME TypeOK, Lined, JobsKnown, NEW j \in JobIds, Attempt(j) \/ ResolveFails(j)
    PROVE  /\ job[j].st = "active"
           /\ job' \in [JobIds -> JobRow]
           /\ job'[j].req = job[j].req /\ job'[j].made = job[j].made + 1
           /\ \/ job'[j].st \in {"completed", "failed"}
              \/ job'[j].st = "delayed" /\ job'[j].made < MaxAttempts
           /\ \A i \in JobIds : i # j => job'[i] = job[i]
           /\ queue' = queue
  <1>0. job \in [JobIds -> JobRow] /\ MaxAttempts \in Nat
    BY PushAssumption DEF TypeOK, JobRow
  <1>1. job[j].st = "active"
    BY Holder DEF Attempt, Succeed, Fail, ResolveFails, Resolving
  <1>2. /\ job[j].made \in Nat /\ job[j].made < MaxAttempts /\ job[j].req \in Requests
        /\ job[j] \in JobRow
    BY <1>0, <1>1 DEF JobsKnown, LiveStates, JobRow
  <1>3. ASSUME NEW st \in {"completed", "failed", "delayed"},
               st = "delayed" => job[j].made + 1 # MaxAttempts,
               job' = [job EXCEPT ![j].st = st, ![j].made = @ + 1]
        PROVE  /\ job' \in [JobIds -> JobRow]
               /\ job'[j].req = job[j].req /\ job'[j].made = job[j].made + 1
               /\ job'[j].st = st /\ (st = "delayed" => job'[j].made < MaxAttempts)
               /\ \A i \in JobIds : i # j => job'[i] = job[i]
    <2>1. job' = [job EXCEPT ![j] = [job[j] EXCEPT !.st = st, !.made = @ + 1]]
      BY <1>0, <1>3
    <2>2. [job[j] EXCEPT !.st = st, !.made = @ + 1] \in JobRow
      <3>1. job[j].made + 1 \in 0..MaxAttempts /\ st \in JobStates
        BY <1>0, <1>2 DEF JobStates
      <3> QED
        BY <1>2, <3>1 DEF JobRow
    <2>3. job'[j] = [job[j] EXCEPT !.st = st, !.made = @ + 1]
      BY <1>0, <2>1
    <2>4. /\ job'[j].req = job[j].req /\ job'[j].made = job[j].made + 1 /\ job'[j].st = st
      BY <1>2, <2>3 DEF JobRow
    <2>5. job' \in [JobIds -> JobRow] /\ \A i \in JobIds : i # j => job'[i] = job[i]
      BY <1>0, <2>1, <2>2
    <2>6. st = "delayed" => job'[j].made < MaxAttempts
      BY <1>0, <1>2, <1>3, <2>4
    <2> QED
      BY <2>4, <2>5, <2>6
  <1>4. CASE Succeed(j)
    BY <1>1, <1>2, <1>3, <1>4 DEF Succeed
  <1>5. ASSUME NEW fatal \in BOOLEAN, Retry(j, fatal)
        PROVE  \E st \in {"failed", "delayed"} :
                  /\ st = "delayed" => job[j].made + 1 # MaxAttempts
                  /\ job' = [job EXCEPT ![j].st = st, ![j].made = @ + 1]
    BY <1>5 DEF Retry
  <1>6. CASE ~Succeed(j)
    <2>1. queue' = queue /\ \E fatal \in BOOLEAN : Retry(j, fatal)
      BY <1>6 DEF Attempt, Fail, ResolveFails
    <2> QED
      BY <1>1, <1>3, <1>5, <2>1
  <1> QED
    BY <1>4, <1>6

(* What an attempt under the lock does to the build's row and to the line. *)
LEMMA AttemptStep ==
    ASSUME TypeOK, Lined, JobsKnown, NEW j \in JobIds, Attempt(j)
    PROVE  /\ build'[job[j].req] \in {"succeeded", "failed"}
           /\ \A r \in Requests : r # job[j].req => build'[r] = build[r]
           /\ build' \in [Requests -> {"none", "pending", "succeeded", "failed"}]
           /\ HoldsLock(j) /\ line' = Tail(line)
           /\ overtaken' = overtaken /\ gaveUp' = gaveUp
  <1>1. job[j].req \in Requests
    BY TryStep DEF JobsKnown
  <1> QED
    BY ZenonT(30), <1>1 DEF Attempt, Succeed, Fail, TypeOK

(* One that does not get that far leaves them alone; when it was the last  *)
(* one, its request is given up.                                           *)
LEMMA RefusedStep ==
    ASSUME TypeOK, Lined, JobsKnown, NEW j \in JobIds, ResolveFails(j)
    PROVE  /\ build' = build /\ deployed' = deployed /\ line' = line
           /\ overtaken' = overtaken /\ gaveUp \subseteq gaveUp' /\ gaveUp' \subseteq Requests
           /\ job'[j].st = "delayed" \/ job[j].req \in gaveUp'
           /\ \A i \in DOMAIN line : line[i] # j
  <1>1. job[j].req \in Requests /\ job \in [JobIds -> JobRow]
    BY TryStep DEF JobsKnown, TypeOK, JobRow
  <1>2. job[j].made + 1 # MaxAttempts => job'[j].st = "delayed"
    BY <1>1 DEF ResolveFails, Retry, JobRow
  <1> QED
    BY <1>1, <1>2 DEF ResolveFails, Resolving, TypeOK, rowVars

(* The deploys so far, and one more.                                       *)
LEMMA DeployRows ==
    ASSUME TypeOK
    PROVE  /\ Len(deployed) \in Nat /\ DOMAIN deployed = 1..Len(deployed)
           /\ \A i \in DOMAIN deployed :
                 deployed[i].req \in Requests /\ deployed[i].made \in 1..MaxAttempts
  <1>1. deployed \in Seq([req : Requests, made : 1..MaxAttempts])
    BY DEF TypeOK
  <1>2. Len(deployed) \in Nat /\ DOMAIN deployed = 1..Len(deployed)
    BY <1>1, LenProperties
  <1>3. \A i \in DOMAIN deployed : deployed[i] \in [req : Requests, made : 1..MaxAttempts]
    BY <1>1, <1>2, ElementOfSeq
  <1> QED
    BY <1>2, <1>3

LEMMA DeployStep ==
    ASSUME TypeOK, Lined, JobsKnown, NEW j \in JobIds, Succeed(j)
    PROVE  LET row == [req |-> job[j].req, made |-> job[j].made + 1]
           IN  /\ DOMAIN deployed' = 1..(Len(deployed) + 1)
               /\ deployed'[Len(deployed) + 1] = row
               /\ \A i \in DOMAIN deployed : deployed'[i] = deployed[i]
               /\ \A i \in DOMAIN deployed' :
                     (i \in DOMAIN deployed /\ deployed'[i] = deployed[i]) \/ deployed'[i] = row
  <1> DEFINE row == [req |-> job[j].req, made |-> job[j].made + 1]
             Rows == [req : Requests, made : 1..MaxAttempts]
  <1>1. deployed \in Seq(Rows) /\ deployed' = Append(deployed, row)
    BY DEF TypeOK, Succeed
  <1>2. row \in Rows
    <2>1. job[j].req \in Requests /\ job[j].made \in 0..MaxAttempts /\ job[j].made < MaxAttempts
      BY Holder DEF Succeed, JobsKnown, LiveStates, TypeOK
    <2>2. job[j].made + 1 \in 1..MaxAttempts
      BY <2>1, PushAssumption
    <2> QED
      BY <2>1, <2>2
  <1> HIDE DEF row, Rows
  <1>3. /\ Len(deployed) \in Nat /\ DOMAIN deployed = 1..Len(deployed)
        /\ Len(deployed') = Len(deployed) + 1 /\ DOMAIN deployed' = 1..Len(deployed')
        /\ \A i \in 1..Len(deployed) : deployed'[i] = deployed[i]
        /\ deployed'[Len(deployed) + 1] = row
    BY <1>1, <1>2, AppendProperties, LenProperties
  <1> QED
    BY <1>3 DEF row

LEMMA PromoteStep ==
    ASSUME TypeOK, NEW j \in JobIds, Promote(j)
    PROVE  /\ job[j].st = "delayed"
           /\ job' \in [JobIds -> JobRow]
           /\ job'[j].req = job[j].req /\ job'[j].made = job[j].made /\ job'[j].st = "waiting"
           /\ \A i \in JobIds : i # j => job'[i] = job[i]
           /\ queue' = Append(queue, j) /\ queue' \in Seq(JobIds)
  <1>1. job \in [JobIds -> JobRow]
    BY DEF TypeOK, JobRow
  <1>2. job' = [job EXCEPT ![j] = [job[j] EXCEPT !.st = "waiting"]]
    BY <1>1 DEF Promote
  <1>3. [job[j] EXCEPT !.st = "waiting"] \in JobRow
    BY <1>1 DEF JobRow, JobStates
  <1> QED
    BY <1>1, <1>2, <1>3 DEF Promote, TypeOK, JobRow

(* BullMQ takes a job under an id that is free.                            *)
LEMMA AddStep ==
    ASSUME TypeOK, JobsKnown, NEW r \in Requests, Add(r)
    PROVE  \/ job[key[r]].st # "none" /\ job' = job /\ queue' = queue
           \/ /\ job[key[r]] = NoJob /\ queue' = Append(queue, key[r]) /\ queue' \in Seq(JobIds)
              /\ job' = [job EXCEPT ![key[r]] = [req |-> r, st |-> "waiting", made |-> 0]]
              /\ job' \in [JobIds -> JobRow]
  <1>1. key[r] \in JobIds /\ job \in [JobIds -> JobRow] /\ queue \in Seq(JobIds)
    BY DEF TypeOK, JobRow
  <1>2. [req |-> r, st |-> "waiting", made |-> 0] \in JobRow
    BY PushAssumption DEF JobRow, JobStates, Requests
  <1>3. CASE job[key[r]] = NoJob
    <2>1. /\ queue' = Append(queue, key[r])
          /\ job' = [job EXCEPT ![key[r]] = [req |-> r, st |-> "waiting", made |-> 0]]
      BY <1>3 DEF Add
    <2>2. queue' \in Seq(JobIds)
      BY <1>1, <2>1, AppendProperties
    <2>3. job' \in [JobIds -> JobRow]
      BY <1>1, <1>2, <2>1
    <2> QED
      BY <1>3, <2>1, <2>2, <2>3
  <1>4. CASE job[key[r]] # NoJob
    <2>1. job' = job /\ queue' = queue
      BY <1>4 DEF Add
    <2>2. job[key[r]].st # "none"
      BY <1>1, <1>4 DEF JobsKnown
    <2> QED
      BY <2>1, <2>2
  <1> QED
    BY <1>3, <1>4

-----------------------------------------------------------------------------
(* Types, the queue and its jobs.                                           *)

LEMMA InitInv == Init => IInv
  <1> SUFFICES ASSUME Init PROVE IInv
    OBVIOUS
  <1>1. TypeOK
    <2>1. NoJob \in JobRow
      BY PushAssumption DEF NoJob, JobRow, JobStates
    <2>2. job \in [JobIds -> JobRow]
      BY <2>1 DEF Init
    <2> QED
      BY <2>2, Ids, PushAssumption DEF Init, TypeOK, JobRow, Steps, JobStates
  <1>2. queue = <<>> /\ line = <<>> /\ deployed = <<>> /\ \A j \in JobIds : job[j] = NoJob
    BY DEF Init
  <1>3. Queued /\ Lined /\ JobsKnown
    BY <1>2 DEF Queued, Lined, JobsKnown, NoJob, LiveStates
  <1>4. KeysKnown
    BY <1>2, Ids DEF Init, KeysKnown, NoJob
  <1>5. InTurn /\ Alone /\ NotSwallowed
    BY DEF Init, InTurn, Alone, Busy, NotSwallowed, Accepted
  <1>6. Lanes /\ Ahead /\ InOrder
    BY <1>2 DEF Lanes, Ahead, InOrder, NoJob
  <1> QED
    BY <1>1, <1>3, <1>4, <1>5, <1>6 DEF IInv, Shape

LEMMA StepType ==
    ASSUME Shape, Next PROVE TypeOK'
  <1> USE DEF Shape
  <1>0. trouble < MaxTrouble => trouble + 1 \in 0..MaxTrouble
    BY PushAssumption DEF TypeOK
  <1>1. ASSUME NEW r \in Requests, Receive(r) PROVE TypeOK'
    <2>1. pc' \in [Requests -> Steps]
      <3>1. \E label \in {"dedup", "insert", "getJob"} : Goto(r, label)
        BY <1>1 DEF Receive
      <3> QED
        BY <3>1 DEF Goto, TypeOK, Steps
    <2>2. key' \in [Requests -> JobIds]
      BY <1>1, Ids DEF Receive, TypeOK
    <2>3. crowd' \subseteq Requests
      BY <1>1 DEF Receive, TypeOK, Busy
    <2> QED
      BY <1>1, <2>1, <2>2, <2>3 DEF Receive, TypeOK, rowVars, jobVars, lockVars
  <1>2. ASSUME NEW r \in Requests, Handle(r) PROVE TypeOK'
    <2>1. CASE GetJob(r)
      BY <2>1 DEF GetJob, Goto, TypeOK, Steps, rowVars, jobVars, lockVars
    <2>2. CASE GetState(r)
      BY <2>2, GetStateStep DEF GetState, TypeOK, rowVars, jobVars, lockVars
    <2>3. CASE Drop(r)
      <3>1. pc' \in [Requests -> Steps] /\ saw' \in [Requests -> JobStates \cup {"unknown"}]
        BY <2>3 DEF Drop, Goto, TypeOK, Steps, JobStates
      <3>2. job' \in [JobIds -> JobRow] /\ queue' \in Seq(JobIds)
        <4>1. NoJob \in JobRow
          BY PushAssumption DEF NoJob, JobRow, JobStates
        <4>2. CASE job[Base].st # "active"
          <5>1. job \in [JobIds -> JobRow]
            BY DEF TypeOK, JobRow
          <5> QED
            BY <2>3, <4>1, <4>2, <5>1, DropStep
        <4> QED
          BY <2>3, <4>2 DEF Drop, TypeOK, JobRow
      <3>3. by' \in [Requests -> 0..N]
        <4>1. r \in 0..N /\ by \in [Requests -> 0..N]
          BY PushAssumption DEF TypeOK, Requests
        <4>2. \/ by' = by \/ by' = [by EXCEPT ![job[Base].req] = r]
          BY <2>3 DEF Drop
        <4> QED
          BY <4>1, <4>2
      <3> QED
        BY <2>3, <3>1, <3>2, <3>3 DEF Drop, TypeOK, rowVars, lockVars, JobRow
    <2>4. CASE Mark(r)
      BY <2>4 DEF Mark, Goto, TypeOK, Steps, jobVars, lockVars
    <2>5. CASE InsertDelivery(r)
      BY <2>5 DEF InsertDelivery, Goto, TypeOK, Steps, jobVars, lockVars
    <2>6. CASE createPendingBuild(r)
      BY <2>6 DEF createPendingBuild, Goto, TypeOK, Steps, jobVars, lockVars
    <2>7. CASE Add(r)
      <3>1. job' \in [JobIds -> JobRow] /\ queue' \in Seq(JobIds)
        BY <2>7, AddStep DEF TypeOK, JobRow
      <3>2. pc' \in [Requests -> Steps] /\ key' \in [Requests -> JobIds]
        BY <2>7, Ids DEF Add, Goto, TypeOK, Steps
      <3> QED
        BY <2>7, <3>1, <3>2 DEF Add, TypeOK, rowVars, lockVars, JobRow
    <2> QED
      BY <1>2, <2>1, <2>2, <2>3, <2>4, <2>5, <2>6, <2>7 DEF Handle
  <1>3. ASSUME NEW r \in Requests, Abort(r) PROVE TypeOK'
    <2>1. pc' \in [Requests -> Steps] /\ key' \in [Requests -> JobIds]
      BY <1>3, Ids DEF Abort, Goto, TypeOK, Steps
    <2>2. saw' \in [Requests -> JobStates \cup {"unknown"}]
      BY <1>3 DEF Abort, TypeOK, JobStates
    <2> QED
      BY <1>0, <1>3, <2>1, <2>2 DEF Abort, Trouble, TypeOK, rowVars, jobVars, lockVars
  <1>4. CASE Take
    <2>1. job' \in [JobIds -> JobRow]
      <3>1. job \in [JobIds -> JobRow]
        BY DEF TypeOK, JobRow
      <3>2. [job[queue[1]] EXCEPT !.st = "active"] \in JobRow
        BY <1>4, <3>1, TakeStep DEF JobRow, JobStates
      <3> QED
        BY <1>4, <3>1, <3>2, TakeStep
    <2> QED
      BY <1>4, <2>1, TakeStep DEF Take, TypeOK, JobRow, handlerVars, rowVars, lockVars
  <1>5. ASSUME NEW j \in JobIds, Attempt(j) PROVE TypeOK'
    <2>1. /\ job' \in [JobIds -> JobRow] /\ queue' = queue
          /\ build' \in [Requests -> {"none", "pending", "succeeded", "failed"}]
          /\ job[j].st = "active"
      BY <1>5, TryStep, AttemptStep
    <2>2. trouble' \in 0..MaxTrouble
      BY <1>0, <1>5 DEF Attempt, Succeed, Fail, Trouble, TypeOK
    <2>3. deployed' \in Seq([req : Requests, made : 1..MaxAttempts])
      <3>1. /\ job[j].req \in Requests /\ job[j].made < MaxAttempts
            /\ job[j].made \in 0..MaxAttempts
        BY <2>1 DEF JobsKnown, LiveStates, TypeOK
      <3>2. job[j].made + 1 \in 1..MaxAttempts
        BY <3>1, PushAssumption
      <3>3. CASE Succeed(j)
        BY <3>1, <3>2, <3>3 DEF Succeed, TypeOK
      <3> QED
        BY <1>5, <3>3 DEF Attempt, Fail, TypeOK
    <2>4. line' \in Seq(JobIds) /\ overtaken' = overtaken /\ gaveUp' = gaveUp
      BY <1>5, AttemptStep, Holder
    <2>5. /\ pc' = pc /\ saw' = saw /\ key' = key /\ crowd' = crowd /\ by' = by
          /\ delivery' = delivery
      BY <1>5 DEF Attempt, Succeed, Fail, handlerVars
    <2> QED
      BY <2>1, <2>2, <2>3, <2>4, <2>5 DEF TypeOK, JobRow
  <1>6. ASSUME NEW j \in JobIds, Promote(j) PROVE TypeOK'
    BY <1>6, PromoteStep DEF Promote, TypeOK, JobRow, handlerVars, rowVars, lockVars
  <1>7. ASSUME NEW j \in JobIds, Resolve(j) PROVE TypeOK'
    <2>1. overtaken' \subseteq Requests
      <3>1. \A i \in Resolving : job[i].req \in Requests
        BY DEF Resolving, JobsKnown
      <3> QED
        BY <1>7, <3>1 DEF Resolve, TypeOK
    <2> QED
      BY <1>7, <2>1, ResolveStep DEF Resolve, TypeOK, handlerVars, rowVars
  <1>8. ASSUME NEW j \in JobIds, ResolveFails(j) PROVE TypeOK'
    <2>1. job' \in [JobIds -> JobRow] /\ gaveUp' \subseteq Requests
      BY <1>8, TryStep, RefusedStep
    <2> QED
      BY <1>0, <1>8, <2>1 DEF ResolveFails, Trouble, TypeOK, JobRow, handlerVars, rowVars
  <1> QED
    BY <1>1, <1>2, <1>3, <1>4, <1>5, <1>6, <1>7, <1>8 DEF Next, Await

(* A job at the end of a queue in which it was not.                        *)
LEMMA AppendQueued ==
    ASSUME TypeOK, Queued, NEW j \in JobIds, job[j].st # "waiting",
           queue' = Append(queue, j), job'[j].st = "waiting",
           \A i \in JobIds : i # j => job'[i] = job[i]
    PROVE  Queued'
  <1>0. queue \in Seq(JobIds) /\ Len(queue) \in Nat /\ DOMAIN queue = 1..Len(queue)
    BY LenProperties DEF TypeOK
  <1>1. /\ DOMAIN queue' = 1..(Len(queue) + 1) /\ queue'[Len(queue) + 1] = j
        /\ \A k \in 1..Len(queue) : queue'[k] = queue[k]
    BY <1>0
  <1>2. \A k \in DOMAIN queue : queue[k] \in JobIds /\ queue[k] # j
    BY <1>0, ElementOfSeq DEF Queued
  <1> QED
    BY <1>0, <1>1, <1>2 DEF Queued

LEMMA StepQueued ==
    ASSUME Shape, Next PROVE Queued'
  <1> USE DEF Shape
  <1>0. queue \in Seq(JobIds) /\ \A i \in DOMAIN queue : queue[i] \in JobIds
    BY ElementOfSeq, LenProperties DEF TypeOK
  <1>a. ASSUME queue' = queue, \A j \in JobIds : job[j].st = "waiting" => job'[j].st = "waiting"
        PROVE  Queued'
    BY <1>0, <1>a DEF Queued
  <1>1. ASSUME NEW r \in Requests, Receive(r) \/ Handle(r) \/ Abort(r) PROVE Queued'
    <2>1. CASE Drop(r) /\ job[Base].st # "active"
      <3>1. PICK g : Shrunk(g) /\ \A k \in DOMAIN queue' : queue'[k] # Base
        BY <2>1, DropStep
      <3>2. \A j \in JobIds : j # Base => job'[j] = job[j]
        BY <2>1, DropStep DEF TypeOK
      <3>3. \A k \in DOMAIN queue' : g[k] \in DOMAIN queue /\ queue'[k] = queue[g[k]]
        BY <3>1 DEF Shrunk
      <3>4. \A k, l \in DOMAIN queue' : g[k] = g[l] => k = l
        <4>1. DOMAIN queue' \subseteq Nat /\ DOMAIN queue \subseteq Nat
          BY <2>1, <1>0, DropStep, LenProperties
        <4> QED
          BY <3>1, <4>1 DEF Shrunk
      <3> QED
        BY <1>0, <3>1, <3>2, <3>3, <3>4 DEF Queued
    <2>2. CASE Add(r)
      <3>1. CASE job' = job /\ queue' = queue
        BY <3>1, <1>a
      <3>2. CASE /\ job[key[r]] = NoJob /\ queue' = Append(queue, key[r])
                 /\ job' = [job EXCEPT ![key[r]] = [req |-> r, st |-> "waiting", made |-> 0]]
        <4>1. /\ key[r] \in JobIds /\ job[key[r]].st # "waiting" /\ job'[key[r]].st = "waiting"
              /\ \A i \in JobIds : i # key[r] => job'[i] = job[i]
          BY <3>2 DEF TypeOK, NoJob
        <4> QED
          BY <3>2, <4>1, AppendQueued
      <3> QED
        BY <2>2, <3>1, <3>2, AddStep
    <2>3. CASE ~Add(r) /\ ~(Drop(r) /\ job[Base].st # "active")
      <3>1. job' = job /\ queue' = queue
        BY <1>1, <2>3 DEF Receive, Handle, GetJob, GetState, Drop, Mark, InsertDelivery,
                          createPendingBuild, Abort, jobVars
      <3> QED
        BY <3>1, <1>a
    <2> QED
      BY <2>1, <2>2, <2>3
  <1>2. CASE Take
    <2>1. PICK g : Shrunk(g) /\ \A k \in DOMAIN queue' : g[k] > 1 /\ queue'[k] # queue[1]
      BY <1>2, TakeStep
    <2>2. \A j \in JobIds : j # queue[1] => job'[j] = job[j]
      BY <1>2, TakeStep DEF TypeOK
    <2>3. \A k \in DOMAIN queue' : g[k] \in DOMAIN queue /\ queue'[k] = queue[g[k]]
      BY <2>1 DEF Shrunk
    <2>4. \A k, l \in DOMAIN queue' : g[k] = g[l] => k = l
      <3>1. DOMAIN queue' \subseteq Nat /\ DOMAIN queue \subseteq Nat
        BY <1>2, <1>0, TakeStep, LenProperties
      <3> QED
        BY <2>1, <3>1 DEF Shrunk
    <2> QED
      BY <1>0, <2>1, <2>2, <2>3, <2>4 DEF Queued
  <1>3. ASSUME NEW j \in JobIds, Attempt(j) \/ ResolveFails(j) PROVE Queued'
    BY <1>3, <1>a, TryStep
  <1>4. ASSUME NEW j \in JobIds, Promote(j) PROVE Queued'
    BY <1>4, PromoteStep, AppendQueued
  <1>5. ASSUME NEW j \in JobIds, Resolve(j) PROVE Queued'
    BY <1>5, <1>a, ResolveStep
  <1> QED
    BY <1>1, <1>2, <1>3, <1>4, <1>5 DEF Next, Await

LEMMA StepJobs ==
    ASSUME Shape, Next PROVE JobsKnown'
  <1> USE DEF Shape
  <1>0. /\ job \in [JobIds -> JobRow] /\ MaxAttempts \in Nat \ {0}
        /\ \A j \in JobIds : job[j].made \in Nat
    BY PushAssumption DEF TypeOK, JobRow
  <1>1. ASSUME NEW r \in Requests, Receive(r) \/ Handle(r) \/ Abort(r) PROVE JobsKnown'
    <2>1. /\ \A q \in Requests : pc[q] = "done" => pc'[q] = "done"
          /\ deployed' = deployed
      BY <1>1, RequestStep DEF Over
    <2>2. \A i \in DOMAIN deployed : deployed[i].req \in Requests
      BY DeployRows
    <2>3. CASE job' = job
      BY <2>1, <2>2, <2>3 DEF JobsKnown
    <2>4. CASE Drop(r) /\ job[Base].st # "active"
      <3>1. job'[Base] = NoJob /\ \A j \in JobIds : j # Base => job'[j] = job[j]
        BY <2>4, <1>0, DropStep, Ids
      <3> QED
        BY <2>1, <2>2, <3>1 DEF JobsKnown, NoJob, LiveStates
    <2>5. CASE Add(r) /\ job' # job
      <3>1. /\ job' = [job EXCEPT ![key[r]] = [req |-> r, st |-> "waiting", made |-> 0]]
            /\ key[r] \in JobIds
        BY <2>5, AddStep DEF TypeOK
      <3>2. /\ job'[key[r]] = [req |-> r, st |-> "waiting", made |-> 0]
            /\ \A j \in JobIds : j # key[r] => job'[j] = job[j]
        BY <1>0, <3>1
      <3>3. pc'[r] = "done"
        BY <2>5 DEF Add, Goto, TypeOK
      <3> QED
        BY <1>0, <2>1, <2>2, <3>1, <3>2, <3>3 DEF JobsKnown
    <2>6. job' # job => (Drop(r) /\ job[Base].st # "active") \/ Add(r)
      BY <1>1 DEF Receive, Handle, GetJob, GetState, Drop, Mark, InsertDelivery,
                  createPendingBuild, Abort, jobVars
    <2> QED
      BY <2>3, <2>4, <2>5, <2>6
  <1>2. CASE Take
    <2>1. /\ job'[queue[1]].st = "active" /\ job'[queue[1]].req = job[queue[1]].req
          /\ job'[queue[1]].made = job[queue[1]].made
          /\ \A j \in JobIds : j # queue[1] => job'[j] = job[j]
          /\ queue[1] \in JobIds /\ job[queue[1]].st = "waiting"
      BY <1>0, <1>2, TakeStep DEF JobRow
    <2>2. pc' = pc /\ deployed' = deployed
      BY <1>2 DEF Take, handlerVars
    <2> QED
      BY <2>1, <2>2 DEF JobsKnown, LiveStates
  <1>3. ASSUME NEW j \in JobIds, Attempt(j) \/ ResolveFails(j) PROVE JobsKnown'
    <2>1. pc' = pc /\ job[j].req \in Requests /\ pc[job[j].req] = "done"
      BY <1>3, TryStep DEF Attempt, Succeed, Fail, ResolveFails, handlerVars, JobsKnown
    <2>2. \A i \in DOMAIN deployed' : pc'[deployed'[i].req] = "done"
      <3>1. CASE Succeed(j)
        <4>2. \A i \in DOMAIN deployed' :
                 \/ i \in DOMAIN deployed /\ deployed'[i] = deployed[i]
                 \/ deployed'[i] = [req |-> job[j].req, made |-> job[j].made + 1]
          BY <3>1, DeployStep
        <4> QED
          BY <2>1, <4>2 DEF JobsKnown
      <3> QED
        BY <1>3, <2>1, <3>1 DEF Attempt, Fail, ResolveFails, JobsKnown
    <2> QED
      BY <1>0, <1>3, <2>1, <2>2, TryStep DEF JobsKnown, LiveStates
  <1>4. ASSUME NEW j \in JobIds, Promote(j) PROVE JobsKnown'
    <2>1. pc' = pc /\ deployed' = deployed
      BY <1>4 DEF Promote, handlerVars
    <2> QED
      BY <1>4, <2>1, PromoteStep DEF JobsKnown, LiveStates
  <1>5. ASSUME NEW j \in JobIds, Resolve(j) PROVE JobsKnown'
    BY <1>5, ResolveStep DEF Resolve, handlerVars, JobsKnown
  <1> QED
    BY <1>1, <1>2, <1>3, <1>4, <1>5 DEF Next, Await

LEMMA StepLined ==
    ASSUME Shape, Next PROVE Lined'
  <1> USE DEF Shape
  <1>0. job \in [JobIds -> JobRow]
    BY DEF TypeOK, JobRow
  <1>a. ASSUME line' = line, \A j \in JobIds : job[j].st = "active" => job'[j].st = "active"
        PROVE  Lined'
    BY <1>a, LineRows DEF Lined
  <1>1. ASSUME NEW r \in Requests, Receive(r) \/ Handle(r) \/ Abort(r) PROVE Lined'
    <2>1. line' = line
      BY <1>1, RequestStep
    <2>2. CASE job' = job
      BY <1>a, <2>1, <2>2
    <2>3. CASE Drop(r) /\ job[Base].st # "active"
      <3>1. \A j \in JobIds : j # Base => job'[j] = job[j]
        BY <1>0, <2>3, DropStep
      <3> QED
        BY <1>a, <2>1, <2>3, <3>1
    <2>4. CASE Add(r) /\ job' # job
      <3>1. job[key[r]] = NoJob /\ \A j \in JobIds : j # key[r] => job'[j] = job[j]
        BY <1>0, <2>4, AddStep
      <3> QED
        BY <1>a, <2>1, <3>1 DEF NoJob
    <2> QED
      BY <1>1, <2>2, <2>3, <2>4 DEF Receive, Handle, GetJob, GetState, Drop, Mark,
         InsertDelivery, createPendingBuild, Abort, jobVars
  <1>2. CASE Take
    <2>1. job'[queue[1]].st = "active" /\ \A j \in JobIds : j # queue[1] => job'[j] = job[j]
      BY <1>0, <1>2, TakeStep DEF JobRow
    <2> QED
      BY <1>2, <1>a, <2>1 DEF Take, lockVars
  <1>3. ASSUME NEW j \in JobIds, Attempt(j) PROVE Lined'
    <2>1. HoldsLock(j) /\ line' = Tail(line) /\ \A i \in JobIds : i # j => job'[i] = job[i]
      BY <1>3, TryStep, AttemptStep
    <2>2. \A k \in DOMAIN line' : /\ k + 1 \in DOMAIN line /\ line'[k] = line[k + 1]
                                 /\ line'[k] # j /\ line'[k] \in JobIds /\ k \in Nat
      BY <2>1, Holder, LineRows
    <2> QED
      BY <2>1, <2>2 DEF Lined
  <1>4. ASSUME NEW j \in JobIds, ResolveFails(j) PROVE Lined'
    <2>1. /\ line' = line /\ \A i \in JobIds : i # j => job'[i] = job[i]
          /\ \A i \in DOMAIN line : line[i] # j
      BY <1>4, TryStep, RefusedStep
    <2> QED
      BY <2>1, LineRows DEF Lined
  <1>5. ASSUME NEW j \in JobIds, Promote(j) PROVE Lined'
    <2>1. job[j].st = "delayed" /\ \A i \in JobIds : i # j => job'[i] = job[i]
      BY <1>5, PromoteStep
    <2> QED
      BY <1>5, <1>a, <2>1 DEF Promote, lockVars
  <1>6. ASSUME NEW j \in JobIds, Resolve(j) PROVE Lined'
    <2>1. \A k \in DOMAIN line' : (k \in DOMAIN line /\ line'[k] = line[k])
                                 \/ (k = Len(line) + 1 /\ line'[k] = j)
      BY <1>6, ResolveStep, LineRows
    <2> QED
      BY <1>6, <2>1, ResolveStep DEF Lined
  <1> QED
    BY <1>1, <1>2, <1>3, <1>4, <1>5, <1>6 DEF Next, Await

-----------------------------------------------------------------------------
(* The ids of the jobs.                                                     *)

(* Of two sets of requests the larger one has at least as many members,    *)
(* and more when it has one that the other has not.                        *)
LEMMA Counts ==
    ASSUME NEW T \in SUBSET Requests, NEW S \in SUBSET T
    PROVE  /\ Cardinality(S) \in 0..N /\ Cardinality(T) \in 0..N
           /\ Cardinality(S) <= Cardinality(T)
           /\ \A r \in T : r \notin S => Cardinality(S) < Cardinality(T)
  <1>1. IsFiniteSet(Requests) /\ Cardinality(Requests) = N
    BY PushAssumption, FS_Interval DEF Requests
  <1>2. IsFiniteSet(T) /\ Cardinality(T) <= N /\ Cardinality(T) \in Nat
    BY <1>1, FS_Subset, FS_CardinalityType
  <1>3. IsFiniteSet(S) /\ Cardinality(S) <= Cardinality(T) /\ Cardinality(S) \in Nat
    BY <1>2, FS_Subset, FS_CardinalityType
  <1>4. ASSUME NEW r \in T, r \notin S PROVE Cardinality(S) < Cardinality(T)
    <2>1. Cardinality(S \cup {r}) = Cardinality(S) + 1
      BY <1>3, <1>4, FS_AddElement
    <2>2. Cardinality(S \cup {r}) <= Cardinality(T)
      BY <1>2, <1>4, FS_Subset
    <2> QED
      BY <1>2, <1>3, <2>1, <2>2
  <1> QED
    BY <1>2, <1>3, <1>4, PushAssumption

(* What a handler does to the jobs: it drops the one under the base key,   *)
(* or it adds its own.                                                     *)
LEMMA JobStep ==
    ASSUME Shape, NEW r \in Requests, Receive(r) \/ Handle(r) \/ Abort(r)
    PROVE  \/ job' = job /\ queue' = queue
           \/ /\ Drop(r) /\ job[Base].st # "active" /\ job'[Base] = NoJob
              /\ \A j \in JobIds : j # Base => job'[j] = job[j]
           \/ /\ Add(r) /\ key[r] \in JobIds /\ job[key[r]] = NoJob
              /\ job'[key[r]] = [req |-> r, st |-> "waiting", made |-> 0]
              /\ \A j \in JobIds : j # key[r] => job'[j] = job[j]
              /\ queue' = Append(queue, key[r])
  <1>0. job \in [JobIds -> JobRow] /\ key[r] \in JobIds
    BY DEF Shape, TypeOK, JobRow
  <1>1. CASE Drop(r) /\ job[Base].st # "active"
    BY <1>0, <1>1, DropStep, Ids DEF Shape
  <1>2. CASE Add(r)
    BY <1>0, <1>2, AddStep DEF Shape
  <1>3. CASE ~Add(r) /\ ~(Drop(r) /\ job[Base].st # "active")
    BY <1>3 DEF Receive, Handle, GetJob, GetState, Drop, Mark, InsertDelivery,
                createPendingBuild, Abort, jobVars
  <1> QED
    BY <1>1, <1>2, <1>3

(* What the worker leaves alone.                                           *)
LEMMA WorkerStep ==
    ASSUME Shape, Take \/ \E j \in JobIds : Await(j) \/ Attempt(j) \/ Promote(j)
    PROVE  /\ pc' = pc /\ key' = key /\ crowd' = crowd /\ by' = by /\ delivery' = delivery
           /\ overtaken \subseteq overtaken' /\ gaveUp \subseteq gaveUp'
           /\ \A i \in JobIds : job'[i].req = job[i].req
           /\ \A i \in JobIds : job'[i].st = "none" <=> job[i].st = "none"
  <1>0. job \in [JobIds -> JobRow]
    BY DEF Shape, TypeOK, JobRow
  <1>1. /\ pc' = pc /\ key' = key /\ crowd' = crowd /\ by' = by /\ delivery' = delivery
        /\ overtaken \subseteq overtaken' /\ gaveUp \subseteq gaveUp'
    BY DEF Take, Await, Resolve, ResolveFails, Attempt, Succeed, Fail, Promote, handlerVars,
           rowVars, lockVars
  <1>2. /\ \A i \in JobIds : job'[i].req = job[i].req
        /\ \A i \in JobIds : job'[i].st = "none" <=> job[i].st = "none"
    <2>1. CASE Take
      <3>1. /\ queue[1] \in JobIds /\ job[queue[1]].st = "waiting"
            /\ job'[queue[1]].st = "active" /\ job'[queue[1]].req = job[queue[1]].req
            /\ \A j \in JobIds : j # queue[1] => job'[j] = job[j]
        BY <1>0, <2>1, TakeStep DEF Shape, JobRow
      <3> QED
        BY <3>1
    <2>2. CASE \E j \in JobIds : Attempt(j) \/ ResolveFails(j)
      BY <2>2, TryStep DEF Shape
    <2>3. CASE \E j \in JobIds : Resolve(j)
      BY <2>3, ResolveStep DEF Shape
    <2>4. CASE \E j \in JobIds : Promote(j)
      BY <2>4, PromoteStep DEF Shape
    <2> QED
      BY <2>1, <2>2, <2>3, <2>4 DEF Await
  <1> QED
    BY <1>1, <1>2

(* What a handler does to its own key, its own delivery and the number of  *)
(* deliveries.                                                             *)
LEMMA KeyStep ==
    ASSUME Shape, KeysKnown, NEW r \in Requests, Receive(r) \/ Handle(r) \/ Abort(r)
    PROVE  /\ pc'[r] \in {"getJob", "getState", "drop", "mark"} =>
                 key'[r] = Base /\ Kind[Push[r]] # "skip"
           /\ pc'[r] \in {"build", "add"} => Kind[Push[r]] # "skip"
           /\ key'[r] = key[r] \/ key'[r] \in {Base, Fresh(r), Suffixed(Cardinality(Delivered))}
           /\ pc'[r] \notin Over \cup {"build", "add"} => delivery'[r] = "none"
           /\ \A q \in Requests : q # r /\ delivery[q] = "none" => delivery'[q] = "none"
           /\ Delivered \subseteq Delivered'
           /\ pc'[r] = "insert" => pc[r] \in {"new", "getJob", "getState", "drop", "mark"}
           /\ pc'[r] \in {"build", "add"} => key'[r] = key[r] /\ pc[r] \in {"insert", "build"}
           /\ pc[r] = "insert" => r \notin Delivered /\ (pc'[r] \in {"build", "add"} => r \in Delivered')
  <1>0. /\ pc \in [Requests -> Steps] /\ key \in [Requests -> JobIds]
        /\ delivery \in [Requests -> {"none", "enqueued", "coalesced", "skipped"}]
    BY DEF Shape, TypeOK
  <1> USE DEF Over, Steps
  <1>1. CASE Receive(r)
    <2>1. pc[r] = "new" /\ delivery' = delivery /\ key'[r] \in {Base, Fresh(r)}
      BY <1>0, <1>1 DEF Receive, rowVars
    <2>2. pc'[r] \in {"dedup", "insert", "getJob"}
      BY <1>0, <1>1 DEF Receive, Goto
    <2>3. pc'[r] = "getJob" => Kind[Push[r]] # "skip" /\ key'[r] = Base
      BY <1>0, <1>1 DEF Receive, Goto
    <2> QED
      BY <1>0, <2>1, <2>2, <2>3 DEF KeysKnown, Delivered
  <1>2. CASE GetState(r)
    <2>1. delivery' = delivery /\ pc[r] = "getState"
      BY <1>2 DEF GetState, rowVars
    <2>2. /\ \/ key'[r] = Base /\ pc'[r] = "drop"
             \/ key'[r] = Suffixed(Cardinality(Delivered)) /\ pc'[r] = "insert"
      BY <1>2, GetStateStep DEF Shape
    <2> QED
      BY <1>0, <2>1, <2>2 DEF KeysKnown, Delivered
  <1>3. CASE GetJob(r) \/ Drop(r)
    <2>1. /\ delivery' = delivery /\ key' = key /\ pc[r] \in {"getJob", "drop"}
          /\ pc'[r] \in {"insert", "getState", "mark", "lost"}
      BY <1>0, <1>3 DEF GetJob, Drop, Goto, rowVars
    <2> QED
      BY <1>0, <2>1 DEF KeysKnown, Delivered
  <1>4. CASE Mark(r)
    <2>1. pc[r] = "mark" /\ pc'[r] = "insert" /\ key' = key
      BY <1>0, <1>4 DEF Mark, Goto
    <2>2. /\ \A q \in Requests : delivery[q] = "none" <=> delivery'[q] = "none"
      BY <1>0, <1>4 DEF Mark
    <2> QED
      BY <1>0, <2>1, <2>2 DEF KeysKnown, Delivered
  <1>5. CASE InsertDelivery(r)
    <2>1. /\ pc[r] = "insert" /\ key' = key
          /\ pc'[r] = IF Kind[Push[r]] = "skip" THEN "done" ELSE "build"
          /\ delivery'[r] # "none" /\ \A q \in Requests : q # r => delivery'[q] = delivery[q]
      BY <1>0, <1>5 DEF InsertDelivery, Goto
    <2> QED
      BY <1>0, <2>1 DEF KeysKnown, Delivered
  <1>6. CASE createPendingBuild(r)
    <2>1. pc[r] = "build" /\ pc'[r] = "add" /\ key' = key /\ delivery' = delivery
      BY <1>0, <1>6 DEF createPendingBuild, Goto
    <2> QED
      BY <1>0, <2>1 DEF KeysKnown, Delivered
  <1>7. CASE Add(r) \/ Abort(r)
    <2>1. /\ pc[r] \notin Over \cup {"new"} /\ pc'[r] \in {"done", "lost"}
          /\ key'[r] = Base /\ delivery' = delivery
      BY <1>0, <1>7 DEF Add, Abort, Busy, Goto, rowVars
    <2> QED
      BY <1>0, <2>1 DEF KeysKnown, Delivered
  <1> QED
    BY <1>1, <1>2, <1>3, <1>4, <1>5, <1>6, <1>7 DEF Handle

LEMMA StepKeys ==
    ASSUME Shape, KeysKnown, Next PROVE KeysKnown'
  <1> DEFINE C == Cardinality(Delivered)
  <1>1. ASSUME NEW r \in Requests, Receive(r) \/ Handle(r) \/ Abort(r) PROVE KeysKnown'
    <2>0. /\ C \in 0..N /\ C' \in 0..N /\ C <= C'
          /\ \A q \in Delivered' : q \notin Delivered => C < C'
      <3>1. Delivered' \in SUBSET Requests /\ Delivered \in SUBSET (Delivered')
        BY <1>1, KeyStep DEF Delivered
      <3> QED
        BY <3>1, Counts
    <2>1. \A q \in Requests : q # r => pc'[q] = pc[q] /\ key'[q] = key[q]
      BY <1>1, RequestStep DEF Shape
    <2> HIDE DEF C
    <2>2. \A q \in Requests : pc'[q] \in {"getJob", "getState", "drop", "mark"} =>
             key'[q] = Base /\ Kind[Push[q]] # "skip"
      BY <1>1, <2>1, KeyStep DEF KeysKnown
    <2>3. \A q \in Requests : pc'[q] \in {"build", "add"} => Kind[Push[q]] # "skip"
      BY <1>1, <2>1, KeyStep DEF KeysKnown
    <2>4. \A p, q \in Requests : key'[p] = Fresh(q) => p = q
      <3>1. key'[r] = key[r] \/ key'[r] \in {Base, Fresh(r), Suffixed(C)}
        BY <1>1, <2>0, KeyStep DEF C
      <3>2. \A q \in Requests : key'[r] = Fresh(q) => r = q
        BY <2>0, <3>1, Ids DEF KeysKnown
      <3> QED
        BY <2>1, <3>2 DEF KeysKnown
    <2>5. \A q \in Requests : pc'[q] \notin Over \cup {"build", "add"} => delivery'[q] = "none"
      BY <1>1, <2>1, KeyStep DEF KeysKnown
    <2>6. \A q \in Requests : pc[q] = "done" => pc'[q] = "done"
      BY <1>1, <2>1, RequestStep DEF Shape, Over
    <2>7. ASSUME NEW j \in JobIds, job'[j].st # "none", job[j].st = "none"
          PROVE  j = key[r] /\ pc[r] = "add" /\ pc'[r] = "done"
      <3>1. Add(r) /\ j = key[r]
        <4>1. CASE job' = job
          BY <2>7, <4>1
        <4>2. CASE job'[Base] = NoJob /\ \A i \in JobIds : i # Base => job'[i] = job[i]
          BY <2>7, <4>2 DEF NoJob
        <4>3. CASE Add(r) /\ \A i \in JobIds : i # key[r] => job'[i] = job[i]
          BY <2>7, <4>3
        <4> QED
          BY <1>1, <4>1, <4>2, <4>3, JobStep
      <3> QED
        BY <3>1 DEF Add, Goto, Shape, TypeOK
    <2>8. \A q \in Requests : job'[Fresh(q)].st # "none" => pc'[q] = "done"
      BY <2>6, <2>7, Ids DEF KeysKnown
    <2>9. \A n \in 0..N : job'[Suffixed(n)].st # "none" => n < C'
      <3>1. ASSUME NEW n \in 0..N, job'[Suffixed(n)].st # "none" PROVE n < C
        BY <2>7, <3>1, Ids DEF KeysKnown, C
      <3> QED
        BY <2>0, <3>1
    <2>10. ASSUME NEW n \in 0..N, NEW q \in Requests, key'[q] = Suffixed(n)
           PROVE  /\ pc'[q] = "insert" => n <= C'
                  /\ pc'[q] \in {"build", "add"} => n < C'
      <3>1. CASE q # r
        <4>1. key[q] = Suffixed(n) /\ pc'[q] = pc[q]
          BY <2>1, <2>10, <3>1
        <4>2. (pc[q] = "insert" => n <= C) /\ (pc[q] \in {"build", "add"} => n < C)
          BY <4>1 DEF KeysKnown, C
        <4> QED
          BY <2>0, <4>1, <4>2
      <3>2. CASE q = r /\ pc'[r] = "insert"
        <4>1. pc[r] \in {"new", "getJob", "getState", "drop", "mark"}
          BY <1>1, <3>2, KeyStep
        <4>2. pc[r] # "new" => key[r] = Base
          BY <4>1 DEF KeysKnown
        <4>3. pc[r] = "new" => key'[r] \in {Base, Fresh(r)}
          BY <1>1 DEF Receive, Handle, GetJob, GetState, Drop, Mark, InsertDelivery,
                      createPendingBuild, Add, Abort, Busy, Shape, TypeOK
        <4>4. key'[r] = key[r] \/ key'[r] \in {Base, Fresh(r), Suffixed(C)}
          BY <1>1, KeyStep DEF C
        <4>5. key'[r] = Suffixed(C)
          BY <2>10, <3>2, <4>2, <4>3, <4>4, Ids
        <4>6. n = C
          BY <2>0, <2>10, <3>2, <4>5, Ids
        <4> QED
          BY <2>0, <3>2, <4>6
      <3>3. CASE q = r /\ pc'[r] \in {"build", "add"}
        <4>1. key[r] = Suffixed(n) /\ pc[r] \in {"insert", "build"}
          BY <1>1, <2>10, <3>3, KeyStep
        <4>2. CASE pc[r] = "build"
          BY <2>0, <3>3, <4>1, <4>2 DEF KeysKnown, C
        <4>3. CASE pc[r] = "insert"
          <5>1. n <= C
            BY <4>1, <4>3 DEF KeysKnown, C
          <5>2. C < C'
            BY <1>1, <2>0, <3>3, <4>3, KeyStep
          <5> QED
            BY <2>0, <3>3, <5>1, <5>2
        <4> QED
          BY <4>1, <4>2, <4>3
      <3> QED
        BY <3>1, <3>2, <3>3
    <2> QED
      BY <2>2, <2>3, <2>4, <2>5, <2>8, <2>9, <2>10 DEF KeysKnown, C
  <1>2. CASE Take \/ \E j \in JobIds : Await(j) \/ Attempt(j) \/ Promote(j)
    <2>1. /\ pc' = pc /\ key' = key /\ delivery' = delivery
          /\ \A i \in JobIds : job'[i].st = "none" <=> job[i].st = "none"
      BY <1>2, WorkerStep
    <2>2. Delivered' = Delivered
      BY <2>1 DEF Delivered
    <2> QED
      BY <2>1, <2>2, Ids DEF KeysKnown
  <1> QED
    BY <1>1, <1>2 DEF Next

-----------------------------------------------------------------------------
(* Handlers next to each other.                                             *)

LEMMA StepTurn ==
    ASSUME Shape, InTurn, Next PROVE InTurn'
  <1>1. ASSUME NEW p \in Requests, Receive(p) \/ Handle(p) \/ Abort(p) PROVE InTurn'
    <2>1. /\ pc'[p] # "new" /\ \A q \in Requests : q # p => pc'[q] = pc[q]
          /\ Receive(p) \/ p \in Busy
      BY <1>1, RequestStep DEF Shape
    <2>2. \A q \in Requests : q < p => pc[q] # "new"
      BY <2>1 DEF Receive, Busy, InTurn
    <2> QED
      BY <2>1, <2>2 DEF InTurn
  <1>2. CASE Take \/ \E j \in JobIds : Await(j) \/ Attempt(j) \/ Promote(j)
    BY <1>2, WorkerStep DEF InTurn
  <1> QED
    BY <1>1, <1>2 DEF Next

(* A handler that goes on and is not in the crowd was alone before, or has *)
(* just begun; the one that steps is itself, or drops a duplicate.         *)
LEMMA AloneStep ==
    ASSUME Shape, Alone, NEW p \in Requests, Receive(p) \/ Handle(p) \/ Abort(p)
    PROVE  /\ \A r \in Busy' : r \in Busy \/ (r = p /\ Receive(p))
           /\ \A r, q \in Busy' : r # q => r \in crowd'
           /\ \A r \in Busy' : r \notin crowd' /\ r # p =>
                 r \in Busy /\ r \notin crowd /\ Receive(p) /\ pc'[p] = "dedup"
  <1>1. /\ \A q \in Requests : q # p => pc'[q] = pc[q]
        /\ crowd \subseteq crowd'
        /\ Receive(p) \/ (p \in Busy /\ crowd' = crowd)
    BY RequestStep DEF Shape
  <1>2. \A r \in Busy' : r \in Busy \/ (r = p /\ Receive(p))
    BY <1>1 DEF Busy
  <1>3. CASE Receive(p)
    <2>1. p \notin Busy /\ pc' = [pc EXCEPT ![p] = pc'[p]]
      BY <1>3 DEF Receive, Busy, Goto, Shape, TypeOK
    <2>2. \/ pc'[p] = "dedup"
          \/ crowd' = IF Busy = {} THEN crowd ELSE crowd \cup Busy \cup {p}
      BY <1>3 DEF Receive, Goto, Shape, TypeOK
    <2>3. CASE pc'[p] = "dedup"
      <3>1. p \notin Busy'
        BY <2>3 DEF Busy, Over
      <3> QED
        BY <1>1, <1>2, <1>3, <2>3, <3>1 DEF Alone
    <2>4. CASE crowd' = IF Busy = {} THEN crowd ELSE crowd \cup Busy \cup {p}
      BY <1>1, <1>2, <2>4
    <2> QED
      BY <2>2, <2>3, <2>4
  <1>4. CASE ~Receive(p)
    BY <1>1, <1>2, <1>4 DEF Alone
  <1> QED
    BY <1>2, <1>3, <1>4

(* The id under which a handler will add its job is free when it was free  *)
(* before, and when the handler chose it.                                  *)
LEMMA FreeStep ==
    ASSUME Shape, KeysKnown, Alone, NEW p \in Requests, Receive(p) \/ Handle(p) \/ Abort(p),
           p \in Busy', p \notin crowd,
           pc'[p] \in {"mark", "insert", "build", "add"}, Kind[Push[p]] # "skip"
    PROVE  job'[key'[p]].st = "none"
  <1>0. /\ pc \in [Requests -> Steps] /\ key \in [Requests -> JobIds]
    BY DEF Shape, TypeOK
  <1>1. CASE Receive(p)
    <2>1. job' = job /\ pc[p] = "new" /\ key'[p] = Fresh(p)
      BY <1>0, <1>1 DEF Receive, Goto, jobVars
    <2> QED
      BY <2>1 DEF KeysKnown
  <1>2. CASE GetJob(p)
    <2>1. job' = job /\ key' = key /\ pc[p] = "getJob" /\ job[Base] = NoJob
      BY <1>0, <1>2 DEF GetJob, Goto, jobVars
    <2> QED
      BY <2>1 DEF KeysKnown, NoJob
  <1>3. CASE GetState(p)
    <2>1. job' = job
      BY <1>3 DEF GetState, jobVars
    <2>2. key'[p] = Suffixed(Cardinality(Delivered))
      BY <1>3, GetStateStep DEF Shape
    <2> QED
      BY <2>1, <2>2, Count DEF KeysKnown
  <1>4. CASE Drop(p)
    <2>1. key'[p] = Base /\ job[Base].st # "active"
      BY <1>0, <1>4 DEF Drop, Goto, KeysKnown
    <2>2. job'[Base] = NoJob
      BY <1>4, <2>1, DropStep, Ids DEF Shape, TypeOK
    <2> QED
      BY <2>1, <2>2 DEF NoJob
  <1>5. CASE Mark(p) \/ InsertDelivery(p) \/ createPendingBuild(p)
    <2>1. job' = job /\ key' = key /\ pc[p] \in {"mark", "insert", "build"}
      BY <1>5 DEF Mark, InsertDelivery, createPendingBuild, jobVars
    <2> QED
      BY <2>1 DEF Alone, Busy, Over
  <1>6. CASE Add(p) \/ Abort(p)
    BY <1>0, <1>6 DEF Add, Abort, Goto
  <1> QED
    BY <1>1, <1>2, <1>3, <1>4, <1>5, <1>6 DEF Handle

LEMMA StepAlone ==
    ASSUME Shape, KeysKnown, InTurn, Alone, Next PROVE Alone'
  <1>1. ASSUME NEW p \in Requests, Receive(p) \/ Handle(p) \/ Abort(p) PROVE Alone'
    <2>0. /\ \A q \in Requests : q # p => pc'[q] = pc[q] /\ key'[q] = key[q]
          /\ crowd \subseteq crowd'
      BY <1>1, RequestStep DEF Shape
    <2>1. ASSUME NEW r \in Busy', r \notin crowd', NEW q \in Requests, q > r
          PROVE  pc'[q] \in {"new", "dedup"}
      <3>1. CASE r = p
        <4>1. r \in Busy \/ Receive(r)
          BY <1>1, <2>1, <3>1, AloneStep
        <4>2. q # p
          BY <2>1, <3>1 DEF Requests
        <4>3. CASE r \in Busy
          BY <2>0, <2>1, <3>1, <4>2, <4>3 DEF Alone
        <4>4. CASE Receive(r)
          BY <1>1, <2>0, <2>1, <3>1, <4>2, <4>4 DEF InTurn, Receive
        <4> QED
          BY <4>1, <4>3, <4>4
      <3>2. CASE r # p
        <4>1. r \in Busy /\ r \notin crowd /\ pc'[p] = "dedup"
          BY <1>1, <2>1, <3>2, AloneStep
        <4> QED
          BY <2>0, <2>1, <4>1 DEF Alone
      <3> QED
        BY <3>1, <3>2
    <2>2. ASSUME NEW r \in Busy', r \notin crowd',
                 pc'[r] \in {"mark", "insert", "build", "add"}, Kind[Push[r]] # "skip"
          PROVE  job'[key'[r]].st = "none"
      <3>1. CASE r = p
        BY <1>1, <2>0, <2>2, <3>1, FreeStep
      <3>2. CASE r # p
        <4>1. r \in Busy /\ r \notin crowd /\ Receive(p)
          BY <1>1, <2>2, <3>2, AloneStep
        <4>2. job' = job /\ pc'[r] = pc[r] /\ key'[r] = key[r]
          BY <2>0, <3>2, <4>1 DEF Receive, jobVars, Busy
        <4> QED
          BY <2>2, <4>1, <4>2 DEF Alone
      <3> QED
        BY <3>1, <3>2
    <2> QED
      BY <1>1, <2>1, <2>2, AloneStep DEF Alone
  <1>2. CASE Take \/ \E j \in JobIds : Await(j) \/ Attempt(j) \/ Promote(j)
    <2>1. /\ pc' = pc /\ key' = key /\ crowd' = crowd
          /\ \A i \in JobIds : job'[i].st = "none" <=> job[i].st = "none"
      BY <1>2, WorkerStep
    <2>2. Busy' = Busy /\ \A r \in Busy : r \in Requests /\ key[r] \in JobIds
      BY <2>1 DEF Busy, Shape, TypeOK
    <2> QED
      BY <2>1, <2>2 DEF Alone
  <1> QED
    BY <1>1, <1>2 DEF Next

-----------------------------------------------------------------------------
(* No push is swallowed.                                                    *)

(* What a handler does to the traces of the pushes that are accepted.      *)
LEMMA TraceStep ==
    ASSUME Shape, NEW p \in Requests, Receive(p) \/ Handle(p) \/ Abort(p)
    PROVE  /\ pc'[p] = "done" /\ Kind[Push[p]] # "skip" => Add(p)
           /\ \A r \in Requests : r # p => build'[r] = build[r]
           /\ \A r \in Requests : by[r] # 0 => by'[r] # 0
  <1>0. /\ pc \in [Requests -> Steps] /\ by \in [Requests -> 0..N] /\ p # 0
        /\ build \in [Requests -> {"none", "pending", "succeeded", "failed"}]
    BY PushAssumption DEF Shape, TypeOK, Requests
  <1>1. pc'[p] = "done" /\ Kind[Push[p]] # "skip" => Add(p)
    <2>1. CASE GetState(p)
      BY <2>1, GetStateStep DEF Shape
    <2>2. CASE Receive(p)
      <3>1. pc'[p] \in {"dedup", "insert", "getJob"}
        BY <1>0, <2>2 DEF Receive, Goto
      <3> QED
        BY <3>1
    <2> QED
      BY <1>0, <2>1, <2>2 DEF Handle, GetJob, Drop, Mark, InsertDelivery, createPendingBuild,
                              Abort, Goto
  <1>2. \A r \in Requests : r # p => build'[r] = build[r]
    BY <1>0 DEF Receive, Handle, GetJob, GetState, Drop, Mark, InsertDelivery,
                createPendingBuild, Add, Abort, rowVars
  <1>3. \A r \in Requests : by[r] # 0 => by'[r] # 0
    <2>1. by' = by \/ by' = [by EXCEPT ![job[Base].req] = p]
      BY DEF Receive, Handle, GetJob, GetState, Drop, Mark, InsertDelivery,
             createPendingBuild, Add, Abort
    <2> QED
      BY <1>0, <2>1
  <1> QED
    BY <1>1, <1>2, <1>3

(* A job that is to be run stays so, or its handling removes it.           *)
LEMMA WaitsStep ==
    ASSUME Shape, NEW p \in Requests, Receive(p) \/ Handle(p) \/ Abort(p),
           NEW r \in Requests, Waits(r)
    PROVE  Waits(r)' \/ by'[r] # 0
  <1>0. /\ by \in [Requests -> 0..N] /\ p # 0 /\ job \in [JobIds -> JobRow]
    BY SMTT(20), PushAssumption DEF Shape, TypeOK, Requests, JobRow
  <1>1. PICK j \in JobIds : job[j].req = r /\ job[j].st \in LiveStates
    BY DEF Waits, LiveStates
  <1>2. job'[j] = job[j] => Waits(r)'
    BY <1>1 DEF Waits, LiveStates
  <1>3. CASE job' = job
    BY <1>2, <1>3
  <1>4. CASE /\ Drop(p) /\ job[Base].st # "active"
             /\ \A i \in JobIds : i # Base => job'[i] = job[i]
    <2>1. CASE j = Base
      <3>1. by' = [by EXCEPT ![job[Base].req] = p]
        BY <1>1, <1>4, <2>1 DEF Drop, LiveStates
      <3> QED
        BY <1>0, <1>1, <2>1, <3>1
    <2> QED
      BY <1>2, <1>4, <2>1
  <1>5. CASE job[key[p]] = NoJob /\ \A i \in JobIds : i # key[p] => job'[i] = job[i]
    <2>1. j # key[p]
      BY <1>1, <1>5 DEF NoJob, LiveStates
    <2> QED
      BY <1>2, <1>5, <2>1
  <1> QED
    BY <1>3, <1>4, <1>5, JobStep

LEMMA StepSwallowed ==
    ASSUME Shape, Alone, NotSwallowed, Next PROVE NotSwallowed'
  <1>1. ASSUME NEW p \in Requests, Receive(p) \/ Handle(p) \/ Abort(p),
               NEW r \in Requests, Accepted(r)', r \notin crowd'
        PROVE  Waits(r)' \/ Ended(r)' \/ by'[r] # 0
    <2>0. /\ \A q \in Requests : q # p => pc'[q] = pc[q]
          /\ crowd \subseteq crowd' /\ gaveUp' = gaveUp
      BY <1>1, RequestStep DEF Shape
    <2>1. CASE r # p
      <3>1. Accepted(r) /\ r \notin crowd
        BY <1>1, <2>0, <2>1 DEF Accepted
      <3>2. CASE Waits(r)
        BY <1>1, <3>2, WaitsStep
      <3>3. CASE Ended(r)
        BY <1>1, <2>0, <2>1, <3>3, TraceStep DEF Ended
      <3>4. CASE by[r] # 0
        BY <1>1, <3>4, TraceStep
      <3> QED
        BY <3>1, <3>2, <3>3, <3>4 DEF NotSwallowed
    <2>2. CASE r = p
      <3>1. Add(p)
        BY <1>1, <2>2, TraceStep DEF Accepted
      <3>2. p \in Busy /\ pc[p] = "add" /\ p \notin crowd /\ Kind[Push[p]] # "skip"
        BY <1>1, <2>0, <2>2, <3>1 DEF Add, Busy, Over, Accepted
      <3>3. job[key[p]].st = "none" /\ key[p] \in JobIds
        BY <3>2 DEF Alone, Shape, TypeOK
      <3>4. job'[key[p]] = [req |-> p, st |-> "waiting", made |-> 0]
        BY <3>1, <3>3, AddStep DEF Shape, TypeOK
      <3> QED
        BY <2>2, <3>3, <3>4 DEF Waits
    <2> QED
      BY <2>1, <2>2
  <1>2. ASSUME Take \/ \E j \in JobIds : Await(j) \/ Attempt(j) \/ Promote(j),
               NEW r \in Requests, Accepted(r)', r \notin crowd'
        PROVE  Waits(r)' \/ Ended(r)' \/ by'[r] # 0
    <2>0. /\ Accepted(r) /\ r \notin crowd /\ by' = by /\ gaveUp \subseteq gaveUp'
          /\ \A i \in JobIds : job'[i].req = job[i].req
      BY <1>2, WorkerStep DEF Accepted
    <2>1. CASE Take
      <3>1. /\ queue[1] \in JobIds /\ job'[queue[1]].st = "active"
            /\ \A j \in JobIds : j # queue[1] => job'[j] = job[j]
        <4>1. queue[1] \in JobIds /\ job' = [job EXCEPT ![queue[1]].st = "active"]
          BY <2>1, TakeStep DEF Shape
        <4>2. job \in [JobIds -> JobRow]
          BY DEF Shape, TypeOK, JobRow
        <4> QED
          BY <4>1, <4>2 DEF JobRow
      <3>2. build' = build
        BY <2>1 DEF Take, rowVars
      <3> QED
        BY <2>0, <3>1, <3>2 DEF NotSwallowed, Waits, Ended
    <2>2. ASSUME NEW j \in JobIds, Attempt(j) PROVE Waits(r)' \/ Ended(r)' \/ by'[r] # 0
      <3>1. /\ build'[job[j].req] \in {"succeeded", "failed"}
            /\ r # job[j].req => build'[r] = build[r]
            /\ \A i \in JobIds : i # j => job'[i] = job[i]
        BY <2>2, TryStep, AttemptStep DEF Shape
      <3>2. CASE r = job[j].req
        BY <3>1, <3>2 DEF Ended
      <3>3. CASE r # job[j].req
        BY <2>0, <3>1, <3>3 DEF NotSwallowed, Waits, Ended
      <3> QED
        BY <3>2, <3>3
    <2>3. ASSUME NEW j \in JobIds, Promote(j) PROVE Waits(r)' \/ Ended(r)' \/ by'[r] # 0
      <3>1. job'[j].st = "waiting" /\ \A i \in JobIds : i # j => job'[i] = job[i]
        BY <2>3, PromoteStep DEF Shape
      <3>2. build' = build
        BY <2>3 DEF Promote, rowVars
      <3> QED
        BY <2>0, <3>1, <3>2 DEF NotSwallowed, Waits, Ended
    <2>4. ASSUME NEW j \in JobIds, Resolve(j) PROVE Waits(r)' \/ Ended(r)' \/ by'[r] # 0
      <3>1. job' = job /\ build' = build
        BY <2>4, ResolveStep DEF Shape
      <3> QED
        BY <2>0, <3>1 DEF NotSwallowed, Waits, Ended
    <2>5. ASSUME NEW j \in JobIds, ResolveFails(j) PROVE Waits(r)' \/ Ended(r)' \/ by'[r] # 0
      <3>1. /\ build' = build /\ \A i \in JobIds : i # j => job'[i] = job[i]
            /\ job'[j].st = "delayed" \/ job[j].req \in gaveUp'
        BY <2>5, TryStep, RefusedStep DEF Shape
      <3>2. CASE r = job[j].req
        BY <2>0, <3>1, <3>2 DEF Waits, Ended
      <3>3. CASE r # job[j].req
        BY <2>0, <3>1, <3>3 DEF NotSwallowed, Waits, Ended
      <3> QED
        BY <3>2, <3>3
    <2> QED
      BY <1>2, <2>1, <2>2, <2>3, <2>4, <2>5 DEF Await
  <1> QED
    BY <1>1, <1>2 DEF Next, NotSwallowed

-----------------------------------------------------------------------------
(* The slots deploy in order.                                               *)

(* A line that lost elements: h says where those that are left were.       *)
Left(h) ==
    /\ h \in [DOMAIN line' -> DOMAIN line]
    /\ \A k \in DOMAIN line' : line'[k] = line[h[k]]
    /\ \A k, l \in DOMAIN line' : k < l => h[k] < h[l]

(* Jobs leave the queue, the line or their slot, and none is put to work.  *)
LEMMA LanesShrunk ==
    ASSUME Shape, Lanes, NEW g, Shrunk(g), NEW h, Left(h),
           \A k \in DOMAIN queue' : job'[queue'[k]] = job[queue'[k]],
           \A k \in DOMAIN line' : job'[line'[k]] = job[line'[k]],
           \A j \in JobIds : job'[j].st = "active" => job'[j] = job[j],
           Resolving' \subseteq Resolving,
           crowd \subseteq crowd', overtaken \subseteq overtaken'
    PROVE  Lanes'
  <1>1. \A k \in DOMAIN queue' :
           /\ g[k] \in DOMAIN queue /\ queue'[k] = queue[g[k]]
           /\ job'[queue'[k]] = job[queue[g[k]]]
           /\ Clean(queue[k])' => Clean(queue[g[k]])
    BY DEF Shrunk, Clean
  <1>2. \A k \in DOMAIN line' :
           /\ h[k] \in DOMAIN line /\ line'[k] = line[h[k]]
           /\ job'[line'[k]] = job[line[h[k]]]
           /\ Clean(line[k])' => Clean(line[h[k]])
    BY DEF Left, Clean
  <1>3. \A j \in Resolving' : j \in Resolving /\ job'[j] = job[j] /\ (Clean(j)' => Clean(j))
    BY DEF Resolving, Clean
  <1>4. \A i, k \in DOMAIN queue' :
           i < k /\ Clean(queue[k])' => job'[queue'[i]].req < job'[queue'[k]].req
    <2>1. \A k, l \in DOMAIN queue' : k < l => g[k] < g[l]
      BY DEF Shrunk
    <2> QED
      BY <1>1, <2>1 DEF Lanes
  <1>5. \A i \in JobIds, k \in DOMAIN queue' :
           job'[i].st = "active" /\ Clean(queue[k])' => job'[i].req < job'[queue'[k]].req
    BY <1>1 DEF Lanes
  <1>6. \A i, k \in DOMAIN line' :
           i < k /\ Clean(line[k])' => job'[line'[i]].req <= job'[line'[k]].req
    <2>1. \A k, l \in DOMAIN line' : k < l => h[k] < h[l]
      BY DEF Left
    <2> QED
      BY <1>2, <2>1 DEF Lanes
  <1>7. \A i \in DOMAIN line', j \in Resolving' : Clean(j)' => job'[line'[i]].req <= job'[j].req
    BY <1>2, <1>3 DEF Lanes
  <1> QED
    BY <1>4, <1>5, <1>6, <1>7 DEF Lanes

LEMMA AheadShrunk ==
    ASSUME Shape, Ahead, NEW g, Shrunk(g),
           \A k \in DOMAIN queue' : job'[queue'[k]] = job[queue'[k]],
           \A j \in JobIds : job'[j].st = "active" => job'[j] = job[j],
           crowd \subseteq crowd', overtaken \subseteq overtaken', deployed' = deployed
    PROVE  Ahead'
  <1>1. \A k \in DOMAIN queue' :
           /\ g[k] \in DOMAIN queue /\ queue'[k] = queue[g[k]]
           /\ job'[queue'[k]] = job[queue[g[k]]]
           /\ Clean(queue[k])' => Clean(queue[g[k]])
    BY DEF Shrunk, Clean
  <1>2. \A j \in JobIds : job'[j].st = "active" /\ Clean(j)' =>
           job[j].st = "active" /\ job'[j] = job[j] /\ Clean(j)
    BY DEF Clean
  <1>3. \A i \in DOMAIN deployed', k \in DOMAIN queue' :
           Clean(queue[k])' => deployed'[i].req <= job'[queue'[k]].req
    BY <1>1 DEF Ahead
  <1>4. \A i \in DOMAIN deployed', j \in JobIds :
           job'[j].st = "active" /\ Clean(j)' => deployed'[i].req <= job'[j].req
    BY <1>2 DEF Ahead
  <1> QED
    BY <1>3, <1>4 DEF Ahead

(* A job that does not run joins the end of the queue.                     *)
Joins(j) ==
    /\ job[j].st \notin {"waiting", "active"} /\ job'[j].st = "waiting"
    /\ queue' = Append(queue, j) /\ \A i \in JobIds : i # j => job'[i] = job[i]
    /\ crowd \subseteq crowd' /\ overtaken' = overtaken /\ line' = line /\ deployed' = deployed

LEMMA JoinStep ==
    ASSUME Shape, NEW j \in JobIds, Joins(j)
    PROVE  /\ \A k \in DOMAIN queue' :
                 \/ /\ k \in DOMAIN queue /\ queue'[k] = queue[k] /\ queue[k] \in JobIds
                    /\ job[queue[k]].st = "waiting" /\ job'[queue'[k]] = job[queue[k]]
                    /\ Clean(queue[k])' => Clean(queue[k])
                 \/ k = Len(queue) + 1 /\ queue'[k] = j
           /\ \A i, k \in DOMAIN queue' : i < k => i \in DOMAIN queue
           /\ \A i \in JobIds : job'[i].st = "active" =>
                 i # j /\ job'[i] = job[i] /\ (Clean(i)' => Clean(i))
  <1>0. queue \in Seq(JobIds) /\ Len(queue) \in Nat /\ DOMAIN queue = 1..Len(queue)
    BY LenProperties DEF Shape, TypeOK
  <1>1. /\ DOMAIN queue' = 1..(Len(queue) + 1) /\ queue'[Len(queue) + 1] = j
        /\ \A k \in 1..Len(queue) : queue'[k] = queue[k]
    BY <1>0 DEF Joins
  <1>2. \A k \in DOMAIN queue :
           /\ queue[k] \in JobIds /\ queue[k] # j /\ job[queue[k]].st = "waiting"
           /\ job'[queue'[k]] = job[queue[k]] /\ (Clean(queue[k])' => Clean(queue[k]))
    <2>1. \A k \in DOMAIN queue : queue[k] \in JobIds /\ job[queue[k]].st = "waiting"
      BY <1>0, ElementOfSeq DEF Shape, Queued
    <2> QED
      BY <1>0, <1>1, <2>1 DEF Clean, Joins
  <1>3. \A i \in JobIds : job'[i].st = "active" =>
           i # j /\ job'[i] = job[i] /\ (Clean(i)' => Clean(i))
    BY DEF Joins, Clean
  <1>4. \A i, k \in DOMAIN queue' : i < k => i \in DOMAIN queue
    BY <1>0, <1>1
  <1>5. \A k \in DOMAIN queue' : k \in DOMAIN queue \/ (k = Len(queue) + 1 /\ queue'[k] = j)
    BY <1>0, <1>1
  <1> QED
    BY <1>0, <1>1, <1>2, <1>3, <1>4, <1>5

(* If nothing may overtake it, it is newer than all that runs or waits.    *)
LEMMA LanesAppend ==
    ASSUME Shape, Lanes, NEW j \in JobIds, Joins(j),
           Clean(j)' => \A i \in JobIds : job[i].st \in {"waiting", "active"} =>
                           job[i].req < job'[j].req
    PROVE  Lanes'
  <1>1. ASSUME NEW i \in DOMAIN queue', NEW k \in DOMAIN queue', i < k, Clean(queue[k])'
        PROVE  job'[queue'[i]].req < job'[queue'[k]].req
    <2>1. /\ i \in DOMAIN queue /\ queue'[i] = queue[i] /\ queue[i] \in JobIds
          /\ job[queue[i]].st = "waiting" /\ job'[queue'[i]] = job[queue[i]]
      <3>1. i \in DOMAIN queue /\ DOMAIN queue = 1..Len(queue) /\ Len(queue) \in Nat
        BY <1>1, JoinStep, LenProperties DEF Shape, TypeOK
      <3>2. i # Len(queue) + 1
        BY <3>1
      <3> QED
        BY <3>2, JoinStep
    <2>2. CASE k \in DOMAIN queue /\ job'[queue'[k]] = job[queue[k]] /\ Clean(queue[k])
      BY <1>1, <2>1, <2>2 DEF Lanes
    <2>3. CASE queue'[k] = j
      BY <1>1, <2>1, <2>3 DEF Clean
    <2> QED
      BY <1>1, <2>2, <2>3, JoinStep
  <1>2. ASSUME NEW i \in JobIds, NEW k \in DOMAIN queue', job'[i].st = "active", Clean(queue[k])'
        PROVE  job'[i].req < job'[queue'[k]].req
    <2>1. i # j /\ job'[i] = job[i]
      BY <1>2, JoinStep
    <2>2. CASE k \in DOMAIN queue /\ job'[queue'[k]] = job[queue[k]] /\ Clean(queue[k])
      BY <1>2, <2>1, <2>2 DEF Lanes
    <2>3. CASE queue'[k] = j
      BY <1>2, <2>1, <2>3 DEF Clean
    <2> QED
      BY <1>2, <2>2, <2>3, JoinStep
  <1>3. \A k \in DOMAIN line : /\ line[k] \in JobIds /\ line'[k] = line[k]
                               /\ job'[line'[k]] = job[line[k]]
                               /\ Clean(line[k])' => Clean(line[k])
    <2>1. \A k \in DOMAIN line : line[k] \in JobIds /\ job[line[k]].st = "active"
      BY LineRows DEF Shape, Lined
    <2> QED
      BY <2>1 DEF Joins, Clean
  <1>4. \A i \in Resolving' : i \in Resolving /\ job'[i] = job[i] /\ (Clean(i)' => Clean(i))
    BY JoinStep DEF Resolving, Joins
  <1>5. \A i, k \in DOMAIN line' :
           i < k /\ Clean(line[k])' => job'[line'[i]].req <= job'[line'[k]].req
    BY <1>3 DEF Lanes, Joins
  <1>6. \A i \in DOMAIN line', l \in Resolving' : Clean(l)' => job'[line'[i]].req <= job'[l].req
    BY <1>3, <1>4 DEF Lanes, Joins
  <1> QED
    BY <1>1, <1>2, <1>5, <1>6 DEF Lanes

LEMMA AheadAppend ==
    ASSUME Shape, Ahead, NEW j \in JobIds, Joins(j),
           Clean(j)' => \A i \in DOMAIN deployed : deployed[i].req <= job'[j].req
    PROVE  Ahead'
  <1>1. ASSUME NEW i \in DOMAIN deployed', NEW k \in DOMAIN queue', Clean(queue[k])'
        PROVE  deployed'[i].req <= job'[queue'[k]].req
    <2>1. deployed' = deployed
      BY DEF Joins
    <2>2. CASE k \in DOMAIN queue /\ job'[queue'[k]] = job[queue[k]] /\ Clean(queue[k])
      BY <1>1, <2>1, <2>2 DEF Ahead
    <2>3. CASE queue'[k] = j
      BY <1>1, <2>1, <2>3 DEF Clean
    <2> QED
      BY <1>1, <2>2, <2>3, JoinStep
  <1>2. \A i \in DOMAIN deployed', l \in JobIds :
           job'[l].st = "active" /\ Clean(l)' => deployed'[i].req <= job'[l].req
    BY JoinStep DEF Ahead, Joins
  <1> QED
    BY <1>1, <1>2 DEF Ahead

(* What is done came before a handler that is alone.                       *)
LEMMA Older ==
    ASSUME Alone, NEW p \in Busy, p \notin crowd, NEW q \in Requests, pc[q] = "done"
    PROVE  q < p
  <1>1. q # p /\ ~(q > p)
    BY DEF Alone, Busy, Over
  <1> QED
    BY <1>1, PushAssumption DEF Busy, Requests

(* What joins the queue is new, or was tried before.                       *)
LEMMA NewJob ==
    ASSUME Shape, Alone, NEW p \in Requests, Add(p), job' # job
    PROVE  /\ key[p] \in JobIds
           /\ \A j : j = key[p] =>
                 /\ Joins(j)
                 /\ Clean(j)' =>
                       /\ \A i \in JobIds : job[i].st \in {"waiting", "active"} =>
                             job[i].req < job'[j].req
                       /\ \A i \in DOMAIN deployed : deployed[i].req <= job'[j].req
  <1>1. /\ key[p] \in JobIds /\ job[key[p]] = NoJob
        /\ job'[key[p]] = [req |-> p, st |-> "waiting", made |-> 0]
        /\ \A j \in JobIds : j # key[p] => job'[j] = job[j]
        /\ queue' = Append(queue, key[p])
    <2>1. /\ job[key[p]] = NoJob /\ queue' = Append(queue, key[p])
          /\ job' = [job EXCEPT ![key[p]] = [req |-> p, st |-> "waiting", made |-> 0]]
      BY AddStep DEF Shape
    <2>2. job \in [JobIds -> JobRow] /\ key[p] \in JobIds
      BY DEF Shape, TypeOK, JobRow
    <2> QED
      BY <2>1, <2>2
  <1>2. /\ p \in Busy /\ crowd' = crowd /\ overtaken' = overtaken /\ line' = line
        /\ deployed' = deployed
    BY DEF Add, Busy, Over, lockVars
  <1>3. ASSUME NEW j, j = key[p] PROVE Joins(j)
    BY <1>1, <1>2, <1>3 DEF Joins, NoJob
  <1>4. ASSUME NEW j, j = key[p], Clean(j)'
        PROVE  /\ \A i \in JobIds : job[i].st \in {"waiting", "active"} =>
                     job[i].req < job'[j].req
               /\ \A i \in DOMAIN deployed : deployed[i].req <= job'[j].req
    <2>1. p \notin crowd /\ job'[j].req = p
      BY <1>1, <1>2, <1>4 DEF Clean
    <2>2. \A i \in JobIds : job[i].st \in {"waiting", "active"} =>
             job[i].req \in Requests /\ pc[job[i].req] = "done"
      BY DEF Shape, JobsKnown
    <2>3. \A i \in DOMAIN deployed : deployed[i].req \in Requests /\ pc[deployed[i].req] = "done"
      BY DeployRows DEF Shape, JobsKnown
    <2>4. \A q \in Requests : pc[q] = "done" => q < p /\ q <= p
      BY <1>2, <2>1, Older DEF Requests
    <2> QED
      BY <2>1, <2>2, <2>3, <2>4
  <1> QED
    BY <1>1, <1>3, <1>4

LEMMA Promoted ==
    ASSUME Shape, NEW j \in JobIds, Promote(j)
    PROVE  Joins(j) /\ ~Clean(j)'
  <1>1. /\ job[j].st = "delayed" /\ job'[j].st = "waiting" /\ job'[j].made = job[j].made
        /\ \A i \in JobIds : i # j => job'[i] = job[i]
        /\ queue' = Append(queue, j)
    BY PromoteStep DEF Shape
  <1>2. /\ crowd' = crowd /\ deployed' = deployed /\ line' = line /\ overtaken' = overtaken
    BY DEF Promote, handlerVars, lockVars
  <1>3. ~Clean(j)'
    BY <1>1 DEF Clean, Shape, JobsKnown
  <1> QED
    BY <1>1, <1>2, <1>3 DEF Joins

(* What leaves the queue without being put to work.                        *)
LEMMA Dropped ==
    ASSUME Shape, NEW p \in Requests, Drop(p), job[Base].st # "active"
    PROVE  /\ \E g : Shrunk(g)
           /\ \A k \in DOMAIN queue' : job'[queue'[k]] = job[queue'[k]]
           /\ \A j \in JobIds : job[j].st = "active" => job'[j] = job[j]
           /\ \A j \in JobIds : job'[j].st = "active" => job'[j] = job[j]
  <1>0. job \in [JobIds -> JobRow] /\ \A k \in DOMAIN queue : queue[k] \in JobIds
    BY LenProperties, ElementOfSeq DEF Shape, TypeOK, JobRow
  <1>1. job'[Base] = NoJob /\ \A j \in JobIds : j # Base => job'[j] = job[j]
    BY <1>0, DropStep, Ids DEF Shape
  <1>2. PICK g : Shrunk(g) /\ \A k \in DOMAIN queue' : queue'[k] # Base
    BY DropStep DEF Shape
  <1>3. \A k \in DOMAIN queue' : queue'[k] \in JobIds
    BY <1>0, <1>2 DEF Shrunk
  <1> QED
    BY <1>1, <1>2, <1>3 DEF NoJob

(* What a free slot takes from the queue.                                  *)
LEMMA Taken ==
    ASSUME Shape, Take
    PROVE  /\ queue[1] \in JobIds /\ 1 \in DOMAIN queue /\ job[queue[1]].st = "waiting"
           /\ job'[queue[1]].st = "active" /\ job'[queue[1]].req = job[queue[1]].req
           /\ job'[queue[1]].made = job[queue[1]].made
           /\ \A j \in JobIds : j # queue[1] => job'[j] = job[j]
           /\ crowd' = crowd /\ deployed' = deployed /\ line' = line /\ overtaken' = overtaken
           /\ \E g : /\ Shrunk(g)
                     /\ \A k \in DOMAIN queue' :
                           /\ g[k] \in DOMAIN queue /\ queue'[k] = queue[g[k]] /\ 1 < g[k]
                           /\ job'[queue'[k]] = job[queue[g[k]]]
                           /\ Clean(queue[k])' => Clean(queue[g[k]])
  <1>0. /\ job \in [JobIds -> JobRow] /\ DOMAIN queue \subseteq Nat
        /\ \A k \in DOMAIN queue : queue[k] \in JobIds
    BY LenProperties, ElementOfSeq DEF Shape, TypeOK, JobRow
  <1>1. PICK g : Shrunk(g) /\ \A k \in DOMAIN queue' : g[k] > 1 /\ queue'[k] # queue[1]
    BY TakeStep DEF Shape
  <1>2. /\ queue[1] \in JobIds /\ 1 \in DOMAIN queue /\ job[queue[1]].st = "waiting"
        /\ job'[queue[1]].st = "active" /\ job'[queue[1]].req = job[queue[1]].req
        /\ job'[queue[1]].made = job[queue[1]].made
        /\ \A j \in JobIds : j # queue[1] => job'[j] = job[j]
    BY <1>0, TakeStep DEF Shape, JobRow
  <1>3. crowd' = crowd /\ deployed' = deployed /\ line' = line /\ overtaken' = overtaken
    BY DEF Take, handlerVars, lockVars
  <1>4. \A k \in DOMAIN queue' : g[k] \in DOMAIN queue /\ queue'[k] = queue[g[k]] /\ 1 < g[k]
    <2>1. \A k \in DOMAIN queue' : g[k] \in DOMAIN queue /\ queue'[k] = queue[g[k]] /\ g[k] > 1
      BY <1>1 DEF Shrunk
    <2> QED
      BY <1>0, <2>1
  <1>5. \A k \in DOMAIN queue' : job'[queue'[k]] = job[queue[g[k]]]
    BY <1>0, <1>1, <1>2, <1>4
  <1>6. \A k \in DOMAIN queue' : Clean(queue[k])' => Clean(queue[g[k]])
    BY <1>3, <1>4, <1>5 DEF Clean
  <1> QED
    BY <1>1, <1>2, <1>3, <1>4, <1>5, <1>6

(* What ends an attempt.                                                   *)
LEMMA Tried ==
    ASSUME Shape, NEW j \in JobIds, Attempt(j) \/ ResolveFails(j)
    PROVE  /\ queue' = queue /\ crowd' = crowd /\ overtaken' = overtaken
           /\ \A k \in DOMAIN queue' : job'[queue'[k]] = job[queue'[k]]
           /\ \A i \in JobIds : i # j => job'[i] = job[i]
           /\ job[j].st = "active" /\ job'[j].st # "active"
           /\ \E h : Left(h)
           /\ \A k \in DOMAIN line' : job'[line'[k]] = job[line'[k]]
           /\ Resolving' \subseteq Resolving
  <1>0. \A k \in DOMAIN queue : queue[k] \in JobIds /\ job[queue[k]].st = "waiting"
    BY LenProperties, ElementOfSeq DEF Shape, TypeOK, Queued
  <1>1. /\ queue' = queue /\ job[j].st = "active" /\ job'[j].st # "active"
        /\ \A i \in JobIds : i # j => job'[i] = job[i]
    BY TryStep DEF Shape
  <1>2. crowd' = crowd /\ overtaken' = overtaken
    BY DEF Attempt, Succeed, Fail, ResolveFails, handlerVars
  <1>3. \A k \in DOMAIN queue' : job'[queue'[k]] = job[queue'[k]]
    BY <1>0, <1>1
  <1>4. CASE Attempt(j)
    <2> DEFINE h == [k \in DOMAIN line' |-> k + 1]
    <2>1. /\ 1 \in DOMAIN line /\ line[1] = j /\ DOMAIN line' = 1..(Len(line) - 1)
          /\ \A k \in DOMAIN line' : k + 1 \in DOMAIN line /\ line'[k] = line[k + 1] /\ line'[k] # j
      BY <1>4, AttemptStep, Holder DEF Shape
    <2>2. Len(line) \in Nat /\ DOMAIN line = 1..Len(line) /\ \A k \in DOMAIN line : line[k] \in JobIds
      BY LineRows DEF Shape
    <2>3. Left(h)
      BY <2>1, <2>2 DEF Left
    <2>4. \A k \in DOMAIN line' : job'[line'[k]] = job[line'[k]]
      BY <1>1, <2>1, <2>2
    <2>5. ASSUME NEW i \in Resolving' PROVE i \in Resolving
      <3>1. i \in JobIds /\ i # j /\ job[i].st = "active" /\ \A k \in DOMAIN line' : line'[k] # i
        BY <1>1, <2>5 DEF Resolving
      <3>2. \A k \in DOMAIN line : k = 1 \/ (k - 1 \in DOMAIN line' /\ (k - 1) + 1 = k)
        BY <2>1, <2>2
      <3>3. \A k \in DOMAIN line : line[k] # i
        BY <2>1, <3>1, <3>2
      <3> QED
        BY <3>1, <3>3 DEF Resolving
    <2> QED
      BY <1>1, <1>2, <1>3, <2>3, <2>4, <2>5
  <1>5. CASE ResolveFails(j)
    <2> DEFINE h == [k \in DOMAIN line |-> k]
    <2>1. line' = line /\ \A k \in DOMAIN line : line[k] # j /\ line[k] \in JobIds
      BY <1>5, RefusedStep, LineRows DEF Shape
    <2>2. Left(h)
      BY <2>1 DEF Left
    <2>3. Resolving' \subseteq Resolving
      BY <1>1, <2>1 DEF Resolving
    <2> QED
      BY <1>1, <1>2, <1>3, <2>1, <2>2, <2>3
  <1> QED
    BY <1>4, <1>5

(* A step that leaves the queue and the line alone.                        *)
LEMMA Idle ==
    /\ queue' = queue => \E g : Shrunk(g)
    /\ line' = line => \E h : Left(h)
  <1> DEFINE g == [k \in DOMAIN queue |-> k]
             h == [k \in DOMAIN line |-> k]
  <1>1. queue' = queue => Shrunk(g)
    BY DEF Shrunk
  <1>2. line' = line => Left(h)
    BY DEF Left
  <1> QED
    BY <1>1, <1>2

LEMMA StepLanes ==
    ASSUME Shape, Alone, Lanes, Next PROVE Lanes'
  <1>0. /\ \A k \in DOMAIN queue : queue[k] \in JobIds /\ job[queue[k]].st = "waiting"
        /\ \A k \in DOMAIN line : line[k] \in JobIds /\ job[line[k]].st = "active"
    <2>1. queue \in Seq(JobIds)
      BY DEF Shape, TypeOK
    <2>2. \A k \in DOMAIN queue : queue[k] \in JobIds
      BY <2>1, ElementOfSeq, LenProperties
    <2> QED
      BY <2>2, LineRows DEF Shape, Queued, Lined
  <1>1. ASSUME NEW p \in Requests, Receive(p) \/ Handle(p) \/ Abort(p) PROVE Lanes'
    <2>0. /\ crowd \subseteq crowd' /\ overtaken' = overtaken /\ line' = line
      BY <1>1, RequestStep DEF Shape
    <2>1. CASE job' = job /\ queue' = queue
      <3>1. Resolving' \subseteq Resolving
        BY <2>0, <2>1 DEF Resolving
      <3> QED
        BY <2>0, <2>1, <3>1, Idle, LanesShrunk
    <2>2. CASE Drop(p) /\ job[Base].st # "active"
      <3>1. Resolving' \subseteq Resolving /\ \A k \in DOMAIN line' : job'[line'[k]] = job[line'[k]]
        BY <1>0, <2>0, <2>2, Dropped DEF Resolving
      <3> QED
        BY <2>0, <2>2, <3>1, Dropped, Idle, LanesShrunk
    <2>3. CASE Add(p) /\ job' # job
      BY <2>3, NewJob, LanesAppend
    <2>4. \/ job' = job /\ queue' = queue
          \/ Drop(p) /\ job[Base].st # "active"
          \/ Add(p) /\ job' # job
      <3>1. [req |-> p, st |-> "waiting", made |-> 0] # NoJob
        BY DEF NoJob
      <3> QED
        BY <1>1, <3>1, JobStep
    <2> QED
      BY <2>1, <2>2, <2>3, <2>4
  <1>2. CASE Take
    <2>1. PICK g : /\ Shrunk(g)
                   /\ \A k \in DOMAIN queue' :
                         /\ g[k] \in DOMAIN queue /\ queue'[k] = queue[g[k]] /\ 1 < g[k]
                         /\ job'[queue'[k]] = job[queue[g[k]]]
                         /\ Clean(queue[k])' => Clean(queue[g[k]])
      BY <1>2, Taken
    <2>2. \A i, k \in DOMAIN queue' :
             i < k /\ Clean(queue[k])' => job'[queue'[i]].req < job'[queue'[k]].req
      BY <2>1 DEF Lanes, Shrunk
    <2>3. \A i \in JobIds, k \in DOMAIN queue' :
             job'[i].st = "active" /\ Clean(queue[k])' => job'[i].req < job'[queue'[k]].req
      BY <1>2, <2>1, Taken DEF Lanes
    <2>4. \A k \in DOMAIN line : /\ line' = line /\ job'[line'[k]] = job[line[k]]
                                 /\ Clean(line[k])' => Clean(line[k])
      BY <1>0, <1>2, Taken DEF Clean
    <2>5. \A i, k \in DOMAIN line' :
             i < k /\ Clean(line[k])' => job'[line'[i]].req <= job'[line'[k]].req
      BY <1>2, <2>4, Taken DEF Lanes
    <2>6. ASSUME NEW i \in DOMAIN line', NEW j \in Resolving', Clean(j)'
          PROVE  job'[line'[i]].req <= job'[j].req
      <3>0. i \in DOMAIN line /\ job'[line'[i]] = job[line[i]] /\ line' = line
        BY <1>2, <2>4, Taken
      <3>1. CASE j = queue[1]
        <4>1. Clean(queue[1]) /\ job'[j].req = job[queue[1]].req
          BY <1>2, <2>6, <3>1, Taken DEF Clean
        <4>2. job[line[i]].req < job[queue[1]].req
          BY <1>0, <1>2, <3>0, <4>1, Taken DEF Lanes
        <4>3. job[line[i]].req \in Int /\ job[queue[1]].req \in Int
          <5>1. \A l \in JobIds : job[l].req \in Int
            BY DEF Shape, TypeOK
          <5> QED
            BY <1>0, <1>2, <3>0, <5>1, Taken
        <4> QED
          BY <3>0, <4>1, <4>2, <4>3
      <3>2. CASE j # queue[1]
        <4>1. j \in Resolving /\ Clean(j) /\ job'[j] = job[j]
          BY <1>2, <2>6, <3>0, <3>2, Taken DEF Resolving, Clean
        <4> QED
          BY <3>0, <4>1 DEF Lanes
      <3> QED
        BY <3>1, <3>2
    <2> QED
      BY <2>2, <2>3, <2>5, <2>6 DEF Lanes
  <1>3. ASSUME NEW j \in JobIds, Attempt(j) \/ ResolveFails(j) PROVE Lanes'
    <2>1. \A i \in JobIds : job'[i].st = "active" => job'[i] = job[i]
      BY <1>3, Tried
    <2> QED
      BY <1>3, <2>1, Tried, Idle, LanesShrunk
  <1>4. ASSUME NEW j \in JobIds, Promote(j) PROVE Lanes'
    BY <1>4, Promoted, LanesAppend
  <1>5. ASSUME NEW j \in JobIds, Resolve(j) PROVE Lanes'
    <2>0. crowd' = crowd /\ overtaken \subseteq overtaken' /\ job' = job /\ queue' = queue
      BY <1>5, ResolveStep DEF Resolve, handlerVars, Shape
    <2>1. \A i : Clean(i)' => Clean(i)
      BY <2>0 DEF Clean
    <2>2. \A k \in DOMAIN line' : (k \in DOMAIN line /\ line'[k] = line[k])
                               \/ (k = Len(line) + 1 /\ line'[k] = j)
      BY <1>5, ResolveStep, LineRows DEF Shape
    <2>3. \A i \in Resolving' : i \in Resolving /\ i # j
      <3>1. ASSUME NEW i \in Resolving' PROVE i \in Resolving /\ i # j
        <4>1. i \in JobIds /\ job[i].st = "active" /\ \A k \in DOMAIN line' : line'[k] # i
          BY <2>0, <3>1 DEF Resolving
        <4>2. /\ \A k \in DOMAIN line : k \in DOMAIN line' /\ line'[k] = line[k]
              /\ Len(line) + 1 \in DOMAIN line' /\ line'[Len(line) + 1] = j
          BY <1>5, ResolveStep, LineRows DEF Shape
        <4> QED
          BY <4>1, <4>2 DEF Resolving
      <3> QED
        BY <3>1
    <2>4. j \in Resolving
      BY <1>5 DEF Resolve
    <2>5. ASSUME NEW i \in DOMAIN line', NEW k \in DOMAIN line', i < k, Clean(line[k])'
          PROVE  job'[line'[i]].req <= job'[line'[k]].req
      <3>1. i \in DOMAIN line /\ line'[i] = line[i]
        BY <1>5, <2>2, <2>5, ResolveStep, LineRows DEF Shape
      <3>2. CASE k \in DOMAIN line /\ line'[k] = line[k]
        BY <2>0, <2>1, <2>5, <3>1, <3>2 DEF Lanes, Clean
      <3>3. CASE line'[k] = j
        <4>1. Clean(j)
          BY <2>0, <2>5, <3>3 DEF Clean
        <4> QED
          BY <2>0, <2>4, <3>1, <3>3, <4>1 DEF Lanes
      <3> QED
        BY <2>2, <3>2, <3>3
    <2>6. ASSUME NEW i \in DOMAIN line', NEW l \in Resolving', Clean(l)'
          PROVE  job'[line'[i]].req <= job'[l].req
      <3>1. l \in Resolving /\ Clean(l)
        BY <2>1, <2>3, <2>6
      <3>2. CASE i \in DOMAIN line /\ line'[i] = line[i]
        BY <2>0, <3>1, <3>2 DEF Lanes
      <3>3. CASE line'[i] = j
        <4>1. ~(job[l].req < job[j].req)
          <5>1. job[l].req \notin overtaken'
            BY <2>0, <2>6 DEF Clean
          <5> QED
            BY <1>5, <3>1, <5>1 DEF Resolve
        <4>2. job[l].req \in Int /\ job[j].req \in Int
          BY <3>1 DEF Resolving, Shape, TypeOK
        <4> QED
          BY <2>0, <3>3, <4>1, <4>2
      <3> QED
        BY <2>2, <3>2, <3>3
    <2>7. \A i, k \in DOMAIN queue' :
             i < k /\ Clean(queue[k])' => job'[queue'[i]].req < job'[queue'[k]].req
      BY <2>0 DEF Lanes, Clean
    <2>8. \A i \in JobIds, k \in DOMAIN queue' :
             job'[i].st = "active" /\ Clean(queue[k])' => job'[i].req < job'[queue'[k]].req
      BY <2>0 DEF Lanes, Clean
    <2> QED
      BY <2>5, <2>6, <2>7, <2>8 DEF Lanes
  <1> QED
    BY <1>1, <1>2, <1>3, <1>4, <1>5 DEF Next, Await

LEMMA StepAhead ==
    ASSUME Shape, Alone, Lanes, Ahead, Next PROVE Ahead'
  <1>1. ASSUME NEW p \in Requests, Receive(p) \/ Handle(p) \/ Abort(p) PROVE Ahead'
    <2>0. /\ crowd \subseteq crowd' /\ overtaken' = overtaken /\ deployed' = deployed
      BY <1>1, RequestStep DEF Shape
    <2>1. CASE job' = job /\ queue' = queue
      BY <2>0, <2>1, Idle, AheadShrunk
    <2>2. CASE Drop(p) /\ job[Base].st # "active"
      BY <2>0, <2>2, Dropped, AheadShrunk
    <2>3. CASE Add(p) /\ job' # job
      BY <2>3, NewJob, AheadAppend
    <2>4. \/ job' = job /\ queue' = queue
          \/ Drop(p) /\ job[Base].st # "active"
          \/ Add(p) /\ job' # job
      <3>1. [req |-> p, st |-> "waiting", made |-> 0] # NoJob
        BY DEF NoJob
      <3> QED
        BY <1>1, <3>1, JobStep
    <2> QED
      BY <2>1, <2>2, <2>3, <2>4
  <1>2. CASE Take
    <2>1. \A i \in DOMAIN deployed', k \in DOMAIN queue' :
             Clean(queue[k])' => deployed'[i].req <= job'[queue'[k]].req
      BY <1>2, Taken DEF Ahead
    <2>2. ASSUME NEW i \in DOMAIN deployed', NEW j \in JobIds, job'[j].st = "active", Clean(j)'
          PROVE  deployed'[i].req <= job'[j].req
      <3>1. CASE j = queue[1]
        <4>1. Clean(queue[1]) /\ job'[j].req = job[queue[1]].req
          BY <1>2, <2>2, <3>1, Taken DEF Clean
        <4> QED
          BY <1>2, <2>2, <4>1, Taken DEF Ahead
      <3>2. CASE j # queue[1]
        <4>1. Clean(j) /\ job'[j] = job[j]
          BY <1>2, <2>2, <3>2, Taken DEF Clean
        <4> QED
          BY <1>2, <2>2, <4>1, Taken DEF Ahead
      <3> QED
        BY <3>1, <3>2
    <2> QED
      BY <2>1, <2>2 DEF Ahead
  <1>3. ASSUME NEW j \in JobIds, Attempt(j) \/ ResolveFails(j) PROVE Ahead'
    <2>0. \A i \in JobIds : job'[i].st = "active" => i # j /\ job'[i] = job[i] /\ (Clean(i)' => Clean(i))
      BY <1>3, Tried DEF Clean
    <2>1. CASE deployed' = deployed
      BY <1>3, <2>0, <2>1, Tried, Idle, AheadShrunk
    <2>2. CASE Succeed(j)
      <3>1. \A i \in DOMAIN deployed' :
               \/ i \in DOMAIN deployed /\ deployed'[i] = deployed[i]
               \/ deployed'[i].req = job[j].req
        <4>1. \A i \in DOMAIN deployed' :
                 \/ i \in DOMAIN deployed /\ deployed'[i] = deployed[i]
                 \/ deployed'[i] = [req |-> job[j].req, made |-> job[j].made + 1]
          BY <2>2, DeployStep DEF Shape
        <4> QED
          BY <4>1
      <3>2. ASSUME NEW i \in DOMAIN deployed', NEW k \in DOMAIN queue', Clean(queue[k])'
            PROVE  deployed'[i].req <= job'[queue'[k]].req
        <4>1. Clean(queue[k]) /\ k \in DOMAIN queue /\ job'[queue'[k]] = job[queue[k]]
          BY <1>3, <3>2, Tried DEF Clean
        <4>2. CASE i \in DOMAIN deployed /\ deployed'[i] = deployed[i]
          BY <4>1, <4>2 DEF Ahead
        <4>3. CASE deployed'[i].req = job[j].req
          <5>1. job[j].req < job[queue[k]].req
            BY <1>3, <4>1, Tried DEF Lanes
          <5>2. queue[k] \in JobIds
            BY <4>1, ElementOfSeq, LenProperties DEF Shape, TypeOK
          <5>3. job[j].req \in Int /\ job[queue[k]].req \in Int
            BY <5>2 DEF Shape, TypeOK
          <5> QED
            BY <4>1, <4>3, <5>1, <5>3
        <4> QED
          BY <3>1, <4>2, <4>3
      <3>3. ASSUME NEW i \in DOMAIN deployed', NEW l \in JobIds, job'[l].st = "active", Clean(l)'
            PROVE  deployed'[i].req <= job'[l].req
        <4>1. l # j /\ job'[l] = job[l] /\ Clean(l) /\ job[l].st = "active"
          BY <2>0, <3>3
        <4>2. CASE i \in DOMAIN deployed /\ deployed'[i] = deployed[i]
          BY <4>1, <4>2 DEF Ahead
        <4>3. CASE deployed'[i].req = job[j].req
          <5>1. 1 \in DOMAIN line /\ line[1] = j
            BY <2>2, Holder DEF Shape, Succeed
          <5>2. CASE l \in Resolving
            BY <4>1, <4>3, <5>1, <5>2 DEF Lanes
          <5>3. CASE l \notin Resolving
            <6>1. PICK k \in DOMAIN line : line[k] = l
              BY <4>1, <5>3 DEF Resolving
            <6>2. 1 < k
              BY <4>1, <5>1, <6>1, LineRows DEF Shape
            <6> QED
              BY <4>1, <4>3, <5>1, <6>1, <6>2 DEF Lanes
          <5> QED
            BY <5>2, <5>3
        <4> QED
          BY <3>1, <4>2, <4>3
      <3> QED
        BY <3>2, <3>3 DEF Ahead
    <2> QED
      BY <1>3, <2>1, <2>2 DEF Attempt, Fail, ResolveFails
  <1>4. ASSUME NEW j \in JobIds, Promote(j) PROVE Ahead'
    BY <1>4, Promoted, AheadAppend
  <1>5. ASSUME NEW j \in JobIds, Resolve(j) PROVE Ahead'
    <2>1. /\ crowd' = crowd /\ overtaken \subseteq overtaken' /\ job' = job /\ queue' = queue
          /\ deployed' = deployed
      BY <1>5, ResolveStep DEF Resolve, handlerVars, Shape
    <2> QED
      BY <2>1, Idle, AheadShrunk
  <1> QED
    BY <1>1, <1>2, <1>3, <1>4, <1>5 DEF Next, Await

LEMMA StepOrder ==
    ASSUME Shape, Ahead, InOrder, Next PROVE InOrder'
  <1>0. crowd \subseteq crowd' /\ overtaken \subseteq overtaken'
    BY RequestStep, WorkerStep DEF Next, Shape
  <1>1. CASE deployed' = deployed
    BY <1>0, <1>1 DEF InOrder
  <1>2. ASSUME NEW j \in JobIds, Succeed(j),
               NEW i \in DOMAIN deployed', NEW k \in DOMAIN deployed', i < k,
               deployed'[i].req > deployed'[k].req
        PROVE  deployed'[k].made > 1 \/ deployed'[k].req \in crowd' \cup overtaken'
    <2>0. Len(deployed) \in Nat /\ DOMAIN deployed = 1..Len(deployed)
      BY LenProperties DEF Shape, TypeOK
    <2>1. /\ DOMAIN deployed' = 1..(Len(deployed) + 1)
          /\ deployed'[Len(deployed) + 1] = [req |-> job[j].req, made |-> job[j].made + 1]
          /\ \A l \in DOMAIN deployed : deployed'[l] = deployed[l]
      BY <1>2, DeployStep DEF Shape
    <2>2. i \in DOMAIN deployed /\ deployed'[i] = deployed[i]
      BY <1>2, <2>0, <2>1
    <2>3. CASE k \in DOMAIN deployed
      BY <1>0, <1>2, <2>1, <2>2, <2>3 DEF InOrder
    <2>4. CASE k = Len(deployed) + 1
      <3>1. deployed'[k].req = job[j].req /\ deployed'[k].made = job[j].made + 1
        BY <2>1, <2>4
      <3>2. /\ job[j].st = "active" /\ job[j].made \in Nat /\ job[j].req \in Int
            /\ deployed[i].req \in Int
        <4>1. job[j] \in JobRow /\ deployed[i].req \in Requests
          BY <2>2, DeployRows DEF Shape, TypeOK, JobRow
        <4>2. job[j].st = "active"
          BY <1>2, Holder DEF Shape, Succeed
        <4> QED
          BY <4>1, <4>2 DEF JobRow, Requests
      <3>3. ~Clean(j)
        BY <1>2, <2>2, <3>1, <3>2 DEF Ahead
      <3> QED
        BY <1>0, <3>1, <3>2, <3>3 DEF Clean
    <2> QED
      BY <2>0, <2>1, <2>3, <2>4
  <1>3. deployed' = deployed \/ \E j \in JobIds : Succeed(j)
    <2>1. \A r \in Requests : Receive(r) \/ Handle(r) \/ Abort(r) => deployed' = deployed
      BY RequestStep DEF Shape
    <2> QED
      BY <2>1 DEF Next, Take, Await, Resolve, ResolveFails, Attempt, Fail, Promote
  <1> QED
    BY <1>1, <1>2, <1>3 DEF InOrder

-----------------------------------------------------------------------------
(* The invariant.                                                           *)

LEMMA StepInv == IInv /\ [Next]_vars => IInv'
  <1>1. ASSUME IInv, Next PROVE IInv'
    BY <1>1, StepType, StepQueued, StepLined, StepJobs, StepKeys, StepTurn, StepAlone, StepSwallowed,
       StepLanes, StepAhead, StepOrder DEF IInv, Shape
  <1>2. ASSUME IInv, UNCHANGED vars PROVE IInv'
    <2>1. /\ pc' = pc /\ saw' = saw /\ key' = key /\ delivery' = delivery /\ build' = build
          /\ job' = job /\ queue' = queue /\ deployed' = deployed /\ crowd' = crowd
          /\ by' = by /\ trouble' = trouble /\ line' = line /\ overtaken' = overtaken
          /\ gaveUp' = gaveUp
      BY <1>2 DEF vars, handlerVars, rowVars, jobVars, lockVars
    <2>2. Shape' /\ KeysKnown'
      BY <1>2, <2>1 DEF IInv, Shape, TypeOK, Queued, Lined, JobsKnown, KeysKnown, Delivered
    <2>3. InTurn' /\ Alone' /\ NotSwallowed'
      BY <1>2, <2>1 DEF IInv, InTurn, Alone, Busy, NotSwallowed, Accepted, Waits, Ended
    <2>4. Lanes' /\ Ahead' /\ InOrder'
      BY <1>2, <2>1 DEF IInv, Lanes, Ahead, Clean, Resolving, InOrder
    <2> QED
      BY <2>2, <2>3, <2>4 DEF IInv
  <1> QED
    BY <1>1, <1>2

(* Every state has the shape of the declarations and keeps the facts above. *)
THEOREM PushInvariant == Spec => []IInv
  BY InitInv, StepInv, PTL DEF Spec

(* Type correctness: what handlers, BullMQ and the worker write stays in    *)
(* the ranges of their fields, so an id of a job, also the one with the     *)
(* number of deliveries, is one of finitely many, and a job is never        *)
(* attempted more than its attempts allow.                                  *)
THEOREM PushTypes == Spec => []TypeOK
  <1>1. IInv => TypeOK
    BY DEF IInv, Shape
  <1> QED
    BY <1>1, PushInvariant, PTL

(* A push that was accepted while no other was being handled has a job, has *)
(* run, or had its job removed by a newer push, for any number of pushes,   *)
(* slots, retries and failures, with and without coalescing.                *)
THEOREM PushNotSwallowed == Spec => []NotSwallowed
  <1>1. IInv => NotSwallowed
    BY DEF IInv
  <1> QED
    BY <1>1, PushInvariant, PTL

(* With any number of worker slots a push goes live after a newer one only  *)
(* when it was retried, was handled next to another one, or was overtaken   *)
(* by the newer one in another slot before both had asked for the lock.     *)
THEOREM DeploysInOrder == Spec => []InOrder
  <1>1. IInv => InOrder
    BY DEF IInv
  <1> QED
    BY <1>1, PushInvariant, PTL

-----------------------------------------------------------------------------
(* Pushes that are not coalesced.                                           *)

Single(r) == IsTag(r) \/ ~Coalesce

(* A tag, and every push of an application that does not coalesce, has an  *)
(* id of its own from the beginning.  Its job is under that id, and what   *)
(* is no longer to be run has ended.                                       *)
OwnJob(r) ==
    /\ pc[r] \notin {"getJob", "getState", "drop", "mark"}
    /\ pc[r] \in {"insert", "build", "add"} => key[r] = Fresh(r)
    /\ Accepted(r) =>
          /\ job[Fresh(r)].req = r /\ job[Fresh(r)].st # "none"
          /\ job[Fresh(r)].st \in LiveStates \/ Ended(r)
    /\ \A j \in JobIds : job[j].st # "none" /\ job[j].req = r => j = Fresh(r)
    /\ by[r] = 0

OwnJobs == \A r \in Requests : Single(r) => OwnJob(r)

(* However many handlers overlap, such a push is neither swallowed nor     *)
(* removed by another one.                                                 *)
SingleKept ==
    \A r \in Requests : Accepted(r) /\ Single(r) => (Waits(r) \/ Ended(r)) /\ by[r] = 0

(* The way of such a push through its handler.                             *)
LEMMA SingleStep ==
    ASSUME Shape, NEW p \in Requests, Receive(p) \/ Handle(p) \/ Abort(p),
           Single(p), OwnJob(p)
    PROVE  /\ pc'[p] \in {"insert", "build", "add"} \cup Over
           /\ pc'[p] \in {"insert", "build", "add"} => key'[p] = Fresh(p)
  <1>0. /\ pc \in [Requests -> Steps] /\ key \in [Requests -> JobIds]
    BY DEF Shape, TypeOK
  <1>1. CASE Receive(p)
    <2>1. /\ pc'[p] \in {"dedup", "insert"} /\ key'[p] = Fresh(p)
      BY <1>0, <1>1 DEF Receive, Goto, Single
    <2> QED
      BY <2>1 DEF Over
  <1>2. CASE GetJob(p) \/ GetState(p) \/ Drop(p) \/ Mark(p)
    BY <1>2 DEF OwnJob, GetJob, GetState, Drop, Mark
  <1>3. CASE InsertDelivery(p) \/ createPendingBuild(p)
    BY <1>0, <1>3 DEF OwnJob, InsertDelivery, createPendingBuild, Goto, Over
  <1>4. CASE Add(p) \/ Abort(p)
    BY <1>0, <1>4 DEF Add, Abort, Goto, Over
  <1> QED
    BY <1>1, <1>2, <1>3, <1>4 DEF Handle

LEMMA StepOwnJobs ==
    ASSUME Shape, KeysKnown, OwnJobs, Next PROVE OwnJobs'
  <1>1. ASSUME NEW p \in Requests, Receive(p) \/ Handle(p) \/ Abort(p),
               NEW r \in Requests, Single(r), OwnJob(r)
        PROVE  OwnJob(r)'
    <2>0. /\ \A q \in Requests : q # p => pc'[q] = pc[q] /\ key'[q] = key[q]
          /\ gaveUp' = gaveUp
      BY <1>1, RequestStep DEF Shape
    <2>1. /\ pc'[r] \notin {"getJob", "getState", "drop", "mark"}
          /\ pc'[r] \in {"insert", "build", "add"} => key'[r] = Fresh(r)
      <3>1. CASE r = p
        BY <1>1, <3>1, SingleStep DEF Over
      <3> QED
        BY <1>1, <2>0, <3>1 DEF OwnJob
    <2>2. ASSUME Accepted(r)'
          PROVE  /\ job'[Fresh(r)].req = r /\ job'[Fresh(r)].st # "none"
                 /\ job'[Fresh(r)].st \in LiveStates \/ Ended(r)'
      <3>1. CASE r # p
        <4>1. /\ job[Fresh(r)].req = r /\ job[Fresh(r)].st # "none"
              /\ job[Fresh(r)].st \in LiveStates \/ Ended(r)
          BY <1>1, <2>0, <2>2, <3>1 DEF OwnJob, Accepted
        <4>2. job'[Fresh(r)] = job[Fresh(r)]
          <5>1. Fresh(r) \in JobIds /\ Fresh(r) # Base
            BY Ids
          <5>2. job[Fresh(r)] # NoJob
            BY <4>1 DEF NoJob
          <5> QED
            BY <1>1, <5>1, <5>2, JobStep
        <4>3. build'[r] = build[r]
          BY <1>1, <3>1, TraceStep
        <4> QED
          BY <2>0, <4>1, <4>2, <4>3 DEF Ended
      <3>2. CASE r = p
        <4>1. Add(p) /\ pc[p] = "add"
          BY <1>1, <2>2, <3>2, TraceStep DEF Accepted, Add
        <4>2. key[p] = Fresh(p) /\ job[Fresh(p)].st = "none"
          BY <1>1, <3>2, <4>1 DEF OwnJob, KeysKnown
        <4>3. job'[Fresh(p)] = [req |-> p, st |-> "waiting", made |-> 0]
          BY ZenonT(30), <4>1, <4>2, AddStep, Ids DEF Shape, TypeOK
        <4> QED
          BY <3>2, <4>3 DEF LiveStates
      <3> QED
        BY <3>1, <3>2
    <2>3. ASSUME NEW j \in JobIds, job'[j].st # "none", job'[j].req = r
          PROVE  j = Fresh(r)
      <3>1. CASE job'[j] = job[j]
        BY <1>1, <2>3, <3>1 DEF OwnJob
      <3>2. CASE Add(p) /\ j = key[p] /\ job'[j].req = p
        BY <1>1, <2>3, <3>2 DEF OwnJob, Add
      <3>3. \/ job'[j] = job[j] \/ job'[j] = NoJob
            \/ Add(p) /\ j = key[p] /\ job'[j] = [req |-> p, st |-> "waiting", made |-> 0]
        BY <1>1, JobStep
      <3> QED
        BY <2>3, <3>1, <3>2, <3>3 DEF NoJob
    <2>4. by'[r] = 0
      <3>1. CASE by' = by
        BY <1>1, <3>1 DEF OwnJob
      <3>2. CASE by' = [by EXCEPT ![job[Base].req] = p] /\ job[Base].st \in {"waiting", "delayed"}
        <4>1. job[Base].req # r
          BY <1>1, <3>2, Ids DEF OwnJob
        <4> QED
          BY <1>1, <3>2, <4>1 DEF OwnJob, Shape, TypeOK
      <3> QED
        BY <1>1, <3>1, <3>2 DEF Receive, Handle, GetJob, GetState, Drop, Mark, InsertDelivery,
                                createPendingBuild, Add, Abort
    <2> QED
      BY <2>1, <2>2, <2>3, <2>4 DEF OwnJob
  <1>2. ASSUME Take \/ \E j \in JobIds : Await(j) \/ Attempt(j) \/ Promote(j),
               NEW r \in Requests, Single(r), OwnJob(r)
        PROVE  OwnJob(r)'
    <2>0. /\ pc' = pc /\ key' = key /\ by' = by /\ gaveUp \subseteq gaveUp'
          /\ \A i \in JobIds : job'[i].req = job[i].req
          /\ \A i \in JobIds : job'[i].st = "none" <=> job[i].st = "none"
      BY <1>2, WorkerStep
    <2>1. ASSUME Accepted(r), job[Fresh(r)].st \in LiveStates \/ Ended(r), job[Fresh(r)].req = r
          PROVE  job'[Fresh(r)].st \in LiveStates \/ Ended(r)'
      <3>0. Fresh(r) \in JobIds
        BY Ids
      <3>1. CASE Take
        <4>1. queue[1] \in JobIds /\ job' = [job EXCEPT ![queue[1]].st = "active"]
          BY <3>1, TakeStep DEF Shape
        <4>2. job \in [JobIds -> JobRow] /\ build' = build
          BY <3>1 DEF Shape, TypeOK, JobRow, Take, rowVars
        <4>3. /\ job'[queue[1]].st = "active"
              /\ \A j \in JobIds : j # queue[1] => job'[j] = job[j]
          BY <4>1, <4>2 DEF JobRow
        <4> QED
          BY <2>0, <2>1, <3>0, <4>2, <4>3 DEF LiveStates, Ended
      <3>2. ASSUME NEW j \in JobIds, Attempt(j)
            PROVE  job'[Fresh(r)].st \in LiveStates \/ Ended(r)'
        <4>1. /\ build'[job[j].req] \in {"succeeded", "failed"}
              /\ r # job[j].req => build'[r] = build[r]
              /\ \A i \in JobIds : i # j => job'[i] = job[i]
          BY <3>2, TryStep, AttemptStep DEF Shape
        <4>2. CASE r = job[j].req
          BY <4>1, <4>2 DEF Ended
        <4>3. CASE r # job[j].req
          BY <2>0, <2>1, <3>0, <4>1, <4>3 DEF Ended
        <4> QED
          BY <4>2, <4>3
      <3>3. ASSUME NEW j \in JobIds, Promote(j)
            PROVE  job'[Fresh(r)].st \in LiveStates \/ Ended(r)'
        <4>1. job'[j].st = "waiting" /\ \A i \in JobIds : i # j => job'[i] = job[i]
          BY <3>3, PromoteStep DEF Shape
        <4>2. build' = build
          BY <3>3 DEF Promote, rowVars
        <4> QED
          BY <2>0, <2>1, <3>0, <4>1, <4>2 DEF LiveStates, Ended
      <3>4. ASSUME NEW j \in JobIds, Resolve(j)
            PROVE  job'[Fresh(r)].st \in LiveStates \/ Ended(r)'
        <4>1. job' = job /\ build' = build
          BY <3>4, ResolveStep DEF Shape
        <4> QED
          BY <2>0, <2>1, <4>1 DEF Ended
      <3>5. ASSUME NEW j \in JobIds, ResolveFails(j)
            PROVE  job'[Fresh(r)].st \in LiveStates \/ Ended(r)'
        <4>1. /\ build' = build /\ \A i \in JobIds : i # j => job'[i] = job[i]
              /\ job'[j].st = "delayed" \/ job[j].req \in gaveUp'
          BY <3>5, TryStep, RefusedStep DEF Shape
        <4>2. CASE Fresh(r) = j
          BY <2>1, <4>1, <4>2 DEF LiveStates, Ended
        <4>3. CASE Fresh(r) # j
          BY <2>0, <2>1, <3>0, <4>1, <4>3 DEF Ended
        <4> QED
          BY <4>2, <4>3
      <3> QED
        BY <1>2, <3>1, <3>2, <3>3, <3>4, <3>5 DEF Await
    <2> QED
      BY <1>2, <2>0, <2>1, Ids DEF OwnJob, Accepted
  <1>3. \A r \in Requests : Single(r)' <=> Single(r)
    BY DEF Single, IsTag
  <1> QED
    BY <1>1, <1>2, <1>3 DEF Next, OwnJobs

(* A tag, or a push of an application that does not coalesce, is never     *)
(* lost to the ids: once accepted it has a job or has run, whatever other  *)
(* handlers do next to it, and no newer push removes its job.  Only pushes *)
(* that share the base key need the condition of NotSwallowed.             *)
THEOREM SinglePushesAreKept == Spec => []SingleKept
  <1>1. Init => OwnJobs
    BY Ids DEF Init, OwnJobs, OwnJob, Accepted, NoJob
  <1>2. IInv /\ OwnJobs /\ [Next]_vars => OwnJobs'
    <2>1. ASSUME IInv, OwnJobs, Next PROVE OwnJobs'
      BY <2>1, StepOwnJobs DEF IInv
    <2>2. ASSUME OwnJobs, UNCHANGED vars PROVE OwnJobs'
      BY <2>2 DEF OwnJobs, OwnJob, Single, IsTag, Accepted, Ended, vars, handlerVars, rowVars,
                  jobVars, lockVars
    <2> QED
      BY <2>1, <2>2
  <1>3. OwnJobs => SingleKept
    BY Ids DEF OwnJobs, OwnJob, SingleKept, Waits, LiveStates
  <1> QED
    BY <1>1, <1>2, <1>3, PushInvariant, PTL DEF Spec
=============================================================================
