----------------------------- MODULE KeyedLock ------------------------------
(***************************************************************************)
(* createInProcessKeyedLock of apps/api/src/worker/app-deploy-lock.ts: a   *)
(* mutex for each key, made of promises.  The map `tails` holds the promise*)
(* of the newest call for a key; a call waits for the promise it found     *)
(* there, runs its task and resolves its own promise.                      *)
(*                                                                         *)
(* JavaScript runs one callback at a time, so what lies between two awaits *)
(* is one step.  A promise is named by the call that made it.  A call that *)
(* has returned may be used again for a later, different call once nobody  *)
(* waits for its promise.                                                  *)
(***************************************************************************)
EXTENDS Naturals, Sequences

CONSTANTS
    Keys,    \* application ids
    Calls,   \* calls of withLock that can be in progress together
    None     \* Map.get() of an absent key, Promise.resolve()

ASSUME NoneIsNoCall == None \notin Calls

VARIABLES
    tails,   \* the Map: tails[k] is the promise of the newest call for k
    prev,    \* `previous`: the promise a call found in tails
    key,     \* the argument `key` of a call
    pc,      \* where a call is
    line     \* history variable, read by no action: calls in order of arrival

vars == <<tails, prev, key, pc, line>>

Live(c) == pc[c] \in {"waiting", "task"}

\* `await previous.catch(...)`: the awaited promise is resolved.  The promise of
\* a call is pending exactly while the call is live.
Resolved(p) == IF p = None THEN TRUE ELSE ~Live(p)

\* The sequence s without its element e.
Without(s, e) ==
    LET i == CHOOSE i \in 1 .. Len(s) : s[i] = e
    IN  SubSeq(s, 1, i - 1) \o SubSeq(s, i + 1, Len(s))

\* A call that has returned, and whose promise no other call waits for.
Reusable(c) ==
    /\ pc[c] = "idle"
    /\ \A d \in Calls : Live(d) => prev[d] # c

TypeOK ==
    /\ tails \in [Keys -> Calls \cup {None}]
    /\ prev \in [Calls -> Calls \cup {None}]
    /\ key \in [Calls -> Keys]
    /\ pc \in [Calls -> {"idle", "waiting", "task"}]
    /\ line \in [Keys -> Seq(Calls)]

Init ==
    /\ tails = [k \in Keys |-> None]
    /\ prev = [c \in Calls |-> None]
    /\ key \in {[c \in Calls |-> k] : k \in Keys}
    /\ pc = [c \in Calls |-> "idle"]
    /\ line = [k \in Keys |-> <<>>]

\* `tails.get(key) ?? Promise.resolve()`.
Found(k) == tails[k]

\* A mutant: the call becomes the tail before it reads the tail.
CallReadsOwnTail(c, k) ==
    /\ Reusable(c)
    /\ prev' = [prev EXCEPT ![c] = c]
    /\ tails' = [tails EXCEPT ![k] = c]
    /\ key' = [key EXCEPT ![c] = k]
    /\ pc' = [pc EXCEPT ![c] = "waiting"]
    /\ line' = [line EXCEPT ![k] = Append(@, c)]

\* withLock up to its first await: read the tail, become the tail.
Call(c, k) ==
    /\ Reusable(c)
    /\ prev' = [prev EXCEPT ![c] = Found(k)]
    /\ tails' = [tails EXCEPT ![k] = c]
    /\ key' = [key EXCEPT ![c] = k]
    /\ pc' = [pc EXCEPT ![c] = "waiting"]
    /\ line' = [line EXCEPT ![k] = Append(@, c)]

\* The awaited promise is resolved: the task starts.
Enter(c) ==
    /\ pc[c] = "waiting"
    /\ Resolved(prev[c])
    /\ pc' = [pc EXCEPT ![c] = "task"]
    /\ UNCHANGED <<tails, prev, key, line>>

\* A mutant: the entry of the map is deleted by whoever finishes.
TailsAfterNoIdentityCheck(c) == [tails EXCEPT ![key[c]] = None]

\* `if (tails.get(key) === current) tails.delete(key)`.
TailsAfter(c) ==
    IF tails[key[c]] = c THEN [tails EXCEPT ![key[c]] = None] ELSE tails

\* The finally block, whether the task returned or threw: release() and delete.
Finish(c) ==
    /\ pc[c] = "task"
    /\ pc' = [pc EXCEPT ![c] = "idle"]
    /\ tails' = TailsAfter(c)
    /\ line' = [line EXCEPT ![key[c]] = Without(@, c)]
    /\ UNCHANGED <<prev, key>>

Next == \E c \in Calls : (\E k \in Keys : Call(c, k)) \/ Enter(c) \/ Finish(c)

Spec == Init /\ [][Next]_vars

\* A resolved promise runs its continuation, and the tasks given to the lock end.
FairSpec == Spec /\ \A c \in Calls : WF_vars(Enter(c)) /\ WF_vars(Finish(c))
-----------------------------------------------------------------------------
(* Two deploys of one application never run together in one process: the   *)
(* reason why worker/index.ts wraps handleDeploy in withAppDeployLock.     *)
MutualExclusion ==
    \A c, d \in Calls :
        (pc[c] = "task" /\ pc[d] = "task" /\ key[c] = key[d]) => c = d

(* The `=== current` test of the finally block: the entry of a key is there*)
(* exactly while some call for the key is live, so the map does not grow   *)
(* with every application ever deployed, and it never forgets a call that a*)
(* newcomer has to wait for.                                               *)
TailsExact ==
    \A k \in Keys :
        /\ tails[k] # None => Live(tails[k]) /\ key[tails[k]] = k
        /\ tails[k] = None => \A c \in Calls : Live(c) => key[c] # k

\* The calls in line for a key are live and asked for that key,
InLine(k) == \A i \in 1 .. Len(line[k]) : Live(line[k][i]) /\ key[line[k][i]] = k
\* no call is in line twice,
Distinct(k) == \A i, j \in 1 .. Len(line[k]) : line[k][i] = line[k][j] => i = j
\* the newest is the tail,
TailIsNewest(k) == tails[k] = IF line[k] = <<>> THEN None ELSE line[k][Len(line[k])]
\* each but the first awaits the promise of the one before it,
Linked(k) ==
    \A i \in 2 .. Len(line[k]) :
        prev[line[k][i]] = line[k][i - 1] /\ pc[line[k][i]] = "waiting"
\* and the first awaits nothing.
FirstIsFree(k) == line[k] # <<>> => Resolved(prev[line[k][1]])
\* Nobody who waits or runs is missing from the line.
AllInLine ==
    \A c \in Calls : Live(c) => \E i \in 1 .. Len(line[key[c]]) : line[key[c]][i] = c

(* The chain behind the exclusion: the live calls of a key stand in line in*)
(* order of arrival, the newest is the tail, each awaits the promise of the*)
(* one before it, only the first awaits nothing, and only the first runs.  *)
(* This is the inductive invariant of KeyedLockProofs.                     *)
ChainInv ==
    /\ \A k \in Keys :
           InLine(k) /\ Distinct(k) /\ TailIsNewest(k) /\ Linked(k) /\ FirstIsFree(k)
    /\ AllInLine

(* A deploy that waits for its application's lock gets its turn.           *)
EveryCallEnters == \A c \in Calls : pc[c] = "waiting" ~> pc[c] = "task"

(* The queue and the holder of the contract, read off the calls in line.   *)

HasHolder(k) == IF line[k] = <<>> THEN FALSE ELSE pc[Head(line[k])] = "task"

AbsHolder == [k \in Keys |-> IF HasHolder(k) THEN Head(line[k]) ELSE None]

AbsWaiters == [k \in Keys |-> IF HasHolder(k) THEN Tail(line[k]) ELSE line[k]]

Contract == INSTANCE FifoLock WITH waiters <- AbsWaiters, holder <- AbsHolder

(* The promise chain of app-deploy-lock.ts is a first-come first-served    *)
(* mutex for each key: tasks start in the order of the calls.              *)
ContractSpec == Contract!Spec
=============================================================================
