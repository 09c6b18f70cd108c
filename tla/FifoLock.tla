------------------------------ MODULE FifoLock ------------------------------
(***************************************************************************)
(* What the deploy worker expects of `withAppDeployLock`: a mutex for each *)
(* application, granted in the order in which it was asked for.  This is   *)
(* the contract; KeyedLock.tla is the promise chain that implements it and *)
(* DeployPipeline.tla is its user.                                         *)
(***************************************************************************)
EXTENDS Naturals, Sequences

CONSTANTS
    Keys,    \* what is locked: the application ids
    Calls,   \* those who ask: calls of withLock that are in progress
    None     \* "nobody"

VARIABLES
    waiters, \* waiters[k]: the calls that wait for k, oldest first
    holder   \* holder[k]: the call whose task runs under k, or None

vars == <<waiters, holder>>

\* The calls that hold key k or wait for it.
Engaged(k) == {holder[k]} \cup {waiters[k][i] : i \in 1 .. Len(waiters[k])}

Init ==
    /\ waiters = [k \in Keys |-> <<>>]
    /\ holder = [k \in Keys |-> None]

Request(k, c) ==
    /\ \A j \in Keys : c \notin Engaged(j)
    /\ waiters' = [waiters EXCEPT ![k] = Append(@, c)]
    /\ UNCHANGED holder

Grant(k) ==
    /\ holder[k] = None
    /\ waiters[k] # <<>>
    /\ holder' = [holder EXCEPT ![k] = Head(waiters[k])]
    /\ waiters' = [waiters EXCEPT ![k] = Tail(@)]

Release(k) ==
    /\ holder[k] # None
    /\ holder' = [holder EXCEPT ![k] = None]
    /\ UNCHANGED waiters

Next == \E k \in Keys : (\E c \in Calls : Request(k, c)) \/ Grant(k) \/ Release(k)

Spec == Init /\ [][Next]_vars
=============================================================================
