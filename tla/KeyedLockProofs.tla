-------------------------- MODULE KeyedLockProofs ---------------------------
(***************************************************************************)
(* For any set of keys and any set of calls: the promise chain of          *)
(* app-deploy-lock.ts is a mutex for each key and implements FifoLock.     *)
(* The argument is ChainInv: the live calls of a key stand in one line.    *)
(***************************************************************************)
EXTENDS KeyedLock, SequenceTheorems, TLAPS

IInv == TypeOK /\ ChainInv

ChainParts(k) ==
    InLine(k) /\ Distinct(k) /\ TailIsNewest(k) /\ Linked(k) /\ FirstIsFree(k)

\* Removing the first of a sequence without repetitions leaves its tail.
LEMMA WithoutHead ==
    ASSUME NEW S, NEW s \in Seq(S), s # <<>>,
           \A i, j \in 1 .. Len(s) : s[i] = s[j] => i = j
    PROVE  Without(s, s[1]) = Tail(s)
<1>1. Len(s) \in Nat /\ Len(s) >= 1
  BY EmptySeq
<1>2. (CHOOSE i \in 1 .. Len(s) : s[i] = s[1]) = 1
  BY <1>1
<1>3. Without(s, s[1]) = SubSeq(s, 1, 0) \o SubSeq(s, 2, Len(s))
  BY <1>2 DEF Without
<1>4. SubSeq(s, 1, 0) = <<>>
  BY SubSeqEmpty
<1>5. SubSeq(s, 2, Len(s)) = Tail(s) /\ Tail(s) \in Seq(S)
  BY TailIsSubSeq, HeadTailProperties
<1> QED
  BY <1>3, <1>4, <1>5, ConcatEmptySeq

\* Initially nobody is in line.
LEMMA InitIInv == Init => IInv
<1> SUFFICES ASSUME Init PROVE IInv
  OBVIOUS
<1>1. TypeOK
  <2>1. key \in [Calls -> Keys]
    BY DEF Init
  <2>2. line \in [Keys -> Seq(Calls)]
    BY EmptySeq DEF Init
  <2> QED BY <2>1, <2>2 DEF Init, TypeOK
<1>2. ChainInv
  <2>1. \A k \in Keys : line[k] = <<>> /\ Len(line[k]) = 0 /\ tails[k] = None
    BY DEF Init
  <2>2. ASSUME NEW k \in Keys PROVE ChainParts(k)
    <3>1. InLine(k) /\ Distinct(k) /\ Linked(k)
      BY <2>1 DEF InLine, Distinct, Linked
    <3>2. TailIsNewest(k) /\ FirstIsFree(k)
      BY <2>1 DEF TailIsNewest, FirstIsFree
    <3> QED BY <3>1, <3>2 DEF ChainParts
  <2>3. AllInLine
    BY DEF Init, AllInLine, Live
  <2> QED BY <2>2, <2>3 DEF ChainInv, ChainParts
<1> QED BY <1>1, <1>2 DEF IInv

\* A call whose task runs is the first in line for its key.
LEMMA RunnerIsFirst ==
    ASSUME IInv, NEW c \in Calls, pc[c] = "task"
    PROVE  /\ line[key[c]] # <<>>
           /\ line[key[c]][1] = c
           /\ Without(line[key[c]], c) = Tail(line[key[c]])
<1> DEFINE s == line[key[c]]
<1>1. s \in Seq(Calls) /\ key[c] \in Keys
  BY DEF IInv, TypeOK
<1>2. PICK i \in 1 .. Len(s) : s[i] = c
  BY DEF IInv, ChainInv, AllInLine, Live
<1>3. s # <<>> /\ Len(s) \in Nat
  BY <1>1, <1>2
<1>4. i = 1
  <2> SUFFICES ASSUME i # 1 PROVE FALSE
    OBVIOUS
  <2>1. i \in 2 .. Len(s)
    BY <1>2, <1>3
  <2> QED BY <1>1, <1>2, <2>1 DEF IInv, ChainInv, Linked
<1>5. \A m, n \in 1 .. Len(s) : s[m] = s[n] => m = n
  BY <1>1 DEF IInv, ChainInv, Distinct
<1> QED BY <1>1, <1>2, <1>3, <1>4, <1>5, WithoutHead

\* The shape of the state is kept by every step.
LEMMA TypeStep == IInv /\ [Next]_vars => TypeOK'
<1> SUFFICES ASSUME IInv, [Next]_vars PROVE TypeOK'
  OBVIOUS
<1> USE DEF IInv, TypeOK
<1>1. ASSUME NEW c \in Calls, NEW k \in Keys, Call(c, k) PROVE TypeOK'
  BY <1>1 DEF Call, Found
<1>2. ASSUME NEW c \in Calls, Enter(c) PROVE TypeOK'
  BY <1>2 DEF Enter
<1>3. ASSUME NEW c \in Calls, Finish(c) PROVE TypeOK'
  <2>1. pc[c] = "task"
    BY <1>3 DEF Finish
  <2>2. line[key[c]] # <<>> /\ Without(line[key[c]], c) = Tail(line[key[c]])
    BY <2>1, RunnerIsFirst
  <2>3. Tail(line[key[c]]) \in Seq(Calls)
    BY <2>2, HeadTailProperties
  <2> QED BY <1>3, <2>2, <2>3 DEF Finish, TailsAfter
<1>4. CASE UNCHANGED vars
  BY <1>4 DEF vars
<1> QED BY <1>1, <1>2, <1>3, <1>4 DEF Next

\* A new call joins its line at the end and disturbs no other.
LEMMA CallStep ==
    ASSUME IInv, TypeOK', NEW c \in Calls, NEW k \in Keys, Call(c, k)
    PROVE  ChainInv'
<1>1. /\ pc[c] = "idle"
      /\ \A d \in Calls : Live(d) => prev[d] # c
      /\ prev' = [prev EXCEPT ![c] = tails[k]]
      /\ tails' = [tails EXCEPT ![k] = c]
      /\ key' = [key EXCEPT ![c] = k]
      /\ pc' = [pc EXCEPT ![c] = "waiting"]
      /\ line' = [line EXCEPT ![k] = Append(@, c)]
  BY DEF Call, Reusable, Found
<1>2. /\ ~Live(c) /\ Live(c)'
      /\ \A d \in Calls \ {c} : Live(d)' <=> Live(d)
  BY <1>1 DEF IInv, TypeOK, Live
<1>3. \A d \in Calls \ {c} : prev'[d] = prev[d] /\ key'[d] = key[d] /\ pc'[d] = pc[d]
  BY <1>1 DEF IInv, TypeOK
<1>4. \A j \in Keys : \A i \in 1 .. Len(line[j]) :
          line[j][i] \in Calls \ {c} /\ prev[line[j][i]] # c
  <2> SUFFICES ASSUME NEW j \in Keys, NEW i \in 1 .. Len(line[j])
               PROVE  line[j][i] \in Calls \ {c} /\ prev[line[j][i]] # c
    OBVIOUS
  <2>1. line[j] \in Seq(Calls)
    BY DEF IInv, TypeOK
  <2>2. line[j][i] \in Calls
    BY <2>1, ElementOfSeq
  <2>3. Live(line[j][i])
    BY DEF IInv, ChainInv, InLine
  <2> QED BY <1>1, <1>2, <2>2, <2>3
<1>5. \A p \in Calls \cup {None} : (p # c /\ Resolved(p)) => Resolved(p)'
  BY <1>2 DEF Resolved
<1>6. ASSUME NEW j \in Keys, j # k PROVE ChainParts(j)'
  <2>1. line'[j] = line[j] /\ tails'[j] = tails[j]
    BY <1>1, <1>6 DEF IInv, TypeOK
  <2>2. line[j] \in Seq(Calls) /\ Len(line[j]) \in Nat /\ ChainParts(j)
    BY DEF IInv, TypeOK, ChainInv, ChainParts
  <2>3. InLine(j)'
    BY <1>2, <1>3, <1>4, <2>1, <2>2 DEF InLine, ChainParts
  <2>4. Distinct(j)' /\ TailIsNewest(j)'
    BY <2>1, <2>2 DEF Distinct, TailIsNewest, ChainParts
  <2>5. Linked(j)'
    BY <1>3, <1>4, <2>1, <2>2 DEF Linked, ChainParts
  <2>6. FirstIsFree(j)'
    <3> SUFFICES ASSUME line[j] # <<>> PROVE Resolved(prev[line[j][1]])'
      BY <2>1 DEF FirstIsFree
    <3>1. 1 \in 1 .. Len(line[j])
      BY <2>2, EmptySeq
    <3>2. line[j][1] \in Calls \ {c} /\ prev[line[j][1]] # c
      BY <1>4, <3>1
    <3>3. prev[line[j][1]] \in Calls \cup {None} /\ Resolved(prev[line[j][1]])
      BY <2>2, <3>2 DEF IInv, TypeOK, ChainParts, FirstIsFree
    <3>4. prev'[line'[j][1]] = prev[line[j][1]]
      BY <1>3, <2>1, <3>2
    <3> QED BY <1>5, <2>1, <3>2, <3>3, <3>4 DEF Resolved, Live
  <2> QED BY <2>3, <2>4, <2>5, <2>6 DEF ChainParts
<1>7. ChainParts(k)'
  <2> DEFINE s == line[k]
             n == Len(s)
  <2>1. s \in Seq(Calls) /\ n \in Nat /\ ChainParts(k)
    BY DEF IInv, TypeOK, ChainInv, ChainParts
  <2>2. line'[k] = Append(s, c) /\ tails'[k] = c
    BY <1>1 DEF IInv, TypeOK
  <2>3. /\ Len(line'[k]) = n + 1 /\ line'[k] # <<>> /\ line'[k][n + 1] = c
        /\ \A i \in 1 .. n : line'[k][i] = s[i]
    BY <2>1, <2>2
  <2>4. \A i \in 1 .. (n + 1) : i \in 1 .. n \/ i = n + 1
    BY <2>1
  <2> HIDE DEF s, n
  <2>5. key'[c] = k /\ pc'[c] = "waiting" /\ prev'[c] = tails[k]
    BY <1>1 DEF IInv, TypeOK
  <2>6. InLine(k)'
    <3>1. \A i \in 1 .. n : pc'[s[i]] \in {"waiting", "task"} /\ key'[s[i]] = k
      BY <1>3, <1>4, <2>1 DEF ChainParts, InLine, Live, s, n
    <3> QED BY <2>3, <2>4, <2>5, <3>1 DEF InLine, Live
  <2>7. Distinct(k)'
    <3>1. \A i \in 1 .. n : s[i] # c
      BY <1>4 DEF s, n
    <3>2. \A i, j \in 1 .. n : s[i] = s[j] => i = j
      BY <2>1 DEF ChainParts, Distinct, s, n
    <3> QED BY <2>3, <2>4, <3>1, <3>2 DEF Distinct
  <2>8. TailIsNewest(k)'
    BY <2>2, <2>3 DEF TailIsNewest
  <2>9. Linked(k)'
    <3> SUFFICES ASSUME NEW i \in 2 .. (n + 1)
                 PROVE  prev'[line'[k][i]] = line'[k][i - 1] /\ pc'[line'[k][i]] = "waiting"
      BY <2>3 DEF Linked
    <3>1. CASE i = n + 1
      <4>1. s # <<>> /\ tails[k] = s[n] /\ n \in 1 .. n
        BY <2>1, <3>1, EmptySeq DEF ChainParts, TailIsNewest, s, n
      <4> QED BY <2>1, <2>3, <2>5, <3>1, <4>1
    <3>2. CASE i \in 2 .. n
      <4>1. i - 1 \in 1 .. n /\ i \in 1 .. n
        BY <2>1, <3>2
      <4>2. prev[s[i]] = s[i - 1] /\ pc[s[i]] = "waiting"
        BY <2>1, <3>2 DEF ChainParts, Linked, s, n
      <4>3. s[i] \in Calls \ {c}
        BY <1>4, <4>1 DEF s, n
      <4> QED BY <1>3, <2>3, <4>1, <4>2, <4>3
    <3> QED BY <2>1, <3>1, <3>2
  <2>10. FirstIsFree(k)'
    <3>1. CASE s = <<>>
      <4>1. n = 0 /\ line'[k][1] = c /\ prev'[c] = None
        BY <2>1, <2>3, <2>5, <3>1 DEF ChainParts, TailIsNewest, s, n
      <4> QED BY <4>1 DEF FirstIsFree, Resolved
    <3>2. CASE s # <<>>
      <4>1. 1 \in 1 .. n
        BY <2>1, <3>2, EmptySeq DEF n
      <4>2. s[1] \in Calls \ {c} /\ prev[s[1]] # c /\ line'[k][1] = s[1]
        BY <1>4, <2>3, <4>1 DEF s, n
      <4>3. prev[s[1]] \in Calls \cup {None} /\ Resolved(prev[s[1]])
        BY <2>1, <3>2, <4>2 DEF IInv, TypeOK, ChainParts, FirstIsFree, s
      <4>4. prev'[line'[k][1]] = prev[s[1]]
        BY <1>3, <4>2
      <4> QED BY <1>5, <4>2, <4>3, <4>4 DEF FirstIsFree, Resolved, Live
    <3> QED BY <3>1, <3>2
  <2> QED BY <2>6, <2>7, <2>8, <2>9, <2>10 DEF ChainParts
<1>8. AllInLine'
  <2> SUFFICES ASSUME NEW d \in Calls, Live(d)'
               PROVE  \E i \in 1 .. Len(line'[key'[d]]) : line'[key'[d]][i] = d
    BY DEF AllInLine
  <2>1. line[k] \in Seq(Calls) /\ Len(line[k]) \in Nat
    BY DEF IInv, TypeOK
  <2>2. /\ line'[k] = Append(line[k], c)
        /\ Len(line'[k]) = Len(line[k]) + 1
        /\ line'[k][Len(line[k]) + 1] = c
        /\ \A i \in 1 .. Len(line[k]) : line'[k][i] = line[k][i]
    BY <1>1, <2>1 DEF IInv, TypeOK
  <2>3. CASE d = c
    <3>1. key'[d] = k /\ Len(line[k]) + 1 \in 1 .. Len(line'[k])
      BY <1>1, <2>1, <2>2, <2>3 DEF IInv, TypeOK
    <3> QED BY <2>2, <2>3, <3>1
  <2>4. CASE d # c
    <3>1. Live(d) /\ key'[d] = key[d] /\ key[d] \in Keys
      BY <1>2, <1>3, <2>4 DEF IInv, TypeOK
    <3>2. PICK i \in 1 .. Len(line[key[d]]) : line[key[d]][i] = d
      BY <3>1 DEF IInv, ChainInv, AllInLine
    <3>3. CASE key[d] = k
      BY <2>1, <2>2, <3>1, <3>2, <3>3
    <3>4. CASE key[d] # k
      BY <1>1, <3>1, <3>2, <3>4 DEF IInv, TypeOK
    <3> QED BY <3>3, <3>4
  <2> QED BY <2>3, <2>4
<1> QED BY <1>6, <1>7, <1>8 DEF ChainInv, ChainParts

\* A call that starts its task is the first in line, and stays there.
LEMMA EnterStep ==
    ASSUME IInv, TypeOK', NEW c \in Calls, Enter(c)
    PROVE  ChainInv'
<1>1. /\ pc[c] = "waiting" /\ Resolved(prev[c])
      /\ pc' = [pc EXCEPT ![c] = "task"]
      /\ tails' = tails /\ prev' = prev /\ key' = key /\ line' = line
  BY DEF Enter
<1>2. \A d \in Calls : Live(d)' <=> Live(d)
  BY <1>1 DEF IInv, TypeOK, Live
<1>3. \A d \in Calls \ {c} : pc'[d] = pc[d]
  BY <1>1 DEF IInv, TypeOK
<1>4. ASSUME NEW k \in Keys PROVE ChainParts(k)'
  <2>1. line[k] \in Seq(Calls) /\ Len(line[k]) \in Nat /\ ChainParts(k)
    BY DEF IInv, TypeOK, ChainInv, ChainParts
  <2>2. \A i \in 1 .. Len(line[k]) : line[k][i] \in Calls
    BY <2>1, ElementOfSeq
  <2>3. InLine(k)' /\ Distinct(k)' /\ TailIsNewest(k)'
    BY <1>1, <1>2, <2>1, <2>2 DEF ChainParts, InLine, Distinct, TailIsNewest
  <2>4. Linked(k)'
    <3> SUFFICES ASSUME NEW i \in 2 .. Len(line[k])
                 PROVE  prev[line[k][i]] = line[k][i - 1] /\ pc'[line[k][i]] = "waiting"
      BY <1>1 DEF Linked
    <3>1. prev[line[k][i]] = line[k][i - 1] /\ pc[line[k][i]] = "waiting"
      BY <2>1 DEF ChainParts, Linked
    <3>2. i \in 1 .. Len(line[k]) /\ i - 1 \in 1 .. Len(line[k])
      BY <2>1
    <3>3. line[k][i - 1] \in Calls /\ Live(line[k][i - 1])
      BY <2>1, <2>2, <3>2 DEF ChainParts, InLine
    <3>4. ~Resolved(line[k][i - 1])
      BY <3>3, NoneIsNoCall DEF Resolved
    <3>5. line[k][i] # c
      BY <1>1, <3>1, <3>4
    <3> QED BY <1>3, <2>2, <3>1, <3>2, <3>5
  <2>5. FirstIsFree(k)'
    <3> SUFFICES ASSUME line[k] # <<>> PROVE Resolved(prev[line[k][1]])'
      BY <1>1 DEF FirstIsFree
    <3>1. 1 \in 1 .. Len(line[k])
      BY <2>1, EmptySeq
    <3>2. Resolved(prev[line[k][1]]) /\ prev[line[k][1]] \in Calls \cup {None}
      BY <2>1, <2>2, <3>1 DEF ChainParts, FirstIsFree, IInv, TypeOK
    <3> QED BY <1>1, <1>2, <3>2 DEF Resolved, Live
  <2> QED BY <2>3, <2>4, <2>5 DEF ChainParts
<1>5. AllInLine'
  BY <1>1, <1>2 DEF IInv, ChainInv, AllInLine
<1> QED BY <1>4, <1>5 DEF ChainInv, ChainParts

\* A call that finishes leaves at the front; its successor is now the first.
LEMMA FinishStep ==
    ASSUME IInv, TypeOK', NEW c \in Calls, Finish(c)
    PROVE  ChainInv'
<1>k. PICK k \in Keys : k = key[c]
  BY DEF IInv, TypeOK
<1>s. PICK s \in Seq(Calls) : s = line[k]
  BY DEF IInv, TypeOK
<1>n. PICK n \in Nat : n = Len(s)
  OBVIOUS
<1>1. /\ pc[c] = "task"
      /\ pc' = [pc EXCEPT ![c] = "idle"]
      /\ tails' = (IF tails[k] = c THEN [tails EXCEPT ![k] = None] ELSE tails)
      /\ prev' = prev /\ key' = key
      /\ line' = [line EXCEPT ![k] = Without(@, c)]
  BY <1>k DEF Finish, TailsAfter
<1>2. ChainParts(k)
  BY DEF IInv, ChainInv, ChainParts
<1>3. s # <<>> /\ s[1] = c /\ Without(s, c) = Tail(s)
  BY <1>k, <1>s, <1>1, RunnerIsFirst
<1>4. /\ line'[k] = Tail(s) /\ Len(line'[k]) = n - 1 /\ n >= 1
      /\ \A i \in 1 .. (n - 1) : line'[k][i] = s[i + 1]
  <2>1. line'[k] = Tail(s)
    BY <1>s, <1>1, <1>3 DEF IInv, TypeOK
  <2> QED BY <1>n, <1>3, <2>1, HeadTailProperties, EmptySeq
<1>5. /\ Live(c) /\ ~Live(c)'
      /\ \A d \in Calls \ {c} : (Live(d)' <=> Live(d)) /\ pc'[d] = pc[d]
  BY <1>1 DEF IInv, TypeOK, Live
<1>6. \A p \in Calls \cup {None} : Resolved(p) => Resolved(p)'
  BY <1>5 DEF Resolved
<1>7. \A i \in 2 .. n : s[i] \in Calls \ {c} /\ i \in 1 .. n
  BY <1>s, <1>n, <1>2, <1>3, <1>4, ElementOfSeq DEF ChainParts, Distinct
<1>8. ASSUME NEW j \in Keys, j # k PROVE ChainParts(j)'
  <2>1. line'[j] = line[j] /\ tails'[j] = tails[j]
    BY <1>1, <1>2, <1>8 DEF IInv, TypeOK
  <2>2. line[j] \in Seq(Calls) /\ Len(line[j]) \in Nat /\ ChainParts(j)
    BY DEF IInv, TypeOK, ChainInv, ChainParts
  <2>3. \A i \in 1 .. Len(line[j]) : line[j][i] \in Calls \ {c}
    BY <1>k, <1>8, <2>2, ElementOfSeq DEF ChainParts, InLine
  <2>4. InLine(j)' /\ Distinct(j)' /\ TailIsNewest(j)' /\ Linked(j)'
    BY <1>1, <1>5, <2>1, <2>2, <2>3
       DEF ChainParts, InLine, Distinct, TailIsNewest, Linked
  <2>5. FirstIsFree(j)'
    <3> SUFFICES ASSUME line[j] # <<>> PROVE Resolved(prev[line[j][1]])'
      BY <2>1 DEF FirstIsFree
    <3>1. 1 \in 1 .. Len(line[j])
      BY <2>2, EmptySeq
    <3>2. Resolved(prev[line[j][1]]) /\ prev[line[j][1]] \in Calls \cup {None}
      BY <2>2, <2>3, <3>1 DEF ChainParts, FirstIsFree, IInv, TypeOK
    <3> QED BY <1>1, <1>6, <2>1, <3>2 DEF Resolved, Live
  <2> QED BY <2>4, <2>5 DEF ChainParts
<1>9. ChainParts(k)'
  <2>1. \A i \in 1 .. (n - 1) : i + 1 \in 2 .. n
    BY <1>2, <1>4
  <2>2. InLine(k)'
    <3>1. \A i \in 2 .. n : Live(s[i]) /\ key[s[i]] = k
      BY <1>s, <1>n, <1>2, <1>7 DEF ChainParts, InLine
    <3>2. \A i \in 2 .. n : pc'[s[i]] \in {"waiting", "task"} /\ key'[s[i]] = k
      BY <1>1, <1>5, <1>7, <3>1 DEF Live
    <3> QED BY <1>2, <1>4, <2>1, <3>2 DEF InLine, Live
  <2>3. Distinct(k)'
    <3>1. \A i, j \in 2 .. n : s[i] = s[j] => i = j
      BY <1>s, <1>n, <1>2, <1>7 DEF ChainParts, Distinct
    <3> QED BY <1>2, <1>4, <2>1, <3>1 DEF Distinct
  <2>4. TailIsNewest(k)'
    <3>1. tails[k] = s[n]
      BY <1>s, <1>n, <1>2, <1>3 DEF ChainParts, TailIsNewest
    <3>2. CASE n = 1
      <4>1. tails'[k] = None
        BY <1>1, <1>2, <1>3, <3>1, <3>2 DEF IInv, TypeOK
      <4>2. line'[k] = <<>>
        BY <1>n, <1>3, <1>4, <3>2, HeadTailProperties, EmptySeq
      <4> QED BY <4>1, <4>2 DEF TailIsNewest
    <3>3. CASE n # 1
      <4>1. n \in 2 .. n /\ n - 1 \in 1 .. (n - 1)
        BY <1>2, <1>4, <3>3
      <4>2. tails'[k] = s[n]
        BY <1>1, <1>7, <3>1, <4>1
      <4>3. line'[k][n - 1] = s[n] /\ line'[k] # <<>>
        BY <1>2, <1>4, <4>1
      <4> QED BY <1>4, <4>2, <4>3 DEF TailIsNewest
    <3> QED BY <3>2, <3>3
  <2>5. Linked(k)'
    <3> SUFFICES ASSUME NEW i \in 2 .. (n - 1)
                 PROVE  prev[line'[k][i]] = line'[k][i - 1] /\ pc'[line'[k][i]] = "waiting"
      BY <1>1, <1>4 DEF Linked
    <3>1. i \in 1 .. (n - 1) /\ i - 1 \in 1 .. (n - 1) /\ i + 1 \in 2 .. n
      BY <1>2
    <3>2. line'[k][i] = s[i + 1] /\ line'[k][i - 1] = s[i]
      BY <1>2, <1>4, <3>1
    <3>3. prev[s[i + 1]] = s[i] /\ pc[s[i + 1]] = "waiting"
      BY <1>s, <1>n, <1>2, <3>1 DEF ChainParts, Linked
    <3> QED BY <1>5, <1>7, <3>1, <3>2, <3>3
  <2>6. FirstIsFree(k)'
    <3> SUFFICES ASSUME line'[k] # <<>> PROVE Resolved(prev[line[k][1]])'
      BY DEF FirstIsFree
    <3>1. n # 1
      <4> SUFFICES ASSUME n = 1 PROVE line'[k] = <<>>
        OBVIOUS
      <4> QED BY <1>n, <1>3, <1>4, HeadTailProperties, EmptySeq
    <3>2. 2 \in 2 .. n /\ 1 \in 1 .. (n - 1)
      BY <1>2, <1>4, <3>1
    <3>3. line'[k][1] = s[2] /\ prev[s[2]] = c
      BY <1>s, <1>n, <1>2, <1>3, <1>4, <3>2 DEF ChainParts, Linked
    <3> QED BY <1>1, <1>5, <3>3 DEF Resolved, Live
  <2> QED BY <2>2, <2>3, <2>4, <2>5, <2>6 DEF ChainParts
<1>10. AllInLine'
  <2> SUFFICES ASSUME NEW d \in Calls, Live(d)'
               PROVE  \E i \in 1 .. Len(line'[key[d]]) : line'[key[d]][i] = d
    BY <1>1 DEF AllInLine
  <2>1. d # c /\ Live(d) /\ key[d] \in Keys
    BY <1>5 DEF IInv, TypeOK
  <2>2. PICK i \in 1 .. Len(line[key[d]]) : line[key[d]][i] = d
    BY <2>1 DEF IInv, ChainInv, AllInLine
  <2>3. CASE key[d] # k
    BY <1>1, <1>2, <2>1, <2>2, <2>3 DEF IInv, TypeOK
  <2>4. CASE key[d] = k
    <3>1. s[i] = d /\ i \in 1 .. n /\ i # 1
      BY <1>s, <1>n, <1>3, <2>1, <2>2, <2>4
    <3>2. i - 1 \in 1 .. (n - 1) /\ line'[k][i - 1] = s[i]
      BY <1>2, <1>4, <3>1
    <3> QED BY <1>4, <2>4, <3>1, <3>2
  <2> QED BY <2>3, <2>4
<1> QED BY <1>8, <1>9, <1>10 DEF ChainInv, ChainParts

\* ChainInv, with the shape of the state, is inductive.
LEMMA NextIInv == IInv /\ [Next]_vars => IInv'
<1> SUFFICES ASSUME IInv, [Next]_vars PROVE IInv'
  OBVIOUS
<1>1. TypeOK'
  BY TypeStep
<1>2. ChainInv'
  <2>1. ASSUME NEW c \in Calls, NEW k \in Keys, Call(c, k) PROVE ChainInv'
    BY <1>1, <2>1, CallStep
  <2>2. ASSUME NEW c \in Calls, Enter(c) PROVE ChainInv'
    BY <1>1, <2>2, EnterStep
  <2>3. ASSUME NEW c \in Calls, Finish(c) PROVE ChainInv'
    BY <1>1, <2>3, FinishStep
  <2>4. CASE UNCHANGED vars
    <3>1. tails' = tails /\ prev' = prev /\ key' = key /\ pc' = pc /\ line' = line
      BY <2>4 DEF vars
    <3>2. \A c : Live(c)' <=> Live(c)
      BY <3>1 DEF Live
    <3>3. AllInLine'
      BY <3>1, <3>2 DEF IInv, ChainInv, AllInLine
    <3>4. ASSUME NEW k \in Keys PROVE ChainParts(k)'
      <4>1. ChainParts(k)
        BY DEF IInv, ChainInv, ChainParts
      <4>2. InLine(k)' /\ Distinct(k)'
        BY <3>1, <4>1 DEF ChainParts, InLine, Distinct, Live
      <4>3. TailIsNewest(k)' /\ Linked(k)'
        BY <3>1, <4>1 DEF ChainParts, TailIsNewest, Linked
      <4>4. FirstIsFree(k)'
        BY <3>1, <4>1 DEF ChainParts, FirstIsFree, Resolved, Live
      <4> QED BY <4>2, <4>3, <4>4 DEF ChainParts
    <3> QED BY <3>3, <3>4 DEF ChainInv, ChainParts
  <2> QED BY <2>1, <2>2, <2>3, <2>4 DEF Next
<1> QED BY <1>1, <1>2 DEF IInv

\* The inductive invariant, for every set of keys and calls: the live calls of
\* a key of withLock form one chain of promises that ends in the map's entry.
THEOREM ChainIsInvariant == Spec => [](TypeOK /\ ChainInv)
<1>1. Init => IInv
  BY InitIInv
<1>2. IInv /\ [Next]_vars => IInv'
  BY NextIInv
<1> QED BY <1>1, <1>2, PTL DEF Spec, IInv

\* The map, the promises and the lines of withLock keep their types.
THEOREM LockTypeOK == Spec => []TypeOK
<1>1. TypeOK /\ ChainInv => TypeOK
  OBVIOUS
<1> QED BY <1>1, ChainIsInvariant, PTL

\* Two deploys of one application never run together in one process.
THEOREM LockMutualExclusion == Spec => []MutualExclusion
<1>1. TypeOK /\ ChainInv => MutualExclusion
  <2> SUFFICES ASSUME IInv, NEW c \in Calls, NEW d \in Calls,
                      pc[c] = "task", pc[d] = "task", key[c] = key[d]
               PROVE  c = d
    BY DEF MutualExclusion, IInv
  <2>1. line[key[c]][1] = c /\ line[key[d]][1] = d
    BY RunnerIsFirst
  <2> QED BY <2>1
<1> QED BY <1>1, ChainIsInvariant, PTL

\* The map of withLock holds an entry exactly for the keys in use.
THEOREM TailsAreExact == Spec => []TailsExact
<1>1. TypeOK /\ ChainInv => TailsExact
  <2> SUFFICES ASSUME TypeOK, ChainInv, NEW k \in Keys
               PROVE  /\ tails[k] # None => Live(tails[k]) /\ key[tails[k]] = k
                      /\ tails[k] = None => \A c \in Calls : Live(c) => key[c] # k
    BY DEF TailsExact
  <2>1. line[k] \in Seq(Calls) /\ Len(line[k]) \in Nat
    BY DEF TypeOK
  <2>2. tails[k] = IF line[k] = <<>> THEN None ELSE line[k][Len(line[k])]
    BY DEF ChainInv, TailIsNewest
  <2>3. CASE line[k] = <<>>
    <3>1. tails[k] = None /\ Len(line[k]) = 0
      BY <2>2, <2>3
    <3>2. \A c \in Calls : Live(c) => key[c] # k
      BY <3>1 DEF ChainInv, AllInLine
    <3> QED BY <3>1, <3>2
  <2>4. CASE line[k] # <<>>
    <3>1. Len(line[k]) \in 1 .. Len(line[k])
      BY <2>1, <2>4, EmptySeq
    <3>2. tails[k] \in Calls
      BY <2>1, <2>2, <2>4, <3>1, ElementOfSeq
    <3>3. Live(tails[k]) /\ key[tails[k]] = k
      BY <2>2, <2>4, <3>1 DEF ChainInv, InLine
    <3> QED BY <3>2, <3>3, NoneIsNoCall
  <2> QED BY <2>3, <2>4
<1> QED BY <1>1, ChainIsInvariant, PTL

\* Two functions that differ only at k.
LEMMA DifferAt ==
    ASSUME NEW S, NEW f, NEW g, NEW k \in S, NEW v,
           f = [j \in S |-> f[j]], g = [j \in S |-> g[j]],
           \A j \in S \ {k} : g[j] = f[j], g[k] = v
    PROVE  g = [f EXCEPT ![k] = v]
OBVIOUS

\* A call that may start its task is the first in line for its key.
LEMMA FreeWaiterIsFirst ==
    ASSUME IInv, NEW c \in Calls, pc[c] = "waiting", Resolved(prev[c])
    PROVE  line[key[c]] # <<>> /\ line[key[c]][1] = c
<1>k. PICK k \in Keys : k = key[c]
  BY DEF IInv, TypeOK
<1>1. line[k] \in Seq(Calls) /\ Len(line[k]) \in Nat
  BY DEF IInv, TypeOK
<1>2. PICK i \in 1 .. Len(line[k]) : line[k][i] = c
  BY <1>k DEF IInv, ChainInv, AllInLine, Live
<1>3. i = 1
  <2> SUFFICES ASSUME i # 1 PROVE FALSE
    OBVIOUS
  <2>1. i \in 2 .. Len(line[k]) /\ i - 1 \in 1 .. Len(line[k])
    BY <1>1, <1>2
  <2>2. prev[c] = line[k][i - 1] /\ Live(line[k][i - 1]) /\ line[k][i - 1] \in Calls
    BY <1>1, <1>2, <2>1, ElementOfSeq DEF IInv, ChainInv, Linked, InLine
  <2> QED BY <2>2, NoneIsNoCall DEF Resolved
<1> QED BY <1>k, <1>1, <1>2, <1>3

\* A step of a call is a request, a grant or a release of the contract.
LEMMA ContractStep ==
    ASSUME IInv, IInv', [Next]_vars
    PROVE  [Contract!Next]_(Contract!vars)
<1> USE DEF HasHolder, AbsHolder, AbsWaiters
<1>0. /\ AbsHolder = [j \in Keys |-> AbsHolder[j]]
      /\ AbsWaiters = [j \in Keys |-> AbsWaiters[j]]
      /\ AbsHolder' = [j \in Keys |-> AbsHolder'[j]]
      /\ AbsWaiters' = [j \in Keys |-> AbsWaiters'[j]]
  OBVIOUS
<1>1. ASSUME NEW c \in Calls, NEW k \in Keys, Call(c, k) PROVE Contract!Request(k, c)
  <2>1. /\ pc[c] = "idle"
        /\ pc' = [pc EXCEPT ![c] = "waiting"]
        /\ line' = [line EXCEPT ![k] = Append(@, c)]
    BY <1>1 DEF Call, Reusable
  <2>2. \A j \in Keys : line[j] \in Seq(Calls) /\ Len(line[j]) \in Nat
    BY DEF IInv, TypeOK
  <2>3. \A j \in Keys : \A i \in 1 .. Len(line[j]) : line[j][i] \in Calls \ {c}
    BY <2>1, <2>2, ElementOfSeq DEF IInv, ChainInv, InLine, Live
  <2>4. ASSUME NEW j \in Keys PROVE c \notin Contract!Engaged(j)
    <3>1. CASE line[j] = <<>>
      BY <3>1, NoneIsNoCall DEF Contract!Engaged
    <3>2. CASE line[j] # <<>>
      <4>1. /\ 1 \in 1 .. Len(line[j]) /\ Head(line[j]) = line[j][1]
            /\ Len(Tail(line[j])) = Len(line[j]) - 1
            /\ \A i \in 1 .. Len(Tail(line[j])) : Tail(line[j])[i] = line[j][i + 1]
        BY <2>2, <3>2, HeadTailProperties, EmptySeq
      <4>2. \A i \in 1 .. Len(Tail(line[j])) : Tail(line[j])[i] # c
        BY <2>2, <2>3, <4>1
      <4> QED BY <2>3, <4>1, <4>2, NoneIsNoCall DEF Contract!Engaged
    <3> QED BY <3>1, <3>2
  <2>5. /\ \A j \in Keys \ {k} : line'[j] = line[j]
        /\ line'[k] = Append(line[k], c)
    BY <2>1 DEF IInv, TypeOK
  <2>6. \A j \in Keys : line[j] # <<>> => Head(line[j]) \in Calls \ {c}
    BY <2>2, <2>3, EmptySeq
  <2>7. \A d \in Calls \ {c} : pc'[d] = pc[d]
    BY <2>1 DEF IInv, TypeOK
  <2>8. line'[k] # <<>> /\ pc'[c] = "waiting" /\ line[k] \in Seq(Calls)
    <3>1. Append(line[k], c) # <<>>
      BY <2>2
    <3> QED BY <2>1, <2>2, <2>5, <3>1 DEF IInv, TypeOK
  <2>9. CASE line[k] = <<>>
    <3>1. HasHolder(k) = FALSE /\ HasHolder(k)' = FALSE
      BY <2>5, <2>8, <2>9
    <3>2. AbsHolder'[k] = AbsHolder[k] /\ AbsWaiters'[k] = Append(AbsWaiters[k], c)
      BY <2>5, <2>9, <3>1
    <3>3. \A j \in Keys \ {k} : AbsHolder'[j] = AbsHolder[j] /\ AbsWaiters'[j] = AbsWaiters[j]
      BY <2>5, <2>6, <2>7
    <3>4. AbsHolder' = AbsHolder /\ AbsWaiters' = [AbsWaiters EXCEPT ![k] = Append(@, c)]
      BY <3>2, <3>3
    <3> QED BY <2>4, <3>4 DEF Contract!Request
  <2>10. CASE line[k] # <<>>
    <3>1. /\ Head(line'[k]) = Head(line[k])
          /\ Tail(line'[k]) = Append(Tail(line[k]), c)
      BY <2>5, <2>8, <2>10
    <3>2. HasHolder(k)' <=> HasHolder(k)
      BY <2>5, <2>6, <2>7, <2>8, <2>10, <3>1
    <3>3. AbsHolder'[k] = AbsHolder[k] /\ AbsWaiters'[k] = Append(AbsWaiters[k], c)
      BY <2>5, <2>10, <3>1, <3>2
    <3>4. \A j \in Keys \ {k} : AbsHolder'[j] = AbsHolder[j] /\ AbsWaiters'[j] = AbsWaiters[j]
      BY <2>5, <2>6, <2>7
    <3>5. AbsHolder' = AbsHolder /\ AbsWaiters' = [AbsWaiters EXCEPT ![k] = Append(@, c)]
      BY <3>3, <3>4
    <3> QED BY <2>4, <3>5 DEF Contract!Request
  <2> QED BY <2>9, <2>10
<1>2. ASSUME NEW c \in Calls, Enter(c) PROVE \E k \in Keys : Contract!Grant(k)
  <2>k. PICK k \in Keys : k = key[c]
    BY DEF IInv, TypeOK
  <2>1. /\ pc[c] = "waiting" /\ pc' = [pc EXCEPT ![c] = "task"]
        /\ line' = line
    BY <1>2 DEF Enter
  <2>2. line[k] # <<>> /\ line[k][1] = c /\ line[k] \in Seq(Calls)
    BY <1>2, <2>k, FreeWaiterIsFirst DEF Enter, IInv, TypeOK
  <2>3. Head(line[k]) = c
    BY <2>2
  <2>4. pc'[c] = "task" /\ \A d \in Calls \ {c} : pc'[d] = pc[d]
    BY <2>1 DEF IInv, TypeOK
  <2>5. ASSUME NEW j \in Keys, j # k
        PROVE  AbsHolder'[j] = AbsHolder[j] /\ AbsWaiters'[j] = AbsWaiters[j]
    <3>1. CASE line[j] = <<>>
      BY <2>1, <3>1
    <3>2. CASE line[j] # <<>>
      <4>1. line[j] \in Seq(Calls) /\ 1 \in 1 .. Len(line[j])
        BY <3>2, EmptySeq DEF IInv, TypeOK
      <4>2. Head(line[j]) = line[j][1] /\ line[j][1] \in Calls
        BY <3>2, <4>1, ElementOfSeq
      <4>3. key[line[j][1]] = j
        BY <4>1 DEF IInv, ChainInv, InLine
      <4>4. line[j][1] # c
        BY <2>k, <2>5, <4>3
      <4> QED BY <2>1, <2>4, <4>2, <4>4
    <3> QED BY <3>1, <3>2
  <2>6. /\ AbsHolder[k] = None /\ AbsWaiters[k] = line[k]
        /\ AbsHolder'[k] = c /\ AbsWaiters'[k] = Tail(line[k])
    BY <2>1, <2>2, <2>3, <2>4
  <2>7. /\ AbsHolder' = [AbsHolder EXCEPT ![k] = Head(AbsWaiters[k])]
        /\ AbsWaiters' = [AbsWaiters EXCEPT ![k] = Tail(@)]
    <3> HIDE DEF AbsHolder, AbsWaiters
    <3> QED BY <1>0, <2>3, <2>5, <2>6, DifferAt
  <2>8. Contract!Grant(k)
    BY <2>2, <2>6, <2>7 DEF Contract!Grant
  <2> QED BY <2>8
<1>3. ASSUME NEW c \in Calls, Finish(c) PROVE \E k \in Keys : Contract!Release(k)
  <2>k. PICK k \in Keys : k = key[c]
    BY DEF IInv, TypeOK
  <2>1. /\ pc[c] = "task" /\ pc' = [pc EXCEPT ![c] = "idle"]
        /\ line' = [line EXCEPT ![k] = Without(@, c)]
    BY <1>3, <2>k DEF Finish
  <2>2. /\ line[k] # <<>> /\ line[k][1] = c /\ line[k] \in Seq(Calls)
        /\ Without(line[k], c) = Tail(line[k])
    BY <2>1, <2>k, RunnerIsFirst DEF IInv, TypeOK
  <2>3. /\ Head(line[k]) = c /\ line'[k] = Tail(line[k])
        /\ \A j \in Keys \ {k} : line'[j] = line[j]
    BY <2>1, <2>2 DEF IInv, TypeOK
  <2>4. \A d \in Calls \ {c} : pc'[d] = pc[d]
    BY <2>1 DEF IInv, TypeOK
  <2>5. ASSUME NEW j \in Keys, j # k
        PROVE  AbsHolder'[j] = AbsHolder[j] /\ AbsWaiters'[j] = AbsWaiters[j]
    <3>1. CASE line[j] = <<>>
      BY <2>3, <2>5, <3>1
    <3>2. CASE line[j] # <<>>
      <4>1. line[j] \in Seq(Calls) /\ 1 \in 1 .. Len(line[j])
        BY <3>2, EmptySeq DEF IInv, TypeOK
      <4>2. Head(line[j]) = line[j][1] /\ line[j][1] \in Calls
        BY <3>2, <4>1, ElementOfSeq
      <4>3. key[line[j][1]] = j
        BY <4>1 DEF IInv, ChainInv, InLine
      <4>4. line[j][1] # c
        BY <2>k, <2>5, <4>3
      <4> QED BY <2>3, <2>4, <2>5, <4>2, <4>4
    <3> QED BY <3>1, <3>2
  <2>6. HasHolder(k)' = FALSE
    <3> SUFFICES ASSUME line'[k] # <<>> PROVE pc'[Head(line'[k])] # "task"
      OBVIOUS
    <3>1. Tail(line[k]) \in Seq(Calls) /\ Tail(line[k]) # <<>>
      BY <2>2, <2>3
    <3>2. Len(line[k]) \in Nat /\ 2 \in 2 .. Len(line[k])
      BY <2>2, <3>1
    <3>3. Head(line'[k]) = line[k][2] /\ line[k][2] \in Calls
      BY <2>2, <2>3, <3>1, <3>2, ElementOfSeq, HeadTailProperties
    <3>4. pc[line[k][2]] = "waiting"
      BY <3>2 DEF IInv, ChainInv, Linked
    <3> QED BY <2>1, <2>4, <3>3, <3>4
  <2>7. /\ AbsHolder[k] = c /\ AbsHolder'[k] = None
        /\ AbsWaiters[k] = Tail(line[k]) /\ AbsWaiters'[k] = Tail(line[k])
    BY <2>1, <2>2, <2>3, <2>6
  <2>8. AbsHolder' = [AbsHolder EXCEPT ![k] = None] /\ AbsWaiters' = AbsWaiters
    <3> HIDE DEF AbsHolder, AbsWaiters
    <3>1. AbsHolder' = [AbsHolder EXCEPT ![k] = None]
      BY <1>0, <2>5, <2>7, DifferAt
    <3>2. \A j \in Keys : AbsWaiters'[j] = AbsWaiters[j]
      BY <2>5, <2>7
    <3> QED BY <1>0, <3>1, <3>2
  <2>9. Contract!Release(k)
    BY <2>7, <2>8, NoneIsNoCall DEF Contract!Release
  <2> QED BY <2>9
<1>4. ASSUME UNCHANGED vars PROVE UNCHANGED Contract!vars
  BY <1>4 DEF vars, Contract!vars
<1> QED BY <1>1, <1>2, <1>3, <1>4 DEF Next, Contract!Next

\* withLock of app-deploy-lock.ts is the first-come first-served mutex of
\* FifoLock, which is what DeployPipeline assumes of it.
THEOREM LockRefinement == Spec => ContractSpec
<1>1. Init => Contract!Init
  BY DEF Init, Contract!Init, AbsHolder, AbsWaiters, HasHolder
<1>2. (TypeOK /\ ChainInv) /\ (TypeOK /\ ChainInv)' /\ [Next]_vars
        => [Contract!Next]_(Contract!vars)
  BY ContractStep DEF IInv
<1> QED BY <1>1, <1>2, ChainIsInvariant, PTL DEF Spec, ContractSpec, Contract!Spec
=============================================================================
