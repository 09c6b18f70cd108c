----------------------- MODULE RefreshSessionProofs -----------------------
(***************************************************************************)
(* Proofs about RefreshSession, for any number of tabs, tokens and lost    *)
(* answers.                                                                *)
(***************************************************************************)
EXTENDS RefreshSession, TLAPS

(* A token on its way to tab u.                                            *)
Arriving(u) == pc[u] = "answer" /\ answer[u].kind = "token"

(* Tokens come from the counter, and the session has the newest.           *)
Counted ==
    /\ sess.hash = issued
    /\ jar.tok <= issued
    /\ \A t \in Tabs : sent[t] <= issued
    /\ \A k \in Tokens : swaps[k] <= 1 /\ (k >= issued => swaps[k] = 0)

(* Nobody has a token that is on its way.                                  *)
Unseen ==
    \A u \in Tabs : Arriving(u) =>
        /\ answer[u].tok = sess.hash
        /\ jar.tok # sess.hash
        /\ \A v \in Tabs : sent[v] # sess.hash /\ (Arriving(v) => v = u)

(* The jar lacks the newest token only while that is on its way.           *)
Covered == lost = 0 /\ jar.tok # sess.hash => \E u \in Tabs : Arriving(u)

(* As long as there is no excuse, a token that does not match was          *)
(* exchanged in the last ten seconds.                                      *)
Calm ==
    ~excuse =>
        /\ lost = 0
        /\ ~sess.revoked
        /\ jar.tok # sess.hash => sess.rotated = "recent"
        /\ \A t \in Tabs :
              /\ pc[t] # "revoke"
              /\ pc[t] = "recheck" => sess.rotated = "recent"
              /\ pc[t] = "verify" /\ sent[t] # sess.hash => sess.rotated = "recent"

IInv == TypeOK /\ Counted /\ Unseen /\ Covered /\ Calm

-----------------------------------------------------------------------------
LEMMA InitInv == Init => IInv
<1> SUFFICES ASSUME Init PROVE IInv
  OBVIOUS
<1>1. 1 \in Tokens /\ 0 \in 0..MaxTokens /\ 0 \in 0..MaxLost
  BY SessionAssumption DEF Tokens
<1>2. TypeOK
  <2>1. NoAnswer \in [kind : {"none", "token", "conflict", "expired"}, tok : 0..MaxTokens]
    BY <1>1 DEF NoAnswer
  <2>2. answer \in [Tabs -> [kind : {"none", "token", "conflict", "expired"}, tok : 0..MaxTokens]]
    BY <2>1 DEF Init
  <2>3. sess \in [hash : Tokens, revoked : BOOLEAN, rotated : {"never", "recent", "old"}]
    BY <1>1 DEF Init
  <2>4. QED BY <1>1, <2>2, <2>3 DEF Init, TypeOK, Steps
<1>3. Counted
  BY SessionAssumption DEF Init, Counted, Tokens
<1>4. Unseen /\ Covered /\ Calm
  BY DEF Init, Unseen, Covered, Calm, Arriving
<1>5. QED BY <1>2, <1>3, <1>4 DEF IInv

(* A reply keeps the types of what it writes.                              *)
LEMMA ReplyType ==
  ASSUME TypeOK, NEW t \in Tabs, NEW k \in 0..MaxTokens,
         NEW kind \in {"none", "token", "conflict", "expired"}, Reply(t, kind, k)
  PROVE  /\ answer' \in [Tabs -> [kind : {"none", "token", "conflict", "expired"}, tok : 0..MaxTokens]]
         /\ pc' \in [Tabs -> Steps]
<1>1. [kind |-> kind, tok |-> k]
        \in [kind : {"none", "token", "conflict", "expired"}, tok : 0..MaxTokens]
  OBVIOUS
<1>2. QED BY <1>1 DEF Reply, Goto, TypeOK, Steps

LEMMA RevokedType ==
  ASSUME TypeOK, sess' = [sess EXCEPT !.revoked = TRUE]
  PROVE  /\ sess' \in [hash : Tokens, revoked : BOOLEAN, rotated : {"never", "recent", "old"}]
         /\ sess'.hash = sess.hash /\ sess'.rotated = sess.rotated /\ sess'.revoked
  BY DEF TypeOK

LEMMA SwappedType ==
  ASSUME TypeOK, issued + 1 \in Tokens,
         sess' = [sess EXCEPT !.hash = issued + 1, !.rotated = "recent"]
  PROVE  /\ sess' \in [hash : Tokens, revoked : BOOLEAN, rotated : {"never", "recent", "old"}]
         /\ sess'.hash = issued + 1 /\ sess'.rotated = "recent" /\ sess'.revoked = sess.revoked
  BY DEF TypeOK

LEMMA StepType ==
  ASSUME IInv, [Next]_vars PROVE TypeOK'
<1> USE DEF IInv
<1>0. 0 \in 0..MaxTokens
  BY SessionAssumption
<1>1. CASE UNCHANGED vars
  BY <1>1 DEF vars, TypeOK
<1>2. ASSUME NEW t \in Tabs, Call(t) PROVE TypeOK'
  BY <1>2 DEF Call, Goto, TypeOK, Steps
<1>3. ASSUME NEW t \in Tabs, Send(t) PROVE TypeOK'
  BY <1>3, SessionAssumption DEF Send, Goto, TypeOK, Steps, Tokens
<1>4. ASSUME NEW t \in Tabs, Verify(t) PROVE TypeOK'
  BY <1>4 DEF Verify, Goto, TypeOK, Steps
<1>5. ASSUME NEW t \in Tabs, Recheck(t) PROVE TypeOK'
  <2>1. CASE Reply(t, "conflict", 0)
    BY <2>1, <1>0, <1>5, ReplyType DEF Recheck, TypeOK
  <2>2. CASE Goto(t, "revoke") /\ UNCHANGED answer
    BY <2>2, <1>5 DEF Recheck, Goto, TypeOK, Steps
  <2>3. QED BY <2>1, <2>2, <1>5 DEF Recheck
<1>6. ASSUME NEW t \in Tabs, Revoke(t) PROVE TypeOK'
  BY <1>6, <1>0, ReplyType, RevokedType DEF Revoke, TypeOK
<1>7. ASSUME NEW t \in Tabs, Rotate(t) PROVE TypeOK'
  <2>1. CASE Swappable(t)
    <3>1. issued + 1 \in Tokens /\ issued + 1 \in 0..MaxTokens /\ sent[t] \in Tokens
          /\ swaps[sent[t]] + 1 \in 0..MaxTokens
      BY <2>1, <1>7, SessionAssumption DEF Rotate, Swappable, Counted, TypeOK, Tokens
    <3>2. swaps' \in [Tokens -> 0..MaxTokens]
      BY <2>1, <3>1, <1>7 DEF Rotate, TypeOK
    <3>3. QED
      BY <2>1, <3>1, <3>2, <1>7, ReplyType, SwappedType DEF Rotate, TypeOK
  <2>2. CASE ~Swappable(t)
    BY <2>2, <1>7, <1>0, ReplyType DEF Rotate, TypeOK
  <2>3. QED BY <2>1, <2>2
<1>8. ASSUME NEW t \in Tabs, Receive(t) PROVE TypeOK'
  <2>1. NoAnswer \in [kind : {"none", "token", "conflict", "expired"}, tok : 0..MaxTokens]
    BY <1>0 DEF NoAnswer
  <2>2. jar' \in [tok : Tokens, access : BOOLEAN]
    BY <1>8 DEF Receive, Unseen, Arriving, TypeOK
  <2>3. QED BY <2>1, <2>2, <1>0, <1>8 DEF Receive, Forget, Goto, TypeOK, Steps
<1>9. ASSUME NEW t \in Tabs, LoseAnswer(t) PROVE TypeOK'
  <2>1. NoAnswer \in [kind : {"none", "token", "conflict", "expired"}, tok : 0..MaxTokens]
    BY <1>0 DEF NoAnswer
  <2>2. lost' \in 0..MaxLost
    BY <1>9, SessionAssumption DEF LoseAnswer, TypeOK
  <2>3. QED BY <2>1, <2>2, <1>0, <1>9 DEF LoseAnswer, Forget, Goto, TypeOK, Steps
<1>10. ASSUME NEW t \in Tabs, Retry(t) PROVE TypeOK'
  BY <1>10 DEF Retry, Goto, TypeOK, Steps
<1>11. CASE Logout \/ Expire \/ Age
  BY <1>11, RevokedType DEF Logout, Expire, Age, TypeOK
<1>12. QED
  BY <1>1, <1>2, <1>3, <1>4, <1>5, <1>6, <1>7, <1>8, <1>9, <1>10, <1>11 DEF Next, Step

(* The exchange, as the other lemmas use it.                               *)
LEMMA RotateFacts ==
  ASSUME IInv, NEW t \in Tabs, Rotate(t), Swappable(t)
  PROVE  /\ issued' = issued + 1 /\ sess'.hash = issued + 1
         /\ sess'.rotated = "recent" /\ sess'.revoked = sess.revoked
         /\ sent[t] = issued /\ ~sess.revoked
         /\ \A u \in Tabs : ~Arriving(u)
         /\ \A u \in Tabs : Arriving(u)' <=> u = t
         /\ answer'[t].tok = issued + 1
<1>1. issued + 1 \in Tokens
  BY SessionAssumption DEF IInv, Rotate, TypeOK, Tokens
<1>2. /\ issued' = issued + 1 /\ sess'.hash = issued + 1
      /\ sess'.rotated = "recent" /\ sess'.revoked = sess.revoked
  BY <1>1, SwappedType DEF IInv, Rotate
<1>3. sent[t] = sess.hash /\ sent[t] = issued /\ ~sess.revoked
  BY DEF IInv, Counted, Swappable
<1>4. \A u \in Tabs : ~Arriving(u)
  BY <1>3 DEF IInv, Unseen
<1>5. /\ pc' = [pc EXCEPT ![t] = "answer"]
      /\ answer' = [answer EXCEPT ![t] = [kind |-> "token", tok |-> issued + 1]]
  BY DEF Rotate, Reply, Goto
<1>6. answer'[t] = [kind |-> "token", tok |-> issued + 1] /\ pc'[t] = "answer"
      /\ \A u \in Tabs \ {t} : answer'[u] = answer[u] /\ pc'[u] = pc[u]
  BY <1>5 DEF IInv, TypeOK
<1>7. \A u \in Tabs : Arriving(u)' <=> u = t
  BY <1>4, <1>6 DEF Arriving
<1>8. QED BY <1>2, <1>3, <1>4, <1>6, <1>7

LEMMA StepCounted ==
  ASSUME IInv, [Next]_vars, TypeOK' PROVE Counted'
<1> USE DEF IInv, Counted
<1>1. CASE UNCHANGED vars
  BY <1>1 DEF vars
<1>2. ASSUME NEW t \in Tabs, Call(t) \/ Verify(t) \/ Recheck(t) \/ Revoke(t) \/ Retry(t) PROVE Counted'
  BY <1>2 DEF Call, Verify, Recheck, Revoke, Retry, TypeOK
<1>3. ASSUME NEW t \in Tabs, Send(t) PROVE Counted'
  BY <1>3 DEF Send, TypeOK
<1>4. ASSUME NEW t \in Tabs, Rotate(t), Swappable(t) PROVE Counted'
  <2>1. /\ issued' = issued + 1 /\ sess'.hash = issued + 1 /\ sent[t] = issued
        /\ UNCHANGED <<jar, sent>> /\ swaps' = [swaps EXCEPT ![issued] = @ + 1]
    BY <1>4, RotateFacts DEF Rotate
  <2>2. QED
    BY <2>1, SessionAssumption DEF TypeOK, Tokens
<1>5. ASSUME NEW t \in Tabs, Rotate(t), ~Swappable(t) PROVE Counted'
  BY <1>5 DEF Rotate
<1>6. ASSUME NEW t \in Tabs, Receive(t) PROVE Counted'
  BY <1>6, SessionAssumption DEF Receive, Forget, Unseen, Arriving, TypeOK, Tokens
<1>7. ASSUME NEW t \in Tabs, LoseAnswer(t) PROVE Counted'
  BY <1>7, SessionAssumption DEF LoseAnswer, Forget, TypeOK, Tokens
<1>8. CASE Logout \/ Expire \/ Age
  BY <1>8 DEF Logout, Expire, Age, TypeOK
<1>9. QED
  BY <1>1, <1>2, <1>3, <1>4, <1>5, <1>6, <1>7, <1>8 DEF Next, Step

LEMMA StepUnseen ==
  ASSUME IInv, [Next]_vars, TypeOK' PROVE Unseen'
<1> USE DEF IInv, Unseen, Arriving
<1>1. CASE UNCHANGED vars
  BY <1>1 DEF vars
<1>2. ASSUME NEW t \in Tabs, Call(t) \/ Verify(t) \/ Retry(t) PROVE Unseen'
  BY <1>2 DEF Call, Verify, Retry, Goto, TypeOK
<1>3. ASSUME NEW t \in Tabs, Recheck(t) \/ Revoke(t) PROVE Unseen'
  <2>1. sess'.hash = sess.hash
    BY <1>3, RevokedType DEF Recheck, Revoke
  <2>2. /\ UNCHANGED <<jar, sent>>
        /\ \A u \in Tabs : Arriving(u)' => Arriving(u) /\ answer'[u] = answer[u]
    BY <1>3 DEF Recheck, Revoke, Reply, Goto, TypeOK
  <2>3. QED BY <2>1, <2>2
<1>4. ASSUME NEW t \in Tabs, Send(t) PROVE Unseen'
  BY <1>4 DEF Send, Goto, TypeOK
<1>5. ASSUME NEW t \in Tabs, Rotate(t), Swappable(t) PROVE Unseen'
  <2>1. /\ sess'.hash = issued + 1 /\ UNCHANGED <<jar, sent>>
        /\ \A u \in Tabs : Arriving(u)' <=> u = t
        /\ answer'[t].tok = issued + 1
    BY <1>5, RotateFacts DEF Rotate
  <2>2. jar.tok # issued + 1
    BY SessionAssumption DEF Counted, TypeOK, Tokens
  <2>3. ASSUME NEW v \in Tabs PROVE sent[v] # issued + 1
    BY SessionAssumption DEF Counted, TypeOK, Tokens
  <2>4. QED BY <2>1, <2>2, <2>3
<1>6. ASSUME NEW t \in Tabs, Rotate(t), ~Swappable(t) PROVE Unseen'
  BY <1>6 DEF Rotate, Reply, Goto, TypeOK
<1>7. ASSUME NEW t \in Tabs, Receive(t) PROVE Unseen'
  <2>1. CASE answer[t].kind = "token"
    <3>1. \A u \in Tabs : Arriving(u) => u = t
      BY <2>1, <1>7 DEF Receive
    <3>2. QED BY <3>1, <2>1, <1>7 DEF Receive, Goto, Forget, TypeOK
  <2>2. CASE answer[t].kind # "token"
    BY <2>2, <1>7, SessionAssumption DEF Receive, Goto, Forget, Counted, TypeOK, Tokens
  <2>3. QED BY <2>1, <2>2
<1>8. ASSUME NEW t \in Tabs, LoseAnswer(t) PROVE Unseen'
  BY <1>8, SessionAssumption DEF LoseAnswer, Goto, Forget, Counted, TypeOK, Tokens
<1>9. CASE Logout \/ Expire \/ Age
  BY <1>9 DEF Logout, Expire, Age, TypeOK
<1>10. QED
  BY <1>1, <1>2, <1>3, <1>4, <1>5, <1>6, <1>7, <1>8, <1>9 DEF Next, Step
LEMMA StepCovered ==
  ASSUME IInv, [Next]_vars, TypeOK' PROVE Covered'
<1> USE DEF IInv, Covered
<1>1. CASE UNCHANGED vars
  BY <1>1 DEF vars, Arriving
<1>2. ASSUME NEW t \in Tabs, Call(t) \/ Verify(t) \/ Retry(t) PROVE Covered'
  BY <1>2 DEF Call, Verify, Retry, Goto, TypeOK, Arriving
<1>3. ASSUME NEW t \in Tabs, Recheck(t) PROVE Covered'
  BY <1>3 DEF Recheck, Reply, Goto, TypeOK, Arriving
<1>4. ASSUME NEW t \in Tabs, Revoke(t) PROVE Covered'
  <2>1. sess'.hash = sess.hash
    BY <1>4, RevokedType DEF Revoke
  <2>2. QED BY <2>1, <1>4 DEF Revoke, Reply, Goto, TypeOK, Arriving
<1>5. ASSUME NEW t \in Tabs, Send(t) PROVE Covered'
  BY <1>5 DEF Send, Goto, TypeOK, Arriving
<1>6. ASSUME NEW t \in Tabs, Rotate(t), Swappable(t) PROVE Covered'
  BY <1>6, RotateFacts
<1>7. ASSUME NEW t \in Tabs, Rotate(t), ~Swappable(t) PROVE Covered'
  BY <1>7 DEF Rotate, Reply, Goto, TypeOK, Arriving
<1>8. ASSUME NEW t \in Tabs, Receive(t) PROVE Covered'
  <2>1. CASE answer[t].kind = "token"
    BY <2>1, <1>8 DEF Receive, Unseen, Arriving
  <2>2. CASE answer[t].kind # "token"
    BY <2>2, <1>8 DEF Receive, Goto, Forget, TypeOK, Arriving
  <2>3. QED BY <2>1, <2>2
<1>9. ASSUME NEW t \in Tabs, LoseAnswer(t) PROVE Covered'
  BY <1>9, SessionAssumption DEF LoseAnswer, TypeOK
<1>10. CASE Logout
  <2>1. sess'.hash = sess.hash
    BY <1>10, RevokedType DEF Logout
  <2>2. QED BY <2>1, <1>10 DEF Logout, Arriving
<1>11. CASE Expire \/ Age
  BY <1>11 DEF Expire, Age, TypeOK, Arriving
<1>12. QED
  BY <1>1, <1>2, <1>3, <1>4, <1>5, <1>6, <1>7, <1>8, <1>9, <1>10, <1>11 DEF Next, Step

LEMMA StepCalm ==
  ASSUME IInv, [Next]_vars, TypeOK' PROVE Calm'
<1> USE DEF IInv, Calm
<1>1. CASE UNCHANGED vars
  BY <1>1 DEF vars
<1>2. ASSUME NEW t \in Tabs, Call(t) \/ Retry(t) PROVE Calm'
  BY <1>2 DEF Call, Retry, Goto, TypeOK
<1>3. ASSUME NEW t \in Tabs, Verify(t) PROVE Calm'
  BY <1>3 DEF Verify, Goto, TypeOK
<1>4. ASSUME NEW t \in Tabs, Recheck(t) PROVE Calm'
  BY <1>4 DEF Recheck, Reply, Goto, TypeOK
<1>5. ASSUME NEW t \in Tabs, Revoke(t) PROVE Calm'
  BY <1>5 DEF Revoke
<1>6. ASSUME NEW t \in Tabs, Send(t) PROVE Calm'
  BY <1>6 DEF Send, Goto, TypeOK
<1>7. ASSUME NEW t \in Tabs, Rotate(t), Swappable(t) PROVE Calm'
  <2>1. /\ sess'.rotated = "recent" /\ ~sess'.revoked /\ UNCHANGED <<excuse, lost>>
        /\ pc' = [pc EXCEPT ![t] = "answer"]
    BY <1>7, RotateFacts DEF Rotate, Reply, Goto
  <2>2. QED BY <2>1 DEF TypeOK
<1>8. ASSUME NEW t \in Tabs, Rotate(t), ~Swappable(t) PROVE Calm'
  BY <1>8 DEF Rotate, Reply, Goto, TypeOK
<1>9. ASSUME NEW t \in Tabs, Receive(t) PROVE Calm'
  <2>1. jar'.tok # sess.hash => jar.tok # sess.hash
    BY <1>9 DEF Receive, Unseen, Arriving
  <2>2. QED BY <2>1, <1>9 DEF Receive, Goto, Forget, TypeOK
<1>10. ASSUME NEW t \in Tabs, LoseAnswer(t) PROVE Calm'
  BY <1>10 DEF LoseAnswer
<1>11. CASE Logout
  BY <1>11 DEF Logout
<1>12. CASE Expire
  BY <1>12 DEF Expire, TypeOK
<1>13. CASE Age
  <2>1. SUFFICES ASSUME ~excuse, \A t \in Tabs : pc[t] \notin Flying PROVE Calm'
    BY <1>13 DEF Age
  <2>2. \A t \in Tabs : pc[t] \notin {"verify", "recheck", "answer"}
    BY <2>1 DEF Flying
  <2>3. jar.tok = sess.hash
    BY <2>1, <2>2 DEF Covered, Arriving
  <2>4. sess'.hash = sess.hash /\ sess'.revoked = sess.revoked
    BY <1>13 DEF Age, TypeOK
  <2>5. QED BY <2>1, <2>2, <2>3, <2>4, <1>13 DEF Age
<1>14. QED
  BY <1>1, <1>2, <1>3, <1>4, <1>5, <1>6, <1>7, <1>8, <1>9, <1>10, <1>11, <1>12, <1>13
  DEF Next, Step

LEMMA StepInv == IInv /\ [Next]_vars => IInv'
  BY StepType, StepCounted, StepUnseen, StepCovered, StepCalm DEF IInv

(* The invariant is inductive: it holds in every reachable state.          *)
THEOREM Invariance == Spec => []IInv
  BY InitInv, StepInv, PTL DEF Spec

(* Every variable keeps its type: the number of tokens that are on their   *)
(* way never lets the jar or the session hold something else.              *)
THEOREM TypeCorrect == Spec => []TypeOK
<1>1. IInv => TypeOK
  BY DEF IInv
<1>2. QED BY <1>1, Invariance, PTL

(* A refresh token is exchanged once: rotateRefreshToken compares and      *)
(* swaps, however many tabs had verified the token before.                 *)
THEOREM ExchangedOnce == Spec => []OneSuccessor
<1>1. IInv => OneSuccessor
  BY DEF IInv, Counted, OneSuccessor
<1>2. QED BY <1>1, Invariance, PTL

(* Tabs that refresh at the same time do not end the session.              *)
THEOREM TabsKeepTheSession == Spec => []TabsAgree
<1>1. IInv => TabsAgree
  BY DEF IInv, Calm, TabsAgree
<1>2. QED BY <1>1, Invariance, PTL

(* Between refreshes the cookie holds the token of the session.            *)
THEOREM JarFollows == Spec => []JarIsCurrent
<1>1. IInv => JarIsCurrent
  BY DEF IInv, Covered, Arriving, JarIsCurrent, Flying
<1>2. QED BY <1>1, Invariance, PTL

(* A revoked session stays revoked and issues no token.                    *)
THEOREM RevocationHolds == Spec => RevokedForGood
<1>1. IInv /\ [Next]_vars => [sess.revoked => sess'.revoked /\ issued' = issued]_<<sess, issued>>
  <2>1. SUFFICES ASSUME IInv, [Next]_vars, sess.revoked
                 PROVE  sess'.revoked /\ issued' = issued
    OBVIOUS
  <2>2. CASE UNCHANGED <<sess, issued>>
    BY <2>1, <2>2
  <2>3. ASSUME NEW t \in Tabs, Revoke(t) PROVE sess'.revoked /\ issued' = issued
    BY <2>3, RevokedType DEF Revoke, IInv
  <2>4. ASSUME NEW t \in Tabs, Rotate(t) PROVE sess'.revoked /\ issued' = issued
    BY <2>1, <2>4 DEF Rotate, Swappable
  <2>5. CASE Age
    BY <2>1, <2>5 DEF Age, IInv, TypeOK
  <2>6. CASE Logout
    BY <2>1, <2>6 DEF Logout
  <2>7. QED
    BY <2>1, <2>2, <2>3, <2>4, <2>5, <2>6
    DEF Next, Step, vars, Call, Send, Verify, Recheck, Receive, LoseAnswer, Retry, Expire
<1>2. QED BY <1>1, Invariance, PTL DEF Spec, RevokedForGood
=============================================================================
