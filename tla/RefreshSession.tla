--------------------------- MODULE RefreshSession ---------------------------
(***************************************************************************)
(* One session between the tabs of a browser, which share its cookies, and *)
(* the API: a call that is refused refreshes the session and is made once  *)
(* more; the API exchanges a refresh token for the next one with a         *)
(* compare-and-swap, and takes a token that was exchanged for a replay     *)
(* that ends the session, unless the exchange is ten seconds old at most.  *)
(*                                                                         *)
(* Tabs refresh at the same time; the API awaits the database between the  *)
(* check of a token, its exchange and the answer, and answers get lost.    *)
(* Tokens are numbered in the order in which they are issued.              *)
(***************************************************************************)
EXTENDS Naturals, FiniteSets

CONSTANTS
    Tabs,      \* the tabs of the browser
    MaxTokens, \* a bound: the tokens that are issued
    MaxLost    \* a bound: the answers that get lost

ASSUME SessionAssumption == MaxTokens \in Nat \ {0} /\ MaxLost \in Nat

VARIABLES
    sess,   \* the row: the token whose hash it has, revoked_at, rotated_at
    issued, \* the tokens that were issued
    jar,    \* the cookies: the refresh token, and whether access is in time
    pc,     \* pc[t]: how far the call of tab t is
    sent,   \* sent[t]: the refresh token that it sent
    answer, \* answer[t]: a new token, "conflict" or "expired"
    swaps,  \* swaps[k]: how often token k was exchanged
    lost,   \* the answers that got lost
    excuse  \* the session may end: a logout, a lost or a slow answer

vars == <<sess, issued, jar, pc, sent, answer, swaps, lost, excuse>>

Tokens == 1..MaxTokens
Steps  == {"idle", "refresh", "verify", "recheck", "revoke", "rotate", "answer", "retry", "out"}
Flying == {"verify", "recheck", "revoke", "rotate", "answer"}

TypeOK ==
    /\ sess \in [hash : Tokens, revoked : BOOLEAN, rotated : {"never", "recent", "old"}]
    /\ issued \in Tokens
    /\ jar \in [tok : Tokens, access : BOOLEAN]
    /\ pc \in [Tabs -> Steps]
    /\ sent \in [Tabs -> 0..MaxTokens]
    /\ answer \in [Tabs -> [kind : {"none", "token", "conflict", "expired"}, tok : 0..MaxTokens]]
    /\ swaps \in [Tokens -> 0..MaxTokens]
    /\ lost \in 0..MaxLost
    /\ excuse \in BOOLEAN

Goto(t, label) == pc' = [pc EXCEPT ![t] = label]
NoAnswer == [kind |-> "none", tok |-> 0]
Forget(t) == sent' = [sent EXCEPT ![t] = 0] /\ answer' = [answer EXCEPT ![t] = NoAnswer]
Reply(t, kind, k) ==
    answer' = [answer EXCEPT ![t] = [kind |-> kind, tok |-> k]] /\ Goto(t, "answer")

-----------------------------------------------------------------------------
(* The tab: apiFetchCore and refreshSession, which is in flight once.       *)

(* requireAuth: the access token is in time and the session stands.        *)
Served == jar.access /\ ~sess.revoked

(* A call that is refused; one that is served changes nothing here.        *)
Call(t) ==
    /\ pc[t] = "idle"
    /\ ~Served
    /\ Goto(t, "refresh")
    /\ UNCHANGED <<sess, issued, jar, sent, answer, swaps, lost, excuse>>

(* doRefresh: the request carries the cookie of this moment.               *)
Send(t) ==
    /\ pc[t] = "refresh"
    /\ sent' = [sent EXCEPT ![t] = jar.tok]
    /\ Goto(t, "verify")
    /\ UNCHANGED <<sess, issued, jar, answer, swaps, lost, excuse>>

(* A mutant: only the access token is kept (applySsrSetCookies missing).   *)
ReceiveAccess(t) ==
    /\ pc[t] = "answer"
    /\ jar' = IF answer[t].kind = "token" THEN [jar EXCEPT !.access = TRUE] ELSE jar
    /\ Goto(t, IF answer[t].kind = "expired" THEN "out" ELSE "retry")
    /\ Forget(t)
    /\ UNCHANGED <<sess, issued, swaps, lost, excuse>>

(* The answer arrives: new cookies, or a conflict and a wait for the       *)
(* cookies of the tab that won, or the end of the session.                 *)
Receive(t) ==
    /\ pc[t] = "answer"
    /\ jar' = IF answer[t].kind = "token"
              THEN [tok |-> answer[t].tok, access |-> TRUE] ELSE jar
    /\ Goto(t, IF answer[t].kind = "expired" THEN "out" ELSE "retry")
    /\ Forget(t)
    /\ UNCHANGED <<sess, issued, swaps, lost, excuse>>

(* The network fails: BackendUnavailableError.                             *)
LoseAnswer(t) ==
    /\ pc[t] = "answer"
    /\ lost < MaxLost /\ lost' = lost + 1
    /\ Goto(t, "idle")
    /\ Forget(t)
    /\ excuse' = TRUE
    /\ UNCHANGED <<sess, issued, jar, swaps>>

(* The call is made again, once; a second refusal is an error.             *)
Retry(t) ==
    /\ pc[t] = "retry"
    /\ Goto(t, "idle")
    /\ UNCHANGED <<sess, issued, jar, sent, answer, swaps, lost, excuse>>

-----------------------------------------------------------------------------
(* POST /auth/refresh.                                                      *)

(* verifyRefreshToken.                                                     *)
Verify(t) ==
    /\ pc[t] = "verify"
    /\ Goto(t, IF ~sess.revoked /\ sess.hash = sent[t] THEN "rotate" ELSE "recheck")
    /\ UNCHANGED <<sess, issued, jar, sent, answer, swaps, lost, excuse>>

(* A mutant: every token that does not match is a replay.                  *)
RecheckNothing(t) ==
    /\ pc[t] = "recheck"
    /\ Goto(t, "revoke")
    /\ UNCHANGED <<sess, issued, jar, sent, answer, swaps, lost, excuse>>

(* The token does not match: was it exchanged just now?                    *)
Recheck(t) ==
    /\ pc[t] = "recheck"
    /\ \/ /\ ~sess.revoked /\ sess.rotated = "recent"
          /\ Reply(t, "conflict", 0)
       \/ /\ sess.revoked \/ sess.rotated # "recent"
          /\ Goto(t, "revoke")
          /\ UNCHANGED answer
    /\ UNCHANGED <<sess, issued, jar, sent, swaps, lost, excuse>>

(* rejectReplay: revokeSessionFamily.                                      *)
Revoke(t) ==
    /\ pc[t] = "revoke"
    /\ sess' = [sess EXCEPT !.revoked = TRUE]
    /\ Reply(t, "expired", 0)
    /\ UNCHANGED <<issued, jar, sent, swaps, lost, excuse>>

(* Mutants: the UPDATE without one of its conditions.                      *)
SwapAny(t) == ~sess.revoked
SwapRevoked(t) == sess.hash = sent[t]

(* The condition of the UPDATE.                                            *)
Swappable(t) == sess.hash = sent[t] /\ ~sess.revoked

(* rotateRefreshToken: a new token for the one that was verified.          *)
Rotate(t) ==
    /\ pc[t] = "rotate"
    /\ \/ /\ Swappable(t)
          /\ issued < MaxTokens
          /\ issued' = issued + 1
          /\ sess' = [sess EXCEPT !.hash = issued + 1, !.rotated = "recent"]
          /\ swaps' = [swaps EXCEPT ![sent[t]] = @ + 1]
          /\ Reply(t, "token", issued + 1)
       \/ /\ ~Swappable(t)
          /\ Reply(t, "conflict", 0)
          /\ UNCHANGED <<sess, issued, swaps>>
    /\ UNCHANGED <<jar, sent, lost, excuse>>

(* POST /auth/logout, or the revocation by another session of the user.    *)
Logout ==
    /\ ~sess.revoked
    /\ sess' = [sess EXCEPT !.revoked = TRUE]
    /\ excuse' = TRUE
    /\ UNCHANGED <<issued, jar, pc, sent, answer, swaps, lost>>

-----------------------------------------------------------------------------
(* Time.                                                                    *)

(* The access token runs out after its ten minutes.                        *)
Expire ==
    /\ jar.access
    /\ jar' = [jar EXCEPT !.access = FALSE]
    /\ UNCHANGED <<sess, issued, pc, sent, answer, swaps, lost, excuse>>

(* Ten seconds have passed since the last exchange.                        *)
Age ==
    /\ sess.rotated = "recent"
    /\ sess' = [sess EXCEPT !.rotated = "old"]
    /\ excuse' = (excuse \/ \E t \in Tabs : pc[t] \in Flying)
    /\ UNCHANGED <<issued, jar, pc, sent, answer, swaps, lost>>

-----------------------------------------------------------------------------
Init ==
    /\ sess = [hash |-> 1, revoked |-> FALSE, rotated |-> "never"]
    /\ issued = 1
    /\ jar = [tok |-> 1, access |-> TRUE]
    /\ pc = [t \in Tabs |-> "idle"]
    /\ sent = [t \in Tabs |-> 0]
    /\ answer = [t \in Tabs |-> NoAnswer]
    /\ swaps = [k \in Tokens |-> 0]
    /\ lost = 0
    /\ excuse = FALSE

Step(t) ==
    \/ Send(t) \/ Verify(t) \/ Recheck(t) \/ Revoke(t) \/ Rotate(t)
    \/ Receive(t) \/ LoseAnswer(t) \/ Retry(t)

Next ==
    \/ \E t \in Tabs : Call(t) \/ Step(t)
    \/ Logout \/ Expire \/ Age

Spec == Init /\ [][Next]_vars

-----------------------------------------------------------------------------
(* Properties.                                                              *)

(* A refresh token is exchanged once, whatever tabs present it at the same *)
(* time: the check of the token and its exchange are two statements.       *)
OneSuccessor == \A k \in Tokens : swaps[k] <= 1

(* A session that was revoked stays so and issues no token any more, also  *)
(* to a refresh that had verified its token before.                        *)
RevokedForGood == [][sess.revoked => sess'.revoked /\ issued' = issued]_<<sess, issued>>

(* Tabs that refresh at the same time do not end the session for each      *)
(* other: it is revoked only by a logout, or after an answer that was lost *)
(* or took longer than the ten seconds.                                    *)
TabsAgree == sess.revoked => excuse

(* Between refreshes the cookie holds the token of the session: neither a  *)
(* conflict nor the order of the answers leaves an older one in the jar.   *)
JarIsCurrent ==
    (\A t \in Tabs : pc[t] \notin Flying) /\ lost = 0 => jar.tok = sess.hash

=============================================================================
