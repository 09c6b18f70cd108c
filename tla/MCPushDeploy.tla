---------------------------- MODULE MCPushDeploy ----------------------------
(* A small instance of the push webhooks.                                  *)
EXTENDS PushDeploy

(* Requests 1 and 2 are two pushes of the branch, 3 delivers the second    *)
(* again, and the filters do not let 4 through.                            *)
MCPush == [r \in 1..4 |-> <<1, 2, 2, 3>>[r]]
MCKind == [p \in 1..3 |-> <<"branch", "branch", "skip">>[p]]
=============================================================================
