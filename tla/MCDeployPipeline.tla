-------------------------- MODULE MCDeployPipeline --------------------------
(* Small instances of the deploy pipeline.                                 *)
EXTENDS DeployPipeline, TLC

CONSTANTS b1, b2, w1, w2, w3, p1, p2, a1

MCAppOf == [b \in Builds |-> a1]
MCKind == [a \in Apps |-> "docker"]
MCMaxAttempts == [b \in Builds |-> IF b = b1 THEN 2 ELSE 1]
MCOnce == [b \in Builds |-> 1]
MCProcOf == [w \in Workers |-> IF w = w3 THEN p2 ELSE p1]

\* The slots of one process are alike.
MCSymmetry == Permutations({w1, w2})
=============================================================================
