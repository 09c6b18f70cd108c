------------------------- MODULE MCContainerRunner -------------------------
(* Small instances of the container runner.                                *)
EXTENDS ContainerRunner, TLC

CONSTANTS o1, o2

(* Operations are interchangeable.                                         *)
MCSymmetry == Permutations(Ops)
=============================================================================
