-------------------------- MODULE MCLinkedRunQueue --------------------------
(* Small instances of LinkedRunQueue for TLC.                               *)
EXTENDS LinkedRunRefinement, TLC

CONSTANTS j1, j2, j3, pip, theo

SameAgent == [j \in Jobs |-> pip]
PipSymmetry == Permutations({j1, j2})
JobSymmetry == Permutations(Jobs)

LastForTheo == [j \in Jobs |-> IF j = j3 THEN theo ELSE pip]
=============================================================================
