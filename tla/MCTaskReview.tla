---------------------------- MODULE MCTaskReview ----------------------------
(* Small instances of TaskReview for TLC.                                    *)
EXTENDS TaskReview, TLC

CONSTANTS c1, c2, r1, r2

ReviewerSymmetry == Permutations(Replicas)
=============================================================================
