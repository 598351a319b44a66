-------------------------- MODULE MCWorkspaceRelay --------------------------
(* Small instances of WorkspaceRelay for TLC.                               *)
EXTENDS WorkspaceRelayRefinement

CONSTANTS m1, m2, a, b

BothWaysFrom == [m \in Messages |-> IF m = m1 THEN a ELSE b]
BothWaysTo == [m \in Messages |-> IF m = m1 THEN b ELSE a]
=============================================================================
