------------------------- MODULE MCAgentTaskWatcher -------------------------
(* Small instances of AgentTaskWatcher for TLC.                             *)
EXTENDS AgentTaskWatcher, TLC

CONSTANTS t1, t2, t3, r1, r2

NoDeps == [t \in Tasks |-> {}]
Chain == [t \in Tasks |-> IF t = t2 THEN {t1} ELSE {}]
Both == {1, 2}
ReplicaSymmetry == Permutations(Replicas)
TaskSymmetry == Permutations(Tasks)
=============================================================================
