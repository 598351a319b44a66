------------------------ MODULE LinkedRunRefinement ------------------------
(* The queue, its documents and its device implement RunContract.           *)
EXTENDS LinkedRunQueue

(* What its owner may assume of a run, from the job q and the status h of   *)
(* its hermes_runs row.  A refused request has made no run.                 *)
Phase(q) ==
    CASE q.status \in NoRun -> "idle"
      [] q.status \in Live -> "live"
      [] OTHER -> "ended"

Holder(q) == IF q.status \in Active THEN q.attempt ELSE 0

View(h) ==
    CASE h = "completed" -> "completed"
      [] h \in Terminal \ {"completed"} -> "failed"
      [] OTHER -> "working"

RunOf(q, h) == [phase |-> Phase(q), attempts |-> q.attempt, holder |-> Holder(q),
                answeredBy |-> q.result, view |-> View(h)]

Contract == INSTANCE RunContract
                WITH Runs <- Jobs, run <- [j \in Jobs |-> RunOf(jobs[j], hrun[j])]

(* Runs are submitted once, leased to ever later attempts, answered only by *)
(* the attempt that holds the lease, ended once, and shown as they are.     *)
ImplementsContract == Contract!Spec
=============================================================================
