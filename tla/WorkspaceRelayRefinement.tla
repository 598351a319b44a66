---------------------- MODULE WorkspaceRelayRefinement ----------------------
(* The relay implements RunContract: an envelope is a piece of work that    *)
(* the receiving device leases, answers and ends.                           *)
EXTENDS WorkspaceRelay

(* What the sender may assume of the envelope e of its message.             *)
Phase(e) ==
    CASE e.status = "none" -> "idle"
      [] e.status \in Final -> "ended"
      [] OTHER -> "live"

Holder(e) == IF e.status \in {"claimed", "replied"} THEN e.attempt ELSE 0

(* A completion is the answer of the attempt that stored the reply; one      *)
(* without a reply is that of the attempt whose token it showed.            *)
AnsweredBy(e) ==
    IF e.status \notin {"delivered", "failed"} THEN 0
    ELSE IF e.reply = "none" THEN e.attempt ELSE e.by

View(e) ==
    CASE e.status = "delivered" -> "completed"
      [] e.status \in {"failed", "expired"} -> "failed"
      [] OTHER -> "working"

WorkOf(e) == [phase |-> Phase(e), attempts |-> e.attempt, holder |-> Holder(e),
              answeredBy |-> AnsweredBy(e), view |-> View(e)]

Contract == INSTANCE RunContract
                WITH Runs <- Messages, run <- [m \in Messages |-> WorkOf(env[m])]

(* An envelope is enqueued once, leased to ever later attempts, completed    *)
(* only by the attempt that holds the lease and whose reply is stored, and   *)
(* ended once, whatever is lost, late or restarted.                          *)
ImplementsContract == Contract!Spec
=============================================================================
