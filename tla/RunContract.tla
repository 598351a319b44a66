---------------------------- MODULE RunContract ----------------------------
(***************************************************************************)
(* What a queue of work for a linked computer promises to whoever submits   *)
(* a run, and nothing of how it does so.  The run queue promises it to the  *)
(* reader of the hermes_runs row of a run, the relay to the sender of a     *)
(* message, whose envelope is the run.                                      *)
(*                                                                         *)
(* A run is leased to one attempt at a time, each later than the ones       *)
(* before.  It ends once: answered by the attempt that holds the lease, or  *)
(* given up.  What is shown of the run is its end, and only then final.     *)
(***************************************************************************)
EXTENDS Naturals

CONSTANT Runs

VARIABLE run

NoAttempt == 0

Views == {"working", "completed", "failed"}

RunType == [phase : {"idle", "live", "ended"}, attempts : Nat,
            holder : Nat, answeredBy : Nat, view : Views]

Fresh == [phase |-> "idle", attempts |-> 0, holder |-> NoAttempt,
          answeredBy |-> NoAttempt, view |-> "working"]

Init == run = [r \in Runs |-> Fresh]

-----------------------------------------------------------------------------
(* The moves of one run: its record before is old, and after it is new.     *)
Submit(old, new) ==
    /\ old.phase = "idle"
    /\ new = [old EXCEPT !.phase = "live"]

(* A lease goes to a new attempt; whoever held it before has lost it.       *)
Grant(old, new) ==
    /\ old.phase = "live"
    /\ new = [old EXCEPT !.attempts = @ + 1, !.holder = old.attempts + 1]

Release(old, new) ==
    /\ old.phase = "live"
    /\ new = [old EXCEPT !.holder = NoAttempt]

Answer(old, new) ==
    /\ old.phase = "live"
    /\ old.holder # NoAttempt
    /\ \E view \in {"completed", "failed"} :
          new = [old EXCEPT !.phase = "ended", !.view = view,
                            !.holder = NoAttempt, !.answeredBy = old.holder]

GiveUp(old, new) ==
    /\ old.phase = "live"
    /\ new = [old EXCEPT !.phase = "ended", !.view = "failed", !.holder = NoAttempt]

Move(old, new) ==
    \/ Submit(old, new) \/ Grant(old, new) \/ Release(old, new)
    \/ Answer(old, new) \/ GiveUp(old, new)

(* One transaction may move several runs, each by at most one move.         *)
Next ==
    /\ run' = [r \in Runs |-> run'[r]]
    /\ \A r \in Runs : run'[r] = run[r] \/ Move(run[r], run'[r])

Spec == Init /\ [][Next]_run

-----------------------------------------------------------------------------
TypeOK == run \in [Runs -> RunType]

(* Only the latest attempt can hold a lease, and a run is answered by the   *)
(* attempt that was its last.                                               *)
LastAttemptAnswers ==
    \A r \in Runs :
        /\ run[r].holder \in {NoAttempt, run[r].attempts}
        /\ run[r].answeredBy \in {NoAttempt, run[r].attempts}
        /\ run[r].answeredBy # NoAttempt => run[r].phase = "ended"
=============================================================================
