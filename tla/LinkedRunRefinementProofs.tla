--------------------- MODULE LinkedRunRefinementProofs ----------------------
(***************************************************************************)
(* The run queue implements RunContract, for every value of the constants.  *)
(* A step either leaves a run alone or makes one Transition of it; with the *)
(* documents in agreement before and after, that is one move of the run, or *)
(* none that its owner can tell.                                     *)
(***************************************************************************)
EXTENDS LinkedRunRefinement, LinkedRunQueueProofs

(* The run that its owner sees, in the five stages of a job.           *)
Stages == INSTANCE RunContractProofs
              WITH Runs <- Jobs, run <- [j \in Jobs |-> RunOf(jobs[j], hrun[j])]

Idle(n)        == Stages!Idle(n)
Waiting(n)     == Stages!Waiting(n)
Held(n)        == Stages!Held(n)
GivenUp(n)     == Stages!GivenUp(n)
Answered(n, v) == Stages!Answered(n, v)

LEMMA StageOfJob ==
    ASSUME NEW q, NEW m, NEW h, NEW w, Agree(q, m, h, w)
    PROVE  /\ q.status \in NoRun => RunOf(q, h) = Idle(q.attempt)
           /\ q.status = "queued" => RunOf(q, h) = Waiting(q.attempt)
           /\ q.status \in Active => RunOf(q, h) = Held(q.attempt)
           /\ q.status \in {"cancelled", "expired"} => RunOf(q, h) = GivenUp(q.attempt)
           /\ q.status \in {"completed", "failed"} =>
                RunOf(q, h) = Answered(q.attempt, q.status)
BY DEF Agree, RunOf, Phase, Holder, View, NoRun, Live, Active, Terminal, Unsuccessful,
   Idle, Waiting, Held, GivenUp, Answered, Stages!RunRecord,
   Stages!Idle, Stages!Waiting, Stages!Held, Stages!GivenUp, Stages!Answered

(* The moves between those stages are moves of the contract.                *)
LEMMA StageMoves ==
    ASSUME NEW n \in Nat
    PROVE  /\ Contract!Move(Idle(n), Waiting(n))
           /\ Contract!Move(Waiting(n), Held(n + 1)) /\ Contract!Move(Held(n), Held(n + 1))
           /\ Contract!Move(Held(n), Waiting(n))
           /\ Contract!Move(Waiting(n), GivenUp(n)) /\ Contract!Move(Held(n), GivenUp(n))
           /\ n > 0 => \A v \in {"completed", "failed"} : Contract!Move(Held(n), Answered(n, v))
<1>1. \A old, new : Stages!Move(old, new) => Contract!Move(old, new)
  BY DEF Stages!Move, Stages!Submit, Stages!Grant, Stages!Release, Stages!Answer,
         Stages!GiveUp, Stages!NoAttempt, Contract!Move, Contract!Submit,
         Contract!Grant, Contract!Release, Contract!Answer, Contract!GiveUp, Contract!NoAttempt
<1> QED
  BY <1>1, Stages!StageMoves DEF Idle, Waiting, Held, GivenUp, Answered

(* A transition of a job whose documents agree is a move of its run.        *)
LEMMA TransitionMoves ==
    ASSUME NEW p \in JobType, NEW m, NEW h, NEW w, Agree(p, m, h, w),
           NEW q, NEW m1, NEW h1, NEW w1, Agree(q, m1, h1, w1), Transition(p, q)
    PROVE  RunOf(q, h1) = RunOf(p, h) \/ Contract!Move(RunOf(p, h), RunOf(q, h1))
<1>1. p.attempt \in Nat
  BY DEF JobType
<1>2. CASE p.status = "absent" /\ q.status = "dispatching" /\ q.attempt = p.attempt
  BY <1>2, StageOfJob DEF NoRun
<1>3. CASE p.status = "dispatching" /\ q.status = "queued" /\ q.attempt = p.attempt
  BY <1>1, <1>3, StageOfJob, StageMoves DEF NoRun
<1>4. CASE p.status = "dispatching" /\ q.status = "refused" /\ q.attempt = p.attempt
  BY <1>4, StageOfJob DEF NoRun
<1>5. CASE /\ p.status \in Live /\ q.status \in {"queued", "cancelled", "expired"}
           /\ q.attempt = p.attempt
  BY <1>1, <1>5, StageOfJob, StageMoves DEF Live
<1>6. CASE p.status \in Active /\ q.status \in Active /\ q.attempt = p.attempt
  BY <1>6, StageOfJob
<1>7. CASE /\ p.status \in Active /\ q.status \in {"completed", "failed"}
           /\ q.attempt = p.attempt
  <2>1. p.attempt > 0
    BY <1>7 DEF Agree
  <2> QED
    BY <1>1, <1>7, <2>1, StageOfJob, StageMoves
<1>8. CASE p.status \in Live /\ q.status = "claimed" /\ q.attempt = p.attempt + 1
  <2>1. q.status \in Active
    BY <1>8 DEF Active
  <2> QED
    BY <1>1, <1>8, <2>1, StageOfJob, StageMoves DEF Live
<1> QED
  BY <1>2, <1>3, <1>4, <1>5, <1>6, <1>7, <1>8 DEF Transition

LEMMA InitRefines == Init => Contract!Init
BY DEF Init, NewJob, Contract!Init, Contract!Fresh, Contract!NoAttempt, RunOf, Phase, Holder,
   View, NoRun, Live, Active, Terminal, NoToken

LEMMA NextRefines ==
    DocumentsInv /\ DocumentsInv' /\ [Next]_vars
        => [Contract!Next]_[j \in Jobs |-> RunOf(jobs[j], hrun[j])]
<1> SUFFICES ASSUME DocumentsInv, DocumentsInv', [Next]_vars
             PROVE  Contract!Next
  OBVIOUS
<1>1. RunStep
  BY RunSteps
<1>2. ASSUME NEW j \in Jobs
      PROVE  \/ RunOf(jobs'[j], hrun'[j]) = RunOf(jobs[j], hrun[j])
             \/ Contract!Move(RunOf(jobs[j], hrun[j]), RunOf(jobs'[j], hrun'[j]))
  <2>1. CASE Same(j)
    BY <2>1 DEF Same
  <2>2. CASE Moved(j)
    <3>1. jobs[j] \in JobType /\ Agree(jobs[j], msg[j], hrun[j], note[j])
      BY DEF DocumentsInv, TypeOK
    <3> QED
      BY <2>2, <3>1, TransitionMoves DEF Moved
  <2>3. CASE Annotated(j)
    BY <2>3 DEF Annotated
  <2> QED
    BY <1>1, <2>1, <2>2, <2>3 DEF RunStep
<1> QED
  BY <1>2 DEF Contract!Next

(* The queue keeps the promises of RunContract: a run is submitted once,    *)
(* leased to ever later attempts, answered only by the attempt that holds   *)
(* the lease, ended once, and its hermes_runs row shows just that.          *)
THEOREM QueueImplementsContract == Spec => ImplementsContract
BY NextRefines, InitRefines, DocumentsCorrect, PTL DEF Spec, ImplementsContract, Contract!Spec
=============================================================================
