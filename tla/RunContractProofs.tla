------------------------- MODULE RunContractProofs --------------------------
(* What RunContract promises, hence every implementation of it keeps, and   *)
(* the stages that both implementations put a run in: each of their steps   *)
(* is a move from one stage to another.                                     *)
EXTENDS RunContract, TLAPS

(* The five stages of a run.                                                *)
RunRecord(p, n, k, a, v) ==
    [phase |-> p, attempts |-> n, holder |-> k, answeredBy |-> a, view |-> v]

Idle(n)        == RunRecord("idle", n, 0, 0, "working")
Waiting(n)     == RunRecord("live", n, 0, 0, "working")
Held(n)        == RunRecord("live", n, n, 0, "working")
GivenUp(n)     == RunRecord("ended", n, 0, 0, "failed")
Answered(n, v) == RunRecord("ended", n, 0, n, v)

(* Updating such a record, one field at a time.                             *)
LEMMA RunUpdate ==
    ASSUME NEW p, NEW n, NEW k, NEW a, NEW v, NEW x
    PROVE  /\ [RunRecord(p, n, k, a, v) EXCEPT !.phase = x] = RunRecord(x, n, k, a, v)
           /\ [RunRecord(p, n, k, a, v) EXCEPT !.attempts = x] = RunRecord(p, x, k, a, v)
           /\ [RunRecord(p, n, k, a, v) EXCEPT !.holder = x] = RunRecord(p, n, x, a, v)
           /\ [RunRecord(p, n, k, a, v) EXCEPT !.answeredBy = x] = RunRecord(p, n, k, x, v)
           /\ [RunRecord(p, n, k, a, v) EXCEPT !.view = x] = RunRecord(p, n, k, a, x)
           /\ RunRecord(p, n, k, a, v).phase = p
           /\ RunRecord(p, n, k, a, v).attempts = n
           /\ RunRecord(p, n, k, a, v).holder = k
BY DEF RunRecord

(* The moves between those stages are moves of the contract.  A record is   *)
(* followed through its updates, one field at a time.                       *)
LEMMA StageMoves ==
    ASSUME NEW n \in Nat
    PROVE  /\ Move(Idle(n), Waiting(n))
           /\ Move(Waiting(n), Held(n + 1)) /\ Move(Held(n), Held(n + 1))
           /\ Move(Held(n), Waiting(n))
           /\ Move(Waiting(n), GivenUp(n)) /\ Move(Held(n), GivenUp(n))
           /\ n > 0 => \A v \in {"completed", "failed"} : Move(Held(n), Answered(n, v))
<1> DEFINE Leased(k) == RunRecord("live", n, k, 0, "working")
<1>0. Leased(0) = Waiting(n) /\ Leased(n) = Held(n)
  BY DEF Waiting, Held
<1>1. Move(Idle(n), Waiting(n))
  BY RunUpdate DEF Move, Submit, Idle, Waiting
<1>3. \A k : Move(Leased(k), Held(n + 1))
  <2> TAKE k
  <2> DEFINE a == Leased(k)
             b == RunRecord("live", n + 1, k, 0, "working")
             c == Held(n + 1)
  <2>1. /\ a.phase = "live" /\ a.attempts = n
        /\ [a EXCEPT !.attempts = n + 1] = b /\ [b EXCEPT !.holder = n + 1] = c
    BY RunUpdate DEF Held
  <2> HIDE DEF a, b, c
  <2>2. Move(a, c)
    BY <2>1 DEF Move, Grant
  <2> QED
    BY <2>2 DEF a, c
<1>4. Move(Held(n), Waiting(n))
  BY RunUpdate DEF Move, Release, NoAttempt, Held, Waiting
<1>5. \A k : Move(Leased(k), GivenUp(n))
  <2> TAKE k
  <2> DEFINE a == Leased(k)
             b == RunRecord("ended", n, k, 0, "working")
             c == RunRecord("ended", n, k, 0, "failed")
             d == GivenUp(n)
  <2>1. /\ a.phase = "live"
        /\ [a EXCEPT !.phase = "ended"] = b /\ [b EXCEPT !.view = "failed"] = c
        /\ [c EXCEPT !.holder = 0] = d
    BY DEF RunRecord, GivenUp
  <2> HIDE DEF a, b, c, d
  <2>2. Move(a, d)
    BY <2>1 DEF Move, GiveUp, NoAttempt
  <2> QED
    BY <2>2 DEF a, d
<1>6. ASSUME NEW v \in {"completed", "failed"}, n > 0
      PROVE  Move(Held(n), Answered(n, v))
  <2> DEFINE a == Held(n)
             b == RunRecord("ended", n, n, 0, "working")
             c == RunRecord("ended", n, n, 0, v)
             d == RunRecord("ended", n, 0, 0, v)
             e == Answered(n, v)
  <2>1. /\ a.phase = "live" /\ a.holder = n /\ n # 0
        /\ [a EXCEPT !.phase = "ended"] = b /\ [b EXCEPT !.view = v] = c
        /\ [c EXCEPT !.holder = 0] = d /\ [d EXCEPT !.answeredBy = n] = e
    BY <1>6 DEF RunRecord, Held, Answered
  <2> HIDE DEF a, b, c, d, e
  <2>2. Move(a, e)
    BY <2>1 DEF Move, Answer, NoAttempt
  <2> QED
    BY <2>2 DEF a, e
<1> HIDE DEF Leased
<1> QED
  BY <1>0, <1>1, <1>3, <1>4, <1>5, <1>6

-----------------------------------------------------------------------------
(* The invariant of one run: a run that waits or is leased has no answer,   *)
(* and nobody holds a lease but the latest attempt of a live run.           *)
RunInv(r) ==
    /\ r \in RunType
    /\ r.holder \in {NoAttempt, r.attempts}
    /\ r.answeredBy \in {NoAttempt, r.attempts}
    /\ r.answeredBy # NoAttempt => r.phase = "ended"

ContractInv == run \in [Runs -> RunType] /\ \A r \in Runs : RunInv(run[r])

LEMMA MoveKeepsRunInv ==
    ASSUME NEW old, NEW new, RunInv(old), Move(old, new)
    PROVE  RunInv(new)
<1> USE DEF RunInv, RunType, Views, NoAttempt
<1>1. CASE Submit(old, new)
  BY <1>1 DEF Submit
<1>3. CASE Grant(old, new)
  <2> DEFINE next == old.attempts + 1
  <2>1. next \in Nat /\ next # 0
    OBVIOUS
  <2>2. new = [[old EXCEPT !.attempts = next] EXCEPT !.holder = next]
    BY <1>3 DEF Grant
  <2> HIDE DEF next
  <2>3. new.attempts = next /\ new.holder = next /\ new.answeredBy = old.answeredBy
    BY <2>2
  <2>4. old.answeredBy = 0
    BY <1>3 DEF Grant
  <2>5. new \in RunType
    BY <2>1, <2>2
  <2> QED
    BY <2>1, <2>3, <2>4, <2>5
<1>4. CASE Release(old, new)
  BY <1>4 DEF Release
<1>5. CASE Answer(old, new)
  BY <1>5 DEF Answer
<1>6. CASE GiveUp(old, new)
  BY <1>6 DEF GiveUp
<1> QED
  BY <1>1, <1>3, <1>4, <1>5, <1>6 DEF Move

LEMMA InitContractInv == Init => ContractInv
BY DEF Init, ContractInv, RunInv, RunType, Views, Fresh, NoAttempt

LEMMA NextContractInv == ContractInv /\ [Next]_run => ContractInv'
<1> SUFFICES ASSUME ContractInv, [Next]_run
             PROVE  ContractInv'
  OBVIOUS
<1>1. CASE Next
  <2>1. \A r \in Runs : RunInv(run'[r])
    BY <1>1, MoveKeepsRunInv DEF Next, ContractInv
  <2> QED
    BY <1>1, <2>1 DEF Next, ContractInv, RunInv
<1>2. CASE UNCHANGED run
  BY <1>2 DEF ContractInv
<1> QED
  BY <1>1, <1>2

(* A run is answered by the attempt that was its last, and only that one    *)
(* can hold its lease.                                                      *)
THEOREM LastAttemptAlwaysAnswers == Spec => [](TypeOK /\ LastAttemptAnswers)
<1>1. ContractInv => TypeOK /\ LastAttemptAnswers
  BY DEF ContractInv, RunInv, TypeOK, LastAttemptAnswers
<1> QED
  BY <1>1, InitContractInv, NextContractInv, PTL DEF Spec
=============================================================================
