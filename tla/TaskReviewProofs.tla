-------------------------- MODULE TaskReviewProofs --------------------------
(* What TaskReview guarantees for any number of cards and replicas, whatever *)
(* fails and whatever the human does.                                        *)
EXTENDS TaskReview, FiniteSetTheorems, TLAPS

-----------------------------------------------------------------------------
(* Types.  A call that is past the review has something to write.            *)
Planned == \A r \in Replicas, c \in Cards : calls[r][c].pc \in {"check", "write"} => calls[r][c].plan # "none"
Types == TypeOK /\ Planned

LEMMA RowTypes ==
  ASSUME NEW d \in CardType
  PROVE  /\ [d EXCEPT !.review = "in-progress"] \in CardType
         /\ [d EXCEPT !.backoff = FALSE] \in CardType
         /\ \A agent \in {"done", "pending", "blocked"} :
               /\ [d EXCEPT !.col = "done", !.review = "approved", !.agent = agent] \in CardType
               /\ [d EXCEPT !.col = "review", !.review = "pending", !.agent = agent] \in CardType
         /\ Verified(d) \in {"done", "pending", "blocked"}
         /\ [d EXCEPT !.col = "todo", !.agent = "pending", !.verified = FALSE,
                      !.review = "changes-requested", !.backoff = FALSE] \in CardType
         /\ \A n \in Nat : Finished(n) \in CardType
  BY DEF CardType, Finished, Verified

LEMMA MovedRows ==
  ASSUME NEW d \in CardType, NEW agent
  PROVE  /\ [d EXCEPT !.col = "done", !.review = "approved", !.agent = agent].round = d.round
         /\ [d EXCEPT !.col = "done", !.review = "approved", !.agent = agent].review = "approved"
         /\ [d EXCEPT !.col = "done", !.review = "approved", !.agent = agent].agent = agent
         /\ [d EXCEPT !.col = "review", !.review = "pending", !.agent = agent].review = "pending"
         /\ [d EXCEPT !.col = "todo", !.agent = "pending", !.verified = FALSE,
                      !.review = "changes-requested", !.backoff = FALSE].review = "changes-requested"
  BY DEF CardType

LEMMA OutcomeType ==
  ASSUME NEW d \in CardType, NEW plan \in Plans \ {"none"}
  PROVE  Outcome(d, plan) \in CardType
<1>1. Retry(d) \in CardType
  BY DEF CardType, Retry
<1>2. /\ [d EXCEPT !.review = "pending", !.backoff = TRUE] \in CardType
      /\ [d EXCEPT !.col = "blocked", !.agent = "blocked", !.review = "changes-requested"] \in CardType
  BY DEF CardType
<1>3. [d EXCEPT !.col = "todo", !.agent = "pending", !.review = "changes-requested", !.backoff = FALSE] \in CardType
  BY DEF CardType
<1>4. [d EXCEPT !.col = "done", !.review = "approved", !.verified = FALSE, !.backoff = FALSE] \in CardType
  BY DEF CardType
<1> QED
  BY <1>1, <1>2, <1>3, <1>4 DEF Outcome, Plans, Verdicts

LEMMA ReadType ==
  ASSUME NEW pc \in {"claim", "start"}, NEW d \in CardType
  PROVE  /\ Read(pc, d) \in CallType
         /\ Read(pc, d).pc = pc /\ Read(pc, d).plan = "none" /\ Read(pc, d).round = d.round
  BY DEF CardType, CallType, Read, Plans

(* What HandOver makes of what was read.                                     *)
Handed(read) == IF read.verified THEN [read EXCEPT !.pc = "run"]
                ELSE [read EXCEPT !.pc = "write", !.plan = "unverified"]

LEMMA HandedType ==
  ASSUME NEW read \in CallType
  PROVE  /\ Handed(read) \in CallType /\ Handed(read).round = read.round
         /\ Handed(read).pc = "run" \/ (Handed(read).pc = "write" /\ Handed(read).plan = "unverified")
         /\ \A r, c : HandOver(r, c, read) => Step(r, c, Handed(read))
  BY DEF CallType, Handed, HandOver, Plans

(* The parts of the state an action writes together.                         *)
LEMMA WriteType ==
  ASSUME TypeOK, NEW c \in Cards, NEW d \in CardType, Write(c, d)
  PROVE  card' \in [Cards -> CardType] /\ news' \in [Replicas -> SUBSET Cards]
  BY DEF TypeOK, Write

LEMMA StepType ==
  ASSUME Types, NEW r \in Replicas, NEW c \in Cards, NEW call \in CallType, Step(r, c, call),
         call.pc \in {"check", "write"} => call.plan # "none"
  PROVE  calls' \in [Replicas -> [Cards -> CallType]] /\ load' \in [Replicas -> Nat] /\ Planned'
<1>1. \A q \in Replicas, x \in Cards : calls'[q][x] = IF q = r /\ x = c THEN call ELSE calls[q][x]
  BY DEF Types, TypeOK, Step
<1>2. calls' \in [Replicas -> [Cards -> CallType]]
  BY DEF Types, TypeOK, Step
<1> QED
  BY <1>1, <1>2 DEF Types, TypeOK, Step, Planned

LEMMA ReturnType ==
  ASSUME Types, NEW r \in Replicas, NEW c \in Cards, Return(r, c)
  PROVE  calls' \in [Replicas -> [Cards -> CallType]] /\ load' \in [Replicas -> Nat] /\ Planned'
<1>1. \A q \in Replicas, x \in Cards : calls'[q][x] = IF q = r /\ x = c THEN Idle ELSE calls[q][x]
  BY DEF Types, TypeOK, Return
<1>2. Idle \in CallType /\ Idle.pc = "idle"
  BY DEF Idle, CallType, Plans
<1>3. calls' \in [Replicas -> [Cards -> CallType]]
  BY <1>2 DEF Types, TypeOK, Return
<1>4. load' \in [Replicas -> Nat]
  <2>1. \A n \in Nat : (IF n = 0 THEN 0 ELSE n - 1) \in Nat
    OBVIOUS
  <2> QED
    BY <2>1 DEF Types, TypeOK, Return
<1> QED
  BY <1>1, <1>2, <1>3, <1>4 DEF Types, Planned

LEMMA LimitTypes ==
  ASSUME TypeOK
  PROVE  /\ \A kind : Fail(kind) => faults' \in 0..MaxFaults /\ moves' \in 0..MaxMoves /\ astray' \subseteq Cards
         /\ \A kind : Move(kind) => faults' \in 0..MaxFaults /\ moves' \in 0..MaxMoves
         /\ UNCHANGED limitVars => faults' \in 0..MaxFaults /\ moves' \in 0..MaxMoves /\ astray' \subseteq Cards
  BY ReviewAssumption DEF ReviewAssumption, TypeOK, Fail, Move, limitVars

LEMMA TypesStep ==
  ASSUME Types, [Next]_vars
  PROVE  Types'
<1> USE ReviewAssumption DEF ReviewAssumption
<1>0. /\ TypeOK
      /\ \A c \in Cards : card[c] \in CardType /\ card[c].round \in Nat
      /\ \A r \in Replicas, c \in Cards : calls[r][c] \in CallType /\ (calls[r][c].plan \in Plans)
  BY DEF Types, TypeOK, CardType, CallType
<1>1. ASSUME UNCHANGED <<calls, load>>
      PROVE  calls' \in [Replicas -> [Cards -> CallType]] /\ load' \in [Replicas -> Nat] /\ Planned'
  BY <1>1 DEF Types, TypeOK, Planned
<1>2. ASSUME NEW r \in Replicas, NEW c \in Cards, Hear(r, c) PROVE Types'
  <2>1. news' \in [Replicas -> SUBSET Cards]
    BY <1>0, <1>2 DEF Hear, TypeOK
  <2>2. calls' \in [Replicas -> [Cards -> CallType]] /\ load' \in [Replicas -> Nat] /\ Planned'
    <3>1. CASE Startable(r, c)
      <4> DEFINE call == Read("claim", card[c])
      <4>1. call \in CallType /\ call.pc = "claim"
        BY <1>0, ReadType
      <4>2. calls' = [calls EXCEPT ![r][c] = call] /\ load' = [load EXCEPT ![r] = @ + 1]
        BY <1>2, <3>1 DEF Hear
      <4> HIDE DEF call
      <4>3. calls' \in [Replicas -> [Cards -> CallType]]
        BY <1>0, <4>1, <4>2 DEF TypeOK
      <4>4. \A q \in Replicas, x \in Cards : calls'[q][x] = call \/ calls'[q][x] = calls[q][x]
        BY <1>0, <4>2 DEF TypeOK
      <4>5. load' \in [Replicas -> Nat]
        BY <1>0, <4>2 DEF TypeOK
      <4> QED
        BY <4>1, <4>3, <4>4, <4>5 DEF Types, Planned
    <3>2. CASE ~Startable(r, c)
      BY <1>1, <1>2, <3>2 DEF Hear
    <3> QED
      BY <3>1, <3>2
  <2> QED
    BY <1>0, <1>2, <2>1, <2>2, LimitTypes DEF Hear, Types, TypeOK
<1>3. ASSUME NEW r \in Replicas, NEW c \in Cards, ClaimReview(r, c) PROVE Types'
  <2>1. card' \in [Cards -> CardType] /\ news' \in [Replicas -> SUBSET Cards]
    BY <1>0, <1>3, RowTypes, WriteType DEF ClaimReview, Keep, TypeOK
  <2> DEFINE call == [calls[r][c] EXCEPT !.pc = "start"]
  <2>2. call \in CallType /\ call.pc = "start" /\ (Return(r, c) \/ Step(r, c, call))
    BY <1>0, <1>3 DEF CallType, ClaimReview
  <2> HIDE DEF call
  <2>3. calls' \in [Replicas -> [Cards -> CallType]] /\ load' \in [Replicas -> Nat] /\ Planned'
    BY <2>2, StepType, ReturnType
  <2> QED
    BY <1>0, <1>3, <2>1, <2>3, LimitTypes DEF ClaimReview, Types, TypeOK
<1>4. ASSUME NEW r \in Replicas, NEW c \in Cards, NoConfig(r, c) PROVE Types'
  <2> DEFINE call == [calls[r][c] EXCEPT !.pc = "write", !.plan = "config"]
  <2>1. call \in CallType /\ call.plan = "config"
    BY <1>0 DEF CallType, Plans
  <2>3. Step(r, c, call)
    BY <1>4 DEF NoConfig
  <2> HIDE DEF call
  <2>2. calls' \in [Replicas -> [Cards -> CallType]] /\ load' \in [Replicas -> Nat] /\ Planned'
    BY <2>1, <2>3, StepType
  <2> QED
    BY <1>0, <1>4, <2>2, LimitTypes DEF NoConfig, Types, TypeOK
<1>5. ASSUME NEW r \in Replicas, NEW c \in Cards, ReadLive(r, c) \/ ReadFails(r, c) PROVE Types'
  <2>1. \E read \in CallType : Return(r, c) \/ HandOver(r, c, read)
    BY <1>0, <1>5, ReadType DEF ReadLive, ReadFails
  <2>2. calls' \in [Replicas -> [Cards -> CallType]] /\ load' \in [Replicas -> Nat] /\ Planned'
    BY <2>1, HandedType, StepType, ReturnType
  <2>3. faults' \in 0..MaxFaults /\ moves' \in 0..MaxMoves /\ astray' \subseteq Cards
    <3>1. CASE ReadLive(r, c)
      BY <1>0, <3>1, LimitTypes DEF ReadLive
    <3>2. CASE ReadFails(r, c)
      BY <1>0, <3>2 DEF ReadFails, TypeOK
    <3> QED
      BY <1>5, <3>1, <3>2
  <2> QED
    BY <1>0, <1>5, <2>2, <2>3 DEF ReadLive, ReadFails, Types, TypeOK
<1>6. ASSUME NEW r \in Replicas, NEW c \in Cards, NEW plan \in Plans \ {"none"},
             Step(r, c, [calls[r][c] EXCEPT !.pc = "check", !.plan = plan])
      PROVE  calls' \in [Replicas -> [Cards -> CallType]] /\ load' \in [Replicas -> Nat] /\ Planned'
  <2> DEFINE call == [calls[r][c] EXCEPT !.pc = "check", !.plan = plan]
  <2>1. call \in CallType /\ call.plan = plan
    BY <1>0 DEF CallType
  <2>2. Step(r, c, call)
    BY <1>6
  <2> HIDE DEF call
  <2> QED
    BY <2>1, <2>2, StepType
<1>7. ASSUME NEW r \in Replicas, NEW c \in Cards, RunEnds(r, c) \/ RunFails(r, c) \/ Throws(r, c) PROVE Types'
  <2>1. PICK plan \in Plans \ {"none"} : Step(r, c, [calls[r][c] EXCEPT !.pc = "check", !.plan = plan])
    BY <1>7 DEF RunEnds, RunFails, Throws, Plans, Verdicts
  <2>2. calls' \in [Replicas -> [Cards -> CallType]] /\ load' \in [Replicas -> Nat] /\ Planned'
    BY <1>6, <2>1
  <2> QED
    BY <1>0, <1>7, <2>2, LimitTypes DEF RunEnds, RunFails, Throws, Types, TypeOK
<1>8. ASSUME NEW r \in Replicas, NEW c \in Cards, CheckAccepted(r, c) \/ CheckFails(r, c) PROVE Types'
  <2> DEFINE call == [calls[r][c] EXCEPT !.pc = "write"]
  <2>1. call \in CallType /\ call.plan = calls[r][c].plan /\ calls[r][c].plan # "none"
    BY <1>0, <1>8 DEF CallType, CheckAccepted, CheckFails, Types, Planned
  <2>2. Return(r, c) \/ Step(r, c, call)
    BY <1>8 DEF CheckAccepted, CheckFails
  <2> HIDE DEF call
  <2>3. calls' \in [Replicas -> [Cards -> CallType]] /\ load' \in [Replicas -> Nat] /\ Planned'
    BY <2>1, <2>2, StepType, ReturnType
  <2> QED
    BY <1>0, <1>8, <2>3, LimitTypes DEF CheckAccepted, CheckFails, Types, TypeOK
<1>9. ASSUME NEW r \in Replicas, NEW c \in Cards, WriteVerdict(r, c) PROVE Types'
  <2>1. calls[r][c].plan \in Plans \ {"none"} /\ calls[r][c].round \in Nat
    BY <1>0, <1>9 DEF WriteVerdict, Types, Planned, CallType
  <2>2. card' \in [Cards -> CardType] /\ news' \in [Replicas -> SUBSET Cards]
    BY <1>0, <1>9, <2>1, OutcomeType, WriteType DEF WriteVerdict
  <2>3. reviewed' \in [Cards -> SUBSET Nat]
    BY <1>0, <1>9, <2>1 DEF WriteVerdict, TypeOK
  <2>4. calls' \in [Replicas -> [Cards -> CallType]] /\ load' \in [Replicas -> Nat] /\ Planned'
    BY <1>9, ReturnType DEF WriteVerdict
  <2> QED
    BY <1>0, <1>9, <2>2, <2>3, <2>4, LimitTypes DEF WriteVerdict, Types, TypeOK
<1>16. ASSUME NEW r \in Replicas, NEW c \in Cards, WriteFails(r, c) PROVE Types'
  <2>1. calls' \in [Replicas -> [Cards -> CallType]] /\ load' \in [Replicas -> Nat] /\ Planned'
    BY <1>16, ReturnType DEF WriteFails
  <2> QED
    BY <1>0, <1>16, <2>1, LimitTypes DEF WriteFails, Types, TypeOK
<1>10. ASSUME NEW c \in Cards, BackoffEnds(c) PROVE Types'
  <2>1. card' \in [Cards -> CardType]
    BY <1>0, <1>10, RowTypes DEF BackoffEnds, TypeOK
  <2> QED
    BY <1>0, <1>1, <1>10, <2>1, LimitTypes DEF BackoffEnds, Types, TypeOK
<1>11. ASSUME NEW c \in Cards, Accept(c) PROVE Types'
  <2>1. card' \in [Cards -> CardType] /\ news' \in [Replicas -> SUBSET Cards]
    BY <1>0, <1>11, RowTypes, WriteType DEF Accept
  <2>2. reviewed' \in [Cards -> SUBSET Nat]
    BY <1>0, <1>11 DEF Accept, TypeOK
  <2> QED
    BY <1>0, <1>1, <1>11, <2>1, <2>2, LimitTypes DEF Accept, Types, TypeOK
<1>12. ASSUME NEW c \in Cards, Rework(c) \/ Reopen(c) PROVE Types'
  <2>1. PICK d \in CardType : Write(c, d)
    BY <1>0, <1>12, RowTypes DEF Rework, Reopen
  <2>2. card' \in [Cards -> CardType] /\ news' \in [Replicas -> SUBSET Cards]
    BY <1>0, <2>1, WriteType
  <2>3. astray' \subseteq Cards
    BY <1>0, <1>12 DEF Rework, Reopen, Moved, TypeOK
  <2> QED
    BY <1>0, <1>1, <1>12, <2>2, <2>3, LimitTypes DEF Rework, Reopen, Types, TypeOK
<1>13. ASSUME NEW c \in Cards, Redo(c) PROVE Types'
  <2>1. Finished(card[c].round + 1) \in CardType
    BY <1>0 DEF Finished, CardType
  <2>2. card' \in [Cards -> CardType] /\ news' \in [Replicas -> SUBSET Cards]
    BY <1>0, <1>13, <2>1, WriteType DEF Redo
  <2> QED
    BY <1>0, <1>1, <1>13, <2>2, LimitTypes DEF Redo, Types, TypeOK
<1>14. ASSUME NEW r \in Replicas, Crash(r) PROVE Types'
  <2>1. Idle \in CallType /\ Idle.pc = "idle"
    BY DEF Idle, CallType, Plans
  <2>2. calls' \in [Replicas -> [Cards -> CallType]] /\ load' \in [Replicas -> Nat]
    BY <1>0, <1>14, <2>1 DEF Crash, TypeOK
  <2>3. \A q \in Replicas, x \in Cards : calls'[q][x] = Idle \/ calls'[q][x] = calls[q][x]
    BY <1>0, <1>14 DEF Crash, TypeOK
  <2>4. news' \in [Replicas -> SUBSET Cards]
    BY <1>0, <1>14 DEF Crash, TypeOK
  <2> QED
    BY <1>0, <1>14, <2>1, <2>2, <2>3, <2>4, LimitTypes DEF Crash, Types, TypeOK, Planned
<1>15. CASE UNCHANGED vars
  BY <1>15 DEF vars, Types, TypeOK, Planned
<1> QED
  BY <1>2, <1>3, <1>4, <1>5, <1>7, <1>8, <1>9, <1>10, <1>11, <1>12, <1>13, <1>14, <1>15, <1>16 DEF Next, ReviewStep

LEMMA InitTypes == Init => Types
  BY ReviewAssumption DEF ReviewAssumption, Init, Types, TypeOK, Planned, Finished, CardType, CallType, Idle, Plans

(* Every variable keeps its type; the counters stay within their bounds.     *)
THEOREM TypeCorrect == Spec => []TypeOK
<1>1. Types /\ [Next]_vars => Types'
  BY TypesStep
<1>2. Types => TypeOK
  BY DEF Types
<1> QED
  BY <1>1, <1>2, InitTypes, PTL DEF Spec

-----------------------------------------------------------------------------
(* Reviews.  A card that is being reviewed is not claimable, and stays so    *)
(* until its reviewer or a human lets go of it; what the reviewer approves   *)
(* is the round it was given.                                                *)
On(r, c) == calls[r][c].pc \notin {"idle", "claim"}
HasVerdict(call) == call.pc = "run" \/ (call.pc \in {"check", "write"} /\ call.plan \in Verdicts)
Orderly(c) ==
    /\ \A r \in Replicas : On(r, c) => card[c].review \in {"in-progress", "approved"} /\ card[c].agent = "done"
    /\ \A q, r \in Replicas : On(q, c) /\ On(r, c) => q = r
    /\ \A r \in Replicas : HasVerdict(calls[r][c]) => calls[r][c].round = card[c].round
    /\ card[c].review = "approved" => card[c].round \in reviewed[c]
AllOrderly == \A c \in Cards : c \notin astray => Orderly(c)

LEMMA AstrayGrows ==
  ASSUME [Next]_vars
  PROVE  astray \subseteq astray'
<1> USE DEF limitVars, Fail, Move
<1>1. ASSUME NEW r \in Replicas, NEW c \in Cards, Hear(r, c) \/ ReviewStep(r, c) PROVE UNCHANGED astray
  BY <1>1 DEF Hear, ReviewStep, ClaimReview, ReadLive, RunEnds, CheckAccepted, WriteVerdict
<1>2. ASSUME NEW r \in Replicas, NEW c \in Cards,
             NoConfig(r, c) \/ RunFails(r, c) \/ Throws(r, c) \/ ReadFails(r, c)
             \/ CheckFails(r, c) \/ WriteFails(r, c)
      PROVE  astray \subseteq astray'
  BY <1>2 DEF NoConfig, RunFails, Throws, ReadFails, CheckFails, WriteFails
<1>3. ASSUME NEW c \in Cards, BackoffEnds(c) \/ Accept(c) \/ Reopen(c) \/ Rework(c) \/ Redo(c)
      PROVE  astray \subseteq astray'
  BY <1>3 DEF BackoffEnds, Accept, Reopen, Rework, Redo, Moved
<1>4. ASSUME NEW r \in Replicas, Crash(r) PROVE UNCHANGED astray
  BY <1>4 DEF Crash
<1>5. CASE UNCHANGED vars
  BY <1>5 DEF vars
<1> QED
  BY <1>1, <1>2, <1>3, <1>4, <1>5 DEF Next

(* A step of a call changes that call alone.                                 *)
LEMMA OneCall ==
  ASSUME TypeOK, NEW r \in Replicas, NEW c \in Cards, NEW call,
         Step(r, c, call) \/ (Return(r, c) /\ call = Idle)
  PROVE  \A q \in Replicas, x \in Cards : calls'[q][x] = IF q = r /\ x = c THEN call ELSE calls[q][x]
  BY DEF TypeOK, Step, Return

LEMMA OrderlyStep ==
  ASSUME Types, AllOrderly, [Next]_vars
  PROVE  AllOrderly'
<1> USE ReviewAssumption DEF ReviewAssumption
<1>0. /\ TypeOK /\ astray \subseteq astray'
      /\ \A c \in Cards : card[c] \in CardType
      /\ \A r \in Replicas, c \in Cards : calls[r][c] \in CallType
      /\ \A c \in Cards : c \notin astray => Orderly(c)
  BY AstrayGrows DEF Types, TypeOK, AllOrderly
(* A step that only lets calls of a card go on, or end.                      *)
<1>1. ASSUME NEW c \in Cards, c \notin astray, UNCHANGED <<card, reviewed>>,
             \A q \in Replicas : \/ calls'[q][c] = calls[q][c]
                                 \/ calls'[q][c].pc \in {"idle", "claim"}
                                 \/ On(q, c) /\ (HasVerdict(calls'[q][c]) => calls'[q][c].round = card[c].round)
      PROVE  Orderly(c)'
  <2>1. \A q \in Replicas : On(q, c)' => On(q, c)
    BY <1>1 DEF On
  <2>2. \A q \in Replicas : HasVerdict(calls'[q][c]) => calls'[q][c].round = card[c].round
    BY <1>0, <1>1 DEF Orderly, HasVerdict
  <2> QED
    BY <1>0, <1>1, <2>1, <2>2 DEF Orderly
(* A step that leaves a card alone.                                          *)
<1>2. ASSUME NEW c \in Cards, \A x \in Cards : x # c =>
                /\ card'[x] = card[x] /\ reviewed'[x] = reviewed[x]
                /\ \A q \in Replicas : calls'[q][x] = calls[q][x],
             c \notin astray' => Orderly(c)'
      PROVE  AllOrderly'
  <2>1. ASSUME NEW x \in Cards, x # c, x \notin astray' PROVE Orderly(x)'
    <3>1. Orderly(x)
      BY <1>0, <2>1
    <3> QED
      BY <1>2, <2>1, <3>1 DEF Orderly, On
  <2> QED
    BY <1>2, <2>1 DEF AllOrderly
<1>3. ASSUME NEW r \in Replicas, NEW c \in Cards, NEW call, UNCHANGED <<card, reviewed>>,
             \A q \in Replicas, x \in Cards : calls'[q][x] = IF q = r /\ x = c THEN call ELSE calls[q][x],
             c \notin astray =>
                \/ call.pc \in {"idle", "claim"}
                \/ On(r, c) /\ (HasVerdict(call) => call.round = card[c].round)
      PROVE  AllOrderly'
  BY <1>0, <1>1, <1>2, <1>3
<1>4. Idle.pc = "idle"
  BY DEF Idle
<1>5. ASSUME NEW r \in Replicas, NEW c \in Cards, Return(r, c), UNCHANGED <<card, reviewed>> PROVE AllOrderly'
  <2>1. \A q \in Replicas, x \in Cards : calls'[q][x] = IF q = r /\ x = c THEN Idle ELSE calls[q][x]
    BY <1>0, <1>5 DEF Return, TypeOK
  <2> QED
    BY <1>3, <1>4, <1>5, <2>1
<1>6. ASSUME NEW r \in Replicas, NEW c \in Cards, Hear(r, c) PROVE AllOrderly'
  <2>1. CASE Startable(r, c)
    <3> DEFINE call == Read("claim", card[c])
    <3>1. call.pc = "claim"
      BY DEF Read
    <3>2. calls' = [calls EXCEPT ![r][c] = call] /\ UNCHANGED <<card, reviewed>>
      BY <1>6, <2>1 DEF Hear
    <3> HIDE DEF call
    <3>3. \A q \in Replicas, x \in Cards : calls'[q][x] = IF q = r /\ x = c THEN call ELSE calls[q][x]
      BY <1>0, <3>2 DEF TypeOK
    <3> QED
      BY <1>3, <3>1, <3>2, <3>3
  <2>2. CASE ~Startable(r, c)
    BY <1>0, <1>1, <1>6, <2>2 DEF Hear, AllOrderly
  <2> QED
    BY <2>1, <2>2
<1>7. ASSUME NEW r \in Replicas, NEW c \in Cards, ClaimReview(r, c) PROVE AllOrderly'
  <2>1. CASE Claimable(card[c])
    <3> DEFINE call == [calls[r][c] EXCEPT !.pc = "start"]
    <3>1. call.pc = "start"
      BY <1>0 DEF CallType
    <3>2. Step(r, c, call) /\ card' = [card EXCEPT ![c] = [card[c] EXCEPT !.review = "in-progress"]]
          /\ UNCHANGED reviewed
      BY <1>7, <2>1 DEF ClaimReview, Write
    <3> HIDE DEF call
    <3>3. \A q \in Replicas, x \in Cards : calls'[q][x] = IF q = r /\ x = c THEN call ELSE calls[q][x]
      BY <1>0, <3>2, OneCall
    <3>4. card'[c].review = "in-progress" /\ card'[c].agent = "done" /\ \A x \in Cards : x # c => card'[x] = card[x]
      BY <1>0, <2>1, <3>2 DEF TypeOK, CardType, Claimable
    <3>5. ASSUME c \notin astray PROVE Orderly(c)'
      <4>1. \A q \in Replicas : ~On(q, c)
        BY <1>0, <2>1, <3>5 DEF Orderly, Claimable, Matches
      <4>2. \A q \in Replicas : On(q, c)' => q = r
        BY <3>3, <4>1 DEF On
      <4>3. \A q \in Replicas : ~HasVerdict(calls'[q][c])
        BY <3>1, <3>3, <4>1 DEF On, HasVerdict
      <4> QED
        BY <3>4, <4>2, <4>3 DEF Orderly
    <3> QED
      BY <1>0, <1>2, <3>2, <3>3, <3>4, <3>5
  <2>2. CASE ~Claimable(card[c])
    BY <1>5, <1>7, <2>2 DEF ClaimReview, Keep
  <2> QED
    BY <2>1, <2>2
<1>8. ASSUME NEW r \in Replicas, NEW c \in Cards, NoConfig(r, c) PROVE AllOrderly'
  <2> DEFINE call == [calls[r][c] EXCEPT !.pc = "write", !.plan = "config"]
  <2>1. ~HasVerdict(call) /\ On(r, c)
    BY <1>0, <1>8 DEF CallType, HasVerdict, Verdicts, NoConfig, On
  <2>2. Step(r, c, call) /\ UNCHANGED <<card, reviewed>>
    BY <1>8 DEF NoConfig
  <2> HIDE DEF call
  <2> QED
    BY <1>0, <1>3, <2>1, <2>2, OneCall
<1>20. ASSUME NEW r \in Replicas, NEW c \in Cards, NEW read \in CallType, HandOver(r, c, read),
              On(r, c), c \notin astray' => read.round = card[c].round, UNCHANGED <<card, reviewed>>
       PROVE  AllOrderly'
  <2>1. Handed(read).round = read.round /\ Step(r, c, Handed(read))
    BY <1>20, HandedType
  <2>2. \A q \in Replicas, x \in Cards : calls'[q][x] = IF q = r /\ x = c THEN Handed(read) ELSE calls[q][x]
    BY <1>0, <2>1, OneCall
  <2>3. c \notin astray' => Orderly(c)'
    BY <1>0, <1>1, <1>20, <2>1, <2>2
  <2> QED
    BY <1>2, <1>20, <2>2, <2>3
<1>9. ASSUME NEW r \in Replicas, NEW c \in Cards, ReadLive(r, c) PROVE AllOrderly'
  <2>1. CASE Accepted(card[c])
    BY <1>5, <1>9, <2>1 DEF ReadLive
  <2>2. CASE ~Accepted(card[c])
    <3> DEFINE read == Read("start", card[c])
    <3>1. read \in CallType /\ read.round = card[c].round
      BY <1>0, ReadType
    <3>2. HandOver(r, c, read) /\ On(r, c) /\ UNCHANGED <<card, reviewed>>
      BY <1>9, <2>2 DEF ReadLive, On
    <3> HIDE DEF read
    <3> QED
      BY <1>20, <3>1, <3>2
  <2> QED
    BY <2>1, <2>2
<1>21. ASSUME NEW r \in Replicas, NEW c \in Cards, ReadFails(r, c) PROVE AllOrderly'
  <2>1. HandOver(r, c, calls[r][c]) /\ On(r, c) /\ UNCHANGED <<card, reviewed>>
    BY <1>21 DEF ReadFails, On
  <2>2. c \notin astray' => calls[r][c].round = card[c].round
    BY <1>21 DEF ReadFails
  <2> QED
    BY <1>0, <1>20, <2>1, <2>2
<1>22. ASSUME NEW r \in Replicas, NEW c \in Cards, WriteFails(r, c) PROVE AllOrderly'
  BY <1>5, <1>22 DEF WriteFails
<1>10. ASSUME NEW r \in Replicas, NEW c \in Cards, RunEnds(r, c) \/ RunFails(r, c) \/ Throws(r, c)
       PROVE  AllOrderly'
  <2>1. PICK plan : /\ Step(r, c, [calls[r][c] EXCEPT !.pc = "check", !.plan = plan])
                    /\ calls[r][c].pc = "run" \/ plan \notin Verdicts
    <3>1. CASE RunEnds(r, c)
      BY <3>1 DEF RunEnds
    <3>2. CASE RunFails(r, c)
      BY <3>2 DEF RunFails
    <3>3. CASE Throws(r, c)
      <4>1. Step(r, c, [calls[r][c] EXCEPT !.pc = "check", !.plan = "thrown"]) /\ "thrown" \notin Verdicts
        BY <3>3 DEF Throws, Verdicts
      <4> QED
        BY <4>1
    <3> QED
      BY <1>10, <3>1, <3>2, <3>3
  <2> DEFINE call == [calls[r][c] EXCEPT !.pc = "check", !.plan = plan]
  <2>2. call.pc = "check" /\ call.plan = plan /\ call.round = calls[r][c].round
    BY <1>0 DEF CallType
  <2>3. On(r, c) /\ UNCHANGED <<card, reviewed>>
    BY <1>10 DEF RunEnds, RunFails, Throws, On
  <2>4. c \notin astray => (HasVerdict(call) => call.round = card[c].round)
    BY <1>0, <2>1, <2>2 DEF Orderly, HasVerdict
  <2>5. Step(r, c, call)
    BY <2>1
  <2> HIDE DEF call
  <2> QED
    BY <1>0, <1>3, <2>3, <2>4, <2>5, OneCall
<1>11. ASSUME NEW r \in Replicas, NEW c \in Cards, CheckAccepted(r, c) \/ CheckFails(r, c) PROVE AllOrderly'
  <2> DEFINE call == [calls[r][c] EXCEPT !.pc = "write"]
  <2>1. call.pc = "write" /\ call.plan = calls[r][c].plan /\ call.round = calls[r][c].round
    BY <1>0 DEF CallType
  <2>2. calls[r][c].pc = "check" /\ UNCHANGED <<card, reviewed>>
    BY <1>11 DEF CheckAccepted, CheckFails
  <2>3. On(r, c) /\ (c \notin astray => (HasVerdict(call) => call.round = card[c].round))
    BY <1>0, <2>1, <2>2 DEF Orderly, HasVerdict, On
  <2>4. Return(r, c) \/ Step(r, c, call)
    BY <1>11 DEF CheckAccepted, CheckFails
  <2> HIDE DEF call
  <2>5. CASE Return(r, c)
    BY <1>5, <2>2, <2>5
  <2>6. CASE Step(r, c, call)
    BY <1>0, <1>3, <2>2, <2>3, <2>6, OneCall
  <2> QED
    BY <2>4, <2>5, <2>6
<1>12. ASSUME NEW r \in Replicas, NEW c \in Cards, WriteVerdict(r, c) PROVE AllOrderly'
  <2> DEFINE plan == calls[r][c].plan
  <2>1. /\ calls[r][c].pc = "write"
        /\ card' = [card EXCEPT ![c] = Outcome(card[c], plan)]
        /\ reviewed' = [reviewed EXCEPT ![c] = IF plan = "approved" THEN reviewed[c] \cup {calls[r][c].round}
                                               ELSE reviewed[c]]
        /\ Return(r, c)
    BY <1>12 DEF WriteVerdict, Write
  <2>2. \A q \in Replicas, x \in Cards : calls'[q][x] = IF q = r /\ x = c THEN Idle ELSE calls[q][x]
    BY <1>0, <2>1, OneCall
  <2>3. plan \in Plans \ {"none"}
    BY <1>0, <2>1 DEF Types, Planned, CallType
  <2> HIDE DEF plan
  <2>4. Outcome(card[c], plan).round = card[c].round /\ (Outcome(card[c], plan).review = "approved" => plan = "approved")
    BY <1>0, <2>3 DEF Outcome, Retry, Plans, Verdicts, CardType
  <2>5. card'[c] = Outcome(card[c], plan) /\ \A x \in Cards : x # c => card'[x] = card[x] /\ reviewed'[x] = reviewed[x]
    BY <1>0, <2>1 DEF TypeOK
  <2>6. ASSUME c \notin astray PROVE Orderly(c)'
    <3>1. Orderly(c) /\ On(r, c)
      BY <1>0, <2>1, <2>6 DEF On
    <3>2. \A q \in Replicas : ~On(q, c)'
      BY <1>4, <2>2, <3>1 DEF Orderly, On
    <3>3. plan = "approved" => calls[r][c].round = card[c].round /\ calls[r][c].round \in reviewed'[c]
      BY <1>0, <2>1, <3>1 DEF plan, Orderly, HasVerdict, Verdicts, TypeOK
    <3>4. card'[c].review = "approved" => card'[c].round \in reviewed'[c]
      BY <2>4, <2>5, <3>3
    <3>5. \A q \in Replicas : ~HasVerdict(calls'[q][c])
      BY <3>2 DEF On, HasVerdict
    <3> QED
      BY <3>2, <3>4, <3>5 DEF Orderly
  <2> QED
    BY <1>0, <1>2, <2>2, <2>5, <2>6
<1>13. ASSUME NEW c \in Cards, NEW d \in CardType, UNCHANGED calls, card' = [card EXCEPT ![c] = d],
              card[c].agent = "done" => d.agent = "done", d.round = card[c].round, d.review = card[c].review \/ d.review = "approved",
              \A x \in Cards : x # c => reviewed'[x] = reviewed[x],
              d.review = "approved" => (card[c].review = "approved" /\ UNCHANGED reviewed) \/ d.round \in reviewed'[c]
       PROVE  AllOrderly'
  <2>1. card'[c] = d /\ \A x \in Cards : x # c => card'[x] = card[x]
    BY <1>0, <1>13 DEF TypeOK
  <2>2. ASSUME c \notin astray PROVE Orderly(c)'
    BY <1>0, <1>13, <2>1, <2>2 DEF Orderly, On
  <2> QED
    BY <1>0, <1>2, <1>13, <2>1, <2>2
<1>14. ASSUME NEW c \in Cards, BackoffEnds(c) PROVE AllOrderly'
  <2> DEFINE d == [card[c] EXCEPT !.backoff = FALSE]
  <2>1. d \in CardType /\ d.agent = card[c].agent /\ d.round = card[c].round /\ d.review = card[c].review
    BY <1>0 DEF CardType
  <2>2. card' = [card EXCEPT ![c] = d] /\ UNCHANGED <<calls, reviewed>>
    BY <1>14 DEF BackoffEnds
  <2> HIDE DEF d
  <2> QED
    BY <1>13, <2>1, <2>2
<1>15. ASSUME NEW c \in Cards, Accept(c) PROVE AllOrderly'
  <2> DEFINE d == [card[c] EXCEPT !.col = "done", !.review = "approved", !.agent = Verified(card[c])]
  <2>1. d \in CardType /\ d.round = card[c].round /\ d.review = "approved"
        /\ (card[c].agent = "done" => d.agent = "done")
    <3>1. card[c] \in CardType
      BY <1>0
    <3>2. d \in CardType
      BY <3>1, RowTypes
    <3>3. d.round = card[c].round /\ d.review = "approved" /\ d.agent = Verified(card[c])
      BY <3>1, MovedRows
    <3>4. card[c].agent = "done" => Verified(card[c]) = "done"
      BY DEF Verified
    <3> HIDE DEF d
    <3> QED
      BY <3>2, <3>3, <3>4
  <2>2. card' = [card EXCEPT ![c] = d] /\ UNCHANGED calls
    BY <1>15 DEF Accept, Write
  <2>3. card[c].round \in reviewed'[c] /\ \A x \in Cards : x # c => reviewed'[x] = reviewed[x]
    BY <1>0, <1>15 DEF Accept, TypeOK
  <2> HIDE DEF d
  <2> QED
    BY <1>13, <2>1, <2>2, <2>3
<1>16. ASSUME NEW c \in Cards, Rework(c) \/ Reopen(c) PROVE AllOrderly'
  <2>1. PICK d : card' = [card EXCEPT ![c] = d] /\ d.review # "approved"
    <3>1. CASE Rework(c)
      BY <1>0, <3>1, MovedRows DEF Rework, Write
    <3>2. CASE Reopen(c)
      <4>1. PICK agent \in {Verified(card[c]), "done"} :
               card' = [card EXCEPT ![c] = [card[c] EXCEPT !.col = "review", !.review = "pending", !.agent = agent]]
        BY <3>2 DEF Reopen, Write
      <4> DEFINE d == [card[c] EXCEPT !.col = "review", !.review = "pending", !.agent = agent]
      <4>2. d.review = "pending"
        BY <1>0, MovedRows
      <4> HIDE DEF d
      <4> QED
        BY <4>1, <4>2 DEF d
    <3> QED
      BY <1>16, <3>1, <3>2
  <2>2. card'[c] = d /\ \A x \in Cards : x # c => card'[x] = card[x]
    BY <1>0, <2>1 DEF TypeOK
  <2>3. UNCHANGED <<calls, reviewed>> /\ Moved(c)
    BY <1>16 DEF Rework, Reopen
  <2>4. ASSUME c \notin astray' PROVE Orderly(c)'
    <3>1. \A r \in Replicas : ~On(r, c)
      BY <2>3, <2>4 DEF Moved, Reviewing, On
    <3>2. \A r \in Replicas : ~HasVerdict(calls'[r][c])
      BY <2>3, <3>1 DEF On, HasVerdict
    <3> QED
      BY <2>1, <2>2, <2>3, <3>1, <3>2 DEF Orderly, On
  <2> QED
    BY <1>2, <2>2, <2>3, <2>4
<1>17. ASSUME NEW c \in Cards, Redo(c) PROVE AllOrderly'
  <2> DEFINE d == Finished(card[c].round + 1)
  <2>1. card' = [card EXCEPT ![c] = d] /\ UNCHANGED <<calls, reviewed>> /\ card[c].agent = "pending"
    BY <1>17 DEF Redo, Write
  <2>2. d.review = "pending"
    BY DEF Finished
  <2> HIDE DEF d
  <2>3. card'[c] = d /\ \A x \in Cards : x # c => card'[x] = card[x]
    BY <1>0, <2>1 DEF TypeOK
  <2>4. ASSUME c \notin astray PROVE Orderly(c)'
    <3>1. \A q \in Replicas : ~On(q, c)
      BY <1>0, <2>1, <2>4 DEF Orderly
    <3>2. \A q \in Replicas : ~HasVerdict(calls'[q][c])
      BY <2>1, <3>1 DEF On, HasVerdict
    <3> QED
      BY <2>1, <2>2, <2>3, <3>1, <3>2 DEF Orderly, On
  <2> QED
    BY <1>0, <1>2, <2>1, <2>3, <2>4
<1>18. ASSUME NEW r \in Replicas, Crash(r) PROVE AllOrderly'
  <2>1. \A q \in Replicas, x \in Cards : calls'[q][x] = calls[q][x] \/ calls'[q][x].pc = "idle"
    BY <1>0, <1>4, <1>18 DEF Crash, TypeOK
  <2>2. UNCHANGED <<card, reviewed>>
    BY <1>18 DEF Crash
  <2> QED
    BY <1>0, <1>1, <2>1, <2>2 DEF AllOrderly
<1>19. CASE UNCHANGED vars
  BY <1>0, <1>1, <1>19 DEF vars, AllOrderly
<1> QED
  BY <1>6, <1>7, <1>8, <1>9, <1>10, <1>11, <1>12, <1>14, <1>15, <1>16, <1>17, <1>18, <1>19,
     <1>21, <1>22 DEF Next, ReviewStep

LEMMA OrderlyAlways == Spec => [](Types /\ AllOrderly)
<1>1. Init => AllOrderly
  BY DEF Init, AllOrderly, Orderly, On, HasVerdict, Idle, Finished
<1>2. Types /\ AllOrderly /\ [Next]_vars => (Types /\ AllOrderly)'
  <2> SUFFICES ASSUME Types, AllOrderly, [Next]_vars PROVE Types' /\ AllOrderly'
    OBVIOUS
  <2> QED
    BY TypesStep, OrderlyStep
<1> QED
  BY <1>1, <1>2, InitTypes, PTL DEF Spec

(* One review of a card at a time on all replicas together, unless a human   *)
(* moved the card while it was reviewed, or a review went on from what the   *)
(* listener had seen of a round that was over.                               *)
THEOREM OneReviewerAtATime == Spec => []OneReviewer
<1>1. Types /\ AllOrderly => OneReviewer
  BY DEF AllOrderly, Orderly, On, OneReviewer, Reviewing
<1> QED
  BY <1>1, OrderlyAlways, PTL

(* What is approved was accepted in that very round, under the same          *)
(* condition.                                                                *)
THEOREM ApprovedInItsRound == Spec => []ApprovedAsIs
<1>1. Types /\ AllOrderly => ApprovedAsIs
  BY DEF AllOrderly, Orderly, ApprovedAsIs
<1> QED
  BY <1>1, OrderlyAlways, PTL

-----------------------------------------------------------------------------
(* The counter of a replica counts its calls.                                *)
Calls(r) == {c \in Cards : calls[r][c].pc # "idle"}

LEMMA CallsFinite ==
  ASSUME NEW r
  PROVE  IsFiniteSet(Calls(r)) /\ Cardinality(Calls(r)) \in Nat
  BY ReviewAssumption, FS_Subset, FS_CardinalityType DEF ReviewAssumption, Calls

LEMMA CountedStep ==
  ASSUME Types, ReviewsCounted, [Next]_vars
  PROVE  ReviewsCounted'
<1>0. TypeOK /\ \A r \in Replicas : load[r] = Cardinality(Calls(r))
  BY DEF Types, ReviewsCounted, Calls
<1>1. ASSUME \A r \in Replicas : load'[r] = Cardinality(Calls(r)') PROVE ReviewsCounted'
  BY <1>1 DEF ReviewsCounted, Calls
<1>2. ASSUME UNCHANGED load, \A r \in Replicas, c \in Cards : calls'[r][c].pc = "idle" <=> calls[r][c].pc = "idle"
      PROVE  ReviewsCounted'
  <2>1. \A r \in Replicas : Calls(r)' = Calls(r)
    BY <1>2 DEF Calls
  <2> QED
    BY <1>0, <1>1, <1>2, <2>1
<1>3. ASSUME NEW r \in Replicas, NEW c \in Cards, NEW call, Step(r, c, call), call.pc # "idle", calls[r][c].pc # "idle"
      PROVE  ReviewsCounted'
  BY <1>0, <1>2, <1>3 DEF Step, TypeOK
<1>4. ASSUME NEW r \in Replicas, NEW c \in Cards, Return(r, c), calls[r][c].pc # "idle" PROVE ReviewsCounted'
  <2>1. \A q \in Replicas, x \in Cards : calls'[q][x] = IF q = r /\ x = c THEN Idle ELSE calls[q][x]
    BY <1>0, <1>4 DEF Return, TypeOK
  <2>2. c \in Calls(r) /\ Calls(r)' = Calls(r) \ {c} /\ \A q \in Replicas : q # r => Calls(q)' = Calls(q)
    BY <1>4, <2>1 DEF Calls, Idle
  <2>3. Cardinality(Calls(r) \ {c}) = Cardinality(Calls(r)) - 1 /\ Cardinality(Calls(r)) # 0
    BY <2>2, CallsFinite, FS_RemoveElement, FS_EmptySet
  <2>4. load'[r] = (IF load[r] = 0 THEN 0 ELSE load[r] - 1) /\ \A q \in Replicas : q # r => load'[q] = load[q]
    BY <1>0, <1>4 DEF Return, TypeOK
  <2> QED
    BY <1>0, <1>1, <2>2, <2>3, <2>4
<1>5. ASSUME NEW r \in Replicas, NEW c \in Cards, Hear(r, c) PROVE ReviewsCounted'
  <2>1. CASE ~Startable(r, c)
    BY <1>2, <1>5, <2>1 DEF Hear
  <2>2. CASE Startable(r, c)
    <3> DEFINE call == Read("claim", card[c])
    <3>1. call.pc = "claim" /\ calls[r][c].pc = "idle"
      BY <2>2 DEF Read, Startable
    <3>2. calls' = [calls EXCEPT ![r][c] = call] /\ load' = [load EXCEPT ![r] = @ + 1]
      BY <1>5, <2>2 DEF Hear
    <3> HIDE DEF call
    <3>3. \A q \in Replicas, x \in Cards : calls'[q][x] = IF q = r /\ x = c THEN call ELSE calls[q][x]
      BY <1>0, <3>2 DEF TypeOK
    <3>4. c \notin Calls(r) /\ Calls(r)' = Calls(r) \cup {c} /\ \A q \in Replicas : q # r => Calls(q)' = Calls(q)
      BY <3>1, <3>3 DEF Calls
    <3>5. Cardinality(Calls(r) \cup {c}) = Cardinality(Calls(r)) + 1
      BY <3>4, CallsFinite, FS_AddElement
    <3>6. load'[r] = load[r] + 1 /\ \A q \in Replicas : q # r => load'[q] = load[q]
      BY <1>0, <3>2 DEF TypeOK
    <3> QED
      BY <1>0, <1>1, <3>4, <3>5, <3>6
  <2> QED
    BY <2>1, <2>2
<1>6. \A r \in Replicas, c \in Cards : calls[r][c] \in CallType
  BY DEF Types, TypeOK
<1>7. ASSUME NEW r \in Replicas, NEW c \in Cards, ClaimReview(r, c) PROVE ReviewsCounted'
  <2>1. [calls[r][c] EXCEPT !.pc = "start"].pc = "start"
    BY <1>6 DEF CallType
  <2> QED
    BY <1>3, <1>4, <1>7, <2>1 DEF ClaimReview
<1>8. ASSUME NEW r \in Replicas, NEW c \in Cards, NoConfig(r, c) PROVE ReviewsCounted'
  <2>1. [calls[r][c] EXCEPT !.pc = "write", !.plan = "config"].pc = "write"
    BY <1>6 DEF CallType
  <2> QED
    BY <1>3, <1>8, <2>1 DEF NoConfig
<1>9. ASSUME NEW r \in Replicas, NEW c \in Cards, ReadLive(r, c) \/ ReadFails(r, c) PROVE ReviewsCounted'
  <2>1. \E read \in CallType : Return(r, c) \/ HandOver(r, c, read)
    <3>1. card[c] \in CardType
      BY DEF Types, TypeOK
    <3> QED
      BY <1>6, <1>9, <3>1, ReadType DEF ReadLive, ReadFails
  <2>2. calls[r][c].pc # "idle"
    BY <1>9 DEF ReadLive, ReadFails
  <2>3. ASSUME NEW read \in CallType, HandOver(r, c, read) PROVE ReviewsCounted'
    <3>1. Handed(read).pc # "idle" /\ Step(r, c, Handed(read))
      BY <2>3, HandedType
    <3> QED
      BY <1>3, <2>2, <3>1
  <2> QED
    BY <1>4, <2>1, <2>2, <2>3
<1>10. ASSUME NEW r \in Replicas, NEW c \in Cards, RunEnds(r, c) \/ RunFails(r, c) \/ Throws(r, c)
       PROVE  ReviewsCounted'
  <2>1. \A plan : [calls[r][c] EXCEPT !.pc = "check", !.plan = plan].pc = "check"
    BY <1>6 DEF CallType
  <2>2. calls[r][c].pc # "idle"
    BY <1>10 DEF RunEnds, RunFails, Throws
  <2>3. \E plan : Step(r, c, [calls[r][c] EXCEPT !.pc = "check", !.plan = plan])
    BY <1>10 DEF RunEnds, RunFails, Throws
  <2> QED
    BY <1>3, <2>1, <2>2, <2>3
<1>11. ASSUME NEW r \in Replicas, NEW c \in Cards, CheckAccepted(r, c) \/ CheckFails(r, c) PROVE ReviewsCounted'
  <2>1. [calls[r][c] EXCEPT !.pc = "write"].pc = "write"
    BY <1>6 DEF CallType
  <2>2. calls[r][c].pc # "idle" /\ (Return(r, c) \/ Step(r, c, [calls[r][c] EXCEPT !.pc = "write"]))
    BY <1>11 DEF CheckAccepted, CheckFails
  <2> QED
    BY <1>3, <1>4, <2>1, <2>2
<1>12. ASSUME NEW r \in Replicas, NEW c \in Cards, WriteVerdict(r, c) \/ WriteFails(r, c) PROVE ReviewsCounted'
  BY <1>4, <1>12 DEF WriteVerdict, WriteFails
<1>13. ASSUME NEW c \in Cards, BackoffEnds(c) \/ Accept(c) \/ Reopen(c) \/ Rework(c) \/ Redo(c)
       PROVE  ReviewsCounted'
  BY <1>2, <1>13 DEF BackoffEnds, Accept, Reopen, Rework, Redo
<1>14. ASSUME NEW r \in Replicas, Crash(r) PROVE ReviewsCounted'
  <2>1. Calls(r)' = {} /\ \A q \in Replicas : q # r => Calls(q)' = Calls(q)
    BY <1>0, <1>14 DEF Crash, TypeOK, Calls, Idle
  <2>2. load'[r] = 0 /\ \A q \in Replicas : q # r => load'[q] = load[q]
    BY <1>0, <1>14 DEF Crash, TypeOK
  <2> QED
    BY <1>0, <1>1, <2>1, <2>2, FS_EmptySet
<1>15. CASE UNCHANGED vars
  BY <1>2, <1>15 DEF vars
<1> QED
  BY <1>5, <1>7, <1>8, <1>9, <1>10, <1>11, <1>12, <1>13, <1>14, <1>15 DEF Next, ReviewStep

(* The in-flight counter of a replica equals the number of its calls at all  *)
(* times: no path out of a review leaks a slot or gives one astray twice.      *)
THEOREM ReviewsAlwaysCounted == Spec => []ReviewsCounted
<1>1. Init => ReviewsCounted
  <2> SUFFICES ASSUME Init PROVE \A r \in Replicas : load[r] = Cardinality({c \in Cards : calls[r][c].pc # "idle"})
    BY DEF ReviewsCounted
  <2>1. \A r \in Replicas : {c \in Cards : calls[r][c].pc # "idle"} = {} /\ load[r] = 0
    BY DEF Init, Idle
  <2> QED
    BY <2>1, FS_EmptySet
<1>2. Types /\ ReviewsCounted /\ [Next]_vars => ReviewsCounted'
  BY CountedStep
<1>3. Types /\ [Next]_vars => Types'
  BY TypesStep
<1> QED
  BY <1>1, <1>2, <1>3, InitTypes, PTL DEF Spec
=============================================================================
