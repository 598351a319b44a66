------------------------- MODULE RunFinalizerProofs -------------------------
(* What RunFinalizer guarantees for any number of turns, users, clients and  *)
(* failures.                                                                 *)
EXTENDS RunFinalizer, TLAPS

-----------------------------------------------------------------------------
(* Types.  A goal that is still active has turns left, so counting one more  *)
(* stays within the budget; a call past its start knows its turn, and has    *)
(* something to write where it writes.                                       *)

Sound(g) == g.status = "active" => g.used < Budget
Fit(a) ==
    /\ a.pc \notin {"idle", "create"} => a.turn \in Turns
    /\ a.pc = "message" => a.out.msg # "keep"
    /\ a.pc \in {"message", "ledger"} => a.out.ledger # "keep"
    /\ a.pc = "advance" => a.goal.status = "active"
    /\ Sound(a.goal)
Types == TypeOK /\ Sound(goal) /\ \A c \in Callers : Fit(call[c])

(* The rows that are written.                                                *)
LEMMA IdleRow == Idle \in CallType /\ Fit(Idle) /\ NoGoal \in GoalType /\ Nothing \in OutcomeType
<1>1. NoGoal \in GoalType /\ Nothing \in OutcomeType
  BY FinalizerAssumption DEF NoGoal, Nothing, GoalType, OutcomeType, FinalizerAssumption
<1> QED
  BY <1>1 DEF Idle, CallType, Fit, Sound, NoGoal

LEMMA InRow ==
  ASSUME NEW pc \in {"post", "stop", "fetch"}, NEW t \in Turns
  PROVE  In(pc, t) \in CallType /\ Fit(In(pc, t))
BY IdleRow DEF In, Idle, CallType, Fit, Sound, NoGoal

LEMMA BeginRow ==
  ASSUME NEW t \in Turns, NEW was \in BOOLEAN, NEW old \in 0..2
  PROVE  LET a == [In("fetch", t) EXCEPT !.was = was, !.age = old]
         IN  /\ a \in CallType /\ Fit(a)
             /\ a.pc = "fetch" /\ a.turn = t /\ a.age = old
BY IdleRow DEF In, Idle, CallType, Fit, Sound, NoGoal

(* Whatever Hermes says, what is written is a status.                        *)
LEMMA VerdictType ==
  ASSUME NEW was \in BOOLEAN, NEW old \in 0..2, NEW seen \in RunStates \cup {"missing"}
  PROVE  LET v == Verdict(was, old, seen)
         IN  /\ v \in OutcomeType
             /\ v # Nothing => v.ledger # "keep"
             /\ v.msg = "failed" => \/ seen \in {"missing", "gone"} /\ old >= 1
                                    \/ seen = "failed"
                                    \/ old = 2
<1> DEFINE v == Verdict(was, old, seen)
<1>1. CASE seen \in {"missing", "gone"}
  BY <1>1 DEF Verdict, Nothing, Outcome, OutcomeType, LedgerStates, Answers
<1>2. CASE seen \in Answers
  BY <1>2 DEF Verdict, Nothing, Outcome, OutcomeType, LedgerStates, Answers
<1>3. CASE seen = "failed"
  BY <1>3 DEF Verdict, Nothing, Outcome, OutcomeType, LedgerStates, Answers
<1>4. CASE seen = "approval"
  BY <1>4 DEF Verdict, Nothing, Outcome, OutcomeType, LedgerStates, Answers
<1>5. CASE seen \in {"none", "accepted", "running"}
  BY <1>5 DEF Verdict, Nothing, Outcome, OutcomeType, LedgerStates, Answers
<1> QED
  BY <1>1, <1>2, <1>3, <1>4, <1>5 DEF RunStates

LEMMA AdvancedType ==
  ASSUME NEW g \in GoalType, g.status = "active", Sound(g),
         NEW reply, NEW t \in Turns \cup {None}
  PROVE  Advanced(g, reply, t) \in GoalType /\ Sound(Advanced(g, reply, t))
<1>1. g.used + 1 \in 0..Budget /\ g.used \in 0..Budget
  BY FinalizerAssumption DEF Sound, GoalType, FinalizerAssumption
<1>2. CASE reply = "done"
  BY <1>1, <1>2 DEF Advanced, Sound, GoalType
<1>3. CASE reply = "blocked"
  BY <1>1, <1>3 DEF Advanced, Sound, GoalType
<1>4. CASE reply \notin {"done", "blocked"} /\ g.used + 1 >= Budget
  BY <1>1, <1>4 DEF Advanced, Sound, GoalType
<1>5. CASE reply \notin {"done", "blocked"} /\ ~(g.used + 1 >= Budget)
  BY <1>1, <1>5, FinalizerAssumption DEF Advanced, Sound, GoalType, FinalizerAssumption
<1> QED
  BY <1>2, <1>3, <1>4, <1>5

LEMMA TypeInit == Init => Types
<1> SUFFICES ASSUME Init PROVE Types
  OBVIOUS
<1>1. TypeOK
  BY IdleRow, FinalizerAssumption
  DEF Init, TypeOK, MsgType, RunStates, LedgerStates, FinalizerAssumption
<1> QED
  BY <1>1, IdleRow DEF Init, Types, Sound, NoGoal

(* An action that writes one call, and leaves the goal as it was.            *)
LEMMA CallWritten ==
  ASSUME Types, NEW c \in Callers, NEW a \in CallType, Fit(a),
         call' = [call EXCEPT ![c] = a]
  PROVE  call' \in [Callers -> CallType] /\ \A d \in Callers : Fit(call'[d])
BY DEF Types, TypeOK

LEMMA Moved ==
  ASSUME Types, NEW c \in Callers, call[c].turn \in Turns, NEW pc \in {"goal", "bind", "last"},
         Goto(c, pc)
  PROVE  call' \in [Callers -> CallType] /\ \A d \in Callers : Fit(call'[d])
<1>1. call[c] \in CallType /\ Fit(call[c])
  BY DEF Types, TypeOK
<1>2. [call[c] EXCEPT !.pc = pc] \in CallType /\ Fit([call[c] EXCEPT !.pc = pc])
  BY <1>1 DEF CallType, Fit, Sound
<1> QED
  BY <1>2, CallWritten DEF Goto

LEMMA Left ==
  ASSUME Types, NEW c \in Callers, Leave(c)
  PROVE  call' \in [Callers -> CallType] /\ \A d \in Callers : Fit(call'[d])
BY IdleRow, CallWritten DEF Leave

LEMMA StatusType ==
  ASSUME TypeOK, NEW t \in Turns, NEW st \in {"waiting_approval", "completed", "failed"}, SetStatus(t, st)
  PROVE  msg' \in [Turns -> MsgType]
<1>1. [msg[t] EXCEPT !.status = st] \in MsgType
  BY DEF TypeOK, MsgType
<1> QED
  BY <1>1 DEF TypeOK, SetStatus

LEMMA EventType ==
  ASSUME TypeOK, NEW kind, Event(kind)
  PROVE  events' \in 0..MaxEvents
BY FinalizerAssumption DEF TypeOK, Event, FinalizerAssumption

LEMMA TypeStep ==
  ASSUME Types, [Next]_vars
  PROVE  Types'
<1> USE DEF Types
<1>0. /\ \A c \in Callers : call[c] \in CallType /\ Fit(call[c])
      /\ \A t \in Turns : msg[t] \in MsgType /\ hrun[t] \in RunStates /\ age[t] \in 0..2
  BY DEF TypeOK
<1>1. ASSUME NEW c \in Callers, Post(c) PROVE Types'
  <2>1. call[c].turn \in Turns
    BY <1>0, <1>1 DEF Post, Fit
  <2>2. call' \in [Callers -> CallType] /\ \A d \in Callers : Fit(call'[d])
    BY <1>1, <2>1, Moved, Left DEF Post
  <2>3. msg' \in [Turns -> MsgType]
    BY <1>1, <2>1, StatusType DEF Post, TypeOK
  <2>4. hrun' \in [Turns -> RunStates] /\ ledger' \in [Turns -> LedgerStates]
    BY <1>1, <2>1 DEF Post, TypeOK, RunStates, LedgerStates
  <2>5. excused' \subseteq Turns /\ events' \in 0..MaxEvents
    BY <1>1, <2>1, EventType DEF Post, TypeOK
  <2> QED
    BY <1>1, <2>2, <2>3, <2>4, <2>5 DEF Post, TypeOK
<1>2. ASSUME NEW c \in Callers, Bind(c) PROVE Types'
  <2>1. call[c].turn \in Turns
    BY <1>0, <1>2 DEF Bind, Fit
  <2>2. call' \in [Callers -> CallType] /\ \A d \in Callers : Fit(call'[d])
    BY <1>2, <2>1, Moved, Left DEF Bind
  <2>3. \A st \in {"pending", msg[call[c].turn].status} :
           [msg[call[c].turn] EXCEPT !.run = TRUE, !.status = st] \in MsgType
    BY <1>0, <2>1 DEF MsgType
  <2>4. msg' \in [Turns -> MsgType]
    BY <1>2, <2>1, <2>3 DEF Bind, TypeOK
  <2> QED
    BY <1>2, <2>2, <2>4 DEF Bind, TypeOK
<1>3. ASSUME NEW u \in Users, NEW t \in Turns, Send(u, t) PROVE Types'
  <2>1. u \in Callers
    BY DEF Callers
  <2>2. call' \in [Callers -> CallType] /\ \A d \in Callers : Fit(call'[d])
    BY <1>3, <2>1, InRow, CallWritten DEF Send
  <2>3. msg' \in [Turns -> MsgType]
    BY <1>3 DEF Send, CreateTurn, TypeOK, MsgType
  <2>4. goal' \in GoalType /\ Sound(goal')
    <3>1. [NoGoal EXCEPT !.status = "active"] \in GoalType /\ Sound([NoGoal EXCEPT !.status = "active"])
      BY FinalizerAssumption DEF NoGoal, GoalType, Sound, FinalizerAssumption
    <3> QED
      BY <1>3, <3>1 DEF Send, TypeOK
  <2> QED
    BY <1>3, <2>2, <2>3, <2>4 DEF Send, TypeOK
<1>4. CASE Control
  <2>1. PICK s \in {"paused", "cleared"} : Event(s) /\ goal' = [goal EXCEPT !.status = s]
    BY <1>4 DEF Control
  <2>2. goal' \in GoalType /\ Sound(goal')
    BY <2>1 DEF TypeOK, GoalType, Sound
  <2> QED
    BY <1>4, <2>1, <2>2, EventType DEF Control, TypeOK
<1>5. ASSUME NEW u \in Users, NEW t \in Turns, CallStop(u, t) PROVE Types'
  <2>1. call' \in [Callers -> CallType] /\ \A d \in Callers : Fit(call'[d])
    BY <1>5, InRow, CallWritten DEF CallStop, Callers
  <2>2. hrun' \in [Turns -> RunStates]
    BY <1>0, <1>5 DEF CallStop, TypeOK, RunStates
  <2> QED
    BY <1>5, <2>1, <2>2, EventType DEF CallStop, TypeOK
<1>6. ASSUME NEW u \in Callers, WriteStopped(u) PROVE Types'
  <2>1. call[u].turn \in Turns
    BY <1>0, <1>6 DEF WriteStopped, Fit
  <2> QED
    BY <1>6, <2>1, Left, StatusType DEF WriteStopped, TypeOK
<1>7. ASSUME NEW t \in Turns, List(t) PROVE Types'
  BY <1>7, StatusType DEF List, TypeOK
<1>8. ASSUME NEW f \in Finalizers, NEW t \in Turns, Begin(f, t) PROVE Types'
  <2>1. f \in Callers /\ (msg[t].status = "completed") \in BOOLEAN /\ age[t] \in 0..2
    BY <1>0 DEF Callers
  <2>2. call' \in [Callers -> CallType] /\ \A d \in Callers : Fit(call'[d])
    <3> DEFINE a == [In("fetch", t) EXCEPT !.was = (msg[t].status = "completed"), !.age = age[t]]
    <3>1. call' = [call EXCEPT ![f] = a]
      BY <1>8 DEF Begin
    <3>2. a \in CallType /\ Fit(a)
      BY <2>1, BeginRow
    <3> HIDE DEF a
    <3> QED
      BY <2>1, <3>1, <3>2, CallWritten
  <2>3. events' \in 0..MaxEvents
    BY <1>8, EventType DEF Begin, TypeOK
  <2> QED
    BY <1>8, <2>2, <2>3 DEF Begin, TypeOK
<1>9. ASSUME NEW f \in Callers, Fetch(f) PROVE Types'
  <2>1. call[f] \in CallType /\ call[f].turn \in Turns /\ call[f].was \in BOOLEAN /\ call[f].age \in 0..2
    BY <1>0, <1>9 DEF Fetch, Fit, CallType
  <2>2. CASE Leave(f) /\ events' \in 0..MaxEvents
    BY <1>9, <2>2, Left DEF Fetch, TypeOK
  <2>3. CASE ~Leave(f)
    <3> DEFINE seen == Lookup(call[f].turn)
    <3>1. LET v == Verdict(call[f].was, call[f].age, seen)
              pc == IF v.msg = "keep" THEN "ledger" ELSE "message"
          IN  call' = [call EXCEPT ![f] =
                 IF v = Nothing THEN Idle ELSE [In(pc, call[f].turn) EXCEPT !.out = v]]
      BY <1>9, <2>3 DEF Fetch
    <3>2. seen \in RunStates \cup {"missing"}
      BY <1>0, <2>1 DEF Lookup
    <3> HIDE DEF seen
    <3> DEFINE v == Verdict(call[f].was, call[f].age, seen)
               pc == IF v.msg = "keep" THEN "ledger" ELSE "message"
               a == IF v = Nothing THEN Idle ELSE [In(pc, call[f].turn) EXCEPT !.out = v]
    <3>3. v \in OutcomeType /\ (v # Nothing => v.ledger # "keep")
      BY <2>1, <3>2, VerdictType
    <3> HIDE DEF v
    <3>4. /\ [In("ledger", call[f].turn) EXCEPT !.out = v] \in CallType
          /\ [In("message", call[f].turn) EXCEPT !.out = v] \in CallType
      BY <2>1, <3>3, IdleRow DEF In, Idle, CallType
    <3>5. /\ v # Nothing => Fit([In("ledger", call[f].turn) EXCEPT !.out = v])
          /\ v # Nothing /\ v.msg # "keep" => Fit([In("message", call[f].turn) EXCEPT !.out = v])
      BY <2>1, <3>3 DEF In, Idle, Fit, Sound, NoGoal
    <3>6. a \in CallType /\ Fit(a)
      BY <3>4, <3>5, IdleRow
    <3>7. call' = [call EXCEPT ![f] = a]
      BY <3>1 DEF v
    <3>8. UNCHANGED events
      BY <1>9, <2>3 DEF Fetch
    <3> HIDE DEF a
    <3> QED
      BY <1>9, <3>6, <3>7, <3>8, CallWritten DEF Fetch, TypeOK
  <2> QED
    BY <1>9, <2>2, <2>3, EventType DEF Fetch, TypeOK
<1>10. ASSUME NEW f \in Callers, WriteMessage(f) PROVE Types'
  <2>1. call[f] \in CallType /\ call[f].turn \in Turns /\ call[f].out \in OutcomeType
        /\ call[f].out.msg # "keep" /\ call[f].out.ledger # "keep"
    BY <1>0, <1>10 DEF WriteMessage, Fit, CallType
  <2>2. call[f].out.msg \in {"waiting_approval", "completed", "failed"}
    BY <2>1 DEF OutcomeType
  <2>3. [call[f] EXCEPT !.pc = "ledger"] \in CallType /\ Fit([call[f] EXCEPT !.pc = "ledger"])
    BY <1>0, <2>1 DEF CallType, Fit, Sound
  <2>4. call' \in [Callers -> CallType] /\ \A d \in Callers : Fit(call'[d])
    BY <1>10, <2>3, CallWritten DEF WriteMessage, Goto
  <2> QED
    BY <1>10, <2>1, <2>2, <2>4, StatusType DEF WriteMessage, TypeOK
<1>11. ASSUME NEW f \in Callers, WriteLedger(f) PROVE Types'
  <2>1. call[f].turn \in Turns /\ call[f].out.ledger \in LedgerStates
    BY <1>0, <1>11 DEF WriteLedger, Fit, CallType, OutcomeType
  <2>2. call' \in [Callers -> CallType] /\ \A d \in Callers : Fit(call'[d])
    BY <1>11, <2>1, Moved, Left DEF WriteLedger
  <2> QED
    BY <1>11, <2>1, <2>2 DEF WriteLedger, TypeOK
<1>12. ASSUME NEW f \in Callers, ReadGoal(f) PROVE Types'
  <2>1. CASE Leave(f)
    BY <1>12, <2>1, Left DEF ReadGoal, TypeOK
  <2>2. CASE /\ goal.status = "active"
             /\ call' = [call EXCEPT ![f].pc = "advance", ![f].goal = goal]
    <3>1. call[f].turn \in Turns /\ call[f] \in CallType
      BY <1>0, <1>12 DEF ReadGoal, Fit
    <3>2. /\ [call[f] EXCEPT !.pc = "advance", !.goal = goal] \in CallType
          /\ Fit([call[f] EXCEPT !.pc = "advance", !.goal = goal])
      BY <1>0, <2>2, <3>1 DEF CallType, Fit, TypeOK
    <3>3. call' \in [Callers -> CallType] /\ \A d \in Callers : Fit(call'[d])
      BY <2>2, <3>2 DEF TypeOK
    <3> QED
      BY <1>12, <3>3 DEF ReadGoal, TypeOK
  <2> QED
    BY <1>12, <2>1, <2>2 DEF ReadGoal
<1>13. ASSUME NEW f \in Callers, Advance(f) PROVE Types'
  <2> DEFINE g == Advanced(call[f].goal, call[f].out.reply, call[f].turn)
             a == IF g.status = "active" THEN [In("create", None) EXCEPT !.goal = g] ELSE Idle
  <2>1. call[f].turn \in Turns /\ call[f].goal \in GoalType /\ call[f].goal.status = "active"
        /\ Sound(call[f].goal)
    BY <1>0, <1>13 DEF Advance, Fit, CallType
  <2>2. g \in GoalType /\ Sound(g)
    BY <2>1, AdvancedType
  <2>3. goal' = g /\ call' = [call EXCEPT ![f] = a]
    BY <1>13 DEF Advance
  <2> HIDE DEF g
  <2>4. a \in CallType /\ Fit(a)
    BY <2>2, IdleRow DEF In, Idle, CallType, Fit, Sound
  <2> HIDE DEF a
  <2>5. call' \in [Callers -> CallType] /\ \A d \in Callers : Fit(call'[d])
    BY <2>3, <2>4, CallWritten
  <2> QED
    BY <1>13, <2>2, <2>3, <2>5 DEF Advance, TypeOK
<1>14. ASSUME NEW f \in Callers, NEW t \in Turns, Continue(f, t) PROVE Types'
  <2>1. /\ [call[f] EXCEPT !.pc = "post", !.turn = t] \in CallType
        /\ Fit([call[f] EXCEPT !.pc = "post", !.turn = t])
    BY <1>0 DEF CallType, Fit, Sound
  <2>2. call' \in [Callers -> CallType] /\ \A d \in Callers : Fit(call'[d])
    BY <1>14, <2>1 DEF Continue, TypeOK
  <2>3. msg' \in [Turns -> MsgType]
    BY <1>14 DEF Continue, CreateTurn, TypeOK, MsgType
  <2> QED
    BY <1>14, <2>2, <2>3 DEF Continue, TypeOK
<1>15. ASSUME NEW f \in Callers, GiveUp(f) PROVE Types'
  BY <1>15, Left DEF GiveUp, TypeOK
<1>16. ASSUME NEW f \in Callers, WriteGoal(f) PROVE Types'
  <2>1. [call[f].goal EXCEPT !.last = call[f].turn] \in GoalType
        /\ Sound([call[f].goal EXCEPT !.last = call[f].turn])
    BY <1>0, <1>16 DEF WriteGoal, Fit, CallType, GoalType, Sound
  <2> QED
    BY <1>16, <2>1, Left DEF WriteGoal, TypeOK
<1>17. ASSUME NEW t \in Turns, HermesStep(t) PROVE Types'
  BY <1>17, FinalizerAssumption DEF HermesStep, TypeOK, RunStates, FinalizerAssumption, Answers
<1>18. ASSUME NEW t \in Turns, Forget(t) PROVE Types'
  BY <1>18, EventType DEF Forget, TypeOK, RunStates
<1>19. ASSUME NEW t \in Turns, Tick(t) PROVE Types'
  <2>1. age[t] + 1 \in 0..2
    BY <1>0, <1>19 DEF Tick
  <2> QED
    BY <1>19, <2>1 DEF Tick, TypeOK
<1>20. ASSUME NEW c \in Callers, Crash(c) PROVE Types'
  BY <1>20, Left, EventType DEF Crash, TypeOK
<1>21. CASE UNCHANGED vars
  BY <1>21 DEF vars, TypeOK
<1> QED
  BY <1>1, <1>2, <1>3, <1>4, <1>5, <1>6, <1>7, <1>8, <1>9, <1>10, <1>11, <1>12, <1>13, <1>14,
     <1>15, <1>16, <1>17, <1>18, <1>19, <1>20, <1>21 DEF Next, Step

(* Variables have their types, and no goal uses more turns than it has.      *)
THEOREM TypeCorrect == Spec => []TypeOK
<1>1. Types /\ [Next]_vars => Types'
  BY TypeStep
<1>2. Types => TypeOK
  BY DEF Types
<1> QED
  BY <1>1, <1>2, TypeInit, PTL DEF Spec

-----------------------------------------------------------------------------
(* Why turns fail.  A cause stays; a call that is going to fail a turn has   *)
(* one; and the only turns that fail without a run are those whose one       *)
(* request was refused.                                                      *)

Caused(t) == hrun[t] \in {"failed", "gone"} \/ age[t] = 2 \/ t \in excused
Starting(c) == call[c].pc \in {"post", "bind"}
Untouched == \A t \in Turns : msg[t].status = "none" => hrun[t] = "none" /\ ~msg[t].run
OneStart ==
    /\ \A c \in Callers : Starting(c) => msg[call[c].turn].status # "none" /\ ~msg[call[c].turn].run
    /\ \A c \in Callers : call[c].pc = "post" =>
           /\ hrun[call[c].turn] = "none"
           /\ msg[call[c].turn].status = "failed" => call[c].turn \in excused
    /\ \A c, d \in Callers : c # d /\ Starting(c) /\ Starting(d) => call[c].turn # call[d].turn
OnRuns ==
    \A c \in Callers :
        /\ call[c].pc \in {"fetch", "message", "stop"} => msg[call[c].turn].run
        /\ call[c].pc = "fetch" => call[c].age <= age[call[c].turn]
        /\ call[c].pc = "message" /\ call[c].out.msg = "failed" => Caused(call[c].turn)
        /\ call[c].pc = "stop" => call[c].turn \in excused
Failures ==
    \A t \in Turns : msg[t].status = "failed" => Caused(t) \/ hrun[t] = "none"
Causes == Untouched /\ OneStart /\ OnRuns /\ Failures

(* An action that writes no document, and moves one call to where nothing is *)
(* asked of it.                                                              *)
LEMMA Harmless ==
  ASSUME Types, Causes, NEW c \in Callers, NEW a,
         call' = [call EXCEPT ![c] = a], a.pc \notin {"post", "bind", "fetch", "message", "stop"},
         UNCHANGED <<msg, hrun, age, excused>>
  PROVE  Causes'
<1>1. \A d \in Callers : call'[d] = IF d = c THEN a ELSE call[d]
  BY DEF Types, TypeOK
<1>2. Untouched' /\ Failures'
  BY DEF Causes, Untouched, Failures, Caused
<1>3. OneStart'
  BY <1>1 DEF Causes, OneStart, Starting
<1>4. OnRuns'
  BY <1>1 DEF Causes, OnRuns, Caused
<1> QED
  BY <1>2, <1>3, <1>4 DEF Causes

LEMMA HarmlessPc ==
  ASSUME Types, Causes, NEW c \in Callers, NEW pc \in {"ledger", "goal", "last"}, Goto(c, pc),
         UNCHANGED <<msg, hrun, age, excused>>
  PROVE  Causes'
<1>1. [call[c] EXCEPT !.pc = pc].pc = pc
  BY DEF Types, TypeOK, CallType
<1> QED
  BY <1>1, Harmless DEF Goto

LEMMA HarmlessLeave ==
  ASSUME Types, Causes, NEW c \in Callers, Leave(c), UNCHANGED <<msg, hrun, age, excused>>
  PROVE  Causes'
BY Harmless DEF Leave, Idle

(* A message is written a status; the calls are as they were, or one of them *)
(* is done.                                                                  *)
LEMMA Written ==
  ASSUME Types, Causes, NEW t \in Turns, NEW st \in {"waiting_approval", "completed", "failed"},
         SetStatus(t, st), UNCHANGED <<hrun, age>>, excused \subseteq excused',
         st = "failed" => Caused(t)' \/ hrun[t] = "none",
         st = "failed" => t \in excused' \/ \A c \in Callers : call'[c].pc = "post" => call'[c].turn # t,
         \A c \in Callers : \/ call'[c] = call[c]
                            \/ call'[c].pc \notin {"post", "bind", "fetch", "message", "stop"}
  PROVE  Causes'
<1>1. \A s \in Turns : /\ msg'[s].status = IF s = t THEN st ELSE msg[s].status
                       /\ msg'[s].run = msg[s].run
  BY DEF SetStatus, Types, TypeOK, MsgType
<1>2. \A s \in Turns : Caused(s) => Caused(s)'
  BY DEF Caused
<1>3. \A c \in Callers : call[c].pc \in {"post", "bind", "fetch", "message", "stop"} => call[c].turn \in Turns
  BY DEF Types, Fit
<1>4. Untouched'
  BY <1>1 DEF Causes, Untouched
<1>5. Failures'
  BY <1>1, <1>2 DEF Causes, Failures
<1>6. OneStart'
  BY <1>1, <1>3 DEF Causes, OneStart, Starting
<1>7. OnRuns'
  BY <1>1, <1>2, <1>3 DEF Causes, OnRuns
<1> QED
  BY <1>4, <1>5, <1>6, <1>7 DEF Causes

(* Time passes, a user asks to stop, Hermes forgets: causes are only added.  *)
LEMMA Passed ==
  ASSUME Types, Causes, UNCHANGED <<msg, call>>, excused \subseteq excused',
         \A t \in Turns : /\ age[t] <= age'[t] /\ age'[t] \in 0..2
                          /\ hrun[t] \in {"none", "failed", "gone"} =>
                                hrun'[t] = hrun[t] \/ (hrun[t] # "none" /\ hrun'[t] = "gone")
  PROVE  Causes'
<1>1. \A t \in Turns : Caused(t) => Caused(t)'
  BY DEF Caused, Types, TypeOK
<1>2. \A c \in Callers : call[c].pc \in {"post", "bind", "fetch", "message", "stop"} => call[c].turn \in Turns
  BY DEF Types, Fit
<1>3. \A t \in Turns : hrun[t] = "none" => hrun'[t] = "none"
  OBVIOUS
<1>4. Untouched'
  BY <1>3 DEF Causes, Untouched
<1>5. Failures'
  BY <1>1, <1>3 DEF Causes, Failures
<1>6. OneStart'
  BY <1>2, <1>3 DEF Causes, OneStart, Starting
<1>7. \A c \in Callers : call[c].pc = "fetch" => call[c].age <= age'[call[c].turn]
  BY <1>2 DEF Causes, OnRuns, Types, TypeOK, CallType
<1>8. OnRuns'
  BY <1>1, <1>2, <1>7 DEF Causes, OnRuns
<1> QED
  BY <1>4, <1>5, <1>6, <1>8 DEF Causes

(* A new turn: its call is the only one there is on it.                      *)
LEMMA Created ==
  ASSUME Types, Causes, NEW c \in Callers, NEW t \in Turns, NEW a, CreateTurn(t),
         call' = [call EXCEPT ![c] = a], a.pc = "post", a.turn = t,
         UNCHANGED <<hrun, age, excused>>
  PROVE  Causes'
<1>1. \A d \in Callers : call'[d] = IF d = c THEN a ELSE call[d]
  BY DEF Types, TypeOK
<1>2. msg'[t].status = "pending" /\ ~msg'[t].run /\ \A s \in Turns \ {t} : msg'[s] = msg[s]
  BY DEF CreateTurn, Types, TypeOK
<1>3. msg[t].status = "none" /\ hrun[t] = "none" /\ ~msg[t].run
  BY DEF CreateTurn, Unused, Causes, Untouched
<1>4. \A d \in Callers : call[d].pc \in {"post", "bind", "fetch", "message", "stop"} =>
                            call[d].turn \in Turns /\ call[d].turn # t
  BY <1>3 DEF Types, Fit, Causes, OneStart, Starting, OnRuns
<1>5. Untouched' /\ Failures'
  BY <1>2 DEF Causes, Untouched, Failures, Caused
<1>6. OneStart'
  <2>1. \A d \in Callers : Starting(d)' => d = c \/ (d # c /\ Starting(d) /\ call'[d] = call[d])
    BY <1>1 DEF Starting
  <2>2. call'[c] = a
    BY <1>1
  <2>3. \A d \in Callers : Starting(d)' => msg'[call'[d].turn].status # "none" /\ ~msg'[call'[d].turn].run
    BY <1>2, <1>4, <2>1, <2>2 DEF Causes, OneStart, Starting
  <2>4. \A d \in Callers : call'[d].pc = "post" =>
           /\ hrun[call'[d].turn] = "none"
           /\ msg'[call'[d].turn].status = "failed" => call'[d].turn \in excused
    BY <1>1, <1>2, <1>3, <1>4 DEF Causes, OneStart
  <2>5. \A d, e \in Callers : d # e /\ Starting(d)' /\ Starting(e)' => call'[d].turn # call'[e].turn
    BY <1>4, <2>1, <2>2 DEF Causes, OneStart, Starting
  <2> QED
    BY <2>3, <2>4, <2>5 DEF OneStart
<1>7. OnRuns'
  <2> SUFFICES ASSUME NEW d \in Callers, d # c, call[d].pc \in {"fetch", "message", "stop"}
               PROVE  /\ call'[d] = call[d] /\ msg'[call[d].turn] = msg[call[d].turn]
                      /\ Caused(call[d].turn)' = Caused(call[d].turn)
    BY <1>1 DEF Causes, OnRuns
  <2> QED
    BY <1>1, <1>2, <1>4 DEF Caused
<1> QED
  BY <1>5, <1>6, <1>7 DEF Causes

LEMMA CausesInit == Init => Causes
BY DEF Init, Causes, Untouched, OneStart, Starting, OnRuns, Failures, Caused, Idle

(* Posting: whatever comes of it, only this call was going to.               *)
LEMMA PostCauses ==
  ASSUME Types, Causes, NEW c \in Callers, Post(c)
  PROVE  Causes'
<1> DEFINE t == call[c].turn
<1>1. t \in Turns /\ call[c] \in CallType /\ call[c].pc = "post"
  BY DEF Post, Types, TypeOK, Fit
<1>2. /\ hrun[t] = "none" /\ ~msg[t].run /\ msg[t].status # "none"
      /\ msg[t].status = "failed" => t \in excused
  BY <1>1 DEF Causes, OneStart, Starting
<1>3. \A d \in Callers : d # c /\ Starting(d) => call[d].turn # t
  BY <1>1 DEF Causes, OneStart, Starting
<1>4. \A d \in Callers : call[d].pc \in {"post", "bind", "fetch", "message", "stop"} => call[d].turn \in Turns
  BY DEF Types, Fit
<1>5. CASE /\ hrun' = [hrun EXCEPT ![t] = "accepted"] /\ Goto(c, "bind")
           /\ UNCHANGED <<msg, age, excused>>
  <2>1. \A d \in Callers : /\ call'[d].turn = call[d].turn /\ call'[d].age = call[d].age
                           /\ call'[d].out = call[d].out
                           /\ call'[d].pc = IF d = c THEN "bind" ELSE call[d].pc
    BY <1>1, <1>5 DEF Goto, Types, TypeOK, CallType
  <2>2. \A s \in Turns \ {t} : hrun'[s] = hrun[s]
    BY <1>5 DEF Types, TypeOK
  <2>3. \A s \in Turns : Caused(s) => Caused(s)'
    BY <1>2, <1>5, <2>2 DEF Caused
  <2>4. Untouched'
    BY <1>2, <1>5, <2>2 DEF Causes, Untouched
  <2>5. Failures'
    BY <1>2, <1>5, <2>2, <2>3 DEF Causes, Failures, Caused
  <2>6. OneStart'
    BY <1>1, <1>2, <1>3, <1>4, <1>5, <2>1, <2>2 DEF Causes, OneStart, Starting
  <2>7. OnRuns'
    BY <1>4, <1>5, <2>1, <2>3 DEF Causes, OnRuns
  <2> QED
    BY <2>4, <2>5, <2>6, <2>7 DEF Causes
<1>6. CASE SetStatus(t, "failed") /\ Leave(c) /\ UNCHANGED <<hrun, age, excused>>
  <2>1. \A d \in Callers : call'[d] = IF d = c THEN Idle ELSE call[d]
    BY <1>6 DEF Leave, Types, TypeOK
  <2>2. \A d \in Callers : call'[d].pc = "post" => call'[d].turn # t
    BY <1>3, <2>1 DEF Starting, Idle
  <2>3. \A d \in Callers : \/ call'[d] = call[d]
                           \/ call'[d].pc \notin {"post", "bind", "fetch", "message", "stop"}
    BY <2>1 DEF Idle
  <2> HIDE DEF t
  <2> QED
    BY <1>1, <1>2, <1>6, <2>2, <2>3, Written
<1>7. CASE /\ hrun' = [hrun EXCEPT ![t] = "accepted"] /\ SetStatus(t, "failed") /\ Leave(c)
           /\ excused' = excused \cup {t} /\ UNCHANGED age
  <2>1. \A d \in Callers : call'[d] = IF d = c THEN Idle ELSE call[d]
    BY <1>7 DEF Leave, Types, TypeOK
  <2>2. \A s \in Turns \ {t} : hrun'[s] = hrun[s] /\ msg'[s] = msg[s]
    BY <1>7 DEF SetStatus, Types, TypeOK
  <2>3. msg'[t].status = "failed" /\ (msg'[t].run <=> msg[t].run) /\ t \in excused'
    BY <1>1, <1>7 DEF SetStatus, Types, TypeOK, MsgType
  <2>4. \A s \in Turns : Caused(s) => Caused(s)'
    BY <1>7, <2>2 DEF Caused
  <2>5. Untouched'
    BY <2>2, <2>3 DEF Causes, Untouched
  <2>6. Failures'
    BY <2>2, <2>3, <2>4 DEF Causes, Failures, Caused
  <2>7. OneStart'
    BY <1>3, <1>4, <1>7, <2>1, <2>2 DEF Causes, OneStart, Starting, Idle
  <2>8. \A d \in Callers : call'[d].pc \in {"fetch", "message", "stop"} =>
           call'[d] = call[d] /\ msg'[call[d].turn].run /\ call[d].turn \in Turns
    BY <1>2, <1>4, <2>1, <2>2 DEF Causes, OnRuns, Idle
  <2>9. OnRuns'
    BY <1>7, <2>4, <2>8 DEF Causes, OnRuns
  <2> QED
    BY <2>5, <2>6, <2>7, <2>9 DEF Causes
<1> QED
  BY <1>5, <1>6, <1>7 DEF Post

LEMMA BindCauses ==
  ASSUME Types, Causes, NEW c \in Callers, Bind(c)
  PROVE  Causes'
<1> DEFINE t == call[c].turn
<1>1. t \in Turns /\ call[c] \in CallType /\ call[c].pc = "bind" /\ msg[t] \in MsgType
  BY DEF Bind, Types, TypeOK, Fit
<1>2. \A d \in Callers : d # c /\ Starting(d) => call[d].turn # t
  BY <1>1 DEF Causes, OneStart, Starting
<1>3. \A d \in Callers : call[d].pc \in {"post", "bind", "fetch", "message", "stop"} => call[d].turn \in Turns
  BY DEF Types, Fit
<1>4. \A d \in Callers : d # c => call'[d] = call[d]
  BY DEF Bind, Goto, Leave, Types, TypeOK
<1>5. call'[c].pc \in {"last", "idle"}
  BY <1>1 DEF Bind, Goto, Leave, Types, TypeOK, CallType, Idle
<1>6. /\ msg'[t].status \in {"pending", msg[t].status} /\ msg'[t].run
      /\ \A s \in Turns \ {t} : msg'[s] = msg[s]
  BY <1>1 DEF Bind, Types, TypeOK, MsgType
<1>7. UNCHANGED <<hrun, age, excused>>
  BY DEF Bind
<1>8. msg[t].status # "none"
  BY <1>1 DEF Causes, OneStart, Starting
<1>9. Untouched' /\ Failures'
  BY <1>6, <1>7, <1>8 DEF Causes, Untouched, Failures, Caused
<1>10. OneStart'
  BY <1>2, <1>3, <1>4, <1>5, <1>6, <1>7 DEF Causes, OneStart, Starting
<1>11. \A d \in Callers : call'[d].pc \in {"fetch", "message", "stop"} =>
          call'[d] = call[d] /\ msg'[call[d].turn].run /\ call[d].turn \in Turns
  BY <1>3, <1>4, <1>5, <1>6 DEF Causes, OnRuns
<1>12. OnRuns'
  BY <1>7, <1>11 DEF Causes, OnRuns, Caused
<1> QED
  BY <1>9, <1>10, <1>12 DEF Causes

(* Asking to stop: the turn is excused before its message is failed.         *)
LEMMA StopCauses ==
  ASSUME Types, Causes, NEW u \in Users, NEW t \in Turns, CallStop(u, t)
  PROVE  Causes'
<1>1. \A d \in Callers : call'[d] = IF d = u THEN In("stop", t) ELSE call[d]
  BY DEF CallStop, Types, TypeOK
<1>2. In("stop", t).pc = "stop" /\ In("stop", t).turn = t /\ msg[t].run /\ t \in excused'
  BY DEF CallStop, In, Idle
<1>3. \A s \in Turns \ {t} : hrun'[s] = hrun[s]
  BY DEF CallStop, Types, TypeOK
<1>4. hrun'[t] = hrun[t] \/ (hrun[t] # "none" /\ hrun'[t] = "failed")
  BY DEF CallStop, Types, TypeOK
<1>5. UNCHANGED <<msg, age>> /\ excused \subseteq excused'
  BY DEF CallStop
<1>6. \A s \in Turns : Caused(s) => Caused(s)'
  BY <1>3, <1>4, <1>5 DEF Caused
<1>7. \A d \in Callers : call[d].pc \in {"post", "bind", "fetch", "message", "stop"} => call[d].turn \in Turns
  BY DEF Types, Fit
<1>8. \A s \in Turns : hrun[s] = "none" => hrun'[s] = "none"
  BY <1>3, <1>4
<1>9. Untouched'
  BY <1>5, <1>8 DEF Causes, Untouched
<1>10. Failures'
  BY <1>5, <1>6, <1>8 DEF Causes, Failures
<1>11. OneStart'
  BY <1>1, <1>2, <1>5, <1>7, <1>8 DEF Causes, OneStart, Starting
<1>12. OnRuns'
  <2>1. \A d \in Callers : call'[d].pc \in {"fetch", "message", "stop"} =>
           /\ msg[call'[d].turn].run
           /\ \/ call'[d] = call[d] /\ call[d].turn \in Turns
              \/ call'[d] = In("stop", t)
    BY <1>1, <1>2, <1>7 DEF Causes, OnRuns
  <2> QED
    BY <1>2, <1>5, <1>6, <2>1 DEF Causes, OnRuns
<1> QED
  BY <1>9, <1>10, <1>11, <1>12 DEF Causes

(* A call begins, with an age that only grows.                               *)
LEMMA BeginCauses ==
  ASSUME Types, Causes, NEW f \in Finalizers, NEW t \in Turns, Begin(f, t)
  PROVE  Causes'
<1> DEFINE a == [In("fetch", t) EXCEPT !.was = (msg[t].status = "completed"), !.age = age[t]]
<1>1. a.pc = "fetch" /\ a.turn = t /\ a.age = age[t]
  BY DEF In, Idle
<1>2. call' = [call EXCEPT ![f] = a] /\ msg[t].run /\ UNCHANGED <<msg, hrun, age, excused>>
  BY DEF Begin
<1> HIDE DEF a
<1>3. \A d \in Callers : call'[d] = IF d = f THEN a ELSE call[d]
  BY <1>2 DEF Types, TypeOK
<1>4. Untouched' /\ Failures'
  BY <1>2 DEF Causes, Untouched, Failures, Caused
<1>5. OneStart'
  BY <1>1, <1>2, <1>3 DEF Causes, OneStart, Starting
<1>6. age[t] <= age[t]
  BY DEF Types, TypeOK
<1>7. OnRuns'
  BY <1>1, <1>2, <1>3, <1>6 DEF Causes, OnRuns, Caused
<1> QED
  BY <1>4, <1>5, <1>7 DEF Causes

(* A run that Hermes does not list when the grace of its turn is over.       *)
Unlisted == \A t \in Turns : hrun[t] \in {"none", "accepted"} /\ age[t] >= 1 => t \in excused

LEMMA UnlistedStep ==
  ASSUME Types, Causes, Unlisted, [Next]_vars
  PROVE  Unlisted'
<1>1. ASSUME UNCHANGED age, excused \subseteq excused',
             \A t \in Turns : hrun'[t] \in {"none", "accepted"} => hrun[t] \in {"none", "accepted"}
      PROVE  Unlisted'
  BY <1>1 DEF Unlisted
<1>2. ASSUME NEW c \in Callers, Step(c) PROVE Unlisted'
  <2>1. CASE Post(c)
    <3>1. hrun[call[c].turn] = "none" /\ hrun \in [Turns -> RunStates]
      BY <2>1 DEF Post, Causes, OneStart, Types, TypeOK
    <3>2. \A t \in Turns : hrun'[t] = hrun[t] \/ t = call[c].turn
      BY <2>1, <3>1 DEF Post
    <3>3. UNCHANGED age /\ excused \subseteq excused'
      BY <2>1 DEF Post
    <3> QED
      BY <1>1, <3>1, <3>2, <3>3
  <2>2. CASE ~Post(c)
    <3>1. UNCHANGED <<hrun, age, excused>>
      BY <1>2, <2>2 DEF Step, Bind, WriteStopped, Fetch, WriteMessage, WriteLedger, ReadGoal, Advance,
                        GiveUp, WriteGoal, Continue
    <3> QED
      BY <1>1, <3>1
  <2> QED
    BY <2>1, <2>2
<1>3. ASSUME NEW u \in Users, NEW t \in Turns, Send(u, t) \/ CallStop(u, t) PROVE Unlisted'
  BY <1>1, <1>3 DEF Send, CallStop, Types, TypeOK
<1>4. ASSUME NEW t \in Turns, HermesStep(t) \/ Forget(t) PROVE Unlisted'
  <2>1. \A s \in Turns : hrun'[s] = hrun[s] \/ hrun'[s] \notin {"none", "accepted"}
    BY <1>4, FinalizerAssumption DEF HermesStep, Forget, Types, TypeOK, FinalizerAssumption, Answers
  <2> QED
    BY <1>1, <1>4, <2>1 DEF HermesStep, Forget
<1>5. ASSUME NEW t \in Turns, Tick(t) PROVE Unlisted'
  BY <1>5 DEF Tick, Unlisted, Types, TypeOK
<1>6. ASSUME NEW t \in Turns, List(t) PROVE Unlisted'
  BY <1>1, <1>6 DEF List
<1>7. ASSUME NEW f \in Finalizers, NEW t \in Turns, Begin(f, t) PROVE Unlisted'
  BY <1>1, <1>7 DEF Begin
<1>8. ASSUME NEW c \in Callers, Crash(c) PROVE Unlisted'
  BY <1>1, <1>8 DEF Crash
<1>9. CASE Control \/ UNCHANGED vars
  BY <1>1, <1>9 DEF Control, vars
<1> QED
  BY <1>2, <1>3, <1>4, <1>5, <1>6, <1>7, <1>8, <1>9 DEF Next

(* What is read from Hermes is a cause, if it is going to fail the turn: a   *)
(* run that is merely not listed yet fails nothing.                          *)
LEMMA FetchCauses ==
  ASSUME Types, Causes, Unlisted, NEW f \in Callers, Fetch(f)
  PROVE  Causes'
<1> DEFINE t == call[f].turn
<1>1. /\ call[f] \in CallType /\ t \in Turns /\ call[f].was \in BOOLEAN
      /\ call[f].age \in 0..2 /\ age[t] \in 0..2 /\ call[f].age <= age[t] /\ msg[t].run
  BY DEF Fetch, Types, TypeOK, Fit, CallType, Causes, OnRuns
<1>2. UNCHANGED <<msg, hrun, age, excused>>
  BY DEF Fetch
<1>3. CASE Leave(f)
  BY <1>2, <1>3, HarmlessLeave
<1>4. CASE ~Leave(f)
  <2> DEFINE seen == Lookup(t)
  <2>1. LET v == Verdict(call[f].was, call[f].age, seen)
            pc == IF v.msg = "keep" THEN "ledger" ELSE "message"
        IN  call' = [call EXCEPT ![f] = IF v = Nothing THEN Idle ELSE [In(pc, t) EXCEPT !.out = v]]
    BY <1>4 DEF Fetch
  <2>2. seen = hrun[t] \/ (seen = "missing" /\ hrun[t] = "accepted")
    BY DEF Lookup
  <2> HIDE DEF seen
  <2> DEFINE v == Verdict(call[f].was, call[f].age, seen)
             pc == IF v.msg = "keep" THEN "ledger" ELSE "message"
             a == [In(pc, t) EXCEPT !.out = v]
  <2>3. seen \in RunStates \cup {"missing"}
    BY <1>1, <2>2 DEF Types, TypeOK
  <2>4. v.msg = "failed" => \/ seen \in {"missing", "gone"} /\ call[f].age >= 1
                            \/ seen = "failed" \/ call[f].age = 2
    BY <1>1, <2>3, VerdictType
  <2>5. v.msg = "failed" => Caused(t)
    <3>1. seen = "missing" /\ call[f].age >= 1 => t \in excused
      <4>1. hrun[t] \in RunStates
        BY <1>1 DEF Types, TypeOK
      <4>2. seen = "missing" => hrun[t] = "accepted"
        BY <2>2, <4>1 DEF RunStates, Answers
      <4> QED
        BY <1>1, <4>2 DEF Unlisted
    <3>2. call[f].age = 2 => age[t] = 2
      BY <1>1
    <3> QED
      BY <2>2, <2>4, <3>1, <3>2 DEF Caused
  <2>6. call' = [call EXCEPT ![f] = IF v = Nothing THEN Idle ELSE a]
    BY <2>1
  <2> HIDE DEF v
  <2>7. a.pc = pc /\ a.turn = t /\ a.out = v
    BY DEF In, Idle
  <2> HIDE DEF a
  <2>8. CASE v = Nothing \/ pc = "ledger"
    <3>1. (IF v = Nothing THEN Idle ELSE a).pc \in {"idle", "ledger"}
      BY <2>7, <2>8 DEF Idle
    <3> QED
      BY <1>2, <2>6, <3>1, Harmless
  <2>9. CASE v # Nothing /\ pc = "message"
    <3>1. \A d \in Callers : call'[d] = IF d = f THEN a ELSE call[d]
      BY <2>6, <2>9 DEF Types, TypeOK
    <3>2. Untouched' /\ Failures'
      BY <1>2 DEF Causes, Untouched, Failures, Caused
    <3>3. OneStart'
      BY <1>2, <2>7, <2>9, <3>1 DEF Causes, OneStart, Starting
    <3>4. OnRuns'
      BY <1>1, <1>2, <2>5, <2>7, <2>9, <3>1 DEF Causes, OnRuns, Caused
    <3> QED
      BY <3>2, <3>3, <3>4 DEF Causes
  <2> QED
    BY <2>8, <2>9
<1> QED
  BY <1>3, <1>4

LEMMA CausesStep ==
  ASSUME Types, Causes, Unlisted, [Next]_vars
  PROVE  Causes'
<1>1. ASSUME NEW c \in Callers, Post(c) \/ Bind(c) PROVE Causes'
  BY <1>1, PostCauses, BindCauses
<1>2. ASSUME NEW u \in Users, NEW t \in Turns, Send(u, t) PROVE Causes'
  <2>1. In("post", t).pc = "post" /\ In("post", t).turn = t /\ u \in Callers
    BY DEF In, Idle, Callers
  <2> QED
    BY <1>2, <2>1, Created DEF Send
<1>3. ASSUME NEW u \in Users, NEW t \in Turns, CallStop(u, t) PROVE Causes'
  BY <1>3, StopCauses
<1>4. ASSUME NEW u \in Callers, WriteStopped(u) PROVE Causes'
  <2>1. PICK t \in Turns : t = call[u].turn /\ t \in excused
    BY <1>4 DEF WriteStopped, Types, Fit, Causes, OnRuns
  <2>2. \A d \in Callers : call'[d] = call[d] \/ call'[d] = Idle
    BY <1>4 DEF WriteStopped, Leave, Types, TypeOK
  <2>3. SetStatus(t, "failed") /\ Caused(t)' /\ UNCHANGED <<hrun, age, excused>>
    BY <1>4, <2>1 DEF WriteStopped, Caused
  <2> QED
    BY <2>1, <2>2, <2>3, Written DEF Idle
<1>5. ASSUME NEW t \in Turns, List(t) PROVE Causes'
  BY <1>5, Written DEF List, Caused
<1>6. ASSUME NEW f \in Finalizers, NEW t \in Turns, Begin(f, t) PROVE Causes'
  BY <1>6, BeginCauses
<1>7. ASSUME NEW f \in Callers, Fetch(f) PROVE Causes'
  BY <1>7, FetchCauses
<1>8. ASSUME NEW f \in Callers, WriteMessage(f) PROVE Causes'
  <2>1. PICK t \in Turns, st \in {"waiting_approval", "completed", "failed"} :
           t = call[f].turn /\ st = call[f].out.msg /\ msg[t].run
    BY <1>8 DEF WriteMessage, Types, TypeOK, Fit, CallType, OutcomeType, Causes, OnRuns
  <2>2. st = "failed" => Caused(t)
    BY <1>8, <2>1 DEF WriteMessage, Causes, OnRuns
  <2>3. UNCHANGED <<hrun, age, excused>> /\ SetStatus(t, st)
    BY <1>8, <2>1 DEF WriteMessage
  <2>4. \A d \in Callers : call'[d] = call[d] \/ call'[d].pc = "ledger"
    BY <1>8 DEF WriteMessage, Goto, Types, TypeOK, CallType
  <2>5. \A d \in Callers : call'[d].pc = "post" => call'[d].turn # t
    BY <2>1, <2>4 DEF Causes, OneStart, Starting
  <2>6. st = "failed" => Caused(t)'
    BY <2>2, <2>3 DEF Caused
  <2> QED
    BY <2>1, <2>3, <2>4, <2>5, <2>6, Written
<1>9. ASSUME NEW f \in Callers, WriteLedger(f) PROVE Causes'
  BY <1>9, HarmlessPc, HarmlessLeave DEF WriteLedger
<1>10. ASSUME NEW f \in Callers, ReadGoal(f) PROVE Causes'
  <2>1. [call[f] EXCEPT !.pc = "advance", !.goal = goal].pc = "advance"
    BY DEF Types, TypeOK, CallType
  <2>2. \/ Leave(f)
        \/ call' = [call EXCEPT ![f] = [call[f] EXCEPT !.pc = "advance", !.goal = goal]]
    BY <1>10 DEF ReadGoal, Types, TypeOK
  <2> QED
    BY <1>10, <2>1, <2>2, Harmless, HarmlessLeave DEF ReadGoal
<1>11. ASSUME NEW f \in Callers, Advance(f) PROVE Causes'
  <2> DEFINE g == Advanced(call[f].goal, call[f].out.reply, call[f].turn)
             a == IF g.status = "active" THEN [In("create", None) EXCEPT !.goal = g] ELSE Idle
  <2>1. call' = [call EXCEPT ![f] = a] /\ UNCHANGED <<msg, hrun, age, excused>>
    BY <1>11 DEF Advance
  <2> HIDE DEF g
  <2>2. a.pc \in {"create", "idle"}
    BY DEF In, Idle
  <2> HIDE DEF a
  <2> QED
    BY <2>1, <2>2, Harmless
<1>12. ASSUME NEW f \in Callers, NEW t \in Turns, Continue(f, t) PROVE Causes'
  <2>1. /\ [call[f] EXCEPT !.pc = "post", !.turn = t].pc = "post"
        /\ [call[f] EXCEPT !.pc = "post", !.turn = t].turn = t
    BY DEF Types, TypeOK, CallType
  <2>2. call' = [call EXCEPT ![f] = [call[f] EXCEPT !.pc = "post", !.turn = t]]
    BY <1>12 DEF Continue, Types, TypeOK
  <2> QED
    BY <1>12, <2>1, <2>2, Created DEF Continue
<1>13. ASSUME NEW f \in Callers, GiveUp(f) \/ WriteGoal(f) PROVE Causes'
  BY <1>13, HarmlessLeave DEF GiveUp, WriteGoal
<1>14. ASSUME NEW t \in Turns, HermesStep(t) PROVE Causes'
  <2>1. \A s \in Turns : /\ age[s] <= age'[s] /\ age'[s] \in 0..2
                         /\ hrun[s] \in {"none", "failed", "gone"} => hrun'[s] = hrun[s]
    BY <1>14 DEF HermesStep, Types, TypeOK
  <2> QED
    BY <1>14, <2>1, Passed DEF HermesStep
<1>15. ASSUME NEW t \in Turns, Forget(t) PROVE Causes'
  <2>1. \A s \in Turns : /\ age[s] <= age'[s] /\ age'[s] \in 0..2
                         /\ hrun'[s] = hrun[s] \/ (hrun[s] # "none" /\ hrun'[s] = "gone")
    BY <1>15 DEF Forget, Types, TypeOK
  <2> QED
    BY <1>15, <2>1, Passed DEF Forget
<1>16. ASSUME NEW t \in Turns, Tick(t) PROVE Causes'
  <2>1. \A s \in Turns : /\ age[s] <= age'[s] /\ age'[s] \in 0..2 /\ hrun'[s] = hrun[s]
    BY <1>16 DEF Tick, Types, TypeOK
  <2> QED
    BY <1>16, <2>1, Passed DEF Tick
<1>17. CASE Control \/ UNCHANGED vars
  <2>1. UNCHANGED <<msg, hrun, age, call, excused>>
    BY <1>17 DEF Control, vars
  <2> QED
    BY <2>1 DEF Causes, Untouched, OneStart, Starting, OnRuns, Failures, Caused
<1>18. ASSUME NEW c \in Callers, Crash(c) PROVE Causes'
  BY <1>18, HarmlessLeave DEF Crash
<1> QED
  BY <1>1, <1>2, <1>3, <1>4, <1>5, <1>6, <1>7, <1>8, <1>9, <1>10, <1>11, <1>12, <1>13, <1>14,
     <1>15, <1>16, <1>17, <1>18 DEF Next, Step

(* No turn fails because it was looked for too early: there is a run that    *)
(* failed or was lost, a timeout, a user or a start that came to nothing.    *)
THEOREM TurnsFailForCause == Spec => []FailsForCause
<1>1. Init => Types /\ Causes /\ Unlisted
  BY TypeInit, CausesInit DEF Init, Unlisted
<1>2. Types /\ Causes /\ Unlisted /\ [Next]_vars => (Types /\ Causes /\ Unlisted)'
  BY TypeStep, CausesStep, UnlistedStep
<1>3. Causes => FailsForCause
  BY DEF Causes, Failures, Caused, FailsForCause
<1> QED
  BY <1>1, <1>2, <1>3, PTL DEF Spec

=============================================================================
