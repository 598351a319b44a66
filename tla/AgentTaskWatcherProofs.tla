------------------------ MODULE AgentTaskWatcherProofs ------------------------
(* What holds of AgentTaskWatcher for every value of the constants that its *)
(* assumptions allow: documents, calls and counters keep their types, the   *)
(* load of a replica counts its calls, a deferred task is always woken, a   *)
(* task becomes done only on evidence that passed; while the sweeps keep to *)
(* one process each and no owner stalls, a task has one owner; and, while   *)
(* nobody asks for a new run, a task has one live run, in one process and,  *)
(* where no answer to a post is lost, in many.                              *)
EXTENDS AgentTaskWatcher, FiniteSetTheorems, TLAPS

-----------------------------------------------------------------------------
(* The documents.                                                           *)

Statuses == {"pending", "awaiting-input", "blocked"} \cup Working

(* Moving a card to a status changes nothing but status and column.         *)
LEMMA WithStatusFacts ==
    ASSUME NEW d \in TaskType, NEW s \in Statuses
    PROVE  LET e == WithStatus(d, s) IN
           /\ e \in TaskType
           /\ e.agent = s /\ e.retry = d.retry /\ e.notes = d.notes
           /\ e.reasons = d.reasons /\ e.output = d.output /\ e.evidence = d.evidence
           /\ e.review = d.review /\ e.backoff = d.backoff /\ e.beat = d.beat
           /\ e.col = IF s = "pending" THEN "todo"
                      ELSE IF s \in Working THEN "in_progress" ELSE "blocked"
<1> DEFINE col == CASE s = "pending" -> "todo"
                    [] s \in Working -> "in_progress"
                    [] OTHER -> "blocked"
<1>1. col = IF s = "pending" THEN "todo"
            ELSE IF s \in Working THEN "in_progress" ELSE "blocked"
  BY DEF Working
<1>2. WithStatus(d, s) = [d EXCEPT !.agent = s, !.col = col]
  BY DEF WithStatus
<1>3. col \in {"todo", "in_progress", "blocked"}
  BY <1>1
<1> HIDE DEF col
<1> QED
  BY <1>1, <1>2, <1>3 DEF TaskType, Statuses, Working

(* What a write may make of a document d: the retry count stays within the  *)
(* bound b, and nothing becomes done but by evidence that is good.          *)
Rewritten(d, e, b) ==
    /\ e \in TaskType
    /\ e.retry <= b
    /\ e.agent = "done" =>
          d.agent = "done" \/ (d.agent # "pending" /\ d.evidence = "good")

(* A field that is set to a value of its type.                              *)
LEMMA FieldTypes ==
    ASSUME NEW d \in TaskType
    PROVE  /\ \A b \in BOOLEAN : [d EXCEPT !.backoff = b] \in TaskType
           /\ \A b \in {"none", "fresh", "stale"} : [d EXCEPT !.beat = b] \in TaskType
           /\ \A o \in {"none", "summary", "human"} : [d EXCEPT !.output = o] \in TaskType
           /\ \A v \in {"none", "recoverable", "other"} : [d EXCEPT !.reasons = v] \in TaskType
           /\ \A v \in {"none", "pending", "approved", "changes-requested"} :
                 [d EXCEPT !.review = v] \in TaskType
           /\ \A k \in Attempts : [d EXCEPT !.retry = k] \in TaskType
           /\ \A n \in Nat : [d EXCEPT !.notes = n] \in TaskType
           /\ \A v \in Evidence : [d EXCEPT !.evidence = v] \in TaskType
           /\ d.notes + 1 \in Nat
BY DEF TaskType

(* A failed attempt goes back to To Do with the next number, or is blocked. *)
LEMMA AfterFailureFacts ==
    ASSUME NEW d \in TaskType, NEW call \in CallType, NEW transient \in BOOLEAN
    PROVE  LET e == AfterFailure(d, call, transient) IN
           /\ e \in TaskType
           /\ e.agent = IF MayRequeue(call, transient) THEN "pending" ELSE "blocked"
           /\ e.retry = IF MayRequeue(call, transient) THEN call.retry + 1 ELSE d.retry
           /\ e.output = "summary" /\ e.reasons = d.reasons /\ e.evidence = d.evidence
           /\ e.notes = d.notes /\ e.backoff = (d.backoff \/ MayRequeue(call, transient))
<1>1. CASE MayRequeue(call, transient)
  <2> DEFINE w == WithStatus(d, "pending")
             n == call.retry + 1
  <2>1. AfterFailure(d, call, transient) =
          [w EXCEPT !.retry = n, !.backoff = TRUE, !.beat = "none", !.output = "summary"]
    BY <1>1 DEF AfterFailure
  <2>2. /\ w \in TaskType /\ w.agent = "pending" /\ w.reasons = d.reasons
        /\ w.evidence = d.evidence /\ w.notes = d.notes
    BY WithStatusFacts DEF Statuses
  <2>3. n \in Attempts
    BY <1>1, SizesAssumption DEF MayRequeue, Attempts, MaxAttempt, CallType
  <2> HIDE DEF w, n
  <2>4. AfterFailure(d, call, transient) \in TaskType
    <3> DEFINE x == [w EXCEPT !.retry = n]
               y == [x EXCEPT !.backoff = TRUE]
               z == [y EXCEPT !.beat = "none"]
    <3>1. AfterFailure(d, call, transient) = [z EXCEPT !.output = "summary"]
      BY <2>1
    <3>2. x \in TaskType
      BY <2>2, <2>3, FieldTypes
    <3> HIDE DEF x
    <3>3. y \in TaskType
      BY <3>2, FieldTypes
    <3> HIDE DEF y
    <3>4. z \in TaskType
      BY <3>3, FieldTypes
    <3> HIDE DEF z
    <3> QED
      BY <3>1, <3>4, FieldTypes
  <2>5. /\ AfterFailure(d, call, transient).agent = "pending"
        /\ AfterFailure(d, call, transient).retry = n
        /\ AfterFailure(d, call, transient).output = "summary"
        /\ AfterFailure(d, call, transient).reasons = d.reasons
        /\ AfterFailure(d, call, transient).evidence = d.evidence
        /\ AfterFailure(d, call, transient).notes = d.notes
        /\ AfterFailure(d, call, transient).backoff = TRUE
    BY <2>1, <2>2 DEF TaskType
  <2> QED
    BY <1>1, <2>4, <2>5 DEF n
<1>2. CASE ~MayRequeue(call, transient)
  <2> DEFINE w == WithStatus(d, "blocked")
  <2>1. AfterFailure(d, call, transient) = [w EXCEPT !.beat = "none", !.output = "summary"]
    BY <1>2 DEF AfterFailure
  <2>2. /\ w \in TaskType /\ w.agent = "blocked" /\ w.reasons = d.reasons /\ w.retry = d.retry
        /\ w.evidence = d.evidence /\ w.notes = d.notes /\ w.backoff = d.backoff
    BY WithStatusFacts DEF Statuses
  <2> HIDE DEF w
  <2>3. AfterFailure(d, call, transient) \in TaskType
    <3> DEFINE x == [w EXCEPT !.beat = "none"]
    <3>1. AfterFailure(d, call, transient) = [x EXCEPT !.output = "summary"]
      BY <2>1
    <3>2. x \in TaskType
      BY <2>2, FieldTypes
    <3> HIDE DEF x
    <3> QED
      BY <3>1, <3>2, FieldTypes
  <2>4. /\ AfterFailure(d, call, transient).agent = "blocked"
        /\ AfterFailure(d, call, transient).retry = d.retry
        /\ AfterFailure(d, call, transient).output = "summary"
        /\ AfterFailure(d, call, transient).reasons = d.reasons
        /\ AfterFailure(d, call, transient).evidence = d.evidence
        /\ AfterFailure(d, call, transient).notes = d.notes
        /\ AfterFailure(d, call, transient).backoff = d.backoff
    BY <2>1, <2>2 DEF TaskType
  <2>5. d.backoff \in BOOLEAN
    BY DEF TaskType
  <2> QED
    BY <1>2, <2>3, <2>4, <2>5
<1> QED
  BY <1>1, <1>2
-----------------------------------------------------------------------------
(* Types, and what bounds the attempt numbers: every outside request may    *)
(* add one to a count that the watcher itself keeps within its budget.      *)
RetriesBounded ==
    /\ \A t \in Tasks : task[t].retry <= MaxRetries + moves
    /\ \A t \in Tasks : request[t] # None => request[t].retry < MaxRetries + moves
    /\ \A r \in Replicas, t \in Tasks :
          release[r][t] # None /\ ~Gated(t) => release[r][t].retry < MaxRetries

Types == TypeOK /\ RetriesBounded

TaskStepOK ==
    /\ DOMAIN task' = Tasks /\ task' = [t \in Tasks |-> task'[t]]
    /\ \A t \in Tasks : Rewritten(task[t], task'[t], MaxRetries + moves')

LimitStep == moves' \in 0..MaxMoves /\ faults' \in 0..MaxFaults /\ moves <= moves'

LEMMA LimitFacts ==
    ASSUME Types
    PROVE  /\ NoFault => LimitStep
           /\ \A kind : Fail(kind) => LimitStep
           /\ \A kind : Move(kind) => LimitStep /\ moves' = moves + 1
BY SizesAssumption
   DEF LimitStep, NoFault, limitVars, Fail, Move, CanMove, Types, TypeOK

LEMMA SameTasks ==
    ASSUME Types, LimitStep, task' = task
    PROVE  TaskStepOK
<1>1. \A t \in Tasks : task[t] \in TaskType /\ task[t].retry <= MaxRetries + moves /\ task[t].retry \in Nat
  BY DEF Types, TypeOK, RetriesBounded, TaskType, Attempts
<1>2. moves \in Nat /\ moves' \in Nat /\ moves <= moves' /\ MaxRetries \in Nat
  BY SizesAssumption DEF LimitStep, Types, TypeOK
<1>3. \A t \in Tasks : task[t].retry <= MaxRetries + moves'
  BY <1>1, <1>2
<1>4. DOMAIN task' = Tasks /\ task' = [t \in Tasks |-> task'[t]]
  BY DEF Types, TypeOK
<1> QED
  BY <1>1, <1>3, <1>4 DEF TaskStepOK, Rewritten

LEMMA WriteStep ==
    ASSUME Types, LimitStep, NEW t \in Tasks, NEW d, Write(t, d),
           Rewritten(task[t], d, MaxRetries + moves)
    PROVE  TaskStepOK
<1>1. \A u \in Tasks : task[u] \in TaskType /\ task[u].retry <= MaxRetries + moves /\ task[u].retry \in Nat
  BY DEF Types, TypeOK, RetriesBounded, TaskType, Attempts
<1>2. moves \in Nat /\ moves' \in Nat /\ moves <= moves' /\ MaxRetries \in Nat
  BY SizesAssumption DEF LimitStep, Types, TypeOK
<1>3. /\ task' = [task EXCEPT ![t] = d] /\ task \in [Tasks -> TaskType]
      /\ d \in TaskType /\ d.retry <= MaxRetries + moves /\ d.retry \in Nat
  BY DEF Write, Types, TypeOK, Rewritten, TaskType, Attempts
<1>4. \A u \in Tasks : task'[u] = IF u = t THEN d ELSE task[u]
  BY <1>3
<1>5. DOMAIN task' = Tasks /\ task' = [u \in Tasks |-> task'[u]]
  BY <1>3
<1>6. d.retry <= MaxRetries + moves' /\ \A u \in Tasks : task[u].retry <= MaxRetries + moves'
  BY <1>1, <1>2, <1>3
<1>7. Rewritten(task[t], d, MaxRetries + moves')
  BY <1>3, <1>6 DEF Rewritten
<1>8. \A u \in Tasks : Rewritten(task[u], task[u], MaxRetries + moves')
  BY <1>1, <1>6 DEF Rewritten
<1> QED
  BY <1>4, <1>5, <1>7, <1>8 DEF TaskStepOK

(* A failed attempt, an automatic requeue and a verdict stay within bounds. *)
LEMMA FailureRewritten ==
    ASSUME Types, NEW c \in Calls, NEW transient \in BOOLEAN
    PROVE  /\ Task(c) \in Tasks
           /\ Rewritten(task[Task(c)], AfterFailure(task[Task(c)], calls[c], transient),
                        MaxRetries + moves)
<1> DEFINE t == Task(c)
           d == task[t]
           e == AfterFailure(d, calls[c], transient)
<1>1. t \in Tasks /\ calls[c] \in CallType /\ d \in TaskType /\ d.retry <= MaxRetries + moves
  BY DEF Calls, Task, Types, TypeOK, RetriesBounded
<1>2. MayRequeue(calls[c], transient) => calls[c].retry + 1 <= MaxRetries
  BY <1>1, SizesAssumption DEF MayRequeue, CallType, Attempts
<1>3. /\ e \in TaskType
      /\ e.agent = IF MayRequeue(calls[c], transient) THEN "pending" ELSE "blocked"
      /\ e.retry = IF MayRequeue(calls[c], transient) THEN calls[c].retry + 1 ELSE d.retry
  BY <1>1, AfterFailureFacts
<1>4. calls[c].retry \in Nat /\ moves \in Nat /\ MaxRetries \in Nat
  BY <1>1, SizesAssumption DEF CallType, Attempts, Types, TypeOK
<1> HIDE DEF e, d, t
<1>5. e.retry <= MaxRetries + moves
  BY <1>1, <1>2, <1>3, <1>4
<1>6. Rewritten(d, e, MaxRetries + moves)
  BY <1>3, <1>5 DEF Rewritten
<1> QED
  BY <1>1, <1>6 DEF e, d, t

LEMMA ZeroRewritten ==
    ASSUME Types, NEW d, NEW e \in TaskType, e.agent # "done", e.retry = 0
    PROVE  Rewritten(d, e, MaxRetries + moves)
BY SizesAssumption DEF Rewritten, Types, TypeOK

LEMMA KeptRewritten ==
    ASSUME Types, NEW t \in Tasks, NEW e \in TaskType, e.retry = task[t].retry,
           e.agent = "done" => task[t].agent = "done"
    PROVE  Rewritten(task[t], e, MaxRetries + moves)
BY DEF Rewritten, Types, RetriesBounded

(* The documents that the other actions write.                              *)
LEMMA CallRewrites ==
    ASSUME Types, NEW c \in Calls
    PROVE  LET t == Task(c)
               d == task[t]
               b == MaxRetries + moves
           IN
           /\ Rewritten(d, [WithStatus(d, "picked-up") EXCEPT !.beat = "fresh"], b)
           /\ Rewritten(d, [WithStatus(d, "in-progress") EXCEPT !.beat = "fresh"], b)
           /\ Rewritten(d, [WithStatus(d, "blocked") EXCEPT !.output = "summary"], b)
           /\ Rewritten(d, [WithStatus(d, "awaiting-input") EXCEPT !.output = "human"], b)
           /\ Rewritten(d, [d EXCEPT !.beat = "fresh"], b)
           /\ Rewritten(d, [d EXCEPT !.reasons = "other"], b)
<1> DEFINE t == Task(c)
           d == task[t]
<1>1. t \in Tasks /\ d \in TaskType
  BY DEF Calls, Task, Types, TypeOK
<1>2. \A s \in Statuses : /\ WithStatus(d, s) \in TaskType
                          /\ WithStatus(d, s).agent = s
                          /\ WithStatus(d, s).retry = d.retry
  BY <1>1, WithStatusFacts
<1>3. ASSUME NEW s \in Statuses
      PROVE  /\ Rewritten(d, [WithStatus(d, s) EXCEPT !.beat = "fresh"], MaxRetries + moves)
             /\ \A o \in {"none", "summary", "human"} :
                   Rewritten(d, [WithStatus(d, s) EXCEPT !.output = o], MaxRetries + moves)
  <2> DEFINE w == WithStatus(d, s)
  <2>1. w \in TaskType /\ w.agent = s /\ w.retry = d.retry /\ s # "done"
    BY <1>2 DEF Statuses, Working
  <2> HIDE DEF w, t
  <2>2. /\ [w EXCEPT !.beat = "fresh"] \in TaskType
        /\ [w EXCEPT !.beat = "fresh"].agent # "done"
        /\ [w EXCEPT !.beat = "fresh"].retry = d.retry
    BY <2>1 DEF TaskType
  <2>3. ASSUME NEW o \in {"none", "summary", "human"}
        PROVE  /\ [w EXCEPT !.output = o] \in TaskType
               /\ [w EXCEPT !.output = o].agent # "done"
               /\ [w EXCEPT !.output = o].retry = d.retry
    BY <2>1, <2>3 DEF TaskType
  <2> QED
    BY <1>1, <2>2, <2>3, KeptRewritten DEF w
<1>4. /\ [d EXCEPT !.beat = "fresh"] \in TaskType
      /\ [d EXCEPT !.beat = "fresh"].agent = d.agent
      /\ [d EXCEPT !.beat = "fresh"].retry = d.retry
      /\ [d EXCEPT !.reasons = "other"] \in TaskType
      /\ [d EXCEPT !.reasons = "other"].agent = d.agent
      /\ [d EXCEPT !.reasons = "other"].retry = d.retry
  <2> HIDE DEF d
  <2> QED
    BY <1>1 DEF TaskType
<1>5. /\ Rewritten(d, [d EXCEPT !.beat = "fresh"], MaxRetries + moves)
      /\ Rewritten(d, [d EXCEPT !.reasons = "other"], MaxRetries + moves)
  BY <1>1, <1>4, KeptRewritten
<1> QED
  BY <1>3, <1>5 DEF Statuses, Working

(* What the three verdicts on a completion write.                          *)
LEMMA VerdictFacts ==
    ASSUME NEW d \in TaskType, NEW s \in SeenType, NEW t
    PROVE  /\ s.retry < MaxRetries =>
                /\ RequeueCompletion(d, s) \in TaskType
                /\ RequeueCompletion(d, s).agent = "pending"
                /\ RequeueCompletion(d, s).retry = s.retry + 1
                /\ RequeueCompletion(d, s).backoff
           /\ \A v \in {"recoverable", "other"} :
                /\ BlockCompletion(d, v) \in TaskType
                /\ BlockCompletion(d, v).agent = "blocked"
                /\ BlockCompletion(d, v).retry = 0
                /\ BlockCompletion(d, v).output = "summary"
                /\ BlockCompletion(d, v).reasons = v
           /\ Complete(d, t) \in TaskType
           /\ Complete(d, t).agent = "done"
           /\ Complete(d, t).retry = 0
<1>0. \A w \in Statuses : WithStatus(d, w) \in TaskType /\ WithStatus(d, w).agent = w
  BY WithStatusFacts
<1>1. ASSUME s.retry < MaxRetries
      PROVE  /\ RequeueCompletion(d, s) \in TaskType
             /\ RequeueCompletion(d, s).agent = "pending"
             /\ RequeueCompletion(d, s).retry = s.retry + 1
             /\ RequeueCompletion(d, s).backoff
  <2> DEFINE w == WithStatus(d, "pending")
             n == s.retry + 1
             k == w.notes + 1
             x == [w EXCEPT !.retry = n, !.backoff = TRUE, !.beat = "none"]
  <2>1. RequeueCompletion(d, s) =
          [w EXCEPT !.retry = n, !.backoff = TRUE, !.beat = "none",
                    !.reasons = "recoverable", !.output = "summary", !.notes = k]
    BY DEF RequeueCompletion
  <2>2. n \in Attempts
    BY <1>1, SizesAssumption DEF SeenType, Attempts, MaxAttempt
  <2>3. w \in TaskType /\ w.agent = "pending" /\ k \in Nat
    BY <1>0 DEF Statuses, TaskType
  <2> HIDE DEF w, n, k
  <2>4. x \in TaskType
    BY <2>2, <2>3 DEF TaskType
  <2>5. RequeueCompletion(d, s) =
          [x EXCEPT !.reasons = "recoverable", !.output = "summary", !.notes = k]
    BY <2>1
  <2> HIDE DEF x
  <2>7. [x EXCEPT !.reasons = "recoverable", !.output = "summary"] \in TaskType
    <3> DEFINE y == [x EXCEPT !.reasons = "recoverable"]
    <3>1. y \in TaskType
      BY <2>4, FieldTypes
    <3> HIDE DEF y
    <3>2. [y EXCEPT !.output = "summary"] \in TaskType
      BY <3>1, FieldTypes
    <3> QED
      BY <3>2 DEF y
  <2>8. [[x EXCEPT !.reasons = "recoverable", !.output = "summary"] EXCEPT !.notes = k] \in TaskType
    BY <2>3, <2>7, FieldTypes
  <2>6. /\ RequeueCompletion(d, s).agent = "pending"
        /\ RequeueCompletion(d, s).retry = n
        /\ RequeueCompletion(d, s).backoff
    BY <2>1, <2>3 DEF TaskType
  <2> QED
    BY <2>5, <2>6, <2>8 DEF n
<1>2. ASSUME NEW v \in {"recoverable", "other"}
      PROVE  /\ BlockCompletion(d, v) \in TaskType
             /\ BlockCompletion(d, v).agent = "blocked"
             /\ BlockCompletion(d, v).retry = 0
             /\ BlockCompletion(d, v).output = "summary"
             /\ BlockCompletion(d, v).reasons = v
  <2> DEFINE w == WithStatus(d, "blocked")
             x == [w EXCEPT !.review = "changes-requested", !.retry = 0, !.backoff = FALSE]
  <2>1. BlockCompletion(d, v) =
          [w EXCEPT !.review = "changes-requested", !.retry = 0, !.backoff = FALSE,
                    !.beat = "none", !.output = "summary", !.reasons = v]
    BY DEF BlockCompletion
  <2>2. w \in TaskType /\ w.agent = "blocked" /\ 0 \in Attempts
    BY <1>0, SizesAssumption DEF Statuses, Attempts, MaxAttempt
  <2> HIDE DEF w
  <2>3. x \in TaskType
    BY <2>2 DEF TaskType
  <2>6. BlockCompletion(d, v) = [x EXCEPT !.beat = "none", !.output = "summary", !.reasons = v]
    BY <2>1
  <2> HIDE DEF x
  <2>4. BlockCompletion(d, v) \in TaskType
    <3> DEFINE y == [x EXCEPT !.beat = "none"]
               z == [y EXCEPT !.output = "summary"]
    <3>1. BlockCompletion(d, v) = [z EXCEPT !.reasons = v]
      BY <2>6
    <3>2. y \in TaskType
      BY <2>3, FieldTypes
    <3> HIDE DEF y
    <3>3. z \in TaskType
      BY <3>2, FieldTypes
    <3> HIDE DEF z
    <3> QED
      BY <1>2, <3>1, <3>3, FieldTypes
  <2>5. /\ BlockCompletion(d, v).agent = "blocked"
        /\ BlockCompletion(d, v).retry = 0
        /\ BlockCompletion(d, v).output = "summary"
        /\ BlockCompletion(d, v).reasons = v
    BY <2>1, <2>2 DEF TaskType
  <2> QED
    BY <2>4, <2>5
<1>3. /\ Complete(d, t) \in TaskType
      /\ Complete(d, t).agent = "done"
      /\ Complete(d, t).retry = 0
  <2> DEFINE col == IF t \in Reviewed THEN "review" ELSE "done"
             review == IF t \in Reviewed THEN "pending" ELSE "approved"
  <2>1. Complete(d, t) =
          [d EXCEPT !.agent = "done", !.col = col, !.review = review, !.retry = 0,
                    !.backoff = FALSE, !.beat = "none", !.reasons = "none", !.output = "summary"]
    BY DEF Complete
  <2>2. col \in {"review", "done"} /\ review \in {"pending", "approved"} /\ 0 \in Attempts
    BY SizesAssumption DEF Attempts, MaxAttempt
  <2> DEFINE x == [d EXCEPT !.agent = "done", !.col = col]
             y == [x EXCEPT !.review = review]
             z == [y EXCEPT !.retry = 0]
             v == [z EXCEPT !.backoff = FALSE]
             w == [v EXCEPT !.beat = "none"]
             e == [w EXCEPT !.reasons = "none"]
  <2>3. Complete(d, t) = [e EXCEPT !.output = "summary"]
    BY <2>1
  <2> HIDE DEF col, review
  <2>4. x \in TaskType
    BY <2>2 DEF TaskType
  <2>a. Complete(d, t).agent = "done" /\ Complete(d, t).retry = 0
    BY <2>1 DEF TaskType
  <2> HIDE DEF x
  <2>5. y \in TaskType
    BY <2>2, <2>4, FieldTypes
  <2> HIDE DEF y
  <2>6. z \in TaskType
    BY <2>2, <2>5, FieldTypes
  <2> HIDE DEF z
  <2>7. v \in TaskType
    BY <2>6, FieldTypes
  <2> HIDE DEF v
  <2>8. w \in TaskType
    BY <2>7, FieldTypes
  <2> HIDE DEF w
  <2>9. e \in TaskType
    BY <2>8, FieldTypes
  <2> HIDE DEF e
  <2> QED
    BY <2>3, <2>9, <2>a, FieldTypes
<1> QED
  BY <1>1, <1>2, <1>3

(* A verification that passes has seen good evidence; a transaction that    *)
(* completes the task finds it as it was seen.                              *)
LEMMA CompletionProven ==
    ASSUME NEW d \in TaskType, NEW s \in SeenType, NEW quoted \in BOOLEAN,
           Assess(s, FALSE, quoted) = "pass", Unchanged(s, d)
    PROVE  d.evidence = "good" /\ d.agent # "pending"
<1>1. s.evidence = d.evidence /\ s.agent = d.agent
  BY DEF Unchanged, Fingerprint
<1>2. s.evidence \in Evidence
  BY DEF SeenType
<1> DEFINE owned == s.agent \in Working \cup {"done"} \/ (s.agent = "blocked" /\ quoted)
<1>3. s.evidence # "none" /\ owned
  BY <1>2 DEF Assess, Evidence
<1>4. s.evidence = "good"
  BY <1>2, <1>3 DEF Assess, Evidence
<1> QED
  BY <1>1, <1>3, <1>4 DEF Working

LEMMA VerdictRewritten ==
    ASSUME Types, NEW c \in Calls, calls[c].pc = "verify"
    PROVE  /\ \A v \in {"recoverable", "other"} :
                 Rewritten(task[Task(c)],
                           IF v = "recoverable" /\ calls[c].seen.retry < MaxRetries
                           THEN RequeueCompletion(task[Task(c)], calls[c].seen)
                           ELSE BlockCompletion(task[Task(c)], v), MaxRetries + moves)
           /\ \A quoted \in BOOLEAN :
                 Assess(calls[c].seen, FALSE, quoted) = "pass" /\ Unchanged(calls[c].seen, task[Task(c)])
                 => Rewritten(task[Task(c)], Complete(task[Task(c)], Task(c)), MaxRetries + moves)
<1> DEFINE t == Task(c)
           d == task[t]
           s == calls[c].seen
<1>1. t \in Tasks /\ d \in TaskType /\ s \in SeenType
  BY DEF Calls, Task, Types, TypeOK, CallType
<1>2. moves \in Nat /\ MaxRetries \in Nat /\ s.retry \in Nat
  BY <1>1, SizesAssumption DEF Types, TypeOK, SeenType, Attempts
<1> HIDE DEF t, d, s
<1>3. ASSUME NEW v \in {"recoverable", "other"}
      PROVE  Rewritten(d, IF v = "recoverable" /\ s.retry < MaxRetries
                          THEN RequeueCompletion(d, s)
                          ELSE BlockCompletion(d, v), MaxRetries + moves)
  <2>1. CASE v = "recoverable" /\ s.retry < MaxRetries
    <3>1. s.retry + 1 <= MaxRetries + moves
      BY <1>2, <2>1
    <3> QED
      BY <1>1, <2>1, <3>1, VerdictFacts DEF Rewritten
  <2>2. CASE ~(v = "recoverable" /\ s.retry < MaxRetries)
    <3>1. BlockCompletion(d, v) \in TaskType /\ BlockCompletion(d, v).agent = "blocked"
          /\ BlockCompletion(d, v).retry = 0
      BY <1>1, <1>3, VerdictFacts
    <3>2. Rewritten(d, BlockCompletion(d, v), MaxRetries + moves)
      BY <3>1, ZeroRewritten
    <3> QED
      BY <2>2, <3>2
  <2> QED
    BY <2>1, <2>2
<1>4. ASSUME NEW quoted \in BOOLEAN, Assess(s, FALSE, quoted) = "pass", Unchanged(s, d)
      PROVE  Rewritten(d, Complete(d, t), MaxRetries + moves)
  <2>1. d.evidence = "good" /\ d.agent # "pending"
    BY <1>1, <1>4, CompletionProven
  <2>2. Complete(d, t) \in TaskType /\ Complete(d, t).agent = "done" /\ Complete(d, t).retry = 0
    BY <1>1, VerdictFacts
  <2> QED
    BY <1>2, <2>1, <2>2 DEF Rewritten
<1> QED
  BY <1>3, <1>4 DEF t, d, s

(* The writes of timers, sweeps and people.                                 *)
LEMMA OtherRewrites ==
    ASSUME Types, NEW t \in Tasks
    PROVE  LET d == task[t]
               b == MaxRetries + moves
           IN
           /\ Rewritten(d, [d EXCEPT !.backoff = FALSE], b)
           /\ Rewritten(d, [d EXCEPT !.beat = "stale"], b)
           /\ \A e \in Evidence : Rewritten(d, [d EXCEPT !.evidence = e], b)
           /\ d.agent = "done" => Rewritten(d, [d EXCEPT !.col = "done", !.review = "approved"], b)
           /\ Rewritten(d, [WithStatus(d, "pending") EXCEPT !.beat = "none"], b)
           /\ Rewritten(d, [WithStatus(d, "pending") EXCEPT !.beat = "none", !.notes = @ + 1], b)
           /\ Rewritten(d, [WithStatus(d, "pending") EXCEPT !.review = "changes-requested",
                               !.beat = "none", !.notes = @ + 1], b)
           /\ Rewritten(d, ClosedOut(d), b)
<1> DEFINE d == task[t]
           w == WithStatus(d, "pending")
<1>1. d \in TaskType
  BY DEF Types, TypeOK
<1>2. w \in TaskType /\ w.agent = "pending" /\ w.retry = d.retry /\ w.notes + 1 \in Nat
  BY <1>1, WithStatusFacts, FieldTypes DEF Statuses
<1>3. \A e : e \in TaskType /\ e.retry = d.retry /\ (e.agent = "done" => d.agent = "done")
             => Rewritten(d, e, MaxRetries + moves)
  BY KeptRewritten
<1> HIDE DEF d, w
<1>4. /\ Rewritten(d, [d EXCEPT !.backoff = FALSE], MaxRetries + moves)
      /\ Rewritten(d, [d EXCEPT !.beat = "stale"], MaxRetries + moves)
      /\ \A e \in Evidence : Rewritten(d, [d EXCEPT !.evidence = e], MaxRetries + moves)
  <2>1. /\ [d EXCEPT !.backoff = FALSE] \in TaskType
        /\ [d EXCEPT !.beat = "stale"] \in TaskType
        /\ \A e \in Evidence : [d EXCEPT !.evidence = e] \in TaskType
    BY <1>1, FieldTypes
  <2>2. /\ [d EXCEPT !.backoff = FALSE].retry = d.retry
        /\ [d EXCEPT !.backoff = FALSE].agent = d.agent
        /\ [d EXCEPT !.beat = "stale"].retry = d.retry
        /\ [d EXCEPT !.beat = "stale"].agent = d.agent
        /\ \A e : /\ [d EXCEPT !.evidence = e].retry = d.retry
                  /\ [d EXCEPT !.evidence = e].agent = d.agent
    BY <1>1 DEF TaskType
  <2> QED
    BY <1>3, <2>1, <2>2
<1>5. ASSUME d.agent = "done"
      PROVE  Rewritten(d, [d EXCEPT !.col = "done", !.review = "approved"], MaxRetries + moves)
  <2>1. /\ [d EXCEPT !.col = "done", !.review = "approved"] \in TaskType
        /\ [d EXCEPT !.col = "done", !.review = "approved"].retry = d.retry
    BY <1>1 DEF TaskType
  <2> QED
    BY <1>3, <1>5, <2>1
<1>6. /\ Rewritten(d, [w EXCEPT !.beat = "none"], MaxRetries + moves)
      /\ Rewritten(d, [w EXCEPT !.beat = "none", !.notes = @ + 1], MaxRetries + moves)
      /\ Rewritten(d, [w EXCEPT !.review = "changes-requested", !.beat = "none",
                                !.notes = @ + 1], MaxRetries + moves)
  <2> DEFINE n == w.notes + 1
             x == [w EXCEPT !.beat = "none"]
             y == [w EXCEPT !.review = "changes-requested", !.beat = "none"]
  <2>1. /\ [w EXCEPT !.beat = "none", !.notes = @ + 1] = [x EXCEPT !.notes = n]
        /\ [w EXCEPT !.review = "changes-requested", !.beat = "none", !.notes = @ + 1]
             = [y EXCEPT !.notes = n]
    OBVIOUS
  <2>2. /\ x \in TaskType /\ x.agent = "pending" /\ x.retry = d.retry
        /\ y \in TaskType /\ y.agent = "pending" /\ y.retry = d.retry
    BY <1>2 DEF TaskType
  <2>3. n \in Nat
    BY <1>2
  <2> HIDE DEF n, x, y
  <2>4. [x EXCEPT !.notes = n] \in TaskType /\ [y EXCEPT !.notes = n] \in TaskType
    BY <2>2, <2>3, FieldTypes
  <2>5. /\ [x EXCEPT !.notes = n].agent = "pending" /\ [x EXCEPT !.notes = n].retry = d.retry
        /\ [y EXCEPT !.notes = n].agent = "pending" /\ [y EXCEPT !.notes = n].retry = d.retry
    BY <2>2 DEF TaskType
  <2>6. Rewritten(d, x, MaxRetries + moves)
    BY <1>3, <2>2
  <2>7. /\ Rewritten(d, [x EXCEPT !.notes = n], MaxRetries + moves)
        /\ Rewritten(d, [y EXCEPT !.notes = n], MaxRetries + moves)
    BY <1>3, <2>4, <2>5
  <2> QED
    BY <2>1, <2>6, <2>7 DEF x
<1>7. Rewritten(d, ClosedOut(d), MaxRetries + moves)
  <2> DEFINE v == WithStatus(d, "blocked")
             o == IF v.output = "human" THEN "human" ELSE "summary"
             x == [v EXCEPT !.review = "changes-requested", !.beat = "none"]
  <2>1. ClosedOut(d) = [x EXCEPT !.reasons = "other", !.output = o]
    BY DEF ClosedOut
  <2>2. v \in TaskType /\ v.agent = "blocked" /\ v.retry = d.retry /\ o \in {"human", "summary"}
    BY <1>1, WithStatusFacts DEF Statuses
  <2> HIDE DEF v, o
  <2>3. x \in TaskType /\ x.agent = "blocked" /\ x.retry = d.retry
    BY <2>2 DEF TaskType
  <2> HIDE DEF x
  <2> DEFINE y == [x EXCEPT !.reasons = "other"]
  <2>5. y \in TaskType
    BY <2>3, FieldTypes
  <2>6. y.agent = "blocked" /\ y.retry = d.retry
    BY <2>3 DEF TaskType
  <2>4. /\ [x EXCEPT !.reasons = "other", !.output = o] \in TaskType
        /\ [x EXCEPT !.reasons = "other", !.output = o].agent = "blocked"
        /\ [x EXCEPT !.reasons = "other", !.output = o].retry = d.retry
    <3>1. [x EXCEPT !.reasons = "other", !.output = o] = [y EXCEPT !.output = o]
      OBVIOUS
    <3> HIDE DEF y
    <3>2. [y EXCEPT !.output = o] \in TaskType
      BY <2>2, <2>5, FieldTypes
    <3>3. [y EXCEPT !.output = o].agent = "blocked" /\ [y EXCEPT !.output = o].retry = d.retry
      BY <2>5, <2>6 DEF TaskType
    <3> QED
      BY <3>1, <3>2, <3>3
  <2> QED
    BY <1>3, <2>1, <2>4
<1> QED
  BY <1>4, <1>5, <1>6, <1>7 DEF d, w

(* A card that a person sends back to To Do, and one that the release sweep *)
(* frees for its missing evidence, are given the next attempt number.       *)
LEMMA RequeuedRewritten ==
    ASSUME Types, NEW t \in Tasks, request[t] # None
    PROVE  Rewritten(task[t], Requeued(task[t], request[t].retry), MaxRetries + moves)
<1> DEFINE d == task[t]
           w == WithStatus(d, "pending")
           k == request[t].retry + 1
           n == w.notes + 1
           x == [w EXCEPT !.review = "changes-requested", !.output = "none", !.beat = "none"]
           y == [x EXCEPT !.backoff = FALSE, !.evidence = "none", !.reasons = "none"]
<1>1. d \in TaskType /\ request[t].retry \in Nat /\ request[t].retry < MaxRetries + moves
      /\ moves \in 0..MaxMoves /\ MaxRetries \in Nat /\ MaxMoves \in Nat
  BY SizesAssumption DEF Types, TypeOK, RetriesBounded, Attempts
<1>2. w \in TaskType /\ w.agent = "pending" /\ n \in Nat
  BY <1>1, WithStatusFacts, FieldTypes DEF Statuses
<1>3. k \in Attempts /\ k <= MaxRetries + moves
  BY <1>1 DEF Attempts, MaxAttempt
<1>4. Requeued(d, request[t].retry) = [[y EXCEPT !.retry = k] EXCEPT !.notes = n]
  BY <1>2 DEF Requeued, TaskType
<1> HIDE DEF d, w, k, n
<1>5. x \in TaskType /\ x.agent = "pending"
  BY <1>2 DEF TaskType
<1> HIDE DEF x
<1>6. y \in TaskType /\ y.agent = "pending"
  BY <1>5 DEF TaskType, Evidence
<1> HIDE DEF y
<1>7. [y EXCEPT !.retry = k] \in TaskType
  BY <1>3, <1>6, FieldTypes
<1>8. [[y EXCEPT !.retry = k] EXCEPT !.notes = n] \in TaskType
  BY <1>2, <1>7, FieldTypes
<1>9. /\ [[y EXCEPT !.retry = k] EXCEPT !.notes = n].agent = "pending"
      /\ [[y EXCEPT !.retry = k] EXCEPT !.notes = n].retry = k
  BY <1>6 DEF TaskType
<1>10. Rewritten(d, [[y EXCEPT !.retry = k] EXCEPT !.notes = n], MaxRetries + moves)
  BY <1>3, <1>8, <1>9 DEF Rewritten
<1> QED
  BY <1>4, <1>10 DEF d

LEMMA ReleasedRewritten ==
    ASSUME Types, NEW r \in Replicas, NEW t \in Tasks, release[r][t] # None, ~Gated(t)
    PROVE  Rewritten(task[t],
              [WithStatus(task[t], "pending") EXCEPT !.beat = "none", !.notes = @ + 1,
                  !.retry = release[r][t].retry + 1, !.backoff = TRUE,
                  !.reasons = "none", !.review = "none"], MaxRetries + moves)
<1> DEFINE d == task[t]
           w == WithStatus(d, "pending")
           k == release[r][t].retry + 1
           n == w.notes + 1
           x == [w EXCEPT !.beat = "none", !.backoff = TRUE]
           y == [x EXCEPT !.reasons = "none", !.review = "none"]
<1>1. d \in TaskType /\ release[r][t].retry \in Nat /\ release[r][t].retry < MaxRetries
      /\ moves \in 0..MaxMoves /\ MaxRetries \in Nat /\ MaxMoves \in Nat
  BY SizesAssumption DEF Types, TypeOK, RetriesBounded, Attempts, Snapshot
<1>2. w \in TaskType /\ w.agent = "pending" /\ n \in Nat
  BY <1>1, WithStatusFacts, FieldTypes DEF Statuses
<1>3. k \in Attempts /\ k <= MaxRetries + moves
  BY <1>1 DEF Attempts, MaxAttempt
<1>4. [w EXCEPT !.beat = "none", !.notes = @ + 1, !.retry = k, !.backoff = TRUE,
                !.reasons = "none", !.review = "none"]
        = [[y EXCEPT !.retry = k] EXCEPT !.notes = n]
  BY <1>2 DEF TaskType
<1> HIDE DEF d, w, k, n
<1>5. x \in TaskType /\ x.agent = "pending"
  BY <1>2 DEF TaskType
<1> HIDE DEF x
<1>6. y \in TaskType /\ y.agent = "pending"
  BY <1>5 DEF TaskType
<1> HIDE DEF y
<1>7. [y EXCEPT !.retry = k] \in TaskType
  BY <1>3, <1>6, FieldTypes
<1>8. [[y EXCEPT !.retry = k] EXCEPT !.notes = n] \in TaskType
  BY <1>2, <1>7, FieldTypes
<1>9. /\ [[y EXCEPT !.retry = k] EXCEPT !.notes = n].agent = "pending"
      /\ [[y EXCEPT !.retry = k] EXCEPT !.notes = n].retry = k
  BY <1>6 DEF TaskType
<1>10. Rewritten(d, [[y EXCEPT !.retry = k] EXCEPT !.notes = n], MaxRetries + moves)
  BY <1>3, <1>8, <1>9 DEF Rewritten
<1> QED
  BY <1>4, <1>10 DEF d, w, k

(* Every step rewrites task documents as Rewritten says.                    *)
LEMMA TaskSteps == Types /\ [Next]_vars => TaskStepOK /\ LimitStep
<1> SUFFICES ASSUME Types, [Next]_vars
             PROVE  TaskStepOK /\ LimitStep
  OBVIOUS
<1>l. /\ UNCHANGED limitVars => LimitStep
      /\ \A kind : Fail(kind) => LimitStep
      /\ \A kind : Move(kind) => LimitStep
  BY LimitFacts DEF NoFault
<1>1. ASSUME NEW c \in Calls,
             \/ DepsChecked(c) \/ Post(c) \/ PostLost(c) \/ ReadCompletion(c)
      PROVE  TaskStepOK /\ LimitStep
  <2>1. LimitStep /\ task' = task
    BY <1>1, <1>l DEF DepsChecked, Post, PostLost, ReadCompletion
  <2> QED
    BY <2>1, SameTasks
<1>2. ASSUME NEW c \in Calls, ClaimTask(c) \/ Route(c) \/ NoConfig(c) \/ AwaitInput(c) \/ Beat(c)
      PROVE  TaskStepOK /\ LimitStep
  <2>1. LimitStep
    BY <1>2, <1>l DEF ClaimTask, Route, NoConfig, AwaitInput, Beat
  <2>2. Task(c) \in Tasks
    BY DEF Calls, Task
  <2>3. \/ task' = task
        \/ \E d : Write(Task(c), d) /\ Rewritten(task[Task(c)], d, MaxRetries + moves)
    BY <1>2, CallRewrites DEF ClaimTask, Route, NoConfig, AwaitInput, Beat
  <2> QED
    BY <2>1, <2>2, <2>3, WriteStep, SameTasks
<1>3. ASSUME NEW c \in Calls,
             \/ RouteFails(c) \/ PostConflicts(c) \/ PostCut(c) \/ Reconcile(c)
             \/ ReconcileFails(c) \/ RunFailed(c) \/ PollFails(c)
      PROVE  TaskStepOK /\ LimitStep
  <2>1. LimitStep
    BY <1>3, <1>l DEF RouteFails, PostConflicts, PostCut, Reconcile, ReconcileFails,
                      RunFailed, PollFails
  <2>2. \/ task' = task
        \/ \E transient \in BOOLEAN :
              Write(Task(c), AfterFailure(task[Task(c)], calls[c], transient))
    BY <1>3 DEF RouteFails, PostConflicts, PostCut, Reconcile, ReconcileFails,
                RunFailed, PollFails
  <2>3. CASE task' = task
    BY <2>1, <2>3, SameTasks
  <2>4. ASSUME NEW transient \in BOOLEAN,
               Write(Task(c), AfterFailure(task[Task(c)], calls[c], transient))
        PROVE  TaskStepOK
    BY <2>1, <2>4, FailureRewritten, WriteStep
  <2> QED
    BY <2>1, <2>2, <2>3, <2>4
<1>4. ASSUME NEW c \in Calls, RejectCompletion(c)
      PROVE  TaskStepOK /\ LimitStep
  <2>1. LimitStep /\ calls[c].pc = "verify" /\ Task(c) \in Tasks /\ calls[c].seen \in SeenType
    BY <1>4, <1>l DEF RejectCompletion, Calls, Task, Types, TypeOK, CallType
  <2>2. PICK unresolved \in BOOLEAN, quoted \in BOOLEAN :
           LET outcome == Assess(calls[c].seen, unresolved, quoted) IN
           /\ outcome # "pass"
           /\ Write(Task(c), IF outcome = "recoverable" /\ calls[c].seen.retry < MaxRetries
                             THEN RequeueCompletion(task[Task(c)], calls[c].seen)
                             ELSE BlockCompletion(task[Task(c)], outcome))
    BY <1>4 DEF RejectCompletion
  <2>3. Assess(calls[c].seen, unresolved, quoted) \in {"recoverable", "other", "pass"}
    BY <2>1 DEF Assess, SeenType, Evidence
  <2> QED
    BY <2>1, <2>2, <2>3, VerdictRewritten, WriteStep
<1>5. ASSUME NEW c \in Calls, AcceptCompletion(c)
      PROVE  TaskStepOK /\ LimitStep
  <2>1. LimitStep /\ calls[c].pc = "verify" /\ Task(c) \in Tasks
    BY <1>5, <1>l DEF AcceptCompletion, Calls, Task
  <2>2. CASE Unchanged(calls[c].seen, task[Task(c)])
    BY <1>5, <2>1, <2>2, VerdictRewritten, WriteStep DEF AcceptCompletion
  <2>3. CASE ~Unchanged(calls[c].seen, task[Task(c)])
    BY <1>5, <2>1, <2>3, CallRewrites, WriteStep DEF AcceptCompletion
  <2> QED
    BY <2>1, <2>2, <2>3
<1>6. ASSUME NEW r \in Replicas,
             \/ SweepRead(r) \/ Crash(r) \/ Shutdown(r) \/ ShutdownExits(r)
             \/ (\E S \in SUBSET Tasks : Notice(r, S))
             \/ (\E t \in Tasks : ReleaseRead(r, t))
      PROVE  TaskStepOK /\ LimitStep
  <2>1. LimitStep /\ task' = task
    BY <1>6, <1>l DEF SweepRead, Crash, Restarted, Shutdown, ShutdownExits, Notice, ReleaseRead
  <2> QED
    BY <2>1, SameTasks
<1>7. ASSUME NEW r \in Replicas, SweepCommit(r)
      PROVE  TaskStepOK /\ LimitStep
  <2>1. LimitStep /\ UNCHANGED limitVars
    BY <1>7, <1>l DEF SweepCommit
  <2>2. DOMAIN task' = Tasks /\ task' = [t \in Tasks |-> task'[t]]
    BY <1>7 DEF SweepCommit
  <2>3. ASSUME NEW t \in Tasks
        PROVE  Rewritten(task[t], task'[t], MaxRetries + moves)
    <3>1. \/ task'[t] = task[t]
          \/ task'[t] = [WithStatus(task[t], "pending") EXCEPT !.beat = "none"]
      BY <1>7 DEF SweepCommit
    <3>2. Rewritten(task[t], task[t], MaxRetries + moves)
      BY KeptRewritten DEF Types, TypeOK
    <3> QED
      BY <3>1, <3>2, OtherRewrites
  <2> QED
    BY <2>1, <2>2, <2>3 DEF TaskStepOK, limitVars
<1>8. ASSUME NEW r \in Replicas, NEW t \in Tasks, ReleaseWrite(r, t)
      PROVE  TaskStepOK /\ LimitStep
  <2>1. LimitStep /\ release[r][t] # None
    BY <1>8, <1>l DEF ReleaseWrite
  <2>2. CASE Gated(t)
    BY <1>8, <2>1, <2>2, OtherRewrites, WriteStep DEF ReleaseWrite
  <2>3. CASE ~Gated(t)
    BY <1>8, <2>1, <2>3, ReleasedRewritten, WriteStep DEF ReleaseWrite
  <2> QED
    BY <2>1, <2>2, <2>3
<1>9. ASSUME NEW t \in Tasks,
             \/ BackoffEnds(t) \/ GoesStale(t) \/ ReviewApproves(t) \/ ReviewRejects(t)
             \/ (\E e \in Evidence \ {"none"} : SubmitEvidence(t, e))
      PROVE  TaskStepOK /\ LimitStep
  <2>1. LimitStep
    BY <1>9, <1>l DEF BackoffEnds, GoesStale, ReviewApproves, ReviewRejects, SubmitEvidence, NoFault
  <2>2. \E d : Write(t, d) /\ Rewritten(task[t], d, MaxRetries + moves)
    BY <1>9, OtherRewrites DEF BackoffEnds, GoesStale, ReviewApproves, ReviewRejects,
                               SubmitEvidence, AwaitsReview
  <2> QED
    BY <2>1, <2>2, WriteStep
<1>10. ASSUME NEW t \in Tasks, PatchWrite(t)
       PROVE  TaskStepOK /\ LimitStep
  <2>1. LimitStep
    BY <1>10, <1>l DEF PatchWrite
  <2>2. \E d : Write(t, d) /\ Rewritten(task[t], d, MaxRetries + moves)
    BY <1>10, OtherRewrites, RequeuedRewritten DEF PatchWrite
  <2> QED
    BY <2>1, <2>2, WriteStep
<1>11. ASSUME NEW t \in Tasks,
              \/ (\E kind \in {"requeue", "closeout"} : PatchRead(t, kind))
              \/ (\E k \in Attempts : RunEnds(t, k))
       PROVE  TaskStepOK /\ LimitStep
  <2>1. LimitStep /\ task' = task
    BY <1>11, <1>l DEF PatchRead, RunEnds
  <2> QED
    BY <2>1, SameTasks
<1>12. CASE UNCHANGED vars
  BY <1>12, <1>l, SameTasks DEF vars, limitVars
<1> QED
  BY <1>1, <1>2, <1>3, <1>4, <1>5, <1>6, <1>7, <1>8, <1>9, <1>10, <1>11, <1>12
     DEF Next, CallStep, CallFault, ReplicaStep, TaskStep

-----------------------------------------------------------------------------
(* The memory of a replica.  What Start does, with the tasks it starts and  *)
(* the call it picks for each.                                              *)
Started(r, S, data, flying, count, waiting, done, started, pick) ==
    /\ started \subseteq S \ flying
    /\ count >= MaxConcurrent => started = {}
    /\ \A t \in started : /\ pick[t] \in CallsOf(r, t)
                          /\ calls[pick[t]].pc = "free" \/ pick[t] \in done
    /\ calls' = [c \in Calls |->
          IF \E t \in started : c = pick[t] THEN StartedCall(data[Task(c)], Task(c))
          ELSE IF c \in done THEN Free ELSE calls[c]]
    /\ inFlight' = [inFlight EXCEPT ![r] = flying \cup {t \in started : ~Gated(t)}]
    /\ load' = [load EXCEPT ![r] = count + Cardinality({t \in started : ~Gated(t)})]
    /\ deferred' = [deferred EXCEPT ![r] = [t \in Tasks |->
          IF t \in S \ flying /\ count >= MaxConcurrent THEN data[t] ELSE waiting[t]]]

LEMMA StartIsStarted ==
    ASSUME NEW r, NEW S \in SUBSET Tasks, NEW data, NEW flying, NEW count \in Nat,
           NEW waiting, NEW done, Start(r, S, data, flying, count, waiting, done)
    PROVE  \E started \in SUBSET Tasks : \E pick \in [started -> Calls] :
              Started(r, S, data, flying, count, waiting, done, started, pick)
<1> DEFINE fresh == S \ flying
           room == count < MaxConcurrent
           started == {t \in fresh : room /\ FreeCalls(r, t, done) # {}}
           pick == [t \in started |-> CHOOSE c \in FreeCalls(r, t, done) : TRUE]
           chosen == {CHOOSE c \in FreeCalls(r, t, done) : TRUE : t \in started}
<1>0. (~room) <=> (count >= MaxConcurrent)
  BY SizesAssumption
<1>1. \A t \in started : pick[t] \in FreeCalls(r, t, done)
  OBVIOUS
<1>2. \A c : c \in chosen <=> \E t \in started : c = pick[t]
  OBVIOUS
<1>3. started \in SUBSET Tasks /\ started \subseteq S \ flying
  OBVIOUS
<1>4. count >= MaxConcurrent => started = {}
  BY <1>0
<1>5. pick \in [started -> Calls]
  BY <1>1 DEF FreeCalls, CallsOf
<1>6. \A t \in started : /\ pick[t] \in CallsOf(r, t)
                         /\ calls[pick[t]].pc = "free" \/ pick[t] \in done
  BY <1>1 DEF FreeCalls
<1>7. /\ calls' = [c \in Calls |->
              IF c \in chosen THEN StartedCall(data[Task(c)], Task(c))
              ELSE IF c \in done THEN Free ELSE calls[c]]
      /\ inFlight' = [inFlight EXCEPT ![r] = flying \cup {t \in started : ~Gated(t)}]
      /\ load' = [load EXCEPT ![r] = count + Cardinality({t \in started : ~Gated(t)})]
      /\ deferred' = [deferred EXCEPT ![r] = [t \in Tasks |->
              IF t \in fresh /\ ~room THEN data[t] ELSE waiting[t]]]
  BY DEF Start
<1> HIDE DEF started, pick, chosen
<1>8. calls' = [c \in Calls |->
          IF \E t \in started : c = pick[t] THEN StartedCall(data[Task(c)], Task(c))
          ELSE IF c \in done THEN Free ELSE calls[c]]
  BY <1>2, <1>7
<1>9. deferred' = [deferred EXCEPT ![r] = [t \in Tasks |->
          IF t \in S \ flying /\ count >= MaxConcurrent THEN data[t] ELSE waiting[t]]]
  BY <1>0, <1>7
<1>10. Started(r, S, data, flying, count, waiting, done, started, pick)
  BY <1>3, <1>4, <1>6, <1>7, <1>8, <1>9 DEF Started
<1> QED
  BY <1>3, <1>5, <1>10

MemoryOK ==
    /\ calls \in [Calls -> CallType]
    /\ inFlight \in [Replicas -> SUBSET Tasks]
    /\ load \in [Replicas -> Nat]
    /\ deferred \in [Replicas -> [Tasks -> Snapshot]]

(* LoadCountsCalls, with what makes the count a number; and DeferredIsWoken *)
(* as the code keeps it: a task is deferred only while the cap is reached.  *)
CountInv ==
    /\ \A r \in Replicas : IsFiniteSet(Counted(r)) /\ load[r] = Cardinality(Counted(r))
    /\ \A r \in Replicas, t \in Tasks : deferred[r][t] # None => load[r] >= MaxConcurrent

LEMMA StartedCallType ==
    ASSUME NEW snap \in Snapshot, NEW t
    PROVE  /\ StartedCall(snap, t) \in CallType
           /\ StartedCall(snap, t).pc = IF Gated(t) THEN "deps" ELSE "claim"
           /\ StartedCall(snap, t).retry = snap.retry
<1> DEFINE pc == IF Gated(t) THEN "deps" ELSE "claim"
           rework == snap.kind = "rework"
<1>1. Free \in CallType
  BY SizesAssumption DEF Free, CallType, Seen, NewTask, SeenType, Evidence, Attempts, MaxAttempt
<1>2. StartedCall(snap, t) = [Free EXCEPT !.pc = pc, !.retry = snap.retry, !.rework = rework]
  BY DEF StartedCall
<1>3. pc \in {"deps", "claim"} /\ rework \in BOOLEAN /\ snap.retry \in Attempts
  BY DEF Snapshot
<1> HIDE DEF pc, rework
<1>4. /\ StartedCall(snap, t) \in CallType
      /\ StartedCall(snap, t).pc = pc
      /\ StartedCall(snap, t).retry = snap.retry
  BY <1>1, <1>2, <1>3 DEF CallType, Owning
<1> QED
  BY <1>4 DEF pc

LEMMA FreeType == Free \in CallType /\ Free.pc = "free"
BY SizesAssumption DEF Free, CallType, Seen, NewTask, SeenType, Evidence, Attempts, MaxAttempt

LEMMA NoneType == None \in Snapshot /\ \A d \in TaskType : Snap(d) \in Snapshot /\ Snap(d) # None
BY SizesAssumption DEF None, Snapshot, Snap, TaskType, Attempts, MaxAttempt

(* Starting calls keeps the types of the memory, the count and the reason   *)
(* to defer, when the count it starts from is that of the other calls.      *)
LEMMA StartKeeps ==
    ASSUME Types, CountInv, NEW r \in Replicas, NEW S \in SUBSET Tasks,
           NEW data \in [Tasks -> Snapshot], NEW flying \in SUBSET Tasks, NEW count \in Nat,
           NEW waiting \in [Tasks -> Snapshot], NEW done \in SUBSET Calls,
           \A c \in done : Replica(c) = r,
           IsFiniteSet(Counted(r) \ done), count = Cardinality(Counted(r) \ done),
           \A t \in Tasks : waiting[t] # None => count >= MaxConcurrent,
           Start(r, S, data, flying, count, waiting, done)
    PROVE  MemoryOK' /\ CountInv'
<1>1. PICK started \in SUBSET Tasks : \E pick \in [started -> Calls] :
        Started(r, S, data, flying, count, waiting, done, started, pick)
  BY StartIsStarted
<1>2. PICK pick \in [started -> Calls] :
        Started(r, S, data, flying, count, waiting, done, started, pick)
  BY <1>1
<1> DEFINE counted == {t \in started : ~Gated(t)}
           image == {pick[t] : t \in counted}
<1>3. IsFiniteSet(counted) /\ Cardinality(counted) \in Nat
  BY ActorsAssumption, FS_Subset, FS_CardinalityType
<1>4. \A t \in started : /\ Replica(pick[t]) = r /\ Task(pick[t]) = t
                         /\ calls[pick[t]].pc = "free" \/ pick[t] \in done
  BY <1>2 DEF Started, CallsOf
<1>5. calls' = [c \in Calls |->
          IF \E t \in started : c = pick[t] THEN StartedCall(data[Task(c)], Task(c))
          ELSE IF c \in done THEN Free ELSE calls[c]]
  BY <1>2 DEF Started
<1>6. /\ inFlight' = [inFlight EXCEPT ![r] = flying \cup counted]
      /\ load' = [load EXCEPT ![r] = count + Cardinality(counted)]
      /\ deferred' = [deferred EXCEPT ![r] = [t \in Tasks |->
            IF t \in S \ flying /\ count >= MaxConcurrent THEN data[t] ELSE waiting[t]]]
  BY <1>2 DEF Started
<1>t. /\ calls \in [Calls -> CallType] /\ inFlight \in [Replicas -> SUBSET Tasks]
      /\ load \in [Replicas -> Nat] /\ deferred \in [Replicas -> [Tasks -> Snapshot]]
  BY DEF Types, TypeOK
<1>7. MemoryOK'
  <2>1. \A c \in Calls : Task(c) \in Tasks
    BY DEF Calls, Task
  <2>2. calls' \in [Calls -> CallType]
    BY <1>t, <1>5, <2>1, StartedCallType, FreeType
  <2>3. inFlight' \in [Replicas -> SUBSET Tasks] /\ load' \in [Replicas -> Nat]
    <3> HIDE DEF counted
    <3>1. counted \in SUBSET Tasks
      BY DEF counted
    <3> QED
      BY <1>t, <1>3, <1>6, <3>1
  <2>4. deferred' \in [Replicas -> [Tasks -> Snapshot]]
    BY <1>t, <1>6
  <2> QED
    BY <2>2, <2>3, <2>4 DEF MemoryOK
<1>8. ASSUME NEW c \in Calls
      PROVE  /\ c \in Counted(r)' <=> c \in (Counted(r) \ done) \cup image
             /\ c \in image => c \notin Counted(r) \ done
             /\ \A q \in Replicas \ {r} : c \in Counted(q)' <=> c \in Counted(q)
  <2>1. CASE \E t \in started : c = pick[t]
    <3>1. PICK t \in started : c = pick[t]
      BY <2>1
    <3>2. Replica(c) = r /\ Task(c) = t /\ (calls[c].pc = "free" \/ c \in done)
      BY <1>4, <3>1
    <3>3. calls'[c].pc = IF Gated(t) THEN "deps" ELSE "claim"
      BY <1>5, <1>8, <2>1, <3>2, StartedCallType
    <3>4. c \in image <=> ~Gated(t)
      BY <1>4, <3>1, <3>2
    <3>5. c \notin Counted(r) \ done
      BY <3>2 DEF Counted, Owning
    <3>6. c \in Counted(r)' <=> ~Gated(t)
      BY <1>8, <3>2, <3>3 DEF Counted, Owning
    <3> QED
      BY <3>2, <3>4, <3>5, <3>6 DEF Counted
  <2>2. CASE ~\E t \in started : c = pick[t]
    <3>1. c \notin image
      BY <2>2
    <3>2. calls'[c] = IF c \in done THEN Free ELSE calls[c]
      BY <1>5, <1>8, <2>2
    <3>3. CASE c \in done
      BY <1>8, <3>1, <3>2, <3>3, FreeType DEF Counted, Owning
    <3>4. CASE c \notin done
      BY <1>8, <3>1, <3>2, <3>4 DEF Counted
    <3> QED
      BY <3>3, <3>4
  <2> QED
    BY <2>1, <2>2
<1>9. Cardinality(image) = Cardinality(counted) /\ IsFiniteSet(image)
  <2> DEFINE f == [t \in counted |-> pick[t]]
  <2>1. f \in Bijection(counted, image)
    <3>1. f \in [counted -> image]
      OBVIOUS
    <3>2. \A s, t \in counted : f[s] = f[t] => s = t
      BY <1>4
    <3>3. \A c \in image : \E t \in counted : f[t] = c
      OBVIOUS
    <3> HIDE DEF f, image, counted
    <3> QED
      BY <3>1, <3>2, <3>3 DEF Bijection, Injection, Surjection, IsInjective
  <2>2. ExistsBijection(counted, image)
    BY <2>1 DEF ExistsBijection
  <2> HIDE DEF f, image, counted
  <2> QED
    BY <1>3, <2>2, FS_Bijection
<1> HIDE DEF image
<1>10. Counted(r)' = (Counted(r) \ done) \cup image /\ (Counted(r) \ done) \cap image = {}
  <2>1. image \subseteq Calls
    BY DEF image
  <2>2. Counted(r)' \subseteq Calls /\ Counted(r) \subseteq Calls
    BY DEF Counted
  <2> QED
    BY <1>8, <2>1, <2>2
<1>11. IsFiniteSet(Counted(r)') /\ Cardinality(Counted(r)') = count + Cardinality(counted)
  <2>1. /\ IsFiniteSet((Counted(r) \ done) \cup image)
        /\ Cardinality((Counted(r) \ done) \cup image) =
              Cardinality(Counted(r) \ done) + Cardinality(image)
                - Cardinality((Counted(r) \ done) \cap image)
    BY <1>9, FS_Union
  <2>2. Cardinality((Counted(r) \ done) \cap image) = 0
    BY <1>10, FS_EmptySet
  <2> HIDE DEF counted
  <2> QED
    BY <1>3, <1>9, <1>10, <2>1, <2>2
<1>12. ASSUME NEW q \in Replicas
       PROVE  IsFiniteSet(Counted(q)') /\ load'[q] = Cardinality(Counted(q)')
  <2>1. CASE q = r
    BY <1>t, <1>6, <1>11, <2>1
  <2>2. CASE q # r
    <3>1. Counted(q)' = Counted(q)
      <4>1. Counted(q)' \subseteq Calls /\ Counted(q) \subseteq Calls
        BY DEF Counted
      <4> QED
        BY <1>8, <2>2, <4>1
    <3>2. load'[q] = load[q]
      BY <1>t, <1>6, <2>2
    <3> QED
      BY <3>1, <3>2 DEF CountInv
  <2> QED
    BY <2>1, <2>2
<1>13. ASSUME NEW q \in Replicas, NEW t \in Tasks, deferred'[q][t] # None
       PROVE  load'[q] >= MaxConcurrent
  <2>1. CASE q = r
    <3>1. count >= MaxConcurrent
      BY <1>t, <1>6, <1>13, <2>1
    <3>2. load'[q] = count + Cardinality(counted)
      BY <1>t, <1>6, <2>1
    <3> HIDE DEF counted
    <3> QED
      BY <1>3, <3>1, <3>2, SizesAssumption
  <2>2. CASE q # r
    BY <1>t, <1>6, <1>13, <2>2 DEF CountInv
  <2> QED
    BY <2>1, <2>2
<1> QED
  BY <1>7, <1>12, <1>13 DEF CountInv

(* The finally block gives back the slot of a call that was counted.        *)
LEMMA FinishKeeps ==
    ASSUME Types, CountInv, NEW c \in Calls, calls[c].pc \in {"claim"} \cup Owning, Finish(c)
    PROVE  MemoryOK' /\ CountInv'
<1> DEFINE r == Replica(c)
           flying == inFlight[r] \ {Task(c)}
           count == IF load[r] = 0 THEN 0 ELSE load[r] - 1
           queued == {t \in Tasks : deferred[r][t] # None}
           drain == IF count < MaxConcurrent THEN queued ELSE {}
           waiting == [t \in Tasks |-> IF t \in drain THEN None ELSE deferred[r][t]]
<1>1. r \in Replicas /\ load[r] \in Nat /\ inFlight[r] \in SUBSET Tasks
      /\ deferred[r] \in [Tasks -> Snapshot]
  BY DEF Calls, Replica, Types, TypeOK
<1>2. c \in Counted(r)
  BY DEF Counted
<1>3. /\ IsFiniteSet(Counted(r) \ {c})
      /\ Cardinality(Counted(r) \ {c}) = Cardinality(Counted(r)) - 1
      /\ Cardinality(Counted(r) \ {c}) \in Nat
  <2>1. IsFiniteSet(Counted(r))
    BY <1>1 DEF CountInv
  <2> HIDE DEF r
  <2> QED
    BY <1>2, <2>1, FS_RemoveElement, FS_CardinalityType
<1>4. load[r] = Cardinality(Counted(r))
  BY <1>1 DEF CountInv
<1>5. count = Cardinality(Counted(r) \ {c}) /\ count \in Nat
  BY <1>1, <1>3, <1>4
<1>6. Start(r, drain, deferred[r], flying, count, waiting, {c})
  BY DEF Finish
<1>7. /\ drain \in SUBSET Tasks /\ flying \in SUBSET Tasks
      /\ waiting \in [Tasks -> Snapshot]
  BY <1>1, NoneType
<1>8. \A t \in Tasks : waiting[t] # None => count >= MaxConcurrent
  BY <1>5, SizesAssumption
<1>9. {c} \in SUBSET Calls /\ \A d \in {c} : Replica(d) = r
  OBVIOUS
<1> HIDE DEF r, flying, count, drain, waiting
<1> QED
  BY <1>1, <1>3, <1>5, <1>6, <1>7, <1>8, <1>9, StartKeeps

(* A call that goes on, or starts to be counted.                            *)
LEMMA SameMemory ==
    ASSUME Types, CountInv, UNCHANGED <<calls, replicaVars>>
    PROVE  MemoryOK' /\ CountInv'
<1>1. UNCHANGED <<calls, inFlight, load, deferred>>
  BY DEF replicaVars
<1>2. MemoryOK'
  BY <1>1 DEF Types, TypeOK, MemoryOK
<1>3. \A r \in Replicas : Counted(r)' = Counted(r)
  BY <1>1 DEF Counted
<1>4. CountInv'
  BY <1>1, <1>3 DEF CountInv
<1> QED
  BY <1>2, <1>4

LEMMA SteppedKeeps ==
    ASSUME Types, CountInv, NEW c \in Calls, NEW d \in CallType,
           calls[c].pc \in {"claim"} \cup Owning, d.pc \in {"claim"} \cup Owning,
           calls' = [calls EXCEPT ![c] = d], UNCHANGED replicaVars
    PROVE  MemoryOK' /\ CountInv'
<1>1. calls \in [Calls -> CallType]
  BY DEF Types, TypeOK
<1>2. \A b \in Calls : calls'[b].pc \in {"claim"} \cup Owning <=> calls[b].pc \in {"claim"} \cup Owning
  BY <1>1
<1>3. \A r \in Replicas : Counted(r)' = Counted(r)
  BY <1>2 DEF Counted
<1>4. MemoryOK'
  BY <1>1 DEF MemoryOK, Types, TypeOK, replicaVars
<1> QED
  BY <1>3, <1>4 DEF CountInv, replicaVars

LEMMA CallFieldTypes ==
    ASSUME NEW call \in CallType
    PROVE  /\ \A pc \in {"free", "deps", "claim"} \cup Owning :
                 /\ [call EXCEPT !.pc = pc] \in CallType
                 /\ [call EXCEPT !.pc = pc].pc = pc
                 /\ [call EXCEPT !.pc = pc].retry = call.retry
BY DEF CallType

LEMMA DepsKeeps ==
    ASSUME Types, CountInv, NEW c \in Calls, DepsChecked(c)
    PROVE  MemoryOK' /\ CountInv'
<1> DEFINE r == Replica(c)
<1>0. /\ r \in Replicas /\ Task(c) \in Tasks /\ calls[c] \in CallType /\ calls[c].pc = "deps"
      /\ calls \in [Calls -> CallType] /\ load \in [Replicas -> Nat]
      /\ inFlight \in [Replicas -> SUBSET Tasks]
  BY DEF Calls, Replica, Task, Types, TypeOK, DepsChecked
<1>1. CASE ~DepsResolved(Task(c))
  <2>1. calls' = [calls EXCEPT ![c] = Free] /\ UNCHANGED replicaVars
    BY <1>1 DEF DepsChecked, replicaVars
  <2>2. \A b \in Calls : calls'[b].pc \in {"claim"} \cup Owning <=> calls[b].pc \in {"claim"} \cup Owning
    BY <1>0, <2>1, FreeType DEF Owning
  <2>3. \A q \in Replicas : Counted(q)' = Counted(q)
    BY <2>2 DEF Counted
  <2>4. MemoryOK'
    BY <1>0, <2>1, FreeType DEF MemoryOK, Types, TypeOK, replicaVars
  <2> QED
    BY <2>1, <2>3, <2>4 DEF CountInv, replicaVars
<1>2. CASE DepsResolved(Task(c))
  <2>1. /\ calls' = [calls EXCEPT ![c] = [calls[c] EXCEPT !.pc = "claim"]]
        /\ inFlight' = [inFlight EXCEPT ![r] = inFlight[r] \cup {Task(c)}]
        /\ load' = [load EXCEPT ![r] = load[r] + 1]
        /\ deferred' = deferred
    BY <1>0, <1>2 DEF DepsChecked, Become
  <2>2. [calls[c] EXCEPT !.pc = "claim"] \in CallType /\ [calls[c] EXCEPT !.pc = "claim"].pc = "claim"
    BY <1>0, CallFieldTypes
  <2>3. MemoryOK'
    <3>1. calls' \in [Calls -> CallType]
      BY <1>0, <2>1, <2>2
    <3>2. inFlight' \in [Replicas -> SUBSET Tasks] /\ load' \in [Replicas -> Nat]
      <4> HIDE DEF r
      <4> QED
        BY <1>0, <2>1
    <3> QED
      BY <2>1, <3>1, <3>2 DEF MemoryOK, Types, TypeOK
  <2>4. /\ Counted(r)' = Counted(r) \cup {c} /\ c \notin Counted(r)
        /\ \A q \in Replicas \ {r} : Counted(q)' = Counted(q)
    <3>1. /\ calls'[c].pc = "claim" /\ \A b \in Calls \ {c} : calls'[b] = calls[b]
      BY <1>0, <2>1, <2>2
    <3> QED
      BY <1>0, <3>1 DEF Counted, Owning
  <2>5. IsFiniteSet(Counted(r)) /\ load[r] = Cardinality(Counted(r))
    BY <1>0 DEF CountInv
  <2>6. IsFiniteSet(Counted(r)') /\ Cardinality(Counted(r)') = Cardinality(Counted(r)) + 1
    <3> HIDE DEF r
    <3> QED
      BY <2>4, <2>5, FS_AddElement
  <2>7. \A q \in Replicas : load'[q] = IF q = r THEN load[r] + 1 ELSE load[q]
    BY <1>0, <2>1
  <2>8. \A q \in Replicas, t \in Tasks : deferred'[q][t] # None => load'[q] >= MaxConcurrent
    <3>1. \A q \in Replicas : load[q] \in Nat /\ MaxConcurrent \in Nat
      BY <1>0, SizesAssumption
    <3> HIDE DEF r
    <3> QED
      BY <2>1, <2>7, <3>1 DEF CountInv
  <2>9. \A q \in Replicas : IsFiniteSet(Counted(q)') /\ load'[q] = Cardinality(Counted(q)')
    <3> HIDE DEF r
    <3> QED
      BY <2>4, <2>5, <2>6, <2>7 DEF CountInv
  <2> QED
    BY <2>3, <2>8, <2>9 DEF CountInv
<1> QED
  BY <1>1, <1>2

LEMMA RestartKeeps ==
    ASSUME Types, CountInv, NEW r \in Replicas, Restarted(r)
    PROVE  MemoryOK' /\ CountInv'
<1>1. calls' = [c \in Calls |-> IF Replica(c) = r THEN Free ELSE calls[c]]
  BY DEF Restarted
<1>2. MemoryOK'
  BY <1>1, FreeType, NoneType DEF Restarted, MemoryOK, Types, TypeOK
<1>3. Counted(r)' = {} /\ \A q \in Replicas \ {r} : Counted(q)' = Counted(q)
  BY <1>1, FreeType DEF Counted, Owning
<1>4. \A q \in Replicas : /\ load'[q] = IF q = r THEN 0 ELSE load[q]
                          /\ deferred'[q] = IF q = r THEN [t \in Tasks |-> None] ELSE deferred[q]
  BY DEF Restarted, Types, TypeOK
<1>5. \A q \in Replicas : IsFiniteSet(Counted(q)') /\ load'[q] = Cardinality(Counted(q)')
  BY <1>3, <1>4, FS_EmptySet DEF CountInv
<1>6. \A q \in Replicas, t \in Tasks : deferred'[q][t] # None => load'[q] >= MaxConcurrent
  BY <1>4 DEF CountInv
<1> QED
  BY <1>2, <1>5, <1>6 DEF CountInv

LEMMA MemorySteps == Types /\ CountInv /\ [Next]_vars => MemoryOK' /\ CountInv'
<1> SUFFICES ASSUME Types, CountInv, [Next]_vars
             PROVE  MemoryOK' /\ CountInv'
  OBVIOUS
<1>0. calls \in [Calls -> CallType] /\ task \in [Tasks -> TaskType]
      /\ \A c \in Calls : Task(c) \in Tasks
  BY DEF Types, TypeOK, Calls, Task
<1>1. ASSUME NEW c \in Calls, DepsChecked(c)
      PROVE  MemoryOK' /\ CountInv'
  BY <1>1, DepsKeeps
<1>2. ASSUME NEW c \in Calls, ClaimTask(c) \/ Post(c) \/ PostLost(c) \/ Reconcile(c)
      PROVE  MemoryOK' /\ CountInv'
  <2>1. calls[c].pc \in {"claim"} \cup Owning
    BY <1>2 DEF ClaimTask, Post, PostLost, Reconcile, Owning
  <2>2. \/ Finish(c)
        \/ \E pc \in Owning : calls' = [calls EXCEPT ![c] = [calls[c] EXCEPT !.pc = pc]]
                              /\ UNCHANGED replicaVars
    BY <1>0, <1>2 DEF ClaimTask, Post, PostLost, Reconcile, Become, Owning
  <2>3. CASE Finish(c)
    BY <2>1, <2>3, FinishKeeps
  <2>4. ASSUME NEW pc \in Owning, calls' = [calls EXCEPT ![c] = [calls[c] EXCEPT !.pc = pc]],
               UNCHANGED replicaVars
        PROVE  MemoryOK' /\ CountInv'
    <3>1. [calls[c] EXCEPT !.pc = pc] \in CallType /\ [calls[c] EXCEPT !.pc = pc].pc = pc
      BY <1>0, CallFieldTypes
    <3> QED
      BY <2>1, <2>4, <3>1, SteppedKeeps
  <2> QED
    BY <2>2, <2>3, <2>4
<1>3. ASSUME NEW c \in Calls, Route(c) \/ ReadCompletion(c)
      PROVE  MemoryOK' /\ CountInv'
  <2>1. calls[c].pc \in Owning /\ task[Task(c)].notes \in Nat /\ Seen(task[Task(c)]) \in SeenType
    BY <1>0, <1>3 DEF Route, ReadCompletion, Owning, Seen, SeenType, TaskType
  <2>2. PICK d \in CallType : /\ calls' = [calls EXCEPT ![c] = d] /\ UNCHANGED replicaVars
                              /\ d.pc \in Owning
    <3>1. CASE Route(c)
      <4> DEFINE n == task[Task(c)].notes
                 d == [calls[c] EXCEPT !.pc = "post", !.notes = n]
      <4>1. calls' = [calls EXCEPT ![c] = d] /\ UNCHANGED replicaVars
        BY <1>0, <3>1 DEF Route
      <4>2. calls[c] \in CallType /\ "post" \in Owning
        BY <1>0 DEF Owning
      <4>3. d \in CallType /\ d.pc = "post"
        <5>1. n \in Nat
          BY <2>1
        <5> HIDE DEF n
        <5> QED
          BY <4>2, <5>1 DEF CallType
      <4> HIDE DEF d
      <4> QED
        BY <4>1, <4>2, <4>3
    <3>2. CASE ReadCompletion(c)
      <4> DEFINE s == Seen(task[Task(c)])
                 d == [calls[c] EXCEPT !.pc = "verify", !.seen = s]
      <4>1. calls' = [calls EXCEPT ![c] = d] /\ UNCHANGED replicaVars
        BY <1>0, <3>2 DEF ReadCompletion
      <4>2. calls[c] \in CallType /\ "verify" \in Owning
        BY <1>0 DEF Owning
      <4>3. d \in CallType /\ d.pc = "verify"
        <5>1. s \in SeenType
          BY <2>1
        <5> HIDE DEF s
        <5> QED
          BY <4>2, <5>1 DEF CallType
      <4> HIDE DEF d
      <4> QED
        BY <4>1, <4>2, <4>3
    <3> QED
      BY <1>3, <3>1, <3>2
  <2> QED
    BY <2>1, <2>2, SteppedKeeps
<1>4. ASSUME NEW c \in Calls,
             \/ RouteFails(c) \/ NoConfig(c) \/ PostConflicts(c) \/ PostCut(c)
             \/ ReconcileFails(c) \/ RunFailed(c) \/ PollFails(c) \/ AwaitInput(c)
             \/ RejectCompletion(c) \/ AcceptCompletion(c)
      PROVE  MemoryOK' /\ CountInv'
  <2>1. calls[c].pc \in Owning /\ Finish(c)
    BY <1>4 DEF RouteFails, NoConfig, PostConflicts, PostCut, ReconcileFails, RunFailed,
                PollFails, AwaitInput, RejectCompletion, AcceptCompletion, Owning
  <2> QED
    BY <2>1, FinishKeeps
<1>5. ASSUME NEW r \in Replicas, NEW S \in SUBSET Tasks, Notice(r, S)
      PROVE  MemoryOK' /\ CountInv'
  <2> DEFINE data == [t \in Tasks |-> Snap(task[t])]
  <2>1. Start(r, S, data, inFlight[r], load[r], deferred[r], {})
    BY <1>5 DEF Notice
  <2>2. data \in [Tasks -> Snapshot]
    BY <1>0, NoneType
  <2>3. /\ inFlight[r] \in SUBSET Tasks /\ load[r] \in Nat /\ deferred[r] \in [Tasks -> Snapshot]
        /\ Counted(r) \ {} = Counted(r)
    BY DEF Types, TypeOK
  <2>4. /\ IsFiniteSet(Counted(r)) /\ load[r] = Cardinality(Counted(r))
        /\ \A t \in Tasks : deferred[r][t] # None => load[r] >= MaxConcurrent
    BY DEF CountInv
  <2> HIDE DEF data
  <2> QED
    BY <2>1, <2>2, <2>3, <2>4, StartKeeps
<1>6. ASSUME NEW r \in Replicas, NEW t \in Tasks, ReleaseWrite(r, t)
      PROVE  MemoryOK' /\ CountInv'
  <2>1. CASE ~Gated(t)
    BY <1>6, <2>1, SameMemory DEF ReleaseWrite
  <2>2. CASE Gated(t)
    <3> DEFINE data == [u \in Tasks |-> release[r][t]]
    <3>1. Start(r, {t}, data, inFlight[r], load[r], deferred[r], {})
      BY <1>6, <2>2 DEF ReleaseWrite
    <3>2. data \in [Tasks -> Snapshot] /\ {t} \in SUBSET Tasks
      BY DEF Types, TypeOK
    <3>3. /\ inFlight[r] \in SUBSET Tasks /\ load[r] \in Nat /\ deferred[r] \in [Tasks -> Snapshot]
          /\ Counted(r) \ {} = Counted(r)
      BY DEF Types, TypeOK
    <3>4. /\ IsFiniteSet(Counted(r)) /\ load[r] = Cardinality(Counted(r))
          /\ \A u \in Tasks : deferred[r][u] # None => load[r] >= MaxConcurrent
      BY DEF CountInv
    <3> HIDE DEF data
    <3> QED
      BY <3>1, <3>2, <3>3, <3>4, StartKeeps
  <2> QED
    BY <2>1, <2>2
<1>7. ASSUME NEW r \in Replicas, Crash(r) \/ ShutdownExits(r)
      PROVE  MemoryOK' /\ CountInv'
  BY <1>7, RestartKeeps DEF Crash, ShutdownExits
<1>8. ASSUME NEW r \in Replicas,
             SweepRead(r) \/ SweepCommit(r) \/ Shutdown(r) \/ (\E t \in Tasks : ReleaseRead(r, t))
      PROVE  MemoryOK' /\ CountInv'
  BY <1>8, SameMemory DEF SweepRead, SweepCommit, Shutdown, ReleaseRead
<1>9. ASSUME NEW c \in Calls, Beat(c)
      PROVE  MemoryOK' /\ CountInv'
  BY <1>9, SameMemory DEF Beat
<1>10. ASSUME NEW t \in Tasks, TaskStep(t)
       PROVE  MemoryOK' /\ CountInv'
  <2>1. UNCHANGED <<calls, replicaVars>>
    BY <1>10 DEF TaskStep, BackoffEnds, GoesStale, PatchRead, PatchWrite, SubmitEvidence,
                 ReviewApproves, ReviewRejects, RunEnds
  <2> QED
    BY <2>1, SameMemory
<1>11. CASE UNCHANGED vars
  BY <1>11, SameMemory DEF vars, replicaVars
<1> QED
  BY <1>1, <1>2, <1>3, <1>4, <1>5, <1>6, <1>7, <1>8, <1>9, <1>10, <1>11
     DEF Next, CallStep, CallFault, ReplicaStep

-----------------------------------------------------------------------------
(* Runs, sweeps, releases and requests.                                     *)
OthersOK ==
    /\ mode \in [Replicas -> {"up", "stopping"}]
    /\ runs \in [Tasks -> [Attempts -> RunType]]
    /\ sweep \in [Replicas -> SUBSET Tasks]
    /\ release \in [Replicas -> [Tasks -> Snapshot]]
    /\ request \in [Tasks -> [retry : Attempts, kind : {"none", "requeue", "closeout"}]]
    /\ \A t \in Tasks : request[t] # None => request[t].retry < MaxRetries + moves
    /\ \A r \in Replicas, t \in Tasks :
          release[r][t] # None /\ ~Gated(t) => release[r][t].retry < MaxRetries

LEMMA SameOthers ==
    ASSUME Types, LimitStep, UNCHANGED <<mode, runs, sweepVars, request>>
    PROVE  OthersOK'
<1>1. \A t \in Tasks : request[t] # None => request[t].retry < MaxRetries + moves'
  <2> TAKE t \in Tasks
  <2>1. request[t].retry \in Nat /\ moves \in Nat /\ moves' \in Nat /\ moves <= moves' /\ MaxRetries \in Nat
    BY SizesAssumption DEF Types, TypeOK, Attempts, LimitStep
  <2>2. request[t] # None => request[t].retry < MaxRetries + moves
    BY DEF Types, RetriesBounded
  <2> QED
    BY <2>1, <2>2
<1> QED
  BY <1>1 DEF OthersOK, Types, TypeOK, RetriesBounded, sweepVars

LEMMA RequestKept ==
    ASSUME Types, LimitStep, request' = request
    PROVE  \A t \in Tasks : request'[t] # None => request'[t].retry < MaxRetries + moves'
<1> TAKE t \in Tasks
<1>1. request[t].retry \in Nat /\ moves \in Nat /\ moves' \in Nat /\ moves <= moves' /\ MaxRetries \in Nat
  BY SizesAssumption DEF Types, TypeOK, Attempts, LimitStep
<1>2. request[t] # None => request[t].retry < MaxRetries + moves
  BY DEF Types, RetriesBounded
<1> QED
  BY <1>1, <1>2

LEMMA CreateType ==
    ASSUME Types, NEW c \in Calls, Create(Task(c), Key(c), calls[c].notes)
    PROVE  runs' \in [Tasks -> [Attempts -> RunType]]
<1>1. calls[c].notes \in Nat /\ calls[c].retry \in Attempts /\ Task(c) \in Tasks
      /\ runs \in [Tasks -> [Attempts -> RunType]]
  BY DEF Types, TypeOK, CallType, Calls, Task
<1>2. [st |-> "running", notes |-> calls[c].notes] \in RunType
  BY <1>1 DEF RunType
<1> QED
  BY <1>1, <1>2 DEF Create, Key

LEMMA OtherSteps == Types /\ [Next]_vars => OthersOK'
<1> SUFFICES ASSUME Types, [Next]_vars
             PROVE  OthersOK'
  OBVIOUS
<1> USE DEF OthersOK
<1>0. LimitStep
  BY TaskSteps
<1>t. OthersOK /\ TypeOK
  BY DEF Types, TypeOK, RetriesBounded
<1>r. request' = request =>
        \A t \in Tasks : request'[t] # None => request'[t].retry < MaxRetries + moves'
  BY <1>0, RequestKept
<1>1. ASSUME NEW c \in Calls, Post(c) \/ PostLost(c) \/ PostCut(c)
      PROVE  OthersOK'
  <2>1. runs' \in [Tasks -> [Attempts -> RunType]]
    BY <1>1, <1>t, CreateType DEF Post, PostLost, PostCut
  <2>2. UNCHANGED <<mode, sweepVars, request>>
    BY <1>1 DEF Post, PostLost, PostCut
  <2> QED
    BY <1>r, <1>t, <2>1, <2>2 DEF sweepVars
<1>2. ASSUME NEW c \in Calls,
             \/ DepsChecked(c) \/ ClaimTask(c) \/ Route(c) \/ PostConflicts(c) \/ Reconcile(c)
             \/ RunFailed(c) \/ AwaitInput(c) \/ ReadCompletion(c)
             \/ RejectCompletion(c) \/ AcceptCompletion(c)
             \/ RouteFails(c) \/ NoConfig(c) \/ ReconcileFails(c) \/ PollFails(c) \/ Beat(c)
      PROVE  OthersOK'
  <2>1. UNCHANGED <<mode, runs, sweepVars, request>>
    BY <1>2 DEF DepsChecked, ClaimTask, Route, PostConflicts, Reconcile, RunFailed, AwaitInput,
                ReadCompletion, RejectCompletion, AcceptCompletion, RouteFails, NoConfig,
                ReconcileFails, PollFails, Beat
  <2> QED
    BY <1>0, <2>1, SameOthers
<1>3. ASSUME NEW r \in Replicas, SweepRead(r) \/ SweepCommit(r)
      PROVE  OthersOK'
  <2>1. UNCHANGED <<mode, runs, release, request>>
    BY <1>3 DEF SweepRead, SweepCommit
  <2>2. sweep' \in [Replicas -> SUBSET Tasks]
    BY <1>3, <1>t DEF SweepRead, SweepCommit
  <2> QED
    BY <1>r, <1>t, <2>1, <2>2
<1>4. ASSUME NEW r \in Replicas, Crash(r) \/ ShutdownExits(r)
      PROVE  OthersOK'
  <2>1. Restarted(r)
    BY <1>4 DEF Crash, ShutdownExits
  <2>2. /\ mode' \in [Replicas -> {"up", "stopping"}]
        /\ sweep' \in [Replicas -> SUBSET Tasks]
        /\ UNCHANGED <<runs, request>>
    BY <1>t, <2>1 DEF Restarted
  <2>3. release' = [release EXCEPT ![r] = [t \in Tasks |-> None]]
    BY <2>1 DEF Restarted
  <2>4. release' \in [Replicas -> [Tasks -> Snapshot]]
    BY <1>t, <2>3, NoneType
  <2>5. \A q \in Replicas, t \in Tasks : release'[q][t] # None => release'[q][t] = release[q][t]
    BY <1>t, <2>3
  <2> QED
    BY <1>r, <1>t, <2>2, <2>4, <2>5
<1>5. ASSUME NEW r \in Replicas, Shutdown(r)
      PROVE  OthersOK'
  <2>1. UNCHANGED <<runs, sweepVars, request>> /\ mode' \in [Replicas -> {"up", "stopping"}]
    BY <1>5, <1>t DEF Shutdown
  <2> QED
    BY <1>r, <1>t, <2>1 DEF sweepVars
<1>6. ASSUME NEW r \in Replicas, NEW S \in SUBSET Tasks, Notice(r, S)
      PROVE  OthersOK'
  BY <1>0, <1>6, SameOthers DEF Notice
<1>7. ASSUME NEW r \in Replicas, NEW t \in Tasks, ReleaseRead(r, t)
      PROVE  OthersOK'
  <2>1. UNCHANGED <<mode, runs, sweep, request>>
        /\ release' = [release EXCEPT ![r][t] = Snap(task[t])]
    BY <1>7 DEF ReleaseRead
  <2>2. Snap(task[t]) \in Snapshot /\ Snap(task[t]).retry = task[t].retry
    BY <1>t, NoneType DEF TypeOK, Snap
  <2>3. ~Gated(t) => task[t].retry < MaxRetries
    BY <1>7 DEF ReleaseRead, WaitingOnDeps, Recovering
  <2>4. release' \in [Replicas -> [Tasks -> Snapshot]]
    BY <1>t, <2>1, <2>2
  <2>5. \A q \in Replicas, u \in Tasks :
           release'[q][u] = IF q = r /\ u = t THEN Snap(task[t]) ELSE release[q][u]
    BY <1>t, <2>1
  <2> QED
    BY <1>r, <1>t, <2>1, <2>2, <2>3, <2>4, <2>5
<1>8. ASSUME NEW r \in Replicas, NEW t \in Tasks, ReleaseWrite(r, t)
      PROVE  OthersOK'
  <2>1. UNCHANGED <<mode, runs, sweep, request>>
        /\ release' = [release EXCEPT ![r][t] = None]
    BY <1>8 DEF ReleaseWrite
  <2>2. release' \in [Replicas -> [Tasks -> Snapshot]]
    BY <1>t, <2>1, NoneType
  <2>3. \A q \in Replicas, u \in Tasks : release'[q][u] # None => release'[q][u] = release[q][u]
    BY <1>t, <2>1
  <2> QED
    BY <1>r, <1>t, <2>1, <2>2, <2>3
<1>9. ASSUME NEW t \in Tasks, NEW kind \in {"requeue", "closeout"}, PatchRead(t, kind)
      PROVE  OthersOK'
  <2> DEFINE q == [retry |-> task[t].retry, kind |-> kind]
  <2>1. UNCHANGED <<mode, runs, sweepVars>> /\ request' = [request EXCEPT ![t] = q]
    BY <1>9 DEF PatchRead
  <2>2. moves' = moves + 1 /\ moves \in Nat
    BY <1>9, <1>t, LimitFacts DEF PatchRead, TypeOK
  <2>3. task[t].retry \in Attempts /\ task[t].retry \in Nat /\ task[t].retry <= MaxRetries + moves
        /\ MaxRetries \in Nat
    BY <1>t, SizesAssumption DEF TypeOK, TaskType, Types, RetriesBounded, Attempts
  <2>4. q \in [retry : Attempts, kind : {"none", "requeue", "closeout"}] /\ q.retry = task[t].retry
    BY <2>3
  <2> HIDE DEF q
  <2>5. request' \in [Tasks -> [retry : Attempts, kind : {"none", "requeue", "closeout"}]]
    BY <1>t, <2>1, <2>4
  <2>6. ASSUME NEW u \in Tasks, request'[u] # None
        PROVE  request'[u].retry < MaxRetries + moves'
    <3>1. CASE u = t
      BY <1>t, <2>1, <2>2, <2>3, <2>4, <3>1
    <3>2. CASE u # t
      <4>1. request'[u] = request[u] /\ request[u].retry \in Nat
        BY <1>t, <2>1, <3>2 DEF Attempts
      <4>2. request[u].retry < MaxRetries + moves
        BY <1>t, <2>6, <4>1
      <4> QED
        BY <2>2, <2>3, <4>1, <4>2
    <3> QED
      BY <3>1, <3>2
  <2> QED
    BY <1>t, <2>1, <2>5, <2>6 DEF sweepVars
<1>10. ASSUME NEW t \in Tasks, PatchWrite(t)
       PROVE  OthersOK'
  <2>1. UNCHANGED <<mode, runs, sweepVars>> /\ UNCHANGED limitVars
        /\ request' = [request EXCEPT ![t] = None]
    BY <1>10 DEF PatchWrite
  <2>2. None \in [retry : Attempts, kind : {"none", "requeue", "closeout"}]
    BY SizesAssumption DEF None, Attempts, MaxAttempt
  <2>3. request' \in [Tasks -> [retry : Attempts, kind : {"none", "requeue", "closeout"}]]
    BY <1>t, <2>1, <2>2
  <2>4. \A u \in Tasks : request'[u] # None => request'[u] = request[u]
    BY <1>t, <2>1
  <2> QED
    BY <1>t, <2>1, <2>3, <2>4 DEF sweepVars, limitVars
<1>11. ASSUME NEW t \in Tasks, NEW k \in Attempts, RunEnds(t, k)
       PROVE  OthersOK'
  <2>1. UNCHANGED <<mode, sweepVars, request>>
    BY <1>11 DEF RunEnds
  <2>2. PICK st \in {"finished", "failed"} : runs' = [runs EXCEPT ![t][k].st = st]
    BY <1>11 DEF RunEnds
  <2>3. [runs[t][k] EXCEPT !.st = st] \in RunType
    <3> DEFINE x == runs[t][k]
    <3>1. x \in RunType
      BY <1>t
    <3> HIDE DEF x
    <3>2. [x EXCEPT !.st = st] \in RunType
      BY <3>1 DEF RunType
    <3> QED
      BY <3>2 DEF x
  <2>4. runs' = [runs EXCEPT ![t] = [runs[t] EXCEPT ![k] = [runs[t][k] EXCEPT !.st = st]]]
    BY <2>2
  <2>5. runs' \in [Tasks -> [Attempts -> RunType]]
    BY <1>t, <2>3, <2>4
  <2> QED
    BY <1>r, <1>t, <2>1, <2>5 DEF sweepVars
<1>12. ASSUME NEW t \in Tasks,
              \/ BackoffEnds(t) \/ GoesStale(t) \/ ReviewApproves(t) \/ ReviewRejects(t)
              \/ (\E e \in Evidence \ {"none"} : SubmitEvidence(t, e))
       PROVE  OthersOK'
  BY <1>0, <1>12, SameOthers DEF BackoffEnds, GoesStale, ReviewApproves, ReviewRejects, SubmitEvidence
<1>13. CASE UNCHANGED vars
  BY <1>0, <1>13, SameOthers DEF vars, sweepVars
<1> QED
  BY <1>1, <1>2, <1>3, <1>4, <1>5, <1>6, <1>7, <1>8, <1>9, <1>10, <1>11, <1>12, <1>13
     DEF Next, CallStep, CallFault, ReplicaStep, TaskStep
-----------------------------------------------------------------------------
WatcherInv == Types /\ CountInv

LEMMA InitWatcher == Init => WatcherInv
<1> SUFFICES ASSUME Init
             PROVE  WatcherInv
  OBVIOUS
<1>1. NewTask \in TaskType /\ Gates \subseteq TaskType
      /\ NewTask.retry = 0 /\ \A d \in Gates : d.retry = 0
  <2>1. 0 \in Attempts
    BY SizesAssumption DEF Attempts, MaxAttempt
  <2>2. NewTask \in TaskType /\ NewTask.retry = 0
    BY <2>1 DEF NewTask, TaskType, Evidence
  <2>3. ASSUME NEW d \in Gates
        PROVE  d \in TaskType /\ d.retry = 0
    <3>1. CASE d = [NewTask EXCEPT !.agent = "awaiting-input"]
      BY <2>2, <3>1 DEF TaskType
    <3>2. CASE d = [NewTask EXCEPT !.agent = "blocked", !.col = "blocked"]
      BY <2>2, <3>2 DEF TaskType
    <3> QED
      BY <2>3, <3>1, <3>2 DEF Gates
  <2> QED
    BY <2>2, <2>3
<1>2. 0 \in Attempts /\ None \in Snapshot /\ None = [retry |-> 0, kind |-> "none"]
      /\ NoRun \in RunType
  BY SizesAssumption DEF Attempts, MaxAttempt, None, Snapshot, NoRun, RunType
<1>3. TypeOK
  BY <1>1, <1>2, FreeType, SizesAssumption DEF Init, TypeOK
<1>4. RetriesBounded
  BY <1>1, SizesAssumption DEF Init, RetriesBounded
<1>5. \A r \in Replicas : Counted(r) = {}
  BY FreeType DEF Init, Counted, Owning
<1>6. CountInv
  BY <1>5, FS_EmptySet DEF Init, CountInv
<1> QED
  BY <1>3, <1>4, <1>6 DEF WatcherInv, Types

LEMMA NextWatcher == WatcherInv /\ [Next]_vars => WatcherInv'
<1> SUFFICES ASSUME WatcherInv, [Next]_vars
             PROVE  WatcherInv'
  OBVIOUS
<1>1. TaskStepOK /\ LimitStep /\ MemoryOK' /\ CountInv' /\ OthersOK'
  BY TaskSteps, MemorySteps, OtherSteps DEF WatcherInv
<1>2. task' \in [Tasks -> TaskType]
  BY <1>1 DEF TaskStepOK, Rewritten
<1>3. TypeOK'
  BY <1>1, <1>2 DEF TypeOK, MemoryOK, OthersOK, LimitStep
<1>4. RetriesBounded'
  BY <1>1 DEF RetriesBounded, OthersOK, TaskStepOK, Rewritten
<1> QED
  BY <1>1, <1>3, <1>4 DEF WatcherInv, Types

(* The inductive invariant: types, the bounds of the attempt numbers that   *)
(* they need, and the counts.                                               *)
THEOREM WatcherCorrect == Spec => []WatcherInv
BY InitWatcher, NextWatcher, PTL DEF Spec

(* Documents, calls, counters, runs, sweeps and requests keep their types;  *)
(* in particular no attempt number leaves 0..MaxAttempt: the watcher's own  *)
(* requeues stay below MAX_TRANSIENT_RETRIES, and each outside request adds *)
(* at most one.                                                             *)
THEOREM TypeCorrect == Spec => []TypeOK
<1>1. WatcherInv => TypeOK
  BY DEF WatcherInv, Types
<1> QED
  BY <1>1, WatcherCorrect, PTL

(* perAgentInFlight neither leaks nor frees a dispatch: whatever batch is   *)
(* handed over, deferred, drained, refused or lost in a restart, it is the  *)
(* number of calls between their increment and their finally block.         *)
THEOREM LoadAlwaysCountsCalls == Spec => []LoadCountsCalls
<1>1. WatcherInv => LoadCountsCalls
  BY DEF WatcherInv, CountInv, LoadCountsCalls
<1> QED
  BY <1>1, WatcherCorrect, PTL

(* A task is deferred only while the agent's cap is reached, so there is a  *)
(* call whose finally block will drain the deferred map.                    *)
THEOREM DeferredTasksAreWoken == Spec => []DeferredIsWoken
<1>1. WatcherInv => DeferredIsWoken
  BY SizesAssumption DEF WatcherInv, Types, TypeOK, CountInv, DeferredIsWoken
<1> QED
  BY <1>1, WatcherCorrect, PTL

(* The finalising transaction makes a task done only if the verification    *)
(* passed on good evidence and the document is still the one it read.       *)
THEOREM DoneTasksAreProven == Spec => DoneIsProven
<1>1. WatcherInv /\ [Next]_vars =>
        [\A t \in Tasks : (task[t].agent # "done" /\ task'[t].agent = "done")
            => task[t].evidence = "good" /\ task[t].agent # "pending"]_vars
  BY TaskSteps DEF WatcherInv, TaskStepOK, Rewritten
<1> QED
  BY <1>1, WatcherCorrect, PTL DEF Spec, DoneIsProven

-----------------------------------------------------------------------------
(* One owner.  The claim is a compare-and-set on the status, so a task has  *)
(* two owners only if it is made pending under its owner. The writes that   *)
(* can do so without looking are the sweeps' and the PATCH route's; what    *)
(* keeps them away from an owned task is the heartbeat, the reasons of a    *)
(* card that an agent closed itself, and that a sweep is not repeated while *)
(* the one before it is still to be written.                                *)
OneSweeper == \A q, r \in Sweepers : q = r
OneReleaser == \A q, r \in Releasers : q = r

ClosedCard(t) ==
    task[t].agent = "blocked" /\ task[t].reasons = "other" /\ task[t].output # "none"
Held(t) == task[t].agent \in Working /\ task[t].beat = "fresh"

OwnedWell(t) ==
    /\ \A b, c \in Owners(t) : b = c
    /\ Owners(t) # {} => Held(t) \/ ClosedCard(t)
    /\ \A r \in Replicas : t \in sweep[r] =>
          /\ r \in Sweepers /\ Owners(t) = {} /\ (task[t].agent \in Working \/ ClosedCard(t))
          /\ \A q \in Replicas : release[q][t] = None
    /\ \A r \in Replicas : release[r][t] # None =>
          r \in Releasers /\ Owners(t) = {} /\ task[t].agent \in {"blocked", "awaiting-input"}
    /\ request[t].kind # "requeue"
OwnerInv == \A t \in Tasks : OwnedWell(t)

(* A call that is started is not yet an owner, and one that ends no longer. *)
LEMMA StartOwners ==
    ASSUME Types, NEW r \in Replicas, NEW S \in SUBSET Tasks,
           NEW data \in [Tasks -> Snapshot], NEW flying, NEW count \in Nat,
           NEW waiting, NEW done \in SUBSET Calls,
           Start(r, S, data, flying, count, waiting, done), NEW u \in Tasks
    PROVE  Owners(u)' = Owners(u) \ done
<1>1. PICK started \in SUBSET Tasks : \E pick \in [started -> Calls] :
        Started(r, S, data, flying, count, waiting, done, started, pick)
  BY StartIsStarted
<1>2. PICK pick \in [started -> Calls] :
        Started(r, S, data, flying, count, waiting, done, started, pick)
  BY <1>1
<1>3. calls' = [c \in Calls |->
          IF \E t \in started : c = pick[t] THEN StartedCall(data[Task(c)], Task(c))
          ELSE IF c \in done THEN Free ELSE calls[c]]
  BY <1>2 DEF Started
<1>4. \A t \in started : calls[pick[t]].pc = "free" \/ pick[t] \in done
  BY <1>2 DEF Started
<1>5. ASSUME NEW c \in Calls
      PROVE  calls'[c].pc \in Owning <=> calls[c].pc \in Owning /\ c \notin done
  <2>1. CASE \E t \in started : c = pick[t]
    <3>1. Task(c) \in Tasks
      BY DEF Calls, Task
    <3>2. calls'[c].pc \in {"deps", "claim"}
      BY <1>3, <2>1, <3>1, StartedCallType
    <3>3. calls[c].pc = "free" \/ c \in done
      BY <1>4, <2>1
    <3> QED
      BY <3>2, <3>3 DEF Owning
  <2>2. CASE ~\E t \in started : c = pick[t]
    <3>1. calls'[c] = IF c \in done THEN Free ELSE calls[c]
      BY <1>3, <2>2
    <3> QED
      BY <3>1, FreeType DEF Owning
  <2> QED
    BY <2>1, <2>2
<1> QED
  BY <1>5 DEF Owners

LEMMA FinishOwners ==
    ASSUME Types, NEW c \in Calls, Finish(c), NEW u \in Tasks
    PROVE  Owners(u)' = Owners(u) \ {c}
<1> DEFINE r == Replica(c)
           flying == inFlight[r] \ {Task(c)}
           count == IF load[r] = 0 THEN 0 ELSE load[r] - 1
           queued == {t \in Tasks : deferred[r][t] # None}
           drain == IF count < MaxConcurrent THEN queued ELSE {}
           waiting == [t \in Tasks |-> IF t \in drain THEN None ELSE deferred[r][t]]
<1>1. r \in Replicas /\ load[r] \in Nat /\ deferred[r] \in [Tasks -> Snapshot]
  BY DEF Calls, Replica, Types, TypeOK
<1>2. Start(r, drain, deferred[r], flying, count, waiting, {c})
  BY DEF Finish
<1>3. count \in Nat /\ drain \in SUBSET Tasks /\ {c} \in SUBSET Calls
  BY <1>1
<1> HIDE DEF r, flying, count, drain, waiting
<1> QED
  BY <1>1, <1>2, <1>3, StartOwners

(* A step that is quiet about a task leaves it well owned.                  *)
SameSweeps(u) ==
    /\ \A r \in Replicas : u \in sweep'[r] => u \in sweep[r]
    /\ \A r \in Replicas : release'[r][u] # None => release[r][u] # None
    /\ request'[u].kind = "requeue" => request[u].kind = "requeue"
Quiet(u) ==
    /\ SameSweeps(u)
    /\ Owners(u)' \subseteq Owners(u)
    /\ task'[u].agent = task[u].agent
    /\ task'[u].reasons = task[u].reasons /\ task'[u].output = task[u].output
    /\ task[u].beat = "fresh" /\ Owners(u) # {} => task'[u].beat = "fresh"
Cleared(u) ==
    /\ Owners(u)' = {}
    /\ \A r \in Replicas : u \notin sweep'[r] /\ release'[r][u] = None
    /\ request'[u].kind # "requeue"

LEMMA QuietKeeps ==
    ASSUME NEW u, OwnedWell(u), Quiet(u)
    PROVE  OwnedWell(u)'
<1>1. Held(u) /\ Owners(u) # {} => Held(u)'
  BY DEF Held, Quiet
<1>2. ClosedCard(u)' <=> ClosedCard(u)
  BY DEF ClosedCard, Quiet
<1>3. /\ \A r \in Replicas : u \in sweep'[r] => u \in sweep[r]
      /\ \A r \in Replicas : release'[r][u] # None => release[r][u] # None
      /\ request'[u].kind = "requeue" => request[u].kind = "requeue"
      /\ Owners(u)' \subseteq Owners(u) /\ task'[u].agent = task[u].agent
  BY DEF Quiet, SameSweeps
<1>4. /\ \A b, c \in Owners(u)' : b = c
      /\ Owners(u)' # {} => Held(u)' \/ ClosedCard(u)'
  BY <1>1, <1>2, <1>3 DEF OwnedWell
<1>5. ASSUME NEW r \in Replicas, u \in sweep'[r]
      PROVE  /\ r \in Sweepers /\ Owners(u)' = {}
             /\ task'[u].agent \in Working \/ ClosedCard(u)'
             /\ \A q \in Replicas : release'[q][u] = None
  BY <1>2, <1>3, <1>5 DEF OwnedWell
<1>6. ASSUME NEW r \in Replicas, release'[r][u] # None
      PROVE  /\ r \in Releasers /\ Owners(u)' = {}
             /\ task'[u].agent \in {"blocked", "awaiting-input"}
  BY <1>3, <1>6 DEF OwnedWell
<1>7. request'[u].kind # "requeue"
  BY <1>3 DEF OwnedWell
<1> QED
  BY <1>4, <1>5, <1>6, <1>7 DEF OwnedWell

LEMMA ClearedKeeps ==
    ASSUME NEW u, Cleared(u)
    PROVE  OwnedWell(u)'
BY DEF Cleared, OwnedWell

(* An owner that ends.  Whatever it writes, nobody else holds its task.     *)
LEMMA FinishingKeeps ==
    ASSUME Types, OwnerInv, NEW c \in Calls, calls[c].pc \in Owning, NEW d,
           Write(Task(c), d), Finish(c), UNCHANGED <<sweepVars, request>>
    PROVE  OwnerInv'
<1>1. Task(c) \in Tasks /\ c \in Owners(Task(c))
  BY DEF Calls, Task, Owners
<1>2. \A u \in Tasks : Owners(u)' = Owners(u) \ {c}
  BY FinishOwners
<1>3. ASSUME NEW u \in Tasks, u # Task(c)
      PROVE  OwnedWell(u)'
  <2>1. task'[u] = task[u]
    BY <1>3 DEF Write, Types, TypeOK
  <2>2. Quiet(u)
    BY <1>2, <2>1 DEF Quiet, SameSweeps, sweepVars
  <2> QED
    BY <2>2, QuietKeeps DEF OwnerInv
<1>4. OwnedWell(Task(c))'
  <2> DEFINE t == Task(c)
  <2>1. OwnedWell(t)
    BY <1>1 DEF OwnerInv
  <2>2. Owners(t)' = {}
    BY <1>1, <1>2, <2>1 DEF OwnedWell
  <2>3. \A r \in Replicas : t \notin sweep[r] /\ release[r][t] = None
    BY <1>1, <2>1 DEF OwnedWell
  <2>4. Cleared(t)
    BY <2>1, <2>2, <2>3 DEF Cleared, sweepVars, OwnedWell
  <2> QED
    BY <2>4, ClearedKeeps
<1> QED
  BY <1>3, <1>4 DEF OwnerInv

(* A step after which the same calls own.                                   *)
LEMMA SameOwners ==
    ASSUME NEW u \in Tasks, \A c \in Calls : calls'[c].pc \in Owning <=> calls[c].pc \in Owning
    PROVE  Owners(u)' = Owners(u)
BY DEF Owners

-----------------------------------------------------------------------------
(* A step that only lets owners of a task go, and of no other task.         *)
Still(u) == task'[u] = task[u] /\ Owners(u)' \subseteq Owners(u) /\ SameSweeps(u)

LEMMA StillKeeps ==
    ASSUME NEW u, OwnedWell(u), Still(u)
    PROVE  OwnedWell(u)'
<1>1. Quiet(u)
  BY DEF Quiet, Still
<1> QED
  BY <1>1, QuietKeeps

LEMMA StillStep ==
    ASSUME OwnerInv, \A u \in Tasks : Still(u)
    PROVE  OwnerInv'
BY StillKeeps DEF OwnerInv

LEMMA StillButOne ==
    ASSUME OwnerInv, NEW t \in Tasks, \A u \in Tasks \ {t} : Still(u), OwnedWell(t)'
    PROVE  OwnerInv'
BY StillKeeps DEF OwnerInv

(* The steps of calls, of replicas and of tasks keep tasks well owned.      *)
LEMMA CallOwnerSteps ==
    ASSUME Types, OwnerInv, NEW c \in Calls, CallStep(c) \/ CallFault(c) \/ Beat(c)
    PROVE  OwnerInv'
<1> DEFINE t == Task(c)
<1>0. /\ t \in Tasks /\ calls[c] \in CallType /\ calls \in [Calls -> CallType]
      /\ task \in [Tasks -> TaskType] /\ OwnedWell(t)
  BY DEF Calls, Task, Types, TypeOK, OwnerInv
<1>s. UNCHANGED <<sweepVars, request>> => \A u \in Tasks : SameSweeps(u)
  BY DEF SameSweeps, sweepVars
<1>1. ASSUME DepsChecked(c) \/ Post(c) \/ PostLost(c) \/ ReadCompletion(c)
      PROVE  OwnerInv'
  <2>1. task' = task /\ UNCHANGED <<sweepVars, request>>
    BY <1>1 DEF DepsChecked, Post, PostLost, ReadCompletion
  <2>2. \A b \in Calls : calls'[b].pc \in Owning <=> calls[b].pc \in Owning
    BY <1>0, <1>1, FreeType DEF DepsChecked, Post, PostLost, ReadCompletion, Become, Owning, CallType
  <2>3. \A u \in Tasks : Owners(u)' = Owners(u)
    BY <2>2, SameOwners
  <2>q. \A u \in Tasks : Still(u)
    BY <1>s, <2>1, <2>3 DEF Still
  <2> QED
    BY <2>q, StillStep
<1>2. ASSUME ClaimTask(c)
      PROVE  OwnerInv'
  <2>1. CASE Claimable(t)
    <3> DEFINE d == [WithStatus(task[t], "picked-up") EXCEPT !.beat = "fresh"]
    <3>1. /\ Write(t, d) /\ Become(c, "route") /\ calls[c].pc = "claim"
          /\ UNCHANGED <<sweepVars, request>> /\ task[t].agent = "pending"
      BY <1>2, <2>1 DEF ClaimTask, Claimable, Dispatchable
    <3>2. Owners(t) = {} /\ \A r \in Replicas : t \notin sweep[r] /\ release[r][t] = None
      BY <1>0, <3>1 DEF OwnedWell, Held, ClosedCard, Working
    <3>3. d.agent = "picked-up" /\ d.beat = "fresh"
      <4> DEFINE w == WithStatus(task[t], "picked-up")
      <4>1. w \in TaskType /\ w.agent = "picked-up"
        BY <1>0, WithStatusFacts DEF Statuses, Working
      <4> HIDE DEF w
      <4>2. [w EXCEPT !.beat = "fresh"].agent = "picked-up" /\ [w EXCEPT !.beat = "fresh"].beat = "fresh"
        BY <4>1 DEF TaskType
      <4> QED
        BY <4>2 DEF w
    <3> HIDE DEF d
    <3>4. \A b \in Calls : calls'[b].pc \in Owning <=> calls[b].pc \in Owning \/ b = c
      BY <1>0, <3>1 DEF Become, CallType, Owning
    <3>5. Owners(t)' = {c} /\ \A u \in Tasks \ {t} : Owners(u)' = Owners(u)
      BY <3>2, <3>4 DEF Owners
    <3>6. task'[t] = d /\ \A u \in Tasks \ {t} : task'[u] = task[u]
      BY <1>0, <3>1 DEF Write
    <3>7. Held(t)'
      BY <3>3, <3>6 DEF Held, Working
    <3>8. OwnedWell(t)'
      BY <1>0, <3>1, <3>2, <3>5, <3>7 DEF OwnedWell, sweepVars
    <3>q. \A u \in Tasks \ {t} : Still(u)
      BY <1>0, <1>s, <3>1, <3>5, <3>6 DEF Still
    <3> QED
      BY <1>0, <3>q, <3>8, StillButOne
  <2>2. CASE ~Claimable(t)
    <3>1. Finish(c) /\ task' = task /\ UNCHANGED <<sweepVars, request>>
      BY <1>2, <2>2 DEF ClaimTask
    <3>2. \A u \in Tasks : Owners(u)' \subseteq Owners(u)
      BY <3>1, FinishOwners
    <3>q. \A u \in Tasks : Still(u)
      BY <1>s, <3>1, <3>2 DEF Still
    <3> QED
      BY <3>q, StillStep
  <2> QED
    BY <2>1, <2>2
<1>3. ASSUME Route(c)
      PROVE  OwnerInv'
  <2> DEFINE d == [WithStatus(task[t], "in-progress") EXCEPT !.beat = "fresh"]
  <2>1. /\ Write(t, d) /\ calls[c].pc = "route" /\ UNCHANGED <<sweepVars, request>>
        /\ calls' = [calls EXCEPT ![c].pc = "post", ![c].notes = task[t].notes]
    BY <1>3 DEF Route
  <2>2. \A b \in Calls : calls'[b].pc \in Owning <=> calls[b].pc \in Owning
    BY <1>0, <2>1 DEF Owning, CallType
  <2>3. \A u \in Tasks : Owners(u)' = Owners(u)
    BY <2>2, SameOwners
  <2>4. c \in Owners(t)
    BY <1>0, <2>1 DEF Owners, Owning
  <2>5. \A r \in Replicas : t \notin sweep[r] /\ release[r][t] = None
    BY <1>0, <2>4 DEF OwnedWell
  <2>6. d.agent = "in-progress" /\ d.beat = "fresh"
    <3> DEFINE w == WithStatus(task[t], "in-progress")
    <3>1. w \in TaskType /\ w.agent = "in-progress"
      BY <1>0, WithStatusFacts DEF Statuses, Working
    <3> HIDE DEF w
    <3>2. [w EXCEPT !.beat = "fresh"].agent = "in-progress" /\ [w EXCEPT !.beat = "fresh"].beat = "fresh"
      BY <3>1 DEF TaskType
    <3> QED
      BY <3>2 DEF w
  <2> HIDE DEF d
  <2>7. task'[t] = d /\ \A u \in Tasks \ {t} : task'[u] = task[u]
    BY <1>0, <2>1 DEF Write
  <2>8. Held(t)'
    BY <2>6, <2>7 DEF Held, Working
  <2>9. OwnedWell(t)'
    BY <1>0, <2>1, <2>3, <2>5, <2>8 DEF OwnedWell, sweepVars
  <2>q. \A u \in Tasks \ {t} : Still(u)
    BY <1>0, <1>s, <2>1, <2>3, <2>7 DEF Still
  <2> QED
    BY <1>0, <2>q, <2>9, StillButOne
<1>4. ASSUME Reconcile(c), ~Finish(c)
      PROVE  OwnerInv'
  <2>1. /\ task' = task /\ UNCHANGED <<sweepVars, request>>
        /\ Become(c, "run") /\ calls[c].pc = "reconcile"
    BY <1>4 DEF Reconcile
  <2>2. \A b \in Calls : calls'[b].pc \in Owning <=> calls[b].pc \in Owning
    BY <1>0, <2>1 DEF Become, Owning, CallType
  <2>3. \A u \in Tasks : Owners(u)' = Owners(u)
    BY <2>2, SameOwners
  <2>q. \A u \in Tasks : Still(u)
    BY <1>s, <2>1, <2>3 DEF Still
  <2> QED
    BY <2>q, StillStep
<1>5. ASSUME calls[c].pc \in Owning, Finish(c), \E d : Write(t, d), UNCHANGED <<sweepVars, request>>
      PROVE  OwnerInv'
  BY <1>5, FinishingKeeps
<1>6. ASSUME \/ RouteFails(c) \/ NoConfig(c) \/ PostConflicts(c) \/ PostCut(c)
             \/ ReconcileFails(c) \/ RunFailed(c) \/ PollFails(c) \/ AwaitInput(c)
             \/ RejectCompletion(c) \/ AcceptCompletion(c)
             \/ (Reconcile(c) /\ Finish(c))
      PROVE  OwnerInv'
  <2>1. calls[c].pc \in Owning /\ Finish(c) /\ UNCHANGED <<sweepVars, request>>
    BY <1>6 DEF RouteFails, NoConfig, PostConflicts, PostCut, ReconcileFails, RunFailed,
                PollFails, AwaitInput, RejectCompletion, AcceptCompletion, Reconcile, Owning
  <2>2. CASE \E d : Write(t, d)
    BY <1>5, <2>1, <2>2
  <2>3. CASE ~\E d : Write(t, d)
    <3>1. Reconcile(c) /\ task' = task
      BY <1>6, <2>3 DEF RouteFails, NoConfig, PostConflicts, PostCut, ReconcileFails, RunFailed,
                PollFails, AwaitInput, RejectCompletion, AcceptCompletion, Reconcile
    <3>2. \A u \in Tasks : Owners(u)' \subseteq Owners(u)
      BY <2>1, FinishOwners
    <3>q. \A u \in Tasks : Still(u)
      BY <1>s, <2>1, <3>1, <3>2 DEF Still
    <3> QED
      BY <3>q, StillStep
  <2> QED
    BY <2>2, <2>3
<1>7. ASSUME Beat(c)
      PROVE  OwnerInv'
  <2>1. Write(t, [task[t] EXCEPT !.beat = "fresh"]) /\ UNCHANGED <<calls, sweepVars, request>>
    BY <1>7 DEF Beat
  <2>2. \A u \in Tasks : Owners(u)' = Owners(u)
    BY <2>1 DEF Owners
  <2>3. task'[t] = [task[t] EXCEPT !.beat = "fresh"] /\ \A u \in Tasks \ {t} : task'[u] = task[u]
    BY <1>0, <2>1 DEF Write
  <2>4. Quiet(t)
    BY <1>0, <1>s, <2>1, <2>2, <2>3 DEF Quiet, TaskType
  <2>5. OwnedWell(t)'
    BY <1>0, <2>4, QuietKeeps
  <2>q. \A u \in Tasks \ {t} : Still(u)
    BY <1>0, <1>s, <2>1, <2>2, <2>3 DEF Still
  <2> QED
    BY <1>0, <2>q, <2>5, StillButOne
<1> QED
  BY <1>1, <1>2, <1>3, <1>4, <1>6, <1>7 DEF CallStep, CallFault

-----------------------------------------------------------------------------
LEMMA ReplicaOwnerSteps ==
    ASSUME Types, OwnerInv, OneSweeper, OneReleaser, NEW r \in Replicas, ReplicaStep(r)
    PROVE  OwnerInv'
<1>0. /\ task \in [Tasks -> TaskType] /\ sweep \in [Replicas -> SUBSET Tasks]
      /\ release \in [Replicas -> [Tasks -> Snapshot]] /\ calls \in [Calls -> CallType]
  BY DEF Types, TypeOK
<1>s. UNCHANGED <<sweepVars, request>> => \A u \in Tasks : SameSweeps(u)
  BY DEF SameSweeps, sweepVars
<1>c. UNCHANGED calls => \A u \in Tasks : Owners(u)' = Owners(u)
  BY DEF Owners
<1>1. ASSUME SweepRead(r)
      PROVE  OwnerInv'
  <2>1. /\ UNCHANGED <<task, calls, release, request>> /\ r \in Sweepers
        /\ sweep' = [sweep EXCEPT ![r] = {t \in Tasks : Stale(task[t])}]
    BY <1>1 DEF SweepRead
  <2>2. ASSUME NEW u \in Tasks, ~Stale(task[u])
        PROVE  OwnedWell(u)'
    <3>1. \A q \in Replicas : u \in sweep'[q] => u \in sweep[q]
      BY <1>0, <2>1, <2>2
    <3>2. Still(u)
      BY <1>c, <2>1, <3>1 DEF Still, SameSweeps
    <3> QED
      BY <3>2, StillKeeps DEF OwnerInv
  <2>3. ASSUME NEW u \in Tasks, Stale(task[u])
        PROVE  OwnedWell(u)'
    <3>1. OwnedWell(u) /\ task[u].agent \in Working /\ task[u].beat # "fresh"
      BY <2>3 DEF OwnerInv, Stale
    <3>2. Owners(u) = {} /\ \A q \in Replicas : release[q][u] = None
      BY <3>1 DEF OwnedWell, Held, ClosedCard, Working
    <3>3. \A q \in Replicas : u \in sweep'[q] => q \in Sweepers
      BY <1>0, <2>1, <3>1 DEF OwnedWell
    <3> QED
      BY <1>c, <2>1, <3>1, <3>2, <3>3 DEF OwnedWell
  <2> QED
    BY <2>2, <2>3 DEF OwnerInv
<1>2. ASSUME SweepCommit(r)
      PROVE  OwnerInv'
  <2>1. /\ UNCHANGED <<calls, release, request>>
        /\ sweep' = [sweep EXCEPT ![r] = {}]
    BY <1>2 DEF SweepCommit
  <2>2. ASSUME NEW u \in Tasks, u \notin sweep[r]
        PROVE  OwnedWell(u)'
    <3>1. task'[u] = task[u] /\ \A q \in Replicas : u \in sweep'[q] => u \in sweep[q]
      BY <1>0, <1>2, <2>1, <2>2 DEF SweepCommit
    <3>2. Still(u)
      BY <1>c, <2>1, <3>1 DEF Still, SameSweeps
    <3> QED
      BY <3>2, StillKeeps DEF OwnerInv
  <2>3. ASSUME NEW u \in Tasks, u \in sweep[r]
        PROVE  OwnedWell(u)'
    <3>1. /\ OwnedWell(u) /\ r \in Sweepers /\ Owners(u) = {}
          /\ \A q \in Replicas : release[q][u] = None
      BY <2>3 DEF OwnerInv, OwnedWell
    <3>2. \A q \in Replicas : u \notin sweep'[q]
      <4> TAKE q \in Replicas
      <4>1. CASE q = r
        BY <1>0, <2>1, <4>1
      <4>2. CASE q # r
        <5>1. sweep'[q] = sweep[q]
          BY <1>0, <2>1, <4>2
        <5> QED
          BY <3>1, <4>2, <5>1 DEF OwnedWell, OneSweeper
      <4> QED
        BY <4>1, <4>2
    <3>3. Cleared(u)
      BY <1>c, <2>1, <3>1, <3>2 DEF Cleared, OwnedWell
    <3> QED
      BY <3>3, ClearedKeeps
  <2> QED
    BY <2>2, <2>3 DEF OwnerInv
<1>3. ASSUME Crash(r) \/ ShutdownExits(r)
      PROVE  OwnerInv'
  <2>1. Restarted(r)
    BY <1>3 DEF Crash, ShutdownExits
  <2>2. \A u \in Tasks : Owners(u)' \subseteq Owners(u)
    BY <2>1, FreeType DEF Restarted, Owners, Owning
  <2>3. ASSUME NEW u \in Tasks
        PROVE  SameSweeps(u)
    <3>1. \A q \in Replicas : /\ sweep'[q] = IF q = r THEN {} ELSE sweep[q]
                              /\ release'[q][u] = IF q = r THEN None ELSE release[q][u]
      BY <1>0, <2>1 DEF Restarted
    <3> QED
      BY <2>1, <3>1 DEF SameSweeps, Restarted
  <2>4. \A u \in Tasks : Still(u)
    BY <2>1, <2>2, <2>3 DEF Still, Restarted
  <2> QED
    BY <2>4, StillStep
<1>4. ASSUME Shutdown(r)
      PROVE  OwnerInv'
  <2>1. \A u \in Tasks : Still(u)
    BY <1>4, <1>c, <1>s DEF Shutdown, Still
  <2> QED
    BY <2>1, StillStep
<1>5. ASSUME NEW S \in SUBSET Tasks, Notice(r, S)
      PROVE  OwnerInv'
  <2> DEFINE data == [t \in Tasks |-> Snap(task[t])]
  <2>1. /\ Start(r, S, data, inFlight[r], load[r], deferred[r], {})
        /\ UNCHANGED <<task, sweepVars, request>>
    BY <1>5 DEF Notice
  <2>2. data \in [Tasks -> Snapshot] /\ load[r] \in Nat
    BY <1>0, NoneType DEF Types, TypeOK
  <2> HIDE DEF data
  <2>3. \A u \in Tasks : Owners(u)' = Owners(u) \ {}
    BY <2>1, <2>2, StartOwners
  <2>4. \A u \in Tasks : Still(u)
    BY <1>s, <2>1, <2>3 DEF Still
  <2> QED
    BY <2>4, StillStep
<1>6. ASSUME NEW t \in Tasks, ReleaseRead(r, t)
      PROVE  OwnerInv'
  <2>1. /\ UNCHANGED <<task, calls, sweep, request>> /\ r \in Releasers
        /\ release' = [release EXCEPT ![r][t] = Snap(task[t])]
        /\ WaitingOnDeps(t) \/ Recovering(t)
    BY <1>6 DEF ReleaseRead
  <2>2. \A q \in Replicas, u \in Tasks :
           release'[q][u] = IF q = r /\ u = t THEN Snap(task[t]) ELSE release[q][u]
    BY <1>0, <2>1
  <2>3. task[t].agent \in {"blocked", "awaiting-input"} /\ ~ClosedCard(t)
    BY <2>1 DEF WaitingOnDeps, Recovering, ClosedCard
  <2>4. OwnedWell(t)
    BY DEF OwnerInv
  <2>5. Owners(t) = {} /\ \A q \in Replicas : t \notin sweep[q]
    BY <2>3, <2>4 DEF OwnedWell, Held, Working
  <2>6. OwnedWell(t)'
    BY <1>c, <2>1, <2>2, <2>3, <2>4, <2>5 DEF OwnedWell
  <2>7. \A u \in Tasks \ {t} : Still(u)
    BY <1>c, <2>1, <2>2 DEF Still, SameSweeps
  <2> QED
    BY <2>6, <2>7, StillButOne
<1>7. ASSUME NEW t \in Tasks, ReleaseWrite(r, t)
      PROVE  OwnerInv'
  <2>1. /\ UNCHANGED <<sweep, request>> /\ release[r][t] # None
        /\ release' = [release EXCEPT ![r][t] = None]
    BY <1>7 DEF ReleaseWrite
  <2>2. \A q \in Replicas, u \in Tasks :
           release'[q][u] = IF q = r /\ u = t THEN None ELSE release[q][u]
    BY <1>0, <2>1
  <2>3. \A u \in Tasks : Owners(u)' = Owners(u)
    <3>1. CASE Gated(t)
      <4> DEFINE data == [u \in Tasks |-> release[r][t]]
      <4>1. Start(r, {t}, data, inFlight[r], load[r], deferred[r], {})
        BY <1>7, <3>1 DEF ReleaseWrite
      <4>2. data \in [Tasks -> Snapshot] /\ load[r] \in Nat /\ {t} \in SUBSET Tasks
        BY <1>0 DEF Types, TypeOK
      <4> HIDE DEF data
      <4>3. \A u \in Tasks : Owners(u)' = Owners(u) \ {}
        BY <4>1, <4>2, StartOwners
      <4> QED
        BY <4>3
    <3>2. CASE ~Gated(t)
      BY <1>7, <1>c, <3>2 DEF ReleaseWrite
    <3> QED
      BY <3>1, <3>2
  <2>4. \A u \in Tasks \ {t} : task'[u] = task[u]
    BY <1>0, <1>7 DEF ReleaseWrite, Write
  <2>5. \A u \in Tasks \ {t} : Still(u)
    BY <2>1, <2>2, <2>3, <2>4 DEF Still, SameSweeps
  <2>6. OwnedWell(t) /\ r \in Releasers /\ Owners(t) = {} /\ \A q \in Replicas : t \notin sweep[q]
    BY <2>1 DEF OwnerInv, OwnedWell
  <2>7. \A q \in Replicas : release'[q][t] = None
    BY <2>2, <2>6 DEF OwnedWell, OneReleaser
  <2>8. Cleared(t)
    BY <2>1, <2>3, <2>6, <2>7 DEF Cleared, OwnedWell
  <2> QED
    BY <2>5, <2>8, ClearedKeeps, StillButOne
<1> QED
  BY <1>1, <1>2, <1>3, <1>4, <1>5, <1>6, <1>7 DEF ReplicaStep

LEMMA TaskOwnerSteps ==
    ASSUME Types, OwnerInv, "stall" \notin Faults, "requeue" \notin Moves \/ moves' = 0,
           NEW t \in Tasks, TaskStep(t)
    PROVE  OwnerInv'
<1>0. task \in [Tasks -> TaskType] /\ OwnedWell(t) /\ UNCHANGED calls
      /\ request \in [Tasks -> [retry : Attempts, kind : {"none", "requeue", "closeout"}]]
  BY DEF Types, TypeOK, OwnerInv, TaskStep, BackoffEnds, GoesStale, PatchRead, PatchWrite,
         SubmitEvidence, ReviewApproves, ReviewRejects, RunEnds
<1>s. UNCHANGED <<sweepVars, request>> => \A u \in Tasks : SameSweeps(u)
  BY DEF SameSweeps, sweepVars
<1>c. \A u \in Tasks : Owners(u)' = Owners(u)
  BY <1>0 DEF Owners
<1>w. \A d : Write(t, d) => task'[t] = d /\ \A u \in Tasks \ {t} : task'[u] = task[u]
  BY <1>0 DEF Write
<1>1. ASSUME BackoffEnds(t) \/ ReviewApproves(t) \/ (\E e \in Evidence \ {"none"} : SubmitEvidence(t, e))
      PROVE  OwnerInv'
  <2>1. UNCHANGED <<sweepVars, request>>
    BY <1>1 DEF BackoffEnds, ReviewApproves, SubmitEvidence
  <2>2. \E d : Write(t, d) /\ d.agent = task[t].agent /\ d.reasons = task[t].reasons
               /\ d.output = task[t].output /\ d.beat = task[t].beat
    <3> DEFINE x == task[t]
               alike(d) == /\ d.agent = x.agent /\ d.reasons = x.reasons
                           /\ d.output = x.output /\ d.beat = x.beat
    <3>1. \/ Write(t, [x EXCEPT !.backoff = FALSE])
          \/ Write(t, [x EXCEPT !.col = "done", !.review = "approved"])
          \/ \E e : Write(t, [x EXCEPT !.evidence = e])
      BY <1>1 DEF BackoffEnds, ReviewApproves, SubmitEvidence
    <3>2. x \in TaskType
      BY <1>0
    <3> HIDE DEF x
    <3>3. /\ alike([x EXCEPT !.backoff = FALSE])
          /\ alike([x EXCEPT !.col = "done", !.review = "approved"])
          /\ \A e : alike([x EXCEPT !.evidence = e])
      BY <3>2 DEF TaskType
    <3> HIDE DEF alike
    <3>4. \E d : Write(t, d) /\ alike(d)
      BY <3>1, <3>3
    <3> QED
      BY <3>4 DEF alike, x
  <2>3. Quiet(t)
    BY <1>c, <1>s, <1>w, <2>1, <2>2 DEF Quiet
  <2>4. \A u \in Tasks \ {t} : Still(u)
    BY <1>c, <1>s, <1>w, <2>1, <2>2 DEF Still
  <2> QED
    BY <1>0, <2>3, <2>4, QuietKeeps, StillButOne
<1>2. ASSUME GoesStale(t)
      PROVE  OwnerInv'
  <2>1. /\ UNCHANGED <<sweepVars, request>> /\ Write(t, [task[t] EXCEPT !.beat = "stale"])
        /\ ~Owned(t)
    BY <1>2 DEF GoesStale, Fail
  <2>2. Owners(t) = {}
    BY <2>1 DEF Owned, Owners
  <2>3. Quiet(t)
    BY <1>0, <1>c, <1>s, <1>w, <2>1, <2>2 DEF Quiet, TaskType
  <2>4. \A u \in Tasks \ {t} : Still(u)
    BY <1>c, <1>s, <1>w, <2>1 DEF Still
  <2> QED
    BY <1>0, <2>3, <2>4, QuietKeeps, StillButOne
<1>3. ASSUME NEW kind \in {"requeue", "closeout"}, PatchRead(t, kind)
      PROVE  OwnerInv'
  <2>1. /\ UNCHANGED <<task, sweepVars>> /\ kind # "requeue"
        /\ request' = [request EXCEPT ![t] = [retry |-> task[t].retry, kind |-> kind]]
    <3>1. moves' # 0
      BY <1>3, SizesAssumption DEF PatchRead, Move, Types, TypeOK
    <3> QED
      BY <1>3, <3>1 DEF PatchRead, Move, CanMove
  <2>2. \A u \in Tasks : request'[u].kind = "requeue" => request[u].kind = "requeue"
    BY <1>0, <2>1
  <2>3. \A u \in Tasks : Still(u)
    BY <1>c, <2>1, <2>2 DEF Still, SameSweeps, sweepVars
  <2> QED
    BY <2>3, StillStep
<1>4. ASSUME PatchWrite(t)
      PROVE  OwnerInv'
  <2> DEFINE d == ClosedOut(task[t])
  <2>1. /\ UNCHANGED sweepVars /\ Write(t, d) /\ request' = [request EXCEPT ![t] = None]
    BY <1>0, <1>4 DEF PatchWrite, OwnedWell
  <2>2. d.agent = "blocked" /\ d.reasons = "other" /\ d.output # "none"
    <3> DEFINE v == WithStatus(task[t], "blocked")
               o == IF v.output = "human" THEN "human" ELSE "summary"
    <3>1. d = [v EXCEPT !.review = "changes-requested", !.beat = "none",
                        !.reasons = "other", !.output = o]
      BY DEF ClosedOut
    <3>2. v \in TaskType /\ v.agent = "blocked" /\ o # "none"
      BY <1>0, WithStatusFacts DEF Statuses
    <3> HIDE DEF d, v, o
    <3> QED
      BY <3>1, <3>2 DEF TaskType
  <2> HIDE DEF d
  <2>3. ClosedCard(t)' /\ task'[t].agent = "blocked"
    BY <1>w, <2>1, <2>2 DEF ClosedCard
  <2>4. \A u \in Tasks : request'[u].kind = "requeue" => request[u].kind = "requeue"
    BY <1>0, <2>1 DEF None
  <2>5. OwnedWell(t)'
    BY <1>0, <1>c, <2>1, <2>3, <2>4 DEF OwnedWell, sweepVars
  <2>6. \A u \in Tasks \ {t} : Still(u)
    BY <1>c, <1>w, <2>1, <2>4 DEF Still, SameSweeps, sweepVars
  <2> QED
    BY <2>5, <2>6, StillButOne
<1>5. ASSUME ReviewRejects(t)
      PROVE  OwnerInv'
  <2>1. UNCHANGED <<sweepVars, request>> /\ task[t].agent = "done" /\ \E d : Write(t, d)
    BY <1>5 DEF ReviewRejects, AwaitsReview
  <2>2. Owners(t) = {} /\ \A r \in Replicas : t \notin sweep[r] /\ release[r][t] = None
    BY <1>0, <2>1 DEF OwnedWell, Held, ClosedCard, Working
  <2>3. Cleared(t)
    BY <1>0, <1>c, <2>1, <2>2 DEF Cleared, sweepVars, OwnedWell
  <2>4. \A u \in Tasks \ {t} : Still(u)
    BY <1>c, <1>s, <1>w, <2>1 DEF Still
  <2> QED
    BY <2>3, <2>4, ClearedKeeps, StillButOne
<1>6. ASSUME NEW k \in Attempts, RunEnds(t, k)
      PROVE  OwnerInv'
  <2>1. \A u \in Tasks : Still(u)
    BY <1>6, <1>c, <1>s DEF RunEnds, Still
  <2> QED
    BY <2>1, StillStep
<1> QED
  BY <1>1, <1>2, <1>3, <1>4, <1>5, <1>6 DEF TaskStep

(* Two calls never work on one task at the same time, in whatever replicas  *)
(* they run (claim.ts: the claim transaction), provided one process runs    *)
(* the stale sweep and one the release sweep, no owner stalls for the five  *)
(* minutes that make it stale, and nobody requeues a task under its owner:  *)
(* each of these resets a task without looking at it again.                 *)
THEOREM OneOwnerAtATime ==
    ASSUME OneSweeper, OneReleaser, "stall" \notin Faults, "requeue" \notin Moves
    PROVE  Spec => []OneOwner
<1>1. Init => OwnerInv
  BY FreeType DEF Init, OwnerInv, OwnedWell, Owners, Owning, None
<1>2. WatcherInv /\ OwnerInv /\ [Next]_vars => OwnerInv'
  <2> SUFFICES ASSUME WatcherInv, OwnerInv, [Next]_vars
               PROVE  OwnerInv'
    OBVIOUS
  <2>1. Types
    BY DEF WatcherInv
  <2>2. CASE UNCHANGED vars
    <3>1. \A u \in Tasks : Still(u)
      BY <2>2 DEF vars, Still, SameSweeps, Owners
    <3> QED
      BY <3>1, StillStep
  <2> QED
    BY <2>1, <2>2, CallOwnerSteps, ReplicaOwnerSteps, TaskOwnerSteps DEF Next
<1>3. OwnerInv => OneOwner
  BY DEF OwnerInv, OwnedWell, OneOwner
<1> QED
  BY <1>1, <1>2, <1>3, WatcherCorrect, PTL DEF Spec

-----------------------------------------------------------------------------
(* One live run.  A run lives under its attempt number, and a post of a     *)
(* number that was posted before creates nothing. So a second live run      *)
(* needs a second number while the first run is alive: the number must not  *)
(* grow under a live run, and no call may post an older number than the     *)
(* document has. With one process that is because one call works on a task; *)
(* with many it is because the older numbers are all taken.                 *)

(* Writes that change neither the attempt number nor the comments.          *)
Kept(d, e) == e.retry = d.retry /\ e.notes = d.notes

LEMMA StatusKept ==
    ASSUME NEW d \in TaskType, NEW s \in Statuses
    PROVE  LET w == WithStatus(d, s) IN
           /\ Kept(d, [w EXCEPT !.beat = "none"]) /\ [w EXCEPT !.beat = "none"].agent = s
           /\ Kept(d, [w EXCEPT !.beat = "fresh"]) /\ [w EXCEPT !.beat = "fresh"].agent = s
           /\ Kept(d, [w EXCEPT !.output = "human"])
<1> DEFINE w == WithStatus(d, s)
<1>1. w \in TaskType /\ w.agent = s /\ w.retry = d.retry /\ w.notes = d.notes
  BY WithStatusFacts
<1> HIDE DEF w
<1>2. /\ Kept(d, [w EXCEPT !.beat = "none"]) /\ [w EXCEPT !.beat = "none"].agent = s
      /\ Kept(d, [w EXCEPT !.beat = "fresh"]) /\ [w EXCEPT !.beat = "fresh"].agent = s
      /\ Kept(d, [w EXCEPT !.output = "human"])
  BY <1>1 DEF Kept, TaskType
<1> QED
  BY <1>2 DEF w

LEMMA FieldKept ==
    ASSUME NEW d \in TaskType, NEW b
    PROVE  /\ Kept(d, [d EXCEPT !.beat = b]) /\ Kept(d, [d EXCEPT !.backoff = b])
           /\ Kept(d, [d EXCEPT !.reasons = b]) /\ Kept(d, [d EXCEPT !.evidence = b])
BY DEF Kept, TaskType

(* The number of a failure that is not retried, and of a verdict.           *)
LEMMA VerdictTries ==
    ASSUME NEW d \in TaskType, NEW s \in SeenType, NEW t
    PROVE  /\ RequeueCompletion(d, s).notes = d.notes + 1
           /\ RequeueCompletion(d, s).retry = s.retry + 1
           /\ RequeueCompletion(d, s).agent = "pending"
           /\ \A v : /\ BlockCompletion(d, v).notes = d.notes
                     /\ BlockCompletion(d, v).agent = "blocked"
                     /\ BlockCompletion(d, v).output = "summary"
                     /\ BlockCompletion(d, v).retry = 0
           /\ Complete(d, t).notes = d.notes /\ Complete(d, t).agent = "done"
           /\ Complete(d, t).retry = 0
<1>1. \A w \in Statuses : /\ WithStatus(d, w) \in TaskType /\ WithStatus(d, w).agent = w
                          /\ WithStatus(d, w).notes = d.notes
  BY WithStatusFacts
<1>2. /\ RequeueCompletion(d, s).notes = d.notes + 1
      /\ RequeueCompletion(d, s).retry = s.retry + 1
      /\ RequeueCompletion(d, s).agent = "pending"
  <2> DEFINE w == WithStatus(d, "pending")
  <2>1. w \in TaskType /\ w.agent = "pending" /\ w.notes = d.notes
    BY <1>1 DEF Statuses
  <2> HIDE DEF w
  <2> QED
    BY <2>1 DEF RequeueCompletion, TaskType, w
<1>3. \A v : /\ BlockCompletion(d, v).notes = d.notes
             /\ BlockCompletion(d, v).agent = "blocked"
             /\ BlockCompletion(d, v).output = "summary"
             /\ BlockCompletion(d, v).retry = 0
  <2> DEFINE w == WithStatus(d, "blocked")
  <2>1. w \in TaskType /\ w.agent = "blocked" /\ w.notes = d.notes
    BY <1>1 DEF Statuses
  <2> HIDE DEF w
  <2> QED
    BY <2>1 DEF BlockCompletion, TaskType, w
<1>4. Complete(d, t).notes = d.notes /\ Complete(d, t).agent = "done" /\ Complete(d, t).retry = 0
  BY DEF Complete, TaskType
<1> QED
  BY <1>2, <1>3, <1>4

LEMMA FailedTries ==
    ASSUME Types, NEW c \in Calls
    PROVE  /\ Kept(task[Task(c)], AfterFailure(task[Task(c)], calls[c], FALSE))
           /\ AfterFailure(task[Task(c)], calls[c], FALSE).agent = "blocked"
           /\ AfterFailure(task[Task(c)], calls[c], FALSE).output = "summary"
<1>1. task[Task(c)] \in TaskType /\ calls[c] \in CallType
  BY DEF Calls, Task, Types, TypeOK
<1>2. ~MayRequeue(calls[c], FALSE)
  BY DEF MayRequeue
<1> QED
  BY <1>1, <1>2, AfterFailureFacts DEF Kept

-----------------------------------------------------------------------------
(* One live run.                                                            *)
Busy(t) == {c \in Calls : Task(c) = t /\ calls[c].pc # "free"}

(* What starting a batch does to the calls of one task: at most one of them *)
(* is started, from the data of the batch and only while there is room, and *)
(* the others end or go on.                                                 *)
Batch(r, S, data, flying, count, waiting, done) ==
    /\ Start(r, S, data, flying, count, waiting, done)
    /\ r \in Replicas /\ S \in SUBSET Tasks /\ data \in [Tasks -> Snapshot]
    /\ flying \in SUBSET Tasks /\ count \in Nat /\ waiting \in [Tasks -> Snapshot]
    /\ done \in SUBSET Calls
PassedOver(r, S, data, flying, waiting, done, u) ==
    /\ \A c \in Calls : Task(c) = u => calls'[c] = IF c \in done THEN Free ELSE calls[c]
    /\ u \in inFlight'[r] <=> u \in flying
    /\ deferred'[r][u] = waiting[u] \/ (u \in S \ flying /\ deferred'[r][u] = data[u])
Taken(r, S, data, flying, count, waiting, done, u, b) ==
    /\ Replica(b) = r /\ Task(b) = u
    /\ calls'[b] = StartedCall(data[u], u)
    /\ \A c \in Calls \ {b} : Task(c) = u => calls'[c] = IF c \in done THEN Free ELSE calls[c]
    /\ u \in S \ flying /\ count < MaxConcurrent
    /\ ~Gated(u) => u \in inFlight'[r]
    /\ deferred'[r][u] = waiting[u]

LEMMA StartCalls ==
    ASSUME Types, NEW r, NEW S, NEW data, NEW flying, NEW count, NEW waiting, NEW done,
           Batch(r, S, data, flying, count, waiting, done), NEW u \in Tasks
    PROVE  /\ \A q \in Replicas \ {r} : inFlight'[q] = inFlight[q] /\ deferred'[q] = deferred[q]
           /\ \/ PassedOver(r, S, data, flying, waiting, done, u)
              \/ \E b \in Calls : Taken(r, S, data, flying, count, waiting, done, u, b)
<1>b. /\ r \in Replicas /\ S \in SUBSET Tasks /\ data \in [Tasks -> Snapshot]
      /\ flying \in SUBSET Tasks /\ count \in Nat /\ waiting \in [Tasks -> Snapshot]
      /\ done \in SUBSET Calls
  BY DEF Batch
<1>1. PICK started \in SUBSET Tasks : \E pick \in [started -> Calls] :
        Started(r, S, data, flying, count, waiting, done, started, pick)
  BY StartIsStarted DEF Batch
<1>2. PICK pick \in [started -> Calls] :
        Started(r, S, data, flying, count, waiting, done, started, pick)
  BY <1>1
<1>0. inFlight \in [Replicas -> SUBSET Tasks] /\ deferred \in [Replicas -> [Tasks -> Snapshot]]
  BY DEF Types, TypeOK
<1>3. /\ \A q \in Replicas \ {r} : inFlight'[q] = inFlight[q] /\ deferred'[q] = deferred[q]
      /\ inFlight'[r] = flying \cup {t \in started : ~Gated(t)}
      /\ deferred'[r][u] = IF u \in S \ flying /\ count >= MaxConcurrent THEN data[u] ELSE waiting[u]
  BY <1>0, <1>2, <1>b DEF Started
<1>4. /\ started \subseteq S \ flying
      /\ count >= MaxConcurrent => started = {}
      /\ \A t \in started : Replica(pick[t]) = r /\ Task(pick[t]) = t
  BY <1>2 DEF Started, CallsOf
<1>5. \A c \in Calls : calls'[c] =
          IF \E t \in started : c = pick[t] THEN StartedCall(data[Task(c)], Task(c))
          ELSE IF c \in done THEN Free ELSE calls[c]
  BY <1>2 DEF Started
<1>6. CASE u \in started
  <2>1. pick[u] \in Calls /\ Replica(pick[u]) = r /\ Task(pick[u]) = u
    BY <1>4, <1>6
  <2>2. calls'[pick[u]] = StartedCall(data[u], u)
    BY <1>5, <1>6, <2>1
  <2>3. \A c \in Calls \ {pick[u]} :
           Task(c) = u => calls'[c] = IF c \in done THEN Free ELSE calls[c]
    BY <1>4, <1>5
  <2>4. ~(count >= MaxConcurrent) /\ u \in S \ flying
    BY <1>4, <1>6
  <2>5. count < MaxConcurrent
    BY <1>b, <2>4, SizesAssumption
  <2>6. (~Gated(u) => u \in inFlight'[r]) /\ deferred'[r][u] = waiting[u]
    BY <1>3, <1>6, <2>4
  <2> QED
    BY <1>3, <2>1, <2>2, <2>3, <2>4, <2>5, <2>6 DEF Taken
<1>7. CASE u \notin started
  <2>1. \A c \in Calls : Task(c) = u => calls'[c] = IF c \in done THEN Free ELSE calls[c]
    BY <1>4, <1>5, <1>7
  <2> QED
    BY <1>3, <1>7, <2>1 DEF PassedOver
<1> QED
  BY <1>6, <1>7

(* The finally block is a Start.                                            *)
LEMMA FinishStarts ==
    ASSUME Types, NEW c \in Calls, Finish(c)
    PROVE  \E drain, count, waiting :
              /\ Batch(Replica(c), drain, deferred[Replica(c)],
                       inFlight[Replica(c)] \ {Task(c)}, count, waiting, {c})
              /\ \A u \in drain : deferred[Replica(c)][u] # None /\ waiting[u] = None
              /\ \A u \in Tasks \ drain : waiting[u] = deferred[Replica(c)][u]
<1> DEFINE r == Replica(c)
           flying == inFlight[r] \ {Task(c)}
           count == IF load[r] = 0 THEN 0 ELSE load[r] - 1
           queued == {t \in Tasks : deferred[r][t] # None}
           drain == IF count < MaxConcurrent THEN queued ELSE {}
           waiting == [t \in Tasks |-> IF t \in drain THEN None ELSE deferred[r][t]]
<1>1. r \in Replicas /\ load[r] \in Nat /\ deferred[r] \in [Tasks -> Snapshot]
  BY DEF Calls, Replica, Types, TypeOK
<1>2. Start(r, drain, deferred[r], flying, count, waiting, {c})
  BY DEF Finish
<1>3. count \in Nat /\ drain \in SUBSET Tasks /\ \A u \in drain : deferred[r][u] # None
  BY <1>1
<1>4. waiting \in [Tasks -> Snapshot]
  BY <1>1, NoneType
<1>5. /\ \A u \in drain : waiting[u] = None
      /\ \A u \in Tasks \ drain : waiting[u] = deferred[r][u]
  BY <1>3
<1>6. flying \in SUBSET Tasks /\ {c} \in SUBSET Calls
  BY <1>1 DEF Types, TypeOK
<1> HIDE DEF count, drain, waiting, flying, r
<1>7. Batch(r, drain, deferred[r], flying, count, waiting, {c})
  BY <1>1, <1>2, <1>3, <1>4, <1>6 DEF Batch
<1> QED
  BY <1>3, <1>5, <1>7 DEF r, flying

-----------------------------------------------------------------------------
(* One process.                                                             *)
OneProcess == \A q, r \in Replicas : q = r

(* One call works on a task, on its present attempt; none while it waits.   *)
Single(t) ==
    /\ \A b, c \in Busy(t) : b = c
    /\ \A c \in Busy(t) : /\ t \in inFlight[Replica(c)] /\ calls[c].pc # "deps"
                          /\ calls[c].retry = task[t].retry
    /\ \A r \in Replicas : deferred[r][t] # None =>
          Busy(t) = {} /\ deferred[r][t].retry = task[t].retry
Lone(t) ==
    /\ Single(t)
    /\ \A c \in Busy(t) : calls[c].pc = "verify" => LiveRuns(t) = {}
    /\ \A k \in LiveRuns(t) : k = task[t].retry
Alone ==
    /\ \A t \in Tasks : ~Gated(t) => Lone(t)
    /\ \A t \in Tasks : request[t] = None
LoneInv == Untouched => Alone

(* The release sweep recovers a blocked card, which has no dependencies to  *)
(* wait for, only while nothing of it is going on: no call works on it or   *)
(* waits to, and no run of it is alive.                                     *)
RecoversIdle ==
    \A t \in Tasks, r \in Replicas : ~Gated(t) /\ release[r][t] # None =>
        Busy(t) = {} /\ LiveRuns(t) = {} /\ \A q \in Replicas : deferred[q][t] = None

LEMMA StartSingle ==
    ASSUME Types, OneProcess,
           NEW r, NEW S, NEW data, NEW flying, NEW count, NEW waiting, NEW done,
           Batch(r, S, data, flying, count, waiting, done),
           NEW u \in Tasks, ~Gated(u), Single(u), task'[u].retry = task[u].retry,
           u \in flying <=> u \in inFlight[r], \A c \in done : Task(c) # u,
           waiting[u] # None => waiting[u] = deferred[r][u],
           u \in S => data[u].retry = task[u].retry,
           u \in S /\ count < MaxConcurrent => waiting[u] = None
    PROVE  /\ Single(u)'
           /\ \A c \in Busy(u)' : calls'[c].pc # "claim" => c \in Busy(u) /\ calls'[c] = calls[c]
<1>b. r \in Replicas /\ data \in [Tasks -> Snapshot]
  BY DEF Batch
<1>0. \A q \in Replicas : q = r
  BY <1>b DEF OneProcess
<1>1. \A c \in Calls : Replica(c) = r
  BY <1>0 DEF Calls, Replica
<1>2. CASE PassedOver(r, S, data, flying, waiting, done, u)
  <2>0. /\ \A c \in Calls : Task(c) = u => calls'[c] = IF c \in done THEN Free ELSE calls[c]
        /\ u \in inFlight'[r] <=> u \in flying
        /\ deferred'[r][u] = waiting[u] \/ (u \in S \ flying /\ deferred'[r][u] = data[u])
    BY <1>2 DEF PassedOver
  <2>1. \A c \in Calls : Task(c) = u => calls'[c] = calls[c]
    BY <2>0
  <2>2. Busy(u)' = Busy(u)
    BY <2>1 DEF Busy
  <2>3. u \in S \ flying => Busy(u) = {}
    BY <1>1 DEF Single, Busy
  <2>4. deferred'[r][u] # None => Busy(u) = {} /\ deferred'[r][u].retry = task[u].retry
    BY <1>b, <2>0, <2>3 DEF Single
  <2>5. \A c \in Busy(u) : calls'[c] = calls[c]
    BY <2>1 DEF Busy
  <2>6. Single(u)'
    <3>1. \A b, c \in Busy(u)' : b = c
      BY <2>2 DEF Single
    <3>2. ASSUME NEW c \in Busy(u)'
          PROVE  u \in inFlight'[Replica(c)] /\ calls'[c].pc # "deps" /\ calls'[c].retry = task'[u].retry
      <4>1. c \in Busy(u) /\ Replica(c) = r /\ calls'[c] = calls[c]
        BY <1>1, <2>2, <2>5, <3>2 DEF Busy
      <4> QED
        BY <2>0, <4>1 DEF Single
    <3>3. ASSUME NEW q \in Replicas, deferred'[q][u] # None
          PROVE  Busy(u)' = {} /\ deferred'[q][u].retry = task'[u].retry
      BY <1>0, <2>2, <2>4, <3>3
    <3> QED
      BY <3>1, <3>2, <3>3 DEF Single
  <2> QED
    BY <2>2, <2>5, <2>6
<1>3. ASSUME NEW b \in Calls, Taken(r, S, data, flying, count, waiting, done, u, b)
      PROVE  /\ Single(u)'
             /\ \A c \in Busy(u)' : calls'[c].pc # "claim" => c \in Busy(u) /\ calls'[c] = calls[c]
  <2>0. /\ Replica(b) = r /\ Task(b) = u /\ u \in S \ flying /\ count < MaxConcurrent
        /\ calls'[b] = StartedCall(data[u], u)
        /\ \A c \in Calls \ {b} : Task(c) = u => calls'[c] = IF c \in done THEN Free ELSE calls[c]
        /\ u \in inFlight'[r] /\ deferred'[r][u] = waiting[u]
    BY <1>3 DEF Taken
  <2>1. Busy(u) = {}
    BY <1>1, <2>0 DEF Single, Busy
  <2>2. calls'[b].pc = "claim" /\ calls'[b].retry = task[u].retry
    BY <1>b, <2>0, StartedCallType
  <2>3. Busy(u)' = {b}
    BY <2>0, <2>1, <2>2 DEF Busy
  <2>4. deferred'[r][u] = None /\ u \in inFlight'[r]
    BY <2>0
  <2>5. Single(u)'
    BY <1>0, <1>b, <2>0, <2>2, <2>3, <2>4 DEF Single
  <2> QED
    BY <2>2, <2>3, <2>5
<1> QED
  BY <1>2, <1>3, StartCalls

(* A step that leaves the calls of a task alone, one that moves its call    *)
(* on, and one that ends it.                                                *)
LEMMA LoneKept ==
    ASSUME NEW u, Lone(u), \A c \in Calls : Task(c) = u => calls'[c] = calls[c],
           \A r \in Replicas : u \in inFlight[r] => u \in inFlight'[r],
           UNCHANGED deferred, task'[u].retry = task[u].retry, LiveRuns(u)' \subseteq LiveRuns(u)
    PROVE  Lone(u)'
<1>1. Busy(u)' = Busy(u) /\ \A c \in Busy(u) : calls'[c] = calls[c] /\ Replica(c) \in Replicas
  BY DEF Busy, Calls, Replica
<1>2. Single(u)'
  BY <1>1 DEF Lone, Single
<1> QED
  BY <1>1, <1>2 DEF Lone

LEMMA LoneGoesOn ==
    ASSUME NEW c \in Calls, NEW t, t = Task(c), Lone(t), calls[c].pc # "free",
           \A b \in Calls \ {c} : calls'[b] = calls[b],
           calls'[c].pc \in Owning, calls'[c].retry = calls[c].retry,
           UNCHANGED <<inFlight, deferred>>,
           task'[t].retry = task[t].retry,
           calls'[c].pc = "verify" => LiveRuns(t)' = {},
           \A k \in LiveRuns(t)' : k = task[t].retry
    PROVE  Lone(t)'
<1>1. c \in Busy(t) /\ Busy(t) = {c}
  BY DEF Busy, Lone, Single
<1>2. Busy(t)' = {c}
  BY <1>1 DEF Busy, Owning
<1>3. Single(t)'
  BY <1>1, <1>2 DEF Lone, Single, Owning
<1> QED
  BY <1>2, <1>3 DEF Lone

LEMMA LoneEnds ==
    ASSUME Types, OneProcess, Alone, NEW c \in Calls, calls[c].pc # "free", Finish(c),
           UNCHANGED <<release, request>>,
           \A u \in Tasks \ {Task(c)} : task'[u].retry = task[u].retry /\ LiveRuns(u)' \subseteq LiveRuns(u),
           ~Gated(Task(c)) => \A k \in LiveRuns(Task(c))' : k = task'[Task(c)].retry
    PROVE  Alone'
<1> DEFINE r == Replica(c)
           t == Task(c)
           flying == inFlight[r] \ {t}
<1>0. /\ r \in Replicas /\ t \in Tasks /\ \A q \in Replicas : q = r
      /\ deferred[r] \in [Tasks -> Snapshot] /\ flying \in SUBSET Tasks
      /\ {c} \in SUBSET Calls
  BY DEF Calls, Replica, Task, OneProcess, Types, TypeOK
<1>1. PICK drain, count, waiting :
         /\ Batch(r, drain, deferred[r], flying, count, waiting, {c})
         /\ \A u \in drain : deferred[r][u] # None /\ waiting[u] = None
         /\ \A u \in Tasks \ drain : waiting[u] = deferred[r][u]
  BY FinishStarts
<1>x. \A u \in Tasks : u \in flying <=> u \in inFlight[r] /\ u # t
  OBVIOUS
<1> HIDE DEF flying
<1>5. ASSUME ~Gated(t)
      PROVE  Lone(t)'
  <2>2. Lone(t) /\ c \in Busy(t)
    BY <1>0, <1>5 DEF Busy, Alone
  <2>3. Busy(t) = {c} /\ \A q \in Replicas : deferred[q][t] = None
    BY <2>2 DEF Lone, Single
  <2>4. t \notin drain /\ waiting[t] = None
    BY <1>0, <1>1, <2>3
  <2>0. \A b \in Calls : ~Taken(r, drain, deferred[r], flying, count, waiting, {c}, t, b)
    BY <2>4 DEF Taken
  <2>1. PassedOver(r, drain, deferred[r], flying, waiting, {c}, t)
    <3> HIDE DEF r, t
    <3> QED
      BY <1>0, <1>1, <2>0, StartCalls
  <2>5. Busy(t)' = {}
    BY <2>3, <2>1, FreeType DEF Busy, PassedOver
  <2>6. Single(t)'
    BY <1>0, <2>4, <2>1, <2>5 DEF Single, PassedOver
  <2> QED
    BY <1>5, <2>2, <2>5, <2>6 DEF Lone
<1>6. ASSUME NEW u \in Tasks \ {t}, ~Gated(u)
      PROVE  Lone(u)'
  <2>1. Lone(u) /\ Single(u) /\ task'[u].retry = task[u].retry
    BY <1>6 DEF Lone, Alone
  <2>2. u \in flying <=> u \in inFlight[r]
    BY <1>6, <1>x
  <2>3. /\ waiting[u] # None => waiting[u] = deferred[r][u]
        /\ u \in drain => deferred[r][u].retry = task[u].retry
        /\ u \in drain /\ count < MaxConcurrent => waiting[u] = None
    BY <1>0, <1>1, <2>1 DEF Single
  <2>4. \A b \in {c} : Task(b) # u
    BY <1>6
  <2>5. /\ Single(u)'
        /\ \A b \in Busy(u)' : calls'[b].pc # "claim" => b \in Busy(u) /\ calls'[b] = calls[b]
    <3> HIDE DEF r, t
    <3> QED
      BY <1>1, <1>6, <2>1, <2>2, <2>3, <2>4, StartSingle
  <2> QED
    BY <1>6, <2>1, <2>5 DEF Lone
<1> QED
  BY <1>0, <1>5, <1>6 DEF Alone

LEMMA LoneCallSteps ==
    ASSUME Types, OneProcess, "route" \notin Faults, Alone,
           NEW c \in Calls, ~Gated(Task(c)), CallStep(c) \/ CallFault(c) \/ Beat(c)
    PROVE  Alone'
<1> DEFINE t == Task(c)
           d == task[t]
<1>0. /\ t \in Tasks /\ calls[c] \in CallType /\ calls \in [Calls -> CallType]
      /\ task \in [Tasks -> TaskType] /\ d \in TaskType /\ Lone(t)
      /\ runs \in [Tasks -> [Attempts -> RunType]] /\ Key(c) \in Attempts
  BY DEF Calls, Task, Types, TypeOK, Key, CallType, Alone
<1>w. \A e : Write(t, e) => task'[t] = e /\ \A u \in Tasks \ {t} : task'[u] = task[u]
  BY <1>0 DEF Write
<1>r. UNCHANGED runs => \A u \in Tasks : LiveRuns(u)' = LiveRuns(u)
  BY DEF LiveRuns
<1>k. calls[c].pc # "free" => Key(c) = d.retry
  BY <1>0 DEF Lone, Single, Busy, Key
<1>n. ASSUME NEW notes, Create(t, Key(c), notes)
      PROVE  /\ LiveRuns(t)' \subseteq LiveRuns(t) \cup {Key(c)}
             /\ \A u \in Tasks \ {t} : LiveRuns(u)' = LiveRuns(u)
  BY <1>0, <1>n DEF Create, LiveRuns
(* A step that moves the call on, and one that ends it, keep the others.    *)
<1>g. ASSUME /\ calls[c].pc # "free" /\ \A b \in Calls \ {c} : calls'[b] = calls[b]
             /\ calls'[c].pc \in Owning /\ calls'[c].retry = calls[c].retry
             /\ UNCHANGED <<inFlight, deferred, release, request>>
             /\ task'[t].retry = d.retry /\ \A u \in Tasks \ {t} : task'[u] = task[u]
             /\ calls'[c].pc = "verify" => LiveRuns(t)' = {}
             /\ LiveRuns(t)' \subseteq LiveRuns(t) \cup {Key(c)}
             /\ \A u \in Tasks \ {t} : LiveRuns(u)' = LiveRuns(u)
      PROVE  Alone'
  <2>1. \A k \in LiveRuns(t)' : k = d.retry
    BY <1>0, <1>g, <1>k DEF Lone
  <2>2. Lone(t)'
    BY <1>0, <1>g, <2>1, LoneGoesOn
  <2>3. ASSUME NEW u \in Tasks \ {t}, ~Gated(u)
        PROVE  Lone(u)'
    <3>1. \A b \in Calls : Task(b) = u => calls'[b] = calls[b]
      BY <1>g, <2>3
    <3>2. Lone(u) /\ task'[u].retry = task[u].retry /\ LiveRuns(u)' \subseteq LiveRuns(u)
      BY <1>g, <2>3 DEF Alone
    <3> QED
      BY <1>g, <3>1, <3>2, LoneKept
  <2> QED
    BY <1>g, <2>2, <2>3 DEF Alone
<1>e. ASSUME /\ calls[c].pc # "free" /\ Finish(c) /\ UNCHANGED <<release, request>>
             /\ \A u \in Tasks \ {t} : task'[u] = task[u] /\ LiveRuns(u)' = LiveRuns(u)
             /\ \/ LiveRuns(t) = {} /\ LiveRuns(t)' = {}
                \/ task'[t].retry = d.retry /\ LiveRuns(t)' \subseteq LiveRuns(t) \cup {Key(c)}
      PROVE  Alone'
  <2>1. \A k \in LiveRuns(t)' : k = task'[t].retry
    BY <1>0, <1>e, <1>k DEF Lone
  <2>2. \A u \in Tasks \ {t} : task'[u].retry = task[u].retry /\ LiveRuns(u)' \subseteq LiveRuns(u)
    BY <1>e
  <2> QED
    BY <1>e, <2>1, <2>2, LoneEnds
<1>f. /\ AfterFailure(d, calls[c], FALSE).retry = d.retry
      /\ \A s \in Statuses :
           /\ [WithStatus(d, s) EXCEPT !.beat = "fresh"].retry = d.retry
           /\ [WithStatus(d, s) EXCEPT !.output = "human"].retry = d.retry
  <2>1. AfterFailure(d, calls[c], FALSE).retry = d.retry
    BY FailedTries DEF Kept
  <2>2. ASSUME NEW s \in Statuses
        PROVE  /\ Kept(d, [WithStatus(d, s) EXCEPT !.beat = "fresh"])
               /\ Kept(d, [WithStatus(d, s) EXCEPT !.output = "human"])
    BY <1>0, <2>2, StatusKept
  <2> HIDE DEF d
  <2> QED
    BY <2>1, <2>2 DEF Kept
<1>1. ASSUME DepsChecked(c)
      PROVE  FALSE
  BY <1>0, <1>1 DEF DepsChecked, Lone, Single, Busy
<1>2. ASSUME ClaimTask(c)
      PROVE  Alone'
  <2>1. CASE Claimable(t)
    <3> DEFINE e == [WithStatus(d, "picked-up") EXCEPT !.beat = "fresh"]
    <3>1. /\ calls[c].pc = "claim" /\ Write(t, e) /\ calls' = [calls EXCEPT ![c].pc = "route"]
          /\ UNCHANGED <<inFlight, deferred, release, request, runs>>
      BY <1>2, <2>1 DEF ClaimTask, Become, replicaVars, sweepVars
    <3>2. e.retry = d.retry
      BY <1>f DEF Statuses, Working
    <3> HIDE DEF e
    <3>3. /\ \A b \in Calls \ {c} : calls'[b] = calls[b]
          /\ calls'[c].pc = "route" /\ calls'[c].retry = calls[c].retry
      BY <1>0, <3>1 DEF CallType
    <3> QED
      BY <1>0, <1>g, <1>r, <1>w, <3>1, <3>2, <3>3 DEF Owning
  <2>2. CASE ~Claimable(t)
    <3>1. /\ calls[c].pc = "claim" /\ Finish(c) /\ task' = task
          /\ UNCHANGED <<release, request, runs>>
      BY <1>2, <2>2 DEF ClaimTask, sweepVars
    <3> QED
      BY <1>0, <1>e, <1>r, <3>1
  <2> QED
    BY <2>1, <2>2
<1>3. ASSUME Route(c)
      PROVE  Alone'
  <2> DEFINE e == [WithStatus(d, "in-progress") EXCEPT !.beat = "fresh"]
  <2>1. /\ calls[c].pc = "route" /\ Write(t, e)
        /\ calls' = [calls EXCEPT ![c].pc = "post", ![c].notes = d.notes]
        /\ UNCHANGED <<inFlight, deferred, release, request, runs>>
    BY <1>3 DEF Route, replicaVars, sweepVars
  <2>2. e.retry = d.retry
    BY <1>f DEF Statuses, Working
  <2> HIDE DEF e, d
  <2>3. /\ \A b \in Calls \ {c} : calls'[b] = calls[b]
        /\ calls'[c].pc = "post" /\ calls'[c].retry = calls[c].retry
    BY <1>0, <2>1 DEF CallType
  <2> QED
    BY <1>0, <1>g, <1>r, <1>w, <2>1, <2>2, <2>3 DEF Owning, d
<1>4. ASSUME Post(c) \/ PostLost(c) \/ (Reconcile(c) /\ ~Fresh(c)) \/ ReadCompletion(c)
      PROVE  Alone'
  <2>1. /\ calls[c].pc # "free" /\ task' = task
        /\ UNCHANGED <<inFlight, deferred, release, request>>
    BY <1>4 DEF Post, PostLost, Reconcile, ReadCompletion, replicaVars, sweepVars
  <2>2. UNCHANGED runs \/ \E notes : Create(t, Key(c), notes)
    BY <1>4 DEF Post, PostLost, Reconcile, ReadCompletion
  <2>3. /\ LiveRuns(t)' \subseteq LiveRuns(t) \cup {Key(c)}
        /\ \A u \in Tasks \ {t} : LiveRuns(u)' = LiveRuns(u)
    BY <1>0, <1>n, <1>r, <2>2
  <2>4. \/ \E pc \in {"run", "reconcile"} : calls' = [calls EXCEPT ![c].pc = pc]
        \/ ReadCompletion(c)
    BY <1>4 DEF Post, PostLost, Reconcile, Become
  <2>5. /\ \A b \in Calls \ {c} : calls'[b] = calls[b]
        /\ calls'[c].pc \in Owning /\ calls'[c].retry = calls[c].retry
        /\ calls'[c].pc = "verify" => ReadCompletion(c)
    BY <1>0, <2>4 DEF ReadCompletion, CallType, Owning
  <2>6. ReadCompletion(c) => LiveRuns(t)' = {}
    <3> SUFFICES ASSUME ReadCompletion(c)
                 PROVE  LiveRuns(t)' = {}
      OBVIOUS
    <3>1. runs[t][Key(c)].st = "finished" /\ runs' = runs /\ calls[c].pc = "run"
      BY DEF ReadCompletion, RunOf
    <3>2. \A k \in LiveRuns(t) : k = Key(c)
      BY <1>0, <1>k, <3>1 DEF Lone
    <3> QED
      BY <1>0, <1>r, <3>1, <3>2 DEF LiveRuns
  <2> QED
    BY <1>0, <1>g, <2>1, <2>3, <2>5, <2>6
<1>5. ASSUME \/ PostConflicts(c) \/ PostCut(c) \/ ReconcileFails(c) \/ RunFailed(c)
             \/ PollFails(c) \/ AwaitInput(c)
      PROVE  Alone'
  <2>1. calls[c].pc # "free" /\ Finish(c) /\ UNCHANGED <<release, request>>
    BY <1>5 DEF PostConflicts, PostCut, ReconcileFails, RunFailed, PollFails, AwaitInput, sweepVars
  <2>2. UNCHANGED runs \/ \E notes : Create(t, Key(c), notes)
    BY <1>5 DEF PostConflicts, PostCut, ReconcileFails, RunFailed, PollFails, AwaitInput
  <2>3. \/ Write(t, AfterFailure(d, calls[c], FALSE))
        \/ Write(t, [WithStatus(d, "awaiting-input") EXCEPT !.output = "human"])
    BY <1>5 DEF PostConflicts, PostCut, ReconcileFails, RunFailed, PollFails, AwaitInput
  <2>4. task'[t].retry = d.retry /\ \A u \in Tasks \ {t} : task'[u] = task[u]
    <3> DEFINE f == AfterFailure(d, calls[c], FALSE)
               g == [WithStatus(d, "awaiting-input") EXCEPT !.output = "human"]
    <3>1. f.retry = d.retry /\ g.retry = d.retry
      BY <1>f DEF Statuses
    <3>2. Write(t, f) \/ Write(t, g)
      BY <2>3
    <3> HIDE DEF f, g
    <3> QED
      BY <1>w, <3>1, <3>2
  <2>5. /\ LiveRuns(t)' \subseteq LiveRuns(t) \cup {Key(c)}
        /\ \A u \in Tasks \ {t} : LiveRuns(u)' = LiveRuns(u)
    BY <1>0, <1>n, <1>r, <2>2
  <2> QED
    BY <1>e, <2>1, <2>4, <2>5
<1>6. ASSUME (Reconcile(c) /\ Fresh(c)) \/ RejectCompletion(c) \/ AcceptCompletion(c)
      PROVE  Alone'
  <2>1. /\ calls[c].pc # "free" /\ Finish(c) /\ UNCHANGED <<release, request, runs>>
        /\ \E e : Write(t, e)
    BY <1>6 DEF Reconcile, RejectCompletion, AcceptCompletion, sweepVars
  <2>2. LiveRuns(t) = {}
    <3>1. CASE Reconcile(c) /\ Fresh(c)
      <4>1. runs[t][Key(c)].st = "none" /\ \A k \in LiveRuns(t) : k = Key(c)
        BY <1>0, <1>k, <2>1, <3>1 DEF Fresh, RunOf, Lone
      <4> QED
        BY <4>1 DEF LiveRuns
    <3>2. CASE RejectCompletion(c) \/ AcceptCompletion(c)
      BY <1>0, <3>2 DEF RejectCompletion, AcceptCompletion, Lone, Busy
    <3> QED
      BY <1>6, <3>1, <3>2
  <2> QED
    BY <1>0, <1>e, <1>r, <1>w, <2>1, <2>2
<1>7. ASSUME RouteFails(c) \/ NoConfig(c)
      PROVE  FALSE
  BY <1>7 DEF RouteFails, NoConfig, Fail
<1>8. ASSUME Beat(c)
      PROVE  Alone'
  <2>1. /\ Write(t, [d EXCEPT !.beat = "fresh"])
        /\ UNCHANGED <<calls, inFlight, deferred, release, request, runs>>
    BY <1>8 DEF Beat, replicaVars, sweepVars
  <2>2. [d EXCEPT !.beat = "fresh"].retry = d.retry
    BY <1>0, FieldKept DEF Kept
  <2>3. \A u \in Tasks : task'[u].retry = task[u].retry
    BY <1>w, <2>1, <2>2
  <2> QED
    BY <1>r, <2>1, <2>3, LoneKept DEF Alone
<1> QED
  BY <1>1, <1>2, <1>3, <1>4, <1>5, <1>6, <1>7, <1>8 DEF CallStep, CallFault

(* A call of a task with dependencies touches no other task.                *)
LEMMA GatedCallSteps ==
    ASSUME Types, OneProcess, Alone,
           NEW c \in Calls, Gated(Task(c)), CallStep(c) \/ CallFault(c) \/ Beat(c)
    PROVE  Alone'
<1> DEFINE t == Task(c)
<1>0. /\ t \in Tasks /\ Replica(c) \in Replicas /\ calls \in [Calls -> CallType]
      /\ inFlight \in [Replicas -> SUBSET Tasks] /\ task \in [Tasks -> TaskType]
      /\ runs \in [Tasks -> [Attempts -> RunType]]
  BY DEF Calls, Task, Replica, Types, TypeOK
<1>1. UNCHANGED <<release, request>>
  BY DEF CallStep, CallFault, DepsChecked, ClaimTask, Route, Post, PostConflicts, Reconcile, RunFailed,
         AwaitInput, ReadCompletion, RejectCompletion, AcceptCompletion, RouteFails, NoConfig,
         PostLost, PostCut, ReconcileFails, PollFails, Beat, sweepVars
<1>2. UNCHANGED task \/ \E e : Write(t, e)
  BY DEF CallStep, CallFault, DepsChecked, ClaimTask, Route, Post, PostConflicts, Reconcile, RunFailed,
         AwaitInput, ReadCompletion, RejectCompletion, AcceptCompletion, RouteFails, NoConfig,
         PostLost, PostCut, ReconcileFails, PollFails, Beat
<1>3. UNCHANGED runs \/ \E notes : Create(t, Key(c), notes)
  BY DEF CallStep, CallFault, DepsChecked, ClaimTask, Route, Post, PostConflicts, Reconcile, RunFailed,
         AwaitInput, ReadCompletion, RejectCompletion, AcceptCompletion, RouteFails, NoConfig,
         PostLost, PostCut, ReconcileFails, PollFails, Beat
<1>4. \A u \in Tasks \ {t} : task'[u].retry = task[u].retry /\ LiveRuns(u)' \subseteq LiveRuns(u)
  BY <1>0, <1>2, <1>3 DEF Write, Create, LiveRuns
<1>5. CASE calls[c].pc # "free" /\ Finish(c)
  BY <1>1, <1>4, <1>5, LoneEnds
<1>6. CASE ~(calls[c].pc # "free" /\ Finish(c))
  <2>1. /\ \A b \in Calls \ {c} : calls'[b] = calls[b]
        /\ UNCHANGED deferred /\ \A r \in Replicas : inFlight[r] \subseteq inFlight'[r]
    <3>1. CASE DepsChecked(c)
      BY <1>0, <3>1 DEF DepsChecked, Become
    <3>2. CASE ~DepsChecked(c)
      BY <1>0, <1>6, <3>2 DEF CallStep, CallFault, ClaimTask, Route, Post, PostConflicts, Reconcile, RunFailed,
         AwaitInput, ReadCompletion, RejectCompletion, AcceptCompletion, RouteFails, NoConfig,
         PostLost, PostCut, ReconcileFails, PollFails, Beat, Become, replicaVars
    <3> QED
      BY <3>1, <3>2
  <2>2. ASSUME NEW u \in Tasks, ~Gated(u)
        PROVE  Lone(u)'
    <3>1. Lone(u) /\ u # t /\ \A b \in Calls : Task(b) = u => calls'[b] = calls[b]
      BY <2>1, <2>2 DEF Alone
    <3> QED
      BY <1>1, <1>4, <2>1, <3>1, LoneKept
  <2> QED
    BY <1>1, <2>2 DEF Alone
<1> QED
  BY <1>5, <1>6

LEMMA LoneReplicaSteps ==
    ASSUME Types, CountInv, OneProcess, RecoversIdle, Alone, NEW r \in Replicas, ReplicaStep(r)
    PROVE  Alone'
<1>0. /\ task \in [Tasks -> TaskType] /\ deferred \in [Replicas -> [Tasks -> Snapshot]]
      /\ inFlight \in [Replicas -> SUBSET Tasks] /\ load[r] \in Nat /\ \A q \in Replicas : q = r
      /\ release \in [Replicas -> [Tasks -> Snapshot]]
  BY DEF OneProcess, Types, TypeOK
<1>r. UNCHANGED runs => \A u \in Tasks : LiveRuns(u)' = LiveRuns(u)
  BY DEF LiveRuns
<1>1. ASSUME SweepRead(r) \/ SweepCommit(r) \/ Shutdown(r)
      PROVE  Alone'
  <2>1. UNCHANGED <<calls, inFlight, deferred, release, request, runs>>
    BY <1>1 DEF SweepRead, SweepCommit, Shutdown, replicaVars, sweepVars
  <2>2. ASSUME NEW u \in Tasks
        PROVE  task'[u].retry = task[u].retry
    <3>1. [WithStatus(task[u], "pending") EXCEPT !.beat = "none"].retry = task[u].retry
      BY <1>0, StatusKept DEF Kept, Statuses
    <3>2. \/ task'[u] = task[u]
          \/ task'[u] = [WithStatus(task[u], "pending") EXCEPT !.beat = "none"]
      BY <1>1 DEF SweepRead, SweepCommit, Shutdown
    <3> QED
      BY <3>1, <3>2
  <2> QED
    BY <1>r, <2>1, <2>2, LoneKept DEF Alone
<1>2. ASSUME Crash(r) \/ ShutdownExits(r)
      PROVE  Alone'
  <2>1. Restarted(r)
    BY <1>2 DEF Crash, ShutdownExits
  <2>4. \A q \in Replicas, u \in Tasks : deferred'[q][u] = None
    BY <1>0, <2>1 DEF Restarted
  <2>2. \A c \in Calls : calls'[c] = Free
    BY <1>0, <2>1 DEF Restarted, Calls, Replica
  <2>3. ASSUME NEW u \in Tasks, ~Gated(u)
        PROVE  Lone(u)'
    <3>1. Busy(u)' = {}
      BY <2>2, FreeType DEF Busy
    <3>3. Single(u)'
      BY <2>4, <3>1 DEF Single
    <3>4. Lone(u) /\ task' = task /\ request' = request /\ LiveRuns(u)' = LiveRuns(u)
      BY <1>r, <2>1, <2>3 DEF Restarted, Alone
    <3> QED
      BY <3>1, <3>3, <3>4 DEF Lone
  <2> QED
    BY <2>1, <2>3, <2>4 DEF Alone, Restarted
<1>3. ASSUME NEW S \in SUBSET Tasks, Notice(r, S)
      PROVE  Alone'
  <2> DEFINE data == [t \in Tasks |-> Snap(task[t])]
  <2>1. /\ Start(r, S, data, inFlight[r], load[r], deferred[r], {})
        /\ UNCHANGED <<task, request, release, runs>>
    BY <1>3 DEF Notice, sweepVars
  <2>2. data \in [Tasks -> Snapshot] /\ \A u \in Tasks : data[u].retry = task[u].retry
    BY <1>0, NoneType DEF Snap
  <2> HIDE DEF data
  <2>3. Batch(r, S, data, inFlight[r], load[r], deferred[r], {})
    BY <1>0, <2>1, <2>2 DEF Batch
  <2>4. ASSUME NEW u \in Tasks, ~Gated(u)
        PROVE  Lone(u)'
    <3>1. Lone(u) /\ Single(u) /\ task'[u].retry = task[u].retry /\ LiveRuns(u)' = LiveRuns(u)
      BY <1>r, <2>1, <2>4 DEF Lone, Alone
    <3>2. load[r] < MaxConcurrent => deferred[r][u] = None
      BY <1>0, SizesAssumption DEF CountInv
    <3>3. data[u].retry = task[u].retry /\ \A c \in {} : Task(c) # u
      BY <2>2
    <3>4. /\ Single(u)'
          /\ \A b \in Busy(u)' : calls'[b].pc # "claim" => b \in Busy(u) /\ calls'[b] = calls[b]
      BY <2>3, <2>4, <3>1, <3>2, <3>3, StartSingle
    <3> QED
      BY <2>1, <3>1, <3>4 DEF Lone
  <2> QED
    BY <2>1, <2>4 DEF Alone
<1>4. ASSUME NEW t \in Tasks, ReleaseRead(r, t)
      PROVE  Alone'
  <2>1. UNCHANGED <<task, calls, inFlight, deferred, request, runs>>
    BY <1>4 DEF ReleaseRead, replicaVars
  <2> QED
    BY <1>r, <2>1, LoneKept DEF Alone
<1>5. ASSUME NEW t \in Tasks, ReleaseWrite(r, t), Gated(t)
      PROVE  Alone'
  <2> DEFINE snap == release[r][t]
             data == [v \in Tasks |-> snap]
  <2>1. Start(r, {t}, data, inFlight[r], load[r], deferred[r], {}) /\ UNCHANGED <<request, runs>>
    BY <1>5 DEF ReleaseWrite
  <2>2. data \in [Tasks -> Snapshot]
    BY <1>0
  <2>3. \A u \in Tasks \ {t} : task'[u] = task[u]
    BY <1>0, <1>5 DEF ReleaseWrite, Write
  <2> HIDE DEF data
  <2>4. Batch(r, {t}, data, inFlight[r], load[r], deferred[r], {})
    BY <1>0, <2>1, <2>2 DEF Batch
  <2>5. ASSUME NEW u \in Tasks, ~Gated(u)
        PROVE  Lone(u)'
    <3>1. /\ u # t /\ Lone(u) /\ Single(u) /\ task'[u].retry = task[u].retry
          /\ LiveRuns(u)' = LiveRuns(u)
      BY <1>5, <1>r, <2>1, <2>3, <2>5 DEF Lone, Alone
    <3>2. u \notin {t} /\ \A c \in {} : Task(c) # u
      BY <3>1
    <3>3. /\ Single(u)'
          /\ \A b \in Busy(u)' : calls'[b].pc # "claim" => b \in Busy(u) /\ calls'[b] = calls[b]
      BY <2>4, <2>5, <3>1, <3>2, StartSingle
    <3> QED
      BY <3>1, <3>3 DEF Lone
  <2> QED
    BY <2>1, <2>5 DEF Alone
<1>6. ASSUME NEW t \in Tasks, ReleaseWrite(r, t), ~Gated(t)
      PROVE  Alone'
  <2>1. UNCHANGED <<calls, inFlight, deferred, request, runs>> /\ release[r][t] # None
    BY <1>6 DEF ReleaseWrite, replicaVars
  <2>2. \A u \in Tasks \ {t} : task'[u] = task[u]
    BY <1>0, <1>6 DEF ReleaseWrite, Write
  <2>3. Busy(t) = {} /\ LiveRuns(t) = {} /\ \A q \in Replicas : deferred[q][t] = None
    BY <1>6, <2>1 DEF RecoversIdle
  <2>4. Lone(t)'
    <3>1. Busy(t)' = {} /\ LiveRuns(t)' = {} /\ \A q \in Replicas : deferred'[q][t] = None
      BY <1>r, <2>1, <2>3 DEF Busy
    <3> QED
      BY <3>1 DEF Lone, Single
  <2> QED
    BY <1>r, <2>1, <2>2, <2>4, LoneKept DEF Alone
<1> QED
  BY <1>1, <1>2, <1>3, <1>4, <1>5, <1>6 DEF ReplicaStep

LEMMA LoneTaskSteps ==
    ASSUME Types, Untouched', Alone, NEW t \in Tasks, TaskStep(t)
    PROVE  Alone'
<1>0. /\ task \in [Tasks -> TaskType] /\ moves \in Nat
      /\ runs \in [Tasks -> [Attempts -> RunType]]
  BY SizesAssumption DEF Types, TypeOK
<1>m. \A kind : ~Move(kind)
  BY <1>0 DEF Move, Untouched
<1>w. \A e : Write(t, e) => task'[t] = e /\ \A u \in Tasks \ {t} : task'[u] = task[u]
  BY <1>0 DEF Write
<1>r. UNCHANGED runs => \A u \in Tasks : LiveRuns(u)' = LiveRuns(u)
  BY DEF LiveRuns
<1>1. ASSUME BackoffEnds(t) \/ GoesStale(t) \/ \E e \in Evidence \ {"none"} : SubmitEvidence(t, e)
      PROVE  Alone'
  <2>1. UNCHANGED <<calls, inFlight, deferred, release, request, runs>>
    BY <1>1 DEF BackoffEnds, GoesStale, SubmitEvidence, replicaVars, sweepVars
  <2>2. \E b : \/ Write(t, [task[t] EXCEPT !.backoff = b]) \/ Write(t, [task[t] EXCEPT !.beat = b])
               \/ Write(t, [task[t] EXCEPT !.evidence = b])
    BY <1>1 DEF BackoffEnds, GoesStale, SubmitEvidence
  <2>3. task'[t].retry = task[t].retry
    <3>1. \A b : /\ Kept(task[t], [task[t] EXCEPT !.backoff = b])
                 /\ Kept(task[t], [task[t] EXCEPT !.beat = b])
                 /\ Kept(task[t], [task[t] EXCEPT !.evidence = b])
      BY <1>0, FieldKept
    <3>2. \E e : Write(t, e) /\ Kept(task[t], e)
      BY <2>2, <3>1
    <3> QED
      BY <1>w, <3>2 DEF Kept
  <2>4. \A u \in Tasks : task'[u].retry = task[u].retry
    BY <1>w, <2>2, <2>3
  <2> QED
    BY <1>r, <2>1, <2>4, LoneKept DEF Alone
<1>2. ASSUME \/ \E kind \in {"requeue", "closeout"} : PatchRead(t, kind)
             \/ PatchWrite(t) \/ ReviewApproves(t) \/ ReviewRejects(t)
      PROVE  FALSE
  BY <1>2, <1>m DEF PatchRead, PatchWrite, ReviewApproves, ReviewRejects, Alone
<1>3. ASSUME NEW k \in Attempts, RunEnds(t, k)
      PROVE  Alone'
  <2>1. UNCHANGED <<task, calls, inFlight, deferred, release, request>>
    BY <1>3 DEF RunEnds, replicaVars, sweepVars
  <2>2. \A u \in Tasks : LiveRuns(u)' \subseteq LiveRuns(u)
    BY <1>0, <1>3 DEF RunEnds, LiveRuns
  <2> QED
    BY <2>1, <2>2, LoneKept DEF Alone
<1> QED
  BY <1>1, <1>2, <1>3 DEF TaskStep

(* failure-classification.ts: at-most-once dispatch. A watcher that is the  *)
(* only process never has two runs of one task alive, whatever is lost, cut *)
(* off or stalled and however often it crashes, as long as nobody asks for  *)
(* a new run: for tasks without dependencies, whose calls are in the        *)
(* in-flight set from their start. Two conditions are needed: no failure    *)
(* comes before the post, for it counts an attempt of which no run was      *)
(* posted, and the release sweep recovers no card that a call works on or   *)
(* whose run is alive, which it does not look at.                           *)
THEOREM OneLiveRunOfAnUngatedTask ==
    ASSUME OneProcess, "route" \notin Faults
    PROVE  Spec /\ []RecoversIdle
             => [](Untouched => \A t \in Tasks : ~Gated(t) => \A j, k \in LiveRuns(t) : j = k)
<1>1. Init => LoneInv
  BY FreeType DEF Init, LoneInv, Alone, Lone, Single, Busy, LiveRuns, NoRun
<1>2. WatcherInv /\ LoneInv /\ RecoversIdle /\ [Next]_vars => LoneInv'
  <2> SUFFICES ASSUME WatcherInv, LoneInv, RecoversIdle, [Next]_vars, Untouched'
               PROVE  Alone'
    BY DEF LoneInv
  <2>1. Types /\ CountInv /\ moves \in Nat /\ moves' \in Nat /\ moves <= moves'
    BY TaskSteps, SizesAssumption DEF WatcherInv, Types, TypeOK, LimitStep
  <2>2. Alone
    BY <2>1 DEF LoneInv, Untouched
  <2>3. CASE UNCHANGED vars
    BY <2>2, <2>3, LoneKept DEF vars, LiveRuns, Alone
  <2> QED
    BY <2>1, <2>2, <2>3, LoneCallSteps, GatedCallSteps, LoneReplicaSteps, LoneTaskSteps DEF Next
<1>3. LoneInv => (Untouched => \A t \in Tasks : ~Gated(t) => \A j, k \in LiveRuns(t) : j = k)
  BY DEF LoneInv, Alone, Lone
<1> QED
  BY <1>1, <1>2, <1>3, WatcherCorrect, PTL DEF Spec

(* The same where no task has dependencies, as in watcher_anything, which   *)
(* has no release sweep, and leftover_reasons, where the sweep recovers a   *)
(* card whose run is alive.                                                 *)
THEOREM OneLiveRunInOneProcess ==
    ASSUME OneProcess, "route" \notin Faults, \A t \in Tasks : ~Gated(t)
    PROVE  Spec /\ []RecoversIdle => []OneLiveRun
<1>1. (Untouched => \A t \in Tasks : ~Gated(t) => \A j, k \in LiveRuns(t) : j = k)
        => OneLiveRun
  BY DEF OneLiveRun
<1> QED
  BY <1>1, OneLiveRunOfAnUngatedTask, PTL

-----------------------------------------------------------------------------
(* Many processes.                                                          *)
Over(d) == d.agent = "done" \/ (d.agent = "blocked" /\ d.output # "none")

(* Every attempt before the present one was posted, with fewer comments.    *)
Tried(t) ==
    /\ \A k \in LiveRuns(t) : k = task[t].retry
    /\ \A k \in Attempts : runs[t][k].notes <= task[t].notes
    /\ \A k \in Attempts : k < task[t].retry =>
          runs[t][k].st # "none" /\ runs[t][k].notes < task[t].notes
(* Nobody holds a number that is ahead of a task that may run again.        *)
CallsWithin(t, m) ==
    /\ \A c \in Busy(t) : calls[c].retry <= m
    /\ \A r \in Replicas : deferred[r][t] # None => deferred[r][t].retry <= m
Within(t) ==
    /\ ~Over(task[t]) =>
          /\ CallsWithin(t, task[t].retry)
          /\ \A r \in Replicas : release[r][t] # None => release[r][t].retry <= task[t].retry
    /\ Over(task[t]) => \A r \in Replicas : t \notin sweep[r] /\ release[r][t] = None
Steered(t) ==
    \A c \in Owners(t) :
        /\ task[t].agent \in Working /\ calls[c].pc # "reconcile"
        /\ calls[c].pc = "post" => calls[c].notes = task[t].notes
        /\ calls[c].pc \in {"run", "verify"} => calls[c].retry = task[t].retry
        /\ calls[c].pc = "verify" =>
              /\ calls[c].seen.retry = task[t].retry /\ LiveRuns(t) = {}
              /\ runs[t][task[t].retry].st # "none"
Keyed(t) == Tried(t) /\ Within(t) /\ Steered(t) /\ request[t] = None

(* A step that does not write the document or the runs of a task.           *)
LEMMA KeyedStill ==
    ASSUME NEW u \in Tasks, Keyed(u), task'[u] = task[u], runs'[u] = runs[u],
           request'[u] = request[u],
           \A r \in Replicas : /\ u \in sweep'[r] => u \in sweep[r]
                               /\ release'[r][u] = None \/ release'[r][u] = release[r][u],
           ~Over(task[u]) => CallsWithin(u, task[u].retry)',
           \A c \in Owners(u)' : c \in Owners(u) /\ calls'[c] = calls[c]
    PROVE  Keyed(u)'
<1>1. LiveRuns(u)' = LiveRuns(u)
  BY DEF LiveRuns
<1>2. Tried(u)'
  BY <1>1 DEF Keyed, Tried
<1>3. Within(u)'
  BY DEF Keyed, Within, CallsWithin
<1>4. Steered(u)'
  BY <1>1 DEF Keyed, Steered
<1> QED
  BY <1>2, <1>3, <1>4 DEF Keyed

(* Starting a batch.                                                        *)
LEMMA StartWithin ==
    ASSUME Types, NEW r, NEW S, NEW data, NEW flying, NEW count, NEW waiting, NEW done,
           Batch(r, S, data, flying, count, waiting, done), NEW u \in Tasks, NEW m,
           CallsWithin(u, m), u \in S => data[u].retry <= m,
           waiting[u] # None => waiting[u] = deferred[r][u]
    PROVE  CallsWithin(u, m)'
<1>b. r \in Replicas /\ data \in [Tasks -> Snapshot]
  BY DEF Batch
<1>c. \A c \in Calls : Task(c) = u /\ calls[c].pc # "free" => calls[c].retry <= m
  BY DEF CallsWithin, Busy
<1>1. CASE PassedOver(r, S, data, flying, waiting, done, u)
  <2>1. ASSUME NEW c \in Busy(u)'
        PROVE  calls'[c].retry <= m
    <3>1. c \in Calls /\ Task(c) = u /\ calls'[c].pc # "free"
      BY <2>1 DEF Busy
    <3>2. calls'[c] = calls[c]
      BY <1>1, <3>1, FreeType DEF PassedOver
    <3> QED
      BY <1>c, <3>1, <3>2
  <2>2. ASSUME NEW q \in Replicas, deferred'[q][u] # None
        PROVE  deferred'[q][u].retry <= m
    <3>1. CASE q = r
      BY <1>1, <2>2, <3>1 DEF PassedOver, CallsWithin
    <3>2. CASE q # r
      <4>1. deferred'[q] = deferred[q]
        BY <2>2, <3>2, StartCalls
      <4> QED
        BY <2>2, <4>1 DEF CallsWithin
    <3> QED
      BY <3>1, <3>2
  <2> QED
    BY <2>1, <2>2 DEF CallsWithin
<1>2. ASSUME NEW b \in Calls, Taken(r, S, data, flying, count, waiting, done, u, b)
      PROVE  CallsWithin(u, m)'
  <2>0. /\ calls'[b] = StartedCall(data[u], u) /\ data[u].retry <= m
        /\ \A c \in Calls \ {b} : Task(c) = u => calls'[c] = IF c \in done THEN Free ELSE calls[c]
        /\ deferred'[r][u] = waiting[u]
    BY <1>2 DEF Taken
  <2>1. ASSUME NEW c \in Busy(u)'
        PROVE  calls'[c].retry <= m
    <3>1. c \in Calls /\ Task(c) = u /\ calls'[c].pc # "free"
      BY <2>1 DEF Busy
    <3>2. CASE c = b
      BY <1>b, <2>0, <3>2, StartedCallType
    <3>3. CASE c # b
      <4>1. calls'[c] = calls[c]
        BY <2>0, <3>1, <3>3, FreeType
      <4> QED
        BY <1>c, <3>1, <4>1
    <3> QED
      BY <3>2, <3>3
  <2>2. ASSUME NEW q \in Replicas, deferred'[q][u] # None
        PROVE  deferred'[q][u].retry <= m
    <3>1. CASE q = r
      BY <2>0, <2>2, <3>1 DEF CallsWithin
    <3>2. CASE q # r
      <4>1. deferred'[q] = deferred[q]
        BY <2>2, <3>2, StartCalls
      <4> QED
        BY <2>2, <4>1 DEF CallsWithin
    <3> QED
      BY <3>1, <3>2
  <2> QED
    BY <2>1, <2>2 DEF CallsWithin
<1> QED
  BY <1>1, <1>2, StartCalls

LEMMA StartOwned ==
    ASSUME Types, NEW r, NEW S, NEW data, NEW flying, NEW count, NEW waiting, NEW done,
           Batch(r, S, data, flying, count, waiting, done), NEW u \in Tasks
    PROVE  \A c \in Owners(u)' : c \in Owners(u) \ done /\ calls'[c] = calls[c]
<1>b. r \in Replicas /\ data \in [Tasks -> Snapshot]
  BY DEF Batch
<1>1. SUFFICES ASSUME NEW c \in Calls, Task(c) = u, calls'[c].pc \in Owning
               PROVE  c \notin done /\ calls'[c] = calls[c]
  BY DEF Owners
<1>2. calls'[c] # Free
  BY <1>1, FreeType DEF Owning
<1>3. CASE PassedOver(r, S, data, flying, waiting, done, u)
  BY <1>1, <1>2, <1>3 DEF PassedOver
<1>4. ASSUME NEW b \in Calls, Taken(r, S, data, flying, count, waiting, done, u, b)
      PROVE  c \notin done /\ calls'[c] = calls[c]
  <2>1. calls'[b].pc \notin Owning
    BY <1>b, <1>4, StartedCallType DEF Taken, Owning
  <2> QED
    BY <1>1, <1>2, <1>4, <2>1 DEF Taken
<1> QED
  BY <1>3, <1>4, StartCalls

LEMMA FinishWithin ==
    ASSUME Types, NEW c \in Calls, Finish(c), NEW u \in Tasks
    PROVE  /\ \A m : CallsWithin(u, m) => CallsWithin(u, m)'
           /\ \A b \in Owners(u)' : b \in Owners(u) \ {c} /\ calls'[b] = calls[b]
<1> DEFINE r == Replica(c)
<1>1. PICK drain, count, waiting :
         /\ Batch(r, drain, deferred[r], inFlight[r] \ {Task(c)}, count, waiting, {c})
         /\ \A t \in drain : deferred[r][t] # None /\ waiting[t] = None
         /\ \A t \in Tasks \ drain : waiting[t] = deferred[r][t]
  BY FinishStarts
<1>0. r \in Replicas
  BY DEF Calls, Replica
<1> HIDE DEF r
<1>2. ASSUME NEW m, CallsWithin(u, m)
      PROVE  CallsWithin(u, m)'
  <2>1. /\ u \in drain => deferred[r][u].retry <= m
        /\ waiting[u] # None => waiting[u] = deferred[r][u]
    BY <1>0, <1>1, <1>2 DEF CallsWithin
  <2> QED
    BY <1>1, <1>2, <2>1, StartWithin
<1>3. \A b \in Owners(u)' : b \in Owners(u) \ {c} /\ calls'[b] = calls[b]
  BY <1>1, StartOwned
<1> QED
  BY <1>2, <1>3

(* A call that goes on keeps its number.                                    *)
LEMMA GoesOnWithin ==
    ASSUME NEW c \in Calls, calls[c].pc # "free", UNCHANGED deferred,
           \A b \in Calls \ {c} : calls'[b] = calls[b],
           calls'[c].pc = "free" \/ calls'[c].retry = calls[c].retry, NEW u, NEW m, CallsWithin(u, m)
    PROVE  CallsWithin(u, m)'
<1>1. ASSUME NEW b \in Busy(u)'
      PROVE  calls'[b].retry <= m
  <2>1. b \in Busy(u) /\ calls'[b].retry = calls[b].retry
    BY <1>1 DEF Busy
  <2> QED
    BY <2>1 DEF CallsWithin
<1> QED
  BY <1>1 DEF CallsWithin

(* A call touches no other task.                                            *)
LEMMA KeyedOthers ==
    ASSUME Types, NEW c \in Calls, CallStep(c) \/ CallFault(c) \/ Beat(c),
           NEW u \in Tasks \ {Task(c)}, Keyed(u)
    PROVE  Keyed(u)'
<1> DEFINE t == Task(c)
<1>0. /\ t \in Tasks /\ calls \in [Calls -> CallType] /\ task \in [Tasks -> TaskType]
      /\ runs \in [Tasks -> [Attempts -> RunType]]
  BY DEF Calls, Task, Types, TypeOK
<1>1. UNCHANGED <<sweep, release, request>>
  BY DEF CallStep, CallFault, DepsChecked, ClaimTask, Route, Post, PostConflicts, Reconcile, RunFailed,
         AwaitInput, ReadCompletion, RejectCompletion, AcceptCompletion, RouteFails, NoConfig,
         PostLost, PostCut, ReconcileFails, PollFails, Beat, sweepVars
<1>2. UNCHANGED task \/ \E e : Write(t, e)
  BY DEF CallStep, CallFault, DepsChecked, ClaimTask, Route, Post, PostConflicts, Reconcile, RunFailed,
         AwaitInput, ReadCompletion, RejectCompletion, AcceptCompletion, RouteFails, NoConfig,
         PostLost, PostCut, ReconcileFails, PollFails, Beat
<1>3. UNCHANGED runs \/ \E notes : Create(t, Key(c), notes)
  BY DEF CallStep, CallFault, DepsChecked, ClaimTask, Route, Post, PostConflicts, Reconcile, RunFailed,
         AwaitInput, ReadCompletion, RejectCompletion, AcceptCompletion, RouteFails, NoConfig,
         PostLost, PostCut, ReconcileFails, PollFails, Beat
<1>4. task'[u] = task[u] /\ runs'[u] = runs[u]
  BY <1>0, <1>2, <1>3 DEF Write, Create
<1>5. /\ \A m : CallsWithin(u, m) => CallsWithin(u, m)'
      /\ \A b \in Owners(u)' : b \in Owners(u) /\ calls'[b] = calls[b]
  <2>1. CASE Finish(c)
    BY <2>1, FinishWithin
  <2>2. CASE ~Finish(c)
    <3>a. UNCHANGED deferred
      BY <2>2 DEF CallStep, CallFault, DepsChecked, ClaimTask, Route, Post, PostConflicts, Reconcile,
         RunFailed, AwaitInput, ReadCompletion, RejectCompletion, AcceptCompletion, RouteFails, NoConfig,
         PostLost, PostCut, ReconcileFails, PollFails, Beat, replicaVars
    <3>b. \/ UNCHANGED calls
          \/ calls[c].pc # "free" /\ calls' = [calls EXCEPT ![c] = Free]
          \/ calls[c].pc # "free" /\ \E pc : calls' = [calls EXCEPT ![c].pc = pc]
          \/ calls[c].pc # "free" /\ \E pc, n : calls' = [calls EXCEPT ![c].pc = pc, ![c].notes = n]
          \/ calls[c].pc # "free" /\ \E pc, s : calls' = [calls EXCEPT ![c].pc = pc, ![c].seen = s]
      BY <2>2 DEF CallStep, CallFault, DepsChecked, ClaimTask, Route, Post, PostConflicts, Reconcile,
         RunFailed, AwaitInput, ReadCompletion, RejectCompletion, AcceptCompletion, RouteFails, NoConfig,
         PostLost, PostCut, ReconcileFails, PollFails, Beat, Become
    <3>1. /\ \A b \in Calls \ {c} : calls'[b] = calls[b]
          /\ UNCHANGED deferred
          /\ (calls[c].pc # "free" /\ (calls'[c].pc = "free" \/ calls'[c].retry = calls[c].retry))
                \/ UNCHANGED calls
      <4>1. CASE calls[c].pc # "free" /\ calls' = [calls EXCEPT ![c] = Free]
        BY <1>0, <3>a, <4>1, FreeType
      <4>2. ASSUME NEW pc, calls[c].pc # "free" /\ calls' = [calls EXCEPT ![c].pc = pc]
            PROVE  /\ \A b \in Calls \ {c} : calls'[b] = calls[b]
                   /\ calls'[c].retry = calls[c].retry
        BY <1>0, <4>2 DEF CallType
      <4>3. ASSUME NEW pc, NEW n, calls[c].pc # "free",
                   calls' = [calls EXCEPT ![c].pc = pc, ![c].notes = n]
            PROVE  /\ \A b \in Calls \ {c} : calls'[b] = calls[b]
                   /\ calls'[c].retry = calls[c].retry
        BY <1>0, <4>3 DEF CallType
      <4>4. ASSUME NEW pc, NEW s, calls[c].pc # "free",
                   calls' = [calls EXCEPT ![c].pc = pc, ![c].seen = s]
            PROVE  /\ \A b \in Calls \ {c} : calls'[b] = calls[b]
                   /\ calls'[c].retry = calls[c].retry
        BY <1>0, <4>4 DEF CallType
      <4> QED
        BY <3>a, <3>b, <4>1, <4>2, <4>3, <4>4
    <3>2. \A m : CallsWithin(u, m) => CallsWithin(u, m)'
      BY <3>1, GoesOnWithin DEF CallsWithin, Busy
    <3>3. \A b \in Owners(u)' : b \in Owners(u) /\ calls'[b] = calls[b]
      BY <3>1 DEF Owners
    <3> QED
      BY <3>2, <3>3
  <2> QED
    BY <2>1, <2>2
<1>6. ~Over(task[u]) => CallsWithin(u, task[u].retry)'
  BY <1>4, <1>5 DEF Keyed, Within
<1> QED
  BY <1>1, <1>4, <1>5, <1>6, KeyedStill

LEMMA TriedKept ==
    ASSUME NEW u, Tried(u), runs'[u] = runs[u], task'[u].retry = task[u].retry,
           task[u].notes \in Nat, task'[u].notes \in Nat, task'[u].notes >= task[u].notes,
           \A k \in Attempts : runs[u][k].notes \in Nat
    PROVE  Tried(u)'
<1>1. LiveRuns(u)' = LiveRuns(u)
  BY DEF LiveRuns
<1> QED
  BY <1>1 DEF Tried

(* What holds of the task of a call that owns it.                           *)
LEMMA OwnerFacts ==
    ASSUME Types, OwnerInv, NEW c \in Calls, calls[c].pc \in Owning, Keyed(Task(c))
    PROVE  LET t == Task(c)
               d == task[t]
           IN  /\ Owners(t) = {c} /\ d.agent \in Working /\ ~Over(d)
               /\ calls[c].pc # "reconcile" /\ calls[c].retry <= d.retry
               /\ \A r \in Replicas : t \notin sweep[r] /\ release[r][t] = None
               /\ CallsWithin(t, d.retry)
               /\ calls[c].pc = "post" => calls[c].notes = d.notes
               /\ calls[c].pc \in {"run", "verify"} => calls[c].retry = d.retry
               /\ calls[c].pc = "verify" =>
                     /\ calls[c].seen.retry = d.retry /\ LiveRuns(t) = {}
                     /\ runs[t][d.retry].st # "none"
<1> DEFINE t == Task(c)
           d == task[t]
<1>1. t \in Tasks /\ c \in Owners(t) /\ c \in Busy(t) /\ OwnedWell(t)
  BY DEF Calls, Task, Owners, Busy, Owning, OwnerInv
<1>2. d.agent \in Working /\ calls[c].pc # "reconcile"
  BY <1>1 DEF Keyed, Steered
<1>3. ~Over(d)
  BY <1>2 DEF Over, Working
<1>4. CallsWithin(t, d.retry) /\ calls[c].retry <= d.retry
  BY <1>1, <1>3 DEF Keyed, Within, CallsWithin
<1>5. Owners(t) = {c} /\ \A r \in Replicas : t \notin sweep[r] /\ release[r][t] = None
  BY <1>1 DEF OwnedWell
<1> QED
  BY <1>1, <1>2, <1>3, <1>4, <1>5 DEF Keyed, Steered

(* A run that a post creates has the present number: the numbers before it  *)
(* are taken.                                                               *)
LEMMA PostTried ==
    ASSUME Types, OwnerInv, NEW c \in Calls, calls[c].pc = "post", Keyed(Task(c)),
           Fresh(c), Create(Task(c), Key(c), calls[c].notes),
           task'[Task(c)].retry = task[Task(c)].retry, task'[Task(c)].notes = task[Task(c)].notes
    PROVE  Key(c) = task[Task(c)].retry /\ Tried(Task(c))'
<1> DEFINE t == Task(c)
           d == task[t]
<1>0. /\ t \in Tasks /\ Key(c) \in Attempts /\ d.retry \in Attempts /\ d.notes \in Nat
      /\ runs \in [Tasks -> [Attempts -> RunType]] /\ MaxAttempt \in Nat
  BY SizesAssumption DEF Calls, Task, Types, TypeOK, Key, CallType, TaskType, MaxAttempt
<1>1. Key(c) <= d.retry /\ calls[c].notes = d.notes
  BY OwnerFacts DEF Key, Owning
<1>2. Tried(t) /\ runs[t][Key(c)].st = "none"
  BY DEF Keyed, Fresh, RunOf
<1>3. ~(Key(c) < d.retry)
  BY <1>0, <1>2 DEF Tried
<1>4. Key(c) = d.retry
  BY <1>0, <1>1, <1>3 DEF Attempts
<1>5. runs' = [runs EXCEPT ![t][Key(c)] = [st |-> "running", notes |-> d.notes]]
  BY <1>1 DEF Create
<1>6. \A k \in Attempts : runs'[t][k] = IF k = Key(c) THEN [st |-> "running", notes |-> d.notes]
                                        ELSE runs[t][k]
  BY <1>0, <1>5
<1>7. \A k \in LiveRuns(t)' : k = d.retry
  BY <1>2, <1>4, <1>6 DEF LiveRuns, Tried
<1>8. \A k \in Attempts : runs'[t][k].notes <= d.notes
  BY <1>0, <1>2, <1>6 DEF Tried
<1>9. \A k \in Attempts : k < d.retry => runs'[t][k].st # "none" /\ runs'[t][k].notes < d.notes
  BY <1>0, <1>2, <1>4, <1>6 DEF Tried, Attempts
<1> QED
  BY <1>4, <1>7, <1>8, <1>9 DEF Tried

(* A call that goes on, and one that ends.                                  *)
LEMMA KeyedGoesOn ==
    ASSUME NEW c \in Calls, NEW t \in Tasks, Keyed(t), calls[c].pc # "free",
           UNCHANGED <<deferred, sweep, release, request>>,
           \A b \in Calls \ {c} : calls'[b] = calls[b],
           calls'[c].pc = "free" \/ calls'[c].retry = calls[c].retry,
           task'[t].retry = task[t].retry, Over(task'[t]) <=> Over(task[t]),
           Tried(t)', Steered(t)'
    PROVE  Keyed(t)'
<1>1. \A m : CallsWithin(t, m) => CallsWithin(t, m)'
  BY GoesOnWithin
<1>2. Within(t)'
  BY <1>1 DEF Keyed, Within
<1> QED
  BY <1>2 DEF Keyed

LEMMA WithinMore ==
    ASSUME TypeOK', NEW u \in Tasks, NEW m \in Nat, NEW n \in Nat, m <= n, CallsWithin(u, m)'
    PROVE  CallsWithin(u, n)'
<1>1. ASSUME NEW b \in Busy(u)'
      PROVE  calls'[b].retry <= n
  <2>1. calls'[b].retry <= m /\ calls'[b].retry \in Nat
    BY <1>1 DEF TypeOK, CallType, Attempts, CallsWithin, Busy
  <2> QED
    BY <2>1
<1>2. ASSUME NEW r \in Replicas, deferred'[r][u] # None
      PROVE  deferred'[r][u].retry <= n
  <2>1. deferred'[r][u].retry <= m /\ deferred'[r][u].retry \in Nat
    BY <1>2 DEF TypeOK, Snapshot, Attempts, CallsWithin
  <2> QED
    BY <2>1
<1> QED
  BY <1>1, <1>2 DEF CallsWithin

LEMMA KeyedEnds ==
    ASSUME Types, OwnerInv, TypeOK', NEW c \in Calls, calls[c].pc \in Owning, Keyed(Task(c)), Finish(c),
           UNCHANGED <<sweepVars, request>>,
           Over(task'[Task(c)]) \/ task'[Task(c)].retry >= task[Task(c)].retry,
           Tried(Task(c))'
    PROVE  Keyed(Task(c))'
<1> DEFINE t == Task(c)
           m == task[t].retry
           n == task'[t].retry
<1>0. t \in Tasks /\ m \in Nat /\ n \in Nat
  BY DEF Calls, Task, Types, TypeOK, TaskType, Attempts
<1>1. /\ Owners(t) = {c} /\ CallsWithin(t, m)
      /\ \A r \in Replicas : t \notin sweep[r] /\ release[r][t] = None
  BY OwnerFacts
<1>2. (\A k : CallsWithin(t, k) => CallsWithin(t, k)') /\ Owners(t)' = {}
  BY <1>0, <1>1, FinishWithin
<1>3. ~Over(task'[t]) => CallsWithin(t, task[t].retry)'
  <2> SUFFICES ASSUME ~Over(task'[t])
               PROVE  CallsWithin(t, task[t].retry)'
    OBVIOUS
  <2>1. PICK k \in Nat : k = m
    BY <1>0
  <2>2. CallsWithin(t, k)' /\ k <= n
    BY <1>1, <1>2, <2>1
  <2>3. PICK l \in Nat : l = n
    BY <1>0
  <2>4. CallsWithin(t, l)'
    BY <1>0, <2>2, <2>3, WithinMore
  <2> QED
    BY <2>3, <2>4 DEF CallsWithin
<1> QED
  BY <1>0, <1>1, <1>2, <1>3 DEF Keyed, Within, Steered, sweepVars

LEMMA KeyedCallSteps ==
    ASSUME Types, OwnerInv, TypeOK', "lost" \notin Faults, "route" \notin Faults,
           NEW c \in Calls, CallStep(c) \/ CallFault(c) \/ Beat(c), Keyed(Task(c))
    PROVE  Keyed(Task(c))'
<1> DEFINE t == Task(c)
           d == task[t]
<1>0. /\ t \in Tasks /\ calls[c] \in CallType /\ calls \in [Calls -> CallType]
      /\ task \in [Tasks -> TaskType] /\ d \in TaskType /\ OwnedWell(t)
      /\ runs \in [Tasks -> [Attempts -> RunType]] /\ Key(c) \in Attempts
  BY DEF Calls, Task, Types, TypeOK, Key, CallType, OwnerInv
<1>n. /\ d.notes \in Nat /\ d.retry \in Nat /\ d.retry \in Attempts
      /\ \A k \in Attempts : runs[t][k].notes \in Nat
  <2>1. \A k \in Attempts : runs[t][k] \in RunType
    BY <1>0
  <2> HIDE DEF d
  <2> QED
    BY <1>0, <2>1 DEF TaskType, RunType, Attempts
<1>k. \A s \in Statuses : /\ Kept(d, [WithStatus(d, s) EXCEPT !.beat = "fresh"])
                          /\ [WithStatus(d, s) EXCEPT !.beat = "fresh"].agent = s
  <2>1. d \in TaskType
    BY <1>0
  <2> HIDE DEF d
  <2>2. ASSUME NEW s \in Statuses
        PROVE  /\ Kept(d, [WithStatus(d, s) EXCEPT !.beat = "fresh"])
               /\ [WithStatus(d, s) EXCEPT !.beat = "fresh"].agent = s
    BY <2>1, <2>2, StatusKept
  <2> QED
    BY <2>2
<1>w. \A e : Write(t, e) => task'[t] = e
  BY <1>0 DEF Write
<1>r. UNCHANGED runs => LiveRuns(t)' = LiveRuns(t) /\ runs'[t] = runs[t]
  BY DEF LiveRuns
<1>o. calls[c].pc \in Owning =>
         /\ Owners(t) = {c} /\ d.agent \in Working /\ ~Over(d)
         /\ calls[c].pc # "reconcile" /\ calls[c].retry <= d.retry
         /\ calls[c].pc = "post" => calls[c].notes = d.notes
         /\ calls[c].pc \in {"run", "verify"} => calls[c].retry = d.retry
         /\ calls[c].pc = "verify" =>
               /\ calls[c].seen.retry = d.retry /\ LiveRuns(t) = {}
               /\ runs[t][d.retry].st # "none"
  BY OwnerFacts
<1>t. ASSUME runs'[t] = runs[t], Kept(d, task'[t])
      PROVE  Tried(t)'
  BY <1>0, <1>n, <1>t, TriedKept DEF Kept, Keyed
<1>1. ASSUME DepsChecked(c)
      PROVE  Keyed(t)'
  <2>1. /\ calls[c].pc = "deps" /\ UNCHANGED <<task, runs, deferred, sweep, release, request>>
        /\ calls' = [calls EXCEPT ![c].pc = "claim"] \/ calls' = [calls EXCEPT ![c] = Free]
    BY <1>1 DEF DepsChecked, Become, sweepVars
  <2>2. /\ \A b \in Calls \ {c} : calls'[b] = calls[b]
        /\ calls'[c].pc \in {"free", "claim"}
        /\ calls'[c].pc = "free" \/ calls'[c].retry = calls[c].retry
    BY <1>0, <2>1, FreeType DEF CallType
  <2>3. \A b \in Owners(t)' : b \in Owners(t) /\ calls'[b] = calls[b]
    BY <2>2 DEF Owners, Owning
  <2>4. Steered(t)' /\ Tried(t)'
    BY <1>r, <1>t, <2>1, <2>3 DEF Keyed, Steered, Kept
  <2> QED
    BY <1>0, <2>1, <2>2, <2>4, KeyedGoesOn
<1>2. ASSUME ClaimTask(c)
      PROVE  Keyed(t)'
  <2>1. CASE Claimable(t)
    <3> DEFINE e == [WithStatus(d, "picked-up") EXCEPT !.beat = "fresh"]
    <3>1. /\ calls[c].pc = "claim" /\ Write(t, e) /\ calls' = [calls EXCEPT ![c].pc = "route"]
          /\ UNCHANGED <<runs, deferred, sweep, release, request>> /\ d.agent = "pending"
      BY <1>2, <2>1 DEF ClaimTask, Become, replicaVars, sweepVars, Claimable, Dispatchable
    <3>2. Kept(d, e) /\ e.agent = "picked-up"
      BY <1>k DEF Statuses, Working
    <3> HIDE DEF e
    <3>3. /\ \A b \in Calls \ {c} : calls'[b] = calls[b]
          /\ calls'[c].pc = "route" /\ calls'[c].retry = calls[c].retry
      BY <1>0, <3>1 DEF CallType
    <3>4. Owners(t) = {}
      BY <1>0, <3>1 DEF OwnedWell, Held, ClosedCard, Working
    <3>5. Owners(t)' = {c}
      BY <1>0, <3>3, <3>4 DEF Owners, Owning
    <3>6. Steered(t)' /\ Tried(t)'
      BY <1>t, <1>r, <1>w, <3>1, <3>2, <3>3, <3>5 DEF Steered, Working
    <3>7. Over(task'[t]) <=> Over(d)
      BY <1>w, <3>1, <3>2 DEF Over
    <3> QED
      BY <1>0, <1>w, <3>1, <3>2, <3>3, <3>6, <3>7, KeyedGoesOn DEF Kept
  <2>2. CASE ~Claimable(t)
    <3>1. /\ Finish(c) /\ UNCHANGED <<task, runs, sweep, release, request>>
      BY <1>2, <2>2 DEF ClaimTask, sweepVars
    <3>2. /\ \A m : CallsWithin(t, m) => CallsWithin(t, m)'
          /\ \A b \in Owners(t)' : b \in Owners(t) /\ calls'[b] = calls[b]
      BY <1>0, <3>1, FinishWithin
    <3>3. ~Over(d) => CallsWithin(t, task[t].retry)'
      BY <3>1, <3>2 DEF Keyed, Within
    <3> QED
      BY <1>0, <3>1, <3>2, <3>3, KeyedStill
  <2> QED
    BY <2>1, <2>2
<1>3. ASSUME Route(c)
      PROVE  Keyed(t)'
  <2> DEFINE e == [WithStatus(d, "in-progress") EXCEPT !.beat = "fresh"]
  <2>1. /\ calls[c].pc = "route" /\ Write(t, e)
        /\ calls' = [calls EXCEPT ![c].pc = "post", ![c].notes = d.notes]
        /\ UNCHANGED <<runs, deferred, sweep, release, request>>
    BY <1>3 DEF Route, replicaVars, sweepVars
  <2>2. Kept(d, e) /\ e.agent = "in-progress"
    BY <1>k DEF Statuses, Working
  <2>3. Owners(t) = {c} /\ ~Over(d)
    BY <1>o, <2>1 DEF Owning
  <2> HIDE DEF e, d
  <2>4. /\ \A b \in Calls \ {c} : calls'[b] = calls[b]
        /\ calls'[c].pc = "post" /\ calls'[c].retry = calls[c].retry /\ calls'[c].notes = d.notes
    BY <1>0, <2>1 DEF CallType
  <2>5. Owners(t)' = {c}
    BY <1>0, <2>3, <2>4 DEF Owners, Owning
  <2>6. Steered(t)' /\ Tried(t)'
    BY <1>t, <1>r, <1>w, <2>1, <2>2, <2>4, <2>5 DEF Steered, Working, Kept
  <2>7. ~Over(task'[t])
    BY <1>w, <2>1, <2>2 DEF Over
  <2> QED
    BY <1>0, <1>w, <2>1, <2>2, <2>3, <2>4, <2>6, <2>7, KeyedGoesOn DEF Kept, d
<1>4. ASSUME Post(c)
      PROVE  Keyed(t)'
  <2>1. /\ calls[c].pc = "post" /\ calls' = [calls EXCEPT ![c].pc = "run"]
        /\ UNCHANGED <<task, deferred, sweep, release, request>>
    BY <1>4 DEF Post, Become, replicaVars, sweepVars
  <2>2. Owners(t) = {c} /\ ~Over(d) /\ calls[c].notes = d.notes /\ Key(c) <= d.retry
        /\ d.agent \in Working
    BY <1>o, <2>1 DEF Owning, Key
  <2>3. Key(c) = d.retry /\ Tried(t)'
    <3>1. CASE Fresh(c)
      BY <1>4, <2>1, <3>1, PostTried DEF Post
    <3>2. CASE ~Fresh(c)
      <4>1. UNCHANGED runs /\ runs[t][Key(c)].notes = d.notes
        BY <1>4, <2>2, <3>2 DEF Post, Same, RunOf
      <4>2. ~(Key(c) < d.retry)
        BY <1>0, <1>n, <4>1 DEF Keyed, Tried
      <4>3. Key(c) = d.retry
        BY <1>0, <1>n, <2>2, <4>2 DEF Attempts
      <4> QED
        BY <1>r, <1>t, <2>1, <4>1, <4>3 DEF Kept
    <3> QED
      BY <3>1, <3>2
  <2>4. /\ \A b \in Calls \ {c} : calls'[b] = calls[b]
        /\ calls'[c].pc = "run" /\ calls'[c].retry = calls[c].retry
    BY <1>0, <2>1 DEF CallType
  <2>5. Owners(t)' = {c}
    BY <1>0, <2>2, <2>4 DEF Owners, Owning
  <2>6. Steered(t)'
    BY <2>1, <2>2, <2>3, <2>4, <2>5 DEF Steered, Key
  <2> QED
    BY <1>0, <2>1, <2>3, <2>4, <2>6, KeyedGoesOn
<1>5. ASSUME PostConflicts(c) \/ RunFailed(c) \/ PollFails(c) \/ PostCut(c) \/ AwaitInput(c)
      PROVE  Keyed(t)'
  <2>1. calls[c].pc \in Owning /\ Finish(c) /\ UNCHANGED <<sweepVars, request>>
    BY <1>5 DEF PostConflicts, RunFailed, PollFails, PostCut, AwaitInput, Owning
  <2>2. \/ Write(t, AfterFailure(d, calls[c], FALSE))
        \/ Write(t, [WithStatus(d, "awaiting-input") EXCEPT !.output = "human"])
    BY <1>5 DEF PostConflicts, RunFailed, PollFails, PostCut, AwaitInput
  <2>3. /\ Kept(d, AfterFailure(d, calls[c], FALSE))
        /\ Kept(d, [WithStatus(d, "awaiting-input") EXCEPT !.output = "human"])
    <3>1. Kept(d, AfterFailure(d, calls[c], FALSE))
      BY FailedTries
    <3>2. Kept(d, [WithStatus(d, "awaiting-input") EXCEPT !.output = "human"])
      BY <1>0, StatusKept DEF Statuses
    <3> QED
      BY <3>1, <3>2
  <2>4. Kept(d, task'[t])
    BY <1>w, <2>2, <2>3
  <2>5. Tried(t)'
    <3>1. CASE PostCut(c)
      BY <2>4, <3>1, PostTried DEF PostCut, Kept
    <3>2. CASE ~PostCut(c)
      <4>1. UNCHANGED runs
        BY <1>5, <3>2 DEF PostConflicts, RunFailed, PollFails, AwaitInput
      <4> QED
        BY <1>t, <2>4, <4>1
    <3> QED
      BY <3>1, <3>2
  <2>6. task'[t].retry >= d.retry
    BY <1>n, <2>4 DEF Kept
  <2> QED
    BY <2>1, <2>4, <2>5, <2>6, KeyedEnds
<1>6. ASSUME Reconcile(c) \/ ReconcileFails(c) \/ PostLost(c) \/ RouteFails(c) \/ NoConfig(c)
      PROVE  FALSE
  BY <1>6, <1>o DEF Reconcile, ReconcileFails, PostLost, RouteFails, NoConfig, Fail, Owning
<1>7. ASSUME ReadCompletion(c)
      PROVE  Keyed(t)'
  <2>1. /\ calls[c].pc = "run" /\ runs[t][Key(c)].st = "finished"
        /\ calls' = [calls EXCEPT ![c].pc = "verify", ![c].seen = Seen(d)]
        /\ UNCHANGED <<task, runs, deferred, sweep, release, request>>
    BY <1>7 DEF ReadCompletion, RunOf, replicaVars, sweepVars
  <2>2. Owners(t) = {c} /\ Key(c) = d.retry /\ d.agent \in Working
    BY <1>o, <2>1 DEF Owning, Key
  <2> HIDE DEF d
  <2>3. /\ \A b \in Calls \ {c} : calls'[b] = calls[b]
        /\ calls'[c].pc = "verify" /\ calls'[c].retry = calls[c].retry /\ calls'[c].seen = Seen(d)
    BY <1>0, <2>1 DEF CallType
  <2>4. LiveRuns(t)' = {}
    <3>1. \A k \in LiveRuns(t) : k = Key(c)
      BY <2>2 DEF Keyed, Tried, d
    <3> QED
      BY <1>r, <2>1, <3>1 DEF LiveRuns
  <2>5. Owners(t)' = {c}
    BY <1>0, <2>2, <2>3 DEF Owners, Owning
  <2>6. Seen(d).retry = d.retry
    BY DEF Seen
  <2>7. Steered(t)'
    BY <2>1, <2>2, <2>3, <2>4, <2>5, <2>6 DEF Steered, Key, d
  <2>8. Tried(t)'
    BY <1>r, <1>t, <2>1 DEF Kept, d
  <2> QED
    BY <1>0, <2>1, <2>3, <2>7, <2>8, KeyedGoesOn
(* The verdicts: no run of the task is alive, and its present number is     *)
(* taken.                                                                   *)
<1>v. ASSUME /\ calls[c].pc = "verify" /\ Finish(c) /\ UNCHANGED <<sweepVars, request, runs>>
             /\ task'[t].notes >= d.notes
             /\ \/ task'[t].retry = 0 /\ Over(task'[t])
                \/ task'[t].retry = d.retry
                \/ task'[t].retry = d.retry + 1 /\ task'[t].notes = d.notes + 1
      PROVE  Keyed(t)'
  <2> DEFINE e == task'[t]
  <2>1. LiveRuns(t) = {} /\ runs[t][d.retry].st # "none" /\ Tried(t)
    BY <1>o, <1>v DEF Owning, Keyed
  <2>2. e \in TaskType /\ e.notes \in Nat /\ e.retry \in Nat
    <3>1. e \in TaskType
      BY <1>0 DEF TypeOK
    <3> HIDE DEF e
    <3> QED
      BY <3>1 DEF TaskType, Attempts
  <2>3. Over(e) \/ e.retry >= d.retry
    BY <1>n, <1>v, <2>2
  <2>4. LiveRuns(t)' = {} /\ runs'[t] = runs[t]
    BY <1>r, <1>v, <2>1
  <2>5. ASSUME NEW k \in Attempts
        PROVE  /\ runs[t][k].notes <= e.notes
               /\ k < e.retry => runs[t][k].st # "none" /\ runs[t][k].notes < e.notes
    <3>1. /\ runs[t][k].notes <= d.notes /\ runs[t][k].notes \in Nat /\ k \in Nat
          /\ k < d.retry => runs[t][k].st # "none" /\ runs[t][k].notes < d.notes
      BY <1>n, <2>1, <2>5 DEF Tried, Attempts
    <3>2. runs[t][k].notes <= e.notes
      BY <1>n, <1>v, <2>2, <3>1
    <3>3. ASSUME k < e.retry
          PROVE  runs[t][k].st # "none" /\ runs[t][k].notes < e.notes
      <4>1. CASE k < d.retry
        BY <1>n, <1>v, <2>2, <3>1, <4>1
      <4>2. CASE ~(k < d.retry)
        <5>1. e.retry = d.retry + 1 /\ e.notes = d.notes + 1 /\ k = d.retry
          BY <1>n, <1>v, <2>2, <3>1, <3>3, <4>2
        <5> QED
          BY <1>n, <2>1, <3>1, <5>1
      <4> QED
        BY <4>1, <4>2
    <3> QED
      BY <3>2, <3>3
  <2>6. Tried(t)'
    BY <2>4, <2>5 DEF Tried
  <2>7. calls[c].pc \in Owning /\ UNCHANGED <<sweepVars, request>>
    BY <1>v DEF Owning
  <2> QED
    BY <1>v, <2>3, <2>6, <2>7, KeyedEnds
<1>8. ASSUME RejectCompletion(c)
      PROVE  Keyed(t)'
  <2> DEFINE s == calls[c].seen
  <2>1. /\ calls[c].pc = "verify" /\ Finish(c) /\ UNCHANGED <<sweepVars, request, runs>>
        /\ \/ Write(t, RequeueCompletion(d, s))
           \/ \E v : Write(t, BlockCompletion(d, v))
    BY <1>8 DEF RejectCompletion
  <2>2. s \in SeenType /\ s.retry = d.retry
    BY <1>0, <1>o, <2>1 DEF CallType, Owning
  <2> HIDE DEF s
  <2>3. /\ RequeueCompletion(d, s).notes = d.notes + 1
        /\ RequeueCompletion(d, s).retry = d.retry + 1
        /\ \A v : /\ BlockCompletion(d, v).notes = d.notes
                  /\ BlockCompletion(d, v).agent = "blocked"
                  /\ BlockCompletion(d, v).output = "summary"
                  /\ BlockCompletion(d, v).retry = 0
    BY <1>0, <2>2, VerdictTries
  <2>4. \/ task'[t].notes = d.notes + 1 /\ task'[t].retry = d.retry + 1
        \/ task'[t].notes = d.notes /\ task'[t].retry = 0 /\ Over(task'[t])
    BY <1>w, <2>1, <2>3 DEF Over
  <2>5. task'[t].notes >= d.notes
    BY <1>n, <2>4
  <2> QED
    BY <1>v, <2>1, <2>4, <2>5
<1>9. ASSUME AcceptCompletion(c)
      PROVE  Keyed(t)'
  <2>1. /\ calls[c].pc = "verify" /\ Finish(c) /\ UNCHANGED <<sweepVars, request, runs>>
        /\ Write(t, Complete(d, t)) \/ Write(t, [d EXCEPT !.reasons = "other"])
    BY <1>9 DEF AcceptCompletion
  <2>2. calls[c].seen \in SeenType
    BY <1>0 DEF CallType
  <2>3. Complete(d, t).notes = d.notes /\ Complete(d, t).agent = "done" /\ Complete(d, t).retry = 0
    BY <1>0, <2>2, VerdictTries
  <2>4. Kept(d, [d EXCEPT !.reasons = "other"])
    BY <1>0, FieldKept
  <2>5. task'[t].notes = d.notes /\ (task'[t].retry = d.retry \/ (task'[t].retry = 0 /\ Over(task'[t])))
    BY <1>w, <2>1, <2>3, <2>4 DEF Over, Kept
  <2>6. task'[t].notes >= d.notes
    BY <1>n, <2>5
  <2> QED
    BY <1>v, <2>1, <2>5, <2>6
<1>10. ASSUME Beat(c)
       PROVE  Keyed(t)'
  <2> DEFINE e == [d EXCEPT !.beat = "fresh"]
  <2>1. /\ calls[c].pc # "free" /\ Write(t, e)
        /\ UNCHANGED <<calls, deferred, sweep, release, request, runs>>
    BY <1>10 DEF Beat, replicaVars, sweepVars
  <2>2. Kept(d, e) /\ e.agent = d.agent /\ e.output = d.output
    <3>1. d \in TaskType
      BY <1>0
    <3> HIDE DEF d
    <3> QED
      BY <3>1 DEF Kept, TaskType
  <2> HIDE DEF e
  <2>3. Tried(t)' /\ (Over(task'[t]) <=> Over(d))
    BY <1>r, <1>t, <1>w, <2>1, <2>2 DEF Over
  <2>4. Owners(t)' = Owners(t) /\ task'[t] = e
    BY <1>w, <2>1 DEF Owners
  <2>5. Steered(t)'
    BY <1>r, <2>1, <2>2, <2>4 DEF Keyed, Steered, Kept
  <2>6. task'[t].retry = d.retry
    BY <2>2, <2>4 DEF Kept
  <2> QED
    BY <1>0, <2>1, <2>3, <2>5, <2>6, KeyedGoesOn
<1> QED
  BY <1>1, <1>2, <1>3, <1>4, <1>5, <1>6, <1>7, <1>8, <1>9, <1>10 DEF CallStep, CallFault

(* No release sweep holds a decision to free the task.                      *)
Unreleased(t) == \A r \in Replicas : release[r][t] = None

LEMMA KeyedReplicaSteps ==
    ASSUME Types, OwnerInv, NEW r \in Replicas, ReplicaStep(r),
           NEW u \in Tasks, Gated(u) \/ (Unreleased(u) /\ Unreleased(u)'), Keyed(u)
    PROVE  Keyed(u)'
<1>0. /\ task \in [Tasks -> TaskType] /\ deferred \in [Replicas -> [Tasks -> Snapshot]]
      /\ inFlight \in [Replicas -> SUBSET Tasks] /\ load[r] \in Nat
      /\ release \in [Replicas -> [Tasks -> Snapshot]] /\ sweep \in [Replicas -> SUBSET Tasks]
      /\ runs \in [Tasks -> [Attempts -> RunType]] /\ OwnedWell(u)
  BY DEF Types, TypeOK, OwnerInv
<1>n. /\ task[u].notes \in Nat /\ task[u].retry \in Nat /\ task[u] \in TaskType
      /\ \A k \in Attempts : runs[u][k].notes \in Nat
  <2>1. task[u] \in TaskType /\ \A k \in Attempts : runs[u][k] \in RunType
    BY <1>0
  <2> QED
    BY <2>1 DEF TaskType, RunType, Attempts
<1>c. UNCHANGED <<calls, deferred>> =>
         /\ \A m : CallsWithin(u, m) => CallsWithin(u, m)'
         /\ \A c \in Owners(u)' : c \in Owners(u) /\ calls'[c] = calls[c]
  BY DEF CallsWithin, Busy, Owners
<1>w. ~Over(task[u]) =>
         /\ CallsWithin(u, task[u].retry)
         /\ \A q \in Replicas : release[q][u] # None => release[q][u].retry <= task[u].retry
  BY DEF Keyed, Within
<1>s. ASSUME UNCHANGED <<task, runs, request>>,
             \A q \in Replicas : /\ u \in sweep'[q] => u \in sweep[q]
                                 /\ release'[q][u] = None \/ release'[q][u] = release[q][u],
             ~Over(task[u]) => \E m : m = task[u].retry /\ CallsWithin(u, m)',
             \A c \in Owners(u)' : c \in Owners(u) /\ calls'[c] = calls[c]
      PROVE  Keyed(u)'
  <2>1. ~Over(task[u]) => CallsWithin(u, task[u].retry)'
    BY <1>s
  <2> QED
    BY <1>s, <2>1, KeyedStill
<1>1. ASSUME SweepRead(r)
      PROVE  Keyed(u)'
  <2>1. /\ UNCHANGED <<task, calls, deferred, runs, release, request>>
        /\ sweep' = [sweep EXCEPT ![r] = {t \in Tasks : Stale(task[t])}]
    BY <1>1 DEF SweepRead, replicaVars
  <2>2. CASE Over(task[u])
    <3>1. ~Stale(task[u])
      BY <2>2 DEF Stale, Over, Working
    <3>2. \A q \in Replicas : u \in sweep'[q] => u \in sweep[q]
      BY <1>0, <2>1, <3>1
    <3> QED
      BY <1>c, <1>s, <2>1, <2>2, <3>2
  <2>3. CASE ~Over(task[u])
    <3>1. CallsWithin(u, task[u].retry)'
      BY <1>c, <1>w, <2>1, <2>3
    <3>2. Within(u)'
      BY <1>w, <2>1, <2>3, <3>1 DEF Within
    <3>3. Tried(u)' /\ Steered(u)'
      BY <2>1 DEF Keyed, Tried, Steered, LiveRuns, Owners
    <3> QED
      BY <2>1, <3>2, <3>3 DEF Keyed
  <2> QED
    BY <2>2, <2>3
<1>2. ASSUME SweepCommit(r)
      PROVE  Keyed(u)'
  <2>1. /\ UNCHANGED <<calls, deferred, runs, release, request>>
        /\ sweep' = [sweep EXCEPT ![r] = {}]
    BY <1>2 DEF SweepCommit, replicaVars
  <2>2. \A q \in Replicas : u \in sweep'[q] => u \in sweep[q]
    BY <1>0, <2>1
  <2>3. CASE u \notin sweep[r]
    <3>1. task'[u] = task[u]
      BY <1>2, <2>3 DEF SweepCommit
    <3>2. ~Over(task[u]) => CallsWithin(u, task[u].retry)'
      BY <1>c, <1>w, <2>1, <3>1
    <3>3. runs'[u] = runs[u] /\ request'[u] = request[u] /\ release' = release
      BY <2>1
    <3> QED
      BY <1>c, <2>1, <2>2, <3>1, <3>2, <3>3, KeyedStill
  <2>4. CASE u \in sweep[r]
    <3> DEFINE e == [WithStatus(task[u], "pending") EXCEPT !.beat = "none"]
    <3>1. task'[u] = e
      BY <1>2, <2>4 DEF SweepCommit
    <3>2. Kept(task[u], e) /\ e.agent = "pending"
      BY <1>0, StatusKept DEF Statuses
    <3> HIDE DEF e
    <3>3. Owners(u) = {} /\ ~Over(task[u]) /\ \A q \in Replicas : release[q][u] = None
      BY <1>0, <2>4 DEF OwnedWell, Keyed, Within
    <3>4. Tried(u)'
      BY <1>n, <2>1, <3>1, <3>2, TriedKept DEF Kept, Keyed
    <3>5. CallsWithin(u, task[u].retry)'
      BY <1>c, <1>w, <2>1, <3>1, <3>2, <3>3 DEF Kept
    <3>6. Within(u)'
      BY <2>1, <3>1, <3>2, <3>3, <3>5 DEF Within, Over
    <3>7. Steered(u)'
      BY <1>c, <2>1, <3>3 DEF Steered
    <3> QED
      BY <2>1, <3>4, <3>6, <3>7 DEF Keyed
  <2> QED
    BY <2>3, <2>4
<1>3. ASSUME Crash(r) \/ ShutdownExits(r)
      PROVE  Keyed(u)'
  <2>1. Restarted(r)
    BY <1>3 DEF Crash, ShutdownExits
  <2>2. \A c \in Calls : calls'[c] = Free \/ calls'[c] = calls[c]
    BY <2>1 DEF Restarted
  <2>3. \A q \in Replicas : /\ deferred'[q][u] = None \/ deferred'[q][u] = deferred[q][u]
                            /\ release'[q][u] = None \/ release'[q][u] = release[q][u]
                            /\ u \in sweep'[q] => u \in sweep[q]
    BY <1>0, <2>1 DEF Restarted
  <2>4. \A c \in Busy(u)' : c \in Busy(u) /\ calls'[c] = calls[c]
    BY <2>2, FreeType DEF Busy
  <2>5. \A c \in Owners(u)' : c \in Owners(u) /\ calls'[c] = calls[c]
    BY <2>2, FreeType DEF Owners, Owning
  <2>6. \A m : CallsWithin(u, m) => CallsWithin(u, m)'
    BY <2>3, <2>4 DEF CallsWithin
  <2>7. UNCHANGED <<task, runs, request>>
    BY <2>1 DEF Restarted
  <2> QED
    BY <1>s, <1>w, <2>3, <2>5, <2>6, <2>7
<1>4. ASSUME Shutdown(r)
      PROVE  Keyed(u)'
  <2>1. UNCHANGED <<task, runs, request, calls, deferred, sweep, release>>
    BY <1>4 DEF Shutdown, replicaVars, sweepVars
  <2> QED
    BY <1>c, <1>s, <1>w, <2>1
<1>5. ASSUME NEW S \in SUBSET Tasks, Notice(r, S)
      PROVE  Keyed(u)'
  <2> DEFINE data == [t \in Tasks |-> Snap(task[t])]
  <2>1. /\ Start(r, S, data, inFlight[r], load[r], deferred[r], {})
        /\ UNCHANGED <<task, request, release, sweep, runs>>
    BY <1>5 DEF Notice, sweepVars
  <2>2. data \in [Tasks -> Snapshot] /\ data[u].retry = task[u].retry
    BY <1>0, NoneType DEF Snap
  <2> HIDE DEF data
  <2>3. Batch(r, S, data, inFlight[r], load[r], deferred[r], {})
    BY <1>0, <2>1, <2>2 DEF Batch
  <2>4. \A c \in Owners(u)' : c \in Owners(u) /\ calls'[c] = calls[c]
    BY <2>3, StartOwned
  <2>5. ASSUME ~Over(task[u])
        PROVE  \E m : m = task[u].retry /\ CallsWithin(u, m)'
    <3>1. PICK m \in Nat : m = task[u].retry
      BY <1>n
    <3>2. CallsWithin(u, m) /\ data[u].retry <= m
      BY <1>w, <2>2, <2>5, <3>1
    <3>3. CallsWithin(u, m)'
      BY <2>3, <3>2, StartWithin
    <3> QED
      BY <3>1, <3>3
  <2> QED
    BY <1>s, <2>1, <2>4, <2>5
<1>6. ASSUME NEW t \in Tasks, ReleaseRead(r, t)
      PROVE  Keyed(u)'
  <2>1. /\ UNCHANGED <<task, calls, deferred, runs, sweep, request>> /\ r \in Releasers
        /\ release' = [release EXCEPT ![r][t] = Snap(task[t])]
        /\ WaitingOnDeps(t) \/ Recovering(t)
    BY <1>6 DEF ReleaseRead, replicaVars
  <2>2. \A q \in Replicas : release'[q][u] = IF q = r /\ u = t THEN Snap(task[t]) ELSE release[q][u]
    BY <1>0, <2>1
  <2>3. CASE u # t
    BY <1>c, <1>s, <1>w, <2>1, <2>2, <2>3
  <2>4. CASE u = t
    <3>0. Gated(u)
      <4>1. release'[r][u] # None
        BY <1>n, <2>2, <2>4, NoneType
      <4> QED
        BY <4>1 DEF Unreleased
    <3>1. WaitingOnDeps(u)
      BY <2>1, <2>4, <3>0 DEF Recovering
    <3>2. ~Over(task[u])
      BY <3>1 DEF WaitingOnDeps, Over
    <3>3. Snap(task[u]).retry = task[u].retry
      BY DEF Snap
    <3>4. \A q \in Replicas : release'[q][u] # None => release'[q][u].retry <= task[u].retry
      BY <1>n, <1>w, <2>2, <2>4, <3>2, <3>3
    <3>5. CallsWithin(u, task[u].retry)'
      BY <1>c, <1>w, <2>1, <3>2
    <3>6. Within(u)'
      BY <2>1, <3>2, <3>4, <3>5 DEF Within
    <3>7. Tried(u)' /\ Steered(u)'
      BY <2>1 DEF Keyed, Tried, Steered, LiveRuns, Owners
    <3> QED
      BY <2>1, <3>6, <3>7 DEF Keyed
  <2> QED
    BY <2>3, <2>4
<1>7. ASSUME NEW t \in Tasks, ReleaseWrite(r, t)
      PROVE  Keyed(u)'
  <2> DEFINE snap == release[r][t]
             data == [v \in Tasks |-> snap]
  <2>1. /\ UNCHANGED <<sweep, request, runs>> /\ snap # None
        /\ release' = [release EXCEPT ![r][t] = None]
    BY <1>7 DEF ReleaseWrite
  <2>2. \A q \in Replicas : release'[q][u] = IF q = r /\ u = t THEN None ELSE release[q][u]
    BY <1>0, <2>1
  <2>3. Gated(t) => Batch(r, {t}, data, inFlight[r], load[r], deferred[r], {})
    <3>1. Gated(t) => Start(r, {t}, data, inFlight[r], load[r], deferred[r], {})
      BY <1>7 DEF ReleaseWrite
    <3>2. data \in [Tasks -> Snapshot]
      BY <1>0
    <3> HIDE DEF data
    <3> QED
      BY <1>0, <3>1, <3>2 DEF Batch
  <2>4. ~Gated(t) => UNCHANGED <<calls, deferred>>
    BY <1>7 DEF ReleaseWrite, replicaVars
  <2>5. \A c \in Owners(u)' : c \in Owners(u) /\ calls'[c] = calls[c]
    BY <1>c, <2>3, <2>4, StartOwned
  <2>6. ASSUME ~Over(task[u])
        PROVE  \E m : m = task[u].retry /\ CallsWithin(u, m)'
    <3>1. PICK m \in Nat : m = task[u].retry
      BY <1>n
    <3>2. CallsWithin(u, m) /\ (u \in {t} => data[u].retry <= m)
      BY <1>w, <2>1, <2>6, <3>1
    <3> HIDE DEF data, snap
    <3>3. CallsWithin(u, m)'
      BY <1>c, <2>3, <2>4, <3>2, StartWithin
    <3> QED
      BY <3>1, <3>3
  <2>7. CASE u # t
    <3>1. task'[u] = task[u]
      BY <1>0, <1>7, <2>7 DEF ReleaseWrite, Write
    <3>2. ~Over(task[u]) => CallsWithin(u, task[u].retry)'
      BY <2>6, <3>1
    <3>3. runs'[u] = runs[u] /\ request'[u] = request[u]
      BY <2>1
    <3> QED
      BY <2>1, <2>2, <2>5, <2>7, <3>1, <3>2, <3>3, KeyedStill
  <2>8. CASE u = t
    <3>1. Owners(u) = {} /\ ~Over(task[u]) /\ Gated(u)
      BY <1>0, <2>1, <2>8 DEF OwnedWell, Keyed, Within, Unreleased
    <3> DEFINE w == WithStatus(task[u], "pending")
               n == w.notes + 1
               e == [w EXCEPT !.beat = "none", !.notes = n]
    <3>2. task'[u] = e
      <4>1. Write(t, e)
        BY <1>7, <2>8, <3>1 DEF ReleaseWrite
      <4> HIDE DEF e
      <4> QED
        BY <1>0, <2>8, <4>1 DEF Write
    <3>3. e.retry = task[u].retry /\ e.notes = task[u].notes + 1 /\ e.agent = "pending"
      <4>1. /\ w \in TaskType /\ w.retry = task[u].retry /\ w.agent = "pending"
            /\ n = task[u].notes + 1
        BY <1>n, WithStatusFacts DEF Statuses
      <4> HIDE DEF w, n
      <4> QED
        BY <4>1 DEF TaskType
    <3> HIDE DEF e, w
    <3>4. Tried(u)'
      BY <1>n, <2>1, <3>2, <3>3, TriedKept DEF Keyed
    <3>5. CallsWithin(u, task[u].retry)'
      BY <2>6, <3>1, <3>2, <3>3
    <3>6. Within(u)'
      BY <1>w, <2>2, <3>1, <3>2, <3>3, <3>5 DEF Within, Over
    <3>7. Steered(u)'
      BY <2>5, <3>1 DEF Steered
    <3> QED
      BY <2>1, <3>4, <3>6, <3>7 DEF Keyed
  <2> QED
    BY <2>7, <2>8
<1> QED
  BY <1>1, <1>2, <1>3, <1>4, <1>5, <1>6, <1>7 DEF ReplicaStep

LEMMA KeyedTaskSteps ==
    ASSUME Types, TypeOK', Untouched', \A v \in Tasks : request[v] = None,
           NEW t \in Tasks, TaskStep(t)
    PROVE  /\ \A u \in Tasks : Keyed(u) => Keyed(u)'
           /\ \A v \in Tasks : request'[v] = None
<1>0. /\ task \in [Tasks -> TaskType] /\ moves \in Nat
      /\ runs \in [Tasks -> [Attempts -> RunType]]
  BY SizesAssumption DEF Types, TypeOK
<1>m. \A kind : ~Move(kind)
  BY <1>0 DEF Move, Untouched
<1>n. \A u \in Tasks : task[u].notes \in Nat /\ \A k \in Attempts : runs[u][k].notes \in Nat
  BY <1>0 DEF TaskType, RunType
<1>w. \A e : Write(t, e) => task'[t] = e /\ \A u \in Tasks \ {t} : task'[u] = task[u]
  BY <1>0 DEF Write
<1>s. ASSUME UNCHANGED <<calls, deferred, sweep, release, request>>, NEW u \in Tasks, Keyed(u),
             Kept(task[u], task'[u]), task'[u].agent = task[u].agent,
             task'[u].output = task[u].output,
             LiveRuns(u)' \subseteq LiveRuns(u),
             \A k \in Attempts : /\ runs'[u][k].notes = runs[u][k].notes
                                 /\ runs[u][k].st # "none" => runs'[u][k].st # "none"
      PROVE  Keyed(u)'
  <2>1. Over(task'[u]) <=> Over(task[u])
    BY <1>s DEF Over
  <2>2. Tried(u)'
    BY <1>s DEF Keyed, Tried, Kept
  <2>3. Within(u)'
    BY <1>s, <2>1 DEF Keyed, Within, CallsWithin, Busy, Kept
  <2>4. task[u].retry \in Attempts
    BY <1>0 DEF TaskType
  <2>5. Steered(u)'
    <3> SUFFICES ASSUME NEW c \in Owners(u)
                 PROVE  /\ task'[u].agent \in Working /\ calls'[c].pc # "reconcile"
                        /\ calls'[c].pc = "post" => calls'[c].notes = task'[u].notes
                        /\ calls'[c].pc \in {"run", "verify"} => calls'[c].retry = task'[u].retry
                        /\ calls'[c].pc = "verify" =>
                              /\ calls'[c].seen.retry = task'[u].retry /\ LiveRuns(u)' = {}
                              /\ runs'[u][task'[u].retry].st # "none"
      BY <1>s DEF Steered, Owners
    <3> QED
      BY <1>s, <2>4 DEF Keyed, Steered, Kept
  <2> QED
    BY <1>s, <2>2, <2>3, <2>5 DEF Keyed
<1>1. ASSUME BackoffEnds(t) \/ GoesStale(t) \/ \E e \in Evidence \ {"none"} : SubmitEvidence(t, e)
      PROVE  /\ \A u \in Tasks : Keyed(u) => Keyed(u)'
             /\ \A v \in Tasks : request'[v] = None
  <2>1. UNCHANGED <<calls, deferred, sweep, release, request, runs>>
    BY <1>1 DEF BackoffEnds, GoesStale, SubmitEvidence, replicaVars, sweepVars
  <2>2. \E b : \/ Write(t, [task[t] EXCEPT !.backoff = b]) \/ Write(t, [task[t] EXCEPT !.beat = b])
               \/ Write(t, [task[t] EXCEPT !.evidence = b])
    BY <1>1 DEF BackoffEnds, GoesStale, SubmitEvidence
  <2>3. Kept(task[t], task'[t]) /\ task'[t].agent = task[t].agent /\ task'[t].output = task[t].output
    <3> DEFINE d == task[t]
               alike(e) == Kept(d, e) /\ e.agent = d.agent /\ e.output = d.output
    <3>0. d \in TaskType
      BY <1>0
    <3>1. \E b : \/ Write(t, [d EXCEPT !.backoff = b]) \/ Write(t, [d EXCEPT !.beat = b])
                 \/ Write(t, [d EXCEPT !.evidence = b])
      BY <2>2
    <3> HIDE DEF d
    <3>2. \A b : /\ alike([d EXCEPT !.backoff = b]) /\ alike([d EXCEPT !.beat = b])
                 /\ alike([d EXCEPT !.evidence = b])
      BY <3>0 DEF Kept, TaskType
    <3> HIDE DEF alike
    <3>3. \E e : Write(t, e) /\ alike(e)
      BY <3>1, <3>2
    <3>4. alike(task'[t])
      BY <1>w, <3>3
    <3> QED
      BY <3>4 DEF alike, d
  <2>4. \A u \in Tasks : /\ Kept(task[u], task'[u]) /\ task'[u].agent = task[u].agent
                         /\ task'[u].output = task[u].output
    BY <1>w, <2>2, <2>3 DEF Kept
  <2>5. \A u \in Tasks : /\ LiveRuns(u)' \subseteq LiveRuns(u)
                         /\ \A k \in Attempts : /\ runs'[u][k].notes = runs[u][k].notes
                                                /\ runs[u][k].st # "none" => runs'[u][k].st # "none"
    BY <2>1 DEF LiveRuns
  <2> QED
    BY <1>s, <2>1, <2>4, <2>5
<1>2. ASSUME \/ \E kind \in {"requeue", "closeout"} : PatchRead(t, kind)
             \/ PatchWrite(t) \/ ReviewApproves(t) \/ ReviewRejects(t)
      PROVE  FALSE
  BY <1>2, <1>m DEF PatchRead, PatchWrite, ReviewApproves, ReviewRejects
<1>3. ASSUME NEW k \in Attempts, RunEnds(t, k)
      PROVE  /\ \A u \in Tasks : Keyed(u) => Keyed(u)'
             /\ \A v \in Tasks : request'[v] = None
  <2>1. /\ UNCHANGED <<task, calls, deferred, sweep, release, request>>
        /\ runs[t][k].st = "running"
    BY <1>3 DEF RunEnds, replicaVars, sweepVars
  <2>2. PICK st \in {"finished", "failed"} : runs' = [runs EXCEPT ![t][k].st = st]
    BY <1>3 DEF RunEnds
  <2>3. \A u \in Tasks, j \in Attempts :
           runs'[u][j] = IF u = t /\ j = k THEN [runs[t][k] EXCEPT !.st = st] ELSE runs[u][j]
    BY <1>0, <2>2
  <2>4. [runs[t][k] EXCEPT !.st = st].notes = runs[t][k].notes /\ [runs[t][k] EXCEPT !.st = st].st = st
    <3> DEFINE x == runs[t][k]
    <3>1. x \in RunType
      BY <1>0
    <3> HIDE DEF x
    <3>2. [x EXCEPT !.st = st].notes = x.notes /\ [x EXCEPT !.st = st].st = st
      BY <3>1 DEF RunType
    <3> QED
      BY <3>2 DEF x
  <2>5. \A u \in Tasks, j \in Attempts :
           /\ runs'[u][j].notes = runs[u][j].notes
           /\ runs'[u][j].st = "running" => runs[u][j].st = "running"
           /\ runs[u][j].st # "none" => runs'[u][j].st # "none"
    BY <2>2, <2>3, <2>4
  <2>6. \A u \in Tasks : LiveRuns(u)' \subseteq LiveRuns(u) /\ Kept(task[u], task'[u])
    BY <2>1, <2>5 DEF LiveRuns, Kept
  <2> QED
    BY <1>s, <2>1, <2>5, <2>6
<1> QED
  BY <1>1, <1>2, <1>3 DEF TaskStep

(* Only the PATCH route makes requests.                                     *)
LEMMA OthersUnasked ==
    ASSUME NEW c, CallStep(c) \/ CallFault(c) \/ Beat(c)
    PROVE  request' = request
BY DEF CallStep, CallFault, DepsChecked, ClaimTask, Route, Post, PostConflicts, Reconcile, RunFailed,
       AwaitInput, ReadCompletion, RejectCompletion, AcceptCompletion, RouteFails, NoConfig,
       PostLost, PostCut, ReconcileFails, PollFails, Beat

LEMMA SweepsUnasked ==
    ASSUME NEW r, ReplicaStep(r)
    PROVE  request' = request
BY DEF ReplicaStep, SweepRead, SweepCommit, Crash, Shutdown, ShutdownExits, Restarted, Notice,
       ReleaseRead, ReleaseWrite

(* Nobody asks for a run.                                                   *)
Unasked == \A t \in Tasks : request[t] = None
KeyedInv ==
    Untouched => /\ OwnerInv /\ Unasked
                 /\ \A t \in Tasks : Gated(t) => Keyed(t)

(* No release sweep recovers a blocked card, and then the same of all tasks. *)
NoneRecovered == \A t \in Tasks : ~Gated(t) => Unreleased(t)
AllKeyedInv == Untouched => \A t \in Tasks : Keyed(t)

(* A step of a task that no release sweep recovers.                         *)
LEMMA KeyedKept ==
    ASSUME OneSweeper, OneReleaser, {"stall", "route", "lost"} \cap Faults = {},
           Types, TypeOK', OwnerInv, Unasked, [Next]_vars, Untouched',
           NEW t \in Tasks, Gated(t) \/ (Unreleased(t) /\ Unreleased(t)'), Keyed(t)
    PROVE  Keyed(t)'
<1>1. CASE UNCHANGED vars
  BY <1>1 DEF vars, Keyed, Tried, Within, CallsWithin, Steered, Busy, Owners, LiveRuns
<1>2. ASSUME NEW c \in Calls, CallStep(c) \/ CallFault(c) \/ Beat(c)
      PROVE  Keyed(t)'
  <2>1. CASE t = Task(c)
    BY <1>2, <2>1, KeyedCallSteps
  <2>2. CASE t # Task(c)
    BY <1>2, <2>2, KeyedOthers
  <2> QED
    BY <2>1, <2>2
<1>3. ASSUME NEW r \in Replicas, ReplicaStep(r)
      PROVE  Keyed(t)'
  BY <1>3, KeyedReplicaSteps
<1>4. ASSUME NEW u \in Tasks, TaskStep(u)
      PROVE  Keyed(t)'
  BY <1>4, KeyedTaskSteps DEF Unasked
<1> QED
  BY <1>1, <1>2, <1>3, <1>4 DEF Next

LEMMA InitKeyed == Init => OwnerInv /\ Unasked /\ \A t \in Tasks : Keyed(t)
<1> SUFFICES ASSUME Init
             PROVE  OwnerInv /\ Unasked /\ \A t \in Tasks : Keyed(t)
  OBVIOUS
<1>1. OwnerInv /\ Unasked
  BY FreeType DEF Init, OwnerInv, OwnedWell, Owners, Owning, None, Unasked
<1>2. ASSUME NEW t \in Tasks
      PROVE  Keyed(t)
  <2>1. /\ task[t].retry = 0 /\ task[t].notes = 0 /\ ~Over(task[t])
    <3> DEFINE fits(d) == d.retry = 0 /\ d.notes = 0 /\ ~Over(d)
    <3>1. fits(NewTask)
      BY DEF NewTask, Over
    <3>2. fits([NewTask EXCEPT !.agent = "awaiting-input"])
      BY DEF NewTask, Over
    <3>3. fits([NewTask EXCEPT !.agent = "blocked", !.col = "blocked"])
      BY DEF NewTask, Over
    <3> HIDE DEF fits
    <3>4. fits(task[t])
      BY <3>1, <3>2, <3>3 DEF Init, Gates
    <3> QED
      BY <3>4 DEF fits
  <2>2. Busy(t) = {} /\ Owners(t) = {} /\ LiveRuns(t) = {}
    BY FreeType DEF Init, Busy, Owners, Owning, LiveRuns, NoRun
  <2>3. Tried(t)
    BY <2>1, <2>2 DEF Init, Tried, NoRun, Attempts
  <2>4. Within(t) /\ Steered(t)
    BY <2>1, <2>2 DEF Init, Within, CallsWithin, Steered
  <2> QED
    BY <2>3, <2>4 DEF Keyed, Init
<1> QED
  BY <1>1, <1>2

(* The inductive invariant of many processes, while nobody asks for a run.  *)
LEMMA KeyedCorrect ==
    ASSUME OneSweeper, OneReleaser, {"stall", "route", "lost"} \cap Faults = {}
    PROVE  Spec => []KeyedInv
<1>1. Init => KeyedInv
  BY InitKeyed DEF KeyedInv
<1>2. WatcherInv /\ KeyedInv /\ [Next]_vars => KeyedInv'
  <2> SUFFICES ASSUME WatcherInv, KeyedInv, [Next]_vars, Untouched'
               PROVE  /\ OwnerInv' /\ Unasked'
                      /\ \A t \in Tasks : Gated(t) => Keyed(t)'
    BY DEF KeyedInv, Gated
  <2>1. Types /\ moves \in Nat /\ moves' \in Nat /\ moves <= moves'
    BY TaskSteps, SizesAssumption DEF WatcherInv, Types, TypeOK, LimitStep
  <2>2. TypeOK'
    BY NextWatcher DEF WatcherInv, Types
  <2>3. OwnerInv /\ Unasked /\ (\A t \in Tasks : Gated(t) => Keyed(t)) /\ moves' = 0
    BY <2>1 DEF KeyedInv, Untouched
  <2>4. \A t \in Tasks : Gated(t) => Keyed(t)'
    BY <2>1, <2>2, <2>3, KeyedKept
  <2>5. OwnerInv' /\ Unasked'
    <3>1. CASE UNCHANGED vars
      <4>1. \A u \in Tasks : Still(u)
        BY <3>1 DEF vars, Still, SameSweeps, Owners
      <4> QED
        BY <2>3, <3>1, <4>1, StillStep DEF Unasked, vars
    <3>2. ASSUME NEW c \in Calls, CallStep(c) \/ CallFault(c) \/ Beat(c)
          PROVE  OwnerInv' /\ Unasked'
      BY <2>1, <2>3, <3>2, CallOwnerSteps, OthersUnasked DEF Unasked
    <3>3. ASSUME NEW r \in Replicas, ReplicaStep(r)
          PROVE  OwnerInv' /\ Unasked'
      BY <2>1, <2>3, <3>3, ReplicaOwnerSteps, SweepsUnasked DEF Unasked
    <3>4. ASSUME NEW t \in Tasks, TaskStep(t)
          PROVE  OwnerInv' /\ Unasked'
      <4>1. "stall" \notin Faults /\ OwnerInv'
        BY <2>1, <2>3, <3>4, TaskOwnerSteps
      <4> QED
        BY <2>1, <2>2, <2>3, <3>4, <4>1, KeyedTaskSteps DEF Unasked
    <3> QED
      BY <3>1, <3>2, <3>3, <3>4 DEF Next
  <2> QED
    BY <2>4, <2>5
<1> QED
  BY <1>1, <1>2, WatcherCorrect, PTL DEF Spec

(* failure-classification.ts: at-most-once dispatch in any number of        *)
(* processes that crash, restart and start calls from stale snapshots. A    *)
(* task with dependencies never has two live runs as long as nobody asks    *)
(* for a new one, provided one process runs each sweep, no owner stalls, no *)
(* failure comes before the post and no answer to a post is lost. A post    *)
(* that is cut off, a poll that fails and a shutdown are all allowed.       *)
THEOREM OneLiveRunOfAGatedTask ==
    ASSUME OneSweeper, OneReleaser, {"stall", "route", "lost"} \cap Faults = {}
    PROVE  Spec => [](Untouched => \A t \in Tasks : Gated(t) => \A j, k \in LiveRuns(t) : j = k)
<1>1. KeyedInv => (Untouched => \A t \in Tasks : Gated(t) => \A j, k \in LiveRuns(t) : j = k)
  BY DEF KeyedInv, Keyed, Tried
<1> QED
  BY <1>1, KeyedCorrect, PTL

(* The same for every task, in a behaviour where the release sweep recovers *)
(* no blocked card, the one write that counts an attempt without looking at *)
(* the run before it.                                                       *)
THEOREM OneLiveRunAcrossProcesses ==
    ASSUME OneSweeper, OneReleaser, {"stall", "route", "lost"} \cap Faults = {}
    PROVE  Spec /\ []NoneRecovered => []OneLiveRun
<1>1. Init => AllKeyedInv
  BY InitKeyed DEF AllKeyedInv
<1>2. WatcherInv /\ KeyedInv /\ AllKeyedInv /\ NoneRecovered /\ NoneRecovered' /\ [Next]_vars
        => AllKeyedInv'
  <2> SUFFICES ASSUME WatcherInv, KeyedInv, AllKeyedInv, NoneRecovered, NoneRecovered',
                      [Next]_vars, Untouched', NEW t \in Tasks
               PROVE  Keyed(t)'
    BY DEF AllKeyedInv
  <2>1. Types /\ moves \in Nat /\ moves' \in Nat /\ moves <= moves'
    BY TaskSteps, SizesAssumption DEF WatcherInv, Types, TypeOK, LimitStep
  <2>2. TypeOK'
    BY NextWatcher DEF WatcherInv, Types
  <2>3. OwnerInv /\ Unasked /\ Keyed(t)
    BY <2>1 DEF KeyedInv, AllKeyedInv, Untouched
  <2>4. Gated(t) \/ (Unreleased(t) /\ Unreleased(t)')
    BY DEF NoneRecovered, Gated
  <2> QED
    BY <2>1, <2>2, <2>3, <2>4, KeyedKept
<1>3. AllKeyedInv => OneLiveRun
  BY DEF AllKeyedInv, Keyed, Tried, OneLiveRun
<1> QED
  BY <1>1, <1>2, <1>3, WatcherCorrect, KeyedCorrect, PTL DEF Spec
=============================================================================
