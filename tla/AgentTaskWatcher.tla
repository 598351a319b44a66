-------------------------- MODULE AgentTaskWatcher --------------------------
(* The agent watcher: replicas that see pending Kanban tasks, claim them in *)
(* a Firestore transaction, post one Hermes run per attempt, verify the     *)
(* completion evidence of the run, and requeue, block or finish the task;   *)
(* the stale sweeper, the release sweep, the task PATCH route and the       *)
(* shutdown that run beside them.                                           *)
(*                                                                          *)
(* One agent is modelled: the concurrency cap and the deferred queue are    *)
(* kept per agent, and the claim compares nothing else between agents.      *)
EXTENDS Integers, FiniteSets

CONSTANTS
    Tasks,          \* documents of the collection group "tasks"
    Replicas,       \* watcher processes
    Sweepers,       \* the replicas whose stale sweeper runs
    Releasers,      \* the replicas whose release sweep runs
    Slots,          \* dispatchTask calls of one replica for one task
    Deps,           \* task -> dependsOn
    Reviewed,       \* tasks with a reviewer
    MaxConcurrent,  \* MAX_CONCURRENT_PER_AGENT
    MaxRetries,     \* MAX_TRANSIENT_RETRIES
    Faults,         \* kinds of failures that may happen
    MaxFaults,      \* bound on the number of failures
    Moves,          \* kinds of outside writes that may happen
    MaxMoves        \* bound on the number of outside writes

FaultKinds == {"crash", "shutdown", "stall", "route", "lost", "cut", "poll"}
MoveKinds == {"requeue", "closeout", "evidence", "review"}

ASSUME SizesAssumption ==
    /\ MaxConcurrent \in Nat \ {0}
    /\ MaxRetries \in Nat
    /\ MaxFaults \in Nat
    /\ MaxMoves \in Nat
    /\ Slots \subseteq Nat
ASSUME ActorsAssumption ==
    /\ IsFiniteSet(Tasks)
    /\ Sweepers \subseteq Replicas /\ Releasers \subseteq Replicas
    /\ Deps \in [Tasks -> SUBSET Tasks]
    /\ Reviewed \subseteq Tasks
    /\ Faults \subseteq FaultKinds
    /\ Moves \subseteq MoveKinds

VARIABLES
    task,      \* the task documents
    calls,     \* dispatchTask calls in progress
    inFlight,  \* replica -> tasks in its inFlight set
    load,      \* replica -> perAgentInFlight
    deferred,  \* replica -> task -> the data it was deferred with
    mode,      \* replica -> "up" or "stopping"
    runs,      \* task -> attempt -> the Hermes run under that key
    sweep,     \* replica -> stale tasks read and not yet reset
    release,   \* replica -> task -> the data a release was decided from
    request,   \* task -> a PATCH read and not yet written
    faults,    \* failures so far
    moves      \* outside writes so far

vars == <<task, calls, inFlight, load, deferred, mode, runs, sweep, release,
          request, faults, moves>>

MaxAttempt == MaxRetries + MaxMoves
Attempts == 0..MaxAttempt
None == [retry |-> 0, kind |-> "none"]

Working == {"picked-up", "in-progress"}
Evidence == {"none", "good", "bad"}
TaskType ==
    [agent : {"pending", "awaiting-input", "blocked", "done"} \cup Working,
     col : {"todo", "in_progress", "blocked", "review", "done"},
     review : {"none", "pending", "approved", "changes-requested"},
     retry : Attempts, backoff : BOOLEAN, beat : {"none", "fresh", "stale"},
     evidence : Evidence, reasons : {"none", "recoverable", "other"},
     output : {"none", "summary", "human"}, notes : Nat]

Seen(d) == [agent |-> d.agent, col |-> d.col, review |-> d.review,
            evidence |-> d.evidence, output |-> d.output, retry |-> d.retry]
SeenType == [agent : {"pending", "awaiting-input", "blocked", "done"} \cup Working,
             col : {"todo", "in_progress", "blocked", "review", "done"},
             review : {"none", "pending", "approved", "changes-requested"},
             evidence : Evidence, output : {"none", "summary", "human"},
             retry : Attempts]
Fingerprint(s) == <<s.agent, s.col, s.review, s.evidence, s.output>>

(* A call carries the attempt number and review state of the data it was    *)
(* started with, the comments its payload was built from, and the document  *)
(* its verification read.                                                   *)
Calls == Replicas \X Tasks \X Slots
Owning == {"route", "post", "reconcile", "run", "verify"}
CallType == [pc : {"free", "deps", "claim"} \cup Owning, retry : Attempts,
             rework : BOOLEAN, notes : Nat, seen : SeenType]

NewTask == [agent |-> "pending", col |-> "todo", review |-> "none", retry |-> 0,
            backoff |-> FALSE, beat |-> "none", evidence |-> "none",
            reasons |-> "none", output |-> "none", notes |-> 0]
Free == [pc |-> "free", retry |-> 0, rework |-> FALSE, notes |-> 0,
         seen |-> Seen(NewTask)]
NoRun == [st |-> "none", notes |-> 0]
RunType == [st : {"none", "running", "finished", "failed"}, notes : Nat]
Snapshot == [retry : Attempts, kind : {"none", "first", "rework"}]
Snap(d) == [retry |-> d.retry,
            kind |-> IF d.review = "changes-requested" THEN "rework" ELSE "first"]

(* Planners create dependent cards that wait in To Do or in Blocked.        *)
Gates == {[NewTask EXCEPT !.agent = "awaiting-input"],
          [NewTask EXCEPT !.agent = "blocked", !.col = "blocked"]}

Init ==
    /\ task \in [Tasks -> {NewTask} \cup Gates]
    /\ \A t \in Tasks : task[t] \in Gates => Deps[t] # {}
    /\ calls = [c \in Calls |-> Free]
    /\ inFlight = [r \in Replicas |-> {}]
    /\ load = [r \in Replicas |-> 0]
    /\ deferred = [r \in Replicas |-> [t \in Tasks |-> None]]
    /\ mode = [r \in Replicas |-> "up"]
    /\ runs = [t \in Tasks |-> [k \in Attempts |-> NoRun]]
    /\ sweep = [r \in Replicas |-> {}]
    /\ release = [r \in Replicas |-> [t \in Tasks |-> None]]
    /\ request = [t \in Tasks |-> None]
    /\ faults = 0
    /\ moves = 0

replicaVars == <<inFlight, load, deferred>>
sweepVars == <<sweep, release>>
limitVars == <<faults, moves>>

Fail(kind) ==
    /\ kind \in Faults
    /\ faults < MaxFaults
    /\ faults' = faults + 1
    /\ UNCHANGED moves
NoFault == UNCHANGED limitVars

-----------------------------------------------------------------------------
(* What a task document allows.                                             *)

Resolved(t) ==
    \/ task[t].col = "done"
    \/ task[t].agent = "done" /\ (t \in Reviewed => task[t].review = "approved")
DepsResolved(t) == \A d \in Deps[t] : Resolved(d)

Dispatchable(d) == d.agent = "pending" /\ d.col = "todo" /\ ~d.backoff
ClaimableMutant(t) == ~task[t].backoff /\ DepsResolved(t)   \* status not read again
Claimable(t) == Dispatchable(task[t]) /\ DepsResolved(t)

(* agentStatusUpdate: the column that goes with a status.                   *)
WithStatus(d, status) ==
    [d EXCEPT !.agent = status,
              !.col = CASE status = "pending" -> "todo"
                        [] status \in Working -> "in_progress"
                        [] OTHER -> "blocked"]

(* buildAutomaticRequeuePatch under the decision of decideAutomaticRequeue: *)
(* only a failure that is both transient and known not to have reached      *)
(* Hermes is retried, within the budget, and not while a review asks for    *)
(* changes. The budget is counted from the data the call was started with.  *)
MayRequeueMutant(call, transient) ==   \* one attempt too many
    transient /\ ~call.rework /\ call.retry <= MaxRetries
MayRequeue(call, transient) ==
    transient /\ ~call.rework /\ call.retry < MaxRetries
AfterFailure(d, call, transient) ==
    IF MayRequeue(call, transient)
    THEN [WithStatus(d, "pending") EXCEPT !.retry = call.retry + 1, !.backoff = TRUE,
                                          !.beat = "none", !.output = "summary"]
    ELSE [WithStatus(d, "blocked") EXCEPT !.beat = "none", !.output = "summary"]

-----------------------------------------------------------------------------
(* The process memory of one replica.                                       *)

Replica(c) == c[1]
Task(c) == c[2]
CallsOf(r, t) == {c \in Calls : Replica(c) = r /\ Task(c) = t}
FreeCalls(r, t, done) == {c \in CallsOf(r, t) : calls[c].pc = "free" \/ c \in done}
Gated(t) == Deps[t] # {}

StartedCall(snap, t) ==
    [Free EXCEPT !.pc = IF Gated(t) THEN "deps" ELSE "claim",
                 !.retry = snap.retry, !.rework = snap.kind = "rework"]

(* dispatchTask is called for the tasks of S one after another; each call   *)
(* runs to its first await, and a call whose dependency reads need no I/O   *)
(* resumes only after the last of them has been started. So the cap is      *)
(* compared with the load from before the whole batch. "done" is the call   *)
(* that is returning, if any. Slots bounds the calls for one task.          *)
Start(r, S, data, flying, count, waiting, done) ==
    LET fresh == S \ flying
        room == count < MaxConcurrent
        started == {t \in fresh : room /\ FreeCalls(r, t, done) # {}}
        counted == {t \in started : ~Gated(t)}
        chosen == {CHOOSE c \in FreeCalls(r, t, done) : TRUE : t \in started}
    IN  /\ calls' = [c \in Calls |->
              IF c \in chosen THEN StartedCall(data[Task(c)], Task(c))
              ELSE IF c \in done THEN Free ELSE calls[c]]
        /\ inFlight' = [inFlight EXCEPT ![r] = flying \cup counted]
        /\ load' = [load EXCEPT ![r] = count + Cardinality(counted)]
        /\ deferred' = [deferred EXCEPT ![r] = [t \in Tasks |->
              IF t \in fresh /\ ~room THEN data[t] ELSE waiting[t]]]

(* The finally block of dispatchTask: the task leaves the in-flight set,    *)
(* and while the count is below the cap every deferred task is dispatched.  *)
FinishMutant(c) ==   \* no drain
    Start(Replica(c), {}, deferred[Replica(c)], inFlight[Replica(c)] \ {Task(c)},
          load[Replica(c)] - 1, deferred[Replica(c)], {c})
Finish(c) ==
    LET r == Replica(c)
        flying == inFlight[r] \ {Task(c)}
        count == IF load[r] = 0 THEN 0 ELSE load[r] - 1
        queued == {t \in Tasks : deferred[r][t] # None}
        drain == IF count < MaxConcurrent THEN queued ELSE {}
    IN  Start(r, drain, deferred[r], flying, count,
              [t \in Tasks |-> IF t \in drain THEN None ELSE deferred[r][t]], {c})

Become(c, pc) == calls' = [calls EXCEPT ![c].pc = pc]
Write(t, d) == task' = [task EXCEPT ![t] = d]

-----------------------------------------------------------------------------
(* Dispatch.                                                                *)

(* A snapshot listener or the ready sweep hands a batch to dispatchTask.    *)
Notice(r, S) ==
    /\ mode[r] = "up"
    /\ S # {}
    /\ \A t \in S : Dispatchable(task[t])
    /\ Start(r, S, [t \in Tasks |-> Snap(task[t])], inFlight[r], load[r],
             deferred[r], {})
    /\ UNCHANGED <<task, mode, runs, sweepVars, request, limitVars>>

(* The dependency reads return. A call that may not go on returns before    *)
(* the try block, so nothing is released or drained.                        *)
DepsChecked(c) ==
    LET r == Replica(c) IN
    /\ calls[c].pc = "deps"
    /\ IF DepsResolved(Task(c))
       THEN /\ Become(c, "claim")
            /\ inFlight' = [inFlight EXCEPT ![r] = @ \cup {Task(c)}]
            /\ load' = [load EXCEPT ![r] = @ + 1]
       ELSE /\ calls' = [calls EXCEPT ![c] = Free]
            /\ UNCHANGED <<inFlight, load>>
    /\ UNCHANGED <<task, deferred, mode, runs, sweepVars, request, limitVars>>

(* claimTask, a Firestore transaction over the task and its dependencies.   *)
ClaimTaskMutant(c) ==   \* a refused claim returns before the finally block
    LET t == Task(c) IN
    /\ calls[c].pc = "claim"
    /\ IF Claimable(t)
       THEN /\ Write(t, [WithStatus(task[t], "picked-up") EXCEPT !.beat = "fresh"])
            /\ Become(c, "route")
       ELSE /\ calls' = [calls EXCEPT ![c] = Free]
            /\ UNCHANGED task
    /\ UNCHANGED <<replicaVars, mode, runs, sweepVars, request, limitVars>>
ClaimTask(c) ==
    LET t == Task(c) IN
    /\ calls[c].pc = "claim"
    /\ IF Claimable(t)
       THEN /\ Write(t, [WithStatus(task[t], "picked-up") EXCEPT !.beat = "fresh"])
            /\ Become(c, "route")
            /\ UNCHANGED replicaVars
       ELSE /\ Finish(c)
            /\ UNCHANGED task
    /\ UNCHANGED <<mode, runs, sweepVars, request, limitVars>>

(* The runtime is resolved, the task is moved to in-progress whatever its   *)
(* state now is, and the comments the payload quotes are read.              *)
Route(c) ==
    LET t == Task(c) IN
    /\ calls[c].pc = "route"
    /\ Write(t, [WithStatus(task[t], "in-progress") EXCEPT !.beat = "fresh"])
    /\ calls' = [calls EXCEPT ![c].pc = "post", ![c].notes = task[t].notes]
    /\ UNCHANGED <<replicaVars, mode, runs, sweepVars, request, limitVars>>

(* A linked-computer pin that is offline, or a write that throws: no run    *)
(* was posted, so the failure is retried when its text is transient.        *)
RouteFails(c) ==
    LET t == Task(c) IN
    /\ calls[c].pc = "route"
    /\ \E transient \in BOOLEAN : Write(t, AfterFailure(task[t], calls[c], transient))
    /\ Finish(c)
    /\ Fail("route")
    /\ UNCHANGED <<mode, runs, sweepVars, request>>

(* The agent has no enabled dispatch configuration.                         *)
NoConfig(c) ==
    LET t == Task(c) IN
    /\ calls[c].pc = "route"
    /\ Write(t, [WithStatus(task[t], "blocked") EXCEPT !.output = "summary"])
    /\ Finish(c)
    /\ Fail("route")
    /\ UNCHANGED <<mode, runs, sweepVars, request>>

-----------------------------------------------------------------------------
(* Hermes: one run per idempotency key. A key that is posted again with the *)
(* same payload answers with its run; with another payload it is refused    *)
(* with HTTP 409. The key is the attempt number of the call's data.         *)

Key(c) == calls[c].retry
RunOf(c) == runs[Task(c)][Key(c)]
Fresh(c) == RunOf(c).st = "none"
Same(c) == RunOf(c).notes = calls[c].notes
Create(t, k, notes) == runs' = [runs EXCEPT ![t][k] = [st |-> "running", notes |-> notes]]

(* The run is accepted and its id persisted before it is polled.            *)
Post(c) ==
    /\ calls[c].pc = "post"
    /\ IF Fresh(c) THEN Create(Task(c), Key(c), calls[c].notes)
                   ELSE Same(c) /\ UNCHANGED runs
    /\ Become(c, "run")
    /\ UNCHANGED <<task, replicaVars, mode, sweepVars, request, limitVars>>

(* HTTP 409: a 4xx proves non-acceptance, and its text is not transient.    *)
PostConflicts(c) ==
    LET t == Task(c) IN
    /\ calls[c].pc = "post"
    /\ ~Fresh(c) /\ ~Same(c)
    /\ Write(t, AfterFailure(task[t], calls[c], FALSE))
    /\ Finish(c)
    /\ UNCHANGED <<mode, runs, sweepVars, request, limitVars>>

(* A transport error or a 5xx: Hermes may have taken the post or not.       *)
PostLost(c) ==
    /\ calls[c].pc = "post"
    /\ \/ UNCHANGED runs
       \/ Fresh(c) /\ Create(Task(c), Key(c), calls[c].notes)
    /\ Become(c, "reconcile")
    /\ Fail("lost")
    /\ UNCHANGED <<task, replicaVars, mode, sweepVars, request>>

(* The run is accepted but its answer breaks off: reading the body throws   *)
(* before a run id is known, and the text of that error is not transient.   *)
PostCut(c) ==
    LET t == Task(c) IN
    /\ calls[c].pc = "post"
    /\ Fresh(c)
    /\ Create(t, Key(c), calls[c].notes)
    /\ Write(t, AfterFailure(task[t], calls[c], FALSE))
    /\ Finish(c)
    /\ Fail("cut")
    /\ UNCHANGED <<mode, sweepVars, request>>

(* reconcileDispatch asks Hermes for the key: 404 is taken as proof that    *)
(* the post was not accepted.                                               *)
Reconcile(c) ==
    LET t == Task(c) IN
    /\ calls[c].pc = "reconcile"
    /\ IF Fresh(c)
       THEN /\ \E transient \in BOOLEAN :
                  Write(t, AfterFailure(task[t], calls[c], transient))
            /\ Finish(c)
       ELSE /\ Become(c, "run")
            /\ UNCHANGED <<task, replicaVars>>
    /\ UNCHANGED <<mode, runs, sweepVars, request, limitVars>>

(* The lookup fails too: acceptance is unknown and the task is blocked.     *)
ReconcileFailsMutant(c) ==   \* unknown acceptance is retried
    LET t == Task(c) IN
    /\ calls[c].pc = "reconcile"
    /\ Write(t, AfterFailure(task[t], calls[c], TRUE))
    /\ Finish(c)
    /\ Fail("lost")
    /\ UNCHANGED <<mode, runs, sweepVars, request>>
ReconcileFails(c) ==
    LET t == Task(c) IN
    /\ calls[c].pc = "reconcile"
    /\ Write(t, AfterFailure(task[t], calls[c], FALSE))
    /\ Finish(c)
    /\ Fail("lost")
    /\ UNCHANGED <<mode, runs, sweepVars, request>>

RunEnds(t, k) ==
    /\ runs[t][k].st = "running"
    /\ \E st \in {"finished", "failed"} : runs' = [runs EXCEPT ![t][k].st = st]
    /\ UNCHANGED <<task, calls, replicaVars, mode, sweepVars, request, limitVars>>

(* The heartbeat timer of a call writes without looking at the task.        *)
Beat(c) ==
    /\ calls[c].pc \in {"post", "reconcile", "run"}
    /\ task[Task(c)].beat # "fresh"
    /\ Write(Task(c), [task[Task(c)] EXCEPT !.beat = "fresh"])
    /\ UNCHANGED <<calls, replicaVars, mode, runs, sweepVars, request, limitVars>>

-----------------------------------------------------------------------------
(* The end of a run.                                                        *)

(* The run failed: it was accepted, so it is never posted again.            *)
RunFailed(c) ==
    LET t == Task(c) IN
    /\ calls[c].pc = "run"
    /\ RunOf(c).st = "failed"
    /\ Write(t, AfterFailure(task[t], calls[c], FALSE))
    /\ Finish(c)
    /\ UNCHANGED <<mode, runs, sweepVars, request, limitVars>>

(* Polling gives up on a run that goes on, or its id could not be stored.   *)
PollFails(c) ==
    LET t == Task(c) IN
    /\ calls[c].pc = "run"
    /\ RunOf(c).st \in {"running", "finished"}
    /\ Write(t, AfterFailure(task[t], calls[c], FALSE))
    /\ Finish(c)
    /\ Fail("poll")
    /\ UNCHANGED <<mode, runs, sweepVars, request>>

(* The output asks for a human.                                             *)
AwaitInput(c) ==
    LET t == Task(c) IN
    /\ calls[c].pc = "run"
    /\ RunOf(c).st = "finished"
    /\ Write(t, [WithStatus(task[t], "awaiting-input") EXCEPT !.output = "human"])
    /\ Finish(c)
    /\ UNCHANGED <<mode, runs, sweepVars, request, limitVars>>

(* The output is taken; the live document is read for verification.         *)
ReadCompletion(c) ==
    /\ calls[c].pc = "run"
    /\ RunOf(c).st = "finished"
    /\ calls' = [calls EXCEPT ![c].pc = "verify", ![c].seen = Seen(task[Task(c)])]
    /\ UNCHANGED <<task, replicaVars, mode, runs, sweepVars, request, limitVars>>

(* assessCompletionIntegrity over the document that was read. "unresolved"  *)
(* is an output that reports unfinished work, or a dirty watcher worktree;  *)
(* "quoted" an output that repeats the reason the PATCH route gave when it  *)
(* blocked the task. Only evidence can be repaired by another run.          *)
Assess(s, unresolved, quoted) ==
    LET owned == s.agent \in Working \cup {"done"} \/ (s.agent = "blocked" /\ quoted)
    IN  CASE s.evidence = "none" -> "recoverable"
          [] s.evidence # "none" /\ (unresolved \/ ~owned) -> "other"
          [] OTHER -> IF s.evidence = "good" THEN "pass" ELSE "recoverable"

RequeueCompletion(d, s) ==
    [WithStatus(d, "pending") EXCEPT !.retry = s.retry + 1, !.backoff = TRUE,
        !.beat = "none", !.reasons = "recoverable", !.output = "summary",
        !.notes = @ + 1]
BlockCompletion(d, reasons) ==
    [WithStatus(d, "blocked") EXCEPT !.review = "changes-requested", !.retry = 0,
        !.backoff = FALSE, !.beat = "none", !.output = "summary", !.reasons = reasons]
Complete(d, t) ==
    [d EXCEPT !.agent = "done", !.col = IF t \in Reviewed THEN "review" ELSE "done",
        !.review = IF t \in Reviewed THEN "pending" ELSE "approved",
        !.retry = 0, !.backoff = FALSE, !.beat = "none", !.reasons = "none",
        !.output = "summary"]
UnchangedMutant(s, d) == TRUE   \* no second look
Unchanged(s, d) == Fingerprint(s) = Fingerprint(d)

RejectCompletion(c) ==
    LET t == Task(c)
        s == calls[c].seen
    IN
    /\ calls[c].pc = "verify"
    /\ \E unresolved, quoted \in BOOLEAN :
          LET outcome == Assess(s, unresolved, quoted) IN
          /\ outcome # "pass"
          /\ Write(t, IF outcome = "recoverable" /\ s.retry < MaxRetries
                      THEN RequeueCompletion(task[t], s)
                      ELSE BlockCompletion(task[t], outcome))
    /\ Finish(c)
    /\ UNCHANGED <<mode, runs, sweepVars, request, limitVars>>

(* The finalising transaction reads the document again and completes the    *)
(* task only if nothing the verification looked at has changed.             *)
AcceptCompletion(c) ==
    LET t == Task(c)
        s == calls[c].seen
    IN
    /\ calls[c].pc = "verify"
    /\ \E quoted \in BOOLEAN : Assess(s, FALSE, quoted) = "pass"
    /\ Write(t, IF Unchanged(s, task[t]) THEN Complete(task[t], t)
                ELSE [task[t] EXCEPT !.reasons = "other"])
    /\ Finish(c)
    /\ UNCHANGED <<mode, runs, sweepVars, request, limitVars>>

-----------------------------------------------------------------------------
(* Time and the sweeps.                                                     *)

Owned(t) == \E c \in Calls : Task(c) = t /\ calls[c].pc \in Owning
BackoffEnds(t) ==
    /\ task[t].backoff
    /\ Write(t, [task[t] EXCEPT !.backoff = FALSE])
    /\ UNCHANGED <<calls, replicaVars, mode, runs, sweepVars, request, limitVars>>

(* Five minutes without a heartbeat: nobody holds the task, or the process  *)
(* that does is stalled.                                                    *)
GoesStale(t) ==
    /\ task[t].agent \in Working
    /\ task[t].beat = "fresh"
    /\ IF Owned(t) THEN Fail("stall") ELSE NoFault
    /\ Write(t, [task[t] EXCEPT !.beat = "stale"])
    /\ UNCHANGED <<calls, replicaVars, mode, runs, sweepVars, request>>

(* sweepStaleTasks reads by query and resets by an unconditional batch.     *)
StaleMutant(d) == d.agent = "in-progress" /\ d.beat # "fresh"   \* picked-up forgotten
Stale(d) == d.agent \in Working /\ d.beat # "fresh"
SweepRead(r) ==
    /\ r \in Sweepers /\ mode[r] = "up"
    /\ sweep[r] = {}
    /\ \E t \in Tasks : Stale(task[t])
    /\ sweep' = [sweep EXCEPT ![r] = {t \in Tasks : Stale(task[t])}]
    /\ UNCHANGED <<task, calls, replicaVars, mode, runs, release, request, limitVars>>
SweepCommit(r) ==
    /\ sweep[r] # {}
    /\ task' = [t \in Tasks |-> IF t \in sweep[r]
                  THEN [WithStatus(task[t], "pending") EXCEPT !.beat = "none"]
                  ELSE task[t]]
    /\ sweep' = [sweep EXCEPT ![r] = {}]
    /\ UNCHANGED <<calls, replicaVars, mode, runs, release, request, limitVars>>

(* releaseDependencyClearedDocs: waiting cards whose dependencies cleared,  *)
(* and blocked cards without dependencies whose reasons can be recovered.   *)
WaitingOnDeps(t) ==
    LET d == task[t] IN
    /\ Gated(t)
    /\ DepsResolved(t)
    /\ \/ d.agent = "blocked" /\ d.col = "blocked" /\ d.output = "none"
       \/ d.agent = "awaiting-input" /\ d.col = "blocked"
       \/ d.agent = "awaiting-input" /\ d.col = "todo" /\ d.output = "none"
Recovering(t) ==
    LET d == task[t] IN
    /\ ~Gated(t)
    /\ d.agent = "blocked" /\ d.col = "blocked"
    /\ d.reasons = "recoverable" /\ d.output # "human"
    /\ ~d.backoff /\ d.retry < MaxRetries

ReleaseRead(r, t) ==
    /\ r \in Releasers /\ mode[r] = "up"
    /\ release[r][t] = None
    /\ WaitingOnDeps(t) \/ Recovering(t)
    /\ release' = [release EXCEPT ![r][t] = Snap(task[t])]
    /\ UNCHANGED <<task, calls, replicaVars, mode, runs, sweep, request, limitVars>>

(* The update is unconditional; a comment is added; the released data is    *)
(* dispatched at once, which the backoff of a recovered card refuses.       *)
ReleaseWrite(r, t) ==
    LET snap == release[r][t]
        freed == WithStatus(task[t], "pending")
    IN
    /\ snap # None
    /\ release' = [release EXCEPT ![r][t] = None]
    /\ IF Gated(t)
       THEN /\ Write(t, [freed EXCEPT !.beat = "none", !.notes = @ + 1])
            /\ Start(r, {t}, [u \in Tasks |-> snap], inFlight[r], load[r],
                     deferred[r], {})
       ELSE /\ Write(t, [freed EXCEPT !.beat = "none", !.notes = @ + 1,
                            !.retry = snap.retry + 1, !.backoff = TRUE,
                            !.reasons = "none", !.review = "none"])
            /\ UNCHANGED <<calls, replicaVars>>
    /\ UNCHANGED <<mode, runs, sweep, request, limitVars>>

-----------------------------------------------------------------------------
(* Outside writers.                                                         *)

CanMove(kind) == kind \in Moves /\ moves < MaxMoves
Move(kind) == CanMove(kind) /\ moves' = moves + 1 /\ UNCHANGED faults

(* The task PATCH route computes its update from the document it read; its  *)
(* transaction checks only that the task still exists. "requeue" drags a    *)
(* settled card to To Do, "closeout" is an agent that marks its own work    *)
(* done, which the route rewrites to blocked until it is verified.          *)
PatchRead(t, kind) ==
    /\ request[t] = None
    /\ \/ kind = "requeue" /\ task[t].agent \in {"done", "blocked", "awaiting-input"}
       \/ kind = "closeout" /\ task[t].agent \in Working
    /\ Move(kind)
    /\ request' = [request EXCEPT ![t] = [retry |-> task[t].retry, kind |-> kind]]
    /\ UNCHANGED <<task, calls, replicaVars, mode, runs, sweepVars>>

Requeued(d, retry) ==
    [WithStatus(d, "pending") EXCEPT !.review = "changes-requested", !.output = "none",
        !.beat = "none", !.retry = retry + 1, !.backoff = FALSE, !.evidence = "none",
        !.reasons = "none", !.notes = @ + 1]
ClosedOut(d) ==
    [WithStatus(d, "blocked") EXCEPT !.review = "changes-requested", !.beat = "none",
        !.reasons = "other", !.output = IF @ = "human" THEN "human" ELSE "summary"]

PatchWrite(t) ==
    /\ request[t] # None
    /\ Write(t, IF request[t].kind = "requeue" THEN Requeued(task[t], request[t].retry)
                ELSE ClosedOut(task[t]))
    /\ request' = [request EXCEPT ![t] = None]
    /\ UNCHANGED <<calls, replicaVars, mode, runs, sweepVars, limitVars>>

(* The agent attaches its completion evidence during the run, or replaces   *)
(* it at any time.                                                          *)
SubmitEvidence(t, e) ==
    /\ task[t].agent \in Working
    /\ task[t].evidence # e
    /\ IF task[t].evidence = "none" /\ \E k \in Attempts : runs[t][k].st = "running"
       THEN NoFault
       ELSE Move("evidence")
    /\ Write(t, [task[t] EXCEPT !.evidence = e])
    /\ UNCHANGED <<calls, replicaVars, mode, runs, sweepVars, request>>

(* The reviewing agent approves, or comments and sends the card back.       *)
AwaitsReview(t) == task[t].agent = "done" /\ task[t].col = "review"
ReviewApproves(t) ==
    /\ AwaitsReview(t)
    /\ Move("review")
    /\ Write(t, [task[t] EXCEPT !.col = "done", !.review = "approved"])
    /\ UNCHANGED <<calls, replicaVars, mode, runs, sweepVars, request>>
ReviewRejects(t) ==
    /\ AwaitsReview(t)
    /\ Move("review")
    /\ Write(t, [WithStatus(task[t], "pending") EXCEPT !.review = "changes-requested",
                    !.beat = "none", !.notes = @ + 1])
    /\ UNCHANGED <<calls, replicaVars, mode, runs, sweepVars, request>>

-----------------------------------------------------------------------------
(* Crash, restart and shutdown.                                             *)

Restarted(r) ==
    /\ calls' = [c \in Calls |-> IF Replica(c) = r THEN Free ELSE calls[c]]
    /\ inFlight' = [inFlight EXCEPT ![r] = {}]
    /\ load' = [load EXCEPT ![r] = 0]
    /\ deferred' = [deferred EXCEPT ![r] = [t \in Tasks |-> None]]
    /\ mode' = [mode EXCEPT ![r] = "up"]
    /\ sweep' = [sweep EXCEPT ![r] = {}]
    /\ release' = [release EXCEPT ![r] = [t \in Tasks |-> None]]
    /\ UNCHANGED <<task, runs, request>>

Crash(r) ==
    /\ Restarted(r)
    /\ Fail("crash")

(* SIGTERM stops the listeners and sweeps; the process exits once its       *)
(* in-flight set is empty, or after 30 seconds.                             *)
Shutdown(r) ==
    /\ mode[r] = "up"
    /\ mode' = [mode EXCEPT ![r] = "stopping"]
    /\ Fail("shutdown")
    /\ UNCHANGED <<task, calls, replicaVars, runs, sweepVars, request>>
ShutdownExits(r) ==
    /\ mode[r] = "stopping"
    /\ Restarted(r)
    /\ UNCHANGED limitVars

-----------------------------------------------------------------------------
CallStep(c) ==
    \/ DepsChecked(c) \/ ClaimTask(c) \/ Route(c)
    \/ Post(c) \/ PostConflicts(c) \/ Reconcile(c)
    \/ RunFailed(c) \/ AwaitInput(c) \/ ReadCompletion(c)
    \/ RejectCompletion(c) \/ AcceptCompletion(c)
CallFault(c) ==
    \/ RouteFails(c) \/ NoConfig(c) \/ PostLost(c) \/ PostCut(c)
    \/ ReconcileFails(c) \/ PollFails(c)
ReplicaStep(r) ==
    \/ SweepRead(r) \/ SweepCommit(r)
    \/ Crash(r) \/ Shutdown(r) \/ ShutdownExits(r)
    \/ \E S \in SUBSET Tasks : Notice(r, S)
    \/ \E t \in Tasks : ReleaseRead(r, t) \/ ReleaseWrite(r, t)
TaskStep(t) ==
    \/ BackoffEnds(t) \/ GoesStale(t)
    \/ \E kind \in {"requeue", "closeout"} : PatchRead(t, kind)
    \/ PatchWrite(t)
    \/ \E e \in Evidence \ {"none"} : SubmitEvidence(t, e)
    \/ ReviewApproves(t) \/ ReviewRejects(t)
    \/ \E k \in Attempts : RunEnds(t, k)

Next ==
    \/ \E c \in Calls : CallStep(c) \/ CallFault(c) \/ Beat(c)
    \/ \E r \in Replicas : ReplicaStep(r)
    \/ \E t \in Tasks : TaskStep(t)

Spec == Init /\ [][Next]_vars

(* Scheduling: timers, promises and sweeps go on, Hermes runs end, a patch  *)
(* that was read is written. Evidence, failures and moves are not owed.     *)
Fairness ==
    /\ \A c \in Calls : WF_vars(CallStep(c))
    /\ \A r \in Replicas :
          /\ \A t \in Tasks : WF_vars(Notice(r, {t})) /\ WF_vars(ReleaseWrite(r, t))
          /\ \A t \in Tasks : WF_vars(ReleaseRead(r, t))
          /\ WF_vars(SweepRead(r)) /\ WF_vars(SweepCommit(r)) /\ WF_vars(ShutdownExits(r))
    /\ \A t \in Tasks :
          /\ WF_vars(BackoffEnds(t)) /\ WF_vars(GoesStale(t)) /\ WF_vars(PatchWrite(t))
          /\ \A k \in Attempts : WF_vars(RunEnds(t, k))
FairSpec == Spec /\ Fairness

-----------------------------------------------------------------------------
(* Properties.                                                              *)

TypeOK ==
    /\ task \in [Tasks -> TaskType]
    /\ calls \in [Calls -> CallType]
    /\ inFlight \in [Replicas -> SUBSET Tasks]
    /\ load \in [Replicas -> Nat]
    /\ deferred \in [Replicas -> [Tasks -> Snapshot]]
    /\ mode \in [Replicas -> {"up", "stopping"}]
    /\ runs \in [Tasks -> [Attempts -> RunType]]
    /\ sweep \in [Replicas -> SUBSET Tasks]
    /\ release \in [Replicas -> [Tasks -> Snapshot]]
    /\ request \in [Tasks -> [retry : Attempts, kind : {"none", "requeue", "closeout"}]]
    /\ faults \in 0..MaxFaults
    /\ moves \in 0..MaxMoves

(* claim.ts: two replicas never work on one task at the same time.          *)
Owners(t) == {c \in Calls : Task(c) = t /\ calls[c].pc \in Owning}
OneOwner == \A t \in Tasks : \A b, c \in Owners(t) : b = c

(* failure-classification.ts: at-most-once dispatch. However a post fails,  *)
(* and however often the task is retried, no two runs of it are ever alive, *)
(* as long as nobody asks for a new run of the task.                        *)
Untouched == moves = 0
LiveRuns(t) == {k \in Attempts : runs[t][k].st = "running"}
OneLiveRun == \A t \in Tasks : Untouched => \A j, k \in LiveRuns(t) : j = k

(* perAgentInFlight neither leaks nor frees a dispatch: it is the number of *)
(* calls between their increment and their finally block.                   *)
Counted(r) == {c \in Calls : Replica(c) = r /\ calls[c].pc \in {"claim"} \cup Owning}
LoadCountsCalls == \A r \in Replicas : load[r] = Cardinality(Counted(r))

(* A task is never deferred while its agent has nothing in flight: the next *)
(* finally block will drain it.                                             *)
DeferredIsWoken ==
    \A r \in Replicas : (\E t \in Tasks : deferred[r][t] # None) => load[r] > 0

(* watcher.ts: a task becomes done only on evidence that passed, and the    *)
(* evidence has not been replaced, nor the task requeued, since it did.     *)
DoneIsProven ==
    [][\A t \in Tasks : (task[t].agent # "done" /\ task'[t].agent = "done")
          => task[t].evidence = "good" /\ task[t].agent # "pending"]_vars

(* Every task that is ready, claimed, running or waiting for dependencies   *)
(* that are now done is settled: a crash, a stale claim, a deferred dispatch *)
(* or a gate nobody opens never strands it.                                 *)
Settled(t) ==
    /\ task[t].agent \in {"done", "blocked", "awaiting-input"}
    /\ ~(WaitingOnDeps(t) /\ task[t].output = "none")
TasksSettle == \A t \in Tasks : DepsResolved(t) ~> Settled(t)
=============================================================================
