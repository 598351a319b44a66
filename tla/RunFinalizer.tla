---------------------------- MODULE RunFinalizer ----------------------------
(* The turns of a conversation that an agent answers on a Hermes gateway:    *)
(* a request creates a pending message, starts a run and binds it; clients   *)
(* that poll and a cron read the run and write its outcome to the message    *)
(* and to the ledger of runs, and an answer under a standing goal starts the *)
(* next turn.  Nothing here is a transaction: every call to Firestore or to  *)
(* Hermes is a step, and what was read before it may be stale after it.      *)
(* Runs on linked computers are the subject of LinkedRunQueue.               *)
EXTENDS Integers

CONSTANTS
    MaxTurns,    \* bound on the messages an agent is asked for
    MaxSent,     \* bound on those a user asks for, rather than the goal loop
    Users,       \* requests of users that may be under way at once
    Pollers,     \* clients polling the finalize route
    Cron,        \* the reconciler
    Budget,      \* maxTurns of a goal
    Outcomes,    \* how a run may end
    Faults,      \* failures that may happen
    Moves,       \* what users may do
    MaxEvents    \* bound on the failures, stops, pauses, clears and polls

Answers == {"done", "blocked", "continue"}    \* completed, with its GOAL_STATUS

ASSUME FinalizerAssumption ==
    /\ MaxTurns \in Nat \ {0} /\ MaxSent \in Nat /\ Budget \in Nat \ {0} /\ MaxEvents \in Nat
    /\ Cron \notin Pollers /\ Users \cap (Pollers \cup {Cron}) = {}
    /\ Outcomes \subseteq Answers \cup {"failed", "approval"}
    /\ Faults \subseteq {"crash", "unreachable", "forget", "refuse", "unanswered"}
    /\ Moves \subseteq {"send", "set", "paused", "cleared", "stop", "poll"}

VARIABLES
    msg,      \* turn -> its assistant message: status, and whether a run is bound
    hrun,     \* turn -> its run on Hermes
    ledger,   \* turn -> its run document, by the statuses the code tells apart
    age,      \* turn -> 0 fresh, 1 past the grace periods, 2 past the stale timeout
    goal,     \* goalState of the conversation
    call,     \* request, client or cron -> the call it is in
    excused,  \* turns stopped, without a run in time, or started without an answer
    events    \* failures, stops, pauses, clears and polls so far

vars == <<msg, hrun, ledger, age, goal, call, excused, events>>

Turns == 1..MaxTurns
None == 0
Finalizers == Pollers \cup {Cron}
Callers == Users \cup Finalizers

MsgType == [status : {"none", "pending", "waiting_approval", "completed", "failed"},
            run : BOOLEAN]
RunStates == Answers \cup {"none", "accepted", "running", "approval", "failed", "gone"}
LedgerStates == {"none", "active", "waiting", "completed", "failed", "lost", "timed_out"}
GoalType == [status : {"none", "active", "paused", "done", "cleared"},
             used : 0..Budget, last : Turns \cup {None}]
OutcomeType == [msg : {"keep", "waiting_approval", "completed", "failed"},
                ledger : LedgerStates \cup {"keep"}, reply : Answers \cup {"none"}]
CallType == [pc : {"idle", "fetch", "message", "ledger", "goal", "advance", "create",
                   "post", "bind", "last", "stop"},
             turn : Turns \cup {None}, was : BOOLEAN, age : 0..2, out : OutcomeType,
             goal : GoalType]

NoGoal == [status |-> "none", used |-> 0, last |-> None]
Nothing == [msg |-> "keep", ledger |-> "keep", reply |-> "none"]
Idle == [pc |-> "idle", turn |-> None, was |-> FALSE, age |-> 0, out |-> Nothing,
         goal |-> NoGoal]
In(pc, t) == [Idle EXCEPT !.pc = pc, !.turn = t]

Init ==
    /\ msg = [t \in Turns |-> [status |-> "none", run |-> FALSE]]
    /\ hrun = [t \in Turns |-> "none"] /\ ledger = [t \in Turns |-> "none"]
    /\ age = [t \in Turns |-> 0]
    /\ goal = NoGoal
    /\ call = [c \in Callers |-> Idle]
    /\ excused = {} /\ events = 0

(* A failure, or a move of a user other than the messages MaxTurns bounds.   *)
Event(kind) ==
    /\ kind \in Faults \cup Moves
    /\ events < MaxEvents /\ events' = events + 1

Goto(c, pc) == call' = [call EXCEPT ![c].pc = pc]
Leave(c) == call' = [call EXCEPT ![c] = Idle]
SetStatus(t, status) == msg' = [msg EXCEPT ![t].status = status]
Unused(t) == msg[t].status = "none" /\ \A s \in 1..(t - 1) : msg[s].status # "none"

-----------------------------------------------------------------------------
(* Starting a turn.  A user's message and the goal loop take the same steps. *)

CreateTurn(t) ==
    /\ Unused(t)
    /\ msg' = [msg EXCEPT ![t] = [status |-> "pending", run |-> FALSE]]

(* createHermesRun posts the run and then adds its document.  It fails       *)
(* before Hermes accepts ("refuse") or after ("unanswered"): the caller      *)
(* cannot tell, and fails the message.                                       *)
Post(c) ==
    LET t == call[c].turn
    IN  /\ call[c].pc = "post"
        /\ \/ /\ hrun' = [hrun EXCEPT ![t] = "accepted"]
              /\ ledger' = [ledger EXCEPT ![t] = "active"]
              /\ Goto(c, "bind")
              /\ UNCHANGED <<msg, excused, events>>
           \/ /\ Event("refuse")
              /\ SetStatus(t, "failed") /\ Leave(c)
              /\ UNCHANGED <<hrun, ledger, excused>>
           \/ /\ Event("unanswered")
              /\ hrun' = [hrun EXCEPT ![t] = "accepted"]
              /\ SetStatus(t, "failed") /\ Leave(c)
              /\ excused' = excused \cup {t}
              /\ UNCHANGED ledger
        /\ UNCHANGED <<age, goal>>

(* The run id is stored; the goal loop also sets the status again.           *)
Bind(c) ==
    LET t == call[c].turn
    IN  /\ call[c].pc = "bind"
        /\ msg' = [msg EXCEPT ![t].run = TRUE,
                              ![t].status = IF c \in Finalizers THEN "pending" ELSE @]
        /\ IF c \in Finalizers THEN Goto(c, "last") ELSE Leave(c)
        /\ UNCHANGED <<hrun, ledger, age, goal, excused, events>>

-----------------------------------------------------------------------------
(* Users.                                                                    *)

(* A message, which may set the goal.  Resuming one is not modelled.         *)
Send(u, t) ==
    /\ call[u].pc = "idle" /\ t <= MaxSent /\ CreateTurn(t)
    /\ \E kind \in Moves \cap {"send", "set"} :
          goal' = IF kind = "send" THEN goal ELSE [NoGoal EXCEPT !.status = "active"]
    /\ call' = [call EXCEPT ![u] = In("post", t)]
    /\ UNCHANGED <<hrun, ledger, age, excused, events>>

Control ==
    /\ goal.status \notin {"none", "cleared"}
    /\ \E s \in {"paused", "cleared"} : Event(s) /\ goal' = [goal EXCEPT !.status = s]
    /\ UNCHANGED <<msg, hrun, ledger, age, call, excused>>

(* The stop route calls Hermes, and fails the message whatever became of it. *)
CallStop(u, t) ==
    /\ call[u].pc = "idle" /\ msg[t].run /\ Event("stop")
    /\ hrun' = [hrun EXCEPT ![t] = IF @ \in {"running", "approval"} THEN "failed" ELSE @]
    /\ call' = [call EXCEPT ![u] = In("stop", t)]
    /\ excused' = excused \cup {t}
    /\ UNCHANGED <<msg, ledger, age, goal>>
WriteStopped(u) ==
    /\ call[u].pc = "stop"
    /\ SetStatus(call[u].turn, "failed") /\ Leave(u)
    /\ UNCHANGED <<hrun, ledger, age, goal, excused, events>>

(* listMessages fails a message that has no run after the dispatch grace.    *)
List(t) ==
    /\ msg[t].status = "pending" /\ ~msg[t].run /\ age[t] >= 1
    /\ SetStatus(t, "failed") /\ excused' = excused \cup {t}
    /\ UNCHANGED <<hrun, ledger, age, goal, call, events>>

-----------------------------------------------------------------------------
(* finalizeConversationRun.  The cron takes what is pending, or active in    *)
(* the ledger; a client asks about any message with a run.  A message whose  *)
(* run was never bound is refused before anything is read from Hermes.       *)

Candidate(t) == msg[t].run /\ (msg[t].status = "pending" \/ ledger[t] = "active")
Begin(f, t) ==
    /\ call[f].pc = "idle" /\ msg[t].run
    /\ IF f = Cron THEN Candidate(t) /\ UNCHANGED events ELSE Event("poll")
    /\ call' = [call EXCEPT ![f] = [In("fetch", t) EXCEPT !.was = (msg[t].status = "completed"),
                                                          !.age = age[t]]]
    /\ UNCHANGED <<msg, hrun, ledger, age, goal, excused>>

(* What a call decides from what it read, the statuses it will write; and    *)
(* whether there is an answer that may continue the goal.                    *)
Outcome(m, l, reply) == [msg |-> m, ledger |-> l, reply |-> reply]
VerdictMutant(was, old, seen) ==   \* a lookup that comes too early fails the turn
    IF seen = "missing" THEN Outcome("failed", "lost", "none") ELSE Nothing
VerdictMutant2(was, old, seen) ==   \* no stale timeout
    CASE seen = "gone" -> Outcome("failed", "lost", "none")
      [] seen \in Answers -> Outcome("completed", "completed", seen)
      [] seen = "failed" -> Outcome("failed", "failed", "none")
      [] seen = "approval" -> Outcome("waiting_approval", "waiting", "none")
      [] OTHER -> Outcome("keep", "active", "none")
Verdict(was, old, seen) ==
    CASE seen \in {"missing", "gone"} ->
             IF old >= 1 THEN Outcome("failed", "lost", "none") ELSE Nothing
      [] seen \in Answers -> IF was THEN Outcome("keep", "completed", "none")
                                    ELSE Outcome("completed", "completed", seen)
      [] seen = "failed" -> Outcome(IF was THEN "keep" ELSE "failed", "failed", "none")
      [] seen = "approval" ->
             Outcome(IF was THEN "keep" ELSE "waiting_approval", "waiting", "none")
      [] OTHER -> IF old = 2 /\ ~was THEN Outcome("failed", "timed_out", "none")
                                     ELSE Outcome("keep", "active", "none")

(* Hermes does not list a run it has just accepted; one it forgot is gone.   *)
Lookup(t) == IF hrun[t] = "accepted" THEN "missing" ELSE hrun[t]
Fetch(f) ==
    LET a == call[f]
        v == Verdict(a.was, a.age, Lookup(a.turn))
        pc == IF v.msg = "keep" THEN "ledger" ELSE "message"
    IN  /\ a.pc = "fetch"
        /\ \/ /\ call' = [call EXCEPT ![f] =
                              IF v = Nothing THEN Idle ELSE [In(pc, a.turn) EXCEPT !.out = v]]
              /\ UNCHANGED events
           \/ Event("unreachable") /\ Leave(f)
        /\ UNCHANGED <<msg, hrun, ledger, age, goal, excused>>

WriteMessage(f) ==
    /\ call[f].pc = "message"
    /\ SetStatus(call[f].turn, call[f].out.msg)
    /\ Goto(f, "ledger")
    /\ UNCHANGED <<hrun, ledger, age, goal, excused, events>>

WriteLedger(f) ==
    LET out == call[f].out
    IN  /\ call[f].pc = "ledger"
        /\ ledger' = [ledger EXCEPT ![call[f].turn] = out.ledger]
        /\ IF out.reply # "none" THEN Goto(f, "goal") ELSE Leave(f)
        /\ UNCHANGED <<msg, hrun, age, goal, excused, events>>

-----------------------------------------------------------------------------
(* maybeContinueConversationGoal: read the goal, count the turn, and if it   *)
(* goes on start the next one and note that one as the last.                 *)

ReadGoal(f) ==
    /\ call[f].pc = "goal"
    /\ IF goal.status = "active" /\ goal.last # call[f].turn
       THEN call' = [call EXCEPT ![f].pc = "advance", ![f].goal = goal]
       ELSE Leave(f)
    /\ UNCHANGED <<msg, hrun, ledger, age, goal, excused, events>>

AdvancedMutant(g, verdict, t) ==   \* off by one
    [status |-> IF verdict = "continue" /\ g.used + 1 <= Budget THEN "active" ELSE "paused",
     used |-> g.used + 1, last |-> t]
Advanced(g, verdict, t) ==
    [status |-> CASE verdict = "done" -> "done"
                  [] verdict = "blocked" -> "paused"
                  [] OTHER -> IF g.used + 1 >= Budget THEN "paused" ELSE "active",
     used |-> g.used + 1, last |-> t]
Advance(f) ==
    LET g == Advanced(call[f].goal, call[f].out.reply, call[f].turn)
    IN  /\ call[f].pc = "advance"
        /\ goal' = g
        /\ call' = [call EXCEPT ![f] = IF g.status = "active"
                                       THEN [In("create", None) EXCEPT !.goal = g] ELSE Idle]
        /\ UNCHANGED <<msg, hrun, ledger, age, excused, events>>
Continue(f, t) ==
    /\ call[f].pc = "create" /\ CreateTurn(t)
    /\ call' = [call EXCEPT ![f].pc = "post", ![f].turn = t]
    /\ UNCHANGED <<hrun, ledger, age, goal, excused, events>>
(* No agent to ask: here, when MaxTurns is reached.                          *)
GiveUp(f) ==
    /\ call[f].pc = "create" /\ \A t \in Turns : ~Unused(t)
    /\ Leave(f)
    /\ UNCHANGED <<msg, hrun, ledger, age, goal, excused, events>>
WriteGoal(f) ==
    /\ call[f].pc = "last"
    /\ goal' = [call[f].goal EXCEPT !.last = call[f].turn]
    /\ Leave(f)
    /\ UNCHANGED <<msg, hrun, ledger, age, excused, events>>

-----------------------------------------------------------------------------
(* Hermes, the clock, and functions that are cut off.                        *)

HermesStep(t) ==
    /\ \/ hrun[t] \in {"accepted", "approval"} /\ hrun' = [hrun EXCEPT ![t] = "running"]
       \/ hrun[t] = "running" /\ \E s \in Outcomes : hrun' = [hrun EXCEPT ![t] = s]
    /\ UNCHANGED <<msg, ledger, age, goal, call, excused, events>>
Forget(t) ==
    /\ hrun[t] \notin {"none", "gone"} /\ Event("forget")
    /\ hrun' = [hrun EXCEPT ![t] = "gone"]
    /\ UNCHANGED <<msg, ledger, age, goal, call, excused>>
(* The grace periods run from the creation of the message, but the request   *)
(* to Hermes has no time limit: its run may not be there when they are over. *)
Tick(t) ==
    /\ msg[t].status # "none" /\ age[t] < 2
    /\ age' = [age EXCEPT ![t] = @ + 1]
    /\ excused' = IF hrun[t] \in {"none", "accepted"} THEN excused \cup {t} ELSE excused
    /\ UNCHANGED <<msg, hrun, ledger, goal, call, events>>
Crash(c) ==
    /\ call[c].pc # "idle" /\ Event("crash") /\ Leave(c)
    /\ UNCHANGED <<msg, hrun, ledger, age, goal, excused>>

(* What a call does until it returns.                                        *)
Step(c) ==
    \/ Post(c) \/ Bind(c) \/ WriteStopped(c)
    \/ Fetch(c) \/ WriteMessage(c) \/ WriteLedger(c)
    \/ ReadGoal(c) \/ Advance(c) \/ GiveUp(c) \/ WriteGoal(c)
    \/ \E t \in Turns : Continue(c, t)

Next ==
    \/ \E c \in Callers : Step(c) \/ Crash(c)
    \/ \E u \in Users, t \in Turns : Send(u, t) \/ CallStop(u, t)
    \/ Control
    \/ \E f \in Finalizers, t \in Turns : Begin(f, t)
    \/ \E t \in Turns : List(t) \/ HermesStep(t) \/ Forget(t) \/ Tick(t)

Spec == Init /\ [][Next]_vars

(* Functions run on until they are cut off, time passes, and every pass of   *)
(* the cron, which recurs, comes to each of its candidates: there are never  *)
(* more of them here than one pass takes (maxRuns).                          *)
FairSpec ==
    /\ Spec
    /\ \A c \in Callers : WF_vars(Step(c))
    /\ \A t \in Turns : WF_vars(Tick(t)) /\ SF_vars(Begin(Cron, t))

-----------------------------------------------------------------------------
(* Properties.                                                               *)

(* The types of the variables; a goal never uses more turns than its budget. *)
TypeOK ==
    /\ msg \in [Turns -> MsgType]
    /\ hrun \in [Turns -> RunStates]
    /\ ledger \in [Turns -> LedgerStates]
    /\ age \in [Turns -> 0..2]
    /\ goal \in GoalType
    /\ call \in [Callers -> CallType]
    /\ excused \subseteq Turns /\ events \in 0..MaxEvents

(* A turn fails for a reason: its run did not start, failed or was forgotten *)
(* by Hermes, a user stopped it, nobody answered, bound or listed it in      *)
(* time, or it is older than the stale timeout.  Where Hermes lists the run  *)
(* within the grace of its message, a lookup that came too early is none.    *)
FailsForCause ==
    \A t \in Turns : msg[t].status = "failed" =>
        hrun[t] \in {"none", "failed", "gone"} \/ age[t] = 2 \/ t \in excused

(* The cron does not work on a turn for ever: whatever the clients' calls    *)
(* wrote before, and wherever a call was cut off, a bound turn stops being   *)
(* pending and its run document leaves the active statuses.                  *)
PendingConcludes == \A t \in Turns : Candidate(t) ~> ~Candidate(t)

(* hermes-goal.ts:9: "Auto-continue runs until achieved, paused, cleared, or *)
(* turn budget hits".  A goal is not left active with every turn answered    *)
(* and nothing under way.                                                    *)
GoalGoesOn ==
    ~ /\ goal.status = "active"
      /\ \A t \in Turns : msg[t].status \in {"none", "completed"}
      /\ \E t \in Turns : Unused(t)
      /\ \A c \in Callers : call[c].pc = "idle"

=============================================================================
