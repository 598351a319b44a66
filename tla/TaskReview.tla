----------------------------- MODULE TaskReview -----------------------------
(* Review of finished Kanban cards by a reviewing agent: dispatchReview of   *)
(* the agent watcher, driven by a snapshot listener on each replica, beside  *)
(* the human who accepts a card, reopens it or sends it back and the         *)
(* implementer who finishes it again. One reviewing agent is modelled.       *)
EXTENDS Integers, FiniteSets

CONSTANTS
    Cards,          \* tasks with a reviewer
    Replicas,       \* watcher processes
    MaxConcurrent,  \* MAX_CONCURRENT_PER_AGENT
    Faults,         \* failures that may happen
    MaxFaults,      \* bound on the number of failures
    Moves,          \* what a human may do
    MaxMoves        \* bound on the number of human moves

ASSUME ReviewAssumption ==
    /\ IsFiniteSet(Cards)
    /\ MaxConcurrent \in Nat \ {0} /\ MaxFaults \in Nat /\ MaxMoves \in Nat
    /\ Faults \subseteq {"crash", "throw", "config", "error", "read"}
    /\ Moves \subseteq {"accept", "reopen", "rework"}

VARIABLES
    card,      \* the task documents
    calls,     \* replica -> card -> its dispatchReview call
    load,      \* replica -> perAgentInFlight of the reviewer
    news,      \* replica -> cards whose last change its listener has not seen
    reviewed,  \* card -> rounds that a reviewer or a human has accepted
    faults,    \* failures so far
    moves,     \* human moves so far
    astray     \* cards that were moved under a review, or reviewed as they were

vars == <<card, calls, load, news, reviewed, faults, moves, astray>>

(* "round" counts the implementer's completions; it is not in the document.  *)
CardType ==
    [col : {"review", "done", "todo", "blocked"}, agent : {"done", "pending", "blocked"},
     review : {"pending", "in-progress", "approved", "changes-requested"},
     verified : BOOLEAN, backoff : BOOLEAN, round : Nat]
Verdicts == {"approved", "changes"}
Plans == Verdicts \cup {"none", "config", "unverified", "error", "thrown"}
(* A call keeps the round, and whether it was verified, of what it has read.  *)
CallType == [pc : {"idle", "claim", "start", "run", "check", "write"},
             plan : Plans, round : Nat, verified : BOOLEAN]

Idle == [pc |-> "idle", plan |-> "none", round |-> 0, verified |-> FALSE]
Read(pc, d) == [pc |-> pc, plan |-> "none", round |-> d.round, verified |-> d.verified]
Finished(round) == [col |-> "review", agent |-> "done", review |-> "pending",
                    verified |-> TRUE, backoff |-> FALSE, round |-> round]

Init ==
    /\ card = [c \in Cards |-> Finished(1)]
    /\ calls = [r \in Replicas |-> [c \in Cards |-> Idle]]
    /\ load = [r \in Replicas |-> 0]
    /\ news = [r \in Replicas |-> Cards]
    /\ reviewed = [c \in Cards |-> {}]
    /\ faults = 0
    /\ moves = 0
    /\ astray = {}

limitVars == <<faults, moves, astray>>
Fail(kind) ==
    /\ kind \in Faults
    /\ faults < MaxFaults
    /\ faults' = faults + 1
    /\ UNCHANGED <<moves, astray>>
Move(kind) ==
    /\ kind \in Moves
    /\ moves < MaxMoves
    /\ moves' = moves + 1
    /\ UNCHANGED faults

(* The query of the review listener: it reports a document that it matches   *)
(* whenever that document is written, for every write sets updatedAt.        *)
Matches(d) == d.col = "review" /\ d.review = "pending"
Write(c, d) ==
    /\ card' = [card EXCEPT ![c] = d]
    /\ news' = [r \in Replicas |-> IF Matches(d) THEN news[r] \cup {c} ELSE news[r] \ {c}]
Keep == UNCHANGED <<card, news>>
Step(r, c, call) == calls' = [calls EXCEPT ![r][c] = call] /\ UNCHANGED load

(* The finally block.                                                        *)
ReturnMutant(r, c) ==   \* an early return before the finally block
    /\ calls' = [calls EXCEPT ![r][c] = Idle]
    /\ UNCHANGED load
Return(r, c) ==
    /\ calls' = [calls EXCEPT ![r][c] = Idle]
    /\ load' = [load EXCEPT ![r] = IF @ = 0 THEN 0 ELSE @ - 1]

(* The human has accepted the card.                                          *)
Accepted(d) == d.review = "approved" \/ d.col = "done"

-----------------------------------------------------------------------------
(* dispatchReview is called for a changed card. A card in backoff, in flight *)
(* or beyond the cap is dropped: nothing calls again.                        *)
Startable(r, c) ==
    /\ Matches(card[c]) /\ card[c].agent = "done" /\ ~card[c].backoff
    /\ calls[r][c].pc = "idle"
    /\ load[r] < MaxConcurrent
Hear(r, c) ==
    /\ c \in news[r]
    /\ news' = [news EXCEPT ![r] = @ \ {c}]
    /\ IF Startable(r, c)
       THEN /\ calls' = [calls EXCEPT ![r][c] = Read("claim", card[c])]
            /\ load' = [load EXCEPT ![r] = @ + 1]
       ELSE UNCHANGED <<calls, load>>
    /\ UNCHANGED <<card, reviewed, limitVars>>

(* claimReviewTask: a Firestore transaction.                                 *)
ClaimableMutant(d) == d.col = "review"   \* the review status is not compared
Claimable(d) == Matches(d) /\ d.agent = "done"
ClaimReview(r, c) ==
    /\ calls[r][c].pc = "claim"
    /\ IF Claimable(card[c])
       THEN /\ Write(c, [card[c] EXCEPT !.review = "in-progress"])
            /\ Step(r, c, [calls[r][c] EXCEPT !.pc = "start"])
       ELSE Return(r, c) /\ Keep
    /\ UNCHANGED <<reviewed, limitVars>>

(* The reviewer has no enabled dispatch configuration: a comment is added,   *)
(* then the card is written.                                                 *)
NoConfig(r, c) ==
    /\ calls[r][c].pc = "start"
    /\ Step(r, c, [calls[r][c] EXCEPT !.pc = "write", !.plan = "config"])
    /\ Fail("config")
    /\ UNCHANGED <<card, news, reviewed>>

(* What was read is handed to the reviewer only if it was verified.          *)
HandOver(r, c, read) ==
    Step(r, c, IF read.verified THEN [read EXCEPT !.pc = "run"]
               ELSE [read EXCEPT !.pc = "write", !.plan = "unverified"])

(* The live card is read: accepted meanwhile, or handed over as it now is.   *)
ReadLive(r, c) ==
    /\ calls[r][c].pc = "start"
    /\ IF Accepted(card[c]) THEN Return(r, c)
       ELSE HandOver(r, c, Read("start", card[c]))
    /\ UNCHANGED <<card, news, reviewed, limitVars>>

(* The read fails: its error is swallowed, and the review goes on with what  *)
(* the listener reported.                                                    *)
ReadFails(r, c) ==
    /\ calls[r][c].pc = "start"
    /\ HandOver(r, c, calls[r][c])
    /\ astray' = IF calls[r][c].round = card[c].round THEN astray ELSE astray \cup {c}
    /\ "read" \in Faults /\ faults < MaxFaults /\ faults' = faults + 1
    /\ UNCHANGED <<card, news, reviewed, moves>>

RunEnds(r, c) ==
    /\ calls[r][c].pc = "run"
    /\ \E verdict \in Verdicts :
          Step(r, c, [calls[r][c] EXCEPT !.pc = "check", !.plan = verdict])
    /\ UNCHANGED <<card, news, reviewed, limitVars>>

(* The review run fails, or its output states no verdict.                    *)
RunFails(r, c) ==
    /\ calls[r][c].pc = "run"
    /\ Step(r, c, [calls[r][c] EXCEPT !.pc = "check", !.plan = "error"])
    /\ Fail("error")
    /\ UNCHANGED <<card, news, reviewed>>

(* Something threw: the catch block re-reads the card as well.               *)
Throws(r, c) ==
    /\ calls[r][c].pc \in {"start", "run", "write"} /\ calls[r][c].plan # "thrown"
    /\ Step(r, c, [calls[r][c] EXCEPT !.pc = "check", !.plan = "thrown"])
    /\ Fail("throw")
    /\ UNCHANGED <<card, news, reviewed>>

(* The card is read once more: a human acceptance discards the verdict.      *)
CheckAccepted(r, c) ==
    /\ calls[r][c].pc = "check"
    /\ IF Accepted(card[c]) THEN Return(r, c)
       ELSE Step(r, c, [calls[r][c] EXCEPT !.pc = "write"])
    /\ UNCHANGED <<card, news, reviewed, limitVars>>

(* The read fails: its error is swallowed and the verdict applied.           *)
CheckFails(r, c) ==
    /\ calls[r][c].pc = "check"
    /\ Step(r, c, [calls[r][c] EXCEPT !.pc = "write"])
    /\ Fail("throw")
    /\ UNCHANGED <<card, news, reviewed>>

(* A comment has been added; the card is updated without a condition.        *)
RetryMutant(d) == [d EXCEPT !.col = "in_review"]   \* not a column of the board
Retry(d) == [d EXCEPT !.col = "review", !.agent = "done", !.review = "pending",
                      !.backoff = TRUE]
OutcomeMutant(d, plan) ==   \* a rejected card stays in Review
    IF plan = "changes" THEN [d EXCEPT !.review = "changes-requested"]
    ELSE [d EXCEPT !.col = "done", !.review = "approved"]
Outcome(d, plan) ==
    CASE plan = "config" -> [d EXCEPT !.review = "pending", !.backoff = TRUE]
      [] plan = "unverified" -> [d EXCEPT !.col = "blocked", !.agent = "blocked",
                                          !.review = "changes-requested"]
      [] plan \in {"error", "thrown"} -> Retry(d)
      [] plan = "changes" -> [d EXCEPT !.col = "todo", !.agent = "pending",
                                       !.review = "changes-requested", !.backoff = FALSE]
      [] plan = "approved" -> [d EXCEPT !.col = "done", !.review = "approved",
                                        !.verified = FALSE, !.backoff = FALSE]
WriteVerdict(r, c) ==
    LET call == calls[r][c] IN
    /\ call.pc = "write"
    /\ Write(c, Outcome(card[c], call.plan))
    /\ reviewed' = [reviewed EXCEPT ![c] = IF call.plan = "approved" THEN @ \cup {call.round}
                                           ELSE @]
    /\ Return(r, c)
    /\ UNCHANGED limitVars

(* The catch block fails as well: nothing is written.                        *)
WriteFails(r, c) ==
    /\ calls[r][c].pc = "write" /\ calls[r][c].plan = "thrown"
    /\ Return(r, c)
    /\ Fail("throw")
    /\ UNCHANGED <<card, news, reviewed>>

-----------------------------------------------------------------------------
(* reviewRetryAt passes. Nothing is written.                                 *)
BackoffEnds(c) ==
    /\ card[c].backoff
    /\ card' = [card EXCEPT ![c].backoff = FALSE]
    /\ UNCHANGED <<calls, load, news, reviewed, limitVars>>

(* A human moves the card, maybe under a review.                             *)
Reviewing(c) == {r \in Replicas : calls[r][c].pc \notin {"idle", "claim"}}
Moved(c) == astray' = IF Reviewing(c) = {} THEN astray ELSE astray \cup {c}

(* It goes to Done with an explicit approval.                                *)
Verified(d) == IF d.verified THEN "done" ELSE d.agent
Accept(c) ==
    /\ card[c].col = "review"
    /\ Write(c, [card[c] EXCEPT !.col = "done", !.review = "approved",
                                !.agent = Verified(card[c])])
    /\ reviewed' = [reviewed EXCEPT ![c] = @ \cup {card[c].round}]
    /\ Move("accept")
    /\ UNCHANGED <<calls, load, astray>>

(* It goes to Done or Review without one, or its agent is set to done: since *)
(* it has a reviewer it waits for a review, even if one is under way.        *)
Reopen(c) ==
    /\ \E agent \in {Verified(card[c]), "done"} :
          Write(c, [card[c] EXCEPT !.col = "review", !.review = "pending", !.agent = agent])
    /\ Move("reopen")
    /\ Moved(c)
    /\ UNCHANGED <<calls, load, reviewed>>

(* It goes back to To Do: a new attempt.                                     *)
Rework(c) ==
    /\ card[c].agent \in {"done", "blocked"}
    /\ Write(c, [card[c] EXCEPT !.col = "todo", !.agent = "pending", !.verified = FALSE,
                    !.review = "changes-requested", !.backoff = FALSE])
    /\ Move("rework")
    /\ Moved(c)
    /\ UNCHANGED <<calls, load, reviewed>>

(* The implementer's run passes verification again.                          *)
Redo(c) ==
    /\ card[c].agent = "pending"
    /\ card[c].round <= MaxMoves + MaxFaults
    /\ Write(c, Finished(card[c].round + 1))
    /\ UNCHANGED <<calls, load, reviewed, limitVars>>

(* A replica restarts; its new listener reports every card it matches.       *)
Crash(r) ==
    /\ calls' = [calls EXCEPT ![r] = [c \in Cards |-> Idle]]
    /\ load' = [load EXCEPT ![r] = 0]
    /\ news' = [news EXCEPT ![r] = {c \in Cards : Matches(card[c])}]
    /\ Fail("crash")
    /\ UNCHANGED <<card, reviewed>>

ReviewStep(r, c) ==
    \/ ClaimReview(r, c) \/ ReadLive(r, c) \/ RunEnds(r, c)
    \/ CheckAccepted(r, c) \/ WriteVerdict(r, c)

Next ==
    \/ \E r \in Replicas, c \in Cards :
          Hear(r, c) \/ ReviewStep(r, c) \/ NoConfig(r, c) \/ RunFails(r, c)
          \/ Throws(r, c) \/ ReadFails(r, c) \/ CheckFails(r, c) \/ WriteFails(r, c)
    \/ \E c \in Cards : BackoffEnds(c) \/ Accept(c) \/ Reopen(c) \/ Rework(c) \/ Redo(c)
    \/ \E r \in Replicas : Crash(r)

Spec == Init /\ [][Next]_vars

(* Listeners, promises and clocks go on; humans and failures owe nothing.    *)
Fairness ==
    /\ \A r \in Replicas, c \in Cards : WF_vars(Hear(r, c)) /\ WF_vars(ReviewStep(r, c))
    /\ \A c \in Cards : WF_vars(BackoffEnds(c))
FairSpec == Spec /\ Fairness

-----------------------------------------------------------------------------
TypeOK ==
    /\ card \in [Cards -> CardType]
    /\ calls \in [Replicas -> [Cards -> CallType]]
    /\ load \in [Replicas -> Nat]
    /\ news \in [Replicas -> SUBSET Cards]
    /\ reviewed \in [Cards -> SUBSET Nat]
    /\ faults \in 0..MaxFaults
    /\ moves \in 0..MaxMoves
    /\ astray \subseteq Cards

(* claim.ts: one review of a card at a time, on all the replicas together,   *)
(* so that two verdicts never compete for it, unless it was moved while it   *)
(* was reviewed, or a review went on from a round that is over.              *)
OneReviewer == \A c \in Cards \ astray : \A q, r \in Reviewing(c) : q = r

(* perAgentInFlight counts the reviews in progress, whatever ends them; a    *)
(* leak would shut the reviewer and its own tasks out for good.              *)
ReviewsCounted ==
    \A r \in Replicas : load[r] = Cardinality({c \in Cards : calls[r][c].pc # "idle"})

(* watcher.ts: a card that is approved was approved in its present state,    *)
(* by a review of that very completion or by the human, under the same       *)
(* conditions (the verdict is applied all the same).                         *)
ApprovedAsIs ==
    \A c \in Cards \ astray : card[c].review = "approved" => card[c].round \in reviewed[c]

(* watcher.ts: as long as nothing fails, every card in Review leaves it,     *)
(* whichever replica hears of it first and however often it is redone.       *)
Waiting(c) == card[c].agent = "done" /\ card[c].col = "review"
ReviewConcludes == \A c \in Cards : Waiting(c) ~> (~Waiting(c) \/ faults > 0)
=============================================================================
