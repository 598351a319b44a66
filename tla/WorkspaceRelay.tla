--------------------------- MODULE WorkspaceRelay ---------------------------
(* The workspace relay: agents on different linked computers send each other *)
(* messages through envelopes in Firestore and one queue document per        *)
(* device.  The courier of each device posts its agents' outbox, claims one  *)
(* envelope per poll, delivers it to the local Hermes, posts the reply and   *)
(* completes the envelope; the sender's courier claims the reply.            *)
EXTENDS Integers, FiniteSets

CONSTANTS
    Messages,    \* outbox items, each with its envelope
    NoMessage,
    Devices,     \* linked computers, each with one courier
    From, To,    \* message -> device
    Lease,       \* RELAY_LEASE_MS
    TTL,         \* RELAY_TTL_MS
    QueueLimit,  \* QUEUE_LIMIT
    MaxClock,    \* bound on the clock
    Faults,      \* kinds of failures that may happen
    MaxFaults    \* bound on the number of failures

ASSUME RelayAssumption ==
    /\ IsFiniteSet(Messages) /\ NoMessage \notin Messages
    /\ From \in [Messages -> Devices] /\ To \in [Messages -> Devices]
    /\ Lease \in Nat \ {0} /\ TTL \in Nat \ {0} /\ QueueLimit \in Nat \ {0}
    /\ MaxClock \in Nat /\ MaxFaults \in Nat
    /\ Faults \subseteq {"timeout", "lost", "rpc", "crash", "refuse"}

VARIABLES
    env,      \* the envelopes
    queue,    \* device -> pendingEnvelopeIds: the place of a message, 0 if not in it
    courier,  \* device -> what its courier is doing
    posted,   \* device -> postedIds of its courier's memory
    told,     \* message -> what its sender's agent has been told
    late,     \* requests that timed out and may still arrive
    now,
    faults    \* failures so far

vars == <<env, queue, courier, posted, told, late, now, faults>>

Final == {"delivered", "failed", "expired"}
Says == {"answer", "error"}
(* "attempt" stands for the lease token too: each inbound claim draws a new  *)
(* one.  "by" is the attempt that replied; it is not in the document.        *)
Envelope ==
    [status : {"none", "queued", "claimed", "replied"} \cup Final,
     attempt : Nat, lease : Nat, ttl : Nat,
     reply : {"none", "queued", "claimed", "delivered"}, says : Says \cup {"none"}, by : Nat]
NoEnvelope == [status |-> "none", attempt |-> 0, lease |-> 0, ttl |-> 0,
               reply |-> "none", says |-> "none", by |-> 0]
Courier == [pc : {"idle", "deliver", "reply", "complete", "tell"}, failed : BOOLEAN,
            msg : Messages \cup {NoMessage}, attempt : Nat, says : Says \cup {"none"}]
Idle == [pc |-> "idle", failed |-> FALSE, msg |-> NoMessage, attempt |-> 0, says |-> "none"]
Request == [msg : Messages, attempt : Nat, what : Says \cup {"delivered", "failed"}]

Init ==
    /\ env = [m \in Messages |-> NoEnvelope]
    /\ queue = [d \in Devices |-> [m \in Messages |-> 0]]
    /\ courier = [d \in Devices |-> Idle]
    /\ posted = [d \in Devices |-> {}]
    /\ told = [m \in Messages |-> {}]
    /\ late = {}
    /\ now = 0
    /\ faults = 0

Fail(kind) ==
    /\ kind \in Faults
    /\ faults < MaxFaults
    /\ faults' = faults + 1

(* A queue holds an id at most once: every change of it that adds one        *)
(* filters the ids it had.  Ordered gives the messages of kept their places, *)
(* by class and within a class in the order they had.                        *)
InQueue(d) == {m \in Messages : queue[d][m] > 0}
Ordered(d, kept, class) ==
    [m \in Messages |->
        IF m \in kept
        THEN 1 + Cardinality({k \in kept : \/ class[k] < class[m]
                                           \/ /\ class[k] = class[m]
                                              /\ queue[d][k] < queue[d][m]})
        ELSE 0]
Without(d, m) == Ordered(d, InQueue(d) \ {m}, [k \in Messages |-> 0])
ToTail(d, m) == Ordered(d, InQueue(d) \cup {m}, [k \in Messages |-> IF k = m THEN 1 ELSE 0])
Tell(m, what) == told' = [told EXCEPT ![m] = @ \cup {what}]

-----------------------------------------------------------------------------
(* The sender's courier drains the outbox of its Hermes, which keeps an item *)
(* until its agent has been told how it ended.  MaxClock bounds the posts.   *)

Undrained(m) ==
    /\ courier[From[m]].pc = "idle"
    /\ m \notin posted[From[m]]
    /\ told[m] = {}
    /\ now + TTL <= MaxClock
Remember(m) == posted' = [posted EXCEPT ![From[m]] = @ \cup {m}]

(* enqueueRelayEnvelope: one envelope per outbox item, however often it is   *)
(* posted.                                                                   *)
CreateEnvelope(m) ==
    /\ env' = [env EXCEPT ![m].status = "queued", ![m].ttl = now + TTL]
    /\ queue' = [queue EXCEPT ![To[m]] = ToTail(To[m], m)]
Full(m) == Cardinality(InQueue(To[m])) >= QueueLimit
Enqueue(m) ==
    /\ Undrained(m)
    /\ IF env[m].status = "none" THEN ~Full(m) /\ CreateEnvelope(m)
                                 ELSE UNCHANGED <<env, queue>>
    /\ Remember(m)
    /\ UNCHANGED <<courier, told, late, now, faults>>

(* The queue of the target is full: the agent is told of the error.          *)
EnqueueRefused(m) ==
    /\ Undrained(m)
    /\ env[m].status = "none" /\ Full(m)
    /\ Tell(m, "error")
    /\ UNCHANGED <<env, queue, courier, posted, late, now, faults>>

(* The agents share no active room, or a grant was withdrawn.                *)
NotTeammates(m) ==
    /\ Undrained(m)
    /\ Tell(m, "error")
    /\ Fail("refuse")
    /\ UNCHANGED <<env, queue, courier, posted, late, now>>

(* The answer does not come: the agent is told of an error, although the     *)
(* envelope may have been created.                                           *)
EnqueueLost(m) ==
    /\ Undrained(m)
    /\ \/ UNCHANGED <<env, queue>>
       \/ env[m].status = "none" /\ ~Full(m) /\ CreateEnvelope(m)
    /\ Tell(m, "error")
    /\ Fail("lost")
    /\ UNCHANGED <<courier, posted, late, now>>

-----------------------------------------------------------------------------
(* claimOldestRelayEnvelope: one transaction over the whole queue.  It       *)
(* updates an envelope before it reads the next, which Firestore rejects.    *)

Gone(m) == env[m].status \in Final /\ env[m].reply \notin {"queued", "claimed"}
LapsedMutant(m) == env[m].status = "queued" /\ env[m].ttl <= now   \* a lease keeps it
Lapsed(m) == env[m].status \notin Final /\ env[m].ttl <= now
Free(m) == env[m].lease <= now
InboundClaimable(m, d) ==
    /\ To[m] = d
    /\ env[m].status = "queued" \/ (env[m].status = "claimed" /\ Free(m))
ReplyClaimable(m, d) ==
    /\ From[m] = d
    /\ env[m].reply = "queued" \/ (env[m].reply = "claimed" /\ Free(m))
Claimable(m, d) == InboundClaimable(m, d) \/ ReplyClaimable(m, d)

Kept(d) == {m \in InQueue(d) : ~Gone(m) /\ ~Lapsed(m)}
Oldest(d) ==
    {m \in Kept(d) : /\ Claimable(m, d)
                     /\ \A k \in Kept(d) : Claimable(k, d) => queue[d][m] <= queue[d][k]}

(* takeLease gives an inbound envelope a new token and expiry; a reply keeps *)
(* the expiry of the receiver's lease.                                       *)
ClaimedMutant(m, d) ==   \* the role of the claim is taken for its status
    [env[m] EXCEPT !.status = IF InboundClaimable(m, d) THEN "inbound" ELSE "reply",
                   !.attempt = @ + 1, !.lease = now + Lease]
Claimed(m, d) ==
    IF InboundClaimable(m, d)
    THEN [env[m] EXCEPT !.status = "claimed", !.attempt = @ + 1, !.lease = now + Lease]
    ELSE [env[m] EXCEPT !.reply = "claimed"]
Updated(d) == {m \in InQueue(d) : Lapsed(m)} \cup Oldest(d)
Rejected(d) == \E m \in Updated(d), k \in InQueue(d) : queue[d][m] < queue[d][k]
SweepAndClaim(d, chosen) ==
    /\ ~Rejected(d)
    /\ env' = [m \in Messages |->
          IF m \in chosen THEN Claimed(m, d)
          ELSE IF m \in InQueue(d) /\ Lapsed(m) THEN [env[m] EXCEPT !.status = "expired"]
          ELSE env[m]]
    /\ queue' = [queue EXCEPT ![d] =
          Ordered(d, Kept(d), [m \in Messages |-> IF m \in chosen THEN 0 ELSE 1])]

(* The courier goes on with an inbound envelope or with a reply.             *)
Assigned(m, d) ==
    IF InboundClaimable(m, d)
    THEN [Idle EXCEPT !.pc = "deliver", !.msg = m, !.attempt = env[m].attempt + 1]
    ELSE [Idle EXCEPT !.pc = "tell", !.msg = m, !.says = env[m].says]
Claim(d) ==
    /\ courier[d].pc = "idle"
    /\ SweepAndClaim(d, Oldest(d))
    /\ courier' = [courier EXCEPT ![d] =
          IF Oldest(d) = {} THEN Idle ELSE Assigned(CHOOSE m \in Oldest(d) : TRUE, d)]
    /\ UNCHANGED <<posted, told, late, now, faults>>
(* The answer does not come.                                                 *)
ClaimLost(d) ==
    /\ courier[d].pc = "idle"
    /\ Oldest(d) # {}
    /\ SweepAndClaim(d, Oldest(d))
    /\ Fail("lost")
    /\ UNCHANGED <<courier, posted, told, late, now>>

-----------------------------------------------------------------------------
(* The requests of the receiver's courier.                                   *)

LiveLeaseMutant(m, attempt) ==   \* the token is not compared
    /\ env[m].status \in {"claimed", "replied"}
    /\ env[m].lease >= now
LiveLease(m, attempt) ==
    /\ env[m].status \in {"claimed", "replied"}
    /\ env[m].attempt = attempt
    /\ env[m].lease >= now

(* replyRelayEnvelope: a reply that nobody has claimed is replaced.          *)
RequeuedMutant(m) == [queue EXCEPT ![To[m]] = ToTail(To[m], m)]   \* wrong queue
Requeued(m) == [queue EXCEPT ![From[m]] = ToTail(From[m], m)]
MayReply(m, attempt) ==
    /\ env[m].ttl > now
    /\ LiveLease(m, attempt)
    /\ env[m].reply \in {"none", "queued"}
HandleReply(q) ==
    IF MayReply(q.msg, q.attempt)
    THEN /\ env' = [env EXCEPT ![q.msg].status = "replied", ![q.msg].reply = "queued",
                               ![q.msg].says = q.what, ![q.msg].by = q.attempt]
         /\ queue' = Requeued(q.msg)
    ELSE UNCHANGED <<env, queue>>

(* completeRelayEnvelope: a reply that is still queued counts as delivered.  *)
MayCompleteMutant(m, attempt) ==   \* a final envelope is completed again
    /\ env[m].status # "none"
    /\ env[m].attempt = attempt /\ env[m].lease >= now
MayComplete(m, attempt) ==
    /\ env[m].ttl > now \/ env[m].status = "replied"
    /\ LiveLease(m, attempt)
HandleComplete(q) ==
    IF MayComplete(q.msg, q.attempt)
    THEN /\ env' = [env EXCEPT ![q.msg].status = q.what,
                       ![q.msg].reply = IF @ = "none" THEN "none" ELSE "delivered"]
         /\ queue' = [queue EXCEPT ![To[q.msg]] = Without(To[q.msg], q.msg)]
    ELSE UNCHANGED <<env, queue>>
Handle(q) == IF q.what \in Says THEN HandleReply(q) ELSE HandleComplete(q)

RequestOf(d) ==
    LET c == courier[d] IN
    [msg |-> c.msg, attempt |-> c.attempt,
     what |-> CASE c.pc = "reply" -> c.says
                [] c.pc = "complete" -> IF c.failed THEN "failed" ELSE "delivered"]

(* deliverClaimed: deliver, reply, complete; an exception on the way leads   *)
(* to an error reply and a failed completion, whose exceptions are ignored.  *)
(* The HTTP status of an answer is not looked at.                            *)
NextPost(d) ==
    IF courier[d].pc = "reply" THEN [courier[d] EXCEPT !.pc = "complete"] ELSE Idle
AfterException(d) ==
    IF courier[d].failed THEN NextPost(d)
    ELSE [courier[d] EXCEPT !.pc = "reply", !.failed = TRUE, !.says = "error"]
Posting(d) == courier[d].pc \in {"reply", "complete"}

Deliver(d) ==
    /\ courier[d].pc = "deliver"
    /\ courier' = [courier EXCEPT ![d].pc = "reply", ![d].says = "answer"]
    /\ UNCHANGED <<env, queue, posted, told, late, now, faults>>
DeliverFails(d) ==
    /\ courier[d].pc = "deliver"
    /\ courier' = [courier EXCEPT ![d] = AfterException(d)]
    /\ Fail("rpc")
    /\ UNCHANGED <<env, queue, posted, told, late, now>>
Post(d) ==
    /\ Posting(d)
    /\ Handle(RequestOf(d))
    /\ courier' = [courier EXCEPT ![d] = NextPost(d)]
    /\ UNCHANGED <<posted, told, late, now, faults>>
PostTimesOut(d) ==
    /\ Posting(d)
    /\ late' = late \cup {RequestOf(d)}
    /\ courier' = [courier EXCEPT ![d] = AfterException(d)]
    /\ Fail("timeout")
    /\ UNCHANGED <<env, queue, posted, told, now>>
LateArrives(q) ==
    /\ Handle(q)
    /\ late' = late \ {q}
    /\ UNCHANGED <<courier, posted, told, now, faults>>

(* The sender's courier hands a claimed reply to its Hermes; nothing records *)
(* that it did.  An error reply does not name the outbox item: Hermes is     *)
(* given the id of the envelope instead, which is none of its items.         *)
TellReply(d) ==
    /\ courier[d].pc = "tell"
    /\ IF courier[d].says = "answer" THEN Tell(courier[d].msg, "answer") ELSE UNCHANGED told
    /\ courier' = [courier EXCEPT ![d] = Idle]
    /\ UNCHANGED <<env, queue, posted, late, now, faults>>
TellFails(d) ==
    /\ courier[d].pc = "tell"
    /\ courier' = [courier EXCEPT ![d] = Idle]
    /\ Fail("rpc")
    /\ UNCHANGED <<env, queue, posted, told, late, now>>

(* The runtime stops and starts again; a request it sent may still arrive.   *)
Crash(d) ==
    /\ courier' = [courier EXCEPT ![d] = Idle]
    /\ posted' = [posted EXCEPT ![d] = {}]
    /\ late' = IF Posting(d) THEN late \cup {RequestOf(d)} ELSE late
    /\ Fail("crash")
    /\ UNCHANGED <<env, queue, told, now>>

Tick ==
    /\ now < MaxClock
    /\ now' = now + 1
    /\ UNCHANGED <<env, queue, courier, posted, told, late, faults>>

-----------------------------------------------------------------------------
CourierStep(d) == Deliver(d) \/ Post(d) \/ TellReply(d)
Next ==
    \/ \E m \in Messages : Enqueue(m) \/ EnqueueRefused(m) \/ NotTeammates(m) \/ EnqueueLost(m)
    \/ \E d \in Devices : \/ Claim(d) \/ ClaimLost(d) \/ CourierStep(d) \/ DeliverFails(d)
                          \/ PostTimesOut(d) \/ TellFails(d) \/ Crash(d)
    \/ \E q \in late : LateArrives(q)
    \/ Tick

Spec == Init /\ [][Next]_vars

(* Couriers poll and go on with what they do, and time passes.  Nothing is   *)
(* owed by the outbox of Hermes or by a request that timed out.              *)
Fairness ==
    /\ \A d \in Devices : WF_vars(Claim(d)) /\ WF_vars(CourierStep(d))
    /\ WF_vars(Tick)
FairSpec == Spec /\ Fairness

-----------------------------------------------------------------------------
TypeOK ==
    /\ env \in [Messages -> Envelope]
    /\ queue \in [Devices -> [Messages -> Nat]]
    /\ courier \in [Devices -> Courier]
    /\ posted \in [Devices -> SUBSET Messages]
    /\ told \in [Messages -> SUBSET Says]
    /\ late \subseteq Request
    /\ now \in Nat
    /\ faults \in Nat

(* No envelope is forgotten: one that waits for its receiver, or was left    *)
(* half done by it, is in the receiver's queue, and a reply that can still   *)
(* reach the sender is in the sender's; no two share a place in a queue.     *)
EnvelopesQueued ==
    /\ \A m \in Messages :
          /\ env[m].status \in {"queued", "claimed"} => m \in InQueue(To[m])
          /\ env[m].status = "replied" => m \in InQueue(From[m])
    /\ \A d \in Devices : \A m, k \in InQueue(d) : queue[d][m] = queue[d][k] => m = k

(* A stored reply is the one of the last attempt that was leased: a courier  *)
(* that restarted, or whose request was delayed, cannot answer for another.  *)
ReplyOfLastAttempt ==
    \A m \in Messages : env[m].reply # "none" => env[m].by = env[m].attempt

(* An envelope that was delivered, failed or expired stays as it is, whatever *)
(* arrives late.                                                             *)
FinalIsFinal ==
    [][\A m \in Messages : env[m].status \in Final => env'[m].status = env[m].status]_vars

(* Every envelope ends, at the latest when its time is over, as long as its  *)
(* receiver's courier polls and Firestore takes the claims on its queue.     *)
EnvelopesEnd ==
    \A m \in Messages :
        env[m].status \in {"queued", "claimed", "replied"}
            ~> (env[m].status \in Final \/ Rejected(To[m]))
=============================================================================
