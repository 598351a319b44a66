--------------------------- MODULE LinkedRunQueue ---------------------------
(***************************************************************************)
(* The run queue of one linked computer (lib/linked-computers/run-queue.ts *)
(* and run-queue-store.ts) together with the actors that touch it: the     *)
(* chat API that enqueues and cancels, the device runtime that claims a    *)
(* job and posts signed receipts, the credential-maintenance lease of the  *)
(* agent host, the owner who rotates, pauses or revokes the device, and    *)
(* the cleanup cron.                                                       *)
(*                                                                         *)
(* Every server operation is one Firestore transaction, so it is one       *)
(* action.  What is not atomic with it is modelled as such: the device     *)
(* request is authenticated, and its clock is read, before the claim       *)
(* transaction runs; receipts are delayed, reordered, duplicated or lost;  *)
(* the answer of a claim may never reach the device.                       *)
(*                                                                         *)
(* A lease token is a fresh random string per claim, hence the attempt     *)
(* number stands for it and NoToken for a deleted one.  Encrypted payload, *)
(* receipt bodies and conversation text are reduced to "is there one".     *)
(***************************************************************************)
EXTENDS Integers, FiniteSets

CONSTANTS
    Jobs,            \* run jobs, one per assistant message
    Agents,          \* Hermes profiles of the device
    AgentOf,         \* the profile a job is for
    Lease,           \* DEFAULT_LEASE_MS
    MaintLease,      \* lease of an agent-host job
    TTL,             \* DEFAULT_TTL_MS
    StartDeadline,   \* LINKED_RUN_QUEUE_START_DEADLINE_MS
    Cap,             \* LINKED_RUN_MAX_CONCURRENCY_PER_AGENT
    ScanLimit,       \* LINKED_RUN_CLAIM_SCAN_LIMIT
    QueueLimit,      \* length at which the device queue is full
    MaxRecoveries,   \* CONVERSATION_RUN_MAX_AUTO_RECOVERIES
    Delay,           \* how far a handler's clock reading may lag its commit
    MaxClock,        \* bound of the model: the clock stops here
    MaxFaults,       \* bound of the model: how many environment faults
    Memory,          \* bound of the model: older attempts the network remembers
    Posts,           \* the kinds of receipt workers post in this instance
    Faults           \* the environment faults of this instance

FaultKinds == {"crash", "loss", "outage", "rotate", "pause", "revoke",
               "unbind", "maintain", "cancel", "resend"}

EventKinds == {"queued", "accepted", "progress", "completed", "failed", "recoverable"}

ASSUME ConstantsAssumption ==
    /\ IsFiniteSet(Jobs)
    /\ AgentOf \in [Jobs -> Agents]
    /\ Lease \in Nat \ {0}
    /\ MaintLease \in Nat
    /\ TTL \in Nat
    /\ StartDeadline \in Nat
    /\ Cap \in Nat
    /\ ScanLimit \in Nat
    /\ QueueLimit \in Nat
    /\ MaxRecoveries \in Nat
    /\ Delay \in Nat /\ Delay < Lease
    /\ MaxClock \in Nat
    /\ MaxFaults \in Nat
    /\ Memory \in Nat
    /\ Posts \subseteq EventKinds
    /\ Faults \subseteq FaultKinds

VARIABLES
    jobs,      \* linked_device_run_jobs
    pos,       \* pendingJobIds: the rank of a job in the queue, 0 if not in it
    ledger,    \* linked_device_run_agent_leases: expiry of a slot, 0 if none
    maint,     \* expiry of the maintenance lease of a profile, 0 if none
    msg,       \* status of the assistant message of the job
    hrun,      \* status of the hermes_runs document of the job
    now,       \* the clock of the server
    dev,       \* device and credential documents, and the credential it holds
    ready,     \* profiles the last heartbeat reported as available
    bound,     \* jobs whose grant, mapping and membership still hold
    req,       \* the device's claim request in flight
    workers,   \* executeJob calls alive on the device
    sent,      \* receipts the device has posted so far
    cleanup,   \* linked_device_cleanup_runs: none, pending or done
    note,      \* the chat request's second write of the message of the job
    faults     \* environment faults so far

queueVars == <<jobs, pos, ledger, maint, msg, hrun, note>>
envVars   == <<dev, ready, bound, cleanup>>
netVars   == <<req, workers, sent>>
vars      == <<queueVars, now, envVars, netVars, faults>>

NoRun     == {"absent", "dispatching", "refused"}
Active    == {"claimed", "running"}
Live      == {"queued"} \cup Active
Terminal  == {"completed", "failed", "cancelled", "expired"}
Unsuccessful == {"failed", "cancelled", "expired", "refused"}
NoToken   == 0
NoReq     == [phase |-> "none"]

Final  == {"completed", "failed", "recoverable"}

-----------------------------------------------------------------------------
NewJob == [status |-> "absent", attempt |-> 0, token |-> NoToken, lease |-> 0,
           ttl |-> 0, start |-> 0, cred |-> 0, accepted |-> FALSE,
           local |-> FALSE, rec |-> 0, payload |-> FALSE, result |-> 0]

Init ==
    /\ jobs = [j \in Jobs |-> NewJob]
    /\ pos = [j \in Jobs |-> 0]
    /\ ledger = [j \in Jobs |-> 0]
    /\ maint = [a \in Agents |-> 0]
    /\ msg = [j \in Jobs |-> "none"]
    /\ hrun = [j \in Jobs |-> "none"]
    /\ now = 0
    /\ dev = [status |-> "active", cred |-> 1, held |-> 1]
    /\ ready = Agents
    /\ bound = Jobs
    /\ req = NoReq
    /\ workers = {}
    /\ sent = {}
    /\ cleanup = "none"
    /\ note = [j \in Jobs |-> "none"]
    /\ faults = 0

(* Operators named ...Mutant are the faulty variants of the operator that   *)
(* follows them; a property that no variant breaks says nothing.            *)

(* Bound of the model: faults and renewals stop one lease before the clock  *)
(* does, so that the lease they leave behind has the time to lapse.         *)
LeaseLapses == now + Lease <= MaxClock

(* The faults of the environment, at most MaxFaults of them.                *)
Fault(kind) ==
    /\ kind \in Faults
    /\ faults < MaxFaults
    /\ LeaseLapses
    /\ faults' = faults + 1

(* A handler reads the clock before its transaction commits.                *)
Clock == {n \in 0..now : n + Delay >= now}

-----------------------------------------------------------------------------
(* The queue document.  Rank keeps the jobs of kept, ordered by class and   *)
(* within a class by the order they had.                                    *)
InQueue == {j \in Jobs : pos[j] > 0}

QueueFullMutant == Cardinality(InQueue) > QueueLimit

QueueFull == Cardinality(InQueue) >= QueueLimit

Rank(kept, class) ==
    [j \in Jobs |->
        IF j \in kept
        THEN 1 + Cardinality({k \in kept : \/ class[k] < class[j]
                                           \/ /\ class[k] = class[j]
                                              /\ pos[k] < pos[j]})
        ELSE 0]

Without(j) == Rank(InQueue \ {j}, [k \in Jobs |-> 0])

ToHead(j) == Rank(InQueue \cup {j}, [k \in Jobs |-> IF k = j THEN 0 ELSE 1])

ToTail(j) == Rank(InQueue \cup {j}, [k \in Jobs |-> IF k = j THEN 1 ELSE 0])

(* The lease ledger of a profile: entries that ran out at n are dropped.    *)
Pruned(agents, n) ==
    [j \in Jobs |-> IF AgentOf[j] \in agents /\ ledger[j] <= n THEN 0 ELSE ledger[j]]

PrunedMaint(agents, n) ==
    [a \in Agents |-> IF a \in agents /\ maint[a] <= n THEN 0 ELSE maint[a]]

Slots(a, n) == {j \in Jobs : AgentOf[j] = a /\ ledger[j] > n}

-----------------------------------------------------------------------------
(* The chat API authorises the dispatch, then enqueues in a transaction.    *)
Dispatch(j) ==
    /\ jobs[j].status = "absent"
    /\ dev.status = "active"
    /\ j \in bound
    /\ jobs' = [jobs EXCEPT ![j].status = "dispatching", ![j].cred = dev.cred]
    /\ UNCHANGED <<pos, ledger, maint, msg, hrun, note, now, envVars, netVars, faults>>

Enqueue(j) ==
    /\ jobs[j].status = "dispatching"
    /\ ~QueueFull
    /\ \E n \in Clock :
          jobs' = [jobs EXCEPT ![j] = [@ EXCEPT !.status = "queued",
                                                !.start = n + StartDeadline,
                                                !.ttl = n + TTL,
                                                !.payload = TRUE]]
    /\ pos' = ToTail(j)
    /\ msg' = [msg EXCEPT ![j] = "queued"]
    /\ hrun' = [hrun EXCEPT ![j] = "queued"]
    /\ note' = [note EXCEPT ![j] = "due"]
    /\ UNCHANGED <<ledger, maint, now, envVars, netVars, faults>>

(* A full queue: the request marks the message failed, and no run exists.   *)
EnqueueRefused(j) ==
    /\ jobs[j].status = "dispatching"
    /\ QueueFull
    /\ jobs' = [jobs EXCEPT ![j].status = "refused"]
    /\ msg' = [msg EXCEPT ![j] = "failed"]
    /\ UNCHANGED <<pos, ledger, maint, hrun, note, now, envVars, netVars, faults>>

(* The chat request that enqueued the run then writes the dispatch fields   *)
(* to the message, status included, outside the transaction and whatever    *)
(* has become of the run; when that write fails, its error handler marks    *)
(* the message failed.  The request may also stop before it.                *)
Annotate(j) ==
    /\ note[j] = "due"
    /\ \E s \in {"queued", "failed"} : msg' = [msg EXCEPT ![j] = s]
    /\ note' = [note EXCEPT ![j] = IF jobs[j].status \in Terminal THEN "late" ELSE "early"]
    /\ UNCHANGED <<jobs, pos, ledger, maint, hrun, now, envVars, netVars, faults>>

(* The transaction run again, the answer of its first commit being lost:    *)
(* only the message of a live job is rewritten.                             *)
EnqueueAgain(j) ==
    /\ Fault("resend")
    /\ jobs[j].status \in Live
    /\ msg' = [msg EXCEPT ![j] = "queued"]
    /\ UNCHANGED <<jobs, pos, ledger, maint, hrun, note, now, envVars, netVars>>

CancelJob(j) ==
    /\ jobs[j].status \in Live
    /\ jobs' = [jobs EXCEPT ![j].status = "cancelled", ![j].payload = FALSE]
    /\ pos' = Without(j)
    /\ IF jobs[j].status \in Active
       THEN \E n \in Clock :
              /\ ledger' = [Pruned({AgentOf[j]}, n) EXCEPT ![j] = 0]
              /\ maint' = PrunedMaint({AgentOf[j]}, n)
       ELSE UNCHANGED <<ledger, maint>>
    /\ msg' = [msg EXCEPT ![j] = "failed"]
    /\ hrun' = [hrun EXCEPT ![j] = "cancelled"]
    /\ UNCHANGED <<note, now, netVars, dev, ready, bound>>

Cancel(j) == Fault("cancel") /\ CancelJob(j) /\ UNCHANGED cleanup

-----------------------------------------------------------------------------
(* Claiming.  BeginClaim is the authenticated request: device active, the   *)
(* credential current.  ClaimJob or ClaimNothing is its transaction.        *)
BusyAgents == {a \in Agents :
                 Cardinality({w \in workers : AgentOf[w.job] = a}) >= Cap}

BeginClaim ==
    /\ req = NoReq
    /\ dev.status = "active"
    /\ dev.held = dev.cred
    /\ req' = [phase |-> "sent", at |-> now, cred |-> dev.cred, full |-> BusyAgents]
    /\ UNCHANGED <<queueVars, now, envVars, workers, sent, faults>>

Scanned == {j \in InQueue : pos[j] <= ScanLimit}

Lapsed(j, n) == jobs[j].status \in Active /\ jobs[j].lease <= n

StartExpired(j, n) ==
    ~jobs[j].accepted /\ ~jobs[j].local /\ jobs[j].start <= n

TimedOut ==
    {j \in Scanned : /\ jobs[j].status \in Live
                     /\ jobs[j].ttl <= req.at \/ StartExpired(j, req.at)}

Claimable ==
    {j \in Scanned \ TimedOut : /\ AgentOf[j] \notin req.full
                                /\ jobs[j].status = "queued" \/ Lapsed(j, req.at)}

(* linkedRunClaimEligibility, with the rotation rules of the claim: a job   *)
(* of an older credential is rebound when device and request agree.         *)
AuthorizationChangedMutant(j) ==   \* an outage counts as lost authority
    dev.status # "active" \/ dev.cred # req.cred \/ j \notin bound \/ AgentOf[j] \notin ready

AuthorizationChanged(j) ==
    dev.status # "active" \/ dev.cred # req.cred \/ j \notin bound

ExecutionUnavailable(j) == ~AuthorizationChanged(j) /\ AgentOf[j] \notin ready

NoSlotMutant1(j) == maint[AgentOf[j]] > req.at      \* the cap is not checked

NoSlotMutant2(j) == Cardinality(Slots(AgentOf[j], req.at)) >= Cap   \* maint is not

NoSlotMutant3(j) ==       \* a slot counts until it is handed back
    \/ maint[AgentOf[j]] > req.at
    \/ Cardinality(Slots(AgentOf[j], 0)) >= Cap

NoSlot(j) ==
    \/ maint[AgentOf[j]] > req.at
    \/ Cardinality(Slots(AgentOf[j], req.at)) >= Cap

Winners == {j \in Claimable : /\ ~AuthorizationChanged(j)
                              /\ ~ExecutionUnavailable(j)
                              /\ ~NoSlot(j)}

(* The claimable jobs examined until one is selected.                       *)
Examined == {j \in Claimable : \A w \in Winners : pos[j] <= pos[w]}

Expiring   == TimedOut \cup {j \in Examined : AuthorizationChanged(j)}
Recovering == {j \in Examined : ExecutionUnavailable(j)}
Requeued   == {j \in Recovering : jobs[j].status # "queued"}

DroppedMutant == Expiring \cup {j \in Scanned : jobs[j].status # "queued"}

Dropped == Expiring \cup {j \in Scanned : jobs[j].status \in Terminal}

(* The ledgers the transaction loads, and the slots it hands back.          *)
LoadedAgents ==
    {AgentOf[j] : j \in {k \in Examined : ~AuthorizationChanged(k) /\ k \notin Recovering}
                        \cup {k \in Expiring \cup Requeued : jobs[k].status \in Active}}

SettledMutant(j) ==       \* the payload outlives the job
    IF j \in Expiring
    THEN [jobs[j] EXCEPT !.status = "expired"]
    ELSE IF j \in Requeued
    THEN [jobs[j] EXCEPT !.status = "queued", !.token = NoToken, !.lease = 0]
    ELSE jobs[j]

Settled(j) ==
    IF j \in Expiring
    THEN [jobs[j] EXCEPT !.status = "expired", !.payload = FALSE]
    ELSE IF j \in Requeued
    THEN [jobs[j] EXCEPT !.status = "queued", !.token = NoToken, !.lease = 0]
    ELSE jobs[j]

ReleasedLedgerMutant ==   \* an expired job keeps its slot
    [j \in Jobs |-> IF j \in Requeued /\ jobs[j].status \in Active
                    THEN 0 ELSE Pruned(LoadedAgents, req.at)[j]]

ReleasedLedger ==
    [j \in Jobs |-> IF j \in Expiring \cup Requeued /\ jobs[j].status \in Active
                    THEN 0 ELSE Pruned(LoadedAgents, req.at)[j]]

SettleDocuments ==
    /\ maint' = PrunedMaint(LoadedAgents, req.at)
    /\ msg' = [j \in Jobs |-> IF j \in Expiring THEN "failed"
                              ELSE IF j \in Requeued THEN "queued" ELSE msg[j]]
    /\ hrun' = [j \in Jobs |-> IF j \in Expiring THEN "expired"
                               ELSE IF j \in Requeued THEN "queued" ELSE hrun[j]]

Granted(j) ==
    [jobs[j] EXCEPT !.status = "claimed", !.attempt = @ + 1, !.token = jobs[j].attempt + 1,
                    !.lease = req.at + Lease, !.cred = req.cred,
                    !.accepted = @ /\ jobs[j].attempt = 0]

ClaimJob(j) ==
    /\ req.phase = "sent"
    /\ j \in Winners /\ j \in Examined
    /\ jobs' = [k \in Jobs |-> IF k = j THEN Granted(j) ELSE Settled(k)]
    /\ ledger' = [ReleasedLedger EXCEPT ![j] = req.at + Lease]
    /\ SettleDocuments
    /\ pos' = Rank(InQueue \ Dropped,
                   [k \in Jobs |-> IF k = j THEN 0
                                   ELSE IF k \in Recovering THEN 2
                                   ELSE IF k \in Scanned THEN 1 ELSE 3])
    /\ req' = [phase |-> "granted", job |-> j, attempt |-> jobs[j].attempt + 1]
    /\ UNCHANGED <<note, now, envVars, workers, sent, faults>>

ClaimNothing ==
    /\ req.phase = "sent"
    /\ Winners = {}
    /\ jobs' = [k \in Jobs |-> Settled(k)]
    /\ ledger' = ReleasedLedger
    /\ SettleDocuments
    /\ pos' = Rank(InQueue \ Dropped,
                   [k \in Jobs |-> IF k \in Recovering THEN 3
                                   ELSE IF k \in Scanned THEN 1 ELSE 2])
    /\ req' = NoReq
    /\ UNCHANGED <<note, now, envVars, workers, sent, faults>>

-----------------------------------------------------------------------------
(* The device runtime, executeJob of runtime-installers/runtime/worker.ts.  *)
(* The identity is read when the job starts and signs all its receipts.     *)
Receipt(w, event) ==
    [job |-> w.job, attempt |-> w.attempt, cred |-> w.cred, event |-> event]

(* Bound of the model: what is older than Memory attempts has been lost.    *)
Recent(traces, w) == {t \in traces : t.job = w.job => t.attempt + Memory >= w.attempt}

StartWorker ==
    /\ req.phase = "granted"
    /\ LET w == [job |-> req.job, attempt |-> req.attempt, cred |-> dev.held] IN
          /\ workers' = Recent(workers, w) \cup {w}
          /\ sent' = Recent(sent, w) \cup {Receipt(w, e) : e \in {"queued"} \cap Posts}
    /\ req' = NoReq
    /\ UNCHANGED <<queueVars, now, envVars, faults>>

LoseGrant ==
    /\ Fault("loss")
    /\ req.phase = "granted"
    /\ req' = NoReq
    /\ UNCHANGED <<queueVars, now, envVars, workers, sent>>

PostAccepted(w) ==
    /\ "accepted" \in Posts
    /\ Receipt(w, "accepted") \notin sent
    /\ sent' = sent \cup {Receipt(w, "accepted")}
    /\ UNCHANGED <<queueVars, now, envVars, req, workers, faults>>

PostProgress(w) ==
    /\ "progress" \in Posts
    /\ Receipt(w, "accepted") \in sent
    /\ Receipt(w, "progress") \notin sent
    /\ sent' = sent \cup {Receipt(w, "progress")}
    /\ UNCHANGED <<queueVars, now, envVars, req, workers, faults>>

(* A worker signs one terminal receipt; success needs a started run.        *)
PostFinal(w, event) ==
    /\ event \in Final \cap Posts
    /\ event = "completed" => Receipt(w, "accepted") \in sent
    /\ sent' = sent \cup {Receipt(w, event)}
    /\ workers' = workers \ {w}
    /\ UNCHANGED <<queueVars, now, envVars, req, faults>>

(* The runtime stops, or the worker gives the job up for reclaim.           *)
CrashWorker(w) ==
    /\ Fault("crash")
    /\ workers' = workers \ {w}
    /\ UNCHANGED <<queueVars, now, envVars, req, sent>>

-----------------------------------------------------------------------------
(* updateLinkedRunFromDevice.  A receipt may be delivered late, again, or   *)
(* never.  A rejected receipt changes nothing and is a stuttering step.     *)
JobCred(j) ==
    IF jobs[j].accepted /\ jobs[j].cred = dev.cred - 1 THEN dev.cred ELSE jobs[j].cred

AdmittedMutant(r) ==      \* any attempt may report
    /\ dev.status = "active" /\ dev.held = dev.cred /\ r.job \in bound
    /\ r.cred = JobCred(r.job)
    /\ jobs[r.job].status \notin NoRun \cup {"completed", "failed", "cancelled"}

Admitted(r) ==
    /\ dev.status = "active" /\ dev.held = dev.cred /\ r.job \in bound
    /\ r.cred = JobCred(r.job)
    /\ r.attempt = jobs[r.job].attempt
    /\ r.attempt = jobs[r.job].token
    /\ jobs[r.job].status \notin NoRun \cup {"completed", "failed", "cancelled"}

FencedMutant(j, n) ==     \* an expired job may still be renewed
    /\ JobCred(j) = dev.cred
    /\ n < jobs[j].ttl
    /\ jobs[j].lease >= n

Fenced(j, n) ==
    /\ JobCred(j) = dev.cred
    /\ jobs[j].status \in Active
    /\ n < jobs[j].ttl
    /\ jobs[j].lease >= n

RecoverableMutant(r) ==   \* an expired job may still be recovered
    /\ r.event = "recoverable"
    /\ jobs[r.job].rec < MaxRecoveries

Recoverable(r) ==
    /\ r.event = "recoverable"
    /\ jobs[r.job].rec < MaxRecoveries
    /\ jobs[r.job].payload

Renewed(r, n) ==
    [jobs[r.job] EXCEPT
        !.status = IF r.event = "queued" THEN "claimed" ELSE "running",
        !.lease = n + Lease,
        !.cred = r.cred,
        !.ttl = IF r.event = "accepted" /\ ~jobs[r.job].accepted THEN n + TTL ELSE @,
        !.accepted = @ \/ r.event = "accepted",
        !.local = @ \/ r.event # "queued"]

Renew(r, n) ==
    /\ r.event \in {"queued", "accepted", "progress"}
    /\ LeaseLapses
    /\ Admitted(r) /\ Fenced(r.job, n)
    /\ jobs' = [jobs EXCEPT ![r.job] = Renewed(r, n)]
    /\ ledger' = [Pruned({AgentOf[r.job]}, n) EXCEPT ![r.job] = n + Lease]
    /\ maint' = PrunedMaint({AgentOf[r.job]}, n)
    /\ msg' = [msg EXCEPT ![r.job] = IF r.event = "queued" THEN "queued" ELSE "pending"]
    /\ hrun' = [hrun EXCEPT ![r.job] = IF r.event = "queued" THEN "queued" ELSE "running"]
    /\ UNCHANGED <<pos, note, now, envVars, netVars, faults>>

OutcomeMutant(r) == r.event

Outcome(r) == IF r.event = "completed" THEN "completed" ELSE "failed"

Complete(r, n) ==
    /\ r.event \in Final /\ ~Recoverable(r)
    /\ Admitted(r) /\ Fenced(r.job, n)
    /\ jobs' = [jobs EXCEPT ![r.job] = [@ EXCEPT !.status = Outcome(r), !.cred = r.cred,
                                                 !.payload = FALSE, !.result = r.attempt]]
    /\ ledger' = [Pruned({AgentOf[r.job]}, n) EXCEPT ![r.job] = 0]
    /\ maint' = PrunedMaint({AgentOf[r.job]}, n)
    /\ msg' = [msg EXCEPT ![r.job] = Outcome(r)]
    /\ hrun' = [hrun EXCEPT ![r.job] = Outcome(r)]
    /\ UNCHANGED <<pos, note, now, envVars, netVars, faults>>

Recovered(r, n) ==
    [jobs[r.job] EXCEPT
        !.status = "queued", !.rec = @ + 1, !.lease = 0, !.token = NoToken,
        !.cred = r.cred, !.accepted = FALSE, !.local = FALSE,
        !.start = IF @ > n + StartDeadline THEN @ ELSE n + StartDeadline,
        !.ttl = IF @ > n + TTL THEN @ ELSE n + TTL]

(* A recoverable failure requeues the job at the head, whatever its lease.  *)
Recover(r, n) ==
    /\ Recoverable(r) /\ Admitted(r)
    /\ jobs' = [jobs EXCEPT ![r.job] = Recovered(r, n)]
    /\ pos' = ToHead(r.job)
    /\ ledger' = [Pruned({AgentOf[r.job]}, n) EXCEPT ![r.job] = 0]
    /\ maint' = PrunedMaint({AgentOf[r.job]}, n)
    /\ msg' = [msg EXCEPT ![r.job] = "queued"]
    /\ hrun' = [hrun EXCEPT ![r.job] = "queued"]
    /\ UNCHANGED <<note, now, envVars, netVars, faults>>

Deliver(r) == \E n \in Clock : Renew(r, n) \/ Complete(r, n) \/ Recover(r, n)

-----------------------------------------------------------------------------
(* The maintenance lease that claimOldestAgentHostJob takes on a profile    *)
(* before a credential restart, and completeAgentHostJob gives back.        *)
Maintain(a) ==
    /\ Fault("maintain")
    /\ dev.status = "active" /\ dev.held = dev.cred
    /\ \A j \in InQueue : AgentOf[j] = a => jobs[j].status \notin Active
    /\ \E n \in Clock :
          /\ maint[a] <= n
          /\ Slots(a, n) = {}
          /\ maint' = [maint EXCEPT ![a] = n + MaintLease]
    /\ UNCHANGED <<jobs, pos, ledger, msg, hrun, note, now, envVars, netVars>>

MaintainDone(a) ==
    /\ maint[a] > 0
    /\ dev.status = "active" /\ dev.held = dev.cred
    /\ maint' = [maint EXCEPT ![a] = 0]
    /\ UNCHANGED <<jobs, pos, ledger, msg, hrun, note, now, envVars, netVars, faults>>

-----------------------------------------------------------------------------
(* Heartbeats, the owner, and the cleanup cron.                             *)
Outage(a) ==
    /\ Fault("outage")
    /\ a \in ready
    /\ ready' = ready \ {a}
    /\ UNCHANGED <<queueVars, now, dev, bound, cleanup, netVars>>

(* A heartbeat is the one request the previous credential still allows; it  *)
(* brings the device the current one.                                       *)
Heartbeat ==
    /\ dev.status = "active"
    /\ dev.held + 1 >= dev.cred
    /\ ready # Agents \/ dev.held # dev.cred
    /\ ready' = Agents
    /\ dev' = [dev EXCEPT !.held = dev.cred]
    /\ UNCHANGED <<queueVars, now, bound, cleanup, netVars, faults>>

Rotate ==
    /\ Fault("rotate")
    /\ dev.status = "active"
    /\ dev' = [dev EXCEPT !.cred = @ + 1]
    /\ UNCHANGED <<queueVars, now, ready, bound, cleanup, netVars>>

Pause ==
    /\ Fault("pause")
    /\ dev.status = "active"
    /\ dev' = [dev EXCEPT !.status = "paused"]
    /\ UNCHANGED <<queueVars, now, ready, bound, cleanup, netVars>>

Resume ==
    /\ dev.status = "paused"
    /\ dev' = [dev EXCEPT !.status = "active"]
    /\ UNCHANGED <<queueVars, now, ready, bound, cleanup, netVars, faults>>

Unbind(j) ==
    /\ Fault("unbind")
    /\ j \in bound
    /\ bound' = bound \ {j}
    /\ UNCHANGED <<queueVars, now, dev, ready, cleanup, netVars>>

Revoke ==
    /\ Fault("revoke")
    /\ dev.status # "revoked"
    /\ dev' = [dev EXCEPT !.status = "revoked"]
    /\ cleanup' = "pending"
    /\ UNCHANGED <<queueVars, now, ready, bound, netVars>>

(* processDeviceCleanupBatch: cancel the live jobs the query returns; when  *)
(* it returns none the run is completed for good.                           *)
CleanupCancel(j) ==
    /\ cleanup = "pending"
    /\ CancelJob(j)
    /\ UNCHANGED <<cleanup, faults>>

CleanupDone ==
    /\ cleanup = "pending"
    /\ \A j \in Jobs : jobs[j].status \notin Live
    /\ cleanup' = "done"
    /\ UNCHANGED <<queueVars, now, dev, ready, bound, netVars, faults>>

(* A claim handler lags the clock by at most Delay.                         *)
Tick ==
    /\ now < MaxClock
    /\ req.phase = "sent" => now < req.at + Delay
    /\ now' = now + 1
    /\ UNCHANGED <<queueVars, envVars, netVars, faults>>

-----------------------------------------------------------------------------
Next ==
    \/ \E j \in Jobs : \/ Dispatch(j) \/ Enqueue(j) \/ EnqueueRefused(j) \/ Annotate(j)
                       \/ EnqueueAgain(j)
                       \/ Cancel(j) \/ CleanupCancel(j) \/ Unbind(j) \/ ClaimJob(j)
    \/ BeginClaim \/ ClaimNothing \/ StartWorker \/ LoseGrant
    \/ \E w \in workers : \/ PostAccepted(w) \/ PostProgress(w) \/ CrashWorker(w)
                          \/ \E event \in Final : PostFinal(w, event)
    \/ \E r \in sent : Deliver(r)
    \/ \E a \in Agents : Maintain(a) \/ MaintainDone(a) \/ Outage(a)
    \/ Heartbeat \/ Rotate \/ Pause \/ Resume \/ Revoke \/ CleanupDone \/ Tick

Spec == Init /\ [][Next]_vars

(***************************************************************************)
(* Fairness.  pollForever claims again and again while it has a slot free,  *)
(* its requests are answered, heartbeats and the cleanup cron recur, and    *)
(* time passes.  Nothing is assumed of a run on the device, which Hermes    *)
(* does not bound in time, nor of receipts: a worker may hang for ever,     *)
(* keeping its slot, and every receipt may be lost.                         *)
(***************************************************************************)
SlotFree == ready # {} /\ Cardinality(workers) < Cap

Fairness ==
    /\ WF_vars(SlotFree /\ BeginClaim)
    /\ WF_vars(ClaimNothing) /\ WF_vars(\E j \in Jobs : ClaimJob(j))
    /\ WF_vars(StartWorker)
    /\ WF_vars(Heartbeat)
    /\ WF_vars(\E j \in Jobs : CleanupCancel(j))
    /\ WF_vars(Tick)

FairSpec == Spec /\ Fairness

-----------------------------------------------------------------------------
JobType ==
    [status : NoRun \cup Live \cup Terminal,
     attempt : Nat, token : Nat, lease : Nat, ttl : Nat, start : Nat, cred : Nat,
     accepted : BOOLEAN, local : BOOLEAN, rec : Nat, payload : BOOLEAN, result : Nat]

WorkerType == [job : Jobs, attempt : Nat, cred : Nat]

ReceiptType == [job : Jobs, attempt : Nat, cred : Nat, event : EventKinds]

RequestType ==
    {NoReq} \cup [phase : {"sent"}, at : Nat, cred : Nat, full : SUBSET Agents]
            \cup [phase : {"granted"}, job : Jobs, attempt : Nat]

(* The type of every variable.                                              *)
TypeOK ==
    /\ jobs \in [Jobs -> JobType]
    /\ pos \in [Jobs -> Nat]
    /\ ledger \in [Jobs -> Nat]
    /\ maint \in [Agents -> Nat]
    /\ msg \in [Jobs -> {"none", "queued", "pending", "completed", "failed"}]
    /\ hrun \in [Jobs -> {"none", "queued", "running"} \cup Terminal]
    /\ now \in Nat
    /\ dev \in [status : {"active", "paused", "revoked"}, cred : Nat, held : Nat]
    /\ ready \subseteq Agents
    /\ bound \subseteq Jobs
    /\ req \in RequestType
    /\ workers \subseteq WorkerType
    /\ sent \subseteq ReceiptType
    /\ cleanup \in {"none", "pending", "done"}
    /\ note \in [Jobs -> {"none", "due", "early", "late"}]
    /\ faults \in Nat

(* The three documents of a run agree on its end: the encrypted payload is  *)
(* kept exactly while the job is live, the hermes_runs row is final exactly *)
(* when the job is, and the message shows that end, unless the chat request *)
(* wrote it a second time after the run had ended.                          *)
DocumentsAgree ==
    \A j \in Jobs :
        /\ jobs[j].payload <=> jobs[j].status \in Live
        /\ jobs[j].status = "completed" <=> hrun[j] = "completed"
        /\ jobs[j].status \in Terminal <=> hrun[j] \in Terminal
        /\ note[j] # "late" =>
              /\ jobs[j].status = "completed" <=> msg[j] = "completed"
              /\ jobs[j].status \in Unsuccessful => msg[j] = "failed"

(* No live job is forgotten: it is in the queue of its device, where a claim *)
(* can find it, and no two jobs share a place.                              *)
LiveJobsQueued ==
    /\ \A j \in Jobs : jobs[j].status \in Live => pos[j] > 0
    /\ \A j, k \in InQueue : pos[j] = pos[k] => j = k

(* The ledger is exactly the live leases: a slot belongs to an active job   *)
(* and has the expiry of its lease, and a job whose lease still runs holds  *)
(* a slot, so no slot leaks and no lease goes uncounted.                    *)
LedgerIsLiveLeases ==
    \A j \in Jobs :
        /\ ledger[j] > 0 => jobs[j].status \in Active /\ ledger[j] = jobs[j].lease
        /\ jobs[j].status \in Active /\ jobs[j].lease > now => ledger[j] = jobs[j].lease

(* While a profile is reserved for a credential restart, no run is active   *)
(* on it: neither the claim nor a late renewal can break the reservation.   *)
MaintenanceAlone ==
    \A j \in Jobs : maint[AgentOf[j]] > now => jobs[j].status \notin Active

(* A stored result is the result of the last attempt that was leased: a     *)
(* worker that lost its lease to a later attempt never completes the job.   *)
ResultOfLastAttempt ==
    \A j \in Jobs :
        jobs[j].status \in {"completed", "failed"} <=> jobs[j].result # 0 /\ jobs[j].result = jobs[j].attempt

LiveLeases(a) == {j \in Jobs : AgentOf[j] = a /\ jobs[j].status \in Active /\ jobs[j].lease > now}

(* "server-enforces ten active Pip leases": a profile never has more live   *)
(* leases than its cap.  A claim only looks at unexpired ledger entries and *)
(* a renewal looks at none, so this rests on the order of the queue: the    *)
(* holder of a lapsed lease is reclaimed, and so fenced, before its slot    *)
(* can go to another job.                                                   *)
LeasesWithinCap == \A a \in Agents : Cardinality(LiveLeases(a)) <= Cap

(* No lease runs out while a claim request, whose clock was read before, is *)
(* under way.                                                               *)
NoLapseUnderway ==
    req.phase = "sent" =>
        \A j \in Jobs : jobs[j].status \in Active /\ jobs[j].lease > req.at => jobs[j].lease > now

(* What is final stays final: whatever arrives late, the job and the        *)
(* hermes_runs row of a terminal job never change again, nor does its       *)
(* message but for the second write of the chat request.                    *)
FinalIsFinal ==
    [][\A j \in Jobs : jobs[j].status \in Terminal =>
          /\ jobs'[j] = jobs[j] /\ hrun'[j] = hrun[j]
          /\ msg'[j] = msg[j] \/ note'[j] # note[j]]_vars

(* A queued job the claim in flight could be given.                         *)
Ready(j) ==
    /\ jobs[j].status = "queued"
    /\ jobs[j].ttl > req.at /\ jobs[j].start > req.at
    /\ dev.status = "active" /\ dev.cred = req.cred /\ j \in bound
    /\ AgentOf[j] \in ready \ req.full
    /\ maint[AgentOf[j]] <= req.at
    /\ Cardinality(Slots(AgentOf[j], req.at)) < Cap

(* A claim that gives nothing out does so only when no queued job of the    *)
(* device could have been given out, as long as the queue is no longer than *)
(* the window that a claim scans.                                           *)
EmptyClaimMeansNoWork ==
    [][req.phase = "sent" /\ req' = NoReq /\ Cardinality(InQueue) <= ScanLimit =>
          ~\E j \in InQueue : Ready(j)]_vars

(* "A saturated profile is skipped fairly so work for another healthy       *)
(* profile can continue": a claim that gives nothing out and leaves the     *)
(* queue as it was, which the next poll will therefore repeat, does so only *)
(* when no queued job of the device could have been given out.              *)
HealthyProfileContinues ==
    [][req.phase = "sent" /\ req' = NoReq /\ pos' = pos => ~\E j \in InQueue : Ready(j)]_vars

(* A live job expires only because a deadline passed or because the device, *)
(* the grant or the mapping was taken away, or the credential rotated since *)
(* the claim that expires it was authenticated.                             *)
ExpiresForCause ==
    [][\A j \in Jobs : jobs[j].status \in Live /\ jobs'[j].status = "expired" =>
          \/ jobs[j].ttl <= now
          \/ jobs[j].start <= now /\ ~jobs[j].accepted
          \/ dev.status # "active"
          \/ j \notin bound
          \/ req.phase = "sent" /\ req.cred # dev.cred]_vars

(* Every run that was enqueued ends, by its TTL at the latest and whatever  *)
(* becomes of its workers and receipts, as long as the runtime again and    *)
(* again has a slot free to poll with.  Not so one that a request           *)
(* authorised before the device was revoked enqueues after the cleanup run  *)
(* has found no live job and was completed; nor, in the model, one whose    *)
(* TTL the clock does not reach.                                            *)
RunsEnd ==
    []<>SlotFree =>
        \A j \in Jobs : jobs[j].status \in Live /\ cleanup # "done" ~>
                           jobs[j].status \in Terminal \/ jobs[j].ttl > MaxClock

(* The queue document stays within its bound: no requeue adds to it.        *)
WithinQueueLimit == Cardinality(InQueue) <= QueueLimit
=============================================================================
