# Verification of the platform's run queues, workers and finalizers

This directory holds the TLA+ development kept beside the platform: what the
repository's concurrent parts are, which of them are modelled, what TLC checks of
the models on small instances, and what TLAPS proves of them for every instance.

Paths are relative to the repository root (`src/` here).

## 1. The system

The repository is a Next.js application on Firestore with a set of workers around
it. Users and agents talk in *conversations*. An assistant message is produced by
a *run*: a Hermes process on a VPS, in the cloud, or on a user's own *linked
computer*. Runs on a linked computer go through a queue in Firestore that the
computer polls; all others are started by the request and finished by whoever
polls them. Agents on linked computers write to each other through a *relay*.
Kanban tasks are run, and reviewed, by an *agent watcher* that claims them and
starts runs. Around this stand crons and workers of the usual kind: webhooks,
email sequences, broadcasts, social publishing, routines.

| Component | State | Operations | Talks to | What is hard | What makes it correct |
|---|---|---|---|---|---|
| **Linked run queue** `lib/linked-computers/run-queue.ts`, `run-queue-store.ts` | job documents, one queue document per device (`pendingJobIds`), one lease ledger per profile, the message, the `hermes_runs` row | `enqueueLinkedRun`, `claimOldestLinkedRun`, `updateLinkedRunFromDevice`, `cancelLinkedRun` | chat API, device runtime, maintenance leases, cleanup cron | leases that lapse, late and repeated receipts, passing expiry and requeue of other jobs in a claim, several documents in step | no job lost; only the last attempt's result counts; what is final stays final; slots = live leases; cap respected; every run ends |
| **Device runtime** `runtime-installers/runtime/worker.ts`, `cli.ts` | workers running, identity | claim loop, `executeJob`, receipts, heartbeat | queue (HTTP), Hermes | stops at any point, answers get lost, timers race with terminal receipts | posts only for its own attempt; admits no more than its cap |
| **Devices and credentials** `lib/linked-computers/store.ts`, `device-auth.ts` | device, credential, grants, mappings, cleanup runs | heartbeat, rotate, pause, resume, revoke, cleanup batches | all of the above | a credential changes under requests in flight; cleanup races with dispatches | a rotation strands no run; a revoked device keeps no payload |
| **Agent-host jobs** `lib/linked-computers/agent-job-store.ts` | job documents, maintenance lease of a profile | enqueue, claim, complete, expire | run queue ledger, device | a restart and a run must exclude each other | no run active on a reserved profile |
| **Chat dispatch** `app/api/v1/conversations/[convId]/messages/route.ts` | message | authorise, enqueue, annotate the message | run queue | two writes that are not one transaction | the message agrees with the run, whichever write comes last |
| **Run finalizer** `lib/conversations/run-finalizer.ts`, `lib/chat/hermes-goal*.ts` | message, `hermes_runs` row, goal of the conversation | start, finalize, stop, reconcile, continue the goal | Hermes | no transaction anywhere; clients and a cron act at once on what they read before asking Hermes | a turn fails only for a cause; the cron gets done with it; the goal loop goes on, and stays within its budget |
| **Agent watcher** `services/agent-watcher/src` | task documents, in-memory in-flight set, per-agent counter, deferred tasks | dispatch, claim, post, verify, requeue, sweep, shutdown | Firestore, Hermes | replicas, reads before awaits, unconditional writes, retry counters read early | one owner per task; at most one live run; evidence before done; nothing stranded |
| **Task review** `services/agent-watcher/src` (`dispatchReview`) | the review status of a card, the same counter | hear, claim, run, write the verdict; accept, send back | Firestore, Hermes, a human | a listener that reports once; a verdict written long after the read | one review at a time; what is approved was reviewed as it is; a conclusion |
| **Workspace relay** `lib/linked-computers/relay-queue.ts`, `runtime-installers/runtime/bot-relay-courier.ts` | envelopes, one queue per device, memory of the courier | enqueue, claim, reply, complete; deliver, tell | Hermes of both computers | leases, requests that arrive after their timeout, two queues per envelope | no envelope forgotten; replies of the last attempt only; every envelope ends |
| **Webhook worker** `lib/webhooks` | queue items, webhooks, audit records | dispatch, claim, deliver, retry, give up, disable | HTTP endpoints | overlapping runs with stale batches and a cache, two writes per outcome | one handler per item; bounded, complete retries; disabled only for cause |
| **Workflow graph engine** `lib/workflow-graph` | run and node states | start, step, wait, resume | agents, tasks | joins, replays, waits | each node runs once per visit; runs end |
| **Email sequences, broadcasts** `lib/sequences`, `app/api/cron` | enrolments, dead letters | step, deliver, replay | mail provider | overlapping cron runs, crash between send and save | a step is sent at most once |
| Routines, loop engine, project sync, LLM credential refresh, book studio, social publishing, billing and finance, cross-organisation access, authentication, realtime gateway, cloud functions, the web application | various | various | various | mostly request-local or dominated by external services | not modelled, reasons in `PROJECT.json` |

`PROJECT.json` lists every component with its status and, under `hazards`, the
places where this code is hard to test, each with the properties that cover it or
the reason why none does.

## 2. Plan

Done, in this order:

1. `RunContract`, `LinkedRunQueue`, `LinkedRunRefinement`, `MCLinkedRunQueue`, and
   the theorems in `LinkedRunQueueProofs`, `LinkedRunRefinementProofs` and
   `RunContractProofs`. The queue came first: it carries every run on a linked
   computer and four independent actors write to it.
2. `AgentTaskWatcher` (`AgentTaskWatcherProofs`) and `TaskReview`
   (`TaskReviewProofs`): the other two places where processes compete for work.
3. `WorkspaceRelay` and `WorkspaceRelayRefinement` (`WorkspaceRelayProofs`): a second
   queue with leases, this one with a reply to carry back, and the same contract.
4. `WebhookDelivery` (`WebhookDeliveryProofs`): overlapping crons.
5. `RunFinalizer` (`RunFinalizerProofs`): the runs that go through no queue.

Each model has an `MC` module with its small instances. What is left:

6. `DeviceCredential`: two rotations in a row, the delivery of a rotated credential
   and its overlap, removal of a device; `AgentHostQueue`: agent-host jobs in full,
   composed with the ledger of the run queue.
7. Email sequences (the enrolment read before the lease is taken), the workflow
   graph engine, LLM credential refresh, each a small module.

## 3. Modules

### LinkedRunQueue

One device, its jobs, and everybody who touches them.

| Variable | In the code |
|---|---|
| `jobs` | `linked_device_run_jobs`: status, attempt, lease token and expiry, TTL, start deadline, credential version, whether an acceptance receipt is stored, whether a local Hermes run id is stored, recovery count, whether the encrypted payload is kept, the attempt whose result is stored |
| `pos` | `pendingJobIds` of the device's queue document, as the rank of each job (0: not in it) |
| `ledger`, `maint` | `linked_device_run_agent_leases`: expiry per job, and the maintenance lease of the profile |
| `msg`, `hrun` | status of the assistant message and of the `hermes_runs` row |
| `dev`, `bound`, `ready` | device and credential documents and the credential the runtime holds; jobs whose grant, mapping and membership persist; profiles the last heartbeat reported |
| `req`, `workers`, `sent` | the claim request in flight, the `executeJob` calls alive, the receipts posted |
| `note`, `cleanup` | the chat request's second write of the message: not due, due, or done before or after the run had ended (`early`, `late`); the cleanup run of a revoked device |
| `now`, `faults` | the server clock; faults so far (bound of the model) |

**What is one action.** Each Firestore transaction is one action, with all it
writes: `Enqueue`, `ClaimJob` / `ClaimNothing` (including the expiries, requeues,
pruned ledgers and the rebuilt queue that a claim does in passing), `Renew`,
`Complete`, `Recover` (the branches of `updateLinkedRunFromDevice`), `CancelJob`,
`Maintain`, `MaintainDone`. What the code does *not* do atomically is split:
the chat route authorises (`Dispatch`), enqueues (`Enqueue` or `EnqueueRefused`)
and, whatever has become of the run by then, writes the message again
(`Annotate`): to queued, or, when that write fails, to failed; it may also stop
before it. A claim is authenticated and its clock
read (`BeginClaim`) before its transaction runs; the grant reaches the device
(`StartWorker`) or not (`LoseGrant`). Every other handler reads its clock up to
`Delay` before it commits (`Clock`).

**The network.** `sent` only grows within a job's recent attempts, and any receipt
in it may be delivered at any time, in any order, again, or never. A rejected
receipt changes nothing and is a stuttering step.

**The claim** follows the code's passes. `Scanned` is the first `ScanLimit`
entries; `TimedOut` those past their TTL or start deadline; `Claimable` those
queued or lapsed; `Examined` those looked at up to the one selected (`Winners` are
the eligible ones, so the first of them is selected). A job whose authority is
gone expires, one whose profile is unavailable goes to the back, one without a
free slot stays. The rank after the claim is the order in which the code
concatenates its lists.

**Abstractions.** The lease token is a fresh random string, so the attempt number
stands for it. Payloads, outputs, signatures and receipt bodies are "is there
one". `"resend"` is the enqueue transaction run again after the answer to its first commit
was lost.

**Left out**: the one-off creation of a ledger document from running jobs, the
host-wide ceiling of 64 runs, the expiry of the overlap after a rotation,
an outcome `cancelled` sent by a device, runtime upgrade in the middle of a run,
removal of a device (as opposed to its revocation), and what a Hermes run does
to the outside.

### LinkedRunRefinement and RunContract

`RunContract` knows a run as idle, live or ended, how many attempts it had, who
holds its lease, who answered it and what is shown of it. Its moves are
submit, grant, release, answer and give up; a step moves any number of runs, each
at most once, because one claim settles many jobs. `RunOf` is the refinement
mapping: the holder is the attempt of a claimed or running job, the view is the
`hermes_runs` row (the message is written again by the chat request, so nobody may
rely on it), and a request that was refused has made no run.
`ImplementsContract` is the contract under that mapping.

### AgentTaskWatcher

Replicas of the watcher and the tasks of one agent (the cap, the counter and the
deferred queue are kept per agent).

| Variable | In the code |
|---|---|
| `task` | the task document: agent status, column, review status, `agentRetryCount`, whether it is in backoff, its heartbeat, its completion evidence, the failure reasons and output left on it, how many comments it has |
| `calls` | `dispatchTask` calls, each at the await it waits for, with what it read before |
| `inFlight`, `load`, `deferred`, `mode` | `inFlight`, `perAgentInFlight`, the deferred tasks and the shutdown flag of a replica's memory |
| `runs` | Hermes runs by task and idempotency key |
| `sweep`, `release`, `request` | what a sweep or a PATCH request has read and not yet written |
| `faults`, `moves` | failures and outside writes so far (bounds of the model) |

A dispatch is `Notice` (a listener or sweep calls `dispatchTask`, which runs to its
first await; a whole batch compares the cap before any of it counts), `DepsChecked`,
`ClaimTask` (the transaction), `Route` or its failures, `Post` with its answers
(accepted, refused with 409, lost before or after Hermes had it), `Reconcile`,
`Beat`, `RunFailed`, `PollFails`, `AwaitInput`, and the verification:
`ReadCompletion`, then `AcceptCompletion` or `RejectCompletion` in a transaction
that compares a fingerprint of what was read. `Finish` is the `finally` block with
its drain. Beside it run the stale sweep (`SweepRead`, `SweepCommit`), the release
sweep (`ReleaseRead`, `ReleaseWrite`), the PATCH route (`PatchRead`, `PatchWrite`),
submitted evidence, reviews, `Crash`, `Shutdown` and `ShutdownExits`.

Left out: scheduled release, approval gates, the linked-computer route, failover,
worktrees, notifications. A lost post arrives before its lookup or never.

### TaskReview

`card` is the task in Review with its review status and the *round*, which counts
how often the implementer has finished it; `calls` are the `dispatchReview` calls,
`load` the counter they share, `news` what a replica's listener has yet to report.
`Write` puts a changed card that matches the query into every `news`: that is all a
listener does, so what returns without a write (a card in backoff, or beyond the
cap) is not heard of again. `ClaimReview` is the transaction; `ReadLive`,
`RunEnds`, `CheckAccepted` and `WriteVerdict` are separated by awaits. A call keeps
the round it has read: that of the live card (`ReadLive`) or, when that read fails,
that of the listener's snapshot (`ReadFails`). `WriteFails` is an exception in the
`catch` block, after which nothing is written. `Accept` (an explicit approval),
`Reopen` (a drag to Done or Review without one, or an agent status of done),
`Rework` and `Redo` are the human and the implementer. `astray` are the cards that
were reopened or sent back under a review, or reviewed from an older snapshot; the
properties except them.

### WorkspaceRelay

`env` are the envelopes, `queue` the place of each envelope in the queue of each
device (0: not in it; receivers find envelopes there, and senders replies. Places do
for the id list of the code, because whatever adds an id first filters it out, so no
id is in it twice), `courier` what the loop of `bot-relay-courier.ts` is
doing, `posted` its memory of outbox items, `told` what an agent has been told,
`late` the requests that timed out at the client and may still reach the server.
`Enqueue`, `Claim` (with the expiries it does in passing), `HandleReply` and
`HandleComplete` are transactions. A claim updates an envelope before it reads the
next one of the queue, which Firestore does not allow: such a claim throws
(`Rejected`) and changes nothing. The courier delivers, replies, completes, and
after an exception replies with an error and completes as failed, ignoring further
exceptions; an error reply does not carry the id of the outbox item, so it tells the
sender's agent nothing. Requests fail before or after they took effect. Rooms, grants and the
roster are one refusal (`NotTeammates`).

### WorkspaceRelayRefinement

The relay implements the same `RunContract`, with an envelope for a run. `WorkOf`
reads the contract's record off the document: the envelope is live from the enqueue
to its end; a claimed or replied one is held by its attempt; an envelope that was
delivered or failed is answered by the attempt whose reply is stored, or, without a
reply, by the one that completed it; its status is what is shown. A lapsed lease
keeps its holder until the next claim, which is a grant to a later attempt, or the
expiry. The reply itself is a step the contract does not see.

### WebhookDelivery

`item` and `hook` are the documents, `run` where a cron run is, `batch` the items it
fetched, as they were, `cache` the webhooks it has read. A run is `Query`, then per
item `Claim` (the transaction, which reads only the status again), `Load`, `Post`,
`Settle` (the outcome on the item) and `Mark` (the outcome on the webhook, from the
cached failure count); any store call may throw, which leads to `Recover`, and that
write may throw too. Administrators enable, disable, delete, requeue, cancel and
test at any time. `refused`, `accepted`, `givenUp`, `misled` and `upset` record what
has happened, for the properties only: `givenUp` counts since the webhook was last
enabled or delivered to (`StartOver`), and `misled` are the webhooks for which a run
had counted failures by then and may go on with that count.

### RunFinalizer

| Variable | In the code |
|---|---|
| `msg` | the assistant message of a turn: its status, and whether `runId` is stored |
| `hrun` | the run on Hermes: accepted but not yet listed, running, waiting for approval, ended, or forgotten |
| `ledger` | the `hermes_runs` row, by the statuses `findPendingConversationRuns` and the finalizer tell apart |
| `age` | of the message: fresh, past the grace periods (30 s for a lookup, 2 min for a dispatch), past the stale timeout (90 min) |
| `goal` | `goalState`: status, turns used, `lastAssistantMessageId` |
| `call` | a request of a user, a client's finalize call, or the cron's: the step it is at and what it read |
| `excused`, `events` | turns stopped, without a run or not listed by Hermes within the grace, or started without an answer; failures and moves so far |

There is no transaction: every read, every write and every call to Hermes is a
step. A turn is created, posted and bound (`Send` or `Continue`, `Post`, `Bind`), a
call to `finalizeConversationRun` is `Begin` (message read), `Fetch` (Hermes asked,
`Verdict` decides from the message as it was read), `WriteMessage`, `WriteLedger`,
and, for an answer, `ReadGoal`, `Advance`, `Continue`, `Post`, `Bind`, `WriteGoal`.
`CallStop` and `WriteStopped` are the stop route, `List` the dispatch grace of
`listMessages`, `Crash` a function that is cut off anywhere. Turns are in the order
of their creation; `MaxTurns` bounds them.

Left out: runs on linked computers (the run queue), delegations, compression runs,
presence, rich payloads, and `/goal resume`.

Hermes lists a run some time after the request to start it, which has no time
limit, while the grace of a lookup counts from the creation of the message: `Tick`
may therefore pass the grace of a run that is not listed yet.

## 4. Runs

The instances are in the `.cfg` files. Every model bounds its failures and its
outside moves (`MaxFaults`, `MaxMoves`, `MaxEvents`); which kinds may happen is
`Faults` and `Moves`.

| Run | Instance | Checks |
|---|---|---|
| `queue_contention` | 3 jobs of one profile, cap 1, queue limit and scan window 2, lease 1, clock 3, the receipts that renew, one of nine faults | `LiveJobsQueued`, `LeasesWithinCap`, `MaintenanceAlone`, `WithinQueueLimit`, `EmptyClaimMeansNoWork`, `ExpiresForCause`: reclaims, crashes, cancellations, outages, pauses, rotations and removed grants against each other lose no job, exceed no cap, no limit and no reservation, hide no job and expire none without a cause |
| `run_receipts` | 1 job, four kinds of receipts, cap 4, memory 1, lease 2, delay 1, clock 4, one of five faults, fair | `TypeOK`, `DocumentsAgree`, `ResultOfLastAttempt`, `LedgerIsLiveLeases`, `FinalIsFinal`, `ImplementsContract`, `RunsEnd`. A revoked device stops for good, so deadlock is not checked |
| `cap_exceeded` | 3 jobs of one profile, cap 2, lease 2, delay 1, clock 4 | `LeasesWithinCap` violated |
| `scan_window` | 3 jobs of two profiles, window 2, no fault | `HealthyProfileContinues` violated |
| `watcher_anything` | 1 replica, 1 reviewed task, 2 of six failures, 2 of four outside writes, stale sweep | `TypeOK`, `LoadCountsCalls`, `OneLiveRun`, `DoneIsProven` |
| `watcher_settles` | 2 replicas with one slot, a task and its dependent, both sweeps on one replica, a crash or a failure before the post, fair | `OneOwner`, `DeferredIsWoken`, `TasksSettle` |
| `review_anything` | 2 replicas, 1 card, 2 of five failures, 2 of three human moves, fair | `TypeOK`, `OneReviewer`, `ReviewsCounted`, `ApprovedAsIs`, `ReviewConcludes` (as long as nothing has failed) |
| `relay_envelopes` | 2 computers that write to each other, lease 1, TTL 2, clock 3, 1 failure of five kinds, fair | `TypeOK`, `EnvelopesQueued`, `ReplyOfLastAttempt`, `ImplementsContract`, `EnvelopesEnd` |
| `webhook_items` | 2 items of one webhook, 2 cron runs, one retry, threshold 2, one failure or move, fair | `TypeOK`, `OneHandler`, `AcceptedOnce`, `GivenUpAfterRetries`, `DisabledForCause`, `EndedIsLeft`, `ItemsEnd` |
| `finalizer_turns` | 2 turns, one of them the goal loop's, a client and the cron, 2 of five failures, stops, pauses and polls, fair | `TypeOK`, `FailsForCause`, `PendingConcludes` |
| `leftover_reasons` | 1 task, the release sweep, a run that cannot be followed | `OneLiveRun` violated |
| `goal_loop_stalls` | 3 turns, a goal, the cron, no failure | `GoalGoesOn` violated |

**Why the bounds are enough.** Every hazard here needs one overlap, so two of what
competes (two jobs for one slot, two replicas, two cron runs, a client and the
cron) and one failure in the middle show it; a third job is needed where a queue is
full, or a lapsed run lies behind the one that got its slot. `run_receipts` has
lease 2 with delay 1, so that a handler acts on a clock that is behind within one
lease, and clock 4 has room for a lapse, a reclaim and a late receipt of the first
attempt; so that no lapse is cut off by the end of the clock, faults and renewals
stop one lease before it (`LeaseLapses`). Its cap is 4, more than the workers
that can be alive in it, so that hung workers leave a slot free. `queue_contention`
has no delay, since a lease of one unit would lapse under every claim that is late;
`cap_exceeded` shows what a delay does. Its runs answer by renewals only: recoveries
against each other are left to the theorems on the same invariants, and to
`run_receipts`. `watcher_anything` has no release sweep: with the failures and moves
of that run a sweep may recover a task that is being worked on (`leftover_reasons`);
`watcher_settles` has it, and the theorems on `OneLiveRun` say under which condition
it does no harm. One
recovery or retry allows both the repetition and the final failure. `Memory` is how
many older attempts the network remembers: 1 where receipts of superseded attempts
are the point. Two turns of one conversation let the goal loop start a turn while an
older one is still being finalized, and two events let a slow client meet a cut-off
cron. Job identities are symmetric where only safety is checked. Where a theorem
states the property too, the instance matters only as a check of the model.

### Disagreements with the documentation

Four runs end in a counterexample; each checks one statement the repository makes
about itself, quoted in `PROJECT.json`.

| Run | Property | What the code does |
|---|---|---|
| `cap_exceeded` | `LeasesWithinCap` | a claim reads its clock before its transaction (`run-queue-store.ts:527`). A renewal that commits in between prunes a slot that lapsed by the later clock; the claim counts neither that slot nor a run to reclaim and leases one more, and the run whose slot was pruned is renewed all the same, for a renewal looks at no cap and a receipt that arrives at the expiry is accepted |
| `scan_window` | `HealthyProfileContinues` | jobs of a saturated profile that fill the scanned window stay in their order, and hide the runnable job of another profile, poll after poll |
| `leftover_reasons` | `OneLiveRun` | failure reasons of an earlier attempt stay on a task that is blocked because its run was accepted and could not be followed; the release sweep takes it for recoverable and posts it again |
| `goal_loop_stalls` | `GoalGoesOn` | after a continuation is started the goal notes the new turn as the last one, and its answer is then taken for a repetition and not continued |

The models show more, for which no run is kept; each has the behaviour in it.

- *Run queue.* A rotation that commits between the authentication of a claim and its
  transaction makes the claim expire every run it examines; `ExpiresForCause` counts
  that as a cause. A dispatch authorised before a revocation and enqueued after the
  cleanup finished is never ended; `RunsEnd` excepts it. The chat route's second
  write (`messages/route.ts:1554`) is unconditional, and so is that of its error
  handler (`:1585`): a run that ends before it has a final message put back to
  queued, or a completed one to failed. `DocumentsAgree` and `FinalIsFinal` except
  exactly that write. A worker that hangs keeps its slot of the runtime
  (`worker.ts:164`, `:285`), for Hermes runs have no time limit
  (`runtime/hermes.ts:560`): when all slots hang the runtime polls no more, and
  nothing ends its queued runs but the cleanup. A queued renewal in flight when
  Hermes starts puts a started run back to claimed.
- *Watcher.* An earlier process of the same attempt may have posted it, yet a
  failure before the post counts as proof that nothing was accepted
  (`watcher.ts:907`; so the failure `"route"` is in `watcher_settles` only). The attempt
  number comes from the snapshot the call was started with (`watcher.ts:994`): a
  replica that noticed the task before another one requeued it claims it afterwards
  and posts the old number. If the post of that number was lost and never arrived,
  Hermes takes it, and after a crash the next dispatch posts the new number while
  the old run is alive (two replicas, one `"lost"` and one `"crash"`). Two
  sweeping replicas can take a task back from its new owner (`claim.ts:170`; so one
  replica sweeps in `watcher_settles`). A rework starts over with used idempotency
  keys (`watcher.ts:1544`); an exhausted retry budget is forgotten and a sweep
  revives the task (`:1482`); every call of a batch compares the cap before any has
  counted (`:814`); the loser of a claim removes the winner from the in-flight set,
  and a shutdown no longer waits for it (`:827`); a blocked card that waits for a
  human is released when it has dependencies (`:2072`).
- *Review.* An acceptance between the check and the verdict is taken back
  (`watcher.ts:1834`). A verdict is applied to a card sent back meanwhile (`:1848`).
  A card that is dragged to Done or Review while it is reviewed waits for a review
  again (`taskPayload.ts:790`), and a second replica starts one. A failure of the
  live read is swallowed (`watcher.ts:1722`) and the review goes on with what the
  listener once reported, so that a card redone since is approved in a round nobody
  reviewed. `OneReviewer` and `ApprovedAsIs` except these cards (`astray`). A retry after backoff (`:1690`), a review lost in a
  crash (`claim.ts:97`) and one dropped at the cap (`watcher.ts:1695`) are not taken
  up again: `ReviewConcludes` holds only until something fails, with one card.
- *Relay.* A claim reads the next envelope of its queue (`relay-queue.ts:443`) after
  it updated an earlier one (`:451`, `:460`, `:472`); Firestore requires all reads of
  a transaction before its writes, so with an envelope that is claimable or has
  lapsed in front of another one every claim throws, and the queue stands still
  unless a reply or completion already under way ends the one in front. `EnvelopesEnd` excepts an envelope
  whose receiver's queue comes into that state. An error reply lacks the id of the
  outbox item (`bot-relay-courier.ts:491`), so the agent that sent the message is
  told of an envelope it does not know. A courier completes an envelope right after posting its reply, which
  marks the reply delivered although the sender may not have claimed it; it is then
  never told (`relay-queue.ts:578`).
- *Webhooks.* Enabling a webhook resets its count "so the worker doesn't immediately
  re-disable it" (`enable/route.ts:4`), and the failures that disable it are
  "consecutive" (`types.ts:130`); but both an enable and a delivery clear the count
  of the document and not the one a run has cached (`worker.ts:209`), so a run that
  has counted failures disables the webhook with the first item it gives up
  afterwards. `DisabledForCause` excepts these webhooks (`misled`). A claim that throws is handled as if it had succeeded, so an item that
  another run is delivering goes back to pending. An item whose run was cut off, or
  whose recovery write failed, stays delivering, though `worker.ts:261` expects the
  next pass to retry it: `ItemsEnd` excepts it. The cron route speaks of every
  minute; `functions/src/index.ts` schedules it daily.
- *Finalizer.* A run that Hermes lists only after the 30 seconds since the creation
  of its message (`run-finalizer.ts:617`; the request to Hermes has no time limit,
  `hermes/server.ts:212`) is failed as lost while it is alive. `FailsForCause`
  counts that as a reason (`excused`). Two finalizers of one answer can both continue the goal although
  `hermes-goal-continue.ts:42` means to avoid it; the goal they write back can undo
  a pause. A completed answer is erased when Hermes no longer knows its run (the
  404 is handled before the completed status is looked at), or by a stop or a slow
  client. A turn that waits for approval is no candidate of the cron.

### Fairness

Only what the code repeats is fair, and nothing is assumed of users or failures.

- *Run queue* (weak): the runtime polls again and again while it has a slot free
  (`SlotFree`), a request that was sent is answered, a grant that arrived starts a
  worker, heartbeats and the cleanup cron recur, and time passes. Nothing is owed by
  a run on the device, which Hermes does not bound in time, by receipts, by a chat
  request between its writes or by maintenance. So a run ends by its TTL at the
  latest, found by a claim, and `RunsEnd` says so of behaviours in which a slot is
  free again and again. `Tick` waits for a claim in flight at most `Delay`, so with
  `Delay` at least 1 the clock cannot be held up. The clock stops at `MaxClock`;
  `RunsEnd` is about the runs whose TTL it reaches, those enqueued at clock 0 or 1
  in `run_receipts`.
- *Watcher and review* (weak): listeners report, promises resolve, sweeps recur,
  runs end, backoffs and heartbeats run out.
- *Relay* (weak): couriers poll and go on, and time passes. The outbox of Hermes
  and late requests owe nothing.
- *Webhooks* (weak): the cron comes again, its runs go on, backoffs run out.
- *Finalizer*: every call takes its next step and time passes (weak). The cron's
  `Begin` is strongly fair for each turn: a pass works off a list of all candidates,
  up to 25 (`maxRuns`), and there are fewer here, so a turn that is again and again
  a candidate is in some pass. A client's poll is an event and owes nothing.

## 5. Proofs

All theorems hold for every value of the constants that the assumptions allow
(`ConstantsAssumption`, `SizesAssumption`, `ActorsAssumption`, `RelayAssumption`,
`WebhookAssumption`, `ReviewAssumption`, `FinalizerAssumption`: numbers are natural,
sets are finite where they are counted, a lease is positive and longer than
`Delay`). What a theorem assumes beyond that is in its statement, and below. TLC
evaluates the assumptions in every run. The models' bounds are parameters too.

| Module | Theorem | Statement |
|---|---|---|
| `LinkedRunQueueProofs` | `TypeCorrect`, `LiveJobsStayQueued`, `LedgerStaysLiveLeases`, `ReservedProfilesAreIdle`, `QueueStaysWithinLimit`, `EmptyClaimsMeanNoWork`, `RunsExpireForCause` | `TypeOK`, `LiveJobsQueued`, `LedgerIsLiveLeases`, `MaintenanceAlone`, `WithinQueueLimit`, `EmptyClaimMeansNoWork`, `ExpiresForCause` |
| | `DocumentsAlwaysAgree`, `ResultsOfLastAttempt`, `FinalStaysFinal` | `DocumentsAgree`, `ResultOfLastAttempt`, `FinalIsFinal` |
| | `LeasesStayWithinCap`, of behaviours with `[]NoLapseUnderway` | `LeasesWithinCap` |
| `LinkedRunRefinementProofs` | `QueueImplementsContract` | `ImplementsContract` |
| `RunContractProofs` | `LastAttemptAlwaysAnswers` | what `RunContract` itself promises |
| `AgentTaskWatcherProofs` | `TypeCorrect`, `LoadAlwaysCountsCalls`, `DeferredTasksAreWoken`, `DoneTasksAreProven` | `TypeOK`, `LoadCountsCalls`, `DeferredIsWoken`, `DoneIsProven` |
| | `OneOwnerAtATime`, if one process runs each sweep, no `"stall"`, no `"requeue"` | `OneOwner` |
| | `OneLiveRunInOneProcess`, if there is one process, no dependencies, no `"route"`, of behaviours with `[]RecoversIdle` | `OneLiveRun` |
| | `OneLiveRunAcrossProcesses`, if at most one process runs each sweep, no `"stall"`, `"route"`, `"lost"`, of behaviours with `[]NoneRecovered` | `OneLiveRun` |
| | `OneLiveRunOfAGatedTask`, if at most one process runs each sweep, no `"stall"`, `"route"`, `"lost"` | `OneLiveRun` of the tasks with dependencies |
| `WorkspaceRelayProofs` | `TypeCorrect`, `EnvelopesStayQueued`, `RepliesOfLastAttempt`, `RelayImplementsContract`, `FinalStaysFinal` | `TypeOK`, `EnvelopesQueued`, `ReplyOfLastAttempt`, `ImplementsContract`, and that a final status never changes |
| `WebhookDeliveryProofs` | `TypeCorrect`, `WebhooksDisabledForCause`, `ItemsGivenUpAfterRetries`, `OneHandlerAtATime`, `AcceptedItemsPostedOnce`, `EndedItemsAreLeft` | `TypeOK`, `DisabledForCause`, `GivenUpAfterRetries`, `OneHandler`, `AcceptedOnce`, `EndedIsLeft` |
| `TaskReviewProofs` | `TypeCorrect`, `OneReviewerAtATime`, `ApprovedInItsRound`, `ReviewsAlwaysCounted` | `TypeOK`, `OneReviewer`, `ApprovedAsIs`, `ReviewsCounted` |
| `RunFinalizerProofs` | `TypeCorrect`, `TurnsFailForCause` | `TypeOK`, `FailsForCause` |

**Run queue.** `LinkedRunQueueProofs` has a part for each of these.

- *Types*. `RankType` says that ranking gives a positive place exactly to the jobs
  kept; the rest is one lemma per record the actions write and one step per action.
- *Documents*. `DocumentsAgree` and
  `ResultOfLastAttempt` are not inductive: a completion must know that an active
  job has been claimed (its attempt is not 0) and a recovery that a stored payload
  means the job is live. `Agree` adds that, plus: no result without an outcome.
  `RunSteps` shows once, action by action, that a step leaves a run alone or makes
  one `Transition` of it to documents that agree; agreement, finality and the
  refinement all follow from that one lemma. The second write of the chat request
  is a transition of its own (`Annotated`), which touches the message only and notes
  whether it came after the end; `Agree` asks nothing of the message then.
- *Queue*. `RankInjective`: of two jobs kept, one has strictly fewer
  jobs before it, by cardinality of finite sets. `RankKeepsQueue` then covers every
  action that rebuilds the queue; what remains is that a claim drops only what has
  ended or ends with it.
- *Ledger*. `SlotAgrees` relates a slot to its job's lease; the
  invariant adds that a claim's clock is not ahead of the server's. A step leaves a
  job untouched, or drops a slot that ran out, or gives the job the slot its new
  lease asks for.
- *Reservation*. `MaintenanceAlone` is inductive with the two invariants above: a
  reservation looks at every active run because the queue has them all, and a
  claim looks at the reservation with a clock that is not ahead of the server's.
- *Limit*. Ended runs stay in the queue until a claim rebuilds it, and a recovery
  puts its run at the head without looking at the limit. `FenceInv` says that only
  a run that was leased can be recovered (one that waits has no token, one that
  ended no payload), and such a run is in the queue already.
- *Claims*. `Dense`: places are numbered without gaps, so a queue no longer than
  the window lies in it; `EmptyClaimMeansNoWork` is about such queues, `scan_window`
  about longer ones. `ExpiresForCause` reads the cause off the run a claim expires.
- *Cap*. A claim counts only slots that have not run out and a renewal looks at
  none, so `LeasesWithinCap` needs the order of the queue. `Front` is a profile's
  leased runs, lapsed or not, and the live runs in front of one of them; each of
  these comes up for a lease before any run behind. `CapInv` bounds it by the cap.
  The argument needs that a claim sees which leases have run out, so the theorem is
  about behaviours in which no lease runs out between a claim's reading of the clock
  and its commit (`NoLapseUnderway`), however late the claim and all other handlers
  are otherwise; `cap_exceeded` is the counterexample without it.
- *Refinement* (`LinkedRunRefinementProofs`). With documents in agreement a job
  is in one of five stages; each `Transition` maps to one move of the contract or
  to none. The stages and the moves between them (`StageMoves`) are in
  `RunContractProofs`; the relay's proof uses them too.

**Watcher** (`AgentTaskWatcherProofs`). `WatcherInv` is the types with
`RetriesBounded` (an attempt number is at most the budget plus the outside moves so
far; a request or release that was read will stay within that) and `CountInv`
(the calls counted are finitely many and are the load; what is deferred has a full
load). `Started` names what a batch does, the tasks it starts and the call it picks
for each; `StartKeeps` then counts once, by a bijection from tasks to calls, for
`Notice`, `ReleaseWrite` and every `finally` block. The drain is why a deferred task
implies a *full* load and not only a positive one: the block gives one slot back and
drains exactly if that makes room. `Rewritten` says of every write to a document
that a task is made done only on good evidence. `OneOwner` is not inductive: a claim
needs a pending task, so `OwnedWell` says which document an owned task has
(claimed with a fresh heartbeat, or closed by its own agent with reasons no sweep
takes for recoverable), that what a sweep or release has read is not owned, and that
no two of them have read the same task. The hypotheses are what the code leaves to
its deployment: each of a second sweeping process, an owner silent for five minutes
and a requeue under an owner resets a task by a write that does not look again.

`OneLiveRun` is false in general (`leftover_reasons`, and the stale attempt number
above), and holds for two different reasons, each with an inductive invariant of its
own. Both say that a run that is alive has the attempt number of its task, so that
there is one. In one process (`Alone`), the in-flight set lets one call work on a
task, and that call holds the document's number; a waiting task is deferred with
that number. A task with dependencies enters the set only after they were checked,
so two calls may have read it, which is why this theorem leaves such tasks out
(`OneLiveRunOfAnUngatedTask` is the same for the tasks without, among others with).
Across processes (`Keyed`), old numbers are held and posted, and what protects the
task is Hermes: every number below the present one is taken (`Tried`), by a post with
fewer comments than the task has now, so a post of an old number is refused; nobody
holds a number ahead of a task that may run again (`Within`); and an owner past its
post works on the present number (`Steered`). The hypotheses are what would break
either argument: a failure before the post leaves a number that is not taken, or
whose run an earlier process posted; a lost answer lets a run be looked up by an old
number, or a post be counted that never arrived; and a stall or a second sweep breaks
`OneOwner`, on which `Keyed` rests.

The release sweep runs in every process of the code and in all these theorems. What
it does to a blocked card without dependencies decides: it counts an attempt and
looks neither at the run nor at the calls of the card. In one process that is
harmless as long as the card it recovers is idle, with no call, no deferral and no
run alive (`RecoversIdle`); across processes a stale call may still post the number
that it counted, so the theorem is about behaviours in which it recovers none
(`NoneRecovered`). `leftover_reasons` is the behaviour that breaks both. For a card
with dependencies the sweep counts no attempt but adds a comment, so a number that
was posted is refused; hence `OneLiveRunOfAGatedTask` needs no such condition. All
four theorems are about tasks that nobody asks to run again (`Untouched`); a crash,
a post that is cut off, a poll that fails and a shutdown are allowed.

**Relay** (`WorkspaceRelayProofs`). `RelayInv` adds to the types what an envelope
promises of its reply (`Stored`: none before an answer, and that of the last
attempt) and that a busy courier knows its message (`Busy`); `StoreStep` is what any
step may do to envelopes. For `EnvelopesQueued`, `Owed` says whose queue an envelope
has to be in, and `Reordering` covers every handler: it sorts one queue into classes,
keeps what is owed there and owes nothing new elsewhere. `OrderedInjective` is the
fact about sorting, by cardinality of finite sets.

`RelayImplementsContract` follows an envelope through its stages, as in the run
queue. `Turn` lists what any step may do to an envelope; `TurnSteps` shows it action
by action, and `TurnMoves` maps each turn to one move of the contract or to none.
What the turns need beyond `RelayInv` is `LeaseInv`: a leased envelope has had an
attempt, and what a queue holds was enqueued. That the stored reply is the last
attempt's is where `RepliesOfLastAttempt` enters: without it a completion would
answer for an attempt that no longer holds the lease.

**Webhooks** (`WebhookDeliveryProofs`). Types need that a run past its claim has an
item (`Owned`) and that batches hold items that exist (`Listed`). `DisabledForCause`
is about documents, but failures are counted in caches: `Counting` says that,
outside `misled`, the count of a document (`HookFits`) and of every cache
(`CacheFits`) is at most the number of items given up since the last enable or
delivery, and `GoneFits` that a webhook read as gone was deleted.
`GivenUpAfterRetries` compares refusals with a number from a stale snapshot: `Tries`
bounds, by the refusals so far, the retry count of the item, of every copy in a
batch, and of the job of every run. `OneHandler`, `AcceptedOnce` and `EndedIsLeft`
rest on `Served`: outside `upset`, an item that is handled is delivering, and by one
run only; a run about to recover has its item among the upset.

**Review** (`TaskReviewProofs`). `Orderly` says of each card that is not `astray`
that it is under review by whoever claimed it and that the round that review
read is the card's; a verdict of approval is then one of the card's own round.
`Calls` counts the calls in progress of a replica.

**Finalizer** (`RunFinalizerProofs`). `Sound` is what keeps the budget: a goal that
is active has turns left, in the document and in the copy every call carries, so
writing back an old copy cannot exceed it. `FailsForCause` needs, of a call between
its read and its write, that a failure it is about to write already has its reason
(`Failures`; reasons last, since ages only grow and a run that failed or was
forgotten stays so; a lookup that comes too early is one because `Tick` excuses a
turn whose grace ends before Hermes lists its run), that a turn that was not posted has no run (`Untouched`), that
it is posted by one call only (`OneStart`), and that finalizers and the stop route
work on bound turns (`OnRuns`).

Only model-checked are the liveness properties (`RunsEnd`, `TasksSettle`,
`ReviewConcludes`, `EnvelopesEnd`, `ItemsEnd`, `PendingConcludes`): liveness under
fairness is beyond the prover. Every invariant and every other property of a passing
run is stated by a theorem; `OneOwner`, `OneLiveRun` and `LeasesWithinCap` under the
conditions of the table, since they are false without.

No module uses recursion over data.

## 6. Not modelled

- *Devices, agent-host jobs, the device runtime, chat dispatch* are modelled as far
  as the run queue depends on them; the rest is in the plan.
- *Workflow graph engine, email sequences, broadcasts, LLM credential refresh* have
  claims and crons of the same kind as what is modelled, and come next.
- *Routines, loop engine, project sync, book studio, access rules, billing, social
  publishing, authentication, the realtime gateway, cloud functions and the web
  application* are request-local, pure functions over documents, or dominated by
  external services and rendering; most of the repository's lines are here, and a
  state machine would say little about them.
- Everywhere: what a Hermes run does to the outside, the content of messages, HTTP
  statuses where only success matters, and access checks, which are a refusal.

## 7. Files and use

    tlc -config run_receipts.cfg MCLinkedRunQueue
    tlapm LinkedRunRefinementProofs.tla

Operators named `...Mutant` are faulty variants of the operator after them.
`PROJECT.json` pairs each checked property with a variant under which it fails,
so that no property holds by the shape of the model alone; it also maps every
definition to the source lines it stands for.
