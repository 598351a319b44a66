-------------------------- MODULE WebhookDelivery --------------------------
(* Outbound webhooks: an event becomes one queue item per subscribed         *)
(* webhook; cron runs, which may overlap, fetch a batch of due items, claim  *)
(* each in a transaction, post it and record the outcome on the item and,    *)
(* separately, on the webhook, which is disabled after repeated failures.    *)
EXTENDS Integers, FiniteSets

CONSTANTS
    Items,       \* queue items
    NoItem,
    Hooks,       \* webhooks
    HookOf,      \* item -> its webhook
    Runs,        \* invocations of the cron that may overlap
    MaxBatch,    \* maxBatch
    MaxRetries,  \* WEBHOOK_MAX_RETRIES
    Threshold,   \* WEBHOOK_AUTO_DISABLE_THRESHOLD
    Faults,      \* failures that may happen
    Moves,       \* what an administrator may do
    MaxEvents    \* bound on the number of failures and moves

ASSUME WebhookAssumption ==
    /\ NoItem \notin Items
    /\ HookOf \in [Items -> Hooks]
    /\ MaxBatch \in Nat \ {0} /\ MaxRetries \in Nat /\ Threshold \in Nat \ {0}
    /\ MaxEvents \in Nat
    /\ Faults \subseteq {"crash", "claim", "write"}
    /\ Moves \subseteq {"enable", "disable", "delete", "requeue", "cancel", "test"}

VARIABLES
    item,      \* the queue documents
    hook,      \* the webhook documents
    run,       \* cron run -> where it is
    batch,     \* cron run -> items it fetched, as they were, and has not come to
    cache,     \* cron run -> webhooks it has read
    refused,   \* item -> posts without a 2xx answer, as far as they matter
    accepted,  \* items with a 2xx answer
    givenUp,   \* webhook -> items given up since it was enabled or delivered to
    misled,    \* webhooks enabled or delivered to while a run had counted failures
    upset,     \* items an administrator requeued, or a call to the store failed for
    events     \* failures and moves so far

runVars == <<run, batch, cache>>
postVars == <<refused, accepted>>
hookVars == <<hook, givenUp, misled>>
limitVars == <<upset, events>>
vars == <<item, runVars, postVars, hookVars, limitVars>>

Terminal == {"delivered", "failed", "cancelled"}
ItemType == [status : {"none", "pending", "delivering"} \cup Terminal,
             retry : Nat, due : BOOLEAN]
HookType == [active : BOOLEAN, deleted : BOOLEAN, auto : BOOLEAN, failures : Nat]
CacheType == [read : BOOLEAN, gone : BOOLEAN, failures : Nat]
Fetched == [item : Items \cup {NoItem}, retry : Nat]
RunType == [pc : {"off", "next", "load", "gone", "audit", "post", "item", "hook", "recover"},
            job : Fetched, ok : BOOLEAN]

NoRow == [status |-> "none", retry |-> 0, due |-> FALSE]
Created == [status |-> "pending", retry |-> 0, due |-> TRUE]
Fresh == [active |-> TRUE, deleted |-> FALSE, auto |-> FALSE, failures |-> 0]
Unread == [h \in Hooks |-> [read |-> FALSE, gone |-> FALSE, failures |-> 0]]
Off == [pc |-> "off", job |-> [item |-> NoItem, retry |-> 0], ok |-> FALSE]
At(pc, job) == [pc |-> pc, job |-> job, ok |-> FALSE]

Init ==
    /\ item = [i \in Items |-> NoRow]
    /\ hook = [h \in Hooks |-> Fresh]
    /\ run = [k \in Runs |-> Off]
    /\ batch = [k \in Runs |-> {}]
    /\ cache = [k \in Runs |-> Unread]
    /\ refused = [i \in Items |-> 0] /\ accepted = {}
    /\ givenUp = [h \in Hooks |-> 0] /\ misled = {}
    /\ upset = {} /\ events = 0

(* A failure or a move of the administrator; "s" are the items it upsets.    *)
Event(kind, s) ==
    /\ kind \in Faults \cup Moves
    /\ events < MaxEvents
    /\ events' = events + 1
    /\ upset' = upset \cup s

-----------------------------------------------------------------------------
(* dispatchWebhook commits one item for each active webhook it found.  The   *)
(* query and the commit are one step: what the webhook becomes in between it *)
(* may as well become later.  A test does not ask whether it is active.      *)

Enqueue(i) ==
    /\ item[i].status = "none" /\ ~hook[HookOf[i]].deleted
    /\ item' = [item EXCEPT ![i] = Created]
    /\ UNCHANGED <<runVars, postVars, hookVars>>
Dispatch(i) == hook[HookOf[i]].active /\ Enqueue(i) /\ UNCHANGED limitVars
Test(i) == Enqueue(i) /\ Event("test", {})

-----------------------------------------------------------------------------
(* A cron run: the query, with the order of nextAttemptAt left open, and the *)
(* loop over what it returned.                                               *)

Due == {i \in Items : item[i].status = "pending" /\ item[i].due}
Batches == {b \in SUBSET Due : \/ Cardinality(b) = MaxBatch
                               \/ b = Due /\ Cardinality(b) < MaxBatch}
Query(k) ==
    /\ run[k].pc = "off" /\ Due # {}
    /\ \E b \in Batches :
          batch' = [batch EXCEPT ![k] = {[item |-> i, retry |-> item[i].retry] : i \in b}]
    /\ run' = [run EXCEPT ![k].pc = "next"]
    /\ UNCHANGED <<item, cache, postVars, hookVars, limitVars>>

(* On to the next item, or the end of the run, which forgets what it knows.  *)
Turn(k, b, known) ==
    /\ run' = [run EXCEPT ![k] = IF b = {} THEN Off ELSE At("next", Off.job)]
    /\ batch' = [batch EXCEPT ![k] = b]
    /\ cache' = [cache EXCEPT ![k] = IF b = {} THEN Unread ELSE known]
Advance(k) == Turn(k, batch[k], cache[k])
Goto(k, pc) == run' = [run EXCEPT ![k].pc = pc]

(* The claim reads the status again, but neither nextAttemptAt nor           *)
(* retryCount.  A claim that throws is handled as if it had succeeded.       *)
ClaimableMutant(i) == item[i].status \notin {"none", "cancelled"}   \* no status check
ClaimableMutant2(i) == item[i].status \in {"pending", "delivering"}
Claimable(i) == item[i].status = "pending"
Take(k, b, pc) ==
    /\ run' = [run EXCEPT ![k] = At(pc, b)]
    /\ batch' = [batch EXCEPT ![k] = @ \ {b}]
    /\ UNCHANGED cache
Claim(k, b) ==
    /\ run[k].pc = "next"
    /\ IF Claimable(b.item)
       THEN item' = [item EXCEPT ![b.item].status = "delivering"] /\ Take(k, b, "load")
       ELSE UNCHANGED item /\ Turn(k, batch[k] \ {b}, cache[k])
    /\ UNCHANGED <<postVars, hookVars, limitVars>>
ClaimFails(k, b) ==
    /\ run[k].pc = "next"
    /\ Take(k, b, "recover")
    /\ Event("claim", {b.item})
    /\ UNCHANGED <<item, postVars, hookVars>>

(* The webhook is read once per run.                                         *)
Looked(k, h) ==
    IF cache[k][h].read THEN cache[k][h]
    ELSE [read |-> TRUE, gone |-> hook[h].deleted, failures |-> hook[h].failures]
Load(k) ==
    LET h == HookOf[run[k].job.item] IN
    /\ run[k].pc = "load"
    /\ cache' = [cache EXCEPT ![k] = [@ EXCEPT ![h] = Looked(k, h)]]
    /\ Goto(k, IF Looked(k, h).gone THEN "gone" ELSE "post")
    /\ UNCHANGED <<item, batch, postVars, hookVars, limitVars>>

(* The webhook is gone: the item fails, then the audit record is written.    *)
FailGone(k) ==
    /\ run[k].pc = "gone"
    /\ item' = [item EXCEPT ![run[k].job.item].status = "failed"]
    /\ Goto(k, "audit")
    /\ UNCHANGED <<batch, cache, postVars, hookVars, limitVars>>
Audit(k) ==
    /\ run[k].pc = "audit"
    /\ Advance(k)
    /\ UNCHANGED <<item, postVars, hookVars, limitVars>>

(* The subscriber answers, or does not within the time limit.                *)
Counted(n) == IF n <= MaxRetries THEN n + 1 ELSE n
Post(k) ==
    /\ run[k].pc = "post"
    /\ \E ok \in BOOLEAN :
          /\ run' = [run EXCEPT ![k] = [@ EXCEPT !.pc = "item", !.ok = ok]]
          /\ accepted' = IF ok THEN accepted \cup {run[k].job.item} ELSE accepted
          /\ refused' = IF ok THEN refused ELSE [refused EXCEPT ![run[k].job.item] = Counted(@)]
    /\ UNCHANGED <<item, batch, cache, hookVars, limitVars>>

(* The outcome on the item; the audit record is written before it.           *)
Attempt(k) == run[k].job.retry + 1
GivesUpMutant(k) == ~run[k].ok /\ Attempt(k) >= MaxRetries   \* off by one
GivesUp(k) == ~run[k].ok /\ Attempt(k) > MaxRetries
SettledMutant(k, row) ==   \* the claim of a retried item is not given back
    IF run[k].ok THEN [row EXCEPT !.status = "delivered"]
    ELSE IF GivesUp(k) THEN [row EXCEPT !.status = "failed"]
    ELSE [row EXCEPT !.retry = Attempt(k), !.due = FALSE]
SettledMutant2(k, row) == [row EXCEPT !.status = IF run[k].ok THEN "done" ELSE "failed"]
Settled(k, row) ==
    IF run[k].ok THEN [row EXCEPT !.status = "delivered"]
    ELSE IF GivesUp(k) THEN [row EXCEPT !.status = "failed"]
    ELSE [row EXCEPT !.status = "pending", !.retry = Attempt(k), !.due = FALSE]
Settle(k) ==
    /\ run[k].pc = "item"
    /\ item' = [item EXCEPT ![run[k].job.item] = Settled(k, @)]
    /\ Goto(k, "hook")
    /\ UNCHANGED <<batch, cache, postVars, hookVars, limitVars>>

(* The outcome on the webhook: a delivery clears the count of the document   *)
(* but not that of the cache, which is what a failure adds to.               *)
Cleared(row) == [row EXCEPT !.failures = 0]
Bumped(row, count) ==
    IF count >= Threshold
    THEN [row EXCEPT !.failures = count, !.active = FALSE, !.auto = TRUE]
    ELSE [row EXCEPT !.failures = count]
StartOver(h) ==
    /\ givenUp' = [givenUp EXCEPT ![h] = 0]
    /\ misled' = IF \E k \in Runs : cache'[k][h].failures > 0 THEN misled \cup {h} ELSE misled
Mark(k) ==
    LET h == HookOf[run[k].job.item]
        count == cache[k][h].failures + 1 IN
    /\ run[k].pc = "hook"
    /\ \/ /\ run[k].ok
          /\ hook' = [hook EXCEPT ![h] = Cleared(@)]
          /\ Advance(k)
          /\ StartOver(h)
       \/ /\ GivesUp(k)
          /\ hook' = [hook EXCEPT ![h] = Bumped(@, count)]
          /\ givenUp' = [givenUp EXCEPT ![h] = @ + 1]
          /\ UNCHANGED misled
          /\ Turn(k, batch[k], [cache[k] EXCEPT ![h] = [@ EXCEPT !.failures = count]])
       \/ /\ ~run[k].ok /\ ~GivesUp(k)
          /\ UNCHANGED hookVars
          /\ Advance(k)
    /\ UNCHANGED <<item, postVars, limitVars>>

(* A call to the store throws: the item goes back to pending, unless that    *)
(* fails as well, in the same outage.                                        *)
WriteFails(k) ==
    /\ run[k].pc \in {"load", "gone", "audit", "item", "hook"}
    /\ Goto(k, "recover")
    /\ Event("write", {run[k].job.item})
    /\ UNCHANGED <<item, batch, cache, postVars, hookVars>>
Recover(k) ==
    /\ run[k].pc = "recover"
    /\ item' = [item EXCEPT ![run[k].job.item].status = "pending"]
    /\ Advance(k)
    /\ UNCHANGED <<postVars, hookVars, limitVars>>
RecoverFails(k) ==
    /\ run[k].pc = "recover"
    /\ "write" \in Faults
    /\ Advance(k)
    /\ UNCHANGED <<item, postVars, hookVars, limitVars>>

(* The invocation is stopped.                                                *)
Crash(k) ==
    /\ run[k].pc # "off"
    /\ run' = [run EXCEPT ![k] = Off]
    /\ batch' = [batch EXCEPT ![k] = {}]
    /\ cache' = [cache EXCEPT ![k] = Unread]
    /\ Event("crash", {})
    /\ UNCHANGED <<item, postVars, hookVars>>

-----------------------------------------------------------------------------
(* nextAttemptAt passes.                                                     *)
BackoffEnds(i) ==
    /\ item[i].status = "pending" /\ ~item[i].due
    /\ item' = [item EXCEPT ![i].due = TRUE]
    /\ UNCHANGED <<runVars, postVars, hookVars, limitVars>>

(* The routes of the administrator; those of an item do not look at what it  *)
(* is doing.                                                                 *)
SetHook(h, row) ==
    /\ ~hook[h].deleted
    /\ hook' = [hook EXCEPT ![h] = row]
    /\ UNCHANGED <<item, runVars, postVars>>
EnabledMutant(row) == [row EXCEPT !.active = TRUE, !.auto = FALSE]   \* the count stays
Enabled(row) == [row EXCEPT !.active = TRUE, !.auto = FALSE, !.failures = 0]
Enable(h) == SetHook(h, Enabled(hook[h])) /\ StartOver(h) /\ Event("enable", {})
Disable(h) ==
    /\ SetHook(h, [hook[h] EXCEPT !.active = FALSE])
    /\ Event("disable", {})
    /\ UNCHANGED <<givenUp, misled>>
Delete(h) ==
    /\ SetHook(h, [hook[h] EXCEPT !.active = FALSE, !.deleted = TRUE])
    /\ Event("delete", {})
    /\ UNCHANGED <<givenUp, misled>>

SetItem(i, row) ==
    /\ item[i].status # "none"
    /\ item' = [item EXCEPT ![i] = row]
    /\ UNCHANGED <<runVars, postVars, hookVars>>
Requeue(i) ==
    /\ SetItem(i, [item[i] EXCEPT !.status = "pending", !.due = TRUE])
    /\ Event("requeue", {i})
Cancel(i) == SetItem(i, [item[i] EXCEPT !.status = "cancelled"]) /\ Event("cancel", {})

-----------------------------------------------------------------------------
RunStep(k) ==
    \/ Query(k) \/ Load(k) \/ FailGone(k) \/ Audit(k) \/ Post(k) \/ Settle(k)
    \/ Mark(k) \/ Recover(k) \/ \E b \in batch[k] : Claim(k, b)
Next ==
    \/ \E i \in Items : \/ Dispatch(i) \/ Test(i) \/ BackoffEnds(i)
                        \/ Requeue(i) \/ Cancel(i)
    \/ \E h \in Hooks : Enable(h) \/ Disable(h) \/ Delete(h)
    \/ \E k \in Runs : \/ RunStep(k) \/ WriteFails(k) \/ RecoverFails(k) \/ Crash(k)
                       \/ \E b \in batch[k] : ClaimFails(k, b)

Spec == Init /\ [][Next]_vars

(* The cron comes again and its runs go on, and time passes.                 *)
Fairness ==
    /\ \A k \in Runs : WF_vars(RunStep(k))
    /\ \A i \in Items : WF_vars(BackoffEnds(i))
FairSpec == Spec /\ Fairness

-----------------------------------------------------------------------------
TypeOK ==
    /\ item \in [Items -> ItemType]
    /\ hook \in [Hooks -> HookType]
    /\ run \in [Runs -> RunType]
    /\ batch \in [Runs -> SUBSET Fetched]
    /\ cache \in [Runs -> [Hooks -> CacheType]]
    /\ refused \in [Items -> Nat] /\ accepted \subseteq Items
    /\ givenUp \in [Hooks -> Nat] /\ misled \subseteq Hooks
    /\ upset \subseteq Items
    /\ events \in Nat

(* "Items already claimed by a parallel run are skipped": runs that fetched  *)
(* the same item never handle it at the same time, unless an administrator   *)
(* requeued it or a call to the store failed for it.                         *)
Handlers(i) == {k \in Runs : run[k].job.item = i /\ run[k].pc \in {"load", "gone", "post", "item"}}
OneHandler == \A i \in Items \ upset : \A k, l \in Handlers(i) : k = l

(* Under the same condition an item that the subscriber has accepted is not  *)
(* about to be posted again, whatever stale batches still hold it and        *)
(* whichever runs are stopped.                                               *)
AcceptedOnce ==
    \A i \in Items \ upset, k \in Runs :
        i \in accepted => ~(run[k].job.item = i /\ run[k].pc = "post")

(* An item is given up only after all its attempts have failed, although     *)
(* retryCount is written from what a batch once read, or because its webhook *)
(* was deleted.                                                              *)
GivenUpAfterRetries ==
    \A i \in Items : item[i].status = "failed" =>
        refused[i] > MaxRetries \/ hook[HookOf[i]].deleted

(* "consecutive webhook-level failures": a webhook is disabled only after    *)
(* that many of its items were given up since it was last enabled, or since  *)
(* an item was delivered to it, however many runs overwrite its count, as    *)
(* long as no run had counted failures of its own before that and went on.   *)
DisabledForCause ==
    [][\A h \in Hooks \ misled' :
          ~hook[h].auto /\ hook'[h].auto => givenUp'[h] >= Threshold]_vars

(* An item that has ended, and that no run handles, is not taken up again    *)
(* by a run that has it in its batch: a cancellation is not undone.          *)
EndedIsLeft ==
    [][\A i \in Items \ upset' :
          item[i].status \in Terminal /\ Handlers(i) = {} =>
              item'[i].status \in Terminal /\ Handlers(i)' = {}]_vars

(* Every item ends, unless a run was stopped, or could not give it back,     *)
(* while it was handling it.                                                 *)
Stranded(i) == item[i].status = "delivering" /\ \A k \in Runs : run[k].job.item # i
ItemsEnd ==
    \A i \in Items : item[i].status \in {"pending", "delivering"} ~>
        (item[i].status \in Terminal \/ (Stranded(i) /\ events > 0))
=============================================================================
