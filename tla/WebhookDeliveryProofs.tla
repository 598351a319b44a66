----------------------- MODULE WebhookDeliveryProofs -----------------------
(* What WebhookDelivery guarantees for any number of items, webhooks and     *)
(* overlapping cron runs, whatever fails and whatever administrators do.     *)
EXTENDS WebhookDelivery, TLAPS

-----------------------------------------------------------------------------
(* Types.                                                                    *)

LEMMA InitType == Init => TypeOK
  BY WebhookAssumption DEF Init, TypeOK, WebhookAssumption, ItemType, HookType, RunType, CacheType,
     Fetched, NoRow, Fresh, Off, Unread, Terminal

(* The rows an action may write have their type.                             *)
LEMMA RowTypes ==
  ASSUME WebhookAssumption, NEW row \in ItemType, NEW st \in {"pending", "delivering"} \cup Terminal
  PROVE  /\ NoRow \in ItemType /\ Created \in ItemType
         /\ [row EXCEPT !.status = st] \in ItemType
         /\ [row EXCEPT !.due = TRUE] \in ItemType
         /\ [row EXCEPT !.status = "pending", !.due = TRUE] \in ItemType
         /\ \A n \in Nat : [row EXCEPT !.status = "pending", !.retry = n, !.due = FALSE] \in ItemType
  BY DEF ItemType, NoRow, Created, Terminal

LEMMA RunTypes ==
  ASSUME NEW r \in RunType, NEW j \in Fetched
  PROVE  /\ Off \in RunType
         /\ \A pc \in {"off", "next", "load", "gone", "audit", "post", "item", "hook", "recover"} :
               At(pc, j) \in RunType /\ [r EXCEPT !.pc = pc] \in RunType
         /\ \A ok \in BOOLEAN : [r EXCEPT !.pc = "item", !.ok = ok] \in RunType
         /\ Off.job \in Fetched
  BY DEF RunType, Fetched, Off, At

LEMMA HookTypes ==
  ASSUME WebhookAssumption, NEW row \in HookType, NEW n \in Nat
  PROVE  /\ Cleared(row) \in HookType /\ Bumped(row, n) \in HookType
         /\ Enabled(row) \in HookType
         /\ [row EXCEPT !.active = FALSE] \in HookType
         /\ [row EXCEPT !.active = FALSE, !.deleted = TRUE] \in HookType
  BY DEF HookType, Cleared, Bumped, Enabled, WebhookAssumption

(* On to the next item: the run is where it may be, the batch and the cache  *)
(* are as they should be.                                                    *)
LEMMA TurnType ==
  ASSUME TypeOK, NEW k \in Runs, NEW b \in SUBSET Fetched, NEW known \in [Hooks -> CacheType],
         Turn(k, b, known)
  PROVE  /\ run' \in [Runs -> RunType]
         /\ batch' \in [Runs -> SUBSET Fetched]
         /\ cache' \in [Runs -> [Hooks -> CacheType]]
<1>1. Unread \in [Hooks -> CacheType]
  BY DEF Unread, CacheType
<1>2. Off \in RunType /\ At("next", Off.job) \in RunType
  BY DEF RunType, Off, At, Fetched
<1> QED
  BY <1>1, <1>2 DEF TypeOK, Turn

(* A run that has taken an item up knows which: with that the types are      *)
(* preserved.                                                                *)
Owned == \A k \in Runs : run[k].pc \notin {"off", "next"} => run[k].job.item \in Items
Listed == \A k \in Runs : \A b \in batch[k] : b.item \in Items
Types == TypeOK /\ Owned /\ Listed

LEMMA TypeStep ==
  ASSUME Types, [Next]_vars
  PROVE  TypeOK'
<1> USE WebhookAssumption DEF Types
<1> USE DEF postVars, runVars, hookVars, limitVars
<1>0. \A i \in Items : item[i] \in ItemType
  BY DEF TypeOK
<1>1. \A h \in Hooks : hook[h] \in HookType
  BY DEF TypeOK
<1>2. \A k \in Runs : run[k] \in RunType /\ batch[k] \in SUBSET Fetched /\ cache[k] \in [Hooks -> CacheType]
  BY DEF TypeOK
<1>3. ASSUME NEW kind, NEW s \in SUBSET Items, Event(kind, s)
      PROVE  events' \in Nat /\ upset' \subseteq Items
  BY <1>3 DEF Event, TypeOK
<1>4. ASSUME NEW i \in Items, Enqueue(i) PROVE item' \in [Items -> ItemType]
  BY <1>4 DEF TypeOK, Enqueue, Created, ItemType
<1>5. ASSUME NEW i \in Items, Dispatch(i) PROVE TypeOK'
  BY <1>4, <1>5 DEF TypeOK, Dispatch, Enqueue
<1>6. ASSUME NEW i \in Items, Test(i) PROVE TypeOK'
  BY <1>3, <1>4, <1>6 DEF TypeOK, Test, Enqueue
<1>7. ASSUME NEW i \in Items, BackoffEnds(i) PROVE TypeOK'
  BY <1>0, <1>7, RowTypes DEF TypeOK, BackoffEnds
<1>8. ASSUME NEW i \in Items, Requeue(i) PROVE TypeOK'
  BY <1>0, <1>3, <1>8, RowTypes DEF TypeOK, Requeue, SetItem
<1>9. ASSUME NEW i \in Items, Cancel(i) PROVE TypeOK'
  BY <1>0, <1>3, <1>9, RowTypes DEF TypeOK, Cancel, SetItem, Terminal
<1>10. ASSUME NEW h \in Hooks, Enable(h) PROVE TypeOK'
  <2>1. hook' \in [Hooks -> HookType] /\ UNCHANGED <<item, runVars, postVars>>
    BY <1>1, <1>10, HookTypes DEF TypeOK, Enable, SetHook
  <2>2. givenUp' \in [Hooks -> Nat] /\ misled' \subseteq Hooks
    BY <1>10 DEF TypeOK, Enable, StartOver
  <2>3. events' \in Nat /\ upset' \subseteq Items
    BY <1>3, <1>10 DEF Enable
  <2> QED
    BY <2>1, <2>2, <2>3 DEF TypeOK
<1>11. ASSUME NEW h \in Hooks, Disable(h) PROVE TypeOK'
  BY <1>1, <1>3, <1>11, HookTypes DEF TypeOK, Disable, SetHook
<1>12. ASSUME NEW h \in Hooks, Delete(h) PROVE TypeOK'
  BY <1>1, <1>3, <1>12, HookTypes DEF TypeOK, Delete, SetHook
<1>13. ASSUME NEW k \in Runs, Query(k) PROVE TypeOK'
  <2>1. \A b \in Batches : {[item |-> i, retry |-> item[i].retry] : i \in b} \in SUBSET Fetched
    BY <1>0 DEF Batches, Due, Fetched, ItemType
  <2>2. [run[k] EXCEPT !.pc = "next"] \in RunType
    BY <1>2 DEF RunType
  <2> QED
    BY <1>13, <2>1, <2>2 DEF TypeOK, Query
<1>14. ASSUME NEW k \in Runs, NEW b \in batch[k], Claim(k, b) PROVE TypeOK'
  <2>1. b \in Fetched /\ batch[k] \ {b} \in SUBSET Fetched /\ b.item \in Items
    BY <1>2 DEF Listed
  <2>2. CASE Claimable(b.item)
    <3>1. At("load", b) \in RunType
      BY <2>1 DEF At, RunType
    <3>2. [item[b.item] EXCEPT !.status = "delivering"] \in ItemType
      BY <1>0, <2>1, RowTypes
    <3>3. item' = [item EXCEPT ![b.item].status = "delivering"] /\ Take(k, b, "load")
      BY <1>14, <2>2 DEF Claim
    <3>4. item' \in [Items -> ItemType]
      BY <2>1, <3>2, <3>3 DEF TypeOK
    <3>5. run' \in [Runs -> RunType] /\ batch' \in [Runs -> SUBSET Fetched] /\ UNCHANGED cache
      BY <2>1, <3>1, <3>3 DEF TypeOK, Take
    <3> QED
      BY <1>14, <3>4, <3>5 DEF TypeOK, Claim
  <2>3. CASE ~Claimable(b.item)
    <3>1. Turn(k, batch[k] \ {b}, cache[k]) /\ UNCHANGED item
      BY <1>14, <2>3 DEF Claim
    <3> QED
      BY <1>2, <1>14, <2>1, <3>1, TurnType DEF TypeOK, Claim
  <2> QED
    BY <2>2, <2>3
<1>15. ASSUME NEW k \in Runs, NEW b \in batch[k], ClaimFails(k, b) PROVE TypeOK'
  <2>1. b \in Fetched /\ b.item \in Items
    BY <1>2 DEF Listed
  <2>2. At("recover", b) \in RunType
    BY <2>1 DEF At, RunType
  <2>3. run' \in [Runs -> RunType] /\ batch' \in [Runs -> SUBSET Fetched] /\ UNCHANGED cache
    BY <1>15, <2>1, <2>2 DEF TypeOK, ClaimFails, Take
  <2> QED
    BY <1>3, <1>15, <2>1, <2>3 DEF TypeOK, ClaimFails
<1>16. ASSUME NEW k \in Runs, Load(k) PROVE TypeOK'
  <2>1. HookOf[run[k].job.item] \in Hooks
    BY <1>16 DEF Load, Owned, WebhookAssumption
  <2>2. Looked(k, HookOf[run[k].job.item]) \in CacheType
    BY <1>1, <1>2, <2>1 DEF Looked, HookType, CacheType
  <2>3. [run[k] EXCEPT !.pc = "gone"] \in RunType /\ [run[k] EXCEPT !.pc = "post"] \in RunType
    BY <1>2 DEF RunType
  <2>4. run' = [run EXCEPT ![k].pc = "gone"] \/ run' = [run EXCEPT ![k].pc = "post"]
    BY <1>16 DEF Load, Goto
  <2>5. run' \in [Runs -> RunType]
    BY <2>3, <2>4 DEF TypeOK
  <2>6. cache' \in [Runs -> [Hooks -> CacheType]]
    BY <1>2, <1>16, <2>1, <2>2 DEF TypeOK, Load
  <2> QED
    BY <1>16, <2>5, <2>6 DEF TypeOK, Load
<1>17. ASSUME NEW k \in Runs, FailGone(k) PROVE TypeOK'
  <2>1. run[k].job.item \in Items
    BY <1>17 DEF FailGone, Owned
  <2>2. [run[k] EXCEPT !.pc = "audit"] \in RunType
    BY <1>2 DEF RunType
  <2> QED
    BY <1>0, <1>17, <2>1, <2>2, RowTypes DEF TypeOK, FailGone, Goto, Terminal
<1>18. ASSUME NEW k \in Runs, Audit(k) PROVE TypeOK'
  BY <1>2, <1>18, TurnType DEF TypeOK, Audit, Advance
<1>19. ASSUME NEW k \in Runs, Post(k) PROVE TypeOK'
  <2>1. run[k].job.item \in Items
    BY <1>19 DEF Post, Owned
  <2>2. \A ok \in BOOLEAN : [run[k] EXCEPT !.pc = "item", !.ok = ok] \in RunType
    BY <1>2 DEF RunType
  <2>3. \A n \in Nat : Counted(n) \in Nat
    BY DEF Counted
  <2>4. refused' \in [Items -> Nat]
    BY <1>19, <2>1, <2>3 DEF TypeOK, Post
  <2>5. run' \in [Runs -> RunType]
    <3>1. PICK ok \in BOOLEAN : run' = [run EXCEPT ![k] = [@ EXCEPT !.pc = "item", !.ok = ok]]
      BY <1>19 DEF Post
    <3> QED
      BY <2>2, <3>1 DEF TypeOK
  <2>6. accepted' \subseteq Items
    BY <1>19, <2>1 DEF TypeOK, Post
  <2>7. UNCHANGED <<item, batch, cache, hookVars, limitVars>>
    BY <1>19 DEF Post
  <2> QED
    BY <2>4, <2>5, <2>6, <2>7 DEF TypeOK
<1>20. ASSUME NEW k \in Runs, Settle(k) PROVE TypeOK'
  <2>1. run[k].job.item \in Items
    BY <1>20 DEF Settle, Owned
  <2>2. [run[k] EXCEPT !.pc = "hook"] \in RunType
    BY <1>2 DEF RunType
  <2>3. Attempt(k) \in Nat
    BY <1>2 DEF Attempt, RunType, Fetched
  <2>4. Settled(k, item[run[k].job.item]) \in ItemType
    BY <1>0, <2>1, <2>3, RowTypes DEF Settled, Terminal
  <2> QED
    BY <1>20, <2>1, <2>2, <2>4 DEF TypeOK, Settle, Goto
<1>21. ASSUME NEW k \in Runs, Mark(k) PROVE TypeOK'
  <2> DEFINE h == HookOf[run[k].job.item]
             count == cache[k][h].failures + 1
  <2>1. h \in Hooks
    BY <1>21 DEF Mark, Owned, WebhookAssumption
  <2>2. count \in Nat
    BY <1>2, <2>1 DEF CacheType
  <2>3. Cleared(hook[h]) \in HookType /\ Bumped(hook[h], count) \in HookType
    BY <1>1, <2>1, <2>2, HookTypes
  <2>4. [cache[k] EXCEPT ![h] = [@ EXCEPT !.failures = count]] \in [Hooks -> CacheType]
    <3> HIDE DEF h, count
    <3>1. cache[k] \in [Hooks -> CacheType]
      BY <1>2
    <3>2. [cache[k][h] EXCEPT !.failures = count] \in CacheType
      BY <2>1, <2>2, <3>1 DEF CacheType
    <3> QED
      BY <2>1, <3>1, <3>2
  <2>5. CASE Advance(k) /\ hook' = [hook EXCEPT ![h] = Cleared(@)] /\ StartOver(h)
    <3>0. UNCHANGED <<item, postVars, limitVars>>
      BY <1>21 DEF Mark
    <3> HIDE DEF h, count
    <3>2. givenUp' \in [Hooks -> Nat] /\ misled' \subseteq Hooks
      BY <2>1, <2>5 DEF TypeOK, StartOver
    <3>1. hook' \in [Hooks -> HookType]
      BY <2>1, <2>3, <2>5 DEF TypeOK
    <3> QED
      BY <1>2, <2>5, <3>0, <3>1, <3>2, TurnType DEF TypeOK, Advance
  <2>6. CASE /\ hook' = [hook EXCEPT ![h] = Bumped(@, count)]
             /\ givenUp' = [givenUp EXCEPT ![h] = @ + 1] /\ UNCHANGED misled
             /\ Turn(k, batch[k], [cache[k] EXCEPT ![h] = [@ EXCEPT !.failures = count]])
    <3>0. UNCHANGED <<item, postVars, limitVars>>
      BY <1>21 DEF Mark
    <3> HIDE DEF h, count
    <3>1. hook' \in [Hooks -> HookType]
      BY <2>1, <2>3, <2>6 DEF TypeOK
    <3>2. givenUp' \in [Hooks -> Nat]
      BY <2>1, <2>6 DEF TypeOK
    <3> QED
      BY <1>2, <2>1, <2>4, <2>6, <3>0, <3>1, <3>2, TurnType DEF TypeOK
  <2>7. CASE Advance(k) /\ UNCHANGED hookVars
    BY <1>2, <1>21, <2>7, TurnType DEF TypeOK, Mark, Advance
  <2> QED
    BY <1>21, <2>5, <2>6, <2>7 DEF Mark
<1>22. ASSUME NEW k \in Runs, WriteFails(k) PROVE TypeOK'
  <2>1. run[k].job.item \in Items
    BY <1>22 DEF WriteFails, Owned
  <2>2. [run[k] EXCEPT !.pc = "recover"] \in RunType
    BY <1>2 DEF RunType
  <2> QED
    BY <1>3, <1>22, <2>1, <2>2 DEF TypeOK, WriteFails, Goto
<1>23. ASSUME NEW k \in Runs, Recover(k) PROVE TypeOK'
  <2>1. run[k].job.item \in Items
    BY <1>23 DEF Recover, Owned
  <2>2. item' \in [Items -> ItemType]
    BY <1>0, <1>23, <2>1, RowTypes DEF TypeOK, Recover
  <2> QED
    BY <1>2, <1>23, <2>2, TurnType DEF TypeOK, Recover, Advance
<1>24. ASSUME NEW k \in Runs, RecoverFails(k) PROVE TypeOK'
  BY <1>2, <1>24, TurnType DEF TypeOK, RecoverFails, Advance
<1>25. ASSUME NEW k \in Runs, Crash(k) PROVE TypeOK'
  <2>1. Off \in RunType /\ Unread \in [Hooks -> CacheType]
    BY DEF Off, Unread, RunType, CacheType, Fetched
  <2> QED
    BY <1>3, <1>25, <2>1 DEF TypeOK, Crash
<1>26. CASE UNCHANGED vars
  BY <1>26 DEF vars, TypeOK
<1> QED
  BY <1>5, <1>6, <1>7, <1>8, <1>9, <1>10, <1>11, <1>12, <1>13, <1>14, <1>15, <1>16, <1>17, <1>18,
     <1>19, <1>20, <1>21, <1>22, <1>23, <1>24, <1>25, <1>26 DEF Next, RunStep

LEMMA OwnedStep ==
  ASSUME Types, [Next]_vars
  PROVE  Owned' /\ Listed'
<1> USE WebhookAssumption DEF Types
<1> USE DEF postVars, runVars, hookVars, limitVars
<1>0. \A k \in Runs : /\ run[k] \in RunType /\ run[k] = [run[k] EXCEPT !.pc = run[k].pc]
                      /\ batch[k] \in SUBSET Fetched
  BY DEF TypeOK, RunType
<1>1. ASSUME NEW k \in Runs, NEW b \in SUBSET Fetched, NEW known, Turn(k, b, known),
             \A f \in b : f.item \in Items
      PROVE  Owned' /\ Listed'
  BY <1>1 DEF TypeOK, Turn, Owned, Listed, Off, At
<1>2. ASSUME NEW k \in Runs, Advance(k) PROVE Owned' /\ Listed'
  BY <1>0, <1>1, <1>2 DEF Advance, Listed
<1>3. ASSUME NEW k \in Runs, NEW pc, Goto(k, pc), run[k].job.item \in Items, UNCHANGED batch
      PROVE  Owned' /\ Listed'
  BY <1>0, <1>3 DEF TypeOK, Goto, Owned, Listed, RunType
<1>4. ASSUME NEW k \in Runs, NEW b \in batch[k], NEW pc, Take(k, b, pc) PROVE Owned' /\ Listed'
  BY <1>4 DEF TypeOK, Take, Owned, Listed, At
<1>5. ASSUME UNCHANGED <<run, batch>> PROVE Owned' /\ Listed'
  BY <1>5 DEF Owned, Listed
<1>6. ASSUME NEW k \in Runs, Query(k) PROVE Owned' /\ Listed'
  <2>1. \A l \in Runs : run'[l].pc \notin {"off", "next"} => run'[l] = run[l]
    BY <1>6 DEF TypeOK, Query, RunType
  <2>2. PICK b \in Batches :
           batch' = [batch EXCEPT ![k] = {[item |-> i, retry |-> item[i].retry] : i \in b}]
    BY <1>6 DEF Query
  <2> DEFINE F == {[item |-> i, retry |-> item[i].retry] : i \in b}
  <2>3. \A f \in F : f.item \in Items
    BY DEF Batches, Due
  <2>4. batch' = [batch EXCEPT ![k] = F]
    BY <2>2
  <2> HIDE DEF F
  <2> QED
    BY <2>1, <2>3, <2>4 DEF TypeOK, Owned, Listed
<1>7. ASSUME NEW k \in Runs, NEW b \in batch[k], Claim(k, b) PROVE Owned' /\ Listed'
  <2>1. CASE Claimable(b.item)
    BY <1>4, <1>7, <2>1 DEF Claim
  <2>2. CASE ~Claimable(b.item)
    <3>1. Turn(k, batch[k] \ {b}, cache[k])
      BY <1>7, <2>2 DEF Claim
    <3>2. batch[k] \ {b} \in SUBSET Fetched /\ \A f \in batch[k] \ {b} : f.item \in Items
      BY <1>0 DEF Listed
    <3> QED
      BY <1>1, <3>1, <3>2
  <2> QED
    BY <2>1, <2>2
<1>8. ASSUME NEW k \in Runs, Load(k) PROVE Owned' /\ Listed'
  BY <1>3, <1>8 DEF Load, Owned
<1>9. ASSUME NEW k \in Runs, Post(k) PROVE Owned' /\ Listed'
  <2>1. PICK ok \in BOOLEAN : run' = [run EXCEPT ![k] = [@ EXCEPT !.pc = "item", !.ok = ok]]
    BY <1>9 DEF Post
  <2>2. \A l \in Runs : run'[l].job = run[l].job /\ (l # k => run'[l] = run[l])
    BY <1>0, <2>1 DEF TypeOK, RunType
  <2>3. run[k].job.item \in Items
    BY <1>9 DEF Post, Owned
  <2> QED
    BY <1>9, <2>2, <2>3 DEF Post, Owned, Listed
<1>10. ASSUME NEW k \in Runs, Mark(k) PROVE Owned' /\ Listed'
  BY <1>0, <1>1, <1>2, <1>10 DEF Mark, Listed
<1>11. ASSUME NEW k \in Runs, Crash(k) PROVE Owned' /\ Listed'
  BY <1>11 DEF TypeOK, Crash, Owned, Listed, Off
<1>12. ASSUME NEW k \in Runs, FailGone(k) \/ Settle(k) \/ WriteFails(k) PROVE Owned' /\ Listed'
  BY <1>3, <1>12 DEF FailGone, Settle, WriteFails, Owned
<1>13. ASSUME NEW k \in Runs, Audit(k) \/ Recover(k) \/ RecoverFails(k) PROVE Owned' /\ Listed'
  BY <1>2, <1>13 DEF Audit, Recover, RecoverFails
<1>14. ASSUME NEW k \in Runs, NEW b \in batch[k], ClaimFails(k, b) PROVE Owned' /\ Listed'
  BY <1>4, <1>14 DEF ClaimFails
<1>15. ASSUME NEW i \in Items, Dispatch(i) \/ Test(i) \/ BackoffEnds(i) \/ Requeue(i) \/ Cancel(i)
       PROVE  Owned' /\ Listed'
  BY <1>5, <1>15 DEF Dispatch, Test, Enqueue, BackoffEnds, Requeue, Cancel, SetItem
<1>16. ASSUME NEW h \in Hooks, Enable(h) \/ Disable(h) \/ Delete(h) PROVE Owned' /\ Listed'
  BY <1>5, <1>16 DEF Enable, Disable, Delete, SetHook
<1> QED
  BY <1>5, <1>6, <1>7, <1>8, <1>9, <1>10, <1>11, <1>12, <1>13, <1>14, <1>15, <1>16 DEF Next, RunStep, vars

LEMMA TypesAlways == Spec => []Types
<1>1. Init => Types
  BY InitType DEF Init, Types, Owned, Listed, Off
<1>2. Types /\ [Next]_vars => Types'
  BY TypeStep, OwnedStep DEF Types
<1> QED
  BY <1>1, <1>2, PTL DEF Spec

(* Every variable keeps its type.                                            *)
THEOREM TypeCorrect == Spec => []TypeOK
<1>1. Types => TypeOK
  BY DEF Types
<1> QED
  BY <1>1, TypesAlways, PTL

-----------------------------------------------------------------------------
(* Webhooks.  A failure count, of a document or of a cache, counts items     *)
(* that were given up since the last enabling or delivery, unless a run kept *)
(* one that is older; what a cache calls gone is deleted.                    *)
HookFits == \A h \in Hooks : hook[h].failures <= givenUp[h] \/ h \in misled
CacheFits == \A k \in Runs, h \in Hooks : /\ cache[k][h].failures <= givenUp[h] \/ h \in misled
                                          /\ cache[k][h].gone => hook[h].deleted
GoneFits == \A k \in Runs : run[k].pc = "gone" => hook[HookOf[run[k].job.item]].deleted
Counting == HookFits /\ CacheFits /\ GoneFits

(* Counts start over together, or some run is misled.                        *)
Over(h) == /\ givenUp'[h] = 0 /\ hook'[h].failures = 0
           /\ h \in misled' \/ \A k \in Runs : cache'[k][h].failures = 0
HookGrows(h) ==
    /\ givenUp[h] \in Nat /\ givenUp'[h] \in Nat
    /\ givenUp'[h] >= givenUp[h] \/ Over(h)
    /\ h \in misled => h \in misled'
    /\ hook[h].deleted => hook'[h].deleted

LEMMA StartedOver ==
  ASSUME TypeOK, TypeOK', NEW h \in Hooks, StartOver(h), hook'[h].failures = 0
  PROVE  /\ Over(h) /\ givenUp[h] \in Nat /\ givenUp'[h] \in Nat
         /\ \A w \in Hooks \ {h} : givenUp'[w] = givenUp[w] /\ givenUp[w] \in Nat
         /\ \A w \in Hooks : w \in misled => w \in misled'
<1>1. \A k \in Runs : cache'[k][h].failures \in Nat
  BY DEF TypeOK, CacheType
<1>2. h \in misled' \/ \A k \in Runs : ~(cache'[k][h].failures > 0)
  BY DEF StartOver
<1> QED
  BY <1>1, <1>2 DEF TypeOK, StartOver, Over

(* Items stay given up until the count starts over; webhooks stay deleted.   *)
LEMMA HooksGrow ==
  ASSUME Types, TypeOK', [Next]_vars
  PROVE  \A h \in Hooks : HookGrows(h)
<1> USE WebhookAssumption DEF Types, hookVars
<1>0. \A h \in Hooks : givenUp[h] \in Nat /\ hook[h] \in HookType
  BY DEF TypeOK
<1>1. CASE UNCHANGED <<hook, givenUp, misled>>
  BY <1>0, <1>1 DEF HookGrows
<1>2. ASSUME NEW k \in Runs, Mark(k) PROVE \A h \in Hooks : HookGrows(h)
  <2> DEFINE w == HookOf[run[k].job.item]
             count == cache[k][w].failures + 1
  <2>1. w \in Hooks
    BY <1>2 DEF Mark, Owned
  <2>2. \/ hook' = [hook EXCEPT ![w] = Cleared(hook[w])] /\ StartOver(w)
        \/ /\ hook' = [hook EXCEPT ![w] = Bumped(hook[w], count)] /\ givenUp' = [givenUp EXCEPT ![w] = @ + 1]
           /\ UNCHANGED misled
        \/ UNCHANGED <<hook, givenUp, misled>>
    BY <1>2 DEF Mark
  <2>3. \A n : Bumped(hook[w], n).deleted = hook[w].deleted
    BY <1>0, <2>1 DEF Bumped, HookType
  <2>4. Cleared(hook[w]).deleted = hook[w].deleted /\ Cleared(hook[w]).failures = 0
    BY <1>0, <2>1 DEF Cleared, HookType
  <2> HIDE DEF w, count
  <2>5. \A h \in Hooks : hook'[h] = hook[h] \/ (h = w /\ hook'[h].deleted = hook[h].deleted)
    BY <2>1, <2>2, <2>3, <2>4 DEF TypeOK
  <2>6. CASE hook' = [hook EXCEPT ![w] = Cleared(hook[w])] /\ StartOver(w)
    <3>1. hook'[w].failures = 0
      BY <2>1, <2>4, <2>6 DEF TypeOK
    <3>2. /\ Over(w) /\ givenUp'[w] \in Nat
          /\ \A h \in Hooks \ {w} : givenUp'[h] = givenUp[h]
          /\ \A h \in Hooks : h \in misled => h \in misled'
      BY <2>1, <2>6, <3>1, StartedOver
    <3> QED
      BY <1>0, <2>5, <3>2 DEF HookGrows
  <2>7. CASE ~StartOver(w)
    <3>1. \A h \in Hooks : givenUp'[h] = givenUp[h] \/ givenUp'[h] = givenUp[h] + 1
      BY <2>1, <2>2, <2>7 DEF TypeOK
    <3> QED
      BY <1>0, <2>2, <2>5, <2>7, <3>1 DEF HookGrows
  <2>8. CASE hook' # [hook EXCEPT ![w] = Cleared(hook[w])]
    <3>1. \A h \in Hooks : givenUp'[h] = givenUp[h] \/ givenUp'[h] = givenUp[h] + 1
      BY <2>1, <2>2, <2>8 DEF TypeOK
    <3> QED
      BY <1>0, <2>2, <2>5, <2>8, <3>1 DEF HookGrows
  <2> QED
    BY <2>6, <2>7, <2>8
<1>3. ASSUME NEW h \in Hooks, NEW row, SetHook(h, row), row.deleted = hook[h].deleted \/ row.deleted,
             UNCHANGED <<givenUp, misled>> \/ (StartOver(h) /\ row.failures = 0)
      PROVE  \A w \in Hooks : HookGrows(w)
  <2>1. hook'[h] = row /\ \A w \in Hooks \ {h} : hook'[w] = hook[w]
    BY <1>3 DEF TypeOK, SetHook
  <2>2. CASE UNCHANGED <<givenUp, misled>>
    BY <1>0, <1>3, <2>1, <2>2 DEF HookGrows
  <2>3. CASE StartOver(h) /\ row.failures = 0
    <3>1. /\ Over(h) /\ givenUp'[h] \in Nat
          /\ \A w \in Hooks \ {h} : givenUp'[w] = givenUp[w]
          /\ \A w \in Hooks : w \in misled => w \in misled'
      BY <2>1, <2>3, StartedOver
    <3> QED
      BY <1>0, <1>3, <2>1, <3>1 DEF HookGrows
  <2> QED
    BY <1>3, <2>2, <2>3
<1>4. ASSUME NEW h \in Hooks
      PROVE  /\ Enabled(hook[h]).deleted = hook[h].deleted /\ Enabled(hook[h]).failures = 0
             /\ [hook[h] EXCEPT !.active = FALSE].deleted = hook[h].deleted
             /\ [hook[h] EXCEPT !.active = FALSE, !.deleted = TRUE].deleted
  BY <1>0 DEF HookType, Enabled
<1>5. ASSUME NEW h \in Hooks, Enable(h) \/ Disable(h) \/ Delete(h) PROVE \A w \in Hooks : HookGrows(w)
  BY <1>3, <1>4, <1>5 DEF Enable, Disable, Delete
<1>6. CASE UNCHANGED vars
  BY <1>1, <1>6 DEF vars
<1>7. CASE \/ \E i \in Items : Dispatch(i) \/ Test(i) \/ BackoffEnds(i) \/ Requeue(i) \/ Cancel(i)
           \/ \E k \in Runs : \/ Query(k) \/ Load(k) \/ FailGone(k) \/ Audit(k) \/ Post(k) \/ Settle(k)
                              \/ Recover(k) \/ WriteFails(k) \/ RecoverFails(k) \/ Crash(k)
                              \/ \E b \in batch[k] : Claim(k, b) \/ ClaimFails(k, b)
  BY <1>1, <1>7 DEF Dispatch, Test, Enqueue, BackoffEnds, Requeue, Cancel, SetItem, Query, Load, FailGone,
     Audit, Post, Settle, Recover, WriteFails, RecoverFails, Crash, Claim, ClaimFails
<1> QED
  BY <1>2, <1>5, <1>6, <1>7 DEF Next, RunStep

LEMMA CountingStep ==
  ASSUME Types, TypeOK', Counting, [Next]_vars
  PROVE  Counting'
<1>00. \A h \in Hooks : HookGrows(h)
  BY HooksGrow
<1> USE WebhookAssumption DEF Types
<1> USE DEF hookVars
<1>0. \A h \in Hooks : /\ givenUp[h] \in Nat /\ givenUp'[h] \in Nat
                       /\ givenUp'[h] >= givenUp[h] \/ Over(h)
                       /\ h \in misled => h \in misled'
                       /\ hook[h].deleted => hook'[h].deleted
  BY <1>00 DEF HookGrows
<1>1. \A k \in Runs, h \in Hooks : cache[k][h].failures \in Nat /\ hook[h].failures \in Nat
  BY DEF TypeOK, CacheType, HookType
<1>2. ASSUME UNCHANGED hookVars PROVE HookFits'
  BY <1>2 DEF Counting, HookFits
<1>3. ASSUME UNCHANGED cache PROVE CacheFits'
  BY <1>0, <1>1, <1>3 DEF Counting, CacheFits, Over
<1>4. ASSUME NEW k \in Runs, NEW b, NEW known, Turn(k, b, known),
             \A h \in Hooks : (known[h].failures <= givenUp'[h] \/ h \in misled' \/ Over(h)) /\ (known[h].gone => hook'[h].deleted)
      PROVE  CacheFits' /\ GoneFits'
  <2>1. \A l \in Runs : run'[l].pc = "gone" => run'[l] = run[l]
    BY <1>4 DEF TypeOK, Turn, Off, At
  <2>2. GoneFits'
    BY <1>0, <2>1 DEF Counting, GoneFits, Owned
  <2>3. \A l \in Runs : cache'[l] = cache[l] \/ cache'[l] = known \/ cache'[l] = Unread
    BY <1>4 DEF TypeOK, Turn
  <2>4. CacheFits'
    BY <1>0, <1>1, <1>4, <2>3 DEF Counting, CacheFits, Unread, Over
  <2> QED
    BY <2>2, <2>4
<1>5. ASSUME NEW k \in Runs, Advance(k) PROVE CacheFits' /\ GoneFits'
  <2>1. \A h \in Hooks : (cache[k][h].failures <= givenUp'[h] \/ h \in misled' \/ Over(h)) /\ (cache[k][h].gone => hook'[h].deleted)
    BY <1>0, <1>1 DEF Counting, CacheFits
  <2> QED
    BY <1>4, <1>5, <2>1 DEF Advance
<1>6. ASSUME \A l \in Runs : run'[l].pc = "gone" => run'[l] = run[l] PROVE GoneFits'
  BY <1>0, <1>6 DEF Counting, GoneFits, Owned
<1>7. ASSUME NEW k \in Runs, NEW pc, Goto(k, pc), pc # "gone" PROVE GoneFits'
  BY <1>6, <1>7 DEF TypeOK, Goto, RunType
<1>8. ASSUME NEW k \in Runs, NEW b, NEW pc, Take(k, b, pc), pc # "gone" PROVE GoneFits'
  BY <1>6, <1>8 DEF TypeOK, Take, At
<1>9. ASSUME NEW k \in Runs, Query(k) PROVE Counting'
  BY <1>2, <1>3, <1>7, <1>9 DEF Query, Goto, Counting
<1>10. ASSUME NEW k \in Runs, NEW b \in batch[k], Claim(k, b) PROVE Counting'
  <2>1. CASE Claimable(b.item)
    BY <1>2, <1>3, <1>8, <1>10, <2>1 DEF Claim, Take, Counting
  <2>2. CASE ~Claimable(b.item)
    <3>1. \A h \in Hooks : (cache[k][h].failures <= givenUp'[h] \/ h \in misled' \/ Over(h)) /\ (cache[k][h].gone => hook'[h].deleted)
      BY <1>0, <1>1 DEF Counting, CacheFits
    <3> QED
      BY <1>2, <1>4, <1>10, <2>2, <3>1 DEF Claim, Counting
  <2> QED
    BY <2>1, <2>2
<1>11. ASSUME NEW k \in Runs, NEW b \in batch[k], ClaimFails(k, b) PROVE Counting'
  BY <1>2, <1>3, <1>8, <1>11 DEF ClaimFails, Take, Counting
<1>12. ASSUME NEW k \in Runs, Load(k) PROVE Counting'
  <2> DEFINE w == HookOf[run[k].job.item]
             seen == Looked(k, w)
  <2>1. w \in Hooks
    BY <1>12 DEF Load, Owned
  <2>2. (seen.failures <= givenUp[w] \/ w \in misled) /\ (seen.gone => hook[w].deleted)
    BY <1>1, <2>1 DEF Looked, Counting, CacheFits, HookFits
  <2>3. /\ cache' = [cache EXCEPT ![k] = [cache[k] EXCEPT ![w] = seen]]
        /\ run' = [run EXCEPT ![k].pc = IF seen.gone THEN "gone" ELSE "post"]
        /\ UNCHANGED hookVars
    BY <1>12 DEF Load, Goto
  <2>4. run'[k].job = run[k].job /\ (run'[k].pc = "gone" => seen.gone) /\ \A l \in Runs \ {k} : run'[l] = run[l]
    <3>1. run \in [Runs -> RunType] /\ run[k] \in RunType
      BY DEF TypeOK
    <3> HIDE DEF seen
    <3>2. run'[k] = [run[k] EXCEPT !.pc = IF seen.gone THEN "gone" ELSE "post"]
      BY <2>3, <3>1
    <3>3. run'[k].job = run[k].job /\ (run'[k].pc = "gone" => seen.gone)
      BY <3>1, <3>2 DEF RunType
    <3>4. \A l \in Runs \ {k} : run'[l] = run[l]
      BY <2>3, <3>1
    <3> QED
      BY <3>3, <3>4
  <2>5. \A l \in Runs, h \in Hooks : cache'[l][h] = cache[l][h] \/ (h = w /\ cache'[l][h] = seen)
    BY <2>1, <2>3 DEF TypeOK
  <2> HIDE DEF seen
  <2>6. GoneFits'
    BY <2>2, <2>3, <2>4 DEF Counting, GoneFits
  <2>7. CacheFits'
    BY <2>2, <2>3, <2>5 DEF Counting, CacheFits
  <2> QED
    BY <1>2, <2>3, <2>6, <2>7 DEF Counting
<1>13. ASSUME NEW k \in Runs, FailGone(k) \/ Settle(k) \/ WriteFails(k) PROVE Counting'
  BY <1>2, <1>3, <1>7, <1>13 DEF FailGone, Settle, WriteFails, Counting
<1>14. ASSUME NEW k \in Runs, Audit(k) \/ Recover(k) \/ RecoverFails(k) PROVE Counting'
  BY <1>2, <1>5, <1>14 DEF Audit, Recover, RecoverFails, Counting
<1>15. ASSUME NEW k \in Runs, Post(k) PROVE Counting'
  <2>1. PICK ok \in BOOLEAN : run' = [run EXCEPT ![k] = [run[k] EXCEPT !.pc = "item", !.ok = ok]]
    BY <1>15 DEF Post
  <2>2. \A l \in Runs : run'[l].pc = "gone" => run'[l] = run[l]
    BY <2>1 DEF TypeOK, RunType
  <2> QED
    BY <1>2, <1>3, <1>6, <1>15, <2>2 DEF Post, Counting
<1>16. ASSUME NEW k \in Runs, Crash(k) PROVE Counting'
  <2>1. \A l \in Runs : run'[l].pc = "gone" => run'[l] = run[l]
    BY <1>16 DEF TypeOK, Crash, Off
  <2>2. \A l \in Runs : cache'[l] = cache[l] \/ cache'[l] = Unread
    BY <1>16 DEF TypeOK, Crash
  <2>3. CacheFits'
    BY <1>0, <1>1, <2>2 DEF Counting, CacheFits, Unread, Over
  <2> QED
    BY <1>2, <1>6, <1>16, <2>1, <2>3 DEF Crash, Counting
<1>17. ASSUME NEW k \in Runs, Mark(k) PROVE Counting'
  <2> DEFINE w == HookOf[run[k].job.item]
             count == cache[k][w].failures + 1
  <2>0. w \in Hooks
    BY <1>17 DEF Mark, Owned
  <2>1. /\ count \in Nat
        /\ count <= givenUp[w] + 1 \/ w \in misled
        /\ \A h \in Hooks : hook[h] \in HookType
    BY <1>0, <1>1, <2>0 DEF TypeOK, Counting, CacheFits
  <2>2. CASE Advance(k) /\ hook' = [hook EXCEPT ![w] = Cleared(hook[w])] /\ StartOver(w)
    <3>1. Cleared(hook[w]).failures = 0
      BY <2>0, <2>1 DEF Cleared, HookType
    <3>2. /\ hook'[w] = Cleared(hook[w])
          /\ \A h \in Hooks \ {w} : hook'[h] = hook[h] /\ givenUp'[h] = givenUp[h]
      <4> HIDE DEF w
      <4> QED
        BY <2>0, <2>2 DEF TypeOK, StartOver
    <3>3. HookFits'
      <4> HIDE DEF w
      <4> QED
        BY <1>0, <2>0, <3>1, <3>2 DEF Counting, HookFits
    <3> QED
      BY <1>5, <2>2, <3>3 DEF Counting
  <2>3. CASE /\ hook' = [hook EXCEPT ![w] = Bumped(hook[w], count)]
             /\ givenUp' = [givenUp EXCEPT ![w] = @ + 1] /\ UNCHANGED misled
             /\ Turn(k, batch[k], [cache[k] EXCEPT ![w] = [cache[k][w] EXCEPT !.failures = count]])
    <3>1. Bumped(hook[w], count).failures = count
      BY <2>0, <2>1 DEF Bumped, HookType
    <3> DEFINE known == [cache[k] EXCEPT ![w] = [cache[k][w] EXCEPT !.failures = count]]
    <3>2. \A h \in Hooks : /\ known[h].gone = cache[k][h].gone
                           /\ known[h].failures = IF h = w THEN count ELSE cache[k][h].failures
      BY <2>0 DEF TypeOK, CacheType
    <3>3. Turn(k, batch[k], known)
      BY <2>3
    <3>4. givenUp'[w] = givenUp[w] + 1 /\ \A h \in Hooks \ {w} : givenUp'[h] = givenUp[h]
      BY <2>0, <2>3 DEF TypeOK
    <3> HIDE DEF known, count
    <3>5. \A h \in Hooks : (known[h].failures <= givenUp'[h] \/ h \in misled' \/ Over(h)) /\ (known[h].gone => hook'[h].deleted)
      BY <1>0, <1>1, <2>0, <2>1, <3>2, <3>4 DEF Counting, CacheFits
    <3>6. hook'[w] = Bumped(hook[w], count) /\ \A h \in Hooks \ {w} : hook'[h] = hook[h]
      BY <2>0, <2>3 DEF TypeOK
    <3>7. HookFits'
      <4>1. \A h \in Hooks : misled' = misled /\ (hook[h].failures <= givenUp[h] \/ h \in misled)
        BY <2>3 DEF Counting, HookFits
      <4>2. count <= givenUp[w] + 1 \/ w \in misled
        BY <2>1
      <4>3. hook'[w].failures <= givenUp'[w] \/ w \in misled'
        BY <2>0, <3>1, <3>4, <3>6, <4>1, <4>2
      <4>4. ASSUME NEW h \in Hooks, h # w PROVE hook'[h].failures <= givenUp'[h] \/ h \in misled'
        BY <3>4, <3>6, <4>1, <4>4
      <4> QED
        BY <4>3, <4>4 DEF HookFits
    <3> QED
      BY <1>4, <3>3, <3>5, <3>7 DEF Counting
  <2>4. CASE Advance(k) /\ UNCHANGED hookVars
    BY <1>2, <1>5, <2>4 DEF Counting
  <2> QED
    BY <1>17, <2>2, <2>3, <2>4 DEF Mark
<1>18. ASSUME NEW i \in Items, Dispatch(i) \/ Test(i) \/ BackoffEnds(i) \/ Requeue(i) \/ Cancel(i)
       PROVE  Counting'
  <2>1. UNCHANGED hookVars /\ UNCHANGED runVars
    BY <1>18 DEF Dispatch, Test, Enqueue, BackoffEnds, Requeue, Cancel, SetItem
  <2> QED
    BY <1>2, <1>3, <1>6, <2>1 DEF runVars, Counting
<1>19. ASSUME NEW h \in Hooks, Enable(h) \/ Disable(h) \/ Delete(h) PROVE Counting'
  <2>1. UNCHANGED runVars
    BY <1>19 DEF Enable, Disable, Delete, SetHook
  <2>2. \A w \in Hooks : hook'[w].failures = hook[w].failures \/ hook'[w].failures = 0
    <3>1. hook[h] \in HookType
      BY DEF TypeOK
    <3>2. Enabled(hook[h]).failures = 0
      BY <3>1 DEF Enabled, HookType
    <3>3. /\ [hook[h] EXCEPT !.active = FALSE].failures = hook[h].failures
          /\ [hook[h] EXCEPT !.active = FALSE, !.deleted = TRUE].failures = hook[h].failures
      BY <3>1 DEF HookType
    <3>4. \E row : /\ hook' = [hook EXCEPT ![h] = row]
                   /\ row.failures = hook[h].failures \/ row.failures = 0
      BY <1>19, <3>2, <3>3 DEF Enable, Disable, Delete, SetHook
    <3> QED
      BY <3>4 DEF TypeOK
  <2>3. HookFits'
    <3>1. SUFFICES ASSUME NEW w \in Hooks PROVE hook'[w].failures <= givenUp'[w] \/ w \in misled'
      BY DEF HookFits
    <3>2. /\ hook[w].failures \in Nat /\ givenUp[w] \in Nat /\ givenUp'[w] \in Nat
          /\ hook'[w].failures = hook[w].failures \/ hook'[w].failures = 0
      BY <1>0, <1>1, <2>2, h \in Hooks DEF TypeOK, HookType
    <3>3. hook[w].failures <= givenUp[w] \/ w \in misled'
      BY <1>0 DEF Counting, HookFits
    <3>4. givenUp'[w] >= givenUp[w] \/ (givenUp'[w] = 0 /\ hook'[w].failures = 0)
      BY <1>0 DEF Over
    <3> QED
      BY <3>2, <3>3, <3>4
  <2> QED
    BY <1>3, <1>6, <2>1, <2>3 DEF runVars, Counting
<1>20. CASE UNCHANGED vars
  BY <1>2, <1>3, <1>6, <1>20 DEF vars, runVars, Counting
<1> QED
  BY <1>9, <1>10, <1>11, <1>12, <1>13, <1>14, <1>15, <1>16, <1>17, <1>18, <1>19, <1>20 DEF Next, RunStep

LEMMA CountingAlways == Spec => [](Types /\ Counting)
<1>1. Init => Types
  BY InitType DEF Init, Types, Owned, Listed, Off
<1>2. Init => Counting
  BY WebhookAssumption DEF Init, WebhookAssumption, Counting, HookFits, CacheFits, GoneFits, Fresh, Unread, Off
<1>3. Types /\ Counting /\ [Next]_vars => (Types /\ Counting)'
  <2> SUFFICES ASSUME Types, Counting, [Next]_vars PROVE Types' /\ Counting'
    OBVIOUS
  <2> QED
    BY TypeStep, OwnedStep, CountingStep DEF Types
<1> QED
  BY <1>1, <1>2, <1>3, PTL DEF Spec

(* No webhook is disabled by the worker before Threshold of its items were   *)
(* given up since it was last enabled or delivered to, however many runs     *)
(* overwrite its count, unless one of them went on with an older count.      *)
THEOREM WebhooksDisabledForCause == Spec => DisabledForCause
<1>1. ASSUME Types, TypeOK', Counting, [Next]_vars, NEW h \in Hooks, h \notin misled', ~hook[h].auto, hook'[h].auto
      PROVE  givenUp'[h] >= Threshold
  <2>1. givenUp[h] \in Nat /\ hook[h] \in HookType /\ \A k \in Runs : cache[k][h].failures \in Nat
    BY <1>1 DEF Types, TypeOK, CacheType
  <2>2. h \notin misled
    BY <1>1, HooksGrow DEF HookGrows
  <2>3. \A k \in Runs : cache[k][h].failures <= givenUp[h]
    BY <1>1, <2>2 DEF Counting, CacheFits
  <2>4. hook'[h] # hook[h]
    BY <1>1
  <2>5. ASSUME NEW g \in Hooks PROVE ~(Enable(g) \/ Disable(g) \/ Delete(g))
    <3>1. hook[g] \in HookType
      BY <1>1 DEF Types, TypeOK
    <3>2. /\ ~Enabled(hook[g]).auto
          /\ [hook[g] EXCEPT !.active = FALSE].auto = hook[g].auto
          /\ [hook[g] EXCEPT !.active = FALSE, !.deleted = TRUE].auto = hook[g].auto
      BY <3>1 DEF Enabled, HookType
    <3>3. \A row : SetHook(g, row) => hook'[h] = hook[h] \/ (g = h /\ hook'[h] = row)
      BY <1>1 DEF SetHook, Types, TypeOK
    <3> QED
      BY <1>1, <2>4, <3>2, <3>3 DEF Enable, Disable, Delete
  <2>6. PICK k \in Runs : Mark(k)
    BY <1>1, <2>4, <2>5 DEF Next, RunStep, Dispatch, Test, Enqueue, BackoffEnds, Requeue, Cancel, SetItem, Query,
       Load, FailGone, Audit, Post, Settle, Recover, WriteFails, RecoverFails, Crash, Claim, ClaimFails, vars, hookVars
  <2> DEFINE w == HookOf[run[k].job.item]
             count == cache[k][w].failures + 1
  <2>7. \/ hook' = [hook EXCEPT ![w] = Cleared(hook[w])]
        \/ hook' = [hook EXCEPT ![w] = Bumped(hook[w], count)] /\ givenUp' = [givenUp EXCEPT ![w] = @ + 1]
        \/ hook' = hook
    BY <2>6 DEF Mark, hookVars
  <2>8. w = h
    BY <1>1, <2>4, <2>7 DEF Types, TypeOK
  <2>9. Cleared(hook[h]).auto = hook[h].auto /\ (count < Threshold => Bumped(hook[h], count).auto = hook[h].auto)
    <3>1. hook[h] \in HookType
      BY <2>1
    <3>2. Cleared(hook[h]).auto = hook[h].auto
      BY <3>1 DEF Cleared, HookType
    <3>3. ASSUME NEW n \in Nat, n < Threshold PROVE Bumped(hook[h], n).auto = hook[h].auto
      <4>1. ~(n >= Threshold)
        BY <3>3, WebhookAssumption DEF WebhookAssumption
      <4>2. Bumped(hook[h], n) = [hook[h] EXCEPT !.failures = n]
        BY <4>1 DEF Bumped
      <4> QED
        BY <3>1, <4>2 DEF HookType
    <3>4. count \in Nat
      BY <2>1, <2>8
    <3> HIDE DEF count
    <3> QED
      BY <3>2, <3>3, <3>4
  <2>10. count >= Threshold /\ givenUp'[h] = givenUp[h] + 1
    <3>1. count \in Nat /\ Threshold \in Nat
      BY <2>1, <2>8, WebhookAssumption DEF WebhookAssumption
    <3> HIDE DEF count, w
    <3> QED
      BY <1>1, <2>7, <2>8, <2>9, <3>1 DEF Types, TypeOK
  <2> QED
    BY <2>1, <2>3, <2>8, <2>10, WebhookAssumption DEF WebhookAssumption
<1>2. Types /\ Counting /\ [Next]_vars /\ (Types /\ Counting)' =>
        [\A h \in Hooks \ misled' : ~hook[h].auto /\ hook'[h].auto => givenUp'[h] >= Threshold]_vars
  BY <1>1 DEF Types
<1> QED
  BY <1>2, CountingAlways, PTL DEF Spec, DisabledForCause

-----------------------------------------------------------------------------
(* Attempts.  A retry count, of a document, a batch or a run, however stale, *)
(* counts posts that were refused.                                           *)
ItemTries == \A i \in Items : item[i].retry <= refused[i] /\ item[i].retry <= MaxRetries
BatchTries == \A k \in Runs : \A b \in batch[k] : b.retry <= refused[b.item] /\ b.retry <= MaxRetries
RunTries == \A k \in Runs : run[k].pc \notin {"off", "next"} =>
               /\ run[k].job.retry <= refused[run[k].job.item]
               /\ run[k].job.retry <= MaxRetries
               /\ run[k].pc = "item" /\ ~run[k].ok => run[k].job.retry < refused[run[k].job.item]
Tries == ItemTries /\ BatchTries /\ RunTries /\ GivenUpAfterRetries

LEMMA RefusedGrows ==
  ASSUME Types, [Next]_vars
  PROVE  \A i \in Items : refused[i] \in Nat /\ refused'[i] \in Nat /\ refused'[i] >= refused[i]
<1> USE WebhookAssumption DEF Types, postVars
<1>0. \A i \in Items : refused[i] \in Nat
  BY DEF TypeOK
<1>1. CASE UNCHANGED refused
  BY <1>0, <1>1
<1>2. ASSUME NEW k \in Runs, Post(k)
      PROVE  \A i \in Items : refused[i] \in Nat /\ refused'[i] \in Nat /\ refused'[i] >= refused[i]
  <2>1. \/ UNCHANGED refused
        \/ refused' = [refused EXCEPT ![run[k].job.item] = Counted(refused[run[k].job.item])]
    BY <1>2 DEF Post
  <2>2. \A n \in Nat : Counted(n) \in Nat /\ Counted(n) >= n
    BY DEF Counted
  <2> QED
    BY <1>0, <2>1, <2>2 DEF TypeOK
<1>3. CASE UNCHANGED vars
  BY <1>1, <1>3 DEF vars
<1>4. CASE \/ \E i \in Items : Dispatch(i) \/ Test(i) \/ BackoffEnds(i) \/ Requeue(i) \/ Cancel(i)
           \/ \E h \in Hooks : Enable(h) \/ Disable(h) \/ Delete(h)
           \/ \E k \in Runs : \/ Query(k) \/ Load(k) \/ FailGone(k) \/ Audit(k) \/ Mark(k) \/ Settle(k)
                              \/ Recover(k) \/ WriteFails(k) \/ RecoverFails(k) \/ Crash(k)
                              \/ \E b \in batch[k] : Claim(k, b) \/ ClaimFails(k, b)
  BY <1>1, <1>4 DEF Dispatch, Test, Enqueue, BackoffEnds, Requeue, Cancel, SetItem, Query, Load, FailGone,
     Audit, Mark, Settle, Recover, WriteFails, RecoverFails, Crash, Claim, ClaimFails, Enable, Disable,
     Delete, SetHook
<1> QED
  BY <1>2, <1>3, <1>4 DEF Next, RunStep

LEMMA TriesStep ==
  ASSUME Types, TypeOK', Counting, Tries, [Next]_vars
  PROVE  Tries'
<1>00. \A h \in Hooks : HookGrows(h)
  BY HooksGrow
<1> USE WebhookAssumption DEF Types
<1>0. \A i \in Items : /\ refused[i] \in Nat /\ refused'[i] \in Nat /\ refused'[i] >= refused[i]
                       /\ item[i] \in ItemType /\ item[i].retry \in Nat /\ HookOf[i] \in Hooks
  BY RefusedGrows DEF TypeOK, ItemType, WebhookAssumption
<1>1. \A k \in Runs : run[k] \in RunType /\ run[k].job.retry \in Nat /\ \A b \in batch[k] : b.retry \in Nat
  BY DEF TypeOK, RunType, Fetched
<1>2. \A h \in Hooks : hook[h].deleted => hook'[h].deleted
  BY <1>00 DEF HookGrows
(* What keeps each part of the invariant.                                    *)
<1>3. ASSUME \A i \in Items : \/ item'[i].retry = item[i].retry
                              \/ item'[i].retry <= refused[i] /\ item'[i].retry <= MaxRetries /\ item'[i].retry \in Nat
      PROVE  ItemTries'
  BY <1>0, <1>3 DEF Tries, ItemTries
<1>4. ASSUME \A i \in Items : item'[i].status = "failed" =>
                item[i].status = "failed" \/ refused[i] > MaxRetries \/ hook[HookOf[i]].deleted
      PROVE  GivenUpAfterRetries'
  BY <1>0, <1>2, <1>4 DEF Tries, GivenUpAfterRetries
<1>5. ASSUME \A k \in Runs : batch'[k] \subseteq batch[k] PROVE BatchTries'
  BY <1>0, <1>1, <1>5 DEF Tries, BatchTries, Listed
<1>6. ASSUME \A k \in Runs : \/ run'[k].pc \in {"off", "next"}
                             \/ run'[k] = run[k]
                             \/ /\ run[k].pc \notin {"off", "next"} /\ run'[k].pc # "item"
                                /\ run'[k].job = run[k].job
                             \/ \E b \in batch[k] : run'[k].pc # "item" /\ run'[k].job = b
      PROVE  RunTries'
  BY <1>0, <1>1, <1>6 DEF Tries, RunTries, BatchTries, Owned, Listed
<1>7. ASSUME UNCHANGED item PROVE ItemTries' /\ GivenUpAfterRetries'
  BY <1>3, <1>4, <1>7
<1>8. ASSUME UNCHANGED batch PROVE BatchTries'
  BY <1>5, <1>8
<1>9. ASSUME UNCHANGED run PROVE RunTries'
  BY <1>6, <1>9
<1>10. ASSUME NEW k \in Runs, NEW b \in SUBSET batch[k], NEW known, Turn(k, b, known)
       PROVE  BatchTries' /\ RunTries'
  <2>1. \A l \in Runs : run'[l] = run[l] \/ run'[l].pc \in {"off", "next"}
    BY <1>10 DEF TypeOK, Turn, Off, At
  <2>2. \A l \in Runs : batch'[l] \subseteq batch[l]
    BY <1>10 DEF TypeOK, Turn
  <2> QED
    BY <1>5, <1>6, <2>1, <2>2
<1>11. ASSUME NEW k \in Runs, Advance(k) PROVE BatchTries' /\ RunTries'
  BY <1>10, <1>11 DEF Advance
<1>12. ASSUME NEW k \in Runs, NEW pc, Goto(k, pc), pc # "item", run[k].pc \notin {"off", "next"} PROVE RunTries'
  BY <1>1, <1>6, <1>12 DEF TypeOK, Goto, RunType
<1>13. ASSUME NEW k \in Runs, NEW b \in batch[k], NEW pc, Take(k, b, pc), pc # "item"
       PROVE  BatchTries' /\ RunTries'
  <2>1. \A l \in Runs : run'[l] = run[l] \/ (l = k /\ run'[l].job = b /\ run'[l].pc # "item")
    BY <1>13 DEF TypeOK, Take, At
  <2>2. \A l \in Runs : batch'[l] \subseteq batch[l]
    BY <1>13 DEF TypeOK, Take
  <2> QED
    BY <1>5, <1>6, <2>1, <2>2
<1>14. ASSUME NEW i \in Items, NEW row, item' = [item EXCEPT ![i] = row],
              row.retry = item[i].retry \/ row.retry = 0
       PROVE  ItemTries'
  BY <1>0, <1>3, <1>14 DEF TypeOK
<1>15. ASSUME NEW i \in Items, NEW row, item' = [item EXCEPT ![i] = row], row.status # "failed"
       PROVE  GivenUpAfterRetries'
  BY <1>4, <1>15 DEF TypeOK
(* The actions.                                                              *)
<1>16. ASSUME NEW k \in Runs, Query(k) PROVE Tries'
  <2>1. PICK s \in Batches :
           batch' = [batch EXCEPT ![k] = {[item |-> i, retry |-> item[i].retry] : i \in s}]
    BY <1>16 DEF Query
  <2> DEFINE F == {[item |-> i, retry |-> item[i].retry] : i \in s}
  <2>2. \A f \in F : f.item \in Items /\ f.retry = item[f.item].retry
    BY DEF Batches, Due
  <2>3. batch' = [batch EXCEPT ![k] = F]
    BY <2>1
  <2> HIDE DEF F
  <2>4. \A l \in Runs : \A b \in batch'[l] : b \in batch[l] \/ (b.item \in Items /\ b.retry = item[b.item].retry)
    BY <2>2, <2>3 DEF TypeOK
  <2>5. BatchTries'
    BY <1>0, <1>1, <2>4 DEF Tries, BatchTries, ItemTries, Listed
  <2>6. \A l \in Runs : run'[l] = run[l] \/ run'[l].pc = "next"
    BY <1>1, <1>16 DEF TypeOK, Query, RunType
  <2> QED
    BY <1>6, <1>7, <1>16, <2>5, <2>6 DEF Query, Tries
<1>17. ASSUME NEW k \in Runs, NEW b \in batch[k], Claim(k, b) PROVE Tries'
  <2>1. b.item \in Items
    BY DEF Listed
  <2>2. CASE Claimable(b.item)
    <3> DEFINE row == [item[b.item] EXCEPT !.status = "delivering"]
    <3>1. row.retry = item[b.item].retry /\ row.status # "failed"
      BY <1>0, <2>1 DEF ItemType
    <3>2. item' = [item EXCEPT ![b.item] = row] /\ Take(k, b, "load")
      BY <1>17, <2>2 DEF Claim
    <3> HIDE DEF row
    <3> QED
      BY <1>13, <1>14, <1>15, <2>1, <3>1, <3>2 DEF Tries
  <2>3. CASE ~Claimable(b.item)
    <3>1. UNCHANGED item /\ Turn(k, batch[k] \ {b}, cache[k])
      BY <1>17, <2>3 DEF Claim
    <3> QED
      BY <1>7, <1>10, <3>1 DEF Tries
  <2> QED
    BY <2>2, <2>3
<1>18. ASSUME NEW k \in Runs, NEW b \in batch[k], ClaimFails(k, b) PROVE Tries'
  BY <1>7, <1>13, <1>18 DEF ClaimFails, Tries
<1>19. ASSUME NEW k \in Runs, Load(k) \/ WriteFails(k) PROVE Tries'
  BY <1>7, <1>8, <1>12, <1>19 DEF Load, WriteFails, Tries
<1>20. ASSUME NEW k \in Runs, FailGone(k) PROVE Tries'
  <2> DEFINE i == run[k].job.item
             row == [item[i] EXCEPT !.status = "failed"]
  <2>1. i \in Items /\ hook[HookOf[i]].deleted
    BY <1>20 DEF FailGone, Owned, Counting, GoneFits
  <2>2. row.retry = item[i].retry
    BY <1>0, <2>1 DEF ItemType
  <2>3. item' = [item EXCEPT ![i] = row]
    BY <1>20 DEF FailGone
  <2>4. RunTries' /\ BatchTries'
    BY <1>8, <1>12, <1>20 DEF FailGone
  <2> HIDE DEF i, row
  <2>5. GivenUpAfterRetries'
    BY <1>4, <2>1, <2>3 DEF TypeOK
  <2> QED
    BY <1>14, <2>1, <2>2, <2>3, <2>4, <2>5 DEF Tries
<1>21. ASSUME NEW k \in Runs, Audit(k) \/ Mark(k) \/ RecoverFails(k) PROVE Tries'
  BY <1>7, <1>10, <1>11, <1>21 DEF Audit, Mark, RecoverFails, Tries
<1>22. ASSUME NEW k \in Runs, Post(k) PROVE Tries'
  <2>1. PICK ok \in BOOLEAN :
           /\ run' = [run EXCEPT ![k] = [run[k] EXCEPT !.pc = "item", !.ok = ok]]
           /\ refused' = IF ok THEN refused
                         ELSE [refused EXCEPT ![run[k].job.item] = Counted(refused[run[k].job.item])]
    BY <1>22 DEF Post
  <2>2. /\ run'[k].job = run[k].job /\ run'[k].ok = ok /\ run[k].job.item \in Items
        /\ \A l \in Runs \ {k} : run'[l] = run[l]
    <3>1. run[k].job.item \in Items
      BY <1>22 DEF Post, Owned
    <3>2. [run[k] EXCEPT !.pc = "item", !.ok = ok].job = run[k].job
      BY <1>1 DEF RunType
    <3>3. [run[k] EXCEPT !.pc = "item", !.ok = ok].ok = ok
      BY <1>1 DEF RunType
    <3> QED
      BY <2>1, <3>1, <3>2, <3>3 DEF TypeOK
  <2>3. run[k].job.retry <= refused[run[k].job.item] /\ run[k].job.retry <= MaxRetries
    BY <1>22 DEF Post, Tries, RunTries
  <2>4. ~ok => run[k].job.retry < refused'[run[k].job.item]
    <3>1. ~ok => refused'[run[k].job.item] = Counted(refused[run[k].job.item])
      BY <2>1, <2>2 DEF TypeOK
    <3> QED
      BY <1>0, <1>1, <2>2, <2>3, <3>1 DEF Counted
  <2>5. RunTries'
    BY <1>0, <1>1, <2>2, <2>3, <2>4 DEF Tries, RunTries, Owned
  <2> QED
    BY <1>7, <1>8, <1>22, <2>5 DEF Post, Tries
<1>23. ASSUME NEW k \in Runs, Settle(k) PROVE Tries'
  <2> DEFINE i == run[k].job.item
             row == Settled(k, item[i])
  <2>1. i \in Items /\ run[k].pc = "item"
    BY <1>23 DEF Settle, Owned
  <2>2. /\ run[k].job.retry <= MaxRetries
        /\ ~run[k].ok => Attempt(k) <= refused[i]
    BY <1>0, <1>1, <2>1 DEF Tries, RunTries, Attempt
  <2>3. \/ row.retry = item[i].retry
        \/ ~run[k].ok /\ row.retry = Attempt(k) /\ Attempt(k) <= MaxRetries
    BY <1>0, <1>1, <2>1 DEF Settled, GivesUp, Attempt, ItemType
  <2>4. row.status = "failed" => ~run[k].ok /\ Attempt(k) > MaxRetries
    BY <1>0, <2>1 DEF Settled, GivesUp, ItemType
  <2>5. Attempt(k) \in Nat
    BY <1>1 DEF Attempt
  <2>6. item' = [item EXCEPT ![i] = row]
    BY <1>23 DEF Settle
  <2>7. RunTries' /\ BatchTries'
    BY <1>8, <1>12, <1>23 DEF Settle
  <2> HIDE DEF i, row
  <2>8. ItemTries'
    BY <1>0, <1>3, <2>1, <2>2, <2>3, <2>5, <2>6 DEF TypeOK
  <2>9. GivenUpAfterRetries'
    BY <1>0, <1>4, <2>1, <2>2, <2>4, <2>5, <2>6 DEF TypeOK
  <2> QED
    BY <2>7, <2>8, <2>9 DEF Tries
<1>24. ASSUME NEW k \in Runs, Recover(k) PROVE Tries'
  <2> DEFINE row == [item[run[k].job.item] EXCEPT !.status = "pending"]
  <2>1. run[k].job.item \in Items
    BY <1>24 DEF Recover, Owned
  <2>2. row.retry = item[run[k].job.item].retry /\ row.status # "failed"
    BY <1>0, <2>1 DEF ItemType
  <2>3. item' = [item EXCEPT ![run[k].job.item] = row] /\ Advance(k)
    BY <1>24 DEF Recover
  <2> HIDE DEF row
  <2> QED
    BY <1>11, <1>14, <1>15, <2>1, <2>2, <2>3 DEF Tries
<1>25. ASSUME NEW k \in Runs, Crash(k) PROVE Tries'
  <2>1. \A l \in Runs : run'[l] = run[l] \/ run'[l].pc = "off"
    BY <1>25 DEF TypeOK, Crash, Off
  <2>2. \A l \in Runs : batch'[l] \subseteq batch[l]
    BY <1>25 DEF TypeOK, Crash
  <2> QED
    BY <1>5, <1>6, <1>7, <1>25, <2>1, <2>2 DEF Crash, Tries
<1>26. ASSUME NEW i \in Items, Dispatch(i) \/ Test(i) \/ BackoffEnds(i) \/ Requeue(i) \/ Cancel(i)
       PROVE  Tries'
  <2>1. UNCHANGED runVars
    BY <1>26 DEF Dispatch, Test, Enqueue, BackoffEnds, Requeue, Cancel, SetItem
  <2>2. PICK row \in ItemType : /\ item' = [item EXCEPT ![i] = row]
                                /\ row.retry = item[i].retry \/ row.retry = 0
                                /\ row.status = "failed" => item[i].status = "failed"
    <3>1. CASE Dispatch(i) \/ Test(i)
      BY <3>1 DEF Dispatch, Test, Enqueue, Created, ItemType
    <3>2. CASE BackoffEnds(i)
      <4>1. /\ [item[i] EXCEPT !.due = TRUE] \in ItemType
            /\ [item[i] EXCEPT !.due = TRUE].retry = item[i].retry
            /\ [item[i] EXCEPT !.due = TRUE].status = item[i].status
        BY <1>0 DEF ItemType
      <4> QED
        BY <3>2, <4>1 DEF BackoffEnds
    <3>3. CASE Requeue(i)
      <4> DEFINE row == [item[i] EXCEPT !.status = "pending", !.due = TRUE]
      <4>1. row \in ItemType /\ row.retry = item[i].retry /\ row.status = "pending"
        BY <1>0 DEF ItemType
      <4> QED
        BY <3>3, <4>1 DEF Requeue, SetItem
    <3>4. CASE Cancel(i)
      <4> DEFINE row == [item[i] EXCEPT !.status = "cancelled"]
      <4>1. row \in ItemType /\ row.retry = item[i].retry /\ row.status = "cancelled"
        BY <1>0 DEF ItemType, Terminal
      <4> QED
        BY <3>4, <4>1 DEF Cancel, SetItem
    <3> QED
      BY <1>26, <3>1, <3>2, <3>3, <3>4
  <2>3. GivenUpAfterRetries'
    BY <1>4, <2>2 DEF TypeOK
  <2> QED
    BY <1>8, <1>9, <1>14, <2>1, <2>2, <2>3 DEF runVars, Tries
<1>27. ASSUME NEW h \in Hooks, Enable(h) \/ Disable(h) \/ Delete(h) PROVE Tries'
  BY <1>7, <1>8, <1>9, <1>27 DEF Enable, Disable, Delete, SetHook, runVars, Tries
<1>28. CASE UNCHANGED vars
  BY <1>7, <1>8, <1>9, <1>28 DEF vars, runVars, Tries
<1> QED
  BY <1>16, <1>17, <1>18, <1>19, <1>20, <1>21, <1>22, <1>23, <1>24, <1>25, <1>26, <1>27, <1>28
  DEF Next, RunStep

(* An item is given up only after MaxRetries + 1 refused posts, or because   *)
(* its webhook was deleted.                                                  *)
THEOREM ItemsGivenUpAfterRetries == Spec => []GivenUpAfterRetries
<1>1. Init => Tries
  BY WebhookAssumption DEF Init, WebhookAssumption, Tries, ItemTries, BatchTries, RunTries, GivenUpAfterRetries,
     NoRow, Off
<1>2. Types /\ Counting /\ Tries /\ [Next]_vars => Tries'
  BY TypeStep, TriesStep
<1>3. Tries => GivenUpAfterRetries
  BY DEF Tries
<1> QED
  BY <1>1, <1>2, <1>3, CountingAlways, PTL DEF Spec

-----------------------------------------------------------------------------
(* Handling.  An item that a run holds has left "pending", which is why no   *)
(* second run can claim it; what has been accepted is in no hands but those  *)
(* that are about to write so.                                               *)
Holds(k, i) == run[k].job.item = i /\ run[k].pc \in {"load", "gone", "post", "item"}
Exclusive(i) ==
    /\ \A k \in Runs : Holds(k, i) =>
          /\ item[i].status \notin {"none", "pending"}
          /\ i \in accepted => run[k].pc = "item" /\ run[k].ok = TRUE
    /\ \A k, l \in Runs : Holds(k, i) /\ Holds(l, i) => k = l
    /\ i \in accepted => item[i].status \notin {"none", "pending"}
Recovering == \A k \in Runs : run[k].pc = "recover" => run[k].job.item \in upset
Served == Recovering /\ \A i \in Items : i \notin upset => Exclusive(i)

LEMMA UpsetGrows ==
  ASSUME [Next]_vars
  PROVE  upset \subseteq upset'
  BY DEF Next, RunStep, vars, limitVars, Dispatch, Test, Enqueue, BackoffEnds, Requeue, Cancel, SetItem, Query,
     Load, FailGone, Audit, Post, Settle, Mark, Recover, WriteFails, RecoverFails, Crash, Claim, ClaimFails,
     Enable, Disable, Delete, SetHook, Event

(* What a step does to one run: nothing, or on to a stage that holds nothing *)
(* or from looking the webhook up to what follows.                           *)
Moved(k) ==
    \/ run'[k] = run[k]
    \/ run'[k].pc \in {"off", "next", "audit", "hook"}
    \/ run'[k].pc = "recover" /\ run'[k].job.item \in upset'
    \/ run[k].pc = "load" /\ run'[k].pc \in {"gone", "post"} /\ run'[k].job = run[k].job

(* The moves of the runs that do not touch the status of an item.            *)
LEMMA MovesOnly ==
  ASSUME Types, [Next]_vars, UNCHANGED item,
         \/ \E k \in Runs : \/ Query(k) \/ Load(k) \/ Audit(k) \/ Mark(k) \/ WriteFails(k) \/ RecoverFails(k)
                            \/ Crash(k) \/ \E b \in batch[k] : Claim(k, b) \/ ClaimFails(k, b)
         \/ \E h \in Hooks : Enable(h) \/ Disable(h) \/ Delete(h)
         \/ UNCHANGED vars
  PROVE  (\A k \in Runs : Moved(k)) /\ UNCHANGED accepted
<1> USE DEF Types, postVars
<1>0. \A k \in Runs : run[k] \in RunType
  BY DEF TypeOK
<1>1. ASSUME NEW k \in Runs, NEW b, NEW known, Turn(k, b, known) PROVE \A l \in Runs : Moved(l)
  BY <1>1 DEF TypeOK, Turn, Moved, Off, At
<1>2. ASSUME NEW k \in Runs, Query(k) PROVE \A l \in Runs : Moved(l)
  BY <1>0, <1>2 DEF TypeOK, Query, Moved, RunType
<1>3. ASSUME NEW k \in Runs, Load(k) PROVE \A l \in Runs : Moved(l)
  <2>1. run' = [run EXCEPT ![k].pc = "gone"] \/ run' = [run EXCEPT ![k].pc = "post"]
    BY <1>3 DEF Load, Goto
  <2>2. run[k].pc = "load"
    BY <1>3 DEF Load
  <2>3. \A l \in Runs \ {k} : run'[l] = run[l]
    BY <2>1 DEF TypeOK
  <2>4. run'[k].pc \in {"gone", "post"} /\ run'[k].job = run[k].job
    BY <1>0, <2>1 DEF TypeOK, RunType
  <2> QED
    BY <2>2, <2>3, <2>4 DEF Moved
<1>4. ASSUME NEW k \in Runs, WriteFails(k) PROVE \A l \in Runs : Moved(l)
  <2>1. run' = [run EXCEPT ![k].pc = "recover"] /\ run[k].job.item \in upset'
    BY <1>4 DEF WriteFails, Goto, Event
  <2> QED
    BY <1>0, <2>1 DEF TypeOK, Moved, RunType
<1>5. ASSUME NEW k \in Runs, NEW b \in batch[k], ClaimFails(k, b) PROVE \A l \in Runs : Moved(l)
  BY <1>5 DEF TypeOK, ClaimFails, Take, At, Event, Moved
<1>6. ASSUME NEW k \in Runs, NEW b \in batch[k], Claim(k, b) PROVE \A l \in Runs : Moved(l)
  <2>1. ~Claimable(b.item)
    <3> SUFFICES ASSUME Claimable(b.item) PROVE FALSE
      OBVIOUS
    <3>1. b.item \in Items /\ item[b.item].status = "pending" /\ item[b.item] \in ItemType
      BY DEF Claimable, Listed, TypeOK
    <3>2. item'[b.item].status = "delivering"
      BY <1>6, <3>1 DEF Claim, TypeOK, ItemType
    <3> QED
      BY <3>1, <3>2
  <2> QED
    BY <1>1, <1>6, <2>1 DEF Claim
<1>7. ASSUME NEW k \in Runs, Audit(k) \/ Mark(k) \/ RecoverFails(k) PROVE \A l \in Runs : Moved(l)
  BY <1>1, <1>7 DEF Audit, Mark, RecoverFails, Advance
<1>8. ASSUME NEW k \in Runs, Crash(k) PROVE \A l \in Runs : Moved(l)
  BY <1>8 DEF TypeOK, Crash, Moved, Off
<1>9. ASSUME UNCHANGED run PROVE \A l \in Runs : Moved(l)
  BY <1>9 DEF Moved
<1>10. \A l \in Runs : Moved(l)
  BY <1>2, <1>3, <1>4, <1>5, <1>6, <1>7, <1>8, <1>9 DEF Enable, Disable, Delete, SetHook, runVars, vars
<1>11. UNCHANGED accepted
  BY DEF Query, Load, Audit, Mark, WriteFails, RecoverFails, Crash, Claim, ClaimFails, Enable, Disable, Delete,
     SetHook, vars
<1> QED
  BY <1>10, <1>11

LEMMA ServedStep ==
  ASSUME Types, Served, [Next]_vars
  PROVE  Served'
<1> USE WebhookAssumption DEF Types
<1>0. /\ upset \subseteq upset'
      /\ \A i \in Items : item[i] \in ItemType
      /\ \A k \in Runs : run[k] \in RunType
  BY UpsetGrows DEF TypeOK
<1>1. ASSUME \A k \in Runs : Moved(k) PROVE Recovering'
  BY <1>0, <1>1 DEF Served, Recovering, Moved
<1>2. ASSUME NEW i \in Items, i \notin upset, \A k \in Runs : Moved(k),
             item'[i].status \notin {"none", "pending"} \/ item'[i].status = item[i].status,
             i \in accepted' => i \in accepted
      PROVE  Exclusive(i)'
  <2>1. Exclusive(i)
    BY <1>2 DEF Served
  <2>2. \A k \in Runs : Holds(k, i)' => /\ Holds(k, i)
                                        /\ run[k].pc = "item" => run'[k] = run[k]
    BY <1>2 DEF Moved, Holds
  <2>3. \A k \in Runs : Holds(k, i)' => (i \notin accepted' \/ (run'[k].pc = "item" /\ run'[k].ok = TRUE))
    BY <1>2, <2>1, <2>2 DEF Exclusive
  <2> QED
    BY <1>2, <2>1, <2>2, <2>3 DEF Exclusive
<1>3. ASSUME UNCHANGED <<item, accepted>>, \A k \in Runs : Moved(k) PROVE Served'
  BY <1>0, <1>1, <1>2, <1>3 DEF Served
<1>4. ASSUME NEW k \in Runs, NEW b \in batch[k], Claim(k, b) PROVE Served'
  <2>1. CASE UNCHANGED item
    BY <1>3, <1>4, <2>1, MovesOnly
  <2>2. CASE ~UNCHANGED item
    <3> DEFINE j == b.item
    <3>1. /\ j \in Items /\ item[j].status = "pending"
          /\ item' = [item EXCEPT ![j].status = "delivering"]
          /\ run' = [run EXCEPT ![k] = At("load", b)]
          /\ UNCHANGED <<accepted, upset>>
      BY <1>4, <2>2 DEF Claim, Claimable, Take, Listed, postVars, limitVars
    <3>2. \A l \in Runs : l # k => run'[l] = run[l]
      BY <3>1 DEF TypeOK
    <3>3. run'[k].job.item = j /\ run'[k].pc = "load"
      BY <3>1 DEF TypeOK, At
    <3>4. item'[j].status = "delivering" /\ \A i \in Items : i # j => item'[i] = item[i]
      BY <1>0, <3>1 DEF TypeOK, ItemType
    <3>5. Recovering'
      BY <3>1, <3>2, <3>3 DEF Served, Recovering
    <3>6. ASSUME NEW i \in Items, i \notin upset PROVE Exclusive(i)'
      <4>1. Exclusive(i)
        BY <3>6 DEF Served
      <4>2. CASE i = j
        <5>1. i \notin accepted /\ \A l \in Runs : ~Holds(l, i)
          BY <3>1, <4>1, <4>2 DEF Exclusive
        <5>2. \A l \in Runs : Holds(l, i)' => l = k
          BY <3>2, <5>1 DEF Holds
        <5> QED
          BY <3>1, <3>4, <4>2, <5>1, <5>2 DEF Exclusive
      <4>3. CASE i # j
        <5>1. \A l \in Runs : Holds(l, i)' => Holds(l, i) /\ run'[l] = run[l]
          BY <3>2, <3>3, <4>3 DEF Holds
        <5> QED
          BY <3>1, <3>4, <4>1, <4>3, <5>1 DEF Exclusive
      <4> QED
        BY <4>2, <4>3
    <3> QED
      BY <3>1, <3>5, <3>6 DEF Served
  <2> QED
    BY <2>1, <2>2
<1>5. ASSUME NEW k \in Runs, Post(k) PROVE Served'
  <2> DEFINE j == run[k].job.item
  <2>1. PICK ok \in BOOLEAN :
           /\ run' = [run EXCEPT ![k] = [run[k] EXCEPT !.pc = "item", !.ok = ok]]
           /\ accepted' = IF ok THEN accepted \cup {j} ELSE accepted
    BY <1>5 DEF Post
  <2>2. /\ run[k].pc = "post" /\ j \in Items
        /\ UNCHANGED <<item, upset>>
    BY <1>5 DEF Post, Owned, limitVars
  <2>3. /\ run'[k].job.item = j /\ run'[k].pc = "item" /\ run'[k].ok = ok
        /\ \A l \in Runs : l # k => run'[l] = run[l]
    BY <1>0, <2>1 DEF TypeOK, RunType
  <2>4. Recovering'
    BY <2>2, <2>3 DEF Served, Recovering
  <2>5. ASSUME NEW i \in Items, i \notin upset PROVE Exclusive(i)'
    <3>1. Exclusive(i)
      BY <2>5 DEF Served
    <3>2. \A l \in Runs : Holds(l, i)' <=> Holds(l, i)
      BY <2>2, <2>3 DEF Holds
    <3>3. CASE i = j
      <4>1. Holds(k, i)
        BY <2>2, <3>3 DEF Holds
      <4>2. \A l \in Runs : Holds(l, i)' => l = k
        BY <3>1, <3>2, <4>1 DEF Exclusive
      <4>3. i \notin accepted /\ item[i].status \notin {"none", "pending"}
        BY <2>2, <3>1, <4>1 DEF Exclusive
      <4> QED
        BY <2>1, <2>2, <2>3, <4>2, <4>3 DEF Exclusive
    <3>4. CASE i # j
      <4>1. \A l \in Runs : Holds(l, i) => l # k /\ run'[l] = run[l]
        BY <2>3, <3>4 DEF Holds
      <4>2. i \in accepted' => i \in accepted
        BY <2>1, <3>4
      <4> QED
        BY <2>2, <3>1, <3>2, <4>1, <4>2 DEF Exclusive
    <3> QED
      BY <3>3, <3>4
  <2> QED
    BY <2>2, <2>4, <2>5 DEF Served
<1>6. ASSUME NEW k \in Runs, Settle(k) PROVE Served'
  <2> DEFINE j == run[k].job.item
  <2>1. /\ run[k].pc = "item" /\ j \in Items
        /\ item' = [item EXCEPT ![j] = Settled(k, item[j])]
        /\ run' = [run EXCEPT ![k].pc = "hook"]
        /\ UNCHANGED <<accepted, upset>>
    BY <1>6 DEF Settle, Goto, Owned, postVars, limitVars
  <2>2. run'[k].pc = "hook" /\ \A l \in Runs : l # k => run'[l] = run[l]
    BY <1>0, <2>1 DEF TypeOK, RunType
  <2>3. \A l \in Runs : Moved(l)
    BY <2>2 DEF Moved
  <2>4. run[k].ok => Settled(k, item[j]).status = "delivered"
    BY <1>0, <2>1 DEF Settled, ItemType
  <2>5. item'[j] = Settled(k, item[j]) /\ \A i \in Items : i # j => item'[i] = item[i]
    BY <2>1 DEF TypeOK
  <2>6. ASSUME NEW i \in Items, i \notin upset PROVE Exclusive(i)'
    <3>1. Exclusive(i)
      BY <2>6 DEF Served
    <3>2. CASE i = j
      <4>1. Holds(k, i)
        BY <2>1, <3>2 DEF Holds
      <4>2. \A l \in Runs : ~Holds(l, i)'
        BY <2>2, <3>1, <4>1 DEF Exclusive, Holds
      <4>3. i \in accepted' => item'[i].status = "delivered"
        BY <2>1, <2>4, <2>5, <3>1, <3>2, <4>1 DEF Exclusive
      <4> QED
        BY <4>2, <4>3 DEF Exclusive
    <3>3. CASE i # j
      BY <1>2, <2>1, <2>3, <2>5, <2>6, <3>3
    <3> QED
      BY <3>2, <3>3
  <2> QED
    BY <1>1, <2>1, <2>3, <2>6 DEF Served
<1>7. ASSUME NEW k \in Runs, FailGone(k) PROVE Served'
  <2> DEFINE j == run[k].job.item
  <2>1. /\ j \in Items
        /\ item' = [item EXCEPT ![j].status = "failed"]
        /\ run' = [run EXCEPT ![k].pc = "audit"]
        /\ UNCHANGED <<accepted, upset>>
    BY <1>7 DEF FailGone, Goto, Owned, postVars, limitVars
  <2>2. \A l \in Runs : Moved(l)
    BY <1>0, <2>1 DEF TypeOK, RunType, Moved
  <2>3. \A i \in Items : item'[i].status = "failed" \/ item'[i] = item[i]
    BY <1>0, <2>1 DEF TypeOK, ItemType
  <2> QED
    BY <1>1, <1>2, <2>1, <2>2, <2>3 DEF Served
<1>8. ASSUME NEW k \in Runs, Recover(k) PROVE Served'
  <2> DEFINE j == run[k].job.item
  <2>1. /\ j \in upset
        /\ item' = [item EXCEPT ![j].status = "pending"]
        /\ Advance(k)
        /\ UNCHANGED <<accepted, upset>>
    BY <1>8 DEF Recover, Served, Recovering, postVars, limitVars
  <2>2. \A l \in Runs : Moved(l)
    BY <2>1 DEF TypeOK, Advance, Turn, Moved, Off, At
  <2>3. \A i \in Items : i # j => item'[i] = item[i]
    BY <2>1 DEF TypeOK
  <2>4. ASSUME NEW i \in Items, i \notin upset PROVE Exclusive(i)'
    BY <1>2, <2>1, <2>2, <2>3, <2>4
  <2> QED
    BY <1>1, <2>1, <2>2, <2>4 DEF Served
<1>9. ASSUME NEW j \in Items, Dispatch(j) \/ Test(j) \/ BackoffEnds(j) \/ Requeue(j) \/ Cancel(j) PROVE Served'
  <2>1. UNCHANGED <<run, accepted>>
    BY <1>9 DEF Dispatch, Test, Enqueue, BackoffEnds, Requeue, Cancel, SetItem, runVars, postVars
  <2>2. \A l \in Runs : Moved(l)
    BY <2>1 DEF Moved
  <2>3. CASE Dispatch(j) \/ Test(j)
    <3>1. item[j].status = "none" /\ item' = [item EXCEPT ![j] = Created]
      BY <2>3 DEF Dispatch, Test, Enqueue
    <3>2. \A i \in Items : i # j => item'[i] = item[i]
      BY <3>1 DEF TypeOK
    <3>3. ASSUME j \notin upset PROVE Exclusive(j)'
      <4>1. j \notin accepted /\ \A l \in Runs : ~Holds(l, j)
        BY <3>1, <3>3 DEF Served, Exclusive
      <4> QED
        BY <2>1, <4>1 DEF Exclusive, Holds
    <3>4. ASSUME NEW i \in Items, i \notin upset PROVE Exclusive(i)'
      BY <1>2, <2>1, <2>2, <3>2, <3>3, <3>4
    <3> QED
      BY <1>0, <1>1, <2>2, <3>4 DEF Served
  <2>4. CASE BackoffEnds(j)
    <3>1. item' = [item EXCEPT ![j].due = TRUE]
      BY <2>4 DEF BackoffEnds
    <3>2. \A i \in Items : item'[i].status = item[i].status
      BY <1>0, <3>1 DEF TypeOK, ItemType
    <3> QED
      BY <1>0, <1>1, <1>2, <2>1, <2>2, <3>2 DEF Served
  <2>5. CASE Requeue(j)
    <3>1. j \in upset' /\ \A i \in Items : i # j => item'[i] = item[i]
      BY <2>5 DEF Requeue, SetItem, Event, TypeOK
    <3> QED
      BY <1>0, <1>1, <1>2, <2>1, <2>2, <3>1 DEF Served
  <2>6. CASE Cancel(j)
    <3>1. item' = [item EXCEPT ![j] = [item[j] EXCEPT !.status = "cancelled"]]
      BY <2>6 DEF Cancel, SetItem
    <3>2. \A i \in Items : item'[i].status = "cancelled" \/ item'[i] = item[i]
      BY <1>0, <3>1 DEF TypeOK, ItemType
    <3> QED
      BY <1>0, <1>1, <1>2, <2>1, <2>2, <3>2 DEF Served
  <2> QED
    BY <1>9, <2>3, <2>4, <2>5, <2>6
<1>10. ASSUME UNCHANGED item,
              \/ \E k \in Runs : \/ Query(k) \/ Load(k) \/ Audit(k) \/ Mark(k) \/ WriteFails(k)
                                 \/ RecoverFails(k) \/ Crash(k) \/ \E b \in batch[k] : ClaimFails(k, b)
              \/ \E h \in Hooks : Enable(h) \/ Disable(h) \/ Delete(h)
              \/ UNCHANGED vars
       PROVE  Served'
  BY <1>3, <1>10, MovesOnly
<1>11. ASSUME \/ \E k \in Runs : \/ Query(k) \/ Load(k) \/ Audit(k) \/ Mark(k) \/ WriteFails(k)
                                 \/ RecoverFails(k) \/ Crash(k) \/ \E b \in batch[k] : ClaimFails(k, b)
              \/ \E h \in Hooks : Enable(h) \/ Disable(h) \/ Delete(h)
              \/ UNCHANGED vars
       PROVE  UNCHANGED item
  BY <1>11 DEF Query, Load, Audit, Mark, WriteFails, RecoverFails, Crash, ClaimFails, Enable, Disable, Delete,
     SetHook, vars
<1> QED
  BY <1>4, <1>5, <1>6, <1>7, <1>8, <1>9, <1>10, <1>11 DEF Next, RunStep

LEMMA ServedAlways == Spec => [](Types /\ Served)
<1>1. Init => Types /\ Served
  <2> SUFFICES ASSUME Init PROVE Types /\ Served
    OBVIOUS
  <2>1. Types
    BY InitType DEF Init, Types, Owned, Listed, Off
  <2>2. \A k \in Runs : run[k].pc = "off"
    BY DEF Init, Off
  <2> QED
    BY <2>1, <2>2 DEF Init, Served, Recovering, Exclusive, Holds
<1>2. Types /\ Served /\ [Next]_vars => (Types /\ Served)'
  <2> SUFFICES ASSUME Types, Served, [Next]_vars PROVE Types' /\ Served'
    OBVIOUS
  <2> QED
    BY TypeStep, OwnedStep, ServedStep DEF Types
<1> QED
  BY <1>1, <1>2, PTL DEF Spec

(* Overlapping runs do not handle one item at the same time, unless it was   *)
(* requeued by hand or a call to the store failed for it.                    *)
THEOREM OneHandlerAtATime == Spec => []OneHandler
<1>1. Types /\ Served => OneHandler
  BY DEF Served, Exclusive, Holds, OneHandler, Handlers
<1> QED
  BY <1>1, ServedAlways, PTL

(* Under the same condition an accepted item is not posted again.            *)
THEOREM AcceptedItemsPostedOnce == Spec => []AcceptedOnce
<1>1. Types /\ Served => AcceptedOnce
  BY DEF Served, Exclusive, Holds, AcceptedOnce
<1> QED
  BY <1>1, ServedAlways, PTL

-----------------------------------------------------------------------------
(* An item that has ended and that no run holds stays so.                    *)
Ended(i) == item[i].status \in Terminal /\ \A k \in Runs : ~Holds(k, i)

LEMMA EndedStep ==
  ASSUME Types, Served, [Next]_vars, NEW i \in Items, i \notin upset', Ended(i)
  PROVE  Ended(i)'
<1> USE WebhookAssumption DEF Types
<1>0. /\ i \notin upset
      /\ \A j \in Items : item[j] \in ItemType
      /\ \A k \in Runs : run[k] \in RunType
  BY UpsetGrows DEF TypeOK
<1>1. ASSUME item'[i].status = item[i].status \/ item'[i].status \in Terminal,
             \A k \in Runs : Moved(k) \/ run'[k].job.item # i
      PROVE  Ended(i)'
  BY <1>1 DEF Ended, Moved, Holds
<1>2. ASSUME UNCHANGED item, \A k \in Runs : Moved(k) PROVE Ended(i)'
  BY <1>1, <1>2
<1>3. ASSUME NEW k \in Runs, NEW b \in batch[k], Claim(k, b) PROVE Ended(i)'
  <2>1. CASE UNCHANGED item
    BY <1>2, <1>3, <2>1, MovesOnly
  <2>2. CASE ~UNCHANGED item
    <3>1. /\ b.item \in Items /\ item[b.item].status = "pending"
          /\ item' = [item EXCEPT ![b.item].status = "delivering"]
          /\ run' = [run EXCEPT ![k] = At("load", b)]
      BY <1>3, <2>2 DEF Claim, Claimable, Take, Listed
    <3>2. b.item # i
      BY <3>1 DEF Ended, Terminal
    <3>3. item'[i] = item[i]
      BY <3>1, <3>2 DEF TypeOK
    <3>4. \A l \in Runs : run'[l] = run[l] \/ run'[l].job.item = b.item
      BY <3>1 DEF TypeOK, At
    <3> QED
      BY <1>1, <3>2, <3>3, <3>4 DEF Moved
  <2> QED
    BY <2>1, <2>2
<1>4. ASSUME NEW k \in Runs, Post(k) PROVE Ended(i)'
  <2>1. run[k].job.item # i /\ UNCHANGED item
    BY <1>4 DEF Post, Ended, Holds
  <2>2. PICK ok \in BOOLEAN : run' = [run EXCEPT ![k] = [run[k] EXCEPT !.pc = "item", !.ok = ok]]
    BY <1>4 DEF Post
  <2>3. \A l \in Runs : run'[l] = run[l] \/ run'[l].job.item # i
    BY <1>0, <2>1, <2>2 DEF TypeOK, RunType
  <2> QED
    BY <1>1, <2>1, <2>3 DEF Moved
<1>5. ASSUME NEW k \in Runs, Settle(k) \/ FailGone(k) \/ Recover(k) PROVE Ended(i)'
  <2>1. run[k].job.item # i
    BY <1>0, <1>5 DEF Settle, FailGone, Recover, Ended, Holds, Served, Recovering
  <2>2. item'[i] = item[i]
    BY <1>5, <2>1 DEF Settle, FailGone, Recover, TypeOK
  <2>3. CASE Recover(k)
    BY <1>1, <2>2, <2>3 DEF TypeOK, Recover, Advance, Turn, Moved, Off, At
  <2>4. CASE Settle(k) \/ FailGone(k)
    <3>1. run' = [run EXCEPT ![k].pc = "hook"] \/ run' = [run EXCEPT ![k].pc = "audit"]
      BY <2>4 DEF Settle, FailGone, Goto
    <3>2. \A l \in Runs : Moved(l)
      BY <1>0, <3>1 DEF TypeOK, RunType, Moved
    <3> QED
      BY <1>1, <2>2, <3>2
  <2> QED
    BY <1>5, <2>3, <2>4
<1>6. ASSUME NEW j \in Items, Dispatch(j) \/ Test(j) \/ BackoffEnds(j) \/ Requeue(j) \/ Cancel(j)
      PROVE  Ended(i)'
  <2>1. \A l \in Runs : Moved(l)
    BY <1>6 DEF Dispatch, Test, Enqueue, BackoffEnds, Requeue, Cancel, SetItem, runVars, Moved
  <2>2. CASE Dispatch(j) \/ Test(j) \/ BackoffEnds(j)
    <3>1. j # i
      BY <2>2 DEF Dispatch, Test, Enqueue, BackoffEnds, Ended, Terminal
    <3>2. item'[i] = item[i]
      BY <2>2, <3>1 DEF Dispatch, Test, Enqueue, BackoffEnds, TypeOK
    <3> QED
      BY <1>1, <2>1, <3>2
  <2>3. CASE Requeue(j)
    <3>1. j # i
      BY <2>3 DEF Requeue, Event
    <3>2. item'[i] = item[i]
      BY <2>3, <3>1 DEF Requeue, SetItem, TypeOK
    <3> QED
      BY <1>1, <2>1, <3>2
  <2>4. CASE Cancel(j)
    <3>1. item'[i].status = "cancelled" \/ item'[i] = item[i]
      BY <1>0, <2>4 DEF Cancel, SetItem, TypeOK, ItemType
    <3> QED
      BY <1>1, <2>1, <3>1 DEF Terminal
  <2> QED
    BY <1>6, <2>2, <2>3, <2>4
<1>7. ASSUME UNCHANGED item,
             \/ \E k \in Runs : \/ Query(k) \/ Load(k) \/ Audit(k) \/ Mark(k) \/ WriteFails(k)
                                \/ RecoverFails(k) \/ Crash(k) \/ \E b \in batch[k] : ClaimFails(k, b)
             \/ \E h \in Hooks : Enable(h) \/ Disable(h) \/ Delete(h)
             \/ UNCHANGED vars
      PROVE  Ended(i)'
  BY <1>2, <1>7, MovesOnly
<1>8. ASSUME \/ \E k \in Runs : \/ Query(k) \/ Load(k) \/ Audit(k) \/ Mark(k) \/ WriteFails(k)
                                \/ RecoverFails(k) \/ Crash(k) \/ \E b \in batch[k] : ClaimFails(k, b)
             \/ \E h \in Hooks : Enable(h) \/ Disable(h) \/ Delete(h)
             \/ UNCHANGED vars
      PROVE  UNCHANGED item
  BY <1>8 DEF Query, Load, Audit, Mark, WriteFails, RecoverFails, Crash, ClaimFails, Enable, Disable, Delete,
     SetHook, vars
<1> QED
  BY <1>3, <1>4, <1>5, <1>6, <1>7, <1>8 DEF Next, RunStep

(* An ended item that no run holds is not taken up again: neither a batch    *)
(* that still holds it nor a backoff undoes a delivery or a cancellation.    *)
THEOREM EndedItemsAreLeft == Spec => EndedIsLeft
<1>1. ASSUME Types, Served, [Next]_vars
      PROVE  \A i \in Items \ upset' :
                item[i].status \in Terminal /\ Handlers(i) = {} =>
                   item'[i].status \in Terminal /\ Handlers(i)' = {}
  <2>1. \A i \in Items : Ended(i) <=> item[i].status \in Terminal /\ Handlers(i) = {}
    BY DEF Ended, Holds, Handlers
  <2>2. \A i \in Items : Ended(i)' <=> item'[i].status \in Terminal /\ Handlers(i)' = {}
    BY DEF Ended, Holds, Handlers
  <2> QED
    BY <1>1, <2>1, <2>2, EndedStep
<1>2. Types /\ Served /\ [Next]_vars =>
         [\A i \in Items \ upset' :
             item[i].status \in Terminal /\ Handlers(i) = {} =>
                item'[i].status \in Terminal /\ Handlers(i)' = {}]_vars
  BY <1>1
<1> QED
  BY <1>2, ServedAlways, PTL DEF Spec, EndedIsLeft
=============================================================================
