------------------------ MODULE LinkedRunQueueProofs ------------------------
(***************************************************************************)
(* The invariants of LinkedRunQueue that hold for every finite set of jobs, *)
(* every number of profiles, slots and recoveries, and every value of the   *)
(* leases and deadlines that ConstantsAssumption allows: types; the         *)
(* documents of a run agree and its end is final; no live job leaves the    *)
(* queue; the ledger is the live leases; a reserved profile is idle; the    *)
(* queue stays within its limit; a claim answers with nothing only when     *)
(* there is nothing to give, and expires a run only for cause; no profile   *)
(* has more live leases than its cap.  Each part states an inductive        *)
(* invariant, proves that every action keeps it, and concludes.             *)
(***************************************************************************)
EXTENDS LinkedRunQueue, FiniteSetTheorems, TLAPS

(* A rank is a natural number, and a job has one exactly if it is kept.     *)
LEMMA RankType ==
    ASSUME NEW kept \in SUBSET Jobs, NEW class
    PROVE  /\ Rank(kept, class) \in [Jobs -> Nat]
           /\ \A j \in Jobs : Rank(kept, class)[j] > 0 <=> j \in kept
<1> DEFINE Before(j) == {k \in kept : \/ class[k] < class[j]
                                      \/ /\ class[k] = class[j]
                                         /\ pos[k] < pos[j]}
<1>1. \A j \in Jobs : Cardinality(Before(j)) \in Nat
  <2> TAKE j \in Jobs
  <2>1. IsFiniteSet(Jobs)
    BY ConstantsAssumption
  <2>2. Before(j) \subseteq Jobs
    OBVIOUS
  <2> HIDE DEF Before
  <2> QED BY <2>1, <2>2, FS_Subset, FS_CardinalityType
<1>2. Rank(kept, class) = [j \in Jobs |-> IF j \in kept THEN 1 + Cardinality(Before(j)) ELSE 0]
  BY DEF Rank
<1> HIDE DEF Before
<1> QED BY <1>1, <1>2

(* A job keeps its type when one of its fields takes a value of that        *)
(* field's type.  Updates of several fields are checked one by one.         *)
LEMMA FieldType ==
    ASSUME NEW q \in JobType
    PROVE  /\ \A s \in NoRun \cup Live \cup Terminal : [q EXCEPT !.status = s] \in JobType
           /\ \A n \in Nat : /\ [q EXCEPT !.attempt = n] \in JobType
                             /\ [q EXCEPT !.token = n] \in JobType
                             /\ [q EXCEPT !.lease = n] \in JobType
                             /\ [q EXCEPT !.ttl = n] \in JobType
                             /\ [q EXCEPT !.start = n] \in JobType
                             /\ [q EXCEPT !.cred = n] \in JobType
                             /\ [q EXCEPT !.rec = n] \in JobType
                             /\ [q EXCEPT !.result = n] \in JobType
           /\ \A b \in BOOLEAN : /\ [q EXCEPT !.accepted = b] \in JobType
                                 /\ [q EXCEPT !.local = b] \in JobType
                                 /\ [q EXCEPT !.payload = b] \in JobType
BY DEF JobType

(* Replacing one job, its place or its slot keeps the type of the document. *)
LEMMA JobUpdateType ==
    ASSUME TypeOK, NEW j \in Jobs, NEW q \in JobType
    PROVE  [jobs EXCEPT ![j] = q] \in [Jobs -> JobType]
BY DEF TypeOK

LEMMA QueueType ==
    ASSUME NEW j \in Jobs
    PROVE  /\ Without(j) \in [Jobs -> Nat]
           /\ ToHead(j) \in [Jobs -> Nat]
           /\ ToTail(j) \in [Jobs -> Nat]
<1>1. InQueue \in SUBSET Jobs
  BY DEF InQueue
<1>2. InQueue \ {j} \in SUBSET Jobs /\ InQueue \cup {j} \in SUBSET Jobs
  BY <1>1
<1>3. \A kept \in SUBSET Jobs : \A class : Rank(kept, class) \in [Jobs -> Nat]
  BY RankType
<1> QED
  BY <1>2, <1>3 DEF Without, ToHead, ToTail

LEMMA PrunedType ==
    ASSUME TypeOK, NEW agents, NEW n, NEW j \in Jobs, NEW v \in Nat
    PROVE  /\ Pruned(agents, n) \in [Jobs -> Nat]
           /\ [Pruned(agents, n) EXCEPT ![j] = v] \in [Jobs -> Nat]
           /\ PrunedMaint(agents, n) \in [Agents -> Nat]
<1>1. Pruned(agents, n) \in [Jobs -> Nat]
  BY DEF Pruned, TypeOK
<1>2. [Pruned(agents, n) EXCEPT ![j] = v] \in [Jobs -> Nat]
  BY <1>1
<1>3. PrunedMaint(agents, n) \in [Agents -> Nat]
  BY DEF PrunedMaint, TypeOK
<1> QED
  BY <1>1, <1>2, <1>3

(* The records the actions write are jobs.                                  *)
LEMMA DispatchType ==
    ASSUME TypeOK, NEW j \in Jobs, Dispatch(j)
    PROVE  jobs' \in [Jobs -> JobType]
<1>1. [[jobs[j] EXCEPT !.status = "dispatching"] EXCEPT !.cred = dev.cred] \in JobType
  BY FieldType DEF TypeOK, NoRun
<1>2. [jobs[j] EXCEPT !.status = "dispatching", !.cred = dev.cred] \in JobType
  BY <1>1
<1>3. jobs' = [jobs EXCEPT ![j] = [jobs[j] EXCEPT !.status = "dispatching", !.cred = dev.cred]]
  BY DEF Dispatch, TypeOK
<1> QED
  BY <1>2, <1>3, JobUpdateType

LEMMA EnqueueType ==
    ASSUME TypeOK, NEW j \in Jobs, Enqueue(j)
    PROVE  jobs' \in [Jobs -> JobType]
<1>1. PICK n \in Clock :
        jobs' = [jobs EXCEPT ![j] = [jobs[j] EXCEPT !.status = "queued",
                                                    !.start = n + StartDeadline,
                                                    !.ttl = n + TTL,
                                                    !.payload = TRUE]]
  BY DEF Enqueue, TypeOK
<1>2. n + StartDeadline \in Nat /\ n + TTL \in Nat
  BY ConstantsAssumption DEF Clock, TypeOK
<1>3. [[[[jobs[j] EXCEPT !.status = "queued"] EXCEPT !.start = n + StartDeadline]
        EXCEPT !.ttl = n + TTL] EXCEPT !.payload = TRUE] \in JobType
  BY <1>2, FieldType DEF TypeOK, Live
<1>4. [jobs[j] EXCEPT !.status = "queued", !.start = n + StartDeadline,
                      !.ttl = n + TTL, !.payload = TRUE] \in JobType
  BY <1>3
<1> QED
  BY <1>1, <1>4, JobUpdateType

LEMMA CancelType ==
    ASSUME TypeOK, NEW j \in Jobs, CancelJob(j)
    PROVE  jobs' \in [Jobs -> JobType]
<1>1. [[jobs[j] EXCEPT !.status = "cancelled"] EXCEPT !.payload = FALSE] \in JobType
  BY FieldType DEF TypeOK, Terminal
<1>2. [jobs[j] EXCEPT !.status = "cancelled", !.payload = FALSE] \in JobType
  BY <1>1
<1>3. jobs' = [jobs EXCEPT ![j] = [jobs[j] EXCEPT !.status = "cancelled", !.payload = FALSE]]
  BY DEF CancelJob, TypeOK
<1> QED
  BY <1>2, <1>3, JobUpdateType

LEMMA SettledType ==
    ASSUME TypeOK, NEW j \in Jobs
    PROVE  Settled(j) \in JobType
<1>1. jobs[j] \in JobType
  BY DEF TypeOK
<1>2. [[jobs[j] EXCEPT !.status = "expired"] EXCEPT !.payload = FALSE] \in JobType
  BY <1>1, FieldType DEF Terminal
<1>3. [[[jobs[j] EXCEPT !.status = "queued"] EXCEPT !.token = 0] EXCEPT !.lease = 0] \in JobType
  BY <1>1, FieldType DEF Live
<1>4. /\ [jobs[j] EXCEPT !.status = "expired", !.payload = FALSE] \in JobType
      /\ [jobs[j] EXCEPT !.status = "queued", !.token = 0, !.lease = 0] \in JobType
  BY <1>2, <1>3
<1> QED
  BY <1>1, <1>4 DEF Settled, NoToken

LEMMA GrantedType ==
    ASSUME TypeOK, NEW j \in Jobs, req.at \in Nat, req.cred \in Nat
    PROVE  Granted(j) \in JobType
<1>1. /\ jobs[j] \in JobType /\ req.at + Lease \in Nat
      /\ jobs[j].attempt + 1 \in Nat
      /\ (jobs[j].accepted /\ jobs[j].attempt = 0) \in BOOLEAN
  BY ConstantsAssumption DEF TypeOK, JobType
<1>2. [[[[[[jobs[j] EXCEPT !.status = "claimed"] EXCEPT !.attempt = jobs[j].attempt + 1]
           EXCEPT !.token = jobs[j].attempt + 1] EXCEPT !.lease = req.at + Lease]
         EXCEPT !.cred = req.cred] EXCEPT !.accepted = jobs[j].accepted /\ jobs[j].attempt = 0]
      \in JobType
  BY <1>1, FieldType DEF Live, Active
<1> QED
  BY <1>1, <1>2 DEF Granted

LEMMA RenewedType ==
    ASSUME TypeOK, NEW r \in sent, NEW n \in Nat
    PROVE  Renewed(r, n) \in JobType
<1> DEFINE q == jobs[r.job]
           s == IF r.event = "queued" THEN "claimed" ELSE "running"
           d == IF r.event = "accepted" /\ ~q.accepted THEN n + TTL ELSE q.ttl
           a == q.accepted \/ r.event = "accepted"
           l == q.local \/ r.event # "queued"
<1>1. q \in JobType /\ r.cred \in Nat /\ n + Lease \in Nat
  BY ConstantsAssumption DEF TypeOK, ReceiptType
<1>2. s \in NoRun \cup Live \cup Terminal
  BY DEF Live, Active
<1>3. d \in Nat
  BY <1>1, ConstantsAssumption DEF JobType
<1>4. a \in BOOLEAN /\ l \in BOOLEAN
  OBVIOUS
<1>5. [[[[[[q EXCEPT !.status = s] EXCEPT !.lease = n + Lease] EXCEPT !.cred = r.cred]
          EXCEPT !.ttl = d] EXCEPT !.accepted = a] EXCEPT !.local = l] \in JobType
  <2> HIDE DEF q, s, d, a, l
  <2> QED
    BY <1>1, <1>2, <1>3, <1>4, FieldType
<1> QED
  BY <1>5 DEF Renewed

LEMMA CompleteType ==
    ASSUME TypeOK, NEW r \in sent, NEW n \in Nat, Complete(r, n)
    PROVE  jobs' \in [Jobs -> JobType]
<1> DEFINE q == jobs[r.job]
           o == Outcome(r)
<1>1. q \in JobType /\ r.cred \in Nat /\ r.attempt \in Nat /\ r.job \in Jobs
  BY DEF TypeOK, ReceiptType
<1>2. o \in NoRun \cup Live \cup Terminal
  BY DEF Outcome, Terminal
<1>3. [[[[q EXCEPT !.status = o] EXCEPT !.cred = r.cred] EXCEPT !.payload = FALSE]
        EXCEPT !.result = r.attempt] \in JobType
  <2> HIDE DEF q, o
  <2> QED
    BY <1>1, <1>2, FieldType
<1>4. [q EXCEPT !.status = o, !.cred = r.cred, !.payload = FALSE, !.result = r.attempt] \in JobType
  BY <1>3
<1>5. jobs' = [jobs EXCEPT ![r.job] = [q EXCEPT !.status = o, !.cred = r.cred,
                                                !.payload = FALSE, !.result = r.attempt]]
  BY <1>1 DEF Complete, TypeOK
<1> QED
  BY <1>1, <1>4, <1>5, JobUpdateType

LEMMA RecoveredType ==
    ASSUME TypeOK, NEW r \in sent, NEW n \in Nat
    PROVE  Recovered(r, n) \in JobType
<1> DEFINE q == jobs[r.job]
           b == IF q.start > n + StartDeadline THEN q.start ELSE n + StartDeadline
           d == IF q.ttl > n + TTL THEN q.ttl ELSE n + TTL
<1>1. /\ q \in JobType /\ r.cred \in Nat /\ r.job \in Jobs
      /\ q.rec + 1 \in Nat /\ b \in Nat /\ d \in Nat
  BY ConstantsAssumption DEF TypeOK, ReceiptType, JobType
<1>2. [[[[[[[[[q EXCEPT !.status = "queued"] EXCEPT !.rec = q.rec + 1] EXCEPT !.lease = 0]
             EXCEPT !.token = 0] EXCEPT !.cred = r.cred] EXCEPT !.accepted = FALSE]
          EXCEPT !.local = FALSE] EXCEPT !.start = b] EXCEPT !.ttl = d] \in JobType
  <2> HIDE DEF q, b, d
  <2> QED
    BY <1>1, FieldType DEF Live
<1> QED
  BY <1>2 DEF Recovered, NoToken

LEMMA InitTypeOK == Init => TypeOK
BY ConstantsAssumption DEF Init, TypeOK, JobType, NewJob, NoRun, NoToken, NoReq, RequestType,
   WorkerType, ReceiptType

(* Every step preserves the types of the variables.                         *)
LEMMA NextTypeOK == TypeOK /\ [Next]_vars => TypeOK'
<1> SUFFICES ASSUME TypeOK, [Next]_vars
             PROVE  TypeOK'
  OBVIOUS
<1> USE DEF TypeOK, NoRun, Live, Active, Terminal, NoToken
<1>1. ASSUME NEW j \in Jobs, Dispatch(j)
      PROVE  TypeOK'
  BY <1>1, DispatchType DEF Dispatch, netVars, envVars
<1>2. ASSUME NEW j \in Jobs, Enqueue(j)
      PROVE  TypeOK'
  <2>1. jobs' \in [Jobs -> JobType]
    BY <1>2, EnqueueType
  <2>2. pos' \in [Jobs -> Nat]
    BY <1>2, QueueType DEF Enqueue
  <2> QED
    BY <1>2, <2>1, <2>2 DEF Enqueue, netVars, envVars
<1>3. ASSUME NEW j \in Jobs, EnqueueRefused(j)
      PROVE  TypeOK'
  <2>1. jobs' \in [Jobs -> JobType]
    BY <1>3 DEF EnqueueRefused, JobType
  <2>2. UNCHANGED <<pos, ledger, maint, hrun, note, now, envVars, netVars, faults>>
    BY <1>3 DEF EnqueueRefused
  <2>3. msg' = [msg EXCEPT ![j] = "failed"]
    BY <1>3 DEF EnqueueRefused
  <2> QED
    BY <2>1, <2>2, <2>3 DEF netVars, envVars
<1>4. ASSUME NEW j \in Jobs, Annotate(j)
      PROVE  TypeOK'
  BY <1>4 DEF Annotate, netVars, envVars
<1>5. ASSUME NEW j \in Jobs, EnqueueAgain(j)
      PROVE  TypeOK'
  BY <1>5 DEF EnqueueAgain, Fault, netVars, envVars
<1>6. ASSUME NEW j \in Jobs, CancelJob(j), cleanup' \in {"none", "pending", "done"},
             faults' \in Nat
      PROVE  TypeOK'
  <2>1. jobs' \in [Jobs -> JobType]
    BY <1>6, CancelType
  <2>2. pos' \in [Jobs -> Nat]
    BY <1>6, QueueType DEF CancelJob
  <2>3. ledger' \in [Jobs -> Nat] /\ maint' \in [Agents -> Nat]
    BY <1>6, PrunedType DEF CancelJob
  <2> QED
    BY <1>6, <2>1, <2>2, <2>3 DEF CancelJob, netVars
<1>7. ASSUME NEW j \in Jobs, Cancel(j)
      PROVE  TypeOK'
  BY <1>6, <1>7 DEF Cancel, Fault
<1>8. ASSUME NEW j \in Jobs, CleanupCancel(j)
      PROVE  TypeOK'
  BY <1>6, <1>8 DEF CleanupCancel
<1>9. ASSUME NEW j \in Jobs, Unbind(j)
      PROVE  TypeOK'
  BY <1>9 DEF Unbind, Fault, queueVars, netVars
<1>10. ASSUME req.phase = "sent"
       PROVE  req \in [phase : {"sent"}, at : Nat, cred : Nat, full : SUBSET Agents]
  BY <1>10 DEF RequestType, NoReq
<1>11. ASSUME NEW k \in Jobs
       PROVE  Settled(k) \in JobType
  BY <1>11, SettledType
<1>12. ReleasedLedger \in [Jobs -> Nat]
  BY DEF ReleasedLedger, Pruned
<1>13. ASSUME SettleDocuments
       PROVE  /\ maint' \in [Agents -> Nat]
              /\ msg' \in [Jobs -> {"none", "queued", "pending", "completed", "failed"}]
              /\ hrun' \in [Jobs -> {"none", "queued", "running"} \cup Terminal]
  BY <1>13 DEF SettleDocuments, PrunedMaint
<1>14. ASSUME NEW j \in Jobs, ClaimJob(j)
       PROVE  TypeOK'
  <2>1. req \in [phase : {"sent"}, at : Nat, cred : Nat, full : SUBSET Agents]
    BY <1>10, <1>14 DEF ClaimJob
  <2>2. Granted(j) \in JobType
    BY <2>1, GrantedType
  <2>3. jobs' \in [Jobs -> JobType]
    BY <1>11, <1>14, <2>2 DEF ClaimJob
  <2>4. pos' \in [Jobs -> Nat]
    BY <1>14, RankType DEF ClaimJob, InQueue
  <2>5. ledger' \in [Jobs -> Nat]
    BY <1>12, <1>14, <2>1, ConstantsAssumption DEF ClaimJob
  <2>6. req' \in RequestType
    BY <1>14 DEF ClaimJob, RequestType, JobType
  <2> QED
    BY <1>13, <1>14, <2>3, <2>4, <2>5, <2>6 DEF ClaimJob, envVars
<1>15. ASSUME ClaimNothing
       PROVE  TypeOK'
  <2>1. jobs' \in [Jobs -> JobType]
    BY <1>11, <1>15 DEF ClaimNothing
  <2>2. pos' \in [Jobs -> Nat]
    BY <1>15, RankType DEF ClaimNothing, InQueue
  <2> QED
    BY <1>12, <1>13, <1>15, <2>1, <2>2 DEF ClaimNothing, envVars, RequestType
<1>16. ASSUME BeginClaim
       PROVE  TypeOK'
  BY <1>16 DEF BeginClaim, BusyAgents, RequestType, queueVars, envVars
<1>17. ASSUME StartWorker
       PROVE  TypeOK'
  <2>1. req \in [phase : {"granted"}, job : Jobs, attempt : Nat]
    BY <1>17 DEF StartWorker, RequestType, NoReq
  <2> DEFINE w == [job |-> req.job, attempt |-> req.attempt, cred |-> dev.held]
  <2>2. w \in WorkerType
    BY <2>1 DEF WorkerType
  <2>3. workers' \subseteq WorkerType
    BY <1>17, <2>2 DEF StartWorker, Recent
  <2>4. Receipt(w, "queued") \in ReceiptType
    BY <2>1 DEF Receipt, ReceiptType, EventKinds
  <2>5. sent' \subseteq ReceiptType
    BY <1>17, <2>4 DEF StartWorker, Recent
  <2> QED
    BY <1>17, <2>3, <2>5 DEF StartWorker, RequestType, queueVars, envVars
<1>18. ASSUME LoseGrant
       PROVE  TypeOK'
  BY <1>18 DEF LoseGrant, Fault, RequestType, queueVars, envVars
<1>19. ASSUME NEW w \in workers, NEW event \in EventKinds
       PROVE  Receipt(w, event) \in ReceiptType
  BY <1>19 DEF Receipt, ReceiptType, WorkerType
<1>20. ASSUME NEW w \in workers, PostAccepted(w)
       PROVE  TypeOK'
  BY <1>19, <1>20 DEF PostAccepted, EventKinds, queueVars, envVars
<1>21. ASSUME NEW w \in workers, PostProgress(w)
       PROVE  TypeOK'
  BY <1>19, <1>21 DEF PostProgress, EventKinds, queueVars, envVars
<1>22. ASSUME NEW w \in workers, NEW event \in Final, PostFinal(w, event)
       PROVE  TypeOK'
  BY <1>19, <1>22 DEF PostFinal, Final, EventKinds, queueVars, envVars
<1>23. ASSUME NEW w \in workers, CrashWorker(w)
       PROVE  TypeOK'
  BY <1>23 DEF CrashWorker, Fault, queueVars, envVars
<1>24. ASSUME NEW r \in sent, NEW n \in Clock, Renew(r, n)
       PROVE  TypeOK'
  <2>1. r \in ReceiptType /\ n \in Nat
    BY <1>24 DEF Clock
  <2>2. Renewed(r, n) \in JobType
    BY <2>1, RenewedType
  <2>3. jobs' \in [Jobs -> JobType]
    BY <1>24, <2>2 DEF Renew
  <2>4. ledger' \in [Jobs -> Nat] /\ maint' \in [Agents -> Nat]
    <3>1. n + Lease \in Nat /\ r.job \in Jobs
      BY <2>1, ConstantsAssumption DEF ReceiptType
    <3> QED
      BY <1>24, <3>1, PrunedType DEF Renew
  <2> QED
    BY <1>24, <2>3, <2>4 DEF Renew, netVars, envVars
<1>25. ASSUME NEW r \in sent, NEW n \in Clock, Complete(r, n)
       PROVE  TypeOK'
  <2>1. r \in ReceiptType /\ n \in Nat
    BY <1>25 DEF Clock
  <2>2. Outcome(r) \in {"completed", "failed"}
    BY DEF Outcome
  <2>3. jobs' \in [Jobs -> JobType]
    BY <1>25, <2>1, CompleteType
  <2>4. ledger' \in [Jobs -> Nat] /\ maint' \in [Agents -> Nat]
    BY <1>25, <2>1, PrunedType DEF Complete, ReceiptType
  <2> QED
    BY <1>25, <2>2, <2>3, <2>4 DEF Complete, netVars, envVars
<1>26. ASSUME NEW r \in sent, NEW n \in Clock, Recover(r, n)
       PROVE  TypeOK'
  <2>1. r \in ReceiptType /\ n \in Nat
    BY <1>26 DEF Clock
  <2>2. jobs' \in [Jobs -> JobType]
    BY <1>26, <2>1, RecoveredType, JobUpdateType DEF Recover, ReceiptType
  <2>3. pos' \in [Jobs -> Nat]
    BY <1>26, <2>1, QueueType DEF Recover, ReceiptType
  <2>4. ledger' \in [Jobs -> Nat] /\ maint' \in [Agents -> Nat]
    BY <1>26, <2>1, PrunedType DEF Recover, ReceiptType
  <2> QED
    BY <1>26, <2>2, <2>3, <2>4 DEF Recover, netVars, envVars
<1>27. ASSUME NEW a \in Agents, Maintain(a)
       PROVE  TypeOK'
  BY <1>27, ConstantsAssumption DEF Maintain, Fault, Clock, netVars, envVars
<1>28. ASSUME NEW a \in Agents, MaintainDone(a)
       PROVE  TypeOK'
  BY <1>28 DEF MaintainDone, netVars, envVars
<1>29. ASSUME NEW a \in Agents, Outage(a)
       PROVE  TypeOK'
  BY <1>29 DEF Outage, Fault, queueVars, netVars
<1>30. CASE Heartbeat
  BY <1>30 DEF Heartbeat, queueVars, netVars
<1>31. CASE Rotate
  BY <1>31 DEF Rotate, Fault, queueVars, netVars
<1>32. CASE Pause \/ Resume \/ Revoke
  BY <1>32 DEF Pause, Resume, Revoke, Fault, queueVars, netVars
<1>33. CASE CleanupDone
  BY <1>33 DEF CleanupDone, queueVars, netVars
<1>34. CASE Tick
  BY <1>34 DEF Tick, queueVars, envVars, netVars
<1>35. CASE UNCHANGED vars
  BY <1>35 DEF vars, queueVars, envVars, netVars
<1> QED
  BY <1>1, <1>2, <1>3, <1>4, <1>5, <1>7, <1>8, <1>9, <1>14, <1>15, <1>16, <1>17, <1>18, <1>20,
     <1>21, <1>22, <1>23, <1>24, <1>25, <1>26, <1>27, <1>28, <1>29, <1>30, <1>31, <1>32, <1>33,
     <1>34, <1>35
  DEF Next, Deliver

(* Every variable keeps its type.                                           *)
THEOREM TypeCorrect == Spec => []TypeOK
<1> QED
  BY InitTypeOK, NextTypeOK, PTL DEF Spec

-----------------------------------------------------------------------------
(* What the documents of a run say together: the job q, the status m of its *)
(* message, the status h of its hermes_runs row and the second write w of   *)
(* the message.  Beyond what DocumentsAgree and ResultOfLastAttempt say of  *)
(* a state, it says that a job without an outcome stores no result, that an *)
(* active job has been claimed at least once, and that the second write     *)
(* belongs to a job that was enqueued.                                      *)
Agree(q, m, h, w) ==
    /\ q.payload <=> q.status \in Live
    /\ q.status = "completed" <=> h = "completed"
    /\ q.status \in Terminal <=> h \in Terminal
    /\ w # "late" => /\ q.status = "completed" <=> m = "completed"
                     /\ q.status \in Unsuccessful => m = "failed"
    /\ w # "none" => q.status \notin NoRun
    /\ q.status \in {"completed", "failed"} => q.result # 0 /\ q.result = q.attempt
    /\ q.status \notin {"completed", "failed"} => q.result = 0
    /\ q.status \in Active => q.attempt > 0

DocumentsInv ==
    /\ TypeOK
    /\ \A k \in Jobs : Agree(jobs[k], msg[k], hrun[k], note[k])

(* The life of a run, from the job p before a step to the job q after it:   *)
(* submitted or refused, requeued or given up, leased to the next attempt,  *)
(* renewed, and answered.                                                   *)
Transition(p, q) ==
    \/ /\ q.attempt = p.attempt
       /\ \/ p.status = "absent" /\ q.status = "dispatching"
          \/ p.status = "dispatching" /\ q.status \in {"queued", "refused"}
          \/ p.status \in Live /\ q.status \in {"queued", "cancelled", "expired"}
          \/ p.status \in Active /\ q.status \in Active \cup {"completed", "failed"}
    \/ /\ q.attempt = p.attempt + 1
       /\ p.status \in Live /\ q.status = "claimed"

(* What a step may do to a run: nothing, or move one that has not ended to  *)
(* documents that agree, or write its message a second time.                *)
Same(k) ==
    jobs'[k] = jobs[k] /\ msg'[k] = msg[k] /\ hrun'[k] = hrun[k] /\ note'[k] = note[k]

Moved(k) ==
    /\ Transition(jobs[k], jobs'[k])
    /\ Agree(jobs'[k], msg'[k], hrun'[k], note'[k])

Annotated(k) ==
    /\ jobs'[k] = jobs[k] /\ hrun'[k] = hrun[k] /\ note'[k] # note[k]
    /\ Agree(jobs'[k], msg'[k], hrun'[k], note'[k])

RunStep == \A k \in Jobs : Same(k) \/ Moved(k) \/ Annotated(k)

(* Every step does that: the claim, the receipts, the cancellations, all.   *)
LEMMA RunSteps ==
    ASSUME DocumentsInv, [Next]_vars
    PROVE  RunStep
<1> USE DEF RunStep, Same, Moved, Annotated
<1>t. TypeOK /\ jobs \in [Jobs -> JobType]
  BY DEF DocumentsInv, TypeOK
<1>f. /\ DOMAIN msg = Jobs /\ msg = [k \in Jobs |-> msg[k]]
      /\ DOMAIN hrun = Jobs /\ hrun = [k \in Jobs |-> hrun[k]]
      /\ DOMAIN note = Jobs /\ note = [k \in Jobs |-> note[k]]
  BY <1>t DEF TypeOK
<1>a. \A k \in Jobs : Agree(jobs[k], msg[k], hrun[k], note[k])
  BY DEF DocumentsInv
<1>1. ASSUME UNCHANGED <<jobs, msg, hrun, note>>
      PROVE  RunStep
  BY <1>1, <1>t
<1>2. ASSUME NEW j \in Jobs, NEW q, NEW m, NEW h, NEW w, Transition(jobs[j], q),
             jobs' = [jobs EXCEPT ![j] = q], msg' = [msg EXCEPT ![j] = m],
             hrun' = [hrun EXCEPT ![j] = h], note' = [note EXCEPT ![j] = w], Agree(q, m, h, w)
      PROVE  RunStep
  BY <1>2, <1>t, <1>f
<1>3. ASSUME NEW j \in Jobs, Dispatch(j)
      PROVE  RunStep
  <2> DEFINE q == [jobs[j] EXCEPT !.status = "dispatching", !.cred = dev.cred]
  <2>1. /\ jobs[j].status = "absent"
        /\ jobs' = [jobs EXCEPT ![j] = q]
        /\ msg' = [msg EXCEPT ![j] = msg[j]] /\ hrun' = [hrun EXCEPT ![j] = hrun[j]]
        /\ note' = [note EXCEPT ![j] = note[j]]
    BY <1>3, <1>t, <1>f DEF Dispatch
  <2>2. /\ q.status = "dispatching" /\ q.payload = jobs[j].payload
        /\ q.result = jobs[j].result /\ q.attempt = jobs[j].attempt
    BY <1>t DEF JobType
  <2>3. Agree(q, msg[j], hrun[j], note[j]) /\ Transition(jobs[j], q)
    BY <1>a, <2>1, <2>2 DEF Agree, Transition, Live, Active, Terminal, Unsuccessful, NoRun
  <2> HIDE DEF q
  <2> QED
    BY <1>2, <2>1, <2>3
<1>4. ASSUME NEW j \in Jobs, Enqueue(j)
      PROVE  RunStep
  <2>1. PICK n \in Clock :
          jobs' = [jobs EXCEPT ![j] = [jobs[j] EXCEPT !.status = "queued",
                                                      !.start = n + StartDeadline,
                                                      !.ttl = n + TTL,
                                                      !.payload = TRUE]]
    BY <1>4, <1>t DEF Enqueue
  <2> DEFINE q == [jobs[j] EXCEPT !.status = "queued", !.start = n + StartDeadline,
                                  !.ttl = n + TTL, !.payload = TRUE]
  <2>2. /\ jobs[j].status = "dispatching"
        /\ msg' = [msg EXCEPT ![j] = "queued"] /\ hrun' = [hrun EXCEPT ![j] = "queued"]
        /\ note' = [note EXCEPT ![j] = "due"]
    BY <1>4, <1>t DEF Enqueue
  <2>3. /\ q.status = "queued" /\ q.payload
        /\ q.result = jobs[j].result /\ q.attempt = jobs[j].attempt
    BY <1>t DEF JobType
  <2>4. Agree(q, "queued", "queued", "due") /\ Transition(jobs[j], q)
    BY <1>a, <2>2, <2>3 DEF Agree, Transition, Live, Active, Terminal, Unsuccessful, NoRun
  <2>5. jobs' = [jobs EXCEPT ![j] = q]
    BY <2>1
  <2> HIDE DEF q
  <2> QED
    BY <1>2, <2>2, <2>4, <2>5
<1>5. ASSUME NEW j \in Jobs, EnqueueRefused(j)
      PROVE  RunStep
  <2> DEFINE q == [jobs[j] EXCEPT !.status = "refused"]
  <2>1. /\ jobs[j].status = "dispatching"
        /\ jobs' = [jobs EXCEPT ![j] = q]
        /\ msg' = [msg EXCEPT ![j] = "failed"] /\ hrun' = [hrun EXCEPT ![j] = hrun[j]]
        /\ note' = [note EXCEPT ![j] = note[j]]
    BY <1>5, <1>t, <1>f DEF EnqueueRefused
  <2>2. /\ q.status = "refused" /\ q.payload = jobs[j].payload
        /\ q.result = jobs[j].result /\ q.attempt = jobs[j].attempt
    BY <1>t DEF JobType
  <2>3. Agree(q, "failed", hrun[j], note[j]) /\ Transition(jobs[j], q)
    BY <1>a, <2>1, <2>2 DEF Agree, Transition, Live, Active, Terminal, Unsuccessful, NoRun
  <2> HIDE DEF q
  <2> QED
    BY <1>2, <2>1, <2>3
<1>6. ASSUME NEW j \in Jobs, EnqueueAgain(j)
      PROVE  RunStep
  <2>1. /\ jobs[j].status \in Live
        /\ jobs' = [jobs EXCEPT ![j] = jobs[j]]
        /\ msg' = [msg EXCEPT ![j] = "queued"] /\ hrun' = [hrun EXCEPT ![j] = hrun[j]]
        /\ note' = [note EXCEPT ![j] = note[j]]
    BY <1>6, <1>t, <1>f DEF EnqueueAgain
  <2>2. Agree(jobs[j], "queued", hrun[j], note[j]) /\ Transition(jobs[j], jobs[j])
    BY <1>a, <2>1 DEF Agree, Transition, Live, Active, Terminal, Unsuccessful, NoRun
  <2> QED
    BY <1>2, <2>1, <2>2
<1>7. ASSUME NEW j \in Jobs, CancelJob(j)
      PROVE  RunStep
  <2> DEFINE q == [jobs[j] EXCEPT !.status = "cancelled", !.payload = FALSE]
  <2>1. /\ jobs[j].status \in Live
        /\ jobs' = [jobs EXCEPT ![j] = q]
        /\ msg' = [msg EXCEPT ![j] = "failed"] /\ hrun' = [hrun EXCEPT ![j] = "cancelled"]
        /\ note' = [note EXCEPT ![j] = note[j]]
    BY <1>7, <1>t, <1>f DEF CancelJob
  <2>2. /\ q.status = "cancelled" /\ ~q.payload
        /\ q.result = jobs[j].result /\ q.attempt = jobs[j].attempt
    BY <1>t DEF JobType
  <2>3. Agree(q, "failed", "cancelled", note[j]) /\ Transition(jobs[j], q)
    BY <1>a, <2>1, <2>2 DEF Agree, Transition, Live, Active, Terminal, Unsuccessful, NoRun
  <2> HIDE DEF q
  <2> QED
    BY <1>2, <2>1, <2>3
<1>8. /\ \A k \in Expiring : jobs[k].status \in Live
      /\ \A k \in Requeued : jobs[k].status \in Live
      /\ \A k \in Winners : jobs[k].status \in Live /\ k \notin Expiring \cup Recovering
  BY DEF Expiring, Requeued, Recovering, Winners, TimedOut, Examined, Claimable, Lapsed,
         Live, Active, AuthorizationChanged, ExecutionUnavailable
<1>9. ASSUME NEW k \in Jobs, SettleDocuments, note' = note, jobs'[k] = Settled(k)
      PROVE  Same(k) \/ Moved(k)
  <2>1. CASE k \in Expiring
    <3> DEFINE q == [jobs[k] EXCEPT !.status = "expired", !.payload = FALSE]
    <3>1. /\ q.status = "expired" /\ ~q.payload
          /\ q.result = jobs[k].result /\ q.attempt = jobs[k].attempt
      BY <1>t DEF JobType
    <3>2. jobs'[k] = q /\ msg'[k] = "failed" /\ hrun'[k] = "expired"
      BY <1>9, <2>1 DEF Settled, SettleDocuments
    <3>3. Agree(q, "failed", "expired", note[k]) /\ Transition(jobs[k], q)
      BY <1>8, <1>a, <2>1, <3>1 DEF Agree, Transition, Live, Active, Terminal, Unsuccessful, NoRun
    <3> HIDE DEF q
    <3> QED
      BY <1>8, <1>9, <2>1, <3>2, <3>3
  <2>2. CASE k \in Requeued \ Expiring
    <3> DEFINE q == [jobs[k] EXCEPT !.status = "queued", !.token = NoToken, !.lease = 0]
    <3>1. /\ q.status = "queued" /\ q.payload = jobs[k].payload
          /\ q.result = jobs[k].result /\ q.attempt = jobs[k].attempt
      BY <1>t DEF JobType
    <3>2. jobs'[k] = q /\ msg'[k] = "queued" /\ hrun'[k] = "queued"
      BY <1>9, <2>2 DEF Settled, SettleDocuments
    <3>3. Agree(q, "queued", "queued", note[k]) /\ Transition(jobs[k], q)
      BY <1>8, <1>a, <2>2, <3>1 DEF Agree, Transition, Live, Active, Terminal, Unsuccessful, NoRun
    <3> HIDE DEF q
    <3> QED
      BY <1>8, <1>9, <2>2, <3>2, <3>3
  <2>3. CASE k \notin Expiring \cup Requeued
    BY <1>9, <2>3 DEF Settled, SettleDocuments
  <2> QED
    BY <2>1, <2>2, <2>3
<1>10. ASSUME NEW j \in Jobs, ClaimJob(j)
       PROVE  RunStep
  <2>1. SettleDocuments /\ note' = note /\ j \in Winners
    BY <1>10, <1>t DEF ClaimJob
  <2>2. ASSUME NEW k \in Jobs, k # j
        PROVE  Same(k) \/ Moved(k)
    <3>1. jobs'[k] = Settled(k)
      BY <1>10, <2>2 DEF ClaimJob
    <3> QED
      BY <1>9, <2>1, <3>1
  <2>3. Moved(j)
    <3> DEFINE q == Granted(j)
    <3>1. /\ q.status = "claimed" /\ q.payload = jobs[j].payload /\ q.result = jobs[j].result
          /\ q.attempt = jobs[j].attempt + 1 /\ q.attempt > 0
      BY <1>t DEF Granted, JobType
    <3>2. jobs'[j] = q
      BY <1>10 DEF ClaimJob
    <3>3. msg'[j] = msg[j] /\ hrun'[j] = hrun[j]
      BY <1>8, <2>1 DEF SettleDocuments, Requeued
    <3>4. Agree(q, msg[j], hrun[j], note[j]) /\ Transition(jobs[j], q)
      BY <1>8, <1>a, <2>1, <3>1 DEF Agree, Transition, Live, Active, Terminal, Unsuccessful, NoRun
    <3> HIDE DEF q
    <3> QED
      BY <1>8, <2>1, <3>2, <3>3, <3>4
  <2> QED
    BY <2>1, <2>2, <2>3
<1>11. ASSUME ClaimNothing
       PROVE  RunStep
  <2>1. SettleDocuments /\ note' = note /\ \A k \in Jobs : jobs'[k] = Settled(k)
    BY <1>11, <1>t DEF ClaimNothing
  <2> QED
    BY <1>9, <2>1
<1>12. ASSUME NEW r \in sent
       PROVE  r.job \in Jobs /\ r.attempt \in Nat /\ r.cred \in Nat /\ r.event \in EventKinds
  BY <1>t, <1>12 DEF TypeOK, ReceiptType
<1>13. ASSUME NEW r \in sent, NEW n \in Clock, Renew(r, n)
       PROVE  RunStep
  <2> DEFINE q == Renewed(r, n)
             m == IF r.event = "queued" THEN "queued" ELSE "pending"
             h == IF r.event = "queued" THEN "queued" ELSE "running"
  <2>1. /\ jobs[r.job].status \in Active
        /\ jobs' = [jobs EXCEPT ![r.job] = q]
        /\ msg' = [msg EXCEPT ![r.job] = m] /\ hrun' = [hrun EXCEPT ![r.job] = h]
        /\ note' = [note EXCEPT ![r.job] = note[r.job]]
    BY <1>13, <1>t, <1>f DEF Renew, Fenced
  <2>2. /\ q.status \in Active /\ q.payload = jobs[r.job].payload
        /\ q.result = jobs[r.job].result /\ q.attempt = jobs[r.job].attempt
    BY <1>t, <1>12 DEF Renewed, JobType, Active
  <2>3. Agree(q, m, h, note[r.job]) /\ Transition(jobs[r.job], q)
    BY <1>a, <1>12, <2>1, <2>2 DEF Agree, Transition, Live, Active, Terminal, Unsuccessful, NoRun
  <2> HIDE DEF q, m, h
  <2> QED
    BY <1>2, <1>12, <2>1, <2>3
<1>14. ASSUME NEW r \in sent, NEW n \in Clock, Complete(r, n)
       PROVE  RunStep
  <2> DEFINE o == Outcome(r)
             q == [jobs[r.job] EXCEPT !.status = o, !.cred = r.cred,
                                      !.payload = FALSE, !.result = r.attempt]
  <2>1. /\ jobs[r.job].status \in Active /\ r.attempt = jobs[r.job].attempt
        /\ jobs' = [jobs EXCEPT ![r.job] = q]
        /\ msg' = [msg EXCEPT ![r.job] = o] /\ hrun' = [hrun EXCEPT ![r.job] = o]
        /\ note' = [note EXCEPT ![r.job] = note[r.job]]
    BY <1>14, <1>t, <1>f DEF Complete, Fenced, Admitted
  <2>2. /\ q.status = o /\ ~q.payload
        /\ q.result = r.attempt /\ q.attempt = jobs[r.job].attempt
    BY <1>t, <1>12 DEF JobType
  <2>3. o \in {"completed", "failed"}
    BY DEF Outcome
  <2>4. Agree(q, o, o, note[r.job]) /\ Transition(jobs[r.job], q)
    <3> HIDE DEF q, o
    <3> QED
      BY <1>a, <1>12, <2>1, <2>2, <2>3 DEF Agree, Transition, Live, Active, Terminal, Unsuccessful, NoRun
  <2> HIDE DEF q, o
  <2> QED
    BY <1>2, <1>12, <2>1, <2>4
<1>15. ASSUME NEW r \in sent, NEW n \in Clock, Recover(r, n)
       PROVE  RunStep
  <2> DEFINE q == Recovered(r, n)
  <2>1. /\ jobs[r.job].payload
        /\ jobs' = [jobs EXCEPT ![r.job] = q]
        /\ msg' = [msg EXCEPT ![r.job] = "queued"] /\ hrun' = [hrun EXCEPT ![r.job] = "queued"]
        /\ note' = [note EXCEPT ![r.job] = note[r.job]]
    BY <1>15, <1>t, <1>f DEF Recover, Recoverable
  <2>2. jobs[r.job].status \in Live
    BY <1>a, <1>12, <2>1 DEF Agree
  <2>3. /\ q.status = "queued" /\ q.payload = jobs[r.job].payload
        /\ q.result = jobs[r.job].result /\ q.attempt = jobs[r.job].attempt
    BY <1>t, <1>12 DEF Recovered, JobType
  <2>4. Agree(q, "queued", "queued", note[r.job]) /\ Transition(jobs[r.job], q)
    BY <1>a, <1>12, <2>1, <2>2, <2>3 DEF Agree, Transition, Live, Active, Terminal, Unsuccessful, NoRun
  <2> HIDE DEF q
  <2> QED
    BY <1>2, <1>12, <2>1, <2>2, <2>4
<1>16. ASSUME NEW j \in Jobs, Annotate(j)
       PROVE  RunStep
  <2>1. PICK m \in {"queued", "failed"} : msg' = [msg EXCEPT ![j] = m]
    BY <1>16 DEF Annotate
  <2> DEFINE w == IF jobs[j].status \in Terminal THEN "late" ELSE "early"
  <2>2. jobs' = jobs /\ hrun' = hrun /\ note[j] = "due" /\ note' = [note EXCEPT ![j] = w]
    BY <1>16 DEF Annotate
  <2>3. jobs[j].status \in Live \cup Terminal
    BY <1>t, <1>a, <2>2 DEF Agree, JobType
  <2>4. Agree(jobs[j], m, hrun[j], w)
    BY <1>a, <2>1, <2>2, <2>3 DEF Agree, Live, Active, Terminal, Unsuccessful, NoRun
  <2>5. w # "due"
    OBVIOUS
  <2> HIDE DEF w
  <2> QED
    BY <1>f, <2>1, <2>2, <2>4, <2>5
<1>17. ASSUME \/ \E j \in Jobs : Unbind(j)
              \/ BeginClaim \/ StartWorker \/ LoseGrant
              \/ \E w \in workers : \/ PostAccepted(w) \/ PostProgress(w) \/ CrashWorker(w)
                                    \/ \E event \in Final : PostFinal(w, event)
              \/ \E a \in Agents : Maintain(a) \/ MaintainDone(a) \/ Outage(a)
              \/ Heartbeat \/ Rotate \/ Pause \/ Resume \/ Revoke \/ CleanupDone \/ Tick
              \/ UNCHANGED vars
       PROVE  RunStep
  <2>1. UNCHANGED <<jobs, msg, hrun, note>>
    BY <1>17 DEF Unbind, BeginClaim, StartWorker, LoseGrant, PostAccepted, PostProgress,
         CrashWorker, PostFinal, Maintain, MaintainDone, Outage, Heartbeat, Rotate, Pause,
         Resume, Revoke, CleanupDone, Tick, vars, queueVars
  <2> QED
    BY <1>1, <2>1
<1> QED
  BY <1>3, <1>4, <1>5, <1>6, <1>7, <1>10, <1>11, <1>13, <1>14, <1>15, <1>16, <1>17
  DEF Next, Deliver, Cancel, CleanupCancel

(* Hence the documents agree from the start, after every step, always.      *)
LEMMA InitDocuments == Init => DocumentsInv
BY InitTypeOK DEF Init, DocumentsInv, Agree, NewJob, NoToken, Live, Active, Terminal,
   Unsuccessful, NoRun

LEMMA NextDocuments == DocumentsInv /\ [Next]_vars => DocumentsInv'
<1> SUFFICES ASSUME DocumentsInv, [Next]_vars
             PROVE  DocumentsInv'
  OBVIOUS
<1>1. TypeOK'
  BY NextTypeOK DEF DocumentsInv
<1>2. RunStep
  BY RunSteps
<1> QED
  BY <1>1, <1>2 DEF DocumentsInv, RunStep, Same, Moved, Annotated

LEMMA DocumentsCorrect == Spec => []DocumentsInv
BY InitDocuments, NextDocuments, PTL DEF Spec

(* The job and its hermes_runs row always agree on whether the run has      *)
(* ended and how, the payload is kept no longer than needed, and the        *)
(* message shows that end unless it was written again after it.             *)
THEOREM DocumentsAlwaysAgree == Spec => []DocumentsAgree
<1>1. DocumentsInv => DocumentsAgree
  BY DEF DocumentsInv, DocumentsAgree, Agree
<1> QED
  BY <1>1, DocumentsCorrect, PTL

(* A stored result is that of the last attempt leased: the attempt and the  *)
(* lease token that updateLinkedRunFromDevice checks fence the older ones.  *)
THEOREM ResultsOfLastAttempt == Spec => []ResultOfLastAttempt
<1>1. DocumentsInv => ResultOfLastAttempt
  BY DEF DocumentsInv, ResultOfLastAttempt, Agree
<1> QED
  BY <1>1, DocumentsCorrect, PTL

(* What is final stays final: no claim, receipt, cancellation or recovery   *)
(* touches the documents of a run that has ended, and its message changes   *)
(* only when the chat request writes it a second time.                      *)
THEOREM FinalStaysFinal == Spec => FinalIsFinal
<1>1. DocumentsInv /\ [Next]_vars =>
        [\A j \in Jobs : jobs[j].status \in Terminal =>
            /\ jobs'[j] = jobs[j] /\ hrun'[j] = hrun[j]
            /\ msg'[j] = msg[j] \/ note'[j] # note[j]]_vars
  BY RunSteps DEF RunStep, Same, Moved, Annotated, Transition, Live, Active, Terminal
<1> QED
  BY <1>1, DocumentsCorrect, PTL DEF Spec, FinalIsFinal
-----------------------------------------------------------------------------
(* Rank keeps the order of the jobs it keeps strict: no two share a place.  *)
LEMMA RankInjective ==
    ASSUME NEW kept \in SUBSET Jobs, NEW class \in [Jobs -> Nat], TypeOK,
           \A j, k \in kept : pos[j] = pos[k] => j = k \/ class[j] # class[k],
           NEW j \in kept, NEW k \in kept, Rank(kept, class)[j] = Rank(kept, class)[k]
    PROVE  j = k
<1> DEFINE Before(i) == {l \in kept : \/ class[l] < class[i]
                                      \/ /\ class[l] = class[i]
                                         /\ pos[l] < pos[i]}
<1>1. /\ \A i \in kept : class[i] \in Nat /\ pos[i] \in Nat
      /\ j \in Jobs /\ k \in Jobs
  BY DEF TypeOK
<1>2. \A i \in Jobs : IsFiniteSet(Before(i)) /\ Cardinality(Before(i)) \in Nat
  <2> TAKE i \in Jobs
  <2>1. IsFiniteSet(Jobs)
    BY ConstantsAssumption
  <2>2. Before(i) \subseteq Jobs
    OBVIOUS
  <2> HIDE DEF Before
  <2> QED
    BY <2>1, <2>2, FS_Subset, FS_CardinalityType
<1>3. \A i \in kept : Rank(kept, class)[i] = 1 + Cardinality(Before(i))
  BY DEF Rank
<1>4. Cardinality(Before(j)) = Cardinality(Before(k))
  <2> HIDE DEF Before
  <2> QED
    BY <1>1, <1>2, <1>3
<1>5. ASSUME NEW x \in kept, NEW y \in kept, Cardinality(Before(x)) = Cardinality(Before(y)),
             \/ class[x] < class[y]
             \/ class[x] = class[y] /\ pos[x] < pos[y]
      PROVE  FALSE
  <2>1. Before(x) \subseteq Before(y) /\ x \in Before(y) /\ x \notin Before(x)
    BY <1>1, <1>5
  <2>2. IsFiniteSet(Before(y)) /\ x \in Jobs /\ y \in Jobs
    BY <1>2
  <2> HIDE DEF Before
  <2> QED
    BY <1>5, <2>1, <2>2, FS_Subset
<1>6. CASE j # k
  <2>1. \/ class[j] < class[k]
        \/ class[j] = class[k] /\ pos[j] < pos[k]
        \/ class[k] < class[j]
        \/ class[k] = class[j] /\ pos[k] < pos[j]
    BY <1>1, <1>6
  <2> HIDE DEF Before
  <2> QED
    BY <1>4, <1>5, <2>1
<1> QED
  BY <1>6

(* What the queue promises of one job, and of two.                          *)
QueueInv ==
    /\ TypeOK
    /\ LiveJobsQueued

(* A step that ranks the jobs of kept, and leaves no other job live, keeps  *)
(* the promise.                                                             *)
LEMMA RankKeepsQueue ==
    ASSUME QueueInv, NEW kept \in SUBSET Jobs, NEW class \in [Jobs -> Nat],
           \A j, k \in kept : pos[j] = pos[k] => j = k \/ class[j] # class[k],
           pos' = Rank(kept, class),
           \A j \in Jobs \ kept : jobs'[j].status \notin Live
    PROVE  LiveJobsQueued'
<1>1. TypeOK
  BY DEF QueueInv
<1>2. \A j \in Jobs : pos'[j] > 0 <=> j \in kept
  BY RankType
<1>3. \A j \in Jobs : jobs'[j].status \in Live => pos'[j] > 0
  BY <1>2
<1>4. InQueue' = kept
  BY <1>2 DEF InQueue
<1>5. \A j, k \in kept : pos'[j] = pos'[k] => j = k
  BY <1>1, RankInjective
<1> QED
  BY <1>3, <1>4, <1>5 DEF LiveJobsQueued

(* Every action either ranks the queue anew or leaves it, and ends no job   *)
(* without dropping it at the latest when a claim next scans it.            *)
LEMMA NextQueue == QueueInv /\ [Next]_vars => QueueInv'
<1> SUFFICES ASSUME QueueInv, [Next]_vars
             PROVE  LiveJobsQueued'
  BY NextTypeOK DEF QueueInv
<1>t. TypeOK /\ jobs \in [Jobs -> JobType]
  BY DEF QueueInv, TypeOK
<1>q. /\ \A k \in Jobs : jobs[k].status \in Live => k \in InQueue
      /\ \A k, l \in InQueue : pos[k] = pos[l] => k = l
      /\ InQueue \in SUBSET Jobs
      /\ \A k \in Jobs \ InQueue : pos[k] = 0
  BY <1>t DEF QueueInv, LiveJobsQueued, InQueue, TypeOK
<1>1. ASSUME pos' = pos, \A k \in Jobs : jobs'[k].status \in Live => jobs[k].status \in Live
      PROVE  LiveJobsQueued'
  BY <1>1 DEF QueueInv, LiveJobsQueued, InQueue
<1>2. ASSUME NEW j \in Jobs, NEW class \in [Jobs -> Nat], pos' = Rank(InQueue \cup {j}, class),
             \A k \in Jobs \ {j} : jobs'[k] = jobs[k]
      PROVE  LiveJobsQueued'
  <2>1. \A k, l \in InQueue \cup {j} : pos[k] = pos[l] => k = l
    BY <1>q DEF InQueue
  <2>2. \A k \in Jobs \ (InQueue \cup {j}) : jobs'[k].status \notin Live
    BY <1>2, <1>q
  <2>3. InQueue \cup {j} \in SUBSET Jobs
    BY <1>q
  <2> QED
    BY <1>2, <2>1, <2>2, <2>3, RankKeepsQueue
<1>3. ASSUME NEW dropped, NEW class \in [Jobs -> Nat], pos' = Rank(InQueue \ dropped, class),
             \A k \in Jobs : jobs'[k].status \in Live =>
                jobs[k].status \in Live /\ k \notin dropped
      PROVE  LiveJobsQueued'
  <2>1. \A k \in Jobs \ (InQueue \ dropped) : jobs'[k].status \notin Live
    BY <1>3, <1>q
  <2>2. InQueue \ dropped \in SUBSET Jobs
    BY <1>q
  <2>3. \A k, l \in InQueue \ dropped : pos[k] = pos[l] => k = l \/ class[k] # class[l]
    BY <1>q
  <2> QED
    BY <1>3, <2>1, <2>2, <2>3, RankKeepsQueue
<1>4. ASSUME NEW j \in Jobs, Dispatch(j)
      PROVE  LiveJobsQueued'
  <2>1. /\ pos' = pos /\ jobs'[j].status = "dispatching"
        /\ \A k \in Jobs \ {j} : jobs'[k] = jobs[k]
    BY <1>4, <1>t DEF Dispatch, JobType
  <2> QED
    BY <1>1, <2>1 DEF Live, Active
<1>5. ASSUME NEW j \in Jobs, Enqueue(j)
      PROVE  LiveJobsQueued'
  <2>1. \A k \in Jobs \ {j} : jobs'[k] = jobs[k]
    BY <1>5, <1>t DEF Enqueue
  <2>2. pos' = Rank(InQueue \cup {j}, [k \in Jobs |-> IF k = j THEN 1 ELSE 0])
    BY <1>5 DEF Enqueue, ToTail
  <2>3. [k \in Jobs |-> IF k = j THEN 1 ELSE 0] \in [Jobs -> Nat]
    OBVIOUS
  <2> QED
    BY <1>2, <2>1, <2>2, <2>3
<1>6. ASSUME NEW j \in Jobs, EnqueueRefused(j)
      PROVE  LiveJobsQueued'
  <2>1. /\ pos' = pos /\ jobs'[j].status = "refused"
        /\ \A k \in Jobs \ {j} : jobs'[k] = jobs[k]
    BY <1>6, <1>t DEF EnqueueRefused, JobType
  <2> QED
    BY <1>1, <2>1 DEF Live, Active
<1>7. ASSUME NEW j \in Jobs, CancelJob(j)
      PROVE  LiveJobsQueued'
  <2>1. /\ jobs'[j].status = "cancelled"
        /\ \A k \in Jobs \ {j} : jobs'[k] = jobs[k]
    BY <1>7, <1>t DEF CancelJob, JobType
  <2>2. pos' = Rank(InQueue \ {j}, [k \in Jobs |-> 0])
    BY <1>7 DEF CancelJob, Without
  <2>3. [k \in Jobs |-> 0] \in [Jobs -> Nat]
    OBVIOUS
  <2>4. \A k \in Jobs : jobs'[k].status \in Live => jobs[k].status \in Live /\ k \notin {j}
    BY <2>1 DEF Live, Active
  <2> QED
    BY <1>3, <2>2, <2>3, <2>4
(* A claim drops exactly the jobs that have ended or end with it.           *)
<1>8. /\ \A k \in Requeued : jobs[k].status \in Live
      /\ \A k \in Winners : jobs[k].status \in Live /\ k \notin Expiring
  BY DEF Requeued, Recovering, Winners, TimedOut, Examined, Claimable, Lapsed, Expiring,
         Live, Active, AuthorizationChanged, ExecutionUnavailable
<1>9. ASSUME NEW k \in Jobs, jobs'[k] = Settled(k), jobs'[k].status \in Live
      PROVE  jobs[k].status \in Live /\ k \notin Dropped
  <2>1. k \notin Expiring
    BY <1>9, <1>t DEF Settled, JobType, Live, Active
  <2>2. jobs[k].status \in Live
    BY <1>8, <1>9, <2>1 DEF Settled
  <2> QED
    BY <2>1, <2>2 DEF Dropped, Live, Active, Terminal
<1>10. ASSUME NEW j \in Jobs, ClaimJob(j)
       PROVE  LiveJobsQueued'
  <2> DEFINE class == [k \in Jobs |-> IF k = j THEN 0 ELSE IF k \in Recovering THEN 2
                                      ELSE IF k \in Scanned THEN 1 ELSE 3]
  <2>1. pos' = Rank(InQueue \ Dropped, class) /\ class \in [Jobs -> Nat]
    BY <1>10 DEF ClaimJob
  <2>2. \A k \in Jobs \ {j} : jobs'[k] = Settled(k)
    BY <1>10 DEF ClaimJob
  <2>3. jobs[j].status \in Live /\ j \notin Dropped
    BY <1>8, <1>10 DEF ClaimJob, Dropped, Live, Active, Terminal
  <2> HIDE DEF class
  <2> QED
    BY <1>3, <1>9, <2>1, <2>2, <2>3
<1>11. ASSUME ClaimNothing
       PROVE  LiveJobsQueued'
  <2> DEFINE class == [k \in Jobs |-> IF k \in Recovering THEN 3
                                      ELSE IF k \in Scanned THEN 1 ELSE 2]
  <2>1. pos' = Rank(InQueue \ Dropped, class) /\ class \in [Jobs -> Nat]
    BY <1>11 DEF ClaimNothing
  <2>2. \A k \in Jobs : jobs'[k] = Settled(k)
    BY <1>11 DEF ClaimNothing
  <2> HIDE DEF class
  <2> QED
    BY <1>3, <1>9, <2>1, <2>2
<1>12. ASSUME NEW r \in sent
       PROVE  r.job \in Jobs
  BY <1>t, <1>12 DEF TypeOK, ReceiptType
<1>13. ASSUME NEW r \in sent, NEW n \in Clock, Renew(r, n) \/ Complete(r, n)
       PROVE  LiveJobsQueued'
  <2>1. /\ pos' = pos /\ jobs[r.job].status \in Live
        /\ \A k \in Jobs \ {r.job} : jobs'[k] = jobs[k]
    BY <1>13, <1>12, <1>t DEF Renew, Complete, Fenced, Live
  <2> QED
    BY <1>1, <2>1
<1>14. ASSUME NEW r \in sent, NEW n \in Clock, Recover(r, n)
       PROVE  LiveJobsQueued'
  <2> DEFINE class == [k \in Jobs |-> IF k = r.job THEN 0 ELSE 1]
  <2>1. \A k \in Jobs \ {r.job} : jobs'[k] = jobs[k]
    BY <1>14, <1>12, <1>t DEF Recover
  <2>2. pos' = Rank(InQueue \cup {r.job}, class) /\ class \in [Jobs -> Nat]
    BY <1>14 DEF Recover, ToHead
  <2> HIDE DEF class
  <2> QED
    BY <1>2, <1>12, <2>1, <2>2
<1>15. ASSUME \/ \E j \in Jobs : Unbind(j) \/ Annotate(j) \/ EnqueueAgain(j)
              \/ BeginClaim \/ StartWorker \/ LoseGrant
              \/ \E w \in workers : \/ PostAccepted(w) \/ PostProgress(w) \/ CrashWorker(w)
                                    \/ \E event \in Final : PostFinal(w, event)
              \/ \E a \in Agents : Maintain(a) \/ MaintainDone(a) \/ Outage(a)
              \/ Heartbeat \/ Rotate \/ Pause \/ Resume \/ Revoke \/ CleanupDone \/ Tick
              \/ UNCHANGED vars
       PROVE  LiveJobsQueued'
  <2>1. UNCHANGED <<jobs, pos>>
    BY <1>15 DEF Unbind, Annotate, EnqueueAgain, BeginClaim, StartWorker, LoseGrant,
         PostAccepted, PostProgress, CrashWorker, PostFinal, Maintain, MaintainDone, Outage,
         Heartbeat, Rotate, Pause, Resume, Revoke, CleanupDone, Tick, vars, queueVars
  <2> QED
    BY <1>1, <2>1
<1> QED
  BY <1>4, <1>5, <1>6, <1>7, <1>10, <1>11, <1>13, <1>14, <1>15
  DEF Next, Deliver, Cancel, CleanupCancel

(* No live job is forgotten, and no two jobs share a place in the queue,    *)
(* however claims, recoveries and cancellations reorder it.                 *)
THEOREM LiveJobsStayQueued == Spec => []LiveJobsQueued
<1>1. Init => QueueInv
  BY InitTypeOK DEF Init, QueueInv, LiveJobsQueued, InQueue, NewJob, Live, Active
<1>2. QueueInv => LiveJobsQueued
  BY DEF QueueInv
<1> QED
  BY <1>1, <1>2, NextQueue, PTL DEF Spec
-----------------------------------------------------------------------------
(* The slot that the ledger keeps for a job, against the job's own lease.   *)
SlotAgrees(q, slot, n) ==
    /\ slot > 0 => q.status \in Active /\ slot = q.lease
    /\ q.status \in Active /\ q.lease > n => slot = q.lease

LedgerInv ==
    /\ TypeOK
    /\ \A k \in Jobs : SlotAgrees(jobs[k], ledger[k], now)
    /\ req.phase = "sent" => req.at <= now

(* A job a step leaves alone keeps its slot, or loses one that ran out.     *)
Untouched(k) ==
    /\ jobs'[k] = jobs[k]
    /\ \/ ledger'[k] = ledger[k]
       \/ ledger'[k] = 0 /\ ledger[k] <= now

(* Every action gives, extends or hands back a slot with the lease it is    *)
(* for; pruning only drops slots that ran out.                              *)
LEMMA NextLedger == LedgerInv /\ [Next]_vars => LedgerInv'
<1> SUFFICES ASSUME LedgerInv, [Next]_vars
             PROVE  LedgerInv'
  OBVIOUS
<1>t. TypeOK /\ jobs \in [Jobs -> JobType] /\ ledger \in [Jobs -> Nat] /\ now \in Nat
  BY DEF LedgerInv, TypeOK
<1>s. \A k \in Jobs : SlotAgrees(jobs[k], ledger[k], now)
  BY DEF LedgerInv
<1>n. TypeOK' /\ now' \in Nat /\ now' >= now
  <2>1. TypeOK'
    BY <1>t, NextTypeOK
  <2>2. now' = now \/ now' = now + 1
    BY DEF Next, Deliver, vars, Dispatch, Enqueue, EnqueueRefused, Annotate, EnqueueAgain,
       Cancel, CleanupCancel, CancelJob, Unbind, ClaimJob, BeginClaim, ClaimNothing,
       StartWorker, LoseGrant, PostAccepted, PostProgress, CrashWorker, PostFinal, Renew,
       Complete, Recover, Maintain, MaintainDone, Outage, Heartbeat, Rotate, Pause, Resume,
       Revoke, CleanupDone, Tick
  <2> QED
    BY <1>t, <2>1, <2>2
<1>r. req'.phase = "sent" => req'.at <= now'
  <2>1. req'.phase = "sent" => req' = req \/ req'.at = now
    <3>1. CASE BeginClaim
      BY <3>1 DEF BeginClaim
    <3>2. CASE \E j \in Jobs : ClaimJob(j)
      BY <3>2 DEF ClaimJob
    <3>3. CASE ClaimNothing \/ StartWorker \/ LoseGrant
      <4>1. req' = NoReq
        BY <3>3 DEF ClaimNothing, StartWorker, LoseGrant
      <4> QED
        BY <4>1 DEF NoReq
    <3>4. CASE UNCHANGED req
      BY <3>4
    <3> QED
      BY <3>1, <3>2, <3>3, <3>4
      DEF Next, Deliver, vars, Dispatch, Enqueue, EnqueueRefused, Annotate, EnqueueAgain,
          Cancel, CleanupCancel, CancelJob, Unbind, PostAccepted, PostProgress, CrashWorker,
          PostFinal, Renew, Complete, Recover, Maintain, MaintainDone, Outage, Heartbeat,
          Rotate, Pause, Resume, Revoke, CleanupDone, Tick, netVars
  <2>2. req.phase = "sent" => req.at \in Nat
    BY <1>t DEF TypeOK, RequestType, NoReq
  <2> QED
    BY <1>n, <1>t, <2>1, <2>2 DEF LedgerInv
<1>p. ASSUME NEW agents, NEW n \in Nat, n <= now, NEW k \in Jobs
      PROVE  \/ Pruned(agents, n)[k] = ledger[k]
             \/ Pruned(agents, n)[k] = 0 /\ ledger[k] <= now
  BY <1>p, <1>t DEF Pruned
<1>1. ASSUME NEW k \in Jobs, Untouched(k)
      PROVE  SlotAgrees(jobs'[k], ledger'[k], now')
  BY <1>1, <1>s, <1>t, <1>n DEF Untouched, SlotAgrees, JobType
<1>2. ASSUME \A k \in Jobs : Untouched(k) \/ SlotAgrees(jobs'[k], ledger'[k], now')
      PROVE  LedgerInv'
  BY <1>1, <1>2, <1>n, <1>r DEF LedgerInv
<1>3. ASSUME NEW k \in Jobs, jobs'[k].status \notin Active, ledger'[k] = 0
      PROVE  SlotAgrees(jobs'[k], ledger'[k], now')
  BY <1>3 DEF SlotAgrees
<1>4. ASSUME NEW k \in Jobs, jobs[k].status \notin Active
      PROVE  ledger[k] = 0
  BY <1>4, <1>s, <1>t DEF SlotAgrees
<1>5. ASSUME UNCHANGED <<jobs, ledger>>
      PROVE  LedgerInv'
  BY <1>2, <1>5 DEF Untouched
<1>6. ASSUME NEW j \in Jobs, Dispatch(j) \/ Enqueue(j) \/ EnqueueRefused(j)
      PROVE  LedgerInv'
  <2>1. /\ jobs[j].status \notin Active
        /\ ledger' = ledger
        /\ \A k \in Jobs \ {j} : jobs'[k] = jobs[k]
    BY <1>6, <1>t DEF Dispatch, Enqueue, EnqueueRefused, Active
  <2>2. jobs'[j].status \in {"dispatching", "queued", "refused"}
    <3>1. CASE Dispatch(j)
      BY <3>1, <1>t DEF Dispatch, JobType
    <3>2. CASE Enqueue(j)
      BY <3>2, <1>t DEF Enqueue, JobType
    <3>3. CASE EnqueueRefused(j)
      BY <3>3, <1>t DEF EnqueueRefused, JobType
    <3> QED
      BY <1>6, <3>1, <3>2, <3>3
  <2> QED
    BY <1>2, <1>3, <1>4, <2>1, <2>2 DEF Untouched, Active
<1>7. ASSUME NEW j \in Jobs, CancelJob(j)
      PROVE  LedgerInv'
  <2>1. /\ jobs'[j].status = "cancelled"
        /\ \A k \in Jobs \ {j} : jobs'[k] = jobs[k]
    BY <1>7, <1>t DEF CancelJob, JobType
  <2>2. CASE jobs[j].status \in Active
    <3>1. PICK n \in Clock : ledger' = [Pruned({AgentOf[j]}, n) EXCEPT ![j] = 0]
      BY <1>7, <2>2 DEF CancelJob
    <3>2. n \in Nat /\ n <= now
      BY <1>t DEF Clock
    <3>3. DOMAIN Pruned({AgentOf[j]}, n) = Jobs
      BY DEF Pruned
    <3>4. \A k \in Jobs \ {j} : Untouched(k)
      BY <1>p, <2>1, <3>1, <3>2, <3>3 DEF Untouched
    <3>5. ledger'[j] = 0
      BY <3>1, <3>3
    <3> QED
      BY <1>2, <1>3, <2>1, <3>4, <3>5 DEF Active
  <2>3. CASE jobs[j].status \notin Active
    BY <1>2, <1>3, <1>4, <1>7, <2>1, <2>3 DEF CancelJob, Untouched, Active
  <2> QED
    BY <2>2, <2>3
(* The claim: what it expires or requeues loses its slot, the job it gives  *)
(* out gets one until the end of the lease.                                 *)
<1>8. ASSUME req.phase = "sent"
      PROVE  req.at \in Nat /\ req.at <= now
  BY <1>8, <1>t DEF LedgerInv, TypeOK, RequestType, NoReq
<1>9. ASSUME NEW k \in Jobs, req.phase = "sent", jobs'[k] = Settled(k),
             ledger'[k] = ReleasedLedger[k]
      PROVE  Untouched(k) \/ SlotAgrees(jobs'[k], ledger'[k], now')
  <2>1. CASE k \in Expiring \cup Requeued
    <3>1. jobs'[k].status \in {"expired", "queued"}
      BY <1>9, <1>t, <2>1 DEF Settled, JobType
    <3>2. ledger'[k] = 0
      BY <1>4, <1>9, <1>t, <2>1 DEF ReleasedLedger, Pruned
    <3> QED
      BY <1>3, <3>1, <3>2 DEF Active
  <2>2. CASE k \notin Expiring \cup Requeued
    BY <1>8, <1>9, <1>p, <2>2 DEF Settled, ReleasedLedger, Untouched
  <2> QED
    BY <2>1, <2>2
<1>10. ASSUME NEW j \in Jobs, ClaimJob(j)
       PROVE  LedgerInv'
  <2>1. req.phase = "sent"
    BY <1>10 DEF ClaimJob
  <2>2. ASSUME NEW k \in Jobs, k # j
        PROVE  Untouched(k) \/ SlotAgrees(jobs'[k], ledger'[k], now')
    <3>1. jobs'[k] = Settled(k) /\ ledger'[k] = ReleasedLedger[k]
      BY <1>10, <2>2 DEF ClaimJob, ReleasedLedger
    <3> QED
      BY <1>9, <2>1, <3>1
  <2>3. SlotAgrees(jobs'[j], ledger'[j], now')
    <3>1. jobs'[j] = Granted(j) /\ ledger'[j] = req.at + Lease
      BY <1>10 DEF ClaimJob, ReleasedLedger
    <3>2. Granted(j).status = "claimed" /\ Granted(j).lease = req.at + Lease
      BY <1>t DEF Granted, JobType
    <3> QED
      BY <3>1, <3>2 DEF SlotAgrees, Active
  <2> QED
    BY <1>2, <2>2, <2>3
<1>11. ASSUME ClaimNothing
       PROVE  LedgerInv'
  <2>1. req.phase = "sent" /\ \A k \in Jobs : jobs'[k] = Settled(k)
    BY <1>11 DEF ClaimNothing
  <2>2. \A k \in Jobs : ledger'[k] = ReleasedLedger[k]
    BY <1>11 DEF ClaimNothing
  <2> QED
    BY <1>2, <1>9, <2>1, <2>2
<1>12. ASSUME NEW r \in sent, NEW n \in Clock, NEW q, NEW slot,
              jobs' = [jobs EXCEPT ![r.job] = q], SlotAgrees(q, slot, now'),
              ledger' = [Pruned({AgentOf[r.job]}, n) EXCEPT ![r.job] = slot]
       PROVE  LedgerInv'
  <2>1. r.job \in Jobs /\ n \in Nat /\ n <= now
    BY <1>12, <1>t DEF TypeOK, ReceiptType, Clock
  <2>2. DOMAIN Pruned({AgentOf[r.job]}, n) = Jobs
    BY DEF Pruned
  <2>3. \A k \in Jobs \ {r.job} : Untouched(k)
    BY <1>12, <1>p, <1>t, <2>1, <2>2 DEF Untouched
  <2>4. jobs'[r.job] = q /\ ledger'[r.job] = slot
    BY <1>12, <1>t, <2>1, <2>2
  <2> QED
    BY <1>2, <1>12, <2>3, <2>4
<1>13. ASSUME NEW r \in sent
       PROVE  r.job \in Jobs /\ jobs[r.job] \in JobType
  BY <1>13, <1>t DEF TypeOK, ReceiptType
<1>14. ASSUME NEW r \in sent, NEW n \in Clock, Renew(r, n)
       PROVE  LedgerInv'
  <2>1. Renewed(r, n).status \in Active /\ Renewed(r, n).lease = n + Lease
    BY <1>13 DEF Renewed, JobType, Active
  <2>2. SlotAgrees(Renewed(r, n), n + Lease, now')
    BY <2>1 DEF SlotAgrees
  <2> QED
    BY <1>12, <1>14, <2>2 DEF Renew
<1>15. ASSUME NEW r \in sent, NEW n \in Clock, Complete(r, n)
       PROVE  LedgerInv'
  <2> DEFINE q == [jobs[r.job] EXCEPT !.status = Outcome(r), !.cred = r.cred,
                                      !.payload = FALSE, !.result = r.attempt]
  <2>1. q.status \in {"completed", "failed"}
    BY <1>13 DEF JobType, Outcome
  <2>2. SlotAgrees(q, 0, now')
    BY <2>1 DEF SlotAgrees, Active
  <2>3. /\ jobs' = [jobs EXCEPT ![r.job] = q]
        /\ ledger' = [Pruned({AgentOf[r.job]}, n) EXCEPT ![r.job] = 0]
    BY <1>15 DEF Complete
  <2> HIDE DEF q
  <2> QED
    BY <1>12, <2>2, <2>3
<1>16. ASSUME NEW r \in sent, NEW n \in Clock, Recover(r, n)
       PROVE  LedgerInv'
  <2>1. Recovered(r, n).status = "queued"
    BY <1>13 DEF Recovered, JobType
  <2>2. SlotAgrees(Recovered(r, n), 0, now')
    BY <2>1 DEF SlotAgrees, Active
  <2> QED
    BY <1>12, <1>16, <2>2 DEF Recover
<1>17. ASSUME \/ \E j \in Jobs : Unbind(j) \/ Annotate(j) \/ EnqueueAgain(j)
              \/ BeginClaim \/ StartWorker \/ LoseGrant
              \/ \E w \in workers : \/ PostAccepted(w) \/ PostProgress(w) \/ CrashWorker(w)
                                    \/ \E event \in Final : PostFinal(w, event)
              \/ \E a \in Agents : Maintain(a) \/ MaintainDone(a) \/ Outage(a)
              \/ Heartbeat \/ Rotate \/ Pause \/ Resume \/ Revoke \/ CleanupDone \/ Tick
              \/ UNCHANGED vars
       PROVE  LedgerInv'
  <2>1. UNCHANGED <<jobs, ledger>>
    BY <1>17 DEF Unbind, Annotate, EnqueueAgain, BeginClaim, StartWorker, LoseGrant,
         PostAccepted, PostProgress, CrashWorker, PostFinal, Maintain, MaintainDone, Outage,
         Heartbeat, Rotate, Pause, Resume, Revoke, CleanupDone, Tick, vars, queueVars
  <2> QED
    BY <1>5, <2>1
<1> QED
  BY <1>6, <1>7, <1>10, <1>11, <1>14, <1>15, <1>16, <1>17
  DEF Next, Deliver, Cancel, CleanupCancel

(* The ledger holds exactly the live leases: no slot leaks.                 *)
THEOREM LedgerStaysLiveLeases == Spec => []LedgerIsLiveLeases
<1>1. Init => LedgerInv
  BY InitTypeOK DEF Init, LedgerInv, SlotAgrees, NewJob, NoReq, Active
<1>2. LedgerInv => LedgerIsLiveLeases
  BY DEF LedgerInv, SlotAgrees, LedgerIsLiveLeases
<1> QED
  BY <1>1, <1>2, NextLedger, PTL DEF Spec
-----------------------------------------------------------------------------
(* Rank follows class and then place: what comes before in that order has   *)
(* the lower rank.                                                          *)
LEMMA RankStrict ==
    ASSUME NEW kept \in SUBSET Jobs, NEW class \in [Jobs -> Nat], TypeOK,
           NEW j \in kept, NEW k \in kept,
           \/ class[j] < class[k]
           \/ class[j] = class[k] /\ pos[j] < pos[k]
    PROVE  Rank(kept, class)[j] < Rank(kept, class)[k]
<1> DEFINE Before(i) == {l \in kept : \/ class[l] < class[i]
                                      \/ /\ class[l] = class[i]
                                         /\ pos[l] < pos[i]}
<1>1. /\ \A i \in kept : class[i] \in Nat /\ pos[i] \in Nat
      /\ j \in Jobs /\ k \in Jobs
  BY DEF TypeOK
<1>2. \A i \in Jobs : IsFiniteSet(Before(i)) /\ Cardinality(Before(i)) \in Nat
  <2> TAKE i \in Jobs
  <2>1. IsFiniteSet(Jobs)
    BY ConstantsAssumption
  <2>2. Before(i) \subseteq Jobs
    OBVIOUS
  <2> HIDE DEF Before
  <2> QED
    BY <2>1, <2>2, FS_Subset, FS_CardinalityType
<1>3. \A i \in kept : Rank(kept, class)[i] = 1 + Cardinality(Before(i))
  BY DEF Rank
<1>4. Before(j) \subseteq Before(k) /\ j \in Before(k) /\ j \notin Before(j)
  BY <1>1
<1> HIDE DEF Before
<1>5. Cardinality(Before(j)) < Cardinality(Before(k))
  <2>1. Before(j) # Before(k)
    BY <1>4
  <2>2. /\ Cardinality(Before(j)) <= Cardinality(Before(k))
        /\ Cardinality(Before(j)) = Cardinality(Before(k)) => Before(j) = Before(k)
    BY <1>1, <1>2, <1>4, FS_Subset
  <2> QED
    BY <1>1, <1>2, <2>1, <2>2
<1> QED
  BY <1>1, <1>2, <1>3, <1>5

(* Hence a job that is ranked no later than another came no later: by       *)
(* class, or within its class by place.                                     *)
LEMMA RankOrder ==
    ASSUME NEW kept \in SUBSET Jobs, NEW class \in [Jobs -> Nat], TypeOK,
           NEW j \in kept, NEW k \in kept, Rank(kept, class)[j] <= Rank(kept, class)[k]
    PROVE  \/ class[j] < class[k]
           \/ class[j] = class[k] /\ pos[j] <= pos[k]
<1>1. class[j] \in Nat /\ class[k] \in Nat /\ pos[j] \in Nat /\ pos[k] \in Nat
  BY DEF TypeOK
<1>2. Rank(kept, class)[j] \in Nat /\ Rank(kept, class)[k] \in Nat
  BY RankType
<1>3. ASSUME class[k] < class[j] \/ (class[k] = class[j] /\ pos[k] < pos[j])
      PROVE  FALSE
  <2>1. Rank(kept, class)[k] < Rank(kept, class)[j]
    BY <1>3, RankStrict
  <2> QED
    BY <1>2, <2>1
<1>4. class[j] < class[k] \/ class[k] < class[j] \/ class[j] = class[k]
  BY <1>1
<1> QED
  BY <1>1, <1>3, <1>4

(* And no rank exceeds the number of jobs ranked.                           *)
LEMMA RankBound ==
    ASSUME NEW kept \in SUBSET Jobs, NEW class \in [Jobs -> Nat], TypeOK, NEW j \in kept
    PROVE  Rank(kept, class)[j] <= Cardinality(kept)
<1> DEFINE Before == {l \in kept : \/ class[l] < class[j]
                                   \/ /\ class[l] = class[j]
                                      /\ pos[l] < pos[j]}
<1>1. class[j] \in Nat /\ pos[j] \in Nat /\ j \in Jobs
  BY DEF TypeOK
<1>2. Rank(kept, class)[j] = 1 + Cardinality(Before)
  BY DEF Rank
<1>3. Before \subseteq kept /\ j \notin Before
  BY <1>1
<1> HIDE DEF Before
<1>4. IsFiniteSet(kept)
  BY ConstantsAssumption, FS_Subset
<1>5. Cardinality(Before) <= Cardinality(kept) /\ Cardinality(Before) # Cardinality(kept)
  BY <1>3, <1>4, FS_Subset
<1>6. Cardinality(Before) \in Nat /\ Cardinality(kept) \in Nat
  BY <1>3, <1>4, FS_Subset, FS_CardinalityType
<1> QED
  BY <1>2, <1>5, <1>6
-----------------------------------------------------------------------------
(* Only the claim makes a run active.                                       *)
LEMMA OnlyClaimsActivate ==
    ASSUME TypeOK, [Next]_vars, NEW j \in Jobs,
           jobs'[j].status \in Active, jobs[j].status \notin Active
    PROVE  ClaimJob(j)
<1>t. jobs \in [Jobs -> JobType]
  BY DEF TypeOK
<1> SUFFICES ASSUME ~ClaimJob(j)
             PROVE  FALSE
  OBVIOUS
<1>1. ASSUME NEW k \in Jobs, Dispatch(k) \/ Enqueue(k) \/ EnqueueRefused(k) \/ CancelJob(k)
      PROVE  FALSE
  <2>1. CASE j = k
    <3>1. CASE Dispatch(k)
      BY <2>1, <3>1, <1>t DEF Dispatch, JobType, Active
    <3>2. CASE Enqueue(k)
      BY <2>1, <3>2, <1>t DEF Enqueue, JobType, Active
    <3>3. CASE EnqueueRefused(k)
      BY <2>1, <3>3, <1>t DEF EnqueueRefused, JobType, Active
    <3>4. CASE CancelJob(k)
      BY <2>1, <3>4, <1>t DEF CancelJob, JobType, Active
    <3> QED
      BY <1>1, <3>1, <3>2, <3>3, <3>4
  <2>2. CASE j # k
    <3>1. jobs'[j] = jobs[j]
      BY <1>1, <2>2, <1>t DEF Dispatch, Enqueue, EnqueueRefused, CancelJob
    <3> QED
      BY <3>1
  <2> QED
    BY <2>1, <2>2
<1>2. ASSUME jobs'[j] = Settled(j)
      PROVE  FALSE
  BY <1>2, <1>t DEF Settled, JobType, Active
<1>3. ASSUME NEW k \in Jobs, ClaimJob(k)
      PROVE  FALSE
  BY <1>2, <1>3 DEF ClaimJob
<1>4. ASSUME NEW r \in sent, NEW n \in Clock, Renew(r, n) \/ Complete(r, n) \/ Recover(r, n)
      PROVE  FALSE
  <2>1. r.job \in Jobs
    BY DEF TypeOK, ReceiptType
  <2>2. CASE j = r.job
    <3>1. ~Renew(r, n) /\ ~Complete(r, n)
      BY <2>2 DEF Renew, Complete, Fenced
    <3>2. CASE Recover(r, n)
      BY <2>2, <3>2, <1>t DEF Recover, Recovered, JobType, Active
    <3> QED
      BY <1>4, <3>1, <3>2
  <2>3. CASE j # r.job
    <3>1. jobs'[j] = jobs[j]
      BY <1>4, <2>1, <2>3, <1>t DEF Renew, Complete, Recover
    <3> QED
      BY <3>1
  <2> QED
    BY <2>2, <2>3
<1>5. ASSUME ClaimNothing
      PROVE  FALSE
  BY <1>2, <1>5 DEF ClaimNothing
<1>6. ASSUME \/ \E k \in Jobs : Unbind(k) \/ Annotate(k) \/ EnqueueAgain(k)
             \/ BeginClaim \/ StartWorker \/ LoseGrant
             \/ \E w \in workers : \/ PostAccepted(w) \/ PostProgress(w) \/ CrashWorker(w)
                                   \/ \E event \in Final : PostFinal(w, event)
             \/ \E a \in Agents : Maintain(a) \/ MaintainDone(a) \/ Outage(a)
             \/ Heartbeat \/ Rotate \/ Pause \/ Resume \/ Revoke \/ CleanupDone \/ Tick
             \/ UNCHANGED vars
      PROVE  FALSE
  BY <1>6 DEF Unbind, Annotate, EnqueueAgain, BeginClaim, StartWorker, LoseGrant,
         PostAccepted, PostProgress, CrashWorker, PostFinal, Maintain, MaintainDone, Outage,
         Heartbeat, Rotate, Pause, Resume, Revoke, CleanupDone, Tick, vars, queueVars
<1> QED
  BY <1>1, <1>3, <1>4, <1>5, <1>6
  DEF Next, Deliver, Cancel, CleanupCancel

(* Only Maintain takes a reservation; every other step leaves it, drops it  *)
(* when it has run out, or gives it back.                                   *)
LEMMA OnlyMaintainReserves ==
    ASSUME TypeOK, [Next]_vars, NEW a \in Agents, maint'[a] # maint[a], maint'[a] # 0
    PROVE  Maintain(a)
<1>t. maint \in [Agents -> Nat] /\ sent \subseteq ReceiptType
  BY DEF TypeOK
<1> SUFFICES ASSUME ~Maintain(a)
             PROVE  FALSE
  OBVIOUS
<1>1. ASSUME NEW agents, NEW n, maint' = PrunedMaint(agents, n)
      PROVE  FALSE
  BY <1>1 DEF PrunedMaint
<1>2. ASSUME NEW j \in Jobs, CancelJob(j)
      PROVE  FALSE
  BY <1>1, <1>2 DEF CancelJob
<1>3. ASSUME \/ \E j \in Jobs : ClaimJob(j)
             \/ ClaimNothing
             \/ \E r \in sent : Deliver(r)
      PROVE  FALSE
  <2>1. \E agents, n : maint' = PrunedMaint(agents, n)
    BY <1>3 DEF ClaimJob, ClaimNothing, SettleDocuments, Deliver, Renew, Complete, Recover
  <2> QED
    BY <1>1, <2>1
<1>4. ASSUME NEW b \in Agents, MaintainDone(b)
      PROVE  FALSE
  BY <1>4, <1>t DEF MaintainDone
<1>5. ASSUME NEW b \in Agents, Maintain(b)
      PROVE  FALSE
  <2>1. a = b
    BY <1>5, <1>t DEF Maintain
  <2> QED
    BY <1>5, <2>1
<1>6. ASSUME \/ \E j \in Jobs : \/ Dispatch(j) \/ Enqueue(j) \/ EnqueueRefused(j)
                               \/ Unbind(j) \/ Annotate(j) \/ EnqueueAgain(j)
             \/ BeginClaim \/ StartWorker \/ LoseGrant
             \/ \E w \in workers : \/ PostAccepted(w) \/ PostProgress(w) \/ CrashWorker(w)
                                   \/ \E event \in Final : PostFinal(w, event)
             \/ \E b \in Agents : Outage(b)
             \/ Heartbeat \/ Rotate \/ Pause \/ Resume \/ Revoke \/ CleanupDone \/ Tick
             \/ UNCHANGED vars
      PROVE  FALSE
  BY <1>6 DEF Dispatch, Enqueue, EnqueueRefused, Unbind, Annotate, EnqueueAgain, BeginClaim,
         StartWorker, LoseGrant, PostAccepted, PostProgress, CrashWorker, PostFinal, Outage,
         Heartbeat, Rotate, Pause, Resume, Revoke, CleanupDone, Tick, vars, queueVars
<1> QED
  BY <1>2, <1>3, <1>4, <1>5, <1>6
  DEF Next, Cancel, CleanupCancel

(* The clock never goes back.                                               *)
LEMMA ClockAdvances ==
    ASSUME TypeOK, [Next]_vars
    PROVE  now' \in Nat /\ now' >= now
<1>1. now' = now \/ now' = now + 1
  BY DEF Next, Deliver, vars, Dispatch, Enqueue, EnqueueRefused, Annotate, EnqueueAgain,
     Cancel, CleanupCancel, CancelJob, Unbind, ClaimJob, BeginClaim, ClaimNothing,
     StartWorker, LoseGrant, PostAccepted, PostProgress, CrashWorker, PostFinal, Renew,
     Complete, Recover, Maintain, MaintainDone, Outage, Heartbeat, Rotate, Pause, Resume,
     Revoke, CleanupDone, Tick
<1> QED
  BY <1>1 DEF TypeOK

(* A profile is reserved or works: Maintain looks at every active run, for  *)
(* the queue has them all, and a claim at the reservation.                  *)
ReservedInv == QueueInv /\ LedgerInv /\ MaintenanceAlone

LEMMA NextReserved == ReservedInv /\ [Next]_vars => ReservedInv'
<1> SUFFICES ASSUME ReservedInv, [Next]_vars
             PROVE  MaintenanceAlone'
  BY NextQueue, NextLedger DEF ReservedInv
<1>t. TypeOK /\ TypeOK'
  BY NextTypeOK DEF ReservedInv, QueueInv
<1>1. now \in Nat /\ now' \in Nat /\ now' >= now
  BY <1>t, ClockAdvances DEF TypeOK
<1>2. req.phase = "sent" => req.at \in Nat /\ req.at <= now
  BY <1>t DEF ReservedInv, LedgerInv, TypeOK, RequestType, NoReq
<1>3. SUFFICES ASSUME NEW j \in Jobs, maint'[AgentOf[j]] > now', jobs'[j].status \in Active
               PROVE  FALSE
  BY DEF MaintenanceAlone
<1> DEFINE a == AgentOf[j]
<1>4. a \in Agents /\ maint[a] \in Nat /\ maint'[a] \in Nat
  BY <1>t, ConstantsAssumption DEF TypeOK
<1>5. CASE Maintain(a)
  <2>1. jobs'[j] = jobs[j] /\ \A k \in InQueue : AgentOf[k] = a => jobs[k].status \notin Active
    BY <1>5 DEF Maintain
  <2>2. j \in InQueue
    BY <1>3, <2>1 DEF ReservedInv, QueueInv, LiveJobsQueued, InQueue, Live
  <2> QED
    BY <1>3, <2>1, <2>2
<1>6. CASE ~Maintain(a)
  <2>1. maint'[a] = maint[a]
    BY <1>1, <1>3, <1>4, <1>6, <1>t, OnlyMaintainReserves
  <2>2. jobs[j].status \notin Active
    BY <1>1, <1>3, <1>4, <2>1 DEF ReservedInv, MaintenanceAlone
  <2>3. ClaimJob(j)
    BY <1>3, <1>t, <2>2, OnlyClaimsActivate
  <2>4. req.phase = "sent" /\ ~(maint[a] > req.at)
    BY <2>3 DEF ClaimJob, Winners, NoSlot
  <2> QED
    BY <1>1, <1>2, <1>3, <1>4, <2>1, <2>4
<1> QED
  BY <1>5, <1>6

(* While a profile is reserved for a credential restart no run is active on *)
(* it, whatever the handlers' clocks lag behind each other.                 *)
THEOREM ReservedProfilesAreIdle == Spec => []MaintenanceAlone
<1>1. Init => ReservedInv
  BY InitTypeOK, ConstantsAssumption DEF Init, ReservedInv, QueueInv, LiveJobsQueued, InQueue,
     LedgerInv, SlotAgrees, MaintenanceAlone, NewJob, NoReq, Live, Active
<1>2. ReservedInv => MaintenanceAlone
  BY DEF ReservedInv
<1> QED
  BY <1>1, <1>2, NextReserved, PTL DEF Spec
-----------------------------------------------------------------------------
(* How a step may change the queue and the life of its jobs.                *)
LEMMA QueueOfRank ==
    ASSUME NEW kept \in SUBSET Jobs, NEW class, pos' = Rank(kept, class)
    PROVE  InQueue' = kept
BY RankType DEF InQueue

(* What fences a job from receipts that are not of its lease: a job that    *)
(* waits has no token, one that has ended no payload.                       *)
Unleased(q) ==
    /\ q.payload => q.status \in Live
    /\ q.status \in {"absent", "dispatching", "queued"} => q.token = NoToken

FenceInv ==
    /\ TypeOK
    /\ \A k \in Jobs : Unleased(jobs[k])
    /\ req.phase = "granted" => req.attempt > 0
    /\ \A w \in workers : w.attempt > 0
    /\ \A r \in sent : r.attempt > 0

LEMMA NextFence == FenceInv /\ [Next]_vars => FenceInv'
<1> SUFFICES ASSUME FenceInv, [Next]_vars
             PROVE  FenceInv'
  OBVIOUS
<1>t. TypeOK /\ TypeOK' /\ jobs \in [Jobs -> JobType] /\ sent \subseteq ReceiptType
  BY NextTypeOK DEF FenceInv, TypeOK
<1>u. \A k \in Jobs : Unleased(jobs[k])
  BY DEF FenceInv
<1>n. \A k \in Jobs : Unleased(jobs'[k])
  <2>1. ASSUME NEW j \in Jobs, NEW q, Unleased(q), jobs' = [jobs EXCEPT ![j] = q]
        PROVE  \A k \in Jobs : Unleased(jobs'[k])
    BY <1>t, <1>u, <2>1
  <2>2. ASSUME NEW j \in Jobs, Dispatch(j)
        PROVE  \A k \in Jobs : Unleased(jobs'[k])
    <3> DEFINE q == [jobs[j] EXCEPT !.status = "dispatching", !.cred = dev.cred]
    <3>1. /\ q.status = "dispatching" /\ q.payload = jobs[j].payload
          /\ q.token = jobs[j].token /\ jobs[j].status = "absent"
      BY <1>t, <2>2 DEF Dispatch, JobType
    <3>2. Unleased(q)
      BY <1>u, <3>1 DEF Unleased, Live, Active
    <3>3. jobs' = [jobs EXCEPT ![j] = q]
      BY <2>2 DEF Dispatch
    <3> HIDE DEF q
    <3> QED
      BY <2>1, <3>2, <3>3
  <2>3. ASSUME NEW j \in Jobs, Enqueue(j)
        PROVE  \A k \in Jobs : Unleased(jobs'[k])
    <3>1. PICK n \in Clock :
            jobs' = [jobs EXCEPT ![j] = [jobs[j] EXCEPT !.status = "queued",
                                                        !.start = n + StartDeadline,
                                                        !.ttl = n + TTL,
                                                        !.payload = TRUE]]
      BY <2>3, <1>t DEF Enqueue
    <3> DEFINE q == [jobs[j] EXCEPT !.status = "queued", !.start = n + StartDeadline,
                                    !.ttl = n + TTL, !.payload = TRUE]
    <3>2. q.status = "queued" /\ q.token = jobs[j].token /\ jobs[j].status = "dispatching"
      BY <1>t, <2>3 DEF Enqueue, JobType
    <3>3. Unleased(q)
      BY <1>u, <3>2 DEF Unleased, Live
    <3>4. jobs' = [jobs EXCEPT ![j] = q]
      BY <3>1
    <3> HIDE DEF q
    <3> QED
      BY <2>1, <3>3, <3>4
  <2>4. ASSUME NEW j \in Jobs, EnqueueRefused(j)
        PROVE  \A k \in Jobs : Unleased(jobs'[k])
    <3> DEFINE q == [jobs[j] EXCEPT !.status = "refused"]
    <3>1. q.status = "refused" /\ q.payload = jobs[j].payload /\ jobs[j].status = "dispatching"
      BY <1>t, <2>4 DEF EnqueueRefused, JobType
    <3>2. Unleased(q)
      BY <1>u, <3>1 DEF Unleased, Live, Active
    <3>3. jobs' = [jobs EXCEPT ![j] = q]
      BY <2>4 DEF EnqueueRefused
    <3> HIDE DEF q
    <3> QED
      BY <2>1, <3>2, <3>3
  <2>5. ASSUME NEW j \in Jobs, CancelJob(j)
        PROVE  \A k \in Jobs : Unleased(jobs'[k])
    <3> DEFINE q == [jobs[j] EXCEPT !.status = "cancelled", !.payload = FALSE]
    <3>1. q.status = "cancelled" /\ ~q.payload
      BY <1>t DEF JobType
    <3>2. Unleased(q)
      BY <3>1 DEF Unleased
    <3>3. jobs' = [jobs EXCEPT ![j] = q]
      BY <2>5 DEF CancelJob
    <3> HIDE DEF q
    <3> QED
      BY <2>1, <3>2, <3>3
  <2>6. ASSUME NEW k \in Jobs
        PROVE  Unleased(Settled(k))
    <3> DEFINE q == [jobs[k] EXCEPT !.status = "expired", !.payload = FALSE]
               p == [jobs[k] EXCEPT !.status = "queued", !.token = NoToken, !.lease = 0]
    <3>1. q.status = "expired" /\ ~q.payload /\ p.status = "queued" /\ p.token = NoToken
      BY <1>t DEF JobType
    <3>2. Unleased(q) /\ Unleased(p)
      BY <3>1 DEF Unleased, Live
    <3>3. Settled(k) \in {q, p, jobs[k]}
      BY DEF Settled
    <3> HIDE DEF q, p
    <3> QED
      BY <1>u, <3>2, <3>3
  <2>7. ASSUME NEW j \in Jobs, ClaimJob(j)
        PROVE  \A k \in Jobs : Unleased(jobs'[k])
    <3>1. Granted(j).status = "claimed"
      BY <1>t DEF Granted, JobType
    <3>2. Unleased(Granted(j))
      BY <3>1 DEF Unleased, Live, Active
    <3> QED
      BY <2>6, <2>7, <3>2 DEF ClaimJob
  <2>8. ASSUME ClaimNothing
        PROVE  \A k \in Jobs : Unleased(jobs'[k])
    BY <2>6, <2>8 DEF ClaimNothing
  <2>9. ASSUME NEW r \in sent, NEW n \in Clock, Renew(r, n) \/ Complete(r, n) \/ Recover(r, n)
        PROVE  \A k \in Jobs : Unleased(jobs'[k])
    <3>1. r.job \in Jobs /\ jobs[r.job] \in JobType
      BY <1>t DEF ReceiptType
    <3>2. CASE Renew(r, n)
      <4>1. Renewed(r, n).status \in Active
        BY <3>1 DEF Renewed, JobType, Active
      <4>2. Unleased(Renewed(r, n))
        BY <4>1 DEF Unleased, Live, Active
      <4> QED
        BY <2>1, <3>1, <3>2, <4>2 DEF Renew
    <3>3. CASE Complete(r, n)
      <4> DEFINE q == [jobs[r.job] EXCEPT !.status = Outcome(r), !.cred = r.cred,
                                          !.payload = FALSE, !.result = r.attempt]
      <4>1. q.status \in {"completed", "failed"} /\ ~q.payload
        BY <3>1 DEF JobType, Outcome
      <4>2. Unleased(q)
        BY <4>1 DEF Unleased
      <4>3. jobs' = [jobs EXCEPT ![r.job] = q]
        BY <3>3 DEF Complete
      <4> HIDE DEF q
      <4> QED
        BY <2>1, <3>1, <4>2, <4>3
    <3>4. CASE Recover(r, n)
      <4>1. Recovered(r, n).status = "queued" /\ Recovered(r, n).token = NoToken
        BY <3>1 DEF Recovered, JobType
      <4>2. Unleased(Recovered(r, n))
        BY <4>1 DEF Unleased, Live
      <4> QED
        BY <2>1, <3>1, <3>4, <4>2 DEF Recover
    <3> QED
      BY <2>9, <3>2, <3>3, <3>4
  <2>10. ASSUME \/ \E j \in Jobs : Unbind(j) \/ Annotate(j) \/ EnqueueAgain(j)
                \/ BeginClaim \/ StartWorker \/ LoseGrant
                \/ \E w \in workers : \/ PostAccepted(w) \/ PostProgress(w) \/ CrashWorker(w)
                                      \/ \E event \in Final : PostFinal(w, event)
                \/ \E a \in Agents : Maintain(a) \/ MaintainDone(a) \/ Outage(a)
                \/ Heartbeat \/ Rotate \/ Pause \/ Resume \/ Revoke \/ CleanupDone \/ Tick
                \/ UNCHANGED vars
         PROVE  \A k \in Jobs : Unleased(jobs'[k])
    <3>1. UNCHANGED jobs
      BY <2>10 DEF Unbind, Annotate, EnqueueAgain, BeginClaim, StartWorker, LoseGrant,
           PostAccepted, PostProgress, CrashWorker, PostFinal, Maintain, MaintainDone, Outage,
           Heartbeat, Rotate, Pause, Resume, Revoke, CleanupDone, Tick, vars, queueVars
    <3> QED
      BY <1>u, <3>1
  <2> QED
    BY <2>2, <2>3, <2>4, <2>5, <2>7, <2>8, <2>9, <2>10
    DEF Next, Deliver, Cancel, CleanupCancel
<1>w. /\ req'.phase = "granted" => req'.attempt > 0
      /\ \A w \in workers' : w.attempt > 0
      /\ \A r \in sent' : r.attempt > 0
  <2>i. /\ req.phase = "granted" => req.attempt > 0
        /\ \A w \in workers : w.attempt > 0
        /\ \A r \in sent : r.attempt > 0
    BY DEF FenceInv
  <2>1. CASE UNCHANGED <<req, workers, sent>>
    BY <2>i, <2>1
  <2>2. CASE BeginClaim \/ ClaimNothing \/ LoseGrant
    <3>1. workers' = workers /\ sent' = sent /\ req'.phase # "granted"
      BY <2>2 DEF BeginClaim, ClaimNothing, LoseGrant, NoReq
    <3> QED
      BY <2>i, <3>1
  <2>3. CASE \E j \in Jobs : ClaimJob(j)
    <3>1. PICK j \in Jobs : ClaimJob(j)
      BY <2>3
    <3>2. workers' = workers /\ sent' = sent /\ req'.attempt = jobs[j].attempt + 1
      BY <3>1 DEF ClaimJob
    <3>3. jobs[j].attempt \in Nat
      BY <1>t DEF JobType
    <3> QED
      BY <2>i, <3>2, <3>3
  <2>4. CASE StartWorker
    <3> DEFINE w == [job |-> req.job, attempt |-> req.attempt, cred |-> dev.held]
    <3>1. /\ workers' \subseteq workers \cup {w}
          /\ sent' \subseteq sent \cup {Receipt(w, "queued")}
          /\ req' = NoReq /\ req.phase = "granted"
      BY <2>4 DEF StartWorker, Recent
    <3>2. w.attempt > 0 /\ Receipt(w, "queued").attempt > 0
      BY <2>i, <3>1 DEF Receipt
    <3> HIDE DEF w
    <3> QED
      BY <2>i, <3>1, <3>2 DEF NoReq
  <2>5. CASE \E w \in workers : \/ PostAccepted(w) \/ PostProgress(w) \/ CrashWorker(w)
                                \/ \E event \in Final : PostFinal(w, event)
    <3>1. PICK w \in workers : \/ PostAccepted(w) \/ PostProgress(w) \/ CrashWorker(w)
                               \/ \E event \in Final : PostFinal(w, event)
      BY <2>5
    <3>2. /\ req' = req /\ workers' \subseteq workers
          /\ \E event : sent' \subseteq sent \cup {Receipt(w, event)}
      BY <3>1 DEF PostAccepted, PostProgress, CrashWorker, PostFinal
    <3>3. \A event : Receipt(w, event).attempt > 0
      BY <2>i DEF Receipt
    <3> QED
      BY <2>i, <3>2, <3>3
  <2> QED
    BY <2>1, <2>2, <2>3, <2>4, <2>5
    DEF Next, Deliver, vars, Dispatch, Enqueue, EnqueueRefused, Annotate, EnqueueAgain,
        Cancel, CleanupCancel, CancelJob, Unbind, Renew, Complete, Recover, Maintain,
        MaintainDone, Outage, Heartbeat, Rotate, Pause, Resume, Revoke, CleanupDone, Tick,
        netVars
<1> QED
  BY <1>t, <1>n, <1>w DEF FenceInv

LEMMA InitFence == Init => FenceInv
BY InitTypeOK DEF Init, FenceInv, Unleased, NewJob, NoReq, Live, Active

(* Only a run that is leased is recovered: a waiting one has no token, and  *)
(* no receipt has that of a waiting one.                                    *)
LEMMA RecoverIsOfLeased ==
    ASSUME FenceInv, NEW r \in sent, NEW n, Recover(r, n)
    PROVE  r.job \in Jobs /\ jobs[r.job].status \in Active
<1>1. r.job \in Jobs /\ r.attempt > 0
  BY DEF FenceInv, TypeOK, ReceiptType
<1>2. jobs[r.job].payload /\ r.attempt = jobs[r.job].token
  BY DEF Recover, Recoverable, Admitted
<1>3. jobs[r.job].status \in Live /\ jobs[r.job].status # "queued"
  BY <1>1, <1>2 DEF FenceInv, Unleased, NoToken
<1> QED
  BY <1>1, <1>3 DEF Live

(* Only Enqueue adds to the queue: what a recovery puts at its head is live,*)
(* and so already in it.                                                    *)
LEMMA OnlyEnqueueAdds ==
    ASSUME QueueInv, FenceInv, [Next]_vars
    PROVE  \/ InQueue' \subseteq InQueue
           \/ ~QueueFull /\ \E j \in Jobs : InQueue' = InQueue \cup {j}
<1> DEFINE Shrinks == InQueue' \subseteq InQueue
           Adds == ~QueueFull /\ \E j \in Jobs : InQueue' = InQueue \cup {j}
<1> SUFFICES Shrinks \/ Adds
  OBVIOUS
<1>q. InQueue \in SUBSET Jobs
  BY DEF InQueue
<1>1. ASSUME NEW kept \in SUBSET InQueue, NEW class, pos' = Rank(kept, class)
      PROVE  Shrinks
  BY <1>1, <1>q, QueueOfRank
<1>2. ASSUME pos' = pos
      PROVE  Shrinks
  BY <1>2 DEF InQueue
<1>3. ASSUME NEW j \in Jobs, Enqueue(j)
      PROVE  Adds
  <2>1. ~QueueFull /\ pos' = Rank(InQueue \cup {j}, [k \in Jobs |-> IF k = j THEN 1 ELSE 0])
    BY <1>3 DEF Enqueue, ToTail
  <2>2. InQueue' = InQueue \cup {j}
    BY <1>q, <2>1, QueueOfRank
  <2> QED
    BY <2>1, <2>2
<1>4. ASSUME NEW j \in Jobs, CancelJob(j)
      PROVE  Shrinks
  BY <1>1, <1>4 DEF CancelJob, Without
<1>5. ASSUME ClaimNothing \/ \E j \in Jobs : ClaimJob(j)
      PROVE  Shrinks
  <2>1. \E class : pos' = Rank(InQueue \ Dropped, class)
    BY <1>5 DEF ClaimNothing, ClaimJob
  <2> QED
    BY <1>1, <2>1
<1>6. ASSUME NEW r \in sent, NEW n \in Clock, Recover(r, n)
      PROVE  Shrinks
  <2>1. r.job \in InQueue
    BY <1>6, RecoverIsOfLeased DEF QueueInv, LiveJobsQueued, InQueue, Live
  <2>2. pos' = Rank(InQueue \cup {r.job}, [k \in Jobs |-> IF k = r.job THEN 0 ELSE 1])
    BY <1>6 DEF Recover, ToHead
  <2>3. InQueue \cup {r.job} \in SUBSET InQueue
    BY <2>1
  <2> QED
    BY <1>1, <2>2, <2>3
<1>7. ASSUME \/ \E j \in Jobs : \/ Dispatch(j) \/ EnqueueRefused(j) \/ Unbind(j)
                                \/ Annotate(j) \/ EnqueueAgain(j)
             \/ BeginClaim \/ StartWorker \/ LoseGrant
             \/ \E w \in workers : \/ PostAccepted(w) \/ PostProgress(w) \/ CrashWorker(w)
                                   \/ \E event \in Final : PostFinal(w, event)
             \/ \E r \in sent : \E n \in Clock : Renew(r, n) \/ Complete(r, n)
             \/ \E a \in Agents : Maintain(a) \/ MaintainDone(a) \/ Outage(a)
             \/ Heartbeat \/ Rotate \/ Pause \/ Resume \/ Revoke \/ CleanupDone \/ Tick
             \/ UNCHANGED vars
      PROVE  Shrinks
  <2>1. pos' = pos
    BY <1>7 DEF Dispatch, EnqueueRefused, Unbind, Annotate, EnqueueAgain, BeginClaim,
       StartWorker, LoseGrant, PostAccepted, PostProgress, CrashWorker, PostFinal, Renew,
       Complete, Maintain, MaintainDone, Outage, Heartbeat, Rotate, Pause, Resume, Revoke,
       CleanupDone, Tick, vars, queueVars
  <2> QED
    BY <1>2, <2>1
<1> HIDE DEF Shrinks, Adds
<1> QED
  BY <1>3, <1>4, <1>5, <1>6, <1>7
  DEF Next, Deliver, Cancel, CleanupCancel

LEMMA QueueIsFinite ==
    /\ IsFiniteSet(InQueue) /\ Cardinality(InQueue) \in Nat
    /\ IsFiniteSet(InQueue)' /\ Cardinality(InQueue)' \in Nat
<1>1. InQueue \subseteq Jobs /\ InQueue' \subseteq Jobs /\ IsFiniteSet(Jobs)
  BY ConstantsAssumption DEF InQueue
<1>2. \A S : S \subseteq Jobs => IsFiniteSet(S) /\ Cardinality(S) \in Nat
  BY <1>1, FS_Subset, FS_CardinalityType
<1> QED
  BY <1>1, <1>2

LimitInv == QueueInv /\ FenceInv /\ WithinQueueLimit

LEMMA NextLimit == LimitInv /\ [Next]_vars => LimitInv'
<1> SUFFICES ASSUME LimitInv, [Next]_vars
             PROVE  Cardinality(InQueue') <= QueueLimit
  BY NextQueue, NextFence DEF LimitInv, WithinQueueLimit
<1>1. Cardinality(InQueue) <= QueueLimit /\ QueueLimit \in Nat
  BY ConstantsAssumption DEF LimitInv, WithinQueueLimit
<1>2. CASE InQueue' \subseteq InQueue
  <2>1. Cardinality(InQueue') <= Cardinality(InQueue)
    BY <1>2, QueueIsFinite, FS_Subset
  <2>2. Cardinality(InQueue') \in Nat /\ Cardinality(InQueue) \in Nat
    BY <1>2, QueueIsFinite, FS_Subset, FS_CardinalityType
  <2> QED
    BY <1>1, <2>1, <2>2
<1>3. ASSUME ~QueueFull, NEW j \in Jobs, InQueue' = InQueue \cup {j}
      PROVE  Cardinality(InQueue') <= QueueLimit
  <2>1. Cardinality(InQueue') \in {Cardinality(InQueue), Cardinality(InQueue) + 1}
    BY <1>3, QueueIsFinite, FS_AddElement
  <2>2. Cardinality(InQueue) < QueueLimit
    BY <1>1, <1>3, QueueIsFinite DEF QueueFull
  <2> QED
    BY <1>1, <2>1, <2>2, QueueIsFinite
<1> QED
  BY <1>2, <1>3, OnlyEnqueueAdds DEF LimitInv

(* The queue document never outgrows its limit, although recoveries put     *)
(* jobs back and ended jobs stay in it until a claim scans them.            *)
THEOREM QueueStaysWithinLimit == Spec => []WithinQueueLimit
<1>1. Init => LimitInv
  <2>1. ASSUME Init
        PROVE  InQueue = {} /\ QueueInv
    BY <2>1, InitTypeOK DEF Init, QueueInv, LiveJobsQueued, InQueue, NewJob, Live, Active
  <2>2. Cardinality({}) <= QueueLimit
    BY FS_EmptySet, ConstantsAssumption
  <2> QED
    BY <2>1, <2>2, InitFence DEF LimitInv, WithinQueueLimit
<1>2. LimitInv => WithinQueueLimit
  BY DEF LimitInv
<1> QED
  BY <1>1, <1>2, NextLimit, PTL DEF Spec
-----------------------------------------------------------------------------
(* The places in the queue have no gaps worth the name: none is beyond the  *)
(* number of jobs queued.                                                   *)
Dense == \A j \in InQueue : pos[j] <= Cardinality(InQueue)

LEMMA NextDense == TypeOK /\ Dense /\ [Next]_vars => Dense'
<1> SUFFICES ASSUME TypeOK, Dense, [Next]_vars
             PROVE  Dense'
  OBVIOUS
<1>q. InQueue \in SUBSET Jobs
  BY DEF InQueue
<1>1. ASSUME NEW kept \in SUBSET Jobs, NEW class \in [Jobs -> Nat], pos' = Rank(kept, class)
      PROVE  Dense'
  <2>1. InQueue' = kept
    BY <1>1, QueueOfRank
  <2>2. \A j \in kept : pos'[j] <= Cardinality(kept)
    BY <1>1, RankBound
  <2> QED
    BY <2>1, <2>2 DEF Dense
<1>2. ASSUME pos' = pos
      PROVE  Dense'
  BY <1>2 DEF Dense, InQueue
<1>3. ASSUME NEW j \in Jobs, Enqueue(j)
      PROVE  Dense'
  <2>1. pos' = Rank(InQueue \cup {j}, [k \in Jobs |-> IF k = j THEN 1 ELSE 0])
    BY <1>3 DEF Enqueue, ToTail
  <2>2. InQueue \cup {j} \in SUBSET Jobs /\ [k \in Jobs |-> IF k = j THEN 1 ELSE 0] \in [Jobs -> Nat]
    BY <1>q
  <2> QED
    BY <1>1, <2>1, <2>2
<1>4. ASSUME NEW j \in Jobs, CancelJob(j)
      PROVE  Dense'
  <2>1. pos' = Rank(InQueue \ {j}, [k \in Jobs |-> 0])
    BY <1>4 DEF CancelJob, Without
  <2>2. InQueue \ {j} \in SUBSET Jobs /\ [k \in Jobs |-> 0] \in [Jobs -> Nat]
    BY <1>q
  <2> QED
    BY <1>1, <2>1, <2>2
<1>5. ASSUME ClaimNothing \/ \E j \in Jobs : ClaimJob(j)
      PROVE  Dense'
  <2>1. \E class \in [Jobs -> Nat] : pos' = Rank(InQueue \ Dropped, class)
    <3>1. CASE ClaimNothing
      <4> DEFINE class == [k \in Jobs |-> IF k \in Recovering THEN 3
                                          ELSE IF k \in Scanned THEN 1 ELSE 2]
      <4>1. class \in [Jobs -> Nat] /\ pos' = Rank(InQueue \ Dropped, class)
        BY <3>1 DEF ClaimNothing
      <4> QED
        BY <4>1
    <3>2. CASE \E j \in Jobs : ClaimJob(j)
      <4>1. PICK j \in Jobs : ClaimJob(j)
        BY <3>2
      <4> DEFINE class == [k \in Jobs |-> IF k = j THEN 0 ELSE IF k \in Recovering THEN 2
                                          ELSE IF k \in Scanned THEN 1 ELSE 3]
      <4>2. class \in [Jobs -> Nat] /\ pos' = Rank(InQueue \ Dropped, class)
        BY <4>1 DEF ClaimJob
      <4> QED
        BY <4>2
    <3> QED
      BY <1>5, <3>1, <3>2
  <2>2. InQueue \ Dropped \in SUBSET Jobs
    BY <1>q
  <2> QED
    BY <1>1, <2>1, <2>2
<1>6. ASSUME NEW r \in sent, NEW n \in Clock, Recover(r, n)
      PROVE  Dense'
  <2>1. pos' = Rank(InQueue \cup {r.job}, [k \in Jobs |-> IF k = r.job THEN 0 ELSE 1])
    BY <1>6 DEF Recover, ToHead
  <2>2. /\ InQueue \cup {r.job} \in SUBSET Jobs
        /\ [k \in Jobs |-> IF k = r.job THEN 0 ELSE 1] \in [Jobs -> Nat]
    BY <1>q DEF TypeOK, ReceiptType
  <2> QED
    BY <1>1, <2>1, <2>2
<1>7. ASSUME \/ \E j \in Jobs : \/ Dispatch(j) \/ EnqueueRefused(j) \/ Unbind(j)
                                \/ Annotate(j) \/ EnqueueAgain(j)
             \/ BeginClaim \/ StartWorker \/ LoseGrant
             \/ \E w \in workers : \/ PostAccepted(w) \/ PostProgress(w) \/ CrashWorker(w)
                                   \/ \E event \in Final : PostFinal(w, event)
             \/ \E r \in sent : \E n \in Clock : Renew(r, n) \/ Complete(r, n)
             \/ \E a \in Agents : Maintain(a) \/ MaintainDone(a) \/ Outage(a)
             \/ Heartbeat \/ Rotate \/ Pause \/ Resume \/ Revoke \/ CleanupDone \/ Tick
             \/ UNCHANGED vars
      PROVE  Dense'
  <2>1. pos' = pos
    BY <1>7 DEF Dispatch, EnqueueRefused, Unbind, Annotate, EnqueueAgain, BeginClaim,
       StartWorker, LoseGrant, PostAccepted, PostProgress, CrashWorker, PostFinal, Renew,
       Complete, Maintain, MaintainDone, Outage, Heartbeat, Rotate, Pause, Resume, Revoke,
       CleanupDone, Tick, vars, queueVars
  <2> QED
    BY <1>2, <2>1
<1> QED
  BY <1>3, <1>4, <1>5, <1>6, <1>7
  DEF Next, Deliver, Cancel, CleanupCancel
-----------------------------------------------------------------------------
(* A queued job that a claim could be given, in a queue no longer than the  *)
(* window, is within the window, and so among the winners.                  *)
LEMMA ReadyJobsWin ==
    ASSUME TypeOK, Dense, req.phase = "sent", Cardinality(InQueue) <= ScanLimit,
           NEW j \in InQueue, Ready(j)
    PROVE  j \in Winners
<1>1. j \in Jobs /\ pos[j] \in Nat /\ pos[j] <= Cardinality(InQueue)
  BY DEF InQueue, Dense, TypeOK
<1>2. ScanLimit \in Nat /\ Cardinality(InQueue) \in Nat
  BY ConstantsAssumption, QueueIsFinite
<1>3. j \in Scanned
  BY <1>1, <1>2 DEF Scanned
<1>4. /\ req.at \in Nat /\ jobs[j].ttl \in Nat /\ jobs[j].start \in Nat
      /\ maint[AgentOf[j]] \in Nat
  BY <1>1, ConstantsAssumption DEF TypeOK, RequestType, NoReq, JobType
<1>5. j \notin TimedOut
  BY <1>4 DEF Ready, TimedOut, StartExpired
<1>6. j \in Claimable
  BY <1>3, <1>5 DEF Ready, Claimable
<1>7. ~AuthorizationChanged(j) /\ ~ExecutionUnavailable(j)
  BY DEF Ready, AuthorizationChanged, ExecutionUnavailable
<1>8. Cardinality(Slots(AgentOf[j], req.at)) \in Nat
  <2>1. IsFiniteSet(Jobs) /\ Slots(AgentOf[j], req.at) \subseteq Jobs
    BY ConstantsAssumption DEF Slots
  <2> QED
    BY <2>1, FS_Subset, FS_CardinalityType
<1>9. ~NoSlot(j)
  BY <1>4, <1>8, ConstantsAssumption DEF Ready, NoSlot
<1> QED
  BY <1>6, <1>7, <1>9 DEF Winners

LEMMA EmptyAnswers ==
    ASSUME [Next]_vars, req.phase = "sent", req' = NoReq
    PROVE  ClaimNothing \/ UNCHANGED vars
<1>1. req # NoReq
  BY DEF NoReq
<1>2. req' # req
  BY <1>1
<1>3. ~BeginClaim /\ ~StartWorker /\ ~LoseGrant
  BY <1>1 DEF BeginClaim, StartWorker, LoseGrant
<1>4. ASSUME NEW j \in Jobs, ClaimJob(j)
      PROVE  FALSE
  BY <1>4 DEF ClaimJob, NoReq
<1>5. ASSUME NEW j \in Jobs,
             \/ Dispatch(j) \/ Enqueue(j) \/ EnqueueRefused(j) \/ Annotate(j)
             \/ EnqueueAgain(j) \/ Cancel(j) \/ CleanupCancel(j) \/ Unbind(j)
      PROVE  req' = req
  BY <1>5 DEF Dispatch, Enqueue, EnqueueRefused, Annotate, EnqueueAgain, Cancel,
              CleanupCancel, CancelJob, Unbind, netVars
<1>6. ASSUME NEW w \in workers,
             \/ PostAccepted(w) \/ PostProgress(w) \/ CrashWorker(w)
             \/ (\E event \in Final : PostFinal(w, event))
      PROVE  req' = req
  BY <1>6 DEF PostAccepted, PostProgress, CrashWorker, PostFinal, netVars
<1>7. ASSUME NEW r \in sent, Deliver(r)
      PROVE  req' = req
  BY <1>7 DEF Deliver, Renew, Complete, Recover, netVars
<1>8. ASSUME NEW a \in Agents, Maintain(a) \/ MaintainDone(a) \/ Outage(a)
      PROVE  req' = req
  BY <1>8 DEF Maintain, MaintainDone, Outage, netVars
<1>9. ASSUME \/ Heartbeat \/ Rotate \/ Pause \/ Resume \/ Revoke \/ CleanupDone \/ Tick
             \/ UNCHANGED vars
      PROVE  req' = req
  BY <1>9 DEF Heartbeat, Rotate, Pause, Resume, Revoke, CleanupDone, Tick, vars, netVars
<1> QED
  BY <1>2, <1>3, <1>4, <1>5, <1>6, <1>7, <1>8, <1>9 DEF Next

(* A claim is answered with nothing only when there is nothing to give, for *)
(* every queue that fits in the window.                                     *)
THEOREM EmptyClaimsMeanNoWork == Spec => EmptyClaimMeansNoWork
<1>1. Init => TypeOK /\ Dense
  BY InitTypeOK DEF Init, Dense, InQueue
<1>2. TypeOK /\ Dense /\ [Next]_vars => (TypeOK /\ Dense)'
  BY NextTypeOK, NextDense
<1>3. TypeOK /\ Dense /\ [Next]_vars =>
        [req.phase = "sent" /\ req' = NoReq /\ Cardinality(InQueue) <= ScanLimit =>
            ~\E j \in InQueue : Ready(j)]_vars
  <2> SUFFICES ASSUME TypeOK, Dense, [Next]_vars, vars' # vars, req.phase = "sent", req' = NoReq,
                      Cardinality(InQueue) <= ScanLimit, NEW j \in InQueue, Ready(j)
               PROVE  FALSE
    OBVIOUS
  <2>1. ClaimNothing
    BY EmptyAnswers
  <2>2. Winners = {}
    BY <2>1 DEF ClaimNothing
  <2> QED
    BY <2>2, ReadyJobsWin
<1> QED
  BY <1>1, <1>2, <1>3, PTL DEF Spec, EmptyClaimMeansNoWork
-----------------------------------------------------------------------------
(* A run expires in a claim only, and only for one of the reasons given.    *)
LEMMA OnlyClaimsExpire ==
    ASSUME TypeOK, [Next]_vars, NEW j \in Jobs,
           jobs[j].status \in Live, jobs'[j].status = "expired"
    PROVE  req.phase = "sent" /\ j \in Expiring
<1>t. jobs \in [Jobs -> JobType] /\ jobs[j].status # "expired"
  BY DEF TypeOK, Live, Active
<1>1. ASSUME NEW k \in Jobs, Dispatch(k) \/ Enqueue(k) \/ EnqueueRefused(k) \/ CancelJob(k)
      PROVE  FALSE
  <2>1. CASE j = k
    <3>1. CASE Dispatch(k)
      BY <2>1, <3>1, <1>t DEF Dispatch, JobType
    <3>2. CASE Enqueue(k)
      BY <2>1, <3>2, <1>t DEF Enqueue, JobType
    <3>3. CASE EnqueueRefused(k)
      BY <2>1, <3>3, <1>t DEF EnqueueRefused, JobType
    <3>4. CASE CancelJob(k)
      BY <2>1, <3>4, <1>t DEF CancelJob, JobType
    <3> QED
      BY <1>1, <3>1, <3>2, <3>3, <3>4
  <2>2. CASE j # k
    <3>1. jobs'[j] = jobs[j]
      BY <1>1, <2>2, <1>t DEF Dispatch, Enqueue, EnqueueRefused, CancelJob
    <3> QED
      BY <3>1, <1>t
  <2> QED
    BY <2>1, <2>2
<1>2. ASSUME jobs'[j] = Settled(j)
      PROVE  j \in Expiring
  BY <1>2, <1>t DEF Settled, JobType
<1>3. ASSUME NEW k \in Jobs, ClaimJob(k)
      PROVE  req.phase = "sent" /\ j \in Expiring
  <2>1. Granted(k).status = "claimed"
    BY <1>t DEF Granted, JobType
  <2>2. j # k
    BY <1>3, <2>1 DEF ClaimJob
  <2> QED
    BY <1>2, <1>3, <2>2 DEF ClaimJob
<1>4. ASSUME ClaimNothing
      PROVE  req.phase = "sent" /\ j \in Expiring
  BY <1>2, <1>4 DEF ClaimNothing
<1>5. ASSUME NEW r \in sent, NEW n \in Clock, Renew(r, n) \/ Complete(r, n) \/ Recover(r, n)
      PROVE  FALSE
  <2>1. r.job \in Jobs
    BY DEF TypeOK, ReceiptType
  <2>2. CASE j = r.job
    <3>1. CASE Renew(r, n)
      BY <2>2, <3>1, <1>t DEF Renew, Renewed, JobType
    <3>2. CASE Complete(r, n)
      BY <2>2, <3>2, <1>t DEF Complete, Outcome, JobType
    <3>3. CASE Recover(r, n)
      BY <2>2, <3>3, <1>t DEF Recover, Recovered, JobType
    <3> QED
      BY <1>5, <3>1, <3>2, <3>3
  <2>3. CASE j # r.job
    <3>1. jobs'[j] = jobs[j]
      BY <1>5, <2>1, <2>3, <1>t DEF Renew, Complete, Recover
    <3> QED
      BY <3>1, <1>t
  <2> QED
    BY <2>2, <2>3
<1>6. ASSUME \/ \E k \in Jobs : Unbind(k) \/ Annotate(k) \/ EnqueueAgain(k)
             \/ BeginClaim \/ StartWorker \/ LoseGrant
             \/ \E w \in workers : \/ PostAccepted(w) \/ PostProgress(w) \/ CrashWorker(w)
                                   \/ \E event \in Final : PostFinal(w, event)
             \/ \E a \in Agents : Maintain(a) \/ MaintainDone(a) \/ Outage(a)
             \/ Heartbeat \/ Rotate \/ Pause \/ Resume \/ Revoke \/ CleanupDone \/ Tick
             \/ UNCHANGED vars
      PROVE  FALSE
  <2>1. jobs' = jobs
    BY <1>6 DEF Unbind, Annotate, EnqueueAgain, BeginClaim, StartWorker, LoseGrant,
         PostAccepted, PostProgress, CrashWorker, PostFinal, Maintain, MaintainDone, Outage,
         Heartbeat, Rotate, Pause, Resume, Revoke, CleanupDone, Tick, vars, queueVars
  <2> QED
    BY <2>1, <1>t
<1> QED
  BY <1>1, <1>3, <1>4, <1>5, <1>6
  DEF Next, Deliver, Cancel, CleanupCancel

(* A live run is expired for a reason only: the claim that does it looks at *)
(* the deadlines, at the device, at the grant and at its own credential.    *)
THEOREM RunsExpireForCause == Spec => ExpiresForCause
<1>1. Init => LedgerInv
  BY InitTypeOK DEF Init, LedgerInv, SlotAgrees, NewJob, NoReq, Active
<1>2. LedgerInv /\ [Next]_vars =>
        [\A j \in Jobs : jobs[j].status \in Live /\ jobs'[j].status = "expired" =>
            \/ jobs[j].ttl <= now
            \/ jobs[j].start <= now /\ ~jobs[j].accepted
            \/ dev.status # "active"
            \/ j \notin bound
            \/ req.phase = "sent" /\ req.cred # dev.cred]_vars
  <2> SUFFICES ASSUME LedgerInv, [Next]_vars, NEW j \in Jobs,
                      jobs[j].status \in Live, jobs'[j].status = "expired"
               PROVE  \/ jobs[j].ttl <= now
                      \/ jobs[j].start <= now /\ ~jobs[j].accepted
                      \/ dev.status # "active"
                      \/ j \notin bound
                      \/ req.phase = "sent" /\ req.cred # dev.cred
    OBVIOUS
  <2>1. TypeOK
    BY DEF LedgerInv
  <2>2. req.phase = "sent" /\ j \in Expiring
    BY <2>1, OnlyClaimsExpire
  <2>3. /\ req.at \in Nat /\ req.at <= now /\ now \in Nat
        /\ jobs[j].ttl \in Nat /\ jobs[j].start \in Nat
    BY <2>1, <2>2 DEF LedgerInv, TypeOK, RequestType, NoReq, JobType
  <2>4. CASE j \in TimedOut
    BY <2>3, <2>4 DEF TimedOut, StartExpired
  <2>5. CASE AuthorizationChanged(j)
    BY <2>2, <2>5 DEF AuthorizationChanged
  <2> QED
    BY <2>2, <2>4, <2>5 DEF Expiring
<1> QED
  BY <1>1, <1>2, NextLedger, PTL DEF Spec, ExpiresForCause
-----------------------------------------------------------------------------
(* The runs of a profile that its cap must have room for: those that are    *)
(* leased, lapsed or not, and those that wait in front of one, whose lease  *)
(* a recovery or an outage took: each comes up for a lease again before any *)
(* run behind them does.                                                    *)
Ahead(j) == \E k \in Jobs : /\ AgentOf[k] = AgentOf[j]
                            /\ jobs[k].status \in Active
                            /\ pos[j] <= pos[k]

Front(a) == {j \in Jobs : AgentOf[j] = a /\ jobs[j].status \in Live /\ Ahead(j)}

CapInv ==
    /\ QueueInv
    /\ LedgerInv
    /\ FenceInv
    /\ \A a \in Agents : Cardinality(Front(a)) <= Cap

(* A claim that expires or requeues a run drops it or puts it behind; one   *)
(* that stays leased is scanned in its place or behind the window.          *)
LEMMA SettledRuns ==
    ASSUME TypeOK, NEW k \in Jobs, jobs'[k] = Settled(k)
    PROVE  /\ jobs'[k].status \in Live => jobs[k].status \in Live /\ k \notin Expiring
           /\ jobs'[k].status \in Active => jobs[k].status \in Active /\ k \notin Recovering
<1>t. jobs[k] \in JobType
  BY DEF TypeOK
<1>1. CASE k \in Expiring
  BY <1>1, <1>t DEF Settled, JobType, Live, Active
<1>2. CASE k \in Requeued \ Expiring
  <2>1. jobs[k].status \in Live
    BY <1>2, <1>t DEF Requeued, Recovering, Examined, Claimable, Lapsed, Live
  <2>2. jobs'[k].status = "queued"
    BY <1>2, <1>t DEF Settled, JobType
  <2> QED
    BY <1>2, <2>1, <2>2 DEF Active
<1>3. CASE k \notin Requeued \cup Expiring
  <2>1. jobs'[k] = jobs[k]
    BY <1>3 DEF Settled
  <2> QED
    BY <1>3, <2>1 DEF Requeued, Active
<1> QED
  BY <1>1, <1>2, <1>3

(* No step but a claim brings a run to the front.                           *)
LEMMA OnlyClaimsAdvance ==
    ASSUME QueueInv, FenceInv, [Next]_vars, \A i \in Jobs : ~ClaimJob(i),
           NEW j \in Jobs, jobs'[j].status \in Live, Ahead(j)'
    PROVE  jobs[j].status \in Live /\ Ahead(j)
<1>t. TypeOK /\ TypeOK' /\ jobs \in [Jobs -> JobType] /\ pos \in [Jobs -> Nat]
  BY NextTypeOK DEF QueueInv, TypeOK
<1>1. PICK k \in Jobs : /\ AgentOf[k] = AgentOf[j]
                        /\ jobs'[k].status \in Active
                        /\ pos'[j] <= pos'[k]
  BY DEF Ahead
<1>2. jobs[k].status \in Active
  BY <1>1, <1>t, OnlyClaimsActivate
<1>3. j \in InQueue' /\ k \in InQueue' /\ pos'[j] \in Nat /\ pos'[k] \in Nat
  <2>1. pos'[j] > 0
    BY NextQueue DEF QueueInv, LiveJobsQueued
  <2>2. pos'[j] \in Nat /\ pos'[k] \in Nat
    BY <1>t DEF TypeOK
  <2> QED
    BY <1>1, <2>1, <2>2 DEF InQueue
<1> SUFFICES \/ jobs[j].status \in Active
             \/ jobs[j].status \in Live /\ pos[j] <= pos[k]
  <2>1. pos[j] <= pos[j]
    BY <1>t
  <2> QED
    BY <1>1, <1>2, <2>1 DEF Ahead, Live
<1> DEFINE Stays == \/ jobs[j].status \in Active
                    \/ jobs[j].status \in Live /\ pos[j] <= pos[k]
<1>r. ASSUME NEW kept \in SUBSET Jobs, NEW class \in [Jobs -> Nat], pos' = Rank(kept, class)
      PROVE  /\ j \in kept /\ k \in kept
             /\ \/ class[j] < class[k]
                \/ class[j] = class[k] /\ pos[j] <= pos[k]
  <2>1. j \in kept /\ k \in kept
    BY <1>r, <1>3, QueueOfRank
  <2>2. Rank(kept, class)[j] <= Rank(kept, class)[k]
    BY <1>1, <1>r
  <2> QED
    BY <1>t, <2>1, <2>2, RankOrder
<1>4. ASSUME pos' = pos, jobs[j].status \in Live
      PROVE  Stays
  BY <1>1, <1>4
<1>5. ASSUME NEW i \in Jobs, Dispatch(i) \/ EnqueueRefused(i)
      PROVE  Stays
  <2>1. /\ pos' = pos /\ jobs'[i].status \in {"dispatching", "refused"}
        /\ \A l \in Jobs \ {i} : jobs'[l] = jobs[l]
    <3>1. CASE Dispatch(i)
      BY <3>1, <1>t DEF Dispatch, JobType
    <3>2. CASE EnqueueRefused(i)
      BY <3>2, <1>t DEF EnqueueRefused, JobType
    <3> QED
      BY <1>5, <3>1, <3>2
  <2> QED
    BY <1>4, <2>1 DEF Live, Active
<1>6. ASSUME NEW i \in Jobs, Enqueue(i)
      PROVE  Stays
  <2> DEFINE class == [l \in Jobs |-> IF l = i THEN 1 ELSE 0]
  <2>1. pos' = Rank(InQueue \cup {i}, class) /\ class \in [Jobs -> Nat]
    BY <1>6 DEF Enqueue, ToTail
  <2>2. jobs[i].status = "dispatching" /\ \A l \in Jobs \ {i} : jobs'[l] = jobs[l]
    BY <1>6, <1>t DEF Enqueue
  <2>3. k # i
    BY <1>2, <2>2 DEF Active
  <2>4. InQueue \cup {i} \in SUBSET Jobs
    BY DEF InQueue
  <2>5. class[j] < class[k] \/ (class[j] = class[k] /\ pos[j] <= pos[k])
    BY <1>r, <2>1, <2>4
  <2>6. j # i /\ pos[j] <= pos[k]
    BY <2>3, <2>5
  <2> QED
    BY <2>2, <2>6
<1>7. ASSUME NEW i \in Jobs, CancelJob(i)
      PROVE  Stays
  <2> DEFINE class == [l \in Jobs |-> 0]
  <2>1. pos' = Rank(InQueue \ {i}, class) /\ class \in [Jobs -> Nat]
    BY <1>7 DEF CancelJob, Without
  <2>2. jobs'[i].status = "cancelled" /\ \A l \in Jobs \ {i} : jobs'[l] = jobs[l]
    BY <1>7, <1>t DEF CancelJob, JobType
  <2>3. InQueue \ {i} \in SUBSET Jobs
    BY DEF InQueue
  <2>4. class[j] < class[k] \/ (class[j] = class[k] /\ pos[j] <= pos[k])
    BY <1>r, <2>1, <2>3
  <2>5. j # i /\ pos[j] <= pos[k]
    BY <2>2, <2>4 DEF Live, Active
  <2> QED
    BY <2>2, <2>5
<1>8. ASSUME NEW r \in sent, NEW n \in Clock, Recover(r, n)
      PROVE  Stays
  <2> DEFINE i == r.job
             class == [l \in Jobs |-> IF l = i THEN 0 ELSE 1]
  <2>1. pos' = Rank(InQueue \cup {i}, class) /\ class \in [Jobs -> Nat]
    BY <1>8 DEF Recover, ToHead
  <2>2. i \in Jobs /\ jobs[i].status \in Active
    BY <1>8, RecoverIsOfLeased
  <2>3. jobs'[i].status = "queued" /\ \A l \in Jobs \ {i} : jobs'[l] = jobs[l]
    BY <1>8, <1>t, <2>2 DEF Recover, Recovered, JobType
  <2>4. InQueue \cup {i} \in SUBSET Jobs
    BY <2>2 DEF InQueue
  <2>5. class[j] < class[k] \/ (class[j] = class[k] /\ pos[j] <= pos[k])
    BY <1>r, <2>1, <2>4
  <2> HIDE DEF i
  <2>6. CASE j # i
    <3>1. k # i
      BY <1>1, <2>3 DEF Active
    <3> QED
      BY <2>3, <2>5, <2>6, <3>1
  <2> QED
    BY <2>2, <2>6
<1>9. ASSUME ClaimNothing
      PROVE  Stays
  <2> DEFINE class == [l \in Jobs |-> IF l \in Recovering THEN 3
                                      ELSE IF l \in Scanned THEN 1 ELSE 2]
  <2>1. pos' = Rank(InQueue \ Dropped, class) /\ class \in [Jobs -> Nat]
    BY <1>9 DEF ClaimNothing
  <2>2. /\ jobs[j].status \in Live
        /\ k \notin Recovering
    BY <1>1, <1>9, <1>t, SettledRuns DEF ClaimNothing
  <2>3. InQueue \ Dropped \in SUBSET Jobs
    BY DEF InQueue
  <2>4. /\ j \in InQueue /\ k \in InQueue
        /\ class[j] < class[k] \/ (class[j] = class[k] /\ pos[j] <= pos[k])
    BY <1>r, <2>1, <2>3
  <2>5. pos[j] <= pos[k] \/ (j \in Scanned /\ k \notin Scanned)
    BY <2>2, <2>4
  <2>6. j \in Scanned /\ k \notin Scanned => pos[j] <= pos[k]
    BY <1>t, <2>4, ConstantsAssumption DEF Scanned
  <2> QED
    BY <2>2, <2>5, <2>6
<1>10. ASSUME NEW r \in sent, NEW n \in Clock, Renew(r, n) \/ Complete(r, n)
       PROVE  Stays
  <2>1. r.job \in Jobs
    BY <1>t DEF TypeOK, ReceiptType
  <2>2. /\ pos' = pos /\ jobs[r.job].status \in Live
        /\ \A l \in Jobs \ {r.job} : jobs'[l] = jobs[l]
    BY <1>10, <1>t, <2>1 DEF Renew, Complete, Fenced, Live
  <2> QED
    BY <1>4, <2>2
<1>11. ASSUME \/ \E i \in Jobs : Unbind(i) \/ Annotate(i) \/ EnqueueAgain(i)
              \/ BeginClaim \/ StartWorker \/ LoseGrant
              \/ \E w \in workers : \/ PostAccepted(w) \/ PostProgress(w) \/ CrashWorker(w)
                                    \/ \E event \in Final : PostFinal(w, event)
              \/ \E a \in Agents : Maintain(a) \/ MaintainDone(a) \/ Outage(a)
              \/ Heartbeat \/ Rotate \/ Pause \/ Resume \/ Revoke \/ CleanupDone \/ Tick
              \/ UNCHANGED vars
       PROVE  Stays
  <2>1. UNCHANGED <<jobs, pos>>
    BY <1>11 DEF Unbind, Annotate, EnqueueAgain, BeginClaim, StartWorker, LoseGrant,
         PostAccepted, PostProgress, CrashWorker, PostFinal, Maintain, MaintainDone, Outage,
         Heartbeat, Rotate, Pause, Resume, Revoke, CleanupDone, Tick, vars, queueVars
  <2> QED
    BY <1>4, <2>1
<1> HIDE DEF Stays
<1>12. Stays
  BY <1>5, <1>6, <1>7, <1>8, <1>9, <1>10, <1>11
  DEF Next, Deliver, Cancel, CleanupCancel
<1> QED
  BY <1>12 DEF Stays

(* A claim brings the run it gives out to the front, and no other.          *)
LEMMA ClaimAdvancesOne ==
    ASSUME QueueInv, [Next]_vars, NEW i \in Jobs, ClaimJob(i),
           NEW j \in Jobs \ {i}, jobs'[j].status \in Live, Ahead(j)'
    PROVE  /\ jobs[j].status \in Live /\ j \notin Expiring
           /\ Ahead(j)
<1>t. TypeOK /\ TypeOK' /\ jobs \in [Jobs -> JobType] /\ pos \in [Jobs -> Nat]
  BY NextTypeOK DEF QueueInv, TypeOK
<1>1. PICK k \in Jobs : /\ AgentOf[k] = AgentOf[j]
                        /\ jobs'[k].status \in Active
                        /\ pos'[j] <= pos'[k]
  BY DEF Ahead
<1>2. j \in InQueue' /\ k \in InQueue'
  <2>1. pos'[j] > 0
    BY NextQueue DEF QueueInv, LiveJobsQueued
  <2>2. pos'[j] \in Nat /\ pos'[k] \in Nat
    BY <1>t DEF TypeOK
  <2> QED
    BY <1>1, <2>1, <2>2 DEF InQueue
<1> DEFINE class == [l \in Jobs |-> IF l = i THEN 0 ELSE IF l \in Recovering THEN 2
                                    ELSE IF l \in Scanned THEN 1 ELSE 3]
<1>3. pos' = Rank(InQueue \ Dropped, class) /\ class \in [Jobs -> Nat]
  BY DEF ClaimJob
<1>4. j \in InQueue \ Dropped /\ k \in InQueue \ Dropped /\ InQueue \ Dropped \in SUBSET Jobs
  <2>1. InQueue \ Dropped \in SUBSET Jobs
    BY DEF InQueue
  <2> HIDE DEF class
  <2> QED
    BY <1>2, <1>3, <2>1, QueueOfRank
<1>5. class[j] < class[k] \/ (class[j] = class[k] /\ pos[j] <= pos[k])
  <2> HIDE DEF class
  <2>1. Rank(InQueue \ Dropped, class)[j] <= Rank(InQueue \ Dropped, class)[k]
    BY <1>1, <1>3
  <2> QED
    BY <1>t, <1>3, <1>4, <2>1, RankOrder
<1>6. k # i
  BY <1>5
<1>7. /\ jobs[j].status \in Live /\ j \notin Expiring
      /\ jobs[k].status \in Active /\ k \notin Recovering
  <2>1. jobs'[j] = Settled(j) /\ jobs'[k] = Settled(k)
    BY <1>6 DEF ClaimJob
  <2> QED
    BY <1>1, <1>t, <2>1, SettledRuns
<1>8. pos[j] <= pos[k] \/ (j \in Scanned /\ k \notin Scanned)
  <2>1. Recovering \subseteq Scanned
    BY DEF Recovering, Examined, Claimable
  <2> QED
    BY <1>4, <1>5, <1>6, <1>7, <2>1
<1>9. j \in Scanned /\ k \notin Scanned => pos[j] <= pos[k]
  BY <1>t, <1>4, ConstantsAssumption DEF Scanned
<1> QED
  BY <1>1, <1>7, <1>8, <1>9 DEF Ahead

(* A claim gives a slot to a run behind the front only when every run of    *)
(* the front holds a slot: one that waits, or whose lease lapsed, is        *)
(* scanned before it and would have been the one selected.  A lease that    *)
(* lapsed after the claim read its clock has no slot, yet is not reclaimed. *)
LEMMA FrontHoldsSlots ==
    ASSUME CapInv, NoLapseUnderway, NEW i \in Jobs, ClaimJob(i), ~Ahead(i),
           NEW j \in Front(AgentOf[i]), j \notin Expiring
    PROVE  j \in Slots(AgentOf[i], req.at)
<1>t. TypeOK /\ jobs \in [Jobs -> JobType] /\ pos \in [Jobs -> Nat]
  BY DEF CapInv, QueueInv, TypeOK
<1>1. /\ j \in Jobs /\ AgentOf[j] = AgentOf[i] /\ jobs[j].status \in Live /\ Ahead(j)
      /\ req.phase = "sent" /\ i \in Winners /\ i \in Examined
  BY DEF Front, ClaimJob
<1>2. pos[j] < pos[i]
  <2>1. PICK k \in Jobs : /\ AgentOf[k] = AgentOf[j]
                          /\ jobs[k].status \in Active
                          /\ pos[j] <= pos[k]
    BY <1>1 DEF Ahead
  <2>2. ~(pos[i] <= pos[k])
    BY <1>1, <2>1 DEF Ahead
  <2> QED
    BY <1>1, <1>t, <2>1, <2>2
<1>3. i \in Scanned
  BY <1>1 DEF Winners, Claimable
<1>4. j \in Scanned
  <2>1. j \in InQueue
    BY <1>1 DEF CapInv, QueueInv, LiveJobsQueued, InQueue
  <2> QED
    BY <1>1, <1>2, <1>3, <1>t, <2>1, ConstantsAssumption DEF Scanned
<1>5. j \notin Claimable
  <2> SUFFICES ASSUME j \in Claimable
               PROVE  FALSE
    OBVIOUS
  <2>1. \A w \in Winners : w \in Jobs /\ pos[i] <= pos[w]
    BY <1>1 DEF Examined, Winners, Claimable, Scanned, InQueue
  <2>2. j \in Examined
    BY <1>1, <1>2, <1>t, <2>1 DEF Examined
  <2>3. ~AuthorizationChanged(j)
    BY <2>2 DEF Expiring
  <2>4. ~ExecutionUnavailable(j) /\ ~NoSlot(j)
    BY <1>1 DEF Winners, ExecutionUnavailable, AuthorizationChanged, NoSlot
  <2>5. j \in Winners
    BY <2>3, <2>4 DEF Winners
  <2> QED
    BY <1>1, <1>2, <1>t, <2>1, <2>5
<1>6. jobs[j].status \in Active /\ ~Lapsed(j, req.at)
  <2>1. j \notin TimedOut /\ AgentOf[j] \notin req.full
    BY <1>1 DEF Expiring, Winners, Claimable
  <2> QED
    BY <1>1, <1>4, <1>5, <2>1 DEF Claimable, Live
<1>7. jobs[j].lease > req.at /\ jobs[j].lease > now
  <2>1. jobs[j].lease \in Nat /\ req.at \in Nat
    BY <1>1, <1>t DEF JobType, TypeOK, RequestType, NoReq
  <2> QED
    BY <1>1, <1>6, <2>1 DEF Lapsed, NoLapseUnderway
<1>8. ledger[j] = jobs[j].lease
  BY <1>1, <1>6, <1>7 DEF CapInv, LedgerInv, SlotAgrees
<1> QED
  BY <1>1, <1>7, <1>8 DEF Slots

LEMMA FrontIsFinite ==
    \A a : IsFiniteSet(Front(a)) /\ Cardinality(Front(a)) \in Nat
<1>1. \A a : Front(a) \subseteq Jobs
  BY DEF Front
<1> QED
  BY <1>1, ConstantsAssumption, FS_Subset, FS_CardinalityType

(* So the front never outgrows the cap, if no lease lapses between the      *)
(* moment a claim reads its clock and the moment its transaction commits.   *)
LEMMA NextCap == CapInv /\ NoLapseUnderway /\ [Next]_vars => CapInv'
<1> SUFFICES ASSUME CapInv, NoLapseUnderway, [Next]_vars
             PROVE  \A a \in Agents : Cardinality(Front(a)') <= Cap
  BY NextQueue, NextLedger, NextFence DEF CapInv
<1>t. TypeOK /\ Cap \in Nat
  BY ConstantsAssumption DEF CapInv, QueueInv
<1>2. ASSUME NEW a \in Agents, Front(a)' \subseteq Front(a)
      PROVE  Cardinality(Front(a)') <= Cap
  <2>1. /\ Cardinality(Front(a)') <= Cardinality(Front(a))
        /\ Cardinality(Front(a)') \in Nat /\ Cardinality(Front(a)) \in Nat
    BY <1>2, FrontIsFinite, FS_Subset, FS_CardinalityType
  <2>2. Cardinality(Front(a)) <= Cap
    BY DEF CapInv
  <2> QED
    BY <1>t, <2>1, <2>2
<1>3. ASSUME \A i \in Jobs : ~ClaimJob(i), NEW a \in Agents
      PROVE  Cardinality(Front(a)') <= Cap
  <2>1. Front(a)' \subseteq Front(a)
    BY <1>3, OnlyClaimsAdvance DEF CapInv, Front
  <2> QED
    BY <1>2, <2>1
<1>4. ASSUME NEW i \in Jobs, ClaimJob(i), NEW a \in Agents
      PROVE  Cardinality(Front(a)') <= Cap
  <2>1. Front(a)' \subseteq Front(a) \cup {i}
    BY <1>4, ClaimAdvancesOne DEF CapInv, Front
  <2>2. CASE i \in Front(a) \/ i \notin Front(a)'
    <3>1. Front(a)' \subseteq Front(a)
      BY <2>1, <2>2
    <3> QED
      BY <1>2, <3>1
  <2>3. CASE i \notin Front(a) /\ i \in Front(a)'
    <3>1. a = AgentOf[i] /\ jobs[i].status \in Live
      BY <1>4, <2>3 DEF Front, ClaimJob, Winners, Claimable, Lapsed, Live
    <3>2. ~Ahead(i)
      BY <2>3, <3>1 DEF Front
    <3>3. Front(a)' \subseteq Slots(a, req.at) \cup {i}
      <4> SUFFICES ASSUME NEW j \in Front(a)', j # i
                   PROVE  j \in Slots(a, req.at)
        OBVIOUS
      <4>1. j \in Front(a) /\ j \notin Expiring
        BY <1>4, <2>1, ClaimAdvancesOne DEF CapInv, Front
      <4> QED
        BY <1>4, <3>1, <3>2, <4>1, FrontHoldsSlots
    <3>4. /\ IsFiniteSet(Slots(a, req.at)) /\ Cardinality(Slots(a, req.at)) \in Nat
      <4>1. Slots(a, req.at) \subseteq Jobs
        BY DEF Slots
      <4> QED
        BY <4>1, ConstantsAssumption, FS_Subset, FS_CardinalityType
    <3>5. Cardinality(Slots(a, req.at)) < Cap
      BY <1>4, <1>t, <3>1, <3>4 DEF ClaimJob, Winners, NoSlot
    <3>6. /\ IsFiniteSet(Slots(a, req.at) \cup {i})
          /\ Cardinality(Slots(a, req.at) \cup {i}) <= Cap
      BY <1>t, <3>4, <3>5, FS_AddElement
    <3>7. /\ Cardinality(Front(a)') <= Cardinality(Slots(a, req.at) \cup {i})
          /\ Cardinality(Front(a)') \in Nat
          /\ Cardinality(Slots(a, req.at) \cup {i}) \in Nat
      BY <3>3, <3>6, FS_Subset, FS_CardinalityType
    <3> QED
      BY <1>t, <3>6, <3>7
  <2> QED
    BY <2>2, <2>3
<1> QED
  BY <1>3, <1>4

(* A profile never has more live leases than its cap in a behaviour where   *)
(* no lease lapses while a claim is under way, although a claim only looks  *)
(* at the slots that have not run out and a renewal at none.  The condition *)
(* is needed: with a claim that commits later than it read the clock, a run *)
(* whose lease lapsed in between can be renewed when its slot has gone to   *)
(* another.                                                                 *)
THEOREM LeasesStayWithinCap == Spec /\ []NoLapseUnderway => []LeasesWithinCap
<1>1. Init => CapInv
  <2> SUFFICES ASSUME Init
               PROVE  CapInv
    OBVIOUS
  <2>1. QueueInv /\ LedgerInv /\ FenceInv /\ req.phase # "sent"
    BY InitTypeOK, InitFence DEF Init, QueueInv, LiveJobsQueued, InQueue, LedgerInv,
       SlotAgrees, NewJob, NoReq, Live, Active
  <2>2. \A a : Front(a) = {}
    BY DEF Init, Front, NewJob, Live, Active
  <2>3. Cardinality({}) <= Cap
    BY FS_EmptySet, ConstantsAssumption
  <2> QED
    BY <2>1, <2>2, <2>3 DEF CapInv
<1>2. CapInv => LeasesWithinCap
  <2> SUFFICES ASSUME CapInv, NEW a \in Agents
               PROVE  Cardinality(LiveLeases(a)) <= Cap
    BY DEF LeasesWithinCap
  <2>1. \A j \in Jobs : pos[j] <= pos[j]
    BY DEF CapInv, QueueInv, TypeOK
  <2>2. LiveLeases(a) \subseteq Front(a)
    BY <2>1 DEF LiveLeases, Front, Ahead, Live
  <2>3. /\ Cardinality(LiveLeases(a)) <= Cardinality(Front(a))
        /\ Cardinality(LiveLeases(a)) \in Nat /\ Cardinality(Front(a)) \in Nat
    BY <2>2, FrontIsFinite, FS_Subset, FS_CardinalityType
  <2>4. Cardinality(Front(a)) <= Cap
    BY DEF CapInv
  <2> QED
    BY <2>3, <2>4, ConstantsAssumption
<1>3. CapInv /\ NoLapseUnderway /\ [Next]_vars => CapInv'
  BY NextCap
<1> QED
  BY <1>1, <1>2, <1>3, PTL DEF Spec
=============================================================================
