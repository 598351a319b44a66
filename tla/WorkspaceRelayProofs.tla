------------------------ MODULE WorkspaceRelayProofs ------------------------
(***************************************************************************)
(* The invariants of WorkspaceRelay that hold for every value of the        *)
(* constants that RelayAssumption allows: whatever is lost, late or         *)
(* restarted, no envelope leaves the queue of the device that has to go on  *)
(* with it, a stored reply is the one of the last attempt that was leased,  *)
(* an envelope that ended stays as it is, and the relay implements          *)
(* RunContract.                                                            *)
(***************************************************************************)
EXTENDS WorkspaceRelayRefinement, FiniteSetTheorems, TLAPS

(* A place is a natural number, and a message has one exactly if it is kept. *)
LEMMA OrderedType ==
    ASSUME NEW d \in Devices, NEW kept \in SUBSET Messages, NEW class
    PROVE  /\ Ordered(d, kept, class) \in [Messages -> Nat]
           /\ \A m \in Messages : Ordered(d, kept, class)[m] > 0 <=> m \in kept
<1> DEFINE Before(m) == {k \in kept : \/ class[k] < class[m]
                                      \/ /\ class[k] = class[m]
                                         /\ queue[d][k] < queue[d][m]}
<1>1. \A m \in Messages : Cardinality(Before(m)) \in Nat
  <2> TAKE m \in Messages
  <2>1. IsFiniteSet(Messages) /\ Before(m) \subseteq Messages
    BY RelayAssumption
  <2> HIDE DEF Before
  <2> QED
    BY <2>1, FS_Subset, FS_CardinalityType
<1>2. Ordered(d, kept, class) =
        [m \in Messages |-> IF m \in kept THEN 1 + Cardinality(Before(m)) ELSE 0]
  BY DEF Ordered
<1> HIDE DEF Before
<1> QED
  BY <1>1, <1>2

(* No two of the messages kept get the same place, unless they had it.      *)
LEMMA OrderedInjective ==
    ASSUME TypeOK, NEW d \in Devices, NEW kept \in SUBSET Messages,
           NEW class \in [Messages -> Nat],
           \A m, k \in kept : queue[d][m] = queue[d][k] => m = k \/ class[m] # class[k],
           NEW m \in kept, NEW k \in kept,
           Ordered(d, kept, class)[m] = Ordered(d, kept, class)[k]
    PROVE  m = k
<1> DEFINE Before(i) == {l \in kept : \/ class[l] < class[i]
                                      \/ /\ class[l] = class[i]
                                         /\ queue[d][l] < queue[d][i]}
<1>1. /\ \A i \in kept : class[i] \in Nat /\ queue[d][i] \in Nat
      /\ m \in Messages /\ k \in Messages
  BY DEF TypeOK
<1>2. \A i \in Messages : IsFiniteSet(Before(i)) /\ Cardinality(Before(i)) \in Nat
  <2> TAKE i \in Messages
  <2>1. IsFiniteSet(Messages) /\ Before(i) \subseteq Messages
    BY RelayAssumption
  <2> HIDE DEF Before
  <2> QED
    BY <2>1, FS_Subset, FS_CardinalityType
<1>3. \A i \in kept : Ordered(d, kept, class)[i] = 1 + Cardinality(Before(i))
  BY DEF Ordered
<1>4. Cardinality(Before(m)) = Cardinality(Before(k))
  <2> HIDE DEF Before
  <2> QED
    BY <1>1, <1>2, <1>3
<1>5. ASSUME NEW x \in kept, NEW y \in kept, Cardinality(Before(x)) = Cardinality(Before(y)),
             \/ class[x] < class[y]
             \/ class[x] = class[y] /\ queue[d][x] < queue[d][y]
      PROVE  FALSE
  <2>1. Before(x) \subseteq Before(y) /\ x \in Before(y) /\ x \notin Before(x)
    BY <1>1, <1>5
  <2>2. IsFiniteSet(Before(y)) /\ x \in Messages /\ y \in Messages
    BY <1>2
  <2> HIDE DEF Before
  <2> QED
    BY <1>5, <2>1, <2>2, FS_Subset
<1>6. CASE m # k
  <2>1. \/ class[m] < class[k]
        \/ class[m] = class[k] /\ queue[d][m] < queue[d][k]
        \/ class[k] < class[m]
        \/ class[k] = class[m] /\ queue[d][k] < queue[d][m]
    BY <1>1, <1>6
  <2> HIDE DEF Before
  <2> QED
    BY <1>4, <1>5, <2>1
<1> QED
  BY <1>6
-----------------------------------------------------------------------------
(* What an envelope promises about its reply: there is none before the      *)
(* receiver answered, and one that is stored has a content and is the last  *)
(* attempt's.                                                               *)
Stored(e) ==
    /\ e.status \in {"none", "queued", "claimed"} => e.reply = "none"
    /\ e.reply # "none" => e.says \in Says /\ e.by = e.attempt

(* A courier that is busy knows with which message, and what it has to say. *)
Busy(c) ==
    /\ c.pc # "idle" => c.msg \in Messages
    /\ c.pc \in {"reply", "tell"} => c.says \in Says

RelayInv ==
    /\ TypeOK
    /\ \A m \in Messages : Stored(env[m])
    /\ \A d \in Devices : Busy(courier[d])

(* What a step may do to the envelopes and the queues.                      *)
StoreStep ==
    /\ env' \in [Messages -> Envelope]
    /\ queue' \in [Devices -> [Messages -> Nat]]
    /\ \A m \in Messages :
          /\ Stored(env'[m])
          /\ env[m].status \in Final => env'[m].status = env[m].status

LEMMA SameStore ==
    ASSUME RelayInv, UNCHANGED <<env, queue>>
    PROVE  StoreStep
BY DEF RelayInv, TypeOK, StoreStep

(* A step that replaces one envelope and reorders one queue.                *)
LEMMA OneEnvelope ==
    ASSUME RelayInv, NEW m \in Messages, NEW e \in Envelope, NEW d \in Devices,
           NEW kept \in SUBSET Messages, NEW class,
           Stored(e), env[m].status \notin Final,
           env' = [env EXCEPT ![m] = e],
           queue' = [queue EXCEPT ![d] = Ordered(d, kept, class)]
    PROVE  StoreStep
<1>1. env \in [Messages -> Envelope] /\ queue \in [Devices -> [Messages -> Nat]]
  BY DEF RelayInv, TypeOK
<1>2. Ordered(d, kept, class) \in [Messages -> Nat]
  BY OrderedType
<1>3. queue' \in [Devices -> [Messages -> Nat]]
  BY <1>1, <1>2
<1>4. env' \in [Messages -> Envelope]
  BY <1>1
<1>5. ASSUME NEW k \in Messages
      PROVE  Stored(env'[k]) /\ (env[k].status \in Final => env'[k].status = env[k].status)
  <2>1. CASE k = m
    BY <1>1, <2>1
  <2>2. CASE k # m
    <3>1. env'[k] = env[k]
      BY <1>1, <2>2
    <3> QED
      BY <3>1 DEF RelayInv
  <2> QED
    BY <2>1, <2>2
<1> QED
  BY <1>3, <1>4, <1>5 DEF StoreStep

LEMMA CreateStores ==
    ASSUME RelayInv, NEW m \in Messages, env[m].status = "none", CreateEnvelope(m)
    PROVE  StoreStep
<1> DEFINE e == [env[m] EXCEPT !.status = "queued", !.ttl = now + TTL]
           kept == InQueue(To[m]) \cup {m}
           class == [k \in Messages |-> IF k = m THEN 1 ELSE 0]
<1>1. env \in [Messages -> Envelope] /\ env[m] \in Envelope /\ now + TTL \in Nat
  BY RelayAssumption DEF RelayInv, TypeOK
<1>2. env' = [env EXCEPT ![m] = e] /\ e.status = "queued"
  BY <1>1 DEF CreateEnvelope, Envelope
<1>3. e \in Envelope /\ Stored(e)
  BY <1>1 DEF RelayInv, Envelope, Stored
<1>4. queue' = [queue EXCEPT ![To[m]] = Ordered(To[m], kept, class)]
  BY DEF CreateEnvelope, ToTail
<1>5. kept \in SUBSET Messages /\ To[m] \in Devices
  BY RelayAssumption DEF InQueue
<1>6. env[m].status \notin Final
  BY DEF Final
<1> HIDE DEF e, kept, class
<1> QED
  BY <1>2, <1>3, <1>4, <1>5, <1>6, OneEnvelope

LEMMA ReplyStores ==
    ASSUME RelayInv, NEW q \in Request, q.what \in Says, HandleReply(q)
    PROVE  StoreStep
<1> DEFINE m == q.msg
           e == [env[m] EXCEPT !.status = "replied", !.reply = "queued",
                               !.says = q.what, !.by = q.attempt]
           kept == InQueue(From[m]) \cup {m}
           class == [k \in Messages |-> IF k = m THEN 1 ELSE 0]
<1>0. m \in Messages /\ q.attempt \in Nat
  BY DEF Request
<1>1. env \in [Messages -> Envelope] /\ env[m] \in Envelope
  BY <1>0 DEF RelayInv, TypeOK
<1>2. CASE ~MayReply(q.msg, q.attempt)
  BY <1>2, SameStore DEF HandleReply
<1>3. CASE MayReply(q.msg, q.attempt)
  <2>1. env[m].attempt = q.attempt /\ env[m].status \notin Final
    BY <1>3 DEF MayReply, LiveLease, Final
  <2>2. env' = [env EXCEPT ![m] = e]
    BY <1>0, <1>1, <1>3 DEF HandleReply
  <2>3. e \in Envelope
    BY <1>0, <1>1 DEF Envelope
  <2>4. Stored(e)
    BY <1>1, <2>1 DEF Stored, Envelope
  <2>5. queue' = [queue EXCEPT ![From[m]] = Ordered(From[m], kept, class)]
    BY <1>3 DEF HandleReply, Requeued, ToTail
  <2>6. kept \in SUBSET Messages /\ From[m] \in Devices
    BY <1>0, RelayAssumption DEF InQueue
  <2> HIDE DEF m, e, kept, class
  <2> QED
    BY <1>0, <2>1, <2>2, <2>3, <2>4, <2>5, <2>6, OneEnvelope
<1> QED
  BY <1>2, <1>3

LEMMA CompleteStores ==
    ASSUME RelayInv, NEW q \in Request, q.what \notin Says, HandleComplete(q)
    PROVE  StoreStep
<1> DEFINE m == q.msg
           e == [env[m] EXCEPT !.status = q.what,
                               !.reply = IF @ = "none" THEN "none" ELSE "delivered"]
           kept == InQueue(To[m]) \ {m}
           class == [k \in Messages |-> 0]
<1>0. m \in Messages /\ q.what \in {"delivered", "failed"}
  BY DEF Request
<1>1. env \in [Messages -> Envelope] /\ env[m] \in Envelope /\ Stored(env[m])
  BY <1>0 DEF RelayInv, TypeOK
<1>2. CASE ~MayComplete(q.msg, q.attempt)
  BY <1>2, SameStore DEF HandleComplete
<1>3. CASE MayComplete(q.msg, q.attempt)
  <2>1. env[m].status \notin Final
    BY <1>3 DEF MayComplete, LiveLease, Final
  <2>2. env' = [env EXCEPT ![m] = e]
    BY <1>0, <1>1, <1>3 DEF HandleComplete
  <2>3. e \in Envelope
    BY <1>0, <1>1 DEF Envelope, Final
  <2>4. Stored(e)
    BY <1>0, <1>1 DEF Stored, Envelope
  <2>5. queue' = [queue EXCEPT ![To[m]] = Ordered(To[m], kept, class)]
    BY <1>3 DEF HandleComplete, Without
  <2>6. kept \in SUBSET Messages /\ To[m] \in Devices
    BY <1>0, RelayAssumption DEF InQueue
  <2> HIDE DEF m, e, kept, class
  <2> QED
    BY <1>0, <2>1, <2>2, <2>3, <2>4, <2>5, <2>6, OneEnvelope
<1> QED
  BY <1>2, <1>3

LEMMA HandleStores ==
    ASSUME RelayInv, NEW q \in Request, Handle(q)
    PROVE  StoreStep
BY ReplyStores, CompleteStores DEF Handle

(* The message a claim chooses is queued at the device and may be claimed.  *)
LEMMA OldestIsClaimable ==
    ASSUME NEW d \in Devices, NEW m \in Oldest(d)
    PROVE  m \in Messages /\ m \in Kept(d) /\ Claimable(m, d)
BY DEF Oldest, Kept, InQueue

(* Sweeping and claiming keeps what envelopes promise: it changes none that *)
(* has ended.                                                               *)
LEMMA SweepStores ==
    ASSUME RelayInv, NEW d \in Devices, SweepAndClaim(d, Oldest(d))
    PROVE  StoreStep
<1> DEFINE chosen == Oldest(d)
           class == [m \in Messages |-> IF m \in chosen THEN 0 ELSE 1]
<1>1. env \in [Messages -> Envelope] /\ queue \in [Devices -> [Messages -> Nat]] /\ now \in Nat
  BY DEF RelayInv, TypeOK
<1>2. queue' = [queue EXCEPT ![d] = Ordered(d, Kept(d), class)]
  BY DEF SweepAndClaim
<1>3. Kept(d) \in SUBSET Messages
  BY DEF Kept, InQueue
<1>4. queue' \in [Devices -> [Messages -> Nat]]
  <2> HIDE DEF class
  <2>1. Ordered(d, Kept(d), class) \in [Messages -> Nat]
    BY <1>3, OrderedType
  <2> QED
    BY <1>1, <1>2, <2>1
<1>5. ASSUME NEW m \in Messages
      PROVE  /\ env'[m] \in Envelope
             /\ Stored(env'[m])
             /\ env[m].status \in Final => env'[m].status = env[m].status
  <2>0. env[m] \in Envelope /\ Stored(env[m])
    BY <1>1, <1>5 DEF RelayInv
  <2>1. CASE m \in chosen
    <3>1. env'[m] = Claimed(m, d) /\ Claimable(m, d)
      BY <1>5, <2>1, OldestIsClaimable DEF SweepAndClaim
    <3>2. CASE InboundClaimable(m, d)
      <4>1. env'[m] = [env[m] EXCEPT !.status = "claimed", !.attempt = @ + 1,
                                     !.lease = now + Lease]
        BY <3>1, <3>2 DEF Claimed
      <4>2. env[m].status \in {"queued", "claimed"} /\ env[m].reply = "none"
        BY <2>0, <3>2 DEF InboundClaimable, Stored
      <4>3. env[m].attempt + 1 \in Nat /\ now + Lease \in Nat
        BY <1>1, <2>0, RelayAssumption DEF Envelope
      <4>4. env'[m] \in Envelope
        BY <2>0, <4>1, <4>3 DEF Envelope
      <4>5. env'[m].status = "claimed" /\ env'[m].reply = "none"
        BY <2>0, <4>1, <4>2 DEF Envelope
      <4> QED
        BY <4>2, <4>4, <4>5 DEF Stored, Final
    <3>3. CASE ~InboundClaimable(m, d)
      <4>1. env'[m] = [env[m] EXCEPT !.reply = "claimed"]
        BY <3>1, <3>3 DEF Claimed
      <4>2. env[m].reply # "none"
        BY <3>1, <3>3 DEF Claimable, ReplyClaimable
      <4> QED
        BY <2>0, <4>1, <4>2 DEF Envelope, Stored
    <3> QED
      BY <3>2, <3>3
  <2>2. CASE m \notin chosen /\ (m \in InQueue(d) /\ Lapsed(m))
    <3>1. env'[m] = [env[m] EXCEPT !.status = "expired"] /\ env[m].status \notin Final
      BY <1>5, <2>2 DEF SweepAndClaim, Lapsed
    <3> QED
      BY <2>0, <3>1 DEF Envelope, Stored, Final
  <2>3. CASE m \notin chosen /\ ~(m \in InQueue(d) /\ Lapsed(m))
    BY <1>5, <2>0, <2>3 DEF SweepAndClaim
  <2> QED
    BY <2>1, <2>2, <2>3
<1>6. env' \in [Messages -> Envelope]
  BY <1>5 DEF SweepAndClaim
<1> QED
  BY <1>4, <1>5, <1>6 DEF StoreStep

(* A request that a courier sends is a request.                             *)
LEMMA RequestType ==
    ASSUME RelayInv, NEW d \in Devices, Posting(d)
    PROVE  RequestOf(d) \in Request
<1>1. courier[d] \in Courier /\ Busy(courier[d]) /\ courier[d].pc \in {"reply", "complete"}
  BY DEF RelayInv, TypeOK, Posting
<1>2. courier[d].msg \in Messages /\ courier[d].attempt \in Nat
  BY <1>1 DEF Courier, Busy
<1>3. CASE courier[d].pc = "reply"
  <2>1. RequestOf(d) = [msg |-> courier[d].msg, attempt |-> courier[d].attempt,
                        what |-> courier[d].says]
    BY <1>3 DEF RequestOf
  <2> QED
    BY <1>1, <1>2, <1>3, <2>1 DEF Request, Busy
<1>4. CASE courier[d].pc = "complete"
  <2>1. RequestOf(d) = [msg |-> courier[d].msg, attempt |-> courier[d].attempt,
                        what |-> IF courier[d].failed THEN "failed" ELSE "delivered"]
    BY <1>4 DEF RequestOf
  <2> QED
    BY <1>2, <2>1 DEF Request
<1> QED
  BY <1>1, <1>3, <1>4

(* Every step does to envelopes and queues what a step may do.              *)
LEMMA StoreSteps == RelayInv /\ [Next]_vars => StoreStep
<1> SUFFICES ASSUME RelayInv, [Next]_vars
             PROVE  StoreStep
  OBVIOUS
<1>1. ASSUME NEW m \in Messages, Enqueue(m)
      PROVE  StoreStep
  BY <1>1, SameStore, CreateStores DEF Enqueue
<1>2. ASSUME NEW m \in Messages, EnqueueRefused(m) \/ NotTeammates(m)
      PROVE  StoreStep
  BY <1>2, SameStore DEF EnqueueRefused, NotTeammates
<1>3. ASSUME NEW m \in Messages, EnqueueLost(m)
      PROVE  StoreStep
  BY <1>3, SameStore, CreateStores DEF EnqueueLost
<1>4. ASSUME NEW d \in Devices, Claim(d) \/ ClaimLost(d)
      PROVE  StoreStep
  BY <1>4, SweepStores DEF Claim, ClaimLost
<1>5. ASSUME NEW d \in Devices, Post(d)
      PROVE  StoreStep
  BY <1>5, HandleStores, RequestType DEF Post
<1>6. ASSUME NEW d \in Devices,
             \/ Deliver(d) \/ DeliverFails(d) \/ PostTimesOut(d)
             \/ TellReply(d) \/ TellFails(d) \/ Crash(d)
      PROVE  StoreStep
  BY <1>6, SameStore DEF Deliver, DeliverFails, PostTimesOut, TellReply, TellFails, Crash
<1>7. ASSUME NEW q \in late, LateArrives(q)
      PROVE  StoreStep
  BY <1>7, HandleStores DEF LateArrives, RelayInv, TypeOK
<1>8. CASE Tick \/ UNCHANGED vars
  BY <1>8, SameStore DEF Tick, vars
<1> QED
  BY <1>1, <1>2, <1>3, <1>4, <1>5, <1>6, <1>7, <1>8 DEF Next, CourierStep
-----------------------------------------------------------------------------
(* What a step may do to everything else.                                   *)
RestOK ==
    /\ courier \in [Devices -> Courier]
    /\ \A d \in Devices : Busy(courier[d])
    /\ posted \in [Devices -> SUBSET Messages]
    /\ told \in [Messages -> SUBSET Says]
    /\ late \subseteq Request
    /\ now \in Nat
    /\ faults \in Nat

LEMMA IdleCourier == Idle \in Courier /\ Busy(Idle)
BY DEF Idle, Courier, Busy

LEMMA OneCourier ==
    ASSUME RelayInv, NEW d \in Devices, NEW c \in Courier, Busy(c),
           courier' = [courier EXCEPT ![d] = c]
    PROVE  /\ courier' \in [Devices -> Courier]
           /\ \A e \in Devices : Busy(courier'[e])
<1>1. courier \in [Devices -> Courier] /\ \A e \in Devices : Busy(courier[e])
  BY DEF RelayInv, TypeOK
<1>2. ASSUME NEW e \in Devices
      PROVE  courier'[e] = IF e = d THEN c ELSE courier[e]
  BY <1>1
<1> QED
  BY <1>1, <1>2

(* The message a courier is given, and where it goes on, keep its promise.  *)
LEMMA AssignedCourier ==
    ASSUME RelayInv, NEW d \in Devices, NEW m \in Oldest(d)
    PROVE  Assigned(m, d) \in Courier /\ Busy(Assigned(m, d))
<1>1. m \in Messages /\ Claimable(m, d)
  BY OldestIsClaimable
<1>2. env[m] \in Envelope /\ Stored(env[m])
  BY <1>1 DEF RelayInv, TypeOK
<1>3. CASE InboundClaimable(m, d)
  <2>1. Assigned(m, d) = [Idle EXCEPT !.pc = "deliver", !.msg = m, !.attempt = env[m].attempt + 1]
    BY <1>3 DEF Assigned
  <2>2. env[m].attempt + 1 \in Nat
    BY <1>2 DEF Envelope
  <2> QED
    BY <1>1, <2>1, <2>2 DEF Idle, Courier, Busy
<1>4. CASE ~InboundClaimable(m, d)
  <2>1. Assigned(m, d) = [Idle EXCEPT !.pc = "tell", !.msg = m, !.says = env[m].says]
    BY <1>4 DEF Assigned
  <2> DEFINE says == env[m].says
  <2>2. says \in Says
    BY <1>1, <1>2, <1>4 DEF Claimable, ReplyClaimable, Stored
  <2> HIDE DEF says
  <2>3. Assigned(m, d) = [pc |-> "tell", failed |-> FALSE, msg |-> m, attempt |-> 0, says |-> says]
    BY <2>1 DEF Idle, says
  <2> QED
    BY <1>1, <2>2, <2>3 DEF Courier, Busy
<1> QED
  BY <1>3, <1>4

LEMMA NextCourier ==
    ASSUME RelayInv, NEW d \in Devices, courier[d].pc # "idle"
    PROVE  /\ NextPost(d) \in Courier /\ Busy(NextPost(d))
           /\ AfterException(d) \in Courier /\ Busy(AfterException(d))
<1>1. courier[d] \in Courier /\ courier[d].msg \in Messages
  BY DEF RelayInv, TypeOK, Busy
<1>2. NextPost(d) \in Courier /\ Busy(NextPost(d))
  <2>1. CASE courier[d].pc = "reply"
    <3>1. NextPost(d) = [courier[d] EXCEPT !.pc = "complete"]
      BY <2>1 DEF NextPost
    <3> QED
      BY <1>1, <3>1 DEF Courier, Busy
  <2>2. CASE courier[d].pc # "reply"
    BY <2>2, IdleCourier DEF NextPost
  <2> QED
    BY <2>1, <2>2
<1>3. AfterException(d) \in Courier /\ Busy(AfterException(d))
  <2>1. CASE courier[d].failed
    BY <1>2, <2>1 DEF AfterException
  <2>2. CASE ~courier[d].failed
    <3>1. AfterException(d) = [courier[d] EXCEPT !.pc = "reply", !.failed = TRUE, !.says = "error"]
      BY <2>2 DEF AfterException
    <3> QED
      BY <1>1, <3>1 DEF Courier, Busy, Says
  <2> QED
    BY <2>1, <2>2
<1> QED
  BY <1>2, <1>3

LEMMA RestSteps == RelayInv /\ [Next]_vars => RestOK'
<1> SUFFICES ASSUME RelayInv, [Next]_vars
             PROVE  RestOK'
  OBVIOUS
<1> USE DEF RestOK
<1>0. RestOK /\ TypeOK
  BY DEF RelayInv, TypeOK
<1>f. \A kind : Fail(kind) => faults' \in Nat
  BY <1>0 DEF Fail
<1>p. \A m \in Messages : Remember(m) => posted' \in [Devices -> SUBSET Messages]
  BY <1>0, RelayAssumption DEF Remember
<1>w. \A m \in Messages : \A s \in Says : Tell(m, s) => told' \in [Messages -> SUBSET Says]
  BY <1>0 DEF Tell
<1>s. "error" \in Says
  BY DEF Says
<1>1. ASSUME NEW m \in Messages, Enqueue(m)
      PROVE  RestOK'
  BY <1>0, <1>1, <1>p DEF Enqueue
<1>2. ASSUME NEW m \in Messages, EnqueueRefused(m)
      PROVE  RestOK'
  BY <1>0, <1>2, <1>w, <1>s DEF EnqueueRefused
<1>3. ASSUME NEW m \in Messages, NotTeammates(m) \/ EnqueueLost(m)
      PROVE  RestOK'
  BY <1>0, <1>3, <1>w, <1>s, <1>f DEF NotTeammates, EnqueueLost
<1>4. ASSUME NEW d \in Devices, Claim(d)
      PROVE  RestOK'
  <2>1. \E c \in Courier : Busy(c) /\ courier' = [courier EXCEPT ![d] = c]
    <3>1. CASE Oldest(d) = {}
      BY <1>4, <3>1, IdleCourier DEF Claim
    <3>2. CASE Oldest(d) # {}
      <4>1. (CHOOSE m \in Oldest(d) : TRUE) \in Oldest(d)
        BY <3>2
      <4> QED
        BY <1>4, <3>2, <4>1, AssignedCourier DEF Claim
    <3> QED
      BY <3>1, <3>2
  <2>2. courier' \in [Devices -> Courier] /\ \A e \in Devices : Busy(courier'[e])
    BY <2>1, OneCourier
  <2> QED
    BY <1>0, <1>4, <2>2 DEF Claim
<1>5. ASSUME NEW d \in Devices, ClaimLost(d)
      PROVE  RestOK'
  BY <1>0, <1>5, <1>f DEF ClaimLost
<1>6. ASSUME NEW d \in Devices, Deliver(d)
      PROVE  RestOK'
  <2> DEFINE c == [courier[d] EXCEPT !.pc = "reply", !.says = "answer"]
  <2>1. courier[d] \in Courier /\ courier[d].msg \in Messages
    BY <1>0, <1>6 DEF Deliver, Busy
  <2>2. c \in Courier /\ Busy(c)
    BY <2>1 DEF Courier, Busy, Says
  <2>3. courier' = [courier EXCEPT ![d] = c]
    BY <1>0, <1>6 DEF Deliver
  <2> HIDE DEF c
  <2>4. courier' \in [Devices -> Courier] /\ \A e \in Devices : Busy(courier'[e])
    BY <2>2, <2>3, OneCourier
  <2> QED
    BY <1>0, <1>6, <2>4 DEF Deliver
<1>7. ASSUME NEW d \in Devices, DeliverFails(d)
      PROVE  RestOK'
  <2>1. courier' \in [Devices -> Courier] /\ \A e \in Devices : Busy(courier'[e])
    BY <1>7, NextCourier, OneCourier DEF DeliverFails
  <2> QED
    BY <1>0, <1>7, <1>f, <2>1 DEF DeliverFails
<1>8. ASSUME NEW d \in Devices, Post(d)
      PROVE  RestOK'
  <2>1. courier' \in [Devices -> Courier] /\ \A e \in Devices : Busy(courier'[e])
    BY <1>8, NextCourier, OneCourier DEF Post, Posting
  <2> QED
    BY <1>0, <1>8, <2>1 DEF Post
<1>9. ASSUME NEW d \in Devices, PostTimesOut(d)
      PROVE  RestOK'
  <2>1. courier' \in [Devices -> Courier] /\ \A e \in Devices : Busy(courier'[e])
    BY <1>9, NextCourier, OneCourier DEF PostTimesOut, Posting
  <2>2. late' \subseteq Request
    BY <1>0, <1>9, RequestType DEF PostTimesOut
  <2> QED
    BY <1>0, <1>9, <1>f, <2>1, <2>2 DEF PostTimesOut
<1>10. ASSUME NEW d \in Devices, TellReply(d) \/ TellFails(d)
       PROVE  RestOK'
  <2>1. courier' \in [Devices -> Courier] /\ \A e \in Devices : Busy(courier'[e])
    BY <1>10, IdleCourier, OneCourier DEF TellReply, TellFails
  <2>2. courier[d].msg \in Messages /\ courier[d].says \in Says
    BY <1>0, <1>10 DEF TellReply, TellFails, Busy
  <2> QED
    BY <1>0, <1>10, <1>f, <1>w, <2>1, <2>2 DEF TellReply, TellFails
<1>11. ASSUME NEW d \in Devices, Crash(d)
       PROVE  RestOK'
  <2>1. courier' \in [Devices -> Courier] /\ \A e \in Devices : Busy(courier'[e])
    BY <1>11, IdleCourier, OneCourier DEF Crash
  <2>2. late' \subseteq Request
    BY <1>0, <1>11, RequestType DEF Crash
  <2>3. posted' \in [Devices -> SUBSET Messages]
    BY <1>0, <1>11 DEF Crash
  <2> QED
    BY <1>0, <1>11, <1>f, <2>1, <2>2, <2>3 DEF Crash
<1>12. ASSUME NEW q \in late, LateArrives(q)
       PROVE  RestOK'
  BY <1>0, <1>12 DEF LateArrives
<1>13. CASE Tick
  BY <1>0, <1>13 DEF Tick
<1>14. CASE UNCHANGED vars
  BY <1>0, <1>14 DEF vars
<1> QED
  BY <1>1, <1>2, <1>3, <1>4, <1>5, <1>6, <1>7, <1>8, <1>9, <1>10, <1>11, <1>12, <1>13, <1>14
     DEF Next, CourierStep

LEMMA InitRelay == Init => RelayInv
BY DEF Init, RelayInv, TypeOK, NoEnvelope, Envelope, Stored, Idle, Courier, Busy

LEMMA NextRelay == RelayInv /\ [Next]_vars => RelayInv'
BY StoreSteps, RestSteps DEF StoreStep, RestOK, RelayInv, TypeOK

(* The inductive invariant: types, what envelopes promise of their replies, *)
(* and what busy couriers know.                                             *)
THEOREM RelayCorrect == Spec => []RelayInv
BY InitRelay, NextRelay, PTL DEF Spec

(* Envelopes, queues, couriers and requests keep their types.               *)
THEOREM TypeCorrect == Spec => []TypeOK
<1>1. RelayInv => TypeOK
  BY DEF RelayInv
<1> QED
  BY <1>1, RelayCorrect, PTL

(* Whatever restarts or arrives late, the reply that is stored is the one   *)
(* of the attempt that was leased last (replyRelayEnvelope compares the     *)
(* lease token that takeLease has drawn).                                   *)
THEOREM RepliesOfLastAttempt == Spec => []ReplyOfLastAttempt
<1>1. RelayInv => ReplyOfLastAttempt
  BY DEF RelayInv, ReplyOfLastAttempt, Stored
<1> QED
  BY <1>1, RelayCorrect, PTL

(* An envelope that was delivered, failed or expired never changes its      *)
(* status again: every handler returns early or requires a live lease.      *)
THEOREM FinalStaysFinal == Spec => FinalIsFinal
<1>1. RelayInv /\ [Next]_vars =>
        [\A m \in Messages : env[m].status \in Final => env'[m].status = env[m].status]_vars
  BY StoreSteps DEF StoreStep
<1> QED
  BY <1>1, RelayCorrect, PTL DEF Spec, FinalIsFinal
-----------------------------------------------------------------------------
(* Whose queue a message has to be in: the receiver's until it answered,    *)
(* then the sender's.                                                       *)
Owed(m, d) ==
    \/ env[m].status \in {"queued", "claimed"} /\ To[m] = d
    \/ env[m].status = "replied" /\ From[m] = d

LEMMA OwedAreQueued ==
    ASSUME TypeOK
    PROVE  EnvelopesQueued <=>
             \A d \in Devices :
                /\ \A m \in Messages : Owed(m, d) => m \in InQueue(d)
                /\ \A m, k \in InQueue(d) : queue[d][m] = queue[d][k] => m = k
BY RelayAssumption DEF EnvelopesQueued, Owed

(* A step that reorders one queue without losing a message owed there, and  *)
(* owes nothing new to another, keeps all envelopes queued.                 *)
Reordering(d, kept, class) ==
    /\ d \in Devices /\ kept \in SUBSET Messages /\ class \in [Messages -> Nat]
    /\ queue' = [queue EXCEPT ![d] = Ordered(d, kept, class)]
    /\ \A m, k \in kept : queue[d][m] = queue[d][k] => m = k \/ class[m] # class[k]
    /\ \A m \in Messages : Owed(m, d)' => m \in kept
    /\ \A m \in Messages, e \in Devices : Owed(m, e)' /\ e # d => Owed(m, e)

LEMMA ReorderedKeeps ==
    ASSUME TypeOK, TypeOK', EnvelopesQueued,
           NEW d, NEW kept, NEW class, Reordering(d, kept, class)
    PROVE  EnvelopesQueued'
<1> USE DEF Reordering
<1>1. queue'[d] = Ordered(d, kept, class) /\ \A e \in Devices : e # d => queue'[e] = queue[e]
  BY DEF TypeOK
<1>2. \A m \in Messages : queue'[d][m] > 0 <=> m \in kept
  BY <1>1, OrderedType
<1>3. \A m, k \in kept : queue'[d][m] = queue'[d][k] => m = k
  BY <1>1, OrderedInjective
<1>4. \A m \in Messages : Owed(m, d)' => m \in InQueue(d)'
  BY <1>2 DEF InQueue
<1>5. \A m, k \in InQueue(d)' : queue'[d][m] = queue'[d][k] => m = k
  BY <1>2, <1>3 DEF InQueue
<1>6. ASSUME NEW e \in Devices, e # d
      PROVE  /\ \A m \in Messages : Owed(m, e)' => m \in InQueue(e)'
             /\ \A m, k \in InQueue(e)' : queue'[e][m] = queue'[e][k] => m = k
  <2>1. InQueue(e)' = InQueue(e) /\ queue'[e] = queue[e]
    BY <1>1, <1>6 DEF InQueue
  <2>2. /\ \A m \in Messages : Owed(m, e) => m \in InQueue(e)
        /\ \A m, k \in InQueue(e) : queue[e][m] = queue[e][k] => m = k
    BY OwedAreQueued
  <2> QED
    BY <1>6, <2>1, <2>2
<1>7. \A e \in Devices :
         /\ \A m \in Messages : Owed(m, e)' => m \in InQueue(e)'
         /\ \A m, k \in InQueue(e)' : queue'[e][m] = queue'[e][k] => m = k
  BY <1>4, <1>5, <1>6
<1> QED
  BY <1>7, RelayAssumption DEF EnvelopesQueued, Owed

(* Where nothing is stored nothing is lost.                                 *)
LEMMA SameQueues ==
    ASSUME EnvelopesQueued, UNCHANGED <<env, queue>>
    PROVE  EnvelopesQueued'
BY DEF EnvelopesQueued, InQueue

(* Appending a message: it and all others are kept.                         *)
LEMMA AppendedKeeps ==
    ASSUME TypeOK, TypeOK', EnvelopesQueued, NEW d \in Devices, NEW n \in Messages,
           queue' = [queue EXCEPT ![d] = ToTail(d, n)],
           \A m \in Messages, e \in Devices :
              Owed(m, e)' => Owed(m, e) \/ (m = n /\ e = d)
    PROVE  EnvelopesQueued'
<1> DEFINE kept == InQueue(d) \cup {n}
           class == [k \in Messages |-> IF k = n THEN 1 ELSE 0]
<1>1. kept \in SUBSET Messages /\ class \in [Messages -> Nat]
  BY DEF InQueue
<1>2. queue' = [queue EXCEPT ![d] = Ordered(d, kept, class)]
  BY DEF ToTail
<1>3. /\ \A m \in Messages : Owed(m, d) => m \in InQueue(d)
      /\ \A m, k \in InQueue(d) : queue[d][m] = queue[d][k] => m = k
  BY OwedAreQueued
<1>4. \A m, k \in kept : queue[d][m] = queue[d][k] => m = k \/ class[m] # class[k]
  BY <1>1, <1>3 DEF InQueue
<1>5. \A m \in Messages : Owed(m, d)' => m \in kept
  BY <1>3
<1>6. \A m \in Messages, e \in Devices : Owed(m, e)' /\ e # d => Owed(m, e)
  OBVIOUS
<1>7. Reordering(d, kept, class)
  BY <1>1, <1>2, <1>4, <1>5, <1>6, Zenon DEF Reordering
<1> HIDE DEF kept, class
<1> QED
  BY <1>7, ReorderedKeeps

LEMMA CreateKeeps ==
    ASSUME TypeOK, TypeOK', EnvelopesQueued, NEW m \in Messages, CreateEnvelope(m)
    PROVE  EnvelopesQueued'
<1>1. env'[m].status = "queued" /\ \A k \in Messages \ {m} : env'[k] = env[k]
  BY DEF CreateEnvelope, TypeOK, Envelope
<1>2. \A k \in Messages, e \in Devices : Owed(k, e)' => Owed(k, e) \/ (k = m /\ e = To[m])
  BY <1>1 DEF Owed
<1>3. queue' = [queue EXCEPT ![To[m]] = ToTail(To[m], m)] /\ To[m] \in Devices
  BY RelayAssumption DEF CreateEnvelope
<1> QED
  BY <1>2, <1>3, AppendedKeeps

(* A reply puts the message into the sender's queue before it owes it there. *)
LEMMA ReplyKeeps ==
    ASSUME TypeOK, TypeOK', EnvelopesQueued, NEW q \in Request, HandleReply(q)
    PROVE  EnvelopesQueued'
<1> DEFINE m == q.msg
<1>0. m \in Messages
  BY DEF Request
<1>1. CASE ~MayReply(q.msg, q.attempt)
  BY <1>1, SameQueues DEF HandleReply
<1>2. CASE MayReply(q.msg, q.attempt)
  <2>1. env'[m].status = "replied" /\ \A k \in Messages \ {m} : env'[k] = env[k]
    BY <1>0, <1>2 DEF HandleReply, TypeOK, Envelope
  <2>2. queue' = [queue EXCEPT ![From[m]] = ToTail(From[m], m)] /\ From[m] \in Devices
    BY <1>0, <1>2, RelayAssumption DEF HandleReply, Requeued
  <2> HIDE DEF m
  <2>3. \A k \in Messages, e \in Devices : Owed(k, e)' => Owed(k, e) \/ (k = m /\ e = From[m])
    BY <1>0, <2>1 DEF Owed
  <2> QED
    BY <1>0, <2>2, <2>3, AppendedKeeps
<1> QED
  BY <1>1, <1>2

(* A completion takes the message out of the receiver's queue, and ends it.  *)
LEMMA CompleteKeeps ==
    ASSUME TypeOK, TypeOK', EnvelopesQueued, NEW q \in Request, q.what \notin Says,
           HandleComplete(q)
    PROVE  EnvelopesQueued'
<1> DEFINE m == q.msg
           d == To[m]
           kept == InQueue(d) \ {m}
           class == [k \in Messages |-> 0]
<1>0. m \in Messages /\ q.what \in Final
  BY DEF Request, Final
<1>1. CASE ~MayComplete(q.msg, q.attempt)
  BY <1>1, SameQueues DEF HandleComplete
<1>2. CASE MayComplete(q.msg, q.attempt)
  <2>1. env'[m].status \in Final /\ \A k \in Messages \ {m} : env'[k] = env[k]
    BY <1>0, <1>2 DEF HandleComplete, TypeOK, Envelope
  <2>2. queue' = [queue EXCEPT ![d] = Ordered(d, kept, class)]
    BY <1>2 DEF HandleComplete, Without
  <2>3. d \in Devices /\ kept \in SUBSET Messages /\ class \in [Messages -> Nat]
    BY <1>0, RelayAssumption DEF InQueue
  <2> HIDE DEF m, d
  <2>4. \A k \in Messages, e \in Devices : Owed(k, e)' => Owed(k, e) /\ k # m
    BY <1>0, <2>1 DEF Owed, Final
  <2>5. /\ \A k \in Messages : Owed(k, d) => k \in InQueue(d)
        /\ \A k, l \in InQueue(d) : queue[d][k] = queue[d][l] => k = l
    BY <2>3, OwedAreQueued
  <2>6. \A k, l \in kept : queue[d][k] = queue[d][l] => k = l \/ class[k] # class[l]
    BY <2>5
  <2>7. \A k \in Messages : Owed(k, d)' => k \in kept
    BY <2>3, <2>4, <2>5
  <2> HIDE DEF kept, class
  <2>8. Reordering(d, kept, class)
    BY <2>2, <2>3, <2>4, <2>6, <2>7, Zenon DEF Reordering
  <2> QED
    BY <2>8, ReorderedKeeps
<1> QED
  BY <1>1, <1>2

(* A claim drops from the queue only what has ended or ends by it.          *)
LEMMA SweepKeeps ==
    ASSUME TypeOK, TypeOK', EnvelopesQueued, NEW d \in Devices, SweepAndClaim(d, Oldest(d))
    PROVE  EnvelopesQueued'
<1> DEFINE chosen == Oldest(d)
           class == [m \in Messages |-> IF m \in chosen THEN 0 ELSE 1]
<1>1. queue' = [queue EXCEPT ![d] = Ordered(d, Kept(d), class)]
  BY DEF SweepAndClaim
<1>2. Kept(d) \in SUBSET Messages /\ class \in [Messages -> Nat]
  BY DEF Kept, InQueue
<1>3. /\ \A m \in Messages : Owed(m, d) => m \in InQueue(d)
      /\ \A m, k \in InQueue(d) : queue[d][m] = queue[d][k] => m = k
  BY OwedAreQueued
<1>4. \A m, k \in Kept(d) : queue[d][m] = queue[d][k] => m = k \/ class[m] # class[k]
  BY <1>3 DEF Kept
<1>5. ASSUME NEW m \in Messages, NEW e \in Devices, Owed(m, e)'
      PROVE  Owed(m, e) /\ (e = d => m \in Kept(d))
  <2>0. env[m] \in Envelope
    BY DEF TypeOK
  <2>1. CASE m \in chosen
    <3>1. m \in Kept(d) /\ Claimable(m, d)
      BY <2>1, OldestIsClaimable
    <3>2. env'[m] = Claimed(m, d)
      BY <2>1 DEF SweepAndClaim
    <3>3. CASE InboundClaimable(m, d)
      <4>1. env'[m].status = "claimed"
        BY <2>0, <3>2, <3>3 DEF Claimed, Envelope
      <4>2. To[m] = e
        BY <1>5, <4>1 DEF Owed
      <4> QED
        BY <3>1, <3>3, <4>2 DEF InboundClaimable, Owed
    <3>4. CASE ~InboundClaimable(m, d)
      <4>1. env'[m].status = env[m].status
        BY <2>0, <3>2, <3>4 DEF Claimed, Envelope
      <4> QED
        BY <1>5, <3>1, <4>1 DEF Owed
    <3> QED
      BY <3>3, <3>4
  <2>2. CASE m \notin chosen /\ (m \in InQueue(d) /\ Lapsed(m))
    <3>1. env'[m].status = "expired"
      BY <2>0, <2>2 DEF SweepAndClaim, Envelope
    <3> QED
      BY <1>5, <3>1 DEF Owed
  <2>3. CASE m \notin chosen /\ ~(m \in InQueue(d) /\ Lapsed(m))
    <3>1. env'[m] = env[m]
      BY <2>3 DEF SweepAndClaim
    <3>2. Owed(m, e) /\ env[m].status \notin Final
      BY <1>5, <3>1 DEF Owed, Final
    <3>3. ASSUME e = d
          PROVE  m \in Kept(d)
      <4>1. m \in InQueue(d)
        BY <1>3, <3>2, <3>3
      <4> QED
        BY <2>3, <3>2, <4>1 DEF Kept, Gone
    <3> QED
      BY <3>2, <3>3
  <2> QED
    BY <2>1, <2>2, <2>3
<1> HIDE DEF class
<1>6. Reordering(d, Kept(d), class)
  BY <1>1, <1>2, <1>4, <1>5, Zenon DEF Reordering
<1> QED
  BY <1>6, ReorderedKeeps

(* Whatever a request does, and whenever it arrives.                        *)
LEMMA HandleKeeps ==
    ASSUME TypeOK, TypeOK', EnvelopesQueued, NEW q \in Request, Handle(q)
    PROVE  EnvelopesQueued'
BY ReplyKeeps, CompleteKeeps DEF Handle

(* Every action of couriers, agents and time.                               *)
LEMMA NextQueued == RelayInv /\ RelayInv' /\ EnvelopesQueued /\ [Next]_vars => EnvelopesQueued'
<1> SUFFICES ASSUME RelayInv, RelayInv', EnvelopesQueued, [Next]_vars
             PROVE  EnvelopesQueued'
  OBVIOUS
<1>0. TypeOK /\ TypeOK'
  BY DEF RelayInv
<1>1. ASSUME NEW m \in Messages, Enqueue(m)
      PROVE  EnvelopesQueued'
  BY <1>0, <1>1, SameQueues, CreateKeeps DEF Enqueue
<1>2. ASSUME NEW m \in Messages, EnqueueRefused(m) \/ NotTeammates(m)
      PROVE  EnvelopesQueued'
  BY <1>2, SameQueues DEF EnqueueRefused, NotTeammates
<1>3. ASSUME NEW m \in Messages, EnqueueLost(m)
      PROVE  EnvelopesQueued'
  BY <1>0, <1>3, SameQueues, CreateKeeps DEF EnqueueLost
<1>4. ASSUME NEW d \in Devices, Claim(d) \/ ClaimLost(d)
      PROVE  EnvelopesQueued'
  BY <1>0, <1>4, SweepKeeps DEF Claim, ClaimLost
<1>5. ASSUME NEW d \in Devices, Post(d)
      PROVE  EnvelopesQueued'
  BY <1>0, <1>5, HandleKeeps, RequestType DEF Post
<1>6. ASSUME NEW d \in Devices,
             \/ Deliver(d) \/ DeliverFails(d) \/ PostTimesOut(d)
             \/ TellReply(d) \/ TellFails(d) \/ Crash(d)
      PROVE  EnvelopesQueued'
  BY <1>6, SameQueues DEF Deliver, DeliverFails, PostTimesOut, TellReply, TellFails, Crash
<1>7. ASSUME NEW q \in late, LateArrives(q)
      PROVE  EnvelopesQueued'
  BY <1>0, <1>7, HandleKeeps DEF LateArrives, TypeOK
<1>8. CASE Tick \/ UNCHANGED vars
  BY <1>8, SameQueues DEF Tick, vars
<1> QED
  BY <1>1, <1>2, <1>3, <1>4, <1>5, <1>6, <1>7, <1>8 DEF Next, CourierStep

(* No envelope is forgotten: whoever has to go on with one has it in its    *)
(* queue, through claims, sweeps, replies, completions and their delays.    *)
THEOREM EnvelopesStayQueued == Spec => []EnvelopesQueued
<1>1. Init => EnvelopesQueued
  BY RelayAssumption DEF Init, EnvelopesQueued, InQueue, NoEnvelope
<1> QED
  BY <1>1, NextQueued, RelayCorrect, PTL DEF Spec
-----------------------------------------------------------------------------
(* The refinement.  What a step may make of an envelope: leave it alone, as *)
(* far as the sender can tell, or move it on by one stage.                  *)
Shown(e, f) ==
    /\ f.status = e.status /\ f.attempt = e.attempt
    /\ e.status \in Final => f.by = e.by /\ (f.reply = "none" <=> e.reply = "none")
Turn(e, f) ==
    \/ Shown(e, f)
    \/ e.status = "none" /\ f.status = "queued" /\ f.attempt = e.attempt
    \/ e.status \in {"queued", "claimed"} /\ f.status = "claimed" /\ f.attempt = e.attempt + 1
    \/ /\ e.status \in {"claimed", "replied"} /\ f.attempt = e.attempt
       /\ f.status \in {"replied", "delivered", "failed"}
    \/ /\ e.status \in {"queued", "claimed", "replied"} /\ f.attempt = e.attempt
       /\ f.status = "expired"

(* An envelope that is leased was claimed, and one that a queue holds was   *)
(* enqueued.                                                                *)
LeaseInv ==
    \A m \in Messages :
        /\ env[m].status \in {"claimed", "replied"} => env[m].attempt > 0
        /\ \A d \in Devices : m \in InQueue(d) => env[m].status # "none"

TurnStep ==
    \A m \in Messages :
        /\ Turn(env[m], env'[m])
        /\ \A d \in Devices : m \in InQueue(d)' => m \in InQueue(d) \/ env'[m].status # "none"

LEMMA SameTurns ==
    ASSUME UNCHANGED <<env, queue>>
    PROVE  TurnStep
BY DEF TurnStep, Turn, Shown, InQueue

(* A step that replaces one envelope and reorders one queue.                *)
LEMMA OneTurns ==
    ASSUME RelayInv, NEW m \in Messages, NEW e, Turn(env[m], e),
           NEW d \in Devices, NEW kept \in SUBSET Messages, NEW class,
           kept \subseteq InQueue(d) \cup {m}, e.status # "none",
           env' = [env EXCEPT ![m] = e],
           queue' = [queue EXCEPT ![d] = Ordered(d, kept, class)]
    PROVE  TurnStep
<1>1. env \in [Messages -> Envelope] /\ queue \in [Devices -> [Messages -> Nat]]
  BY DEF RelayInv, TypeOK
<1>2. \A k \in Messages : Turn(env[k], env'[k])
  BY <1>1 DEF Turn, Shown
<1>3. ASSUME NEW k \in Messages, NEW c \in Devices, k \in InQueue(c)'
      PROVE  k \in InQueue(c) \/ env'[k].status # "none"
  <2>1. CASE c = d
    <3>1. queue'[c] = Ordered(d, kept, class)
      BY <1>1, <2>1
    <3>2. k \in kept
      BY <1>3, <3>1, OrderedType DEF InQueue
    <3> QED
      BY <1>1, <2>1, <3>2
  <2>2. CASE c # d
    BY <1>1, <1>3, <2>2 DEF InQueue
  <2> QED
    BY <2>1, <2>2
<1> QED
  BY <1>2, <1>3 DEF TurnStep

LEMMA CreateTurns ==
    ASSUME RelayInv, NEW m \in Messages, env[m].status = "none", CreateEnvelope(m)
    PROVE  TurnStep
<1> DEFINE e == [env[m] EXCEPT !.status = "queued", !.ttl = now + TTL]
           kept == InQueue(To[m]) \cup {m}
           class == [k \in Messages |-> IF k = m THEN 1 ELSE 0]
<1>1. env \in [Messages -> Envelope] /\ env[m] \in Envelope
  BY DEF RelayInv, TypeOK
<1>2. env' = [env EXCEPT ![m] = e] /\ e.status = "queued" /\ e.attempt = env[m].attempt
  BY <1>1 DEF CreateEnvelope, Envelope
<1>3. Turn(env[m], e) /\ e.status # "none"
  BY <1>2 DEF Turn
<1>4. queue' = [queue EXCEPT ![To[m]] = Ordered(To[m], kept, class)]
  BY DEF CreateEnvelope, ToTail
<1>5. kept \in SUBSET Messages /\ kept \subseteq InQueue(To[m]) \cup {m} /\ To[m] \in Devices
  BY RelayAssumption DEF InQueue
<1> HIDE DEF e, kept, class
<1> QED
  BY <1>2, <1>3, <1>4, <1>5, OneTurns

LEMMA HandleTurns ==
    ASSUME RelayInv, NEW q \in Request, Handle(q)
    PROVE  TurnStep
<1> DEFINE m == q.msg
           r == [env[m] EXCEPT !.status = "replied", !.reply = "queued",
                               !.says = q.what, !.by = q.attempt]
           e == [env[m] EXCEPT !.status = q.what,
                               !.reply = IF @ = "none" THEN "none" ELSE "delivered"]
<1>1. /\ m \in Messages /\ env \in [Messages -> Envelope] /\ env[m] \in Envelope
      /\ From[m] \in Devices /\ To[m] \in Devices
  BY RelayAssumption DEF RelayInv, TypeOK, Request
<1>2. CASE q.what \in Says /\ MayReply(q.msg, q.attempt)
  <2> DEFINE kept == InQueue(From[m]) \cup {m}
             class == [k \in Messages |-> IF k = m THEN 1 ELSE 0]
  <2>1. /\ env[m].status \in {"claimed", "replied"}
        /\ r.status = "replied" /\ r.attempt = env[m].attempt
    BY <1>1, <1>2 DEF MayReply, LiveLease, Envelope
  <2>2. env' = [env EXCEPT ![m] = r]
    BY <1>1, <1>2 DEF Handle, HandleReply
  <2>3. queue' = [queue EXCEPT ![From[m]] = Ordered(From[m], kept, class)]
    BY <1>2 DEF Handle, HandleReply, Requeued, ToTail
  <2>4. kept \in SUBSET Messages /\ kept \subseteq InQueue(From[m]) \cup {m}
    BY <1>1 DEF InQueue
  <2>5. Turn(env[m], r) /\ r.status # "none"
    BY <2>1 DEF Turn
  <2> HIDE DEF m, r, kept, class
  <2> QED
    BY <1>1, <2>2, <2>3, <2>4, <2>5, OneTurns
<1>3. CASE q.what \notin Says /\ MayComplete(q.msg, q.attempt)
  <2> DEFINE kept == InQueue(To[m]) \ {m}
             class == [k \in Messages |-> 0]
  <2>0. q.what \in {"delivered", "failed"}
    BY <1>3 DEF Request
  <2>1. /\ env[m].status \in {"claimed", "replied"}
        /\ e.status = q.what /\ e.attempt = env[m].attempt
    BY <1>1, <1>3 DEF MayComplete, LiveLease, Envelope
  <2>2. env' = [env EXCEPT ![m] = e]
    BY <1>1, <1>3 DEF Handle, HandleComplete
  <2>3. queue' = [queue EXCEPT ![To[m]] = Ordered(To[m], kept, class)]
    BY <1>3 DEF Handle, HandleComplete, Without
  <2>4. kept \in SUBSET Messages /\ kept \subseteq InQueue(To[m]) \cup {m}
    BY DEF InQueue
  <2>5. Turn(env[m], e) /\ e.status # "none"
    BY <2>0, <2>1 DEF Turn
  <2> HIDE DEF m, e, kept, class
  <2> QED
    BY <1>1, <2>2, <2>3, <2>4, <2>5, OneTurns
<1>4. CASE UNCHANGED <<env, queue>>
  BY <1>4, SameTurns
<1> QED
  BY <1>2, <1>3, <1>4 DEF Handle, HandleReply, HandleComplete

(* A claim leases the envelope it chooses, and ends those whose time is over.*)
LEMMA SweepTurns ==
    ASSUME RelayInv, LeaseInv, NEW d \in Devices, SweepAndClaim(d, Oldest(d))
    PROVE  TurnStep
<1> DEFINE chosen == Oldest(d)
           class == [m \in Messages |-> IF m \in chosen THEN 0 ELSE 1]
<1>1. env \in [Messages -> Envelope] /\ queue \in [Devices -> [Messages -> Nat]]
  BY DEF RelayInv, TypeOK
<1>2. /\ queue' = [queue EXCEPT ![d] = Ordered(d, Kept(d), class)]
      /\ Kept(d) \in SUBSET Messages /\ Kept(d) \subseteq InQueue(d)
  BY DEF SweepAndClaim, Kept, InQueue
<1>3. ASSUME NEW m \in Messages, NEW c \in Devices, m \in InQueue(c)'
      PROVE  m \in InQueue(c)
  <2> HIDE DEF class
  <2>1. CASE c = d
    <3>1. queue'[c] = Ordered(d, Kept(d), class)
      BY <1>1, <1>2, <2>1
    <3>2. m \in Kept(d)
      BY <1>2, <1>3, <3>1, OrderedType DEF InQueue
    <3> QED
      BY <1>2, <2>1, <3>2
  <2>2. CASE c # d
    BY <1>1, <1>2, <1>3, <2>2 DEF InQueue
  <2> QED
    BY <2>1, <2>2
<1>4. ASSUME NEW m \in Messages
      PROVE  Turn(env[m], env'[m])
  <2>0. env[m] \in Envelope /\ Stored(env[m])
    BY <1>1, <1>4 DEF RelayInv
  <2>1. CASE m \in chosen
    <3>1. env'[m] = Claimed(m, d) /\ Claimable(m, d)
      BY <1>4, <2>1, OldestIsClaimable DEF SweepAndClaim
    <3>2. CASE InboundClaimable(m, d)
      <4>1. env'[m].status = "claimed" /\ env'[m].attempt = env[m].attempt + 1
        BY <2>0, <3>1, <3>2 DEF Claimed, Envelope
      <4> QED
        BY <3>2, <4>1 DEF Turn, InboundClaimable
    <3>3. CASE ~InboundClaimable(m, d)
      <4>1. env'[m] = [env[m] EXCEPT !.reply = "claimed"] /\ env[m].reply # "none"
        BY <3>1, <3>3 DEF Claimed, Claimable, ReplyClaimable
      <4>2. Shown(env[m], env'[m])
        BY <2>0, <4>1 DEF Envelope, Shown
      <4> QED
        BY <4>2 DEF Turn
    <3> QED
      BY <3>2, <3>3
  <2>2. CASE m \notin chosen /\ (m \in InQueue(d) /\ Lapsed(m))
    <3>1. /\ env'[m] = [env[m] EXCEPT !.status = "expired"] /\ env[m].status \notin Final
          /\ m \in InQueue(d)
      BY <1>4, <2>2 DEF SweepAndClaim, Lapsed
    <3>2. env[m].status \in {"queued", "claimed", "replied"}
      BY <2>0, <3>1 DEF LeaseInv, Envelope
    <3>3. env'[m].status = "expired" /\ env'[m].attempt = env[m].attempt
      BY <2>0, <3>1 DEF Envelope
    <3> QED
      BY <3>2, <3>3 DEF Turn
  <2>3. CASE m \notin chosen /\ ~(m \in InQueue(d) /\ Lapsed(m))
    <3>1. env'[m] = env[m]
      BY <1>4, <2>3 DEF SweepAndClaim
    <3> QED
      BY <3>1 DEF Turn, Shown
  <2> QED
    BY <2>1, <2>2, <2>3
<1> QED
  BY <1>3, <1>4 DEF TurnStep

LEMMA TurnSteps == RelayInv /\ LeaseInv /\ [Next]_vars => TurnStep
<1> SUFFICES ASSUME RelayInv, LeaseInv, [Next]_vars
             PROVE  TurnStep
  OBVIOUS
<1>1. ASSUME NEW m \in Messages, Enqueue(m) \/ EnqueueLost(m)
      PROVE  TurnStep
  BY <1>1, SameTurns, CreateTurns DEF Enqueue, EnqueueLost
<1>2. ASSUME NEW m \in Messages, EnqueueRefused(m) \/ NotTeammates(m)
      PROVE  TurnStep
  BY <1>2, SameTurns DEF EnqueueRefused, NotTeammates
<1>3. ASSUME NEW d \in Devices, Claim(d) \/ ClaimLost(d)
      PROVE  TurnStep
  BY <1>3, SweepTurns DEF Claim, ClaimLost
<1>4. ASSUME NEW d \in Devices, Post(d)
      PROVE  TurnStep
  BY <1>4, HandleTurns, RequestType DEF Post
<1>5. ASSUME NEW d \in Devices,
             \/ Deliver(d) \/ DeliverFails(d) \/ PostTimesOut(d)
             \/ TellReply(d) \/ TellFails(d) \/ Crash(d)
      PROVE  TurnStep
  BY <1>5, SameTurns DEF Deliver, DeliverFails, PostTimesOut, TellReply, TellFails, Crash
<1>6. ASSUME NEW q \in late, LateArrives(q)
      PROVE  TurnStep
  BY <1>6, HandleTurns DEF LateArrives, RelayInv, TypeOK
<1>7. CASE Tick \/ UNCHANGED vars
  BY <1>7, SameTurns DEF Tick, vars
<1> QED
  BY <1>1, <1>2, <1>3, <1>4, <1>5, <1>6, <1>7 DEF Next, CourierStep

LEMMA LeaseSteps == RelayInv /\ LeaseInv /\ [Next]_vars => LeaseInv'
<1> SUFFICES ASSUME RelayInv, LeaseInv, TurnStep, NEW m \in Messages
             PROVE  /\ env'[m].status \in {"claimed", "replied"} => env'[m].attempt > 0
                    /\ \A d \in Devices : m \in InQueue(d)' => env'[m].status # "none"
  BY TurnSteps DEF LeaseInv
<1> DEFINE e == env[m]
           f == env'[m]
<1>1. e.attempt \in Nat /\ Turn(e, f)
  BY DEF RelayInv, TypeOK, Envelope, TurnStep
<1>2. e.status \in {"claimed", "replied"} => e.attempt > 0
  BY DEF LeaseInv
<1> HIDE DEF e, f
<1>3. f.status \in {"claimed", "replied"} => f.attempt > 0
  BY <1>1, <1>2 DEF Turn, Shown
<1>4. e.status # "none" => f.status # "none"
  BY <1>1 DEF Turn, Shown
<1> QED
  BY <1>3, <1>4 DEF LeaseInv, TurnStep, e, f

-----------------------------------------------------------------------------
(* An envelope in the stages of the contract.                               *)
Stages == INSTANCE RunContractProofs
              WITH Runs <- Messages, run <- [m \in Messages |-> WorkOf(env[m])]

LEMMA StageOfEnvelope ==
    ASSUME NEW e \in Envelope, Stored(e)
    PROVE  /\ e.status = "none" => WorkOf(e) = Stages!Idle(e.attempt)
           /\ e.status = "queued" => WorkOf(e) = Stages!Waiting(e.attempt)
           /\ e.status \in {"claimed", "replied"} => WorkOf(e) = Stages!Held(e.attempt)
           /\ e.status = "expired" => WorkOf(e) = Stages!GivenUp(e.attempt)
           /\ e.status = "delivered" => WorkOf(e) = Stages!Answered(e.attempt, "completed")
           /\ e.status = "failed" => WorkOf(e) = Stages!Answered(e.attempt, "failed")
BY DEF Stored, WorkOf, Phase, Holder, AnsweredBy, View, Final, Stages!RunRecord, Stages!Idle,
   Stages!Waiting, Stages!Held, Stages!GivenUp, Stages!Answered

LEMMA TurnMoves ==
    ASSUME NEW e \in Envelope, NEW f \in Envelope, Stored(e), Stored(f), Turn(e, f),
           e.status \in {"claimed", "replied"} => e.attempt > 0
    PROVE  WorkOf(f) = WorkOf(e) \/ Contract!Move(WorkOf(e), WorkOf(f))
<1>0. e.attempt \in Nat
  BY DEF Envelope
<1>m. \A old, new : Stages!Move(old, new) => Contract!Move(old, new)
  BY DEF Stages!Move, Stages!Submit, Stages!Grant, Stages!Release, Stages!Answer,
         Stages!GiveUp, Stages!NoAttempt, Contract!Move, Contract!Submit,
         Contract!Grant, Contract!Release, Contract!Answer, Contract!GiveUp, Contract!NoAttempt
<1>1. CASE Shown(e, f)
  BY <1>1 DEF Shown, WorkOf, Phase, Holder, AnsweredBy, View, Final
<1>2. CASE e.status = "none" /\ f.status = "queued" /\ f.attempt = e.attempt
  BY <1>0, <1>2, <1>m, StageOfEnvelope, Stages!StageMoves
<1>3. CASE /\ e.status \in {"queued", "claimed"} /\ f.status = "claimed"
           /\ f.attempt = e.attempt + 1
  BY <1>0, <1>3, <1>m, StageOfEnvelope, Stages!StageMoves
<1>4. CASE /\ e.status \in {"claimed", "replied"} /\ f.attempt = e.attempt
           /\ f.status \in {"replied", "delivered", "failed"}
  <2>1. WorkOf(e) = Stages!Held(e.attempt) /\ e.attempt > 0
    BY <1>4, StageOfEnvelope
  <2>2. \/ WorkOf(f) = Stages!Held(e.attempt)
        \/ \E v \in {"completed", "failed"} : WorkOf(f) = Stages!Answered(e.attempt, v)
    BY <1>4, StageOfEnvelope
  <2> QED
    BY <1>0, <1>m, <2>1, <2>2, Stages!StageMoves
<1>5. CASE /\ e.status \in {"queued", "claimed", "replied"} /\ f.attempt = e.attempt
           /\ f.status = "expired"
  BY <1>0, <1>5, <1>m, StageOfEnvelope, Stages!StageMoves
<1> QED
  BY <1>1, <1>2, <1>3, <1>4, <1>5 DEF Turn

(* The relay keeps the promises of RunContract (relay-queue.ts): whatever   *)
(* is lost, late or restarted, an envelope is enqueued once, leased to ever *)
(* later attempts, completed only by the attempt that holds the lease and   *)
(* whose reply is stored, and never changed after its end.                  *)
THEOREM RelayImplementsContract == Spec => ImplementsContract
<1>1. Init => LeaseInv /\ Contract!Init
  <2>1. Init => LeaseInv
    BY DEF Init, LeaseInv, NoEnvelope, InQueue
  <2>2. Init => Contract!Init
    BY DEF Init, NoEnvelope, Contract!Init, Contract!Fresh, Contract!NoAttempt, WorkOf, Phase,
       Holder, AnsweredBy, View, Final
  <2> QED
    BY <2>1, <2>2
<1>2. RelayInv /\ LeaseInv /\ [Next]_vars => LeaseInv'
  BY LeaseSteps
<1>3. RelayInv /\ RelayInv' /\ LeaseInv /\ [Next]_vars
        => [Contract!Next]_[m \in Messages |-> WorkOf(env[m])]
  <2> SUFFICES ASSUME RelayInv, RelayInv', LeaseInv, [Next]_vars
               PROVE  Contract!Next
    OBVIOUS
  <2>1. ASSUME NEW m \in Messages
        PROVE  \/ WorkOf(env'[m]) = WorkOf(env[m])
               \/ Contract!Move(WorkOf(env[m]), WorkOf(env'[m]))
    <3>1. /\ env[m] \in Envelope /\ Stored(env[m]) /\ env'[m] \in Envelope /\ Stored(env'[m])
      BY DEF RelayInv, TypeOK
    <3>2. Turn(env[m], env'[m]) /\ (env[m].status \in {"claimed", "replied"} => env[m].attempt > 0)
      BY TurnSteps DEF TurnStep, LeaseInv
    <3> QED
      BY <3>1, <3>2, TurnMoves
  <2> QED
    BY <2>1 DEF Contract!Next
<1> QED
  BY <1>1, <1>2, <1>3, RelayCorrect, PTL DEF Spec, ImplementsContract, Contract!Spec
=============================================================================
