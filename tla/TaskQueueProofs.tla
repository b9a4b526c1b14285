--------------------------- MODULE TaskQueueProofs ---------------------------
(* Theorems about TaskQueue, for any workers, tasks, limits and bounds.    *)
EXTENDS TaskQueue, FiniteSetTheorems, TLAPS

Messages == [entry : Entries, count : 0..RetryLimit]
PelRecords == [owner : Workers \cup {"none"}, count : 0..RetryLimit, stale : BOOLEAN]

-----------------------------------------------------------------------------
(* The helpers.                                                            *)

LEMMA BumpType ==
  ASSUME NEW n \in 0..RetryLimit
  PROVE  Bump(n) \in 1..RetryLimit
  BY LimitAssumption DEF Bump

LEMMA NotPendingType == NotPending \in PelRecords /\ NotPending.count = 0
  BY LimitAssumption DEF NotPending, PelRecords

LEMMA FirstStaleType ==
  ASSUME NEW ids \in FirstStale
  PROVE  ids \in Seq(Entries) /\ ids # <<>> /\ \A k \in DOMAIN ids : Pending(ids[k])
<1>1. PICK n \in 1..BatchSize : ids \in [1..n -> Stale]
  BY DEF FirstStale
<1>2. n \in Nat /\ DOMAIN ids = 1..n /\ n > 0
  BY <1>1, LimitAssumption
<1>3. ids \in Seq(Entries) /\ Len(ids) = n
  BY <1>1, <1>2 DEF Stale
<1> QED
  BY <1>1, <1>2, <1>3 DEF Stale

-----------------------------------------------------------------------------
(* What GoOn and Deliver do to a worker and to the group.                  *)

WorkerTypes ==
  /\ known \in [Workers -> SUBSET Tasks]
  /\ batch \in [Workers -> Seq(Messages)]
  /\ turn \in [Workers -> {"claim", "receive"}]
  /\ step \in [Workers -> {"down", "call", "counting", "working", "acking", "burying"}]

LEMMA GoOnType ==
  ASSUME WorkerTypes, NEW w \in Workers, NEW rest \in Seq(Messages), GoOn(w, rest)
  PROVE  WorkerTypes'
<1>1. turn' \in [Workers -> {"claim", "receive"}]
  BY DEF GoOn, WorkerTypes, Other
<1> QED
  BY <1>1 DEF GoOn, WorkerTypes

LEMMA DeliverType ==
  ASSUME WorkerTypes, pel \in [Entries -> PelRecords], NEW w \in Workers,
         NEW ids \in Seq(Entries), Deliver(w, ids)
  PROVE  /\ WorkerTypes'
         /\ pel' \in [Entries -> PelRecords]
         /\ \A i \in Entries : Pending(i)' <=> Pending(i) \/ \E k \in DOMAIN ids : ids[k] = i
         /\ batch' = [batch EXCEPT ![w] = [k \in DOMAIN ids |-> [entry |-> ids[k], count |-> 0]]]
         /\ step' = [step EXCEPT ![w] = "counting"]
<1> DEFINE new == [k \in DOMAIN ids |-> [entry |-> ids[k], count |-> 0]]
<1>1. new \in Seq(Messages)
  <2>1. DOMAIN ids = 1..Len(ids) /\ Len(ids) \in Nat /\ \A k \in DOMAIN ids : ids[k] \in Entries
    OBVIOUS
  <2>2. 0 \in 0..RetryLimit
    BY LimitAssumption
  <2>3. \A k \in 1..Len(ids) : [entry |-> ids[k], count |-> 0] \in Messages
    BY <2>1, <2>2 DEF Messages
  <2> QED
    BY <2>1, <2>3
<1>2. batch' = [batch EXCEPT ![w] = new]
  BY DEF Deliver, Hand
<1> HIDE DEF new
<1>3. WorkerTypes'
  BY <1>1, <1>2 DEF WorkerTypes, Deliver, Hand
<1>4. \A i \in Entries : Bump(pel[i].count) \in 1..RetryLimit /\ pel[i].count \in 0..RetryLimit
  BY BumpType DEF PelRecords
<1>5. \A i \in Entries :
        pel'[i] = IF \E k \in DOMAIN ids : ids[k] = i
                  THEN [owner |-> w, count |-> Bump(pel[i].count), stale |-> FALSE]
                  ELSE pel[i]
  BY DEF Deliver, Hand
<1>6. \A i \in Entries :
        [owner |-> w, count |-> Bump(pel[i].count), stale |-> FALSE] \in PelRecords
  BY <1>4 DEF PelRecords
<1>7. pel' \in [Entries -> PelRecords]
  BY <1>6 DEF Deliver, Hand
<1>8. \A i \in Entries : Pending(i)' <=> Pending(i) \/ \E k \in DOMAIN ids : ids[k] = i
  <2> SUFFICES ASSUME NEW i \in Entries
               PROVE  Pending(i)' <=> Pending(i) \/ \E k \in DOMAIN ids : ids[k] = i
    OBVIOUS
  <2>1. CASE \E k \in DOMAIN ids : ids[k] = i
    <3>1. pel'[i] = [owner |-> w, count |-> Bump(pel[i].count), stale |-> FALSE]
      BY <1>5, <2>1
    <3>2. pel'[i].count > 0
      BY <1>4, <3>1
    <3> QED
      BY <2>1, <3>2 DEF Pending
  <2>2. CASE ~ \E k \in DOMAIN ids : ids[k] = i
    BY <1>5, <2>2 DEF Pending
  <2> QED
    BY <2>1, <2>2
<1> QED
  BY <1>2, <1>3, <1>7, <1>8 DEF Deliver, Hand, new

LEMMA UnpendType ==
  ASSUME pel \in [Entries -> PelRecords], NEW i \in Entries, Unpend(i)
  PROVE  pel' \in [Entries -> PelRecords] /\ \A j \in Entries \ {i} : Pending(j)' <=> Pending(j)
<1> HIDE DEF NotPending
<1>1. pel' = [pel EXCEPT ![i] = NotPending]
  BY DEF Unpend
<1>2. pel' \in [Entries -> PelRecords]
  BY <1>1, NotPendingType
<1>3. \A j \in Entries \ {i} : pel'[j] = pel[j]
  BY <1>1
<1> QED
  BY <1>2, <1>3 DEF Pending

-----------------------------------------------------------------------------
(* The inductive invariant.                                                *)

RedisTypes ==
  /\ stream \in Seq(Tasks) /\ Len(stream) <= MaxEntries
  /\ delivered \in 0..Len(stream)
  /\ pel \in [Entries -> PelRecords]
  /\ dead \in Seq(Tasks)
  /\ removed \in SUBSET (1..Len(dead))

OtherTypes ==
  /\ stored \in SUBSET Tasks /\ offered \in SUBSET Tasks
  /\ done \in SUBSET Tasks /\ disturbed \in SUBSET Tasks
  /\ reading \in [Admins -> 0..Len(dead)]
  /\ faults \in 0..MaxFaults
  /\ tried \in [Entries -> 0..RetryLimit]

LEMMA Types == TypeOK <=> WorkerTypes /\ RedisTypes /\ OtherTypes
  BY DEF TypeOK, WorkerTypes, RedisTypes, OtherTypes, Messages, PelRecords

Busy(w) == step[w] \in {"working", "acking", "burying"}

\* What w holds was delivered, and what it is about to acknowledge is done.
Holds(w) ==
  /\ \A k \in 1..Len(batch[w]) : batch[w][k].entry <= delivered
  /\ Busy(w) => batch[w] # <<>>
  /\ step[w] = "acking" => TaskOf(w) \in done

PendingDelivered == \A i \in Entries : Pending(i) => i <= delivered

QInv ==
  /\ WorkerTypes /\ RedisTypes /\ OtherTypes
  /\ PendingDelivered
  /\ \A w \in Workers : Holds(w)
  /\ NothingIsLost

Safe(t) == t \in done \/ Waiting(t) \/ Buried(t)

LEMMA Initially == Init => QInv
<1> SUFFICES ASSUME Init PROVE QInv
  OBVIOUS
<1> USE LimitAssumption, BoundAssumption
<1>1. WorkerTypes
  BY DEF Init, WorkerTypes
<1>2. RedisTypes /\ OtherTypes
  BY NotPendingType DEF Init, RedisTypes, OtherTypes
<1> QED
  BY <1>1, <1>2, NotPendingType
     DEF Init, QInv, Holds, Busy, Pending, PendingDelivered, NothingIsLost

-----------------------------------------------------------------------------
(* What a worker holds.                                                    *)

\* A message a busy worker is at was delivered.
LEMMA MessageDelivered ==
  ASSUME WorkerTypes, RedisTypes, NEW w \in Workers, Holds(w), Busy(w)
  PROVE  /\ Message(w) \in Messages /\ Message(w).entry \in 1..delivered
         /\ TaskOf(w) \in Tasks
         /\ Tail(batch[w]) \in Seq(Messages)
         /\ \A k \in 1..Len(Tail(batch[w])) : Tail(batch[w])[k].entry <= delivered
<1>1. batch[w] \in Seq(Messages) /\ batch[w] # <<>>
  BY DEF Holds, WorkerTypes
<1>2. Message(w) \in Messages /\ Message(w) = batch[w][1] /\ 1 \in 1..Len(batch[w])
  BY <1>1 DEF Message
<1>3. Message(w).entry \in 1..delivered
  BY <1>2, BoundAssumption DEF Holds, Messages, Entries, RedisTypes
<1>4. TaskOf(w) \in Tasks
  BY <1>3 DEF TaskOf, RedisTypes
<1>5. \A k \in 1..Len(Tail(batch[w])) :
        k + 1 \in 1..Len(batch[w]) /\ Tail(batch[w])[k] = batch[w][k + 1]
  BY <1>1
<1> QED
  BY <1>1, <1>2, <1>3, <1>4, <1>5 DEF Holds

\* What a worker holds are tasks.
LEMMA HeldType ==
  ASSUME WorkerTypes, RedisTypes, NEW w \in Workers, Holds(w)
  PROVE  Held(w) \subseteq Tasks
<1>1. batch[w] \in Seq(Messages) /\ DOMAIN batch[w] = 1..Len(batch[w])
  BY DEF WorkerTypes
<1>2. ASSUME NEW k \in DOMAIN batch[w]
      PROVE  stream[batch[w][k].entry] \in Tasks
  <2>1. batch[w][k] \in Messages /\ batch[w][k].entry <= delivered
    BY <1>1 DEF Holds
  <2>2. batch[w][k].entry \in 1..Len(stream)
    BY <2>1, BoundAssumption DEF Messages, Entries, RedisTypes
  <2> QED
    BY <2>2 DEF RedisTypes
<1> QED
  BY <1>2 DEF Held

\* A worker that does not move keeps what it holds.
LEMMA Still ==
  ASSUME WorkerTypes, RedisTypes, NEW w \in Workers, Holds(w),
         batch'[w] = batch[w], step'[w] = step[w],
         done \subseteq done', delivered' \in Nat, delivered <= delivered',
         \A i \in 1..Len(stream) : stream'[i] = stream[i]
  PROVE  Holds(w)'
<1>1. \A k \in 1..Len(batch[w]) : batch[w][k].entry <= delivered'
  <2>1. batch[w] \in Seq(Messages) /\ delivered \in Nat
    BY DEF WorkerTypes, RedisTypes
  <2> SUFFICES ASSUME NEW k \in 1..Len(batch[w])
               PROVE  batch[w][k].entry <= delivered'
    OBVIOUS
  <2>2. batch[w][k] \in Messages /\ batch[w][k].entry <= delivered
    BY <2>1 DEF Holds
  <2>3. batch[w][k].entry \in Nat
    BY <2>2 DEF Messages, Entries
  <2> QED
    BY <2>1, <2>2, <2>3
<1>2. CASE step[w] = "acking"
  <2>1. Message(w).entry \in 1..delivered
    BY <1>2, MessageDelivered DEF Busy
  <2>2. TaskOf(w)' = TaskOf(w)
    BY <2>1 DEF TaskOf, Message, RedisTypes
  <2> QED
    BY <1>1, <1>2, <2>2 DEF Holds, Busy
<1>3. CASE step[w] # "acking"
  BY <1>1, <1>3 DEF Holds, Busy
<1> QED
  BY <1>2, <1>3

\* A worker that goes on with messages that were delivered
LEMMA Going ==
  ASSUME WorkerTypes, RedisTypes, NEW w \in Workers, NEW rest \in Seq(Messages),
         \A v \in Workers : Holds(v),
         \A k \in 1..Len(rest) : rest[k].entry <= delivered,
         GoOn(w, rest), UNCHANGED <<stream, delivered>>, done \subseteq done'
  PROVE  WorkerTypes' /\ \A v \in Workers : Holds(v)'
<1>1. WorkerTypes'
  BY GoOnType
<1>2. batch'[w] = rest /\ step'[w] = IF rest = <<>> THEN "call" ELSE "working"
  BY DEF GoOn, WorkerTypes
<1>3. Holds(w)'
  BY <1>2 DEF Holds, Busy
<1>4. ASSUME NEW v \in Workers, v # w
      PROVE  Holds(v)'
  <2>1. batch'[v] = batch[v] /\ step'[v] = step[v]
    BY <1>4 DEF GoOn, WorkerTypes
  <2> QED
    BY <2>1, Still DEF RedisTypes
<1> QED
  BY <1>1, <1>3, <1>4

\* A worker that is handed entries that were delivered
LEMMA Handed ==
  ASSUME WorkerTypes, RedisTypes, NEW w \in Workers, NEW ids \in Seq(Entries),
         \A v \in Workers : Holds(v),
         delivered' \in Nat, delivered <= delivered',
         \A k \in DOMAIN ids : ids[k] <= delivered',
         Deliver(w, ids), UNCHANGED <<stream, done>>
  PROVE  \A v \in Workers : Holds(v)'
<1> DEFINE new == [k \in DOMAIN ids |-> [entry |-> ids[k], count |-> 0]]
<1>1. batch' = [batch EXCEPT ![w] = new] /\ step' = [step EXCEPT ![w] = "counting"]
  BY DEF Deliver, Hand
<1>2. DOMAIN ids = 1..Len(ids) /\ Len(ids) \in Nat
  OBVIOUS
<1>3. Len(new) = Len(ids) /\ \A k \in 1..Len(new) : new[k].entry <= delivered'
  BY <1>2
<1> HIDE DEF new
<1>4. Holds(w)'
  BY <1>1, <1>3 DEF Holds, Busy, WorkerTypes
<1>5. ASSUME NEW v \in Workers, v # w
      PROVE  Holds(v)'
  <2>1. batch'[v] = batch[v] /\ step'[v] = step[v]
    BY <1>1, <1>5 DEF WorkerTypes
  <2> QED
    BY <2>1, Still
<1> QED
  BY <1>4, <1>5

-----------------------------------------------------------------------------
(* What is safe stays safe.                                                *)

\* The stream as it was
LEMMA SameStream ==
  ASSUME RedisTypes, NothingIsLost, stream' = stream,
         \A t \in Tasks : Safe(t) => Safe(t)'
  PROVE  NothingIsLost'
<1>1. \A i \in 1..Len(stream) : stream[i] \in Tasks /\ Safe(stream[i])
  BY DEF RedisTypes, NothingIsLost, Safe
<1>2. \A i \in 1..Len(stream) : Safe(stream[i])'
  BY <1>1
<1> QED
  BY <1>2 DEF NothingIsLost, Safe

\* One more entry
LEMMA LongerStream ==
  ASSUME RedisTypes, NothingIsLost, NEW x \in Tasks, stream' = Append(stream, x),
         UNCHANGED delivered, \A t \in Tasks : Safe(t) => Safe(t)'
  PROVE  NothingIsLost'
<1>1. \A i \in 1..Len(stream) : stream[i] \in Tasks /\ Safe(stream[i])
  BY DEF RedisTypes, NothingIsLost, Safe
<1>2. \A i \in 1..Len(stream) : stream'[i] = stream[i] /\ Safe(stream[i])'
  BY <1>1 DEF RedisTypes
<1>3. /\ Len(stream') = Len(stream) + 1 /\ stream'[Len(stream) + 1] = x
      /\ Len(stream) + 1 > delivered'
  BY DEF RedisTypes
<1>4. Waiting(x)'
  BY <1>3 DEF Waiting, Living, RedisTypes
<1>5. \A i \in 1..Len(stream') : i \in 1..Len(stream) \/ i = Len(stream) + 1
  BY <1>3 DEF RedisTypes
<1>6. \A i \in 1..Len(stream') : Safe(stream[i])' 
  BY <1>2, <1>3, <1>4, <1>5 DEF Safe
<1> QED
  BY <1>6 DEF NothingIsLost, Safe

\* What a longer stream keeps
LEMMA WaitingLonger ==
  ASSUME RedisTypes, NEW x \in Tasks, stream' = Append(stream, x), UNCHANGED <<delivered, pel>>,
         NEW t \in Tasks, Waiting(t)
  PROVE  Waiting(t)'
<1>1. PICK i \in 1..Len(stream) : stream[i] = t /\ (i > delivered \/ Pending(i))
  BY DEF Waiting, Living
<1>2. i \in 1..Len(stream') /\ stream'[i] = t
  BY <1>1 DEF RedisTypes
<1>3. i > delivered' \/ Pending(i)'
  BY <1>1 DEF Pending
<1> QED
  BY <1>2, <1>3 DEF Waiting, Living

\* A step that is none of Redis's business
LEMMA Quiet ==
  ASSUME QInv, UNCHANGED redis, done \subseteq done'
  PROVE  RedisTypes' /\ PendingDelivered' /\ NothingIsLost'
<1>1. UNCHANGED <<stream, delivered, pel, dead, removed>>
  BY DEF redis
<1>2. \A t \in Tasks : Safe(t) => Safe(t)'
  BY <1>1 DEF Safe, Waiting, Living, Pending, Buried, Letters
<1>3. RedisTypes' /\ PendingDelivered'
  BY <1>1 DEF QInv, RedisTypes, PendingDelivered, Pending
<1> QED
  BY <1>1, <1>2, <1>3, SameStream DEF QInv

\* An entry is added.
LEMMA Adding ==
  ASSUME QInv, NEW x \in Tasks, Len(stream) < MaxEntries, stream' = Append(stream, x),
         UNCHANGED <<delivered, pel, dead, worker, done>>, removed' \in SUBSET (1..Len(dead)),
         \A d \in removed' \ removed : dead[d] = x
  PROVE  RedisTypes' /\ WorkerTypes' /\ PendingDelivered' /\ NothingIsLost'
         /\ \A w \in Workers : Holds(w)'
<1>1. RedisTypes' /\ PendingDelivered'
  BY BoundAssumption DEF QInv, RedisTypes, PendingDelivered, Pending
<1>2. \A t \in Tasks : Safe(t) => Safe(t)'
  <2> SUFFICES ASSUME NEW t \in Tasks, Safe(t)
               PROVE  Safe(t)'
    OBVIOUS
  <2>1. CASE t = x
    <3>1. /\ Len(stream) + 1 \in 1..Len(stream') /\ stream'[Len(stream) + 1] = x
          /\ Len(stream) + 1 > delivered'
      BY DEF QInv, RedisTypes
    <3> QED
      BY <2>1, <3>1 DEF Safe, Waiting, Living
  <2>2. CASE t # x /\ Buried(t)
    BY <2>2 DEF Safe, Buried, Letters
  <2>3. CASE Waiting(t)
    BY <2>3, WaitingLonger DEF Safe, QInv
  <2>4. CASE t \in done
    BY <2>4 DEF Safe
  <2> QED
    BY <2>1, <2>2, <2>3, <2>4 DEF Safe
<1>3. NothingIsLost'
  BY <1>2, LongerStream DEF QInv
<1>4. WorkerTypes'
  BY DEF QInv, WorkerTypes, worker
<1>5. \A i \in 1..Len(stream) : stream'[i] = stream[i]
  BY DEF QInv, RedisTypes
<1>6. \A w \in Workers : Holds(w)'
  BY <1>5, Still DEF QInv, worker, RedisTypes
<1> QED
  BY <1>1, <1>3, <1>4, <1>6

\* Of the entries delivered, i may cease to be pending.
LEMMA Finishing ==
  ASSUME QInv, NEW i \in Entries, Unpend(i), UNCHANGED <<stream, delivered, removed, done>>,
         dead' \in Seq(Tasks), Len(dead) <= Len(dead'),
         \A d \in 1..Len(dead) : dead'[d] = dead[d],
         \A t \in Tasks : i \in 1..Len(stream) /\ t = stream[i] => Safe(t)'
  PROVE  RedisTypes' /\ PendingDelivered' /\ NothingIsLost'
<1>1. pel' \in [Entries -> PelRecords] /\ \A j \in Entries \ {i} : Pending(j)' <=> Pending(j)
  BY UnpendType DEF QInv, RedisTypes
<1>2. RedisTypes'
  BY <1>1 DEF QInv, RedisTypes
<1>3. ~ Pending(i)'
  BY NotPendingType DEF QInv, RedisTypes, Unpend, Pending
<1>4. PendingDelivered'
  BY <1>1, <1>3 DEF QInv, PendingDelivered
<1>5. \A t \in Tasks : Safe(t) => Safe(t)'
  <2> SUFFICES ASSUME NEW t \in Tasks, Safe(t)
               PROVE  Safe(t)'
    OBVIOUS
  <2>1. CASE t \in done
    BY <2>1 DEF Safe
  <2>2. CASE Buried(t)
    <3>1. PICK d \in 1..Len(dead) : dead[d] = t /\ d \notin removed
      BY <2>2 DEF Buried, Letters
    <3>2. d \in 1..Len(dead') /\ dead'[d] = t /\ d \notin removed'
      BY <3>1 DEF QInv, RedisTypes
    <3> QED
      BY <3>2 DEF Safe, Buried, Letters
  <2>3. CASE Waiting(t)
    <3>1. PICK j \in 1..Len(stream) : stream[j] = t /\ (j > delivered \/ Pending(j))
      BY <2>3 DEF Waiting, Living
    <3>2. CASE j = i
      BY <3>1, <3>2
    <3>3. CASE j # i
      <4>1. j \in Entries
        BY BoundAssumption DEF QInv, RedisTypes, Entries
      <4>2. Waiting(t)'
        BY <1>1, <3>1, <3>3, <4>1 DEF Waiting, Living
      <4> QED
        BY <4>2 DEF Safe
    <3> QED
      BY <3>2, <3>3
  <2> QED
    BY <2>1, <2>2, <2>3 DEF Safe
<1> QED
  BY <1>2, <1>4, <1>5, SameStream DEF QInv

-----------------------------------------------------------------------------
(* One lemma for each kind of action.                                      *)

\* The API server's handlers and the administrators
LEMMA ServerStep ==
  ASSUME QInv,
         \/ \E t \in Tasks : Upload(t) \/ Enqueue(t) \/ EnqueueFails(t)
         \/ \E a \in Admins : AdminRequeue(a) \/ \E d \in 1..Len(dead) : AdminRead(a, d)
  PROVE  QInv'
<1> USE DEF QInv
<1>1. ASSUME UNCHANGED redis, UNCHANGED <<worker, done>>
      PROVE  /\ RedisTypes' /\ PendingDelivered' /\ NothingIsLost'
             /\ WorkerTypes' /\ \A w \in Workers : Holds(w)'
  <2>1. RedisTypes' /\ PendingDelivered' /\ NothingIsLost'
    BY <1>1, Quiet
  <2>2. WorkerTypes'
    BY <1>1 DEF WorkerTypes, worker
  <2>3. \A w \in Workers : Holds(w)'
    BY <1>1, Still DEF worker, redis, RedisTypes
  <2> QED
    BY <2>1, <2>2, <2>3
<1>2. ASSUME NEW t \in Tasks, Upload(t)
      PROVE  QInv'
  BY <1>1, <1>2 DEF Upload, OtherTypes, redis, history
<1>3. ASSUME NEW t \in Tasks, Enqueue(t)
      PROVE  QInv'
  <2>1. removed' \in SUBSET (1..Len(dead)) /\ removed' \ removed = {}
    BY <1>3 DEF Enqueue, RedisTypes
  <2>2. /\ RedisTypes' /\ WorkerTypes' /\ PendingDelivered' /\ NothingIsLost'
        /\ \A w \in Workers : Holds(w)'
    BY <1>3, <2>1, Adding DEF Enqueue, history
  <2> QED
    BY <1>3, <2>2 DEF Enqueue, OtherTypes, history
<1>4. ASSUME NEW t \in Tasks, EnqueueFails(t)
      PROVE  QInv'
  <2>1. removed' \in SUBSET (1..Len(dead)) /\ removed' \ removed = {}
    BY <1>4 DEF EnqueueFails, RedisTypes
  <2>2. /\ RedisTypes' /\ WorkerTypes' /\ PendingDelivered' /\ NothingIsLost'
        /\ \A w \in Workers : Holds(w)'
    <3>1. CASE UNCHANGED stream
      BY <1>1, <1>4, <3>1 DEF EnqueueFails, redis, history
    <3>2. CASE Len(stream) < MaxEntries /\ stream' = Append(stream, t)
      BY <1>4, <2>1, <3>2, Adding DEF EnqueueFails, history
    <3> QED
      BY <1>4, <3>1, <3>2 DEF EnqueueFails
  <2> QED
    BY <1>4, <2>2, BoundAssumption DEF EnqueueFails, Fault, OtherTypes, history
<1>5. ASSUME NEW a \in Admins, AdminRequeue(a)
      PROVE  QInv'
  <2>1. reading[a] \in 1..Len(dead) /\ dead[reading[a]] \in Tasks
    BY <1>5 DEF AdminRequeue, OtherTypes, RedisTypes
  <2>2. removed' \in SUBSET (1..Len(dead)) /\ \A d \in removed' \ removed : d = reading[a]
    BY <1>5, <2>1 DEF AdminRequeue, RedisTypes
  <2>3. /\ RedisTypes' /\ WorkerTypes' /\ PendingDelivered' /\ NothingIsLost'
        /\ \A w \in Workers : Holds(w)'
    BY <1>5, <2>1, <2>2, Adding DEF AdminRequeue, Disturb
  <2>4. disturbed' \in SUBSET Tasks
    BY <1>5, <2>1 DEF AdminRequeue, Disturb, OtherTypes
  <2> QED
    BY <1>5, <2>3, <2>4 DEF AdminRequeue, Disturb, OtherTypes, RedisTypes
<1>6. ASSUME NEW a \in Admins, NEW d \in 1..Len(dead), AdminRead(a, d)
      PROVE  QInv'
  <2>1. OtherTypes'
    BY <1>6 DEF AdminRead, OtherTypes, RedisTypes, redis, history
  <2> QED
    BY <1>1, <1>6, <2>1 DEF AdminRead, history
<1> QED
  BY <1>2, <1>3, <1>4, <1>5, <1>6

\* A worker starts or dies: it holds nothing.
LEMMA ProcessStep ==
  ASSUME QInv, NEW w \in Workers, Start(w) \/ Dies(w)
  PROVE  QInv'
<1> USE DEF QInv
<1>1. UNCHANGED redis /\ UNCHANGED done
  BY DEF Start, Dies, Disturb, history
<1>2. RedisTypes' /\ PendingDelivered' /\ NothingIsLost'
  BY <1>1, Quiet
<1>3. WorkerTypes' /\ OtherTypes'
  <2>1. CASE Start(w)
    BY <2>1 DEF Start, WorkerTypes, OtherTypes, redis, history
  <2>2. CASE Dies(w)
    <3>1. WorkerTypes'
      BY <2>2 DEF Dies, WorkerTypes
    <3>2. OtherTypes'
      BY <2>2, BoundAssumption, HeldType DEF Dies, Disturb, Fault, OtherTypes, redis
    <3> QED
      BY <3>1, <3>2
  <2> QED
    BY <2>1, <2>2
<1>4. Holds(w)'
  BY <1>1, <1>2 DEF Start, Dies, Holds, Busy, WorkerTypes, redis
<1>5. ASSUME NEW v \in Workers, v # w
      PROVE  Holds(v)'
  <2>1. batch'[v] = batch[v] /\ step'[v] = step[v]
    BY <1>5 DEF Start, Dies, WorkerTypes
  <2> QED
    BY <1>1, <2>1, Still DEF redis, RedisTypes
<1> QED
  BY <1>2, <1>3, <1>4, <1>5

\* A worker goes on, and Redis is as it was.
LEMMA PassStep ==
  ASSUME QInv, NEW w \in Workers, NEW rest \in Seq(Messages),
         \A k \in 1..Len(rest) : rest[k].entry <= delivered,
         GoOn(w, rest), UNCHANGED redis, UNCHANGED done
  PROVE  /\ RedisTypes' /\ PendingDelivered' /\ NothingIsLost'
         /\ WorkerTypes' /\ \A v \in Workers : Holds(v)'
<1>1. RedisTypes' /\ PendingDelivered' /\ NothingIsLost'
  BY Quiet
<1>2. WorkerTypes' /\ \A v \in Workers : Holds(v)'
  BY Going DEF QInv, redis
<1> QED
  BY <1>1, <1>2

\* Entries that were delivered are handed to a worker.
LEMMA HandStep ==
  ASSUME QInv, NEW w \in Workers, NEW ids \in Seq(Entries), Deliver(w, ids),
         delivered' \in delivered..Len(stream),
         \A k \in DOMAIN ids : ids[k] <= delivered',
         \A i \in (delivered + 1)..delivered' : \E k \in DOMAIN ids : ids[k] = i,
         UNCHANGED <<stored, offered, stream, dead, removed, reading, faults>>
  PROVE  /\ RedisTypes' /\ PendingDelivered' /\ NothingIsLost'
         /\ WorkerTypes' /\ \A v \in Workers : Holds(v)'
         /\ OtherTypes'
<1> USE DEF QInv
<1>d. UNCHANGED <<done, tried>> /\ disturbed' \in SUBSET Tasks
  BY HeldType DEF Deliver, Hand, Disturb, OtherTypes
<1>o. OtherTypes'
  BY <1>d DEF OtherTypes
<1>1. /\ WorkerTypes' /\ pel' \in [Entries -> PelRecords]
      /\ \A i \in Entries : Pending(i)' <=> Pending(i) \/ \E k \in DOMAIN ids : ids[k] = i
  BY DeliverType DEF RedisTypes
<1>2. delivered \in Nat /\ delivered' \in Nat /\ delivered <= delivered'
  BY DEF RedisTypes
<1>3. RedisTypes'
  BY <1>1, <1>2 DEF RedisTypes
<1>4. PendingDelivered'
  BY <1>1, <1>2 DEF PendingDelivered, Entries
<1>5. \A t \in Tasks : Safe(t) => Safe(t)'
  <2> SUFFICES ASSUME NEW t \in Tasks, Waiting(t)
               PROVE  Waiting(t)'
    BY <1>d DEF Safe, Buried, Letters
  <2>1. PICK i \in 1..Len(stream) : stream[i] = t /\ (i > delivered \/ Pending(i))
    BY DEF Waiting, Living
  <2>2. i \in Entries
    BY BoundAssumption DEF RedisTypes, Entries
  <2>3. i > delivered' \/ Pending(i)'
    BY <1>1, <1>2, <2>1, <2>2
  <2> QED
    BY <2>1, <2>3 DEF Waiting, Living
<1>6. NothingIsLost'
  BY <1>5, SameStream
<1>7. \A v \in Workers : Holds(v)'
  BY <1>2, <1>d, Handed
<1> QED
  BY <1>1, <1>3, <1>4, <1>6, <1>7, <1>o

\* A worker's turn
LEMMA WorkStep ==
  ASSUME QInv, NEW w \in Workers, Work(w)
  PROVE  QInv'
<1> USE DEF QInv
<1>1. <<>> \in Seq(Messages) /\ \A k \in 1..Len(<<>>) : <<>>[k].entry <= delivered
  OBVIOUS
<1>2. ASSUME OtherTypes',
             /\ RedisTypes' /\ PendingDelivered' /\ NothingIsLost'
             /\ WorkerTypes' /\ \A v \in Workers : Holds(v)'
      PROVE  QInv'
  BY <1>2
<1>3. CASE Start(w)
  BY <1>3, ProcessStep
<1>4. CASE ClaimStale(w)
  <2>2. CASE Stale = {} /\ GoOn(w, <<>>) /\ UNCHANGED pel /\ UNCHANGED history
    <3>1. OtherTypes'
      BY <1>4, <2>2 DEF ClaimStale, OtherTypes, history
    <3> QED
      BY <1>1, <1>4, <2>2, <3>1, PassStep DEF ClaimStale, redis, history
  <2>3. ASSUME NEW ids \in FirstStale, Deliver(w, ids)
        PROVE  QInv'
    <3>1. ids \in Seq(Entries) /\ \A k \in DOMAIN ids : Pending(ids[k])
      BY FirstStaleType
    <3>2. \A k \in DOMAIN ids : ids[k] <= delivered
      BY <3>1 DEF PendingDelivered
    <3>3. delivered' = delivered /\ delivered \in Nat /\ Len(stream) \in Nat
          /\ delivered <= Len(stream)
      BY <1>4 DEF ClaimStale, RedisTypes
    <3>4. UNCHANGED <<stored, offered, stream, dead, removed, reading, faults>>
      BY <1>4 DEF ClaimStale
    <3>5. (delivered + 1)..delivered' = {} /\ delivered' \in delivered..Len(stream)
      BY <3>3
    <3> QED
      BY <2>3, <3>1, <3>2, <3>3, <3>4, <3>5, HandStep
  <2> QED
    BY <1>4, <2>2, <2>3 DEF ClaimStale
<1>5. CASE Receive(w)
  <2> DEFINE left == Len(stream) - delivered
             n    == IF left < BatchSize THEN left ELSE BatchSize
             ids  == [k \in 1..n |-> delivered + k]
  <2>1. /\ delivered' = delivered + n
        /\ IF n = 0 THEN GoOn(w, <<>>) /\ UNCHANGED pel /\ UNCHANGED history ELSE Deliver(w, ids)
        /\ UNCHANGED <<stored, offered, stream, dead, removed, reading, faults>>
    BY <1>5 DEF Receive
  <2>3. /\ n \in Nat /\ delivered \in Nat /\ Len(stream) \in Nat
        /\ delivered + n <= Len(stream) /\ Len(stream) <= MaxEntries
    BY LimitAssumption DEF RedisTypes
  <2> HIDE DEF n
  <2>4. ids \in Seq(Entries) /\ DOMAIN ids = 1..n
    BY <2>3, BoundAssumption DEF Entries
  <2>5. \A k \in DOMAIN ids : ids[k] = delivered + k /\ ids[k] <= delivered'
    BY <2>1, <2>3, <2>4
  <2>6. ASSUME NEW i \in (delivered + 1)..delivered'
        PROVE  \E k \in DOMAIN ids : ids[k] = i
    <3>1. i - delivered \in DOMAIN ids /\ delivered + (i - delivered) = i
      BY <2>1, <2>3, <2>4
    <3> QED
      BY <2>5, <3>1
  <2> HIDE DEF ids
  <2>7. CASE n = 0
    <3>1. UNCHANGED redis /\ UNCHANGED done
      BY <2>1, <2>3, <2>7 DEF redis, history
    <3>2. OtherTypes'
      BY <2>1, <2>7 DEF OtherTypes, history
    <3> QED
      BY <1>1, <2>1, <2>7, <3>1, <3>2, PassStep
  <2>8. CASE n # 0
    <3>1. Deliver(w, ids)
      BY <2>1, <2>8
    <3>2. delivered' \in delivered..Len(stream)
      BY <2>1, <2>3
    <3> QED
      BY <2>1, <2>4, <2>5, <2>6, <3>1, <3>2, HandStep
  <2> QED
    BY <2>7, <2>8
<1>6. CASE CallFails(w) \/ CountFails(w)
  <2>1. UNCHANGED redis /\ UNCHANGED done /\ GoOn(w, <<>>)
    BY <1>6 DEF CallFails, CountFails, Disturb, history
  <2>3. disturbed' \in SUBSET Tasks /\ UNCHANGED tried
    BY <1>6, HeldType DEF CallFails, CountFails, Disturb, OtherTypes, history
  <2>2. OtherTypes'
    BY <1>6, <2>1, <2>3, BoundAssumption DEF CallFails, CountFails, Fault, OtherTypes, redis
  <2> QED
    BY <1>1, <2>1, <2>2, PassStep
<1>7. CASE Count(w)
  <2> DEFINE counted(m) == [m EXCEPT !.count = IF Pending(m.entry) THEN pel[m.entry].count ELSE 1]
             rest == [k \in DOMAIN batch[w] |-> counted(batch[w][k])]
  <2>1. UNCHANGED redis /\ UNCHANGED done /\ GoOn(w, rest)
    BY <1>7 DEF Count, history
  <2>2. OtherTypes'
    BY <1>7 DEF Count, OtherTypes, redis, history
  <2>3. batch[w] \in Seq(Messages) /\ DOMAIN batch[w] = 1..Len(batch[w]) /\ Len(batch[w]) \in Nat
    BY DEF WorkerTypes
  <2>4. ASSUME NEW m \in Messages
        PROVE  counted(m) \in Messages /\ counted(m).entry = m.entry
    <3>1. m.entry \in Entries /\ pel[m.entry].count \in 0..RetryLimit /\ 1 \in 0..RetryLimit
      BY LimitAssumption DEF Messages, RedisTypes, PelRecords
    <3>2. (IF Pending(m.entry) THEN pel[m.entry].count ELSE 1) \in 0..RetryLimit
      BY <3>1
    <3> QED
      BY <3>1, <3>2 DEF Messages
  <2> HIDE DEF counted
  <2>5. \A k \in 1..Len(batch[w]) :
          /\ counted(batch[w][k]) \in Messages
          /\ counted(batch[w][k]).entry <= delivered
    <3> SUFFICES ASSUME NEW k \in 1..Len(batch[w])
                 PROVE  /\ counted(batch[w][k]) \in Messages
                        /\ counted(batch[w][k]).entry <= delivered
      OBVIOUS
    <3>1. batch[w][k] \in Messages /\ batch[w][k].entry <= delivered
      BY <2>3 DEF Holds
    <3> QED
      BY <2>4, <3>1
  <2>6. rest \in Seq(Messages) /\ Len(rest) = Len(batch[w])
    BY <2>3, <2>5
  <2>7. \A k \in 1..Len(rest) : rest[k].entry <= delivered
    BY <2>3, <2>5, <2>6
  <2> HIDE DEF rest
  <2> QED
    BY <2>1, <2>2, <2>6, <2>7, PassStep
<1>8. CASE Succeed(w)
  <2>1. TaskOf(w) \in Tasks /\ batch[w] # <<>>
    BY <1>8, MessageDelivered DEF Succeed, Busy, Holds
  <2>2. /\ UNCHANGED redis /\ done' = done \cup {TaskOf(w)} /\ UNCHANGED <<stream, batch>>
        /\ step' = [step EXCEPT ![w] = "acking"]
    BY <1>8 DEF Succeed, redis
  <2>3. OtherTypes'
    BY <1>8, <2>1 DEF Succeed, OtherTypes, redis, history
  <2>4. RedisTypes' /\ PendingDelivered' /\ NothingIsLost'
    BY <2>2, Quiet
  <2>5. WorkerTypes'
    BY <1>8 DEF Succeed, WorkerTypes
  <2>6. Holds(w)'
    BY <2>1, <2>2 DEF Holds, Busy, WorkerTypes, TaskOf, Message, redis
  <2>7. ASSUME NEW v \in Workers, v # w
        PROVE  Holds(v)'
    BY <2>2, <2>7, Still DEF redis, RedisTypes, WorkerTypes
  <2> QED
    BY <2>3, <2>4, <2>5, <2>6, <2>7
<1>9. CASE Fail(w)
  <2>1. Busy(w) /\ UNCHANGED redis /\ UNCHANGED done
    BY <1>9 DEF Fail, Busy
  <2>2. /\ Message(w) \in Messages /\ Tail(batch[w]) \in Seq(Messages)
        /\ \A k \in 1..Len(Tail(batch[w])) : Tail(batch[w])[k].entry <= delivered
    BY <2>1, MessageDelivered
  <2>3. tried' \in [Entries -> 0..RetryLimit]
    <3>1. Message(w).entry \in Entries
      BY <2>2 DEF Messages
    <3>2. Bump(tried[Message(w).entry]) \in 0..RetryLimit
      BY <3>1, BumpType DEF OtherTypes
    <3>3. tried' = [tried EXCEPT ![Message(w).entry] = Bump(tried[Message(w).entry])]
      BY <1>9 DEF Fail
    <3> QED
      BY <3>2, <3>3 DEF OtherTypes
  <2>4. OtherTypes'
    BY <1>9, <2>3 DEF Fail, OtherTypes, redis
  <2>5. CASE step' = [step EXCEPT ![w] = "burying"] /\ UNCHANGED <<known, batch, turn>>
    <3>1. RedisTypes' /\ PendingDelivered' /\ NothingIsLost'
      BY <2>1, Quiet
    <3>2. WorkerTypes'
      BY <2>5 DEF WorkerTypes
    <3>3. Holds(w)'
      BY <2>1, <2>5 DEF Holds, Busy, WorkerTypes, redis
    <3>4. ASSUME NEW v \in Workers, v # w
          PROVE  Holds(v)'
      BY <2>1, <2>5, <3>4, Still DEF redis, RedisTypes, WorkerTypes
    <3> QED
      BY <2>4, <3>1, <3>2, <3>3, <3>4
  <2>6. CASE GoOn(w, Tail(batch[w]))
    BY <2>1, <2>2, <2>4, <2>6, PassStep
  <2> QED
    BY <1>9, <2>5, <2>6 DEF Fail
<1>10. CASE FinishFails(w)
  <2>1. Busy(w) /\ UNCHANGED redis /\ UNCHANGED done /\ GoOn(w, Tail(batch[w]))
    BY <1>10 DEF FinishFails, Busy, Disturb
  <2>2. OtherTypes'
    BY <1>10, <2>1, BoundAssumption, MessageDelivered
       DEF FinishFails, Fault, Disturb, OtherTypes, redis
  <2> QED
    BY <2>1, <2>2, MessageDelivered, PassStep
<1>11. CASE Ack(w) \/ Bury(w)
  <2>1. /\ Busy(w) /\ GoOn(w, Tail(batch[w])) /\ Unpend(Message(w).entry)
        /\ UNCHANGED <<stored, offered, stream, delivered, removed, reading, faults, done, tried, disturbed>>
    BY <1>11 DEF Ack, Bury, Busy, history
  <2>2. /\ Message(w) \in Messages /\ Message(w).entry \in 1..delivered /\ TaskOf(w) \in Tasks
        /\ Tail(batch[w]) \in Seq(Messages)
        /\ \A k \in 1..Len(Tail(batch[w])) : Tail(batch[w])[k].entry <= delivered
    BY <2>1, MessageDelivered
  <2>3. /\ dead' \in Seq(Tasks) /\ Len(dead) <= Len(dead')
        /\ \A d \in 1..Len(dead) : dead'[d] = dead[d]
    <3>1. CASE Ack(w)
      BY <3>1 DEF Ack, RedisTypes
    <3>2. CASE Bury(w)
      <4>1. dead' = Append(dead, TaskOf(w)) /\ dead \in Seq(Tasks)
        BY <3>2 DEF Bury, RedisTypes
      <4> HIDE DEF QInv
      <4> QED
        BY <2>2, <4>1
    <3> QED
      BY <1>11, <3>1, <3>2
  <2>4. OtherTypes'
    BY <2>1, <2>3 DEF OtherTypes, RedisTypes
  <2>5. ASSUME NEW t \in Tasks, t = TaskOf(w)
        PROVE  Safe(t)'
    <3>1. CASE Ack(w)
      BY <2>1, <2>5, <3>1 DEF Ack, Holds, Safe
    <3>2. CASE Bury(w)
      <4>1. /\ Len(dead) + 1 \in 1..Len(dead') /\ dead'[Len(dead) + 1] = t
            /\ Len(dead) + 1 \notin removed'
        BY <2>1, <2>5, <3>2 DEF Bury, RedisTypes
      <4> QED
        BY <4>1 DEF Safe, Buried, Letters
    <3> QED
      BY <1>11, <3>1, <3>2
  <2>6. RedisTypes' /\ PendingDelivered' /\ NothingIsLost'
    <3> SUFFICES ASSUME NEW i \in Entries, i = Message(w).entry
                 PROVE  RedisTypes' /\ PendingDelivered' /\ NothingIsLost'
      BY <2>2 DEF Messages
    <3>1. Unpend(i) /\ UNCHANGED <<stream, delivered, removed, done>>
      BY <2>1
    <3>2. \A t \in Tasks : i \in 1..Len(stream) /\ t = stream[i] => Safe(t)'
      BY <2>5 DEF TaskOf
    <3> HIDE DEF QInv
    <3> QED
      BY <2>3, <3>1, <3>2, Finishing
  <2>7. WorkerTypes' /\ \A v \in Workers : Holds(v)'
    BY <2>1, <2>2, Going
  <2> QED
    BY <2>4, <2>6, <2>7
<1> QED
  BY <1>3, <1>4, <1>5, <1>6, <1>7, <1>8, <1>9, <1>10, <1>11 DEF Work

LEMMA Step == QInv /\ [Next]_vars => QInv'
<1> SUFFICES ASSUME QInv, [Next]_vars PROVE QInv'
  OBVIOUS
<1> USE DEF QInv
<1>1. CASE \/ \E t \in Tasks : Upload(t) \/ Enqueue(t) \/ EnqueueFails(t)
           \/ \E a \in Admins : AdminRequeue(a) \/ \E d \in 1..Len(dead) : AdminRead(a, d)
  BY <1>1, ServerStep
<1>2. ASSUME NEW w \in Workers, Work(w) \/ Dies(w)
      PROVE  QInv'
  BY <1>2, WorkStep, ProcessStep
<1>3. ASSUME NEW i \in Entries, GoesStale(i)
      PROVE  QInv'
  <2>1. /\ pel' = [pel EXCEPT ![i].stale = TRUE]
        /\ UNCHANGED <<stored, offered, stream, delivered, dead, removed, reading, faults, done, tried, disturbed>>
        /\ UNCHANGED <<known, batch, turn, step>>
    BY <1>3 DEF GoesStale, worker, history
  <2>2. \A j \in Entries : pel'[j] \in PelRecords /\ pel'[j].count = pel[j].count
    BY <2>1 DEF RedisTypes, PelRecords
  <2>3. RedisTypes'
    BY <2>1, <2>2 DEF RedisTypes
  <2>4. \A j \in Entries : Pending(j)' <=> Pending(j)
    BY <2>2 DEF Pending
  <2>5. \A t \in Tasks : Safe(t) => Safe(t)'
    <3>1. 1..Len(stream) \subseteq Entries
      BY BoundAssumption DEF RedisTypes, Entries
    <3> QED
      BY <2>1, <2>4, <3>1 DEF Safe, Waiting, Living, Buried, Letters
  <2>6. PendingDelivered' /\ NothingIsLost'
    BY <2>1, <2>4, <2>5, SameStream DEF PendingDelivered
  <2>7. WorkerTypes' /\ OtherTypes' /\ \A w \in Workers : Holds(w)'
    BY <2>1 DEF WorkerTypes, OtherTypes, Holds, Busy, TaskOf, Message
  <2> QED
    BY <2>3, <2>6, <2>7
<1>4. CASE UNCHANGED vars
  <2>1. UNCHANGED redis /\ UNCHANGED <<worker, done, stored, offered, reading, faults, tried, disturbed>>
    BY <1>4 DEF vars, history
  <2>2. RedisTypes' /\ PendingDelivered' /\ NothingIsLost'
    BY <2>1, Quiet
  <2>3. WorkerTypes' /\ OtherTypes' /\ \A w \in Workers : Holds(w)'
    BY <2>1 DEF WorkerTypes, OtherTypes, Holds, Busy, TaskOf, Message, worker, redis
  <2> QED
    BY <2>2, <2>3
<1> QED
  BY <1>1, <1>2, <1>3, <1>4 DEF Next

-----------------------------------------------------------------------------
(* The theorems.                                                           *)

\* Every variable keeps its type: the bookkeeping of the group stays within
\* the stream, and what is deleted from the dead-letter stream was in it.
THEOREM TypeCorrect == Spec => []TypeOK
<1>1. QInv => TypeOK
  BY Types DEF QInv
<1> QED
  BY <1>1, Initially, Step, PTL DEF Spec

\* No task that reached the stream is ever lost: at every moment it has been
\* processed, waits in the stream, or is a dead letter, for any number of
\* workers, tasks and administrators, whatever fails and whoever dies.
THEOREM NothingLost == Spec => []NothingIsLost
<1>1. QInv => NothingIsLost
  BY DEF QInv
<1> QED
  BY <1>1, Initially, Step, PTL DEF Spec

-----------------------------------------------------------------------------
(* The course of a task that nothing disturbs: it is in the stream once or *)
(* among the dead letters once, a worker that holds it holds it alone, and *)
(* its deliveries and its failed attempts are counted alike.               *)

Slots(w) == 1..Len(batch[w])

Calm(i) == stream[i] \notin disturbed

Taken(i) == \E w \in Workers : \E k \in Slots(w) : batch[w][k].entry = i

\* Whatever is in the stream, among the dead letters or done was offered.
OfferedFirst ==
  /\ \A i \in 1..Len(stream) : stream[i] \in offered
  /\ \A d \in 1..Len(dead) : dead[d] \in offered
  /\ done \subseteq offered

IdleHoldsNothing == \A w \in Workers : step[w] \in {"down", "call"} => batch[w] = <<>>

\* What is held is pending, and held once.
HeldIsPending ==
  \A w \in Workers : \A k \in Slots(w) : Calm(batch[w][k].entry) => Pending(batch[w][k].entry)

HeldOnce ==
  \A w, v \in Workers : \A k \in Slots(w), l \in Slots(v) :
    batch[w][k].entry = batch[v][l].entry /\ Calm(batch[w][k].entry) => w = v /\ k = l

\* OneCopy, without its counting
Single(t) ==
  /\ \A i, j \in Living(t) : i = j
  /\ \A d, e \in Letters(t) : d = e
  /\ Living(t) = {} \/ Letters(t) = {}

\* A task that was processed is about to be acknowledged, or was.
Finished(t) ==
  t \in done =>
    /\ Letters(t) = {}
    /\ \A i \in Living(t) : \E w \in Workers : step[w] = "acking" /\ Message(w).entry = i

\* An entry was delivered as often as it was tried, and once more when a
\* worker holds it.
Attempts ==
  \A i \in 1..Len(stream) : Calm(i) =>
    /\ pel[i].count <= tried[i] + 1
    /\ ~Taken(i) => pel[i].count <= tried[i]

Counts ==
  \A w \in Workers : \A k \in Slots(w) :
    Calm(batch[w][k].entry) => batch[w][k].count <= tried[batch[w][k].entry] + 1

BuryingHasFailed ==
  \A w \in Workers :
    step[w] = "burying" /\ Calm(Message(w).entry) => tried[Message(w).entry] >= RetryLimit

CInv ==
  /\ OfferedFirst /\ IdleHoldsNothing
  /\ HeldIsPending /\ HeldOnce
  /\ \A t \in Tasks \ disturbed : Single(t) /\ Finished(t)
  /\ Attempts /\ Counts /\ BuryingHasFailed
  /\ DeadLettersHaveFailed

LEMMA CInitially == Init => CInv
<1> SUFFICES ASSUME Init PROVE CInv
  OBVIOUS
<1>1. /\ stream = <<>> /\ dead = <<>> /\ done = {}
      /\ \A w \in Workers : batch[w] = <<>> /\ step[w] = "down"
  BY DEF Init
<1>2. OfferedFirst /\ IdleHoldsNothing /\ HeldIsPending /\ HeldOnce
  BY <1>1 DEF OfferedFirst, IdleHoldsNothing, HeldIsPending, HeldOnce, Slots
<1>3. Attempts /\ Counts /\ BuryingHasFailed /\ DeadLettersHaveFailed
  BY <1>1 DEF Attempts, Counts, BuryingHasFailed, DeadLettersHaveFailed, Slots
<1>4. \A t \in Tasks : Single(t) /\ Finished(t)
  BY <1>1 DEF Single, Finished, Living, Letters
<1> QED
  BY <1>2, <1>3, <1>4 DEF CInv

-----------------------------------------------------------------------------
(* Ranges that the steps below keep needing.                               *)

Ranges ==
  /\ delivered \in Nat /\ Len(stream) \in Nat /\ delivered <= Len(stream)
  /\ Len(stream) <= MaxEntries
  /\ Len(dead) \in Nat /\ removed \subseteq 1..Len(dead)
  /\ \A i \in 1..Len(stream) : i \in Entries /\ stream[i] \in Tasks
  /\ \A d \in 1..Len(dead) : dead[d] \in Tasks
  /\ \A i \in Entries :
       /\ pel[i].count \in 0..RetryLimit /\ tried[i] \in 0..RetryLimit
       /\ i > delivered => pel[i].count = 0

Batches ==
  \A w \in Workers :
    /\ Len(batch[w]) \in Nat
    /\ \A k \in Slots(w) :
         /\ batch[w][k] \in Messages
         /\ batch[w][k].entry \in 1..Len(stream) /\ batch[w][k].entry \in 1..delivered
         /\ batch[w][k].count \in 0..RetryLimit

LEMMA QRanges == QInv => Ranges
<1> SUFFICES ASSUME QInv PROVE Ranges
  OBVIOUS
<1>1. RedisTypes /\ OtherTypes /\ PendingDelivered
  BY DEF QInv
<1>2. \A i \in Entries : pel[i] \in PelRecords
  BY <1>1 DEF RedisTypes
<1>3. \A i \in Entries : i > delivered => pel[i].count = 0
  BY <1>1, <1>2, LimitAssumption DEF PendingDelivered, Pending, PelRecords, Entries, RedisTypes
<1>4. \A i \in Entries : pel[i].count \in 0..RetryLimit /\ tried[i] \in 0..RetryLimit
  BY <1>1, <1>2 DEF PelRecords, OtherTypes
<1> QED
  BY <1>1, <1>3, <1>4, BoundAssumption DEF Ranges, RedisTypes, Entries

LEMMA QRangesNext == QInv' => Ranges'
<1> SUFFICES ASSUME QInv' PROVE Ranges'
  OBVIOUS
<1>1. RedisTypes' /\ OtherTypes' /\ PendingDelivered'
  BY DEF QInv
<1>2. \A i \in Entries : pel'[i] \in PelRecords
  BY <1>1 DEF RedisTypes
<1>3. \A i \in Entries : i > delivered' => pel'[i].count = 0
  BY <1>1, <1>2, LimitAssumption DEF PendingDelivered, Pending, PelRecords, Entries, RedisTypes
<1>4. \A i \in Entries : pel'[i].count \in 0..RetryLimit /\ tried'[i] \in 0..RetryLimit
  BY <1>1, <1>2 DEF PelRecords, OtherTypes
<1> QED
  BY <1>1, <1>3, <1>4, BoundAssumption DEF Ranges, RedisTypes, Entries

LEMMA QBatches == QInv => Batches
<1> SUFFICES ASSUME QInv, NEW w \in Workers
             PROVE  /\ Len(batch[w]) \in Nat
                    /\ \A k \in Slots(w) :
                         /\ batch[w][k] \in Messages
                         /\ batch[w][k].entry \in 1..Len(stream)
                         /\ batch[w][k].entry \in 1..delivered
                         /\ batch[w][k].count \in 0..RetryLimit
  BY DEF Batches
<1>1. batch[w] \in Seq(Messages)
  BY DEF QInv, WorkerTypes
<1>2. \A k \in Slots(w) : batch[w][k] \in Messages /\ batch[w][k].entry <= delivered
  BY <1>1 DEF QInv, Holds, Slots
<1>3. delivered \in Nat /\ Len(stream) \in Nat /\ delivered <= Len(stream)
  BY QRanges DEF Ranges
<1>4. \A m \in Messages : m.entry \in Nat /\ m.entry > 0 /\ m.count \in 0..RetryLimit
  BY BoundAssumption DEF Messages, Entries
<1> QED
  BY <1>1, <1>2, <1>3, <1>4

LEMMA BumpValue ==
  ASSUME NEW n \in 0..RetryLimit
  PROVE  Bump(n) = IF n < RetryLimit THEN n + 1 ELSE n
  BY DEF Bump

-----------------------------------------------------------------------------
(* What a step keeps.                                                      *)

StreamGrows ==
  Len(stream) <= Len(stream') /\ \A i \in 1..Len(stream) : stream'[i] = stream[i]

\* What each worker holds afterwards is the rest of what it held.
Shrinks ==
  \A v \in Workers : \E o \in Nat : \A k \in Slots(v)' :
    k + o \in Slots(v) /\ batch'[v][k].entry = batch[v][k + o].entry

LEMMA ShrinkHeld ==
  ASSUME QInv, CInv, Shrinks, StreamGrows, disturbed \subseteq disturbed'
  PROVE  /\ HeldOnce'
         /\ \A w \in Workers : \A k \in Slots(w)' : \A i :
              i = batch'[w][k].entry =>
                /\ i \in 1..Len(stream) /\ Taken(i)
                /\ Calm(i)' => Calm(i) /\ Pending(i)
<1>1. Batches /\ HeldIsPending /\ HeldOnce
  BY QBatches DEF CInv
<1>2. ASSUME NEW i \in 1..Len(stream), Calm(i)'
      PROVE  Calm(i)
  BY <1>2 DEF Calm, StreamGrows
<1>3. ASSUME NEW w \in Workers, NEW k \in Slots(w)'
      PROVE  \E m \in Slots(w) : batch'[w][k].entry = batch[w][m].entry
  BY DEF Shrinks
<1>4. \A w \in Workers : \A k \in Slots(w)' : \A i :
        i = batch'[w][k].entry =>
          /\ i \in 1..Len(stream) /\ Taken(i)
          /\ Calm(i)' => Calm(i) /\ Pending(i)
  <2> SUFFICES ASSUME NEW w \in Workers, NEW k \in Slots(w)', NEW i, i = batch'[w][k].entry
               PROVE  /\ i \in 1..Len(stream) /\ Taken(i)
                      /\ Calm(i)' => Calm(i) /\ Pending(i)
    OBVIOUS
  <2>1. PICK m \in Slots(w) : i = batch[w][m].entry
    BY <1>3
  <2>2. i \in 1..Len(stream) /\ Taken(i) /\ (Calm(i) => Pending(i))
    BY <1>1, <2>1 DEF Batches, Taken, HeldIsPending
  <2> QED
    BY <1>2, <2>2
<1>5. HeldOnce'
  <2> SUFFICES ASSUME NEW w \in Workers, NEW v \in Workers,
                      NEW k \in Slots(w)', NEW l \in Slots(v)',
                      batch'[w][k].entry = batch'[v][l].entry, Calm(batch[w][k].entry)'
               PROVE  w = v /\ k = l
    BY DEF HeldOnce
  <2>1. PICK o \in Nat : \A h \in Slots(w)' :
          h + o \in Slots(w) /\ batch'[w][h].entry = batch[w][h + o].entry
    BY DEF Shrinks
  <2>2. PICK m \in Slots(v) : batch'[v][l].entry = batch[v][m].entry
    BY <1>3
  <2>3. Calm(batch[w][k + o].entry)
    <3>1. stream'[batch'[w][k].entry] \notin disturbed'
      BY DEF Calm
    <3>2. batch'[w][k].entry = batch[w][k + o].entry /\ k + o \in Slots(w)
      BY <2>1
    <3>3. batch[w][k + o].entry \in 1..Len(stream)
      BY <1>1, <3>2 DEF Batches
    <3> QED
      BY <3>1, <3>2, <3>3 DEF Calm, StreamGrows
  <2>4. w = v
    BY <1>1, <2>1, <2>2, <2>3 DEF HeldOnce
  <2>5. l + o \in Slots(w) /\ batch'[w][l].entry = batch[w][l + o].entry
    BY <2>1, <2>4
  <2>6. k + o = l + o
    BY <1>1, <2>1, <2>3, <2>4, <2>5 DEF HeldOnce
  <2>7. k \in Int /\ l \in Int
    BY DEF Slots
  <2> QED
    BY <2>4, <2>6, <2>7
<1> QED
  BY <1>4, <1>5

\* Counts do not grow, and what a worker lets go was tried.
LEMMA AttemptsKept ==
  ASSUME QInv, QInv', CInv, StreamGrows, disturbed \subseteq disturbed',
         \A i \in Entries : tried[i] <= tried'[i] /\ pel'[i].count <= pel[i].count,
         \A i \in 1..Len(stream) :
           Taken(i) /\ ~Taken(i)' /\ Calm(i)' => pel'[i].count <= tried'[i]
  PROVE  Attempts'
<1>1. Ranges /\ Ranges' /\ Attempts
  BY QRanges, QRangesNext DEF CInv
<1> SUFFICES ASSUME NEW i \in 1..Len(stream'), Calm(i)'
             PROVE  /\ pel'[i].count <= tried'[i] + 1
                    /\ ~Taken(i)' => pel'[i].count <= tried'[i]
  BY DEF Attempts
<1>2. /\ i \in Entries
      /\ pel[i].count \in Nat /\ pel'[i].count \in Nat /\ tried[i] \in Nat /\ tried'[i] \in Nat
  BY <1>1 DEF Ranges
<1>3. CASE i \in 1..Len(stream)
  <2>1. Calm(i)
    BY <1>3 DEF Calm, StreamGrows
  <2>2. pel[i].count <= tried[i] + 1 /\ (~Taken(i) => pel[i].count <= tried[i])
    BY <1>1, <1>3, <2>1 DEF Attempts
  <2>3. tried[i] <= tried'[i] /\ pel'[i].count <= pel[i].count
    BY <1>2
  <2>4. CASE Taken(i) /\ ~Taken(i)'
    BY <1>2, <1>3, <2>2, <2>3, <2>4
  <2>5. CASE ~(Taken(i) /\ ~Taken(i)')
    BY <1>2, <2>2, <2>3, <2>5
  <2> QED
    BY <2>4, <2>5
<1>4. CASE i \notin 1..Len(stream)
  <2>1. i > delivered
    BY <1>1, <1>4 DEF Ranges
  <2>2. pel[i].count = 0
    BY <1>1, <1>2, <2>1 DEF Ranges
  <2> QED
    BY <1>2, <2>2
<1> QED
  BY <1>3, <1>4

LEMMA LettersKept ==
  ASSUME QInv, CInv, StreamGrows, dead' = dead, disturbed \subseteq disturbed',
         \A i \in Entries : tried[i] <= tried'[i] /\ tried'[i] \in 0..RetryLimit
  PROVE  DeadLettersHaveFailed'
<1>1. Ranges
  BY QRanges
<1> SUFFICES ASSUME NEW d \in 1..Len(dead), dead[d] \notin disturbed'
             PROVE  \E i \in 1..Len(stream') : stream'[i] = dead[d] /\ tried'[i] >= RetryLimit
  BY DEF DeadLettersHaveFailed
<1>2. PICK i \in 1..Len(stream) : stream[i] = dead[d] /\ tried[i] >= RetryLimit
  BY DEF CInv, DeadLettersHaveFailed
<1>3. i \in Entries /\ tried[i] \in Nat /\ tried'[i] \in Nat
  BY <1>1 DEF Ranges
<1>4. tried'[i] >= RetryLimit
  BY <1>2, <1>3, LimitAssumption
<1>5. i \in 1..Len(stream') /\ stream'[i] = dead[d]
  BY <1>2 DEF StreamGrows
<1> QED
  BY <1>4, <1>5

\* A task of which there is no more than before
LEMMA CopiesKept ==
  ASSUME CInv, NEW t \in Tasks, t \notin disturbed', disturbed \subseteq disturbed',
         Living(t)' \subseteq Living(t), Letters(t)' \subseteq Letters(t),
         t \in done' => t \in done,
         \A w \in Workers : step[w] = "acking" /\ Message(w).entry \in Living(t)' =>
           step'[w] = "acking" /\ Message(w)'.entry = Message(w).entry
  PROVE  Single(t)' /\ Finished(t)'
<1>1. Single(t) /\ Finished(t)
  BY DEF CInv
<1>2. Single(t)'
  BY <1>1 DEF Single
<1>3. Finished(t)'
  <2> SUFFICES ASSUME t \in done, NEW i \in Living(t)'
               PROVE  \E w \in Workers : step'[w] = "acking" /\ Message(w)'.entry = i
    BY <1>1 DEF Finished
  <2>1. PICK w \in Workers : step[w] = "acking" /\ Message(w).entry = i
    BY <1>1 DEF Finished
  <2> QED
    BY <2>1
<1> QED
  BY <1>2, <1>3

\* The workers stand still.
LEMMA WorkersStill ==
  ASSUME QInv, QInv', CInv, UNCHANGED worker, UNCHANGED <<tried, dead>>,
         \A i \in Entries : pel'[i].count = pel[i].count,
         StreamGrows, disturbed \subseteq disturbed'
  PROVE  /\ IdleHoldsNothing' /\ HeldIsPending' /\ HeldOnce'
         /\ Attempts' /\ Counts' /\ BuryingHasFailed' /\ DeadLettersHaveFailed'
<1>0. UNCHANGED <<batch, step>> /\ Ranges /\ Batches
  BY QRanges, QBatches DEF worker
<1>1. \A i \in Entries : tried[i] \in 0..RetryLimit /\ pel[i].count \in 0..RetryLimit
  BY <1>0 DEF Ranges
<1>2. Shrinks
  <2>1. \A v \in Workers : \A k \in Slots(v)' :
          k + 0 \in Slots(v) /\ batch'[v][k].entry = batch[v][k + 0].entry
    BY <1>0 DEF Slots
  <2> QED
    BY <2>1 DEF Shrinks
<1>3. IdleHoldsNothing' /\ BuryingHasFailed'
  <2>1. IdleHoldsNothing'
    BY <1>0 DEF CInv, IdleHoldsNothing
  <2>2. ASSUME NEW w \in Workers, step[w] = "burying"
        PROVE  Message(w).entry \in 1..Len(stream)
    BY <2>2, MessageDelivered, <1>0 DEF QInv, Busy, Ranges
  <2>3. BuryingHasFailed'
    BY <1>0, <2>2 DEF CInv, BuryingHasFailed, Calm, Message, StreamGrows
  <2> QED
    BY <2>1, <2>3
<1>4. /\ HeldOnce'
      /\ \A w \in Workers : \A k \in Slots(w)' : \A i :
           i = batch'[w][k].entry =>
             /\ i \in 1..Len(stream) /\ Taken(i)
             /\ Calm(i)' => Calm(i) /\ Pending(i)
  BY <1>2, ShrinkHeld
<1>5. HeldIsPending'
  <2> SUFFICES ASSUME NEW w \in Workers, NEW k \in Slots(w)', NEW i,
                      i = batch'[w][k].entry, Calm(i)'
               PROVE  Pending(i)'
    BY DEF HeldIsPending, Calm, Pending
  <2> QED
    BY <1>0, <1>4 DEF Pending, Ranges
<1>6. Counts'
  <2> SUFFICES ASSUME NEW w \in Workers, NEW k \in Slots(w)', NEW i,
                      i = batch'[w][k].entry, Calm(i)'
               PROVE  batch'[w][k].count <= tried'[i] + 1
    BY DEF Counts, Calm
  <2>1. Calm(i) /\ batch'[w][k] = batch[w][k] /\ k \in Slots(w)
    BY <1>0, <1>4 DEF Slots
  <2> QED
    BY <2>1 DEF CInv, Counts
<1>7. \A i \in 1..Len(stream) : Taken(i)' <=> Taken(i)
  BY <1>0 DEF Taken, Slots
<1>8. Attempts'
  BY <1>1, <1>7, AttemptsKept
<1>9. DeadLettersHaveFailed'
  BY <1>1, LettersKept
<1> QED
  BY <1>3, <1>4, <1>5, <1>6, <1>8, <1>9

-----------------------------------------------------------------------------
(* The API server and the administrators.                                  *)

\* One more entry, of a task there was nothing left of, or one letter less
LEMMA Appending ==
  ASSUME QInv, QInv', CInv, UNCHANGED <<worker, pel, delivered, dead, tried, done>>,
         NEW x \in Tasks, stream' = Append(stream, x), x \in offered',
         offered \subseteq offered', removed \subseteq removed', disturbed \subseteq disturbed',
         x \notin disturbed' => Living(x) = {} /\ Letters(x)' = {} /\ x \notin done
  PROVE  CInv'
<1>1. Ranges /\ StreamGrows
  BY QRanges DEF Ranges, StreamGrows, QInv, RedisTypes
<1>2. /\ IdleHoldsNothing' /\ HeldIsPending' /\ HeldOnce'
      /\ Attempts' /\ Counts' /\ BuryingHasFailed' /\ DeadLettersHaveFailed'
  BY <1>1, WorkersStill
<1>3. /\ Len(stream') = Len(stream) + 1 /\ stream'[Len(stream) + 1] = x
      /\ \A i \in 1..Len(stream) : stream'[i] = stream[i]
  BY DEF QInv, RedisTypes
<1>4. OfferedFirst'
  <2>1. \A i \in 1..Len(stream') : i \in 1..Len(stream) \/ i = Len(stream) + 1
    BY <1>1, <1>3 DEF Ranges
  <2> QED
    BY <1>3, <2>1 DEF CInv, OfferedFirst
<1>5. ASSUME NEW t \in Tasks, t # x, t \notin disturbed'
      PROVE  Single(t)' /\ Finished(t)'
  <2>1. Living(t)' \subseteq Living(t)
    BY <1>1, <1>3, <1>5 DEF Living, Pending, Ranges
  <2>2. Letters(t)' \subseteq Letters(t)
    BY DEF Letters
  <2>3. \A w \in Workers : step'[w] = step[w] /\ Message(w)' = Message(w)
    BY DEF worker, Message
  <2> QED
    BY <1>5, <2>1, <2>2, <2>3, CopiesKept
<1>6. ASSUME x \notin disturbed'
      PROVE  Single(x)' /\ Finished(x)'
  <2>1. Living(x)' \subseteq {Len(stream) + 1}
    BY <1>1, <1>3, <1>6 DEF Living, Pending, Ranges
  <2> QED
    BY <1>6, <2>1 DEF Single, Finished
<1> QED
  BY <1>2, <1>4, <1>5, <1>6 DEF CInv

\* The stream and the dead letters as they were
LEMMA Elsewhere ==
  ASSUME QInv, QInv', CInv, UNCHANGED <<worker, redis, tried, done, disturbed>>,
         offered \subseteq offered'
  PROVE  CInv'
<1>1. StreamGrows /\ UNCHANGED <<stream, delivered, pel, dead, removed>>
  BY QRanges DEF StreamGrows, redis, Ranges
<1>2. /\ IdleHoldsNothing' /\ HeldIsPending' /\ HeldOnce'
      /\ Attempts' /\ Counts' /\ BuryingHasFailed' /\ DeadLettersHaveFailed'
  BY <1>1, WorkersStill
<1>3. ASSUME NEW t \in Tasks, t \notin disturbed'
      PROVE  Single(t)' /\ Finished(t)'
  <2>1. Living(t)' \subseteq Living(t) /\ Letters(t)' \subseteq Letters(t)
    BY <1>1 DEF Living, Letters, Pending
  <2>2. \A w \in Workers : step'[w] = step[w] /\ Message(w)' = Message(w)
    BY DEF worker, Message
  <2> QED
    BY <1>3, <2>1, <2>2, CopiesKept
<1>4. OfferedFirst'
  BY <1>1 DEF CInv, OfferedFirst
<1> QED
  BY <1>2, <1>3, <1>4 DEF CInv

\* Nothing is left of a task that was never offered.
LEMMA Unoffered ==
  ASSUME QInv, CInv, NEW t \in Tasks, t \notin offered
  PROVE  Living(t) = {} /\ Letters(t) = {} /\ t \notin done
  BY DEF CInv, OfferedFirst, Living, Letters

LEMMA CServerStep ==
  ASSUME QInv, QInv', CInv,
         \/ \E t \in Tasks : Upload(t) \/ Enqueue(t) \/ EnqueueFails(t)
         \/ \E a \in Admins : AdminRequeue(a) \/ \E d \in 1..Len(dead) : AdminRead(a, d)
  PROVE  CInv'
<1>1. ASSUME NEW t \in Tasks, Upload(t)
      PROVE  CInv'
  BY <1>1, Elsewhere DEF Upload, history
<1>2. ASSUME NEW t \in Tasks, Enqueue(t)
      PROVE  CInv'
  <2>1. Living(t) = {} /\ Letters(t) = {} /\ t \notin done
    BY <1>2, Unoffered DEF Enqueue
  <2>2. Letters(t)' = {}
    BY <1>2, <2>1 DEF Enqueue, Letters
  <2> QED
    BY <1>2, <2>1, <2>2, Appending DEF Enqueue, history
<1>3. ASSUME NEW t \in Tasks, EnqueueFails(t)
      PROVE  CInv'
  <2>1. Living(t) = {} /\ Letters(t) = {} /\ t \notin done
    BY <1>3, Unoffered DEF EnqueueFails
  <2>2. Letters(t)' = {}
    BY <1>3, <2>1 DEF EnqueueFails, Letters
  <2>3. CASE UNCHANGED stream
    BY <1>3, <2>3, Elsewhere DEF EnqueueFails, history, redis
  <2>4. CASE stream' = Append(stream, t)
    BY <1>3, <2>1, <2>2, <2>4, Appending DEF EnqueueFails, history
  <2> QED
    BY <1>3, <2>3, <2>4 DEF EnqueueFails
<1>4. ASSUME NEW a \in Admins, AdminRequeue(a)
      PROVE  CInv'
  <2>1. reading[a] \in 1..Len(dead) /\ dead[reading[a]] \in Tasks
    BY <1>4 DEF AdminRequeue, QInv, OtherTypes, RedisTypes
  <2> SUFFICES ASSUME NEW d \in 1..Len(dead), d = reading[a], NEW x \in Tasks, x = dead[d]
               PROVE  CInv'
    BY <2>1
  <2>2. /\ stream' = Append(stream, x) /\ removed' = removed \cup {d}
        /\ disturbed' = disturbed \cup (IF d \in removed THEN {x} ELSE {})
        /\ UNCHANGED <<worker, pel, delivered, dead, tried, done, offered>>
    BY <1>4 DEF AdminRequeue, Disturb
  <2>3. x \in offered
    BY <2>1 DEF CInv, OfferedFirst
  <2>4. ASSUME x \notin disturbed'
        PROVE  Living(x) = {} /\ Letters(x)' = {} /\ x \notin done
    <3>0. d \notin removed /\ x \notin disturbed
      BY <2>2, <2>4
    <3>1. d \in Letters(x)
      BY <2>1, <3>0 DEF Letters
    <3>2. \A t \in Tasks : t \notin disturbed => Single(t) /\ Finished(t)
      BY DEF CInv
    <3>3. Living(x) = {} /\ x \notin done /\ \A e \in Letters(x) : e = d
      BY <2>1, <3>0, <3>1, <3>2 DEF Single, Finished
    <3>4. Letters(x)' = {}
      BY <2>2, <3>3 DEF Letters
    <3> QED
      BY <3>3, <3>4
  <2>5. offered \subseteq offered' /\ removed \subseteq removed' /\ disturbed \subseteq disturbed'
    BY <2>2
  <2> QED
    BY <2>1, <2>2, <2>3, <2>4, <2>5, Appending
<1>5. ASSUME NEW a \in Admins, NEW d \in 1..Len(dead), AdminRead(a, d)
      PROVE  CInv'
  BY <1>5, Elsewhere DEF AdminRead, history
<1> QED
  BY <1>1, <1>2, <1>3, <1>4, <1>5

-----------------------------------------------------------------------------
(* A worker lets go of messages.                                           *)

\* As Shrinks, with the counts the messages carry
ShrinksAlike ==
  \A v \in Workers : \E o \in Nat : \A k \in Slots(v)' :
    k + o \in Slots(v) /\ batch'[v][k] = batch[v][k + o]

LEMMA Alike ==
  ASSUME QInv, CInv, ShrinksAlike, StreamGrows, disturbed \subseteq disturbed',
         \A i \in Entries : tried[i] <= tried'[i] /\ tried'[i] \in 0..RetryLimit
  PROVE  Shrinks /\ Counts'
<1>1. Shrinks
  BY DEF Shrinks, ShrinksAlike
<1>2. Batches /\ Ranges /\ Counts
  BY QBatches, QRanges DEF CInv
<1>3. Counts'
  <2> SUFFICES ASSUME NEW w \in Workers, NEW k \in Slots(w)', NEW i,
                      i = batch'[w][k].entry, Calm(i)'
               PROVE  batch'[w][k].count <= tried'[i] + 1
    BY DEF Counts, Calm
  <2>1. PICK m \in Slots(w) : batch'[w][k] = batch[w][m]
    BY DEF ShrinksAlike
  <2>2. i = batch[w][m].entry /\ i \in 1..Len(stream) /\ batch[w][m].count \in 0..RetryLimit
    BY <1>2, <2>1 DEF Batches
  <2>3. Calm(i)
    BY <2>2 DEF Calm, StreamGrows
  <2>4. batch[w][m].count <= tried[i] + 1
    BY <1>2, <2>2, <2>3 DEF Counts
  <2>5. i \in Entries /\ tried[i] \in 0..RetryLimit
    BY <1>2, <2>2 DEF Ranges
  <2>6. tried[i] <= tried'[i] /\ tried'[i] \in 0..RetryLimit
    BY <2>5
  <2>7. batch'[w][k].count <= tried'[i] + 1
    <3> DEFINE c == batch[w][m].count
               d == tried[i]
               e == tried'[i]
    <3>1. c \in Nat /\ d \in Nat /\ e \in Nat /\ c <= d + 1 /\ d <= e
      BY <2>2, <2>4, <2>5, <2>6, LimitAssumption
    <3>2. batch'[w][k].count = c
      BY <2>1
    <3> HIDE DEF c, d, e
    <3>3. c <= e + 1
      BY <3>1
    <3> QED
      BY <3>2, <3>3 DEF e
  <2> QED
    BY <2>7
<1> QED
  BY <1>1, <1>3

\* w drops its first message.
LEMMA TailShrinks ==
  ASSUME WorkerTypes, NEW w \in Workers, batch[w] # <<>>,
         batch' = [batch EXCEPT ![w] = Tail(batch[w])]
  PROVE  /\ ShrinksAlike
         /\ \A i : Taken(i) /\ ~Taken(i)' => i = Message(w).entry
         /\ \A i : Taken(i)' => \E v \in Workers : \E m \in Slots(v) :
              batch[v][m].entry = i /\ ~(v = w /\ m = 1)
<1>1. /\ batch[w] \in Seq(Messages) /\ batch'[w] = Tail(batch[w])
      /\ \A v \in Workers \ {w} : batch'[v] = batch[v]
  BY DEF WorkerTypes
<1>0. \A s \in Seq(Messages) : s # <<>> =>
        /\ Len(s) \in Nat /\ Len(Tail(s)) = Len(s) - 1
        /\ \A k \in 1..Len(Tail(s)) : Tail(s)[k] = s[k + 1]
  OBVIOUS
<1>a. /\ Len(batch[w]) \in Nat /\ Len(batch'[w]) = Len(batch[w]) - 1
      /\ \A k \in 1..Len(batch'[w]) : batch'[w][k] = batch[w][k + 1]
  BY <1>0, <1>1
<1>2. \A k \in Slots(w)' : k + 1 \in Slots(w) /\ batch'[w][k] = batch[w][k + 1]
  BY <1>a DEF Slots
<1>3. \A k \in Slots(w) : k = 1 \/ (k - 1 \in Slots(w)' /\ batch'[w][k - 1] = batch[w][k])
  BY <1>a DEF Slots
<1>4. ShrinksAlike
  <2>1. ASSUME NEW v \in Workers, v # w
        PROVE  \A k \in Slots(v)' : k + 0 \in Slots(v) /\ batch'[v][k] = batch[v][k + 0]
    BY <1>1, <2>1 DEF Slots
  <2> QED
    BY <1>2, <2>1 DEF ShrinksAlike
<1>5. ASSUME NEW i, Taken(i), ~Taken(i)'
      PROVE  i = Message(w).entry
  <2>1. PICK v \in Workers : \E k \in Slots(v) : batch[v][k].entry = i
    BY <1>5 DEF Taken
  <2>2. v = w
    BY <1>1, <1>5, <2>1 DEF Taken, Slots
  <2>3. PICK k \in Slots(w) : batch[w][k].entry = i
    BY <2>1, <2>2
  <2>4. k = 1
    BY <1>3, <1>5, <2>3 DEF Taken
  <2> QED
    BY <1>1, <2>3, <2>4 DEF Message
<1>6. ASSUME NEW i, Taken(i)'
      PROVE  \E v \in Workers : \E m \in Slots(v) : batch[v][m].entry = i /\ ~(v = w /\ m = 1)
  <2>1. PICK v \in Workers : \E k \in Slots(v)' : batch'[v][k].entry = i
    BY <1>6 DEF Taken
  <2>2. PICK k \in Slots(v)' : batch'[v][k].entry = i
    BY <2>1
  <2>3. CASE v = w
    <3>1. k + 1 \in Slots(w) /\ batch[w][k + 1].entry = i /\ k + 1 # 1
      BY <1>2, <2>2, <2>3 DEF Slots
    <3> QED
      BY <3>1
  <2>4. CASE v # w
    BY <1>1, <2>2, <2>4 DEF Slots
  <2> QED
    BY <2>3, <2>4
<1> QED
  BY <1>4, <1>5, <1>6

\* w drops all it has.
LEMMA EmptyShrinks ==
  ASSUME WorkerTypes, NEW w \in Workers, batch' = [batch EXCEPT ![w] = <<>>]
  PROVE  /\ ShrinksAlike
         /\ \A i : Taken(i) /\ ~Taken(i)' => \E k \in Slots(w) : batch[w][k].entry = i
<1>1. batch'[w] = <<>> /\ \A v \in Workers \ {w} : batch'[v] = batch[v]
  BY DEF WorkerTypes
<1>2. ShrinksAlike
  <2>1. Slots(w)' = {}
    BY <1>1 DEF Slots
  <2>2. ASSUME NEW v \in Workers, v # w
        PROVE  \A k \in Slots(v)' : k + 0 \in Slots(v) /\ batch'[v][k] = batch[v][k + 0]
    BY <1>1, <2>2 DEF Slots
  <2>3. \A v \in Workers : \A k \in Slots(v)' : k + 0 \in Slots(v) /\ batch'[v][k] = batch[v][k + 0]
    BY <2>1, <2>2
  <2> QED
    BY <2>3 DEF ShrinksAlike
<1>3. \A i : Taken(i) /\ ~Taken(i)' => \E k \in Slots(w) : batch[w][k].entry = i
  BY <1>1 DEF Taken, Slots
<1> QED
  BY <1>2, <1>3

\* What a worker that lets go, or turns to its next message, leaves in order
LEMMA LettingGo ==
  ASSUME QInv, QInv', CInv, NEW w \in Workers, Shrinks, Counts',
         UNCHANGED <<stream, delivered>>, disturbed \subseteq disturbed',
         \A v \in Workers \ {w} : batch'[v] = batch[v] /\ step'[v] = step[v],
         step'[w] \in {"down", "call"} => batch'[w] = <<>>, step'[w] # "burying",
         \A i \in Entries : tried[i] <= tried'[i] /\ pel'[i].count <= pel[i].count,
         \A i \in 1..Len(stream) :
           Taken(i) /\ ~Taken(i)' /\ Calm(i)' => pel'[i].count <= tried'[i],
         \A i \in 1..Len(stream) : Taken(i)' /\ Calm(i)' /\ Pending(i) => Pending(i)'
  PROVE  IdleHoldsNothing' /\ HeldIsPending' /\ HeldOnce' /\ Attempts' /\ BuryingHasFailed'
<1>1. StreamGrows /\ Ranges /\ Ranges'
  BY QRanges, QRangesNext DEF StreamGrows, Ranges
<1>2. /\ HeldOnce'
      /\ \A v \in Workers : \A k \in Slots(v)' : \A i :
           i = batch'[v][k].entry =>
             /\ i \in 1..Len(stream) /\ Taken(i)
             /\ Calm(i)' => Calm(i) /\ Pending(i)
  BY <1>1, ShrinkHeld
<1>3. IdleHoldsNothing'
  BY DEF CInv, IdleHoldsNothing
<1>4. HeldIsPending'
  <2> SUFFICES ASSUME NEW v \in Workers, NEW k \in Slots(v)', NEW i,
                      i = batch'[v][k].entry, Calm(i)'
               PROVE  Pending(i)'
    BY DEF HeldIsPending, Calm, Pending
  <2>1. Taken(i)'
    BY DEF Taken
  <2> QED
    BY <1>2, <2>1
<1>5. Attempts'
  BY <1>1, AttemptsKept
<1>6. BuryingHasFailed'
  <2> SUFFICES ASSUME NEW v \in Workers, step'[v] = "burying", NEW i,
                      i = Message(v)'.entry, Calm(i)'
               PROVE  tried'[i] >= RetryLimit
    BY DEF BuryingHasFailed, Calm
  <2>1. v # w /\ step[v] = "burying" /\ i = Message(v).entry
    BY DEF Message
  <2>2. i \in 1..Len(stream)
    BY <2>1, MessageDelivered, <1>1 DEF QInv, Busy, Ranges
  <2>3. Calm(i)
    BY <2>2 DEF Calm
  <2>4. tried[i] >= RetryLimit
    BY <2>1, <2>3 DEF CInv, BuryingHasFailed
  <2>5. i \in Entries /\ tried[i] \in 0..RetryLimit /\ tried'[i] \in 0..RetryLimit
    BY <1>1, <2>2 DEF Ranges
  <2> QED
    BY <2>4, <2>5, LimitAssumption
<1> QED
  BY <1>2, <1>3, <1>4, <1>5, <1>6

\* The dead letters stay as they are, and what w was about to acknowledge is
\* acknowledged or disturbed.
LEMMA MovingOn ==
  ASSUME QInv, QInv', CInv, NEW w \in Workers, Shrinks, Counts',
         UNCHANGED <<stream, delivered, dead, removed, done, offered>>,
         disturbed \subseteq disturbed',
         \A v \in Workers \ {w} : batch'[v] = batch[v] /\ step'[v] = step[v],
         step'[w] \in {"down", "call"} => batch'[w] = <<>>, step'[w] # "burying",
         \A i \in Entries : tried[i] <= tried'[i] /\ pel'[i].count <= pel[i].count,
         \A i \in 1..Len(stream) :
           Taken(i) /\ ~Taken(i)' /\ Calm(i)' => pel'[i].count <= tried'[i],
         \A i \in 1..Len(stream) : Taken(i)' /\ Calm(i)' /\ Pending(i) => Pending(i)',
         step[w] = "acking" =>
           TaskOf(w) \in disturbed' \/ \A i : i = Message(w).entry => ~Pending(i)'
  PROVE  CInv'
<1>1. IdleHoldsNothing' /\ HeldIsPending' /\ HeldOnce' /\ Attempts' /\ BuryingHasFailed'
  BY LettingGo
<1>2. StreamGrows /\ Ranges /\ Ranges'
  BY QRanges, QRangesNext DEF StreamGrows, Ranges
<1>3. DeadLettersHaveFailed'
  BY <1>2, LettersKept DEF Ranges
<1>4. ASSUME NEW t \in Tasks, t \notin disturbed'
      PROVE  Single(t)' /\ Finished(t)'
  <2>1. \A i \in 1..Len(stream) : Pending(i)' => Pending(i)
    <3> SUFFICES ASSUME NEW i \in 1..Len(stream), Pending(i)'
                 PROVE  Pending(i)
      OBVIOUS
    <3>1. i \in Entries /\ pel[i].count \in Nat /\ pel'[i].count \in Nat
      BY <1>2 DEF Ranges
    <3> QED
      BY <3>1 DEF Pending
  <2>2. Living(t)' \subseteq Living(t) /\ Letters(t)' \subseteq Letters(t)
    BY <2>1 DEF Living, Letters
  <2>3. ASSUME NEW v \in Workers, step[v] = "acking", Message(v).entry \in Living(t)'
        PROVE  step'[v] = "acking" /\ Message(v)'.entry = Message(v).entry
    <3>1. TaskOf(v) = t
      BY <2>3 DEF Living, TaskOf
    <3>2. Message(v).entry \in 1..delivered /\ delivered \in Nat
      BY <2>3, MessageDelivered DEF QInv, Busy, RedisTypes
    <3>3. \A i : i = Message(v).entry => Pending(i)'
      BY <2>3, <3>2 DEF Living
    <3>4. v # w
      BY <1>4, <2>3, <3>1, <3>3
    <3> QED
      BY <2>3, <3>4 DEF Message
  <2> QED
    BY <1>4, <2>2, <2>3, CopiesKept
<1>5. OfferedFirst'
  BY DEF CInv, OfferedFirst
<1> QED
  BY <1>1, <1>3, <1>4, <1>5 DEF CInv

\* What Held says, entry by entry
LEMMA HeldEntries ==
  ASSUME QInv, NEW w \in Workers, NEW k \in Slots(w)
  PROVE  stream[batch[w][k].entry] \in Held(w)
<1>1. DOMAIN batch[w] = Slots(w)
  BY DEF QInv, WorkerTypes, Slots
<1> QED
  BY <1>1 DEF Held

\* A worker dies, or loses its batch to an error.
LEMMA LosingStep ==
  ASSUME QInv, QInv', CInv, NEW w \in Workers,
         Dies(w) \/ CountFails(w)
  PROVE  CInv'
<1>1. /\ batch' = [batch EXCEPT ![w] = <<>>] /\ step'[w] \in {"down", "call"}
      /\ UNCHANGED <<redis, offered, done, tried>> /\ disturbed' = disturbed \cup Held(w)
      /\ \A v \in Workers \ {w} : step'[v] = step[v]
  BY DEF Dies, CountFails, GoOn, Disturb, QInv, WorkerTypes
<1>2. WorkerTypes /\ Ranges /\ Ranges' /\ StreamGrows /\ UNCHANGED <<stream, delivered, pel, dead, removed>>
  BY <1>1, QRanges, QRangesNext DEF QInv, StreamGrows, redis, Ranges
<1>3. ShrinksAlike /\ \A i : Taken(i) /\ ~Taken(i)' => \E k \in Slots(w) : batch[w][k].entry = i
  BY <1>1, <1>2, EmptyShrinks
<1>4. \A i \in Entries : /\ tried[i] <= tried'[i] /\ tried'[i] \in 0..RetryLimit
                         /\ pel'[i].count <= pel[i].count
  BY <1>1, <1>2 DEF Ranges
<1>5. Shrinks /\ Counts'
  BY <1>1, <1>2, <1>3, <1>4, Alike
<1>6. \A i \in 1..Len(stream) : Taken(i) /\ ~Taken(i)' /\ Calm(i)' => pel'[i].count <= tried'[i]
  BY <1>1, <1>2, <1>3, HeldEntries DEF Calm
<1>7. /\ batch'[w] = <<>> /\ \A v \in Workers \ {w} : batch'[v] = batch[v] /\ step'[v] = step[v]
      /\ step'[w] # "burying"
  BY <1>1, <1>2 DEF WorkerTypes
<1>8. step[w] = "acking" => TaskOf(w) \in disturbed'
  <2> SUFFICES ASSUME step[w] = "acking" PROVE TaskOf(w) \in disturbed'
    OBVIOUS
  <2>1. batch[w] \in Seq(Messages) /\ batch[w] # <<>>
    BY DEF QInv, Holds, Busy, WorkerTypes
  <2>2. 1 \in Slots(w) /\ Message(w) = batch[w][1]
    BY <2>1 DEF Slots, Message
  <2> QED
    BY <1>1, <2>2, HeldEntries DEF TaskOf
<1>9. \A i \in 1..Len(stream) : Pending(i) => Pending(i)'
  BY <1>2 DEF Pending
<1> QED
  BY <1>1, <1>2, <1>4, <1>5, <1>6, <1>7, <1>8, <1>9, MovingOn

\* A call that brings nothing, and a start
LEMMA EmptyStep ==
  ASSUME QInv, QInv', CInv, NEW w \in Workers, step[w] \in {"down", "call"},
         batch' = [batch EXCEPT ![w] = <<>>], step' = [step EXCEPT ![w] = "call"],
         UNCHANGED <<redis, offered, done, tried, disturbed>>
  PROVE  CInv'
<1>2. WorkerTypes /\ Ranges /\ Ranges' /\ StreamGrows /\ UNCHANGED <<stream, delivered, pel, dead, removed>>
  BY QRanges, QRangesNext DEF QInv, StreamGrows, redis, Ranges
<1>3. ShrinksAlike /\ \A i : Taken(i) /\ ~Taken(i)' => \E k \in Slots(w) : batch[w][k].entry = i
  BY <1>2, EmptyShrinks
<1>4. \A i \in Entries : /\ tried[i] <= tried'[i] /\ tried'[i] \in 0..RetryLimit
                         /\ pel'[i].count <= pel[i].count
  BY <1>2 DEF Ranges
<1>5. Shrinks /\ Counts'
  BY <1>2, <1>3, <1>4, Alike
<1>6. Slots(w) = {}
  BY DEF CInv, IdleHoldsNothing, Slots
<1>7. /\ batch'[w] = <<>> /\ \A v \in Workers \ {w} : batch'[v] = batch[v] /\ step'[v] = step[v]
      /\ step'[w] = "call" /\ step[w] # "acking"
  BY <1>2 DEF WorkerTypes
<1>9. \A i \in 1..Len(stream) : Pending(i) => Pending(i)'
  BY <1>2 DEF Pending
<1> QED
  BY <1>2, <1>3, <1>4, <1>5, <1>6, <1>7, <1>9, MovingOn

-----------------------------------------------------------------------------
(* The steps between two calls.                                            *)

LEMMA CountStep ==
  ASSUME QInv, QInv', CInv, NEW w \in Workers, Count(w)
  PROVE  CInv'
<1> DEFINE counted(m) == [m EXCEPT !.count = IF Pending(m.entry) THEN pel[m.entry].count ELSE 1]
           rest == [k \in DOMAIN batch[w] |-> counted(batch[w][k])]
<1>1. /\ step[w] = "counting" /\ GoOn(w, rest)
      /\ UNCHANGED <<redis, offered, done, tried, disturbed>>
  BY DEF Count, history
<1>2. /\ WorkerTypes /\ Ranges /\ Ranges' /\ StreamGrows /\ Batches
      /\ UNCHANGED <<stream, delivered, pel, dead, removed>>
  BY <1>1, QRanges, QRangesNext, QBatches DEF QInv, StreamGrows, redis, Ranges
<1>3. /\ batch'[w] = rest /\ DOMAIN batch[w] = Slots(w) /\ Len(rest) = Len(batch[w])
      /\ \A v \in Workers \ {w} : batch'[v] = batch[v] /\ step'[v] = step[v]
      /\ step'[w] = IF rest = <<>> THEN "call" ELSE "working"
  BY <1>1, <1>2 DEF GoOn, WorkerTypes, Slots
<1>4. \A k \in Slots(w) : rest[k] = counted(batch[w][k])
  BY <1>3
<1>5. \A m \in Messages : counted(m).entry = m.entry
        /\ counted(m).count = IF Pending(m.entry) THEN pel[m.entry].count ELSE 1
  BY DEF Messages
<1> HIDE DEF counted, rest
<1>6. /\ Slots(w)' = Slots(w)
      /\ \A k \in Slots(w) :
           /\ batch'[w][k].entry = batch[w][k].entry
           /\ batch'[w][k].count = IF Pending(batch[w][k].entry)
                                   THEN pel[batch[w][k].entry].count ELSE 1
  BY <1>2, <1>3, <1>4, <1>5 DEF Slots, Batches
<1>7. \A v \in Workers : Slots(v)' = Slots(v) /\ \A k \in Slots(v) : batch'[v][k].entry = batch[v][k].entry
  BY <1>3, <1>6 DEF Slots
<1>8. Shrinks
  <2>1. \A v \in Workers : \A k \in Slots(v)' :
          k + 0 \in Slots(v) /\ batch'[v][k].entry = batch[v][k + 0].entry
    BY <1>7 DEF Slots
  <2> QED
    BY <2>1 DEF Shrinks
<1>9. Counts'
  <2> SUFFICES ASSUME NEW v \in Workers, NEW k \in Slots(v)', NEW i,
                      i = batch'[v][k].entry, Calm(i)'
               PROVE  batch'[v][k].count <= tried'[i] + 1
    BY DEF Counts, Calm
  <2>1. k \in Slots(v) /\ i = batch[v][k].entry /\ i \in 1..Len(stream) /\ Calm(i)
    BY <1>1, <1>2, <1>7 DEF Batches, Calm
  <2>2. CASE v = w
    <3>1. Pending(i)
      BY <2>1 DEF CInv, HeldIsPending
    <3>2. batch'[v][k].count = pel[i].count
      BY <1>6, <2>1, <2>2, <3>1
    <3>3. pel[i].count <= tried[i] + 1
      BY <2>1 DEF CInv, Attempts
    <3> QED
      BY <1>1, <3>2, <3>3
  <2>3. CASE v # w
    BY <1>1, <1>3, <2>1, <2>3 DEF CInv, Counts
  <2> QED
    BY <2>2, <2>3
<1>10. \A i : Taken(i)' <=> Taken(i)
  BY <1>7 DEF Taken
<1>11. \A i \in Entries : tried[i] <= tried'[i] /\ pel'[i].count <= pel[i].count
  BY <1>1, <1>2 DEF Ranges
<1>12. \A i \in 1..Len(stream) : Pending(i) => Pending(i)'
  BY <1>2 DEF Pending
<1> QED
  BY <1>1, <1>2, <1>3, <1>8, <1>9, <1>10, <1>11, <1>12, MovingOn

\* w passes over its first message, which failed or is disturbed.
LEMMA PassingStep ==
  ASSUME QInv, QInv', CInv, NEW w \in Workers, Busy(w), GoOn(w, Tail(batch[w])),
         UNCHANGED <<redis, offered, done>>, disturbed \subseteq disturbed',
         \A i \in Entries : tried[i] <= tried'[i],
         \A i \in 1..Len(stream) :
           i = Message(w).entry /\ stream[i] \notin disturbed' => pel[i].count <= tried'[i],
         step[w] = "acking" => TaskOf(w) \in disturbed'
  PROVE  CInv'
<1>1. batch' = [batch EXCEPT ![w] = Tail(batch[w])] /\ batch[w] # <<>>
  BY DEF GoOn, QInv, Holds
<1>2. /\ WorkerTypes /\ Ranges /\ Ranges' /\ StreamGrows
      /\ UNCHANGED <<stream, delivered, pel, dead, removed>>
  BY QRanges, QRangesNext DEF QInv, StreamGrows, redis, Ranges
<1>3. ShrinksAlike /\ \A i : Taken(i) /\ ~Taken(i)' => i = Message(w).entry
  BY <1>1, <1>2, TailShrinks
<1>4. \A i \in Entries : tried'[i] \in 0..RetryLimit /\ pel'[i].count <= pel[i].count
  BY <1>2 DEF Ranges
<1>5. Shrinks /\ Counts'
  BY <1>2, <1>3, <1>4, Alike
<1>6. \A i \in 1..Len(stream) : Taken(i) /\ ~Taken(i)' /\ Calm(i)' => pel'[i].count <= tried'[i]
  BY <1>2, <1>3 DEF Calm
<1>7. /\ \A v \in Workers \ {w} : batch'[v] = batch[v] /\ step'[v] = step[v]
      /\ step'[w] \in {"down", "call"} => batch'[w] = <<>>
      /\ step'[w] # "burying"
  BY <1>2 DEF GoOn, WorkerTypes
<1>8. \A i \in 1..Len(stream) : Pending(i) => Pending(i)'
  BY <1>2 DEF Pending
<1> QED
  BY <1>2, <1>4, <1>5, <1>6, <1>7, <1>8, MovingOn

\* w turns to the end of its first message.
LEMMA TurningStep ==
  ASSUME QInv, QInv', CInv, NEW w \in Workers, step[w] = "working",
         step' = [step EXCEPT ![w] = "acking"] \/ step' = [step EXCEPT ![w] = "burying"],
         UNCHANGED <<redis, batch, offered, disturbed>>,
         \A i \in Entries : tried[i] <= tried'[i]
  PROVE  /\ IdleHoldsNothing' /\ HeldIsPending' /\ HeldOnce' /\ Attempts' /\ Counts'
         /\ DeadLettersHaveFailed'
         /\ step'[w] \in {"acking", "burying"}
         /\ \A v \in Workers \ {w} : step'[v] = step[v]
         /\ \A v \in Workers : Message(v)' = Message(v)
         /\ \A t \in Tasks : Living(t)' = Living(t) /\ Letters(t)' = Letters(t)
<1>2. /\ WorkerTypes /\ Ranges /\ Ranges' /\ StreamGrows
      /\ UNCHANGED <<stream, delivered, pel, dead, removed>>
  BY QRanges, QRangesNext DEF QInv, StreamGrows, redis, Ranges
<1>3. ShrinksAlike
  <2>1. \A v \in Workers : \A k \in Slots(v)' : k + 0 \in Slots(v) /\ batch'[v][k] = batch[v][k + 0]
    BY DEF Slots
  <2> QED
    BY <2>1 DEF ShrinksAlike
<1>4. \A i \in Entries : tried'[i] \in 0..RetryLimit /\ pel'[i].count <= pel[i].count
  BY <1>2 DEF Ranges
<1>5. Shrinks /\ Counts'
  BY <1>2, <1>3, <1>4, Alike
<1>6. /\ HeldOnce'
      /\ \A v \in Workers : \A k \in Slots(v)' : \A i :
           i = batch'[v][k].entry =>
             /\ i \in 1..Len(stream) /\ Taken(i)
             /\ Calm(i)' => Calm(i) /\ Pending(i)
  BY <1>2, <1>5, ShrinkHeld
<1>7. HeldIsPending'
  <2> SUFFICES ASSUME NEW v \in Workers, NEW k \in Slots(v)', NEW i,
                      i = batch'[v][k].entry, Calm(i)'
               PROVE  Pending(i)'
    BY DEF HeldIsPending, Calm, Pending
  <2> QED
    BY <1>2, <1>6 DEF Pending
<1>8. \A i : Taken(i)' <=> Taken(i)
  BY DEF Taken, Slots
<1>9. Attempts'
  BY <1>2, <1>4, <1>8, AttemptsKept
<1>10. DeadLettersHaveFailed'
  BY <1>2, <1>4, LettersKept
<1>11. /\ step'[w] \in {"acking", "burying"} /\ \A v \in Workers \ {w} : step'[v] = step[v]
       /\ \A v \in Workers : Message(v)' = Message(v)
  BY <1>2 DEF WorkerTypes, Message
<1>12. IdleHoldsNothing'
  BY <1>11 DEF CInv, IdleHoldsNothing
<1>13. \A t \in Tasks : Living(t)' = Living(t) /\ Letters(t)' = Letters(t)
  BY <1>2 DEF Living, Letters, Pending
<1> QED
  BY <1>5, <1>6, <1>7, <1>9, <1>10, <1>11, <1>12, <1>13

\* What the message at the front of w tells of its entry
LEMMA Front ==
  ASSUME QInv, CInv, NEW w \in Workers, Busy(w), NEW i, i = Message(w).entry
  PROVE  /\ i \in 1..Len(stream) /\ i \in Entries /\ TaskOf(w) = stream[i] /\ TaskOf(w) \in Tasks
         /\ Message(w).count \in 0..RetryLimit
         /\ 1 \in Slots(w) /\ batch[w][1] = Message(w)
         /\ Calm(i) => /\ Pending(i) /\ i \in Living(TaskOf(w))
                       /\ Message(w).count <= tried[i] + 1 /\ pel[i].count <= tried[i] + 1
<1>1. batch[w] \in Seq(Messages) /\ batch[w] # <<>>
  BY DEF QInv, Holds, WorkerTypes
<1>2. 1 \in Slots(w) /\ Message(w) = batch[w][1]
  BY <1>1 DEF Slots, Message
<1>3. i \in 1..Len(stream) /\ Message(w).count \in 0..RetryLimit
  BY <1>2, QBatches DEF Batches
<1>4. i \in Entries /\ TaskOf(w) = stream[i] /\ TaskOf(w) \in Tasks
  BY <1>3, QRanges DEF Ranges, TaskOf
<1>5. ASSUME Calm(i)
      PROVE  /\ Pending(i) /\ i \in Living(TaskOf(w))
             /\ Message(w).count <= tried[i] + 1 /\ pel[i].count <= tried[i] + 1
  <2>1. Pending(i)
    BY <1>2, <1>5 DEF CInv, HeldIsPending
  <2>2. i \in Living(TaskOf(w))
    BY <1>3, <1>4, <2>1 DEF Living
  <2>3. Message(w).count <= tried[i] + 1
    BY <1>2, <1>5 DEF CInv, Counts
  <2>4. pel[i].count <= tried[i] + 1
    BY <1>3, <1>5 DEF CInv, Attempts
  <2> QED
    BY <2>1, <2>2, <2>3, <2>4
<1> QED
  BY <1>2, <1>3, <1>4, <1>5

LEMMA SucceedStep ==
  ASSUME QInv, QInv', CInv, NEW w \in Workers, Succeed(w)
  PROVE  CInv'
<1>1. /\ step[w] = "working" /\ Busy(w) /\ step' = [step EXCEPT ![w] = "acking"]
      /\ UNCHANGED <<redis, batch, offered, disturbed, tried>> /\ done' = done \cup {TaskOf(w)}
  BY DEF Succeed, Busy
<1>2. Ranges /\ UNCHANGED <<stream, dead>>
  BY <1>1, QRanges DEF redis
<1>3. \A i \in Entries : tried[i] <= tried'[i]
  BY <1>1, <1>2 DEF Ranges
<1>4. /\ IdleHoldsNothing' /\ HeldIsPending' /\ HeldOnce' /\ Attempts' /\ Counts'
      /\ DeadLettersHaveFailed'
      /\ \A v \in Workers \ {w} : step'[v] = step[v]
      /\ \A v \in Workers : Message(v)' = Message(v)
      /\ \A t \in Tasks : Living(t)' = Living(t) /\ Letters(t)' = Letters(t)
  BY <1>1, <1>3, TurningStep
<1>5. step'[w] = "acking"
  BY <1>1 DEF QInv, WorkerTypes
<1>6. BuryingHasFailed'
  BY <1>1, <1>2, <1>4, <1>5 DEF CInv, BuryingHasFailed, Calm
<1>7. PICK i : i = Message(w).entry
  OBVIOUS
<1>8. i \in 1..Len(stream) /\ TaskOf(w) = stream[i] /\ TaskOf(w) \in Tasks
      /\ (Calm(i) => i \in Living(TaskOf(w)))
  BY <1>1, <1>7, Front
<1>9. OfferedFirst'
  BY <1>1, <1>2, <1>8 DEF CInv, OfferedFirst
<1>10. ASSUME NEW t \in Tasks, t \notin disturbed', t # TaskOf(w)
       PROVE  Single(t)' /\ Finished(t)'
  <2>1. t \in done' => t \in done
    BY <1>1, <1>10
  <2>2. \A v \in Workers : step[v] = "acking" => step'[v] = "acking"
    BY <1>4, <1>5
  <2> QED
    BY <1>1, <1>4, <1>10, <2>1, <2>2, CopiesKept
<1>11. ASSUME NEW t \in Tasks, t \notin disturbed', t = TaskOf(w)
       PROVE  Single(t)' /\ Finished(t)'
  <2>1. Calm(i) /\ t \notin disturbed
    BY <1>1, <1>8, <1>11 DEF Calm
  <2>2. Single(t) /\ i \in Living(t)
    BY <1>8, <1>11, <2>1 DEF CInv
  <2>3. Single(t)'
    BY <1>4, <2>2 DEF Single
  <2>4. Letters(t)' = {} /\ \A j \in Living(t)' : j = i
    BY <1>4, <2>2 DEF Single
  <2>5. step'[w] = "acking" /\ Message(w)'.entry = i
    BY <1>4, <1>5, <1>7
  <2> QED
    BY <2>3, <2>4, <2>5 DEF Finished
<1> QED
  BY <1>4, <1>6, <1>9, <1>10, <1>11 DEF CInv

LEMMA FailStep ==
  ASSUME QInv, QInv', CInv, NEW w \in Workers, Fail(w)
  PROVE  CInv'
<1> SUFFICES ASSUME NEW x, x = Message(w).entry
             PROVE  CInv'
  OBVIOUS
<1>1. /\ step[w] = "working" /\ Busy(w) /\ tried' = [tried EXCEPT ![x] = Bump(tried[x])]
      /\ UNCHANGED <<redis, offered, disturbed, done>>
  BY DEF Fail, Busy
<1>2. Ranges /\ Ranges' /\ UNCHANGED <<stream, dead, pel>>
  BY <1>1, QRanges, QRangesNext DEF redis
<1>3. /\ x \in 1..Len(stream) /\ x \in Entries /\ Message(w).count \in 0..RetryLimit
      /\ Calm(x) => Message(w).count <= tried[x] + 1 /\ pel[x].count <= tried[x] + 1
  BY <1>1, Front
<1>4. /\ tried[x] \in 0..RetryLimit
      /\ tried'[x] = IF tried[x] < RetryLimit THEN tried[x] + 1 ELSE tried[x]
      /\ \A i \in Entries \ {x} : tried'[i] = tried[i]
  BY <1>1, <1>2, <1>3, BumpValue DEF Ranges, QInv, OtherTypes
<1>5. \A i \in Entries : tried[i] <= tried'[i]
  BY <1>2, <1>4 DEF Ranges
<1>6. CASE /\ Message(w).count >= RetryLimit
           /\ step' = [step EXCEPT ![w] = "burying"] /\ UNCHANGED <<known, batch, turn>>
  <2>1. /\ IdleHoldsNothing' /\ HeldIsPending' /\ HeldOnce' /\ Attempts' /\ Counts'
        /\ DeadLettersHaveFailed'
        /\ \A v \in Workers \ {w} : step'[v] = step[v]
        /\ \A v \in Workers : Message(v)' = Message(v)
        /\ \A t \in Tasks : Living(t)' = Living(t) /\ Letters(t)' = Letters(t)
    BY <1>1, <1>5, <1>6, TurningStep
  <2>2. BuryingHasFailed'
    <3> SUFFICES ASSUME NEW v \in Workers, step'[v] = "burying", NEW i,
                        i = Message(v)'.entry, Calm(i)'
                 PROVE  tried'[i] >= RetryLimit
      BY DEF BuryingHasFailed, Calm
    <3>1. i = Message(v).entry /\ Calm(i)
      BY <1>1, <1>2, <2>1 DEF Calm
    <3>2. CASE v = w
      <4>1. Message(w).count <= tried[x] + 1
        BY <1>3, <3>1, <3>2
      <4> QED
        BY <1>3, <1>4, <1>6, <3>1, <3>2, <4>1, LimitAssumption
    <3>3. CASE v # w
      <4>1. step[v] = "burying" /\ Busy(v)
        BY <2>1, <3>3 DEF Busy
      <4>2. tried[i] >= RetryLimit
        BY <3>1, <4>1 DEF CInv, BuryingHasFailed
      <4>3. i \in Entries
        BY <3>1, <4>1, Front
      <4>4. tried[i] \in 0..RetryLimit /\ tried'[i] \in 0..RetryLimit /\ tried[i] <= tried'[i]
        BY <1>2, <1>5, <4>3 DEF Ranges
      <4> QED
        BY <4>2, <4>4, LimitAssumption
    <3> QED
      BY <3>2, <3>3
  <2>3. ASSUME NEW t \in Tasks, t \notin disturbed'
        PROVE  Single(t)' /\ Finished(t)'
    <3>1. \A v \in Workers : step[v] = "acking" => step'[v] = "acking"
      BY <1>1, <2>1
    <3> QED
      BY <1>1, <2>1, <2>3, <3>1, CopiesKept
  <2>4. OfferedFirst'
    BY <1>1, <1>2 DEF CInv, OfferedFirst
  <2> QED
    BY <2>1, <2>2, <2>3, <2>4 DEF CInv
<1>7. CASE GoOn(w, Tail(batch[w]))
  <2>1. ASSUME stream[x] \notin disturbed'
        PROVE  pel[x].count <= tried'[x]
    <3>1. pel[x].count <= tried[x] + 1 /\ pel[x].count \in 0..RetryLimit
      BY <1>1, <1>2, <1>3, <2>1 DEF Calm, Ranges
    <3> QED
      BY <1>4, <3>1, LimitAssumption
  <2> QED
    BY <1>1, <1>5, <1>7, <2>1, PassingStep
<1> QED
  BY <1>6, <1>7 DEF Fail

LEMMA FinishFailsStep ==
  ASSUME QInv, QInv', CInv, NEW w \in Workers, FinishFails(w)
  PROVE  CInv'
<1>1. /\ Busy(w) /\ GoOn(w, Tail(batch[w])) /\ disturbed' = disturbed \cup {TaskOf(w)}
      /\ UNCHANGED <<redis, offered, done, tried>>
  BY DEF FinishFails, Busy, Disturb
<1>2. \A i \in Entries : tried[i] <= tried'[i]
  BY <1>1, QRanges DEF Ranges
<1>3. \A i \in 1..Len(stream) : i = Message(w).entry => stream[i] \in disturbed'
  BY <1>1 DEF TaskOf
<1> QED
  BY <1>1, <1>2, <1>3, PassingStep

-----------------------------------------------------------------------------
(* A message is dealt with.                                                *)

\* w acknowledges its first message, or moves it to the dead letters.
LEMMA Unpending ==
  ASSUME QInv, QInv', CInv, NEW w \in Workers, Busy(w), NEW x, x = Message(w).entry,
         Unpend(x), GoOn(w, Tail(batch[w])),
         UNCHANGED <<stream, delivered, offered, done, tried, disturbed>>
  PROVE  /\ Shrinks /\ Counts'
         /\ \A v \in Workers \ {w} : batch'[v] = batch[v] /\ step'[v] = step[v]
         /\ step'[w] \in {"down", "call"} => batch'[w] = <<>>
         /\ step'[w] \notin {"acking", "burying"}
         /\ \A i \in Entries : tried[i] <= tried'[i] /\ pel'[i].count <= pel[i].count
         /\ \A i \in 1..Len(stream) :
              Taken(i) /\ ~Taken(i)' /\ Calm(i)' => pel'[i].count <= tried'[i]
         /\ \A i \in 1..Len(stream) : Taken(i)' /\ Calm(i)' /\ Pending(i) => Pending(i)'
         /\ ~Pending(x)' /\ \A i \in 1..Len(stream) : i # x => (Pending(i)' <=> Pending(i))
<1>1. batch' = [batch EXCEPT ![w] = Tail(batch[w])] /\ batch[w] # <<>>
  BY DEF GoOn, QInv, Holds
<1>2. WorkerTypes /\ Ranges /\ Ranges' /\ StreamGrows
  BY QRanges, QRangesNext DEF QInv, StreamGrows, Ranges
<1>3. /\ ShrinksAlike /\ \A i : Taken(i) /\ ~Taken(i)' => i = Message(w).entry
      /\ \A i : Taken(i)' => \E v \in Workers : \E m \in Slots(v) :
           batch[v][m].entry = i /\ ~(v = w /\ m = 1)
  BY <1>1, <1>2, TailShrinks
<1>4. \A i \in Entries : tried[i] <= tried'[i] /\ tried'[i] \in 0..RetryLimit
  BY <1>2 DEF Ranges
<1>5. Shrinks /\ Counts'
  BY <1>2, <1>3, <1>4, Alike
<1>6. /\ x \in 1..Len(stream) /\ x \in Entries /\ 1 \in Slots(w) /\ batch[w][1].entry = x
  BY Front
<1>7. pel'[x].count = 0 /\ \A i \in Entries \ {x} : pel'[i] = pel[i]
  BY <1>6 DEF Unpend, QInv, RedisTypes, NotPending
<1>8. \A i \in Entries : pel'[i].count <= pel[i].count
  BY <1>2, <1>7 DEF Ranges
<1>9. \A i \in 1..Len(stream) : Taken(i) /\ ~Taken(i)' => pel'[i].count <= tried'[i]
  BY <1>2, <1>3, <1>7 DEF Ranges
<1>10. \A i \in 1..Len(stream) : i # x => (Pending(i)' <=> Pending(i))
  BY <1>2, <1>7 DEF Pending, Ranges
<1>11. ~Pending(x)'
  BY <1>7 DEF Pending
<1>12. ASSUME Taken(x)', Calm(x)'
       PROVE  FALSE
  <2>1. PICK v \in Workers : \E m \in Slots(v) : batch[v][m].entry = x /\ ~(v = w /\ m = 1)
    BY <1>3, <1>12
  <2>2. PICK m \in Slots(v) : batch[v][m].entry = x /\ ~(v = w /\ m = 1)
    BY <2>1
  <2>3. Calm(batch[v][m].entry)
    BY <1>12, <2>2 DEF Calm
  <2> QED
    BY <1>6, <2>2, <2>3 DEF CInv, HeldOnce
<1>13. /\ \A v \in Workers \ {w} : batch'[v] = batch[v] /\ step'[v] = step[v]
       /\ step'[w] \in {"down", "call"} => batch'[w] = <<>>
       /\ step'[w] \notin {"acking", "burying"}
  BY <1>2 DEF GoOn, WorkerTypes
<1> QED
  BY <1>4, <1>5, <1>8, <1>9, <1>10, <1>11, <1>12, <1>13

LEMMA AckStep ==
  ASSUME QInv, QInv', CInv, NEW w \in Workers, Ack(w)
  PROVE  CInv'
<1> SUFFICES ASSUME NEW x, x = Message(w).entry
             PROVE  CInv'
  OBVIOUS
<1>1. /\ Busy(w) /\ Unpend(x) /\ GoOn(w, Tail(batch[w]))
      /\ UNCHANGED <<stream, delivered, dead, removed, offered, done, tried, disturbed>>
  BY DEF Ack, Busy, history
<1>2. /\ Shrinks /\ Counts'
      /\ \A v \in Workers \ {w} : batch'[v] = batch[v] /\ step'[v] = step[v]
      /\ step'[w] \in {"down", "call"} => batch'[w] = <<>>
      /\ step'[w] \notin {"acking", "burying"}
      /\ \A i \in Entries : tried[i] <= tried'[i] /\ pel'[i].count <= pel[i].count
      /\ \A i \in 1..Len(stream) :
           Taken(i) /\ ~Taken(i)' /\ Calm(i)' => pel'[i].count <= tried'[i]
      /\ \A i \in 1..Len(stream) : Taken(i)' /\ Calm(i)' /\ Pending(i) => Pending(i)'
      /\ ~Pending(x)'
  BY <1>1, Unpending
<1> QED
  BY <1>1, <1>2, MovingOn

LEMMA BuryStep ==
  ASSUME QInv, QInv', CInv, NEW w \in Workers, Bury(w)
  PROVE  CInv'
<1> SUFFICES ASSUME NEW x, x = Message(w).entry, NEW b, b = TaskOf(w)
             PROVE  CInv'
  OBVIOUS
<1>1. /\ Busy(w) /\ step[w] = "burying" /\ Unpend(x) /\ GoOn(w, Tail(batch[w]))
      /\ dead' = Append(dead, b)
      /\ UNCHANGED <<stream, delivered, removed, offered, done, tried, disturbed>>
  BY DEF Bury, Busy, history
<1>2. /\ Shrinks /\ Counts'
      /\ \A v \in Workers \ {w} : batch'[v] = batch[v] /\ step'[v] = step[v]
      /\ step'[w] \in {"down", "call"} => batch'[w] = <<>>
      /\ step'[w] \notin {"acking", "burying"}
      /\ \A i \in Entries : tried[i] <= tried'[i] /\ pel'[i].count <= pel[i].count
      /\ \A i \in 1..Len(stream) :
           Taken(i) /\ ~Taken(i)' /\ Calm(i)' => pel'[i].count <= tried'[i]
      /\ \A i \in 1..Len(stream) : Taken(i)' /\ Calm(i)' /\ Pending(i) => Pending(i)'
      /\ ~Pending(x)' /\ \A i \in 1..Len(stream) : i # x => (Pending(i)' <=> Pending(i))
  BY <1>1, Unpending
<1>3. IdleHoldsNothing' /\ HeldIsPending' /\ HeldOnce' /\ Attempts' /\ BuryingHasFailed'
  BY <1>1, <1>2, LettingGo
<1>4. /\ x \in 1..Len(stream) /\ b = stream[x] /\ b \in Tasks /\ 1 \in Slots(w)
      /\ batch[w][1].entry = x
      /\ Calm(x) => x \in Living(b)
  BY <1>1, Front
<1>5. /\ Len(dead') = Len(dead) + 1 /\ dead'[Len(dead) + 1] = b /\ Len(dead) \in Nat
      /\ \A d \in 1..Len(dead) : dead'[d] = dead[d]
      /\ \A d \in 1..Len(dead') : d \in 1..Len(dead) \/ d = Len(dead) + 1
  <2>1. dead \in Seq(Tasks)
    BY DEF QInv, RedisTypes
  <2> QED
    BY <1>1, <1>4, <2>1
<1>6. Ranges
  BY QRanges
<1>7. OfferedFirst'
  BY <1>1, <1>4, <1>5 DEF CInv, OfferedFirst
<1>8. DeadLettersHaveFailed'
  <2> SUFFICES ASSUME NEW d \in 1..Len(dead'), dead'[d] \notin disturbed
               PROVE  \E i \in 1..Len(stream) : stream[i] = dead'[d] /\ tried[i] >= RetryLimit
    BY <1>1 DEF DeadLettersHaveFailed
  <2>1. CASE d \in 1..Len(dead)
    BY <1>5, <2>1 DEF CInv, DeadLettersHaveFailed
  <2>2. CASE d = Len(dead) + 1
    <3>1. Calm(x)
      BY <1>4, <1>5, <2>2 DEF Calm
    <3>2. tried[x] >= RetryLimit
      BY <1>1, <3>1 DEF CInv, BuryingHasFailed
    <3> QED
      BY <1>4, <1>5, <2>2, <3>2
  <2> QED
    BY <1>5, <2>1, <2>2
<1>9. ASSUME NEW t \in Tasks
      PROVE  /\ Living(t)' \subseteq Living(t) \ {x}
             /\ Letters(t)' \subseteq Letters(t) \cup {Len(dead) + 1}
             /\ t # b => Letters(t)' \subseteq Letters(t)
  <2>1. Living(t)' \subseteq Living(t) \ {x}
    <3>1. x <= delivered /\ delivered \in Nat
      BY <1>1, MessageDelivered DEF QInv, RedisTypes
    <3> QED
      BY <1>1, <1>2, <3>1 DEF Living
  <2> QED
    BY <1>1, <1>5, <2>1 DEF Letters
<1>10. ASSUME NEW t \in Tasks, t \notin disturbed', t # b
       PROVE  Single(t)' /\ Finished(t)'
  <2>1. \A v \in Workers : step[v] = "acking" => step'[v] = "acking" /\ Message(v)' = Message(v)
    BY <1>1, <1>2 DEF Message
  <2> QED
    BY <1>1, <1>9, <1>10, <2>1, CopiesKept
<1>11. ASSUME b \notin disturbed'
       PROVE  Single(b)' /\ Finished(b)'
  <2>1. Calm(x) /\ Single(b) /\ Finished(b) /\ x \in Living(b)
    BY <1>1, <1>4, <1>11 DEF CInv, Calm
  <2>2. Living(b)' = {} /\ Letters(b)' \subseteq {Len(dead) + 1}
    BY <1>4, <1>9, <2>1 DEF Single
  <2>3. b \notin done
    <3>1. SUFFICES ASSUME b \in done PROVE FALSE
      OBVIOUS
    <3>2. PICK v \in Workers : step[v] = "acking" /\ Message(v).entry = x
      BY <2>1, <3>1 DEF Finished
    <3>3. 1 \in Slots(v) /\ batch[v][1].entry = x
      BY <3>2, Front DEF Busy
    <3>4. v = w
      BY <1>4, <2>1, <3>3 DEF CInv, HeldOnce
    <3> QED
      BY <1>1, <3>2, <3>4
  <2> QED
    BY <1>1, <2>2, <2>3 DEF Single, Finished
<1> QED
  BY <1>2, <1>3, <1>4, <1>7, <1>8, <1>10, <1>11 DEF CInv

-----------------------------------------------------------------------------
(* Entries are handed to a worker.                                         *)

\* Who takes an entry that another worker, or he himself, still holds
\* disturbs its course.
LEMMA HandDisturbs ==
  ASSUME QInv, NEW w \in Workers, NEW ids \in Seq(Entries), Deliver(w, ids),
         NEW k \in DOMAIN ids, Taken(ids[k])
  PROVE  stream[ids[k]] \in disturbed'
<1>1. PICK v \in Workers : \E l \in Slots(v) : batch[v][l].entry = ids[k]
  BY DEF Taken
<1>2. PICK l \in Slots(v) : batch[v][l].entry = ids[k]
  BY <1>1
<1>3. stream[ids[k]] \in Held(v)
  BY <1>2, HeldEntries
<1>4. disturbed' = disturbed \cup
        ({stream[ids[h]] : h \in DOMAIN ids} \cap UNION {Held(u) : u \in Workers})
  BY DEF Deliver, Hand, Disturb
<1> QED
  BY <1>3, <1>4

LEMMA CHandStep ==
  ASSUME QInv, QInv', CInv, NEW w \in Workers, step[w] = "call",
         NEW ids \in Seq(Entries), Deliver(w, ids),
         \A j, k \in DOMAIN ids : ids[j] = ids[k] => j = k,
         \A k \in DOMAIN ids : /\ ids[k] \in 1..Len(stream) /\ ids[k] <= delivered'
                               /\ ids[k] > delivered \/ Pending(ids[k]),
         delivered' \in delivered..Len(stream),
         \A i \in (delivered + 1)..delivered' : \E k \in DOMAIN ids : ids[k] = i,
         UNCHANGED <<offered, stream, dead, removed>>
  PROVE  CInv'
<1>1. /\ \A i \in Entries : Pending(i)' <=> Pending(i) \/ \E k \in DOMAIN ids : ids[k] = i
      /\ batch' = [batch EXCEPT ![w] = [k \in DOMAIN ids |-> [entry |-> ids[k], count |-> 0]]]
      /\ step' = [step EXCEPT ![w] = "counting"]
  BY DeliverType DEF QInv, RedisTypes
<1>2. /\ UNCHANGED <<done, tried>> /\ disturbed \subseteq disturbed'
      /\ pel' = [i \in Entries |->
           IF \E k \in DOMAIN ids : ids[k] = i
           THEN [owner |-> w, count |-> Bump(pel[i].count), stale |-> FALSE]
           ELSE pel[i]]
  BY DEF Deliver, Hand, Disturb
<1>3. Ranges /\ Ranges' /\ StreamGrows /\ Batches /\ WorkerTypes
  BY QRanges, QRangesNext, QBatches DEF StreamGrows, Ranges, QInv
<1>4. /\ DOMAIN ids = 1..Len(ids) /\ Len(ids) \in Nat
      /\ Slots(w)' = DOMAIN ids
      /\ \A k \in DOMAIN ids : batch'[w][k].entry = ids[k] /\ batch'[w][k].count = 0
      /\ \A v \in Workers \ {w} : batch'[v] = batch[v] /\ step'[v] = step[v]
      /\ step'[w] = "counting"
  BY <1>1, <1>3 DEF WorkerTypes, Slots
<1>5. ASSUME NEW v \in Workers, v # w
      PROVE  /\ Slots(v)' = Slots(v) /\ batch'[v] = batch[v]
             /\ \A k \in Slots(v) : Taken(batch[v][k].entry)
  BY <1>4, <1>5 DEF Slots, Taken
<1>6. Slots(w) = {}
  BY DEF CInv, IdleHoldsNothing, Slots
<1>7. \A k \in DOMAIN ids : \A i : i = ids[k] /\ Calm(i)' => ~Taken(i)
  BY HandDisturbs DEF Calm
<1>8. \A i \in 1..Len(stream) : Calm(i)' => Calm(i)
  BY <1>2 DEF Calm
<1>9. HeldOnce'
  <2> SUFFICES ASSUME NEW u \in Workers, NEW v \in Workers,
                      NEW k \in Slots(u)', NEW l \in Slots(v)', NEW i,
                      i = batch'[u][k].entry, i = batch'[v][l].entry, Calm(i)'
               PROVE  u = v /\ k = l
    BY DEF HeldOnce, Calm
  <2>1. CASE u = w /\ v = w
    <3>1. k \in DOMAIN ids /\ l \in DOMAIN ids /\ i = ids[k] /\ i = ids[l]
      BY <1>4, <2>1
    <3> QED
      BY <2>1, <3>1
  <2>2. CASE u = w /\ v # w
    <3>1. k \in DOMAIN ids /\ i = ids[k]
      BY <1>4, <2>2
    <3>2. Taken(batch[v][l].entry) /\ batch[v][l].entry = i
      BY <1>5, <2>2
    <3> QED
      BY <1>7, <3>1, <3>2
  <2>3. CASE u # w /\ v = w
    <3>1. l \in DOMAIN ids /\ i = ids[l]
      BY <1>4, <2>3
    <3>2. Taken(batch[u][k].entry) /\ batch[u][k].entry = i
      BY <1>5, <2>3
    <3> QED
      BY <1>7, <3>1, <3>2
  <2>4. CASE u # w /\ v # w
    <3>1. /\ k \in Slots(u) /\ l \in Slots(v)
          /\ batch[u][k].entry = i /\ batch[v][l].entry = i
      BY <1>5, <2>4
    <3>2. Calm(i)
      BY <1>3, <1>8, <3>1 DEF Batches
    <3> QED
      BY <3>1, <3>2 DEF CInv, HeldOnce
  <2> QED
    BY <2>1, <2>2, <2>3, <2>4
<1>10. HeldIsPending'
  <2> SUFFICES ASSUME NEW v \in Workers, NEW k \in Slots(v)', NEW i,
                      i = batch'[v][k].entry, Calm(i)'
               PROVE  Pending(i)'
    BY DEF HeldIsPending, Calm, Pending
  <2>1. CASE v = w
    BY <1>1, <1>4, <2>1
  <2>2. CASE v # w
    <3>1. k \in Slots(v) /\ batch[v][k].entry = i
      BY <1>5, <2>2
    <3>2. i \in Entries /\ Calm(i)
      BY <1>3, <1>8, <3>1 DEF Batches, Ranges
    <3> QED
      BY <1>1, <3>1, <3>2 DEF CInv, HeldIsPending
  <2> QED
    BY <2>1, <2>2
<1>11. Attempts'
  <2> SUFFICES ASSUME NEW i \in 1..Len(stream), Calm(i)'
               PROVE  /\ pel'[i].count <= tried[i] + 1
                      /\ ~Taken(i)' => pel'[i].count <= tried[i]
    BY <1>2 DEF Attempts
  <2>1. /\ i \in Entries /\ Calm(i) /\ pel[i].count \in 0..RetryLimit
        /\ tried[i] \in 0..RetryLimit
    BY <1>3, <1>8 DEF Ranges
  <2>2. pel[i].count <= tried[i] + 1 /\ (~Taken(i) => pel[i].count <= tried[i])
    BY <2>1 DEF CInv, Attempts
  <2>3. CASE \E k \in DOMAIN ids : ids[k] = i
    <3>1. ~Taken(i)
      BY <1>7, <2>3
    <3>2. Taken(i)'
      BY <1>4, <2>3 DEF Taken
    <3>3. pel'[i].count = Bump(pel[i].count)
      BY <1>2, <2>1, <2>3
    <3> QED
      BY <2>1, <2>2, <3>1, <3>2, <3>3, BumpValue, LimitAssumption
  <2>4. CASE ~ \E k \in DOMAIN ids : ids[k] = i
    <3>1. pel'[i] = pel[i]
      BY <1>2, <2>1, <2>4
    <3>2. Taken(i) => Taken(i)'
      BY <1>5, <1>6 DEF Taken
    <3> QED
      BY <2>2, <3>1, <3>2
  <2> QED
    BY <2>3, <2>4
<1>12. Counts'
  <2> SUFFICES ASSUME NEW v \in Workers, NEW k \in Slots(v)', NEW i,
                      i = batch'[v][k].entry, Calm(i)'
               PROVE  batch'[v][k].count <= tried[i] + 1
    BY <1>2 DEF Counts, Calm
  <2>1. CASE v = w
    <3>1. i = ids[k] /\ k \in DOMAIN ids /\ batch'[v][k].count = 0
      BY <1>4, <2>1
    <3>2. tried[i] \in Nat
      BY <1>3, <3>1 DEF Ranges
    <3> QED
      BY <3>1, <3>2
  <2>2. CASE v # w
    <3>1. k \in Slots(v) /\ batch'[v][k] = batch[v][k] /\ batch[v][k].entry = i
      BY <1>5, <2>2
    <3>2. Calm(i)
      BY <1>3, <1>8, <3>1 DEF Batches
    <3> QED
      BY <3>1, <3>2 DEF CInv, Counts
  <2> QED
    BY <2>1, <2>2
<1>13. BuryingHasFailed' /\ IdleHoldsNothing'
  <2>1. IdleHoldsNothing'
    BY <1>4 DEF CInv, IdleHoldsNothing
  <2>2. ASSUME NEW v \in Workers, step'[v] = "burying", NEW i,
               i = Message(v)'.entry, Calm(i)'
        PROVE  tried'[i] >= RetryLimit
    <3>1. v # w /\ step[v] = "burying" /\ i = Message(v).entry
      BY <1>4, <2>2 DEF Message
    <3>2. Calm(i)
      BY <1>8, <2>2, <3>1, Front DEF Busy
    <3> QED
      BY <1>2, <3>1, <3>2 DEF CInv, BuryingHasFailed
  <2> QED
    BY <2>1, <2>2 DEF BuryingHasFailed, Calm
<1>14. DeadLettersHaveFailed'
  BY <1>2, <1>3, LettersKept DEF Ranges
<1>15. ASSUME NEW t \in Tasks, t \notin disturbed'
       PROVE  Single(t)' /\ Finished(t)'
  <2>1. Living(t)' \subseteq Living(t)
    <3> SUFFICES ASSUME NEW i \in 1..Len(stream), i > delivered' \/ Pending(i)'
                 PROVE  i > delivered \/ Pending(i)
      BY DEF Living
    <3>1. i \in Entries
      BY <1>3 DEF Ranges
    <3> QED
      BY <1>1, <1>3, <3>1 DEF Ranges
  <2>2. Letters(t)' \subseteq Letters(t)
    BY DEF Letters
  <2>3. \A v \in Workers : step[v] = "acking" => step'[v] = "acking" /\ Message(v)' = Message(v)
    BY <1>4 DEF Message
  <2> QED
    BY <1>2, <1>15, <2>1, <2>2, <2>3, CopiesKept
<1>16. OfferedFirst'
  BY <1>2 DEF CInv, OfferedFirst
<1> QED
  BY <1>9, <1>10, <1>11, <1>12, <1>13, <1>14, <1>15, <1>16 DEF CInv

-----------------------------------------------------------------------------
(* Every step keeps the invariant.                                         *)

LEMMA CWorkStep ==
  ASSUME QInv, QInv', CInv, NEW w \in Workers, Work(w)
  PROVE  CInv'
<1>1. CASE Start(w)
  <2>1. batch[w] = <<>> /\ batch \in [Workers -> Seq(Messages)]
    BY <1>1 DEF Start, CInv, IdleHoldsNothing, QInv, WorkerTypes
  <2>2. batch' = [batch EXCEPT ![w] = <<>>]
    BY <1>1, <2>1 DEF Start
  <2> QED
    BY <1>1, <2>2, EmptyStep DEF Start, history
<1>2. CASE \/ ClaimStale(w) /\ GoOn(w, <<>>) /\ UNCHANGED pel /\ UNCHANGED history
           \/ CallFails(w)
           \/ Receive(w) /\ GoOn(w, <<>>) /\ UNCHANGED <<pel, delivered>> /\ UNCHANGED history
  BY <1>2, EmptyStep DEF ClaimStale, CallFails, Receive, GoOn, history, redis
<1>3. ASSUME ClaimStale(w), NEW ids \in FirstStale, Deliver(w, ids)
      PROVE  CInv'
  <2>1. ids \in Seq(Entries) /\ \A k \in DOMAIN ids : Pending(ids[k])
    BY FirstStaleType
  <2>2. \A k \in DOMAIN ids : ids[k] \in 1..Len(stream) /\ ids[k] <= delivered
    <3>1. PendingDelivered /\ Ranges
      BY QRanges DEF QInv
    <3>2. \A i \in Entries : i \in Nat /\ i > 0
      BY BoundAssumption DEF Entries
    <3> QED
      BY <2>1, <3>1, <3>2 DEF PendingDelivered, Ranges
  <2>3. \A j, k \in DOMAIN ids : ids[j] = ids[k] => j = k
    <3>1. \A j, k \in DOMAIN ids : j < k => ids[j] < ids[k]
      BY <1>3 DEF FirstStale
    <3>2. \A k \in DOMAIN ids : k \in Nat /\ ids[k] \in Nat
      BY <2>1, BoundAssumption DEF Entries
    <3> QED
      BY <3>1, <3>2
  <2>4. step[w] = "call" /\ UNCHANGED <<offered, stream, delivered, dead, removed>>
    BY <1>3 DEF ClaimStale
  <2>5. delivered' \in delivered..Len(stream) /\ (delivered + 1)..delivered' = {}
    BY <2>4, QRanges DEF Ranges
  <2> QED
    BY <1>3, <2>1, <2>2, <2>3, <2>4, <2>5, CHandStep
<1>4. CASE Receive(w)
  <2> DEFINE left == Len(stream) - delivered
             n    == IF left < BatchSize THEN left ELSE BatchSize
             ids  == [k \in 1..n |-> delivered + k]
  <2>1. /\ delivered' = delivered + n /\ step[w] = "call"
        /\ IF n = 0 THEN GoOn(w, <<>>) /\ UNCHANGED pel /\ UNCHANGED history ELSE Deliver(w, ids)
        /\ UNCHANGED <<stored, offered, stream, dead, removed, reading, faults>>
    BY <1>4 DEF Receive
  <2>2. /\ n \in Nat /\ delivered \in Nat /\ Len(stream) \in Nat
        /\ delivered + n <= Len(stream) /\ Len(stream) <= MaxEntries
    BY LimitAssumption, QRanges DEF Ranges
  <2> HIDE DEF n
  <2>3. ids \in Seq(Entries) /\ DOMAIN ids = 1..n
    BY <2>2, BoundAssumption DEF Entries
  <2>4. \A k \in DOMAIN ids : /\ ids[k] = delivered + k /\ ids[k] <= delivered'
                              /\ ids[k] \in 1..Len(stream) /\ ids[k] > delivered
    BY <2>1, <2>2, <2>3
  <2>5. ASSUME NEW i \in (delivered + 1)..delivered'
        PROVE  \E k \in DOMAIN ids : ids[k] = i
    <3>1. i - delivered \in DOMAIN ids /\ delivered + (i - delivered) = i
      BY <2>1, <2>2, <2>3
    <3> QED
      BY <2>4, <3>1
  <2>6. \A j, k \in DOMAIN ids : ids[j] = ids[k] => j = k
    BY <2>2, <2>3, <2>4
  <2> HIDE DEF ids
  <2>7. CASE n = 0
    BY <1>2, <1>4, <2>1, <2>2, <2>7
  <2>8. CASE n # 0
    <3>1. Deliver(w, ids) /\ delivered' \in delivered..Len(stream)
      BY <2>1, <2>2, <2>8
    <3> QED
      BY <2>1, <2>3, <2>4, <2>5, <2>6, <3>1, CHandStep
  <2> QED
    BY <2>7, <2>8
<1> QED
  BY <1>1, <1>2, <1>3, <1>4, CountStep, LosingStep, SucceedStep, FailStep, AckStep, BuryStep,
     FinishFailsStep
     DEF Work, ClaimStale

LEMMA CStep == QInv /\ QInv' /\ CInv /\ [Next]_vars => CInv'
<1> SUFFICES ASSUME QInv, QInv', CInv, [Next]_vars PROVE CInv'
  OBVIOUS
<1>1. CASE \/ \E t \in Tasks : Upload(t) \/ Enqueue(t) \/ EnqueueFails(t)
           \/ \E a \in Admins : AdminRequeue(a) \/ \E d \in 1..Len(dead) : AdminRead(a, d)
  BY <1>1, CServerStep
<1>2. ASSUME NEW w \in Workers, Work(w) \/ Dies(w)
      PROVE  CInv'
  BY <1>2, CWorkStep, LosingStep
<1>3. ASSUME NEW i \in Entries, GoesStale(i)
      PROVE  CInv'
  <2>1. /\ pel' = [pel EXCEPT ![i].stale = TRUE]
        /\ UNCHANGED <<offered, stream, delivered, dead, removed, worker, done, tried, disturbed>>
    BY <1>3 DEF GoesStale, history
  <2>2. \A j \in Entries : pel'[j].count = pel[j].count
    BY <2>1 DEF QInv, RedisTypes, PelRecords
  <2>3. StreamGrows /\ Ranges
    BY <2>1, QRanges DEF StreamGrows, Ranges
  <2>4. /\ IdleHoldsNothing' /\ HeldIsPending' /\ HeldOnce'
        /\ Attempts' /\ Counts' /\ BuryingHasFailed' /\ DeadLettersHaveFailed'
    BY <2>1, <2>2, <2>3, WorkersStill
  <2>5. ASSUME NEW t \in Tasks, t \notin disturbed'
        PROVE  Single(t)' /\ Finished(t)'
    <3>1. Living(t)' \subseteq Living(t) /\ Letters(t)' \subseteq Letters(t)
      BY <2>1, <2>2, <2>3 DEF Living, Letters, Pending, Ranges
    <3>2. \A w \in Workers : step'[w] = step[w] /\ Message(w)' = Message(w)
      BY <2>1 DEF worker, Message
    <3> QED
      BY <2>1, <2>5, <3>1, <3>2, CopiesKept
  <2>6. OfferedFirst'
    BY <2>1 DEF CInv, OfferedFirst
  <2> QED
    BY <2>4, <2>5, <2>6 DEF CInv
<1>4. CASE UNCHANGED vars
  BY <1>4, Elsewhere DEF vars, history
<1> QED
  BY <1>1, <1>2, <1>3, <1>4 DEF Next

LEMMA Invariant == Spec => [](QInv /\ CInv)
<1>1. Spec => []QInv
  BY Initially, Step, PTL DEF Spec
<1>2. QInv /\ QInv' /\ CInv /\ [Next]_vars => CInv'
  BY CStep
<1> QED
  BY <1>1, <1>2, CInitially, PTL DEF Spec

-----------------------------------------------------------------------------
(* The theorems.                                                           *)

\* Whatever is single is one at most.
LEMMA AtMostOne ==
  ASSUME NEW S, \A x, y \in S : x = y
  PROVE  IsFiniteSet(S) /\ Cardinality(S) <= 1 /\ (S = {} => Cardinality(S) = 0)
<1>1. CASE S = {}
  BY <1>1, FS_EmptySet
<1>2. CASE S # {}
  <2>1. PICK x : x \in S
    BY <1>2
  <2>2. S = {x}
    BY <2>1
  <2> QED
    BY <2>2, <1>2, FS_Singleton
<1> QED
  BY <1>1, <1>2

\* A task whose course nothing disturbed is in the stream once or among the
\* dead letters once, for any number of workers and administrators.
THEOREM OneCopyOnly == Spec => []OneCopy
<1>1. CInv => OneCopy
  <2> SUFFICES ASSUME CInv, NEW t \in Tasks \ disturbed
               PROVE  Cardinality(Living(t)) + Cardinality(Letters(t)) <= 1
    BY DEF OneCopy
  <2>1. Single(t)
    BY DEF CInv
  <2>2. /\ IsFiniteSet(Living(t)) /\ Cardinality(Living(t)) <= 1
        /\ IsFiniteSet(Letters(t)) /\ Cardinality(Letters(t)) <= 1
        /\ Cardinality(Living(t)) = 0 \/ Cardinality(Letters(t)) = 0
    BY <2>1, AtMostOne DEF Single
  <2>3. Cardinality(Living(t)) \in Nat /\ Cardinality(Letters(t)) \in Nat
    BY <2>2, FS_CardinalityType
  <2> QED
    BY <2>2, <2>3
<1> QED
  BY <1>1, Invariant, PTL

\* A dead letter was tried RetryLimit times in vain, unless its course was
\* disturbed: the delivery counter of the group counts failed attempts.
THEOREM DeadLettersFailed == Spec => []DeadLettersHaveFailed
<1>1. CInv => DeadLettersHaveFailed
  BY DEF CInv
<1> QED
  BY <1>1, Invariant, PTL

\* A dead letter is a task nobody has processed, unless its course was
\* disturbed.
THEOREM DeadLettersUndone == Spec => []DeadLettersAreUndone
<1>1. CInv => DeadLettersAreUndone
  BY DEF CInv, Finished, Buried, DeadLettersAreUndone
<1> QED
  BY <1>1, Invariant, PTL
=============================================================================
