------------------------------ MODULE TaskQueue ------------------------------
(***************************************************************************)
(* Image tasks: from the upload that enqueues one, over the Redis stream   *)
(* and its consumer group, to a worker that processes it, the dead-letter  *)
(* stream and the administrator who puts dead letters back.                *)
(*                                                                         *)
(* Redis is external: a stream is a sequence that is never trimmed, the    *)
(* group remembers how far it has delivered and, of every entry delivered  *)
(* and not acknowledged, whom it went to, how often, and whether it has    *)
(* lain idle for WORKER_CLAIM_IDLE.  Each Redis command is atomic; a       *)
(* worker runs several in a row and may die between any two.               *)
(***************************************************************************)
EXTENDS Naturals, Sequences, FiniteSets

CONSTANTS
  Workers,
  Tasks,        \* one task per uploaded image
  Admins,       \* administrators who may requeue at the same moment
  Flaky,        \* tasks whose processing may fail (object store, libvips)
  RetryLimit,   \* cfg.WorkerRetryLimit
  BatchSize,    \* cfg.WorkerBatchSize
  MaxEntries,   \* bound: entries ever added to the stream
  MaxFaults     \* bound: worker deaths and Redis commands that fail

ASSUME LimitAssumption == RetryLimit \in Nat \ {0} /\ BatchSize \in Nat \ {0}
ASSUME BoundAssumption == MaxEntries \in Nat /\ MaxFaults \in Nat
ASSUME FlakyAssumption == Flaky \subseteq Tasks

VARIABLES
  stored,     \* images in the database
  known,      \* known[w]: images in the memory of w, loaded when it started
  offered,    \* tasks whose XADD was sent
  stream,     \* the stream: entry i is stream[i]
  delivered,  \* entries up to this one have been delivered to the group
  pel,        \* pel[i]: the pending record of entry i
  dead,       \* the dead-letter stream, entries deleted since included
  removed,    \* numbers of the dead letters that were deleted
  batch,      \* batch[w]: messages w has received and not yet dealt with
  turn,       \* turn[w]: the call of the loop that w is at, or processes
  step,       \* step[w]: what w does next
  reading,    \* reading[a]: the dead letter a is putting back, 0 for none
  faults,     \* faults so far
  done,       \* history: tasks processed at least once
  tried,      \* tried[i]: history: processing attempts of entry i that failed
  disturbed   \* history: tasks whose course was disturbed: a delivery cut short
              \* or overtaken by the next one, a dead letter put back twice

redis == <<stream, delivered, pel, dead, removed>>
worker == <<known, batch, turn, step>>
history == <<done, tried, disturbed>>
vars == <<stored, offered, redis, worker, reading, faults, history>>

Entries == 1..MaxEntries
NotPending == [owner |-> "none", count |-> 0, stale |-> FALSE]

\* Mutant
BumpPast(n) == IF n <= RetryLimit THEN n + 1 ELSE n

\* Deliveries are counted up to the limit: nothing tells more apart.
Bump(n) == IF n < RetryLimit THEN n + 1 ELSE n

TypeOK ==
  /\ stored \in SUBSET Tasks /\ offered \in SUBSET Tasks
  /\ done \in SUBSET Tasks /\ disturbed \in SUBSET Tasks
  /\ known \in [Workers -> SUBSET Tasks]
  /\ stream \in Seq(Tasks) /\ Len(stream) <= MaxEntries
  /\ delivered \in 0..Len(stream)
  /\ pel \in [Entries -> [owner : Workers \cup {"none"}, count : 0..RetryLimit, stale : BOOLEAN]]
  /\ dead \in Seq(Tasks)
  /\ removed \in SUBSET (1..Len(dead))
  /\ batch \in [Workers -> Seq([entry : Entries, count : 0..RetryLimit])]
  /\ turn \in [Workers -> {"claim", "receive"}]
  /\ step \in [Workers -> {"down", "call", "counting", "working", "acking", "burying"}]
  /\ reading \in [Admins -> 0..Len(dead)]
  /\ faults \in 0..MaxFaults
  /\ tried \in [Entries -> 0..RetryLimit]

Init ==
  /\ stored = {} /\ offered = {} /\ done = {} /\ disturbed = {}
  /\ known = [w \in Workers |-> {}]
  /\ stream = <<>> /\ delivered = 0
  /\ pel = [i \in Entries |-> NotPending]
  /\ dead = <<>> /\ removed = {}
  /\ batch = [w \in Workers |-> <<>>]
  /\ turn = [w \in Workers |-> "claim"]
  /\ step = [w \in Workers |-> "down"]
  /\ reading = [a \in Admins |-> 0]
  /\ faults = 0
  /\ tried = [i \in Entries |-> 0]

Pending(i) == pel[i].count > 0
Fault == faults < MaxFaults /\ faults' = faults + 1

\* The tasks of the messages that w has received and not yet dealt with
Held(w) == {stream[batch[w][k].entry] : k \in DOMAIN batch[w]}

Disturb(tasks) == disturbed' = disturbed \cup tasks /\ UNCHANGED <<done, tried>>

-----------------------------------------------------------------------------
(* The API server.                                                         *)

\* uploadImage up to its save
Upload(t) ==
  /\ t \notin stored \cup offered
  /\ stored' = stored \cup {t}
  /\ UNCHANGED <<offered, redis, worker, reading, faults, history>>

\* RedisQueue.Enqueue
Enqueue(t) ==
  /\ t \in stored \ offered
  /\ Len(stream) < MaxEntries
  /\ offered' = offered \cup {t}
  /\ stream' = Append(stream, t)
  /\ UNCHANGED <<stored, delivered, pel, dead, removed, worker, reading, faults, history>>

\* Enqueue returns an error, whether or not the entry was added: the upload
\* is rolled back.
EnqueueFails(t) ==
  /\ Fault
  /\ t \in stored \ offered
  /\ offered' = offered \cup {t}
  /\ stored' = stored \ {t}
  /\ \/ UNCHANGED stream
     \/ Len(stream) < MaxEntries /\ stream' = Append(stream, t)
  /\ UNCHANGED <<delivered, pel, dead, removed, worker, reading, history>>

\* RequeueDeadLetter: XRANGE, ...
AdminRead(a, d) ==
  /\ reading[a] = 0
  /\ d \in (1..Len(dead)) \ removed
  /\ reading' = [reading EXCEPT ![a] = d]
  /\ UNCHANGED <<stored, offered, redis, worker, faults, history>>

\* Mutant: the dead letter is left where it was.
AdminRequeueKeeps(a) ==
  /\ reading[a] # 0
  /\ Len(stream) < MaxEntries
  /\ stream' = Append(stream, dead[reading[a]])
  /\ reading' = [reading EXCEPT ![a] = 0]
  /\ UNCHANGED <<stored, offered, delivered, pel, dead, removed, worker, faults, history>>

\* ... then XADD and XDEL in one transaction; deleting what is gone is no error
AdminRequeue(a) ==
  /\ reading[a] # 0
  /\ Len(stream) < MaxEntries
  /\ stream' = Append(stream, dead[reading[a]])
  /\ removed' = removed \cup {reading[a]}
  /\ reading' = [reading EXCEPT ![a] = 0]
  /\ Disturb(IF reading[a] \in removed THEN {dead[reading[a]]} ELSE {})
  /\ UNCHANGED <<stored, offered, delivered, pel, dead, worker, faults>>

-----------------------------------------------------------------------------
(* A worker: cmd/worker's loop of ClaimStale and Receive, each followed by *)
(* processMessage for every message it returned.                           *)

\* api.NewServer loads the images of that moment; the process keeps no others.
Start(w) ==
  /\ step[w] = "down"
  /\ step' = [step EXCEPT ![w] = "call"]
  /\ turn' = [turn EXCEPT ![w] = "claim"]
  /\ known' = [known EXCEPT ![w] = stored]
  /\ UNCHANGED <<stored, offered, redis, batch, reading, faults, history>>

Dies(w) ==
  /\ Fault
  /\ step[w] # "down"
  /\ step' = [step EXCEPT ![w] = "down"]
  /\ batch' = [batch EXCEPT ![w] = <<>>]
  /\ known' = [known EXCEPT ![w] = {}]
  /\ Disturb(Held(w))
  /\ UNCHANGED <<stored, offered, redis, turn, reading>>

Other(call) == IF call = "claim" THEN "receive" ELSE "claim"

\* w goes on with the messages in rest, or with the next call when there are
\* none left.
GoOn(w, rest) ==
  /\ batch' = [batch EXCEPT ![w] = rest]
  /\ step' = [step EXCEPT ![w] = IF rest = <<>> THEN "call" ELSE "working"]
  /\ turn' = [turn EXCEPT ![w] = IF rest = <<>> THEN Other(@) ELSE @]
  /\ UNCHANGED known

\* The group hands the entries in ids to w, each at its count in counts.
Hand(w, ids, counts) ==
  /\ pel' = [i \in Entries |->
       IF \E k \in DOMAIN ids : ids[k] = i
       THEN [owner |-> w, count |-> counts[i], stale |-> FALSE]
       ELSE pel[i]]
  /\ batch' = [batch EXCEPT ![w] = [k \in DOMAIN ids |-> [entry |-> ids[k], count |-> 0]]]
  /\ step' = [step EXCEPT ![w] = "counting"]
  /\ Disturb({stream[ids[k]] : k \in DOMAIN ids} \cap UNION {Held(v) : v \in Workers})
  /\ UNCHANGED <<turn, known>>

\* Mutant: entries are claimed with JUSTID, which does not count.
DeliverUncounted(w, ids) == Hand(w, ids, [i \in Entries |-> 1])

Deliver(w, ids) == Hand(w, ids, [i \in Entries |-> Bump(pel[i].count)])

Stale == {i \in Entries : Pending(i) /\ pel[i].stale}

\* The first of them, in the order of the stream
FirstStale ==
  {ids \in UNION {[1..n -> Stale] : n \in 1..BatchSize} :
     /\ \A j, k \in DOMAIN ids : j < k => ids[j] < ids[k]
     /\ \A i \in Stale : \/ \E k \in DOMAIN ids : ids[k] = i
                         \/ Len(ids) = BatchSize /\ ids[BatchSize] < i}

\* XAUTOCLAIM from 0-0
ClaimStale(w) ==
  /\ step[w] = "call" /\ turn[w] = "claim"
  /\ \/ Stale = {} /\ GoOn(w, <<>>) /\ UNCHANGED pel /\ UNCHANGED history
     \/ \E ids \in FirstStale : Deliver(w, ids)
  /\ UNCHANGED <<stored, offered, stream, delivered, dead, removed, reading, faults>>

\* XREADGROUP ">"
Receive(w) ==
  LET left == Len(stream) - delivered
      n    == IF left < BatchSize THEN left ELSE BatchSize
  IN /\ step[w] = "call" /\ turn[w] = "receive"
     /\ delivered' = delivered + n
     /\ IF n = 0 THEN GoOn(w, <<>>) /\ UNCHANGED pel /\ UNCHANGED history
                 ELSE Deliver(w, [k \in 1..n |-> delivered + k])
     /\ UNCHANGED <<stored, offered, stream, dead, removed, reading, faults>>

CallFails(w) ==
  /\ Fault
  /\ step[w] = "call"
  /\ GoOn(w, <<>>)
  /\ UNCHANGED <<stored, offered, redis, reading, history>>

\* parseRedisMessages reads the delivery counts; of an entry no longer
\* pending it says 1.
Count(w) ==
  LET counted(m) == [m EXCEPT !.count = IF Pending(m.entry) THEN pel[m.entry].count ELSE 1]
  IN /\ step[w] = "counting"
     /\ GoOn(w, [k \in DOMAIN batch[w] |-> counted(batch[w][k])])
     /\ UNCHANGED <<stored, offered, redis, reading, faults, history>>

\* An error there drops the whole batch.
CountFails(w) ==
  /\ Fault
  /\ step[w] = "counting"
  /\ GoOn(w, <<>>)
  /\ Disturb(Held(w))
  /\ UNCHANGED <<stored, offered, redis, reading>>

Message(w) == Head(batch[w])
TaskOf(w) == stream[Message(w).entry]

\* ProcessTask returns nil
Succeed(w) ==
  /\ step[w] = "working"
  /\ TaskOf(w) \in known[w]
  /\ done' = done \cup {TaskOf(w)}
  /\ step' = [step EXCEPT ![w] = "acking"]
  /\ UNCHANGED <<stored, offered, redis, known, batch, turn, reading, faults, tried, disturbed>>

\* Mutant: off by one at the limit.
FailEarly(w) ==
  /\ step[w] = "working"
  /\ TaskOf(w) \in Flaky \/ TaskOf(w) \notin known[w]
  /\ tried' = [tried EXCEPT ![Message(w).entry] = Bump(@)]
  /\ IF Message(w).count + 1 >= RetryLimit
     THEN step' = [step EXCEPT ![w] = "burying"] /\ UNCHANGED <<known, batch, turn>>
     ELSE GoOn(w, Tail(batch[w]))
  /\ UNCHANGED <<stored, offered, redis, reading, faults, done, disturbed>>

\* ProcessTask returns an error: always for an image w has never heard of.
\* Short of the limit the entry is left pending.
Fail(w) ==
  /\ step[w] = "working"
  /\ TaskOf(w) \in Flaky \/ TaskOf(w) \notin known[w]
  /\ tried' = [tried EXCEPT ![Message(w).entry] = Bump(@)]
  /\ IF Message(w).count >= RetryLimit
     THEN step' = [step EXCEPT ![w] = "burying"] /\ UNCHANGED <<known, batch, turn>>
     ELSE GoOn(w, Tail(batch[w]))
  /\ UNCHANGED <<stored, offered, redis, reading, faults, done, disturbed>>

Unpend(i) == pel' = [pel EXCEPT ![i] = NotPending]

\* Mutant: a processed message is not acknowledged.
AckForgets(w) ==
  /\ step[w] = "acking"
  /\ GoOn(w, Tail(batch[w]))
  /\ UNCHANGED <<stored, offered, redis, reading, faults, history>>

\* XACK
Ack(w) ==
  /\ step[w] = "acking"
  /\ Unpend(Message(w).entry)
  /\ GoOn(w, Tail(batch[w]))
  /\ UNCHANGED <<stored, offered, stream, delivered, dead, removed, reading, faults, history>>

\* Mutant: a message beyond the limit is only acknowledged.
BuryNowhere(w) ==
  /\ step[w] = "burying"
  /\ Unpend(Message(w).entry)
  /\ GoOn(w, Tail(batch[w]))
  /\ UNCHANGED <<stored, offered, stream, delivered, dead, removed, reading, faults, history>>

\* MoveToDeadLetter: XADD and XACK in one transaction
Bury(w) ==
  /\ step[w] = "burying"
  /\ dead' = Append(dead, TaskOf(w))
  /\ Unpend(Message(w).entry)
  /\ GoOn(w, Tail(batch[w]))
  /\ UNCHANGED <<stored, offered, stream, delivered, removed, reading, faults, history>>

\* XACK or the transaction fails and the message is passed over.
FinishFails(w) ==
  /\ Fault
  /\ step[w] \in {"acking", "burying"}
  /\ GoOn(w, Tail(batch[w]))
  /\ Disturb({TaskOf(w)})
  /\ UNCHANGED <<stored, offered, redis, reading>>

\* A pending entry has been idle for WORKER_CLAIM_IDLE.
GoesStale(i) ==
  /\ Pending(i) /\ ~pel[i].stale
  /\ pel' = [pel EXCEPT ![i].stale = TRUE]
  /\ UNCHANGED <<stored, offered, stream, delivered, dead, removed, worker, reading, faults, history>>

Work(w) ==
  \/ Start(w) \/ ClaimStale(w) \/ Receive(w) \/ CallFails(w) \/ Count(w) \/ CountFails(w)
  \/ Succeed(w) \/ Fail(w) \/ Ack(w) \/ Bury(w) \/ FinishFails(w)

Next ==
  \/ \E t \in Tasks : Upload(t) \/ Enqueue(t) \/ EnqueueFails(t)
  \/ \E a \in Admins : AdminRequeue(a) \/ \E d \in 1..Len(dead) : AdminRead(a, d)
  \/ \E w \in Workers : Work(w) \/ Dies(w)
  \/ \E i \in Entries : GoesStale(i)

Spec == Init /\ [][Next]_vars

\* Handlers and workers run on, the containers restart unless stopped, and
\* time passes; nobody has to requeue anything.
LiveSpec ==
  /\ Spec
  /\ \A t \in Tasks : WF_vars(Enqueue(t) \/ EnqueueFails(t))
  /\ \A w \in Workers : WF_vars(Work(w))
  /\ \A i \in Entries : WF_vars(GoesStale(i))

-----------------------------------------------------------------------------
(* Properties.                                                             *)

\* The entries and dead letters through which a task is still within reach
Living(t) == {i \in 1..Len(stream) : stream[i] = t /\ (i > delivered \/ Pending(i))}
Letters(t) == {d \in 1..Len(dead) : dead[d] = t /\ d \notin removed}
Waiting(t) == Living(t) # {}
Buried(t) == Letters(t) # {}

\* No task is ever lost: once in the stream it is processed, waiting in the
\* stream or listed as a dead letter, whichever commands fail, whoever dies
\* and however administrators requeue.
NothingIsLost ==
  \A i \in 1..Len(stream) :
    stream[i] \in done \/ Waiting(stream[i]) \/ Buried(stream[i])

\* A task becomes a dead letter only after RetryLimit attempts that failed,
\* unless its course was disturbed: deliveries are what the code counts.
DeadLettersHaveFailed ==
  \A d \in 1..Len(dead) : dead[d] \notin disturbed =>
    \E i \in 1..Len(stream) : stream[i] = dead[d] /\ tried[i] >= RetryLimit

\* A dead letter is a task nobody has processed, unless its course was
\* disturbed.
DeadLettersAreUndone == \A t \in Tasks \ disturbed : Buried(t) => t \notin done

\* A task is in the stream once or among the dead letters once, however often
\* it was retried, buried and put back, unless its course was disturbed.
OneCopy ==
  \A t \in Tasks \ disturbed : Cardinality(Living(t)) + Cardinality(Letters(t)) <= 1

\* Every task that was put in the stream is processed or becomes a dead
\* letter: nothing is retried for ever, nothing lies pending for ever.
EveryTaskSettles ==
  \A t \in Tasks :
    (\E i \in 1..Len(stream) : stream[i] = t) ~> (t \in done \/ \E d \in 1..Len(dead) : dead[d] = t)

\* Where processing itself never fails, every uploaded image is processed.
EveryUploadIsProcessed == \A t \in Tasks : t \in stored ~> t \in done \/ t \notin stored
=============================================================================
