-------------------------- MODULE StatePersistence --------------------------
(***************************************************************************)
(* The write path every mutating handler of the backend goes through.      *)
(*                                                                         *)
(* A process (the API server, or the worker) keeps the whole state in      *)
(* memory behind one RWMutex.  A handler locks it, takes a snapshot of     *)
(* everything, mutates, unlocks, and then calls persistState, which        *)
(* rewrites the whole database from the memory of THAT moment in one       *)
(* transaction.  If the save fails the handler puts its snapshot back; if  *)
(* what must follow the save fails (a mail, a queue entry) it puts the     *)
(* snapshot back and saves once more.                                      *)
(*                                                                         *)
(* The data is abstracted to which requests' effects it contains: memory,  *)
(* a snapshot and the database are sets of requests.                       *)
(***************************************************************************)
EXTENDS Naturals, FiniteSets

CONSTANTS
  Procs,        \* processes sharing the database
  Requests,     \* mutating requests and tasks; each is run once
  Host,         \* Host[r]: the process that runs r
  Kind,         \* Kind[r]: what the handler of r does, see Kinds
  Production,   \* cfg.AppEnv = "production"
  Faults,       \* what may go wrong, a subset of FaultKinds
  MaxInFlight,  \* bound: requests between their mutation and their answer
  MaxCrashes,   \* bound: process crashes in a behaviour
  None          \* nobody holds persistMu

\* "plain":   persist, roll back when that fails (most handlers)
\* "deliver": the same, then send a mail or enqueue a task (register,
\*            forgotPassword, resendVerification, uploadImage)
\* "task":    persist and return the error, no rollback (the worker)
Kinds == {"plain", "deliver", "task"}

\* "save":     a save fails (context cancelled or expired, database error)
\* "unknown":  a save or a crash leaves it open whether COMMIT took effect
\* "delivery": the mail or the queue entry fails
FaultKinds == {"save", "unknown", "delivery"}

ASSUME RequestsAssumption == None \notin Requests
ASSUME HostAssumption == Host \in [Requests -> Procs]
ASSUME KindAssumption == Kind \in [Requests -> Kinds]
ASSUME ConfigAssumption == Production \in BOOLEAN /\ Faults \subseteq FaultKinds
ASSUME BoundAssumption == MaxInFlight \in Nat /\ MaxCrashes \in Nat

VARIABLES
  phase,    \* phase[p]: "down", "loaded" (Load done, seeding Save not yet), "up"
  mem,      \* mem[p]: effects in the memoryState of p
  db,       \* effects in PostgreSQL
  holder,   \* holder[p]: the request holding p's persistMu, or None
  image,    \* image[p]: the snapshot the save in progress is writing
  pc,       \* pc[r]: how far the handler of r is
  snap,     \* snap[r]: the rollback snapshot of r's handler
  crashes,  \* number of crashes so far
  met       \* met[r]: history: the requests r was in flight together with

vars == <<phase, mem, db, holder, image, pc, snap, crashes, met>>

Flying == {"mutated", "saving", "unsaved", "committed", "undone", "resaving", "refused"}
Settled == {"acked", "failed", "lost"}

InFlight == {r \in Requests : pc[r] \in Flying}

TypeOK ==
  /\ phase \in [Procs -> {"down", "loaded", "up"}]
  /\ mem \in [Procs -> SUBSET Requests]
  /\ db \in SUBSET Requests
  /\ holder \in [Procs -> Requests \cup {None}]
  /\ image \in [Procs -> SUBSET Requests]
  /\ pc \in [Requests -> {"idle"} \cup Flying \cup Settled]
  /\ snap \in [Requests -> SUBSET Requests]
  /\ crashes \in 0..MaxCrashes
  /\ met \in [Requests -> SUBSET Requests]

Init ==
  /\ phase = [p \in Procs |-> "down"]
  /\ mem = [p \in Procs |-> {}]
  /\ db = {}
  /\ holder = [p \in Procs |-> None]
  /\ image = [p \in Procs |-> {}]
  /\ pc = [r \in Requests |-> "idle"]
  /\ snap = [r \in Requests |-> {}]
  /\ crashes = 0
  /\ met = [r \in Requests |-> {}]

-----------------------------------------------------------------------------
(* Start-up: NewServer loads the database, then saves it back.             *)

BootLoad(p) ==
  /\ phase[p] = "down"
  /\ phase' = [phase EXCEPT ![p] = "loaded"]
  /\ mem' = [mem EXCEPT ![p] = db]
  /\ UNCHANGED <<db, holder, image, pc, snap, crashes, met>>

BootSave(p) ==
  /\ phase[p] = "loaded"
  /\ phase' = [phase EXCEPT ![p] = "up"]
  /\ db' = mem[p]
  /\ UNCHANGED <<mem, holder, image, pc, snap, crashes, met>>

-----------------------------------------------------------------------------
(* One request.                                                            *)

\* r joins the requests in flight.
Meet(r) == met' = [q \in Requests |->
  CASE q = r -> met[q] \cup InFlight
    [] q # r /\ q \in InFlight -> met[q] \cup {r}
    [] OTHER -> met[q]]

\* Mutant: the snapshot is taken after the mutation.
MutateThenSnapshot(r) ==
  /\ phase[Host[r]] = "up"
  /\ pc[r] = "idle"
  /\ Cardinality(InFlight) < MaxInFlight
  /\ mem' = [mem EXCEPT ![Host[r]] = @ \cup {r}]
  /\ snap' = [snap EXCEPT ![r] = mem'[Host[r]]]
  /\ pc' = [pc EXCEPT ![r] = "mutated"]
  /\ Meet(r)
  /\ UNCHANGED <<phase, db, holder, image, crashes>>

\* mu.Lock; snap := snapshotStateLocked; mutate; mu.Unlock
Mutate(r) ==
  /\ phase[Host[r]] = "up"
  /\ pc[r] = "idle"
  /\ Cardinality(InFlight) < MaxInFlight
  /\ snap' = [snap EXCEPT ![r] = mem[Host[r]]]
  /\ mem' = [mem EXCEPT ![Host[r]] = @ \cup {r}]
  /\ pc' = [pc EXCEPT ![r] = "mutated"]
  /\ Meet(r)
  /\ UNCHANGED <<phase, db, holder, image, crashes>>

\* Mutant: a handler saves the state it saw when it mutated.
BeginSaveStale(r) ==
  /\ pc[r] \in {"mutated", "undone"}
  /\ holder[Host[r]] = None
  /\ holder' = [holder EXCEPT ![Host[r]] = r]
  /\ image' = [image EXCEPT ![Host[r]] = snap[r] \cup {r}]
  /\ pc' = [pc EXCEPT ![r] = IF @ = "mutated" THEN "saving" ELSE "resaving"]
  /\ UNCHANGED <<phase, mem, db, snap, crashes, met>>

\* persistMu.Lock, then Save takes its own snapshot under mu.RLock
BeginSave(r) ==
  /\ pc[r] \in {"mutated", "undone"}
  /\ holder[Host[r]] = None
  /\ holder' = [holder EXCEPT ![Host[r]] = r]
  /\ image' = [image EXCEPT ![Host[r]] = mem[Host[r]]]
  /\ pc' = [pc EXCEPT ![r] = IF @ = "mutated" THEN "saving" ELSE "resaving"]
  /\ UNCHANGED <<phase, mem, db, snap, crashes, met>>

\* deferred persistMu.Unlock, on every way out of persistState; the save's
\* own snapshot goes out of scope
ReleasePersistMu(p) ==
  /\ holder' = [holder EXCEPT ![p] = None]
  /\ image' = [image EXCEPT ![p] = {}]

\* tx.Commit succeeds: TRUNCATE and INSERTs take effect together
SaveCommits(r) ==
  /\ pc[r] \in {"saving", "resaving"}
  /\ db' = image[Host[r]]
  /\ pc' = [pc EXCEPT ![r] = IF @ = "saving" THEN "committed" ELSE "refused"]
  /\ ReleasePersistMu(Host[r])
  /\ UNCHANGED <<phase, mem, snap, crashes, met>>

\* Mutant: an error return keeps persistMu.
SaveFailsLocked(r) ==
  /\ "save" \in Faults
  /\ pc[r] \in {"saving", "resaving"}
  /\ db' \in IF "unknown" \in Faults THEN {db, image[Host[r]]} ELSE {db}
  /\ pc' = [pc EXCEPT ![r] = IF @ = "saving" THEN "unsaved" ELSE "refused"]
  /\ UNCHANGED <<phase, mem, holder, image, snap, crashes, met>>

\* Save returns an error
SaveFails(r) ==
  /\ "save" \in Faults
  /\ pc[r] \in {"saving", "resaving"}
  /\ db' \in IF "unknown" \in Faults THEN {db, image[Host[r]]} ELSE {db}
  /\ pc' = [pc EXCEPT ![r] = IF @ = "saving" THEN "unsaved" ELSE "refused"]
  /\ ReleasePersistMu(Host[r])
  /\ UNCHANGED <<phase, mem, snap, crashes, met>>

\* restoreStateSnapshot: the whole memory becomes the snapshot
Restore(r) == mem' = [mem EXCEPT ![Host[r]] = snap[r]]

\* Mutant: a failed save is answered without a rollback (persistOrFail).
RollBackNothing(r) ==
  /\ pc[r] = "unsaved"
  /\ pc' = [pc EXCEPT ![r] = "refused"]
  /\ UNCHANGED <<phase, mem, db, holder, image, snap, crashes, met>>

\* persistOrRollback's error branch; the worker only returns the error
RollBack(r) ==
  /\ pc[r] = "unsaved"
  /\ IF Kind[r] = "task" THEN UNCHANGED mem ELSE Restore(r)
  /\ pc' = [pc EXCEPT ![r] = "refused"]
  /\ UNCHANGED <<phase, db, holder, image, snap, crashes, met>>

\* Nothing follows the save, or what follows it went well: answer 200 (ack
\* the task)
Accept(r) ==
  /\ pc[r] = "committed"
  /\ pc' = [pc EXCEPT ![r] = "acked"]
  /\ snap' = [snap EXCEPT ![r] = {}]
  /\ UNCHANGED <<phase, mem, db, holder, image, crashes, met>>

\* The mail or the queue entry failed: only production cares
DeliveryFails(r) ==
  /\ "delivery" \in Faults
  /\ pc[r] = "committed"
  /\ Kind[r] = "deliver"
  /\ Production
  /\ Restore(r)
  /\ pc' = [pc EXCEPT ![r] = "undone"]
  /\ UNCHANGED <<phase, db, holder, image, snap, crashes, met>>

\* answer with an error (leave the task unacknowledged)
Refuse(r) ==
  /\ pc[r] = "refused"
  /\ pc' = [pc EXCEPT ![r] = "failed"]
  /\ snap' = [snap EXCEPT ![r] = {}]
  /\ UNCHANGED <<phase, mem, db, holder, image, crashes, met>>

-----------------------------------------------------------------------------
\* The process dies: memory, locks and handlers are gone; the transaction in
\* progress is aborted, unless its COMMIT was already under way.
Crash(p) ==
  /\ phase[p] # "down"
  /\ crashes < MaxCrashes
  /\ crashes' = crashes + 1
  /\ phase' = [phase EXCEPT ![p] = "down"]
  /\ mem' = [mem EXCEPT ![p] = {}]
  /\ ReleasePersistMu(p)
  /\ db' \in IF holder[p] # None /\ "unknown" \in Faults THEN {db, image[p]} ELSE {db}
  /\ pc' = [r \in Requests |->
              IF Host[r] = p /\ r \in InFlight THEN "lost" ELSE pc[r]]
  /\ snap' = [r \in Requests |-> IF Host[r] = p THEN {} ELSE snap[r]]
  /\ UNCHANGED met

\* Every request has its answer: the servers wait for more.
Quiescent ==
  /\ \A p \in Procs : phase[p] = "up"
  /\ \A r \in Requests : pc[r] \in Settled
  /\ UNCHANGED vars

Handle(r) ==
  \/ BeginSave(r) \/ SaveCommits(r) \/ SaveFails(r) \/ RollBack(r)
  \/ Accept(r) \/ DeliveryFails(r) \/ Refuse(r)

Next ==
  \/ \E p \in Procs : BootLoad(p) \/ BootSave(p) \/ Crash(p)
  \/ \E r \in Requests : Mutate(r) \/ Handle(r)
  \/ Quiescent

Spec == Init /\ [][Next]_vars

\* A started process loads; a handler that has begun runs on: nothing in it
\* waits for a client, the 10 s context bounds every save, and Go's mutexes
\* hand over to whoever waits longest.
LiveSpec ==
  /\ Spec
  /\ \A p \in Procs : WF_vars(BootLoad(p)) /\ WF_vars(BootSave(p))
  /\ \A r \in Requests : WF_vars(Handle(r))

-----------------------------------------------------------------------------
(* Properties.                                                             *)

\* r overlapped nobody, or nobody who has put back a snapshot.
Solo(r) == met[r] = {}
Undisturbed(r) ==
  \A q \in met[r] :
    Kind[q] = "task" \/ pc[q] \notin {"undone", "resaving", "refused", "failed", "lost"}

\* A request that was acknowledged, and overlapped no request that failed, is
\* in the database, and in the memory of its process whenever that is up: no
\* save of others, later failure, rollback, uncertain commit or crash takes it
\* away again.  (persistState saves what memory is then, not what it was when
\* the handler mutated it.)
AckedIsDurable ==
  \A r \in Requests : pc[r] = "acked" /\ Undisturbed(r) =>
    /\ r \in db
    /\ phase[Host[r]] # "down" => r \in mem[Host[r]]

\* A request that no other overlapped, whose save failed for certain, leaves
\* no trace: not in memory, not in the database, not after a restart.
SoloRefusedLeavesNoTrace ==
  \A r \in Requests : pc[r] = "failed" /\ Solo(r) /\ Kind[r] = "plain" =>
    r \notin db /\ r \notin mem[Host[r]]

\* Every acknowledged request is in the database, whoever it overlapped.
\* (restoreStateSnapshot puts back the snapshot of ANY failing handler.)
EveryAckedIsDurable == \A r \in Requests : pc[r] = "acked" => r \in db

\* Every request that has mutated the state is answered, or its process dies.
EveryRequestSettles ==
  \A r \in Requests : pc[r] \in Flying ~> pc[r] \in Settled

\* What clients were promised.  A failed task has no client: the queue
\* delivers it again.
Answer == [r \in Requests |->
  CASE pc[r] = "acked" -> "yes"
    [] pc[r] = "failed" /\ Kind[r] # "task" -> "no"
    [] OTHER -> "none"]

Promise == INSTANCE DurableStore WITH stored <- db, answer <- Answer

\* The write path implements the promise.
KeepsPromise == Promise!StoreSpec
=============================================================================
