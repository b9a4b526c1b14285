--------------------------- MODULE ImageLifecycle ---------------------------
(***************************************************************************)
(* Images from upload or import to deletion, in the API server and in the  *)
(* worker: the object storage, the status, the derived variants and the    *)
(* storage that is counted for their owners.                               *)
(*                                                                         *)
(* Every handler of the API server is a job: it may write objects, changes *)
(* the memory of its process, saves that memory, and only then removes     *)
(* objects or enqueues the task; a failed save puts its snapshot back (see *)
(* StatePersistence).  The worker has a memory of its own, of the moment   *)
(* it started.  What a subscription allows and when it has run out is the  *)
(* subject of Billing: here both may be the case at any time.              *)
(***************************************************************************)
EXTENDS Integers, FiniteSets, FiniteSetsExt

CONSTANTS
  Jobs,        \* requests to the API server; each is run once
  Images,      \* public ids; each is minted once
  Users,
  Owner,       \* Owner[i]: the user who uploads or imports i
  Hash,        \* Hash[i]: the perceptual hash of the content of i
  Blocked,     \* cfg.ModerationBlockedHashes
  Kinds,       \* kinds of variants
  Bytes,       \* size of an original
  MaxVariant,  \* bound: size of a variant
  Quota,       \* plan.Quota.StorageBytes
  Production,  \* cfg.AppEnv = "production"
  MaxFaults,   \* bound: failing calls and dying processes
  None         \* no image

ASSUME OwnerAssumption == Owner \in [Images -> Users] /\ None \notin Images
ASSUME KindAssumption == "original" \notin Kinds
ASSUME FiniteAssumption == IsFiniteSet(Images) /\ IsFiniteSet(Kinds)
ASSUME SizeAssumption == Bytes \in Nat \ {0} /\ MaxVariant \in Nat \ {0} /\ Quota \in Nat
ASSUME ConfigAssumption == Production \in BOOLEAN /\ MaxFaults \in Nat

VARIABLES
  up,       \* up[p]: p has loaded the database and serves
  mem,      \* mem[p]: the images and usage in the memory of p
  db,       \* the same in PostgreSQL
  objects,  \* keys in the object storage
  job,      \* job[j]: the handler that j runs
  work,     \* the task that the worker is at
  tasks,    \* images with a task in the queue
  minted,   \* ids given out
  faults,   \* faults so far
  gone,     \* history: images whose deletion was saved or whose upload refused
  again,    \* history: images that an administrator touched after deletion
  strayed   \* history: images whose objects may be left over: a removal failed,
            \* the API server died, or a rollback hit others' changes

history == <<gone, again, strayed>>
vars == <<up, mem, db, objects, job, work, tasks, minted, faults, history>>

Procs == {"api", "worker"}
Live == {"active", "frozen"}

\* What a process knows: per image its status and the bytes of each variant
\* (0: there is none), per user Usage.StorageBytes.
States == [status : [Images -> {"none", "active", "frozen", "deleted"}],
           variants : [Images -> [Kinds -> 0..MaxVariant]],
           used : [Users -> Nat]]

NoState == [status |-> [i \in Images |-> "none"],
            variants |-> [i \in Images |-> [k \in Kinds |-> 0]],
            used |-> [u \in Users |-> 0]]

Keys == Images \X (Kinds \cup {"original"})
Original(i) == <<i, "original">>
VariantKeys(i, variants) == {<<i, k>> : k \in {k \in Kinds : variants[k] > 0}}
KeysOf(st, i) == {Original(i)} \cup VariantKeys(i, st.variants[i])

\* variantBytesTotal, and what an image occupies
VariantBytes(variants) == MapThenSumSet(LAMBDA k : variants[k], Kinds)
StoredBytes(st, i) == Bytes + VariantBytes(st.variants[i])

\* What images of u occupy together, with these variants
Occupied(images, variants, u) ==
  MapThenSumSet(LAMBDA i : Bytes + VariantBytes(variants[i]), {i \in images : Owner[i] = u})

Idle == [op |-> "none", step |-> "idle", images |-> {}, keys |-> {}, snap |-> NoState]
Done == [Idle EXCEPT !.step = "done"]
NoWork == [step |-> "idle", image |-> None, variants |-> [k \in Kinds |-> 0]]

TypeOK ==
  /\ up \in [Procs -> BOOLEAN]
  /\ mem \in [Procs -> States] /\ db \in States
  /\ objects \subseteq Keys
  /\ job \in [Jobs -> [op : {"none", "upload", "import", "delete", "freeze"},
                       step : {"idle", "put", "mutated", "saved", "removing", "undoing", "done"},
                       images : SUBSET Images, keys : SUBSET Keys, snap : States]]
  /\ work \in [step : {"idle", "putting", "stored", "saving", "acking"},
               image : Images \cup {None}, variants : [Kinds -> 0..MaxVariant]]
  /\ tasks \subseteq minted /\ minted \subseteq Images
  /\ faults \in 0..MaxFaults
  /\ gone \subseteq Images /\ again \subseteq Images /\ strayed \subseteq Images

Init ==
  /\ up = [p \in Procs |-> FALSE]
  /\ mem = [p \in Procs |-> NoState] /\ db = NoState
  /\ objects = {}
  /\ job = [j \in Jobs |-> Idle]
  /\ work = NoWork
  /\ tasks = {} /\ minted = {}
  /\ faults = 0
  /\ gone = {} /\ again = {} /\ strayed = {}

Fault == faults < MaxFaults /\ faults' = faults + 1

-----------------------------------------------------------------------------
(* Processes.                                                              *)

\* NewServer loads the database and saves it back; what may happen in between
\* is in StatePersistence.
Boot(p) ==
  /\ ~up[p]
  /\ up' = [up EXCEPT ![p] = TRUE]
  /\ mem' = [mem EXCEPT ![p] = db]
  /\ UNCHANGED <<db, objects, job, work, tasks, minted, faults, history>>

\* Handlers and tasks at work die with their process.
Crash(p) ==
  /\ Fault
  /\ up[p]
  /\ up' = [up EXCEPT ![p] = FALSE]
  /\ mem' = [mem EXCEPT ![p] = NoState]
  /\ IF p = "api"
     THEN /\ job' = [j \in Jobs |-> IF job[j].step = "idle" THEN Idle ELSE Done]
          /\ strayed' = strayed \cup minted
          /\ UNCHANGED work
     ELSE work' = NoWork /\ UNCHANGED <<job, strayed>>
  /\ UNCHANGED <<db, objects, tasks, minted, gone, again>>

-----------------------------------------------------------------------------
(* Handlers that create images.                                            *)

Free(j) == up["api"] /\ job[j].step = "idle"

\* The handler of j has written keys for the new images.
Put(j, op, images, keys) ==
  /\ images \cap minted = {}
  /\ minted' = minted \cup images
  /\ objects' = objects \cup keys
  /\ job' = [job EXCEPT ![j] = [op |-> op, step |-> "put", images |-> images,
                                keys |-> keys, snap |-> mem["api"]]]
  /\ UNCHANGED <<up, mem, db, work, tasks, faults, history>>

\* uploadImage up to its lock.  CheckUpload sees the size of the original
\* only; a variant that cannot be made or written is left out.
UploadPut(j, i) ==
  /\ Free(j)
  /\ mem["api"].used[Owner[i]] + Bytes <= Quota
  /\ \E kinds \in SUBSET Kinds :
       Put(j, "upload", {i}, {Original(i)} \cup {<<i, k>> : k \in kinds})

\* importBackup up to its lock; the snapshot is taken before the objects are
\* written.
ImportPut(j, images) ==
  /\ Free(j)
  /\ images # {} /\ \A i, k \in images : Owner[i] = Owner[k]
  /\ Put(j, "import", images, {Original(i) : i \in images})

\* An object cannot be written: restoreBackupImages removes the others.
ImportFails(j) ==
  /\ Fault
  /\ job[j].op = "import" /\ job[j].step = "put"
  /\ job' = [job EXCEPT ![j].step = "removing", ![j].snap = NoState]
  /\ gone' = gone \cup job[j].images
  /\ UNCHANGED <<up, mem, db, objects, work, tasks, minted, again, strayed>>

\* The images become active, with the variants that were written; what they
\* occupy is added.
Created(st, images, variants) ==
  [status   |-> [i \in Images |-> IF i \in images THEN "active" ELSE st.status[i]],
   variants |-> [i \in Images |-> IF i \in images THEN variants[i] ELSE st.variants[i]],
   used     |-> [u \in Users |-> st.used[u] + Occupied(images, variants, u)]]

\* uploadImage takes its snapshot here; the import has one.
Create(j) ==
  /\ job[j].step = "put"
  /\ \E variants \in [job[j].images -> [Kinds -> 0..MaxVariant]] :
       /\ job[j].keys = UNION {{Original(i)} \cup VariantKeys(i, variants[i]) : i \in job[j].images}
       /\ mem' = [mem EXCEPT !["api"] = Created(@, job[j].images, variants)]
  /\ job' = [job EXCEPT ![j].step = "mutated",
                        ![j].snap = IF job[j].op = "upload" THEN mem["api"] ELSE @]
  /\ UNCHANGED <<up, db, objects, work, tasks, minted, faults, history>>

-----------------------------------------------------------------------------
(* Handlers that withdraw images.                                          *)

\* Mutant: no floor at zero.
WithdrawnBelow(st, i) ==
  [st EXCEPT !.status[i] = "deleted", !.used[Owner[i]] = @ - StoredBytes(st, i)]

\* Status and usage after a deletion
Withdrawn(st, i) ==
  [st EXCEPT !.status[i] = "deleted",
             !.used[Owner[i]] = IF @ >= StoredBytes(st, i) THEN @ - StoredBytes(st, i) ELSE 0]

\* The handler of j changes the memory to st.
Mutate(j, op, images, keys, st) ==
  /\ mem' = [mem EXCEPT !["api"] = st]
  /\ job' = [job EXCEPT ![j] = [op |-> op, step |-> "mutated", images |-> images,
                                keys |-> keys, snap |-> mem["api"]]]
  /\ UNCHANGED <<up, db, objects, work, tasks, minted, faults, gone, strayed>>

Touch(i) == again' = IF mem["api"].status[i] = "deleted" THEN again \cup {i} ELSE again

DeleteImage(j, i) ==
  /\ Free(j)
  /\ mem["api"].status[i] \in Live
  /\ Mutate(j, "delete", {i}, KeysOf(mem["api"], i), Withdrawn(mem["api"], i))
  /\ UNCHANGED again

\* adminDeleteImage and adminFreezeImage take an image of any status.
AdminDeleteImage(j, i) ==
  /\ Free(j)
  /\ mem["api"].status[i] # "none"
  /\ Mutate(j, "delete", {i}, KeysOf(mem["api"], i), Withdrawn(mem["api"], i))
  /\ Touch(i)

AdminFreezeImage(j, i) ==
  /\ Free(j)
  /\ mem["api"].status[i] # "none"
  /\ Mutate(j, "freeze", {i}, {}, [mem["api"] EXCEPT !.status[i] = "frozen"])
  /\ Touch(i)

\* adminPurgeExpired, of users whose retention is over
AdminPurgeExpired(j, users) ==
  LET st     == mem["api"]
      images == {i \in Images : Owner[i] \in users /\ st.status[i] \in Live}
  IN /\ Free(j) /\ users # {}
     /\ Mutate(j, "delete", images, UNION {KeysOf(st, i) : i \in images},
          [st EXCEPT !.status = [i \in Images |-> IF i \in images THEN "deleted" ELSE @[i]],
                     !.used = [u \in Users |-> IF u \in users THEN 0 ELSE @[u]]])
     /\ UNCHANGED again

-----------------------------------------------------------------------------
(* What follows a change: save it, and then remove objects or enqueue.     *)

\* A handler with nothing left to remove answers.
Ended(rec) ==
  IF rec.step = "done" \/ (rec.step = "removing" /\ rec.keys = {}) THEN Done ELSE rec

\* An upload goes on to its task and a deletion to its objects.
Save(j) ==
  /\ job[j].step = "mutated"
  /\ db' = mem["api"]
  /\ job' = [job EXCEPT ![j] =
       CASE job[j].op = "upload" -> [@ EXCEPT !.step = "saved"]
         [] job[j].op = "delete" -> Ended([@ EXCEPT !.step = "removing", !.snap = NoState])
         [] OTHER -> Done]
  /\ gone' = IF job[j].op = "delete" THEN gone \cup job[j].images ELSE gone
  /\ UNCHANGED <<up, mem, objects, work, tasks, minted, faults, again, strayed>>

\* Images whose status a rollback of j takes from others
Hit(j) ==
  LET changed == {i \in Images : mem["api"].status[i] # job[j].snap.status[i]}
  IN (changed \ job[j].images) \cup
     {i \in job[j].images : \E q \in Jobs \ {j} : i \in job[q].images}

\* restoreStateSnapshot, and the handler goes on with step
RollBack(j, step) ==
  /\ mem' = [mem EXCEPT !["api"] = job[j].snap]
  /\ job' = [job EXCEPT ![j] = Ended([@ EXCEPT !.step = step, !.snap = NoState])]
  /\ strayed' = strayed \cup Hit(j)

Makes(j) == job[j].op \in {"upload", "import"}

\* Mutants: objects are removed whether or not the deletion was saved; a
\* failed upload leaves its objects (persistOrRollback).
AlwaysRemoves(j) == "removing"
NeverCleansUp(j) == "done"

\* persistOrRollbackWithCleanup of uploads and imports, persistOrRollback of
\* the others
AfterFailedSave(j) == IF Makes(j) THEN "removing" ELSE "done"

SaveFails(j) ==
  /\ Fault
  /\ job[j].step = "mutated"
  /\ db' \in {db, mem["api"]}
  /\ RollBack(j, AfterFailedSave(j))
  /\ gone' = IF Makes(j) THEN gone \cup job[j].images ELSE gone
  /\ UNCHANGED <<up, objects, work, tasks, minted, again>>

\* Outside production an error of the queue is ignored.
Enqueue(j) ==
  /\ job[j].step = "saved"
  /\ \E queued \in IF Production THEN {job[j].images} ELSE {job[j].images, {}} :
       tasks' = tasks \cup queued
  /\ job' = [job EXCEPT ![j] = Done]
  /\ UNCHANGED <<up, mem, db, objects, work, minted, faults, history>>

\* The entry may be in the stream all the same.
EnqueueFails(j) ==
  /\ Fault
  /\ Production
  /\ job[j].step = "saved"
  /\ tasks' \in {tasks, tasks \cup job[j].images}
  /\ RollBack(j, "undoing")
  /\ gone' = gone \cup job[j].images
  /\ UNCHANGED <<up, db, objects, work, minted, again>>

\* store.DeleteObject, of an original before its variants; errors are ignored.
RemoveObject(j, key) ==
  /\ job[j].step \in {"removing", "undoing"}
  /\ key \in job[j].keys
  /\ key = Original(key[1]) \/ Original(key[1]) \notin job[j].keys
  /\ job' = [job EXCEPT ![j] = Ended([@ EXCEPT !.keys = job[j].keys \ {key}])]
  /\ \/ objects' = objects \ {key} /\ UNCHANGED <<faults, strayed>>
     \/ Fault /\ strayed' = strayed \cup {key[1]} /\ UNCHANGED objects
  /\ UNCHANGED <<up, mem, db, work, tasks, minted, gone, again>>

\* A refused upload saves the memory it has put back; if that fails the
\* handler only says so.
SaveUndone(j) ==
  /\ job[j].step = "undoing" /\ job[j].keys = {}
  /\ \/ db' = mem["api"] /\ UNCHANGED faults
     \/ Fault /\ UNCHANGED db
  /\ job' = [job EXCEPT ![j] = Done]
  /\ UNCHANGED <<up, mem, objects, work, tasks, minted, history>>

-----------------------------------------------------------------------------
(* The worker: ProcessImageVariants.  A task that ends with an error stays *)
(* in the queue, an image the worker has never heard of included.          *)

Ends == work' = NoWork

\* A deleted or frozen image needs nothing; of the others the original is
\* read and whatever variants can be made are made.
ProcessRead(i) ==
  /\ up["worker"] /\ work.step = "idle"
  /\ i \in tasks
  /\ \/ /\ mem["worker"].status[i] \in {"deleted", "frozen"}
        /\ work' = [NoWork EXCEPT !.step = "acking", !.image = i]
     \/ /\ mem["worker"].status[i] = "active"
        /\ Original(i) \in objects
        /\ \E variants \in [Kinds -> 0..MaxVariant] :
             work' = [step |-> "putting", image |-> i, variants |-> variants]
  /\ UNCHANGED <<up, mem, db, objects, job, tasks, minted, faults, history>>

ProcessPut ==
  /\ work.step = "putting"
  /\ objects' = objects \cup VariantKeys(work.image, work.variants)
  /\ work' = [work EXCEPT !.step = "stored"]
  /\ UNCHANGED <<up, mem, db, job, tasks, minted, faults, history>>

\* One variant cannot be written: some of the others were.
ProcessPutFails ==
  /\ Fault
  /\ work.step = "putting"
  /\ \E k \in {k \in Kinds : work.variants[k] > 0} :
       \E keys \in SUBSET (VariantKeys(work.image, work.variants) \ {<<work.image, k>>}) :
         objects' = objects \cup keys
  /\ Ends
  /\ UNCHANGED <<up, mem, db, job, tasks, minted, history>>

\* mergeVariants: a kind made again replaces the one there was.
Merged(existing, generated) ==
  [k \in Kinds |-> IF generated[k] > 0 THEN generated[k] ELSE existing[k]]

\* moderationBlockReasonLocked
Offends(st, i) ==
  \/ Hash[i] \in Blocked
  \/ \E other \in Images \ {i} : st.status[other] = "frozen" /\ Hash[other] = Hash[i]

\* Mutant: the variants are counted again each time.
RecountedAgain(used, old, new) == used + new

\* The difference in bytes is added, or taken away when there is as much.
Recounted(used, old, new) ==
  CASE new >= old -> used + (new - old)
    [] new < old /\ used >= old - new -> used - (old - new)
    [] OTHER -> used

\* The image lists all its variants and is frozen if its content is blocked.
Revised(st, i, all) ==
  [st EXCEPT !.status[i] = IF Offends(st, i) THEN "frozen" ELSE @,
             !.variants[i] = all,
             !.used[Owner[i]] = Recounted(@, VariantBytes(st.variants[i]), VariantBytes(all))]

\* The image is looked at again under the lock.
ProcessCommit ==
  LET i  == work.image
      st == mem["worker"]
  IN /\ work.step = "stored"
     /\ IF st.status[i] \in {"deleted", "frozen"}
        THEN UNCHANGED mem
        ELSE mem' = [mem EXCEPT !["worker"] =
                       Revised(st, i, Merged(st.variants[i], work.variants))]
     /\ work' = [work EXCEPT !.step =
          IF st.status[i] \in {"deleted", "frozen"} THEN "acking" ELSE "saving"]
     /\ UNCHANGED <<up, db, objects, job, tasks, minted, faults, history>>

\* The whole memory of the worker becomes the database.
ProcessSave ==
  /\ work.step = "saving"
  /\ db' = mem["worker"]
  /\ work' = [work EXCEPT !.step = "acking"]
  /\ UNCHANGED <<up, mem, objects, job, tasks, minted, faults, history>>

\* No rollback here.
ProcessSaveFails ==
  /\ Fault
  /\ work.step = "saving"
  /\ db' \in {db, mem["worker"]}
  /\ Ends
  /\ UNCHANGED <<up, mem, objects, job, tasks, minted, history>>

\* A task once acknowledged is not seen again.
ProcessAck ==
  /\ work.step = "acking"
  /\ tasks' = tasks \ {work.image}
  /\ Ends
  /\ UNCHANGED <<up, mem, db, objects, job, minted, faults, history>>

-----------------------------------------------------------------------------
\* Every request has its answer and the worker is at no task.
Quiescent ==
  /\ \A p \in Procs : up[p]
  /\ \A j \in Jobs : job[j] = Done
  /\ work = NoWork
  /\ UNCHANGED vars

Handle(j) ==
  \/ \E i \in Images : UploadPut(j, i) \/ DeleteImage(j, i) \/ AdminDeleteImage(j, i)
                         \/ AdminFreezeImage(j, i)
  \/ \E images \in SUBSET Images : ImportPut(j, images)
  \/ \E users \in SUBSET Users : AdminPurgeExpired(j, users)
  \/ ImportFails(j) \/ Create(j) \/ Save(j) \/ SaveFails(j) \/ Enqueue(j) \/ EnqueueFails(j)
  \/ \E key \in Keys : RemoveObject(j, key) \/ SaveUndone(j)

Process ==
  \/ \E i \in Images : ProcessRead(i)
  \/ ProcessPut \/ ProcessPutFails \/ ProcessCommit \/ ProcessSave \/ ProcessSaveFails
  \/ ProcessAck

Next ==
  \/ \E p \in Procs : Boot(p) \/ Crash(p)
  \/ \E j \in Jobs : Handle(j)
  \/ Process
  \/ Quiescent

Spec == Init /\ [][Next]_vars

-----------------------------------------------------------------------------
(* Properties.                                                             *)

\* Every process counts for every user exactly what his images occupy, after
\* any uploads, imports, deletions, purges, new variants, rollbacks, crashes
\* and saves of the other process, unless an administrator deleted or froze
\* one of his images after it was deleted.  (adminDeleteImage subtracts the
\* bytes again, adminFreezeImage revives the image without adding them.)
StorageIsCounted ==
  \A p \in Procs, u \in Users :
    up[p] /\ (\A i \in again : Owner[i] # u) =>
      mem[p].used[u] =
        Occupied({i \in Images : mem[p].status[i] \in Live}, mem[p].variants, u)

\* An image that a process shows has its original and every variant it lists
\* in the object storage, unless a deletion of it was saved or its upload was
\* refused: what fails, or dies on the way, takes nothing that is still shown.
ShownHasObjects ==
  \A p \in Procs, i \in Images :
    up[p] /\ mem[p].status[i] \in Live /\ i \notin gone => KeysOf(mem[p], i) \subseteq objects

\* No original is left over: once no handler is at an image that the API
\* server does not show, its original is gone, unless the storage refused to
\* remove it, the server died, or a rollback hit what others did.
NoOriginalLeftOver ==
  \A i \in Images :
    Original(i) \in objects /\ up["api"] /\ i \notin strayed
      /\ (\A j \in Jobs : i \notin job[j].images) => mem["api"].status[i] \in Live
=============================================================================
