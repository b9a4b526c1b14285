------------------------ MODULE ImageLifecycleProofs ------------------------
(* Theorems about ImageLifecycle, for any images, users, requests, sizes   *)
(* and bounds: objects are there, originals are accounted for, the bytes   *)
(* are counted right, and every variable has its type.                     *)
EXTENDS ImageLifecycle, FiniteSetTheorems, WellFoundedInduction, TLAPS

Statuses == {"none", "active", "frozen", "deleted"}
Sizes == [Kinds -> 0..MaxVariant]

\* What a process knows is a record of a status and variants for every image.
Shape(st) ==
  /\ st = [status |-> st.status, variants |-> st.variants, used |-> st.used]
  /\ st.status \in [Images -> Statuses]
  /\ st.variants \in [Images -> Sizes]

JobShape(rec) ==
  /\ rec = [op |-> rec.op, step |-> rec.step, images |-> rec.images,
            keys |-> rec.keys, snap |-> rec.snap]
  /\ Shape(rec.snap)
  /\ rec.images \subseteq Images
  /\ \A key \in rec.keys : key[1] \in rec.images

\* Every image that st has heard of has its objects in store, except those in
\* lost.
Backed(st, store, lost) ==
  \A i \in Images : st.status[i] # "none" /\ i \notin lost => KeysOf(st, i) \subseteq store

\* A handler that has written objects finds them until its images are lost; one
\* that removes objects does so for lost images only.
JobBacked(rec, store, lost) ==
  /\ Backed(rec.snap, store, lost)
  /\ rec.step = "put" => \A key \in rec.keys : key \in store \/ key[1] \in lost
  /\ rec.step \in {"removing", "undoing"} => rec.images \subseteq lost

Shapes ==
  /\ up \in [Procs -> BOOLEAN]
  /\ mem = [p \in Procs |-> mem[p]]
  /\ \A p \in Procs : Shape(mem[p])
  /\ Shape(db)
  /\ job = [j \in Jobs |-> job[j]]
  /\ \A j \in Jobs : JobShape(job[j])
  /\ work \in [step : {"idle", "putting", "stored", "saving", "acking"},
               image : Images \cup {None}, variants : Sizes]

AllBacked ==
  /\ \A p \in Procs : Backed(mem[p], objects, gone)
  /\ Backed(db, objects, gone)
  /\ \A j \in Jobs : JobBacked(job[j], objects, gone)

\* The image the worker is at stays active in the memory of the worker.
WorkBacked ==
  /\ ~up["worker"] => work = NoWork
  /\ work.step \in {"putting", "stored"} =>
       work.image \in Images /\ mem["worker"].status[work.image] = "active"
  /\ work.step = "stored" /\ work.image \notin gone =>
       VariantKeys(work.image, work.variants) \subseteq objects

IInv == Shapes /\ AllBacked /\ WorkBacked

-----------------------------------------------------------------------------
(* Keys, and what keeps a state backed.                                    *)

LEMMA KeysImage ==
  ASSUME NEW st, NEW i, NEW key \in KeysOf(st, i)
  PROVE  key[1] = i
  BY DEF KeysOf, VariantKeys, Original

\* The store may lose what belongs to lost images, and more images may be lost.
Weaker(store, lost, store2, lost2) ==
  /\ lost \subseteq lost2
  /\ \A key \in store : key \in store2 \/ key[1] \in lost2

LEMMA BackedKeeps ==
  ASSUME NEW st, NEW store, NEW lost, NEW store2, NEW lost2,
         Backed(st, store, lost), Weaker(store, lost, store2, lost2)
  PROVE  Backed(st, store2, lost2)
<1> SUFFICES ASSUME NEW i \in Images, st.status[i] # "none", i \notin lost2,
                    NEW key \in KeysOf(st, i)
             PROVE  key \in store2
  BY DEF Backed
<1>1. key[1] = i
  BY KeysImage
<1>2. key \in store
  BY DEF Backed, Weaker
<1> QED
  BY <1>1, <1>2 DEF Weaker

LEMMA JobBackedKeeps ==
  ASSUME NEW rec, NEW store, NEW lost, NEW store2, NEW lost2,
         JobBacked(rec, store, lost), Weaker(store, lost, store2, lost2)
  PROVE  JobBacked(rec, store2, lost2)
<1>1. Backed(rec.snap, store2, lost2)
  BY BackedKeeps DEF JobBacked
<1> QED
  BY <1>1 DEF JobBacked, Weaker

\* All at once, for a step that leaves memories, database, handlers and worker
\* as they are, each where it does.
LEMMA AllKeeps ==
  ASSUME AllBacked, Weaker(objects, gone, objects', gone')
  PROVE  /\ \A p \in Procs : Backed(mem[p], objects', gone')
         /\ Backed(db, objects', gone')
         /\ \A j \in Jobs : JobBacked(job[j], objects', gone')
  BY BackedKeeps, JobBackedKeeps DEF AllBacked

LEMMA WorkKeeps ==
  ASSUME WorkBacked, Weaker(objects, gone, objects', gone'), UNCHANGED work,
         up'["worker"] = up["worker"], mem'["worker"] = mem["worker"]
  PROVE  WorkBacked'
<1>1. ASSUME work.step = "stored", work.image \notin gone'
      PROVE  VariantKeys(work.image, work.variants) \subseteq objects'
  <2>1. VariantKeys(work.image, work.variants) \subseteq objects
    BY <1>1 DEF WorkBacked, Weaker
  <2>2. \A key \in VariantKeys(work.image, work.variants) : key[1] = work.image
    BY DEF VariantKeys
  <2> QED
    BY <1>1, <2>1, <2>2 DEF Weaker
<1> QED
  BY <1>1 DEF WorkBacked

LEMMA Same == Weaker(objects, gone, objects, gone)
  BY DEF Weaker

LEMMA NoStateShape == Shape(NoState) /\ \A store, lost : Backed(NoState, store, lost)
<1>1. 0 \in 0..MaxVariant
  BY SizeAssumption
<1> QED
  BY <1>1 DEF NoState, Shape, Backed, Statuses, Sizes

LEMMA RestShape ==
  \A rec \in {Idle, Done} : JobShape(rec) /\ \A store, lost : JobBacked(rec, store, lost)
  BY NoStateShape DEF Idle, Done, JobShape, JobBacked

LEMMA NoWorkShape ==
  /\ NoWork \in [step : {"idle", "putting", "stored", "saving", "acking"},
                 image : Images \cup {None}, variants : Sizes]
  /\ NoWork.step = "idle"
<1>1. 0 \in 0..MaxVariant
  BY SizeAssumption
<1> QED
  BY <1>1 DEF NoWork, Sizes

LEMMA InitIInv == Init => IInv
<1> SUFFICES ASSUME Init PROVE IInv
  OBVIOUS
<1>1. Shapes
  BY NoStateShape, RestShape, NoWorkShape DEF Init, Shapes
<1>2. AllBacked
  BY NoStateShape, RestShape DEF Init, AllBacked
<1>3. WorkBacked
  BY NoWorkShape DEF Init, WorkBacked, Procs
<1> QED
  BY <1>1, <1>2, <1>3 DEF IInv

-----------------------------------------------------------------------------
(* Processes.                                                              *)

LEMMA BootIInv == \A p \in Procs : IInv /\ Boot(p) => IInv'
<1> SUFFICES ASSUME NEW p \in Procs, IInv, Boot(p) PROVE IInv'
  OBVIOUS
<1> USE DEF IInv
<1>1. Shapes'
  BY DEF Boot, Shapes
<1>2. AllBacked'
  BY DEF Boot, AllBacked, Shapes, history
<1>3. WorkBacked'
  <2>1. CASE p = "api"
    BY <2>1, Same, WorkKeeps DEF Boot, Shapes, Procs, history
  <2>2. CASE p = "worker"
    BY <2>2, NoWorkShape DEF Boot, Shapes, Procs, WorkBacked, history
  <2> QED
    BY <2>1, <2>2 DEF Procs
<1> QED
  BY <1>1, <1>2, <1>3

LEMMA CrashIInv == \A p \in Procs : IInv /\ Crash(p) => IInv'
<1> SUFFICES ASSUME NEW p \in Procs, IInv, Crash(p) PROVE IInv'
  OBVIOUS
<1> USE DEF IInv
<1>1. CASE p = "api"
  <2>1. job' = [j \in Jobs |-> IF job[j].step = "idle" THEN Idle ELSE Done] /\ UNCHANGED work
    BY <1>1 DEF Crash
  <2>2. Shapes'
    BY <2>1, NoStateShape, RestShape DEF Crash, Shapes
  <2>3. AllBacked'
    BY <2>1, NoStateShape, RestShape DEF Crash, AllBacked, Shapes
  <2>4. WorkBacked'
    BY <1>1, <2>1, Same, WorkKeeps DEF Crash, Shapes, Procs
  <2> QED
    BY <2>2, <2>3, <2>4
<1>2. CASE p = "worker"
  <2>1. work' = NoWork /\ UNCHANGED job
    BY <1>2 DEF Crash
  <2>2. Shapes'
    BY <2>1, NoStateShape, NoWorkShape DEF Crash, Shapes
  <2>3. AllBacked'
    BY <2>1, NoStateShape DEF Crash, AllBacked, Shapes
  <2>4. WorkBacked'
    BY <2>1, NoWorkShape DEF WorkBacked
  <2> QED
    BY <2>2, <2>3, <2>4
<1> QED
  BY <1>1, <1>2 DEF Procs

-----------------------------------------------------------------------------
(* Updates of several fields, one after another.                           *)

LEMMA JobUpdate ==
  ASSUME NEW rec, JobShape(rec), NEW step, NEW snap
  PROVE  /\ [rec EXCEPT !.step = step] =
              [op |-> rec.op, step |-> step, images |-> rec.images,
               keys |-> rec.keys, snap |-> rec.snap]
         /\ [rec EXCEPT !.step = step, !.snap = snap] =
              [op |-> rec.op, step |-> step, images |-> rec.images,
               keys |-> rec.keys, snap |-> snap]
<1> DEFINE mid == [rec EXCEPT !.step = step]
<1>1. rec = [op |-> rec.op, step |-> rec.step, images |-> rec.images,
             keys |-> rec.keys, snap |-> rec.snap]
  BY DEF JobShape
<1>2. mid = [op |-> rec.op, step |-> step, images |-> rec.images,
             keys |-> rec.keys, snap |-> rec.snap]
  BY <1>1
<1>3. [rec EXCEPT !.step = step, !.snap = snap] = [mid EXCEPT !.snap = snap]
  OBVIOUS
<1> HIDE DEF mid
<1>4. [mid EXCEPT !.snap = snap] =
        [op |-> rec.op, step |-> step, images |-> rec.images, keys |-> rec.keys, snap |-> snap]
  BY <1>2
<1> QED
  BY <1>2, <1>3, <1>4 DEF mid

LEMMA KeysUpdate ==
  ASSUME NEW rec, JobShape(rec), NEW keys
  PROVE  [rec EXCEPT !.keys = keys] =
           [op |-> rec.op, step |-> rec.step, images |-> rec.images,
            keys |-> keys, snap |-> rec.snap]
  BY DEF JobShape

LEMMA StateUpdate ==
  ASSUME NEW st, Shape(st), NEW status, NEW used
  PROVE  /\ [st EXCEPT !.status = status] =
              [status |-> status, variants |-> st.variants, used |-> st.used]
         /\ [st EXCEPT !.status = status, !.used = used] =
              [status |-> status, variants |-> st.variants, used |-> used]
<1> DEFINE one == [st EXCEPT !.status = status]
<1>1. one = [status |-> status, variants |-> st.variants, used |-> st.used]
  BY DEF Shape
<1>2. [st EXCEPT !.status = status, !.used = used] = [one EXCEPT !.used = used]
  OBVIOUS
<1> HIDE DEF one
<1>3. [one EXCEPT !.used = used] = [status |-> status, variants |-> st.variants, used |-> used]
  BY <1>1
<1> QED
  BY <1>1, <1>2, <1>3 DEF one

LEMMA WholeUpdate ==
  ASSUME NEW st, Shape(st), NEW status, NEW variants, NEW used
  PROVE  [st EXCEPT !.status = status, !.variants = variants, !.used = used] =
           [status |-> status, variants |-> variants, used |-> used]
<1> DEFINE one == [st EXCEPT !.status = status]
           two == [one EXCEPT !.variants = variants]
<1>1. one = [status |-> status, variants |-> st.variants, used |-> st.used]
  BY StateUpdate
<1>2. [st EXCEPT !.status = status, !.variants = variants, !.used = used]
        = [two EXCEPT !.used = used]
  OBVIOUS
<1> HIDE DEF one
<1>3. two = [status |-> status, variants |-> variants, used |-> st.used]
  BY <1>1
<1> HIDE DEF two
<1>4. [two EXCEPT !.used = used] = [status |-> status, variants |-> variants, used |-> used]
  BY <1>3
<1> QED
  BY <1>2, <1>4 DEF two, one

-----------------------------------------------------------------------------
(* Handlers that create images.                                            *)

\* A step of one handler, given what it does to memory and database: its new
\* record and the new memory are all there is to look at.
LEMMA HandlerStep ==
  ASSUME IInv, NEW j \in Jobs, NEW rec,
         UNCHANGED <<up, work>>,
         job' = [job EXCEPT ![j] = rec], JobShape(rec),
         Weaker(objects, gone, objects', gone'),
         JobBacked(rec, objects', gone'),
         \/ UNCHANGED mem
         \/ \E st : /\ mem' = [mem EXCEPT !["api"] = st]
                   /\ Shape(st) /\ Backed(st, objects', gone'),
         db' = db \/ db' = mem["api"]
  PROVE  IInv'
<1> USE DEF IInv
<1>1. "api" \in Procs /\ "worker" \in Procs /\ "api" # "worker"
  BY DEF Procs
<1>2. /\ \A p \in Procs : Backed(mem[p], objects', gone')
      /\ Backed(db, objects', gone')
      /\ \A q \in Jobs : JobBacked(job[q], objects', gone')
  BY AllKeeps
<1>3. /\ mem' = [p \in Procs |-> mem'[p]]
      /\ mem'["worker"] = mem["worker"]
      /\ \A p \in Procs : Shape(mem'[p]) /\ Backed(mem'[p], objects', gone')
  <2>1. CASE UNCHANGED mem
    BY <1>1, <1>2, <2>1 DEF Shapes
  <2>2. ASSUME NEW st, mem' = [mem EXCEPT !["api"] = st],
               Shape(st), Backed(st, objects', gone')
        PROVE  /\ mem' = [p \in Procs |-> mem'[p]]
               /\ mem'["worker"] = mem["worker"]
               /\ \A p \in Procs : Shape(mem'[p]) /\ Backed(mem'[p], objects', gone')
    BY <1>1, <1>2, <2>2 DEF Shapes
  <2> QED
    BY <2>1, <2>2
<1>4. /\ job' = [q \in Jobs |-> job'[q]]
      /\ \A q \in Jobs : JobShape(job'[q]) /\ JobBacked(job'[q], objects', gone')
  BY <1>2 DEF Shapes
<1>5. Shapes'
  BY <1>1, <1>3, <1>4 DEF Shapes
<1>6. AllBacked'
  BY <1>1, <1>2, <1>3, <1>4 DEF AllBacked
<1>7. WorkBacked'
  BY <1>3, WorkKeeps
<1> QED
  BY <1>5, <1>6, <1>7

LEMMA PutIInv ==
  ASSUME IInv, NEW j \in Jobs, NEW op, NEW images \in SUBSET Images, NEW keys,
         \A key \in keys : key[1] \in images, Put(j, op, images, keys)
  PROVE  IInv'
<1> DEFINE rec == [op |-> op, step |-> "put", images |-> images, keys |-> keys,
                   snap |-> mem["api"]]
<1>1. Shape(mem["api"]) /\ Backed(mem["api"], objects, gone)
  BY DEF IInv, Shapes, AllBacked, Procs
<1>2. Weaker(objects, gone, objects', gone')
  BY DEF Put, Weaker, history
<1>3. JobShape(rec)
  BY <1>1 DEF JobShape
<1>4. JobBacked(rec, objects', gone')
  <2>1. Backed(mem["api"], objects', gone')
    BY <1>1, <1>2, BackedKeeps
  <2> QED
    BY <2>1 DEF JobBacked, Put
<1>5. job' = [job EXCEPT ![j] = rec] /\ UNCHANGED <<up, work, mem, db>>
  BY DEF Put
<1> HIDE DEF rec
<1> QED
  BY <1>2, <1>3, <1>4, <1>5, HandlerStep

LEMMA UploadPutIInv == \A j \in Jobs, i \in Images : IInv /\ UploadPut(j, i) => IInv'
<1> SUFFICES ASSUME NEW j \in Jobs, NEW i \in Images, IInv, UploadPut(j, i) PROVE IInv'
  OBVIOUS
<1>1. PICK kinds \in SUBSET Kinds :
        Put(j, "upload", {i}, {Original(i)} \cup {<<i, k>> : k \in kinds})
  BY DEF UploadPut
<1>2. \A key \in {Original(i)} \cup {<<i, k>> : k \in kinds} : key[1] \in {i}
  BY DEF Original
<1> QED
  BY <1>1, <1>2, PutIInv

LEMMA ImportPutIInv ==
  \A j \in Jobs, images \in SUBSET Images : IInv /\ ImportPut(j, images) => IInv'
<1> SUFFICES ASSUME NEW j \in Jobs, NEW images \in SUBSET Images, IInv, ImportPut(j, images)
             PROVE  IInv'
  OBVIOUS
<1>1. \A key \in {Original(i) : i \in images} : key[1] \in images
  BY DEF Original
<1> QED
  BY <1>1, PutIInv DEF ImportPut

LEMMA ImportFailsIInv == \A j \in Jobs : IInv /\ ImportFails(j) => IInv'
<1> SUFFICES ASSUME NEW j \in Jobs, IInv, ImportFails(j) PROVE IInv'
  OBVIOUS
<1> DEFINE rec == [op |-> job[j].op, step |-> "removing", images |-> job[j].images,
                   keys |-> job[j].keys, snap |-> NoState]
<1>1. JobShape(job[j]) /\ job[j].images \subseteq Images
  BY DEF IInv, Shapes, JobShape
<1>2. job' = [job EXCEPT ![j] = rec]
  <2>1. job' = [job EXCEPT ![j] = [job[j] EXCEPT !.step = "removing", !.snap = NoState]]
    BY DEF ImportFails
  <2>2. [job[j] EXCEPT !.step = "removing", !.snap = NoState] = rec
    BY <1>1, JobUpdate, Zenon
  <2> QED
    BY <2>1, <2>2, Zenon
<1>3. Weaker(objects, gone, objects', gone')
  BY DEF ImportFails, Weaker
<1>4. JobShape(rec) /\ JobBacked(rec, objects', gone')
  BY <1>1, NoStateShape DEF JobShape, JobBacked, ImportFails
<1>5. UNCHANGED <<up, work, mem, db>>
  BY DEF ImportFails
<1> HIDE DEF rec
<1> QED
  BY <1>2, <1>3, <1>4, <1>5, HandlerStep

\* The new images have the objects that their handler has written.
LEMMA CreatedBacked ==
  ASSUME NEW st, NEW store, NEW lost, Shape(st), Backed(st, store, lost),
         NEW images \in SUBSET Images, NEW variants \in [images -> Sizes],
         \A i \in images : i \in lost \/ KeysOf([variants |-> variants], i) \subseteq store
  PROVE  /\ Shape(Created(st, images, variants))
         /\ Backed(Created(st, images, variants), store, lost)
<1> DEFINE new == Created(st, images, variants)
<1>1. /\ new.status = [i \in Images |-> IF i \in images THEN "active" ELSE st.status[i]]
      /\ new.variants = [i \in Images |-> IF i \in images THEN variants[i] ELSE st.variants[i]]
      /\ new = [status |-> new.status, variants |-> new.variants, used |-> new.used]
  BY DEF Created
<1>2. Shape(new)
  BY <1>1 DEF Shape, Statuses
<1>3. \A i \in Images : KeysOf(new, i) =
        IF i \in images THEN KeysOf([variants |-> variants], i) ELSE KeysOf(st, i)
  BY <1>1 DEF KeysOf
<1>4. Backed(new, store, lost)
  BY <1>1, <1>3 DEF Backed
<1> QED
  BY <1>2, <1>4

LEMMA CreateIInv == \A j \in Jobs : IInv /\ Create(j) => IInv'
<1> SUFFICES ASSUME NEW j \in Jobs, IInv, Create(j) PROVE IInv'
  OBVIOUS
<1> DEFINE images == job[j].images
           snap == IF job[j].op = "upload" THEN mem["api"] ELSE job[j].snap
           rec == [op |-> job[j].op, step |-> "mutated", images |-> images,
                   keys |-> job[j].keys, snap |-> snap]
<1>1. PICK variants \in [images -> Sizes] :
        /\ job[j].keys = UNION {{Original(i)} \cup VariantKeys(i, variants[i]) : i \in images}
        /\ mem' = [mem EXCEPT !["api"] = Created(@, images, variants)]
  BY DEF Create, Sizes
<1>2. /\ Shape(mem["api"]) /\ Backed(mem["api"], objects, gone)
      /\ JobShape(job[j]) /\ JobBacked(job[j], objects, gone) /\ job[j].step = "put"
      /\ mem = [p \in Procs |-> mem[p]] /\ "api" \in Procs
      /\ images \subseteq Images
  BY DEF IInv, Shapes, AllBacked, Procs, Create, JobShape
<1>3. UNCHANGED <<up, work, db, objects, gone>> /\ Weaker(objects, gone, objects', gone')
  BY Same DEF Create, history
<1>4. \A i \in images : i \in gone \/ KeysOf([variants |-> variants], i) \subseteq objects
  <2> SUFFICES ASSUME NEW i \in images, i \notin gone,
                      NEW key \in KeysOf([variants |-> variants], i)
               PROVE  key \in objects
    OBVIOUS
  <2>1. key \in job[j].keys
    BY <1>1 DEF KeysOf
  <2>2. key[1] = i
    BY KeysImage
  <2> QED
    BY <1>2, <2>1, <2>2 DEF JobBacked
<1>5. /\ mem' = [mem EXCEPT !["api"] = Created(mem["api"], images, variants)]
      /\ Shape(Created(mem["api"], images, variants))
      /\ Backed(Created(mem["api"], images, variants), objects', gone')
  BY <1>1, <1>2, <1>3, <1>4, CreatedBacked
<1>6. job' = [job EXCEPT ![j] = rec]
  <2>1. job' = [job EXCEPT ![j] = [job[j] EXCEPT !.step = "mutated", !.snap = snap]]
    BY DEF Create
  <2> HIDE DEF snap
  <2>2. [job[j] EXCEPT !.step = "mutated", !.snap = snap] = rec
    BY <1>2, JobUpdate, Zenon
  <2> QED
    BY <2>1, <2>2, Zenon
<1>7. JobShape(rec) /\ JobBacked(rec, objects', gone')
  BY <1>2, <1>3 DEF JobShape, JobBacked
<1> HIDE DEF rec, images, snap
<1> QED
  BY <1>3, <1>5, <1>6, <1>7, HandlerStep

-----------------------------------------------------------------------------
(* Handlers that withdraw images: they leave the variants as they are and  *)
(* give a status only to images that had one.                              *)

LEMMA RestatusBacked ==
  ASSUME NEW st, NEW new, NEW store, NEW lost, Shape(st), Backed(st, store, lost),
         new = [status |-> new.status, variants |-> new.variants, used |-> new.used],
         new.status \in [Images -> Statuses], new.variants = st.variants,
         \A i \in Images : new.status[i] # "none" => st.status[i] # "none"
  PROVE  Shape(new) /\ Backed(new, store, lost)
<1>1. Shape(new)
  BY DEF Shape
<1>2. \A i \in Images : KeysOf(new, i) = KeysOf(st, i)
  BY DEF KeysOf
<1> QED
  BY <1>1, <1>2 DEF Backed

LEMMA MutateIInv ==
  ASSUME IInv, NEW j \in Jobs, NEW op, NEW images \in SUBSET Images, NEW keys, NEW st,
         \A key \in keys : key[1] \in images, Mutate(j, op, images, keys, st),
         st = [status |-> st.status, variants |-> st.variants, used |-> st.used],
         st.status \in [Images -> Statuses], st.variants = mem["api"].variants,
         \A i \in Images : st.status[i] # "none" => mem["api"].status[i] # "none"
  PROVE  IInv'
<1> DEFINE rec == [op |-> op, step |-> "mutated", images |-> images, keys |-> keys,
                   snap |-> mem["api"]]
<1>1. Shape(mem["api"]) /\ Backed(mem["api"], objects, gone)
  BY DEF IInv, Shapes, AllBacked, Procs
<1>2. UNCHANGED <<up, work, db, objects, gone>> /\ Weaker(objects, gone, objects', gone')
  BY Same DEF Mutate
<1>3. Shape(st) /\ Backed(st, objects', gone')
  BY <1>1, <1>2, RestatusBacked
<1>4. JobShape(rec) /\ JobBacked(rec, objects', gone')
  BY <1>1, <1>2 DEF JobShape, JobBacked
<1>5. job' = [job EXCEPT ![j] = rec] /\ mem' = [mem EXCEPT !["api"] = st]
  BY DEF Mutate
<1> HIDE DEF rec
<1> QED
  BY <1>2, <1>3, <1>4, <1>5, HandlerStep

LEMMA WithdrawnShape ==
  ASSUME NEW st, Shape(st), NEW i \in Images, st.status[i] # "none"
  PROVE  LET new == Withdrawn(st, i)
         IN /\ new = [status |-> new.status, variants |-> new.variants, used |-> new.used]
            /\ new.status \in [Images -> Statuses] /\ new.variants = st.variants
            /\ \A k \in Images : new.status[k] # "none" => st.status[k] # "none"
<1> DEFINE status == [st.status EXCEPT ![i] = "deleted"]
           used == [st.used EXCEPT ![Owner[i]] =
                      IF @ >= StoredBytes(st, i) THEN @ - StoredBytes(st, i) ELSE 0]
<1>1. Withdrawn(st, i) = [st EXCEPT !.status = status, !.used = used]
  BY DEF Withdrawn
<1>2. status \in [Images -> Statuses] /\ \A k \in Images : status[k] # "none" => st.status[k] # "none"
  BY DEF Shape, Statuses
<1> HIDE DEF status, used
<1>3. Withdrawn(st, i) = [status |-> status, variants |-> st.variants, used |-> used]
  BY <1>1, StateUpdate, Zenon
<1> QED
  BY <1>2, <1>3

LEMMA DeleteImageIInv == \A j \in Jobs, i \in Images : IInv /\ DeleteImage(j, i) => IInv'
<1> SUFFICES ASSUME NEW j \in Jobs, NEW i \in Images, IInv, DeleteImage(j, i) PROVE IInv'
  OBVIOUS
<1>1. Shape(mem["api"])
  BY DEF IInv, Shapes, Procs
<1>2. mem["api"].status[i] # "none"
  BY DEF DeleteImage, Live
<1>3. \A key \in KeysOf(mem["api"], i) : key[1] \in {i}
  BY KeysImage
<1>4. Mutate(j, "delete", {i}, KeysOf(mem["api"], i), Withdrawn(mem["api"], i))
  BY DEF DeleteImage
<1> QED
  BY <1>1, <1>2, <1>3, <1>4, WithdrawnShape, MutateIInv

LEMMA AdminDeleteImageIInv ==
  \A j \in Jobs, i \in Images : IInv /\ AdminDeleteImage(j, i) => IInv'
<1> SUFFICES ASSUME NEW j \in Jobs, NEW i \in Images, IInv, AdminDeleteImage(j, i) PROVE IInv'
  OBVIOUS
<1>1. Shape(mem["api"])
  BY DEF IInv, Shapes, Procs
<1>2. mem["api"].status[i] # "none"
  BY DEF AdminDeleteImage
<1>3. \A key \in KeysOf(mem["api"], i) : key[1] \in {i}
  BY KeysImage
<1>4. Mutate(j, "delete", {i}, KeysOf(mem["api"], i), Withdrawn(mem["api"], i))
  BY DEF AdminDeleteImage
<1> QED
  BY <1>1, <1>2, <1>3, <1>4, WithdrawnShape, MutateIInv

LEMMA AdminFreezeImageIInv ==
  \A j \in Jobs, i \in Images : IInv /\ AdminFreezeImage(j, i) => IInv'
<1> SUFFICES ASSUME NEW j \in Jobs, NEW i \in Images, IInv, AdminFreezeImage(j, i) PROVE IInv'
  OBVIOUS
<1> DEFINE st == [mem["api"] EXCEPT !.status[i] = "frozen"]
           status == [mem["api"].status EXCEPT ![i] = "frozen"]
<1>1. Shape(mem["api"]) /\ mem["api"].status[i] # "none"
  BY DEF IInv, Shapes, Procs, AdminFreezeImage
<1>2. /\ status \in [Images -> Statuses]
      /\ \A k \in Images : status[k] # "none" => mem["api"].status[k] # "none"
  BY <1>1 DEF Shape, Statuses
<1>3. st = [mem["api"] EXCEPT !.status = status]
  OBVIOUS
<1>4. Mutate(j, "freeze", {i}, {}, st)
  BY DEF AdminFreezeImage
<1> HIDE DEF st, status
<1>5. st = [status |-> status, variants |-> mem["api"].variants, used |-> mem["api"].used]
  BY <1>1, <1>3, StateUpdate, Zenon
<1> QED
  BY <1>2, <1>4, <1>5, MutateIInv

\* What adminPurgeExpired leaves behind
Purged(st, images, used) ==
  [st EXCEPT !.status = [i \in Images |-> IF i \in images THEN "deleted" ELSE @[i]],
             !.used = used]

LEMMA PurgedShape ==
  ASSUME NEW st, Shape(st), NEW images \in SUBSET Images, NEW used,
         \A i \in images : st.status[i] # "none"
  PROVE  LET new == Purged(st, images, used)
         IN /\ new = [status |-> new.status, variants |-> new.variants, used |-> new.used]
            /\ new.status \in [Images -> Statuses] /\ new.variants = st.variants
            /\ \A k \in Images : new.status[k] # "none" => st.status[k] # "none"
<1> DEFINE status == [i \in Images |-> IF i \in images THEN "deleted" ELSE st.status[i]]
<1>1. status \in [Images -> Statuses] /\ \A k \in Images : status[k] # "none" => st.status[k] # "none"
  BY DEF Shape, Statuses
<1> DEFINE new == [st EXCEPT !.status = status, !.used = used]
<1>2. new = [st EXCEPT !.status = status, !.used = used]
  OBVIOUS
<1> HIDE DEF status, new
<1>3. new = [status |-> status, variants |-> st.variants, used |-> used]
  BY <1>2, StateUpdate, Zenon
<1> QED
  BY <1>1, <1>3 DEF status, new, Purged

LEMMA AdminPurgeExpiredIInv ==
  \A j \in Jobs, users \in SUBSET Users : IInv /\ AdminPurgeExpired(j, users) => IInv'
<1> SUFFICES ASSUME NEW j \in Jobs, NEW users \in SUBSET Users, IInv,
                    AdminPurgeExpired(j, users)
             PROVE  IInv'
  OBVIOUS
<1> DEFINE images == {i \in Images : Owner[i] \in users /\ mem["api"].status[i] \in Live}
           keys == UNION {KeysOf(mem["api"], i) : i \in images}
           used == [u \in Users |-> IF u \in users THEN 0 ELSE mem["api"].used[u]]
           st == Purged(mem["api"], images, used)
<1>1. Shape(mem["api"])
  BY DEF IInv, Shapes, Procs
<1>2. images \in SUBSET Images /\ \A i \in images : mem["api"].status[i] # "none"
  BY DEF Live
<1>3. \A key \in keys : key[1] \in images
  BY KeysImage
<1>4. Mutate(j, "delete", images, keys, st)
  BY DEF AdminPurgeExpired, Purged
<1> HIDE DEF images, keys, used
<1>5. /\ st = [status |-> st.status, variants |-> st.variants, used |-> st.used]
      /\ st.status \in [Images -> Statuses] /\ st.variants = mem["api"].variants
      /\ \A k \in Images : st.status[k] # "none" => mem["api"].status[k] # "none"
  BY <1>1, <1>2, PurgedShape
<1> HIDE DEF st
<1> QED
  BY <1>2, <1>3, <1>4, <1>5, MutateIInv

-----------------------------------------------------------------------------
(* What follows a change.                                                  *)

LEMMA EndedBacked ==
  ASSUME NEW rec, NEW store, NEW lost, JobShape(rec), JobBacked(rec, store, lost)
  PROVE  JobShape(Ended(rec)) /\ JobBacked(Ended(rec), store, lost)
  BY RestShape DEF Ended

\* A handler moves on to a step that is not "put".
LEMMA MovesBacked ==
  ASSUME NEW rec, NEW step, NEW snap, NEW store, NEW lost, JobShape(rec),
         Shape(snap), Backed(snap, store, lost), step # "put",
         step \in {"removing", "undoing"} => rec.images \subseteq lost
  PROVE  LET new == [rec EXCEPT !.step = step, !.snap = snap]
         IN JobShape(new) /\ JobBacked(new, store, lost)
<1> DEFINE new == [rec EXCEPT !.step = step, !.snap = snap]
           full == [op |-> rec.op, step |-> step, images |-> rec.images,
                    keys |-> rec.keys, snap |-> snap]
<1>1. new = [rec EXCEPT !.step = step, !.snap = snap]
  OBVIOUS
<1>2. JobShape(full) /\ JobBacked(full, store, lost)
  BY DEF JobShape, JobBacked
<1> HIDE DEF new
<1>3. new = full
  BY <1>1, JobUpdate, Zenon
<1> QED
  BY <1>2, <1>3 DEF new

LEMMA SaveIInv == \A j \in Jobs : IInv /\ Save(j) => IInv'
<1> SUFFICES ASSUME NEW j \in Jobs, IInv, Save(j) PROVE IInv'
  OBVIOUS
<1> DEFINE saved == [job[j] EXCEPT !.step = "saved"]
           removing == [job[j] EXCEPT !.step = "removing", !.snap = NoState]
           rec == CASE job[j].op = "upload" -> saved
                    [] job[j].op = "delete" -> Ended(removing)
                    [] OTHER -> Done
<1>1. /\ UNCHANGED <<up, work, mem, objects>> /\ db' = mem["api"]
      /\ gone' = IF job[j].op = "delete" THEN gone \cup job[j].images ELSE gone
      /\ job' = [job EXCEPT ![j] = rec]
      /\ job[j].step = "mutated"
  BY DEF Save
<1>2. JobShape(job[j]) /\ JobBacked(job[j], objects, gone)
  BY DEF IInv, Shapes, AllBacked
<1>3. Weaker(objects, gone, objects', gone') /\ Weaker(objects, gone, objects, gone')
  BY <1>1 DEF Weaker
<1>4. JobBacked(job[j], objects', gone')
  BY <1>2, <1>3, JobBackedKeeps
<1>5. JobShape(rec) /\ JobBacked(rec, objects', gone')
  <2>1. CASE job[j].op = "upload"
    <3>1. saved = [op |-> job[j].op, step |-> "saved", images |-> job[j].images,
                   keys |-> job[j].keys, snap |-> job[j].snap]
      BY <1>2 DEF JobShape
    <3>2. JobShape(saved) /\ JobBacked(saved, objects', gone')
      BY <1>2, <1>4, <3>1 DEF JobShape, JobBacked
    <3> QED
      BY <2>1, <3>2
  <2>2. CASE job[j].op = "delete"
    <3>1. job[j].images \subseteq gone'
      BY <1>1, <2>2
    <3>2. JobShape(removing) /\ JobBacked(removing, objects', gone')
      BY <1>2, <3>1, NoStateShape, MovesBacked
    <3> HIDE DEF removing
    <3>3. rec = Ended(removing)
      BY <2>2
    <3> QED
      BY <3>2, <3>3, EndedBacked
  <2>3. CASE job[j].op \notin {"upload", "delete"}
    BY <2>3, RestShape
  <2> QED
    BY <2>1, <2>2, <2>3
<1> HIDE DEF rec
<1> QED
  BY <1>1, <1>3, <1>5, HandlerStep

LEMMA RollBackIInv ==
  ASSUME IInv, NEW j \in Jobs, NEW step \in {"removing", "undoing", "done"},
         RollBack(j, step), UNCHANGED <<up, work, objects>>,
         db' = db \/ db' = mem["api"],
         gone \subseteq gone', step # "done" => job[j].images \subseteq gone'
  PROVE  IInv'
<1> DEFINE moved == [job[j] EXCEPT !.step = step, !.snap = NoState]
<1>1. job' = [job EXCEPT ![j] = Ended(moved)] /\ mem' = [mem EXCEPT !["api"] = job[j].snap]
  BY DEF RollBack
<1>2. /\ JobShape(job[j]) /\ Shape(job[j].snap)
      /\ Backed(job[j].snap, objects, gone)
  BY DEF IInv, Shapes, AllBacked, JobShape, JobBacked
<1>3. Weaker(objects, gone, objects', gone')
  BY DEF Weaker
<1>4. Backed(job[j].snap, objects', gone')
  BY <1>2, <1>3, BackedKeeps
<1>5. JobShape(moved) /\ JobBacked(moved, objects', gone')
  BY <1>2, NoStateShape, MovesBacked
<1> HIDE DEF moved
<1>6. JobShape(Ended(moved)) /\ JobBacked(Ended(moved), objects', gone')
  BY <1>5, EndedBacked
<1> QED
  BY <1>1, <1>2, <1>3, <1>4, <1>6, HandlerStep

LEMMA SaveFailsIInv == \A j \in Jobs : IInv /\ SaveFails(j) => IInv'
<1> SUFFICES ASSUME NEW j \in Jobs, IInv, SaveFails(j) PROVE IInv'
  OBVIOUS
<1>1. /\ UNCHANGED <<up, work, objects>> /\ (db' = db \/ db' = mem["api"])
      /\ RollBack(j, AfterFailedSave(j))
      /\ gone \subseteq gone' /\ (Makes(j) => job[j].images \subseteq gone')
  BY DEF SaveFails
<1>2. /\ AfterFailedSave(j) \in {"removing", "undoing", "done"}
      /\ AfterFailedSave(j) # "done" => Makes(j)
  BY DEF AfterFailedSave
<1> QED
  BY <1>1, <1>2, RollBackIInv

LEMMA EnqueueFailsIInv == \A j \in Jobs : IInv /\ EnqueueFails(j) => IInv'
<1> SUFFICES ASSUME NEW j \in Jobs, IInv, EnqueueFails(j) PROVE IInv'
  OBVIOUS
<1>1. /\ UNCHANGED <<up, work, objects, db>> /\ RollBack(j, "undoing")
      /\ gone \subseteq gone' /\ job[j].images \subseteq gone'
  BY DEF EnqueueFails
<1> QED
  BY <1>1, RollBackIInv

LEMMA EnqueueIInv == \A j \in Jobs : IInv /\ Enqueue(j) => IInv'
<1> SUFFICES ASSUME NEW j \in Jobs, IInv, Enqueue(j) PROVE IInv'
  OBVIOUS
<1>1. /\ UNCHANGED <<up, work, mem, db, objects, gone>> /\ job' = [job EXCEPT ![j] = Done]
      /\ Weaker(objects, gone, objects', gone')
  BY Same DEF Enqueue, history
<1>2. JobShape(Done) /\ JobBacked(Done, objects', gone')
  BY RestShape
<1> QED
  BY <1>1, <1>2, HandlerStep

\* Only objects of images that are lost are removed.
LEMMA RemoveObjectIInv == \A j \in Jobs, key \in Keys : IInv /\ RemoveObject(j, key) => IInv'
<1> SUFFICES ASSUME NEW j \in Jobs, NEW key \in Keys, IInv, RemoveObject(j, key) PROVE IInv'
  OBVIOUS
<1> DEFINE left == [job[j] EXCEPT !.keys = job[j].keys \ {key}]
<1>1. /\ UNCHANGED <<up, work, mem, db, gone>> /\ job' = [job EXCEPT ![j] = Ended(left)]
      /\ job[j].step \in {"removing", "undoing"} /\ key \in job[j].keys
      /\ objects' = objects \ {key} \/ objects' = objects
  BY DEF RemoveObject
<1>2. JobShape(job[j]) /\ JobBacked(job[j], objects, gone)
  BY DEF IInv, Shapes, AllBacked
<1>3. key[1] \in gone
  BY <1>1, <1>2 DEF JobShape, JobBacked
<1>4. Weaker(objects, gone, objects', gone')
  BY <1>1, <1>3 DEF Weaker
<1>5. JobBacked(job[j], objects', gone')
  BY <1>2, <1>4, JobBackedKeeps
<1>6. left = [op |-> job[j].op, step |-> job[j].step, images |-> job[j].images,
              keys |-> job[j].keys \ {key}, snap |-> job[j].snap]
  BY <1>2, KeysUpdate
<1>7. JobShape(left) /\ JobBacked(left, objects', gone')
  BY <1>1, <1>2, <1>5, <1>6 DEF JobShape, JobBacked
<1> HIDE DEF left
<1>8. JobShape(Ended(left)) /\ JobBacked(Ended(left), objects', gone')
  BY <1>7, EndedBacked
<1> QED
  BY <1>1, <1>4, <1>8, HandlerStep

LEMMA SaveUndoneIInv == \A j \in Jobs : IInv /\ SaveUndone(j) => IInv'
<1> SUFFICES ASSUME NEW j \in Jobs, IInv, SaveUndone(j) PROVE IInv'
  OBVIOUS
<1>1. /\ UNCHANGED <<up, work, mem, objects, gone>> /\ job' = [job EXCEPT ![j] = Done]
      /\ db' = db \/ db' = mem["api"]
      /\ Weaker(objects, gone, objects', gone')
  BY Same DEF SaveUndone, history
<1>2. JobShape(Done) /\ JobBacked(Done, objects', gone')
  BY RestShape
<1> QED
  BY <1>1, <1>2, HandlerStep

-----------------------------------------------------------------------------
(* The worker.                                                             *)

\* A step of the worker, given its new task, memory and database.
LEMMA WorkerStep ==
  ASSUME IInv, UNCHANGED <<up, job>>, up["worker"],
         work' \in [step : {"idle", "putting", "stored", "saving", "acking"},
                    image : Images \cup {None}, variants : Sizes],
         Weaker(objects, gone, objects', gone'),
         \/ UNCHANGED mem
         \/ \E st : /\ mem' = [mem EXCEPT !["worker"] = st]
                   /\ Shape(st) /\ Backed(st, objects', gone'),
         db' = db \/ db' = mem["worker"],
         work'.step \in {"putting", "stored"} =>
           work'.image \in Images /\ mem'["worker"].status[work'.image] = "active",
         work'.step = "stored" /\ work'.image \notin gone' =>
           VariantKeys(work'.image, work'.variants) \subseteq objects'
  PROVE  IInv'
<1> USE DEF IInv
<1>1. "worker" \in Procs
  BY DEF Procs
<1>2. /\ \A p \in Procs : Backed(mem[p], objects', gone')
      /\ Backed(db, objects', gone')
      /\ \A q \in Jobs : JobBacked(job[q], objects', gone')
  BY AllKeeps
<1>3. /\ mem' = [p \in Procs |-> mem'[p]]
      /\ \A p \in Procs : Shape(mem'[p]) /\ Backed(mem'[p], objects', gone')
  <2>1. CASE UNCHANGED mem
    BY <1>2, <2>1 DEF Shapes
  <2>2. ASSUME NEW st, mem' = [mem EXCEPT !["worker"] = st],
               Shape(st), Backed(st, objects', gone')
        PROVE  /\ mem' = [p \in Procs |-> mem'[p]]
               /\ \A p \in Procs : Shape(mem'[p]) /\ Backed(mem'[p], objects', gone')
    BY <1>1, <1>2, <2>2 DEF Shapes
  <2> QED
    BY <2>1, <2>2
<1>4. Shapes'
  BY <1>1, <1>3 DEF Shapes
<1>5. AllBacked'
  BY <1>1, <1>2, <1>3 DEF AllBacked
<1>6. WorkBacked'
  BY DEF WorkBacked
<1> QED
  BY <1>4, <1>5, <1>6

LEMMA AtWork == IInv /\ work.step # "idle" => up["worker"]
  BY NoWorkShape DEF IInv, WorkBacked

LEMMA ProcessReadIInv == \A i \in Images : IInv /\ ProcessRead(i) => IInv'
<1> SUFFICES ASSUME NEW i \in Images, IInv, ProcessRead(i) PROVE IInv'
  OBVIOUS
<1>1. /\ UNCHANGED <<up, mem, db, objects, job, gone>> /\ up["worker"]
      /\ Weaker(objects, gone, objects', gone')
  BY Same DEF ProcessRead, history
<1>2. CASE work' = [NoWork EXCEPT !.step = "acking", !.image = i]
  <2>1. work' = [step |-> "acking", image |-> i, variants |-> [k \in Kinds |-> 0]]
    BY <1>2 DEF NoWork
  <2>2. [k \in Kinds |-> 0] \in Sizes
    BY NoWorkShape DEF NoWork
  <2>3. /\ work' \in [step : {"idle", "putting", "stored", "saving", "acking"},
                      image : Images \cup {None}, variants : Sizes]
        /\ work'.step = "acking"
    BY <2>1, <2>2
  <2> QED
    BY <1>1, <2>3, WorkerStep
<1>3. CASE /\ mem["worker"].status[i] = "active"
           /\ \E variants \in [Kinds -> 0..MaxVariant] :
                work' = [step |-> "putting", image |-> i, variants |-> variants]
  BY <1>1, <1>3, WorkerStep DEF Sizes
<1> QED
  BY <1>2, <1>3 DEF ProcessRead

LEMMA ProcessPutIInv == IInv /\ ProcessPut => IInv'
<1> SUFFICES ASSUME IInv, ProcessPut PROVE IInv'
  OBVIOUS
<1>1. /\ UNCHANGED <<up, mem, db, job, gone>> /\ up["worker"]
      /\ objects' = objects \cup VariantKeys(work.image, work.variants)
      /\ Weaker(objects, gone, objects', gone')
  BY AtWork DEF ProcessPut, history, Weaker
<1>2. /\ work \in [step : {"idle", "putting", "stored", "saving", "acking"},
                   image : Images \cup {None}, variants : Sizes]
      /\ work.image \in Images /\ mem["worker"].status[work.image] = "active"
  BY DEF IInv, Shapes, WorkBacked, ProcessPut
<1>3. work' = [step |-> "stored", image |-> work.image, variants |-> work.variants]
  BY <1>2 DEF ProcessPut
<1>4. work' \in [step : {"idle", "putting", "stored", "saving", "acking"},
                 image : Images \cup {None}, variants : Sizes]
  BY <1>2, <1>3
<1> QED
  BY <1>1, <1>2, <1>3, <1>4, WorkerStep

LEMMA ProcessPutFailsIInv == IInv /\ ProcessPutFails => IInv'
<1> SUFFICES ASSUME IInv, ProcessPutFails PROVE IInv'
  OBVIOUS
<1>1. /\ UNCHANGED <<up, mem, db, job, gone>> /\ up["worker"]
      /\ objects \subseteq objects' /\ work' = NoWork
  BY AtWork DEF ProcessPutFails, history, Ends
<1>2. Weaker(objects, gone, objects', gone')
  BY <1>1 DEF Weaker
<1> QED
  BY <1>1, <1>2, NoWorkShape, WorkerStep

\* Each variant that is listed after a merge was listed before or is new.
LEMMA MergedKeys ==
  ASSUME NEW old \in Sizes, NEW new \in Sizes
  PROVE  /\ Merged(old, new) \in Sizes
         /\ \A i : VariantKeys(i, Merged(old, new)) \subseteq VariantKeys(i, old) \cup VariantKeys(i, new)
  BY DEF Merged, Sizes, VariantKeys

\* The image gets its new variants, and perhaps another status.
LEMMA RevisedBacked ==
  ASSUME NEW st, NEW store, NEW lost, Shape(st), Backed(st, store, lost),
         NEW i \in Images, st.status[i] # "none", NEW all \in Sizes,
         i \notin lost => VariantKeys(i, all) \subseteq store
  PROVE  Shape(Revised(st, i, all)) /\ Backed(Revised(st, i, all), store, lost)
<1> DEFINE statuses == [st.status EXCEPT ![i] = IF Offends(st, i) THEN "frozen" ELSE @]
           variants == [st.variants EXCEPT ![i] = all]
           used == [st.used EXCEPT ![Owner[i]] =
                      Recounted(@, VariantBytes(st.variants[i]), VariantBytes(all))]
           full == [status |-> statuses, variants |-> variants, used |-> used]
           new == [st EXCEPT !.status = statuses, !.variants = variants, !.used = used]
<1>1. /\ statuses \in [Images -> Statuses] /\ variants \in [Images -> Sizes]
      /\ \A k \in Images \ {i} : statuses[k] = st.status[k] /\ variants[k] = st.variants[k]
      /\ variants[i] = all
  BY DEF Shape, Statuses
<1>2. new = [st EXCEPT !.status = statuses, !.variants = variants, !.used = used]
  OBVIOUS
<1> HIDE DEF statuses, variants, used, new
<1>3. new = full
  BY ONLY Shape(st), <1>2, WholeUpdate, ZenonT(30)
<1>4. Shape(full)
  BY <1>1 DEF Shape
<1>5. Backed(full, store, lost)
  <2> SUFFICES ASSUME NEW k \in Images, full.status[k] # "none", k \notin lost
               PROVE  KeysOf(full, k) \subseteq store
    BY DEF Backed
  <2>1. CASE k = i
    BY <1>1, <2>1 DEF Backed, KeysOf
  <2>2. CASE k # i
    BY <1>1, <2>2 DEF Backed, KeysOf
  <2> QED
    BY <2>1, <2>2
<1> QED
  BY <1>3, <1>4, <1>5 DEF new, statuses, variants, used, Revised

LEMMA ProcessCommitIInv == IInv /\ ProcessCommit => IInv'
<1> SUFFICES ASSUME IInv, ProcessCommit PROVE IInv'
  OBVIOUS
<1> DEFINE i == work.image
           st == mem["worker"]
           all == Merged(st.variants[i], work.variants)
<1>1. /\ i \in Images /\ st.status[i] = "active" /\ work.step = "stored"
      /\ i \notin gone => VariantKeys(i, work.variants) \subseteq objects
      /\ Shape(st) /\ Backed(st, objects, gone)
      /\ work \in [step : {"idle", "putting", "stored", "saving", "acking"},
                   image : Images \cup {None}, variants : Sizes]
  BY DEF IInv, Shapes, AllBacked, WorkBacked, ProcessCommit, Procs
<1>2. /\ UNCHANGED <<up, db, objects, job, gone>> /\ up["worker"]
      /\ Weaker(objects, gone, objects', gone')
  BY AtWork, Same DEF ProcessCommit, history
<1>3. mem' = [mem EXCEPT !["worker"] = Revised(st, i, all)]
  BY <1>1 DEF ProcessCommit
<1>4. work' = [step |-> "saving", image |-> i, variants |-> work.variants]
  BY <1>1 DEF ProcessCommit
<1>5. work' \in [step : {"idle", "putting", "stored", "saving", "acking"},
                 image : Images \cup {None}, variants : Sizes]
  BY <1>1, <1>4
<1>6. st.variants[i] \in Sizes /\ work.variants \in Sizes
  BY <1>1 DEF Shape
<1>7. all \in Sizes /\ (i \notin gone => VariantKeys(i, all) \subseteq objects)
  <2>1. VariantKeys(i, all) \subseteq VariantKeys(i, st.variants[i]) \cup VariantKeys(i, work.variants)
    BY <1>6, MergedKeys
  <2>2. i \notin gone => VariantKeys(i, st.variants[i]) \subseteq objects
    BY <1>1 DEF Backed, KeysOf
  <2> QED
    BY <1>1, <1>6, <2>1, <2>2, MergedKeys
<1> HIDE DEF i, st, all
<1>8. Shape(Revised(st, i, all)) /\ Backed(Revised(st, i, all), objects', gone')
  BY <1>1, <1>2, <1>7, RevisedBacked
<1> QED
  BY <1>2, <1>3, <1>4, <1>5, <1>8, WorkerStep

LEMMA ProcessSaveIInv == IInv /\ (ProcessSave \/ ProcessSaveFails \/ ProcessAck) => IInv'
<1> SUFFICES ASSUME IInv, ProcessSave \/ ProcessSaveFails \/ ProcessAck PROVE IInv'
  OBVIOUS
<1>1. /\ UNCHANGED <<up, mem, objects, job, gone>> /\ up["worker"]
      /\ db' = db \/ db' = mem["worker"]
      /\ Weaker(objects, gone, objects', gone')
  BY AtWork, Same DEF ProcessSave, ProcessSaveFails, ProcessAck, history
<1>2. CASE work' = NoWork
  BY <1>1, <1>2, NoWorkShape, WorkerStep
<1>3. CASE ProcessSave
  <2>1. work \in [step : {"idle", "putting", "stored", "saving", "acking"},
                  image : Images \cup {None}, variants : Sizes]
    BY DEF IInv, Shapes
  <2>2. work' = [step |-> "acking", image |-> work.image, variants |-> work.variants]
    BY <1>3, <2>1 DEF ProcessSave
  <2>3. /\ work' \in [step : {"idle", "putting", "stored", "saving", "acking"},
                      image : Images \cup {None}, variants : Sizes]
        /\ work'.step = "acking"
    BY <2>1, <2>2
  <2> QED
    BY <1>1, <2>3, WorkerStep
<1> QED
  BY <1>2, <1>3 DEF ProcessSaveFails, ProcessAck, Ends

-----------------------------------------------------------------------------
(* The specification.                                                      *)

LEMMA StutterIInv == IInv /\ UNCHANGED vars => IInv'
<1> SUFFICES ASSUME IInv, UNCHANGED vars PROVE IInv'
  OBVIOUS
<1> USE DEF vars, history
<1>1. Shapes'
  BY DEF IInv, Shapes
<1>2. AllBacked'
  BY DEF IInv, AllBacked
<1>3. WorkBacked'
  BY DEF IInv, WorkBacked
<1> QED
  BY <1>1, <1>2, <1>3 DEF IInv

LEMMA HandleIInv == \A j \in Jobs : IInv /\ Handle(j) => IInv'
  BY UploadPutIInv, DeleteImageIInv, AdminDeleteImageIInv, AdminFreezeImageIInv, ImportPutIInv,
     AdminPurgeExpiredIInv, ImportFailsIInv, CreateIInv, SaveIInv, SaveFailsIInv, EnqueueIInv,
     EnqueueFailsIInv, RemoveObjectIInv, SaveUndoneIInv
     DEF Handle

LEMMA ProcessIInv == IInv /\ Process => IInv'
  BY ProcessReadIInv, ProcessPutIInv, ProcessPutFailsIInv, ProcessCommitIInv, ProcessSaveIInv
     DEF Process

\* Whatever a process, a handler, the database or the queue has of an image is
\* in the object storage, unless a deletion of it was saved or its upload was
\* refused.
THEOREM ObjectsAreThere == Spec => []IInv
<1>1. Init => IInv
  BY InitIInv
<1>2. IInv /\ [Next]_vars => IInv'
  BY BootIInv, CrashIInv, HandleIInv, ProcessIInv, StutterIInv DEF Next, Quiescent
<1> QED
  BY <1>1, <1>2, PTL DEF Spec

\* An image that a process shows has its original and its variants, whatever
\* fails, dies or is rolled back, and whatever the worker does meanwhile.
THEOREM ShownImagesHaveObjects == Spec => []ShownHasObjects
<1>1. IInv => ShownHasObjects
  BY DEF IInv, AllBacked, Backed, ShownHasObjects, Live
<1> QED
  BY <1>1, ObjectsAreThere, PTL

-----------------------------------------------------------------------------
(* Originals: who will remove, or show, the one that is in the storage.    *)

Known(st, ids) == \A i \in Images : st.status[i] # "none" => i \in ids

\* Ids are minted before anything else knows them.
MintedFirst ==
  /\ \A p \in Procs : Known(mem[p], minted)
  /\ Known(db, minted)
  /\ \A j \in Jobs : Known(job[j].snap, minted) /\ job[j].images \subseteq minted
  /\ \A i \in Images : Original(i) \in objects => i \in minted

MakerOps == {"upload", "import"}

\* A handler that writes, or will remove, has the originals of its images
\* among its keys.
Holds(rec) ==
  /\ rec.step \in {"idle", "done"} => rec.images = {}
  /\ rec.step \in {"put", "saved"} => rec.op \in MakerOps
  /\ rec.step = "mutated" => rec.op \in MakerOps \cup {"delete", "freeze"}
  /\ rec.step \in {"put", "saved"} \/ (rec.step = "mutated" /\ rec.op # "freeze") =>
       \A i \in rec.images : Original(i) \in rec.keys

\* What a handler that removes has ticked off is gone.
Removed(rec, store, stray) ==
  rec.step \in {"removing", "undoing"} =>
    \A i \in rec.images : Original(i) \in rec.keys \/ i \in stray \/ Original(i) \notin store

DownForgets ==
  ~up["api"] => minted \subseteq strayed /\ \A j \in Jobs : job[j].step \in {"idle", "done"}

\* An image has one maker, and is unknown until that maker has written it.
MakersApart ==
  \A j, q \in Jobs : job[j].op \in MakerOps /\ job[q].op \in MakerOps /\ j # q =>
    job[j].images \cap job[q].images = {}

PutUnknown ==
  \A q \in Jobs : job[q].step = "put" =>
    \A i \in job[q].images :
      /\ mem["api"].status[i] = "none"
      /\ \A j \in Jobs : job[j].snap.status[i] = "none"

Writes(rec, i) == rec.step = "put" /\ i \in rec.images

Removes(rec, i) ==
  /\ i \in rec.images /\ Original(i) \in rec.keys
  /\ rec.step \in {"removing", "undoing"} \/ (rec.step = "mutated" /\ rec.op = "delete")

Lies(i, store, stray) == Original(i) \in store /\ i \notin stray

Accounted ==
  up["api"] => \A i \in Images : Lies(i, objects, strayed) =>
    mem["api"].status[i] \in Live \/ \E q \in Jobs : Writes(job[q], i) \/ Removes(job[q], i)

\* So it will be when a deletion or a freeze is put back.
SnapAccounted ==
  \A j \in Jobs : job[j].step = "mutated" /\ job[j].op \in {"delete", "freeze"} =>
    \A i \in job[j].images : Lies(i, objects, strayed) =>
      job[j].snap.status[i] \in Live \/ \E q \in Jobs \ {j} : Removes(job[q], i)

OInv ==
  /\ MintedFirst /\ \A j \in Jobs : Holds(job[j]) /\ Removed(job[j], objects, strayed)
  /\ DownForgets /\ MakersApart /\ PutUnknown /\ Accounted /\ SnapAccounted

LEMMA InitOInv == Init => OInv
<1> SUFFICES ASSUME Init PROVE OInv
  OBVIOUS
<1>1. /\ \A i \in Images : NoState.status[i] = "none"
      /\ Idle.step = "idle" /\ Idle.images = {} /\ Idle.snap = NoState /\ Idle.op = "none"
  BY DEF NoState, Idle
<1>2. /\ \A p \in Procs : mem[p] = NoState
      /\ db = NoState /\ objects = {} /\ minted = {}
      /\ \A j \in Jobs : job[j] = Idle
  BY DEF Init
<1> QED
  BY <1>1, <1>2
     DEF OInv, MintedFirst, Known, Holds, Removed, DownForgets, MakersApart, MakerOps, PutUnknown,
         Accounted, SnapAccounted, Lies

\* A handler goes on, from having written or changed something, without
\* writing more.
LEMMA Proceeds ==
  ASSUME Shapes, OInv, NEW j \in Jobs, NEW rec,
         job[j].step \notin {"idle", "done"},
         job' = [job EXCEPT ![j] = rec], UNCHANGED <<up, minted>>,
         rec.images \in {job[j].images, {}}, rec.op \in {job[j].op, "none"}, rec.step # "put",
         rec.step = "mutated" => rec.op \notin {"delete", "freeze"},
         Holds(rec), Removed(rec, objects', strayed'),
         mem'["worker"] = mem["worker"], db' = db \/ db' = mem["api"],
         Known(rec.snap, minted), Known(mem'["api"], minted),
         objects' \subseteq objects, strayed \subseteq strayed',
         \A q \in Jobs \ {j} : job[q].step = "put" =>
           \A i \in job[q].images : mem'["api"].status[i] = "none" /\ rec.snap.status[i] = "none",
         \A i \in Images \ job[j].images : i \notin strayed' =>
           mem'["api"].status[i] = mem["api"].status[i],
         \A i \in job[j].images : Lies(i, objects', strayed') =>
           \/ mem'["api"].status[i] \in Live \/ Removes(rec, i)
           \/ /\ mem'["api"].status[i] = mem["api"].status[i]
              /\ ~Writes(job[j], i) /\ ~Removes(job[j], i),
         \A i \in job[j].images : Removes(job[j], i) /\ Lies(i, objects', strayed') =>
           Removes(rec, i) \/ \A q \in Jobs \ {j} : i \notin job[q].images
  PROVE  OInv'
<1>1. /\ job'[j] = rec /\ \A q \in Jobs \ {j} : job'[q] = job[q]
      /\ \A q \in Jobs : job[q].images \subseteq Images
      /\ "api" \in Procs /\ "worker" \in Procs /\ \A p \in Procs : p \in {"api", "worker"}
  BY DEF Shapes, JobShape, Procs
<1>2. MintedFirst'
  BY <1>1 DEF OInv, MintedFirst, Known
<1>3. \A q \in Jobs : Holds(job'[q]) /\ Removed(job'[q], objects', strayed')
  BY <1>1 DEF OInv, Removed
<1>4. DownForgets'
  BY <1>1 DEF OInv, DownForgets
<1>5. MakersApart'
  BY <1>1 DEF OInv, MakersApart, MakerOps
<1>6. PutUnknown'
  BY <1>1 DEF OInv, PutUnknown
<1>7. Accounted'
  <2> SUFFICES ASSUME up["api"], NEW i \in Images, Lies(i, objects', strayed'),
                      mem'["api"].status[i] \notin Live
               PROVE  \E q \in Jobs : Writes(job'[q], i) \/ Removes(job'[q], i)
    BY DEF Accounted
  <2>1. Lies(i, objects, strayed)
    BY DEF Lies
  <2>2. mem["api"].status[i] \in Live \/ \E q \in Jobs : Writes(job[q], i) \/ Removes(job[q], i)
    BY <2>1 DEF OInv, Accounted
  <2>3. CASE i \notin job[j].images
    <3>1. mem["api"].status[i] \notin Live
      BY <2>3 DEF Lies
    <3>2. PICK q \in Jobs : Writes(job[q], i) \/ Removes(job[q], i)
      BY <2>2, <3>1
    <3>3. q # j
      BY <2>3, <3>2 DEF Writes, Removes
    <3> QED
      BY <1>1, <3>2, <3>3
  <2>4. CASE i \in job[j].images
    BY <1>1, <2>2, <2>4
  <2> QED
    BY <2>3, <2>4
<1>8. SnapAccounted'
  <2> SUFFICES ASSUME NEW q \in Jobs, job'[q].step = "mutated", job'[q].op \in {"delete", "freeze"},
                      NEW i \in job'[q].images, Lies(i, objects', strayed'),
                      job'[q].snap.status[i] \notin Live
               PROVE  \E r \in Jobs \ {q} : Removes(job'[r], i)
    BY DEF SnapAccounted
  <2>1. q # j /\ job'[q] = job[q] /\ Lies(i, objects, strayed)
    BY <1>1 DEF Lies
  <2>2. PICK r \in Jobs \ {q} : Removes(job[r], i)
    BY <2>1 DEF OInv, SnapAccounted
  <2>3. CASE r # j
    BY <1>1, <2>2, <2>3
  <2>4. CASE r = j
    <3>1. i \in job[j].images /\ Removes(job[j], i)
      BY <2>2, <2>4 DEF Removes
    <3> QED
      BY <1>1, <2>1, <2>4, <3>1
  <2> QED
    BY <2>3, <2>4
<1> QED
  BY <1>2, <1>3, <1>4, <1>5, <1>6, <1>7, <1>8 DEF OInv

LEMMA EndedIs ==
  ASSUME NEW rec, JobShape(rec)
  PROVE  /\ Ended(rec) = rec \/ (Ended(rec) = Done /\ (rec.step = "done" \/ rec.keys = {}))
         /\ Done.step = "done" /\ Done.images = {} /\ Done.op = "none" /\ Done.snap = NoState
         /\ \A i \in Images : NoState.status[i] = "none"
  BY DEF Ended, Done, Idle, NoState

LEMMA ImportFailsOInv == \A j \in Jobs : Shapes /\ OInv /\ ImportFails(j) => OInv'
<1> SUFFICES ASSUME NEW j \in Jobs, Shapes, OInv, ImportFails(j) PROVE OInv'
  OBVIOUS
<1> DEFINE rec == [op |-> job[j].op, step |-> "removing", images |-> job[j].images,
                   keys |-> job[j].keys, snap |-> NoState]
<1>1. JobShape(job[j]) /\ job[j].step = "put" /\ job[j].images \subseteq Images
  BY DEF Shapes, JobShape, ImportFails
<1>2. job' = [job EXCEPT ![j] = rec]
  <2>1. job' = [job EXCEPT ![j] = [job[j] EXCEPT !.step = "removing", !.snap = NoState]]
    BY DEF ImportFails
  <2>2. [job[j] EXCEPT !.step = "removing", !.snap = NoState] = rec
    BY <1>1, JobUpdate, Zenon
  <2> QED
    BY <2>1, <2>2, Zenon
<1>3. UNCHANGED <<up, mem, db, objects, minted, strayed>>
  BY DEF ImportFails
<1>4. \A i \in job[j].images : Original(i) \in job[j].keys
  BY <1>1 DEF OInv, Holds
<1>5. Holds(rec) /\ Removed(rec, objects', strayed') /\ \A i \in job[j].images : Removes(rec, i)
  BY <1>4 DEF Holds, Removed, Removes
<1>6. Known(NoState, minted) /\ Known(mem["api"], minted)
  BY EndedIs, RestShape DEF Known, OInv, MintedFirst, Procs, NoState
<1>7. \A q \in Jobs : job[q].step = "put" => \A i \in job[q].images : mem["api"].status[i] = "none"
  BY DEF OInv, PutUnknown
<1>8. \A q \in Jobs : \A i \in job[q].images : NoState.status[i] = "none"
  BY DEF NoState, Shapes, JobShape
<1>9. /\ rec.images = job[j].images /\ rec.op = job[j].op /\ rec.step = "removing"
      /\ rec.snap = NoState
  OBVIOUS
<1> HIDE DEF rec
<1> QED
  BY <1>1, <1>2, <1>3, <1>5, <1>6, <1>7, <1>8, <1>9, Proceeds

LEMMA CreateOInv == \A j \in Jobs : Shapes /\ OInv /\ Create(j) => OInv'
<1> SUFFICES ASSUME NEW j \in Jobs, Shapes, OInv, Create(j) PROVE OInv'
  OBVIOUS
<1> DEFINE images == job[j].images
           snap == IF job[j].op = "upload" THEN mem["api"] ELSE job[j].snap
           rec == [op |-> job[j].op, step |-> "mutated", images |-> images,
                   keys |-> job[j].keys, snap |-> snap]
<1>1. PICK variants : mem' = [mem EXCEPT !["api"] = Created(mem["api"], images, variants)]
  BY DEF Create, Shapes, Procs
<1>2. /\ JobShape(job[j]) /\ job[j].step = "put" /\ images \subseteq Images
      /\ mem = [p \in Procs |-> mem[p]] /\ "api" \in Procs /\ "worker" \in Procs
  BY DEF Shapes, JobShape, Create, Procs
<1>3. UNCHANGED <<up, db, objects, minted, strayed>> /\ mem'["worker"] = mem["worker"]
  BY <1>1, <1>2 DEF Create, history
<1>4. \A i \in Images : mem'["api"].status[i] = IF i \in images THEN "active" ELSE mem["api"].status[i]
  BY <1>1, <1>2 DEF Created
<1>5. job' = [job EXCEPT ![j] = rec]
  <2>1. job' = [job EXCEPT ![j] = [job[j] EXCEPT !.step = "mutated", !.snap = snap]]
    BY DEF Create
  <2> HIDE DEF snap
  <2>2. [job[j] EXCEPT !.step = "mutated", !.snap = snap] = rec
    BY <1>2, JobUpdate, Zenon
  <2> QED
    BY <2>1, <2>2, Zenon
<1>6. /\ job[j].op \in MakerOps /\ \A i \in images : Original(i) \in job[j].keys
  BY <1>2 DEF OInv, Holds
<1>7. Holds(rec) /\ Removed(rec, objects', strayed')
  BY <1>6 DEF Holds, Removed
<1>8. Known(snap, minted) /\ Known(mem'["api"], minted)
  BY <1>2, <1>4 DEF Known, OInv, MintedFirst
<1>9. \A q \in Jobs \ {j} : job[q].step = "put" =>
        \A i \in job[q].images : mem'["api"].status[i] = "none" /\ snap.status[i] = "none"
  <2> SUFFICES ASSUME NEW q \in Jobs \ {j}, job[q].step = "put", NEW i \in job[q].images
               PROVE  mem'["api"].status[i] = "none" /\ snap.status[i] = "none"
    OBVIOUS
  <2>1. mem["api"].status[i] = "none" /\ job[j].snap.status[i] = "none" /\ job[q].op \in MakerOps
    BY DEF OInv, PutUnknown, Holds
  <2>2. i \in Images /\ i \notin images
    BY <1>6, <2>1 DEF OInv, MakersApart, Shapes, JobShape
  <2> QED
    BY <1>4, <2>1, <2>2
<1>10. \A i \in images : mem'["api"].status[i] \in Live
  BY <1>2, <1>4 DEF Live
<1>11. /\ rec.images = job[j].images /\ rec.op = job[j].op /\ rec.step = "mutated"
       /\ rec.snap = snap /\ rec.op \notin {"delete", "freeze"}
  BY <1>6 DEF MakerOps
<1>12. \A i : ~Removes(job[j], i)
  BY <1>2 DEF Removes
<1> HIDE DEF rec, snap
<1> QED
  BY <1>2, <1>3, <1>4, <1>5, <1>7, <1>8, <1>9, <1>10, <1>11, <1>12, Proceeds

LEMMA RestsOInv ==
  ASSUME Shapes, OInv, NEW j \in Jobs, job[j].step \notin {"idle", "done", "put"},
         \A i \in job[j].images : Lies(i, objects, strayed) => ~Removes(job[j], i),
         job' = [job EXCEPT ![j] = Done], UNCHANGED <<up, mem, objects, minted, strayed>>,
         db' = db \/ db' = mem["api"]
  PROVE  OInv'
<1>1. JobShape(job[j])
  BY DEF Shapes
<1>2. /\ Done.step = "done" /\ Done.images = {} /\ Done.op = "none" /\ Done.snap = NoState
      /\ \A i \in Images : NoState.status[i] = "none"
  BY <1>1, EndedIs
<1>3. Holds(Done) /\ Removed(Done, objects', strayed')
  BY <1>2 DEF Holds, Removed
<1>4. Known(NoState, minted) /\ Known(mem["api"], minted)
  BY <1>2 DEF Known, OInv, MintedFirst, Procs
<1>5. \A q \in Jobs : job[q].step = "put" =>
        \A i \in job[q].images : mem["api"].status[i] = "none" /\ Done.snap.status[i] = "none"
  BY <1>2 DEF OInv, PutUnknown, Shapes, JobShape
<1>6. \A i : ~Writes(job[j], i)
  BY DEF Writes
<1> QED
  BY <1>2, <1>3, <1>4, <1>5, <1>6, Proceeds

LEMMA EnqueueOInv == \A j \in Jobs : Shapes /\ OInv /\ Enqueue(j) => OInv'
  BY RestsOInv DEF Enqueue, Removes, history

LEMMA SaveUndoneOInv == \A j \in Jobs : Shapes /\ OInv /\ SaveUndone(j) => OInv'
<1> SUFFICES ASSUME NEW j \in Jobs, Shapes, OInv, SaveUndone(j) PROVE OInv'
  OBVIOUS
<1> QED
  BY RestsOInv DEF SaveUndone, Removes, history

LEMMA RemoveObjectOInv ==
  \A j \in Jobs, key \in Keys : Shapes /\ OInv /\ RemoveObject(j, key) => OInv'
<1> SUFFICES ASSUME NEW j \in Jobs, NEW key \in Keys, Shapes, OInv, RemoveObject(j, key)
             PROVE  OInv'
  OBVIOUS
<1> DEFINE left == [op |-> job[j].op, step |-> job[j].step, images |-> job[j].images,
                    keys |-> job[j].keys \ {key}, snap |-> job[j].snap]
           rec == Ended(left)
<1>1. JobShape(job[j]) /\ job[j].step \in {"removing", "undoing"}
  BY DEF Shapes, RemoveObject
<1>2. job' = [job EXCEPT ![j] = rec]
  <2>1. job' = [job EXCEPT ![j] = Ended([job[j] EXCEPT !.keys = job[j].keys \ {key}])]
    BY DEF RemoveObject
  <2>2. [job[j] EXCEPT !.keys = job[j].keys \ {key}] = left
    BY <1>1, KeysUpdate, Zenon
  <2> QED
    BY <2>1, <2>2, Zenon
<1>3. /\ UNCHANGED <<up, mem, db, minted>>
      /\ \/ objects' = objects \ {key} /\ strayed' = strayed
         \/ strayed' = strayed \cup {key[1]} /\ objects' = objects
  BY DEF RemoveObject
<1>4. \A i \in job[j].images : Lies(i, objects', strayed') => Removes(left, i)
  <2> SUFFICES ASSUME NEW i \in job[j].images, Lies(i, objects', strayed')
               PROVE  Removes(left, i)
    OBVIOUS
  <2>1. Original(i) # key
    BY <1>3 DEF Lies, Original
  <2>2. Original(i) \in job[j].keys
    BY <1>1, <1>3 DEF OInv, Removed, Lies
  <2> QED
    BY <1>1, <2>1, <2>2 DEF Removes
<1>5. JobShape(left) /\ left.images = job[j].images /\ left.op = job[j].op
      /\ left.step = job[j].step /\ left.snap = job[j].snap
  BY <1>1 DEF JobShape
<1> HIDE DEF left
<1>6. /\ rec = left \/ (rec = Done /\ left.keys = {})
      /\ Done.step = "done" /\ Done.images = {} /\ Done.op = "none" /\ Done.snap = NoState
      /\ \A i \in Images : NoState.status[i] = "none"
  BY <1>1, <1>5, EndedIs
<1> HIDE DEF rec
<1>7. \A i \in job[j].images : Lies(i, objects', strayed') => Removes(rec, i)
  BY <1>4, <1>6 DEF Removes
<1>8. Holds(rec) /\ Removed(rec, objects', strayed')
  BY <1>1, <1>4, <1>5, <1>6 DEF Holds, Removed, Removes, Lies
<1>9. Known(rec.snap, minted) /\ Known(mem["api"], minted)
  BY <1>5, <1>6 DEF Known, OInv, MintedFirst, Procs
<1>10. \A q \in Jobs : job[q].step = "put" =>
        \A i \in job[q].images : mem["api"].status[i] = "none" /\ rec.snap.status[i] = "none"
  BY <1>5, <1>6 DEF OInv, PutUnknown, Shapes, JobShape
<1>11. /\ rec.images \in {job[j].images, {}} /\ rec.op \in {job[j].op, "none"}
       /\ rec.step \notin {"put", "mutated"}
  BY <1>1, <1>5, <1>6
<1> QED
  <2>1. /\ job[j].step \notin {"idle", "done"} /\ UNCHANGED <<up, minted>>
        /\ mem'["worker"] = mem["worker"] /\ db' = db
        /\ Known(rec.snap, minted) /\ Known(mem'["api"], minted)
        /\ objects' \subseteq objects /\ strayed \subseteq strayed'
    BY <1>1, <1>3, <1>9
  <2>2. \A q \in Jobs \ {j} : job[q].step = "put" =>
          \A i \in job[q].images : mem'["api"].status[i] = "none" /\ rec.snap.status[i] = "none"
    BY <1>3, <1>10
  <2>3. \A i \in Images : mem'["api"].status[i] = mem["api"].status[i]
    BY <1>3
  <2> QED
    BY <1>2, <1>7, <1>8, <1>11, <2>1, <2>2, <2>3, Proceeds

\* A handler that removes next has all its originals to remove.
LEMMA GoesRemoving ==
  ASSUME NEW rec, JobShape(rec), NEW step \in {"removing", "undoing"},
         \A i \in rec.images : Original(i) \in rec.keys,
         NEW moved, moved = [op |-> rec.op, step |-> step, images |-> rec.images,
                             keys |-> rec.keys, snap |-> NoState],
         NEW new, new = Ended(moved)
  PROVE  /\ new.images \in {rec.images, {}} /\ new.op \in {rec.op, "none"}
         /\ new.step \notin {"put", "mutated"} /\ new.snap = NoState
         /\ Holds(new) /\ \A store, stray : Removed(new, store, stray)
         /\ \A i \in rec.images : Removes(new, i)
         /\ \A i \in Images : new.snap.status[i] = "none"
<1>1. JobShape(moved)
  BY NoStateShape DEF JobShape
<1>2. /\ moved.images = rec.images /\ moved.op = rec.op /\ moved.step = step
      /\ moved.keys = rec.keys /\ moved.snap = NoState
  OBVIOUS
<1>3. /\ new = moved \/ (new = Done /\ rec.keys = {})
      /\ Done.step = "done" /\ Done.images = {} /\ Done.op = "none" /\ Done.snap = NoState
      /\ \A i \in Images : NoState.status[i] = "none"
  BY <1>1, <1>2, EndedIs
<1>4. CASE new = moved
  BY <1>2, <1>3, <1>4 DEF Holds, Removed, Removes
<1>5. CASE new = Done /\ rec.keys = {}
  BY <1>2, <1>3, <1>5 DEF Holds, Removed, Removes
<1> QED
  BY <1>3, <1>4, <1>5

LEMMA SaveOInv == \A j \in Jobs : Shapes /\ OInv /\ Save(j) => OInv'
<1> SUFFICES ASSUME NEW j \in Jobs, Shapes, OInv, Save(j) PROVE OInv'
  OBVIOUS
<1>1. /\ UNCHANGED <<up, mem, objects, minted, strayed>> /\ db' = mem["api"]
      /\ JobShape(job[j]) /\ job[j].step = "mutated" /\ job[j].images \subseteq Images
  BY DEF Save, Shapes, JobShape
<1>2. /\ Known(mem["api"], minted) /\ Known(job[j].snap, minted)
      /\ Holds(job[j])
  BY DEF OInv, MintedFirst, Procs
<1>3. \A q \in Jobs : job[q].step = "put" => \A i \in job[q].images :
        /\ i \in Images /\ mem["api"].status[i] = "none"
        /\ job[j].snap.status[i] = "none"
  BY DEF OInv, PutUnknown, Shapes, JobShape
<1>4. CASE job[j].op = "upload"
  <2> DEFINE rec == [job[j] EXCEPT !.step = "saved"]
  <2>1. rec = [op |-> job[j].op, step |-> "saved", images |-> job[j].images,
               keys |-> job[j].keys, snap |-> job[j].snap]
    BY <1>1 DEF JobShape
  <2>2. job' = [job EXCEPT ![j] = rec]
    BY <1>4 DEF Save
  <2> HIDE DEF rec
  <2>3. Holds(rec) /\ Removed(rec, objects', strayed')
    BY <1>1, <1>2, <1>4, <2>1 DEF Holds, Removed, MakerOps
  <2>4. \A i : ~Writes(job[j], i) /\ ~Removes(job[j], i)
    BY <1>1, <1>4 DEF Writes, Removes
  <2>5. /\ rec.images = job[j].images /\ rec.op = job[j].op /\ rec.step = "saved"
        /\ rec.snap = job[j].snap
    BY <2>1
  <2>6. /\ Known(rec.snap, minted) /\ Known(mem'["api"], minted)
        /\ \A q \in Jobs \ {j} : job[q].step = "put" =>
             \A i \in job[q].images : mem'["api"].status[i] = "none" /\ rec.snap.status[i] = "none"
    BY <1>1, <1>2, <1>3, <2>5
  <2> QED
    BY <1>1, <2>2, <2>3, <2>4, <2>5, <2>6, Proceeds
<1>5. CASE job[j].op = "delete"
  <2> DEFINE moved == [op |-> job[j].op, step |-> "removing", images |-> job[j].images,
                       keys |-> job[j].keys, snap |-> NoState]
             rec == Ended(moved)
  <2>1. \A i \in job[j].images : Original(i) \in job[j].keys
    BY <1>1, <1>2, <1>5 DEF Holds
  <2>2. job' = [job EXCEPT ![j] = rec]
    <3>1. job' = [job EXCEPT ![j] = Ended([job[j] EXCEPT !.step = "removing", !.snap = NoState])]
      BY <1>5 DEF Save
    <3>2. [job[j] EXCEPT !.step = "removing", !.snap = NoState] = moved
      BY <1>1, JobUpdate, Zenon
    <3> QED
      BY <3>1, <3>2, Zenon
  <2>3. /\ rec.images \in {job[j].images, {}} /\ rec.op \in {job[j].op, "none"}
        /\ rec.step \notin {"put", "mutated"} /\ rec.snap = NoState
        /\ Holds(rec) /\ Removed(rec, objects', strayed')
        /\ \A i \in job[j].images : Removes(rec, i)
        /\ \A i \in Images : rec.snap.status[i] = "none"
    BY <1>1, <2>1, GoesRemoving
  <2> HIDE DEF rec
  <2>4. Known(rec.snap, minted)
    BY <2>3 DEF Known
  <2>5. /\ Known(mem'["api"], minted)
        /\ \A q \in Jobs \ {j} : job[q].step = "put" =>
             \A i \in job[q].images : mem'["api"].status[i] = "none" /\ rec.snap.status[i] = "none"
    BY <1>1, <1>2, <1>3, <2>3
  <2> QED
    BY <1>1, <2>2, <2>3, <2>4, <2>5, Proceeds
<1>6. CASE job[j].op \notin {"upload", "delete"}
  <2>1. job' = [job EXCEPT ![j] = Done]
    BY <1>6 DEF Save
  <2>2. \A i : ~Removes(job[j], i)
    BY <1>1, <1>6 DEF Removes
  <2> QED
    BY <1>1, <2>1, <2>2, RestsOInv
<1> QED
  BY <1>4, <1>5, <1>6

LEMMA RollBackOInv ==
  ASSUME Shapes, OInv, NEW j \in Jobs, job[j].step \in {"mutated", "saved"},
         NEW step \in {"removing", "undoing", "done"},
         step # "done" <=> Makes(j),
         RollBack(j, step), UNCHANGED <<up, objects, minted>>, db' = db \/ db' = mem["api"]
  PROVE  OInv'
<1> DEFINE moved == [job[j] EXCEPT !.step = step, !.snap = NoState]
           rec == Ended(moved)
<1>1. /\ job' = [job EXCEPT ![j] = rec] /\ mem' = [mem EXCEPT !["api"] = job[j].snap]
      /\ strayed' = strayed \cup Hit(j)
  BY DEF RollBack
<1>10. moved = [op |-> job[j].op, step |-> step, images |-> job[j].images,
               keys |-> job[j].keys, snap |-> NoState]
  <2>1. JobShape(job[j])
    BY DEF Shapes
  <2>2. moved = [job[j] EXCEPT !.step = step, !.snap = NoState]
    OBVIOUS
  <2> HIDE DEF moved
  <2> QED
    BY <2>1, <2>2, JobUpdate, Zenon
<1> HIDE DEF moved
<1>2. /\ JobShape(job[j]) /\ job[j].images \subseteq Images /\ Holds(job[j])
      /\ Known(job[j].snap, minted)
      /\ mem'["api"] = job[j].snap /\ mem'["worker"] = mem["worker"]
  BY <1>1 DEF Shapes, JobShape, OInv, MintedFirst, Procs
<1>3. \A q \in Jobs : job[q].step = "put" =>
        \A i \in job[q].images : i \in Images /\ job[j].snap.status[i] = "none"
  BY DEF OInv, PutUnknown, Shapes, JobShape
<1>4. \A i \in Images \ job[j].images : i \notin strayed' => job[j].snap.status[i] = mem["api"].status[i]
  BY <1>1 DEF Hit
<1>5. \A i \in job[j].images : i \notin strayed' => \A q \in Jobs \ {j} : i \notin job[q].images
  BY <1>1 DEF Hit
<1>6. /\ rec.images \in {job[j].images, {}} /\ rec.op \in {job[j].op, "none"}
      /\ rec.step \notin {"put", "mutated"}
      /\ Holds(rec) /\ Removed(rec, objects', strayed')
      /\ \A i \in Images : rec.snap.status[i] = "none"
      /\ \A i \in job[j].images : Lies(i, objects', strayed') =>
           job[j].snap.status[i] \in Live \/ Removes(rec, i)
  <2>1. CASE step # "done"
    <3>1. \A i \in job[j].images : Original(i) \in job[j].keys
      BY <1>2, <2>1 DEF Holds, Makes
    <3>2. step \in {"removing", "undoing"}
      BY <2>1
    <3> QED
      BY <1>10, <1>2, <3>1, <3>2, GoesRemoving
  <2>2. CASE step = "done"
    <3>1. moved.step = "done"
      BY <1>10, <2>2
    <3>2. rec = Done
      BY <3>1 DEF Ended
    <3>3. /\ Done.step = "done" /\ Done.images = {} /\ Done.op = "none" /\ Done.snap = NoState
          /\ \A i \in Images : NoState.status[i] = "none"
      BY <1>2, EndedIs
    <3>4. job[j].step = "mutated" /\ job[j].op \in {"delete", "freeze"}
      BY <1>2, <2>2 DEF Holds, MakerOps, Makes
    <3>5. ASSUME NEW i \in job[j].images, Lies(i, objects', strayed')
          PROVE  job[j].snap.status[i] \in Live
      <4>1. Lies(i, objects, strayed)
        BY <1>1, <3>5 DEF Lies
      <4>2. \A q \in Jobs \ {j} : ~Removes(job[q], i)
        BY <1>5, <3>5 DEF Lies, Removes
      <4> QED
        BY <3>4, <4>1, <4>2 DEF OInv, SnapAccounted
    <3> QED
      BY <3>2, <3>3, <3>5 DEF Holds, Removed
  <2> QED
    BY <2>1, <2>2
<1> HIDE DEF rec
<1>7. Known(rec.snap, minted) /\ strayed \subseteq strayed'
  BY <1>1, <1>6 DEF Known
<1>8. \A i \in job[j].images : Lies(i, objects', strayed') => \A q \in Jobs \ {j} : i \notin job[q].images
  BY <1>5 DEF Lies
<1>9. /\ Known(mem'["api"], minted) /\ job[j].step \notin {"idle", "done"}
      /\ \A q \in Jobs \ {j} : job[q].step = "put" =>
           \A i \in job[q].images : mem'["api"].status[i] = "none" /\ rec.snap.status[i] = "none"
      /\ \A i \in Images \ job[j].images : i \notin strayed' =>
           mem'["api"].status[i] = mem["api"].status[i]
  BY <1>2, <1>3, <1>4, <1>6
<1> QED
  BY <1>1, <1>2, <1>6, <1>7, <1>8, <1>9, Proceeds

LEMMA SaveFailsOInv == \A j \in Jobs : Shapes /\ OInv /\ SaveFails(j) => OInv'
<1> SUFFICES ASSUME NEW j \in Jobs, Shapes, OInv, SaveFails(j) PROVE OInv'
  OBVIOUS
<1>1. /\ UNCHANGED <<up, objects, minted>> /\ (db' = db \/ db' = mem["api"])
      /\ RollBack(j, AfterFailedSave(j)) /\ job[j].step = "mutated"
  BY DEF SaveFails
<1>2. /\ AfterFailedSave(j) \in {"removing", "undoing", "done"}
      /\ AfterFailedSave(j) # "done" <=> Makes(j)
  BY DEF AfterFailedSave
<1> QED
  BY <1>1, <1>2, RollBackOInv

LEMMA EnqueueFailsOInv == \A j \in Jobs : Shapes /\ OInv /\ EnqueueFails(j) => OInv'
<1> SUFFICES ASSUME NEW j \in Jobs, Shapes, OInv, EnqueueFails(j) PROVE OInv'
  OBVIOUS
<1>1. /\ UNCHANGED <<up, objects, minted, db>> /\ RollBack(j, "undoing") /\ job[j].step = "saved"
  BY DEF EnqueueFails
<1>2. Makes(j)
  BY <1>1 DEF OInv, Holds, MakerOps, Makes
<1> QED
  BY <1>1, <1>2, RollBackOInv

LEMMA PutOInv ==
  ASSUME Shapes, OInv, NEW j \in Jobs, Free(j), NEW op \in MakerOps, NEW images \in SUBSET Images,
         NEW keys, \A i \in images : Original(i) \in keys,
         \A i \in Images : Original(i) \in keys => i \in images, Put(j, op, images, keys)
  PROVE  OInv'
<1> DEFINE rec == [op |-> op, step |-> "put", images |-> images, keys |-> keys, snap |-> mem["api"]]
<1>1. /\ rec.op = op /\ rec.step = "put" /\ rec.images = images /\ rec.keys = keys
      /\ rec.snap = mem["api"]
  OBVIOUS
<1>2. /\ job' = [job EXCEPT ![j] = rec] /\ UNCHANGED <<up, mem, db, strayed>>
      /\ minted' = minted \cup images /\ objects' = objects \cup keys /\ images \cap minted = {}
      /\ up["api"] /\ job[j].step = "idle"
  BY DEF Put, Free, history
<1> HIDE DEF rec
<1>3. /\ job'[j] = rec /\ \A q \in Jobs \ {j} : job'[q] = job[q]
      /\ \A q \in Jobs : job[q].images \subseteq Images
      /\ "api" \in Procs
  BY <1>2 DEF Shapes, JobShape, Procs
<1>4. MintedFirst'
  BY <1>1, <1>2, <1>3 DEF OInv, MintedFirst, Known
<1>5. \A q \in Jobs : Holds(job'[q]) /\ Removed(job'[q], objects', strayed')
  <2> SUFFICES ASSUME NEW q \in Jobs
               PROVE  Holds(job'[q]) /\ Removed(job'[q], objects', strayed')
    OBVIOUS
  <2>1. CASE q = j
    BY <1>1, <1>3, <2>1 DEF Holds, Removed
  <2>2. CASE q # j
    <3>1. Removed(job[q], objects, strayed) /\ job[q].images \subseteq minted
      BY DEF OInv, MintedFirst
    <3> QED
      BY <1>2, <1>3, <2>2, <3>1 DEF OInv, Removed
  <2> QED
    BY <2>1, <2>2
<1>6. DownForgets'
  BY <1>2 DEF DownForgets
<1>7. MakersApart'
  BY <1>1, <1>2, <1>3 DEF OInv, MakersApart, MintedFirst
<1>8. PutUnknown'
  <2>1. \A i \in images : /\ mem["api"].status[i] = "none"
                          /\ \A q \in Jobs : job[q].snap.status[i] = "none"
    BY <1>2, <1>3 DEF OInv, MintedFirst, Known
  <2>2. \A q \in Jobs \ {j} : job[q].step = "put" =>
          \A i \in job[q].images : /\ mem["api"].status[i] = "none"
                                   /\ \A r \in Jobs : job[r].snap.status[i] = "none"
    BY DEF OInv, PutUnknown
  <2> QED
    BY <1>1, <1>2, <1>3, <2>1, <2>2 DEF PutUnknown
<1>9. Accounted'
  <2> SUFFICES ASSUME NEW i \in Images, Lies(i, objects', strayed'),
                      mem'["api"].status[i] \notin Live
               PROVE  \E q \in Jobs : Writes(job'[q], i) \/ Removes(job'[q], i)
    BY DEF Accounted
  <2>1. CASE i \in images
    BY <1>1, <1>3, <2>1 DEF Writes
  <2>2. CASE i \notin images
    <3>1. Lies(i, objects, strayed)
      BY <1>2, <2>2 DEF Lies
    <3>2. PICK q \in Jobs : Writes(job[q], i) \/ Removes(job[q], i)
      BY <1>2, <3>1 DEF OInv, Accounted
    <3>3. q # j
      BY <1>2, <3>2 DEF Writes, Removes
    <3> QED
      BY <1>3, <3>2, <3>3
  <2> QED
    BY <2>1, <2>2
<1>10. SnapAccounted'
  <2> SUFFICES ASSUME NEW q \in Jobs, job'[q].step = "mutated", job'[q].op \in {"delete", "freeze"},
                      NEW i \in job'[q].images, Lies(i, objects', strayed'),
                      job'[q].snap.status[i] \notin Live
               PROVE  \E r \in Jobs \ {q} : Removes(job'[r], i)
    BY DEF SnapAccounted
  <2>1. q # j /\ job'[q] = job[q] /\ i \in Images
    BY <1>1, <1>3
  <2>2. Lies(i, objects, strayed)
    BY <1>2, <2>1 DEF Lies, OInv, MintedFirst
  <2>3. PICK r \in Jobs \ {q} : Removes(job[r], i)
    BY <2>1, <2>2 DEF OInv, SnapAccounted
  <2>4. r # j
    BY <1>2, <2>3 DEF Removes
  <2> QED
    BY <1>3, <2>3, <2>4
<1> QED
  BY <1>4, <1>5, <1>6, <1>7, <1>8, <1>9, <1>10 DEF OInv

LEMMA UploadPutOInv == \A j \in Jobs, i \in Images : Shapes /\ OInv /\ UploadPut(j, i) => OInv'
<1> SUFFICES ASSUME NEW j \in Jobs, NEW i \in Images, Shapes, OInv, UploadPut(j, i) PROVE OInv'
  OBVIOUS
<1>1. PICK kinds \in SUBSET Kinds :
        Put(j, "upload", {i}, {Original(i)} \cup {<<i, k>> : k \in kinds})
  BY DEF UploadPut
<1> DEFINE keys == {Original(i)} \cup {<<i, k>> : k \in kinds}
<1>2. /\ \A k \in {i} : Original(k) \in keys
      /\ \A k \in Images : Original(k) \in keys => k \in {i}
  BY DEF Original
<1>3. Free(j) /\ "upload" \in MakerOps
  BY DEF UploadPut, MakerOps
<1> QED
  BY <1>1, <1>2, <1>3, PutOInv

LEMMA ImportPutOInv ==
  \A j \in Jobs, images \in SUBSET Images : Shapes /\ OInv /\ ImportPut(j, images) => OInv'
<1> SUFFICES ASSUME NEW j \in Jobs, NEW images \in SUBSET Images, Shapes, OInv, ImportPut(j, images)
             PROVE  OInv'
  OBVIOUS
<1> DEFINE keys == {Original(i) : i \in images}
<1>1. /\ \A k \in images : Original(k) \in keys
      /\ \A k \in Images : Original(k) \in keys => k \in images
  BY DEF Original
<1>2. Free(j) /\ "import" \in MakerOps /\ Put(j, "import", images, keys)
  BY DEF ImportPut, MakerOps
<1> QED
  BY <1>1, <1>2, PutOInv

LEMMA MutateOInv ==
  ASSUME Shapes, OInv, NEW j \in Jobs, Free(j), NEW op \in {"delete", "freeze"},
         NEW images \in SUBSET Images, NEW keys, NEW st,
         \A i \in images : mem["api"].status[i] # "none",
         op = "delete" => \A i \in images : Original(i) \in keys,
         op = "freeze" => \A i \in images : st.status[i] \in Live,
         \A i \in Images \ images : st.status[i] = mem["api"].status[i],
         Mutate(j, op, images, keys, st)
  PROVE  OInv'
<1> DEFINE rec == [op |-> op, step |-> "mutated", images |-> images, keys |-> keys,
                   snap |-> mem["api"]]
<1>1. /\ rec.op = op /\ rec.step = "mutated" /\ rec.images = images /\ rec.keys = keys
      /\ rec.snap = mem["api"]
  OBVIOUS
<1>2. /\ job' = [job EXCEPT ![j] = rec] /\ mem' = [mem EXCEPT !["api"] = st]
      /\ UNCHANGED <<up, db, objects, minted, strayed>>
      /\ up["api"] /\ job[j].step = "idle"
  BY DEF Mutate, Free
<1> HIDE DEF rec
<1>3. /\ job'[j] = rec /\ \A q \in Jobs \ {j} : job'[q] = job[q]
      /\ \A q \in Jobs : job[q].images \subseteq Images
      /\ "api" \in Procs /\ "worker" \in Procs /\ \A p \in Procs : p \in {"api", "worker"}
      /\ mem'["api"] = st /\ mem'["worker"] = mem["worker"]
  BY <1>2 DEF Shapes, JobShape, Procs
<1>4. Known(mem["api"], minted) /\ images \subseteq minted
  BY <1>3 DEF OInv, MintedFirst, Known
<1>5. \A i \in Images : st.status[i] # "none" => mem["api"].status[i] # "none"
  OBVIOUS
<1>6. MintedFirst'
  BY <1>1, <1>2, <1>3, <1>4, <1>5 DEF OInv, MintedFirst, Known
<1>7. \A q \in Jobs : Holds(job'[q]) /\ Removed(job'[q], objects', strayed')
  <2>1. Holds(rec) /\ Removed(rec, objects', strayed')
    BY <1>1 DEF Holds, Removed
  <2> QED
    BY <1>2, <1>3, <2>1 DEF OInv
<1>8. DownForgets'
  BY <1>2 DEF DownForgets
<1>9. MakersApart'
  BY <1>1, <1>2, <1>3 DEF OInv, MakersApart, MakerOps
<1>10. PutUnknown'
  BY <1>1, <1>2, <1>3, <1>5 DEF OInv, PutUnknown
<1>11. \A i \in Images : Lies(i, objects, strayed) => mem["api"].status[i] \in Live \/
         \E q \in Jobs \ {j} : Writes(job[q], i) \/ Removes(job[q], i)
  BY <1>2 DEF OInv, Accounted, Writes, Removes
<1>12. Accounted'
  <2> SUFFICES ASSUME NEW i \in Images, Lies(i, objects, strayed), st.status[i] \notin Live
               PROVE  \E q \in Jobs : Writes(job'[q], i) \/ Removes(job'[q], i)
    BY <1>2, <1>3 DEF Accounted
  <2>1. CASE i \in images
    BY <1>1, <1>3, <2>1 DEF Removes
  <2>2. CASE i \notin images
    BY <1>3, <1>11, <2>2
  <2> QED
    BY <2>1, <2>2
<1>13. SnapAccounted'
  <2> SUFFICES ASSUME NEW q \in Jobs, job'[q].step = "mutated", job'[q].op \in {"delete", "freeze"},
                      NEW i \in job'[q].images, Lies(i, objects, strayed),
                      job'[q].snap.status[i] \notin Live
               PROVE  \E r \in Jobs \ {q} : Removes(job'[r], i)
    BY <1>2 DEF SnapAccounted
  <2>1. CASE q = j
    <3>1. i \in images /\ mem["api"].status[i] \notin Live /\ mem["api"].status[i] # "none"
      BY <1>1, <1>3, <2>1
    <3>2. PICK r \in Jobs \ {j} : Writes(job[r], i) \/ Removes(job[r], i)
      BY <1>11, <3>1
    <3>3. ~Writes(job[r], i)
      BY <3>1 DEF OInv, PutUnknown, Writes
    <3> QED
      BY <1>3, <2>1, <3>2, <3>3
  <2>2. CASE q # j
    <3>1. PICK r \in Jobs \ {q} : Removes(job[r], i)
      BY <1>3, <2>2 DEF OInv, SnapAccounted
    <3>2. r # j
      BY <1>2, <3>1 DEF Removes
    <3> QED
      BY <1>3, <3>1, <3>2
  <2> QED
    BY <2>1, <2>2
<1> QED
  BY <1>6, <1>7, <1>8, <1>9, <1>10, <1>12, <1>13 DEF OInv

LEMMA WithdrawnStatus ==
  ASSUME NEW st, Shape(st), NEW i \in Images
  PROVE  \A k \in Images : Withdrawn(st, i).status[k] = IF k = i THEN "deleted" ELSE st.status[k]
<1> DEFINE status == [st.status EXCEPT ![i] = "deleted"]
           used == [st.used EXCEPT ![Owner[i]] =
                      IF @ >= StoredBytes(st, i) THEN @ - StoredBytes(st, i) ELSE 0]
<1>1. Withdrawn(st, i) = [st EXCEPT !.status = status, !.used = used]
  BY DEF Withdrawn
<1>2. \A k \in Images : status[k] = IF k = i THEN "deleted" ELSE st.status[k]
  BY DEF Shape
<1> HIDE DEF status, used
<1>3. Withdrawn(st, i) = [status |-> status, variants |-> st.variants, used |-> used]
  BY <1>1, StateUpdate, Zenon
<1> QED
  BY <1>2, <1>3

LEMMA DeleteOInv ==
  \A j \in Jobs, i \in Images :
    Shapes /\ OInv /\ (DeleteImage(j, i) \/ AdminDeleteImage(j, i)) => OInv'
<1> SUFFICES ASSUME NEW j \in Jobs, NEW i \in Images, Shapes, OInv,
                    DeleteImage(j, i) \/ AdminDeleteImage(j, i)
             PROVE  OInv'
  OBVIOUS
<1> DEFINE st == mem["api"]
<1>1. /\ Free(j) /\ st.status[i] # "none"
      /\ Mutate(j, "delete", {i}, KeysOf(st, i), Withdrawn(st, i))
  BY DEF DeleteImage, AdminDeleteImage, Live
<1>2. Shape(st)
  BY DEF Shapes, Procs
<1>3. Original(i) \in KeysOf(st, i)
  BY DEF KeysOf
<1>4. \A k \in Images \ {i} : Withdrawn(st, i).status[k] = st.status[k]
  BY <1>2, WithdrawnStatus
<1> QED
  BY <1>1, <1>3, <1>4, MutateOInv

LEMMA AdminFreezeImageOInv ==
  \A j \in Jobs, i \in Images : Shapes /\ OInv /\ AdminFreezeImage(j, i) => OInv'
<1> SUFFICES ASSUME NEW j \in Jobs, NEW i \in Images, Shapes, OInv, AdminFreezeImage(j, i)
             PROVE  OInv'
  OBVIOUS
<1> DEFINE st == [mem["api"] EXCEPT !.status[i] = "frozen"]
<1>1. /\ Free(j) /\ mem["api"].status[i] # "none" /\ Mutate(j, "freeze", {i}, {}, st)
  BY DEF AdminFreezeImage
<1>2. Shape(mem["api"])
  BY DEF Shapes, Procs
<1>3. \A k \in Images : st.status[k] = IF k = i THEN "frozen" ELSE mem["api"].status[k]
  BY <1>2 DEF Shape
<1> HIDE DEF st
<1>4. \A k \in {i} : st.status[k] \in Live
  BY <1>3 DEF Live
<1> QED
  BY <1>1, <1>3, <1>4, MutateOInv

LEMMA AdminPurgeExpiredOInv ==
  \A j \in Jobs, users \in SUBSET Users : Shapes /\ OInv /\ AdminPurgeExpired(j, users) => OInv'
<1> SUFFICES ASSUME NEW j \in Jobs, NEW users \in SUBSET Users, Shapes, OInv,
                    AdminPurgeExpired(j, users)
             PROVE  OInv'
  OBVIOUS
<1> DEFINE images == {i \in Images : Owner[i] \in users /\ mem["api"].status[i] \in Live}
           keys == UNION {KeysOf(mem["api"], i) : i \in images}
           used == [u \in Users |-> IF u \in users THEN 0 ELSE mem["api"].used[u]]
           status == [i \in Images |-> IF i \in images THEN "deleted" ELSE mem["api"].status[i]]
           st == [mem["api"] EXCEPT !.status = status, !.used = used]
<1>1. Shape(mem["api"])
  BY DEF Shapes, Procs
<1>2. images \in SUBSET Images /\ \A i \in images : mem["api"].status[i] # "none"
  BY DEF Live
<1>3. \A i \in images : Original(i) \in keys
  BY DEF KeysOf
<1>4. Free(j) /\ Mutate(j, "delete", images, keys, st)
  BY DEF AdminPurgeExpired
<1>5. \A i \in Images \ images : status[i] = mem["api"].status[i]
  OBVIOUS
<1>6. st = [mem["api"] EXCEPT !.status = status, !.used = used]
  OBVIOUS
<1> HIDE DEF images, keys, used, status, st
<1>7. st = [status |-> status, variants |-> mem["api"].variants, used |-> used]
  BY <1>1, <1>6, StateUpdate, Zenon
<1>8. \A i \in Images \ images : st.status[i] = mem["api"].status[i]
  BY <1>5, <1>7
<1> QED
  BY <1>2, <1>3, <1>4, <1>8, MutateOInv

LEMMA BootOInv == \A p \in Procs : Shapes /\ OInv /\ Boot(p) => OInv'
<1> SUFFICES ASSUME NEW p \in Procs, Shapes, OInv, Boot(p) PROVE OInv'
  OBVIOUS
<1>1. /\ UNCHANGED <<db, objects, job, minted, strayed>> /\ ~up[p]
      /\ up' = [up EXCEPT ![p] = TRUE] /\ mem' = [mem EXCEPT ![p] = db]
      /\ \A q \in Procs : Known(mem'[q], minted)
  BY DEF Boot, history, OInv, MintedFirst, Shapes
<1>2. MintedFirst' /\ \A j \in Jobs : Holds(job'[j]) /\ Removed(job'[j], objects', strayed')
  BY <1>1 DEF OInv, MintedFirst
<1>3. MakersApart' /\ SnapAccounted'
  BY <1>1 DEF OInv, MakersApart, SnapAccounted
<1>4. DownForgets'
  BY <1>1 DEF OInv, DownForgets, Shapes, Procs
<1>5. CASE p = "worker"
  <2>1. up'["api"] = up["api"] /\ mem'["api"] = mem["api"]
    BY <1>1, <1>5 DEF Shapes, Procs
  <2>2. PutUnknown' /\ Accounted'
    BY <1>1, <2>1 DEF OInv, PutUnknown, Accounted
  <2> QED
    BY <1>2, <1>3, <1>4, <2>2 DEF OInv
<1>6. CASE p = "api"
  <2>1. minted \subseteq strayed /\ \A j \in Jobs : job[j].step \in {"idle", "done"}
    BY <1>1, <1>6 DEF OInv, DownForgets
  <2>2. PutUnknown'
    BY <1>1, <2>1 DEF PutUnknown
  <2>3. Accounted'
    BY <1>1, <2>1 DEF Accounted, Lies, OInv, MintedFirst
  <2> QED
    BY <1>2, <1>3, <1>4, <2>2, <2>3 DEF OInv
<1> QED
  BY <1>5, <1>6 DEF Procs

LEMMA CrashOInv == \A p \in Procs : Shapes /\ OInv /\ Crash(p) => OInv'
<1> SUFFICES ASSUME NEW p \in Procs, Shapes, OInv, Crash(p) PROVE OInv'
  OBVIOUS
<1>1. /\ UNCHANGED <<db, objects, minted>>
      /\ up' = [up EXCEPT ![p] = FALSE] /\ mem' = [mem EXCEPT ![p] = NoState]
      /\ \A i \in Images : NoState.status[i] = "none"
      /\ \A q \in Procs : Known(mem'[q], minted)
  BY DEF Crash, OInv, MintedFirst, Shapes, NoState, Known
<1>2. CASE p = "worker"
  <2>1. /\ up'["api"] = up["api"] /\ mem'["api"] = mem["api"] /\ UNCHANGED <<job, strayed>>
    BY <1>1, <1>2 DEF Shapes, Procs, Crash
  <2>2. MintedFirst' /\ \A j \in Jobs : Holds(job'[j]) /\ Removed(job'[j], objects', strayed')
    BY <1>1, <2>1 DEF OInv, MintedFirst
  <2>3. MakersApart' /\ SnapAccounted' /\ DownForgets' /\ PutUnknown' /\ Accounted'
    BY <1>1, <2>1 DEF OInv, MakersApart, SnapAccounted, DownForgets, PutUnknown, Accounted
  <2> QED
    BY <2>2, <2>3 DEF OInv
<1>3. CASE p = "api"
  <2>1. /\ job' = [j \in Jobs |-> IF job[j].step = "idle" THEN Idle ELSE Done]
        /\ strayed' = strayed \cup minted /\ up'["api"] = FALSE
    BY <1>1, <1>3 DEF Crash, Shapes, Procs
  <2>2. \A rec \in {Idle, Done} : /\ rec.step \in {"idle", "done"} /\ rec.images = {}
                                  /\ rec.op = "none" /\ rec.snap = NoState
    BY DEF Idle, Done
  <2>3. \A j \in Jobs : job'[j] \in {Idle, Done}
    BY <2>1
  <2>4. \A rec \in {Idle, Done} : Holds(rec) /\ Removed(rec, objects', strayed')
    BY <2>2 DEF Holds, Removed
  <2>5. MintedFirst'
    BY <1>1, <2>2, <2>3 DEF OInv, MintedFirst, Known
  <2>6. DownForgets' /\ MakersApart' /\ PutUnknown' /\ Accounted' /\ SnapAccounted'
    BY <1>1, <2>1, <2>2, <2>3
       DEF DownForgets, MakersApart, MakerOps, PutUnknown, Accounted, SnapAccounted
  <2> QED
    BY <2>3, <2>4, <2>5, <2>6 DEF OInv
<1> QED
  BY <1>2, <1>3 DEF Procs

\* The worker writes variants, and knows images that were minted.
LEMMA WorkerOInv ==
  ASSUME Shapes, OInv, UNCHANGED <<up, job, minted, strayed>>,
         mem' = [mem EXCEPT !["worker"] = mem'["worker"]], Known(mem'["worker"], minted),
         db' = db \/ db' = mem["worker"],
         \A i \in Images : Original(i) \in objects' <=> Original(i) \in objects
  PROVE  OInv'
<1>1. /\ "api" \in Procs /\ "worker" \in Procs /\ \A p \in Procs : p \in {"api", "worker"}
      /\ mem'["api"] = mem["api"]
      /\ \A q \in Jobs : job[q].images \subseteq Images
  BY DEF Shapes, Procs, JobShape
<1>2. MintedFirst'
  BY <1>1 DEF OInv, MintedFirst
<1>3. \A i \in Images : Lies(i, objects', strayed') <=> Lies(i, objects, strayed)
  BY DEF Lies
<1>4. \A j \in Jobs : Holds(job'[j]) /\ Removed(job'[j], objects', strayed')
  BY <1>1 DEF OInv, Removed
<1>5. MakersApart' /\ DownForgets' /\ PutUnknown'
  BY <1>1 DEF OInv, MakersApart, DownForgets, PutUnknown
<1>6. Accounted'
  BY <1>1, <1>3 DEF OInv, Accounted
<1>7. SnapAccounted'
  BY <1>1, <1>3 DEF OInv, SnapAccounted
<1> QED
  BY <1>2, <1>4, <1>5, <1>6, <1>7 DEF OInv

LEMMA VariantsNotOriginals ==
  \A i, k, variants : Original(i) \notin VariantKeys(k, variants)
  BY KindAssumption DEF Original, VariantKeys

LEMMA RevisedIs ==
  ASSUME NEW st, Shape(st), NEW i, NEW all
  PROVE  Revised(st, i, all) =
           [status |-> [st.status EXCEPT ![i] = IF Offends(st, i) THEN "frozen" ELSE @],
            variants |-> [st.variants EXCEPT ![i] = all],
            used |-> [st.used EXCEPT ![Owner[i]] =
                        Recounted(@, VariantBytes(st.variants[i]), VariantBytes(all))]]
<1> DEFINE statuses == [st.status EXCEPT ![i] = IF Offends(st, i) THEN "frozen" ELSE @]
           variants == [st.variants EXCEPT ![i] = all]
           used == [st.used EXCEPT ![Owner[i]] =
                      Recounted(@, VariantBytes(st.variants[i]), VariantBytes(all))]
           new == [st EXCEPT !.status = statuses, !.variants = variants, !.used = used]
<1>1. new = [st EXCEPT !.status = statuses, !.variants = variants, !.used = used]
  OBVIOUS
<1>2. Revised(st, i, all) = new
  BY DEF Revised
<1> HIDE DEF statuses, variants, used, new
<1>3. new = [status |-> statuses, variants |-> variants, used |-> used]
  BY <1>1, WholeUpdate, Zenon
<1> QED
  BY <1>2, <1>3 DEF statuses, variants, used

LEMMA ProcessCommitOInv == IInv /\ OInv /\ ProcessCommit => OInv'
<1> SUFFICES ASSUME IInv, OInv, ProcessCommit PROVE OInv'
  OBVIOUS
<1> DEFINE i == work.image
           st == mem["worker"]
           all == Merged(st.variants[i], work.variants)
           new == Revised(st, i, all)
<1>1. /\ Shapes /\ Shape(st) /\ i \in Images /\ st.status[i] = "active" /\ Known(st, minted)
  BY DEF IInv, Shapes, WorkBacked, OInv, MintedFirst, Procs, ProcessCommit
<1>2. /\ UNCHANGED <<up, db, objects, job, minted, strayed>>
      /\ mem' = [mem EXCEPT !["worker"] = new]
  BY <1>1 DEF ProcessCommit, history
<1>3. new.status = [st.status EXCEPT ![i] = IF Offends(st, i) THEN "frozen" ELSE @]
  BY <1>1, RevisedIs
<1> HIDE DEF new
<1>4. \A k \in Images : new.status[k] # "none" => st.status[k] # "none"
  BY <1>1, <1>3 DEF Shape
<1>5. Known(new, minted)
  BY <1>1, <1>4 DEF Known
<1>6. mem'["worker"] = new
  BY <1>1, <1>2 DEF Shapes, Procs
<1> QED
  BY <1>1, <1>2, <1>5, <1>6, WorkerOInv

LEMMA ProcessOInv == IInv /\ OInv /\ Process => OInv'
<1> SUFFICES ASSUME IInv, OInv, Process PROVE OInv'
  OBVIOUS
<1>1. CASE ProcessCommit
  BY <1>1, ProcessCommitOInv
<1>2. CASE Process /\ ~ProcessCommit
  <2>1. /\ UNCHANGED <<up, job, minted, strayed, mem>>
        /\ db' = db \/ db' = mem["worker"]
    BY <1>2 DEF Process, ProcessRead, ProcessPut, ProcessPutFails, ProcessSave, ProcessSaveFails,
                ProcessAck, history
  <2>2. \/ objects' = objects
        \/ \E keys \in SUBSET VariantKeys(work.image, work.variants) : objects' = objects \cup keys
    BY <1>2 DEF Process, ProcessRead, ProcessPut, ProcessPutFails, ProcessSave, ProcessSaveFails,
                ProcessAck
  <2>3. \A i \in Images : Original(i) \in objects' <=> Original(i) \in objects
    BY <2>2, VariantsNotOriginals
  <2>4. mem' = [mem EXCEPT !["worker"] = mem'["worker"]] /\ Known(mem'["worker"], minted)
    BY <2>1 DEF IInv, Shapes, OInv, MintedFirst, Procs
  <2> QED
    BY <2>1, <2>3, <2>4, WorkerOInv DEF IInv
<1> QED
  BY <1>1, <1>2

LEMMA StutterOInv == OInv /\ UNCHANGED vars => OInv'
<1> SUFFICES ASSUME OInv, UNCHANGED vars PROVE OInv'
  OBVIOUS
<1> USE DEF vars, history
<1>1. MintedFirst' /\ \A j \in Jobs : Holds(job'[j]) /\ Removed(job'[j], objects', strayed')
  BY DEF OInv, MintedFirst
<1>2. DownForgets' /\ MakersApart' /\ PutUnknown'
  BY DEF OInv, DownForgets, MakersApart, PutUnknown
<1>3. Accounted' /\ SnapAccounted'
  BY DEF OInv, Accounted, SnapAccounted
<1> QED
  BY <1>1, <1>2, <1>3 DEF OInv

LEMMA HandleOInv == \A j \in Jobs : Shapes /\ OInv /\ Handle(j) => OInv'
  BY UploadPutOInv, DeleteOInv, AdminFreezeImageOInv, ImportPutOInv, AdminPurgeExpiredOInv,
     ImportFailsOInv, CreateOInv, SaveOInv, SaveFailsOInv, EnqueueOInv, EnqueueFailsOInv,
     RemoveObjectOInv, SaveUndoneOInv
     DEF Handle

\* Every original in the storage is shown by the API server, or a handler will
\* show or remove it, but for images that strayed.
THEOREM OriginalsAccounted == Spec => []OInv
<1>1. Init => OInv
  BY InitOInv
<1>2. IInv /\ OInv /\ [Next]_vars => OInv'
  BY BootOInv, CrashOInv, HandleOInv, ProcessOInv, StutterOInv DEF Next, Quiescent, IInv
<1> QED
  BY <1>1, <1>2, ObjectsAreThere, PTL DEF Spec

\* No original is left over: once no handler is at an image that the API
\* server does not show, its original is gone, unless the storage refused to
\* remove it, the server died, or a rollback hit what others did.
THEOREM NothingLeftOver == Spec => []NoOriginalLeftOver
<1>1. OInv => NoOriginalLeftOver
  BY DEF OInv, Accounted, NoOriginalLeftOver, Lies, Writes, Removes
<1> QED
  BY <1>1, OriginalsAccounted, PTL

-----------------------------------------------------------------------------
(* Sums over finite sets, by induction on subsets: the least set that is    *)
(* not in T would have all smaller ones in T.                              *)

Total(f, S) == MapThenSumSet(LAMBDA x : f[x], S)

Folded(f, s, g) == IF s = {} THEN 0 ELSE f[CHOOSE x \in s : TRUE] + g[s \ {CHOOSE x \in s : TRUE}]

IsFold(f, S, g) == g = [s \in SUBSET S |-> Folded(f, s, g)]

LEMMA TotalIs ==
  ASSUME NEW f, NEW S
  PROVE Total(f, S) = (CHOOSE g : IsFold(f, S, g))[S]
  BY DEF Total, MapThenSumSet, MapThenFoldSet, Folded, IsFold

\* Induction on finite sets
LEMMA SetInduction ==
  ASSUME NEW S, IsFiniteSet(S), NEW T,
         \A s \in SUBSET S : (\A r \in SUBSET s : r # s => r \in T) => s \in T
  PROVE  \A s \in SUBSET S : s \in T
<1> DEFINE U == {s \in SUBSET S : s \notin T}
<1>1. IsWellFoundedOn(StrictSubsetOrdering(S), SUBSET S)
  BY FS_StrictSubsetOrderingWellFounded, FS_FiniteSubsetsOfFinite
<1>2. ASSUME U # {} PROVE FALSE
  <2>1. U \subseteq SUBSET S
    OBVIOUS
  <2> HIDE DEF U
  <2>2. PICK s \in U : \A r \in U : ~ (<<r, s>> \in StrictSubsetOrdering(S))
    BY <1>1, <1>2, <2>1, WFMin
  <2>3. s \in SUBSET S
    BY <2>1
  <2>4. ASSUME NEW r \in SUBSET s, r # s PROVE r \in T
    <3>1. r \in SUBSET S
      BY <2>3
    <3>2. <<r, s>> \in StrictSubsetOrdering(S)
      BY <2>3, <2>4, <3>1 DEF StrictSubsetOrdering
    <3>3. r \notin U
      BY <2>2, <3>2
    <3> QED
      BY <3>1, <3>3 DEF U
  <2>5. s \in T
    BY <2>3, <2>4
  <2> QED
    BY <2>5 DEF U
<1> QED
  BY <1>2

LEMMA FoldUnique ==
  ASSUME NEW S, IsFiniteSet(S), NEW f, NEW g, NEW h, IsFold(f, S, g), IsFold(f, S, h)
  PROVE  \A s \in SUBSET S : g[s] = h[s]
<1> DEFINE T == {s \in SUBSET S : g[s] = h[s]}
<1>1. ASSUME NEW s \in SUBSET S, \A r \in SUBSET s : r # s => r \in T
      PROVE  s \in T
  <2> DEFINE x == CHOOSE x \in s : TRUE
  <2>1. g[s] = Folded(f, s, g) /\ h[s] = Folded(f, s, h)
    BY DEF IsFold
  <2>2. CASE s = {}
    BY <2>1, <2>2 DEF Folded
  <2>3. CASE s # {}
    <3>1. x \in s
      BY <2>3
    <3>2. s \ {x} \in T
      BY <1>1, <3>1
    <3> QED
      BY <2>1, <2>3, <3>2 DEF Folded
  <2> QED
    BY <2>2, <2>3
<1> HIDE DEF T
<1>2. \A s \in SUBSET S : s \in T
  BY <1>1, SetInduction
<1> QED
  BY <1>2 DEF T

LEMMA FoldRestrict ==
  ASSUME NEW S, NEW f, NEW g, IsFold(f, S, g), NEW R \in SUBSET S
  PROVE  IsFold(f, R, [s \in SUBSET R |-> g[s]])
<1> DEFINE h == [s \in SUBSET R |-> g[s]]
<1>1. ASSUME NEW s \in SUBSET R PROVE h[s] = Folded(f, s, h)
  <2>1. g[s] = Folded(f, s, g)
    BY DEF IsFold
  <2>2. s \ {CHOOSE x \in s : TRUE} \in SUBSET R
    OBVIOUS
  <2>3. Folded(f, s, g) = Folded(f, s, h)
    BY <2>2 DEF Folded
  <2> QED
    BY <2>1, <2>3
<1>2. h = [s \in SUBSET R |-> h[s]]
  OBVIOUS
<1> HIDE DEF h
<1>3. h = [s \in SUBSET R |-> Folded(f, s, h)]
  BY <1>1, <1>2
<1>4. IsFold(f, R, h)
  BY <1>3 DEF IsFold
<1> QED
  BY <1>4 DEF h

LEMMA FoldExists ==
  ASSUME NEW S, IsFiniteSet(S), NEW f
  PROVE  \A s \in SUBSET S : \E g : IsFold(f, s, g)
<1> DEFINE T == {s \in SUBSET S : \E g : IsFold(f, s, g)}
           H(r) == CHOOSE g : IsFold(f, r, g)
<1>1. ASSUME NEW s \in SUBSET S, \A r \in SUBSET s : r # s => r \in T
      PROVE  s \in T
  <2> DEFINE x == CHOOSE x \in s : TRUE
             G == [r \in SUBSET s |->
                     IF r = s THEN (IF s = {} THEN 0 ELSE f[x] + H(s \ {x})[s \ {x}])
                     ELSE H(r)[r]]
  <2>1. \A r \in SUBSET s : r # s => IsFold(f, r, H(r))
    BY <1>1
  <2>2. \A r \in SUBSET s, q \in SUBSET s : r # s /\ q \in SUBSET r => H(r)[q] = H(q)[q]
    <3> SUFFICES ASSUME NEW r \in SUBSET s, NEW q \in SUBSET r, r # s
                 PROVE  H(r)[q] = H(q)[q]
      OBVIOUS
    <3>1. IsFold(f, r, H(r)) /\ IsFold(f, q, H(q)) /\ IsFiniteSet(q)
      BY <2>1, FS_Subset
    <3> HIDE DEF H
    <3>2. IsFold(f, q, [p \in SUBSET q |-> H(r)[p]])
      BY <3>1, FoldRestrict
    <3>3. [p \in SUBSET q |-> H(r)[p]][q] = H(q)[q]
      BY <3>1, <3>2, FoldUnique
    <3> QED
      BY <3>3
  <2>3. ASSUME NEW r \in SUBSET s PROVE G[r] = Folded(f, r, G)
    <3> DEFINE y == CHOOSE y \in r : TRUE
    <3>1. CASE r = {}
      <4>1. CASE s = {}
        BY <3>1, <4>1 DEF Folded
      <4>2. CASE s # {}
        <5>1. G[r] = H(r)[r] /\ IsFold(f, r, H(r))
          BY <2>1, <3>1, <4>2
        <5> HIDE DEF H
        <5> QED
          BY <3>1, <5>1 DEF IsFold, Folded
      <4> QED
        BY <4>1, <4>2
    <3>2. CASE r # {}
      <4>1. y \in r /\ r \ {y} \in SUBSET s /\ r \ {y} # s
        BY <3>2
      <4>2. G[r \ {y}] = H(r \ {y})[r \ {y}]
        BY <4>1
      <4>3. CASE r = s
        BY <3>2, <4>2, <4>3 DEF Folded
      <4>4. CASE r # s
        <5>1. G[r] = H(r)[r] /\ IsFold(f, r, H(r))
          BY <2>1, <4>4
        <5>2. H(r)[r \ {y}] = H(r \ {y})[r \ {y}]
          BY <2>2, <4>1, <4>4
        <5>3. H(r)[r] = f[y] + H(r)[r \ {y}]
          <6> HIDE DEF H
          <6> QED
            BY <3>2, <5>1 DEF IsFold, Folded
        <5>4. Folded(f, r, G) = f[y] + G[r \ {y}]
          BY <3>2 DEF Folded
        <5> QED
          BY <4>2, <5>1, <5>2, <5>3, <5>4
      <4> QED
        BY <4>3, <4>4
    <3> QED
      BY <3>1, <3>2
  <2>4. G = [r \in SUBSET s |-> G[r]]
    OBVIOUS
  <2> HIDE DEF G
  <2>5. IsFold(f, s, G)
    BY <2>3, <2>4 DEF IsFold
  <2> QED
    BY <2>5
<1> HIDE DEF T
<1>2. \A s \in SUBSET S : s \in T
  BY <1>1, SetInduction
<1> QED
  BY <1>2 DEF T

LEMMA TotalStep ==
  ASSUME NEW S, IsFiniteSet(S), NEW f
  PROVE  /\ Total(f, {}) = 0
         /\ S # {} => LET x == CHOOSE x \in S : TRUE IN Total(f, S) = f[x] + Total(f, S \ {x})
<1> DEFINE H(r) == CHOOSE g : IsFold(f, r, g)
<1>1. \A s \in SUBSET S : IsFold(f, s, H(s)) /\ Total(f, s) = H(s)[s]
  BY FoldExists, TotalIs
<1> HIDE DEF H
<1>2. Total(f, {}) = 0
  BY <1>1 DEF IsFold, Folded
<1>3. ASSUME S # {}
      PROVE  LET x == CHOOSE x \in S : TRUE IN Total(f, S) = f[x] + Total(f, S \ {x})
  <2> DEFINE x == CHOOSE x \in S : TRUE
             R == S \ {x}
  <2>1. R \in SUBSET S /\ IsFiniteSet(R)
    BY FS_Subset
  <2>2. H(S)[S] = f[x] + H(S)[R]
    BY <1>1, <1>3 DEF IsFold, Folded
  <2>3. H(S)[R] = H(R)[R]
    <3>1. IsFold(f, S, H(S)) /\ IsFold(f, R, H(R))
      BY <1>1, <2>1
    <3> HIDE DEF R
    <3>2. IsFold(f, R, [p \in SUBSET R |-> H(S)[p]])
      BY <2>1, <3>1, FoldRestrict
    <3>3. [p \in SUBSET R |-> H(S)[p]][R] = H(R)[R]
      BY <2>1, <3>1, <3>2, FoldUnique
    <3> QED
      BY <3>3
  <2> QED
    BY <1>1, <2>1, <2>2, <2>3
<1> QED
  BY <1>2, <1>3

LEMMA TotalNat ==
  ASSUME NEW S, IsFiniteSet(S), NEW f, \A x \in S : f[x] \in Nat
  PROVE  \A s \in SUBSET S : Total(f, s) \in Nat
<1> DEFINE T == {s \in SUBSET S : Total(f, s) \in Nat}
<1>1. ASSUME NEW s \in SUBSET S, \A r \in SUBSET s : r # s => r \in T
      PROVE  s \in T
  <2> DEFINE x == CHOOSE x \in s : TRUE
  <2>1. IsFiniteSet(s)
    BY FS_Subset
  <2>2. CASE s = {}
    <3>1. Total(f, {}) = 0
      BY <2>1, TotalStep
    <3> QED
      BY <2>2, <3>1
  <2>3. CASE s # {}
    <3>1. x \in s /\ s \ {x} \in T
      BY <1>1, <2>3
    <3>2. Total(f, s) = f[x] + Total(f, s \ {x})
      BY <2>1, <2>3, TotalStep
    <3>3. f[x] \in Nat /\ Total(f, s \ {x}) \in Nat
      BY <3>1
    <3>4. Total(f, s) \in Nat
      BY <3>2, <3>3
    <3> QED
      BY <3>4
  <2> QED
    BY <2>2, <2>3
<1> HIDE DEF T
<1>2. \A s \in SUBSET S : s \in T
  BY <1>1, SetInduction
<1> QED
  BY <1>2 DEF T

\* Whichever element is taken out first
LEMMA TotalTake ==
  ASSUME NEW S, IsFiniteSet(S), NEW f, \A x \in S : f[x] \in Nat
  PROVE  \A s \in SUBSET S : \A y \in s : Total(f, s) = f[y] + Total(f, s \ {y})
<1> DEFINE T == {s \in SUBSET S : \A y \in s : Total(f, s) = f[y] + Total(f, s \ {y})}
<1>1. ASSUME NEW s \in SUBSET S, \A r \in SUBSET s : r # s => r \in T
      PROVE  s \in T
  <2>1. ASSUME NEW y \in s PROVE Total(f, s) = f[y] + Total(f, s \ {y})
    <3> DEFINE x == CHOOSE x \in s : TRUE
    <3>1. IsFiniteSet(s) /\ s # {} /\ x \in s
      BY FS_Subset
    <3>2. Total(f, s) = f[x] + Total(f, s \ {x})
      BY <3>1, TotalStep
    <3> HIDE DEF x
    <3>3. CASE y = x
      BY <3>2, <3>3
    <3>4. CASE y # x
      <4>1. s \ {x} \in T /\ y \in s \ {x}
        BY <1>1, <3>1, <3>4
      <4>2. s \ {y} \in T /\ x \in s \ {y}
        BY <1>1, <3>1, <3>4
      <4>3. Total(f, s \ {x}) = f[y] + Total(f, (s \ {x}) \ {y})
        BY <4>1
      <4>4. Total(f, s \ {y}) = f[x] + Total(f, (s \ {y}) \ {x})
        BY <4>2
      <4>5. (s \ {x}) \ {y} = (s \ {y}) \ {x}
        OBVIOUS
      <4>6. f[x] \in Nat /\ f[y] \in Nat /\ Total(f, (s \ {y}) \ {x}) \in Nat
        BY <3>1, TotalNat
      <4> QED
        BY <3>2, <4>3, <4>4, <4>5, <4>6
    <3> QED
      BY <3>3, <3>4
  <2> QED
    BY <2>1
<1> HIDE DEF T
<1>2. \A s \in SUBSET S : s \in T
  BY <1>1, SetInduction
<1> QED
  BY <1>2 DEF T

LEMMA TotalSame ==
  ASSUME NEW S, IsFiniteSet(S), NEW f, NEW g, \A x \in S : f[x] = g[x]
  PROVE  Total(f, S) = Total(g, S)
<1> DEFINE T == {s \in SUBSET S : Total(f, s) = Total(g, s)}
<1>1. ASSUME NEW s \in SUBSET S, \A r \in SUBSET s : r # s => r \in T
      PROVE  s \in T
  <2> DEFINE x == CHOOSE x \in s : TRUE
  <2>1. IsFiniteSet(s)
    BY FS_Subset
  <2>2. CASE s = {}
    <3>1. Total(f, {}) = 0 /\ Total(g, {}) = 0
      BY <2>1, TotalStep
    <3> QED
      BY <2>2, <3>1
  <2>3. CASE s # {}
    <3>1. x \in s /\ s \ {x} \in T
      BY <1>1, <2>3
    <3>2. Total(f, s) = f[x] + Total(f, s \ {x}) /\ Total(g, s) = g[x] + Total(g, s \ {x})
      BY <2>1, <2>3, TotalStep
    <3>3. Total(f, s) = Total(g, s)
      BY <3>1, <3>2
    <3> QED
      BY <3>3
  <2> QED
    BY <2>2, <2>3
<1> HIDE DEF T
<1>2. \A s \in SUBSET S : s \in T
  BY <1>1, SetInduction
<1> QED
  BY <1>2 DEF T

LEMMA TotalUnion ==
  ASSUME NEW S, IsFiniteSet(S), NEW f, \A x \in S : f[x] \in Nat,
         NEW R, R \subseteq S
  PROVE  \A s \in SUBSET S : s \cap R = {} => Total(f, R \cup s) = Total(f, R) + Total(f, s)
<1> DEFINE T == {s \in SUBSET S : s \cap R = {} => Total(f, R \cup s) = Total(f, R) + Total(f, s)}
<1>1. ASSUME NEW s \in SUBSET S, \A r \in SUBSET s : r # s => r \in T
      PROVE  s \in T
  <2> SUFFICES ASSUME s \cap R = {} PROVE Total(f, R \cup s) = Total(f, R) + Total(f, s)
    OBVIOUS
  <2>0. Total(f, R) \in Nat
    BY TotalNat
  <2>1. CASE s = {}
    <3>1. Total(f, {}) = 0 /\ R \cup s = R
      BY <2>1, TotalStep
    <3> QED
      BY <2>0, <2>1, <3>1
  <2>2. CASE s # {}
    <3>1. PICK y : y \in s
      BY <2>2
    <3>2. s \ {y} \in T /\ (s \ {y}) \cap R = {}
      BY <1>1, <3>1
    <3>3. Total(f, R \cup (s \ {y})) = Total(f, R) + Total(f, s \ {y})
      BY <3>2
    <3>4. Total(f, s) = f[y] + Total(f, s \ {y})
      BY <3>1, TotalTake
    <3>5. R \cup s \in SUBSET S /\ y \in R \cup s /\ (R \cup s) \ {y} = R \cup (s \ {y})
      BY <3>1
    <3>6. Total(f, R \cup s) = f[y] + Total(f, R \cup (s \ {y}))
      BY <3>5, TotalTake
    <3>7. f[y] \in Nat /\ Total(f, s \ {y}) \in Nat
      BY <3>1, TotalNat
    <3> QED
      BY <2>0, <3>3, <3>4, <3>6, <3>7
  <2> QED
    BY <2>1, <2>2
<1> HIDE DEF T
<1>2. \A s \in SUBSET S : s \in T
  BY <1>1, SetInduction
<1> QED
  BY <1>2 DEF T

-----------------------------------------------------------------------------
(* What images occupy.                                                     *)

Stored(variants) == [i \in Images |-> Bytes + VariantBytes(variants[i])]

LEMMA OccupiedIsTotal ==
  ASSUME NEW images, NEW variants, NEW u, images \subseteq Images
  PROVE  Occupied(images, variants, u) =
           Total(Stored(variants), {i \in images : Owner[i] = u})
<1> DEFINE S == {i \in images : Owner[i] = u}
           f == Stored(variants)
           Sum(s, g) == IF s = {} THEN 0
                        ELSE (Bytes + VariantBytes(variants[CHOOSE x \in s : TRUE]))
                             + g[s \ {CHOOSE x \in s : TRUE}]
           P(g) == g = [s \in SUBSET S |-> Sum(s, g)]
<1>1. Occupied(images, variants, u) = (CHOOSE g : P(g))[S]
  BY DEF Occupied, MapThenSumSet, MapThenFoldSet
<1>2. S \subseteq Images
  OBVIOUS
<1>3. ASSUME NEW g, NEW s \in SUBSET S PROVE Sum(s, g) = Folded(f, s, g)
  <2>1. CASE s = {}
    BY <2>1 DEF Folded
  <2>2. CASE s # {}
    <3>1. (CHOOSE x \in s : TRUE) \in Images
      BY <1>2, <2>2
    <3> QED
      BY <2>2, <3>1 DEF Folded, Stored
  <2> QED
    BY <2>1, <2>2
<1> HIDE DEF S, f, Sum
<1>4. ASSUME NEW g PROVE P(g) <=> IsFold(f, S, g)
  <2>1. [s \in SUBSET S |-> Sum(s, g)] = [s \in SUBSET S |-> Folded(f, s, g)]
    BY <1>3
  <2> QED
    BY <2>1 DEF IsFold
<1> HIDE DEF P
<1>5. (CHOOSE g : P(g)) = (CHOOSE g : IsFold(f, S, g))
  BY <1>4, Zenon
<1>6. Total(f, S) = (CHOOSE g : IsFold(f, S, g))[S]
  BY TotalIs
<1>7. Occupied(images, variants, u) = Total(f, S)
  BY <1>1, <1>5, <1>6
<1> QED
  BY <1>7 DEF f, S

LEMMA VariantBytesNat ==
  ASSUME NEW variants \in Sizes
  PROVE  VariantBytes(variants) \in Nat
<1>1. VariantBytes(variants) = Total(variants, Kinds)
  BY DEF VariantBytes, Total
<1>2. \A k \in Kinds : variants[k] \in Nat
  BY SizeAssumption DEF Sizes
<1>3. Kinds \in SUBSET Kinds
  OBVIOUS
<1> QED
  BY <1>1, <1>2, <1>3, TotalNat, FiniteAssumption

\* What the images of one user occupy depends on these and their variants only.
LEMMA OccupiedSame ==
  ASSUME NEW u, NEW images, NEW variants, images \subseteq Images,
         NEW images2, NEW variants2, images2 \subseteq Images,
         \A i \in Images : Owner[i] = u =>
           /\ i \in images <=> i \in images2
           /\ i \in images => variants[i] = variants2[i]
  PROVE  Occupied(images, variants, u) = Occupied(images2, variants2, u)
<1> DEFINE S == {i \in images : Owner[i] = u}
<1>1. S = {i \in images2 : Owner[i] = u}
  OBVIOUS
<1>2. IsFiniteSet(S)
  BY FS_Subset, FiniteAssumption
<1>3. \A i \in S : Stored(variants)[i] = Stored(variants2)[i]
  BY DEF Stored
<1>4. /\ Occupied(images, variants, u) = Total(Stored(variants), S)
      /\ Occupied(images2, variants2, u) = Total(Stored(variants2), S)
  BY <1>1, OccupiedIsTotal
<1> HIDE DEF S
<1> QED
  BY <1>2, <1>3, <1>4, TotalSame

\* Images apart
LEMMA OccupiedBoth ==
  ASSUME NEW u, NEW variants, NEW one, one \subseteq Images, NEW other, other \subseteq Images,
         one \cap other = {}, \A i \in one \cup other : variants[i] \in Sizes
  PROVE  /\ Occupied(one, variants, u) \in Nat /\ Occupied(other, variants, u) \in Nat
         /\ Occupied(one \cup other, variants, u) =
              Occupied(one, variants, u) + Occupied(other, variants, u)
<1> DEFINE f == Stored(variants)
           R == {i \in one : Owner[i] = u}
           S == {i \in other : Owner[i] = u}
<1>1. /\ Occupied(one, variants, u) = Total(f, R)
      /\ Occupied(other, variants, u) = Total(f, S)
  BY OccupiedIsTotal
<1>2. Occupied(one \cup other, variants, u) = Total(f, R \cup S)
  <2>1. {i \in one \cup other : Owner[i] = u} = R \cup S
    OBVIOUS
  <2> QED
    BY <2>1, OccupiedIsTotal
<1>3. IsFiniteSet(R \cup S) /\ R \cap S = {}
  BY FS_Subset, FiniteAssumption
<1>4. \A i \in R \cup S : f[i] \in Nat
  BY VariantBytesNat, SizeAssumption DEF Stored
<1> HIDE DEF f, R, S
<1>5. Total(f, R) \in Nat /\ Total(f, S) \in Nat
  BY <1>3, <1>4, TotalNat
<1>6. Total(f, R \cup S) = Total(f, R) + Total(f, S)
  BY <1>3, <1>4, TotalUnion
<1> QED
  BY <1>1, <1>2, <1>5, <1>6

LEMMA OccupiedNat ==
  ASSUME NEW u, NEW variants, NEW images, images \subseteq Images,
         \A i \in images : variants[i] \in Sizes
  PROVE  Occupied(images, variants, u) \in Nat
<1>1. {} \subseteq Images /\ images \cap {} = {} /\ images \cup {} = images
  OBVIOUS
<1>2. \A i \in images \cup {} : variants[i] \in Sizes
  OBVIOUS
<1> QED
  BY <1>1, <1>2, OccupiedBoth

LEMMA OccupiedNone ==
  ASSUME NEW u, NEW variants, NEW images, images \subseteq Images,
         \A i \in images : Owner[i] # u
  PROVE  Occupied(images, variants, u) = 0
<1>1. {i \in images : Owner[i] = u} = {}
  OBVIOUS
<1>2. Total(Stored(variants), {}) = 0
  BY FS_EmptySet, TotalStep
<1> QED
  BY <1>1, <1>2, OccupiedIsTotal

\* One image
LEMMA OccupiedOne ==
  ASSUME NEW variants, NEW i \in Images, variants[i] \in Sizes
  PROVE  Occupied({i}, variants, Owner[i]) = Bytes + VariantBytes(variants[i])
<1> DEFINE f == Stored(variants)
<1>1. {k \in {i} : Owner[k] = Owner[i]} = {i}
  OBVIOUS
<1>2. Occupied({i}, variants, Owner[i]) = Total(f, {i})
  BY <1>1, OccupiedIsTotal
<1>3. f[i] = Bytes + VariantBytes(variants[i]) /\ f[i] \in Nat
  BY VariantBytesNat, SizeAssumption DEF Stored
<1>4. IsFiniteSet({i}) /\ {i} \ {i} = {} /\ IsFiniteSet({}) /\ {i} \in SUBSET {i}
  BY FS_EmptySet, FS_Singleton
<1> HIDE DEF f
<1>5. Total(f, {i}) = f[i] + Total(f, {i} \ {i})
  BY <1>3, <1>4, TotalTake
<1>6. Total(f, {}) = 0
  BY <1>4, TotalStep
<1> QED
  BY <1>2, <1>3, <1>4, <1>5, <1>6

\* One image of several
Share(variants, i) == Bytes + VariantBytes(variants[i])

LEMMA OccupiedTake ==
  ASSUME NEW variants, NEW images, images \subseteq Images, NEW i \in images,
         \A k \in images : variants[k] \in Sizes
  PROVE  /\ Share(variants, i) \in Nat
         /\ Occupied(images \ {i}, variants, Owner[i]) \in Nat
         /\ Occupied(images, variants, Owner[i]) =
              Occupied(images \ {i}, variants, Owner[i]) + Share(variants, i)
<1>1. (images \ {i}) \cup {i} = images
  OBVIOUS
<1>2. /\ Occupied(images \ {i}, variants, Owner[i]) \in Nat
      /\ Occupied((images \ {i}) \cup {i}, variants, Owner[i]) =
           Occupied(images \ {i}, variants, Owner[i]) + Occupied({i}, variants, Owner[i])
  BY OccupiedBoth
<1>3. Occupied({i}, variants, Owner[i]) = Bytes + VariantBytes(variants[i])
  BY OccupiedOne
<1>4. VariantBytes(variants[i]) \in Nat
  BY VariantBytesNat
<1> QED
  BY <1>1, <1>2, <1>3, <1>4, SizeAssumption DEF Share

-----------------------------------------------------------------------------
(* A state that counts right, but for users with an image in admin.        *)

Listed(st) == {i \in Images : st.status[i] \in Live}
Untouched(u, admin) == \A i \in admin : Owner[i] # u

Counted(st, admin) ==
  /\ st.used \in [Users -> Nat]
  /\ \A u \in Users : Untouched(u, admin) => st.used[u] = Occupied(Listed(st), st.variants, u)

AllCounted ==
  /\ \A p \in Procs : Counted(mem[p], again)
  /\ Counted(db, again)
  /\ \A j \in Jobs : Counted(job[j].snap, again)

LEMMA CountedKeeps ==
  ASSUME NEW st, NEW admin, NEW admin2, Counted(st, admin), admin \subseteq admin2
  PROVE  Counted(st, admin2)
  BY DEF Counted, Untouched

LEMMA NoStateCounted == \A admin : Counted(NoState, admin)
<1>1. Listed(NoState) = {} /\ NoState.used = [u \in Users |-> 0]
  BY DEF NoState, Listed, Live
<1>2. \A u \in Users : Occupied(Listed(NoState), NoState.variants, u) = 0
  BY <1>1, OccupiedNone
<1> QED
  BY <1>1, <1>2 DEF Counted

LEMMA CreatedCounted ==
  ASSUME NEW st, Shape(st), NEW admin, Counted(st, admin), NEW images, images \subseteq Images,
         \A i \in images : st.status[i] = "none", NEW variants \in [images -> Sizes]
  PROVE  Counted(Created(st, images, variants), admin)
<1> DEFINE new == Created(st, images, variants)
           all == new.variants
<1>1. /\ new.used = [u \in Users |-> st.used[u] + Occupied(images, variants, u)]
      /\ \A i \in Images : new.status[i] = IF i \in images THEN "active" ELSE st.status[i]
      /\ \A i \in Images : all[i] = IF i \in images THEN variants[i] ELSE st.variants[i]
  BY DEF Created
<1>2. /\ Listed(new) = Listed(st) \cup images /\ Listed(st) \cap images = {}
      /\ Listed(st) \subseteq Images
  BY <1>1 DEF Listed, Live
<1>3. \A i \in Images : all[i] \in Sizes
  BY <1>1 DEF Shape
<1> HIDE DEF new
<1>4. \A u : Occupied(images, variants, u) = Occupied(images, all, u)
  <2>1. ASSUME NEW u PROVE Occupied(images, variants, u) = Occupied(images, all, u)
    <3>1. \A i \in images : variants[i] = all[i]
      BY <1>1
    <3> HIDE DEF all
    <3> QED
      BY <3>1, OccupiedSame
  <2> QED
    BY <2>1
<1>5. \A u : Occupied(Listed(st), st.variants, u) = Occupied(Listed(st), all, u)
  <2>1. ASSUME NEW u PROVE Occupied(Listed(st), st.variants, u) = Occupied(Listed(st), all, u)
    <3>1. \A i \in Listed(st) : st.variants[i] = all[i]
      BY <1>1, <1>2
    <3> HIDE DEF all
    <3> QED
      BY <1>2, <3>1, OccupiedSame
  <2> QED
    BY <2>1
<1> HIDE DEF all
<1>6. ASSUME NEW u \in Users
      PROVE  /\ Occupied(images, all, u) \in Nat
             /\ Occupied(Listed(new), all, u) = Occupied(Listed(st), all, u) + Occupied(images, all, u)
  <2>1. \A i \in Listed(st) \cup images : all[i] \in Sizes
    BY <1>2, <1>3
  <2>2. /\ Occupied(images, all, u) \in Nat
        /\ Occupied(Listed(st) \cup images, all, u) =
             Occupied(Listed(st), all, u) + Occupied(images, all, u)
    BY ONLY images \subseteq Images, <1>2, <2>1, OccupiedBoth
  <2> QED
    BY <1>2, <2>2
<1>7. new.used \in [Users -> Nat]
  BY <1>1, <1>4, <1>6 DEF Counted
<1>8. ASSUME NEW u \in Users, Untouched(u, admin)
      PROVE  new.used[u] = Occupied(Listed(new), all, u)
  BY <1>1, <1>4, <1>5, <1>6, <1>8 DEF Counted
<1>9. Counted(new, admin)
  BY <1>7, <1>8 DEF Counted, all
<1> QED
  BY <1>9 DEF new

\* A user none of whose images changes
LEMMA SameCounted ==
  ASSUME NEW st, NEW new, NEW u,
         \A i \in Images : Owner[i] = u =>
           /\ st.status[i] \in Live <=> new.status[i] \in Live
           /\ st.status[i] \in Live => st.variants[i] = new.variants[i]
  PROVE  Occupied(Listed(st), st.variants, u) = Occupied(Listed(new), new.variants, u)
<1>1. Listed(st) \subseteq Images /\ Listed(new) \subseteq Images
  BY DEF Listed
<1>2. \A i \in Images : Owner[i] = u =>
        /\ i \in Listed(st) <=> i \in Listed(new)
        /\ i \in Listed(st) => st.variants[i] = new.variants[i]
  BY DEF Listed
<1> DEFINE images == Listed(st)
           images2 == Listed(new)
           variants == st.variants
           variants2 == new.variants
<1> HIDE DEF images, images2, variants, variants2
<1>3. Occupied(images, variants, u) = Occupied(images2, variants2, u)
  BY <1>1, <1>2, OccupiedSame DEF images, images2, variants, variants2
<1> QED
  BY <1>3 DEF images, images2, variants, variants2

\* What one listed image adds to the account of its owner
LEMMA ListedTake ==
  ASSUME NEW st, Shape(st), NEW i \in Images, st.status[i] \in Live
  PROVE  /\ Share(st.variants, i) \in Nat
         /\ Occupied(Listed(st) \ {i}, st.variants, Owner[i]) \in Nat
         /\ Occupied(Listed(st), st.variants, Owner[i]) =
              Occupied(Listed(st) \ {i}, st.variants, Owner[i]) + Share(st.variants, i)
<1>1. Listed(st) \subseteq Images /\ i \in Listed(st) /\ \A k \in Listed(st) : st.variants[k] \in Sizes
  BY DEF Listed, Shape
<1> QED
  BY <1>1, OccupiedTake

LEMMA WithdrawnCounted ==
  ASSUME NEW st, Shape(st), NEW i \in Images, NEW admin, Counted(st, admin), NEW admin2,
         admin \subseteq admin2, st.status[i] \in Live \/ (st.status[i] = "deleted" /\ i \in admin2)
  PROVE  Counted(Withdrawn(st, i), admin2)
<1> DEFINE status == [st.status EXCEPT ![i] = "deleted"]
           used == [st.used EXCEPT ![Owner[i]] =
                      IF @ >= StoredBytes(st, i) THEN @ - StoredBytes(st, i) ELSE 0]
           new == [status |-> status, variants |-> st.variants, used |-> used]
<1>1. Withdrawn(st, i) = new
  <2>1. Withdrawn(st, i) = [st EXCEPT !.status = status, !.used = used]
    BY DEF Withdrawn
  <2> HIDE DEF status, used
  <2> QED
    BY <2>1, StateUpdate, Zenon
<1>2. /\ Owner[i] \in Users /\ st.used \in [Users -> Nat] /\ Bytes \in Nat
      /\ VariantBytes(st.variants[i]) \in Nat
  BY OwnerAssumption, SizeAssumption, VariantBytesNat DEF Counted, Shape
<1>3. /\ used \in [Users -> Nat]
      /\ used[Owner[i]] = IF st.used[Owner[i]] >= StoredBytes(st, i)
                          THEN st.used[Owner[i]] - StoredBytes(st, i) ELSE 0
      /\ \A u \in Users : u # Owner[i] => used[u] = st.used[u]
  BY <1>2 DEF StoredBytes
<1>4. \A k \in Images : new.status[k] = IF k = i THEN "deleted" ELSE st.status[k]
  BY DEF Shape
<1>5. new.variants = st.variants /\ new.used = used
  OBVIOUS
<1> HIDE DEF new, used, status
<1>6. ASSUME NEW u \in Users, Untouched(u, admin2)
      PROVE  used[u] = Occupied(Listed(new), new.variants, u)
  <2>1. st.used[u] = Occupied(Listed(st), st.variants, u)
    BY <1>6 DEF Counted, Untouched
  <2>2. CASE u # Owner[i]
    <3>1. \A k \in Images : Owner[k] = u => new.status[k] = st.status[k]
      BY <1>4, <2>2
    <3>2. Occupied(Listed(st), st.variants, u) = Occupied(Listed(new), new.variants, u)
      BY <1>5, <3>1, SameCounted
    <3> QED
      BY <1>3, <2>1, <2>2, <3>2
  <2>3. CASE u = Owner[i]
    <3>1. st.status[i] \in Live
      BY <1>6, <2>3 DEF Untouched
    <3>2. Listed(new) = Listed(st) \ {i}
      BY <1>4, <3>1 DEF Listed, Live
    <3>3. /\ Share(st.variants, i) \in Nat
          /\ Occupied(Listed(st) \ {i}, st.variants, Owner[i]) \in Nat
          /\ Occupied(Listed(st), st.variants, Owner[i]) =
               Occupied(Listed(st) \ {i}, st.variants, Owner[i]) + Share(st.variants, i)
      BY <3>1, ListedTake
    <3>4. StoredBytes(st, i) = Share(st.variants, i)
      BY DEF StoredBytes, Share
    <3> QED
      BY <1>3, <1>5, <2>1, <2>3, <3>2, <3>3, <3>4
  <2> QED
    BY <2>2, <2>3
<1>7. Counted(new, admin2)
  BY <1>3, <1>5, <1>6 DEF Counted
<1> QED
  BY <1>1, <1>7

LEMMA FrozenCounted ==
  ASSUME NEW st, Shape(st), NEW i \in Images, NEW admin, Counted(st, admin), NEW admin2,
         admin \subseteq admin2, st.status[i] \in Live \/ (st.status[i] = "deleted" /\ i \in admin2)
  PROVE  Counted([st EXCEPT !.status[i] = "frozen"], admin2)
<1> DEFINE new == [st EXCEPT !.status[i] = "frozen"]
<1>1. /\ new.variants = st.variants /\ new.used = st.used
      /\ \A k \in Images : new.status[k] = IF k = i THEN "frozen" ELSE st.status[k]
  BY DEF Shape
<1> HIDE DEF new
<1>2. ASSUME NEW u \in Users, Untouched(u, admin2)
      PROVE  new.used[u] = Occupied(Listed(new), new.variants, u)
  <2>1. st.used[u] = Occupied(Listed(st), st.variants, u)
    BY <1>2 DEF Counted, Untouched
  <2>2. \A k \in Images : Owner[k] = u => (st.status[k] \in Live <=> new.status[k] \in Live)
    BY <1>1, <1>2 DEF Live, Untouched
  <2>3. Occupied(Listed(st), st.variants, u) = Occupied(Listed(new), new.variants, u)
    BY <1>1, <2>2, SameCounted
  <2> QED
    BY <1>1, <2>1, <2>3
<1>3. Counted(new, admin2)
  BY <1>1, <1>2 DEF Counted
<1> QED
  BY <1>3 DEF new

\* adminPurgeExpired takes all the listed images of a user and all his bytes.
LEMMA PurgedCounted ==
  ASSUME NEW st, Shape(st), NEW users, NEW admin, Counted(st, admin),
         NEW images, images = {i \in Images : Owner[i] \in users /\ st.status[i] \in Live},
         NEW status, status = [i \in Images |-> IF i \in images THEN "deleted" ELSE st.status[i]],
         NEW used, used = [u \in Users |-> IF u \in users THEN 0 ELSE st.used[u]]
  PROVE  Counted([status |-> status, variants |-> st.variants, used |-> used], admin)
<1> DEFINE new == [status |-> status, variants |-> st.variants, used |-> used]
<1>1. new.status = status /\ new.variants = st.variants /\ new.used = used
  OBVIOUS
<1> HIDE DEF new
<1>2. \A k \in Images : new.status[k] = IF k \in images THEN "deleted" ELSE st.status[k]
  BY <1>1
<1>3. ASSUME NEW u \in Users, Untouched(u, admin)
      PROVE  new.used[u] = Occupied(Listed(new), new.variants, u)
  <2>1. st.used[u] = Occupied(Listed(st), st.variants, u)
    BY <1>3 DEF Counted
  <2>2. CASE u \in users
    <3>1. Listed(new) \subseteq Images /\ \A k \in Listed(new) : Owner[k] # u
      BY <1>2, <2>2 DEF Listed, Live
    <3> QED
      BY <1>1, <2>2, <3>1, OccupiedNone
  <2>3. CASE u \notin users
    <3>1. \A k \in Images : Owner[k] = u => new.status[k] = st.status[k]
      BY <1>2, <2>3
    <3>2. Occupied(Listed(st), st.variants, u) = Occupied(Listed(new), new.variants, u)
      BY <1>1, <3>1, SameCounted
    <3> QED
      BY <1>1, <2>1, <2>3, <3>2
  <2> QED
    BY <2>2, <2>3
<1>4. Counted(new, admin)
  BY <1>1, <1>3 DEF Counted
<1> QED
  BY <1>4 DEF new

\* The worker counts the difference.
LEMMA RevisedCounted ==
  ASSUME NEW st, Shape(st), NEW i \in Images, NEW admin, Counted(st, admin),
         st.status[i] = "active", NEW all \in Sizes
  PROVE  Counted(Revised(st, i, all), admin)
<1> DEFINE statuses == [st.status EXCEPT ![i] = IF Offends(st, i) THEN "frozen" ELSE @]
           variants == [st.variants EXCEPT ![i] = all]
           old == VariantBytes(st.variants[i])
           bytes == VariantBytes(all)
           used == [st.used EXCEPT ![Owner[i]] = Recounted(@, old, bytes)]
           new == [status |-> statuses, variants |-> variants, used |-> used]
<1>1. Revised(st, i, all) = new
  BY RevisedIs
<1>2. /\ Owner[i] \in Users /\ st.used \in [Users -> Nat] /\ Bytes \in Nat
      /\ old \in Nat /\ bytes \in Nat
  BY OwnerAssumption, SizeAssumption, VariantBytesNat DEF Counted, Shape
<1>3. \A k \in Images : /\ new.status[k] \in Live <=> st.status[k] \in Live
                        /\ new.variants[k] = IF k = i THEN all ELSE st.variants[k]
  BY DEF Shape, Live
<1> HIDE DEF old, bytes
<1>4. /\ used \in [Users -> Nat]
      /\ used[Owner[i]] = Recounted(st.used[Owner[i]], old, bytes)
      /\ \A u \in Users : u # Owner[i] => used[u] = st.used[u]
  BY <1>2 DEF Recounted
<1>5. new.used = used
  OBVIOUS
<1> HIDE DEF new, used, statuses, variants
<1>6. ASSUME NEW u \in Users, Untouched(u, admin)
      PROVE  used[u] = Occupied(Listed(new), new.variants, u)
  <2>1. st.used[u] = Occupied(Listed(st), st.variants, u)
    BY <1>6 DEF Counted
  <2>2. CASE u # Owner[i]
    <3>1. \A k \in Images : Owner[k] = u => new.variants[k] = st.variants[k]
      BY <1>3, <2>2
    <3>2. Occupied(Listed(st), st.variants, u) = Occupied(Listed(new), new.variants, u)
      BY <1>3, <3>1, SameCounted
    <3> QED
      BY <1>4, <2>1, <2>2, <3>2
  <2>3. CASE u = Owner[i]
    <3> DEFINE rest == Listed(st) \ {i}
    <3>1. Listed(new) = Listed(st) /\ i \in Listed(st) /\ Listed(st) \subseteq Images
      BY <1>3 DEF Listed, Live
    <3>2. /\ Occupied(rest, st.variants, Owner[i]) \in Nat
          /\ Occupied(Listed(st), st.variants, Owner[i]) =
               Occupied(rest, st.variants, Owner[i]) + Share(st.variants, i)
      BY ListedTake DEF Live
    <3>3. \A k \in Listed(st) : new.variants[k] \in Sizes
      BY <1>3, <3>1 DEF Shape
    <3>4. Occupied(Listed(new), new.variants, Owner[i]) =
            Occupied(rest, new.variants, Owner[i]) + Share(new.variants, i)
      BY <3>1, <3>3, OccupiedTake
    <3>5. Share(st.variants, i) = Bytes + old /\ Share(new.variants, i) = Bytes + bytes
      BY <1>3 DEF Share, old, bytes
    <3>6. Occupied(rest, new.variants, Owner[i]) = Occupied(rest, st.variants, Owner[i])
      <4>1. rest \subseteq Images /\ \A k \in rest : new.variants[k] = st.variants[k]
        BY <1>3, <3>1
      <4> DEFINE one == new.variants
                 other == st.variants
      <4> HIDE DEF rest, one, other
      <4>2. \A k \in Images : Owner[k] = Owner[i] =>
              /\ k \in rest <=> k \in rest
              /\ k \in rest => one[k] = other[k]
        BY <4>1 DEF one, other
      <4>3. Occupied(rest, one, Owner[i]) = Occupied(rest, other, Owner[i])
        BY <4>1, <4>2, OccupiedSame
      <4> QED
        BY <4>3 DEF one, other
    <3> HIDE DEF rest
    <3> QED
      BY <1>2, <1>4, <2>1, <2>3, <3>2, <3>4, <3>5, <3>6 DEF Recounted
  <2> QED
    BY <2>2, <2>3
<1>7. Counted(new, admin)
  BY <1>4, <1>5, <1>6 DEF Counted
<1> QED
  BY <1>1, <1>7

\* A handler that takes from what there is, or brings, states that count right
LEMMA HandlerCounted ==
  ASSUME Shapes, AllCounted, NEW j \in Jobs, NEW rec, NEW st, again \subseteq again',
         job' = [job EXCEPT ![j] = rec], mem' = [mem EXCEPT !["api"] = st],
         Counted(st, again'), Counted(rec.snap, again'), db' = db \/ db' = mem["api"]
  PROVE  AllCounted'
<1>1. /\ job'[j] = rec /\ \A q \in Jobs \ {j} : job'[q] = job[q]
      /\ mem'["api"] = st /\ mem'["worker"] = mem["worker"]
      /\ "api" \in Procs /\ "worker" \in Procs /\ \A p \in Procs : p \in {"api", "worker"}
  BY DEF Shapes, Procs
<1>2. /\ \A p \in Procs : Counted(mem[p], again')
      /\ Counted(db, again') /\ \A q \in Jobs : Counted(job[q].snap, again')
  BY CountedKeeps DEF AllCounted
<1>3. \A p \in Procs : Counted(mem'[p], again')
  BY <1>1, <1>2
<1>4. Counted(db', again')
  BY <1>1, <1>2
<1>5. \A q \in Jobs : Counted(job'[q].snap, again')
  BY <1>1, <1>2
<1> QED
  BY <1>3, <1>4, <1>5 DEF AllCounted

LEMMA SnapAfter ==
  ASSUME NEW rec, JobShape(rec), NEW step, NEW snap, NEW keys
  PROVE  /\ [rec EXCEPT !.step = step].snap = rec.snap
         /\ [rec EXCEPT !.step = step, !.snap = snap].snap = snap
         /\ [rec EXCEPT !.keys = keys].snap = rec.snap
         /\ JobShape(rec) /\ Done.snap = NoState /\ Idle.snap = NoState
         /\ \A new : Ended(new).snap = new.snap \/ Ended(new).snap = NoState
<1>1. [rec EXCEPT !.step = step].snap = rec.snap
  BY JobUpdate
<1>2. [rec EXCEPT !.step = step, !.snap = snap].snap = snap
  BY DEF JobShape
<1>3. [rec EXCEPT !.keys = keys].snap = rec.snap
  BY DEF JobShape
<1> QED
  BY <1>1, <1>2, <1>3 DEF Done, Idle, Ended

LEMMA KeptMemory ==
  ASSUME Shapes, AllCounted
  PROVE  /\ mem = [mem EXCEPT !["api"] = mem["api"]] /\ Counted(mem["api"], again)
         /\ Shape(mem["api"]) /\ \A j \in Jobs : JobShape(job[j]) /\ Counted(job[j].snap, again)
         /\ Counted(NoState, again)
  BY NoStateCounted DEF Shapes, AllCounted, Procs

LEMMA PutCounted ==
  \A j \in Jobs, i \in Images, images \in SUBSET Images :
    Shapes /\ AllCounted /\ (UploadPut(j, i) \/ ImportPut(j, images)) => AllCounted'
<1> SUFFICES ASSUME NEW j \in Jobs, NEW i \in Images, NEW images \in SUBSET Images,
                    Shapes, AllCounted, UploadPut(j, i) \/ ImportPut(j, images)
             PROVE  AllCounted'
  OBVIOUS
<1>1. PICK op, new, keys : Put(j, op, new, keys)
  BY DEF UploadPut, ImportPut
<1> DEFINE rec == [op |-> op, step |-> "put", images |-> new, keys |-> keys, snap |-> mem["api"]]
<1>2. UNCHANGED <<mem, db, again>> /\ job' = [job EXCEPT ![j] = rec] /\ rec.snap = mem["api"]
  BY <1>1 DEF Put, history
<1> HIDE DEF rec
<1> QED
  BY <1>2, KeptMemory, HandlerCounted

LEMMA ImportFailsCounted == \A j \in Jobs : Shapes /\ AllCounted /\ ImportFails(j) => AllCounted'
<1> SUFFICES ASSUME NEW j \in Jobs, Shapes, AllCounted, ImportFails(j) PROVE AllCounted'
  OBVIOUS
<1> DEFINE rec == [job[j] EXCEPT !.step = "removing", !.snap = NoState]
<1>1. UNCHANGED <<mem, db, again>> /\ job' = [job EXCEPT ![j] = rec]
  BY DEF ImportFails
<1>2. rec.snap = NoState
  BY KeptMemory, SnapAfter
<1> HIDE DEF rec
<1> QED
  BY <1>1, <1>2, KeptMemory, HandlerCounted

LEMMA CreateCounted ==
  \A j \in Jobs : Shapes /\ PutUnknown /\ AllCounted /\ Create(j) => AllCounted'
<1> SUFFICES ASSUME NEW j \in Jobs, Shapes, PutUnknown, AllCounted, Create(j) PROVE AllCounted'
  OBVIOUS
<1> DEFINE snap == IF job[j].op = "upload" THEN mem["api"] ELSE job[j].snap
           rec == [job[j] EXCEPT !.step = "mutated", !.snap = snap]
<1>1. /\ UNCHANGED <<db, again>> /\ job' = [job EXCEPT ![j] = rec] /\ job[j].step = "put"
  BY DEF Create, history
<1>2. PICK variants \in [job[j].images -> Sizes] :
        mem' = [mem EXCEPT !["api"] = Created(mem["api"], job[j].images, variants)]
  BY DEF Create, Sizes
<1>3. Counted(snap, again)
  BY KeptMemory
<1>4. rec.snap = snap
  <2> HIDE DEF snap
  <2> QED
    BY KeptMemory, SnapAfter
<1>5. job[j].images \subseteq Images /\ \A i \in job[j].images : mem["api"].status[i] = "none"
  BY <1>1 DEF PutUnknown, Shapes, JobShape
<1>6. Counted(Created(mem["api"], job[j].images, variants), again)
  BY <1>5, KeptMemory, CreatedCounted
<1> HIDE DEF rec, snap
<1> QED
  BY <1>1, <1>2, <1>3, <1>4, <1>6, HandlerCounted

LEMMA MutateCounted ==
  ASSUME Shapes, AllCounted, NEW j \in Jobs, NEW op, NEW images, NEW keys, NEW st,
         Mutate(j, op, images, keys, st), again \subseteq again', Counted(st, again')
  PROVE  AllCounted'
<1> DEFINE rec == [op |-> op, step |-> "mutated", images |-> images, keys |-> keys,
                   snap |-> mem["api"]]
<1>1. /\ UNCHANGED db /\ mem' = [mem EXCEPT !["api"] = st]
      /\ job' = [job EXCEPT ![j] = rec] /\ rec.snap = mem["api"]
  BY DEF Mutate
<1>2. Counted(mem["api"], again')
  BY KeptMemory, CountedKeeps
<1> HIDE DEF rec
<1> QED
  BY <1>1, <1>2, HandlerCounted

LEMMA WithdrawCounted ==
  \A j \in Jobs, i \in Images :
    Shapes /\ AllCounted /\ (DeleteImage(j, i) \/ AdminDeleteImage(j, i) \/ AdminFreezeImage(j, i))
      => AllCounted'
<1> SUFFICES ASSUME NEW j \in Jobs, NEW i \in Images, Shapes, AllCounted,
                    DeleteImage(j, i) \/ AdminDeleteImage(j, i) \/ AdminFreezeImage(j, i)
             PROVE  AllCounted'
  OBVIOUS
<1> DEFINE st == mem["api"]
<1>1. Shape(st) /\ Counted(st, again)
  BY KeptMemory
<1>2. /\ again \subseteq again'
      /\ st.status[i] \in Live \/ (st.status[i] = "deleted" /\ i \in again')
  BY <1>1 DEF DeleteImage, AdminDeleteImage, AdminFreezeImage, Touch, Shape, Statuses, Live
<1>3. CASE DeleteImage(j, i) \/ AdminDeleteImage(j, i)
  <2>1. Mutate(j, "delete", {i}, KeysOf(st, i), Withdrawn(st, i))
    BY <1>3 DEF DeleteImage, AdminDeleteImage
  <2>2. Counted(Withdrawn(st, i), again')
    BY <1>1, <1>2, WithdrawnCounted
  <2> QED
    BY <1>2, <2>1, <2>2, MutateCounted
<1>4. CASE AdminFreezeImage(j, i)
  <2> DEFINE new == [st EXCEPT !.status[i] = "frozen"]
  <2>1. Mutate(j, "freeze", {i}, {}, new)
    BY <1>4 DEF AdminFreezeImage
  <2>2. Counted(new, again')
    BY <1>1, <1>2, FrozenCounted
  <2> HIDE DEF new
  <2> QED
    BY <1>2, <2>1, <2>2, MutateCounted
<1> QED
  BY <1>3, <1>4

LEMMA PurgeCounted ==
  \A j \in Jobs, users \in SUBSET Users :
    Shapes /\ AllCounted /\ AdminPurgeExpired(j, users) => AllCounted'
<1> SUFFICES ASSUME NEW j \in Jobs, NEW users \in SUBSET Users, Shapes, AllCounted,
                    AdminPurgeExpired(j, users)
             PROVE  AllCounted'
  OBVIOUS
<1> DEFINE st == mem["api"]
           images == {i \in Images : Owner[i] \in users /\ st.status[i] \in Live}
           keys == UNION {KeysOf(st, i) : i \in images}
           status == [i \in Images |-> IF i \in images THEN "deleted" ELSE st.status[i]]
           used == [u \in Users |-> IF u \in users THEN 0 ELSE st.used[u]]
           new == [st EXCEPT !.status = status, !.used = used]
<1>1. Shape(st) /\ Counted(st, again)
  BY KeptMemory
<1>2. Mutate(j, "delete", images, keys, new) /\ again' = again
  BY DEF AdminPurgeExpired
<1>3. new = [st EXCEPT !.status = status, !.used = used]
  OBVIOUS
<1>4. images = {i \in Images : Owner[i] \in users /\ st.status[i] \in Live}
  OBVIOUS
<1>5. /\ used = [u \in Users |-> IF u \in users THEN 0 ELSE st.used[u]]
      /\ status = [i \in Images |-> IF i \in images THEN "deleted" ELSE st.status[i]]
  OBVIOUS
<1> HIDE DEF new, status, used, images, keys
<1>6. new = [status |-> status, variants |-> st.variants, used |-> used]
  BY <1>1, <1>3, StateUpdate, Zenon
<1> HIDE DEF st
<1>7. Counted([status |-> status, variants |-> st.variants, used |-> used], again)
  BY <1>1, <1>4, <1>5, PurgedCounted
<1>8. Counted(new, again)
  BY <1>6, <1>7
<1> QED
  BY <1>2, <1>8, MutateCounted

\* A handler that goes on with what it has, or puts its snapshot back
LEMMA GoesOnCounted ==
  \A j \in Jobs :
    Shapes /\ AllCounted /\ (Save(j) \/ Enqueue(j) \/ SaveUndone(j) \/ SaveFails(j) \/ EnqueueFails(j))
      => AllCounted'
<1> SUFFICES ASSUME NEW j \in Jobs, Shapes, AllCounted,
                    Save(j) \/ Enqueue(j) \/ SaveUndone(j) \/ SaveFails(j) \/ EnqueueFails(j)
             PROVE  AllCounted'
  OBVIOUS
<1>1. /\ again' = again
      /\ db' = db \/ db' = mem["api"]
  BY DEF Save, Enqueue, SaveUndone, SaveFails, EnqueueFails, history
<1>2. JobShape(job[j]) /\ Counted(job[j].snap, again) /\ Counted(NoState, again)
  BY KeptMemory
<1>3. CASE Save(j) \/ Enqueue(j) \/ SaveUndone(j)
  <2>1. mem' = mem
    BY <1>3 DEF Save, Enqueue, SaveUndone
  <2>2. PICK rec : /\ job' = [job EXCEPT ![j] = rec]
                   /\ \/ rec = Done
                      \/ rec = [job[j] EXCEPT !.step = "saved"]
                      \/ rec = Ended([job[j] EXCEPT !.step = "removing", !.snap = NoState])
    <3>1. CASE Save(j)
      <4> DEFINE new == CASE job[j].op = "upload" -> [job[j] EXCEPT !.step = "saved"]
                          [] job[j].op = "delete" ->
                               Ended([job[j] EXCEPT !.step = "removing", !.snap = NoState])
                          [] OTHER -> Done
      <4>1. job' = [job EXCEPT ![j] = new]
        BY <3>1 DEF Save
      <4>2. \/ new = Done
            \/ new = [job[j] EXCEPT !.step = "saved"]
            \/ new = Ended([job[j] EXCEPT !.step = "removing", !.snap = NoState])
        OBVIOUS
      <4> HIDE DEF new
      <4> QED
        BY <4>1, <4>2
    <3>2. CASE Enqueue(j) \/ SaveUndone(j)
      BY <3>2 DEF Enqueue, SaveUndone
    <3> QED
      BY <1>3, <3>1, <3>2
  <2>3. Counted(rec.snap, again)
    <3> DEFINE one == [job[j] EXCEPT !.step = "saved"]
               two == [job[j] EXCEPT !.step = "removing", !.snap = NoState]
    <3>2. one.snap = job[j].snap /\ two.snap = NoState /\ Done.snap = NoState
      BY <1>2, SnapAfter
    <3>3. rec = Done \/ rec = one \/ rec = Ended(two)
      BY <2>2
    <3> HIDE DEF one, two
    <3>4. Ended(two).snap = NoState
      BY <1>2, <3>2, SnapAfter
    <3>1. rec.snap = job[j].snap \/ rec.snap = NoState
      BY <3>2, <3>3, <3>4
    <3> QED
      BY <1>2, <3>1
  <2>4. /\ again \subseteq again' /\ Counted(rec.snap, again') /\ Counted(mem["api"], again')
        /\ mem' = [mem EXCEPT !["api"] = mem["api"]] /\ job' = [job EXCEPT ![j] = rec]
    BY <1>1, <2>1, <2>2, <2>3, KeptMemory
  <2> QED
    BY <1>1, <2>4, HandlerCounted
<1>4. CASE SaveFails(j) \/ EnqueueFails(j)
  <2>1. PICK step : RollBack(j, step)
    BY <1>4 DEF SaveFails, EnqueueFails
  <2> DEFINE moved == [job[j] EXCEPT !.step = step, !.snap = NoState]
             rec == Ended(moved)
  <2>2. mem' = [mem EXCEPT !["api"] = job[j].snap] /\ job' = [job EXCEPT ![j] = rec]
    BY <2>1 DEF RollBack
  <2>3. moved.snap = NoState
    BY <1>2, SnapAfter
  <2> HIDE DEF moved
  <2>4. rec.snap = NoState
    BY <1>2, <2>3, SnapAfter
  <2> HIDE DEF rec
  <2>5. /\ again \subseteq again' /\ Counted(rec.snap, again')
        /\ Counted(job[j].snap, again')
    BY <1>1, <1>2, <2>4
  <2> QED
    BY <1>1, <2>2, <2>5, HandlerCounted
<1> QED
  BY <1>3, <1>4

LEMMA RemoveObjectCounted ==
  \A j \in Jobs, key \in Keys : Shapes /\ AllCounted /\ RemoveObject(j, key) => AllCounted'
<1> SUFFICES ASSUME NEW j \in Jobs, NEW key \in Keys, Shapes, AllCounted, RemoveObject(j, key)
             PROVE  AllCounted'
  OBVIOUS
<1> DEFINE left == [job[j] EXCEPT !.keys = job[j].keys \ {key}]
           rec == Ended(left)
<1>1. UNCHANGED <<mem, db, again>> /\ job' = [job EXCEPT ![j] = rec]
  BY DEF RemoveObject
<1>2. left.snap = job[j].snap
  BY KeptMemory, SnapAfter
<1> HIDE DEF left
<1>3. rec.snap = job[j].snap \/ rec.snap = NoState
  BY <1>2, KeptMemory, SnapAfter
<1>4. Counted(rec.snap, again)
  BY <1>3, KeptMemory
<1> HIDE DEF rec
<1> QED
  BY <1>1, <1>4, KeptMemory, HandlerCounted

LEMMA BootCounted == \A p \in Procs : Shapes /\ AllCounted /\ (Boot(p) \/ Crash(p)) => AllCounted'
<1> SUFFICES ASSUME NEW p \in Procs, Shapes, AllCounted, Boot(p) \/ Crash(p) PROVE AllCounted'
  OBVIOUS
<1>1. /\ UNCHANGED <<db, again>>
      /\ mem' = [mem EXCEPT ![p] = db] \/ mem' = [mem EXCEPT ![p] = NoState]
  BY DEF Boot, Crash, history
<1>2. \A q \in Procs : mem'[q] = mem[q] \/ mem'[q] = db \/ mem'[q] = NoState
  BY <1>1 DEF Shapes
<1>3. job' = job \/ job' = [j \in Jobs |-> IF job[j].step = "idle" THEN Idle ELSE Done]
  BY DEF Boot, Crash
<1>4. Done.snap = NoState /\ Idle.snap = NoState
  BY DEF Done, Idle
<1>5. \A j \in Jobs : job'[j].snap = job[j].snap \/ job'[j].snap = NoState
  BY <1>3, <1>4
<1> QED
  BY <1>1, <1>2, <1>5, NoStateCounted DEF AllCounted

LEMMA ProcessCounted == IInv /\ AllCounted /\ Process => AllCounted'
<1> SUFFICES ASSUME IInv, AllCounted, Process PROVE AllCounted'
  OBVIOUS
<1>1. /\ UNCHANGED <<job, again>>
      /\ db' = db \/ db' = mem["worker"]
      /\ "worker" \in Procs
  BY DEF Process, ProcessRead, ProcessPut, ProcessPutFails, ProcessCommit, ProcessSave,
         ProcessSaveFails, ProcessAck, history, Procs
<1>2. \A p \in Procs : Counted(mem'[p], again)
  <2>1. CASE mem' = mem
    BY <2>1 DEF AllCounted
  <2>2. CASE mem' # mem
    <3> DEFINE i == work.image
               st == mem["worker"]
               all == Merged(st.variants[i], work.variants)
               new == Revised(st, i, all)
    <3>1. ProcessCommit
      BY <2>2 DEF Process, ProcessRead, ProcessPut, ProcessPutFails, ProcessSave,
                  ProcessSaveFails, ProcessAck
    <3>2. i \in Images /\ st.status[i] = "active" /\ Shape(st) /\ work.variants \in Sizes
      BY <3>1 DEF ProcessCommit, IInv, WorkBacked, Shapes, Procs
    <3>3. mem' = [mem EXCEPT !["worker"] = new]
      BY <2>2, <3>1 DEF ProcessCommit
    <3>4. all \in Sizes
      BY <3>2 DEF Merged, Sizes, Shape
    <3>5. Counted(st, again)
      BY <1>1 DEF AllCounted
    <3> HIDE DEF st, i, all
    <3>6. Counted(new, again)
      BY <3>2, <3>4, <3>5, RevisedCounted
    <3> HIDE DEF new
    <3>7. \A p \in Procs : mem'[p] = new \/ mem'[p] = mem[p]
      BY <3>3 DEF IInv, Shapes
    <3> QED
      BY <3>6, <3>7 DEF AllCounted
  <2> QED
    BY <2>1, <2>2
<1>3. Counted(db', again)
  <2>1. Counted(db, again) /\ Counted(mem["worker"], again)
    BY <1>1 DEF AllCounted
  <2> QED
    BY <1>1, <2>1
<1>4. \A j \in Jobs : Counted(job'[j].snap, again)
  BY <1>1 DEF AllCounted
<1>5. again' = again
  BY <1>1
<1> QED
  BY <1>2, <1>3, <1>4, <1>5 DEF AllCounted

LEMMA HandleCounted == \A j \in Jobs : Shapes /\ PutUnknown /\ AllCounted /\ Handle(j) => AllCounted'
<1> SUFFICES ASSUME NEW j \in Jobs, Shapes, PutUnknown, AllCounted, Handle(j) PROVE AllCounted'
  OBVIOUS
<1>1. CASE \E i \in Images : UploadPut(j, i) \/ DeleteImage(j, i) \/ AdminDeleteImage(j, i)
                             \/ AdminFreezeImage(j, i)
  BY <1>1, PutCounted, WithdrawCounted
<1>2. CASE \E images \in SUBSET Images : ImportPut(j, images)
  <2>1. PICK images \in SUBSET Images : ImportPut(j, images)
    BY <1>2
  <2>2. PICK i \in Images : i \in images
    BY <2>1 DEF ImportPut
  <2> QED
    BY <2>1, <2>2, PutCounted
<1>3. CASE \E users \in SUBSET Users : AdminPurgeExpired(j, users)
  BY <1>3, PurgeCounted
<1>4. CASE ImportFails(j) \/ Create(j)
  BY <1>4, ImportFailsCounted, CreateCounted
<1>5. CASE Save(j) \/ SaveFails(j) \/ Enqueue(j) \/ EnqueueFails(j) \/ SaveUndone(j)
  BY <1>5, GoesOnCounted
<1>6. CASE \E key \in Keys : RemoveObject(j, key)
  BY <1>6, RemoveObjectCounted
<1> QED
  BY <1>1, <1>2, <1>3, <1>4, <1>5, <1>6 DEF Handle

LEMMA InitCounted == Init => AllCounted
<1>1. Idle.snap = NoState
  BY DEF Idle
<1> QED
  BY <1>1, NoStateCounted DEF Init, AllCounted

\* Every state there is, in the memories, in the database and in the snapshots
\* of handlers, counts for every user what his images occupy, unless an
\* administrator touched one of them after its deletion.
THEOREM EveryStateIsCounted == Spec => []AllCounted
<1>1. Init => AllCounted
  BY InitCounted
<1>2. IInv /\ OInv /\ AllCounted /\ [Next]_vars => AllCounted'
  <2> SUFFICES ASSUME IInv, OInv, AllCounted, [Next]_vars PROVE AllCounted'
    OBVIOUS
  <2>1. Shapes /\ PutUnknown
    BY DEF IInv, OInv
  <2>2. CASE \E p \in Procs : Boot(p) \/ Crash(p)
    BY <2>1, <2>2, BootCounted
  <2>3. CASE \E j \in Jobs : Handle(j)
    BY <2>1, <2>3, HandleCounted
  <2>4. CASE Process
    BY <2>4, ProcessCounted
  <2>5. CASE UNCHANGED vars
    BY <2>5 DEF vars, history, AllCounted
  <2> QED
    BY <2>2, <2>3, <2>4, <2>5 DEF Next, Quiescent
<1> QED
  BY <1>1, <1>2, ObjectsAreThere, OriginalsAccounted, PTL DEF Spec

\* Every process counts for every user exactly what his images occupy, after
\* any uploads, imports, deletions, purges, new variants, rollbacks, crashes
\* and saves of the other process, unless an administrator deleted or froze
\* one of his images after it was deleted.
THEOREM StorageCounts == Spec => []StorageIsCounted
<1>1. AllCounted => StorageIsCounted
  BY DEF AllCounted, Counted, Listed, Untouched, StorageIsCounted
<1> QED
  BY <1>1, EveryStateIsCounted, PTL

-----------------------------------------------------------------------------
(* Types: what the invariants above do not say.                            *)

JobForm(rec) ==
  /\ rec.op \in {"none", "upload", "import", "delete", "freeze"}
  /\ rec.step \in {"idle", "put", "mutated", "saved", "removing", "undoing", "done"}
  /\ rec.keys \subseteq Keys

Forms ==
  /\ objects \subseteq Keys
  /\ \A j \in Jobs : JobForm(job[j])
  /\ tasks \subseteq minted /\ minted \subseteq Images
  /\ faults \in 0..MaxFaults
  /\ gone \subseteq Images /\ again \subseteq Images /\ strayed \subseteq Images

LEMMA StepForm ==
  ASSUME NEW rec, JobShape(rec), JobForm(rec),
         NEW step \in {"idle", "put", "mutated", "saved", "removing", "undoing", "done"},
         NEW snap, NEW keys, keys \subseteq Keys
  PROVE  /\ JobForm(Done) /\ JobForm(Idle)
         /\ JobForm([rec EXCEPT !.step = step])
         /\ JobForm([rec EXCEPT !.step = step, !.snap = snap])
         /\ JobForm([rec EXCEPT !.keys = keys])
         /\ \A new : JobForm(new) => JobForm(Ended(new))
<1>1. JobForm(Done) /\ JobForm(Idle)
  BY DEF JobForm, Done, Idle
<1>2. JobForm([rec EXCEPT !.step = step])
  <2> DEFINE new == [rec EXCEPT !.step = step]
  <2>1. new = [op |-> rec.op, step |-> step, images |-> rec.images,
               keys |-> rec.keys, snap |-> rec.snap]
    BY JobUpdate, Zenon
  <2> HIDE DEF new
  <2>2. JobForm(new)
    BY <2>1 DEF JobForm
  <2> QED
    BY <2>2 DEF new
<1>3. JobForm([rec EXCEPT !.step = step, !.snap = snap])
  <2> DEFINE new == [rec EXCEPT !.step = step, !.snap = snap]
  <2>1. new = [op |-> rec.op, step |-> step, images |-> rec.images,
               keys |-> rec.keys, snap |-> snap]
    BY JobUpdate, Zenon
  <2> HIDE DEF new
  <2>2. JobForm(new)
    BY <2>1 DEF JobForm
  <2> QED
    BY <2>2 DEF new
<1>4. JobForm([rec EXCEPT !.keys = keys])
  BY KeysUpdate DEF JobForm
<1> QED
  BY <1>1, <1>2, <1>3, <1>4 DEF Ended

LEMMA KeysOfAre ==
  /\ \A i \in Images : Original(i) \in Keys
  /\ \A i \in Images, k \in Kinds : <<i, k>> \in Keys
  /\ \A i \in Images : \A variants : VariantKeys(i, variants) \subseteq Keys
  /\ \A i \in Images : \A st : KeysOf(st, i) \subseteq Keys
  /\ \A key \in Keys : key[1] \in Images
  BY DEF Original, Keys, VariantKeys, KeysOf

\* A step of one handler
LEMMA HandlerForms ==
  ASSUME Shapes, Forms, NEW j \in Jobs, NEW rec, JobForm(rec), job' = [job EXCEPT ![j] = rec],
         objects' \subseteq Keys, tasks' \subseteq minted', minted' \subseteq Images,
         faults' \in 0..MaxFaults,
         gone' \subseteq Images, again' \subseteq Images, strayed' \subseteq Images
  PROVE  Forms'
<1>1. \A q \in Jobs : job'[q] = rec \/ job'[q] = job[q]
  BY DEF Shapes
<1>2. \A q \in Jobs : JobForm(job'[q])
  BY <1>1 DEF Forms
<1> QED
  BY <1>2 DEF Forms

LEMMA FaultForm == Forms /\ Fault => faults' \in 0..MaxFaults
  BY ConfigAssumption DEF Forms, Fault

LEMMA PutForms ==
  ASSUME Shapes, Forms, NEW j \in Jobs, NEW op \in {"upload", "import"}, NEW images \in SUBSET Images,
         NEW keys, keys \subseteq Keys, Put(j, op, images, keys)
  PROVE  Forms'
<1> DEFINE rec == [op |-> op, step |-> "put", images |-> images, keys |-> keys, snap |-> mem["api"]]
<1>1. /\ job' = [job EXCEPT ![j] = rec] /\ objects' = objects \cup keys
      /\ minted' = minted \cup images /\ UNCHANGED <<tasks, faults, gone, again, strayed>>
  BY DEF Put, history
<1>2. JobForm(rec)
  BY DEF JobForm
<1> HIDE DEF rec
<1> QED
  BY <1>1, <1>2, HandlerForms DEF Forms

LEMMA MutateForms ==
  ASSUME Shapes, Forms, NEW j \in Jobs, NEW op \in {"delete", "freeze"}, NEW images, NEW keys, NEW st,
         keys \subseteq Keys, Mutate(j, op, images, keys, st), again' \subseteq Images
  PROVE  Forms'
<1> DEFINE rec == [op |-> op, step |-> "mutated", images |-> images, keys |-> keys,
                   snap |-> mem["api"]]
<1>1. /\ job' = [job EXCEPT ![j] = rec]
      /\ UNCHANGED <<objects, minted, tasks, faults, gone, strayed>>
  BY DEF Mutate
<1>2. JobForm(rec)
  BY DEF JobForm
<1> HIDE DEF rec
<1> QED
  BY <1>1, <1>2, HandlerForms DEF Forms

LEMMA StartsForms ==
  \A j \in Jobs : Shapes /\ Forms
    /\ \/ \E i \in Images : UploadPut(j, i) \/ DeleteImage(j, i) \/ AdminDeleteImage(j, i)
                             \/ AdminFreezeImage(j, i)
       \/ \E images \in SUBSET Images : ImportPut(j, images)
       \/ \E users \in SUBSET Users : AdminPurgeExpired(j, users)
    => Forms'
<1> SUFFICES ASSUME NEW j \in Jobs, Shapes, Forms,
                    \/ \E i \in Images : UploadPut(j, i) \/ DeleteImage(j, i)
                                         \/ AdminDeleteImage(j, i) \/ AdminFreezeImage(j, i)
                    \/ \E images \in SUBSET Images : ImportPut(j, images)
                    \/ \E users \in SUBSET Users : AdminPurgeExpired(j, users)
             PROVE  Forms'
  OBVIOUS
<1>1. ASSUME NEW i \in Images, UploadPut(j, i) PROVE Forms'
  <2>1. PICK kinds \in SUBSET Kinds :
          Put(j, "upload", {i}, {Original(i)} \cup {<<i, k>> : k \in kinds})
    BY <1>1 DEF UploadPut
  <2>2. {Original(i)} \cup {<<i, k>> : k \in kinds} \subseteq Keys
    BY KeysOfAre
  <2> QED
    BY <2>1, <2>2, PutForms
<1>2. ASSUME NEW i \in Images, DeleteImage(j, i) \/ AdminDeleteImage(j, i) PROVE Forms'
  <2>1. /\ Mutate(j, "delete", {i}, KeysOf(mem["api"], i), Withdrawn(mem["api"], i))
        /\ again' \subseteq Images
    BY <1>2 DEF DeleteImage, AdminDeleteImage, Touch, Forms
  <2>2. KeysOf(mem["api"], i) \subseteq Keys
    BY KeysOfAre
  <2> QED
    BY <2>1, <2>2, MutateForms
<1>3. ASSUME NEW i \in Images, AdminFreezeImage(j, i) PROVE Forms'
  <2>1. /\ Mutate(j, "freeze", {i}, {}, [mem["api"] EXCEPT !.status[i] = "frozen"])
        /\ again' \subseteq Images
    BY <1>3 DEF AdminFreezeImage, Touch, Forms
  <2> QED
    BY <2>1, MutateForms
<1>4. ASSUME NEW images \in SUBSET Images, ImportPut(j, images) PROVE Forms'
  <2>1. {Original(i) : i \in images} \subseteq Keys
    BY KeysOfAre
  <2>2. Put(j, "import", images, {Original(i) : i \in images})
    BY <1>4 DEF ImportPut
  <2> QED
    BY <2>1, <2>2, PutForms
<1>5. ASSUME NEW users \in SUBSET Users, AdminPurgeExpired(j, users) PROVE Forms'
  <2> DEFINE images == {i \in Images : Owner[i] \in users /\ mem["api"].status[i] \in Live}
  <2>1. UNION {KeysOf(mem["api"], i) : i \in images} \subseteq Keys
    BY KeysOfAre
  <2>2. PICK st : Mutate(j, "delete", images, UNION {KeysOf(mem["api"], i) : i \in images}, st)
    BY <1>5 DEF AdminPurgeExpired
  <2>3. again' \subseteq Images
    BY <1>5 DEF AdminPurgeExpired, Forms
  <2> QED
    BY <2>1, <2>2, <2>3, MutateForms
<1> QED
  BY <1>1, <1>2, <1>3, <1>4, <1>5

LEMMA GoesOnForms ==
  \A j \in Jobs : Shapes /\ Forms /\ MintedFirst
    /\ (ImportFails(j) \/ Create(j) \/ Save(j) \/ Enqueue(j) \/ SaveUndone(j)) => Forms'
<1> SUFFICES ASSUME NEW j \in Jobs, Shapes, Forms, MintedFirst,
                    ImportFails(j) \/ Create(j) \/ Save(j) \/ Enqueue(j) \/ SaveUndone(j)
             PROVE  Forms'
  OBVIOUS
<1>1. JobShape(job[j]) /\ JobForm(job[j]) /\ job[j].images \subseteq Images
  BY DEF Shapes, Forms, JobShape
<1>2. /\ JobForm(Done)
      /\ \A step \in {"mutated", "saved", "removing"} : \A snap :
           /\ JobForm([job[j] EXCEPT !.step = step])
           /\ JobForm([job[j] EXCEPT !.step = step, !.snap = snap])
      /\ \A new : JobForm(new) => JobForm(Ended(new))
  <2>1. {} \subseteq Keys
    OBVIOUS
  <2> QED
    BY <1>1, <2>1, StepForm
<1>3. CASE ImportFails(j)
  <2>1. /\ job' = [job EXCEPT ![j] = [job[j] EXCEPT !.step = "removing", !.snap = NoState]]
        /\ gone' = gone \cup job[j].images
        /\ UNCHANGED <<objects, tasks, minted, again, strayed>>
    BY <1>3 DEF ImportFails
  <2>2. faults' \in 0..MaxFaults
    BY <1>3, FaultForm DEF ImportFails
  <2>3. JobForm([job[j] EXCEPT !.step = "removing", !.snap = NoState])
    BY <1>2
  <2> QED
    BY <1>1, <2>1, <2>2, <2>3, HandlerForms DEF Forms
<1>4. CASE Create(j)
  <2> DEFINE snap == IF job[j].op = "upload" THEN mem["api"] ELSE job[j].snap
  <2>1. /\ job' = [job EXCEPT ![j] = [job[j] EXCEPT !.step = "mutated", !.snap = snap]]
        /\ UNCHANGED <<objects, tasks, minted, faults, gone, again, strayed>>
    BY <1>4 DEF Create, history
  <2> HIDE DEF snap
  <2>2. JobForm([job[j] EXCEPT !.step = "mutated", !.snap = snap])
    BY <1>2
  <2> QED
    BY <2>1, <2>2, HandlerForms DEF Forms
<1>5. CASE Save(j)
  <2> DEFINE one == [job[j] EXCEPT !.step = "saved"]
             two == [job[j] EXCEPT !.step = "removing", !.snap = NoState]
             new == CASE job[j].op = "upload" -> one
                      [] job[j].op = "delete" -> Ended(two)
                      [] OTHER -> Done
  <2>1. job' = [job EXCEPT ![j] = new]
    BY <1>5 DEF Save
  <2>2. /\ gone' \subseteq Images
        /\ UNCHANGED <<objects, tasks, minted, faults, again, strayed>>
    BY <1>1, <1>5 DEF Save, Forms
  <2>3. JobForm(one) /\ JobForm(two)
    BY <1>2
  <2> HIDE DEF one, two
  <2>4. JobForm(new)
    BY <1>2, <2>3
  <2> HIDE DEF new
  <2> QED
    BY <2>1, <2>2, <2>4, HandlerForms DEF Forms
<1>6. CASE Enqueue(j)
  <2>1. /\ job' = [job EXCEPT ![j] = Done] /\ tasks' \subseteq minted
        /\ UNCHANGED <<objects, minted, faults, gone, again, strayed>>
    BY <1>6 DEF Enqueue, history, Forms, MintedFirst
  <2> QED
    BY <1>2, <2>1, HandlerForms DEF Forms
<1>7. CASE SaveUndone(j)
  <2>1. /\ job' = [job EXCEPT ![j] = Done]
        /\ UNCHANGED <<objects, tasks, minted, gone, again, strayed>>
    BY <1>7 DEF SaveUndone, history
  <2>2. faults' \in 0..MaxFaults
    BY <1>7, FaultForm DEF SaveUndone, Forms
  <2> QED
    BY <1>2, <2>1, <2>2, HandlerForms DEF Forms
<1> QED
  BY <1>3, <1>4, <1>5, <1>6, <1>7

LEMMA FailsForms ==
  \A j \in Jobs : Shapes /\ Forms /\ MintedFirst /\ (SaveFails(j) \/ EnqueueFails(j)) => Forms'
<1> SUFFICES ASSUME NEW j \in Jobs, Shapes, Forms, MintedFirst, SaveFails(j) \/ EnqueueFails(j)
             PROVE  Forms'
  OBVIOUS
<1>1. JobShape(job[j]) /\ JobForm(job[j]) /\ job[j].images \subseteq Images
  BY DEF Shapes, Forms, JobShape
<1>2. PICK step \in {"removing", "done", "undoing"} : RollBack(j, step)
  BY DEF SaveFails, EnqueueFails, AfterFailedSave
<1> DEFINE moved == [job[j] EXCEPT !.step = step, !.snap = NoState]
           rec == Ended(moved)
<1>3. job' = [job EXCEPT ![j] = rec] /\ strayed' = strayed \cup Hit(j)
  BY <1>2 DEF RollBack
<1>4. JobForm(rec)
  <2>1. {} \subseteq Keys
    OBVIOUS
  <2>2. JobForm(moved)
    BY <1>1, <2>1, StepForm
  <2> HIDE DEF moved
  <2> QED
    BY <1>1, <2>1, <2>2, StepForm
<1>5. Hit(j) \subseteq Images
  BY <1>1 DEF Hit
<1>6. faults' \in 0..MaxFaults
  BY FaultForm DEF SaveFails, EnqueueFails
<1>7. /\ UNCHANGED <<objects, minted, again>> /\ tasks' \subseteq minted
      /\ gone' \subseteq Images
  BY <1>1 DEF SaveFails, EnqueueFails, Forms, MintedFirst
<1> HIDE DEF rec
<1> QED
  BY <1>3, <1>4, <1>5, <1>6, <1>7, HandlerForms DEF Forms

LEMMA RemoveObjectForms ==
  \A j \in Jobs, key \in Keys : Shapes /\ Forms /\ RemoveObject(j, key) => Forms'
<1> SUFFICES ASSUME NEW j \in Jobs, NEW key \in Keys, Shapes, Forms, RemoveObject(j, key)
             PROVE  Forms'
  OBVIOUS
<1> DEFINE keys == job[j].keys \ {key}
           left == [job[j] EXCEPT !.keys = keys]
           rec == Ended(left)
<1>1. JobShape(job[j]) /\ JobForm(job[j]) /\ keys \subseteq Keys
  BY DEF Shapes, Forms, JobForm
<1>2. job' = [job EXCEPT ![j] = rec]
  BY DEF RemoveObject
<1> HIDE DEF keys
<1>3. JobForm(left)
  BY <1>1, StepForm
<1> HIDE DEF left
<1>4. JobForm(rec)
  BY <1>1, <1>3, StepForm
<1>5. /\ objects' \subseteq Keys /\ UNCHANGED <<minted, again, gone, tasks>>
      /\ strayed' \subseteq Images
  BY KeysOfAre DEF RemoveObject, Forms
<1>6. faults' \in 0..MaxFaults
  BY FaultForm DEF RemoveObject, Forms
<1> HIDE DEF rec
<1> QED
  BY <1>2, <1>4, <1>5, <1>6, HandlerForms DEF Forms

LEMMA BootForms == \A p \in Procs : Shapes /\ Forms /\ (Boot(p) \/ Crash(p)) => Forms'
<1> SUFFICES ASSUME NEW p \in Procs, Shapes, Forms, Boot(p) \/ Crash(p) PROVE Forms'
  OBVIOUS
<1>1. /\ UNCHANGED <<objects, tasks, minted, gone, again>>
      /\ strayed' = strayed \/ strayed' = strayed \cup minted
  BY DEF Boot, Crash, history
<1>2. faults' \in 0..MaxFaults
  BY FaultForm DEF Boot, Crash, Forms
<1>3. JobForm(Idle) /\ JobForm(Done)
  BY DEF JobForm, Idle, Done
<1>4. \A j \in Jobs : JobForm(job'[j])
  BY <1>3 DEF Boot, Crash, Forms
<1> QED
  BY <1>1, <1>2, <1>4 DEF Forms

LEMMA ProcessForms == IInv /\ Forms /\ Process => Forms'
<1> SUFFICES ASSUME IInv, Forms, Process PROVE Forms'
  OBVIOUS
<1>1. UNCHANGED <<job, minted, gone, again, strayed>> /\ tasks' \subseteq tasks
  BY DEF Process, ProcessRead, ProcessPut, ProcessPutFails, ProcessCommit, ProcessSave,
         ProcessSaveFails, ProcessAck, history
<1>2. faults' \in 0..MaxFaults
  BY FaultForm DEF Process, ProcessRead, ProcessPut, ProcessPutFails, ProcessCommit, ProcessSave,
                   ProcessSaveFails, ProcessAck, Forms
<1>3. objects' \subseteq Keys
  <2>1. CASE objects' = objects
    BY <2>1 DEF Forms
  <2>2. CASE objects' # objects
    <3>1. /\ work.step = "putting"
          /\ \E keys \in SUBSET VariantKeys(work.image, work.variants) : objects' = objects \cup keys
      BY <2>2 DEF Process, ProcessRead, ProcessPut, ProcessPutFails, ProcessCommit, ProcessSave,
                  ProcessSaveFails, ProcessAck
    <3>2. work.image \in Images
      BY <3>1 DEF IInv, WorkBacked
    <3>3. VariantKeys(work.image, work.variants) \subseteq Keys
      BY <3>2, KeysOfAre
    <3> QED
      BY <3>1, <3>3 DEF Forms
  <2> QED
    BY <2>1, <2>2
<1> QED
  BY <1>1, <1>2, <1>3 DEF Forms

LEMMA InitForms == Init => Forms
<1>1. JobForm(Idle)
  BY DEF JobForm, Idle
<1> QED
  BY <1>1, ConfigAssumption DEF Init, Forms

LEMMA StateType ==
  ASSUME NEW st, Shape(st), NEW admin, Counted(st, admin)
  PROVE  st \in States
  BY DEF Shape, Statuses, Sizes, Counted, States

LEMMA JobType ==
  ASSUME NEW rec, JobShape(rec), JobForm(rec), NEW admin, Counted(rec.snap, admin)
  PROVE  rec \in [op : {"none", "upload", "import", "delete", "freeze"},
                  step : {"idle", "put", "mutated", "saved", "removing", "undoing", "done"},
                  images : SUBSET Images, keys : SUBSET Keys, snap : States]
<1>1. rec.snap \in States
  BY StateType DEF JobShape
<1> QED
  BY <1>1 DEF JobShape, JobForm

\* Every variable has its type.
THEOREM Types == Spec => []TypeOK
<1>1. Init => Forms
  BY InitForms
<1>2. IInv /\ OInv /\ Forms /\ [Next]_vars => Forms'
  <2> SUFFICES ASSUME IInv, OInv, Forms, [Next]_vars PROVE Forms'
    OBVIOUS
  <2>1. Shapes /\ MintedFirst
    BY DEF IInv, OInv
  <2>2. CASE \E p \in Procs : Boot(p) \/ Crash(p)
    BY <2>1, <2>2, BootForms
  <2>3. CASE \E j \in Jobs : Handle(j)
    BY <2>1, <2>3, StartsForms, GoesOnForms, FailsForms, RemoveObjectForms DEF Handle
  <2>4. CASE Process
    BY <2>4, ProcessForms
  <2>5. CASE UNCHANGED vars
    BY <2>5 DEF vars, history, Forms
  <2> QED
    BY <2>2, <2>3, <2>4, <2>5 DEF Next, Quiescent
<1>3. IInv /\ AllCounted /\ Forms => TypeOK
  <2> SUFFICES ASSUME IInv, AllCounted, Forms PROVE TypeOK
    OBVIOUS
  <2>1. mem \in [Procs -> States] /\ db \in States
    BY StateType DEF IInv, Shapes, AllCounted
  <2>2. job \in [Jobs -> [op : {"none", "upload", "import", "delete", "freeze"},
                step : {"idle", "put", "mutated", "saved", "removing", "undoing", "done"},
                images : SUBSET Images, keys : SUBSET Keys, snap : States]]
    BY JobType DEF IInv, Shapes, AllCounted, Forms
  <2> QED
    BY <2>1, <2>2 DEF IInv, Shapes, Forms, TypeOK, Sizes
<1> QED
  BY <1>1, <1>2, <1>3, ObjectsAreThere, OriginalsAccounted, EveryStateIsCounted, PTL DEF Spec
=============================================================================
