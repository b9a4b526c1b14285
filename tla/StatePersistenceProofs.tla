----------------------- MODULE StatePersistenceProofs -----------------------
(***************************************************************************)
(* Theorems about StatePersistence, for any number of requests, any        *)
(* bounds and any faults.                                                  *)
(***************************************************************************)
EXTENDS StatePersistence, FiniteSetTheorems, TLAPS

\* Type correctness: every variable of the write path keeps its type.
THEOREM TypeCorrect == Spec => []TypeOK
<1>1. Init => TypeOK
  BY RequestsAssumption, BoundAssumption DEF Init, TypeOK
<1>2. TypeOK /\ [Next]_vars => TypeOK'
  <2> SUFFICES ASSUME TypeOK, [Next]_vars PROVE TypeOK'
    OBVIOUS
  <2> USE RequestsAssumption, HostAssumption, BoundAssumption DEF TypeOK
  <2>1. ASSUME NEW p \in Procs, BootLoad(p) PROVE TypeOK'
    BY <2>1 DEF BootLoad
  <2>2. ASSUME NEW p \in Procs, BootSave(p) PROVE TypeOK'
    BY <2>2 DEF BootSave
  <2>3. ASSUME NEW p \in Procs, Crash(p) PROVE TypeOK'
    <3>1. db' \in SUBSET Requests
      BY <2>3 DEF Crash
    <3>2. pc' \in [Requests -> {"idle"} \cup Flying \cup Settled]
      BY <2>3 DEF Crash, Settled
    <3>3. snap' \in [Requests -> SUBSET Requests] /\ crashes' \in 0..MaxCrashes
      BY <2>3 DEF Crash
    <3> QED
      BY <2>3, <3>1, <3>2, <3>3 DEF Crash, ReleasePersistMu
  <2>4. ASSUME NEW r \in Requests, Mutate(r) PROVE TypeOK'
    BY <2>4 DEF Mutate, Meet, Flying, InFlight
  <2>5. ASSUME NEW r \in Requests, BeginSave(r) PROVE TypeOK'
    BY <2>5 DEF BeginSave, Flying
  <2>6. ASSUME NEW r \in Requests, SaveCommits(r) PROVE TypeOK'
    BY <2>6 DEF SaveCommits, ReleasePersistMu, Flying
  <2>7. ASSUME NEW r \in Requests, SaveFails(r) PROVE TypeOK'
    BY <2>7 DEF SaveFails, ReleasePersistMu, Flying
  <2>8. ASSUME NEW r \in Requests, RollBack(r) PROVE TypeOK'
    BY <2>8 DEF RollBack, Restore, Flying
  <2>9. ASSUME NEW r \in Requests, Accept(r) PROVE TypeOK'
    BY <2>9 DEF Accept, Settled
  <2>10. ASSUME NEW r \in Requests, DeliveryFails(r) PROVE TypeOK'
    BY <2>10 DEF DeliveryFails, Restore, Flying
  <2>11. ASSUME NEW r \in Requests, Refuse(r) PROVE TypeOK'
    BY <2>11 DEF Refuse, Settled
  <2>12. CASE UNCHANGED vars
    BY <2>12 DEF vars
  <2> QED
    BY <2>1, <2>2, <2>3, <2>4, <2>5, <2>6, <2>7, <2>8, <2>9, <2>10, <2>11, <2>12
       DEF Next, Handle, Quiescent
<1> QED
  BY <1>1, <1>2, PTL DEF Spec
-----------------------------------------------------------------------------
(* Which handlers can be in flight, and who holds persistMu.               *)

HolderIsSaving ==
  /\ \A r \in Requests : pc[r] \in {"saving", "resaving"} => holder[Host[r]] = r
  /\ \A p \in Procs : holder[p] # None =>
       Host[holder[p]] = p /\ pc[holder[p]] \in {"saving", "resaving"}

FlightNeedsProcess == \A r \in InFlight : phase[Host[r]] = "up"

FlyingMeet ==
  \A r, q \in InFlight : r # q => q \in met[r]

FlightInv == TypeOK /\ HolderIsSaving /\ FlightNeedsProcess /\ FlyingMeet

\* persistMu is held by exactly the request that is saving, a request is in
\* flight only in a running process, and requests in flight together have met.
THEOREM FlightInvariant == Spec => []FlightInv
<1>1. Init => HolderIsSaving /\ FlightNeedsProcess /\ FlyingMeet
  BY HostAssumption DEF Init, HolderIsSaving, FlightNeedsProcess, FlyingMeet, InFlight, Flying
<1>2. TypeOK /\ TypeOK' /\ FlightInv /\ [Next]_vars => FlightInv'
  <2> SUFFICES ASSUME TypeOK, TypeOK', FlightInv, [Next]_vars
               PROVE  HolderIsSaving' /\ FlightNeedsProcess' /\ FlyingMeet'
    BY DEF FlightInv
  <2> USE RequestsAssumption, HostAssumption
      DEF TypeOK, FlightInv, HolderIsSaving, FlightNeedsProcess, FlyingMeet, InFlight, Flying
  <2>1. ASSUME NEW p \in Procs, BootLoad(p) \/ BootSave(p)
        PROVE  HolderIsSaving' /\ FlightNeedsProcess' /\ FlyingMeet'
    BY <2>1 DEF BootLoad, BootSave
  <2>2. ASSUME NEW p \in Procs, Crash(p)
        PROVE  HolderIsSaving' /\ FlightNeedsProcess' /\ FlyingMeet'
    <3>1. HolderIsSaving'
      BY <2>2 DEF Crash, ReleasePersistMu
    <3>2. FlightNeedsProcess' /\ FlyingMeet'
      BY <2>2 DEF Crash
    <3> QED
      BY <3>1, <3>2
  <2>3. ASSUME NEW r \in Requests, Mutate(r)
        PROVE  HolderIsSaving' /\ FlightNeedsProcess' /\ FlyingMeet'
    <3>1. HolderIsSaving' /\ FlightNeedsProcess'
      BY <2>3 DEF Mutate, Meet
    <3>2. FlyingMeet'
      BY <2>3 DEF Mutate, Meet
    <3> QED
      BY <3>1, <3>2
  <2>4. ASSUME NEW r \in Requests, BeginSave(r)
        PROVE  HolderIsSaving' /\ FlightNeedsProcess' /\ FlyingMeet'
    BY <2>4 DEF BeginSave
  <2>5. ASSUME NEW r \in Requests, SaveCommits(r) \/ SaveFails(r)
        PROVE  HolderIsSaving' /\ FlightNeedsProcess' /\ FlyingMeet'
    <3>1. /\ ReleasePersistMu(Host[r])
          /\ pc[r] \in {"saving", "resaving"}
          /\ \E c \in {"committed", "refused", "unsaved"} : pc' = [pc EXCEPT ![r] = c]
          /\ UNCHANGED <<phase, met>>
      BY <2>5 DEF SaveCommits, SaveFails
    <3> QED
      BY <3>1 DEF ReleasePersistMu
  <2>6. ASSUME NEW r \in Requests, RollBack(r) \/ DeliveryFails(r)
        PROVE  HolderIsSaving' /\ FlightNeedsProcess' /\ FlyingMeet'
    <3>1. /\ pc[r] \in {"unsaved", "committed"}
          /\ \E c \in {"refused", "undone"} : pc' = [pc EXCEPT ![r] = c]
          /\ UNCHANGED <<phase, holder, met>>
      BY <2>6 DEF RollBack, DeliveryFails
    <3> QED
      BY <3>1
  <2>7. ASSUME NEW r \in Requests, Accept(r) \/ Refuse(r)
        PROVE  HolderIsSaving' /\ FlightNeedsProcess' /\ FlyingMeet'
    BY <2>7 DEF Accept, Refuse
  <2>8. CASE UNCHANGED vars
    BY <2>8 DEF vars
  <2> QED
    BY <2>1, <2>2, <2>3, <2>4, <2>5, <2>6, <2>7, <2>8 DEF Next, Handle, Quiescent
<1> QED
  BY <1>1, <1>2, TypeCorrect, PTL DEF Spec, FlightInv

-----------------------------------------------------------------------------
(* What a single API server guarantees.                                    *)

OneProcess == \A p, q \in Procs : p = q

\* Where a request that has been saved and disturbed by nobody must be: in the
\* database, the memory, the image being written, and every snapshot that a
\* handler it has not met may put back.
Safe(r) ==
  /\ r \in db
  /\ phase[Host[r]] # "down" => r \in mem[Host[r]]
  /\ \A q \in InFlight : q # r /\ Kind[q] # "task" => r \in snap[q] \/ q \in met[r]
  /\ holder[Host[r]] # None => r \in image[Host[r]]

Kept(r) == Undisturbed(r) =>
  /\ pc[r] \in {"mutated", "saving"} => r \in mem[Host[r]]
  /\ pc[r] = "saving" => r \in image[Host[r]]
  /\ pc[r] \in {"committed", "acked"} => Safe(r)

\* Who has been disturbed stays so.
LEMMA DisturbedStays ==
  ASSUME FlightInv, [Next]_vars, NEW r \in Requests, pc[r] # "idle", Undisturbed(r)'
  PROVE  Undisturbed(r)
<1> USE DEF FlightInv, TypeOK, Undisturbed, InFlight, Flying
<1>1. ASSUME NEW p \in Procs, BootLoad(p) \/ BootSave(p) PROVE Undisturbed(r)
  BY <1>1 DEF BootLoad, BootSave
<1>2. ASSUME NEW p \in Procs, Crash(p) PROVE Undisturbed(r)
  <2>1. pc' = [q \in Requests |-> IF Host[q] = p /\ q \in InFlight THEN "lost" ELSE pc[q]]
        /\ met' = met
    BY <1>2 DEF Crash
  <2> QED
    BY <2>1
<1>3. ASSUME NEW q \in Requests, Mutate(q) PROVE Undisturbed(r)
  BY <1>3 DEF Mutate, Meet
<1>4. ASSUME NEW q \in Requests, Handle(q) PROVE Undisturbed(r)
  <2>1. met' = met
    BY <1>4 DEF Handle, BeginSave, SaveCommits, SaveFails, RollBack, Accept, DeliveryFails, Refuse
  <2>2. /\ \A t \in Requests \ {q} : pc'[t] = pc[t]
        /\ pc[q] \in {"undone", "resaving", "refused", "failed", "lost"} =>
             pc'[q] \in {"resaving", "refused", "failed"}
    BY <1>4 DEF Handle, BeginSave, SaveCommits, SaveFails, RollBack, Accept, DeliveryFails, Refuse
  <2> QED
    BY <2>1, <2>2
<1>5. CASE UNCHANGED vars
  BY <1>5 DEF vars
<1> QED
  BY <1>1, <1>2, <1>3, <1>4, <1>5 DEF Next, Quiescent

\* The steps of another request, or of the process, keep what r has reached.
LEMMA KeptStep ==
  ASSUME OneProcess, FlightInv, FlightInv', [Next]_vars, NEW r \in Requests, Kept(r)
  PROVE  Kept(r)'
<1> USE RequestsAssumption, HostAssumption
    DEF FlightInv, TypeOK, HolderIsSaving, FlightNeedsProcess, FlyingMeet,
        InFlight, Flying, OneProcess
<1> SUFFICES ASSUME Undisturbed(r)' PROVE Kept(r)'
  BY DEF Kept
<1>0. pc[r] = "idle" \/ Undisturbed(r)
  BY DisturbedStays
<1> USE DEF Kept, Safe
<1>1. ASSUME NEW p \in Procs, BootLoad(p) PROVE Kept(r)'
  BY <1>0, <1>1 DEF BootLoad
<1>2. ASSUME NEW p \in Procs, BootSave(p) PROVE Kept(r)'
  BY <1>0, <1>2 DEF BootSave
<1>3. ASSUME NEW p \in Procs, Crash(p) PROVE Kept(r)'
  <2>1. pc'[r] \notin {"mutated", "saving", "committed"} /\ (pc'[r] = "acked" => pc[r] = "acked")
    BY <1>3 DEF Crash
  <2>2. pc[r] = "acked" => r \in db' /\ phase'[Host[r]] = "down" /\ holder'[Host[r]] = None
    BY <1>0, <1>3 DEF Crash, ReleasePersistMu
  <2>3. ~ \E q \in Requests : pc'[q] \in Flying
    BY <1>3 DEF Crash
  <2> QED
    BY <2>1, <2>2, <2>3
<1>4. ASSUME NEW q \in Requests, Mutate(q) PROVE Kept(r)'
  BY <1>0, <1>4 DEF Mutate, Meet
<1>5. ASSUME NEW q \in Requests, BeginSave(q) PROVE Kept(r)'
  BY <1>0, <1>5 DEF BeginSave
<1>6. ASSUME NEW q \in Requests, SaveCommits(q) PROVE Kept(r)'
  BY <1>0, <1>6 DEF SaveCommits, ReleasePersistMu
<1>7. ASSUME NEW q \in Requests, SaveFails(q) PROVE Kept(r)'
  BY <1>0, <1>7 DEF SaveFails, ReleasePersistMu
<1>8. ASSUME NEW q \in Requests, RollBack(q) PROVE Kept(r)'
  BY <1>0, <1>8 DEF RollBack, Restore, Undisturbed
<1>9. ASSUME NEW q \in Requests, Accept(q) PROVE Kept(r)'
  BY <1>0, <1>9 DEF Accept
<1>10. ASSUME NEW q \in Requests, DeliveryFails(q) PROVE Kept(r)'
  BY <1>0, <1>10 DEF DeliveryFails, Restore, Undisturbed
<1>11. ASSUME NEW q \in Requests, Refuse(q) PROVE Kept(r)'
  BY <1>0, <1>11 DEF Refuse
<1>12. CASE UNCHANGED vars
  BY <1>0, <1>12 DEF vars
<1> QED
  BY <1>1, <1>2, <1>3, <1>4, <1>5, <1>6, <1>7, <1>8, <1>9, <1>10, <1>11, <1>12
     DEF Next, Handle, Quiescent

\* With a single process on the database, an acknowledged request that
\* overlapped no failing one is never lost: not by saves of others, rollbacks,
\* failed or uncertain saves, undelivered mails or crashes, however many
\* requests are in flight together.
THEOREM AckedDurable == ASSUME OneProcess PROVE Spec => []AckedIsDurable
<1> DEFINE AllKept == \A r \in Requests : Kept(r)
<1>1. Init => AllKept
  BY DEF Init, Kept
<1>2. FlightInv /\ FlightInv' /\ AllKept /\ [Next]_vars => AllKept'
  BY OneProcess, KeptStep
<1>3. AllKept => AckedIsDurable
  BY DEF Kept, Safe, AckedIsDurable
<1> QED
  BY <1>1, <1>2, <1>3, FlightInvariant, PTL DEF Spec

-----------------------------------------------------------------------------
(* What a failed save leaves behind.                                       *)

DefiniteSaves == "unknown" \notin Faults

Nowhere(r) ==
  /\ r \notin db
  /\ r \notin mem[Host[r]]
  /\ \A q \in InFlight : r \notin snap[q]
  /\ holder[Host[r]] # None => r \notin image[Host[r]]

Traceless(r) == Solo(r) /\ Kind[r] = "plain" =>
  /\ pc[r] \notin {"undone", "resaving"}
  /\ pc[r] \in {"mutated", "saving", "unsaved"} => r \notin db /\ r \notin snap[r]
  /\ pc[r] \in {"idle", "refused", "failed"} => Nowhere(r)

\* No step brings back a solo request whose save failed.
LEMMA TracelessStep ==
  ASSUME OneProcess, DefiniteSaves, FlightInv, FlightInv', [Next]_vars,
         NEW r \in Requests, Traceless(r)
  PROVE  Traceless(r)'
<1> USE RequestsAssumption, HostAssumption
    DEF FlightInv, TypeOK, HolderIsSaving, FlightNeedsProcess, FlyingMeet,
        InFlight, Flying, OneProcess, Traceless, Nowhere, Solo
<1>1. ASSUME NEW p \in Procs, BootLoad(p) PROVE Traceless(r)'
  BY <1>1 DEF BootLoad
<1>2. ASSUME NEW p \in Procs, BootSave(p) PROVE Traceless(r)'
  BY <1>2 DEF BootSave
<1>3. ASSUME NEW p \in Procs, Crash(p) PROVE Traceless(r)'
  BY <1>3 DEF Crash, ReleasePersistMu, DefiniteSaves
<1>4. ASSUME NEW q \in Requests, Mutate(q) PROVE Traceless(r)'
  <2>1. Solo(r)' => Solo(r)
    BY <1>4 DEF Mutate, Meet
  <2>2. Solo(r)' /\ r \in InFlight => q = r
    BY <1>4 DEF Mutate, Meet
  <2>3. CASE q = r
    BY <1>4, <2>1, <2>2, <2>3 DEF Mutate
  <2>4. CASE q # r
    BY <1>4, <2>1, <2>2, <2>4 DEF Mutate
  <2> QED
    BY <2>3, <2>4
<1>5. ASSUME NEW q \in Requests, BeginSave(q) PROVE Traceless(r)'
  BY <1>5 DEF BeginSave
<1>6. ASSUME NEW q \in Requests, SaveCommits(q) PROVE Traceless(r)'
  BY <1>6 DEF SaveCommits, ReleasePersistMu
<1>7. ASSUME NEW q \in Requests, SaveFails(q) PROVE Traceless(r)'
  BY <1>7 DEF SaveFails, ReleasePersistMu, DefiniteSaves
<1>8. ASSUME NEW q \in Requests, RollBack(q) PROVE Traceless(r)'
  BY <1>8 DEF RollBack, Restore
<1>9. ASSUME NEW q \in Requests, Accept(q) PROVE Traceless(r)'
  BY <1>9 DEF Accept
<1>10. ASSUME NEW q \in Requests, DeliveryFails(q) PROVE Traceless(r)'
  BY <1>10 DEF DeliveryFails, Restore
<1>11. ASSUME NEW q \in Requests, Refuse(q) PROVE Traceless(r)'
  BY <1>11 DEF Refuse
<1>12. CASE UNCHANGED vars
  BY <1>12 DEF vars
<1> QED
  BY <1>1, <1>2, <1>3, <1>4, <1>5, <1>6, <1>7, <1>8, <1>9, <1>10, <1>11, <1>12
     DEF Next, Handle, Quiescent

\* With a single process and saves that either commit or do not, a request
\* that no other overlapped and whose save failed is in neither memory nor
\* database, for ever.
THEOREM SoloTraceless ==
  ASSUME OneProcess, DefiniteSaves PROVE Spec => []SoloRefusedLeavesNoTrace
<1> DEFINE AllTraceless == \A r \in Requests : Traceless(r)
<1>1. Init => AllTraceless
  BY HostAssumption DEF Init, Traceless, Nowhere, InFlight, Flying
<1>2. FlightInv /\ FlightInv' /\ AllTraceless /\ [Next]_vars => AllTraceless'
  BY OneProcess, DefiniteSaves, TracelessStep
<1>3. AllTraceless => SoloRefusedLeavesNoTrace
  BY DEF Traceless, Nowhere, SoloRefusedLeavesNoTrace
<1> QED
  BY <1>1, <1>2, <1>3, FlightInvariant, PTL DEF Spec

-----------------------------------------------------------------------------
(* One request at a time: the write path implements DurableStore.          *)

Serial == MaxInFlight = 1 /\ IsFiniteSet(Requests)

\* Wherever a request can be
Everywhere(r) ==
  /\ r \in db
  /\ phase[Host[r]] # "down" => r \in mem[Host[r]]
  /\ \A q \in InFlight : r \in snap[q]
  /\ holder[Host[r]] # None => r \in image[Host[r]]

NotHeld(r) ==
  /\ r \notin mem[Host[r]]
  /\ \A q \in InFlight : r \notin snap[q]
  /\ holder[Host[r]] # None => r \notin image[Host[r]]

\* A refused request may linger in the database, when its failing save did
\* commit; then it is in memory only after a restart, and then everywhere.
Retracted(r) ==
  /\ pc[r] = "idle" => Nowhere(r)
  /\ r \in InFlight => r \notin snap[r]
  /\ pc[r] \in {"undone", "resaving"} => r \notin mem[Host[r]]
  /\ pc[r] = "refused" /\ Kind[r] # "task" => r \notin mem[Host[r]]
  /\ pc[r] = "resaving" => r \notin image[Host[r]]
  /\ pc[r] = "failed" /\ Kind[r] # "task" => Everywhere(r) \/ NotHeld(r)

\* Nobody has ever met anybody.
Strangers == \A r \in Requests : met[r] = {}

\* While at most one request is in flight, no two ever meet.
LEMMA SerialStep ==
  ASSUME Serial, FlightInv, Strangers, [Next]_vars PROVE Strangers'
<1>1. ASSUME NEW r \in Requests, Mutate(r) PROVE InFlight = {}
  <2>1. IsFiniteSet(InFlight)
    BY FS_Subset DEF Serial, InFlight
  <2>2. Cardinality(InFlight) \in Nat /\ Cardinality(InFlight) < 1
    BY <1>1, <2>1, FS_CardinalityType DEF Serial, Mutate
  <2> QED
    BY <2>1, <2>2, FS_EmptySet
<1>2. ASSUME NEW r \in Requests, Mutate(r) PROVE Strangers'
  BY <1>1, <1>2 DEF Mutate, Meet, Strangers
<1>3. met' = met => Strangers'
  BY DEF Strangers
<1> QED
  BY <1>2, <1>3 DEF Next, Handle, Quiescent, vars, BootLoad, BootSave, Crash, BeginSave,
     SaveCommits, SaveFails, RollBack, Accept, DeliveryFails, Refuse

\* No step returns a refused request to the memory of a running process.
LEMMA RetractedStep ==
  ASSUME OneProcess, FlightInv, FlightInv', Strangers, Strangers', [Next]_vars,
         NEW r \in Requests, Retracted(r)
  PROVE  Retracted(r)'
<1> USE RequestsAssumption, HostAssumption
    DEF FlightInv, TypeOK, HolderIsSaving, FlightNeedsProcess, FlyingMeet,
        InFlight, Flying, OneProcess, Retracted, Everywhere, Nowhere, NotHeld
<1>0. InFlight \subseteq Requests /\ \A q, t \in InFlight : q = t
  BY DEF Strangers
<1>1. ASSUME NEW p \in Procs, BootLoad(p) PROVE Retracted(r)'
  BY <1>1 DEF BootLoad
<1>2. ASSUME NEW p \in Procs, BootSave(p) PROVE Retracted(r)'
  BY <1>2 DEF BootSave
<1>3. ASSUME NEW p \in Procs, Crash(p) PROVE Retracted(r)'
  BY <1>3 DEF Crash, ReleasePersistMu
<1>4. ASSUME NEW q \in Requests, Mutate(q) PROVE Retracted(r)'
  BY <1>0, <1>4 DEF Mutate, Meet
<1>5. ASSUME NEW q \in Requests, BeginSave(q) PROVE Retracted(r)'
  BY <1>5 DEF BeginSave
<1>6. ASSUME NEW q \in Requests, SaveCommits(q) PROVE Retracted(r)'
  BY <1>6 DEF SaveCommits, ReleasePersistMu
<1>7. ASSUME NEW q \in Requests, SaveFails(q) PROVE Retracted(r)'
  BY <1>0, <1>7 DEF SaveFails, ReleasePersistMu
<1>8. ASSUME NEW q \in Requests, RollBack(q) PROVE Retracted(r)'
  BY <1>0, <1>8 DEF RollBack, Restore
<1>9. ASSUME NEW q \in Requests, Accept(q) PROVE Retracted(r)'
  BY <1>9 DEF Accept
<1>10. ASSUME NEW q \in Requests, DeliveryFails(q) PROVE Retracted(r)'
  BY <1>0, <1>10 DEF DeliveryFails, Restore
<1>11. ASSUME NEW q \in Requests, Refuse(q) PROVE Retracted(r)'
  BY <1>0, <1>11 DEF Refuse
<1>12. CASE UNCHANGED vars
  BY <1>12 DEF vars
<1> QED
  BY <1>1, <1>2, <1>3, <1>4, <1>5, <1>6, <1>7, <1>8, <1>9, <1>10, <1>11, <1>12
     DEF Next, Handle, Quiescent

PromiseInv ==
  /\ FlightInv
  /\ Strangers
  /\ \A r \in Requests : Kept(r) /\ Retracted(r)

\* Every step of the write path is a step of DurableStore, or changes nothing
\* a client can see.
LEMMA PromiseStep ==
  ASSUME OneProcess, PromiseInv, PromiseInv', [Next]_vars
  PROVE  [Promise!StoreNext]_(Promise!storeVars)
<1> USE RequestsAssumption, HostAssumption
    DEF PromiseInv, FlightInv, TypeOK, Promise!storeVars, Answer
<1>0. \A r \in Requests : Undisturbed(r) /\ \A q \in InFlight : Kind[q] # "task" => q = r \/ q \notin met[r]
  BY DEF Strangers, Undisturbed, InFlight
<1>1. ASSUME db' \in SUBSET Requests, Answer' = Answer,
             \A r \in db' \ db : pc[r] # "acked" /\ ~(pc[r] = "failed" /\ Kind[r] # "task"),
             \A r \in db \ db' : pc[r] # "acked"
      PROVE  Promise!Rewrite
  BY <1>1 DEF Promise!Rewrite
<1>2. ASSUME NEW p \in Procs, BootLoad(p) PROVE UNCHANGED Promise!storeVars
  BY <1>2 DEF BootLoad
<1>3. ASSUME NEW p \in Procs, BootSave(p) PROVE Promise!Rewrite
  BY <1>0, <1>1, <1>3 DEF BootSave, OneProcess, Kept, Safe, Everywhere, Retracted, NotHeld
<1>4. ASSUME NEW p \in Procs, Crash(p) PROVE Promise!Rewrite
  <2>1. Answer' = Answer
    BY <1>0, <1>4 DEF Crash, InFlight, Flying
  <2>2. \A r \in db \ db' : pc[r] # "acked"
    BY <1>0, <1>4 DEF Crash, OneProcess, Kept, Safe, Everywhere
  <2>3. \A r \in db' \ db : pc[r] # "acked" /\ ~(pc[r] = "failed" /\ Kind[r] # "task")
    BY <1>0, <1>4 DEF Crash, OneProcess, Kept, Safe, Everywhere, Retracted, NotHeld
  <2> QED
    BY <1>1, <2>1, <2>2, <2>3
<1>5. ASSUME NEW r \in Requests, Mutate(r) \/ BeginSave(r) \/ RollBack(r) \/ DeliveryFails(r)
      PROVE  UNCHANGED Promise!storeVars
  BY <1>5 DEF Mutate, BeginSave, RollBack, DeliveryFails
<1>6. ASSUME NEW r \in Requests, SaveCommits(r) \/ SaveFails(r) PROVE Promise!Rewrite
  <2>1. db' = db \/ db' = image[Host[r]]
    BY <1>6 DEF SaveCommits, SaveFails
  <2>2. Answer' = Answer
    BY <1>6 DEF SaveCommits, SaveFails
  <2>3. pc[r] \in {"saving", "resaving"} /\ holder[Host[r]] = r
    BY <1>6 DEF SaveCommits, SaveFails, HolderIsSaving
  <2>4. \A q \in db \ db' : pc[q] # "acked"
    BY <1>0, <2>1, <2>3 DEF OneProcess, Kept, Safe, Everywhere
  <2>5. \A q \in db' \ db : pc[q] # "acked" /\ ~(pc[q] = "failed" /\ Kind[q] # "task")
    BY <1>0, <2>1, <2>3 DEF OneProcess, Kept, Safe, Everywhere, Retracted, NotHeld
  <2> QED
    BY <1>1, <2>2, <2>4, <2>5
<1>7. ASSUME NEW r \in Requests, Accept(r) PROVE Promise!Accept(r)
  BY <1>0, <1>7 DEF Accept, Promise!Accept, Kept, Safe
<1>8. ASSUME NEW r \in Requests, Refuse(r)
      PROVE  Promise!Refuse(r) \/ UNCHANGED Promise!storeVars
  <2>1. CASE Kind[r] = "task"
    BY <1>8, <2>1 DEF Refuse
  <2>2. CASE Kind[r] # "task"
    BY <1>8, <2>2 DEF Refuse, Promise!Refuse
  <2> QED
    BY <2>1, <2>2
<1>9. CASE UNCHANGED vars
  BY <1>9 DEF vars
<1> QED
  BY <1>2, <1>3, <1>4, <1>5, <1>6, <1>7, <1>8, <1>9
     DEF Next, Handle, Quiescent, Promise!StoreNext

\* A single process that handles one request at a time keeps the promise of
\* DurableStore under every fault and crash.
THEOREM SerialRefinement ==
  ASSUME OneProcess, Serial PROVE Spec => KeepsPromise
<1>1. Init => Strangers /\ \A r \in Requests : Kept(r) /\ Retracted(r)
  BY HostAssumption DEF Init, Strangers, Kept, Retracted, Nowhere, InFlight, Flying
<1>2. Init => Promise!StoreInit
  BY DEF Init, Promise!StoreInit, Answer
<1>3. FlightInv /\ FlightInv' /\ PromiseInv /\ [Next]_vars => PromiseInv'
  BY OneProcess, Serial, SerialStep, KeptStep, RetractedStep DEF PromiseInv
<1>4. PromiseInv /\ PromiseInv' /\ [Next]_vars => [Promise!StoreNext]_(Promise!storeVars)
  BY OneProcess, PromiseStep
<1>5. FlightInv /\ Strangers /\ (\A r \in Requests : Kept(r) /\ Retracted(r)) => PromiseInv
  BY DEF PromiseInv
<1> QED
  BY <1>1, <1>2, <1>3, <1>4, <1>5, FlightInvariant, PTL
     DEF Spec, KeepsPromise, Promise!StoreSpec
=============================================================================
