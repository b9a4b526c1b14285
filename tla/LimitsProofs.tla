---------------------------- MODULE LimitsProofs ----------------------------
(***************************************************************************)
(* Theorems about Limits, for any requests, meters and limits.             *)
(***************************************************************************)
EXTENDS Limits, StatePersistenceProofs

\* Every step of the handlers' life is a step of the write path, or none.
LEMMA StepsImplement == [LimitNext]_allVars => [Next]_vars
<1> SUFFICES ASSUME [LimitNext]_allVars PROVE [Next]_vars
  OBVIOUS
<1> USE DEF Next, Handle
<1>1. ASSUME NEW p \in Procs, BootLoad(p) \/ BootSave(p) \/ Die(p) PROVE Next
  BY <1>1 DEF Die
<1>2. ASSUME NEW r \in Requests,
             CheckAndCount(r) \/ RecordRisk(r) \/ CountUpload(r) \/ AnswerFailure(r) \/ WriteStep(r)
      PROVE  Next
  BY <1>2 DEF CheckAndCount, RecordRisk, CountUpload, Count, AnswerFailure, WriteStep
<1>3. ASSUME NEW r \in Requests, TurnAway(r) \/ CheckUpload(r) \/ UploadBreaksOff(r)
      PROVE  UNCHANGED vars
  BY <1>3 DEF TurnAway, CheckUpload, UploadBreaksOff
<1>4. CASE Idle \/ UNCHANGED allVars
  BY <1>4 DEF Idle, allVars
<1> QED
  BY <1>1, <1>2, <1>3, <1>4 DEF LimitNext

\* With checks and limits added, the write path is still the write path: what
\* is proved of its handlers holds of handlers that check first.
THEOREM ImplementsWritePath == LimitSpec => Spec
<1>1. LimitInit => Init
  BY DEF LimitInit
<1> QED
  BY <1>1, StepsImplement, PTL DEF LimitSpec, Spec

-----------------------------------------------------------------------------
\* What an upload was admitted for is what it was checked against.
DueWasAdmitted ==
  \A u \in Uploads \cap due : \A m \in Checks[u] :
    Within(m, seen[u][m] + Declared[u][m])

LimitInv == LimitTypeOK /\ DueWasAdmitted

\* Types of the added variables, and what stands behind an upload under way.
LEMMA LimitInvStep ==
  ASSUME LimitInv, TypeOK', [LimitNext]_allVars
  PROVE  LimitInv'
<1> USE MeterAssumption, UsedAssumption, ShapeAssumption, HostAssumption
    DEF LimitInv, LimitTypeOK, DueWasAdmitted, NoUsage, RiskEntries, Guarded
<1>1. ASSUME NEW p \in Procs, BootLoad(p) \/ BootSave(p), UNCHANGED limitVars PROVE LimitInv'
  BY <1>1 DEF limitVars
<1>2. ASSUME NEW p \in Procs, Die(p) PROVE LimitInv'
  BY <1>2 DEF Die
<1>3. ASSUME NEW r \in Requests, Count(r) PROVE overran' \in SUBSET (Requests \X Meters)
  BY <1>3 DEF Count
<1>4. ASSUME NEW r \in Requests, CheckAndCount(r) PROVE LimitInv'
  BY <1>3, <1>4 DEF CheckAndCount
<1>5. ASSUME NEW r \in Requests, TurnAway(r) \/ AnswerFailure(r) PROVE LimitInv'
  BY <1>5 DEF TurnAway, AnswerFailure, RiskFollows
<1>6. ASSUME NEW r \in Requests, RecordRisk(r) PROVE LimitInv'
  BY <1>3, <1>6 DEF RecordRisk
<1>7. ASSUME NEW u \in Requests, CheckUpload(u) PROVE LimitInv'
  <2>1. [m \in Meters |-> Used[m][mem[Host[u]]]] \in [Meters -> Nat]
    BY <1>7 DEF CheckUpload, TypeOK
  <2>2. \A m \in Checks[u] : Within(m, Used[m][mem[Host[u]]] + Declared[u][m])
    BY <1>7 DEF CheckUpload, Admits
  <2>3. Checks[u] \subseteq Meters
    OBVIOUS
  <2> QED
    BY <1>7, <2>1, <2>2, <2>3 DEF CheckUpload
<1>8. ASSUME NEW u \in Requests, UploadBreaksOff(u) PROVE LimitInv'
  BY <1>8 DEF UploadBreaksOff
<1>9. ASSUME NEW u \in Requests, CountUpload(u) PROVE LimitInv'
  BY <1>3, <1>9 DEF CountUpload
<1>10. CASE UNCHANGED limitVars
  BY <1>10 DEF limitVars
<1> QED
  BY <1>1, <1>2, <1>4, <1>5, <1>6, <1>7, <1>8, <1>9, <1>10
     DEF LimitNext, Idle, allVars, limitVars

THEOREM LimitInvariant == LimitSpec => []LimitInv
<1>1. LimitInit /\ TypeOK => LimitInv
  BY DEF LimitInit, LimitInv, LimitTypeOK, DueWasAdmitted, NoUsage
<1>2. LimitInv /\ TypeOK' /\ [LimitNext]_allVars => LimitInv'
  BY LimitInvStep
<1>3. LimitSpec => []TypeOK
  BY ImplementsWritePath, TypeCorrect, PTL
<1> QED
  BY <1>1, <1>2, <1>3, PTL DEF LimitSpec

\* Type correctness of the write path with its checks.
THEOREM LimitTypeCorrect == LimitSpec => []LimitTypeOK
<1>1. LimitInv => LimitTypeOK
  BY DEF LimitInv
<1> QED
  BY <1>1, LimitInvariant, PTL

-----------------------------------------------------------------------------
(* No state counts more than its limits allow.                             *)

\* Those of X that o does not excuse at m are within its limit.
Fits(o, m, X) == Within(m, Used[m][{r \in X : <<r, m>> \notin o}])

\* Who overran a limit is remembered.
LEMMA OverranGrows == ASSUME [LimitNext]_allVars PROVE overran \subseteq overran'
BY DEF LimitNext, allVars, limitVars, Die, CheckAndCount, TurnAway, RecordRisk, AnswerFailure,
       CheckUpload, UploadBreaksOff, CountUpload, Count, Idle

\* Counters are numbers.
LEMMA CountersAreNumbers ==
  ASSUME NEW X \in SUBSET Requests, NEW m \in Meters PROVE Used[m][X] \in Nat
<1>1. Used[m] \in [SUBSET Requests -> Nat]
  BY UsedAssumption
<1> QED
  BY <1>1

\* Whatever is part of something within a limit is within it.
LEMMA PartIsWithin ==
  ASSUME NEW X \in SUBSET Requests, NEW Y \in SUBSET X, NEW m \in Meters, Within(m, Used[m][X])
  PROVE  Within(m, Used[m][Y])
<1>1. Used[m][Y] <= Used[m][X]
  BY UsedAssumption
<1>2. Used[m][Y] \in Nat /\ Used[m][X] \in Nat
  BY CountersAreNumbers
<1>3. Limit[m] = NoLimit \/ Limit[m] \in Nat
  BY MeterAssumption
<1> QED
  BY <1>1, <1>2, <1>3 DEF Within

\* To excuse more, or to hold less, breaks no limit.
LEMMA FitsLess ==
  ASSUME NEW X \in SUBSET Requests, NEW Y \in SUBSET X, NEW m \in Meters,
         NEW o, NEW q, o \subseteq q, Fits(o, m, X)
  PROVE  Fits(q, m, Y)
<1>1. {r \in Y : <<r, m>> \notin q} \subseteq {r \in X : <<r, m>> \notin o}
  OBVIOUS
<1>2. {r \in X : <<r, m>> \notin o} \subseteq Requests
  OBVIOUS
<1> QED
  BY <1>1, <1>2, PartIsWithin DEF Fits

\* The empty state fits.
LEMMA NothingFits == ASSUME NEW o, NEW m \in Meters PROVE Fits(o, m, {})
<1>1. {r \in {} : <<r, m>> \notin o} = {}
  OBVIOUS
<1> QED
  BY <1>1, MeterAssumption, UsedAssumption DEF Fits, Within

\* The counters of a state and of the state with one more request.
LEMMA CountsAddUp ==
  ASSUME NEW X \in SUBSET Requests, NEW r \in Requests \ X, NEW m \in Meters
  PROVE  /\ Used[m][X] \in Nat /\ Cost[r][m] \in Nat /\ Declared[r][m] \in Nat
         /\ Used[m][X \cup {r}] = Used[m][X] + Cost[r][m]
<1>1. Used[m] \in [SUBSET Requests -> Nat]
  BY UsedAssumption
<1>2. Cost[r] \in [Meters -> Nat] /\ Declared[r] \in [Meters -> Nat]
  BY MeterAssumption
<1>3. Used[m][X \cup {r}] = Used[m][X] + Cost[r][m]
  BY UsedAssumption
<1> QED
  BY <1>1, <1>2, <1>3

\* A request that counts for something at a meter without overrunning it
\* leaves the whole memory within its limit.
LEMMA CountStaysWithin ==
  ASSUME LimitInv, NEW r \in Requests, NEW m \in Meters, Count(r),
         r \notin mem[Host[r]], Cost[r][m] > 0, <<r, m>> \notin overran',
         \/ r \in Guarded /\ Admits(r, mem[Host[r]])
         \/ r \in RiskEntries
         \/ r \in Uploads \cap due
  PROVE  Within(m, Used[m][mem[Host[r]] \cup {r}])
<1> DEFINE X == mem[Host[r]]
<1>1. X \in SUBSET Requests
  BY HostAssumption DEF LimitInv, LimitTypeOK, TypeOK
<1>2. /\ Used[m][X] \in Nat /\ Cost[r][m] \in Nat /\ Declared[r][m] \in Nat
      /\ Used[m][X \cup {r}] = Used[m][X] + Cost[r][m]
  <2> r \notin X
    OBVIOUS
  <2> HIDE DEF X
  <2> QED
    BY <1>1, CountsAddUp
<1> USE MeterAssumption, ShapeAssumption, HostAssumption DEF LimitInv, LimitTypeOK, TypeOK
<1>3. mem'[Host[r]] = X \cup {r}
  <2>1. mem' = [mem EXCEPT ![Host[r]] = X \cup {r}]
    BY DEF Count, Mutate
  <2>2. Host[r] \in Procs /\ mem \in [Procs -> SUBSET Requests]
    OBVIOUS
  <2> QED
    BY <2>1, <2>2
<1> SUFFICES ASSUME ~Within(m, Used[m][X \cup {r}]) PROVE FALSE
  OBVIOUS
<1>4. ~Surprise(r, m)
  BY <1>3 DEF Count
<1>5. m \in Checks[r] /\ r \notin RiskEntries
  BY <1>4 DEF Surprise
<1>6. CASE r \in Guarded /\ Admits(r, X)
  BY <1>2, <1>5, <1>6 DEF Admits
<1>7. CASE r \in Uploads \cap due
  <2>1. Within(m, seen[r][m] + Declared[r][m]) /\ seen[r][m] \in Nat
    BY <1>5, <1>7 DEF DueWasAdmitted
  <2>2. Used[m][X] > seen[r][m] \/ Cost[r][m] > Declared[r][m]
    BY <1>2, <2>1 DEF Within
  <2> QED
    BY <1>4, <1>7, <2>2 DEF Surprise
<1> QED
  BY <1>5, <1>6, <1>7

\* A memory that fitted fits with the request that counts in it, or the
\* request is remembered as the one that overran the limit.
LEMMA CountFits ==
  ASSUME LimitInv, NEW r \in Requests, NEW m \in Meters, Count(r),
         Fits(overran, m, mem[Host[r]]),
         \/ r \in Guarded /\ Admits(r, mem[Host[r]])
         \/ r \in RiskEntries
         \/ r \in Uploads \cap due
  PROVE  Fits(overran', m, mem[Host[r]] \cup {r})
<1> DEFINE X == mem[Host[r]]
           Unexcused == {q \in X : <<q, m>> \notin overran'}
<1>1. X \in SUBSET Requests /\ Unexcused \in SUBSET Requests
  BY HostAssumption DEF LimitInv, LimitTypeOK, TypeOK
<1>2. overran \subseteq overran'
  BY DEF Count
<1>3. Fits(overran', m, X)
  <2> HIDE DEF X
  <2> Fits(overran, m, X)
    BY DEF X
  <2> QED
    BY <1>1, <1>2, FitsLess
<1>4. Within(m, Used[m][Unexcused])
  BY <1>3 DEF Fits
<1>5. CASE r \in X \/ <<r, m>> \in overran'
  <2>1. {q \in X \cup {r} : <<q, m>> \notin overran'} = Unexcused
    BY <1>5
  <2> QED
    BY <1>4, <2>1 DEF Fits
<1>6. CASE r \notin X /\ <<r, m>> \notin overran'
  <2>1. {q \in X \cup {r} : <<q, m>> \notin overran'} = Unexcused \cup {r}
    BY <1>6
  <2>2. CASE Cost[r][m] > 0
    <3>1. Within(m, Used[m][X \cup {r}])
      BY <1>6, <2>2, CountStaysWithin
    <3>2. Unexcused \cup {r} \subseteq X \cup {r} /\ X \cup {r} \in SUBSET Requests
      BY <1>1
    <3>3. Within(m, Used[m][Unexcused \cup {r}])
      <4> HIDE DEF X, Unexcused
      <4> QED
        BY <3>1, <3>2, PartIsWithin
    <3> QED
      BY <2>1, <3>3 DEF Fits
  <2>3. CASE ~(Cost[r][m] > 0)
    <3>1. /\ Used[m][Unexcused] \in Nat /\ Cost[r][m] \in Nat
          /\ Used[m][Unexcused \cup {r}] = Used[m][Unexcused] + Cost[r][m]
      <4> r \notin Unexcused
        BY <1>6
      <4> HIDE DEF X, Unexcused
      <4> QED
        BY <1>1, CountsAddUp
    <3>2. Used[m][Unexcused \cup {r}] = Used[m][Unexcused]
      <4> HIDE DEF X, Unexcused
      <4> QED
        BY <2>3, <3>1
    <3> QED
      BY <1>4, <2>1, <3>2 DEF Fits
  <2> QED
    BY <2>2, <2>3
<1> QED
  BY <1>5, <1>6

\* Each step leaves memories, saves, snapshots and database within the limits.
LEMMA LimitsHoldStep ==
  ASSUME LimitInv, LimitsHold, [LimitNext]_allVars PROVE LimitsHold'
<1> SUFFICES ASSUME NEW m \in Meters
             PROVE  /\ Fits(overran', m, db')
                    /\ \A p \in Procs : Fits(overran', m, mem'[p]) /\ Fits(overran', m, image'[p])
                    /\ \A r \in Requests : Fits(overran', m, snap'[r])
  BY DEF LimitsHold, Respects, Fits
<1>0. /\ Fits(overran, m, db)
      /\ \A p \in Procs : Fits(overran, m, mem[p]) /\ Fits(overran, m, image[p])
      /\ \A r \in Requests : Fits(overran, m, snap[r])
  BY DEF LimitsHold, Respects, Fits
<1>1. \A X \in SUBSET Requests : Fits(overran, m, X) => Fits(overran', m, X)
  BY OverranGrows, FitsLess
<1>2. Fits(overran', m, {})
  BY NothingFits
<1> HIDE DEF Fits
<1> DEFINE Good == /\ Fits(overran', m, db')
                   /\ \A p \in Procs : Fits(overran', m, mem'[p]) /\ Fits(overran', m, image'[p])
                   /\ \A r \in Requests : Fits(overran', m, snap'[r])
<1> USE HostAssumption DEF LimitInv, LimitTypeOK, TypeOK
<1>3. ASSUME NEW p \in Procs, BootLoad(p) \/ BootSave(p) PROVE Good
  BY <1>0, <1>1, <1>3 DEF BootLoad, BootSave
<1>4. ASSUME NEW p \in Procs, Die(p) PROVE Good
  BY <1>0, <1>1, <1>2, <1>4 DEF Die, Crash, ReleasePersistMu
<1>5. ASSUME NEW r \in Requests, CheckAndCount(r) \/ RecordRisk(r) \/ CountUpload(r) PROVE Good
  <2>1. Count(r)
    BY <1>5 DEF CheckAndCount, RecordRisk, CountUpload
  <2>2. Fits(overran', m, mem[Host[r]] \cup {r})
    BY <1>0, <1>5, <2>1, CountFits DEF CheckAndCount, RecordRisk, CountUpload
  <2>3. /\ mem' = [mem EXCEPT ![Host[r]] = mem[Host[r]] \cup {r}]
        /\ snap' = [snap EXCEPT ![r] = mem[Host[r]]]
        /\ UNCHANGED <<db, image>>
    BY <2>1 DEF Count, Mutate
  <2> QED
    BY <1>0, <1>1, <2>2, <2>3
<1>6. ASSUME NEW r \in Requests, TurnAway(r) \/ CheckUpload(r) \/ UploadBreaksOff(r) PROVE Good
  BY <1>0, <1>1, <1>6 DEF TurnAway, CheckUpload, UploadBreaksOff, vars
<1>7. ASSUME NEW r \in Requests, AnswerFailure(r) \/ Accept(r) PROVE Good
  BY <1>0, <1>1, <1>2, <1>7 DEF AnswerFailure, Refuse, Accept
<1>8. ASSUME NEW r \in Requests, BeginSave(r) PROVE Good
  BY <1>0, <1>1, <1>8 DEF BeginSave
<1>9. ASSUME NEW r \in Requests, SaveCommits(r) \/ SaveFails(r) PROVE Good
  <2>1. /\ db' = db \/ db' = image[Host[r]]
        /\ mem' = mem /\ snap' = snap
        /\ image' = image \/ image' = [image EXCEPT ![Host[r]] = {}]
    BY <1>9 DEF SaveCommits, SaveFails, ReleasePersistMu
  <2> QED
    BY <1>0, <1>1, <1>2, <2>1
<1>10. ASSUME NEW r \in Requests, RollBack(r) \/ DeliveryFails(r) PROVE Good
  BY <1>0, <1>1, <1>10 DEF RollBack, DeliveryFails, Restore
<1>11. CASE UNCHANGED vars
  BY <1>0, <1>1, <1>11 DEF vars
<1> QED
  BY <1>3, <1>4, <1>5, <1>6, <1>7, <1>8, <1>9, <1>10, <1>11
     DEF LimitNext, WriteStep, Idle, allVars

\* Neither a memory, nor a save, nor a snapshot, nor the database ever counts
\* more than a limit allows and than the uploads add that were checked too
\* early.
THEOREM LimitsAlwaysHold == LimitSpec => []LimitsHold
<1>1. LimitInit => LimitsHold
  <2> SUFFICES ASSUME LimitInit, NEW m \in Meters
               PROVE  /\ Respects(m, db)
                      /\ \A p \in Procs : Respects(m, mem[p]) /\ Respects(m, image[p])
                      /\ \A r \in Requests : Respects(m, snap[r])
    BY DEF LimitsHold
  <2>1. Fits(overran, m, {})
    BY NothingFits
  <2> QED
    BY <2>1 DEF LimitInit, Init, Respects, Fits
<1>2. LimitInv /\ LimitsHold /\ [LimitNext]_allVars => LimitsHold'
  BY LimitsHoldStep
<1> QED
  BY <1>1, <1>2, LimitInvariant, PTL DEF LimitSpec

\* What was acknowledged and not disturbed is in the database, and what is
\* there is within the limits.
THEOREM AnswersFit == ASSUME OneProcess PROVE LimitSpec => []AnsweredFitLimits
<1>1. LimitInv /\ LimitsHold /\ AckedIsDurable => AnsweredFitLimits
  <2> SUFFICES ASSUME LimitInv, LimitsHold, AckedIsDurable, NEW m \in Meters
               PROVE  Respects(m, {r \in Requests : pc[r] = "acked" /\ Undisturbed(r)})
    BY DEF AnsweredFitLimits
  <2> DEFINE A == {r \in Requests : pc[r] = "acked" /\ Undisturbed(r)}
  <2>1. db \in SUBSET Requests /\ A \subseteq db
    BY DEF AckedIsDurable, LimitInv, LimitTypeOK, TypeOK
  <2>2. Fits(overran, m, db)
    BY DEF LimitsHold, Respects, Fits
  <2> HIDE DEF A
  <2>3. Fits(overran, m, A)
    BY <2>1, <2>2, FitsLess
  <2> QED
    BY <2>3 DEF Respects, Fits, A
<1>2. LimitSpec => []AckedIsDurable
  BY ImplementsWritePath, AckedDurable, OneProcess, PTL
<1> QED
  BY <1>1, <1>2, LimitInvariant, LimitsAlwaysHold, PTL

-----------------------------------------------------------------------------
(* Meters that are checked and counted in one section have no exception.   *)

\* Whatever counts at m asks for m in the section in which it counts: image
\* deliveries, API calls, the places of an invitation, the first administrator.
Strict(m) == \A r \in Requests : Cost[r][m] > 0 => r \notin Uploads /\ m \in Checks[r]

\* Who overran a limit counts there, and did not ask or asked too early.
OverranExplained ==
  \A r \in Requests, m \in Meters :
    <<r, m>> \in overran => Cost[r][m] > 0 /\ (m \notin Checks[r] \/ r \in Uploads)

LEMMA OverranExplainedStep ==
  ASSUME OverranExplained, [LimitNext]_allVars PROVE OverranExplained'
<1>1. ASSUME NEW r \in Requests, Count(r) PROVE OverranExplained'
  BY <1>1 DEF Count, Surprise, OverranExplained
<1>2. ASSUME NEW r \in Requests, CheckAndCount(r) \/ RecordRisk(r) \/ CountUpload(r)
      PROVE  OverranExplained'
  BY <1>1, <1>2 DEF CheckAndCount, RecordRisk, CountUpload
<1>3. CASE overran' = overran
  BY <1>3 DEF OverranExplained
<1> QED
  BY <1>2, <1>3 DEF LimitNext, allVars, limitVars, Die, TurnAway, AnswerFailure, CheckUpload,
                    UploadBreaksOff, Idle

\* The exceptions of LimitsHold are those that the code leaves open, and no
\* others.
THEOREM OnlySurprisesOverrun == LimitSpec => []OverranExplained
<1>1. LimitInit => OverranExplained
  BY DEF LimitInit, OverranExplained
<1>2. OverranExplained /\ [LimitNext]_allVars => OverranExplained'
  BY OverranExplainedStep
<1> QED
  BY <1>1, <1>2, PTL DEF LimitSpec

\* At a strict meter a state that respects the limit is within it.
LEMMA StrictIsWithin ==
  ASSUME OverranExplained, NEW m \in Meters, Strict(m), NEW X \in SUBSET Requests, Respects(m, X)
  PROVE  Within(m, Used[m][X])
<1>1. {r \in X : <<r, m>> \notin overran} = X
  BY DEF OverranExplained, Strict
<1> QED
  BY <1>1 DEF Respects

\* No state exceeds the limit of a strict meter.
StrictLimitsHold ==
  \A m \in Meters : Strict(m) =>
    /\ Within(m, Used[m][db])
    /\ \A p \in Procs : Within(m, Used[m][mem[p]]) /\ Within(m, Used[m][image[p]])
    /\ \A r \in Requests : Within(m, Used[m][snap[r]])

\* What is checked and counted in one section stays within its limit in every
\* state, whatever fails and whatever is rolled back meanwhile.
THEOREM StrictLimitsAlwaysHold == LimitSpec => []StrictLimitsHold
<1>1. LimitInv /\ LimitsHold /\ OverranExplained => StrictLimitsHold
  <2> SUFFICES ASSUME LimitInv, LimitsHold, OverranExplained, NEW m \in Meters, Strict(m)
               PROVE  /\ Within(m, Used[m][db])
                      /\ \A p \in Procs : Within(m, Used[m][mem[p]]) /\ Within(m, Used[m][image[p]])
                      /\ \A r \in Requests : Within(m, Used[m][snap[r]])
    BY DEF StrictLimitsHold
  <2>1. /\ Respects(m, db)
        /\ \A p \in Procs : Respects(m, mem[p]) /\ Respects(m, image[p])
        /\ \A r \in Requests : Respects(m, snap[r])
    BY DEF LimitsHold
  <2>2. /\ db \in SUBSET Requests
        /\ mem \in [Procs -> SUBSET Requests] /\ image \in [Procs -> SUBSET Requests]
        /\ snap \in [Requests -> SUBSET Requests]
    BY DEF LimitInv, LimitTypeOK, TypeOK
  <2>3. \A X \in SUBSET Requests : Respects(m, X) => Within(m, Used[m][X])
    BY StrictIsWithin
  <2> QED
    BY <2>1, <2>2, <2>3
<1> QED
  BY <1>1, LimitInvariant, LimitsAlwaysHold, OnlySurprisesOverrun, PTL

\* Of the requests that count at a strict meter with a limit of one, at most
\* one is told that it was successful and overlapped no failing handler.
OneWinner ==
  \A m \in Meters : Strict(m) /\ Limit[m] = 1 =>
    \A r, s \in Requests :
      /\ Cost[r][m] > 0 /\ pc[r] = "acked" /\ Undisturbed(r)
      /\ Cost[s][m] > 0 /\ pc[s] = "acked" /\ Undisturbed(s)
      => r = s

\* Two people are never both told that they are the first administrator, two
\* accounts never both get one email, the last place of an invitation never
\* goes to two users, over rollbacks, uncertain commits and restarts.
THEOREM AtMostOneWinner == ASSUME OneProcess PROVE LimitSpec => []OneWinner
<1>1. AnsweredFitLimits /\ OverranExplained => OneWinner
  <2> SUFFICES ASSUME AnsweredFitLimits, OverranExplained,
                      NEW m \in Meters, Strict(m), Limit[m] = 1,
                      NEW r \in Requests, NEW s \in Requests, r # s,
                      Cost[r][m] > 0, pc[r] = "acked", Undisturbed(r),
                      Cost[s][m] > 0, pc[s] = "acked", Undisturbed(s)
               PROVE  FALSE
    BY DEF OneWinner
  <2> DEFINE A == {q \in Requests : pc[q] = "acked" /\ Undisturbed(q)}
  <2>1. Respects(m, A)
    BY DEF AnsweredFitLimits
  <2>2. A \in SUBSET Requests /\ {r, s} \subseteq A
    OBVIOUS
  <2> HIDE DEF A
  <2>3. Within(m, Used[m][A])
    BY <2>1, <2>2, StrictIsWithin
  <2>4. Within(m, Used[m][{r, s}])
    BY <2>2, <2>3, PartIsWithin
  <2>5. Used[m][{} \cup {r}] = Used[m][{}] + Cost[r][m] /\ Used[m][{}] \in Nat /\ Cost[r][m] \in Nat
    <3>1. {} \in SUBSET Requests /\ r \in Requests \ {}
      OBVIOUS
    <3> QED
      BY ONLY <3>1, CountsAddUp, m \in Meters
  <2>6. Used[m][{r} \cup {s}] = Used[m][{r}] + Cost[s][m] /\ Cost[s][m] \in Nat
    <3>1. {r} \in SUBSET Requests /\ s \in Requests \ {r}
      OBVIOUS
    <3> QED
      BY ONLY <3>1, CountsAddUp, m \in Meters
  <2>7. {} \cup {r} = {r} /\ {r} \cup {s} = {r, s}
    OBVIOUS
  <2>8. Used[m][{r, s}] > 1 /\ Used[m][{r, s}] \in Nat
    BY <2>5, <2>6, <2>7
  <2> QED
    BY <2>4, <2>8, MeterAssumption DEF Within
<1> QED
  BY <1>1, AnswersFit, OneProcess, OnlySurprisesOverrun, PTL
=============================================================================
