------------------------------- MODULE Limits -------------------------------
(***************************************************************************)
(* What the state must still allow before a handler may change it, on top  *)
(* of the write path: the quotas of a plan (image deliveries, API calls,   *)
(* uploads), the limits of an invitation per campaign, user, email,        *)
(* address and device, one first administrator, one account per email.     *)
(*                                                                         *)
(* Each of these is a meter: the requests whose effects a state holds add  *)
(* up to a number, and a request is admitted while the number stays within *)
(* the limit.  Most handlers check and count in one locked section.  An    *)
(* upload checks under a read lock, writes its objects, and counts under a *)
(* later lock, then with the variants it had not known.                    *)
(***************************************************************************)
EXTENDS StatePersistence

CONSTANTS
  Meters,
  NoLimit,    \* a quota that is nil, an invitation's limit that is 0
  Limit,      \* Limit[m]: the most a state may add up to, or NoLimit
  Used,       \* Used[m][X]: what the requests X add up to
  Cost,       \* Cost[r][m]: what the handler of r adds
  Declared,   \* Declared[r][m]: what it adds as far as it knows when it checks
  Checks,     \* Checks[r]: the meters the handler of r checks
  Uploads,    \* requests that check and count in two sections
  RiskOf      \* RiskOf[r]: the risk entry of r's handler when r is turned
              \* away or fails, or None

RiskEntries == {RiskOf[r] : r \in Requests} \ {None}
Guarded == Requests \ (Uploads \cup RiskEntries)

ASSUME MeterAssumption ==
  /\ NoLimit \notin Nat
  /\ Limit \in [Meters -> Nat \cup {NoLimit}]
  /\ Cost \in [Requests -> [Meters -> Nat]]
  /\ Declared \in [Requests -> [Meters -> Nat]]
  /\ Checks \in [Requests -> SUBSET Meters]

\* The counters add up, and more requests never count less.
ASSUME UsedAssumption ==
  /\ Used \in [Meters -> [SUBSET Requests -> Nat]]
  /\ \A m \in Meters :
       /\ Used[m][{}] = 0
       /\ \A X \in SUBSET Requests : \A r \in Requests \ X :
            Used[m][X \cup {r}] = Used[m][X] + Cost[r][m]
       /\ \A X, Y \in SUBSET Requests : X \subseteq Y => Used[m][X] <= Used[m][Y]

\* Only uploads learn later what they cost; a risk entry counts nowhere.
ASSUME ShapeAssumption ==
  /\ Uploads \subseteq Requests
  /\ RiskOf \in [Requests -> Requests \cup {None}]
  /\ RiskEntries \cap Uploads = {}
  /\ \A r \in Guarded : Declared[r] = Cost[r]
  /\ \A k \in RiskEntries : \A m \in Meters : Cost[k][m] = 0
  /\ \A r \in Requests : RiskOf[r] # None => Host[RiskOf[r]] = Host[r]

VARIABLES
  due,      \* requests whose handler runs and will count without asking again:
            \* uploads that passed their check, risk entries
  seen,     \* seen[u]: the usage that upload u was checked against
  overran   \* history: <<r, m>>: r passed the limit of m because it did not
            \* ask, or because the meter or its own cost had grown since

limitVars == <<due, seen, overran>>
allVars == <<vars, limitVars>>

NoUsage == [m \in Meters |-> 0]

LimitTypeOK ==
  /\ TypeOK
  /\ due \in SUBSET (Uploads \cup RiskEntries)
  /\ seen \in [Uploads -> [Meters -> Nat]]
  /\ overran \in SUBSET (Requests \X Meters)

LimitInit ==
  /\ Init
  /\ due = {}
  /\ seen = [u \in Uploads |-> NoUsage]
  /\ overran = {}

-----------------------------------------------------------------------------
Within(m, n) == Limit[m] = NoLimit \/ n <= Limit[m]

\* Mutant: the request itself is forgotten.
AdmitsWhileFree(r, X) == \A m \in Checks[r] : Within(m, Used[m][X])

\* CheckUsage, CheckUpload, ValidateRedeem, len(admins) = 0, email unused
Admits(r, X) == \A m \in Checks[r] : Within(m, Used[m][X] + Declared[r][m])

\* Why a request that fits what it was checked against may not fit now.
Surprise(r, m) ==
  \/ m \notin Checks[r]
  \/ r \in Uploads /\ Used[m][mem[Host[r]]] > seen[r][m]
  \/ r \in Uploads /\ Cost[r][m] > Declared[r][m]

\* r counts, whatever the meters show by now.
Count(r) ==
  /\ Mutate(r)
  /\ overran' = overran \cup
       {<<r, m>> : m \in {n \in Meters :
          Cost[r][n] > 0 /\ ~Within(n, Used[n][mem'[Host[r]]]) /\ Surprise(r, n)}}

\* Check and count in one section.
CheckAndCount(r) ==
  /\ r \in Guarded
  /\ Admits(r, mem[Host[r]])
  /\ Count(r)
  /\ UNCHANGED <<due, seen>>

\* Mutant: an entry is due even where there is none to make.
RiskFollowsAny(r) == due' = due \cup {RiskOf[r]}

\* The risk entry that follows r, if it is still to come.
RiskFollows(r) == due' = due \cup {k \in RiskEntries : RiskOf[r] = k /\ pc[k] = "idle"}

\* The check fails: nothing is counted.  The client may try again.
TurnAway(r) ==
  /\ r \in Requests \ (RiskEntries \cup due)
  /\ phase[Host[r]] = "up" /\ pc[r] = "idle"
  /\ ~Admits(r, mem[Host[r]])
  /\ RiskFollows(r)
  /\ UNCHANGED <<vars, seen, overran>>

\* recordRisk
RecordRisk(k) ==
  /\ k \in RiskEntries \cap due
  /\ Count(k)
  /\ due' = due \ {k}
  /\ UNCHANGED seen

\* uploadImage, under mu.RLock
CheckUpload(u) ==
  /\ u \in Uploads \ due
  /\ phase[Host[u]] = "up" /\ pc[u] = "idle"
  /\ Admits(u, mem[Host[u]])
  /\ due' = due \cup {u}
  /\ seen' = [seen EXCEPT ![u] = [m \in Meters |-> Used[m][mem[Host[u]]]]]
  /\ UNCHANGED <<vars, overran>>

\* PutObject of the original fails
UploadBreaksOff(u) ==
  /\ u \in Uploads \cap due
  /\ due' = due \ {u}
  /\ seen' = [seen EXCEPT ![u] = NoUsage]
  /\ UNCHANGED <<vars, overran>>

\* The objects are written; uploadImage under mu.Lock
CountUpload(u) ==
  /\ u \in Uploads \cap due
  /\ Count(u)
  /\ due' = due \ {u}
  /\ seen' = [seen EXCEPT ![u] = NoUsage]

\* A failed save has been rolled back and is answered.
AnswerFailure(r) ==
  /\ Refuse(r)
  /\ RiskFollows(r)
  /\ UNCHANGED <<seen, overran>>

\* The process dies with the handlers that were about to count.
Die(p) ==
  /\ Crash(p)
  /\ due' = {r \in due : Host[r] # p}
  /\ seen' = [u \in Uploads |-> IF Host[u] = p THEN NoUsage ELSE seen[u]]
  /\ UNCHANGED overran

\* Every request has its answer, and no risk entry is still to come.
Idle ==
  /\ \A p \in Procs : phase[p] = "up"
  /\ \A r \in Requests : pc[r] \in Settled \/ (r \in RiskEntries \ due /\ pc[r] = "idle")
  /\ UNCHANGED allVars

WriteStep(r) ==
  \/ BeginSave(r) \/ SaveCommits(r) \/ SaveFails(r)
  \/ RollBack(r) \/ Accept(r) \/ DeliveryFails(r)

LimitNext ==
  \/ \E p \in Procs : (BootLoad(p) \/ BootSave(p)) /\ UNCHANGED limitVars
  \/ \E p \in Procs : Die(p)
  \/ \E r \in Requests :
       \/ CheckAndCount(r) \/ TurnAway(r) \/ RecordRisk(r) \/ AnswerFailure(r)
       \/ CheckUpload(r) \/ UploadBreaksOff(r) \/ CountUpload(r)
       \/ WriteStep(r) /\ UNCHANGED limitVars
  \/ Idle

LimitSpec == LimitInit /\ [][LimitNext]_allVars

-----------------------------------------------------------------------------
(* Properties.                                                             *)

\* X is within the limit of m, but for the requests that overran it.
Respects(m, X) == Within(m, Used[m][{r \in X : <<r, m>> \notin overran}])

\* No state the code keeps anywhere counts more than its limits allow: not the
\* memory, not the database, not a save on its way, not a snapshot that a
\* failing handler may put back over what others have counted since.  A quota
\* is passed only by what never asks for it and by an upload, when another one
\* counted between its check and its count or by its variants; and it is
\* exceeded by no more than those add: all the others together fit.
LimitsHold ==
  \A m \in Meters :
    /\ Respects(m, db)
    /\ \A p \in Procs : Respects(m, mem[p]) /\ Respects(m, image[p])
    /\ \A r \in Requests : Respects(m, snap[r])

\* What was acknowledged, and overlapped no failing handler, fits the limits
\* together, over all rollbacks, uncertain commits and restarts: two people are
\* never both told that they are the first administrator, and an invitation
\* never brings more plans than it has places.
AnsweredFitLimits ==
  \A m \in Meters : Respects(m, {r \in Requests : pc[r] = "acked" /\ Undisturbed(r)})
=============================================================================
