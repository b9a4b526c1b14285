------------------------------ MODULE MCLimits ------------------------------
(* Small instances of Limits for TLC.                                      *)
EXTENDS Limits, FiniteSetsExt, TLC

CONSTANTS api, u1, u2,          \* the process; uploads
          d1, d2, k1,           \* deliveries and the risk entry after them
          storage, events, served   \* metrics of the plan

AllOnApi == [r \in Requests |-> api]
KindOf == [r \in Requests |-> IF r \in Uploads THEN "deliver" ELSE "plain"]

LimitOf == [m \in Meters |-> 1]
\* An upload is a processing event and stores a file, and a variant of it.
CostOf == [r \in Requests |-> [m \in Meters |->
  CASE m = storage -> IF r \in Uploads THEN 2 ELSE 0
    [] m = events -> IF r \in Uploads THEN 1 ELSE 0
    [] m = served -> IF r \in {d1, d2} THEN 1 ELSE 0]]
DeclaredOf == [r \in Requests |-> [m \in Meters |->
  IF r \in Uploads /\ m = storage THEN 1 ELSE CostOf[r][m]]]
UsedBy == [m \in Meters |-> [X \in SUBSET Requests |->
  MapThenSumSet(LAMBDA r : CostOf[r][m], X)]]
\* CheckUsage looks at every metric of the plan.
AllChecked == [r \in Requests |-> IF r = k1 THEN {} ELSE Meters]
RiskAfter == [r \in Requests |-> IF r \in {d1, d2} THEN k1 ELSE None]
Alike == Permutations({d1, d2}) \cup Permutations(Uploads)
=============================================================================
