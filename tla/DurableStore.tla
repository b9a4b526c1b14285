---------------------------- MODULE DurableStore ----------------------------
(***************************************************************************)
(* What a client of the image-hosting API may rely on, and nothing else:   *)
(* a request is answered at most once; an answer of success is given only  *)
(* to a request whose effect is stored, and that effect is stored for ever *)
(* after; a request answered with an error is never stored later on.       *)
(*                                                                         *)
(* How a store with a memory image, a rollback snapshot and a database     *)
(* written as a whole comes to keep this promise is StatePersistence.      *)
(***************************************************************************)

CONSTANT Requests

VARIABLES
  stored,    \* the requests whose effect is in the database
  answer     \* what each client has been told: "none", "yes" or "no"

storeVars == <<stored, answer>>

StoreInit ==
  /\ stored = {}
  /\ answer = [r \in Requests |-> "none"]

\* The contents change as a whole: effects of unanswered requests come and
\* go, effects of refused ones may only go, acknowledged ones stay.
Rewrite ==
  /\ stored' \in SUBSET Requests
  /\ \A r \in stored' \ stored : answer[r] = "none"
  /\ \A r \in stored \ stored' : answer[r] # "yes"
  /\ UNCHANGED answer

Accept(r) ==
  /\ answer[r] = "none"
  /\ r \in stored
  /\ answer' = [answer EXCEPT ![r] = "yes"]
  /\ UNCHANGED stored

Refuse(r) ==
  /\ answer[r] = "none"
  /\ answer' = [answer EXCEPT ![r] = "no"]
  /\ UNCHANGED stored

StoreNext ==
  \/ Rewrite
  \/ \E r \in Requests : Accept(r) \/ Refuse(r)

StoreSpec == StoreInit /\ [][StoreNext]_storeVars
=============================================================================
