------------------------- MODULE MCStatePersistence -------------------------
(* Small instances of StatePersistence for TLC.                            *)
EXTENDS StatePersistence

CONSTANTS api, worker,          \* processes
          p1, p2, d1, t1        \* two plain requests, a delivering one, a task

AllOnApi == [r \in Requests |-> api]

\* The task runs in the worker, everything else in the API server.
TasksOnWorker == [r \in Requests |-> IF r = t1 THEN worker ELSE api]

KindOf == [r \in Requests |->
  CASE r = t1 -> "task" [] r = d1 -> "deliver" [] OTHER -> "plain"]
=============================================================================
