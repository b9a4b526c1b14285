---------------------------- MODULE MCTaskQueue ----------------------------
(* Small instances of TaskQueue for TLC.                                   *)
EXTENDS TaskQueue, TLC

CONSTANTS w1, w2, t1, t2, a1, a2

\* Workers, tasks and administrators are interchangeable in the run that
\* checks invariants only, where no set of them is told apart.
Symmetry == Permutations(Workers) \cup Permutations(Tasks) \cup Permutations(Admins)
=============================================================================
