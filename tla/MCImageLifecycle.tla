-------------------------- MODULE MCImageLifecycle --------------------------
(* Small instances of ImageLifecycle for TLC.                              *)
EXTENDS ImageLifecycle, TLC

CONSTANTS j1, j2, j3, i1, i2, u1, thumbnail, h1, h2

AllOfOne == [i \in Images |-> u1]
HashOf == [i \in Images |-> h1]
Symmetry == Permutations(Jobs) \cup Permutations(Images)
=============================================================================
