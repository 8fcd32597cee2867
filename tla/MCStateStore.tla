---------------------------- MODULE MCStateStore ----------------------------
(* Small instances of StateStore. *)
EXTENDS StateStore, TLC

CONSTANTS v1, v2, v3, p1, p2

Symmetry == Permutations(Versions) \cup Permutations(Procs)
=============================================================================
