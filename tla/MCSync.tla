------------------------------- MODULE MCSync -------------------------------
(***************************************************************************)
(* Small instances of Sync.  Each configuration gives Env the events it is *)
(* about; the sets are small enough for every interleaving of them.        *)
(***************************************************************************)
EXTENDS Sync, TLC

CONSTANTS d1, d2, d3, a1, a2, g1, g2

Symmetry == Permutations(Answers) \cup Permutations(Guests)
=============================================================================
