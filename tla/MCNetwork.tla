----------------------------- MODULE MCNetwork -----------------------------
(* Network on a few interchangeable slots and workers. *)
EXTENDS Network, TLC

Symmetry == Permutations(Sessions) \cup Permutations(Workers)
=============================================================================
