------------------------------- MODULE MCMove -------------------------------
(* Instances of Move for TLC. *)
EXTENDS Move, TLC
CONSTANTS t, u, w1, w2, o1, o2, o3, o4, d1, d2
Symmetry == Permutations(Objects) \cup Permutations(Drags)
=============================================================================
