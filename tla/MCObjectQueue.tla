--------------------------- MODULE MCObjectQueue ---------------------------
(* Model-checking instances of ObjectQueue.                                *)
EXTENDS ObjectQueue, TLC

Symmetry == Permutations(Putters) \cup Permutations(Getters)
              \cup Permutations(Objects)
=============================================================================
