------------------------- MODULE MCResultOwnership -------------------------
(* ResultOwnership for TLC: objects and pointers are interchangeable. *)
EXTENDS ResultOwnership, TLC

Symmetry == Permutations(Objs) \cup Permutations(Ptrs)
=============================================================================
