----------------------------- MODULE MCHandles -----------------------------
EXTENDS Handles, TLC

(* Objects and heap cells are interchangeable: nothing orders them.        *)
Symmetry == Permutations(Objs) \cup Permutations(Boxes)
=============================================================================
