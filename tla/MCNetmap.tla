------------------------------ MODULE MCNetmap ------------------------------
(* Requests and symmetry for model-checking Netmap. *)
EXTENDS Netmap, TLC

CONSTANTS n1, n2, p1

NoSettings == {}
NoRingLists == {}

NodeSymmetry == Permutations(Alphabet)
=============================================================================
