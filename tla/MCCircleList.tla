---------------------------- MODULE MCCircleList ----------------------------
(* CircleList with a ring of a few slots and two items to tell apart.      *)
EXTENDS CircleList, TLC

Symmetry == Permutations(Items)

=============================================================================
