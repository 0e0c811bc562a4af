--------------------------- MODULE MCPlayerSession ---------------------------
(* Small instances of PlayerSession for TLC.                               *)
EXTENDS PlayerSession, TLC

Symmetry == Permutations(Roles) \cup Permutations(Conns)

=============================================================================
