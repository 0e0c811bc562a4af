----------------------------- MODULE MCRoleData -----------------------------
(* Small instances of RoleData for TLC; roles are interchangeable.           *)
EXTENDS RoleData, TLC

Symmetry == Permutations(Roles)

=============================================================================
