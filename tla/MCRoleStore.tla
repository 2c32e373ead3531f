---------------------------- MODULE MCRoleStore -----------------------------
(* Instances of RoleStore for TLC.                                         *)
EXTENDS RoleStore, TLC

CONSTANTS u1, g1, t1, t2

RequestSymmetry == Permutations({t1, t2})
=============================================================================
