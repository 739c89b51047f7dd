-------------------------- MODULE MCCgroupTracking --------------------------
(***************************************************************************)
(* CgroupTracking for TLC: users and callers are interchangeable.          *)
(***************************************************************************)
EXTENDS CgroupTracking, TLC

Symmetry == Permutations(Users) \cup Permutations(Callers)
=============================================================================
