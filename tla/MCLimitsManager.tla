-------------------------- MODULE MCLimitsManager --------------------------
(***************************************************************************)
(* Constants for model checking LimitsManager.                             *)
(***************************************************************************)
EXTENDS LimitsManager, FiniteSets, TLC

\* Users are interchangeable in every action and every property.
Symmetry == Permutations(Users)

\* Bound of the run with overlapping operations: a daemon starts with at most one
\* cgroup that an earlier one left and the tracking file does not name, and if it
\* does, no two goroutines of a user are in the same phase.
OneUnknown ==
    /\ Cardinality(unknown) <= 1
    /\ unknown # {} => \A u \in Users : \A p \in Phases : tasks[u][p] <= 1
=============================================================================
