------------------------------ MODULE Limiter ------------------------------
(***************************************************************************)
(* What the limit lifecycle promises, without cgroups, goroutines and      *)
(* locks: a user is listed as limited by a decision, its processes follow  *)
(* the decision, and nothing else confines or frees anybody.               *)
(*                                                                         *)
(* LimitsManager implements this specification (LimiterSpec there) as long *)
(* as no cgroupfs write fails and the goroutines of an operation end       *)
(* before the next operation begins.                                       *)
(***************************************************************************)
CONSTANT Users

VARIABLE status

\* "free": neither listed nor confined.  "joining": listed, its processes are
\* still outside.  "limited": listed and confined.  "leaving": released, its
\* processes are still confined.
Statuses == {"free", "joining", "limited", "leaving"}

Init == status = [u \in Users |-> "free"]

\* A decision lists one more user.
List(u) ==
    /\ status[u] = "free"
    /\ status' = [status EXCEPT ![u] = "joining"]

\* A decision releases users that are confined, any number of them at once.
Unlist(S) ==
    /\ \A u \in S : status[u] = "limited"
    /\ status' = [u \in Users |-> IF u \in S THEN "leaving" ELSE status[u]]

\* The processes of a user follow what was decided.
Confine(u) ==
    /\ status[u] = "joining"
    /\ status' = [status EXCEPT ![u] = "limited"]

Free(u) ==
    /\ status[u] = "leaving"
    /\ status' = [status EXCEPT ![u] = "free"]

Next ==
    \/ \E S \in SUBSET Users : Unlist(S)
    \/ \E u \in Users : List(u) \/ Confine(u) \/ Free(u)

\* What may happen; decisions may never come.
SafetySpec == Init /\ [][Next]_status

\* What was decided is carried out.
Spec == SafetySpec /\ \A u \in Users : WF_status(Confine(u)) /\ WF_status(Free(u))
=============================================================================
