------------------------------ MODULE IOHistory ------------------------------
(***************************************************************************)
(* IORemediation with a record of the boosts, which BoostCount is judged   *)
(* by: Cleanup forgets states and starts counts again.                     *)
(***************************************************************************)
EXTENDS IORemediation

VARIABLES
    since,  \* time since the latest boost of the user
    burst   \* its boosts of which each came within an hour of the one before

hvars == <<vars, since, burst>>

HInit ==
    /\ Init
    /\ since = [u \in Users |-> Zero]
    /\ burst = [u \in Users |-> 0]

HTick ==
    /\ Tick
    /\ since' = [u \in Users |-> Older(since[u])]
    /\ UNCHANGED burst

\* The users that a cycle boosts.
BoostedNow == IF CheckDue THEN LiftedNow ELSE {}

HCycle ==
    /\ Cycle
    /\ since' = [u \in Users |-> IF u \in BoostedNow THEN 0 ELSE since[u]]
    /\ burst' = [u \in Users |->
                   IF u \notin BoostedNow THEN burst[u]
                   ELSE IF since[u] <= Hour THEN burst[u] + 1 ELSE 1]

HNext ==
    \/ HTick
    \/ HCycle
    \/ \E u \in Users : (Change(u) \/ Activate(u)) /\ UNCHANGED <<since, burst>>

HSpec == HInit /\ [][HNext]_hvars

\* The fairness of FairSpec.
HFairSpec == HSpec /\ WF_hvars(HTick) /\ WF_hvars(HCycle)

-----------------------------------------------------------------------------
(* Properties.                                                             *)

\* "Maximum boosts per user per hour" (docs/resman.8:195): boosts that follow each
\* other within an hour are at most IO_BOOST_MAX_PER_HOUR, so no hour has more,
\* although Cleanup deletes states and CheckAndRemediate makes new ones with a
\* count of zero.
HourlyLimit == \A u \in Users : burst[u] <= MaxPerHour

=============================================================================
