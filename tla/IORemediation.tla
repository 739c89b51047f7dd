----------------------------- MODULE IORemediation -----------------------------
(***************************************************************************)
(* state.IORemediation, the last stage but one of a control cycle: a user  *)
(* whose IO pressure stays high gets the limits in io.max lifted for a     *)
(* while.  Times are ages, counted up to the largest value a comparison    *)
(* can tell apart.                                                         *)
(* Left out: the multiplier and the fields for the original limits, which  *)
(* applyBoost does not use.                                                *)
(***************************************************************************)
EXTENDS Naturals, FiniteSets, FiniteSetsExt

CONSTANTS
    Users,
    CheckInterval,  \* IO_STARVATION_CHECK_INTERVAL
    Threshold,      \* IO_STARVATION_THRESHOLD
    BoostDuration,  \* IO_BOOST_DURATION
    MaxPerHour,     \* IO_BOOST_MAX_PER_HOUR
    RevertOnNormal, \* IO_REVERT_ON_NORMAL
    Hour,           \* an hour
    MaxAge          \* the age Cleanup is called with, 24 hours

ASSUME IOAssumption ==
    /\ {CheckInterval, Threshold, BoostDuration, MaxPerHour, Hour, MaxAge} \subseteq Nat
    /\ RevertOnNormal \in BOOLEAN
    /\ Hour <= MaxAge

VARIABLES
    enabled,    \* IO_REMEDIATION_ENABLED of the current configuration
    limited,    \* what GetLimitedUsers returns
    starved,    \* users whose some avg10 is at or over IO_PSI_THRESHOLD
    unreadable, \* users whose io.pressure cannot be read
    unwritable, \* users whose io.max cannot be written
    lifted,     \* users whose io.max has been set to max by a boost
    states,     \* boostStates
    lastCheck   \* time since lastCheck

worldVars == <<enabled, limited, starved, unreadable, unwritable>>
vars == <<worldVars, lifted, states, lastCheck>>

NoState == [active |-> FALSE, count |-> MaxPerHour + 1]

\* Ages are counted up to Oldest; Go's zero time lies further back than any of them.
Oldest == Max({MaxAge, BoostDuration, Threshold, CheckInterval}) + 1
Zero == Oldest + 1
Ages == 0 .. Zero

NewState == [active |-> FALSE, started |-> Zero, count |-> 0, last |-> Zero,
             starving |-> Zero]

TypeOK ==
    /\ enabled \in BOOLEAN
    /\ {limited, starved, unreadable, unwritable, lifted} \subseteq SUBSET Users
    /\ \A u \in Users : states[u] = NoState \/ states[u] \in
          [active : BOOLEAN, started : Ages, count : 0 .. MaxPerHour, last : Ages,
           starving : Ages]
    /\ lastCheck \in Ages

Init ==
    /\ enabled \in BOOLEAN
    /\ limited \in SUBSET Users /\ starved \in SUBSET Users
    /\ unreadable = {} /\ unwritable = {} /\ lifted = {}
    /\ states = [u \in Users |-> NoState]
    /\ lastCheck = Zero

-------------------------------------------------------------------------------
(* The world.                                                              *)

Older(age) == IF age >= Oldest THEN age ELSE age + 1

Tick ==
    /\ lastCheck' = Older(lastCheck)
    /\ states' = [u \in Users |->
                    IF states[u] = NoState THEN NoState
                    ELSE [states[u] EXCEPT !.started = Older(@), !.last = Older(@),
                                           !.starving = Older(@)]]
    /\ UNCHANGED <<worldVars, lifted>>

\* Pressure, eligibility, faults and the configuration change between cycles.
Toggled(u, S) == IF u \in S THEN S \ {u} ELSE S \cup {u}

Change(u) ==
    /\ \/ starved' = Toggled(u, starved)
          /\ UNCHANGED <<enabled, limited, unreadable, unwritable>>
       \/ limited' = Toggled(u, limited)
          /\ UNCHANGED <<enabled, starved, unreadable, unwritable>>
       \/ unreadable' = Toggled(u, unreadable)
          /\ UNCHANGED <<enabled, limited, starved, unwritable>>
       \/ unwritable' = Toggled(u, unwritable)
          /\ UNCHANGED <<enabled, limited, starved, unreadable>>
       \/ enabled' = ~enabled
          /\ UNCHANGED <<limited, starved, unreadable, unwritable>>
    /\ UNCHANGED <<lifted, states, lastCheck>>

-------------------------------------------------------------------------------
(* CheckAndRemediate.                                                      *)

State(u) == IF states[u] = NoState THEN NewState ELSE states[u]

\* The timer starts at this check unless it runs.
Tracked(state) == IF state.starving = Zero THEN [state EXCEPT !.starving = 0] ELSE state

\* applyBoost: RemoveIOLimit writes max to io.max; when that fails nothing else
\* happens.
Boosted(u, state) ==
    IF u \in unwritable THEN state
    ELSE [state EXCEPT !.active = TRUE, !.started = 0, !.count = @ + 1, !.last = 0]

\* revertBoost: io.max is left to the control cycle.
Reverted(state) == [state EXCEPT !.active = FALSE, !.starving = Zero]

Overdue(state) == state.starving >= Threshold /\ ~state.active

MayBoost(state) == Overdue(state) /\ state.count < MaxPerHour

\* Mutant: a boost ends with the pressure only.
CheckStarvedForEver(u, state) == IF MayBoost(state) THEN Boosted(u, state) ELSE state

CheckStarved(u, state) ==
    CASE MayBoost(state) -> Boosted(u, state)
      [] state.active /\ state.started >= BoostDuration -> Reverted(state)
      [] OTHER -> state

CheckNormal(state) ==
    IF state.active /\ RevertOnNormal THEN Reverted(state)
    ELSE [state EXCEPT !.starving = Zero]

Checked(u) ==
    IF u \in unreadable THEN State(u)
    ELSE IF u \in starved THEN CheckStarved(u, Tracked(State(u)))
    ELSE CheckNormal(State(u))

\* Users whose io.max a check sets to max.
LiftedNow ==
    {u \in (limited \cap starved) \ (unreadable \cup unwritable) : MayBoost(Tracked(State(u)))}

\* What boostStates holds when CheckAndRemediate returns.
AfterCheck == [u \in Users |-> IF u \in limited THEN Checked(u) ELSE states[u]]

\* Mutant: every state without a running boost is deleted.
CleanedUpInactive(table) ==
    [u \in Users |-> IF table[u] # NoState /\ table[u].active THEN table[u] ELSE NoState]

\* Cleanup: states without a boost for MaxAge are deleted, which includes those
\* that never had one; the count starts again an hour after the latest boost.
CleanedUp(table) ==
    [u \in Users |->
        IF table[u] = NoState \/ (~table[u].active /\ table[u].last > MaxAge) THEN NoState
        ELSE IF table[u].last > Hour THEN [table[u] EXCEPT !.count = 0]
        ELSE table[u]]

CheckDue == enabled /\ lastCheck >= CheckInterval

\* stageIORemediation: the check, unless it is too early or switched off, and the
\* cleanup in every case.
Cycle ==
    /\ states' = CleanedUp(IF CheckDue THEN AfterCheck ELSE states)
    /\ lastCheck' = IF CheckDue THEN 0 ELSE lastCheck
    /\ lifted' = IF CheckDue THEN lifted \cup LiftedNow ELSE lifted
    /\ UNCHANGED worldVars

\* applyLimitsToUsers writes io.max when limits are activated for u.
Activate(u) ==
    /\ u \in lifted
    /\ lifted' = lifted \ {u}
    /\ UNCHANGED <<worldVars, states, lastCheck>>

-------------------------------------------------------------------------------

Next ==
    \/ Tick
    \/ Cycle
    \/ \E u \in Users : Change(u) \/ Activate(u)

Spec == Init /\ [][Next]_vars

\* Time goes on and the main loop runs control cycles for ever.
FairSpec == Spec /\ WF_vars(Tick) /\ WF_vars(Cycle)

-------------------------------------------------------------------------------
(* Properties.                                                             *)

\* A user for whom the remediation is switched on and nothing fails, and whose
\* IO pressure stays over IO_PSI_THRESHOLD, is boosted in the end, or has had the
\* boosts of the hour.  The code violates it for every Threshold above 0, the
\* default 300 included: Cleanup deletes the timer in the cycle that starts it.
Starving(u) ==
    enabled /\ u \in (limited \cap starved) \ (unreadable \cup unwritable)

StarvedUsersBoosted ==
    \A u \in Users :
        []<>(Starving(u) => states[u].active \/ states[u].count = MaxPerHour)

\* A boost of a user that stays eligible and whose pressure can be read ends.
BoostsExpire ==
    \A u \in Users : []<>(enabled /\ u \in limited \ unreadable => ~states[u].active)

\* No boost outlasts its end: once a user is not boosted, its io.max is not lifted.
BoostsEnd == \A u \in lifted : states[u].active

================================================================================
