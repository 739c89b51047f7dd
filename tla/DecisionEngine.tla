--------------------------- MODULE DecisionEngine ---------------------------
(***************************************************************************)
(* makeDecision: when a control cycle turns the limits on, leaves them as  *)
(* they are, or turns them off; and the trackers it keeps for that.        *)
(*                                                                         *)
(* A cycle is one step: it holds opMu from the sample to the execution of  *)
(* the decision, and the goroutines that LimitsManager details touch none  *)
(* of these variables.  A cycle inside a blackout timeframe changes        *)
(* nothing, so it is a stuttering step.  Time is counted in ticks; a       *)
(* time.Time of the code is kept as the time since then, up to the         *)
(* duration that it is compared with.                                      *)
(***************************************************************************)
EXTENDS Integers

CONSTANTS
    Users,
    Watched,               \* the resources with a threshold, out of Resources
    CPUThresholdDuration,  \* in ticks; 0 for no time window
    IOThresholdDuration,
    MinActiveTime,
    EnoughCores,           \* TotalCores > MIN_SYSTEM_CORES
    IgnoreSystemLoad,
    MCPWrite,              \* forced operations are possible
    Faults                 \* a user's sub-cgroup may fail to be created

Resources == {"cpu", "ram", "io"}

ASSUME DecisionAssumption ==
    /\ {"cpu"} \subseteq Watched /\ Watched \subseteq Resources
    /\ {CPUThresholdDuration, IOThresholdDuration, MinActiveTime} \subseteq Nat
    /\ {EnoughCores, IgnoreSystemLoad, MCPWrite, Faults} \subseteq BOOLEAN

VARIABLES
    limitsActive,
    activeUsers,
    appliedFor,            \* time since limitsAppliedTime
    overFor,               \* thresholdTracker: time since firstOverThresholdTime
    ioOverFor,             \* ioThresholdTracker
    underThreshold         \* stabilityTracker, counted up to CountBound

vars == <<limitsActive, activeUsers, appliedFor, overFor, ioOverFor,
          underThreshold>>

Zero   == -1               \* the zero time.Time
Stable == 3
CountBound == Stable + 1   \* more than any test of a counter asks for

TypeOK ==
    /\ limitsActive \in BOOLEAN
    /\ activeUsers \subseteq Users
    /\ appliedFor \in {Zero} \cup 0 .. MinActiveTime
    /\ overFor \in {Zero} \cup 0 .. CPUThresholdDuration
    /\ ioOverFor \in {Zero} \cup 0 .. IOThresholdDuration
    /\ underThreshold \in [Users -> 0 .. CountBound]

Init ==
    /\ limitsActive = FALSE
    /\ activeUsers = {}
    /\ appliedFor = Zero
    /\ overFor = Zero
    /\ ioOverFor = Zero
    /\ underThreshold = [u \in Users |-> 0]

-----------------------------------------------------------------------------
(* What collectSystemMetrics returns.                                      *)

\* over: resources at or above their threshold; allBelow: all of them are below
\* their release thresholds, which validation keeps lower; eligible: users that
\* pass the filters, over which usage is summed; busy: users with at least 0.1%
\* CPU; calm: eligible users with an average CPU usage below
\* CPU_RELEASE_THRESHOLD.
Samples ==
    {s \in [over : SUBSET Watched, allBelow : BOOLEAN, load : BOOLEAN,
            eligible : SUBSET Users, busy : SUBSET Users, calm : SUBSET Users] :
        /\ s.calm \subseteq s.eligible
        /\ s.allBelow => s.over = {}
        /\ ~s.allBelow => s.eligible # {}
        /\ "cpu" \in s.over => s.eligible \cap s.busy # {}}

-----------------------------------------------------------------------------
(* The trackers.                                                           *)

\* ShouldActivateLimits above the threshold: the clock starts, or goes on.
Started(age) == IF age = Zero THEN 0 ELSE age

IOTimed(s) == IOThresholdDuration > 0 /\ "io" \in s.over

IOTracker(s) == IF IOTimed(s) THEN Started(ioOverFor) ELSE Zero

\* The resources over their threshold, IO only when it has been so for
\* IO_THRESHOLD_DURATION.
Exceeded(s) ==
    IF IOTimed(s) /\ IOTracker(s) < IOThresholdDuration
    THEN s.over \ {"io"} ELSE s.over

\* The counters of the stability tracker after sample s.
Counted(s) ==
    [u \in Users |->
        IF u \notin s.eligible THEN underThreshold[u]
        ELSE IF u \notin s.calm THEN 0
        ELSE IF underThreshold[u] < CountBound THEN underThreshold[u] + 1
        ELSE CountBound]

ResetTrackers == overFor' = Zero /\ ioOverFor' = Zero

-----------------------------------------------------------------------------
(* The effects of the three decisions.                                     *)

\* activateLimits: limitsAppliedTime is set when a user came or went (is gone
\* from the metrics).
ActivateLimits(eligible, gone) ==
    \E limited \in SUBSET (eligible \ activeUsers) :
        /\ limited = eligible \ activeUsers \/ Faults
        /\ activeUsers' = (activeUsers \ gone) \cup limited
        /\ IF limited \cup gone # {}
           THEN limitsActive' = TRUE /\ appliedFor' = 0
           ELSE UNCHANGED <<limitsActive, appliedFor>>

\* deactivateLimits forgets the counters of the users it frees, and those only.
DeactivateLimits(counts) ==
    /\ limitsActive' = FALSE
    /\ activeUsers' = {}
    /\ appliedFor' = Zero
    /\ underThreshold' = [u \in Users |-> IF u \in activeUsers THEN 0 ELSE counts[u]]

\* Mutant: limitsAppliedTime is not set when a user comes back.
ReleaseIdleUsersSameTime(s) ==
    /\ activeUsers' = (activeUsers \cap s.busy) \cup (s.eligible \cap s.busy)
    /\ UNCHANGED <<limitsActive, appliedFor>>

\* Mutant: limitsAppliedTime is set in every cycle.
ReleaseIdleUsersRestarts(s) ==
    /\ activeUsers' = (activeUsers \cap s.busy) \cup (s.eligible \cap s.busy)
    /\ appliedFor' = 0
    /\ UNCHANGED limitsActive

\* releaseIdleUsers, with limits active.
ReleaseIdleUsers(s) ==
    \E added \in SUBSET ((s.eligible \cap s.busy) \ activeUsers) :
        /\ added = (s.eligible \cap s.busy) \ activeUsers \/ Faults
        /\ activeUsers' = (activeUsers \cap s.busy) \cup added
        /\ appliedFor' = IF added # {} THEN 0 ELSE appliedFor
        /\ UNCHANGED limitsActive

-----------------------------------------------------------------------------
(* makeDecision and executeDecision, limits not active.                    *)

Blocked(s) == ~EnoughCores \/ (s.load /\ ~IgnoreSystemLoad)

\* CPU alone has to be over its threshold for CPU_THRESHOLD_DURATION.
MustWait(s) ==
    /\ Exceeded(s) = {"cpu"}
    /\ CPUThresholdDuration > 0
    /\ Started(overFor) < CPUThresholdDuration

CPUTracker(s) ==
    IF "cpu" \in s.over /\ CPUThresholdDuration > 0 THEN Started(overFor) ELSE overFor

CycleActivates(s) ==
    /\ ~limitsActive
    /\ Exceeded(s) # {} /\ ~Blocked(s) /\ ~MustWait(s)
    /\ overFor' = CPUTracker(s)
    /\ ioOverFor' = IOTracker(s)
    /\ ActivateLimits(s.eligible, {})
    /\ UNCHANGED underThreshold

CycleWaits(s) ==
    /\ ~limitsActive
    /\ ~Blocked(s) /\ MustWait(s)
    /\ overFor' = CPUTracker(s)
    /\ ioOverFor' = IOTracker(s)
    /\ UNCHANGED <<limitsActive, activeUsers, appliedFor, underThreshold>>

\* Within the normal range, or held back by the load or the number of cores.
CycleStaysOff(s) ==
    /\ ~limitsActive
    /\ Exceeded(s) = {} \/ Blocked(s)
    /\ ResetTrackers
    /\ UNCHANGED <<limitsActive, activeUsers, appliedFor, underThreshold>>

-----------------------------------------------------------------------------
(* makeDecision and executeDecision, limits active.                        *)

OldEnough == appliedFor >= MinActiveTime

IsStable(s) == \A u \in s.eligible : Counted(s)[u] >= Stable

CycleKeeps(s) ==
    /\ limitsActive
    /\ ~OldEnough \/ ~s.allBelow
    /\ ioOverFor' = IOTracker(s)
    /\ ReleaseIdleUsers(s)
    /\ UNCHANGED <<overFor, underThreshold>>

CycleCoolsDown(s) ==
    /\ limitsActive
    /\ OldEnough /\ s.allBelow
    /\ s.load \/ ~IsStable(s)
    /\ underThreshold' = Counted(s)
    /\ ioOverFor' = IOTracker(s)
    /\ ReleaseIdleUsers(s)
    /\ UNCHANGED overFor

\* Mutant: the trackers are not reset.
CycleDeactivatesNoReset(s) ==
    /\ limitsActive
    /\ OldEnough /\ s.allBelow
    /\ ~s.load /\ IsStable(s)
    /\ DeactivateLimits(Counted(s))
    /\ UNCHANGED <<overFor, ioOverFor>>

CycleDeactivates(s) ==
    /\ limitsActive
    /\ OldEnough /\ s.allBelow
    /\ ~s.load /\ IsStable(s)
    /\ ResetTrackers
    /\ DeactivateLimits(Counted(s))

Cycle(s) ==
    \/ CycleActivates(s)
    \/ CycleWaits(s)
    \/ CycleStaysOff(s)
    \/ CycleKeeps(s)
    \/ CycleCoolsDown(s)
    \/ CycleDeactivates(s)

-----------------------------------------------------------------------------
(* Forced operations and time.                                             *)

ForceActivateLimits ==
    /\ MCPWrite
    /\ \E eligible \in SUBSET Users : \E gone \in SUBSET (activeUsers \ eligible) :
          ActivateLimits(eligible, gone)
    /\ UNCHANGED <<overFor, ioOverFor, underThreshold>>

ForceDeactivateLimits ==
    /\ MCPWrite
    /\ DeactivateLimits([u \in Users |-> 0])
    /\ UNCHANGED <<overFor, ioOverFor>>

Older(age, bound) == IF age \in {Zero, bound} THEN age ELSE age + 1

Tick ==
    /\ appliedFor' = Older(appliedFor, MinActiveTime)
    /\ overFor' = Older(overFor, CPUThresholdDuration)
    /\ ioOverFor' = Older(ioOverFor, IOThresholdDuration)
    /\ UNCHANGED <<limitsActive, activeUsers, underThreshold>>
=============================================================================
