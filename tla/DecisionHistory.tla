-------------------------- MODULE DecisionHistory --------------------------
(***************************************************************************)
(* DecisionEngine with a record of what was sampled: what the decisions    *)
(* are to be judged by.                                                    *)
(***************************************************************************)
EXTENDS DecisionEngine

CONSTANT SamplesRemembered  \* bound of below

ASSUME HistoryAssumption == SamplesRemembered \in Nat

VARIABLES
    highFor,     \* time since the first of the latest unbroken run of cycles
                 \* that sampled CPU over its threshold
    limitedFor,  \* how long a user has been in activeUsers without a break
    below,       \* samples of the user in a row that found it calm
    excused,     \* limits went off by force, or their activation failed, and
                 \* CPU has been over its threshold in every cycle since
    last,        \* what the latest operation sampled
    parity       \* of the number of cycles: makes every cycle a step

history == <<highFor, limitedFor, below, excused, last, parity>>
hvars   == <<vars, history>>

HInit ==
    /\ Init
    /\ highFor = Zero
    /\ limitedFor = [u \in Users |-> Zero]
    /\ below = [u \in Users |-> 0]
    /\ excused = FALSE
    /\ last = "other"
    /\ parity = 0

\* Everything is below the release thresholds, for every eligible user, and
\* nobody has just come back.
Calm(s) ==
    /\ s.allBelow /\ ~s.load
    /\ s.calm = s.eligible
    /\ s.eligible \cap s.busy \subseteq activeUsers

Kind(s) ==
    IF Calm(s) THEN "calm"
    ELSE IF s.over = {"cpu"} THEN "cpu"
    ELSE IF s.over = {"io"} /\ ~s.load THEN "io" ELSE "other"

LimitedTime ==
    limitedFor' = [u \in Users |->
                     IF u \notin activeUsers' THEN Zero
                     ELSE IF u \in activeUsers THEN limitedFor[u] ELSE 0]

Sampled(s) ==
    /\ highFor' = IF "cpu" \in s.over THEN Started(highFor) ELSE Zero
    /\ below' = [u \in Users |-> IF u \notin s.eligible THEN below[u]
                                 ELSE IF u \notin s.calm THEN 0
                                 ELSE IF below[u] < SamplesRemembered
                                      THEN below[u] + 1
                                 ELSE SamplesRemembered]
    /\ excused' = (\/ excused /\ "cpu" \in s.over
                   \/ CycleActivates(s) /\ ~limitsActive')
    /\ last' = Kind(s)

ControlCycle ==
    \E s \in Samples : Cycle(s) /\ Sampled(s) /\ LimitedTime /\ parity' = 1 - parity

Forced ==
    /\ \/ ForceDeactivateLimits /\ excused' = TRUE
       \/ ForceActivateLimits /\ UNCHANGED excused
    /\ last' = "forced"
    /\ LimitedTime
    /\ UNCHANGED <<highFor, below, parity>>

Time ==
    /\ Tick
    /\ highFor' = Older(highFor, CPUThresholdDuration)
    /\ limitedFor' = [u \in Users |-> Older(limitedFor[u], MinActiveTime)]
    /\ UNCHANGED <<below, excused, last, parity>>

HNext == ControlCycle \/ Forced \/ Time

HSpec == HInit /\ [][HNext]_hvars

\* The ticker runs a cycle again and again, and time passes.
HFairSpec == HSpec /\ WF_hvars(ControlCycle) /\ WF_hvars(Time)

-----------------------------------------------------------------------------
(* Properties.                                                             *)

\* makeDecision turns the limits on for CPU alone only when every cycle of at
\* least the last CPU_THRESHOLD_DURATION sampled CPU over its threshold: the
\* tracker does not survive a calm spell, with limits on or off.  (It does
\* survive a forced deactivation and an activation that failed.)
SustainedOverload ==
    [][ ~limitsActive /\ limitsActive' /\ last' = "cpu" /\ ~excused
          => highFor' >= CPUThresholdDuration ]_hvars

\* makeDecision turns the limits off only when everybody that is limited has
\* been so for MIN_ACTIVE_TIME: also a user that joined or came back long after
\* the limits went on.
MinimumServed ==
    [][ limitsActive /\ ~limitsActive' /\ last' # "forced" =>
          \A u \in activeUsers : limitedFor[u] >= MinActiveTime ]_hvars

\* When the system stays calm the limits end: no counter, timer or tracker
\* holds them on for ever.  (That they may end too early, on counters of samples
\* that were not consecutive, is ThreeSamplesBelow.)
CalmEndsLimits == <>[](last = "calm") => <>[](~limitsActive)

\* makeDecision turns the limits off only after three samples in a row in which
\* the user was below the release threshold, for every limited user that the
\* last of them shows.
ThreeSamplesBelow ==
    [][ limitsActive /\ ~limitsActive' /\ last' = "calm" =>
          \A u \in activeUsers : below'[u] > below[u] => below'[u] >= Stable ]_hvars

\* IO that stays over its threshold turns the limits on, once
\* IO_THRESHOLD_DURATION has passed.
IOActivatesLimits == <>[](last = "io") => <>limitsActive
=============================================================================
