----------------------- MODULE DecisionHistory_proofs -----------------------
(***************************************************************************)
(* Theorems about DecisionEngine and its history, for every set of users   *)
(* and every setting of the durations.                                     *)
(***************************************************************************)
EXTENDS DecisionHistory, TLAPS

\* Only Zero and the ages up to the bound are ever reached.
Ages(bound) == {Zero} \cup 0 .. bound

HistoryOK ==
    /\ TypeOK
    /\ highFor \in Ages(CPUThresholdDuration)
    /\ limitedFor \in [Users -> Ages(MinActiveTime)]
    /\ excused \in BOOLEAN

\* A tick keeps an age within its bound.
LEMMA OlderAge ==
    ASSUME NEW bound \in Nat, NEW age \in Ages(bound)
    PROVE  /\ Older(age, bound) \in Ages(bound)
           /\ age # Zero => Older(age, bound) >= age /\ Older(age, bound) # Zero
           /\ Older(Zero, bound) = Zero
BY DEF Older, Ages, Zero

\* Two clocks with the same bound keep their order.
LEMMA OlderMonotonic ==
    ASSUME NEW bound \in Nat, NEW a \in 0 .. bound, NEW b \in 0 .. bound, a <= b
    PROVE  Older(a, bound) <= Older(b, bound)
BY DEF Older, Zero

\* A tracker that is started or goes on is within its bound.
LEMMA StartedAge ==
    ASSUME NEW bound \in Nat, NEW age \in Ages(bound)
    PROVE  Started(age) \in 0 .. bound
BY DEF Started, Ages, Zero

\* The counters of the stability tracker stay between 0 and CountBound.
LEMMA CountedType ==
    ASSUME TypeOK, NEW s \in Samples
    PROVE  Counted(s) \in [Users -> 0 .. CountBound]
BY DEF Counted, TypeOK, CountBound, Stable

\* activateLimits sets well-typed values.
LEMMA ActivateType ==
    ASSUME TypeOK, NEW eligible \in SUBSET Users, NEW gone \in SUBSET Users,
           ActivateLimits(eligible, gone)
    PROVE  /\ limitsActive' \in BOOLEAN
           /\ activeUsers' \subseteq Users
           /\ appliedFor' \in {Zero} \cup 0 .. MinActiveTime
<1>1. PICK limited \in SUBSET (eligible \ activeUsers) :
        /\ activeUsers' = (activeUsers \ gone) \cup limited
        /\ IF limited \cup gone # {}
           THEN limitsActive' = TRUE /\ appliedFor' = 0
           ELSE UNCHANGED <<limitsActive, appliedFor>>
  BY DEF ActivateLimits
<1>2. activeUsers' \subseteq Users
  BY <1>1 DEF TypeOK
<1>3. 0 \in 0 .. MinActiveTime
  BY DecisionAssumption
<1>4. CASE limited \cup gone # {}
  BY <1>1, <1>2, <1>3, <1>4
<1>5. CASE limited \cup gone = {}
  BY <1>1, <1>2, <1>5 DEF TypeOK
<1>6. QED
  BY <1>4, <1>5

\* deactivateLimits sets well-typed values.
LEMMA DeactivateType ==
    ASSUME TypeOK, NEW counts \in [Users -> 0 .. CountBound], DeactivateLimits(counts)
    PROVE  /\ limitsActive' \in BOOLEAN
           /\ activeUsers' \subseteq Users
           /\ appliedFor' \in {Zero} \cup 0 .. MinActiveTime
           /\ underThreshold' \in [Users -> 0 .. CountBound]
<1>1. 0 \in 0 .. CountBound
  BY DEF CountBound, Stable
<1>2. underThreshold' \in [Users -> 0 .. CountBound]
  BY <1>1 DEF DeactivateLimits
<1>3. QED
  BY <1>2 DEF DeactivateLimits

\* A cycle keeps the types, whatever it decides.
LEMMA CycleType ==
    ASSUME HistoryOK, NEW s \in Samples, Cycle(s)
    PROVE  TypeOK'
<1> USE DecisionAssumption DEF TypeOK, HistoryOK
<1>1. Counted(s) \in [Users -> 0 .. CountBound]
  BY CountedType
<1>2. IOTracker(s) \in Ages(IOThresholdDuration)
  BY StartedAge DEF IOTracker, Ages, Zero, Started
<1>3. CPUTracker(s) \in Ages(CPUThresholdDuration)
  BY StartedAge DEF CPUTracker, Ages, Zero, Started
<1>4. s.eligible \subseteq Users
  BY DEF Samples
<1>5. CASE CycleActivates(s)
  <2>1. ActivateLimits(s.eligible, {})
    BY <1>5 DEF CycleActivates
  <2>2. /\ limitsActive' \in BOOLEAN
        /\ activeUsers' \subseteq Users
        /\ appliedFor' \in {Zero} \cup 0 .. MinActiveTime
    BY <2>1, <1>4, ActivateType
  <2>3. QED
    BY <1>2, <1>3, <1>5, <2>2 DEF CycleActivates, Ages
<1>6. CASE CycleWaits(s)
  BY <1>2, <1>3, <1>6 DEF CycleWaits, Ages
<1>7. CASE CycleStaysOff(s)
  BY <1>7 DEF CycleStaysOff, ResetTrackers
<1>8. CASE CycleKeeps(s)
  BY <1>2, <1>4, <1>8 DEF CycleKeeps, ReleaseIdleUsers, Ages
<1>9. CASE CycleCoolsDown(s)
  BY <1>1, <1>2, <1>4, <1>9 DEF CycleCoolsDown, ReleaseIdleUsers, Ages
<1>10. CASE CycleDeactivates(s)
  <2>1. DeactivateLimits(Counted(s)) /\ overFor' = Zero /\ ioOverFor' = Zero
    BY <1>10 DEF CycleDeactivates, ResetTrackers
  <2>2. QED
    BY <1>1, <2>1, DeactivateType
<1>11. QED
  BY <1>5, <1>6, <1>7, <1>8, <1>9, <1>10 DEF Cycle

\* The record of the time users have been limited keeps its type.
LEMMA LimitedTimeType ==
    ASSUME HistoryOK, LimitedTime
    PROVE  limitedFor' \in [Users -> Ages(MinActiveTime)]
BY DecisionAssumption DEF HistoryOK, LimitedTime, Ages, Zero

\* Every step keeps the types.
LEMMA HistoryStep == HistoryOK /\ [HNext]_hvars => HistoryOK'
<1> SUFFICES ASSUME HistoryOK, [HNext]_hvars PROVE HistoryOK'
  OBVIOUS
<1> USE DecisionAssumption
<1>1. CASE ControlCycle
  <2>1. PICK s \in Samples : Cycle(s) /\ Sampled(s) /\ LimitedTime
    BY <1>1 DEF ControlCycle
  <2>2. TypeOK'
    BY <2>1, CycleType
  <2>3. highFor' \in Ages(CPUThresholdDuration)
    BY <2>1, StartedAge DEF Sampled, HistoryOK, Ages
  <2>4. excused' \in BOOLEAN
    BY <2>1 DEF Sampled
  <2>5. QED
    BY <2>1, <2>2, <2>3, <2>4, LimitedTimeType DEF HistoryOK
<1>2. CASE Forced
  <2>1. CASE ForceDeactivateLimits /\ excused' = TRUE
    <3>1. [u \in Users |-> 0] \in [Users -> 0 .. CountBound]
      BY DEF CountBound, Stable
    <3>2. DeactivateLimits([u \in Users |-> 0]) /\ TypeOK
      BY <2>1 DEF ForceDeactivateLimits, HistoryOK
    <3>3. TypeOK'
      BY <2>1, <3>1, <3>2, DeactivateType DEF ForceDeactivateLimits, TypeOK
    <3>4. QED
      BY <1>2, <2>1, <3>3, LimitedTimeType DEF Forced, HistoryOK
  <2>2. CASE ForceActivateLimits /\ UNCHANGED excused
    <3>1. PICK eligible \in SUBSET Users, gone \in SUBSET activeUsers :
            ActivateLimits(eligible, gone)
      BY <2>2 DEF ForceActivateLimits
    <3>2. TypeOK /\ gone \in SUBSET Users
      BY DEF HistoryOK, TypeOK
    <3>3. TypeOK'
      BY <2>2, <3>1, <3>2, ActivateType DEF ForceActivateLimits, TypeOK
    <3>4. QED
      BY <1>2, <2>2, <3>3, LimitedTimeType DEF Forced, HistoryOK
  <2>3. QED
    BY <1>2, <2>1, <2>2 DEF Forced
<1>3. CASE Time
  <2>1. TypeOK'
    BY <1>3, OlderAge DEF Time, Tick, HistoryOK, TypeOK, Ages
  <2>2. limitedFor' \in [Users -> Ages(MinActiveTime)]
    BY <1>3, OlderAge DEF Time, HistoryOK
  <2>3. QED
    BY <1>3, <2>1, <2>2, OlderAge DEF Time, HistoryOK
<1>4. CASE UNCHANGED hvars
  BY <1>4 DEF HistoryOK, TypeOK, hvars, vars, history
<1>5. QED
  BY <1>1, <1>2, <1>3, <1>4 DEF HNext

\* The type invariant of DecisionEngine, and of its history, holds for ever.
THEOREM DecisionTypeCorrect == HSpec => []HistoryOK
<1>1. ASSUME HInit PROVE HistoryOK
  <2>1. 0 \in 0 .. CountBound
    BY DEF CountBound, Stable
  <2>2. TypeOK
    BY <1>1, <2>1 DEF HInit, Init, TypeOK
  <2>3. QED
    BY <1>1, <2>2 DEF HInit, HistoryOK, Ages
<1>2. QED
  BY <1>1, HistoryStep, PTL DEF HSpec

-----------------------------------------------------------------------------
(* SustainedOverload.                                                      *)

\* While the limits are off the CPU tracker is not older than the run of
\* samples over the threshold.
TrackerInv ==
    ~limitsActive /\ ~excused /\ overFor # Zero =>
        highFor # Zero /\ overFor <= highFor

\* A cycle keeps it, and an activation for CPU alone comes after a long run.
LEMMA TrackerCycle ==
    ASSUME HistoryOK, TrackerInv, NEW s \in Samples, Cycle(s), Sampled(s)
    PROVE  /\ TrackerInv'
           /\ ~limitsActive /\ limitsActive' /\ last' = "cpu" /\ ~excused
                => highFor' >= CPUThresholdDuration
<1> USE DecisionAssumption DEF HistoryOK, TypeOK, TrackerInv, Sampled, Zero, Ages
<1>1. CASE CycleActivates(s)
  <2>1. ~limitsActive' => excused'
    BY <1>1
  <2>2. ASSUME limitsActive', last' = "cpu", ~excused
        PROVE  highFor' >= CPUThresholdDuration
    <3>1. s.over = {"cpu"}
      BY <2>2 DEF Kind
    <3>2. Exceeded(s) = {"cpu"}
      BY <3>1 DEF Exceeded, IOTimed
    <3>3. CPUThresholdDuration = 0 \/ Started(overFor) >= CPUThresholdDuration
      BY <1>1, <3>2 DEF CycleActivates, MustWait, Started
    <3>4. highFor' = Started(highFor)
      BY <3>1
    <3>5. QED
      BY <1>1, <2>2, <3>3, <3>4 DEF Started, CycleActivates
  <2>3. QED
    BY <2>1, <2>2
<1>2. CASE CycleWaits(s)
  <2>1. "cpu" \in s.over
    BY <1>2 DEF CycleWaits, MustWait, Exceeded
  <2>2. highFor' = Started(highFor) /\ overFor' \in {overFor, Started(overFor)}
    BY <1>2, <2>1 DEF CycleWaits, CPUTracker
  <2>3. ~limitsActive' /\ ~limitsActive
    BY <1>2 DEF CycleWaits
  <2>4. ~excused' => ~excused
    BY <2>1
  <2>5. QED
    BY <2>2, <2>3, <2>4 DEF Started
<1>3. CASE CycleStaysOff(s)
  BY <1>3 DEF CycleStaysOff, ResetTrackers
<1>4. CASE CycleKeeps(s) \/ CycleCoolsDown(s)
  <2>1. limitsActive /\ limitsActive'
    BY <1>4 DEF CycleKeeps, CycleCoolsDown, ReleaseIdleUsers
  <2>2. QED
    BY <2>1
<1>5. CASE CycleDeactivates(s)
  <2>1. limitsActive /\ overFor' = Zero
    BY <1>5 DEF CycleDeactivates, ResetTrackers
  <2>2. QED
    BY <2>1
<1>6. QED
  BY <1>1, <1>2, <1>3, <1>4, <1>5 DEF Cycle

\* Every step keeps TrackerInv, and is a step that SustainedOverload allows.
LEMMA TrackerStep ==
    ASSUME HistoryOK, TrackerInv, [HNext]_hvars
    PROVE  /\ TrackerInv'
           /\ ~limitsActive /\ limitsActive' /\ last' = "cpu" /\ ~excused
                => highFor' >= CPUThresholdDuration
<1>1. CASE ControlCycle
  BY <1>1, TrackerCycle DEF ControlCycle
<1>2. CASE Forced
  <2>1. last' # "cpu"
    BY <1>2 DEF Forced
  <2>2. CASE ForceDeactivateLimits /\ excused' = TRUE
    BY <2>1, <2>2 DEF TrackerInv
  <2>3. CASE ForceActivateLimits /\ UNCHANGED excused
    <3>1. limitsActive' \/ limitsActive' = limitsActive
      BY <2>3 DEF ForceActivateLimits, ActivateLimits
    <3>2. UNCHANGED <<overFor, highFor, excused>>
      BY <1>2, <2>3 DEF Forced, ForceActivateLimits
    <3>3. QED
      BY <2>1, <3>1, <3>2 DEF TrackerInv
  <2>4. QED
    BY <1>2, <2>2, <2>3 DEF Forced
<1>3. CASE Time
  <2>1. /\ UNCHANGED <<limitsActive, excused>>
        /\ overFor' = Older(overFor, CPUThresholdDuration)
        /\ highFor' = Older(highFor, CPUThresholdDuration)
    BY <1>3 DEF Time, Tick
  <2>2. overFor \in Ages(CPUThresholdDuration) /\ highFor \in Ages(CPUThresholdDuration)
    BY DEF HistoryOK, TypeOK, Ages
  <2>3. TrackerInv'
    BY <2>1, <2>2, DecisionAssumption DEF TrackerInv, Older, Ages, Zero
  <2>4. QED
    BY <2>1, <2>3
<1>4. CASE UNCHANGED hvars
  BY <1>4 DEF TrackerInv, hvars, vars, history
<1>5. QED
  BY <1>1, <1>2, <1>3, <1>4 DEF HNext

\* makeDecision activates the limits for CPU alone only after a run of samples
\* over the threshold that lasted CPU_THRESHOLD_DURATION: for every duration,
\* every set of users and every sequence of samples.
THEOREM OverloadIsSustained == HSpec => SustainedOverload
<1>1. HInit => TrackerInv
  BY DEF HInit, Init, TrackerInv
<1>2. HistoryOK /\ TrackerInv /\ [HNext]_hvars => TrackerInv'
  BY TrackerStep
<1>3. HistoryOK /\ TrackerInv /\ [HNext]_hvars =>
        [~limitsActive /\ limitsActive' /\ last' = "cpu" /\ ~excused
           => highFor' >= CPUThresholdDuration]_hvars
  BY TrackerStep
<1>4. QED
  BY <1>1, <1>2, <1>3, DecisionTypeCorrect, PTL DEF HSpec, SustainedOverload

-----------------------------------------------------------------------------
(* MinimumServed.                                                          *)

\* limitsAppliedTime is not earlier than the moment any of the limited users
\* was limited.
AppliedInv ==
    /\ limitsActive => appliedFor # Zero
    /\ ~limitsActive => activeUsers = {}
    /\ \A u \in activeUsers : limitedFor[u] # Zero /\ appliedFor <= limitedFor[u]

\* A step that lets users in at time 0 only keeps it.
LEMMA AppliedKept ==
    ASSUME HistoryOK, AppliedInv, LimitedTime,
           NEW A \in SUBSET Users, activeUsers' = A, limitsActive',
           \/ appliedFor' = 0
           \/ appliedFor' = appliedFor /\ A \subseteq activeUsers /\ limitsActive
    PROVE  AppliedInv'
<1>1. \A u \in A : limitedFor'[u] = IF u \in activeUsers THEN limitedFor[u] ELSE 0
  BY DEF LimitedTime
<1>2. appliedFor' # Zero
  BY DEF AppliedInv, Zero
<1>3. ASSUME NEW u \in A
      PROVE  limitedFor'[u] # Zero /\ appliedFor' <= limitedFor'[u]
  BY <1>1, DecisionAssumption DEF AppliedInv, HistoryOK, Ages, Zero
<1>4. QED
  BY <1>2, <1>3 DEF AppliedInv

\* An activation keeps it: forced while the limits are on, too.
LEMMA AppliedActivate ==
    ASSUME HistoryOK, AppliedInv, LimitedTime, NEW eligible \in SUBSET Users,
           NEW gone \in SUBSET activeUsers, ActivateLimits(eligible, gone)
    PROVE  AppliedInv'
<1>1. PICK limited \in SUBSET (eligible \ activeUsers) :
        /\ activeUsers' = (activeUsers \ gone) \cup limited
        /\ IF limited \cup gone # {}
           THEN limitsActive' = TRUE /\ appliedFor' = 0
           ELSE UNCHANGED <<limitsActive, appliedFor>>
  BY DEF ActivateLimits
<1>2. (activeUsers \ gone) \cup limited \in SUBSET Users
  BY DEF HistoryOK, TypeOK
<1>3. CASE limited \cup gone # {}
  BY <1>1, <1>2, <1>3, AppliedKept
<1>4. CASE limited \cup gone = {}
  <2>1. UNCHANGED <<activeUsers, limitsActive, appliedFor>>
    BY <1>1, <1>4
  <2>2. CASE limitsActive
    BY <2>1, <2>2, AppliedKept DEF HistoryOK, TypeOK
  <2>3. CASE ~limitsActive
    BY <2>1, <2>3 DEF AppliedInv
  <2>4. QED
    BY <2>2, <2>3
<1>5. QED
  BY <1>3, <1>4

\* So does a release with its re-adds.
LEMMA AppliedRelease ==
    ASSUME HistoryOK, AppliedInv, LimitedTime, NEW s \in Samples, limitsActive,
           ReleaseIdleUsers(s)
    PROVE  AppliedInv'
<1>1. PICK added \in SUBSET ((s.eligible \cap s.busy) \ activeUsers) :
        /\ activeUsers' = (activeUsers \cap s.busy) \cup added
        /\ appliedFor' = IF added # {} THEN 0 ELSE appliedFor
        /\ UNCHANGED limitsActive
  BY DEF ReleaseIdleUsers
<1>2. (activeUsers \cap s.busy) \cup added \in SUBSET Users
  BY DEF HistoryOK, TypeOK, Samples
<1>3. QED
  BY <1>1, <1>2, AppliedKept

\* Every step keeps it, and a deactivation finds everybody old enough.
LEMMA AppliedStep ==
    ASSUME HistoryOK, AppliedInv, [HNext]_hvars
    PROVE  /\ AppliedInv'
           /\ limitsActive /\ ~limitsActive' /\ last' # "forced" =>
                \A u \in activeUsers : limitedFor[u] >= MinActiveTime
<1>1. CASE ControlCycle
  <2>1. PICK s \in Samples : Cycle(s) /\ Sampled(s) /\ LimitedTime
    BY <1>1 DEF ControlCycle
  <2>2. CASE CycleActivates(s)
    <3>1. ~limitsActive /\ ActivateLimits(s.eligible, {})
      BY <2>2 DEF CycleActivates
    <3>2. s.eligible \in SUBSET Users
      BY DEF Samples
    <3>3. QED
      BY <2>1, <3>1, <3>2, AppliedActivate
  <2>3. CASE CycleWaits(s) \/ CycleStaysOff(s)
    <3>1. ~limitsActive /\ UNCHANGED <<limitsActive, activeUsers, appliedFor>>
      BY <2>3 DEF CycleWaits, CycleStaysOff
    <3>2. QED
      BY <3>1 DEF AppliedInv
  <2>4. CASE CycleKeeps(s) \/ CycleCoolsDown(s)
    <3>1. limitsActive /\ ReleaseIdleUsers(s)
      BY <2>4 DEF CycleKeeps, CycleCoolsDown
    <3>2. limitsActive'
      BY <3>1 DEF ReleaseIdleUsers
    <3>3. QED
      BY <2>1, <3>1, <3>2, AppliedRelease
  <2>5. CASE CycleDeactivates(s)
    <3>1. /\ appliedFor >= MinActiveTime
          /\ ~limitsActive' /\ activeUsers' = {}
      BY <2>5 DEF CycleDeactivates, OldEnough, DeactivateLimits
    <3>2. \A u \in activeUsers : limitedFor[u] >= MinActiveTime
      BY <3>1, DecisionAssumption DEF AppliedInv, HistoryOK, TypeOK, Ages, Zero
    <3>3. QED
      BY <3>1, <3>2 DEF AppliedInv
  <2>6. QED
    BY <2>1, <2>2, <2>3, <2>4, <2>5 DEF Cycle
<1>2. CASE Forced
  <2>1. last' = "forced" /\ LimitedTime
    BY <1>2 DEF Forced
  <2>2. CASE ForceDeactivateLimits
    <3>1. ~limitsActive' /\ activeUsers' = {}
      BY <2>2 DEF ForceDeactivateLimits, DeactivateLimits
    <3>2. QED
      BY <2>1, <3>1 DEF AppliedInv
  <2>3. CASE ForceActivateLimits
    BY <2>1, <2>3, AppliedActivate DEF ForceActivateLimits
  <2>4. QED
    BY <1>2, <2>2, <2>3 DEF Forced
<1>3. CASE Time
  <2>1. /\ UNCHANGED <<limitsActive, activeUsers>>
        /\ appliedFor' = Older(appliedFor, MinActiveTime)
        /\ limitedFor' = [u \in Users |-> Older(limitedFor[u], MinActiveTime)]
    BY <1>3 DEF Time, Tick
  <2>2. appliedFor \in Ages(MinActiveTime) /\ activeUsers \subseteq Users
    BY DEF HistoryOK, TypeOK, Ages
  <2>3. ASSUME NEW u \in activeUsers
        PROVE  limitedFor'[u] # Zero /\ appliedFor' <= limitedFor'[u]
    <3>1. limitedFor[u] \in Ages(MinActiveTime) /\ limitedFor'[u] = Older(limitedFor[u], MinActiveTime)
      BY <2>1, <2>2 DEF HistoryOK
    <3>2. QED
      BY <2>1, <2>2, <3>1, DecisionAssumption DEF AppliedInv, Older, Ages, Zero
  <2>4. limitsActive => appliedFor' # Zero
    BY <2>1, <2>2, DecisionAssumption DEF AppliedInv, Older, Ages, Zero
  <2>5. QED
    BY <2>1, <2>3, <2>4 DEF AppliedInv
<1>4. CASE UNCHANGED hvars
  BY <1>4 DEF AppliedInv, hvars, vars, history
<1>5. QED
  BY <1>1, <1>2, <1>3, <1>4 DEF HNext

\* makeDecision deactivates only when everybody has been limited for
\* MIN_ACTIVE_TIME, whoever came and went in between and whatever was forced.
THEOREM MinimumIsServed == HSpec => MinimumServed
<1>1. HInit => AppliedInv
  BY DEF HInit, Init, AppliedInv
<1>2. HistoryOK /\ AppliedInv /\ [HNext]_hvars => AppliedInv'
  BY AppliedStep
<1>3. HistoryOK /\ AppliedInv /\ [HNext]_hvars =>
        [limitsActive /\ ~limitsActive' /\ last' # "forced" =>
           \A u \in activeUsers : limitedFor[u] >= MinActiveTime]_hvars
  BY AppliedStep
<1>4. QED
  BY <1>1, <1>2, <1>3, DecisionTypeCorrect, PTL DEF HSpec, MinimumServed

-----------------------------------------------------------------------------
(* IO alone.                                                               *)

\* IO that is over its threshold from one sample to the next, with nothing else,
\* leaves limits off that are off.
IOAloneNeverActivates ==
    [][ last = "io" /\ last' = "io" /\ ~limitsActive => ~limitsActive' ]_hvars

\* After a cycle that found nothing but IO over its threshold and left the limits
\* off, the IO tracker is empty: the same cycle has started and reset it.
IOTrackerInv == last = "io" /\ ~limitsActive => ioOverFor = Zero

\* A cycle keeps it, and does not activate in that case.
LEMMA IOTrackerCycle ==
    ASSUME IOThresholdDuration > 0, ~Faults, HistoryOK, AppliedInv, IOTrackerInv,
           NEW s \in Samples, Cycle(s), Sampled(s)
    PROVE  /\ IOTrackerInv'
           /\ last = "io" /\ last' = "io" /\ ~limitsActive => ~limitsActive'
<1>1. ASSUME last' = "io"
      PROVE  s.over = {"io"} /\ ~s.allBelow /\ s.eligible # {}
  BY <1>1 DEF Sampled, Kind, Samples
<1>2. CASE CycleActivates(s)
  <2>1. ASSUME last' = "io"
        PROVE  limitsActive' /\ last # "io"
    <3>1. activeUsers = {} /\ ~limitsActive
      BY <1>2 DEF CycleActivates, AppliedInv
    <3>2. PICK limited \in SUBSET (s.eligible \ activeUsers) :
            /\ limited = s.eligible \ activeUsers
            /\ limited # {} => limitsActive' = TRUE
      BY <1>2 DEF CycleActivates, ActivateLimits
    <3>3. limitsActive'
      BY <1>1, <2>1, <3>1, <3>2
    <3>4. Exceeded(s) # {}
      BY <1>2 DEF CycleActivates
    <3>5. ~(Started(ioOverFor) < IOThresholdDuration)
      BY <1>1, <2>1, <3>4 DEF Exceeded, IOTimed, IOTracker
    <3>6. ioOverFor # Zero
      BY <3>5 DEF Started
    <3>7. QED
      BY <3>1, <3>3, <3>6 DEF IOTrackerInv
  <2>2. QED
    BY <2>1 DEF IOTrackerInv
<1>3. CASE CycleWaits(s)
  <2>1. last' # "io"
    BY <1>1, <1>3 DEF CycleWaits, MustWait, Exceeded
  <2>2. QED
    BY <2>1 DEF IOTrackerInv
<1>4. CASE CycleStaysOff(s)
  BY <1>4 DEF CycleStaysOff, ResetTrackers, IOTrackerInv
<1>5. CASE CycleKeeps(s) \/ CycleCoolsDown(s)
  BY <1>5 DEF CycleKeeps, CycleCoolsDown, ReleaseIdleUsers, IOTrackerInv
<1>6. CASE CycleDeactivates(s)
  BY <1>6 DEF CycleDeactivates, ResetTrackers, IOTrackerInv
<1>7. QED
  BY <1>2, <1>3, <1>4, <1>5, <1>6 DEF Cycle

\* Every step keeps it.
LEMMA IOTrackerStep ==
    ASSUME IOThresholdDuration > 0, ~Faults, HistoryOK, AppliedInv, IOTrackerInv,
           [HNext]_hvars
    PROVE  /\ IOTrackerInv'
           /\ last = "io" /\ last' = "io" /\ ~limitsActive => ~limitsActive'
<1>1. CASE ControlCycle
  BY <1>1, IOTrackerCycle DEF ControlCycle
<1>2. CASE Forced
  BY <1>2 DEF Forced, IOTrackerInv
<1>3. CASE Time
  <2>1. UNCHANGED <<limitsActive, last>> /\ ioOverFor' = Older(ioOverFor, IOThresholdDuration)
    BY <1>3 DEF Time, Tick
  <2>2. QED
    BY <2>1 DEF IOTrackerInv, Older
<1>4. CASE UNCHANGED hvars
  BY <1>4 DEF IOTrackerInv, hvars, vars, history
<1>5. QED
  BY <1>1, <1>2, <1>3, <1>4 DEF HNext

\* With any IO_THRESHOLD_DURATION but 0, and however long it lasts, IO that is over
\* its threshold alone never turns the limits on once a cycle has seen it alone:
\* makeDecision resets the IO tracker in the branch it takes while it waits
\* for that duration.  This is why IOActivatesLimits fails.
THEOREM IOAloneIsNeverEnough ==
    ASSUME IOThresholdDuration > 0, ~Faults
    PROVE  HSpec => IOAloneNeverActivates
<1>1. HInit => AppliedInv /\ IOTrackerInv
  BY DEF HInit, Init, AppliedInv, IOTrackerInv
<1>2. HistoryOK /\ AppliedInv /\ [HNext]_hvars => AppliedInv'
  BY AppliedStep
<1>3. HistoryOK /\ AppliedInv /\ IOTrackerInv /\ [HNext]_hvars => IOTrackerInv'
  BY IOTrackerStep
<1>4. HistoryOK /\ AppliedInv /\ IOTrackerInv /\ [HNext]_hvars =>
        [last = "io" /\ last' = "io" /\ ~limitsActive => ~limitsActive']_hvars
  BY IOTrackerStep
<1>5. QED
  BY <1>1, <1>2, <1>3, <1>4, DecisionTypeCorrect, PTL DEF HSpec, IOAloneNeverActivates
=============================================================================
