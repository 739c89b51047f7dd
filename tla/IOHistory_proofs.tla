--------------------------- MODULE IOHistory_proofs ---------------------------
(***************************************************************************)
(* Theorems about the IO starvation remediation, for any set of users and  *)
(* any intervals: its states keep their types, no hour has more boosts     *)
(* than IO_BOOST_MAX_PER_HOUR, and with a starvation threshold nobody is   *)
(* boosted at all.                                                         *)
(***************************************************************************)
EXTENDS IOHistory, TLAPS

-----------------------------------------------------------------------------
(* Ages.                                                                   *)

\* Oldest lies beyond everything that an age is compared with.
LEMMA OldestIsOlder ==
    /\ Oldest \in Nat /\ Zero = Oldest + 1 /\ Zero \in Ages /\ 0 \in Ages
    /\ Oldest > MaxAge /\ Oldest > BoostDuration
    /\ Oldest > Threshold /\ Oldest > CheckInterval
<1> DEFINE S == {MaxAge, BoostDuration, Threshold, CheckInterval}
<1>1. \E x \in S : \A y \in S : x >= y
  BY IOAssumption
<1>2. Max(S) \in S /\ \A y \in S : Max(S) >= y
  BY <1>1 DEF Max
<1>3. Oldest = Max(S) + 1
  BY DEF Oldest
<1>4. Max(S) \in Nat /\ MaxAge \in S /\ BoostDuration \in S /\ Threshold \in S
      /\ CheckInterval \in S
  BY <1>2, IOAssumption
<1>5. /\ Max(S) >= MaxAge /\ Max(S) >= BoostDuration /\ Max(S) >= Threshold
      /\ Max(S) >= CheckInterval
  BY <1>2, <1>4
<1> HIDE DEF S
<1>6. QED
  BY <1>3, <1>4, <1>5, IOAssumption DEF Zero, Ages

\* An age grows by at most one and stays an age; it never shrinks.
LEMMA OlderAge ==
    ASSUME NEW age \in Ages
    PROVE  Older(age) \in Ages /\ Older(age) >= age /\ (age = Zero => Older(age) = Zero)
BY OldestIsOlder DEF Older, Ages

-----------------------------------------------------------------------------
(* Type correctness.                                                       *)

BoostStates ==
    [active : BOOLEAN, started : Ages, count : 0 .. MaxPerHour, last : Ages,
     starving : Ages]

\* CheckAndRemediate makes a state for a user that has none.
LEMMA NewStateType == NewState \in BoostStates
BY OldestIsOlder, IOAssumption DEF NewState, BoostStates

\* A state is told from the absence of one by its count.
LEMMA StateIsThere ==
    ASSUME NEW state \in BoostStates
    PROVE  state # NoState
<1>1. state.count <= MaxPerHour
  BY IOAssumption DEF BoostStates
<1>2. NoState.count = MaxPerHour + 1
  BY DEF NoState
<1>3. QED
  BY <1>1, <1>2, IOAssumption

\* The state that a check starts from is one.
LEMMA StateType ==
    ASSUME TypeOK, NEW u \in Users
    PROVE  State(u) \in BoostStates
BY NewStateType DEF State, TypeOK, BoostStates

\* A check of one user leaves a state, with a count that is within its bound.
LEMMA CheckedType ==
    ASSUME TypeOK, NEW u \in Users
    PROVE  Checked(u) \in BoostStates
<1>1. ASSUME NEW state \in BoostStates
      PROVE  /\ Tracked(state) \in BoostStates
             /\ Reverted(state) \in BoostStates
             /\ CheckNormal(state) \in BoostStates
             /\ MayBoost(state) => Boosted(u, state) \in BoostStates
  <2>1. Tracked(state) \in BoostStates
    BY <1>1, OldestIsOlder DEF Tracked, BoostStates
  <2>2. Reverted(state) \in BoostStates
    BY <1>1, OldestIsOlder DEF Reverted, BoostStates
  <2>3. CheckNormal(state) \in BoostStates
    BY <1>1, <2>2, OldestIsOlder DEF CheckNormal, BoostStates
  <2>4. ASSUME MayBoost(state)
        PROVE  Boosted(u, state) \in BoostStates
    <3>1. state.count \in Nat /\ state.count + 1 \in 0 .. MaxPerHour
      BY <1>1, <2>4, IOAssumption DEF MayBoost, BoostStates
    <3>2. QED
      BY <1>1, <3>1, OldestIsOlder DEF Boosted, BoostStates
  <2>5. QED
    BY <2>1, <2>2, <2>3, <2>4
<1>2. ASSUME NEW state \in BoostStates
      PROVE  CheckStarved(u, state) \in BoostStates
  <2>1. \/ MayBoost(state) /\ CheckStarved(u, state) = Boosted(u, state)
        \/ CheckStarved(u, state) \in {Reverted(state), state}
    BY DEF CheckStarved
  <2>2. QED
    BY <2>1, <1>1, <1>2
<1>3. QED
  BY <1>1, <1>2, StateType DEF Checked

\* Cleanup keeps a state, starts its count again or deletes it.
LEMMA CleanedUpType ==
    ASSUME NEW table, NEW u \in Users, table[u] = NoState \/ table[u] \in BoostStates
    PROVE  \/ CleanedUp(table)[u] = NoState
           \/ /\ table[u] \in BoostStates
              /\ CleanedUp(table)[u] = table[u]
           \/ /\ table[u] \in BoostStates /\ table[u].last > Hour
              /\ CleanedUp(table)[u] = [table[u] EXCEPT !.count = 0]
BY DEF CleanedUp

\* So does the cycle that ends with it.
LEMMA CycleTypes ==
    ASSUME TypeOK, Cycle, NEW u \in Users
    PROVE  states'[u] = NoState \/ states'[u] \in BoostStates
<1> DEFINE table == IF CheckDue THEN AfterCheck ELSE states
<1>1. table[u] = NoState \/ table[u] \in BoostStates
  BY CheckedType DEF AfterCheck, TypeOK, BoostStates
<1>2. states' = CleanedUp(table)
  BY DEF Cycle
<1> HIDE DEF table
<1>3. \A state \in BoostStates : [state EXCEPT !.count = 0] \in BoostStates
  BY IOAssumption DEF BoostStates
<1>4. QED
  BY <1>1, <1>2, <1>3, CleanedUpType

\* Time makes states older and nothing else.
LEMMA TickStates ==
    ASSUME TypeOK, Tick, NEW u \in Users, states[u] # NoState
    PROVE  /\ states[u] \in BoostStates /\ states'[u] \in BoostStates
           /\ states'[u].count = states[u].count
           /\ states'[u].last = Older(states[u].last)
<1>1. states[u] \in BoostStates
  BY DEF TypeOK, BoostStates
<1>2. states'[u] = [states[u] EXCEPT !.started = Older(@), !.last = Older(@),
                                     !.starving = Older(@)]
  BY DEF Tick
<1>3. QED
  BY <1>1, <1>2, OlderAge DEF BoostStates

\* A step keeps the types.
LEMMA TypeStep ==
    ASSUME TypeOK, [Next]_vars
    PROVE  TypeOK'
<1> USE DEF worldVars
<1>1. CASE Tick
  <2>1. \A u \in Users : states'[u] = NoState \/ states'[u] \in BoostStates
    BY <1>1, TickStates DEF Tick
  <2>2. lastCheck' \in Ages
    BY <1>1, OlderAge DEF Tick, TypeOK
  <2>3. QED
    BY <1>1, <2>1, <2>2 DEF Tick, TypeOK, BoostStates
<1>2. CASE Cycle
  <2>1. \A u \in Users : states'[u] = NoState \/ states'[u] \in BoostStates
    BY <1>2, CycleTypes
  <2>2. lastCheck' \in Ages
    BY <1>2, OldestIsOlder DEF Cycle, TypeOK
  <2>3. lifted' \subseteq Users
    BY <1>2 DEF Cycle, LiftedNow, TypeOK
  <2>4. QED
    BY <1>2, <2>1, <2>2, <2>3 DEF Cycle, TypeOK, BoostStates
<1>3. ASSUME NEW u \in Users, Change(u)
      PROVE  TypeOK'
  <2>1. \A S \in SUBSET Users : Toggled(u, S) \in SUBSET Users
    BY DEF Toggled
  <2>2. /\ limited' \in SUBSET Users /\ starved' \in SUBSET Users
        /\ unreadable' \in SUBSET Users /\ unwritable' \in SUBSET Users
    BY <1>3, <2>1 DEF Change, TypeOK
  <2>3. enabled' \in BOOLEAN
    BY <1>3 DEF Change, TypeOK
  <2>4. UNCHANGED <<lifted, states, lastCheck>>
    BY <1>3 DEF Change
  <2>5. QED
    BY <2>2, <2>3, <2>4 DEF TypeOK
<1>4. ASSUME NEW u \in Users, Activate(u)
      PROVE  TypeOK'
  BY <1>4 DEF Activate, TypeOK
<1>5. CASE UNCHANGED vars
  BY <1>5 DEF vars, TypeOK
<1>6. QED
  BY <1>1, <1>2, <1>3, <1>4, <1>5 DEF Next

\* Every age stays within the ages and every count within IO_BOOST_MAX_PER_HOUR.
THEOREM RemediationTypeCorrect == Spec => []TypeOK
<1>1. Init => TypeOK
  BY OldestIsOlder DEF Init, TypeOK
<1>2. TypeOK /\ [Next]_vars => TypeOK'
  BY TypeStep
<1>3. QED
  BY <1>1, <1>2, PTL DEF Spec

-----------------------------------------------------------------------------
(* The hourly maximum.                                                     *)

HistoryType == since \in [Users -> Ages] /\ burst \in [Users -> Nat]

\* BoostCount and LastBoostTime against the record: a user without a state has had
\* no boost for an hour; a state that was made anew, after an earlier one had been
\* deleted, has the zero time where the record has the latest boost, which is more
\* than an hour ago; and as long as the latest boost is not, BoostCount has missed
\* none of those that led to it.
CountIsKept(u) ==
    /\ states[u] = NoState => since[u] > Hour
    /\ states[u] # NoState =>
          /\ states[u].last = since[u] \/ (states[u].last > Hour /\ since[u] > Hour)
          /\ since[u] <= Hour => burst[u] <= states[u].count

CountInv == HourlyLimit /\ \A u \in Users : CountIsKept(u)

\* What a check does to the fields that count.
LEMMA CheckedCount ==
    ASSUME TypeOK, NEW u \in Users
    PROVE  \/ /\ MayBoost(Tracked(State(u)))
              /\ u \in starved \ (unreadable \cup unwritable)
              /\ Checked(u).count = State(u).count + 1 /\ Checked(u).last = 0
              /\ Checked(u).active
           \/ /\ ~(/\ MayBoost(Tracked(State(u)))
                   /\ u \in starved \ (unreadable \cup unwritable))
              /\ Checked(u).count = State(u).count /\ Checked(u).last = State(u).last
<1> DEFINE t == Tracked(State(u))
<1>1. State(u) \in BoostStates
  BY StateType
<1>2. t \in BoostStates /\ t.count = State(u).count /\ t.last = State(u).last
  BY <1>1, OldestIsOlder DEF Tracked, BoostStates
<1> HIDE DEF t
<1>3. CASE u \in unreadable
  BY <1>3 DEF Checked
<1>4. CASE u \notin unreadable /\ u \notin starved
  BY <1>1, <1>4 DEF Checked, CheckNormal, Reverted, BoostStates
<1>5. CASE u \notin unreadable /\ u \in starved
  <2>1. Checked(u) = CheckStarved(u, t)
    BY <1>5 DEF Checked, t
  <2>2. CASE MayBoost(t) /\ u \notin unwritable
    <3>1. Checked(u) = [t EXCEPT !.active = TRUE, !.started = 0, !.count = t.count + 1,
                                 !.last = 0]
      BY <2>1, <2>2 DEF CheckStarved, MayBoost, Overdue, Boosted
    <3>2. QED
      BY <1>2, <1>5, <2>2, <3>1 DEF BoostStates, t
  <2>3. CASE MayBoost(t) /\ u \in unwritable
    BY <1>2, <2>1, <2>3 DEF CheckStarved, MayBoost, Overdue, Boosted
  <2>4. CASE ~MayBoost(t)
    BY <1>2, <2>1, <2>4 DEF CheckStarved, Reverted, BoostStates, t
  <2>5. QED
    BY <2>2, <2>3, <2>4
<1>6. QED
  BY <1>3, <1>4, <1>5

\* What a cycle makes of the state of a user that it does not boost.
LEMMA CycleCount ==
    ASSUME TypeOK, Cycle, NEW u \in Users, u \notin BoostedNow, states'[u] # NoState
    PROVE  /\ states'[u].last = State(u).last
           /\ states'[u].count = State(u).count \/ State(u).last > Hour
<1> DEFINE table == IF CheckDue THEN AfterCheck ELSE states
<1>1. State(u) \in BoostStates
  BY StateType
<1>2. table[u] = NoState
      \/ (table[u] \in BoostStates /\ table[u].count = State(u).count
          /\ table[u].last = State(u).last)
  <2>1. CASE CheckDue /\ u \in limited
    <3>1. table[u] = Checked(u)
      BY <2>1 DEF AfterCheck
    <3>2. ~(MayBoost(Tracked(State(u))) /\ u \in starved \ (unreadable \cup unwritable))
      BY <2>1 DEF BoostedNow, LiftedNow
    <3>3. QED
      BY <3>1, <3>2, CheckedCount, CheckedType
  <2>2. CASE ~(CheckDue /\ u \in limited)
    <3>1. table[u] = states[u]
      BY <2>2 DEF AfterCheck
    <3>2. QED
      BY <1>1, <3>1 DEF State
  <2>3. QED
    BY <2>1, <2>2
<1>3. states' = CleanedUp(table)
  BY DEF Cycle
<1> HIDE DEF table
<1>4. /\ table[u] # NoState
      /\ \/ states'[u] = table[u]
         \/ table[u].last > Hour /\ states'[u] = [table[u] EXCEPT !.count = 0]
  BY <1>3 DEF CleanedUp
<1>5. table[u] \in BoostStates /\ table[u].count = State(u).count
      /\ table[u].last = State(u).last
  BY <1>2, <1>4
<1>6. states'[u].last = table[u].last
  BY <1>4, <1>5 DEF BoostStates
<1>7. QED
  BY <1>4, <1>5, <1>6

\* A state goes only when its latest boost is older than MaxAge.
LEMMA CycleDeletes ==
    ASSUME TypeOK, Cycle, NEW u \in Users, u \notin BoostedNow, states'[u] = NoState
    PROVE  states[u] = NoState \/ states[u].last > MaxAge
<1> DEFINE table == IF CheckDue THEN AfterCheck ELSE states
<1>1. SUFFICES ASSUME states[u] # NoState
               PROVE  states[u].last > MaxAge
  OBVIOUS
<1>2. states[u] \in BoostStates /\ State(u) = states[u]
  BY <1>1 DEF TypeOK, BoostStates, State
<1>3. table[u] \in BoostStates /\ table[u].last = states[u].last
  <2>1. CASE CheckDue /\ u \in limited
    <3>1. table[u] = Checked(u)
      BY <2>1 DEF AfterCheck
    <3>2. ~(MayBoost(Tracked(State(u))) /\ u \in starved \ (unreadable \cup unwritable))
      BY <2>1 DEF BoostedNow, LiftedNow
    <3>3. QED
      BY <1>2, <3>1, <3>2, CheckedCount, CheckedType
  <2>2. CASE ~(CheckDue /\ u \in limited)
    BY <1>2, <2>2 DEF AfterCheck
  <2>3. QED
    BY <2>1, <2>2
<1>4. states' = CleanedUp(table)
  BY DEF Cycle
<1> HIDE DEF table
<1>5. table[u] # NoState
  BY <1>3, StateIsThere
<1>6. [table[u] EXCEPT !.count = 0] \in BoostStates
  BY <1>3, IOAssumption DEF BoostStates
<1>7. QED
  BY <1>3, <1>4, <1>5, <1>6, StateIsThere DEF CleanedUp

\* The state of a user that a cycle boosts.
LEMMA CycleBoosts ==
    ASSUME TypeOK, Cycle, NEW u \in Users, u \in BoostedNow
    PROVE  /\ states'[u] # NoState /\ states'[u].last = 0
           /\ states'[u].count = State(u).count + 1
           /\ State(u).count \in Nat /\ State(u).count < MaxPerHour
<1>1. CheckDue /\ u \in limited /\ MayBoost(Tracked(State(u)))
      /\ u \in starved \ (unreadable \cup unwritable)
  BY DEF BoostedNow, LiftedNow
<1>2. Checked(u) \in BoostStates /\ Checked(u).count = State(u).count + 1
      /\ Checked(u).last = 0 /\ Checked(u).active
  BY <1>1, CheckedCount, CheckedType
<1>3. states'[u] = CleanedUp(AfterCheck)[u] /\ AfterCheck[u] = Checked(u)
  BY <1>1 DEF Cycle, AfterCheck
<1>4. Checked(u) # NoState /\ ~(Checked(u).last > Hour)
  BY <1>2, StateIsThere, IOAssumption
<1>5. states'[u] = Checked(u)
  BY <1>2, <1>3, <1>4 DEF CleanedUp
<1>6. State(u) \in BoostStates
  BY StateType
<1>7. State(u).count \in Nat /\ State(u).count < MaxPerHour
  BY <1>1, <1>6, IOAssumption DEF MayBoost, Tracked, BoostStates
<1>8. QED
  BY <1>2, <1>4, <1>5, <1>7

\* A cycle keeps the count and the record together.
LEMMA CountCycle ==
    ASSUME TypeOK, HistoryType, CountInv, HCycle, NEW u \in Users
    PROVE  CountIsKept(u)' /\ burst'[u] <= MaxPerHour /\ since'[u] \in Ages
           /\ burst'[u] \in Nat
<1>1. since[u] \in Nat /\ since[u] \in Ages /\ burst[u] \in Nat /\ burst[u] <= MaxPerHour
  BY DEF HistoryType, Ages, CountInv, HourlyLimit
<1>2. CountIsKept(u)
  BY DEF CountInv
<1>3. Cycle
  BY DEF HCycle
<1>4. CASE u \in BoostedNow
  <2>1. since'[u] = 0 /\ burst'[u] = IF since[u] <= Hour THEN burst[u] + 1 ELSE 1
    BY <1>4 DEF HCycle
  <2>2. /\ states'[u] # NoState /\ states'[u].last = 0
        /\ states'[u].count = State(u).count + 1
        /\ State(u).count \in Nat /\ State(u).count < MaxPerHour
    BY <1>3, <1>4, CycleBoosts
  <2>3. ASSUME since[u] <= Hour
        PROVE  burst[u] <= State(u).count
    <3>1. states[u] # NoState
      BY <1>1, <1>2, <2>3, IOAssumption DEF CountIsKept
    <3>2. QED
      BY <1>2, <2>3, <3>1 DEF CountIsKept, State
  <2>4. burst'[u] \in Nat /\ burst'[u] <= State(u).count + 1
    BY <1>1, <2>1, <2>2, <2>3, IOAssumption
  <2>5. QED
    BY <2>1, <2>2, <2>4, OldestIsOlder, IOAssumption DEF CountIsKept
<1>5. CASE u \notin BoostedNow
  <2>1. since'[u] = since[u] /\ burst'[u] = burst[u]
    BY <1>5 DEF HCycle
  <2>2. CASE states'[u] = NoState
    <3>1. states[u] = NoState \/ states[u].last > MaxAge
      BY <1>3, <1>5, <2>2, CycleDeletes
    <3>2. states[u] # NoState => states[u].last \in Nat
      BY DEF TypeOK, Ages
    <3>3. since[u] > Hour
      BY <1>1, <1>2, <3>1, <3>2, IOAssumption DEF CountIsKept
    <3>4. QED
      BY <1>1, <2>1, <2>2, <3>3 DEF CountIsKept
  <2>3. CASE states'[u] # NoState
    <3>1. /\ states'[u].last = State(u).last
          /\ states'[u].count = State(u).count \/ State(u).last > Hour
      BY <1>3, <1>5, <2>3, CycleCount
    <3>2. CASE states[u] = NoState
      <4>1. State(u).last = Zero /\ Zero > Hour
        BY <3>2, OldestIsOlder, IOAssumption DEF State, NewState
      <4>2. since[u] > Hour
        BY <1>2, <3>2 DEF CountIsKept
      <4>3. QED
        BY <1>1, <2>1, <2>3, <3>1, <4>1, <4>2, IOAssumption DEF CountIsKept
    <3>3. CASE states[u] # NoState
      <4>1. State(u) = states[u] /\ states[u].last \in Nat /\ states[u].count \in Nat
        BY <3>3, IOAssumption DEF State, TypeOK, Ages
      <4>2. /\ states[u].last = since[u] \/ (states[u].last > Hour /\ since[u] > Hour)
            /\ since[u] <= Hour => burst[u] <= states[u].count
        BY <1>2, <3>3 DEF CountIsKept
      <4>3. QED
        BY <1>1, <2>1, <2>3, <3>1, <4>1, <4>2, IOAssumption DEF CountIsKept
    <3>4. QED
      BY <3>2, <3>3
  <2>4. QED
    BY <2>2, <2>3
<1>6. QED
  BY <1>4, <1>5

\* So does time: both ages grow alike, and an hour does not come back.
LEMMA CountTick ==
    ASSUME TypeOK, HistoryType, CountInv, HTick, NEW u \in Users
    PROVE  CountIsKept(u)' /\ since'[u] \in Ages
<1>1. since[u] \in Ages /\ since'[u] = Older(since[u]) /\ burst' = burst
  BY DEF HistoryType, HTick
<1>2. CountIsKept(u)
  BY DEF CountInv
<1>3. since'[u] \in Ages /\ since'[u] >= since[u]
  BY <1>1, OlderAge
<1>4. CASE states[u] = NoState
  <2>1. states'[u] = NoState
    BY <1>4 DEF HTick, Tick
  <2>2. QED
    BY <1>1, <1>2, <1>3, <1>4, <2>1, IOAssumption DEF CountIsKept, Ages
<1>5. CASE states[u] # NoState
  <2>1. /\ states[u].last \in Ages /\ states'[u] # NoState
        /\ states'[u].count = states[u].count /\ states'[u].last = Older(states[u].last)
    BY <1>5, TickStates, StateIsThere DEF HTick, BoostStates
  <2>2. states'[u].last >= states[u].last /\ states'[u].last \in Ages
    BY <2>1, OlderAge
  <2>3. /\ states[u].last = since[u] \/ (states[u].last > Hour /\ since[u] > Hour)
        /\ since[u] <= Hour => burst[u] <= states[u].count
    BY <1>2, <1>5 DEF CountIsKept
  <2>4. states'[u].last = since'[u] \/ (states'[u].last > Hour /\ since'[u] > Hour)
    BY <1>1, <1>3, <2>1, <2>2, <2>3, IOAssumption DEF Ages
  <2>5. since'[u] <= Hour => burst'[u] <= states'[u].count
    BY <1>1, <1>3, <2>1, <2>3, IOAssumption DEF Ages
  <2>6. QED
    BY <1>3, <2>1, <2>4, <2>5 DEF CountIsKept
<1>6. QED
  BY <1>4, <1>5

\* A step of the record is one of the remediation, and keeps both together.
LEMMA CountStep ==
    ASSUME TypeOK, HistoryType, CountInv, [HNext]_hvars
    PROVE  [Next]_vars /\ HistoryType' /\ CountInv'
<1>1. CASE HTick
  <2>1. burst' = burst /\ Tick
    BY <1>1 DEF HTick
  <2>2. since' \in [Users -> Ages]
    BY <1>1, CountTick DEF HTick
  <2>3. QED
    BY <1>1, <2>1, <2>2, CountTick DEF CountInv, HourlyLimit, HistoryType, Next
<1>2. CASE HCycle
  <2>1. since' \in [Users -> Ages] /\ burst' \in [Users -> Nat]
    <3>1. \A u \in Users : since'[u] \in Ages /\ burst'[u] \in Nat
      BY <1>2, CountCycle
    <3>2. QED
      BY <1>2, <3>1 DEF HCycle
  <2>2. Cycle
    BY <1>2 DEF HCycle
  <2>3. QED
    BY <1>2, <2>1, <2>2, CountCycle DEF CountInv, HourlyLimit, HistoryType, Next
<1>3. ASSUME NEW u \in Users, Change(u) \/ Activate(u), UNCHANGED <<since, burst>>
      PROVE  [Next]_vars /\ HistoryType' /\ CountInv'
  <2>1. states' = states
    BY <1>3 DEF Change, Activate
  <2>2. QED
    BY <1>3, <2>1 DEF HistoryType, CountInv, CountIsKept, HourlyLimit, Next
<1>4. CASE UNCHANGED hvars
  BY <1>4 DEF hvars, vars, HistoryType, CountInv, CountIsKept, HourlyLimit
<1>5. QED
  BY <1>1, <1>2, <1>3, <1>4 DEF HNext

\* No hour has more boosts of a user than IO_BOOST_MAX_PER_HOUR, whatever Cleanup
\* deletes, however often the remediation is switched off and on, for any intervals
\* and durations.
THEOREM BoostsPerHourAreLimited == HSpec => []HourlyLimit
<1>1. HInit => TypeOK /\ HistoryType /\ CountInv
  <2>1. SUFFICES ASSUME HInit
                 PROVE  TypeOK /\ HistoryType /\ CountInv
    OBVIOUS
  <2>2. TypeOK
    BY <2>1, OldestIsOlder DEF HInit, Init, TypeOK
  <2>3. HistoryType
    BY <2>1, OldestIsOlder DEF HInit, HistoryType
  <2>4. \A u \in Users : states[u] = NoState /\ since[u] = Zero /\ burst[u] = 0
    BY <2>1 DEF HInit, Init
  <2>5. Zero > Hour
    BY OldestIsOlder, IOAssumption
  <2>6. QED
    BY <2>2, <2>3, <2>4, <2>5, IOAssumption DEF CountInv, CountIsKept, HourlyLimit
<1>2. TypeOK /\ HistoryType /\ CountInv /\ [HNext]_hvars
        => TypeOK' /\ HistoryType' /\ CountInv'
  BY CountStep, TypeStep
<1>3. CountInv => HourlyLimit
  BY DEF CountInv
<1>4. QED
  BY <1>1, <1>2, <1>3, PTL DEF HSpec

-----------------------------------------------------------------------------
(* Starvation thresholds.                                                  *)

\* Nobody has ever been boosted, and no starvation timer runs between cycles.
NobodyBoosted == lifted = {} /\ \A u \in Users : states[u] = NoState

\* A cycle deletes the timers that it starts.
LEMMA CycleForgets ==
    ASSUME Threshold > 0, TypeOK, NobodyBoosted, Cycle
    PROVE  NobodyBoosted'
<1>1. \A u \in Users : State(u) = NewState /\ states[u] = NoState
  BY DEF NobodyBoosted, State
<1>2. ~MayBoost(Tracked(NewState))
  BY OldestIsOlder, IOAssumption DEF MayBoost, Overdue, Tracked, NewState
<1>3. LiftedNow = {}
  <2>1. ASSUME NEW u \in limited
        PROVE  u \notin LiftedNow
    <3>1. State(u) = NewState
      BY <2>1, <1>1 DEF TypeOK
    <3>2. QED
      BY <1>2, <3>1 DEF LiftedNow
  <2>2. QED
    BY <2>1 DEF LiftedNow
<1>4. ASSUME NEW u \in Users
      PROVE  ~Checked(u).active /\ Checked(u).last = Zero
  <2>1. CASE u \in unreadable
    BY <1>1, <2>1 DEF Checked, NewState
  <2>2. CASE u \notin unreadable /\ u \notin starved
    BY <1>1, <2>2 DEF Checked, CheckNormal, NewState
  <2>3. CASE u \notin unreadable /\ u \in starved
    <3>1. Tracked(NewState) = [NewState EXCEPT !.starving = 0]
      BY DEF Tracked, NewState
    <3>2. ~Tracked(NewState).active /\ Tracked(NewState).last = Zero
      BY <3>1 DEF NewState
    <3>3. Checked(u) = Tracked(NewState)
      BY <1>1, <1>2, <2>3, <3>2 DEF Checked, CheckStarved
    <3>4. QED
      BY <3>2, <3>3
  <2>4. QED
    BY <2>1, <2>2, <2>3
<1>5. Zero > MaxAge
  BY OldestIsOlder, IOAssumption
<1>6. ASSUME NEW u \in Users
      PROVE  states'[u] = NoState
  <2>1. AfterCheck[u] \in {Checked(u), NoState} /\ states[u] = NoState
    BY <1>1 DEF AfterCheck
  <2>2. QED
    BY <1>4, <1>5, <2>1 DEF Cycle, CleanedUp
<1>7. lifted' = {}
  BY <1>3 DEF Cycle, NobodyBoosted
<1>8. QED
  BY <1>6, <1>7 DEF NobodyBoosted

\* With IO_STARVATION_THRESHOLD above 0, as it is by default, the remediation never
\* boosts anybody, however long the starvation lasts: why StarvedUsersBoosted fails.
THEOREM ThresholdDisablesBoosts ==
    ASSUME Threshold > 0
    PROVE  Spec => []NobodyBoosted
<1>1. Init => NobodyBoosted
  BY DEF Init, NobodyBoosted
<1>2. TypeOK /\ NobodyBoosted /\ [Next]_vars => NobodyBoosted'
  <2>1. SUFFICES ASSUME TypeOK, NobodyBoosted, [Next]_vars
                 PROVE  NobodyBoosted'
    OBVIOUS
  <2>2. CASE Tick
    BY <2>1, <2>2 DEF Tick, NobodyBoosted
  <2>3. CASE Cycle
    BY <2>1, <2>3, CycleForgets
  <2>4. ASSUME NEW u \in Users, Change(u) \/ Activate(u)
        PROVE  NobodyBoosted'
    BY <2>1, <2>4 DEF Change, Activate, NobodyBoosted
  <2>5. CASE UNCHANGED vars
    BY <2>1, <2>5 DEF vars, NobodyBoosted
  <2>6. QED
    BY <2>1, <2>2, <2>3, <2>4, <2>5 DEF Next
<1>3. QED
  BY <1>1, <1>2, RemediationTypeCorrect, PTL DEF Spec
===============================================================================
