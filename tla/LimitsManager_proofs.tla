------------------------ MODULE LimitsManager_proofs ------------------------
(***************************************************************************)
(* Theorems about LimitsManager, for every set of users and every          *)
(* combination of the features and failures its constants switch on.       *)
(***************************************************************************)
EXTENDS LimitsManager, TLAPS

TaskTable == [Users -> [Phases -> Nat]]

-----------------------------------------------------------------------------
(* The task table: what starting, ending and advancing a goroutine does.   *)

\* Starting a goroutine of user u adds one to the counter of its first phase.
LEMMA SpawnTable ==
    ASSUME tasks \in TaskTable, NEW u \in Users, NEW p \in Phases
    PROVE  /\ Spawn(u, p) \in TaskTable
           /\ \A v \in Users, q \in Phases :
                Spawn(u, p)[v][q] = IF v = u /\ q = p THEN tasks[v][q] + 1
                                    ELSE tasks[v][q]
BY DEF Spawn, TaskTable

\* Starting a goroutine for every user of S adds one to their counters only.
LEMMA SpawnAllTable ==
    ASSUME tasks \in TaskTable, NEW S \in SUBSET Users, NEW p \in Phases
    PROVE  /\ SpawnAll(S, p) \in TaskTable
           /\ \A v \in Users, q \in Phases :
                SpawnAll(S, p)[v][q] = IF v \in S /\ q = p THEN tasks[v][q] + 1
                                       ELSE tasks[v][q]
BY DEF SpawnAll, TaskTable

\* The end of a goroutine takes one from the counter of its last phase.
LEMMA FinishTable ==
    ASSUME tasks \in TaskTable, NEW u \in Users, NEW p \in Phases,
           tasks[u][p] > 0, Finish(u, p)
    PROVE  /\ tasks' \in TaskTable
           /\ \A v \in Users, q \in Phases :
                tasks'[v][q] = IF v = u /\ q = p THEN tasks[v][q] - 1
                               ELSE tasks[v][q]
BY DEF Finish, TaskTable

\* A goroutine that goes on to its next phase is counted there.
LEMMA AdvanceTable ==
    ASSUME tasks \in TaskTable, NEW u \in Users, NEW p \in Phases,
           NEW r \in Phases, p # r, tasks[u][p] > 0, Advance(u, p, r)
    PROVE  /\ tasks' \in TaskTable
           /\ \A v \in Users, q \in Phases :
                tasks'[v][q] = IF v = u /\ q = p THEN tasks[v][q] - 1
                               ELSE IF v = u /\ q = r THEN tasks[v][q] + 1
                               ELSE tasks[v][q]
BY DEF Advance, TaskTable

\* The phases have different names.
LEMMA PhaseNames ==
    /\ {"move", "knobs", "readd", "weigh", "release", "rmdir", "own"} \subseteq Phases
    /\ "move" # "knobs" /\ "readd" # "weigh" /\ "release" # "rmdir"
BY DEF Phases, WgPhases

\* A goroutine that has moved the processes of a user goes on to its next phase.
LEMMA MoveTable ==
    ASSUME tasks \in TaskTable, NEW u \in Users, NEW p \in Phases, NEW r \in Phases,
           p # r, MoveToShared(u, p, r)
    PROVE  /\ tasks' \in TaskTable
           /\ tasks[u][p] > 0
           /\ \A v \in Users, q \in Phases :
                tasks'[v][q] = IF v = u /\ q = p THEN tasks[v][q] - 1
                               ELSE IF v = u /\ q = r THEN tasks[v][q] + 1
                               ELSE tasks[v][q]
<1>1. tasks[u][p] > 0 /\ Advance(u, p, r)
  BY DEF MoveToShared
<1>2. QED
  BY <1>1, AdvanceTable

\* The goroutine of an activation.
LEMMA ActivationMoveTable ==
    ASSUME TypeOK, NEW u \in Users, MoveToShared(u, "move", "knobs")
    PROVE  /\ tasks' \in TaskTable
           /\ tasks[u]["move"] > 0
           /\ \A v \in Users, q \in Phases :
                tasks'[v][q] = IF v = u /\ q = "move" THEN tasks[v][q] - 1
                               ELSE IF v = u /\ q = "knobs" THEN tasks[v][q] + 1
                               ELSE tasks[v][q]
<1>1. tasks \in TaskTable
  BY DEF TypeOK, TaskTable
<1>2. "move" \in Phases /\ "knobs" \in Phases /\ "move" # "knobs"
  BY PhaseNames
<1>3. QED
  BY <1>1, <1>2, MoveTable

\* The goroutine of a re-added user.
LEMMA ReaddMoveTable ==
    ASSUME TypeOK, NEW u \in Users, MoveToShared(u, "readd", "weigh")
    PROVE  /\ tasks' \in TaskTable
           /\ tasks[u]["readd"] > 0
           /\ \A v \in Users, q \in Phases :
                tasks'[v][q] = IF v = u /\ q = "readd" THEN tasks[v][q] - 1
                               ELSE IF v = u /\ q = "weigh" THEN tasks[v][q] + 1
                               ELSE tasks[v][q]
<1>1. tasks \in TaskTable
  BY DEF TypeOK, TaskTable
<1>2. "readd" \in Phases /\ "weigh" \in Phases /\ "readd" # "weigh"
  BY PhaseNames
<1>3. QED
  BY <1>1, <1>2, MoveTable

\* A goroutine that releases a user ends or goes on to remove the sub-cgroup.
LEMMA EvictTable ==
    ASSUME tasks \in TaskTable, NEW u \in Users, EvictUser(u)
    PROVE  /\ tasks' \in TaskTable
           /\ tasks[u]["release"] > 0
           /\ tasks'[u]["release"] = tasks[u]["release"] - 1
           /\ \A v \in Users, q \in Phases :
                q \notin {"release", "rmdir"} \/ v # u => tasks'[v][q] = tasks[v][q]
<1>1. tasks[u]["release"] > 0
  BY DEF EvictUser
<1>2. Finish(u, "release") \/ Advance(u, "release", "rmdir")
  BY DEF EvictUser
<1>3. "release" \in Phases /\ "rmdir" \in Phases /\ "release" # "rmdir"
  BY PhaseNames
<1>4. CASE Finish(u, "release")
  <2>1. /\ tasks' \in TaskTable
        /\ \A v \in Users, q \in Phases :
             tasks'[v][q] = IF v = u /\ q = "release" THEN tasks[v][q] - 1
                            ELSE tasks[v][q]
    BY <1>1, <1>3, <1>4, FinishTable
  <2>2. QED
    BY <1>1, <1>3, <2>1
<1>5. CASE Advance(u, "release", "rmdir")
  <2>1. /\ tasks' \in TaskTable
        /\ \A v \in Users, q \in Phases :
             tasks'[v][q] = IF v = u /\ q = "release" THEN tasks[v][q] - 1
                            ELSE IF v = u /\ q = "rmdir" THEN tasks[v][q] + 1
                            ELSE tasks[v][q]
    BY <1>1, <1>3, <1>5, AdvanceTable
  <2>2. QED
    BY <1>1, <1>3, <2>1
<1>6. QED
  BY <1>2, <1>4, <1>5

-----------------------------------------------------------------------------
(* Type correctness.                                                       *)

\* One step from a well-typed state leads to a well-typed state.
LEMMA TypeStep == TypeOK /\ [Next]_vars => TypeOK'
<1> SUFFICES ASSUME TypeOK, [Next]_vars PROVE TypeOK'
  OBVIOUS
<1> USE DEF TypeOK, memory, locals, cgroups, knobs, tree, tracking, Actors, Control, Places
<1>2. CASE CreateSharedCgroup
  BY <1>2 DEF CreateSharedCgroup, Goto
<1>3. CASE ApplySharedCPULimit
  BY <1>3 DEF ApplySharedCPULimit, Goto
<1>4. CASE ActivateAborts
  BY <1>4 DEF ActivateAborts, Return, Goto
<1>5. ASSUME NEW u \in Users, LimitUser(u)
      PROVE  TypeOK'
  <2>1. Spawn(u, "move") \in TaskTable /\ Spawn(u, "knobs") \in TaskTable
    BY SpawnTable DEF TaskTable, Phases, WgPhases
  <2>2. QED
    BY <1>5, <2>1 DEF LimitUser, MakeSubDir, TaskTable
<1>6. ASSUME NEW u \in Users, LimitUserFails(u)
      PROVE  TypeOK'
  BY <1>6 DEF LimitUserFails
<1>7. ASSUME NEW u \in Users, ReaddUser(u)
      PROVE  TypeOK'
  <2>1. Spawn(u, "readd") \in TaskTable
    BY SpawnTable DEF TaskTable, Phases, WgPhases
  <2>2. QED
    BY <1>7, <2>1 DEF ReaddUser, MakeSubDir, TaskTable
<1>8. CASE EndActivate
  BY <1>8 DEF EndActivate, Return, AfterExecute, Goto
<1>9. CASE EndReadd
  BY <1>9 DEF EndReadd, Goto
<1>10. CASE ApplyPatternPolicies
  <2>1. ASSUME NEW u \in Users
        PROVE  Spawn(u, "own") \in TaskTable
    BY SpawnTable DEF TaskTable, Phases, WgPhases
  <2>2. /\ pc' \in [Actors -> Control] /\ limits' \subseteq Users
        /\ unknown' \subseteq Users /\ untracked' \subseteq Users
    BY <1>10 DEF ApplyPatternPolicies, CreateUserCgroup, Goto
  <2>3. place' \in [Users -> Places] /\ tasks' \in TaskTable
    <3>1. CASE UNCHANGED <<place, tasks>>
      BY <3>1 DEF TaskTable
    <3>2. ASSUME NEW u \in Users, ApplyCPULimitOK(u) \/ ApplyCPULimitFails(u)
          PROVE  place' \in [Users -> Places] /\ tasks' \in TaskTable
      BY <2>1, <3>2 DEF ApplyCPULimitOK, ApplyCPULimitFails, TaskTable
    <3>3. QED
      BY <1>10, <3>1, <3>2 DEF ApplyPatternPolicies
  <2>4. QED
    BY <1>10, <2>2, <2>3 DEF ApplyPatternPolicies, TaskTable
<1>11. CASE RevertPSIBoosts
  BY <1>11 DEF RevertPSIBoosts, Goto
<1>12. ASSUME NEW a \in Actors, WaitForTasks(a)
      PROVE  TypeOK'
  BY <1>12 DEF WaitForTasks, Goto
<1>13. ASSUME NEW a \in Actors, ClearState(a)
      PROVE  TypeOK'
  BY <1>13 DEF ClearState, Goto
<1>14. ASSUME NEW a \in Actors, NEW u \in Users, RestoreUser(a, u)
      PROVE  TypeOK'
  <2>1. Spawn(u, "own") \in TaskTable
    BY SpawnTable DEF TaskTable, Phases, WgPhases
  <2>2. place' \in [Users -> Places] /\ tasks' \in TaskTable
    BY <1>14, <2>1 DEF RestoreUser, ApplyCPULimitOK, ApplyCPULimitFails, TaskTable
  <2>3. unknown' \subseteq Users /\ untracked' \subseteq Users /\ limits' \subseteq Users
    BY <1>14 DEF RestoreUser, LiftLimits, CreateUserCgroup
  <2>4. QED
    BY <1>14, <2>2, <2>3 DEF RestoreUser, TaskTable
<1>15. ASSUME NEW a \in Actors, EndDeactivate(a)
      PROVE  TypeOK'
  BY <1>15 DEF EndDeactivate, Return, RemoveSharedDir, AfterExecute, Goto
<1>16. ASSUME NEW who \in {"loop", "mcp"}, RunControlCycle(who)
      PROVE  TypeOK'
  <2>1. PICK seen \in SUBSET Users, busy \in SUBSET Users, eligible \in SUBSET Users :
             /\ caller' = who
             /\ inCycle' = TRUE
             /\ StartActivate(seen, eligible) \/ ReleaseIdleUsers(busy, eligible)
    BY <1>16 DEF RunControlCycle, BeginOp, Seen
  <2>2. SpawnAll(activeUsers \ busy, "release") \in TaskTable
    BY SpawnAllTable DEF TaskTable, Phases, WgPhases
  <2>3. CASE StartActivate(seen, eligible)
    BY <2>1, <2>3 DEF StartActivate, Goto
  <2>4. CASE ReleaseIdleUsers(busy, eligible)
    <3>1. CASE limitsActive
      <4>1. tasks' \in TaskTable
        BY <2>2, <2>4, <3>1 DEF ReleaseIdleUsers, TaskTable
      <4>2. pc' \in [Actors -> Control] /\ todo' \in [Actors -> SUBSET Users]
        BY <2>4, <3>1 DEF ReleaseIdleUsers, Goto
      <4>3. QED
        BY <2>1, <2>4, <3>1, <4>1, <4>2 DEF ReleaseIdleUsers, TaskTable
    <3>2. CASE ~limitsActive
      BY <2>1, <2>4, <3>2 DEF ReleaseIdleUsers, Goto
    <3>3. QED
      BY <3>1, <3>2
  <2>5. QED
    BY <2>1, <2>3, <2>4
<1>17. ASSUME NEW who \in {"loop", "mcp"}, CycleDeactivates(who)
      PROVE  TypeOK'
  BY <1>17 DEF CycleDeactivates, BeginOp, Goto
<1>18. CASE ForceActivateLimits
  <2>1. PICK seen \in SUBSET Users, eligible \in SUBSET Users :
             caller' = "mcp" /\ inCycle' = FALSE /\ StartActivate(seen, eligible)
    BY <1>18 DEF ForceActivateLimits, BeginOp, Seen
  <2>2. QED
    BY <2>1 DEF StartActivate, Goto
<1>19. CASE ForceDeactivateLimits
  BY <1>19 DEF ForceDeactivateLimits, BeginOp, Goto
<1>20. ASSUME NEW u \in Users, OnUserPSIEvent(u)
      PROVE  TypeOK'
  BY <1>20 DEF OnUserPSIEvent, BeginOp
<1>21. ASSUME NEW u \in Users, MoveToShared(u, "move", "knobs")
      PROVE  TypeOK'
  BY ActivationMoveTable, <1>21 DEF MoveToShared, MakeSubDir, TaskTable
<1>22. ASSUME NEW u \in Users, MoveToShared(u, "readd", "weigh")
      PROVE  TypeOK'
  BY ReaddMoveTable, <1>22 DEF MoveToShared, MakeSubDir, TaskTable
<1>23. ASSUME NEW u \in Users, ApplyKnobs(u)
      PROVE  TypeOK'
  BY FinishTable, <1>23 DEF ApplyKnobs, CreateUserCgroup, TaskTable, Phases, WgPhases
<1>24. ASSUME NEW u \in Users, ApplyWeight(u)
      PROVE  TypeOK'
  BY FinishTable, <1>24 DEF ApplyWeight, TaskTable, Phases, WgPhases
<1>25. ASSUME NEW u \in Users, EvictUser(u)
      PROVE  TypeOK'
  BY EvictTable, <1>25 DEF EvictUser, BatchMayFail, TaskTable
<1>26. ASSUME NEW u \in Users, RemoveSubDir(u)
      PROVE  TypeOK'
  BY FinishTable, <1>26 DEF RemoveSubDir, TaskTable, Phases, WgPhases
<1>27. ASSUME NEW u \in Users, LateMove(u)
      PROVE  TypeOK'
  <2>1. tasks' \in TaskTable
    BY FinishTable, <1>27 DEF LateMove, TaskTable, Phases, WgPhases
  <2>2. place' \in [Users -> Places]
    BY <1>27 DEF LateMove
  <2>3. QED
    BY <1>27, <2>1, <2>2 DEF LateMove, TaskTable
<1>28. ASSUME NEW u \in Users, NewSession(u)
      PROVE  TypeOK'
  BY <1>28 DEF NewSession
<1>29. CASE BeginShutdown
  BY <1>29 DEF BeginShutdown, Goto
<1>30. CASE DrainTasks
  BY <1>30 DEF DrainTasks, Goto
<1>31. CASE CleanupAll
  BY <1>31 DEF CleanupAll, Goto
<1>32. CASE Die
  BY <1>32 DEF Die, NoTasks, Phases, WgPhases
<1>33. CASE Boot
  BY <1>33 DEF Boot
<1>34. CASE UNCHANGED vars
  BY <1>34 DEF vars
<1>35. QED
  BY <1>2, <1>3, <1>4, <1>5, <1>6, <1>7, <1>8, <1>9, <1>10, <1>11, <1>12, <1>13, <1>14, <1>15, <1>16, <1>17, <1>18, <1>19, <1>20, <1>21, <1>22, <1>23, <1>24, <1>25, <1>26, <1>27, <1>28, <1>29, <1>30, <1>31, <1>32, <1>33, <1>34
     DEF Next, Operation, OpStep, DeactivateStep, Goroutine

\* Every variable keeps its type; in particular no counter of goroutines in
\* flight ever goes below zero, so wg.Done() is never called once too often.
THEOREM TypeCorrect == Spec => []TypeOK
<1>1. Init => TypeOK
  <2>1. NoTasks \in TaskTable
    BY DEF NoTasks, TaskTable
  <2>2. QED
    BY <2>1 DEF Init, TypeOK, TaskTable, Actors, Control, Places
<1>2. QED
  BY <1>1, TypeStep, PTL DEF Spec

-----------------------------------------------------------------------------
(* The bookkeeping of state.Manager.                                       *)

\* The inductive strengthening of BookkeepingConsistent: during an activation
\* the users already in the map are backed by the flag or by the count of this
\* activation, and only releaseIdleUsers has users still to add.
BookkeepingInv ==
    /\ pc["shutdown"] = "idle" =>
        /\ BookkeepingConsistent
        /\ pc["op"] = "readd" => limitsActive
        /\ pc["op"] # "readd" => added = {}
        /\ pc["op"] = "limit" /\ activeUsers # {} => limitsActive \/ progress
    /\ pc["op"] = "clear" => Quiet


\* A step keeps the part of the invariant that is about the maps and flags.
LEMMA BookkeepingStep ==
    ASSUME TypeOK, BookkeepingInv, [Next]_vars
    PROVE  (pc["shutdown"] = "idle" =>
              /\ BookkeepingConsistent
              /\ pc["op"] = "readd" => limitsActive
              /\ pc["op"] # "readd" => added = {}
              /\ pc["op"] = "limit" /\ activeUsers # {} => limitsActive \/ progress)'
<1> DEFINE Book ==
      pc["shutdown"] = "idle" =>
        /\ BookkeepingConsistent
        /\ pc["op"] = "readd" => limitsActive
        /\ pc["op"] # "readd" => added = {}
        /\ pc["op"] = "limit" /\ activeUsers # {} => limitsActive \/ progress
<1> USE DEF TypeOK, BookkeepingInv, BookkeepingConsistent, Goto, memory, locals,
            Actors, Control
<1>1. CASE CreateSharedCgroup
  BY <1>1 DEF CreateSharedCgroup
<1>2. CASE ApplySharedCPULimit
  BY <1>2 DEF ApplySharedCPULimit
<1>3. CASE ActivateAborts
  BY <1>3 DEF ActivateAborts, Return
<1>4. ASSUME NEW u \in Users, LimitUser(u)
      PROVE  Book'
  BY <1>4 DEF LimitUser
<1>5. ASSUME NEW u \in Users, LimitUserFails(u)
      PROVE  Book'
  BY <1>5 DEF LimitUserFails
<1>6. ASSUME NEW u \in Users, ReaddUser(u)
      PROVE  Book'
  BY <1>6 DEF ReaddUser
<1>7. CASE EndActivate
  BY <1>7 DEF EndActivate, Return, AfterExecute
<1>8. CASE EndReadd
  BY <1>8 DEF EndReadd
<1>9. CASE ApplyPatternPolicies
  BY <1>9 DEF ApplyPatternPolicies
<1>10. CASE RevertPSIBoosts
  BY <1>10 DEF RevertPSIBoosts
<1>11. ASSUME NEW a \in Actors, WaitForTasks(a)
      PROVE  Book'
  BY <1>11 DEF WaitForTasks
<1>12. ASSUME NEW a \in Actors, ClearState(a)
      PROVE  Book'
  BY <1>12 DEF ClearState
<1>13. ASSUME NEW a \in Actors, NEW u \in Users, RestoreUser(a, u)
      PROVE  Book'
  BY <1>13 DEF RestoreUser
<1>14. ASSUME NEW a \in Actors, EndDeactivate(a)
      PROVE  Book'
  BY <1>14 DEF EndDeactivate, Return, AfterExecute
<1>15. ASSUME NEW who \in {"loop", "mcp"}, RunControlCycle(who)
      PROVE  Book'
  <2>1. PICK seen \in SUBSET Users, busy \in SUBSET Users, eligible \in SUBSET Users :
             /\ pc["op"] = "idle"
             /\ (~limitsActive /\ StartActivate(seen, eligible))
                  \/ ReleaseIdleUsers(busy, eligible)
    BY <1>15 DEF RunControlCycle, BeginOp, Seen
  <2>2. CASE ~limitsActive /\ StartActivate(seen, eligible)
    BY <2>1, <2>2 DEF StartActivate
  <2>3. CASE ReleaseIdleUsers(busy, eligible)
    BY <2>1, <2>3 DEF ReleaseIdleUsers
  <2>4. QED
    BY <2>1, <2>2, <2>3
<1>16. ASSUME NEW who \in {"loop", "mcp"}, CycleDeactivates(who)
      PROVE  Book'
  BY <1>16 DEF CycleDeactivates, BeginOp
<1>17. CASE ForceActivateLimits
  <2>1. PICK seen \in SUBSET Users, eligible \in SUBSET Users :
             pc["op"] = "idle" /\ StartActivate(seen, eligible)
    BY <1>17 DEF ForceActivateLimits, BeginOp, Seen
  <2>2. QED
    BY <2>1 DEF StartActivate
<1>18. CASE ForceDeactivateLimits
  BY <1>18 DEF ForceDeactivateLimits, BeginOp
<1>19. ASSUME NEW u \in Users, OnUserPSIEvent(u)
      PROVE  Book'
  BY <1>19 DEF OnUserPSIEvent, BeginOp
<1>20. ASSUME NEW u \in Users, Goroutine(u)
      PROVE  Book'
  BY <1>20 DEF Goroutine, MoveToShared, ApplyKnobs, ApplyWeight, EvictUser,
               RemoveSubDir, LateMove
<1>21. ASSUME NEW u \in Users, NewSession(u)
      PROVE  Book'
  BY <1>21 DEF NewSession
<1>22. CASE BeginShutdown
  BY <1>22 DEF BeginShutdown
<1>23. CASE DrainTasks
  BY <1>23 DEF DrainTasks
<1>24. CASE CleanupAll
  BY <1>24 DEF CleanupAll
<1>25. CASE Die
  BY <1>25 DEF Die
<1>26. CASE Boot
  BY <1>26 DEF Boot
<1>27. CASE UNCHANGED vars
  BY <1>27 DEF vars
<1>28. QED
  BY <1>1, <1>2, <1>3, <1>4, <1>5, <1>6, <1>7, <1>8, <1>9, <1>10, <1>11, <1>12, <1>13, <1>14, <1>15, <1>16, <1>17, <1>18, <1>19, <1>20, <1>21, <1>22, <1>23, <1>24, <1>25, <1>26, <1>27
     DEF Next, Operation, OpStep, DeactivateStep

\* deactivateLimits past its wg.Wait() still has no goroutine in flight: only
\* the operation itself starts them, and the mover that a timed out
\* ApplyCPULimit leaves behind is not one of them.
LEMMA QuietStep ==
    ASSUME TypeOK, BookkeepingInv, [Next]_vars, pc'["op"] = "clear"
    PROVE  Quiet'
<1> USE DEF TypeOK, Goto, Actors, Control
<1>1. CASE pc["op"] # "clear"
  <2>1. \E a \in Actors : WaitForTasks(a)
    <3>1. ASSUME NEW u \in Users
          PROVE  ~(LimitUser(u) \/ LimitUserFails(u) \/ ReaddUser(u))
      BY <1>1 DEF LimitUser, LimitUserFails, ReaddUser
    <3>2. ~(CreateSharedCgroup \/ ApplySharedCPULimit \/ ActivateAborts
            \/ EndActivate \/ EndReadd \/ ApplyPatternPolicies \/ RevertPSIBoosts)
      BY <1>1 DEF CreateSharedCgroup, ApplySharedCPULimit, ActivateAborts, EndActivate,
                  EndReadd, ApplyPatternPolicies, RevertPSIBoosts, AfterExecute
    <3>3. ASSUME NEW a \in Actors
          PROVE  ~(ClearState(a) \/ EndDeactivate(a))
      BY <1>1 DEF ClearState, EndDeactivate, AfterExecute
    <3>4. ASSUME NEW a \in Actors, NEW u \in Users
          PROVE  ~RestoreUser(a, u)
      BY <1>1 DEF RestoreUser
    <3>5. ASSUME NEW who \in {"loop", "mcp"}
          PROVE  ~(RunControlCycle(who) \/ CycleDeactivates(who))
      BY <1>1 DEF RunControlCycle, CycleDeactivates, StartActivate, ReleaseIdleUsers
    <3>6. ~(ForceActivateLimits \/ ForceDeactivateLimits)
      BY <1>1 DEF ForceActivateLimits, ForceDeactivateLimits, StartActivate
    <3>7. ASSUME NEW u \in Users
          PROVE  ~(OnUserPSIEvent(u) \/ Goroutine(u) \/ NewSession(u))
      BY <1>1 DEF OnUserPSIEvent, Goroutine, MoveToShared, ApplyKnobs, ApplyWeight,
                  EvictUser, RemoveSubDir, LateMove, NewSession
    <3>8. ~(BeginShutdown \/ DrainTasks \/ CleanupAll \/ Die \/ Boot \/ UNCHANGED vars)
      BY <1>1 DEF BeginShutdown, DrainTasks, CleanupAll, Die, Boot, vars
    <3>9. QED
      BY <3>1, <3>2, <3>3, <3>4, <3>5, <3>6, <3>7, <3>8
         DEF Next, Operation, OpStep, DeactivateStep
  <2>2. QED
    BY <2>1 DEF WaitForTasks, Quiet
<1>2. CASE pc["op"] = "clear"
  <2>1. Quiet
    BY <1>2 DEF BookkeepingInv
  <2>2. ASSUME NEW u \in Users, NEW a \in Actors, RestoreUser(a, u)
        PROVE  Quiet'
    <3>1. tasks' = tasks \/ tasks' = Spawn(u, "own")
      BY <2>2 DEF RestoreUser, ApplyCPULimitOK, ApplyCPULimitFails
    <3>2. QED
      BY <2>1, <3>1, SpawnTable DEF Quiet, TaskTable, Phases, WgPhases
  <2>3. ASSUME NEW u \in Users, Goroutine(u)
        PROVE  Quiet'
    <3>1. tasks[u]["own"] > 0 /\ Finish(u, "own")
      BY <2>1, <2>3 DEF Quiet, WgPhases, Goroutine, MoveToShared, ApplyKnobs,
                        ApplyWeight, EvictUser, RemoveSubDir, LateMove
    <3>2. QED
      BY <2>1, <3>1, FinishTable DEF Quiet, TaskTable, Phases, WgPhases
  <2>4. ASSUME ~\E u \in Users : Goroutine(u) \/ \E a \in Actors : RestoreUser(a, u)
        PROVE  tasks' = tasks
    <3>1. ASSUME NEW u \in Users
          PROVE  ~(LimitUser(u) \/ ReaddUser(u) \/ LimitUserFails(u) \/ OnUserPSIEvent(u))
      BY <1>2 DEF LimitUser, ReaddUser, LimitUserFails, OnUserPSIEvent, BeginOp
    <3>2. ~OpStep
      BY <1>2, <3>1 DEF OpStep, CreateSharedCgroup, ApplySharedCPULimit,
                        ActivateAborts, EndActivate, EndReadd, ApplyPatternPolicies,
                        RevertPSIBoosts
    <3>3. ~Operation
      BY <1>2, <3>1 DEF Operation, RunControlCycle, CycleDeactivates,
                        ForceActivateLimits, ForceDeactivateLimits, BeginOp
    <3>4. ~Die
      BY DEF Die
    <3>5. QED
      BY <2>4, <3>2, <3>3, <3>4
         DEF Next, DeactivateStep, WaitForTasks, ClearState, EndDeactivate,
             NewSession, BeginShutdown, DrainTasks, CleanupAll, Boot, vars
  <2>5. QED
    BY <2>1, <2>2, <2>3, <2>4 DEF Quiet
<1>3. QED
  BY <1>1, <1>2

\* The bookkeeping invariant holds in every reachable state.
LEMMA BookkeepingInvariant == Spec => [](TypeOK /\ BookkeepingInv)
<1>1. Init => BookkeepingInv
  BY DEF Init, BookkeepingInv, BookkeepingConsistent, Actors
<1>2. TypeOK /\ BookkeepingInv /\ [Next]_vars => BookkeepingInv'
  BY BookkeepingStep, QuietStep DEF BookkeepingInv
<1>3. QED
  BY <1>1, <1>2, TypeCorrect, TypeStep, PTL DEF Spec

\* Whatever fails, and whenever the daemon is killed, users are in activeUsers
\* only under the limitsActive flag or during the activation that will set it,
\* and active limits always have a shared cgroup path.
THEOREM BookkeepingAlwaysConsistent == Spec => []BookkeepingConsistent
<1>1. TypeOK /\ BookkeepingInv => BookkeepingConsistent
  BY DEF BookkeepingInv, BookkeepingConsistent
<1>2. QED
  BY <1>1, BookkeepingInvariant, PTL

\* deactivateLimits never clears sharedCgroupPath under a goroutine that
\* releaseIdleUsers or activateLimits has started.
THEOREM PathClearedQuietly == Spec => PathClearedOnlyWhenQuiet
<1> DEFINE Clears ==
      sharedCgroupPath /\ ~sharedCgroupPath' /\ up' /\ pc["shutdown"] = "idle"
<1>1. ASSUME TypeOK, BookkeepingInv, [Next]_vars, Clears
      PROVE  Quiet
  <2> USE DEF memory
  <2>1. \E a \in Actors : ClearState(a)
    <3>1. ASSUME NEW u \in Users
          PROVE  ~(LimitUser(u) \/ LimitUserFails(u) \/ ReaddUser(u) \/ OnUserPSIEvent(u))
      BY <1>1 DEF LimitUser, LimitUserFails, ReaddUser, OnUserPSIEvent
    <3>2. ~OpStep
      BY <1>1, <3>1 DEF OpStep, CreateSharedCgroup, ApplySharedCPULimit, ActivateAborts,
                        EndActivate, EndReadd, ApplyPatternPolicies, RevertPSIBoosts
    <3>3. ~Operation
      BY <1>1, <3>1 DEF Operation, RunControlCycle, CycleDeactivates, StartActivate,
                  ReleaseIdleUsers, ForceActivateLimits, ForceDeactivateLimits
    <3>4. ASSUME NEW u \in Users
          PROVE  ~(Goroutine(u) \/ NewSession(u))
      BY <1>1 DEF Goroutine, MoveToShared, ApplyKnobs, ApplyWeight, EvictUser,
                  RemoveSubDir, LateMove, NewSession
    <3>5. QED
      BY <1>1, <3>2, <3>3, <3>4
         DEF Next, DeactivateStep, WaitForTasks, RestoreUser, EndDeactivate,
             BeginShutdown, DrainTasks, CleanupAll, Die, Boot, vars
  <2>2. ClearState("op")
    BY <1>1, <2>1 DEF ClearState, Actors
  <2>3. QED
    BY <1>1, <2>2 DEF ClearState, BookkeepingInv
<1>2. TypeOK /\ BookkeepingInv /\ [Next]_vars => [Clears => Quiet]_vars
  BY <1>1
<1>3. QED
  BY <1>2, BookkeepingInvariant, PTL DEF Spec, PathClearedOnlyWhenQuiet

-----------------------------------------------------------------------------
(* Where the processes are, when the goroutines of an operation have ended  *)
(* before the next operation begins and nothing fails.                     *)

\* The inductive invariant behind NoStrandedUser when the goroutines of an
\* operation end before the next one and nothing fails.
PromptInv ==
    /\ up /\ pc["shutdown"] = "idle"
    /\ unknown = {}
    /\ \A u \in Users :
        /\ tasks[u]["own"] = 0
        /\ tasks[u]["move"] > 0 \/ tasks[u]["readd"] > 0
               => u \in activeUsers \cup added
        /\ place[u] = "shared" => u \in subDirs
    /\ NoStrandedUser

\* With MaxTasks = 1 an operation starts with no goroutine in flight.
LEMMA NothingInFlight ==
    ASSUME TypeOK, MaxTasks = 1, NEW who, BeginOp(who)
    PROVE  \A v \in Users, q \in Phases : tasks[v][q] = 0
<1> SUFFICES ASSUME NEW v \in Users, NEW q \in Phases PROVE tasks[v][q] = 0
  OBVIOUS
<1>1. tasks[v][q] \in Nat
  BY DEF TypeOK
<1>2. tasks[v][q] < 1
  BY DEF BeginOp
<1>3. QED
  BY <1>1, <1>2

\* A step keeps the invariant.
LEMMA PromptStep ==
    ASSUME MaxTasks = 1, ~Faults, ~ManyProcesses, ~Crashes, ~Shutdowns,
           TypeOK, BookkeepingInv, PromptInv, [Next]_vars
    PROVE  PromptInv'
<1> USE DEF TypeOK, PromptInv, NoStrandedUser, Goto, Actors, Control, Places,
            memory, locals, cgroups, knobs, tree, tracking
<1>1. CASE CreateSharedCgroup
  BY <1>1 DEF CreateSharedCgroup, knobs
<1>2. CASE ApplySharedCPULimit
  BY <1>2 DEF ApplySharedCPULimit
<1>3. CASE EndActivate
  BY <1>3 DEF EndActivate, Return, AfterExecute
<1>4. ASSUME NEW u \in Users, LimitUser(u)
      PROVE  PromptInv'
  <2>1. /\ tasks' \in TaskTable
        /\ \A v \in Users, q \in Phases :
             q \notin {"move", "knobs"} \/ v # u => tasks'[v][q] = tasks[v][q]
    BY <1>4, SpawnTable DEF LimitUser, TaskTable, Phases, WgPhases
  <2>2. subDirs \subseteq subDirs'
    BY <1>4 DEF LimitUser, MakeSubDir, tree
  <2>3. QED
    BY <1>4, <2>1, <2>2 DEF LimitUser, Phases, WgPhases
<1>5. ASSUME NEW u \in Users, ReaddUser(u)
      PROVE  PromptInv'
  <2>1. /\ tasks' \in TaskTable
        /\ \A v \in Users, q \in Phases :
             q # "readd" \/ v # u => tasks'[v][q] = tasks[v][q]
    BY <1>5, SpawnTable DEF ReaddUser, TaskTable, Phases, WgPhases
  <2>2. subDirs \subseteq subDirs' /\ added' = added \cup {u}
    BY <1>5 DEF ReaddUser, MakeSubDir
  <2>3. QED
    BY <1>5, <2>1, <2>2 DEF ReaddUser, Phases, WgPhases
<1>6. CASE EndReadd
  BY <1>6 DEF EndReadd
<1>7. CASE ApplyPatternPolicies
  <2>1. /\ tasks' = tasks
        /\ \A v \in Users : place'[v] = "shared" => place[v] = "shared"
        /\ unknown' = {}
    BY <1>7 DEF ApplyPatternPolicies, ApplyCPULimitOK, ApplyCPULimitFails, CreateUserCgroup
  <2>2. QED
    BY <1>7, <2>1 DEF ApplyPatternPolicies, memory, locals, tree
<1>8. CASE RevertPSIBoosts
  BY <1>8 DEF RevertPSIBoosts, locals, tree
<1>9. CASE WaitForTasks("op")
  BY <1>9 DEF WaitForTasks, memory, locals
<1>10. CASE ClearState("op")
  BY <1>10 DEF ClearState, Quiet, WgPhases, BookkeepingInv
<1>11. ASSUME NEW u \in Users, RestoreUser("op", u)
      PROVE  PromptInv'
  <2>1. /\ tasks' = tasks
        /\ \A v \in Users : place'[v] = "shared" => place[v] = "shared"
        /\ place'[u] # "shared"
        /\ unknown' = {}
    BY <1>11 DEF RestoreUser, ApplyCPULimitOK, ApplyCPULimitFails, LiftLimits
  <2>2. QED
    BY <1>11, <2>1 DEF RestoreUser, memory, tree
<1>12. CASE EndDeactivate("op")
  BY <1>12 DEF EndDeactivate, Return, RemoveSharedDir, AfterExecute, memory, locals, tree
<1>13. CASE DeactivateStep("shutdown")
  BY <1>13 DEF DeactivateStep, WaitForTasks, ClearState, RestoreUser, EndDeactivate
<1>14. ASSUME NEW who \in {"loop", "mcp"}, RunControlCycle(who)
      PROVE  PromptInv'
  <2>1. \A v \in Users, q \in Phases : tasks[v][q] = 0
    BY <1>14, NothingInFlight DEF RunControlCycle
  <2>2. PICK seen \in Seen, busy \in SUBSET Users, eligible \in SUBSET Users :
             /\ pc["op"] = "idle"
             /\ StartActivate(seen, eligible) \/ ReleaseIdleUsers(busy, eligible)
    BY <1>14 DEF RunControlCycle, BeginOp, Seen
  <2>3. CASE StartActivate(seen, eligible)
    BY <2>1, <2>2, <2>3 DEF StartActivate, Seen, Phases, WgPhases
  <2>4. CASE ReleaseIdleUsers(busy, eligible) /\ limitsActive
    <3>1. sharedCgroupPath
      BY <2>4 DEF BookkeepingInv, BookkeepingConsistent
    <3>2. tasks' = SpawnAll(activeUsers \ busy, "release")
      BY <2>4, <3>1 DEF ReleaseIdleUsers
    <3>3. \A v \in Users, q \in Phases :
             tasks'[v][q] = IF v \in activeUsers \ busy /\ q = "release" THEN 1 ELSE 0
      BY <2>1, <3>2, SpawnAllTable DEF TaskTable, Phases, WgPhases
    <3>4. added = {}
      BY <2>2 DEF BookkeepingInv
    <3>5. QED
      BY <2>1, <2>2, <2>4, <3>3, <3>4 DEF ReleaseIdleUsers, Phases, WgPhases
  <2>5. CASE ReleaseIdleUsers(busy, eligible) /\ ~limitsActive
    BY <2>2, <2>5 DEF ReleaseIdleUsers, memory
  <2>6. QED
    BY <2>2, <2>3, <2>4, <2>5
<1>15. ASSUME NEW who \in {"loop", "mcp"}, CycleDeactivates(who)
      PROVE  PromptInv'
  BY <1>15 DEF CycleDeactivates, BeginOp, memory
<1>16. CASE ForceActivateLimits
  <2>1. \A v \in Users, q \in Phases : tasks[v][q] = 0
    BY <1>16, NothingInFlight DEF ForceActivateLimits
  <2>2. PICK seen \in Seen, eligible \in SUBSET Users :
             pc["op"] = "idle" /\ StartActivate(seen, eligible)
    BY <1>16 DEF ForceActivateLimits, BeginOp, Seen
  <2>3. QED
    BY <2>1, <2>2 DEF StartActivate, Seen, Phases, WgPhases
<1>17. CASE ForceDeactivateLimits
  BY <1>17 DEF ForceDeactivateLimits, BeginOp, memory
<1>18. ASSUME NEW u \in Users, OnUserPSIEvent(u)
      PROVE  PromptInv'
  BY <1>18 DEF OnUserPSIEvent, BeginOp, tree
<1>19. ASSUME NEW u \in Users, MoveToShared(u, "move", "knobs")
      PROVE  PromptInv'
  <2>1. \A v \in Users, q \in Phases :
             tasks'[v][q] = IF v = u /\ q = "move" THEN tasks[v][q] - 1
                            ELSE IF v = u /\ q = "knobs" THEN tasks[v][q] + 1
                            ELSE tasks[v][q]
    BY <1>19, ActivationMoveTable DEF TaskTable
  <2>2. tasks[u]["move"] > 0
    BY <1>19 DEF MoveToShared
  <2>3. QED
    BY <1>19, <2>1, <2>2 DEF MoveToShared, MakeSubDir, Phases, WgPhases
<1>20. ASSUME NEW u \in Users, MoveToShared(u, "readd", "weigh")
      PROVE  PromptInv'
  <2>1. \A v \in Users, q \in Phases :
             tasks'[v][q] = IF v = u /\ q = "readd" THEN tasks[v][q] - 1
                            ELSE IF v = u /\ q = "weigh" THEN tasks[v][q] + 1
                            ELSE tasks[v][q]
    BY <1>20, ReaddMoveTable DEF TaskTable
  <2>2. tasks[u]["readd"] > 0
    BY <1>20 DEF MoveToShared
  <2>3. QED
    BY <1>20, <2>1, <2>2 DEF MoveToShared, MakeSubDir, Phases, WgPhases
<1>21. ASSUME NEW u \in Users, ApplyKnobs(u)
      PROVE  PromptInv'
  <2>1. \A v \in Users, q \in Phases :
             q # "knobs" => tasks'[v][q] = tasks[v][q]
    BY <1>21, FinishTable DEF ApplyKnobs, TaskTable, Phases, WgPhases
  <2>2. QED
    BY <1>21, <2>1 DEF ApplyKnobs, CreateUserCgroup, Phases, WgPhases
<1>22. ASSUME NEW u \in Users, ApplyWeight(u)
      PROVE  PromptInv'
  <2>1. \A v \in Users, q \in Phases :
             q # "weigh" => tasks'[v][q] = tasks[v][q]
    BY <1>22, FinishTable DEF ApplyWeight, TaskTable, Phases, WgPhases
  <2>2. QED
    BY <1>22, <2>1 DEF ApplyWeight, Phases, WgPhases
<1>23. ASSUME NEW u \in Users, EvictUser(u)
      PROVE  PromptInv'
  <2>1. \A v \in Users, q \in Phases :
             q \notin {"release", "rmdir"} \/ v # u => tasks'[v][q] = tasks[v][q]
    BY <1>23, EvictTable DEF TaskTable
  <2>2. /\ place'[u] # "shared"
        /\ \A v \in Users : place'[v] = "shared" => place[v] = "shared"
    BY <1>23 DEF EvictUser, BatchMayFail
  <2>3. QED
    BY <1>23, <2>1, <2>2 DEF EvictUser, BatchMayFail, Phases, WgPhases
<1>24. ASSUME NEW u \in Users, RemoveSubDir(u)
      PROVE  PromptInv'
  <2>1. \A v \in Users, q \in Phases :
             q # "rmdir" => tasks'[v][q] = tasks[v][q]
    BY <1>24, FinishTable DEF RemoveSubDir, TaskTable, Phases, WgPhases
  <2>2. QED
    BY <1>24, <2>1 DEF RemoveSubDir, memory, locals, Phases, WgPhases
<1>25. ASSUME NEW u \in Users, LateMove(u)
      PROVE  PromptInv'
  BY <1>25 DEF LateMove
<1>26. ASSUME NEW u \in Users, NewSession(u)
      PROVE  PromptInv'
  BY <1>26 DEF NewSession, memory, locals, tree
<1>27. CASE UNCHANGED vars
  BY <1>27 DEF vars, memory, locals, cgroups
<1>28. QED
  BY <1>1, <1>2, <1>3, <1>4, <1>5, <1>6, <1>7, <1>8, <1>9, <1>10, <1>11, <1>12, <1>13, <1>14, <1>15, <1>16, <1>17, <1>18, <1>19, <1>20, <1>21, <1>22, <1>23, <1>24, <1>25, <1>26, <1>27
     DEF Next, Operation, OpStep, DeactivateStep, Goroutine, ActivateAborts,
         LimitUserFails, BeginShutdown, DrainTasks, CleanupAll, Die, Boot

\* Nobody is left confined in base/limited: whoever is there is listed as
\* limited, or is being released, or deactivateLimits is about to restore it.
\* Users may log out and in, and every kind of operation may run.
THEOREM NobodyStranded ==
    ASSUME MaxTasks = 1, ~Faults, ~ManyProcesses, ~Crashes, ~Shutdowns
    PROVE  Spec => []NoStrandedUser
<1>1. Init => PromptInv
  BY DEF Init, PromptInv, NoStrandedUser, NoTasks, Actors, Phases, WgPhases
<1>2. TypeOK /\ BookkeepingInv /\ PromptInv /\ [Next]_vars => PromptInv'
  BY PromptStep
<1>3. PromptInv => NoStrandedUser
  BY DEF PromptInv
<1>4. QED
  BY <1>1, <1>2, <1>3, BookkeepingInvariant, PTL DEF Spec

\* What LimitedUsersConfined needs besides.
ConfinedInv ==
    /\ \A u \in activeUsers \cup added :
        /\ place[u] = "shared" \/ tasks[u]["move"] > 0 \/ tasks[u]["readd"] > 0
        /\ tasks[u]["release"] = 0
    /\ pc["op"] = "readd" => \A u \in todo["op"] : tasks[u]["release"] = 0
    /\ pc["op"] \in {"shared", "quota", "limit"} =>
           \A u \in Users : tasks[u]["release"] = 0
    /\ pc["op"] = "restore" => activeUsers = {} /\ added = {}

\* A step keeps it, when in addition no session ends and no workload policy
\* moves processes.
LEMMA ConfinedStep ==
    ASSUME MaxTasks = 1, ~Faults, ~ManyProcesses, ~Crashes, ~Shutdowns, ~Sessions,
           ~AutodetectPatterns, TypeOK, BookkeepingInv, PromptInv, ConfinedInv,
           [Next]_vars
    PROVE  ConfinedInv'
<1> USE DEF TypeOK, ConfinedInv, Goto, Actors, Control, Places, memory, locals,
            cgroups, knobs, tree, tracking
<1>1. CASE CreateSharedCgroup
  BY <1>1 DEF CreateSharedCgroup
<1>2. CASE ApplySharedCPULimit
  BY <1>2 DEF ApplySharedCPULimit
<1>3. CASE EndActivate
  BY <1>3 DEF EndActivate, Return, AfterExecute
<1>4. ASSUME NEW u \in Users, LimitUser(u)
      PROVE  ConfinedInv'
  <2>1. sharedCgroupPath /\ tasks' = Spawn(u, "move")
    BY <1>4 DEF LimitUser, PromptInv, BookkeepingInv, BookkeepingConsistent
  <2>2. \A v \in Users, q \in Phases :
             tasks'[v][q] = IF v = u /\ q = "move" THEN tasks[v][q] + 1
                            ELSE tasks[v][q]
    <3>1. tasks \in TaskTable
      BY DEF TaskTable
    <3>2. "move" \in Phases
      BY DEF Phases, WgPhases
    <3> HIDE DEF ConfinedInv, TypeOK
    <3>3. QED
      BY <2>1, <3>1, <3>2, SpawnTable
  <2>3. QED
    BY <1>4, <2>2 DEF LimitUser, Phases, WgPhases
<1>5. ASSUME NEW u \in Users, ReaddUser(u)
      PROVE  ConfinedInv'
  <2>1. tasks' = Spawn(u, "readd") /\ added' = added \cup {u}
    BY <1>5 DEF ReaddUser
  <2>2. \A v \in Users, q \in Phases :
             tasks'[v][q] = IF v = u /\ q = "readd" THEN tasks[v][q] + 1
                            ELSE tasks[v][q]
    <3>1. tasks \in TaskTable
      BY DEF TaskTable
    <3>2. "readd" \in Phases
      BY DEF Phases, WgPhases
    <3> HIDE DEF ConfinedInv, TypeOK
    <3>3. QED
      BY <2>1, <3>1, <3>2, SpawnTable
  <2>3. tasks[u]["release"] = 0
    BY <1>5 DEF ReaddUser
  <2>4. QED
    BY <1>5, <2>1, <2>2, <2>3 DEF ReaddUser, Phases, WgPhases
<1>6. CASE EndReadd
  BY <1>6 DEF EndReadd
<1>7. CASE ApplyPatternPolicies
  BY <1>7 DEF ApplyPatternPolicies
<1>8. CASE RevertPSIBoosts
  BY <1>8 DEF RevertPSIBoosts
<1>9. CASE WaitForTasks("op")
  BY <1>9 DEF WaitForTasks
<1>10. CASE ClearState("op")
  BY <1>10 DEF ClearState, PromptInv, BookkeepingInv
<1>11. ASSUME NEW u \in Users, RestoreUser("op", u)
      PROVE  ConfinedInv'
  BY <1>11 DEF RestoreUser, ApplyCPULimitOK, ApplyCPULimitFails, PromptInv
<1>12. CASE EndDeactivate("op")
  BY <1>12 DEF EndDeactivate, Return, AfterExecute
<1>13. ASSUME NEW who \in {"loop", "mcp"}, RunControlCycle(who)
      PROVE  ConfinedInv'
  <2>1. \A v \in Users, q \in Phases : tasks[v][q] = 0
    BY <1>13, NothingInFlight DEF RunControlCycle
  <2>2. PICK seen \in SUBSET Users, busy \in SUBSET Users, eligible \in SUBSET Users :
             /\ pc["op"] = "idle"
             /\ StartActivate(seen, eligible) \/ ReleaseIdleUsers(busy, eligible)
    BY <1>13 DEF RunControlCycle, BeginOp, Seen
  <2>3. CASE StartActivate(seen, eligible)
    BY <2>1, <2>2, <2>3 DEF StartActivate, Phases, WgPhases
  <2>4. CASE ReleaseIdleUsers(busy, eligible) /\ limitsActive
    <3>1. \/ tasks' = SpawnAll(activeUsers \ busy, "release")
          \/ tasks' = tasks
      BY <2>4 DEF ReleaseIdleUsers
    <3>2. \A v \in Users, q \in Phases :
             q # "release" \/ v \notin activeUsers \ busy => tasks'[v][q] = 0
      BY <2>1, <3>1, SpawnAllTable DEF TaskTable, Phases, WgPhases
    <3>3. QED
      BY <2>1, <2>2, <2>4, <3>2 DEF ReleaseIdleUsers, Phases, WgPhases
  <2>5. CASE ReleaseIdleUsers(busy, eligible) /\ ~limitsActive
    BY <2>2, <2>5 DEF ReleaseIdleUsers
  <2>6. QED
    BY <2>2, <2>3, <2>4, <2>5
<1>14. ASSUME NEW who \in {"loop", "mcp"}, CycleDeactivates(who)
      PROVE  ConfinedInv'
  BY <1>14 DEF CycleDeactivates, BeginOp
<1>15. CASE ForceActivateLimits
  <2>1. \A v \in Users, q \in Phases : tasks[v][q] = 0
    BY <1>15, NothingInFlight DEF ForceActivateLimits
  <2>2. PICK seen \in SUBSET Users, eligible \in SUBSET Users :
             pc["op"] = "idle" /\ StartActivate(seen, eligible)
    BY <1>15 DEF ForceActivateLimits, BeginOp, Seen
  <2>3. QED
    BY <2>1, <2>2 DEF StartActivate, Phases, WgPhases
<1>16. CASE ForceDeactivateLimits
  BY <1>16 DEF ForceDeactivateLimits, BeginOp
<1>17. ASSUME NEW u \in Users, OnUserPSIEvent(u)
      PROVE  ConfinedInv'
  BY <1>17 DEF OnUserPSIEvent
<1>18. ASSUME NEW u \in Users, MoveToShared(u, "move", "knobs")
      PROVE  ConfinedInv'
  <2>1. \A v \in Users, q \in Phases :
             v # u \/ q \notin {"move", "knobs"} => tasks'[v][q] = tasks[v][q]
    BY <1>18, ActivationMoveTable DEF TaskTable
  <2>2. place' = [place EXCEPT ![u] = "shared"]
    BY <1>18 DEF MoveToShared
  <2>3. QED
    BY <1>18, <2>1, <2>2 DEF MoveToShared, Phases, WgPhases
<1>19. ASSUME NEW u \in Users, MoveToShared(u, "readd", "weigh")
      PROVE  ConfinedInv'
  <2>1. \A v \in Users, q \in Phases :
             v # u \/ q \notin {"readd", "weigh"} => tasks'[v][q] = tasks[v][q]
    BY <1>19, ReaddMoveTable DEF TaskTable
  <2>2. place' = [place EXCEPT ![u] = "shared"]
    BY <1>19 DEF MoveToShared
  <2>3. QED
    BY <1>19, <2>1, <2>2 DEF MoveToShared, Phases, WgPhases
<1>20. ASSUME NEW u \in Users, ApplyKnobs(u)
      PROVE  ConfinedInv'
  <2>1. \A v \in Users, q \in Phases :
             q # "knobs" => tasks'[v][q] = tasks[v][q]
    BY <1>20, FinishTable DEF ApplyKnobs, TaskTable, Phases, WgPhases
  <2>2. QED
    BY <1>20, <2>1 DEF ApplyKnobs, Phases, WgPhases
<1>21. ASSUME NEW u \in Users, ApplyWeight(u)
      PROVE  ConfinedInv'
  <2>1. \A v \in Users, q \in Phases :
             q # "weigh" => tasks'[v][q] = tasks[v][q]
    BY <1>21, FinishTable DEF ApplyWeight, TaskTable, Phases, WgPhases
  <2>2. QED
    BY <1>21, <2>1 DEF ApplyWeight, Phases, WgPhases
<1>22. ASSUME NEW u \in Users, RemoveSubDir(u)
      PROVE  ConfinedInv'
  <2>1. \A v \in Users, q \in Phases :
             q # "rmdir" => tasks'[v][q] = tasks[v][q]
    BY <1>22, FinishTable DEF RemoveSubDir, TaskTable, Phases, WgPhases
  <2>2. QED
    BY <1>22, <2>1 DEF RemoveSubDir, Phases, WgPhases
<1>23. ASSUME NEW u \in Users, EvictUser(u)
      PROVE  ConfinedInv'
  <2>1. \A v \in Users, q \in Phases :
             q \notin {"release", "rmdir"} \/ v # u => tasks'[v][q] = tasks[v][q]
    BY <1>23, EvictTable DEF TaskTable
  <2>2. u \notin activeUsers \cup added
    BY <1>23 DEF EvictUser, BatchMayFail
  <2>3. tasks'[u]["release"] = tasks[u]["release"] - 1
    BY <1>23, EvictTable DEF TaskTable
  <2>4. /\ tasks[u]["release"] > 0
        /\ \A v \in Users : v # u => place'[v] = place[v]
    BY <1>23 DEF EvictUser, BatchMayFail
  <2>5. QED
    BY <1>23, <2>1, <2>2, <2>3, <2>4 DEF EvictUser, BatchMayFail, Phases, WgPhases
<1>24. ASSUME NEW u \in Users, LateMove(u)
      PROVE  ConfinedInv'
  BY <1>24 DEF LateMove, PromptInv
<1>25. CASE UNCHANGED vars
  BY <1>25 DEF vars
<1>26. ~DeactivateStep("shutdown") /\ ~DrainTasks /\ ~CleanupAll /\ ~Boot /\ ~Die
  BY DEF PromptInv, DeactivateStep, WaitForTasks, ClearState, RestoreUser,
         EndDeactivate, DrainTasks, CleanupAll, Boot, Die
<1>27. QED
  BY <1>1, <1>2, <1>3, <1>4, <1>5, <1>6, <1>7, <1>8, <1>9, <1>10, <1>11, <1>12, <1>13, <1>14, <1>15, <1>16, <1>17, <1>18, <1>19, <1>20, <1>21, <1>22, <1>23, <1>24, <1>25, <1>26
     DEF Next, Operation, OpStep, DeactivateStep, Goroutine, ActivateAborts,
         LimitUserFails, BeginShutdown, NewSession

\* Every user listed as limited is confined to the shared cgroup once its own
\* goroutine has ended, through activations, releases and re-additions.
THEOREM LimitedAreConfined ==
    ASSUME MaxTasks = 1, ~Faults, ~ManyProcesses, ~Crashes, ~Shutdowns, ~Sessions,
           ~AutodetectPatterns
    PROVE  Spec => []LimitedUsersConfined
<1>1. Init => PromptInv /\ ConfinedInv
  BY DEF Init, PromptInv, NoStrandedUser, ConfinedInv, NoTasks, Actors, Phases,
         WgPhases
<1>2. /\ TypeOK /\ BookkeepingInv /\ PromptInv /\ ConfinedInv /\ [Next]_vars
        => PromptInv' /\ ConfinedInv'
  BY PromptStep, ConfinedStep
<1>3. TypeOK /\ ConfinedInv => LimitedUsersConfined
  BY DEF TypeOK, ConfinedInv, LimitedUsersConfined, Settled, Phases, WgPhases
<1>4. QED
  BY <1>1, <1>2, <1>3, BookkeepingInvariant, PTL DEF Spec
=============================================================================
