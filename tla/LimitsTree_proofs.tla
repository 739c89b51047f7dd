-------------------------- MODULE LimitsTree_proofs --------------------------
(***************************************************************************)
(* Theorems about the cgroup tree of LimitsManager: the shared quota, the  *)
(* RAM and IO limits of the users' own cgroups, and what a shutdown leaves *)
(* behind, for any number of goroutines in flight, with crashes and        *)
(* sessions, as long as writes to cgroupfs succeed; and that what the      *)
(* lifecycle does with users and the tree implements Limiter.              *)
(***************************************************************************)
EXTENDS LimitsManager_proofs

-----------------------------------------------------------------------------
(* The total CPU quota.                                                    *)

\* Outside shutdown() the path of the shared cgroup is known only once the
\* directory exists, and past ApplySharedCPULimit only with its quota; it is
\* forgotten before deactivateLimits removes the directory.
QuotaInv ==
    pc["shutdown"] = "idle" =>
        /\ sharedCgroupPath => sharedDir
        /\ sharedCgroupPath /\ pc["op"] # "quota" => quota
        /\ pc["op"] \in {"restore", "shared"} => ~sharedCgroupPath

\* One step keeps it.
LEMMA QuotaStep ==
    ASSUME ~Faults, TypeOK, BookkeepingInv, QuotaInv, [Next]_vars
    PROVE  QuotaInv'
<1> USE DEF TypeOK, QuotaInv, Goto, Actors, Control, memory, locals, cgroups, knobs, tree
<1>1. CASE CreateSharedCgroup
  BY <1>1 DEF CreateSharedCgroup
<1>2. CASE ApplySharedCPULimit
  BY <1>2 DEF ApplySharedCPULimit
<1>3. CASE EndActivate
  BY <1>3 DEF EndActivate, Return, AfterExecute
<1>4. ASSUME NEW u \in Users, LimitUser(u) \/ ReaddUser(u)
      PROVE  QuotaInv'
  BY <1>4 DEF LimitUser, ReaddUser, MakeSubDir
<1>5. CASE EndReadd
  BY <1>5 DEF EndReadd
<1>6. CASE ApplyPatternPolicies
  BY <1>6 DEF ApplyPatternPolicies
<1>7. CASE RevertPSIBoosts
  BY <1>7 DEF RevertPSIBoosts
<1>8. ASSUME NEW a \in Actors, WaitForTasks(a) \/ ClearState(a) \/ EndDeactivate(a)
      PROVE  QuotaInv'
  BY <1>8 DEF WaitForTasks, ClearState, EndDeactivate, RemoveSharedDir, AfterExecute
<1>9. ASSUME NEW a \in Actors, NEW u \in Users, RestoreUser(a, u)
      PROVE  QuotaInv'
  BY <1>9 DEF RestoreUser
<1>10. ASSUME NEW who \in {"loop", "mcp"}, RunControlCycle(who)
      PROVE  QuotaInv'
  <2>1. PICK seen \in SUBSET Users, busy \in SUBSET Users, eligible \in SUBSET Users :
             /\ pc["op"] = "idle"
             /\ StartActivate(seen, eligible) \/ ReleaseIdleUsers(busy, eligible)
    BY <1>10 DEF RunControlCycle, BeginOp, Seen
  <2>2. QED
    BY <2>1 DEF StartActivate, ReleaseIdleUsers
<1>11. ASSUME NEW who \in {"loop", "mcp"}, CycleDeactivates(who)
      PROVE  QuotaInv'
  BY <1>11 DEF CycleDeactivates, BeginOp
<1>12. CASE ForceActivateLimits
  <2>1. PICK seen \in SUBSET Users, eligible \in SUBSET Users :
             pc["op"] = "idle" /\ StartActivate(seen, eligible)
    BY <1>12 DEF ForceActivateLimits, BeginOp, Seen
  <2>2. QED
    BY <2>1 DEF StartActivate
<1>13. CASE ForceDeactivateLimits
  BY <1>13 DEF ForceDeactivateLimits, BeginOp
<1>14. ASSUME NEW u \in Users, OnUserPSIEvent(u)
      PROVE  QuotaInv'
  BY <1>14 DEF OnUserPSIEvent, BeginOp
<1>15. ASSUME NEW u \in Users, Goroutine(u) \/ NewSession(u)
      PROVE  QuotaInv'
  BY <1>15 DEF Goroutine, MoveToShared, MakeSubDir, ApplyKnobs, ApplyWeight, EvictUser,
               RemoveSubDir, LateMove, NewSession
<1>16. CASE BeginShutdown \/ DrainTasks \/ CleanupAll
  BY <1>16 DEF BeginShutdown, DrainTasks, CleanupAll
<1>17. CASE Die \/ Boot
  BY <1>17 DEF Die, Boot
<1>18. CASE UNCHANGED vars
  BY <1>18 DEF vars
<1>19. QED
  BY <1>1, <1>2, <1>3, <1>4, <1>5, <1>6, <1>7, <1>8, <1>9, <1>10, <1>11, <1>12, <1>13, <1>14,
     <1>15, <1>16, <1>17, <1>18
     DEF Next, Operation, OpStep, DeactivateStep, ActivateAborts, LimitUserFails

\* While limits are active base/limited exists and carries the total CPU quota:
\* a late goroutine that makes the directory again, an activation after a crash
\* and a forced one included, for any number of users and goroutines.
THEOREM QuotaIsEnforced ==
    ASSUME ~Faults
    PROVE  Spec => []QuotaEnforced
<1>1. Init => QuotaInv
  BY DEF Init, QuotaInv, Actors
<1>2. TypeOK /\ BookkeepingInv /\ QuotaInv /\ [Next]_vars => QuotaInv'
  BY QuotaStep
<1>3. TypeOK /\ BookkeepingInv /\ QuotaInv => QuotaEnforced
  BY DEF BookkeepingInv, BookkeepingConsistent, QuotaInv, QuotaEnforced
<1>4. QED
  BY <1>1, <1>2, <1>3, BookkeepingInvariant, PTL DEF Spec

-----------------------------------------------------------------------------
(* Who runs beside whom.                                                   *)

\* Without a forced operation of MCP beside it, Cleanup runs alone, and past its
\* wg.Wait() a deactivation has no goroutine in flight.
SerialInv ==
    /\ \A u \in Users : tasks[u]["own"] = 0
    /\ caller = "mcp" => MCPWrite
    /\ pc["shutdown"] # "idle" => Shutdowns /\ pc["op"] = "idle"
    /\ pc["op"] \in {"clear", "restore"} => Quiet
    /\ pc["shutdown"] \notin {"idle", "drain"} => Quiet

\* When nothing is in flight, no goroutine runs.
LEMMA NoGoroutineRuns ==
    ASSUME TypeOK, Quiet, NEW u \in Users, tasks[u]["own"] = 0
    PROVE  ~Goroutine(u)
BY DEF Quiet, TypeOK, WgPhases, Goroutine, MoveToShared, ApplyKnobs, ApplyWeight, EvictUser,
       RemoveSubDir, LateMove

\* The goroutines that are counted by wg leave the others alone.
LEMMA OwnUntouched ==
    ASSUME TypeOK, NEW u \in Users, tasks[u]["own"] = 0, Goroutine(u), NEW v \in Users
    PROVE  tasks'[v]["own"] = tasks[v]["own"]
<1>0. tasks \in TaskTable
  BY DEF TypeOK, TaskTable
<1>1. CASE MoveToShared(u, "move", "knobs")
  BY <1>1, ActivationMoveTable, PhaseNames
<1>2. CASE MoveToShared(u, "readd", "weigh")
  BY <1>2, ReaddMoveTable, PhaseNames
<1>3. CASE ApplyKnobs(u)
  BY <1>0, <1>3, FinishTable, PhaseNames DEF ApplyKnobs
<1>4. CASE ApplyWeight(u)
  BY <1>0, <1>4, FinishTable, PhaseNames DEF ApplyWeight
<1>5. CASE EvictUser(u)
  BY <1>0, <1>5, EvictTable, PhaseNames
<1>6. CASE RemoveSubDir(u)
  BY <1>0, <1>6, FinishTable, PhaseNames DEF RemoveSubDir
<1>7. ~LateMove(u)
  BY DEF LateMove
<1>8. QED
  BY <1>1, <1>2, <1>3, <1>4, <1>5, <1>6, <1>7 DEF Goroutine

\* One step keeps it.
LEMMA SerialStep ==
    ASSUME ~Faults, ~(Shutdowns /\ MCPWrite), TypeOK, SerialInv, [Next]_vars
    PROVE  SerialInv'
<1> USE DEF TypeOK, SerialInv, Goto, Return, Actors, Control, memory, locals
<1>1. CASE CreateSharedCgroup \/ ApplySharedCPULimit \/ EndActivate \/ EndReadd \/ RevertPSIBoosts
  BY <1>1 DEF CreateSharedCgroup, ApplySharedCPULimit, EndActivate, EndReadd, RevertPSIBoosts,
              AfterExecute, Quiet
<1>2. CASE ApplyPatternPolicies
  BY <1>2 DEF ApplyPatternPolicies, ApplyCPULimitOK, ApplyCPULimitFails, Quiet
<1>3. ASSUME NEW u \in Users, LimitUser(u) \/ ReaddUser(u)
      PROVE  SerialInv'
  <2>1. \E p \in {"move", "knobs", "readd"} : tasks' = tasks \/ tasks' = Spawn(u, p)
    BY <1>3 DEF LimitUser, ReaddUser
  <2>2. \A v \in Users : tasks'[v]["own"] = 0
    BY <2>1, SpawnTable DEF TaskTable, Phases, WgPhases
  <2>3. QED
    BY <1>3, <2>2 DEF LimitUser, ReaddUser
<1>4. ASSUME NEW a \in Actors, WaitForTasks(a) \/ ClearState(a) \/ EndDeactivate(a)
      PROVE  SerialInv'
  BY <1>4 DEF WaitForTasks, ClearState, EndDeactivate, AfterExecute, Quiet
<1>5. ASSUME NEW a \in Actors, NEW u \in Users, RestoreUser(a, u)
      PROVE  SerialInv'
  BY <1>5 DEF RestoreUser, ApplyCPULimitOK, ApplyCPULimitFails, Quiet
<1>6. ASSUME NEW who \in {"loop", "mcp"}, BeginOp(who)
      PROVE  pc["shutdown"] = "idle" /\ pc["op"] = "idle" /\ caller' = who
             /\ (who = "mcp" => MCPWrite)
  BY <1>6 DEF BeginOp
<1>7. ASSUME NEW who \in {"loop", "mcp"}, RunControlCycle(who)
      PROVE  SerialInv'
  <2>1. PICK seen \in SUBSET Users, busy \in SUBSET Users, eligible \in SUBSET Users :
             /\ BeginOp(who)
             /\ StartActivate(seen, eligible) \/ ReleaseIdleUsers(busy, eligible)
    BY <1>7 DEF RunControlCycle, Seen
  <2>2. tasks' = tasks \/ tasks' = SpawnAll(activeUsers \ busy, "release")
    BY <2>1 DEF StartActivate, ReleaseIdleUsers
  <2>3. \A v \in Users : tasks'[v]["own"] = 0
    BY <2>2, SpawnAllTable DEF TaskTable, Phases, WgPhases
  <2>4. pc'["shutdown"] = pc["shutdown"] /\ pc'["op"] \notin {"clear", "restore"}
    BY <2>1 DEF StartActivate, ReleaseIdleUsers
  <2>5. QED
    BY <1>6, <2>1, <2>3, <2>4
<1>8. ASSUME NEW who \in {"loop", "mcp"}, CycleDeactivates(who)
      PROVE  SerialInv'
  BY <1>6, <1>8 DEF CycleDeactivates
<1>9. CASE ForceActivateLimits
  <2>1. PICK seen \in SUBSET Users, eligible \in SUBSET Users :
             BeginOp("mcp") /\ StartActivate(seen, eligible)
    BY <1>9 DEF ForceActivateLimits, Seen
  <2>2. QED
    BY <1>6, <2>1 DEF StartActivate
<1>10. CASE ForceDeactivateLimits
  BY <1>6, <1>10 DEF ForceDeactivateLimits
<1>11. ASSUME NEW u \in Users, OnUserPSIEvent(u)
      PROVE  SerialInv'
  BY <1>6, <1>11 DEF OnUserPSIEvent
<1>12. ASSUME NEW u \in Users, Goroutine(u)
      PROVE  SerialInv'
  <2>1. ~Quiet
    BY <1>12, NoGoroutineRuns
  <2>2. \A v \in Users : tasks'[v]["own"] = 0
    BY <1>12, OwnUntouched
  <2>3. UNCHANGED <<pc, caller>>
    BY <1>12 DEF Goroutine, MoveToShared, ApplyKnobs, ApplyWeight, EvictUser, RemoveSubDir,
                 LateMove
  <2>4. QED
    BY <2>1, <2>2, <2>3
<1>13. ASSUME NEW u \in Users, NewSession(u)
      PROVE  SerialInv'
  BY <1>13 DEF NewSession, Quiet
<1>14. CASE BeginShutdown \/ DrainTasks \/ CleanupAll
  BY <1>14 DEF BeginShutdown, DrainTasks, CleanupAll, Quiet
<1>15. CASE Die
  BY <1>15 DEF Die, NoTasks, Phases
<1>16. CASE Boot \/ UNCHANGED vars
  BY <1>16 DEF Boot, vars, Quiet
<1>17. QED
  BY <1>1, <1>2, <1>3, <1>4, <1>5, <1>7, <1>8, <1>9, <1>10, <1>11, <1>12, <1>13, <1>14, <1>15,
     <1>16
     DEF Next, Operation, OpStep, DeactivateStep, ActivateAborts, LimitUserFails

\* It holds in every reachable state.
LEMMA SerialInvariant ==
    ASSUME ~Faults, ~(Shutdowns /\ MCPWrite)
    PROVE  Spec => [](TypeOK /\ SerialInv)
<1>1. Init => SerialInv
  BY DEF Init, SerialInv, NoTasks, Actors, Phases
<1>2. TypeOK /\ SerialInv /\ [Next]_vars => SerialInv'
  BY SerialStep
<1>3. QED
  BY <1>1, <1>2, TypeCorrect, PTL DEF Spec

-----------------------------------------------------------------------------
(* RAM and IO limits.                                                      *)

\* A process in its own cgroup runs without RAM and IO limits there, and no
\* goroutine is about to set some.
LiftInv ==
    /\ ~ResourceLimits => limits = {}
    /\ \A u \in Users : place[u] = "own" => u \notin limits /\ tasks[u]["knobs"] = 0

\* One step keeps it.
LEMMA LiftStep ==
    ASSUME ~Faults, ~AutodetectPatterns, TypeOK, BookkeepingInv, SerialInv, LiftInv, [Next]_vars
    PROVE  LiftInv'
<1> USE DEF TypeOK, LiftInv, Goto, Return, Actors, Control, Places, memory, locals, cgroups, knobs,
            tree
<1>1. CASE CreateSharedCgroup \/ ApplySharedCPULimit \/ EndActivate \/ EndReadd \/ RevertPSIBoosts
  BY <1>1 DEF CreateSharedCgroup, ApplySharedCPULimit, EndActivate, EndReadd, RevertPSIBoosts
<1>2. CASE ApplyPatternPolicies
  BY <1>2 DEF ApplyPatternPolicies
<1>3. ASSUME NEW u \in Users, LimitUser(u) \/ ReaddUser(u)
      PROVE  LiftInv'
  <2>1. tasks' = tasks \/ tasks' = Spawn(u, "move") \/ tasks' = Spawn(u, "readd")
    <3>1. pc["op"] = "limit" => sharedCgroupPath
      BY DEF SerialInv, BookkeepingInv, BookkeepingConsistent
    <3>2. QED
      BY <1>3, <3>1 DEF LimitUser, ReaddUser
  <2>2. \A v \in Users : tasks'[v]["knobs"] = tasks[v]["knobs"]
    BY <2>1, SpawnTable DEF TaskTable, Phases, WgPhases
  <2>3. UNCHANGED <<place, limits>>
    BY <1>3 DEF LimitUser, ReaddUser
  <2>4. QED
    BY <2>2, <2>3
<1>4. ASSUME NEW a \in Actors, WaitForTasks(a) \/ ClearState(a) \/ EndDeactivate(a)
      PROVE  LiftInv'
  BY <1>4 DEF WaitForTasks, ClearState, EndDeactivate
<1>5. ASSUME NEW a \in Actors, NEW u \in Users, RestoreUser(a, u)
      PROVE  LiftInv'
  <2>1. Quiet
    BY <1>5 DEF RestoreUser, SerialInv
  <2>2. tasks[u]["knobs"] = 0
    BY <2>1 DEF Quiet, WgPhases
  <2>3. /\ UNCHANGED tasks
        /\ \/ UNCHANGED <<place, limits>>
           \/ /\ place' = place \/ place' = [place EXCEPT ![u] = "own"]
              /\ limits' = IF ResourceLimits THEN limits \ {u} ELSE limits
    BY <1>5 DEF RestoreUser, ApplyCPULimitOK, ApplyCPULimitFails, LiftLimits
  <2>4. QED
    BY <2>2, <2>3
<1>6. ASSUME NEW who \in {"loop", "mcp"}, RunControlCycle(who)
      PROVE  LiftInv'
  <2>1. PICK seen \in SUBSET Users, busy \in SUBSET Users, eligible \in SUBSET Users :
             StartActivate(seen, eligible) \/ ReleaseIdleUsers(busy, eligible)
    BY <1>6 DEF RunControlCycle, Seen
  <2>2. tasks' = tasks \/ tasks' = SpawnAll(activeUsers \ busy, "release")
    BY <2>1 DEF StartActivate, ReleaseIdleUsers
  <2>3. \A v \in Users : tasks'[v]["knobs"] = tasks[v]["knobs"]
    BY <2>2, SpawnAllTable DEF TaskTable, Phases, WgPhases
  <2>4. UNCHANGED <<place, limits>>
    BY <2>1 DEF StartActivate, ReleaseIdleUsers
  <2>5. QED
    BY <2>3, <2>4
<1>7. ASSUME NEW who \in {"loop", "mcp"}, CycleDeactivates(who)
      PROVE  LiftInv'
  BY <1>7 DEF CycleDeactivates
<1>8. CASE ForceActivateLimits
  <2>1. PICK seen \in SUBSET Users, eligible \in SUBSET Users : StartActivate(seen, eligible)
    BY <1>8 DEF ForceActivateLimits, Seen
  <2>2. QED
    BY <2>1 DEF StartActivate
<1>9. CASE ForceDeactivateLimits
  BY <1>9 DEF ForceDeactivateLimits
<1>10. ASSUME NEW u \in Users, OnUserPSIEvent(u) \/ NewSession(u)
      PROVE  LiftInv'
  BY <1>10 DEF OnUserPSIEvent, NewSession
<1>11. ASSUME NEW u \in Users, MoveToShared(u, "move", "knobs")
      PROVE  LiftInv'
  <2>1. \A v \in Users : v # u => tasks'[v]["knobs"] = tasks[v]["knobs"]
    BY <1>11, ActivationMoveTable, PhaseNames
  <2>2. place'[u] # "own" /\ limits' = limits /\ \A v \in Users : v # u => place'[v] = place[v]
    BY <1>11 DEF MoveToShared
  <2>3. QED
    BY <2>1, <2>2
<1>12. ASSUME NEW u \in Users, MoveToShared(u, "readd", "weigh")
      PROVE  LiftInv'
  <2>1. \A v \in Users : tasks'[v]["knobs"] = tasks[v]["knobs"]
    BY <1>12, ReaddMoveTable, PhaseNames
  <2>2. limits' = limits /\ \A v \in Users : place'[v] = "own" => place[v] = "own"
    BY <1>12 DEF MoveToShared
  <2>3. QED
    BY <2>1, <2>2
<1>13. ASSUME NEW u \in Users, ApplyKnobs(u)
      PROVE  LiftInv'
  <2>1. \A v \in Users : v # u => tasks'[v]["knobs"] = tasks[v]["knobs"]
    BY <1>13, FinishTable DEF ApplyKnobs, TaskTable, Phases, WgPhases
  <2>2. place[u] # "own" /\ place' = place
    BY <1>13 DEF ApplyKnobs
  <2>3. limits' = IF ResourceLimits THEN limits \cup {u} ELSE limits
    BY <1>13 DEF ApplyKnobs
  <2>4. QED
    BY <2>1, <2>2, <2>3
<1>14. ASSUME NEW u \in Users, ApplyWeight(u) \/ EvictUser(u) \/ RemoveSubDir(u)
      PROVE  LiftInv'
  <2>1. \A v \in Users : tasks'[v]["knobs"] = tasks[v]["knobs"]
    <3>1. CASE ApplyWeight(u)
      BY <3>1, FinishTable DEF ApplyWeight, TaskTable, Phases, WgPhases
    <3>2. CASE EvictUser(u)
      BY <3>2, EvictTable, PhaseNames DEF TaskTable
    <3>3. CASE RemoveSubDir(u)
      BY <3>3, FinishTable DEF RemoveSubDir, TaskTable, Phases, WgPhases
    <3>4. QED
      BY <1>14, <3>1, <3>2, <3>3
  <2>2. limits' = limits /\ \A v \in Users : place'[v] = "own" => place[v] = "own"
    BY <1>14 DEF ApplyWeight, EvictUser, RemoveSubDir
  <2>3. QED
    BY <2>1, <2>2
<1>15. ASSUME NEW u \in Users
      PROVE  ~LateMove(u)
  BY DEF SerialInv, LateMove
<1>16. CASE BeginShutdown \/ DrainTasks
  BY <1>16 DEF BeginShutdown, DrainTasks
<1>17. CASE CleanupAll
  BY <1>17 DEF CleanupAll
<1>18. CASE Die
  BY <1>18 DEF Die, NoTasks, Phases, WgPhases
<1>19. CASE Boot \/ UNCHANGED vars
  BY <1>19 DEF Boot, vars
<1>20. QED
  BY <1>1, <1>2, <1>3, <1>4, <1>5, <1>6, <1>7, <1>8, <1>9, <1>10, <1>11, <1>12, <1>13, <1>14,
     <1>15, <1>16, <1>17, <1>18, <1>19
     DEF Next, Operation, OpStep, DeactivateStep, Goroutine, ActivateAborts, LimitUserFails

\* No user is left under a RAM or IO limit when limits are off: deactivateLimits
\* waits for the goroutines that set them and lifts them for everybody it moves to
\* its own cgroup, through crashes, sessions and forced operations; a forced
\* operation beside Cleanup and a workload policy are left out.
THEOREM LimitsAreLifted ==
    ASSUME ~Faults, ~AutodetectPatterns, ~(Shutdowns /\ MCPWrite)
    PROVE  Spec => []ResourceLimitsLifted
<1>1. Init => LiftInv
  BY DEF Init, LiftInv
<1>2. TypeOK /\ BookkeepingInv /\ SerialInv /\ LiftInv /\ [Next]_vars => LiftInv'
  BY LiftStep
<1>3. TypeOK /\ LiftInv => ResourceLimitsLifted
  BY DEF TypeOK, LiftInv, ResourceLimitsLifted
<1>4. QED
  BY <1>1, <1>2, <1>3, SerialInvariant, BookkeepingInvariant, PTL DEF Spec

-----------------------------------------------------------------------------
(* Shutdown.                                                               *)

\* A confined process is in a sub-cgroup that exists, so CleanupAll finds it; and
\* on the way there only a user has failed that is, and stays, unknown.
FreeInv ==
    /\ \A u \in Users : place[u] = "shared" => u \in subDirs
    /\ pc["shutdown"] = "restore" /\ err["shutdown"] =>
           \E u \in unknown : u \notin todo["shutdown"]
    /\ ShutdownFreesIfTracked

\* One step keeps it.
LEMMA FreeStep ==
    ASSUME ~Faults, ~ManyProcesses, TypeOK, TypeOK', SerialInv, SerialInv', FreeInv, [Next]_vars
    PROVE  FreeInv'
<1> USE DEF TypeOK, FreeInv, ShutdownFreesIfTracked, NothingConfined, Goto, Return, Actors, Control,
            Places, memory, locals, cgroups, knobs, tree, tracking
<1>1. CASE CreateSharedCgroup \/ ApplySharedCPULimit \/ EndActivate \/ EndReadd \/ RevertPSIBoosts
  BY <1>1 DEF CreateSharedCgroup, ApplySharedCPULimit, EndActivate, EndReadd, RevertPSIBoosts,
              SerialInv
<1>2. CASE ApplyPatternPolicies
  BY <1>2 DEF ApplyPatternPolicies, ApplyCPULimitOK, ApplyCPULimitFails, CreateUserCgroup, SerialInv
<1>3. ASSUME NEW u \in Users, LimitUser(u) \/ ReaddUser(u)
      PROVE  FreeInv'
  BY <1>3 DEF LimitUser, ReaddUser, MakeSubDir, SerialInv
<1>4. ASSUME NEW a \in Actors, WaitForTasks(a) \/ ClearState(a) \/ EndDeactivate(a)
      PROVE  FreeInv'
  BY <1>4 DEF WaitForTasks, ClearState, EndDeactivate, RemoveSharedDir, AfterExecute, SerialInv
<1>5. ASSUME NEW a \in Actors, NEW u \in Users, RestoreUser(a, u)
      PROVE  FreeInv'
  <2>1. pc[a] = "restore" /\ u \in todo[a] /\ todo' = [todo EXCEPT ![a] = @ \ {u}]
    BY <1>5 DEF RestoreUser
  <2>2. \A v \in Users : place'[v] = "shared" => place[v] = "shared"
    BY <1>5 DEF RestoreUser, ApplyCPULimitOK, ApplyCPULimitFails
  <2>3. UNCHANGED <<pc, subDirs>>
    BY <1>5 DEF RestoreUser
  <2>4. pc["shutdown"] # "done"
    BY <2>1 DEF SerialInv
  <2>5. ASSUME pc["shutdown"] = "restore", err'["shutdown"]
        PROVE  \E v \in unknown' : v \notin todo'["shutdown"]
    <3>1. a = "shutdown"
      BY <2>1, <2>5 DEF SerialInv
    <3>2. CASE err["shutdown"]
      <4>1. PICK v \in unknown : v \notin todo["shutdown"]
        BY <2>5, <3>2
      <4>2. v # u /\ v \notin todo'["shutdown"]
        BY <2>1, <3>1, <4>1
      <4>3. v \in unknown'
        BY <1>5, <4>1, <4>2 DEF RestoreUser, LiftLimits, CreateUserCgroup
      <4>4. QED
        BY <4>2, <4>3
    <3>3. CASE ~err["shutdown"]
      <4>1. u \in unknown /\ UNCHANGED tracking
        BY <1>5, <2>5, <3>1, <3>3 DEF RestoreUser, ApplyCPULimitFails
      <4>2. u \notin todo'["shutdown"]
        BY <2>1, <3>1
      <4>3. QED
        BY <4>1, <4>2
    <3>4. QED
      BY <3>2, <3>3
  <2>6. QED
    BY <2>2, <2>3, <2>4, <2>5
<1>6. ASSUME NEW who \in {"loop", "mcp"}, RunControlCycle(who)
      PROVE  FreeInv'
  <2>1. PICK seen \in SUBSET Users, busy \in SUBSET Users, eligible \in SUBSET Users :
             StartActivate(seen, eligible) \/ ReleaseIdleUsers(busy, eligible)
    BY <1>6 DEF RunControlCycle, Seen
  <2>2. QED
    BY <2>1 DEF StartActivate, ReleaseIdleUsers
<1>7. ASSUME NEW who \in {"loop", "mcp"}, CycleDeactivates(who)
      PROVE  FreeInv'
  BY <1>7 DEF CycleDeactivates
<1>8. CASE ForceActivateLimits
  <2>1. PICK seen \in SUBSET Users, eligible \in SUBSET Users : StartActivate(seen, eligible)
    BY <1>8 DEF ForceActivateLimits, Seen
  <2>2. QED
    BY <2>1 DEF StartActivate
<1>9. CASE ForceDeactivateLimits
  BY <1>9 DEF ForceDeactivateLimits
<1>10. ASSUME NEW u \in Users, OnUserPSIEvent(u) \/ NewSession(u)
      PROVE  FreeInv'
  BY <1>10 DEF OnUserPSIEvent, NewSession
<1>11. ASSUME NEW u \in Users, Goroutine(u)
      PROVE  FreeInv'
  <2>1. pc["shutdown"] # "done"
    BY <1>11, NoGoroutineRuns DEF SerialInv
  <2>2. \A v \in Users : place'[v] = "shared" => v \in subDirs'
    BY <1>11 DEF Goroutine, MoveToShared, MakeSubDir, ApplyKnobs, ApplyWeight, EvictUser,
                 RemoveSubDir, LateMove
  <2>3. UNCHANGED <<pc, err, todo>>
    BY <1>11 DEF Goroutine, MoveToShared, ApplyKnobs, ApplyWeight, EvictUser, RemoveSubDir,
                 LateMove
  <2>4. pc["shutdown"] # "restore"
    BY <1>11, NoGoroutineRuns DEF SerialInv
  <2>5. QED
    BY <2>1, <2>2, <2>3, <2>4
<1>12. CASE BeginShutdown \/ DrainTasks
  BY <1>12 DEF BeginShutdown, DrainTasks
<1>13. CASE CleanupAll
  <2>1. /\ place' = [u \in Users |-> IF place[u] = "shared" /\ u \in subDirs
                                     THEN "free" ELSE place[u]]
        /\ ~sharedDir'
    <3>1. PICK stuck \in SUBSET {u \in subDirs : place[u] = "shared"} :
               /\ stuck = {}
               /\ place' = [u \in Users |->
                              IF place[u] = "shared" /\ u \in subDirs \ stuck
                              THEN "free" ELSE place[u]]
               /\ sharedDir' = (sharedDir /\ stuck # {})
      BY <1>13 DEF CleanupAll, BatchMayFail
    <3>2. subDirs \ stuck = subDirs
      BY <3>1
    <3>3. ~sharedDir'
      BY <3>1
    <3> HIDE DEF TypeOK, FreeInv
    <3>4. QED
      BY <3>1, <3>2, <3>3
  <2>2. \A u \in Users : place'[u] # "shared"
    BY <2>1
  <2>3. pc' = [pc EXCEPT !["shutdown"] = "done"]
    BY <1>13 DEF CleanupAll
  <2>4. QED
    BY <2>1, <2>2, <2>3
<1>14. CASE Die
  BY <1>14 DEF Die
<1>15. CASE Boot \/ UNCHANGED vars
  BY <1>15 DEF Boot, vars
<1>16. QED
  BY <1>1, <1>2, <1>3, <1>4, <1>5, <1>6, <1>7, <1>8, <1>9, <1>10, <1>11, <1>12, <1>13, <1>14,
     <1>15
     DEF Next, Operation, OpStep, DeactivateStep, ActivateAborts, LimitUserFails

\* Cleanup leaves no process in base/limited and no directory behind, whatever the
\* main loop had in flight when the signal arrived and however many users were
\* limited, when createdCgroups names every base/user_u there is: in the first
\* daemon, after any number of crashes, and in every later one until an ordinary
\* shutdown has left a restored user's cgroup behind.
THEOREM ShutdownFrees ==
    ASSUME ~Faults, ~ManyProcesses, ~MCPWrite
    PROVE  Spec => []ShutdownFreesIfTracked
<1>1. Init => FreeInv
  BY DEF Init, FreeInv, ShutdownFreesIfTracked, NothingConfined, Actors
<1>2. TypeOK /\ TypeOK' /\ SerialInv /\ SerialInv' /\ FreeInv /\ [Next]_vars => FreeInv'
  BY FreeStep
<1>3. FreeInv => ShutdownFreesIfTracked
  BY DEF FreeInv
<1>4. QED
  BY <1>1, <1>2, <1>3, SerialInvariant, PTL DEF Spec

-----------------------------------------------------------------------------
(* LimitsManager implements Limiter, step by step: cgroups, goroutines and *)
(* locks carry out decisions and nothing else.  The fairness part of       *)
(* Limiter is model-checked (LimiterSpec).                                 *)


\* Listed users, and the abstract status of all users.
Listed == activeUsers \cup added
Status == [u \in Users |-> LimiterStatus(u)]

\* Nobody is listed or unlisted, confined or freed.
LEMMA StatusKept ==
    ASSUME Listed' = Listed,
           \A v \in Users : place'[v] = "shared" <=> place[v] = "shared"
    PROVE  Status' = Status
BY DEF Status, LimiterStatus, Listed

\* A decision that lists one user.
LEMMA StepLists ==
    ASSUME NEW u \in Users, u \notin Listed, place[u] # "shared",
           Listed' = Listed \cup {u}, place' = place
    PROVE  L!Next
<1>1. Status[u] = "free" /\ Status' = [Status EXCEPT ![u] = "joining"]
  BY DEF Status, LimiterStatus, Listed
<1>2. L!List(u)
  BY <1>1 DEF L!List, Status
<1>3. QED
  BY <1>2 DEF L!Next

\* A decision that releases confined users.
LEMMA StepUnlists ==
    ASSUME NEW S \in SUBSET Users, S \subseteq Listed, \A u \in S : place[u] = "shared",
           Listed' = Listed \ S, place' = place
    PROVE  L!Next
<1>1. \A u \in S : Status[u] = "limited"
  BY DEF Status, LimiterStatus, Listed
<1>2. Status' = [u \in Users |-> IF u \in S THEN "leaving" ELSE Status[u]]
  BY DEF Status, LimiterStatus, Listed
<1>3. L!Unlist(S)
  BY <1>1, <1>2 DEF L!Unlist, Status
<1>4. QED
  BY <1>3 DEF L!Next

\* The processes of a listed user are confined.
LEMMA StepConfines ==
    ASSUME TypeOK, NEW u \in Users, u \in Listed, place[u] # "shared",
           Listed' = Listed, place' = [place EXCEPT ![u] = "shared"]
    PROVE  L!Next
<1>1. Status[u] = "joining" /\ Status' = [Status EXCEPT ![u] = "limited"]
  BY DEF Status, LimiterStatus, Listed, TypeOK
<1>2. L!Confine(u)
  BY <1>1 DEF L!Confine, Status
<1>3. QED
  BY <1>2 DEF L!Next

\* The processes of a released user leave.
LEMMA StepFrees ==
    ASSUME TypeOK, NEW u \in Users, u \notin Listed, place[u] = "shared", Listed' = Listed,
           NEW p \in {"free", "own"}, place' = [place EXCEPT ![u] = p]
    PROVE  L!Next
<1>1. Status[u] = "leaving" /\ Status' = [Status EXCEPT ![u] = "free"]
  BY DEF Status, LimiterStatus, Listed, TypeOK
<1>2. L!Free(u)
  BY <1>1 DEF L!Free, Status
<1>3. QED
  BY <1>2 DEF L!Next

\* Every step is a step of Limiter or leaves the status of everybody alone.
LEMMA RefinementStep ==
    ASSUME MaxTasks = 1, ~Faults, ~ManyProcesses, ~Crashes, ~Shutdowns, ~Sessions,
           ~AutodetectPatterns, TypeOK, BookkeepingInv, PromptInv, ConfinedInv, [Next]_vars
    PROVE  L!Next \/ Status' = Status
<1> USE DEF TypeOK, Goto, Actors, Control, Places, memory, locals, cgroups, knobs, tree, tracking
<1>1. CASE UNCHANGED <<activeUsers, added, place>>
  BY <1>1, StatusKept DEF Listed
<1>2. CASE CreateSharedCgroup \/ ApplySharedCPULimit \/ EndActivate \/ RevertPSIBoosts
  BY <1>1, <1>2 DEF CreateSharedCgroup, ApplySharedCPULimit, EndActivate, RevertPSIBoosts
<1>3. CASE ApplyPatternPolicies
  BY <1>1, <1>3 DEF ApplyPatternPolicies
<1>4. ASSUME NEW u \in Users, LimitUser(u)
      PROVE  L!Next
  <2>1. pc["op"] = "limit" /\ u \notin activeUsers /\ added = {}
    BY <1>4 DEF LimitUser, BookkeepingInv, PromptInv
  <2>2. place[u] # "shared"
    BY <2>1 DEF PromptInv, NoStrandedUser, ConfinedInv
  <2>3. Listed' = Listed \cup {u} /\ place' = place
    BY <1>4 DEF LimitUser, Listed
  <2>4. QED
    BY <2>1, <2>2, <2>3, StepLists DEF Listed
<1>5. ASSUME NEW u \in Users, ReaddUser(u)
      PROVE  L!Next \/ Status' = Status
  <2>1. /\ pc["op"] = "readd" /\ u \in todo["op"]
        /\ Listed' = Listed \cup {u} /\ place' = place
    BY <1>5 DEF ReaddUser, Listed
  <2>2. CASE u \in Listed
    BY <2>1, <2>2, StatusKept
  <2>3. CASE u \notin Listed
    <3>1. place[u] # "shared"
      BY <2>1, <2>3 DEF PromptInv, NoStrandedUser, ConfinedInv, Listed
    <3>2. QED
      BY <2>1, <2>3, <3>1, StepLists
  <2>4. QED
    BY <2>2, <2>3
<1>6. CASE EndReadd
  <2>1. Listed' = Listed /\ place' = place
    BY <1>6 DEF EndReadd, Listed
  <2>2. QED
    BY <2>1, StatusKept
<1>7. CASE WaitForTasks("op") \/ EndDeactivate("op")
  BY <1>1, <1>7 DEF WaitForTasks, EndDeactivate
<1>8. ASSUME \A v \in Users : tasks[v]["move"] = 0 /\ tasks[v]["readd"] = 0
      PROVE  \A v \in Listed : place[v] = "shared"
  BY <1>8 DEF ConfinedInv, Listed
<1>9. CASE ClearState("op")
  <2>1. Quiet /\ added = {} /\ added' = {} /\ activeUsers' = {} /\ place' = place
    BY <1>9 DEF ClearState, BookkeepingInv, PromptInv
  <2>2. \A v \in Listed : place[v] = "shared"
    BY <1>8, <2>1 DEF Quiet, WgPhases
  <2>3. Listed' = Listed \ Listed /\ Listed \in SUBSET Users
    BY <2>1 DEF Listed
  <2>4. QED
    BY <2>1, <2>2, <2>3, StepUnlists
<1>10. ASSUME NEW u \in Users, RestoreUser("op", u)
      PROVE  L!Next \/ Status' = Status
  <2>1. /\ Listed = {} /\ Listed' = {}
        /\ place' = [place EXCEPT ![u] = "own"]
    BY <1>10 DEF RestoreUser, ApplyCPULimitOK, ApplyCPULimitFails, ConfinedInv, PromptInv, Listed
  <2>2. CASE place[u] = "shared"
    BY <2>1, <2>2, StepFrees
  <2>3. CASE place[u] # "shared"
    BY <2>1, <2>3, StatusKept
  <2>4. QED
    BY <2>2, <2>3
<1>11. ASSUME NEW who \in {"loop", "mcp"}, BeginOp(who)
      PROVE  /\ \A v \in Listed : place[v] = "shared"
             /\ added = {} /\ pc["op"] = "idle"
  BY <1>8, <1>11, NothingInFlight DEF BeginOp, BookkeepingInv, PromptInv, Phases, WgPhases
<1>12. ASSUME NEW who \in {"loop", "mcp"}, BeginOp(who), NEW seen \in Seen,
              NEW eligible \in SUBSET Users, StartActivate(seen, eligible)
      PROVE  Status' = Status
  <2>1. activeUsers \subseteq seen
    BY <1>11, <1>12 DEF Seen, Listed
  <2>2. Listed' = Listed /\ place' = place
    BY <1>12, <2>1 DEF StartActivate, Listed
  <2>3. QED
    BY <2>2, StatusKept
<1>13. ASSUME NEW who \in {"loop", "mcp"}, RunControlCycle(who)
      PROVE  L!Next \/ Status' = Status
  <2>1. PICK seen \in Seen, busy \in SUBSET Users, eligible \in SUBSET Users :
             /\ BeginOp(who)
             /\ StartActivate(seen, eligible) \/ ReleaseIdleUsers(busy, eligible)
    BY <1>13 DEF RunControlCycle, Seen
  <2>2. CASE StartActivate(seen, eligible)
    BY <1>12, <2>1, <2>2
  <2>3. CASE ReleaseIdleUsers(busy, eligible) /\ limitsActive
    <3>1. Listed' = Listed \ (activeUsers \ busy) /\ place' = place
      BY <1>11, <2>1, <2>3 DEF ReleaseIdleUsers, Listed
    <3>2. \A v \in activeUsers \ busy : v \in Listed /\ place[v] = "shared"
      BY <1>11, <2>1 DEF Listed
    <3>3. QED
      BY <3>1, <3>2, StepUnlists
  <2>4. CASE ReleaseIdleUsers(busy, eligible) /\ ~limitsActive
    BY <1>1, <2>4 DEF ReleaseIdleUsers
  <2>5. QED
    BY <2>1, <2>2, <2>3, <2>4
<1>14. ASSUME NEW who \in {"loop", "mcp"}, CycleDeactivates(who)
      PROVE  L!Next \/ Status' = Status
  BY <1>1, <1>14 DEF CycleDeactivates
<1>15. CASE ForceActivateLimits
  <2>1. PICK seen \in Seen, eligible \in SUBSET Users :
             BeginOp("mcp") /\ StartActivate(seen, eligible)
    BY <1>15 DEF ForceActivateLimits, Seen
  <2>2. QED
    BY <1>12, <2>1
<1>16. CASE ForceDeactivateLimits
  BY <1>1, <1>16 DEF ForceDeactivateLimits
<1>17. ASSUME NEW u \in Users,
              OnUserPSIEvent(u) \/ ApplyKnobs(u) \/ ApplyWeight(u) \/ RemoveSubDir(u)
      PROVE  L!Next \/ Status' = Status
  BY <1>1, <1>17 DEF OnUserPSIEvent, ApplyKnobs, ApplyWeight, RemoveSubDir
<1>18. ASSUME NEW u \in Users,
              MoveToShared(u, "move", "knobs") \/ MoveToShared(u, "readd", "weigh")
      PROVE  L!Next \/ Status' = Status
  <2>1. u \in Listed /\ Listed' = Listed /\ place' = [place EXCEPT ![u] = "shared"]
    BY <1>18 DEF MoveToShared, PromptInv, Listed
  <2>2. CASE place[u] = "shared"
    BY <2>1, <2>2, StatusKept
  <2>3. CASE place[u] # "shared"
    BY <2>1, <2>3, StepConfines
  <2>4. QED
    BY <2>2, <2>3
<1>19. ASSUME NEW u \in Users, EvictUser(u)
      PROVE  L!Next \/ Status' = Status
  <2>1. u \notin Listed /\ Listed' = Listed
    BY <1>19 DEF EvictUser, ConfinedInv, Listed
  <2>2. place' = place \/ (place[u] = "shared" /\ place' = [place EXCEPT ![u] = "free"])
    BY <1>19 DEF EvictUser
  <2>3. CASE place' = place
    BY <2>1, <2>3, StatusKept
  <2>4. CASE place[u] = "shared" /\ place' = [place EXCEPT ![u] = "free"]
    BY <2>1, <2>4, StepFrees
  <2>5. QED
    BY <2>2, <2>3, <2>4
<1>20. ASSUME NEW u \in Users
      PROVE  ~LateMove(u)
  <2>1. tasks[u]["own"] = 0
    BY DEF PromptInv
  <2>2. QED
    BY <2>1 DEF LateMove
<1>21. ~DeactivateStep("shutdown") /\ ~DrainTasks /\ ~CleanupAll /\ ~Boot /\ ~Die
  BY DEF PromptInv, DeactivateStep, WaitForTasks, ClearState, RestoreUser,
         EndDeactivate, DrainTasks, CleanupAll, Boot, Die
<1>22. CASE UNCHANGED vars
  BY <1>1, <1>22 DEF vars
<1>23. QED
  BY <1>2, <1>3, <1>4, <1>5, <1>6, <1>7, <1>9, <1>10, <1>13, <1>14, <1>15, <1>16, <1>17, <1>18,
     <1>19, <1>20, <1>21, <1>22
     DEF Next, Operation, OpStep, DeactivateStep, Goroutine, ActivateAborts,
         LimitUserFails, BeginShutdown, NewSession

\* The limit lifecycle implements what it promises, for every set of users: a user
\* is confined only after a decision has listed it, only released users are freed,
\* a user is listed only when nothing of an earlier release is left, and a release
\* takes only users that are confined.
THEOREM LifecycleImplementsLimiter ==
    ASSUME MaxTasks = 1, ~Faults, ~ManyProcesses, ~Crashes, ~Shutdowns, ~Sessions,
           ~AutodetectPatterns
    PROVE  Spec => L!SafetySpec
<1>1. Init => PromptInv /\ ConfinedInv
  BY DEF Init, PromptInv, NoStrandedUser, ConfinedInv, NoTasks, Actors, Phases,
         WgPhases
<1>2. /\ TypeOK /\ BookkeepingInv /\ PromptInv /\ ConfinedInv /\ [Next]_vars
        => PromptInv' /\ ConfinedInv'
  BY PromptStep, ConfinedStep
<1>3. Init => L!Init
  BY DEF Init, L!Init, LimiterStatus
<1>4. /\ TypeOK /\ BookkeepingInv /\ PromptInv /\ ConfinedInv /\ [Next]_vars
        => [L!Next]_[u \in Users |-> LimiterStatus(u)]
  BY RefinementStep DEF Status
<1>5. QED
  BY <1>1, <1>2, <1>3, <1>4, BookkeepingInvariant, PTL DEF Spec, L!SafetySpec
=============================================================================
