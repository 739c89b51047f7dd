--------------------------- MODULE LimitsManager ---------------------------
(***************************************************************************)
(* The limit lifecycle of state.Manager: who is limited, where the         *)
(* processes of every user live in the cgroup tree, the goroutines that    *)
(* move them, and the shutdown that has to undo all of it.                 *)
(*                                                                         *)
(* One operation at a time holds opMu (a control cycle, a PSI event, a     *)
(* forced activation or deactivation); it is the actor "op".  Cleanup()    *)
(* runs on the actor "shutdown" and does not take opMu.  The goroutines    *)
(* an operation starts run on their own; deactivateLimits and Cleanup      *)
(* wait for them through the WaitGroup wg.                                 *)
(*                                                                         *)
(* Cgroups, for a user u:                                                  *)
(*   base/limited          the shared cgroup, with the total CPU quota     *)
(*   base/limited/user_u   the sub-cgroup of a limited user                *)
(*   base/user_u           the user's own cgroup, where cpu.weight,        *)
(*                         memory.max and io.max are written               *)
(* The processes of a user are represented by one process: they all move   *)
(* or, when a write fails, none of them is taken to have moved.            *)
(***************************************************************************)
EXTENDS Integers

CONSTANTS
    Users,               \* the non-system UIDs
    PSIEnabled,          \* PSI_EVENT_DRIVEN: psiWatcher # nil
    ResourceLimits,      \* RAM_LIMIT_ENABLED or IO_LIMIT_ENABLED, for all users
    AutodetectPatterns,  \* AUTODETECT_PATTERNS
    MCPWrite,            \* MCP server on, with MCP_ALLOW_WRITE_OPS
    Faults,              \* cgroupfs writes may fail or time out
    ManyProcesses,       \* users may have more than one process
    Sessions,            \* users log out and in again
    Shutdowns,           \* SIGTERM or SIGINT may arrive
    Crashes,             \* the daemon may be killed at any moment
    MaxTasks             \* bound: an operation begins with fewer goroutines in
                         \* flight per user and phase; with 1, the goroutines of
                         \* an operation end before the next one begins

ASSUME ConstantsAssumption ==
    /\ {PSIEnabled, ResourceLimits, AutodetectPatterns, MCPWrite, Faults,
        ManyProcesses, Sessions, Shutdowns, Crashes} \subseteq BOOLEAN
    /\ MaxTasks \in Nat \ {0}

VARIABLES
    \* memory of state.Manager
    limitsActive,
    activeUsers,
    sharedCgroupPath,    \* TRUE when the path is not ""
    psiBoostedAt,        \* the users with an entry in the map
    \* control state of the two actors and their local variables
    pc,
    todo,                \* users the running loop has still to visit
    path,                \* the local sharedPath of deactivateLimits
    err,                 \* firstError # nil
    added,               \* releaseIdleUsers: users to mark active at the end
    progress,            \* activateLimits: limitedCount > 0 || removedCount > 0
    inCycle,             \* the operation is a control cycle, not a forced one
    caller,              \* who runs the operation: the main loop or MCP
    \* goroutines in flight
    tasks,
    \* the cgroup tree
    sharedDir,           \* base/limited exists
    quota,               \* its cpu.max holds the shared quota
    subDirs,             \* users u whose base/limited/user_u exists
    place,               \* cgroup of the user's process
    boosted,             \* users whose own cpu.weight is PSI_BOOST_WEIGHT
    limits,              \* users whose own cgroup has RAM or IO limits
    \* how cgroup.Manager keeps track of the cgroups base/user_u
    unknown,             \* users u whose base/user_u exists and is not in
                         \* createdCgroups
    untracked,           \* users u whose base/user_u exists and has no line in
                         \* the tracking file
    \* the process
    up

memory  == <<limitsActive, activeUsers, sharedCgroupPath, psiBoostedAt>>
locals  == <<todo, path, err, added, progress, inCycle, caller>>
cgroups == <<sharedDir, quota, subDirs, place, boosted, limits>>
knobs   == <<boosted, limits>>
tree    == <<sharedDir, quota, subDirs>>
tracking == <<unknown, untracked>>
vars    == <<memory, pc, locals, tasks, cgroups, tracking, up>>

Actors == {"op", "shutdown"}

\* "shared".."limit": activateLimits; "readd": releaseIdleUsers;
\* "wait".."restore": deactivateLimits; "patterns", "revert": later stages of
\* the control cycle; "drain", "cleanup", "done": Cleanup.
Control == {"idle", "shared", "quota", "limit", "readd", "wait", "clear",
            "restore", "patterns", "revert", "drain", "cleanup", "done"}

\* A goroutine of activateLimits is at "move" and then at "knobs"; of a
\* re-added user at "readd" and then at "weigh"; of a released user at
\* "release" and then at "rmdir".  "own" is the mover that ApplyCPULimit leaves
\* behind when it times out: the only one that wg does not count.
WgPhases == {"move", "knobs", "readd", "weigh", "release", "rmdir"}
Phases   == WgPhases \cup {"own"}

Places == {"free", "own", "shared"}

NoTasks == [u \in Users |-> [p \in Phases |-> 0]]

\* No goroutine of user u is in flight.
Settled(u) == \A p \in Phases : tasks[u][p] = 0

\* wg.Wait() returns.
Quiet == \A u \in Users : \A p \in WgPhases : tasks[u][p] = 0

TypeOK ==
    /\ limitsActive \in BOOLEAN
    /\ activeUsers \subseteq Users
    /\ sharedCgroupPath \in BOOLEAN
    /\ psiBoostedAt \subseteq Users
    /\ pc \in [Actors -> Control]
    /\ todo \in [Actors -> SUBSET Users]
    /\ path \in [Actors -> BOOLEAN]
    /\ err \in [Actors -> BOOLEAN]
    /\ added \subseteq Users
    /\ progress \in BOOLEAN
    /\ inCycle \in BOOLEAN
    /\ caller \in {"loop", "mcp"}
    /\ tasks \in [Users -> [Phases -> Nat]]
    /\ sharedDir \in BOOLEAN
    /\ quota \in BOOLEAN
    /\ subDirs \subseteq Users
    /\ place \in [Users -> Places]
    /\ boosted \subseteq Users
    /\ limits \subseteq Users
    /\ unknown \subseteq Users
    /\ untracked \subseteq Users
    /\ up \in BOOLEAN

-----------------------------------------------------------------------------
(* NewManager, with no cgroup left from an earlier run.                    *)

Init ==
    /\ limitsActive = FALSE
    /\ activeUsers = {}
    /\ sharedCgroupPath = FALSE
    /\ psiBoostedAt = {}
    /\ pc = [a \in Actors |-> "idle"]
    /\ todo = [a \in Actors |-> {}]
    /\ path = [a \in Actors |-> FALSE]
    /\ err = [a \in Actors |-> FALSE]
    /\ added = {}
    /\ progress = FALSE
    /\ inCycle = FALSE
    /\ caller = "loop"
    /\ tasks = NoTasks
    /\ sharedDir = FALSE
    /\ quota = FALSE
    /\ subDirs = {}
    /\ place = [u \in Users |-> "free"]
    /\ boosted = {}
    /\ limits = {}
    /\ unknown = {}
    /\ untracked = {}
    /\ up = TRUE

-----------------------------------------------------------------------------
(* Helpers.                                                                *)

Goto(a, label) == pc' = [pc EXCEPT ![a] = label]

\* activateLimits or deactivateLimits returns: its local variables are gone.
Return(a) ==
    /\ todo' = [todo EXCEPT ![a] = {}]
    /\ path' = [path EXCEPT ![a] = FALSE]
    /\ err' = [err EXCEPT ![a] = FALSE]

Spawn(u, p) == [tasks EXCEPT ![u][p] = @ + 1]

SpawnAll(S, p) ==
    [u \in Users |->
        [tasks[u] EXCEPT ![p] = IF u \in S THEN @ + 1 ELSE @]]

Finish(u, p) == tasks' = [tasks EXCEPT ![u][p] = @ - 1]

Advance(u, from, to) ==
    tasks' = [tasks EXCEPT ![u][from] = @ - 1, ![u][to] = @ + 1]

\* opMu is taken.  The main loop is the caller of cycles and PSI events until
\* it enters shutdown(); MCP handlers run until the process exits.
BeginOp(who) ==
    /\ up
    /\ pc["op"] = "idle"
    /\ who = "loop" => pc["shutdown"] = "idle"
    /\ who = "mcp" => MCPWrite
    /\ \A u \in Users : \A p \in Phases : tasks[u][p] < MaxTasks
    /\ caller' = who

\* MkdirAll(base/limited/user_u): a base/limited it creates has no quota.
MakeSubDir(u) ==
    /\ sharedDir' = TRUE
    /\ quota' = (quota /\ sharedDir)
    /\ subDirs' = subDirs \cup {u}

\* os.RemoveAll(base/limited): only cgroups without processes can be removed.
RemoveSharedDir ==
    LET kept == {u \in subDirs : place[u] = "shared"}
    IN  /\ subDirs' = kept
        /\ sharedDir' = (sharedDir /\ kept # {})
        /\ quota' = (quota /\ kept # {})

\* CreateUserCgroup(u): the cgroup is in the map and has a line in the file.
\* Failed appends and kills in the middle of it are the subject of
\* CgroupTracking.
CreateUserCgroup(u) ==
    /\ unknown' = unknown \ {u}
    /\ untracked' = untracked \ {u}

\* MoveAllUserProcesses(u): the process, if the user has one, moves to
\* base/user_u, unless the cgroup is missing from createdCgroups.
ApplyCPULimitOK(u) ==
    /\ \/ u \notin unknown /\ place' = [place EXCEPT ![u] = "own"]
       \/ Sessions /\ place[u] = "free" /\ UNCHANGED place
    /\ UNCHANGED tasks

\* MoveProcessToCgroup refuses the process of a user whose base/user_u exists,
\* so that ApplyCPULimit does not create it, and is not in the map.  When a
\* write fails the process may or may not have moved, and on a timeout the mover
\* is still running.
ApplyCPULimitFails(u) ==
    \/ (Faults \/ u \in unknown) /\ UNCHANGED <<place, tasks>>
    \/ /\ Faults /\ u \notin unknown
       /\ place' = [place EXCEPT ![u] = "own"]
       /\ UNCHANGED tasks
    \/ /\ Faults
       /\ \A p \in Phases : tasks[u][p] < MaxTasks
       /\ tasks' = Spawn(u, "own")
       /\ UNCHANGED place

-----------------------------------------------------------------------------
(* activateLimits                                                          *)

\* Phase 1: users without metrics are dropped from activeUsers.
StartActivate(seen, eligible) ==
    /\ activeUsers' = activeUsers \cap seen
    /\ progress' = (activeUsers \ seen # {})
    /\ todo' = [todo EXCEPT !["op"] = eligible]
    /\ err' = [err EXCEPT !["op"] = FALSE]
    /\ Goto("op", IF sharedCgroupPath THEN "limit" ELSE "shared")
    /\ UNCHANGED <<limitsActive, sharedCgroupPath, psiBoostedAt, path, added,
                   tasks, cgroups, tracking, up>>

\* Phase 2: an existing base/limited is removed and made again, unless some
\* sub-cgroup still holds processes.
CreateSharedCgroup ==
    /\ pc["op"] = "shared"
    /\ LET kept == {u \in subDirs : place[u] = "shared"}
       IN  /\ subDirs' = kept
           /\ quota' = (quota /\ kept # {})
    /\ sharedDir' = TRUE
    /\ sharedCgroupPath' = TRUE
    /\ Goto("op", "quota")
    /\ UNCHANGED <<limitsActive, activeUsers, psiBoostedAt, locals, tasks,
                   place, knobs, tracking, up>>

ApplySharedCPULimit ==
    /\ pc["op"] = "quota"
    /\ quota' = TRUE
    /\ Goto("op", "limit")
    /\ UNCHANGED <<memory, locals, tasks, sharedDir, subDirs, place, knobs,
                   tracking, up>>

\* Either call fails: activateLimits returns the error.  sharedCgroupPath keeps
\* the value it has by then.
ActivateAborts ==
    /\ Faults
    /\ pc["op"] \in {"shared", "quota"}
    /\ Goto("op", "idle")
    /\ Return("op")
    /\ progress' = FALSE
    /\ UNCHANGED <<memory, added, inCycle, caller, tasks, cgroups, tracking,
                   up>>

\* Phase 3, one eligible user that is not limited yet.  When Cleanup has cleared
\* the path meanwhile, the directory is made outside the cgroup tree, where the
\* goroutine moves nobody; it then writes to base/user_u as any other.
LimitUser(u) ==
    /\ pc["op"] = "limit"
    /\ u \in todo["op"] \ activeUsers
    /\ todo' = [todo EXCEPT !["op"] = @ \ {u}]
    /\ activeUsers' = activeUsers \cup {u}
    /\ progress' = TRUE
    /\ \/ /\ sharedCgroupPath
          /\ MakeSubDir(u)
          /\ tasks' = Spawn(u, "move")
       \/ /\ ~sharedCgroupPath
          /\ tasks' = Spawn(u, "knobs")
          /\ UNCHANGED tree
    /\ UNCHANGED <<limitsActive, sharedCgroupPath, psiBoostedAt, pc, path,
                   err, added, inCycle, caller, place, knobs, tracking, up>>

LimitUserFails(u) ==
    /\ Faults
    /\ pc["op"] = "limit"
    /\ u \in todo["op"] \ activeUsers
    /\ todo' = [todo EXCEPT !["op"] = @ \ {u}]
    /\ err' = [err EXCEPT !["op"] = TRUE]
    /\ UNCHANGED <<memory, pc, path, added, progress, inCycle, caller, tasks,
                   cgroups, tracking, up>>

\* The next stage of a cycle, or the end of the operation: an error and a
\* forced operation end here.
AfterExecute(failed) == IF failed \/ ~inCycle THEN "idle" ELSE "patterns"

\* Mutant: an activation with an error does not set the flag.
EndActivateOnlyIfClean ==
    /\ pc["op"] = "limit"
    /\ todo["op"] \subseteq activeUsers
    /\ limitsActive' = (limitsActive \/ (progress /\ ~err["op"]))
    /\ Return("op")
    /\ progress' = FALSE
    /\ Goto("op", AfterExecute(err["op"]))
    /\ UNCHANGED <<activeUsers, sharedCgroupPath, psiBoostedAt, added,
                   inCycle, caller, tasks, cgroups, tracking, up>>

EndActivate ==
    /\ pc["op"] = "limit"
    /\ todo["op"] \subseteq activeUsers
    /\ limitsActive' = (limitsActive \/ progress)
    /\ Return("op")
    /\ progress' = FALSE
    /\ Goto("op", AfterExecute(err["op"]))
    /\ UNCHANGED <<activeUsers, sharedCgroupPath, psiBoostedAt, added,
                   inCycle, caller, tasks, cgroups, tracking, up>>

-----------------------------------------------------------------------------
(* releaseIdleUsers                                                        *)

\* Mutant: idle users leave the map and nobody takes their processes out.
ReleaseWithoutGoroutine(busy, eligible) ==
    /\ limitsActive
    /\ activeUsers' = activeUsers \cap busy
    /\ psiBoostedAt' = psiBoostedAt \cap busy
    /\ todo' = [todo EXCEPT !["op"] = {}]
    /\ added' = {}
    /\ Goto("op", "readd")
    /\ UNCHANGED <<limitsActive, sharedCgroupPath, path, err, progress, tasks,
                   cgroups, tracking, up>>

\* Mutant: idle users are released and stay in the map.
ReleaseWithoutDelete(busy, eligible) ==
    /\ limitsActive
    /\ tasks' = SpawnAll(activeUsers \ busy, "release")
    /\ todo' = [todo EXCEPT !["op"] = (eligible \cap busy) \ activeUsers]
    /\ added' = {}
    /\ Goto("op", "readd")
    /\ UNCHANGED <<memory, path, err, progress, cgroups, tracking, up>>

\* The section under mu: idle users and users without metrics are released,
\* each by a goroutine of its own.
ReleaseIdleUsers(busy, eligible) ==
    LET released == activeUsers \ busy
    IN  IF limitsActive
        THEN /\ activeUsers' = activeUsers \ released
             /\ psiBoostedAt' = psiBoostedAt \ released
             /\ tasks' = IF sharedCgroupPath THEN SpawnAll(released, "release")
                                             ELSE tasks
             /\ todo' = [todo EXCEPT !["op"] =
                           IF sharedCgroupPath
                           THEN (eligible \cap busy) \ activeUsers ELSE {}]
             /\ added' = {}
             /\ Goto("op", "readd")
             /\ UNCHANGED <<limitsActive, sharedCgroupPath, path, err,
                            progress, cgroups, tracking, up>>
        ELSE /\ Goto("op", "patterns")
             /\ UNCHANGED <<memory, todo, path, err, added, progress, tasks,
                            cgroups, tracking, up>>

\* A released user whose CPU usage recovered gets its sub-cgroup again.
ReaddUser(u) ==
    /\ pc["op"] = "readd"
    /\ u \in todo["op"]
    /\ todo' = [todo EXCEPT !["op"] = @ \ {u}]
    /\ \/ /\ MakeSubDir(u)
          /\ tasks' = Spawn(u, "readd")
          /\ added' = added \cup {u}
       \/ /\ Faults
          /\ UNCHANGED <<tree, tasks, added>>
    /\ UNCHANGED <<memory, pc, path, err, progress, inCycle, caller, place,
                   knobs, tracking, up>>

EndReadd ==
    /\ pc["op"] = "readd"
    /\ todo["op"] = {}
    /\ activeUsers' = activeUsers \cup added
    /\ added' = {}
    /\ Goto("op", "patterns")
    /\ UNCHANGED <<limitsActive, sharedCgroupPath, psiBoostedAt, todo, path,
                   err, progress, inCycle, caller, tasks, cgroups, tracking,
                   up>>

-----------------------------------------------------------------------------
(* deactivateLimits, called under opMu or by Cleanup.                      *)

\* Mutant: deactivateLimits does not call wg.Wait().
WaitForNothing(a) ==
    /\ pc[a] = "wait"
    /\ Goto(a, "clear")
    /\ UNCHANGED <<memory, locals, tasks, cgroups, tracking, up>>

WaitForTasks(a) ==
    /\ pc[a] = "wait"
    /\ Quiet
    /\ Goto(a, "clear")
    /\ UNCHANGED <<memory, locals, tasks, cgroups, tracking, up>>

\* Mutant: the path of the removed shared cgroup is kept.
ClearStateKeepsPath(a) ==
    /\ pc[a] = "clear"
    /\ todo' = [todo EXCEPT ![a] = activeUsers]
    /\ path' = [path EXCEPT ![a] = sharedCgroupPath]
    /\ err' = [err EXCEPT ![a] = FALSE]
    /\ activeUsers' = {}
    /\ limitsActive' = FALSE
    /\ psiBoostedAt' = psiBoostedAt \ activeUsers
    /\ Goto(a, "restore")
    /\ UNCHANGED <<sharedCgroupPath, added, progress, inCycle, caller, tasks,
                   cgroups, tracking, up>>

ClearState(a) ==
    /\ pc[a] = "clear"
    /\ todo' = [todo EXCEPT ![a] = activeUsers]
    /\ path' = [path EXCEPT ![a] = sharedCgroupPath]
    /\ err' = [err EXCEPT ![a] = FALSE]
    /\ activeUsers' = {}
    /\ limitsActive' = FALSE
    /\ sharedCgroupPath' = FALSE
    /\ psiBoostedAt' = psiBoostedAt \ activeUsers
    /\ Goto(a, "restore")
    /\ UNCHANGED <<added, progress, inCycle, caller, tasks, cgroups, tracking,
                   up>>

\* Mutant: only the CPU limit is lifted.
RestoreCPUOnly(a, u) ==
    /\ pc[a] = "restore"
    /\ u \in todo[a]
    /\ todo' = [todo EXCEPT ![a] = @ \ {u}]
    /\ ApplyCPULimitOK(u)
    /\ UNCHANGED <<memory, pc, path, err, added, progress, inCycle, caller,
                   tree, knobs, tracking, up>>

\* Mutant: a user whose restore fails is tried again, for as long as it fails.
RestoreUserRetries(a, u) ==
    /\ pc[a] = "restore"
    /\ u \in todo[a]
    /\ \/ /\ todo' = [todo EXCEPT ![a] = @ \ {u}]
          /\ ApplyCPULimitOK(u)
          /\ UNCHANGED err
       \/ /\ Faults
          /\ err' = [err EXCEPT ![a] = ~@]
          /\ UNCHANGED <<todo, tasks, place>>
    /\ UNCHANGED <<memory, pc, path, added, progress, inCycle, caller, tree,
                   knobs, tracking, up>>

\* RemoveRAMHigh and RemoveIOLimit leave a user alone that is not in the map;
\* RemoveRAMLimit enters it there.
LiftLimits(u) ==
    \/ /\ u \notin unknown
       /\ limits' = IF ResourceLimits THEN limits \ {u} ELSE limits
       /\ UNCHANGED tracking
    \/ /\ u \in unknown
       /\ UNCHANGED limits
       /\ UNCHANGED tracking \/ (ResourceLimits /\ CreateUserCgroup(u))
    \/ Faults /\ UNCHANGED <<limits, tracking>>

\* The normal quota is restored, which takes the process out of base/limited,
\* and the RAM and IO limits are lifted.  After an error, from a failing write or
\* a refused move, the loop continues with the next user.
RestoreUser(a, u) ==
    /\ pc[a] = "restore"
    /\ u \in todo[a]
    /\ todo' = [todo EXCEPT ![a] = @ \ {u}]
    /\ \/ /\ ApplyCPULimitOK(u)
          /\ LiftLimits(u)
          /\ UNCHANGED err
       \/ /\ ApplyCPULimitFails(u)
          /\ err' = [err EXCEPT ![a] = TRUE]
          /\ UNCHANGED <<limits, tracking>>
    /\ UNCHANGED <<memory, pc, path, added, progress, inCycle, caller, tree,
                   boosted, up>>

\* os.RemoveAll(sharedPath), then back to the caller.
EndDeactivate(a) ==
    /\ pc[a] = "restore"
    /\ todo[a] = {}
    /\ IF path[a] THEN RemoveSharedDir ELSE UNCHANGED tree
    /\ Goto(a, IF a = "op" THEN AfterExecute(err[a])
               ELSE IF err[a] THEN "done" ELSE "cleanup")
    /\ Return(a)
    /\ UNCHANGED <<memory, added, progress, inCycle, caller, tasks, place,
                   knobs, tracking, up>>

-----------------------------------------------------------------------------
(* Later stages of a control cycle.                                        *)

\* A changed workload policy writes its CPU quota, for which ApplyCPULimit moves
\* the processes, and its RAM quota: both to base/user_u.
ApplyPatternPolicies ==
    /\ pc["op"] = "patterns"
    /\ \/ Goto("op", "revert") /\ UNCHANGED <<place, tasks, limits, tracking>>
       \/ /\ AutodetectPatterns
          /\ \E u \in Users :
                /\ ApplyCPULimitOK(u) \/ ApplyCPULimitFails(u)
                /\ \/ UNCHANGED <<limits, tracking>>
                   \/ limits' = limits \cup {u} /\ CreateUserCgroup(u)
          /\ UNCHANGED pc
    /\ UNCHANGED <<memory, locals, tree, boosted, up>>

\* revertPSIBoosts: the entry goes even when the weight could not be written.
RevertPSIBoosts ==
    /\ pc["op"] = "revert"
    /\ \E expired \in SUBSET psiBoostedAt :
          /\ psiBoostedAt' = psiBoostedAt \ expired
          /\ \E written \in SUBSET expired :
                /\ written = expired \/ Faults
                /\ boosted' = boosted \ written
    /\ Goto("op", "idle")
    /\ UNCHANGED <<limitsActive, activeUsers, sharedCgroupPath, locals, tasks,
                   tree, place, limits, tracking, up>>

-----------------------------------------------------------------------------
(* The operations that take opMu.                                          *)

\* The users collectSystemMetrics may find: everybody with a process, so
\* everybody whose process is in a cgroup of ours.
Seen == {S \in SUBSET Users : {u \in Users : place[u] # "free"} \subseteq S}

\* busy: at least 0.1% CPU; eligible: the user passes the filters.
RunControlCycle(who) ==
    \E seen \in Seen : \E busy, eligible \in SUBSET seen :
        /\ BeginOp(who)
        /\ inCycle' = TRUE
        /\ \/ ~limitsActive /\ StartActivate(seen, eligible)
           \/ ReleaseIdleUsers(busy, eligible)

CycleDeactivates(who) ==
    /\ BeginOp(who)
    /\ limitsActive
    /\ inCycle' = TRUE
    /\ Goto("op", "wait")
    /\ UNCHANGED <<memory, todo, path, err, added, progress, tasks, cgroups,
                   tracking, up>>

ForceActivateLimits ==
    \E seen \in Seen : \E eligible \in SUBSET seen :
        /\ BeginOp("mcp")
        /\ inCycle' = FALSE
        /\ StartActivate(seen, eligible)

ForceDeactivateLimits ==
    /\ BeginOp("mcp")
    /\ inCycle' = FALSE
    /\ Goto("op", "wait")
    /\ UNCHANGED <<memory, todo, path, err, added, progress, tasks, cgroups,
                   tracking, up>>

OnUserPSIEvent(u) ==
    /\ PSIEnabled
    /\ BeginOp("loop")
    /\ u \in activeUsers
    /\ boosted' = boosted \cup {u}
    /\ psiBoostedAt' = psiBoostedAt \cup {u}
    /\ UNCHANGED <<limitsActive, activeUsers, sharedCgroupPath, pc, todo,
                   path, err, added, progress, inCycle, tasks, tree, place,
                   limits, tracking, up>>

-----------------------------------------------------------------------------
(* The goroutines.                                                         *)

\* MoveAllUserProcessesToSharedCgroup makes a missing sub-cgroup again.  It
\* moves nothing when every write fails, or when the user has no process.
MoveToShared(u, from, to) ==
    /\ tasks[u][from] > 0
    /\ Advance(u, from, to)
    /\ \/ /\ place' = [place EXCEPT ![u] = "shared"]
          /\ MakeSubDir(u)
       \/ /\ Faults \/ (Sessions /\ place[u] = "free")
          /\ UNCHANGED <<place, tree>>
    /\ UNCHANGED <<memory, pc, locals, knobs, tracking, up>>

\* Mutant: a return without wg.Done() when every write succeeds.
ApplyKnobsNotDone(u) ==
    /\ tasks[u]["knobs"] > 0
    /\ boosted' = boosted \ {u}
    /\ UNCHANGED <<memory, pc, locals, tasks, tree, place, limits, tracking,
                   up>>

\* ApplyCPUWeight(u, 100), and for a newly limited user the RAM and IO limits:
\* all written to base/user_u, the weight to the directory as it is found, the
\* limits through the map.
ApplyKnobs(u) ==
    /\ tasks[u]["knobs"] > 0
    /\ Finish(u, "knobs")
    /\ boosted' = boosted \ {u} \/ (Faults /\ UNCHANGED boosted)
    /\ IF ResourceLimits
       THEN \/ CreateUserCgroup(u) /\ limits' = limits \cup {u}
            \/ Faults /\ CreateUserCgroup(u) /\ UNCHANGED limits
            \/ Faults /\ UNCHANGED <<limits, tracking>>
       ELSE UNCHANGED <<limits, tracking>>
    /\ UNCHANGED <<memory, pc, locals, tree, place, up>>

ApplyWeight(u) ==
    /\ tasks[u]["weigh"] > 0
    /\ Finish(u, "weigh")
    /\ boosted' = boosted \ {u} \/ (Faults /\ UNCHANGED boosted)
    /\ UNCHANGED <<memory, pc, locals, tree, place, limits, tracking, up>>

\* writePidsBatch may fail.  It writes all pids with one write, and the kernel
\* moves only one process per write to cgroup.procs: several are refused.
BatchMayFail == Faults \/ ManyProcesses

\* ReleaseUserFromSharedCgroup up to its sleep: the pids found in the
\* sub-cgroup are written to the root cgroup.
EvictUser(u) ==
    /\ tasks[u]["release"] > 0
    /\ \/ u \notin subDirs /\ Finish(u, "release") /\ UNCHANGED place
       \/ /\ u \in subDirs
          /\ place' = [place EXCEPT ![u] = IF @ = "shared" THEN "free" ELSE @]
          /\ Advance(u, "release", "rmdir")
       \/ BatchMayFail /\ u \in subDirs /\ Finish(u, "release") /\ UNCHANGED place
    /\ UNCHANGED <<memory, pc, locals, tree, knobs, tracking, up>>

\* Mutant: wg.Done() is called once too often.
RemoveSubDirTwice(u) ==
    /\ Finish(u, "rmdir")
    /\ subDirs' = IF place[u] = "shared" THEN subDirs ELSE subDirs \ {u}
    /\ UNCHANGED <<memory, pc, locals, sharedDir, quota, place, knobs,
                   tracking, up>>

\* os.Remove(userPath) fails while the sub-cgroup holds a process.
RemoveSubDir(u) ==
    /\ tasks[u]["rmdir"] > 0
    /\ Finish(u, "rmdir")
    /\ subDirs' = IF place[u] = "shared" THEN subDirs ELSE subDirs \ {u}
    /\ UNCHANGED <<memory, pc, locals, sharedDir, quota, place, knobs,
                   tracking, up>>

\* The mover of an ApplyCPULimit that timed out.
LateMove(u) ==
    /\ tasks[u]["own"] > 0
    /\ Finish(u, "own")
    /\ \/ u \notin unknown /\ place' = [place EXCEPT ![u] = "own"]
       \/ /\ u \in unknown \/ (Sessions /\ place[u] = "free")
          /\ UNCHANGED place
    /\ UNCHANGED <<memory, pc, locals, tree, knobs, tracking, up>>

Goroutine(u) ==
    \/ MoveToShared(u, "move", "knobs")
    \/ MoveToShared(u, "readd", "weigh")
    \/ ApplyKnobs(u)
    \/ ApplyWeight(u)
    \/ EvictUser(u)
    \/ RemoveSubDir(u)
    \/ LateMove(u)

-----------------------------------------------------------------------------
(* Cleanup, at shutdown.  The main loop calls it, so no operation of the   *)
(* loop is running; one of MCP may be.                                     *)

BeginShutdown ==
    /\ Shutdowns
    /\ up
    /\ pc["shutdown"] = "idle"
    /\ pc["op"] = "idle" \/ caller = "mcp"
    /\ Goto("shutdown", "drain")
    /\ UNCHANGED <<memory, locals, tasks, cgroups, tracking, up>>

\* wg.Wait(), then the unlocked read of limitsActive.
DrainTasks ==
    /\ pc["shutdown"] = "drain"
    /\ Quiet
    /\ Goto("shutdown", IF limitsActive THEN "wait" ELSE "cleanup")
    /\ UNCHANGED <<memory, locals, tasks, cgroups, tracking, up>>

\* Mutant: sub-cgroups are removed and not emptied first.
CleanupAllWithoutMove ==
    /\ pc["shutdown"] = "cleanup"
    /\ RemoveSharedDir
    /\ Goto("shutdown", "done")
    /\ UNCHANGED <<memory, locals, tasks, place, knobs, tracking, up>>

\* CleanupAll: every sub-cgroup found in base/limited is emptied into the root
\* cgroup and removed.  Before that, an own cgroup in createdCgroups goes when it
\* holds no process; at the end the tracking file is deleted, and with it the
\* lines of those that stay.
CleanupAll ==
    /\ pc["shutdown"] = "cleanup"
    /\ \E stuck \in SUBSET {u \in subDirs : place[u] = "shared"} :
          /\ stuck = {} \/ BatchMayFail
          /\ place' = [u \in Users |->
                         IF place[u] = "shared" /\ u \in subDirs \ stuck
                         THEN "free" ELSE place[u]]
          /\ subDirs' = stuck
          /\ sharedDir' = (sharedDir /\ stuck # {})
          /\ quota' = (quota /\ stuck # {})
    /\ LET kept == unknown \cup {u \in Users : place[u] = "own"}
       IN  /\ boosted' = boosted \cap kept
           /\ limits' = limits \cap kept
           /\ untracked' = kept
    /\ Goto("shutdown", "done")
    /\ UNCHANGED <<memory, locals, tasks, unknown, up>>

\* The process ends: after Cleanup, or because it is killed.  Its goroutines
\* end with it; the cgroup tree and the tracking file stay, and the next process
\* (loadExistingCgroups) knows the cgroups that have a line.
Die ==
    /\ up
    /\ Crashes \/ pc["shutdown"] = "done"
    /\ up' = FALSE
    /\ limitsActive' = FALSE
    /\ activeUsers' = {}
    /\ sharedCgroupPath' = FALSE
    /\ psiBoostedAt' = {}
    /\ pc' = [a \in Actors |-> "idle"]
    /\ todo' = [a \in Actors |-> {}]
    /\ path' = [a \in Actors |-> FALSE]
    /\ err' = [a \in Actors |-> FALSE]
    /\ added' = {}
    /\ progress' = FALSE
    /\ inCycle' = FALSE
    /\ caller' = "loop"
    /\ tasks' = NoTasks
    /\ unknown' = untracked
    /\ UNCHANGED <<cgroups, untracked>>

Boot ==
    /\ ~up
    /\ up' = TRUE
    /\ UNCHANGED <<memory, pc, locals, tasks, cgroups, tracking>>

\* The processes of a user end, and a new session starts outside.
NewSession(u) ==
    /\ Sessions
    /\ place[u] # "free"
    /\ place' = [place EXCEPT ![u] = "free"]
    /\ UNCHANGED <<memory, pc, locals, tasks, tree, knobs, tracking, up>>

-----------------------------------------------------------------------------
OpStep ==
    \/ CreateSharedCgroup
    \/ ApplySharedCPULimit
    \/ ActivateAborts
    \/ \E u \in Users : LimitUser(u) \/ LimitUserFails(u) \/ ReaddUser(u)
    \/ EndActivate
    \/ EndReadd
    \/ ApplyPatternPolicies
    \/ RevertPSIBoosts

DeactivateStep(a) ==
    \/ WaitForTasks(a)
    \/ ClearState(a)
    \/ \E u \in Users : RestoreUser(a, u)
    \/ EndDeactivate(a)

Operation ==
    \/ \E who \in {"loop", "mcp"} : RunControlCycle(who) \/ CycleDeactivates(who)
    \/ ForceActivateLimits
    \/ ForceDeactivateLimits
    \/ \E u \in Users : OnUserPSIEvent(u)

Next ==
    \/ Operation
    \/ OpStep
    \/ \E a \in Actors : DeactivateStep(a)
    \/ \E u \in Users : Goroutine(u) \/ NewSession(u)
    \/ BeginShutdown
    \/ DrainTasks
    \/ CleanupAll
    \/ Die
    \/ Boot

Spec == Init /\ [][Next]_vars

\* Every step the program has begun it ends: a goroutine and a running function
\* are scheduled again.  No operation is assumed to begin, and no fault,
\* session or signal to come.
Fairness ==
    /\ \A u \in Users : WF_vars(Goroutine(u))
    /\ WF_vars(OpStep)
    /\ \A a \in Actors : WF_vars(DeactivateStep(a))
    /\ WF_vars(DrainTasks)
    /\ WF_vars(CleanupAll)

FairSpec == Spec /\ Fairness

-----------------------------------------------------------------------------
(* Properties.                                                             *)

\* Outside shutdown() the bookkeeping of state.Manager is consistent: a user is
\* in activeUsers only while limitsActive is set (activateLimits fills the map
\* first and sets the flag at its end), and limits are active only while
\* sharedCgroupPath is known.  An activation that fails half-way, a release and
\* a forced deactivation all keep it so.
BookkeepingConsistent ==
    pc["shutdown"] = "idle" =>
        /\ activeUsers \cup added # {} => limitsActive \/ pc["op"] = "limit"
        /\ limitsActive \/ pc["op"] \in {"quota", "limit"} => sharedCgroupPath

\* deactivateLimits forgets the shared cgroup, and the users in it, only when
\* no goroutine that moves processes is in flight: such a goroutine would
\* re-create base/limited after it was removed.
PathClearedOnlyWhenQuiet ==
    [][sharedCgroupPath /\ ~sharedCgroupPath' /\ up' /\ pc["shutdown"] = "idle"
          => Quiet]_vars

\* A process confined to base/limited belongs to a user the manager knows to be
\* limited, or is about to leave: its release is in flight or deactivateLimits
\* has it on its list.  Otherwise nobody would ever take it out.
NoStrandedUser ==
    up /\ pc["shutdown"] = "idle" =>
        \A u \in Users : place[u] = "shared" =>
            \/ u \in activeUsers \cup added
            \/ tasks[u]["release"] > 0
            \/ pc["op"] = "restore" /\ u \in todo["op"]

\* The converse: a user listed as limited is confined to the shared cgroup as
\* soon as its goroutine has run.
LimitedUsersConfined ==
    up /\ pc["op"] = "idle" /\ pc["shutdown"] = "idle" =>
        \A u \in activeUsers : Settled(u) => place[u] = "shared"

\* While limits are active the shared cgroup exists and carries the total CPU
\* quota; without it limited users have no CPU limit at all.
QuotaEnforced ==
    limitsActive /\ pc["op"] = "idle" /\ pc["shutdown"] = "idle"
        => sharedDir /\ quota

\* When limits are off and nothing is in flight, no user runs under a RAM or IO
\* limit that an activation left behind.
ResourceLimitsLifted ==
    up /\ ~limitsActive /\ Quiet /\ pc = [a \in Actors |-> "idle"] =>
        \A u \in limits : place[u] # "own"

\* A Cleanup that has ended leaves no process in base/limited and no directory
\* behind (docs/resman.8, "Graceful shutdown with proper resource cleanup").
NothingConfined == ~sharedDir /\ \A u \in Users : place[u] # "shared"

ShutdownFreesEveryone == pc["shutdown"] = "done" => NothingConfined

\* It does so whatever was in flight when the signal arrived, for a daemon whose
\* createdCgroups names every base/user_u there is.  An ordinary shutdown leaves
\* the cgroup of every restored user behind and deletes its line; in the next
\* daemon deactivateLimits cannot take that user out, and Cleanup returns its
\* error before CleanupAll.
ShutdownFreesIfTracked ==
    pc["shutdown"] = "done" /\ unknown = {} => NothingConfined

\* A raised cpu.weight is always remembered in psiBoostedAt, so that
\* revertPSIBoosts will take it back.
BoostsRemembered ==
    up => boosted \subseteq psiBoostedAt

\* A boosted cpu.weight is the weight of the cgroup the user's process is in.
BoostsEffective ==
    \A u \in boosted : place[u] # "shared"

\* RAM and IO limits are set on the cgroup a limited user's process is in.
ResourceLimitsEffective ==
    \A u \in limits \cap activeUsers : Settled(u) => place[u] = "own"

\* deactivateLimits ends: the goroutines it waits for finish, and it visits
\* every user once.
DeactivationEnds ==
    \A a \in Actors : pc[a] \in {"wait", "clear", "restore"} ~>
                        pc[a] \notin {"wait", "clear", "restore"}

\* Cleanup gets to its end, or the process dies: nothing it waits for waits for
\* it, whatever the main loop had in flight.
ShutdownEnds ==
    pc["shutdown"] = "drain" ~> pc["shutdown"] \in {"done", "idle"}

\* A process in base/limited whose user is no longer listed as limited does
\* leave it, or its user is limited again.
ReleasedUsersLeave ==
    \A u \in Users :
        place[u] = "shared" /\ u \notin activeUsers \cup added ~>
            place[u] # "shared" \/ u \in activeUsers \cup added

\* What the lifecycle promises, as the specification Limiter states it: a user
\* is confined only because an operation listed it, released users and only
\* they are freed, and both happen in the end.  Who is listed and where its
\* process is give the abstract status.
LimiterStatus(u) ==
    IF u \in activeUsers \cup added
    THEN IF place[u] = "shared" THEN "limited" ELSE "joining"
    ELSE IF place[u] = "shared" THEN "leaving" ELSE "free"

L == INSTANCE Limiter WITH status <- [u \in Users |-> LimiterStatus(u)]

LimiterSpec == L!Spec
=============================================================================
