--------------------------- MODULE CgroupTracking ---------------------------
(***************************************************************************)
(* How cgroup.Manager keeps track of the cgroups base/user_UID it makes:   *)
(* the map createdCgroups in memory, the tracking file on disk, and the    *)
(* directories themselves.  ApplyCPULimit and ApplyCPUWeight look at the   *)
(* directory to decide whether to create the cgroup, ApplyRAMLimit,        *)
(* ApplyRAMHigh and ApplyIOLimit look at the map, and MoveProcessToCgroup  *)
(* refuses a user that is not in the map.  The daemon may be killed        *)
(* between any two steps, also while it holds Manager.mu; the machine may  *)
(* reboot; CleanupAll runs at shutdown while MCP calls still come in, for  *)
(* the MCP server is stopped after it.                                     *)
(***************************************************************************)
CONSTANTS
    Users,      \* UIDs with a cgroup of their own, never 0
    Callers,    \* threads that call into cgroup.Manager
    Faults,     \* MkdirAll, and any access to the tracking file, may fail
    Kills,      \* the process may end at any step, not only after CleanupAll
    LateCalls   \* calls of the MCP server run while CleanupAll does

ASSUME SwitchesAssumption ==
    Faults \in BOOLEAN /\ Kills \in BOOLEAN /\ LateCalls \in BOOLEAN

VARIABLES
    phase,      \* "up", "cleanup", "rewrite", "swept" or "down"
    created,    \* Manager.createdCgroups: the users tracked in memory
    file,       \* users with a line in the tracking file
    dir,        \* users whose base/user_UID exists
    inside,     \* users with a process in base/user_UID
    call,       \* call[c]: where a call of c is, and for which user
    todo,       \* CleanupAll: the copied UIDs it has not visited yet
    lines,      \* removeCgroupFromFile: the lines it read and will write back
    forgotten   \* ghost: cgroups whose line was lost, or not read, in an accident

vars == <<phase, created, file, dir, inside, call, todo, lines, forgotten>>

Steps == {"idle", "create", "making", "write", "move"}

Idle(u) == [at |-> "idle", uid |-> u]

TypeOK ==
    /\ phase \in {"up", "cleanup", "rewrite", "swept", "down"}
    /\ created \in SUBSET Users
    /\ file \in SUBSET Users
    /\ dir \in SUBSET Users
    /\ inside \in SUBSET Users
    /\ call \in [Callers -> [at : Steps, uid : Users]]
    /\ todo \in SUBSET Users
    /\ lines \in SUBSET Users
    /\ forgotten \in SUBSET Users

Init ==
    /\ phase = "up"
    /\ created = {} /\ file = {} /\ dir = {} /\ inside = {}
    /\ call \in [Callers -> {Idle(u) : u \in Users}]
    /\ todo = {} /\ lines = {} /\ forgotten = {}

Running == phase # "down"

\* Nobody holds Manager.mu for writing.
Free == phase # "rewrite" /\ \A c \in Callers : call[c].at # "making"

\* The MCP server is stopped only after CleanupAll.
MayCall == phase = "up" \/ (LateCalls /\ Running)

GoTo(c, step) == call' = [call EXCEPT ![c].at = step]

-----------------------------------------------------------------------------
(* A call: make sure that the cgroup exists, write a file in it, and for   *)
(* ApplyCPULimit move the processes of the user into it.                   *)

\* ApplyCPULimit, ApplyCPUWeight: os.Stat on the directory, without the lock.
EnsureByStat(c, u) ==
    /\ MayCall /\ call[c].at = "idle"
    /\ call' = [call EXCEPT ![c] =
                   [at |-> IF u \in dir THEN "write" ELSE "create", uid |-> u]]
    /\ UNCHANGED <<phase, created, file, dir, inside, todo, lines, forgotten>>

\* ApplyRAMLimit, ApplyRAMHigh, ApplyIOLimit: getCgroupPath on the map.
EnsureByMap(c, u) ==
    /\ MayCall /\ Free /\ call[c].at = "idle"
    /\ call' = [call EXCEPT ![c] =
                   [at |-> IF u \in created THEN "write" ELSE "create", uid |-> u]]
    /\ UNCHANGED <<phase, created, file, dir, inside, todo, lines, forgotten>>

\* CreateUserCgroup of a user that the map knows returns at once.
AlreadyCreated(c) ==
    /\ Free /\ call[c].at = "create" /\ call[c].uid \in created
    /\ GoTo(c, "write")
    /\ UNCHANGED <<phase, created, file, dir, inside, todo, lines, forgotten>>

\* CreateUserCgroup takes mu and makes the directory.
MakeDir(c) ==
    /\ Free /\ call[c].at = "create" /\ call[c].uid \notin created
    /\ \/ /\ dir' = dir \cup {call[c].uid}
          /\ GoTo(c, "making")
       \/ /\ Faults
          /\ GoTo(c, "idle")
          /\ UNCHANGED dir
    /\ UNCHANGED <<phase, created, file, inside, todo, lines, forgotten>>

\* Mutant: CreateUserCgroup fills the map and forgets the file.
TrackDirInMemoryOnly(c) ==
    /\ call[c].at = "making"
    /\ created' = created \cup {call[c].uid}
    /\ GoTo(c, "write")
    /\ UNCHANGED <<phase, file, dir, inside, todo, lines, forgotten>>

\* Mutant: CreateUserCgroup appends to the file and forgets the map.
TrackDirOnDiskOnly(c) ==
    /\ call[c].at = "making"
    /\ file' = file \cup {call[c].uid}
    /\ forgotten' = forgotten \ {call[c].uid}
    /\ GoTo(c, "write")
    /\ UNCHANGED <<phase, created, dir, inside, todo, lines>>

\* CreateUserCgroup enters the cgroup in the map, appends it to the file (a
\* failed append is only logged, and one cut short leaves a line that
\* loadExistingCgroups skips) and unlocks mu.
TrackDir(c) ==
    /\ call[c].at = "making"
    /\ created' = created \cup {call[c].uid}
    /\ \/ /\ file' = file \cup {call[c].uid}
          /\ forgotten' = forgotten \ {call[c].uid}
       \/ /\ Faults
          /\ forgotten' = forgotten \cup ({call[c].uid} \ file)
          /\ UNCHANGED file
    /\ GoTo(c, "write")
    /\ UNCHANGED <<phase, dir, inside, todo, lines>>

\* The write into the cgroup's directory.  It fails when the directory is
\* gone; only ApplyCPULimit goes on to move processes.
WriteKnob(c) ==
    /\ call[c].at = "write"
    /\ \/ call[c].uid \in dir /\ GoTo(c, "move")
       \/ GoTo(c, "idle")
    /\ UNCHANGED <<phase, created, file, dir, inside, todo, lines, forgotten>>

\* MoveAllUserProcesses: MoveProcessToCgroup refuses each process of a user
\* that is not in the map; a user without processes has nothing to move.
MoveAllUserProcesses(c) ==
    /\ Free /\ call[c].at = "move"
    /\ \/ /\ call[c].uid \in created \cap dir
          /\ inside' = inside \cup {call[c].uid}
       \/ UNCHANGED inside
    /\ GoTo(c, "idle")
    /\ UNCHANGED <<phase, created, file, dir, todo, lines, forgotten>>

\* Processes exit, or move to the shared cgroup base/limited.
ProcessesLeave(u) ==
    /\ u \in inside
    /\ inside' = inside \ {u}
    /\ UNCHANGED <<phase, created, file, dir, call, todo, lines, forgotten>>

-----------------------------------------------------------------------------
(* CleanupAll, once, at shutdown.                                          *)

\* CleanupAll copies the UIDs of the map and unlocks mu.  Manager.wg is never
\* added to, so its wg.Wait() waits for nobody.
BeginCleanupAll ==
    /\ phase = "up" /\ Free
    /\ LateCalls \/ \A c \in Callers : call[c].at = "idle"
    /\ phase' = "cleanup"
    /\ todo' = created
    /\ UNCHANGED <<created, file, dir, inside, call, lines, forgotten>>

\* CleanupUserCgroup removes a cgroup that holds no process, drops it from the
\* map and truncates the tracking file to write the other lines back.  When the
\* file cannot be read or opened it keeps the line of the removed cgroup.
CleanupUserCgroup(u) ==
    /\ phase = "cleanup" /\ Free /\ u \in todo
    /\ u \in dir \ inside
    /\ dir' = dir \ {u}
    /\ created' = created \ {u}
    /\ forgotten' = forgotten \ {u}
    /\ todo' = todo \ {u}
    /\ \/ phase' = "rewrite" /\ lines' = file \ {u} /\ file' = {}
       \/ Faults /\ UNCHANGED <<phase, lines, file>>
    /\ UNCHANGED <<inside, call>>

\* removeCgroupFromFile: the rewrite ends, and mu is unlocked.  A write that
\* fails after the truncation keeps some of the lines or none; CleanupUserCgroup
\* logs it and goes on, and the lines are lost although the cgroups are there.
RewriteFile ==
    /\ phase = "rewrite"
    /\ phase' = "cleanup"
    /\ \/ file' = lines /\ UNCHANGED forgotten
       \/ /\ Faults
          /\ file' \in SUBSET lines
          /\ forgotten' = forgotten \cup ((lines \ file') \cap dir)
    /\ lines' = {}
    /\ UNCHANGED <<created, dir, inside, call, todo>>

\* CleanupUserCgroup does not move processes: os.Remove fails on a cgroup that
\* holds one, twice, and the cgroup stays where it is, tracked in memory.
CleanupUserCgroupFails(u) ==
    /\ phase = "cleanup" /\ Free /\ u \in todo
    /\ u \in inside
    /\ todo' = todo \ {u}
    /\ UNCHANGED <<phase, created, file, dir, inside, call, lines, forgotten>>

\* CleanupAll deletes the tracking file whatever is left; a failure is logged.
DeleteTrackingFile ==
    /\ phase = "cleanup" /\ todo = {}
    /\ phase' = "swept"
    /\ \/ file' = {} /\ forgotten' = dir
       \/ Faults /\ UNCHANGED <<file, forgotten>>
    /\ UNCHANGED <<created, dir, inside, call, todo, lines>>

-----------------------------------------------------------------------------
(* The end of the process, and the next start.                             *)

Stopped ==
    /\ phase' = "down"
    /\ created' = {} /\ todo' = {} /\ lines' = {}
    /\ call' = [c \in Callers |-> [call[c] EXCEPT !.at = "idle"]]

\* The users whose tracking an end of the process at this point loses: of a
\* cgroup just made, and of the lines that were being written back.
Interrupted ==
    {u \in dir \ file : \/ u \in lines
                        \/ \E c \in Callers : call[c].at = "making" /\ call[c].uid = u}

\* The process exits after CleanupAll, or is killed at any step.
Exit ==
    /\ Running
    /\ Kills \/ phase = "swept"
    /\ Stopped
    /\ forgotten' = forgotten \cup Interrupted
    /\ UNCHANGED <<file, dir, inside>>

\* The machine restarts: cgroupfs is empty, and so is a tmpfs /var/run.
Reboot ==
    /\ Stopped
    /\ dir' = {} /\ inside' = {} /\ forgotten' = {}
    /\ file' \in {file, {}}

\* Mutant: loadExistingCgroups does not look whether the directory exists.
BootWithoutStat ==
    /\ phase = "down"
    /\ phase' = "up"
    /\ created' = file
    /\ UNCHANGED <<file, dir, inside, call, todo, lines, forgotten>>

\* NewManager: loadExistingCgroups takes the lines whose directory exists.  A
\* file that cannot be opened, or read to its end, is a warning: the manager
\* starts with the lines it has.
Boot ==
    /\ phase = "down"
    /\ phase' = "up"
    /\ \/ created' = file \cap dir
       \/ Faults /\ created' \in SUBSET (file \cap dir)
    /\ forgotten' = (forgotten \cup (file \cap dir)) \ created'
    /\ UNCHANGED <<file, dir, inside, call, todo, lines>>

-----------------------------------------------------------------------------
CallStep(c) ==
    \/ \E u \in Users : EnsureByStat(c, u) \/ EnsureByMap(c, u)
    \/ AlreadyCreated(c) \/ MakeDir(c) \/ TrackDir(c)
    \/ WriteKnob(c) \/ MoveAllUserProcesses(c)

Cleanup ==
    \/ BeginCleanupAll \/ RewriteFile \/ DeleteTrackingFile
    \/ \E u \in Users : CleanupUserCgroup(u) \/ CleanupUserCgroupFails(u)

Next ==
    \/ \E c \in Callers : CallStep(c)
    \/ \E u \in Users : ProcessesLeave(u)
    \/ Cleanup
    \/ Exit \/ Reboot \/ Boot

Spec == Init /\ [][Next]_vars

-----------------------------------------------------------------------------
(* Properties.                                                             *)

\* When nobody holds mu, every cgroup that exists is in createdCgroups, but for
\* those whose line was lost: in an append or a rewrite of the tracking file
\* that failed, in a load that failed, in a CleanupAll that could not remove
\* them, or in a kill in the middle of CreateUserCgroup or
\* removeCgroupFromFile.  Calls, kills and restarts in any other order lose
\* nothing (loadExistingCgroups, src/cgroup/storage.go).
OnlyAccidentsForget == Running /\ Free => dir \ created \subseteq forgotten

\* createdCgroups never names a directory that does not exist: CreateUserCgroup
\* would return early for it and every later write to it would fail, for ever
\* (src/cgroup/cpu.go, the early return of CreateUserCgroup).
MapNamesExistingDirs == created \subseteq dir

\* MoveProcessToCgroup refuses a user only when the cgroup was forgotten, in one
\* of the accidents that OnlyAccidentsForget names, also when two threads apply
\* limits to one user and only one of them creates the cgroup.  Once CleanupAll
\* has started a late call may find it removed.
RefusedOnlyIfForgotten ==
    phase = "up" /\ Free =>
        \A c \in Callers :
            call[c].at = "move" => call[c].uid \in created \cup forgotten

\* The tracking file does what it is for: after a restart the manager knows
\* every cgroup that an earlier one left (docs/resman.8, STATE FILES).
CgroupsTracked == Running /\ Free => dir \subseteq created
=============================================================================
