# A TLA+ verification project for resman (cpu-manager-go)

resman is a daemon that watches the CPU, RAM and IO usage of the non-system
users of a machine and, when a threshold is passed, confines the users to a
shared cgroup v2 with a total CPU quota; when the load is gone it takes the
limits away. These modules model the parts in which its correctness lies, TLC
checks them on small instances, and TLAPS proves the most important invariants
for any number of users, threads and any durations.

## 1. Inventory

### Parts, their state and their operations

| Part | Source | State | Operations |
|---|---|---|---|
| Limit lifecycle | `state/limits_applier.go`, `state/manager.go` | `limitsActive`, `activeUsers`, `sharedCgroupPath`, `limitsAppliedTime`, `psiBoostedAt`, the WaitGroup `wg` | `activateLimits`, `releaseIdleUsers`, `deactivateLimits`, `Force*`, `OnUserPSIEvent`, `revertPSIBoosts`, `Cleanup` |
| Decision engine | `state/decision_engine.go` | `thresholdTracker`, `ioThresholdTracker`, `stabilityTracker` | `makeDecision`, `executeDecision` |
| Control cycle | `state/control_cycle.go` | none of its own; `opMu` | a pipeline of stages: blackout, collect, decide, execute, patterns, IO remediation, PSI revert, export |
| cgroup.Manager, shared tree | `cgroup/shared.go` | `base/limited`, its `cpu.max`, `base/limited/user_UID` | `CreateSharedCgroup`, `ApplySharedCPULimit`, `CreateUserSubCgroup`, `MoveAllUserProcessesToSharedCgroup`, `ReleaseUserFromSharedCgroup` |
| cgroup.Manager, own cgroups | `cgroup/cpu.go`, `memory.go`, `io.go`, `process.go`, `storage.go`, `cleanup.go` | `createdCgroups`, the tracking file, `base/user_UID` | `CreateUserCgroup`, `Apply*`, `Remove*`, `MoveAllUserProcesses`, `CleanupUserCgroup`, `CleanupAll`, `loadExistingCgroups` |
| Main loop and shutdown | `internal/app/` | tickers, the signal channel | one operation at a time; on SIGTERM `Cleanup`, then the stop of MCP; a watchdog that sends SIGKILL |
| PSI watcher | `cgroup/psi_watcher.go` | monitors, a channel of 64 events | `AddMonitor`, `RemoveMonitor`, `pollLoop` |
| IO remediation | `state/io_remediation.go` | boost state per user | `CheckAndRemediate`, `Cleanup` |
| Patterns and policies | `state/pattern_detector.go`, `policy_engine.go` | hourly statistics, policy per user | `Update`, `Analyze`, `ApplyPolicy` |
| Configuration | `config/config.go`, `watcher.go`, `reloader/` | the shared `Config` objects, the file, its inotify watch, `lastModTime` | parse, validate, save, `handleConfigChange`, `OnConfigChange` |
| Collector | `metrics/collector.go` | TTL cache, moving averages | `GetAllUserMetrics`, the getters derived from it, `UpdateConfig` |
| Exporter | `metrics/prometheus.go` | series, previous values of the counters | `UpdateUserMetrics`, `CleanupUserMetrics`, `Start`, `Stop` |
| Database, MCP, hook, logging | `database/`, `mcp/`, `state/limit_hook.go`, `logging/` | I/O | of these only the MCP tools `activate_limits`, `deactivate_limits` and the two list setters change something |

### How they interact

A ticker, a PSI event or an MCP call starts an operation; `state.Manager.opMu`
lets one run at a time. A control cycle samples the collector, `makeDecision`
looks at the sample and the trackers, and `executeDecision` activates,
deactivates or releases. Activation and release start one goroutine per user,
counted in `wg`, that moves processes between cgroups; the operation ends
without waiting for them. `deactivateLimits` and `Cleanup` wait for `wg`.
`Cleanup` does not take `opMu`, and the MCP server is stopped after it.

The PSI watcher's goroutine sends events to the main loop over a channel; the
lifecycle adds and removes its monitors. A changed file reaches the state manager
and the collector as one shared `Config` object, and the MCP tools write through
the same pointer. MCP requests read the collector's cache without `opMu`.

### What is hard

* goroutines of one operation overlap the next operations on the same user;
* several assignments with early returns between them (`activateLimits`);
* cgroupfs writes that fail, time out and then happen after all;
* kills at any step, with state in memory, in a file and in cgroupfs;
* timers and counters that must be reset in the right branches of `makeDecision`;
* a shutdown that races MCP calls, and a daemon that finds what an earlier one left;
* a read lock that is taken twice;
* two loaders of one file, inotify that loses its watch, and tools that save into
  the file the administrator edits;
* a poll set that must follow a table changed by another goroutine, and a bounded
  channel whose reader may be busy or gone;
* a cache that several threads fill while its configuration changes.

Every hazard, with its line and the properties that cover it, is listed in
`PROJECT.json`; those without a property carry the reason.

### What makes the parts correct

* lifecycle: whoever is confined is listed as limited or on the way out, and
  conversely; the quota is in force while limits are; the bookkeeping agrees;
  deactivation and shutdown end and free everybody;
* decision engine: no limits without a sustained overload, none lifted before
  the minimum time, and none kept when the system is calm;
* tracking: memory, file and directories agree, over restarts too;
* main loop: cycles go on and none is skipped, pressure is answered, a signal ends
  the daemon;
* configuration: only sound ones are in force, all parts have the same, and the
  last content of the file wins;
* observation: answers are fresh and counters do not invent bytes;
* IO remediation: who starves is relieved, not for ever and not more often than
  allowed.

## 2. Modules

| Module | What it is |
|---|---|
| `LimitsManager` | the limit lifecycle, the shared cgroup tree, goroutines, shutdown, crash and restart |
| `Limiter` | abstract specification: a user is free, joining, limited or leaving |
| `LimitsManager_proofs` | theorems about `LimitsManager`: types, bookkeeping, who is confined |
| `LimitsTree_proofs` | theorems about its cgroup tree: quota, RAM and IO limits, shutdown; `LimitsManager` implements `Limiter` |
| `MCLimitsManager` | symmetry for TLC |
| `DecisionEngine` | `makeDecision`, its trackers and the effect of the decisions on them |
| `DecisionHistory` | `DecisionEngine` with a record of what was sampled, and its properties |
| `DecisionHistory_proofs` | theorems about it |
| `MCDecision` | `DecisionHistory` for TLC |
| `CgroupTracking` | the own cgroups: map, tracking file, directories, threads, `CleanupAll`, kill, reboot, restart |
| `CgroupTracking_proofs` | theorems about it |
| `MCCgroupTracking` | symmetry for TLC |
| `PSIWatcher` | monitor table, poll goroutine, wake pipe, event channel |
| `ControlLoop` | extends `PSIWatcher`: main loop, tickers, MCP operations, reloads, shutdown |
| `ControlLoop_proofs` | theorems about both |
| `MCControlLoop` | configurations for TLC |
| `ConfigRules` | the file, the environment, validation, user lists and saving as operators |
| `ConfigReload` | extends `ConfigRules`: file, inotify, two loaders, the parts, MCP tools |
| `ConfigReload_proofs` | theorems about both |
| `MCConfigReload` | files, environments and patterns for TLC |
| `Observation` | collector cache, scans, derived entries, IO counters of the exporter |
| `Observation_proofs` | theorems about it |
| `MCObservation` | a constraint for TLC |
| `IORemediation` | boosts of starved users |
| `IOHistory` | `IORemediation` with a record of the boosts |
| `IOHistory_proofs` | theorems about both |
| `MCIORemediation` | `IOHistory` for TLC |

### LimitsManager and the code

`limitsActive`, `activeUsers`, `psiBoostedAt` are the fields of `state.Manager`;
`sharedCgroupPath` is TRUE when the field is not `""`. `pc`, `todo`, `path`,
`err`, `added`, `progress` are the program counters and locals of the two actors:
`op`, the operation that holds `opMu`, and `shutdown`, `Cleanup()`. `tasks[u][p]`
counts the goroutines of user `u` in phase `p` (`move`, `knobs` of an activation,
`readd`, `weigh` of a re-add, `release`, `rmdir` of a release, and `own` for the
goroutine that `ApplyCPULimit` abandons at its timeout). `place[u]` is where the
processes of `u` are: `free` (outside), `own` (`base/user_UID`) or `shared`
(`base/limited/user_UID`). `sharedDir`, `quota`, `subDirs`, `boosted`, `limits`
are the rest of the cgroup tree. `unknown` and `untracked` are the users whose
`base/user_UID` exists and is missing from `createdCgroups` or from the tracking file:
`CleanupAll` leaves the cgroup of every restored user behind and deletes the file, so
the next daemon does not know it, `ApplyCPULimit` finds the directory and does not
create it, and `MoveProcessToCgroup` refuses the move. `CgroupTracking` has the steps
of this bookkeeping and its failures; here it changes in one step with the call.

An operation is a sequence of actions, one per call that changes cgroupfs or
unlocks: `StartActivate`, `CreateSharedCgroup`, `ApplySharedCPULimit`,
`LimitUser` for each user, `EndActivate`; `ReleaseIdleUsers`, `ReaddUser`,
`EndReadd`; `WaitForTasks`, `ClearState`, `RestoreUser`, `EndDeactivate`;
then, in a control cycle, `ApplyPatternPolicies` and `RevertPSIBoosts`.
`Goroutine(u)` is a step of any goroutine in flight.

Abstractions: one process stands for the processes of a user (`ManyProcesses`
adds that the batch write of several PIDs fails); what a sample contains is any
set of users that includes those with processes in a cgroup of the daemon; the
minimum time and the thresholds are the decision engine's, so here a cycle may
decide anything that is possible with the flag `limitsActive`; IO remediation is
off.

### Limiter, and how LimitsManager implements it

`Limiter` knows nothing of cgroups, locks and goroutines: a decision lists a user,
its processes follow, a decision unlists users, their processes leave, and with
weak fairness what was decided is carried out. `LimiterStatus` at the end of
`LimitsManager` is the refinement mapping: a user is `limited` when it is in
`activeUsers` and its process is in the shared cgroup, `joining` while a listed
user's process is still outside, `leaving` while it is confined and no longer
listed. `LimiterSpec` is the specification under that mapping, with its
liveness, and TLC checks it as a property of the run `lifecycle`; its safety
part, `SafetySpec` of `Limiter`, is proved for every set of users.

### DecisionEngine and the code

A cycle holds `opMu` from the sample to the end of `executeDecision`, so a
cycle is one step with a sample as its parameter. `overFor`, `ioOverFor` and
`appliedFor` are the ages of `firstOverThresholdTime` of the two trackers and of
`limitsAppliedTime`, capped at the durations they are compared with; `Zero` is
the zero `time.Time`. `underThreshold` is the stability tracker, counted to one more
than the 3 it is compared with.
The six `Cycle...` actions are the branches of `makeDecision`, with the effect of
`activateLimits`, `deactivateLimits` and `releaseIdleUsers` on these variables.
A sample says which thresholds are passed, not by how much. A cycle inside a
blackout returns before it decides: it is a stuttering step.

`DecisionHistory` adds variables that no code has, and that the properties are
about: how long samples have shown CPU over its threshold, how long each user
has been limited without a break, how many samples in a row found it calm.
`excused` marks the two ways in which the tracker survives by design of the
code: a forced deactivation and an activation that failed.

### CgroupTracking and the code

`created` is `createdCgroups`, `file` the users with a line in the tracking
file, `dir` the directories, `inside` the users with processes there. Two kinds
of calls decide in two ways whether to create a cgroup: `EnsureByStat` looks at
the directory, without a lock; `EnsureByMap` looks at the map. `MakeDir` and
`TrackDir` are `CreateUserCgroup`; a thread between the two holds `Manager.mu`.
`CleanupUserCgroup` truncates the file and `RewriteFile` writes it back; the write may
fail and keep some of the lines or none, and the deletion and the load of the file may
fail as well. `forgotten` is a ghost: the cgroups whose line was lost in a failed
append or rewrite, not read in a failed load, left behind by a `CleanupAll` that
deleted the file, or lost in a kill inside a critical section.

### PSIWatcher, ControlLoop and the code

`monitors` is the slice of the watcher, which only grows; `polled` is the poll set
while the goroutine is in `poll()`, `ready` what it has still to read of the
descriptors `poll()` reported, `wake` the unread bytes of the pipe, `queue` the
channel. `loop` is where the main goroutine is: `select`, waiting for `opMu`
(`lock`), in a cycle or refresh (`run`), or in a step of the shutdown. `slot` is a
closed `cycleComplete`. A ticker that exists may have a tick ready whenever the
loop looks. `ReadEvent` may drop any event: `ReadAt` returns `io.EOF` with a file
shorter than its buffer, which every pressure file of a current kernel is, and only
one that fills the buffer gets through. `status` follows a status call of MCP
(`GetStatus`) between its two read locks of `mu`: `outer`, and then the writer that
queued in between, if one did. From then on nobody gets `mu` (`Stuck`): a cycle, a
reload, an MCP operation or a `Cleanup` that needs it does not end. `Stdio` is the
transport of the MCP server: over stdio its `Stop` waits without a timeout.
The number of a closed descriptor being used again is left out, and so is the
spinning of `poll()` on the file of a removed cgroup until `RemoveMonitor`.

### ConfigRules, ConfigReload and the code

A file is the sequence of its key/value lines; a raw value is what is left of the text
when comment, quotes and blanks are stripped, and carries only what the handlers tell
apart. The keys of the user lists have a twin with a blank before the `=`
(`BlankKeys`), which the loader reads and a save does not recognise. `ReadAs` says
which list comes back when a list has been joined by commas, written and stripped: a
pattern with a `#`, a comma, quotes or blanks at its ends is not what is read. Lists
are sets: their order has no effect but on what `ReadAs` gives. `Refuses`, `Ignores`, `Value` and `loadFromFile` are the
handlers of the keys, one or two keys per kind of handler, `loadFromEnvironment` the
environment, which checks less, and `updateConfigLines` what `SaveToFile` writes.
In `ConfigReload` `heap` holds the `Config` objects: `smCfg` and `colCfg` are the
pointers of the state manager and the collector, and a loader and an MCP handler
hold pointers of their own. A loader goes through `Stat`, `Load`, the exporter, the
manager, the collector and `EndReload`, one action each, because the file may
change and tools may run between any two. `Overlap` says whether a SIGHUP may come
during another reload, `SavedElsewhere` whether the tools save to another file: they
use `cfg.ConfigFile`, which is the key CONFIG_FILE or its default (config.go:231, 534;
tools.go:722, 821), while the watcher reads the file of `--config` (main.go:37). By
default both are the same file.

### Observation and the code

`all` is the cache entry `all_user_metrics`, `derived` one of the entries computed
from it. A thread scans (`StartScan`, `EndScan`) or derives (`StartDerive`,
`EndDerive`), and each stores its result when it ends, whatever has happened to the
cache meanwhile. `late` in a scan or an entry remembers what has happened during the
scan: a `config` that cleared the cache, or another `scan` that ended.
The thread `loop` exports what it gets. `bytes` is what a user has transferred,
`live` the part that processes alive account for. A scan lists the processes at its
beginning and reads the bytes of one after the other (collector.go:1095-1111): what a
listed process transfers is in the sample if it was still to be read (`unread` of
`Transfer`), and what it had is not if it ends before it is read (`lost` of
`ProcessesExit`). `accidents` names the two ways in which counters count twice: the
sample of a scan during which another one ended, which may hold older bytes than what
was exported before, whichever began first; and the change from the bytes of the
processes to those of the cgroup (`control_cycle.go:487`).

### IORemediation and the code

`states` is `boostStates`, with ages for times; `Zero` is Go's zero time. A cycle is
one action, the check followed by `Cleanup`, under the remediation's lock.
`IOHistory` adds a record of the boosts that no cleanup deletes: the time since the
latest boost of a user, and how many boosts led to it with at most an hour between
one and the next. `HourlyLimit` judges `BoostCount` by it.

## 3. Runs

Passing runs:

| Run | Instance | What it shows |
|---|---|---|
| `lifecycle` | 2 users, PSI, RAM/IO limits, MCP, goroutines end before the next operation; fairness | `LimitedUsersConfined`, `ResourceLimitsLifted`, `NoStrandedUser`, `ReleasedUsersLeave`, and the refinement `LimiterSpec` |
| `overlap` | 2 users, goroutines of two operations in flight, shutdown and restart | `QuotaEnforced`, `ShutdownFreesIfTracked`, `PathClearedOnlyWhenQuiet` |
| `faults` | 2 users that log out and in, workload policies, failing writes and timeouts, several processes, crash and restart, shutdown; fairness | `TypeOK`, `BookkeepingConsistent`, `DeactivationEnds`, `ShutdownEnds` |
| `decision` | 1 user, CPU, RAM and IO thresholds, durations 3, 2 and 2, forced operations, failed activations; fairness | `SustainedOverload`, `MinimumServed`, `CalmEndsLimits` |
| `tracking` | 3 users, 2 threads, kills, reboots, failing accesses to the tracking file, calls during `CleanupAll` | `OnlyAccidentsForget`, `MapNamesExistingDirs`, `RefusedOnlyIfForgotten` |
| `control_loop` | the system file and one user's, a channel of 1 event, MCP over stdio with one operation and status calls, one reload, a signal at any time; fairness | `PollSetIsFresh`, `NoCycleSkipped`, `StopWakesPoller`, `CyclesGoOn`, `ShutdownCompletes`, `IntervalsFollow` |
| `config_reload` | 2 users, 2 changes of the file, 1 MCP call that saves into it, lines and patterns a save loses; fairness | `OnlySoundConfigs`, `PartsAgree`, `SavedListsReload`, `KnownFileInForce`, `EditsTakeEffect` |
| `io_boosts` | 1 user, `IO_STARVATION_THRESHOLD = 0`, two boosts per hour; fairness | `HourlyLimit`, `BoostsExpire` |
| `observation` | 1 user, the loop and 1 reader, TTL and scans of one tick, processes read one by one | `AnswersAreFresh`, `StaleOnlyByOverlap`, `ExportedIOIsReal` |

Runs in which TLC finds that the code does not do what its documentation or
comments say (`findings` in `PROJECT.json` quotes them):

| Run | Property | What happens |
|---|---|---|
| `late_move` | `NoStrandedUser` | with goroutines of two operations in flight, a move that runs after the release of its user confines it for good |
| `reload_race` | `EditsTakeEffect` | a SIGHUP during a reload: the older file is applied last, the newer time is remembered, and the older configuration stays |
| `pressure` | `PressureIsAnswered` | `ReadAt` into a 4096-byte buffer returns `io.EOF`: no PSI event ever starts a cycle |

Further disagreements of the same kind. Each property is stated in the module
named, with a comment; to see it fail, put it into a copy of the configuration
with the constants given:

| Configuration | Property | What happens |
|---|---|---|
| `overlap` with `Faults = TRUE`, `MaxTasks = 1`, `Shutdowns = FALSE` | `QuotaEnforced` | one failed write of `cpu.max` and the next activation skips it: users are confined without a quota (docs/resman.8:70) |
| `lifecycle` | `ResourceLimitsEffective` | RAM and IO limits go to a cgroup the processes are not in (docs/resman.8:121) |
| `decision`, 1 user, `Watched = {"cpu", "io"}`, durations 2, 1 and 1, `SamplesRemembered = 3`, no faults, no MCP, `HSpec` | `ThreeSamplesBelow` | the three samples below the release threshold need not be consecutive (decision_engine.go:24, 130) |
| the same with `SamplesRemembered = 0` and `HFairSpec` | `IOActivatesLimits` | with IO_THRESHOLD_DURATION > 0, IO alone never activates limits (docs/resman.8:172) |
| `tracking`, 2 users, no faults, kills or late calls | `CgroupsTracked` | an ordinary shutdown leaves occupied cgroups and deletes the file that tracks them (docs/resman.8:621) |
| `lifecycle` with `MaxTasks = 2` | `LimitedUsersConfined` | a late release evicts a user that was added again |
| `lifecycle` with `AutodetectPatterns = TRUE` | `LimitedUsersConfined` | a workload policy moves a limited user out of the shared cgroup (docs/resman.8:75) |
| the same | `ResourceLimitsLifted` | the policy sets RAM limits that no deactivation lifts; the property is stated for limits of activations |
| `lifecycle` with `ManyProcesses = TRUE` | `NoStrandedUser` | `writePidsBatch` hands all PIDs over in one write, the release fails, and the user stays confined |
| `lifecycle` with `Faults = TRUE` | `NoStrandedUser`, `LimitedUsersConfined` | a restore or release that fails or times out leaves its user confined, and the mover that `ApplyCPULimit` abandons takes a limited user out later (cpu.go:130) |
| `lifecycle` with `Crashes = TRUE` | `NoStrandedUser` | the next daemon does not look for processes in `base/limited`: they stay there until its shutdown |
| `overlap` with `MCPWrite = TRUE` | `ShutdownFreesIfTracked` | an MCP activation during `Cleanup` leaves users confined at exit |
| `overlap` | `ShutdownFreesEveryone` | an ordinary shutdown leaves `base/user_UID` of every restored user and deletes the tracking file (cleanup.go:197); the next daemon that limits this user cannot move it out (process.go:23-26), neither in a deactivation nor in `Cleanup`, which returns the error before `CleanupAll` (state/manager.go:339-342): the processes stay in `base/limited` (docs/resman.8:55 "Graceful shutdown with proper resource cleanup", docs/resman.8:621) |
| `control_loop` | `StatusCallsReturn` | a writer queues between the two read locks of `GetStatus` (manager.go:283, 320): both wait for each other, and so does whoever needs `mu` after them. `GetStatus` serves most tools and resources of MCP (tools.go:233, 308, 384, 502, 996, 1074, 1210; resources.go:77, 126). Cycles end, and a signal is answered only by the watchdog's SIGKILL (app_shutdown.go:34-40) |
| `config_reload` | `SavedListsReload` without `RewrittenLast` | a save rewrites the lines that begin with `USER_EXCLUDE_LIST=` (config.go:1292, 1299), the loader trims keys (config.go:427): a later `USER_EXCLUDE_LIST = x`, or a later USER_WHITELIST, wins over the saved list |
| `config_reload` | `SavedListsReload` without `ListsReadable` | a saved pattern is cut at a `#`, split at a comma, stripped of quotes and blanks (config.go:431-436, 769); a list in the environment wins over the saved one |
| `lifecycle` | `BoostsRemembered` | a boosted user that is released keeps its weight, because its entry of `psiBoostedAt` is deleted (docs/resman.8:242) |
| `lifecycle` | `BoostsEffective` | the boosted weight is that of a cgroup the process is not in |
| `io_boosts` with `Threshold = 1` or any more | `StarvedUsersBoosted` | the cleanup of every cycle deletes the starvation timer of a user that never had a boost (io_remediation.go:199), so nobody is ever boosted, with the default of 300 seconds either (docs/resman.8:180, 186); the theorem `ThresholdDisablesBoosts` says so for every instance. With the line changed to keep states whose timer runs, the property holds |
| `io_boosts` with `RevertOnNormal = FALSE` | `BoostsExpire` | the duration of a boost is looked at only while the pressure is high (io_remediation.go:130-135): a user whose pressure has gone stays boosted (docs/resman.8:192) |
| `io_boosts` | `BoostsEnd` | a boost that is reverted leaves `io.max` at max until limits are activated again (io_remediation.go:181 leaves it to the control cycle, which does not do it) |

Seen while modelling, without a property: `IsInBlackout` excludes the end hour and
refuses 24, so the hour from 23 to 24 cannot be covered (docs/resman.8:513), and a cycle
in a blackout returns before it could lift limits that are on; the warning at
config.go:395 says that an empty USER_INCLUDE_LIST limits nobody, `IsUserIncluded`
includes everybody; `SaveToFile` writes both lists from memory over what the
administrator has edited; with another file in `--config` than in CONFIG_FILE the lists
that MCP saves are lost with the next reload, which does not read them.

### Bounds

* Users: two users show every conflict between a user and the rest; the effects
  of one user on another go through `wg`, `sharedCgroupPath` and the flags only.
  `decision` has one user: users interact there only through quantifiers over the
  sample, and the theorems cover any number. `observation` has one user, because
  samples and counters treat each user alone.
* `MaxTasks`: an operation begins while each user has fewer than `MaxTasks`
  goroutines in each phase. With 1 the goroutines of an operation end first, as
  they do when the polling interval is longer than the delays; 2 lets two
  operations overlap. In `overlap` a daemon starts with at most one user in `unknown`
  (`OneUnknown`), and with one no two goroutines of a user are in the same phase:
  `ShutdownFreesIfTracked` says nothing of such a daemon, and one is enough for the
  errors it brings into the operations of the other user. The theorems have no bound.
* Durations of 2 and 3 ticks distinguish "not yet", "just" and "over";
  `CPUThresholdDuration > MinActiveTime` makes a stale tracker visible.
* `SamplesRemembered` caps the history of calm samples: 3 where a property looks
  at it (`ThreeSamplesBelow`), 0 where none does.
* Two threads in `CgroupTracking`: the lock admits one and delays the other.

* `QueueSize = 1` and `WakeRead = 1` bring the full channel and the pipe with bytes
  left over within a few steps (64 and 8 in the code); `MaxMonitors = 2` is the
  system's file and one user's.
* `MaxWrites = 2`: one change that is being loaded and one that comes meanwhile;
  with `MaxCalls = 1` an MCP save is one of them.
* `TTL = ScanTime = 1` tick with ages up to one more than any answer may have, and
  `MaxBytes = 2`, so that a counter can be one too high after one process has
  ended. States after an accident of the counters are not explored further
  (`CountersSound`): the collector does not depend on the exporter. While something of
  a replaced configuration is about, a user transfers one byte at most: filters and
  bytes meet only in what is dropped from the cache.
* In `io_boosts` an hour is 3 ticks and 24 hours are 5: only their
  order counts. There are two boosts per hour of one tick each, so that the
  maximum is reached within the hour and is free again after it. A threshold of 0 is
  one the code accepts (config.go:635), and by `ThresholdDisablesBoosts` the only one
  with which there are boosts for the two properties to be about. One user: the states of two never meet.

### Fairness

`FairSpec` has weak fairness on the steps of the running operation, on every
goroutine and on the shutdown: the Go scheduler runs each goroutine that is not
blocked, and each of these steps ends (writes end or fail; sleeps and
timeouts are finite). Nothing is assumed of the environment: no signal, PSI
event, MCP call, login or crash has to come. `HFairSpec` has weak fairness on
the control cycle (the ticker starts one again and again) and on time.

In `ControlLoop` the goroutines, cycles and MCP operations get weak fairness; the
cases of the main loop's `select` and the wait for `opMu` get strong fairness, since
Go chooses among ready cases at random and its mutexes hand over to a starving
waiter. Nothing is assumed of a step that needs `mu` once it is `Stuck`. That the
server of MCP over stdio returns when its context is done and the requests in progress
have ended is assumed of the library. In `ConfigReload` the watch loop, its periodic check and running
reloads are weakly fair, and no edit, signal or request has to come. In
`IORemediation` and `IOHistory` time and control cycles go on.

Deadlock is checked except in `control_loop` and `pressure`, where the daemon exits.

## 4. Proofs

TLAPS checks, for every set of users, of threads and every duration:

**LimitsManager_proofs**

* `TypeCorrect`: `Spec => []TypeOK`. The step that matters is that no counter of
  goroutines goes below zero, that is, no `Done` without an `Add`.
* `BookkeepingAlwaysConsistent`: through faults and crashes. The inductive
  invariant `BookkeepingInv` adds, to the property, what holds at the inner labels
  of an activation and a deactivation and during the shutdown.
* `PathClearedQuietly`: only `ClearState` clears the path; the invariant adds
  that at its label nothing counted in `wg` is in flight, because nobody but the
  holder of `opMu` adds to it.
* `NobodyStranded`: assumes no faults, no crash, no shutdown, one process per user
  and `MaxTasks = 1` (each of these assumptions is needed: section 3 shows what
  happens without it). `PromptInv` says at which labels which goroutines of a user
  can be in flight, in particular never a move together with a release.
* `LimitedAreConfined`: from `PromptInv` and `ConfinedInv`, the converse invariant;
  it also assumes no logins and no workload policies.

**DecisionHistory_proofs**

* `DecisionTypeCorrect`; the trackers stay within their bounds.
* `OverloadIsSustained`: `Spec => SustainedOverload`. `TrackerInv`: the age in the
  tracker never exceeds the time for which the samples have shown an overload,
  unless it is excused; it needs the resets in every branch.
* `IOAloneIsNeverEnough`: assumes IO_THRESHOLD_DURATION > 0 and no failing
  activation. When cycle after cycle samples nothing but IO over its threshold,
  limits that are off stay off: `IOTrackerInv`, the IO tracker is empty after each of
  them. `IOActivatesLimits` (section 3) therefore fails for every duration above 0.
* `MinimumIsServed`: `AppliedInv`: `limitsAppliedTime` is never older than the
  time for which any limited user has been limited, because each addition sets it.

**CgroupTracking_proofs**

* `OnlyAccidentsLoseTrack`, `MapIsReal`, `MovesAreRefusedOnlyIfForgotten`, all from
  `TrackInv`: every directory is in the map, forgotten or just being made
  (`KnownInv`, and the same for the file and the lines held in memory); a rewrite
  and a creation exclude each other (`LockInv`); until `CleanupAll` starts, a call
  that is past `CreateUserCgroup` has its directory (`PresentInv`).

**LimitsTree_proofs** (extends `LimitsManager_proofs`)

* `QuotaIsEnforced`: assumes no failing write, as section 3 shows it must. The
  invariant `QuotaInv` says at which labels the path may be set without the quota.
  Goroutines of any number of operations may be in flight, and the daemon may crash.
* `LimitsAreLifted`: assumes no failing write, no workload policy and no forced
  operation beside `Cleanup`. `SerialInv`: past its `wg.Wait()` a deactivation has no
  goroutine beside it; `LiftInv`: a process in its own cgroup has no limits and no
  goroutine is about to set some.
* `ShutdownFrees`: `Spec => []ShutdownFreesIfTracked`, assuming no failing write, one
  process per user and no MCP writes; kills are allowed. `FreeInv`: who is confined is in
  a sub-cgroup that exists, so `CleanupAll` finds it, and a deactivation of the
  shutdown has an error only in a daemon that does not know every own cgroup.
* `LifecycleImplementsLimiter`: `Spec => L!SafetySpec`, under the assumptions of
  `LimitedAreConfined`. Most steps are stutters under `LimiterStatus`; the ones that
  are not are `LimitUser` and `ReaddUser` (a user joins), `MoveToShared` (it
  arrives), `ReleaseIdleUsers` and `ClearState` (users are released), `EvictUser` and
  `RestoreUser` (they leave). The steps need `PromptInv` and `ConfinedInv`: without
  them a release could take a user that is still on its way in.

**ControlLoop_proofs**, for any keys, sizes of the pipe, the channel and the table

* `LoopTypeCorrect`: with `TableInv`, the bound of the table.
* `NoWakeUpLost`, `StopReachesPoller`: a table that changes after the poll set was
  built, and a `Stop`, have left a byte in the pipe that only the next round takes.
* `SlotIsFreeAtSelect`: `SlotInv` says which labels hold the slot.

**Observation_proofs**, for any users, threads, TTL and scan time

* `ObservationTypeCorrect`.
* `AnswersStayFresh`: `AgeInv` bounds the age of each kind of entry by the time since
  it was stored; what is derived adds a TTL to the one of its sample.
* `StaleAnswersOverlap`: `StaleInv`, an entry made with replaced filters and not
  marked as overtaken exists only inside `UpdateConfig`.
* `CountersAreReal`: the counters are fed with differences of samples, so the invariant
  has to say when each sample was taken, although no sample is of one moment. `ExportInv`
  says that moments exist, given as the bytes of processes that had ended before they
  could be read, for the last exported sample, the cached one and each scan, with
  those that no other scan has overtaken in order (`Moments`); the counter never exceeds
  the bytes at the moment of the last export.

**ConfigReload_proofs**, for any texts, environments, patterns and requests

* `ReloadTypeCorrect` and `NumbersInForceAreSound`: no further assumption, overlapping
  reloads included. `ReloadInv`: every object in memory is sound, not only those in
  force, a loader between its load and its end has one, and there is always one free
  for the next load.
* `ConfigsInForceAreSound`: assumes `UncheckedListsCompile`, that the alias
  USER_WHITELIST and the environment, which the code does not check, bring in no
  pattern that does not compile. `Pending` carries this through what is on the way:
  the file, the lines an MCP tool is about to rename over it, the list that a failed
  save puts back. It rests on `FileListComesFromALine`, what `loadFromFile` leaves in
  a list, and `SavedIsAFile`, what `updateConfigLines` adds.
* `PartsAgreeBetweenReloads`: assumes `~Overlap`. `SerialInv`: the parts hold different
  objects only between the two updates of the one loader that runs.
* `SavedListsAreRead`: `Spec => []SavedListsReload`, without an assumption, wherever the
  tools save. The property itself names the ways in which the code loses a saved list:
  `RewrittenLast` (no USER_WHITELIST and no line with a blank before its `=` after a line
  that is rewritten) and `ListsReadable` (the loader's stripping and splitting and the
  environment leave the lists as they are, and their patterns compile). The argument:
  `LastSetter`, what `loadFromFile` leaves in a field is the value of the last line that
  sets it; `SavedRewrittenLast` and `ListLineSets`, in what `updateConfigLines` writes
  that line is the rewritten one; `SavedFileLoads`, the other lines give what they gave
  before, so the file is not refused. `SavedInv` carries it over the time between the
  read of the old file and the rename.
* `KnownFileIsInForce`: assumes `~Overlap`, without which `reload_race` refutes what rests
  on it, and `~SavedElsewhere`, without which a saved list is in force and not in the
  file. `KnownFileInForce` is the safety half of `EditsTakeEffect`: a file whose time and
  size `handleConfigChange` has on record, and therefore passes over, is the one in
  force. `StampInv`: times only grow, so a loader at work has seen a time after the
  remembered one; `ContentInv`: as long as the file is the one a loader has stat'ed,
  what the loader hands over is its content, apart from a list that a tool is about to
  put back after a failed save.

**IOHistory_proofs**, for any users, intervals, durations and maximum

* `RemediationTypeCorrect`.
* `BoostsPerHourAreLimited`: `HSpec => []HourlyLimit`. `CountInv`: as long as the latest
  boost is at most an hour old, the user has a state and its `BoostCount` has missed
  none of the boosts that led to it; a state that is deleted, or made anew with a count
  of zero, belongs to a user whose latest boost is older. It needs that the 24 hours of
  the cleanup are not less than the hour of the count.
* `ThresholdDisablesBoosts`: with IO_STARVATION_THRESHOLD > 0 nobody is ever boosted.
  No interval, duration or sequence of pressures avoids it, so `StarvedUsersBoosted`
  fails for every such threshold (section 3).

The constants' assumptions are that switches are Booleans, bounds and durations are
natural numbers (`MaxTasks`, the sizes of the pipe, the channel and the table
positive), texts are sequences of lines, and the file the daemon was started with
could be loaded. The inductive invariants were checked by TLC on the instances of
the runs before they were proved.

Only model-checked: the liveness properties (`DeactivationEnds`, `ShutdownEnds`,
`ReleasedUsersLeave`, `CalmEndsLimits`, `CyclesGoOn`, `ShutdownCompletes`,
`IntervalsFollow`, `EditsTakeEffect`, `BoostsExpire`) and the
fairness of `LimiterSpec`, which are out of the prover's reach. Every invariant and
every action property of the runs is stated by a theorem.

## 5. Not modelled

* Floating point (usage percentages, CPU deltas per process, moving averages, pattern
  statistics, IO rates): TLC and TLAPS have none; the models keep the outcome of the
  comparisons.
* Database, logging, the limit hook, the texts of the read-only MCP tools, the
  transport of the MCP server, registration of metrics: I/O that changes no limit.
* The keys of the configuration beyond one or two per kind of handler, the getters,
  and the blackout timeframes: one comparison each.
* UID 0 and, outside `ConfigRules`, the user filters: the users of the models are
  those that pass them.

## 6. Plan

Done: every module of section 2, with proofs of every safety property of the runs and
of the safety part of the refinement.

Left: the collector's moving averages and the pattern statistics, once a prover with
real arithmetic is at hand; the keys of the configuration beyond one or two per kind of
handler.
