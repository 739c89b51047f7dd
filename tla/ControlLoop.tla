------------------------------ MODULE ControlLoop ------------------------------
(***************************************************************************)
(* internal/app: the goroutine of the main loop with its tickers, the slot *)
(* that keeps cycles apart, the events of the PSI watcher, configuration   *)
(* changes, MCP operations that hold opMu, MCP status calls, the lock mu   *)
(* of the state manager, termination signals and the shutdown sequence.    *)
(* What a control cycle decides is in DecisionEngine and LimitsManager;    *)
(* here it may add and remove PSI monitors.  A ticker that runs may have a *)
(* tick ready whenever the loop looks.                                     *)
(***************************************************************************)
EXTENDS PSIWatcher

CONSTANTS
    Configs,        \* configurations a reload may install: [polling, fallback, refresh]
    BootConfig,     \* the one the daemon starts with
    PSIEventDriven, \* PSI_EVENT_DRIVEN in the configuration of the start
    Exporter,       \* the Prometheus exporter is running
    MCPEnabled,     \* the MCP server is running
    Stdio,          \* it serves stdin and stdout, the default, rather than HTTP
    MaxReloads,     \* bound on the number of reloads
    MaxMCPOps       \* bound on the number of MCP operations

ASSUME ControlLoopAssumption ==
    /\ Configs \subseteq [polling : Nat \ {0}, fallback : Nat \ {0}, refresh : Nat]
    /\ BootConfig \in Configs
    /\ {PSIEventDriven, Exporter, MCPEnabled, Stdio} \subseteq BOOLEAN
    /\ MaxReloads \in Nat /\ MaxMCPOps \in Nat

VARIABLES
    loop,       \* where the main goroutine is
    trigger,    \* what the current cycle or refresh was started for
    slot,       \* cycleComplete is closed
    interval,   \* the interval of the control ticker
    refresh,    \* the interval of the metrics ticker, 0 without one
    psiOn,      \* a.psiEventDriven
    cfg,        \* the configuration of the state manager
    reloads,
    cancelled,  \* a.ctx is done
    mcpOp,      \* an MCP operation holds opMu
    mcpOps,     \* operations MCP has begun, MaxMCPOps + 1 once it has stopped
    status      \* "outer" while GetStatus holds mu and has not taken it again; then
                \* the goroutine that queued for the write lock in between, if any

loopVars == <<loop, trigger, slot, interval, refresh, psiOn>>
restVars == <<cfg, reloads, cancelled, mcpOp, mcpOps, status>>
vars == <<watcherVars, loopVars, restVars>>

Triggers == {"none", "initial", "ticker", "psi", "refresh"}
ShutdownSteps == {"cleanup", "stop_mcp", "stop_psi", "wait_psi"}
Writers == {"loop", "mcp", "reload"}

\* A writer waits for the first read lock of GetStatus and the second one,
\* of getActiveUsersList, waits for the writer: nobody gets mu any more.
Stuck == status \in Writers

TypeOK ==
    /\ WatcherTypeOK
    /\ loop \in {"start", "initial", "select", "lock", "run", "exited"} \cup ShutdownSteps
    /\ trigger \in Triggers
    /\ {slot, psiOn, cancelled, mcpOp} \subseteq BOOLEAN
    /\ interval \in Nat /\ refresh \in Nat
    /\ cfg \in Configs
    /\ reloads \in 0 .. MaxReloads
    /\ mcpOps \in 0 .. MaxMCPOps + 1
    /\ status \in {"none", "outer"} \cup Writers

Init ==
    /\ WatcherInit
    /\ loop = "start"
    /\ trigger = "none"
    /\ slot = TRUE
    /\ interval = 0 /\ refresh = 0
    /\ psiOn = FALSE
    /\ cfg = BootConfig
    /\ reloads = 0
    /\ cancelled = FALSE
    /\ mcpOp = FALSE /\ mcpOps = 0
    /\ status = "none"

\* isPSIEventDrivenActive asks the configuration of the start, not the current one.
ControlCycleInterval ==
    IF PSIEventDriven /\ psiOn THEN cfg.fallback ELSE cfg.polling

MetricsRefreshInterval ==
    IF PSIEventDriven /\ psiOn /\ Exporter THEN cfg.refresh ELSE 0

\* Mutant: the ticker is replaced and its interval is not noted.
RefreshTickerOnce ==
    refresh' = IF refresh = 0 THEN MetricsRefreshInterval ELSE refresh

\* refreshMetricsTicker: a ticker with another interval replaces the old one.
RefreshMetricsTicker == refresh' = MetricsRefreshInterval

\* startPSIWatcher: without pressure files or a pipe the loop polls; a watcher
\* that can arm no file is stopped again.
StartPSIWatcher ==
    /\ loop = "start"
    /\ loop' = "initial"
    /\ \/ /\ UNCHANGED <<watcherVars, psiOn>>
       \/ /\ PSIEventDriven
          /\ StartPolling
          /\ monitors' = <<[key |-> System, active |-> TRUE]>>
          /\ Wake
          /\ psiOn' = TRUE
          /\ UNCHANGED <<fired, done, polled, ready, queue>>
       \/ /\ PSIEventDriven
          /\ polling' = "ended"
          /\ done' = TRUE
          /\ UNCHANGED <<monitors, fired, wake, polled, ready, queue, psiOn>>
    /\ UNCHANGED <<trigger, slot, interval, refresh>>
    /\ UNCHANGED restVars

\* runControlLoop up to the initial cycle: both tickers are started, with the
\* intervals of a configuration that GetConfig reads under mu.
StartTickers ==
    /\ loop = "initial"
    /\ ~Stuck
    /\ interval' = ControlCycleInterval
    /\ refresh' = MetricsRefreshInterval
    /\ loop' = "lock"
    /\ trigger' = "initial"
    /\ UNCHANGED <<slot, psiOn>>
    /\ UNCHANGED <<watcherVars, restVars>>

\* acquireCycleSlot, and the new cycleComplete of a cycle that got the slot.
AcquireCycleSlot(why) ==
    IF slot
    THEN slot' = FALSE /\ loop' = "lock" /\ trigger' = why
    ELSE UNCHANGED <<slot, loop, trigger>>

\* handleTickerCycle up to the cycle: a changed interval restarts the ticker.
\* A skipped cycle goes straight to refreshMetricsTicker.
HandleTickerCycle ==
    /\ loop = "select"
    /\ ~Stuck
    /\ interval > 0
    /\ interval' = ControlCycleInterval
    /\ AcquireCycleSlot("ticker")
    /\ IF slot THEN UNCHANGED refresh ELSE RefreshMetricsTicker
    /\ UNCHANGED <<psiOn, watcherVars, restVars>>

\* handleMetricsRefreshCycle takes no slot.
HandleMetricsRefreshCycle ==
    /\ loop = "select"
    /\ refresh > 0
    /\ loop' = "lock"
    /\ trigger' = "refresh"
    /\ UNCHANGED <<slot, interval, refresh, psiOn>>
    /\ UNCHANGED <<watcherVars, restVars>>

\* handlePSIEvent: the boost of OnUserPSIEvent is in LimitsManager.
HandlePSIEvent ==
    /\ loop = "select"
    /\ psiOn /\ queue # <<>>
    /\ queue' = Tail(queue)
    /\ AcquireCycleSlot("psi")
    /\ UNCHANGED <<interval, refresh, psiOn>>
    /\ UNCHANGED <<monitors, fired, wake, done, polling, polled, ready>>
    /\ UNCHANGED restVars

\* RunControlCycleWithTrigger and RunMetricsRefresh wait for opMu.
LockOp ==
    /\ loop = "lock"
    /\ ~mcpOp /\ status # "loop"
    /\ loop' = "run"
    /\ UNCHANGED <<trigger, slot, interval, refresh, psiOn>>
    /\ UNCHANGED <<watcherVars, restVars>>

\* Mutant: a cycle started by an event does not give the slot back.
EndCycleKeepsSlot ==
    /\ loop = "run"
    /\ status # "loop" /\ (trigger \in {"ticker", "refresh"} => ~Stuck)
    /\ loop' = "select"
    /\ trigger' = "none"
    /\ slot' = (slot \/ trigger = "ticker")
    /\ IF trigger \in {"ticker", "refresh"} THEN RefreshMetricsTicker
       ELSE UNCHANGED refresh
    /\ UNCHANGED <<interval, psiOn>>
    /\ UNCHANGED <<watcherVars, restVars>>

\* The cycle or refresh ends, with or without an error, and the handler with it,
\* which for a tick ends with GetConfig.  A cycle that waits for mu does not end.
EndCycle ==
    /\ loop = "run"
    /\ status # "loop" /\ (trigger \in {"ticker", "refresh"} => ~Stuck)
    /\ loop' = "select"
    /\ trigger' = "none"
    /\ slot' = (slot \/ trigger \in {"ticker", "psi"})
    /\ IF trigger \in {"ticker", "refresh"} THEN RefreshMetricsTicker
       ELSE UNCHANGED refresh
    /\ UNCHANGED <<interval, psiOn>>
    /\ UNCHANGED <<watcherVars, restVars>>

\* releaseIdleUsers, activateLimits and deactivateLimits, in a cycle or for MCP,
\* watch the users they limit; only a watcher registered at the start is used.
ChangeMonitors(k) ==
    /\ psiOn
    /\ (loop = "run" /\ trigger # "refresh") \/ mcpOp \/ loop = "cleanup"
    /\ AddMonitor(k) \/ (Monitored(k) /\ RemoveMonitor(k))
    /\ UNCHANGED <<loopVars, restVars>>

\* ForceActivateLimits and ForceDeactivateLimits, called by the MCP server's
\* goroutines under opMu.
BeginMCPOp ==
    /\ MCPEnabled
    /\ mcpOps < MaxMCPOps
    /\ Stdio => ~cancelled
    /\ ~mcpOp
    /\ loop # "run"
    /\ mcpOp' = TRUE
    /\ mcpOps' = mcpOps + 1
    /\ UNCHANGED <<watcherVars, loopVars, cfg, reloads, cancelled, status>>

\* Mutant: the operation returns without opMu.Unlock.
EndMCPOpLocked ==
    /\ mcpOp
    /\ loop # "exited"
    /\ status # "mcp"
    /\ UNCHANGED vars

EndMCPOp ==
    /\ mcpOp
    /\ loop # "exited"
    /\ status # "mcp"
    /\ mcpOp' = FALSE
    /\ UNCHANGED <<watcherVars, loopVars, cfg, reloads, cancelled, mcpOps, status>>

\* GetStatus of an MCP tool or resource, up to its call of getActiveUsersList.
BeginStatus ==
    /\ MCPEnabled
    /\ mcpOps <= MaxMCPOps /\ loop # "exited"
    /\ Stdio => ~cancelled
    /\ status = "none"
    /\ status' = "outer"
    /\ UNCHANGED <<watcherVars, loopVars, cfg, reloads, cancelled, mcpOp, mcpOps>>

\* It got the second read lock, and returns.
EndStatus ==
    /\ status = "outer"
    /\ status' = "none"
    /\ UNCHANGED <<watcherVars, loopVars, cfg, reloads, cancelled, mcpOp, mcpOps>>

\* A goroutine asks for the write lock between the two read locks: a control cycle,
\* a boost or Cleanup on the main goroutine, an MCP operation, UpdateConfig.
WriterQueues(who) ==
    /\ status = "outer"
    /\ \/ /\ who = "loop"
          /\ \/ loop = "run" /\ trigger # "refresh"
             \/ loop = "lock" /\ trigger = "psi"
             \/ loop = "cleanup"
       \/ who = "mcp" /\ mcpOp
       \/ /\ who = "reload" /\ reloads < MaxReloads
          /\ loop \notin ShutdownSteps \cup {"exited"}
    /\ status' = who
    /\ UNCHANGED <<watcherVars, loopVars, cfg, reloads, cancelled, mcpOp, mcpOps>>

\* state.Manager.UpdateConfig, called by a reload (ConfigReload).
UpdateConfig ==
    /\ reloads < MaxReloads
    /\ status = "none"
    /\ loop \notin ShutdownSteps \cup {"exited"}
    /\ reloads' = reloads + 1
    /\ cfg' \in Configs \ {cfg}
    /\ UNCHANGED <<watcherVars, loopVars, cancelled, mcpOp, mcpOps, status>>

\* startSignalHandler: SIGINT or SIGTERM.
Terminate ==
    /\ ~cancelled
    /\ cancelled' = TRUE
    /\ UNCHANGED <<watcherVars, loopVars, cfg, reloads, mcpOp, mcpOps, status>>

\* The loop is left for shutdown, which begins with configWatcher.Stop: nobody
\* installs a configuration any more.
ContextDone ==
    /\ loop = "select"
    /\ cancelled
    /\ loop' = "cleanup"
    /\ UNCHANGED <<trigger, slot, interval, refresh, psiOn>>
    /\ UNCHANGED <<watcherVars, restVars>>

Goto(step) ==
    /\ loop' = step
    /\ UNCHANGED <<trigger, slot, interval, refresh, psiOn>>

\* state.Manager.Cleanup, whose steps are in LimitsManager.  It uses mu only when
\* there are limits to take away: it may return although nobody gets mu.
Cleanup ==
    /\ loop = "cleanup"
    /\ status # "loop"
    /\ Goto("stop_mcp")
    /\ UNCHANGED <<watcherVars, restVars>>

\* mcpServer.Stop: an HTTP server is given five seconds and left with an error;
\* over stdio wg.Wait() has no timeout, and Run returns when the requests in
\* progress have ended.  No request is accepted from here on.  The database and
\* the collector are closed after it.
StopMCP ==
    /\ loop = "stop_mcp"
    /\ Stdio => ~mcpOp /\ status = "none"
    /\ Goto(IF psiOn THEN "stop_psi" ELSE "exited")
    /\ mcpOps' = MaxMCPOps + 1
    /\ UNCHANGED <<watcherVars, cfg, reloads, cancelled, mcpOp, status>>

StopPSI ==
    /\ loop = "stop_psi"
    /\ Goto("wait_psi")
    /\ CloseDone
    /\ UNCHANGED restVars

WaitPSI ==
    /\ loop = "wait_psi"
    /\ Goto("exited")
    /\ DropMonitors
    /\ UNCHANGED restVars

Shutdown == Cleanup \/ StopMCP \/ StopPSI \/ WaitPSI

PollStep == PollRound /\ UNCHANGED <<loopVars, restVars>>

PollInterrupted == PollFails /\ UNCHANGED <<loopVars, restVars>>

Stalls(i) == Stall(i) /\ loop # "exited" /\ UNCHANGED <<loopVars, restVars>>

Next ==
    \/ StartPSIWatcher
    \/ StartTickers
    \/ HandleTickerCycle
    \/ HandleMetricsRefreshCycle
    \/ HandlePSIEvent
    \/ LockOp
    \/ EndCycle
    \/ \E k \in UserKeys : ChangeMonitors(k)
    \/ BeginMCPOp
    \/ EndMCPOp
    \/ BeginStatus
    \/ EndStatus
    \/ \E who \in Writers : WriterQueues(who)
    \/ UpdateConfig
    \/ Terminate
    \/ ContextDone
    \/ Shutdown
    \/ PollStep
    \/ PollInterrupted
    \/ \E i \in DOMAIN monitors : Stalls(i)

Spec == Init /\ [][Next]_vars

\* The goroutines are scheduled, and cycles, MCP operations and Cleanup end while
\* mu can be had (WF); time passes, so that ticks come, a select that finds a case
\* ready again and again chooses it some time, and a goroutine waiting for opMu
\* gets it although others ask for it too (SF: Go picks a ready case at random,
\* its mutexes do not starve).  No stall, signal, reload or request is assumed to
\* come, and nothing is assumed of a cycle or a Cleanup that is stuck.
Fairness ==
    /\ WF_vars(StartPSIWatcher) /\ WF_vars(StartTickers)
    /\ SF_vars(HandleTickerCycle) /\ SF_vars(HandleMetricsRefreshCycle)
    /\ SF_vars(HandlePSIEvent) /\ SF_vars(ContextDone)
    /\ SF_vars(LockOp) /\ WF_vars(EndCycle /\ ~Stuck)
    /\ WF_vars(EndMCPOp /\ ~Stuck) /\ WF_vars(EndStatus)
    /\ WF_vars(Cleanup /\ ~Stuck) /\ WF_vars(StopMCP \/ StopPSI \/ WaitPSI)
    /\ WF_vars(PollStep)

FairSpec == Spec /\ Fairness

-------------------------------------------------------------------------------
(* Properties.                                                             *)

\* Back at its select the main loop always finds the slot free: the "previous
\* cycle still running" branch of acquireCycleSlot is never taken, and no tick
\* and no event is skipped.
NoCycleSkipped == loop = "select" => slot

\* A stall that poll() reported for a monitored file is followed by a control cycle
\* with a PSI trigger, also when its event was dropped because the channel was
\* full, unless the daemon shuts down.
PressureIsAnswered ==
    ready \cap ActiveMonitors # {} ~> (trigger = "psi" \/ cancelled)

\* Control cycles keep coming until a termination signal: no tick, no event, no MCP
\* operation and no reload leaves the main loop waiting for the slot or for opMu,
\* and a stopped or useless PSI watcher leaves the ticker.  Only a status call
\* that a writer caught between its two read locks ends them.
CyclesGoOn == []<>((loop = "run" /\ trigger # "refresh") \/ cancelled \/ Stuck)

\* A termination signal ends the daemon by itself, without the watchdog's
\* SIGKILL, whatever the poll goroutine and MCP operations are doing and although
\* MCP over stdio is waited for without a timeout.  The one exception is named:
\* the same status call.
ShutdownCompletes == cancelled ~> (loop = "exited" \/ Stuck)

\* A status call returns.  It does not, when a writer queues between its two read
\* locks: then mu is stuck for everybody (state/manager.go:290).
StatusCallsReturn == status = "outer" ~> status = "none"

\* After the last reload both tickers take over the new intervals, in the polling
\* and in the event-driven mode, without a restart of the daemon (unless mu is
\* stuck).
IntervalsFollow ==
    <>[](\/ cancelled \/ Stuck
         \/ interval = ControlCycleInterval /\ refresh = MetricsRefreshInterval)

================================================================================
