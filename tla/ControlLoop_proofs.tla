------------------------ MODULE ControlLoop_proofs ------------------------
(***************************************************************************)
(* Theorems about PSIWatcher and ControlLoop, for every set of users, size *)
(* of the channel and of the table, and every configuration.               *)
(***************************************************************************)
EXTENDS ControlLoop, TLAPS

-----------------------------------------------------------------------------
(* The operators of the model.                                             *)

\* The smaller of two numbers.
LEMMA MinOfTwo ==
    ASSUME NEW m \in Int, NEW n \in Int
    PROVE  Min({m, n}) = IF m <= n THEN m ELSE n
BY DEF Min

\* The larger of two numbers.
LEMMA MaxOfTwo ==
    ASSUME NEW m \in Int, NEW n \in Int
    PROVE  Max({m, n}) = IF m >= n THEN m ELSE n
BY DEF Max

\* A write into the wake pipe leaves it with something to read.
LEMMA WakeIsSeen ==
    ASSUME wake \in 0 .. WakeRead + 1, Wake
    PROVE  wake' \in 0 .. WakeRead + 1 /\ wake' > 0
<1>1. WakeRead \in Nat \ {0}
  BY PSIWatcherAssumption
<1>2. wake' = IF wake + 1 <= WakeRead + 1 THEN wake + 1 ELSE WakeRead + 1
  BY <1>1, MinOfTwo DEF Wake
<1>3. QED
  BY <1>1, <1>2

\* A table of monitors.
Monitor == [key : Keys, active : BOOLEAN]

\* AddMonitor appends one active entry and leaves the others alone.
LEMMA TableGrows ==
    ASSUME monitors \in Seq(Monitor), NEW k \in Keys, AddMonitor(k)
    PROVE  /\ monitors' \in Seq(Monitor)
           /\ Len(monitors') = Len(monitors) + 1
           /\ Len(monitors) < MaxMonitors
           /\ \A i \in DOMAIN monitors : monitors'[i] = monitors[i]
<1>1. [key |-> k, active |-> TRUE] \in Monitor
  BY DEF Monitor
<1>2. QED
  BY <1>1 DEF AddMonitor

\* RemoveMonitor keeps the length of the table and the key of every entry.
LEMMA TableKeepsKeys ==
    ASSUME monitors \in Seq(Monitor), NEW k \in Keys, RemoveMonitor(k)
    PROVE  /\ monitors' \in Seq(Monitor)
           /\ Len(monitors') = Len(monitors)
           /\ \A i \in DOMAIN monitors : monitors'[i].key = monitors[i].key
<1> DEFINE closed == {i \in ActiveMonitors : monitors[i].key = k}
           Entry(i) == IF i \in closed THEN [key |-> k, active |-> FALSE]
                       ELSE monitors[i]
<1>1. monitors' = [i \in 1 .. Len(monitors) |-> Entry(i)]
  BY DEF RemoveMonitor
<1>2. ASSUME NEW i \in 1 .. Len(monitors)
      PROVE  Entry(i) \in Monitor /\ Entry(i).key = monitors[i].key
  <2>1. monitors[i] \in Monitor
    OBVIOUS
  <2>2. CASE i \in closed
    BY <2>2 DEF Monitor
  <2>3. QED
    BY <2>1, <2>2
<1> HIDE DEF Entry
<1>3. QED
  BY <1>1, <1>2

-----------------------------------------------------------------------------
(* Type correctness.                                                       *)

\* The table does not outgrow its bound, and it is empty until the watcher is
\* started.
TableInv ==
    /\ Len(monitors) <= MaxMonitors
    /\ loop = "start" => ~psiOn /\ monitors = <<>> /\ polling = "off"

\* One step from a well-typed state leads to a well-typed state.
LEMMA TypeStep ==
    ASSUME TypeOK, TableInv, [Next]_vars
    PROVE  TypeOK' /\ TableInv'
<1> USE PSIWatcherAssumption, ControlLoopAssumption
    DEF TypeOK, WatcherTypeOK, TableInv, roundVars, watcherVars, loopVars, restVars,
        Triggers, ShutdownSteps, Writers, Keys
<1>0. /\ ControlCycleInterval \in Nat /\ MetricsRefreshInterval \in Nat
      /\ BootConfig \in Configs
      /\ monitors \in Seq(Monitor)
  BY DEF ControlCycleInterval, MetricsRefreshInterval, Monitor
<1>1. CASE StartPSIWatcher
  <2>1. <<[key |-> System, active |-> TRUE]>> \in Seq(Monitor)
    BY DEF Monitor
  <2>2. CASE UNCHANGED <<watcherVars, psiOn>>
    BY <1>1, <2>2 DEF StartPSIWatcher
  <2>3. CASE /\ monitors' = <<[key |-> System, active |-> TRUE]>>
             /\ StartPolling /\ Wake /\ psiOn' = TRUE
             /\ UNCHANGED <<fired, done, polled, ready, queue>>
    <3>1. wake' \in 0 .. WakeRead + 1 /\ polling' = "top"
      BY <2>3, WakeIsSeen DEF StartPolling
    <3>2. Len(monitors') = 1
      BY <2>3
    <3>3. monitors' \in Seq([key : Keys, active : BOOLEAN])
      BY <2>1, <2>3 DEF Monitor
    <3>4. fired' \subseteq DOMAIN monitors'
      BY <1>1, <2>3, <3>2 DEF StartPSIWatcher
    <3>5. QED
      BY <1>1, <2>3, <3>1, <3>2, <3>3, <3>4 DEF StartPSIWatcher
  <2>4. CASE /\ polling' = "ended" /\ done' = TRUE
             /\ UNCHANGED <<monitors, fired, wake, polled, ready, queue, psiOn>>
    BY <1>1, <2>4 DEF StartPSIWatcher
  <2>5. QED
    BY <1>1, <2>2, <2>3, <2>4 DEF StartPSIWatcher
<1>2. CASE StartTickers
  BY <1>0, <1>2 DEF StartTickers
<1>3. CASE HandleTickerCycle
  BY <1>0, <1>3 DEF HandleTickerCycle, AcquireCycleSlot, RefreshMetricsTicker
<1>4. CASE HandleMetricsRefreshCycle
  BY <1>4 DEF HandleMetricsRefreshCycle
<1>5. CASE HandlePSIEvent
  <2>1. queue' \in Seq(Keys) /\ Len(queue') <= QueueSize
    BY <1>5 DEF HandlePSIEvent
  <2>2. QED
    BY <1>5, <2>1 DEF HandlePSIEvent, AcquireCycleSlot
<1>6. CASE LockOp
  BY <1>6 DEF LockOp
<1>7. CASE EndCycle
  BY <1>0, <1>7 DEF EndCycle, RefreshMetricsTicker
<1>8. ASSUME NEW k \in UserKeys, ChangeMonitors(k)
      PROVE  TypeOK' /\ TableInv'
  <2>1. CASE AddMonitor(k)
    <3>1. /\ monitors' \in Seq(Monitor) /\ Len(monitors') = Len(monitors) + 1
          /\ Len(monitors) < MaxMonitors
      BY <1>0, <2>1, TableGrows
    <3>2. wake' \in 0 .. WakeRead + 1
      BY <2>1, WakeIsSeen DEF AddMonitor
    <3>3. QED
      <4>1. fired' \subseteq DOMAIN monitors' /\ Len(monitors') <= MaxMonitors
        BY <2>1, <3>1 DEF AddMonitor
      <4>2. loop' # "start"
        BY <1>8 DEF ChangeMonitors
      <4>3. QED
        BY <1>8, <2>1, <3>1, <3>2, <4>1, <4>2 DEF ChangeMonitors, AddMonitor, Monitor
  <2>2. CASE RemoveMonitor(k)
    <3>1. monitors' \in Seq(Monitor) /\ Len(monitors') = Len(monitors)
      BY <1>0, <2>2, TableKeepsKeys
    <3>2. wake' \in 0 .. WakeRead + 1
      BY <2>2, WakeIsSeen DEF RemoveMonitor
    <3>3. QED
      BY <1>8, <2>2, <3>1, <3>2 DEF ChangeMonitors, RemoveMonitor, Monitor
  <2>3. QED
    BY <1>8, <2>1, <2>2 DEF ChangeMonitors
<1>9. CASE BeginMCPOp
  <2>1. mcpOps' \in 0 .. MaxMCPOps + 1
    BY <1>9 DEF BeginMCPOp
  <2>2. /\ UNCHANGED <<watcherVars, loopVars, cfg, reloads, cancelled, status>>
        /\ mcpOp' = TRUE
    BY <1>9 DEF BeginMCPOp
  <2>3. QED
    BY <2>1, <2>2
<1>10. CASE EndMCPOp
  BY <1>10 DEF EndMCPOp
<1>11. CASE UpdateConfig
  BY <1>11 DEF UpdateConfig
<1>12. CASE Terminate
  BY <1>12 DEF Terminate
<1>13. CASE ContextDone
  BY <1>13 DEF ContextDone
<1>14. CASE Cleanup
  BY <1>14 DEF Cleanup, Goto
<1>15. CASE StopMCP
  BY <1>15 DEF StopMCP, Goto
<1>16. CASE StopPSI
  BY <1>16, WakeIsSeen DEF StopPSI, Goto, CloseDone
<1>17. CASE WaitPSI
  BY <1>17 DEF WaitPSI, Goto, DropMonitors
<1>18. CASE BuildPollSet /\ UNCHANGED <<loopVars, restVars>>
  <2>1. ActiveMonitors \subseteq 1 .. MaxMonitors
    BY DEF ActiveMonitors
  <2>2. loop' # "start" /\ UNCHANGED <<monitors, fired, queue>>
    BY <1>18 DEF BuildPollSet
  <2>3. QED
    BY <1>18, <2>1, <2>2 DEF BuildPollSet
<1>19. CASE Poll /\ UNCHANGED <<loopVars, restVars>>
  <2>1. wake' = IF 0 >= wake - WakeRead THEN 0 ELSE wake - WakeRead
    BY <1>19, MaxOfTwo DEF Poll
  <2>2. QED
    <3>1. wake' \in 0 .. WakeRead + 1
      BY <2>1
    <3>2. /\ polling' \in {"ended", "read"}
          /\ ready' \subseteq ready \cup polled /\ fired' \subseteq fired
      BY <1>19 DEF Poll
    <3>3. QED
      BY <1>19, <3>1, <3>2 DEF Poll
<1>20. CASE ReadEvent /\ UNCHANGED <<loopVars, restVars>>
  <2>1. polling' \in {"read", "ended"} /\ ready' \subseteq ready
    BY <1>20 DEF ReadEvent
  <2>2. queue' \in Seq(Keys) /\ Len(queue') <= QueueSize
    <3> DEFINE i == Min(ready)
    <3>1. CASE queue' = queue
      BY <3>1
    <3>2. CASE i \in ActiveMonitors /\ Len(queue) < QueueSize
                 /\ queue' = Append(queue, monitors[i].key)
      <4>1. monitors[i].key \in Keys
        <5>1. monitors[i] \in Monitor
          BY <1>0, <3>2 DEF ActiveMonitors
        <5>2. QED
          BY <5>1 DEF Monitor
      <4> HIDE DEF i, Keys
      <4>2. QED
        BY <3>2, <4>1
    <3>3. QED
      <4> HIDE DEF TypeOK, TableInv
      <4> QED BY <1>20, <3>1, <3>2 DEF ReadEvent
  <2>3. QED
    BY <1>20, <2>1, <2>2 DEF ReadEvent
<1>21. CASE EndRound /\ UNCHANGED <<loopVars, restVars>>
  BY <1>21 DEF EndRound
<1>22. CASE PollInterrupted
  BY <1>22 DEF PollInterrupted, PollFails
<1>23. ASSUME NEW i \in DOMAIN monitors, Stalls(i)
       PROVE  TypeOK' /\ TableInv'
  BY <1>23 DEF Stalls, Stall, ActiveMonitors
<1>24. CASE BeginStatus \/ EndStatus
  <2>1. /\ UNCHANGED <<watcherVars, loopVars, cfg, reloads, cancelled, mcpOp, mcpOps>>
        /\ status' \in {"none", "outer"}
    BY <1>24 DEF BeginStatus, EndStatus
  <2>2. QED
    BY <2>1
<1>25. ASSUME NEW who \in Writers, WriterQueues(who)
       PROVE  TypeOK' /\ TableInv'
  <2>1. /\ UNCHANGED <<watcherVars, loopVars, cfg, reloads, cancelled, mcpOp, mcpOps>>
        /\ status' = who
    BY <1>25 DEF WriterQueues
  <2>2. QED
    BY <2>1
<1>26. CASE UNCHANGED vars
  BY <1>26 DEF vars
<1>27. QED
  BY <1>1, <1>2, <1>3, <1>4, <1>5, <1>6, <1>7, <1>8, <1>9, <1>10, <1>11, <1>12, <1>13,
     <1>14, <1>15, <1>16, <1>17, <1>18, <1>19, <1>20, <1>21, <1>22, <1>23, <1>24,
     <1>25, <1>26
     DEF Next, Shutdown, PollStep, PollRound

\* The invariant that the other proofs use.
LEMMA TypeInvariant == Spec => [](TypeOK /\ TableInv)
<1>1. ASSUME Init PROVE TypeOK /\ TableInv
  <2> USE PSIWatcherAssumption, ControlLoopAssumption, <1>1 DEF Init, WatcherInit
  <2>1. WatcherTypeOK
    <3>1. monitors \in Seq([key : Keys, active : BOOLEAN]) /\ queue \in Seq(Keys)
      OBVIOUS
    <3>2. Len(queue) <= QueueSize
      OBVIOUS
    <3>3. wake \in 0 .. WakeRead + 1
      OBVIOUS
    <3>4. done \in BOOLEAN /\ polling \in {"off", "top", "poll", "read", "ended"}
      OBVIOUS
    <3>5. fired \subseteq DOMAIN monitors /\ polled \subseteq 1 .. MaxMonitors
          /\ ready \subseteq 1 .. MaxMonitors
      OBVIOUS
    <3>6. QED
      BY <3>1, <3>2, <3>3, <3>4, <3>5, Zenon DEF WatcherTypeOK
  <2>2. TypeOK
    <3>1. /\ loop = "start" /\ trigger \in Triggers
          /\ {slot, psiOn, cancelled, mcpOp} \subseteq BOOLEAN
      BY DEF Triggers
    <3>2. /\ interval \in Nat /\ refresh \in Nat /\ cfg \in Configs
          /\ reloads \in 0 .. MaxReloads /\ mcpOps \in 0 .. MaxMCPOps + 1
          /\ status = "none"
      OBVIOUS
    <3>3. QED
      BY <2>1, <3>1, <3>2 DEF TypeOK
  <2>3. TableInv
    BY DEF TableInv
  <2>4. QED
    BY <2>2, <2>3
<1>2. TypeOK /\ TableInv /\ [Next]_vars => TypeOK' /\ TableInv'
  BY TypeStep
<1>3. QED
  BY <1>1, <1>2, PTL DEF Spec

\* Every variable keeps its type: the pipe, the channel and the table stay within
\* their sizes, and every descriptor that is polled or read is in the table.
THEOREM LoopTypeCorrect == Spec => []TypeOK
BY TypeInvariant, PTL

-----------------------------------------------------------------------------
(* The poll goroutine.                                                     *)

\* What a step can do to the poll goroutine and its pipe: change the table or close
\* done and write a byte into the pipe, build a new poll set from the table, leave
\* poll(), or none of these.
LEMMA PollerStep ==
    ASSUME TypeOK, TableInv, [Next]_vars
    PROVE  \/ wake' > 0 /\ UNCHANGED <<polling, polled>>
           \/ polling' = "poll" /\ polled' = ActiveMonitors /\ ~done
                /\ UNCHANGED <<monitors, wake, done>>
           \/ polling' # "poll"
           \/ UNCHANGED <<polling, polled, monitors, wake, done>>
<1> DEFINE Step == \/ wake' > 0 /\ UNCHANGED <<polling, polled>>
                   \/ polling' = "poll" /\ polled' = ActiveMonitors /\ ~done
                        /\ UNCHANGED <<monitors, wake, done>>
                   \/ polling' # "poll"
                   \/ UNCHANGED <<polling, polled, monitors, wake, done>>
<1> USE DEF roundVars, watcherVars
<1>0. wake \in 0 .. WakeRead + 1
  BY DEF TypeOK, WatcherTypeOK
<1>1. CASE StartPSIWatcher
  BY <1>1 DEF StartPSIWatcher, StartPolling
<1>2. ASSUME NEW k \in UserKeys, ChangeMonitors(k)
      PROVE  Step
  BY <1>0, <1>2, WakeIsSeen DEF ChangeMonitors, AddMonitor, RemoveMonitor
<1>3. CASE StopPSI
  BY <1>0, <1>3, WakeIsSeen DEF StopPSI, CloseDone
<1>4. CASE WaitPSI
  BY <1>4 DEF WaitPSI, DropMonitors
<1>5. CASE PollStep
  BY <1>5 DEF PollStep, PollRound, BuildPollSet, Poll, ReadEvent, EndRound
<1>6. CASE PollInterrupted
  BY <1>6 DEF PollInterrupted, PollFails
<1>7. ASSUME NEW i \in DOMAIN monitors, Stalls(i)
      PROVE  Step
  BY <1>7 DEF Stalls, Stall
<1>8. CASE StartTickers \/ HandleTickerCycle \/ HandleMetricsRefreshCycle \/ HandlePSIEvent
             \/ LockOp \/ EndCycle
  BY <1>8 DEF StartTickers, HandleTickerCycle, HandleMetricsRefreshCycle, HandlePSIEvent,
              LockOp, EndCycle
<1>9. CASE BeginMCPOp \/ EndMCPOp \/ UpdateConfig \/ Terminate \/ ContextDone \/ Cleanup
             \/ StopMCP \/ BeginStatus \/ EndStatus \/ UNCHANGED vars
  BY <1>9 DEF BeginMCPOp, EndMCPOp, BeginStatus, EndStatus, UpdateConfig, Terminate, ContextDone, Cleanup, StopMCP,
              vars
<1>10. ASSUME NEW who \in Writers, WriterQueues(who)
       PROVE  Step
  BY <1>10 DEF WriterQueues
<1>11. QED
  BY <1>1, <1>2, <1>3, <1>4, <1>5, <1>6, <1>7, <1>8, <1>9, <1>10 DEF Next, Shutdown

\* No wake-up of the poll goroutine is lost: when it blocks, its poll set is the
\* table of the moment, in whatever order monitors are added and removed.
THEOREM NoWakeUpLost == Spec => []PollSetIsFresh
<1>1. Init => PollSetIsFresh
  BY DEF Init, WatcherInit, PollSetIsFresh
<1>2. TypeOK /\ TableInv /\ PollSetIsFresh /\ [Next]_vars => PollSetIsFresh'
  BY PollerStep DEF PollSetIsFresh, ActiveMonitors
<1>3. QED
  BY <1>1, <1>2, TypeInvariant, PTL DEF Spec

\* A goroutine in poll() always returns after Stop() has closed done.
THEOREM StopReachesPoller == Spec => []StopWakesPoller
<1>1. Init => StopWakesPoller
  BY DEF Init, WatcherInit, StopWakesPoller
<1>2. TypeOK /\ TableInv /\ StopWakesPoller /\ [Next]_vars => StopWakesPoller'
  BY PollerStep DEF StopWakesPoller
<1>3. QED
  BY <1>1, <1>2, TypeInvariant, PTL DEF Spec

-----------------------------------------------------------------------------
(* The slot of the main loop.                                              *)

\* Only a cycle that the ticker or an event has started holds the slot.
SlotInv ==
    ~slot => loop \in {"lock", "run"} /\ trigger \in {"ticker", "psi"}

\* A step keeps it: each handler that takes the slot gives it back at its end.
LEMMA SlotStep ==
    ASSUME TypeOK, SlotInv, [Next]_vars
    PROVE  SlotInv'
<1> USE DEF SlotInv, loopVars
<1>1. CASE StartPSIWatcher \/ StartTickers
  BY <1>1 DEF StartPSIWatcher, StartTickers
<1>2. CASE HandleTickerCycle \/ HandlePSIEvent \/ HandleMetricsRefreshCycle
  BY <1>2 DEF HandleTickerCycle, HandlePSIEvent, HandleMetricsRefreshCycle, AcquireCycleSlot
<1>3. CASE LockOp \/ EndCycle
  BY <1>3 DEF LockOp, EndCycle, TypeOK
<1>4. CASE ContextDone \/ Cleanup \/ StopMCP \/ StopPSI \/ WaitPSI
  BY <1>4 DEF ContextDone, Cleanup, StopMCP, StopPSI, WaitPSI, Goto
<1>5. CASE UNCHANGED loopVars
  BY <1>5
<1>6. QED
  BY <1>1, <1>2, <1>3, <1>4, <1>5
     DEF Next, Shutdown, ChangeMonitors, BeginMCPOp, EndMCPOp, BeginStatus, EndStatus,
         WriterQueues, UpdateConfig, Terminate, PollStep, PollInterrupted, Stalls, vars

\* The slot invariant holds in every reachable state.
LEMMA SlotInvariant == Spec => []SlotInv
<1>1. Init => SlotInv
  BY DEF Init, SlotInv
<1>2. TypeOK /\ SlotInv /\ [Next]_vars => SlotInv'
  BY SlotStep
<1>3. QED
  BY <1>1, <1>2, TypeInvariant, PTL DEF Spec

\* No tick and no event finds the slot taken: acquireCycleSlot never skips a cycle.
THEOREM SlotIsFreeAtSelect == Spec => []NoCycleSkipped
<1>1. SlotInv => NoCycleSkipped
  BY DEF SlotInv, NoCycleSkipped
<1>2. QED
  BY <1>1, SlotInvariant, PTL

=============================================================================
