---------------------------- MODULE ConfigReload ----------------------------
(***************************************************************************)
(* How a change of the configuration file reaches the running daemon: the  *)
(* file and its inotify watch, Watcher.watchLoop and the goroutine of a    *)
(* SIGHUP (the two loaders), Reloader.OnConfigChange, the MCP tools that   *)
(* change a user list in memory and save it, and the exporter a reload     *)
(* may stop.                                                               *)
(*                                                                         *)
(* Config objects are shared: the state manager and the collector hold the *)
(* same pointer after a reload, and the MCP tools write through it.        *)
(***************************************************************************)
EXTENDS ConfigRules, FiniteSets

CONSTANTS
    Start,       \* the file the daemon was started with
    Texts,       \* what the administrator may write into the file
    Environs,    \* environments the daemon may be started with
    Requests,    \* Requests[key]: the lists that MCP clients may ask for
    MaxWrites,   \* bound: number of changes of the file
    MaxCalls,    \* bound: number of calls of the MCP tools
    Overlap,     \* a SIGHUP may arrive while the watch loop reloads
    SavedElsewhere  \* CONFIG_FILE, where the tools save, is not the file of --config

ASSUME ReloadAssumption ==
    /\ MaxWrites \in Nat /\ MaxCalls \in Nat
    /\ Overlap \in BOOLEAN /\ SavedElsewhere \in BOOLEAN
    /\ Texts \cup {Start} \subseteq Seq(Line)
    /\ \A e \in Environs, key \in RegexKeys : key \in DOMAIN e => e[key] \in RawValue
    /\ \A e \in Environs : LET r == LoadAndValidate(Start, e)
                           IN  /\ r.ok /\ r.cfg.ENABLE_PROMETHEUS
                               /\ "PROMETHEUS_METRICS_BIND_PORT" \notin DOMAIN e

Loaders == {"watch", "hup"}

\* One object for every reference there can be: the state manager's, the
\* collector's, one per loader and the MCP handler's.
Objects == 1..5
NoObject == 0

VARIABLES
    env,
    file,        \* [there, stamp, lines]: stamp is its modification time and size
    watched,     \* the inotify watch is on the file, not on a replaced inode
    event,       \* fsnotify has an event for watchLoop
    pendingReload,
    running,     \* watchLoop runs
    last,        \* lastModTime and lastFileSize
    pc, stat, obj, failed,   \* per loader: handleConfigChange and OnConfigChange
    heap,        \* the Config objects
    smCfg, colCfg,           \* the objects of state.Manager and Collector
    exporter,
    mcp          \* the handler of set_user_include_list or set_user_exclude_list

vars == <<env, file, watched, event, pendingReload, running, last, pc, stat, obj,
          failed, heap, smCfg, colCfg, exporter, mcp>>
fileVars   == <<env, file, watched, event>>
loaderVars == <<pendingReload, running, last, pc, stat, obj, failed>>
parts      == <<smCfg, colCfg>>

Idle(calls) == [at |-> "idle", calls |-> calls, obj |-> NoObject, key |-> "",
                list |-> {}, previous |-> {}, read |-> <<>>, lines |-> <<>>]

TypeOK ==
    /\ env \in Environs
    /\ file.there \in BOOLEAN /\ file.stamp \in 0..MaxWrites /\ last \in 0..MaxWrites
    /\ {watched, event, pendingReload, running} \subseteq BOOLEAN
    /\ pc \in [Loaders -> {"idle", "load", "exporter", "manager", "collector", "end"}]
    /\ stat \in [Loaders -> 0..MaxWrites]
    /\ obj \in [Loaders -> Objects \cup {NoObject}]
    /\ failed \in [Loaders -> BOOLEAN]
    /\ \A o \in Objects : DOMAIN heap[o] = DOMAIN DefaultConfig
    /\ {smCfg, colCfg} \subseteq Objects
    /\ exporter \in {"running", "told", "stopped"}
    /\ mcp.at \in {"idle", "set", "rename"} /\ mcp.obj \in Objects \cup {NoObject}

\* Who may be limited under a configuration.
Eligible(cfg) == {u \in Users : IsUserWhitelisted(cfg, u)}

\* LoadAndValidate(w.configPath) as the file is now.
Loaded == LoadAndValidate(file.lines, env)

\* The exporter listens where the first configuration says.
Endpoint == LoadAndValidate(Start, <<>>).cfg.PROMETHEUS_METRICS_BIND_PORT

\* Bootstrap has loaded the file Start, with Prometheus enabled.
Init ==
    /\ env \in Environs
    /\ file = [there |-> TRUE, stamp |-> 0, lines |-> Start]
    /\ heap = [o \in Objects |->
                 IF o = 1 THEN LoadAndValidate(Start, env).cfg ELSE DefaultConfig]
    /\ watched = TRUE /\ event = FALSE
    /\ pendingReload = FALSE /\ running = TRUE /\ last = 0
    /\ pc = [t \in Loaders |-> "idle"]
    /\ stat = [t \in Loaders |-> 0]
    /\ obj = [t \in Loaders |-> NoObject]
    /\ failed = [t \in Loaders |-> FALSE]
    /\ smCfg = 1 /\ colCfg = 1
    /\ exporter = "running"
    /\ mcp = Idle(0)

\* An object nobody refers to is gone; its id may be used again.
Live(sm, col, objs, m) == {sm, col, m.obj} \cup {objs[t] : t \in Loaders}
Collected(h, live) == [o \in Objects |-> IF o \in live THEN h[o] ELSE DefaultConfig]

Goto(t, label) == pc' = [pc EXCEPT ![t] = label]

-----------------------------------------------------------------------------
(* The file.                                                               *)

\* inotify watches the inode.  A write into the file is reported; a file that is
\* replaced or removed takes the watch with it, after one last event.
Changed(newFile, inPlace) ==
    /\ file.stamp < MaxWrites
    /\ file' = newFile
    /\ event' = (event \/ watched)
    /\ watched' = (watched /\ inPlace)

Written(lines) == [there |-> TRUE, stamp |-> file.stamp + 1, lines |-> lines]

\* An editor that writes in place empties the file first; others replace it.
AdminTruncates ==
    /\ file.there /\ file.lines # <<>>
    /\ Changed(Written(<<>>), TRUE)
    /\ UNCHANGED <<env, loaderVars, heap, parts, exporter, mcp>>

AdminWrites(lines, inPlace) ==
    /\ inPlace => file.there /\ file.lines = <<>>
    /\ file.lines # lines
    /\ Changed(Written(lines), inPlace)
    /\ UNCHANGED <<env, loaderVars, heap, parts, exporter, mcp>>

AdminRemoves ==
    /\ file.there
    /\ Changed([there |-> FALSE, stamp |-> file.stamp + 1, lines |-> <<>>], FALSE)
    /\ UNCHANGED <<env, loaderVars, heap, parts, exporter, mcp>>

-----------------------------------------------------------------------------
(* watchLoop.                                                              *)

\* The first event starts the debounce timer, later ones are covered by it.
ReceiveEvent ==
    /\ running /\ pc["watch"] = "idle"
    /\ event
    /\ event' = FALSE
    /\ pendingReload' = TRUE
    /\ UNCHANGED <<env, file, watched, running, last, pc, stat, obj, failed, heap,
                   parts, exporter, mcp>>

\* The beginning of handleConfigChange: a missing file and one with the known
\* time and size end it.
Stat(t) ==
    IF file.there /\ file.stamp # last
    THEN /\ stat' = [stat EXCEPT ![t] = file.stamp]
         /\ Goto(t, "load")
    ELSE UNCHANGED <<stat, pc>>

MayBegin(t) ==
    /\ pc[t] = "idle"
    /\ Overlap \/ \A other \in Loaders : pc[other] = "idle"

DebounceFires ==
    /\ running /\ MayBegin("watch")
    /\ pendingReload
    /\ pendingReload' = FALSE
    /\ Stat("watch")
    /\ UNCHANGED <<fileVars, running, last, obj, failed, heap, parts, exporter,
                   mcp>>

\* checkConfigChange, every 30 seconds.
PeriodicCheck ==
    /\ running /\ MayBegin("watch")
    /\ Stat("watch")
    /\ UNCHANGED <<fileVars, pendingReload, running, last, obj, failed, heap,
                   parts, exporter, mcp>>

\* SIGHUP: HandleConfigChange in a goroutine of its own.
SignalHup ==
    /\ MayBegin("hup")
    /\ Stat("hup")
    /\ UNCHANGED <<fileVars, pendingReload, running, last, obj, failed, heap,
                   parts, exporter, mcp>>

\* Stop, at shutdown: the loop ends when it is back in its select.
StopWatcher ==
    /\ running /\ pc["watch"] = "idle"
    /\ running' = FALSE
    /\ UNCHANGED <<fileVars, pendingReload, last, pc, stat, obj, failed, heap,
                   parts, exporter, mcp>>

-----------------------------------------------------------------------------
(* handleConfigChange and OnConfigChange.                                  *)

\* The file is read as it is by now: even when it has gone since os.Stat.
Load(t) ==
    /\ pc[t] = "load"
    /\ \E new \in {Loaded} :
          IF new.ok
          THEN LET free == Objects \ Live(smCfg, colCfg, obj, mcp)
                   o    == CHOOSE x \in free : \A y \in free : x <= y
               IN  /\ obj' = [obj EXCEPT ![t] = o]
                   /\ heap' = [heap EXCEPT ![o] = new.cfg]
                   /\ Goto(t, "exporter")
          ELSE Goto(t, "idle") /\ UNCHANGED <<obj, heap>>
    /\ stat' = IF pc'[t] = "idle" THEN [stat EXCEPT ![t] = 0] ELSE stat
    /\ UNCHANGED <<fileVars, pendingReload, running, last, failed, parts,
                   exporter, mcp>>

\* handlePrometheusConfigChange.  Stop() only leaves a message for the goroutine
\* of the server, and fails when the message before has not been taken.
\* Enabling an exporter that is down and moving it to another address fail.
handlePrometheusConfigChange(t) ==
    LET enabled == heap[obj[t]].ENABLE_PROMETHEUS
        moved   == heap[obj[t]].PROMETHEUS_METRICS_BIND_PORT # Endpoint
        up      == exporter # "stopped"
    IN  /\ pc[t] = "exporter"
        /\ failed' = [failed EXCEPT ![t] =
              IF up /\ ~enabled THEN exporter = "told"
              ELSE (~up /\ enabled) \/ moved]
        /\ exporter' = IF up /\ ~enabled /\ exporter = "running" THEN "told"
                       ELSE exporter
        /\ Goto(t, "manager")
        /\ UNCHANGED <<fileVars, pendingReload, running, last, stat, obj, heap,
                       parts, mcp>>

\* The goroutine of Start takes the message and runs shutdown(), under the lock
\* that IsRunning needs.
ExporterStops ==
    /\ exporter = "told"
    /\ exporter' = "stopped"
    /\ UNCHANGED <<fileVars, loaderVars, heap, parts, mcp>>

UpdateManager(t) ==
    /\ pc[t] = "manager"
    /\ smCfg' = obj[t]
    /\ heap' = Collected(heap, Live(smCfg', colCfg, obj, mcp))
    /\ Goto(t, "collector")
    /\ UNCHANGED <<fileVars, pendingReload, running, last, stat, obj, failed,
                   colCfg, exporter, mcp>>

\* Mutant: an error of the exporter ends OnConfigChange before the collector.
UpdateCollectorUnlessFailed(t) ==
    /\ pc[t] = "collector"
    /\ colCfg' = IF failed[t] THEN colCfg ELSE obj[t]
    /\ heap' = Collected(heap, Live(smCfg, colCfg', obj, mcp))
    /\ Goto(t, "end")
    /\ UNCHANGED <<fileVars, pendingReload, running, last, stat, obj, failed,
                   smCfg, exporter, mcp>>

\* Collector.UpdateConfig.
UpdateCollector(t) ==
    /\ pc[t] = "collector"
    /\ colCfg' = obj[t]
    /\ heap' = Collected(heap, Live(smCfg, colCfg', obj, mcp))
    /\ Goto(t, "end")
    /\ UNCHANGED <<fileVars, pendingReload, running, last, stat, obj, failed,
                   smCfg, exporter, mcp>>

\* Mutant: the time and size are taken when the reload ends.
EndReloadStatsAgain(t) ==
    /\ pc[t] = "end"
    /\ last' = IF failed[t] THEN last ELSE file.stamp
    /\ obj' = [obj EXCEPT ![t] = NoObject]
    /\ failed' = [failed EXCEPT ![t] = FALSE]
    /\ stat' = [stat EXCEPT ![t] = 0]
    /\ heap' = Collected(heap, Live(smCfg, colCfg, obj', mcp))
    /\ Goto(t, "idle")
    /\ UNCHANGED <<fileVars, pendingReload, running, parts, exporter, mcp>>

\* The time and size of before the load are remembered, unless a part failed:
\* then the next check finds the file changed again.
EndReload(t) ==
    /\ pc[t] = "end"
    /\ last' = IF failed[t] THEN last ELSE stat[t]
    /\ obj' = [obj EXCEPT ![t] = NoObject]
    /\ failed' = [failed EXCEPT ![t] = FALSE]
    /\ stat' = [stat EXCEPT ![t] = 0]
    /\ heap' = Collected(heap, Live(smCfg, colCfg, obj', mcp))
    /\ Goto(t, "idle")
    /\ UNCHANGED <<fileVars, pendingReload, running, parts, exporter, mcp>>

LoaderStep(t) ==
    \/ Load(t)
    \/ handlePrometheusConfigChange(t)
    \/ UpdateManager(t)
    \/ UpdateCollector(t)
    \/ EndReload(t)

-----------------------------------------------------------------------------
(* set_user_include_list and set_user_exclude_list.                        *)

\* stateManager.GetConfig(); patterns that do not compile are refused.
ToolCalled(key, list) ==
    /\ mcp.at = "idle"
    /\ list \subseteq Compiles
    /\ mcp.calls < MaxCalls
    /\ mcp' = [Idle(mcp.calls + 1) EXCEPT !.at = "set", !.obj = smCfg,
                                          !.key = key, !.list = list]
    /\ UNCHANGED <<fileVars, loaderVars, heap, parts, exporter>>

\* What is in the file of cfg.ConfigFile: in the default deployment it is the file
\* the daemon was started with, which the watcher reads.
SavedOver == IF SavedElsewhere THEN Texts \cup {<<>>} ELSE {file.lines}

\* SetUserExcludeList up to the temporary file: the object in memory is changed
\* in place, and the new text comes from the file as it is now.  Without a file
\* both lists are all there is to write.
SetUserList ==
    /\ mcp.at = "set"
    /\ heap' = [heap EXCEPT ![mcp.obj][mcp.key] = mcp.list]
    /\ \E lines \in SavedOver :
          mcp' = [mcp EXCEPT !.at = "rename",
                             !.previous = heap[mcp.obj][mcp.key],
                             !.read = lines,
                             !.lines = updateConfigLines(lines, heap'[mcp.obj])]
    /\ UNCHANGED <<fileVars, loaderVars, parts, exporter>>

\* os.Rename, which replaces whatever is in the file of cfg.ConfigFile by now.
RenameSaved ==
    /\ mcp.at = "rename"
    /\ IF SavedElsewhere THEN UNCHANGED <<file, watched, event>>
       ELSE Changed(Written(mcp.lines), FALSE)
    /\ mcp' = Idle(mcp.calls)
    /\ heap' = Collected(heap, Live(smCfg, colCfg, obj, mcp'))
    /\ UNCHANGED <<env, loaderVars, parts, exporter>>

\* SaveToFile fails at some point: the list is set back.
SaveFails ==
    /\ mcp.at = "rename"
    /\ heap' = Collected([heap EXCEPT ![mcp.obj][mcp.key] = mcp.previous],
                         Live(smCfg, colCfg, obj, Idle(0)))
    /\ mcp' = Idle(mcp.calls)
    /\ UNCHANGED <<fileVars, loaderVars, parts, exporter>>

-----------------------------------------------------------------------------
Tool ==
    \/ \E key \in RegexKeys : \E list \in Requests[key] : ToolCalled(key, list)
    \/ SetUserList
    \/ RenameSaved
    \/ SaveFails

Admin ==
    \/ AdminTruncates
    \/ \E lines \in Texts, inPlace \in BOOLEAN : AdminWrites(lines, inPlace)
    \/ AdminRemoves

Next ==
    \/ Admin
    \/ ReceiveEvent \/ DebounceFires \/ PeriodicCheck \/ SignalHup \/ StopWatcher
    \/ \E t \in Loaders : LoaderStep(t)
    \/ ExporterStops
    \/ Tool

Spec == Init /\ [][Next]_vars

\* The ticker of watchLoop and the goroutines go on.  No event of inotify, signal,
\* request or edit is assumed to come.
Fairness ==
    /\ WF_vars(PeriodicCheck)
    /\ \A t \in Loaders : WF_vars(LoaderStep(t))

FairSpec == Spec /\ Fairness

-----------------------------------------------------------------------------
(* Properties.                                                             *)

\* What validateConfig has accepted and makeDecision and the boost rely on: an
\* activation threshold above the release threshold, a weight cgroupfs accepts.
SoundNumbers(cfg) ==
    /\ cfg.CPU_THRESHOLD > cfg.CPU_RELEASE_THRESHOLD
    /\ cfg.PSI_EVENT_DRIVEN => cfg.PSI_BOOST_WEIGHT \in 1..MaxWeight

\* Whatever the environment adds, whatever is in the file while it is read, and
\* whatever the tools change in place, the configuration the state manager and
\* the collector run with has sound numbers and no pattern that does not compile,
\* unless one came in where none is checked: with the alias USER_WHITELIST or
\* from the environment.
OnlySoundConfigs ==
    \A o \in {smCfg, colCfg} :
        /\ SoundNumbers(heap[o])
        /\ heap[o].USER_INCLUDE_LIST \cup heap[o].USER_EXCLUDE_LIST \subseteq Compiles

\* Between reloads the state manager and the collector agree on who may be
\* limited, also after a reload that one part refused: the collector's verdict
\* (IsLimited) and the state manager's filter are applied to the same users.
PartsAgree ==
    (\A t \in Loaders : pc[t] = "idle") =>
        Eligible(heap[smCfg]) = Eligible(heap[colCfg])

\* No line that sets a list and is not rewritten by a save comes after one that is:
\* neither the alias USER_WHITELIST nor a line with a blank before its "=".
RewrittenLast(lines) ==
    \A i, j \in 1..Len(lines) :
        /\ lines[i][1] \in RegexKeys /\ lines[j][1] \notin RegexKeys
        /\ lines[i][1] \in Fields(lines[j][1])
        => j < i

\* Neither the loader's stripping and splitting nor the environment changes the
\* lists, and no pattern came in unchecked.
ListsReadable(cfg) ==
    /\ \A key \in RegexKeys : cfg[key] \subseteq Compiles /\ ReadAs[cfg[key]] = cfg[key]
    /\ RegexKeys \cap DOMAIN env = {}

\* What a tool saves is what the next load will read: if the file could be loaded
\* before, it can be loaded after, with the lists that are in memory.  It is so
\* although the administrator edits and the daemon reloads during the save, but not
\* for every file and every list: RewrittenLast and ListsReadable name the ways in
\* which SaveToFile and the loader lose a list.
SavedListsReload ==
    /\ mcp.at = "rename"
    /\ RewrittenLast(mcp.read) /\ ListsReadable(heap[mcp.obj])
    /\ LoadAndValidate(mcp.read, env).ok
    => LET saved == LoadAndValidate(mcp.lines, env)
       IN  saved.ok /\ \A key \in RegexKeys : saved.cfg[key] = heap[mcp.obj][key]

\* handleConfigChange passes over a file whose time and size it remembers, so what
\* it remembers must be in force: whatever was edited, saved, truncated or removed
\* between its os.Stat and its end, which loads or parts of a reload failed, and
\* also after a save of the tools failed and the list was set back.  This is the
\* safety half of EditsTakeEffect: no edit is taken for a known one.  A list that the
\* tools save elsewhere is in force until the next reload and not in the file.
KnownFileInForce ==
    /\ \A t \in Loaders : pc[t] = "idle"
    /\ mcp.at = "idle" /\ file.there /\ file.stamp = last
    => Loaded.ok /\ heap[smCfg] = Loaded.cfg /\ heap[colCfg] = Loaded.cfg

\* The content of the file, if there is one that can be loaded, is what the state
\* manager and the collector run with.
FileInForce ==
    running /\ file.there /\ mcp.at = "idle" =>
        \A new \in {Loaded} :
            new.ok => heap[smCfg] = new.cfg /\ heap[colCfg] = new.cfg

\* "Automatic configuration reload on file changes": while the watcher runs, the
\* last content of the file, if it can be loaded at all, ends up in the state
\* manager and in the collector and stays there.  Edits may fall between os.Stat and
\* the load, between the load and the end of a reload, and into a save of the MCP
\* tools; an inotify watch may be lost.
EditsTakeEffect == <>[]FileInForce
=============================================================================
