------------------------------ MODULE PSIWatcher ------------------------------
(***************************************************************************)
(* cgroup.PSIWatcher: the table of monitored pressure files, the goroutine *)
(* that poll()s them, the pipe that wakes it and the bounded channel of    *)
(* events.  A key stands for a pair (uid, typ): System for uid 0, a member *)
(* of UserKeys for a file of a user's sub-cgroup.  The table only grows    *)
(* until Stop: RemoveMonitor marks an entry inactive and leaves it there.  *)
(* Reuse of a closed descriptor's number by the kernel is left out.        *)
(***************************************************************************)
EXTENDS Integers, Sequences, FiniteSets, FiniteSetsExt

CONSTANTS
    System,       \* the key of the system-wide pressure file
    UserKeys,     \* the keys of the users' pressure files
    QueueSize,    \* capacity of the event channel (64 in the code)
    WakeRead,     \* bytes one Read takes from the wake pipe (8 in the code)
    MaxMonitors   \* bound on the length of the table

ASSUME PSIWatcherAssumption ==
    /\ System \notin UserKeys
    /\ QueueSize \in Nat \ {0} /\ WakeRead \in Nat \ {0}
    /\ MaxMonitors \in Nat \ {0}

VARIABLES
    monitors,  \* the table: a sequence of [key, active]
    fired,     \* indices whose trigger went off and was not polled yet
    wake,      \* unread bytes in the wake pipe, counted up to WakeRead + 1
    done,      \* the channel done is closed
    polling,   \* where the poll goroutine is
    polled,    \* indices in the poll set while poll() waits
    ready,     \* indices that poll() reported and the round has to read
    queue      \* the channel of events

watcherVars == <<monitors, fired, wake, done, polling, polled, ready, queue>>
roundVars == <<polling, polled, ready>>

Keys == {System} \cup UserKeys

ActiveMonitors == {i \in DOMAIN monitors : monitors[i].active}

Monitored(k) == \E i \in ActiveMonitors : monitors[i].key = k

WatcherTypeOK ==
    /\ monitors \in Seq([key : Keys, active : BOOLEAN])
    /\ fired \subseteq DOMAIN monitors
    /\ wake \in 0 .. WakeRead + 1
    /\ done \in BOOLEAN
    /\ polling \in {"off", "top", "poll", "read", "ended"}
    /\ polled \subseteq 1 .. MaxMonitors /\ ready \subseteq 1 .. MaxMonitors
    /\ queue \in Seq(Keys) /\ Len(queue) <= QueueSize

\* NewPSIWatcher.
WatcherInit ==
    /\ monitors = <<>>
    /\ fired = {}
    /\ wake = 0
    /\ done = FALSE
    /\ polling = "off"
    /\ polled = {}
    /\ ready = {}
    /\ queue = <<>>

\* One byte more in the pipe.
Wake == wake' = Min({wake + 1, WakeRead + 1})

\* Mutant: the new file waits for the next event.
AddMonitorSilently(k) ==
    /\ ~Monitored(k)
    /\ Len(monitors) < MaxMonitors
    /\ monitors' = Append(monitors, [key |-> k, active |-> TRUE])
    /\ UNCHANGED <<fired, wake, done, queue>>
    /\ UNCHANGED roundVars

\* A file that is monitored already, or that cannot be opened or armed, changes
\* nothing: those returns are stuttering steps.
AddMonitor(k) ==
    /\ ~Monitored(k)
    /\ Len(monitors) < MaxMonitors
    /\ monitors' = Append(monitors, [key |-> k, active |-> TRUE])
    /\ Wake
    /\ UNCHANGED <<fired, done, queue>>
    /\ UNCHANGED roundVars

\* Closing the descriptor ends its trigger; the wake is written in any case.
RemoveMonitor(k) ==
    LET closed == {i \in ActiveMonitors : monitors[i].key = k}
    IN  /\ monitors' = [i \in DOMAIN monitors |->
                          IF i \in closed THEN [key |-> k, active |-> FALSE]
                          ELSE monitors[i]]
        /\ fired' = fired \ closed
        /\ Wake
        /\ UNCHANGED <<done, queue>>
        /\ UNCHANGED roundVars

\* The kernel reports a stall over the threshold of a monitored file.
Stall(i) ==
    /\ i \in ActiveMonitors
    /\ fired' = fired \cup {i}
    /\ UNCHANGED <<monitors, wake, done, queue>>
    /\ UNCHANGED roundVars

\* Head of pollLoop: leave when done is closed, else build the poll set.
BuildPollSet ==
    /\ polling = "top"
    /\ IF done
       THEN polling' = "ended" /\ UNCHANGED polled
       ELSE polling' = "poll" /\ polled' = ActiveMonitors
    /\ UNCHANGED <<monitors, fired, wake, done, ready, queue>>

\* poll() returns; what it reports it has consumed.  A wake-up is read first and
\* ends the goroutine when done is closed.
Poll ==
    /\ polling = "poll"
    /\ wake > 0 \/ fired \cap polled # {}
    /\ wake' = Max({0, wake - WakeRead})
    /\ IF wake > 0 /\ done
       THEN /\ polling' = "ended"
            /\ UNCHANGED <<fired, ready>>
       ELSE /\ polling' = "read"
            /\ ready' = fired \cap polled
            /\ fired' = fired \ polled
    /\ polled' = {}
    /\ UNCHANGED <<monitors, done, queue>>

\* poll() fails, as it does when a signal interrupts it.
PollFails ==
    /\ polling = "poll"
    /\ polling' = IF done THEN "ended" ELSE "top"
    /\ polled' = {}
    /\ UNCHANGED <<monitors, fired, wake, done, ready, queue>>

\* One reported file: skipped when it was removed in the meantime.  ReadAt(buffer,
\* 0) returns io.EOF with fewer than 4096 bytes, as every file of a current kernel
\* has, and the loop takes that for a failed read; only a file that fills the
\* buffer is sent, unless the channel is full (dropped) or done is closed (select
\* may take either case when both are ready).
ReadEvent ==
    /\ polling = "read"
    /\ ready # {}
    /\ LET i == Min(ready)
           gone == i \notin ActiveMonitors
           room == Len(queue) < QueueSize
       IN  \/ /\ ~gone /\ room
              /\ queue' = Append(queue, monitors[i].key)
              /\ ready' = ready \ {i}
              /\ UNCHANGED polling
           \/ /\ ~gone /\ done
              /\ polling' = "ended"
              /\ ready' = {}
              /\ UNCHANGED queue
           \/ /\ ready' = ready \ {i}
              /\ UNCHANGED <<polling, queue>>
    /\ UNCHANGED <<monitors, fired, wake, done, polled>>

\* Every reported file has been read: the next round.
EndRound ==
    /\ polling = "read"
    /\ ready = {}
    /\ polling' = "top"
    /\ UNCHANGED <<monitors, fired, wake, done, polled, ready, queue>>

PollRound == BuildPollSet \/ Poll \/ ReadEvent \/ EndRound

\* Start.
StartPolling == polling' = "top"

\* Mutant: Stop closes done and relies on the next event.
CloseDoneSilently ==
    /\ done' = TRUE
    /\ UNCHANGED <<monitors, fired, wake, queue>>
    /\ UNCHANGED roundVars

\* Stop, first part: close(done), then a wake-up under the lock.
CloseDone ==
    /\ done' = TRUE
    /\ Wake
    /\ UNCHANGED <<monitors, fired, queue>>
    /\ UNCHANGED roundVars

\* Stop, second part: wg.Wait(), then every file is closed and the table dropped.
DropMonitors ==
    /\ polling \in {"off", "ended"}
    /\ monitors' = <<>>
    /\ fired' = {}
    /\ UNCHANGED <<wake, done, queue>>
    /\ UNCHANGED roundVars

\* The poll set of a goroutine that blocks in poll() is the current one: a file
\* added or removed since the set was built has left a byte in the wake pipe
\* (no wake-up is lost, in whatever order AddMonitor, RemoveMonitor, Stop and
\* the rounds of pollLoop interleave).
PollSetIsFresh ==
    polling = "poll" /\ wake = 0 => polled = ActiveMonitors

\* Stop() never leaves the goroutine blocked: from the moment done is closed until
\* the goroutine ends, poll() has a byte of the wake pipe to return for, although
\* a round may have emptied the pipe just before.
StopWakesPoller ==
    done /\ polling = "poll" => wake > 0

===============================================================================
