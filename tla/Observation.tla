------------------------------ MODULE Observation ------------------------------
(***************************************************************************)
(* metrics.Collector and the Prometheus exporter: threads that scan the    *)
(* processes of the users, the TTL cache they share, configuration changes *)
(* that clear it, and the IO counters exported from what a scan has seen.  *)
(* The thread "loop" runs control cycles and refreshes (one at a time,     *)
(* under opMu); the Readers are MCP requests, which take no lock.  Of a     *)
(* sample are kept: its age, whether the filters it was made with are      *)
(* those of the current configuration, and the bytes each user's processes *)
(* have transferred.  Times are ages, so that the clock needs no bound.    *)
(* Left out: usernames as labels, CPU deltas per process, the EMA and the  *)
(* IO rate of the decision.                                                *)
(***************************************************************************)
EXTENDS Integers, FiniteSets, FiniteSetsExt

CONSTANTS
    Users,
    Readers,   \* threads of MCP requests
    TTL,       \* METRICS_CACHE_TTL
    ScanTime,  \* the longest a scan of /proc takes
    MaxBytes   \* bound on the bytes a user transfers

ASSUME ObservationAssumption ==
    /\ "loop" \notin Readers
    /\ TTL \in Nat /\ ScanTime \in Nat /\ MaxBytes \in Nat

VARIABLES
    bytes,     \* bytes each user has transferred
    live,      \* the part of them that living processes account for
    present,   \* users with processes
    clearing,  \* UpdateConfig has set the configuration and not cleared the cache
    all,       \* the cache entry all_user_metrics, or NoEntry
    derived,   \* an entry computed from it, such as limited_users, or NoEntry
    scan,      \* each thread's scan in progress, or NoScan
    deriving,  \* the sample from which each thread computes an entry, or NoEntry
    stage,     \* where the control cycle of the loop is
    answer,    \* history: what the collector has answered in the last step
    exported,  \* the counter of each user's series
    prev,      \* prevIOStats of each user
    accidents  \* history: what made the counters count bytes twice

worldVars == <<bytes, live, present>>
exportVars == <<exported, prev, accidents>>
vars == <<worldVars, clearing, all, derived, scan, deriving, stage, answer, exportVars>>

Threads == {"loop"} \cup Readers
EntryNames == {"all", "derived"}
NoEntry == [stored |-> TTL + 1]
NoScan == [age |-> ScanTime + 1]
NoAnswer == [entry |-> "none", age |-> 0, current |-> TRUE, late |-> {}]

\* Ages are counted up to one more than the oldest answer that may be given.
OldestAge == ScanTime + 2 * TTL + 1
Older(age) == Min({age + 1, OldestAge})

\* Counters are kept up to one more than a real one can reach.
MaxExported == MaxBytes + 1

\* What can have happened to a scan while it ran: the cache was cleared for a new
\* configuration, or another scan has ended.
Overtakings == {"config", "scan"}

\* A scan, and entries of the cache: a sample with the bytes of the users, and what
\* is computed from one.  A scan reads /proc/<pid>/io of one process after the
\* other; io holds what it has summed up and what the listed processes that it
\* still has to read account for at the moment, so that each process is read at
\* some moment of its own between the start and the end of the scan.
ScanRecords ==
    [age : 0 .. ScanTime, wants : EntryNames, late : SUBSET Overtakings,
     io : [Users -> 0 .. MaxBytes], seen : SUBSET Users]
Samples ==
    [stored : 0 .. TTL, age : 0 .. OldestAge, current : BOOLEAN,
     late : SUBSET Overtakings, io : [Users -> 0 .. MaxBytes], seen : SUBSET Users]
Extracts ==
    [stored : 0 .. TTL, age : 0 .. OldestAge, current : BOOLEAN,
     late : SUBSET Overtakings]

TypeOK ==
    /\ bytes \in [Users -> 0 .. MaxBytes] /\ live \in [Users -> 0 .. MaxBytes]
    /\ present \subseteq Users
    /\ clearing \in BOOLEAN
    /\ all \in {NoEntry} \cup Samples
    /\ derived \in {NoEntry} \cup Extracts
    /\ scan \in [Threads -> {NoScan} \cup ScanRecords]
    /\ deriving \in [Threads -> {NoEntry} \cup Extracts]
    /\ stage \in {"idle", "remediate"}
    /\ answer \in [entry : EntryNames \cup {"none"}, age : 0 .. OldestAge,
                   current : BOOLEAN, late : SUBSET Overtakings]
    /\ exported \in [Users -> 0 .. MaxExported] /\ prev \in [Users -> 0 .. MaxBytes]
    /\ accidents \subseteq {"older_sample", "other_source"}

Init ==
    /\ bytes = [u \in Users |-> 0] /\ live = [u \in Users |-> 0]
    /\ present = Users
    /\ clearing = FALSE
    /\ all = NoEntry /\ derived = NoEntry
    /\ scan = [t \in Threads |-> NoScan] /\ deriving = [t \in Threads |-> NoEntry]
    /\ stage = "idle"
    /\ answer = NoAnswer
    /\ exported = [u \in Users |-> 0] /\ prev = [u \in Users |-> 0]
    /\ accidents = {}

-------------------------------------------------------------------------------
(* The world: time and processes.                                          *)

Scanning(t) == scan[t] # NoScan
Deriving(t) == deriving[t] # NoEntry
Scanners == {t \in Threads : Scanning(t)}

\* An entry older than the TTL is never read again: getFromCache passes it over
\* until cleanupCache or the next setInCache removes it.
Aged(entry) ==
    IF entry = NoEntry \/ entry.stored = TTL THEN NoEntry
    ELSE [entry EXCEPT !.stored = @ + 1, !.age = Older(@)]

\* A scan ends within ScanTime; to derive an entry takes no time to speak of.
Tick ==
    /\ \A t \in Threads : ~Deriving(t)
    /\ \A t \in Threads : Scanning(t) => scan[t].age < ScanTime
    /\ all' = Aged(all)
    /\ derived' = Aged(derived)
    /\ scan' = [t \in Threads |->
                  IF Scanning(t) THEN [scan[t] EXCEPT !.age = @ + 1] ELSE NoScan]
    /\ answer' = NoAnswer
    /\ UNCHANGED <<worldVars, clearing, deriving, stage, exportVars>>

\* A process of u reads or writes; the scans in unread have it on their list and
\* come to it later.
Transfer(u, unread) ==
    /\ u \in present
    /\ bytes[u] < MaxBytes
    /\ \A t \in unread : u \in scan[t].seen
    /\ bytes' = [bytes EXCEPT ![u] = @ + 1]
    /\ live' = [live EXCEPT ![u] = @ + 1]
    /\ scan' = [t \in Threads |->
                  IF t \in unread THEN [scan[t] EXCEPT !.io[u] = @ + 1] ELSE scan[t]]
    /\ answer' = NoAnswer
    /\ UNCHANGED <<present, clearing, all, derived, deriving, stage, exportVars>>

\* Processes of u end, and what they transferred goes with them; rest is what the
\* others account for.  A scan loses the part lost[t] of it, of processes that it
\* had still to read, and does not see u at all (missed) when it came to none.
ProcessesExit(u, rest, last, lost, missed) ==
    /\ u \in present
    /\ last => rest = 0
    /\ \A t \in Threads :
          /\ lost[t] > 0 => Scanning(t) /\ lost[t] <= scan[t].io[u]
          /\ lost[t] <= live[u] - rest
          /\ t \in missed => lost[t] = scan[t].io[u]
    /\ live' = [live EXCEPT ![u] = rest]
    /\ present' = IF last THEN present \ {u} ELSE present
    /\ scan' = [t \in Threads |->
                  IF ~Scanning(t) THEN NoScan
                  ELSE [scan[t] EXCEPT !.io[u] = @ - lost[t],
                                       !.seen = IF t \in missed THEN @ \ {u} ELSE @]]
    /\ answer' = NoAnswer
    /\ UNCHANGED <<bytes, clearing, all, derived, deriving, stage, exportVars>>

Login(u) ==
    /\ u \notin present
    /\ present' = present \cup {u}
    /\ answer' = NoAnswer
    /\ UNCHANGED <<bytes, live, clearing, all, derived, scan, deriving, stage, exportVars>>

-------------------------------------------------------------------------------
(* Configuration.                                                          *)

\* Samples made with the filters of the configuration that has just been replaced.
Outdated(entry) ==
    IF entry = NoEntry THEN NoEntry ELSE [entry EXCEPT !.current = FALSE]

\* UpdateConfig, first part: the configuration is replaced under its lock.
SetConfig ==
    /\ ~clearing
    /\ clearing' = TRUE
    /\ all' = Outdated(all)
    /\ derived' = Outdated(derived)
    /\ deriving' = [t \in Threads |-> Outdated(deriving[t])]
    /\ answer' = NoAnswer
    /\ UNCHANGED <<worldVars, scan, stage, exportVars>>

\* Whoever scans now may have asked the old filters for the users it has converted
\* already, and whoever derives an entry works on a sample from before.
OvertakenByConfig ==
    /\ scan' = [t \in Threads |->
                  IF Scanning(t) THEN [scan[t] EXCEPT !.late = @ \cup {"config"}] ELSE NoScan]
    /\ deriving' = [t \in Threads |->
                      IF Deriving(t) THEN [deriving[t] EXCEPT !.late = @ \cup {"config"}]
                      ELSE NoEntry]

\* Mutant: only the sample is dropped, not what was derived from it.
ClearSampleOnly ==
    /\ clearing
    /\ clearing' = FALSE
    /\ all' = NoEntry
    /\ OvertakenByConfig
    /\ answer' = NoAnswer
    /\ UNCHANGED <<worldVars, derived, stage, exportVars>>

\* UpdateConfig, second part.
ClearCache ==
    /\ clearing
    /\ clearing' = FALSE
    /\ all' = NoEntry /\ derived' = NoEntry
    /\ OvertakenByConfig
    /\ answer' = NoAnswer
    /\ UNCHANGED <<worldVars, stage, exportVars>>

-------------------------------------------------------------------------------
(* The exporter.                                                           *)

\* updatePrometheusMetrics: the bytes of the processes, or those of the cgroup
\* when the processes show none and the cgroup does.
OtherSource(sample, cgroup, u) == sample.io[u] = 0 /\ cgroup[u] > 0

ExportedBytes(sample, cgroup, u) ==
    IF OtherSource(sample, cgroup, u) THEN cgroup[u] ELSE sample.io[u]

\* Mutant: a drop is taken for a restart of the source.
AddedAfterReset(old, value) == IF value >= old THEN value - old ELSE value

\* UpdateUserMetrics: a counter takes the difference to the previous value, and
\* nothing when the value has dropped.
Added(old, value) == IF value >= old THEN value - old ELSE 0

\* One export: UpdateUserMetrics for the users of the sample, then
\* CleanupUserMetrics, which deletes the series of all others together with the
\* values their next deltas would be taken from.
Export(sample, cgroup) ==
    /\ exported' = [u \in Users |->
                      IF u \in sample.seen
                      THEN Min({exported[u] + Added(prev[u], ExportedBytes(sample, cgroup, u)),
                                MaxExported})
                      ELSE 0]
    /\ prev' = [u \in Users |->
                  IF u \in sample.seen THEN ExportedBytes(sample, cgroup, u) ELSE 0]
    /\ accidents' = accidents
         \cup {a \in {"older_sample"} : "scan" \in sample.late}
         \cup {a \in {"other_source"} : \E u \in sample.seen : OtherSource(sample, cgroup, u)}

\* io.stat of the users' cgroups: nothing for a user without one, else at most
\* what was transferred, as it counts from the move into the cgroup.
IOStats == {stats \in [Users -> 0 .. MaxBytes] : \A u \in Users : stats[u] <= bytes[u]}

-------------------------------------------------------------------------------
(* The collector.                                                          *)

\* getFromCache.
Valid(entry) == entry # NoEntry

\* The loop asks GetAllUserMetrics for the metrics of a cycle or a refresh, and
\* GetLimitedUsers when a cycle comes to the IO remediation.
MayAsk(t, e) ==
    /\ ~Scanning(t) /\ ~Deriving(t)
    /\ t = "loop" => e = IF stage = "idle" THEN "all" ELSE "derived"

\* The answer; with the sample of a cycle or refresh the loop goes on to export
\* it, and a refresh ends there.
Deliver(t, e, entry) ==
    /\ answer' = [entry |-> e, age |-> entry.age, current |-> entry.current,
                  late |-> entry.late]
    /\ IF t = "loop" /\ e = "all" THEN \E cgroup \in IOStats : Export(entry, cgroup)
       ELSE UNCHANGED exportVars
    /\ stage' \in IF t = "loop" /\ e = "all" THEN {"idle", "remediate"}
                  ELSE IF t = "loop" THEN {"idle"} ELSE {stage}

WithoutBytes(entry) ==
    [stored |-> 0, age |-> entry.age, current |-> entry.current,
     late |-> entry.late \cap {"config"}]

\* Mutant: a hit renews the entry.
AnswerAndRenew(t, e) ==
    /\ MayAsk(t, e)
    /\ Valid(IF e = "all" THEN all ELSE derived)
    /\ Deliver(t, e, IF e = "all" THEN all ELSE derived)
    /\ all' = IF e = "all" THEN [all EXCEPT !.stored = 0] ELSE all
    /\ derived' = IF e = "derived" THEN [derived EXCEPT !.stored = 0] ELSE derived
    /\ UNCHANGED <<worldVars, clearing, scan, deriving>>

\* GetAllUserMetrics, or a getter derived from it, finds its entry.
AnswerFromCache(t, e) ==
    /\ MayAsk(t, e)
    /\ Valid(IF e = "all" THEN all ELSE derived)
    /\ Deliver(t, e, IF e = "all" THEN all ELSE derived)
    /\ UNCHANGED <<worldVars, clearing, all, derived, scan, deriving>>

\* GetLimitedUsers, GetAllUsersCPUUsage and the other derived getters start from a
\* valid sample of all users ...
StartDerive(t) ==
    /\ MayAsk(t, "derived")
    /\ ~Valid(derived) /\ Valid(all)
    /\ deriving' = [deriving EXCEPT ![t] = WithoutBytes(all)]
    /\ answer' = NoAnswer
    /\ UNCHANGED <<worldVars, clearing, all, derived, scan, stage, exportVars>>

\* ... and store what they compute with a time stamp of its own.
EndDerive(t) ==
    /\ Deriving(t)
    /\ derived' = deriving[t]
    /\ Deliver(t, "derived", deriving[t])
    /\ deriving' = [deriving EXCEPT ![t] = NoEntry]
    /\ UNCHANGED <<worldVars, clearing, all, scan>>

\* No entry that could answer is valid: the processes are listed, and read from now
\* on (Transfer and ProcessesExit change what the scan will find).
StartScan(t, e) ==
    /\ MayAsk(t, e)
    /\ ~Valid(all)
    /\ e = "derived" => ~Valid(derived)
    /\ scan' = [scan EXCEPT ![t] =
                  [age |-> 0, wants |-> e, late |-> {}, io |-> live, seen |-> present]]
    /\ answer' = NoAnswer
    /\ UNCHANGED <<worldVars, clearing, all, derived, deriving, stage, exportVars>>

\* The filters are asked and the sample is stored; the /proc fallback, taken when
\* gopsutil fails, stores no sample.  A derived getter goes on to compute its entry.
\* The other scans in progress are overtaken: whichever began first, each may have
\* read a process before this one did.
EndScan(t, fallback) ==
    /\ Scanning(t)
    /\ LET sample == [stored |-> 0, age |-> scan[t].age, late |-> scan[t].late,
                      current |-> ("config" \notin scan[t].late),
                      io |-> scan[t].io, seen |-> scan[t].seen]
       IN  /\ all' = IF fallback THEN all ELSE sample
           /\ IF scan[t].wants = "all"
              THEN Deliver(t, "all", sample) /\ UNCHANGED deriving
              ELSE /\ deriving' = [deriving EXCEPT ![t] = WithoutBytes(sample)]
                   /\ answer' = NoAnswer
                   /\ UNCHANGED <<stage, exportVars>>
    /\ scan' = [s \in Threads |->
                  IF s = t \/ ~Scanning(s) THEN NoScan
                  ELSE [scan[s] EXCEPT !.late = @ \cup {"scan"}]]
    /\ UNCHANGED <<worldVars, clearing, derived>>

-------------------------------------------------------------------------------

Next ==
    \/ Tick
    \/ \E u \in Users : Login(u)
    \/ \E u \in Users, unread \in SUBSET Scanners : Transfer(u, unread)
    \/ \E u \in Users, last \in BOOLEAN, missed \in SUBSET Scanners :
          \E rest \in 0 .. live[u], lost \in [Threads -> 0 .. live[u]] :
             ProcessesExit(u, rest, last, lost, missed)
    \/ SetConfig
    \/ ClearCache
    \/ \E t \in Threads, e \in EntryNames : AnswerFromCache(t, e) \/ StartScan(t, e)
    \/ \E t \in Threads : StartDerive(t) \/ EndDerive(t)
    \/ \E t \in Threads, fallback \in BOOLEAN : EndScan(t, fallback)

Spec == Init /\ [][Next]_vars

-------------------------------------------------------------------------------
(* Properties.                                                             *)

\* No answer of the collector is older than its caches allow: the processes were
\* read at most TTL and one scan ago, for what is derived from a cached sample
\* twice the TTL and one scan ago, whichever threads fill and read the cache.
AnswersAreFresh ==
    answer.age <= ScanTime + (IF answer.entry = "derived" THEN 2 * TTL ELSE TTL)

\* After UpdateConfig has returned no answer applies the filters it has replaced,
\* except one that stems from a scan or a derivation under way at that moment.
StaleOnlyByOverlap ==
    [][~clearing /\ ~answer'.current => "config" \in answer'.late]_vars

\* An IO counter of Prometheus never shows more than the user's processes have
\* transferred, although a scan reads each process at a moment of its own, samples
\* come from a cache, processes end and users come and go.  The two exceptions: the
\* exported sample is of a scan during which another one has ended, so that it may
\* hold older bytes than what was exported before; and a change from the processes'
\* bytes to the cgroup's.
ExportedIOIsReal ==
    accidents = {} => \A u \in Users : exported[u] <= bytes[u]

================================================================================
