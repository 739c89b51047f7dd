------------------------ MODULE Observation_proofs ------------------------
(***************************************************************************)
(* Theorems about Observation, for every set of users and of MCP requests, *)
(* every TTL, scan time and number of bytes.                               *)
(***************************************************************************)
EXTENDS Observation, TLAPS

-----------------------------------------------------------------------------
(* Entries of the cache and scans.                                         *)

Cached == {NoEntry} \cup Samples
Derived == {NoEntry} \cup Extracts
Scans == {NoScan} \cup ScanRecords

\* The smaller of two numbers.
LEMMA MinOfTwo ==
    ASSUME NEW m \in Int, NEW n \in Int
    PROVE  Min({m, n}) = IF m <= n THEN m ELSE n
BY DEF Min

\* An entry that exists differs from the entry that does not.
LEMMA EntriesExist ==
    /\ \A e \in Samples \cup Extracts : e # NoEntry
    /\ \A s \in ScanRecords : s # NoScan
<1>1. TTL \in Nat /\ ScanTime \in Nat
  BY ObservationAssumption
<1>2. ASSUME NEW e \in Samples \cup Extracts
      PROVE  e # NoEntry
  <2>1. e.stored \in 0 .. TTL
    BY DEF Samples, Extracts
  <2>2. NoEntry.stored = TTL + 1
    BY DEF NoEntry
  <2>3. QED
    BY <1>1, <2>1, <2>2
<1>3. ASSUME NEW s \in ScanRecords
      PROVE  s # NoScan
  <2>1. s.age \in 0 .. ScanTime
    BY DEF ScanRecords
  <2>2. NoScan.age = ScanTime + 1
    BY DEF NoScan
  <2>3. QED
    BY <1>1, <2>1, <2>2
<1>4. QED
  BY <1>2, <1>3

\* A tick makes ages one older, up to the cap.
LEMMA OlderByOne ==
    ASSUME NEW age \in 0 .. OldestAge
    PROVE  Older(age) \in 0 .. OldestAge /\ Older(age) <= age + 1
<1>1. OldestAge \in Nat
  BY ObservationAssumption DEF OldestAge
<1>2. QED
  BY <1>1, MinOfTwo DEF Older

\* A tick drops an entry whose TTL is over and makes any other one older.
LEMMA AgedSample ==
    ASSUME NEW e \in Samples
    PROVE  \/ Aged(e) = NoEntry
           \/ /\ Aged(e) \in Samples
              /\ Aged(e).stored = e.stored + 1 /\ Aged(e).age <= e.age + 1
              /\ Aged(e).current = e.current /\ Aged(e).late = e.late
              /\ Aged(e).io = e.io /\ Aged(e).seen = e.seen
<1>1. CASE e.stored = TTL
  BY <1>1 DEF Aged
<1>2. CASE e.stored # TTL
  <2>1. Aged(e) = [stored |-> e.stored + 1, age |-> Older(e.age), current |-> e.current,
                   late |-> e.late, io |-> e.io, seen |-> e.seen]
    BY <1>2, EntriesExist DEF Aged, Samples
  <2>2. e.stored + 1 \in 0 .. TTL
    BY <1>2, ObservationAssumption DEF Samples
  <2>3. Older(e.age) \in 0 .. OldestAge /\ Older(e.age) <= e.age + 1
    BY OlderByOne DEF Samples
  <2>4. QED
    BY <2>1, <2>2, <2>3 DEF Samples
<1>3. QED
  BY <1>1, <1>2

\* The same for an entry computed from a sample.
LEMMA AgedExtract ==
    ASSUME NEW e \in Extracts
    PROVE  \/ Aged(e) = NoEntry
           \/ /\ Aged(e) \in Extracts
              /\ Aged(e).stored = e.stored + 1 /\ Aged(e).age <= e.age + 1
              /\ Aged(e).current = e.current /\ Aged(e).late = e.late
<1>1. CASE e.stored = TTL
  BY <1>1 DEF Aged
<1>2. CASE e.stored # TTL
  <2>1. Aged(e) = [stored |-> e.stored + 1, age |-> Older(e.age), current |-> e.current,
                   late |-> e.late]
    BY <1>2, EntriesExist DEF Aged, Extracts
  <2>2. e.stored + 1 \in 0 .. TTL
    BY <1>2, ObservationAssumption DEF Extracts
  <2>3. Older(e.age) \in 0 .. OldestAge /\ Older(e.age) <= e.age + 1
    BY OlderByOne DEF Extracts
  <2>4. QED
    BY <2>1, <2>2, <2>3 DEF Extracts
<1>3. QED
  BY <1>1, <1>2

\* A change of the configuration only marks an entry as made before.
LEMMA OutdatedSample ==
    ASSUME NEW e \in Samples
    PROVE  /\ Outdated(e) \in Samples /\ ~Outdated(e).current
           /\ Outdated(e).stored = e.stored /\ Outdated(e).age = e.age
           /\ Outdated(e).late = e.late /\ Outdated(e).io = e.io
BY EntriesExist DEF Outdated, Samples

\* The same for an entry computed from a sample.
LEMMA OutdatedExtract ==
    ASSUME NEW e \in Extracts
    PROVE  /\ Outdated(e) \in Extracts /\ ~Outdated(e).current
           /\ Outdated(e).stored = e.stored /\ Outdated(e).age = e.age
BY EntriesExist DEF Outdated, Extracts

\* What is computed from a sample is new in the cache and as old as the sample.
LEMMA ExtractOfSample ==
    ASSUME NEW e \in Samples
    PROVE  /\ WithoutBytes(e) \in Extracts
           /\ WithoutBytes(e).stored = 0 /\ WithoutBytes(e).age = e.age
           /\ WithoutBytes(e).current = e.current
           /\ WithoutBytes(e).late = e.late \cap {"config"}
BY ObservationAssumption DEF WithoutBytes, Samples, Extracts

\* The sample a scan ends with.
SampleOf(t) ==
    [stored |-> 0, age |-> scan[t].age, late |-> scan[t].late,
     current |-> ("config" \notin scan[t].late),
     io |-> scan[t].io, seen |-> scan[t].seen]

\* It is a sample.
LEMMA SampleOfScan ==
    ASSUME NEW t \in Threads, scan[t] \in ScanRecords
    PROVE  SampleOf(t) \in Samples
<1>1. scan[t].age \in 0 .. OldestAge /\ 0 \in 0 .. TTL
  BY ObservationAssumption DEF ScanRecords, OldestAge
<1>2. QED
  BY <1>1 DEF SampleOf, Samples, ScanRecords

\* The end of a scan in terms of that sample, which replaces the cached one unless
\* the fallback was taken.
LEMMA ScanEnds ==
    ASSUME NEW t \in Threads, NEW fallback \in BOOLEAN, EndScan(t, fallback)
    PROVE  /\ all' = IF fallback THEN all ELSE SampleOf(t)
           /\ scan[t].wants = "all" => Deliver(t, "all", SampleOf(t)) /\ UNCHANGED deriving
           /\ scan[t].wants # "all" =>
                /\ deriving' = [deriving EXCEPT ![t] = WithoutBytes(SampleOf(t))]
                /\ answer' = NoAnswer
                /\ UNCHANGED <<stage, exportVars>>
           /\ UNCHANGED <<worldVars, clearing, derived>>
<1>1. SampleOf(t) = [stored |-> 0, age |-> scan[t].age, late |-> scan[t].late,
                     current |-> ("config" \notin scan[t].late),
                     io |-> scan[t].io, seen |-> scan[t].seen]
  BY DEF SampleOf
<1>2. QED
  BY <1>1 DEF EndScan, Valid

\* The other scans are overtaken.
LEMMA ScansOvertaken ==
    ASSUME NEW t \in Threads, NEW fallback \in BOOLEAN, EndScan(t, fallback)
    PROVE  scan' = [s \in Threads |->
                      IF s = t \/ ~Scanning(s) THEN NoScan
                      ELSE [scan[s] EXCEPT !.late = @ \cup {"scan"}]]
BY DEF EndScan

\* An answer and, in the loop, its export.
LEMMA DeliveredTypes ==
    ASSUME TypeOK, NEW t \in Threads, NEW e \in EntryNames,
           NEW entry \in Samples \cup Extracts, e = "all" => entry \in Samples,
           Deliver(t, e, entry)
    PROVE  /\ answer' \in [entry : EntryNames \cup {"none"}, age : 0 .. OldestAge,
                            current : BOOLEAN, late : SUBSET Overtakings]
           /\ stage' \in {"idle", "remediate"}
           /\ exported' \in [Users -> 0 .. MaxExported]
           /\ prev' \in [Users -> 0 .. MaxBytes]
           /\ accidents' \subseteq {"older_sample", "other_source"}
<1> USE DEF Deliver
<1>1. answer' \in [entry : EntryNames \cup {"none"}, age : 0 .. OldestAge,
                   current : BOOLEAN, late : SUBSET Overtakings]
  BY DEF Samples, Extracts
<1>2. stage' \in {"idle", "remediate"}
  BY DEF TypeOK
<1>3. CASE t = "loop" /\ e = "all"
  <2>1. PICK cgroup \in IOStats : Export(entry, cgroup)
    BY <1>3
  <2>2. cgroup \in [Users -> 0 .. MaxBytes] /\ entry.io \in [Users -> 0 .. MaxBytes]
    BY <1>3 DEF IOStats, Samples
  <2>3. \A u \in Users : ExportedBytes(entry, cgroup, u) \in 0 .. MaxBytes
    BY <2>2 DEF ExportedBytes
  <2>4. prev' \in [Users -> 0 .. MaxBytes]
    BY <2>1, <2>3, ObservationAssumption DEF Export
  <2>5. ASSUME NEW u \in Users
        PROVE  Min({exported[u] + Added(prev[u], ExportedBytes(entry, cgroup, u)),
                    MaxExported}) \in 0 .. MaxExported
    <3>1. /\ exported[u] \in 0 .. MaxExported /\ prev[u] \in 0 .. MaxBytes
          /\ MaxBytes \in Nat /\ MaxExported \in Nat
      BY ObservationAssumption DEF TypeOK, MaxExported
    <3>2. Added(prev[u], ExportedBytes(entry, cgroup, u)) \in Nat
      BY <2>3, <3>1 DEF Added
    <3>3. QED
      BY <3>1, <3>2, MinOfTwo
  <2>6. exported' \in [Users -> 0 .. MaxExported]
    BY <2>1, <2>5, ObservationAssumption DEF Export, MaxExported
  <2>7. accidents' \subseteq {"older_sample", "other_source"}
    BY <2>1 DEF Export, TypeOK
  <2>8. QED
    BY <1>1, <1>2, <2>4, <2>6, <2>7
<1>4. CASE ~(t = "loop" /\ e = "all")
  BY <1>1, <1>2, <1>4 DEF TypeOK, exportVars
<1>5. QED
  BY <1>3, <1>4

\* What may happen to a scan of another thread while it runs.
LEMMA ScanRecordKept ==
    ASSUME NEW s \in ScanRecords, NEW x \in Overtakings
    PROVE  /\ [s EXCEPT !.late = @ \cup {x}] \in ScanRecords
           /\ s.age < ScanTime => [s EXCEPT !.age = @ + 1] \in ScanRecords
BY ObservationAssumption DEF ScanRecords

-----------------------------------------------------------------------------
(* Type correctness.                                                       *)

NoAnswerTyped == NoAnswer \in [entry : EntryNames \cup {"none"}, age : 0 .. OldestAge,
                                current : BOOLEAN, late : SUBSET Overtakings]

\* No answer is an answer of the right type.
LEMMA NoAnswerType == NoAnswerTyped
<1>1. 0 \in 0 .. OldestAge
  BY ObservationAssumption DEF OldestAge
<1>2. QED
  BY <1>1 DEF NoAnswerTyped, NoAnswer

\* What living processes account for, and what a scan in progress finds, is part of
\* what was transferred.
LiveIsPart ==
    \A u \in Users :
      /\ live[u] <= bytes[u]
      /\ \A t \in Threads : Scanning(t) => scan[t].io[u] <= bytes[u]

-----------------------------------------------------------------------------
(* Scans in progress.                                                      *)

\* A tick and the clearing of the cache leave what the scans find, and which of them
\* were overtaken by another.
LEMMA ScansKept ==
    ASSUME TypeOK, Tick \/ ClearCache, NEW t \in Threads
    PROVE  /\ Scanning(t)' <=> Scanning(t)
           /\ Scanning(t) =>
                /\ scan'[t].io = scan[t].io
                /\ "scan" \in scan'[t].late <=> "scan" \in scan[t].late
<1>1. CASE ~Scanning(t)
  BY <1>1 DEF TypeOK, Tick, ClearCache, OvertakenByConfig, Scanning
<1>2. CASE Scanning(t)
  <2>1. scan[t] \in ScanRecords
    BY <1>2 DEF TypeOK, Scanning
  <2>2. CASE Tick
    <3>1. scan'[t] = [scan[t] EXCEPT !.age = @ + 1] /\ scan[t].age < ScanTime
      BY <1>2, <2>2 DEF Tick
    <3>2. scan'[t] \in ScanRecords
      BY <2>1, <3>1, ScanRecordKept DEF Overtakings
    <3>3. QED
      BY <1>2, <2>1, <3>1, <3>2, EntriesExist DEF Scanning, ScanRecords
  <2>3. CASE ClearCache
    <3>1. scan'[t] = [scan[t] EXCEPT !.late = @ \cup {"config"}]
      BY <1>2, <2>3 DEF ClearCache, OvertakenByConfig
    <3>2. scan'[t] \in ScanRecords
      BY <2>1, <3>1, ScanRecordKept DEF Overtakings
    <3>3. QED
      BY <1>2, <2>1, <3>1, <3>2, EntriesExist DEF Scanning, ScanRecords
  <2>4. QED
    BY <2>2, <2>3
<1>3. QED
  BY <1>1, <1>2

\* What is left of the other scans when one ends.
LEMMA ScansLeft ==
    ASSUME TypeOK, NEW t \in Threads, NEW fallback \in BOOLEAN,
           EndScan(t, fallback), NEW s \in Threads
    PROVE  /\ Scanning(t) /\ ~Scanning(t)'
           /\ Scanning(s)' <=> Scanning(s) /\ s # t
           /\ Scanning(s)' => scan'[s].io = scan[s].io /\ "scan" \in scan'[s].late
<1>1. Scanning(t)
  BY DEF EndScan
<1>2. scan'[t] = NoScan
  BY ScansOvertaken
<1>3. CASE s = t \/ ~Scanning(s)
  BY <1>1, <1>2, <1>3, ScansOvertaken DEF Scanning
<1>4. CASE s # t /\ Scanning(s)
  <2>1. scan[s] \in ScanRecords
    BY <1>4 DEF TypeOK, Scanning
  <2>2. scan'[s] = [scan[s] EXCEPT !.late = @ \cup {"scan"}]
    BY <1>4, ScansOvertaken
  <2>3. scan'[s] \in ScanRecords
    BY <2>1, <2>2, ScanRecordKept DEF Overtakings
  <2>4. scan'[s].io = scan[s].io /\ "scan" \in scan'[s].late
    BY <2>1, <2>2 DEF ScanRecords
  <2>5. QED
    BY <1>1, <1>2, <1>4, <2>3, <2>4, EntriesExist DEF Scanning
<1>5. QED
  BY <1>3, <1>4

\* What a scan that starts has to read.
LEMMA ScanBegins ==
    ASSUME TypeOK, NEW t \in Threads, NEW e \in EntryNames, StartScan(t, e)
    PROVE  /\ ~Scanning(t) /\ Scanning(t)' /\ scan'[t].io = live /\ scan'[t].late = {}
           /\ \A s \in Threads : s # t => scan'[s] = scan[s] /\ (Scanning(s)' <=> Scanning(s))
<1>1. ~Scanning(t)
  BY DEF StartScan, MayAsk
<1>2. scan'[t] = [age |-> 0, wants |-> e, late |-> {}, io |-> live, seen |-> present]
  BY DEF StartScan, TypeOK
<1>3. scan'[t] \in ScanRecords
  BY <1>2, ObservationAssumption DEF ScanRecords, TypeOK
<1>4. \A s \in Threads : s # t => scan'[s] = scan[s]
  BY DEF StartScan, TypeOK
<1>5. QED
  BY <1>1, <1>2, <1>3, <1>4, EntriesExist DEF Scanning

\* Bytes transferred by a process that a scan has still to read are found by it.
LEMMA TransferReads ==
    ASSUME TypeOK, LiveIsPart, NEW u \in Users, NEW unread \in SUBSET Scanners,
           Transfer(u, unread)
    PROVE  /\ scan' \in [Threads -> Scans]
           /\ \A t \in Threads :
                /\ Scanning(t)' <=> Scanning(t)
                /\ Scanning(t) =>
                     /\ scan'[t].late = scan[t].late
                     /\ scan'[t].io = IF t \in unread THEN [scan[t].io EXCEPT ![u] = @ + 1]
                                      ELSE scan[t].io
<1>1. scan' = [t \in Threads |->
                 IF t \in unread THEN [scan[t] EXCEPT !.io[u] = @ + 1] ELSE scan[t]]
  BY DEF Transfer
<1>2. \A t \in Threads : scan[t] \in Scans
  BY DEF TypeOK, Scans
<1>3. ASSUME NEW t \in Threads
      PROVE  /\ scan'[t] \in Scans
             /\ Scanning(t)' <=> Scanning(t)
             /\ Scanning(t) =>
                  /\ scan'[t].late = scan[t].late
                  /\ scan'[t].io = IF t \in unread THEN [scan[t].io EXCEPT ![u] = @ + 1]
                                   ELSE scan[t].io
  <2>1. CASE t \notin unread
    BY <1>1, <1>2, <2>1 DEF Scanning
  <2>2. CASE t \in unread
    <3>1. Scanning(t) /\ scan[t] \in ScanRecords
      BY <1>2, <2>2 DEF Scanners, Scanning, Scans
    <3>2. scan[t].io[u] + 1 \in 0 .. MaxBytes
      <4>1. scan[t].io[u] <= bytes[u] /\ bytes[u] < MaxBytes
        BY <3>1 DEF LiveIsPart, Transfer
      <4>2. scan[t].io[u] \in 0 .. MaxBytes /\ bytes[u] \in 0 .. MaxBytes
        BY <3>1 DEF ScanRecords, TypeOK
      <4>3. QED
        BY <4>1, <4>2, ObservationAssumption
    <3>3. scan'[t] = [age |-> scan[t].age, wants |-> scan[t].wants, late |-> scan[t].late,
                      io |-> [scan[t].io EXCEPT ![u] = scan[t].io[u] + 1],
                      seen |-> scan[t].seen]
      BY <1>1, <2>2, <3>1 DEF ScanRecords
    <3>4. [scan[t].io EXCEPT ![u] = scan[t].io[u] + 1] \in [Users -> 0 .. MaxBytes]
      BY <3>1, <3>2 DEF ScanRecords
    <3>5. /\ scan'[t] \in ScanRecords /\ scan'[t].late = scan[t].late
          /\ scan'[t].io = [scan[t].io EXCEPT ![u] = @ + 1]
      BY <3>1, <3>3, <3>4 DEF ScanRecords
    <3>6. QED
      BY <2>2, <3>1, <3>5, EntriesExist DEF Scanning, Scans
  <2>3. QED
    BY <2>1, <2>2
<1>4. QED
  BY <1>1, <1>3

\* A scan does not find the bytes of processes that end before it reads them.
LEMMA ExitReads ==
    ASSUME TypeOK, NEW u \in Users, NEW last \in BOOLEAN, NEW missed \in SUBSET Scanners,
           NEW rest \in 0 .. live[u], NEW lost \in [Threads -> 0 .. live[u]],
           ProcessesExit(u, rest, last, lost, missed)
    PROVE  /\ scan' \in [Threads -> Scans]
           /\ \A t \in Threads :
                /\ Scanning(t)' <=> Scanning(t)
                /\ Scanning(t) =>
                     /\ scan'[t].late = scan[t].late
                     /\ lost[t] \in Nat /\ lost[t] <= scan[t].io[u]
                     /\ lost[t] <= live[u] - rest
                     /\ scan'[t].io = [scan[t].io EXCEPT ![u] = @ - lost[t]]
<1>1. scan' = [t \in Threads |->
                 IF ~Scanning(t) THEN NoScan
                 ELSE [scan[t] EXCEPT !.io[u] = @ - lost[t],
                                      !.seen = IF t \in missed THEN @ \ {u} ELSE @]]
  BY DEF ProcessesExit
<1>2. ASSUME NEW t \in Threads
      PROVE  /\ scan'[t] \in Scans
             /\ Scanning(t)' <=> Scanning(t)
             /\ Scanning(t) =>
                  /\ scan'[t].late = scan[t].late
                  /\ lost[t] \in Nat /\ lost[t] <= scan[t].io[u]
                  /\ lost[t] <= live[u] - rest
                  /\ scan'[t].io = [scan[t].io EXCEPT ![u] = @ - lost[t]]
  <2>1. CASE ~Scanning(t)
    BY <1>1, <2>1 DEF Scanning, Scans
  <2>2. CASE Scanning(t)
    <3>1. scan[t] \in ScanRecords
      BY <2>2 DEF Scanning, TypeOK
    <3>2. live[u] \in 0 .. MaxBytes /\ MaxBytes \in Nat /\ scan[t].io[u] \in 0 .. MaxBytes
      BY <3>1, ObservationAssumption DEF ScanRecords, TypeOK
    <3>3. lost[t] \in 0 .. live[u]
      OBVIOUS
    <3>4. lost[t] > 0 => lost[t] <= scan[t].io[u]
      BY DEF ProcessesExit
    <3>5. lost[t] \in Nat /\ lost[t] <= scan[t].io[u] /\ scan[t].io[u] - lost[t] \in 0 .. MaxBytes
      BY <3>2, <3>3, <3>4
    <3>6. lost[t] <= live[u] - rest
      BY DEF ProcessesExit
    <3>7. scan'[t] = [age |-> scan[t].age, wants |-> scan[t].wants, late |-> scan[t].late,
                      io |-> [scan[t].io EXCEPT ![u] = scan[t].io[u] - lost[t]],
                      seen |-> IF t \in missed THEN scan[t].seen \ {u} ELSE scan[t].seen]
      BY <1>1, <2>2, <3>1 DEF ScanRecords
    <3>8. [scan[t].io EXCEPT ![u] = scan[t].io[u] - lost[t]] \in [Users -> 0 .. MaxBytes]
      BY <3>1, <3>5 DEF ScanRecords
    <3>9. /\ scan'[t] \in ScanRecords /\ scan'[t].late = scan[t].late
          /\ scan'[t].io = [scan[t].io EXCEPT ![u] = @ - lost[t]]
      BY <3>1, <3>7, <3>8 DEF ScanRecords
    <3>10. QED
      BY <2>2, <3>5, <3>6, <3>9, EntriesExist DEF Scanning, Scans
  <2>3. QED
    BY <2>1, <2>2
<1>3. QED
  BY <1>1, <1>2

-----------------------------------------------------------------------------
(* Type correctness, continued.                                            *)

\* One step keeps what scans find within what was transferred.
LEMMA LiveStep ==
    ASSUME TypeOK, LiveIsPart, [Next]_vars
    PROVE  LiveIsPart'
<1>1. ASSUME NEW v \in Users, NEW unread \in SUBSET Scanners, Transfer(v, unread)
      PROVE  LiveIsPart'
  <2>1. bytes' = [bytes EXCEPT ![v] = @ + 1] /\ live' = [live EXCEPT ![v] = @ + 1]
    BY <1>1 DEF Transfer
  <2>2. ASSUME NEW u \in Users
        PROVE  /\ live'[u] <= bytes'[u] /\ bytes[u] <= bytes'[u]
               /\ u = v => bytes'[u] = bytes[u] + 1
    BY <2>1, ObservationAssumption DEF TypeOK, LiveIsPart
  <2>3. ASSUME NEW u \in Users, NEW t \in Threads, Scanning(t)'
        PROVE  scan'[t].io[u] <= bytes'[u]
    <3>1. Scanning(t)
      BY <1>1, <2>3, TransferReads
    <3>2. scan[t].io[u] <= bytes[u] /\ scan[t] \in ScanRecords
      BY <3>1 DEF LiveIsPart, TypeOK, Scanning
    <3>3. scan[t].io \in [Users -> 0 .. MaxBytes] /\ bytes[u] \in Int /\ bytes'[u] \in Int
      BY <2>1, <3>2, ObservationAssumption DEF TypeOK, ScanRecords
    <3>4. scan'[t].io = scan[t].io \/ scan'[t].io = [scan[t].io EXCEPT ![v] = @ + 1]
      BY <1>1, <3>1, TransferReads
    <3>5. scan[t].io[u] \in Int
      BY <3>3, ObservationAssumption
    <3>6. scan'[t].io[u] = scan[t].io[u] \/ (u = v /\ scan'[t].io[u] = scan[t].io[u] + 1)
      BY <3>3, <3>4
    <3>7. QED
      BY <2>2, <3>3, <3>5, <3>6, <3>2
  <2>4. QED
    BY <2>2, <2>3 DEF LiveIsPart
<1>2. ASSUME NEW v \in Users, NEW last \in BOOLEAN, NEW missed \in SUBSET Scanners,
             NEW rest \in 0 .. live[v], NEW lost \in [Threads -> 0 .. live[v]],
             ProcessesExit(v, rest, last, lost, missed)
      PROVE  LiveIsPart'
  <2>1. bytes' = bytes /\ live' = [live EXCEPT ![v] = rest]
    BY <1>2 DEF ProcessesExit
  <2>2. ASSUME NEW u \in Users
        PROVE  live'[u] <= bytes'[u]
    BY <2>1, ObservationAssumption DEF TypeOK, LiveIsPart
  <2>3. ASSUME NEW u \in Users, NEW t \in Threads, Scanning(t)'
        PROVE  scan'[t].io[u] <= bytes'[u]
    <3>1. Scanning(t)
      BY <1>2, <2>3, ExitReads
    <3>2. /\ scan[t].io[u] <= bytes[u] /\ scan[t] \in ScanRecords
          /\ lost[t] \in Nat /\ scan'[t].io = [scan[t].io EXCEPT ![v] = @ - lost[t]]
      BY <1>2, <3>1, ExitReads DEF LiveIsPart, TypeOK, Scanning
    <3>3. scan[t].io \in [Users -> 0 .. MaxBytes] /\ bytes[u] \in Int
      BY <3>2, ObservationAssumption DEF TypeOK, ScanRecords
    <3>4. QED
      BY <2>1, <3>2, <3>3, ObservationAssumption
  <2>4. QED
    BY <2>2, <2>3 DEF LiveIsPart
<1>3. CASE UNCHANGED <<bytes, live, scan>>
  BY <1>3 DEF LiveIsPart, Scanning
<1>4. ASSUME NEW t \in Threads, NEW e \in EntryNames, AnswerFromCache(t, e)
      PROVE  LiveIsPart'
  BY <1>3, <1>4 DEF AnswerFromCache, worldVars
<1>5. ASSUME NEW t \in Threads, NEW e \in EntryNames, StartScan(t, e)
      PROVE  LiveIsPart'
  <2>1. UNCHANGED <<bytes, live>>
    BY <1>5 DEF StartScan, worldVars
  <2>2. ASSUME NEW u \in Users, NEW s \in Threads, Scanning(s)'
        PROVE  scan'[s].io[u] <= bytes'[u]
    BY <1>5, <2>1, <2>2, ScanBegins DEF LiveIsPart
  <2>3. QED
    BY <2>1, <2>2 DEF LiveIsPart
<1>6. ASSUME NEW t \in Threads, StartDerive(t) \/ EndDerive(t)
      PROVE  LiveIsPart'
  BY <1>3, <1>6 DEF StartDerive, EndDerive, worldVars
<1>7. ASSUME NEW t \in Threads, NEW fallback \in BOOLEAN, EndScan(t, fallback)
      PROVE  LiveIsPart'
  <2>1. UNCHANGED <<bytes, live>>
    BY <1>7 DEF EndScan, worldVars
  <2>2. QED
    BY <1>7, <2>1, ScansLeft DEF LiveIsPart
<1>8. ASSUME NEW u \in Users, Login(u)
      PROVE  LiveIsPart'
  BY <1>3, <1>8 DEF Login
<1>9. CASE Tick \/ ClearCache
  <2>1. UNCHANGED <<bytes, live>>
    BY <1>9 DEF Tick, ClearCache, worldVars
  <2>2. QED
    BY <1>9, <2>1, ScansKept DEF LiveIsPart
<1>10. CASE SetConfig \/ UNCHANGED vars
  BY <1>3, <1>10 DEF SetConfig, vars, worldVars
<1>11. QED
  BY <1>1, <1>2, <1>4, <1>5, <1>6, <1>7, <1>8, <1>9, <1>10 DEF Next

\* One step from a well-typed state leads to a well-typed state.
LEMMA TypeStep ==
    ASSUME TypeOK, LiveIsPart, [Next]_vars
    PROVE  TypeOK'
<1> USE ObservationAssumption, NoAnswerType
    DEF TypeOK, worldVars, exportVars, NoAnswerTyped
<1>1. CASE Tick
  <2>1. all' \in Cached
    BY <1>1, AgedSample DEF Tick, Cached, Aged
  <2>2. derived' \in Derived
    BY <1>1, AgedExtract DEF Tick, Derived, Aged
  <2>3. scan' \in [Threads -> Scans]
    <3>1. \A t \in Threads : Scanning(t) => [scan[t] EXCEPT !.age = @ + 1] \in ScanRecords
      BY <1>1, ScanRecordKept DEF Tick, Scanning, Overtakings
    <3>2. QED
      BY <1>1, <3>1 DEF Tick, Scans
  <2>4. QED
    BY <1>1, <2>1, <2>2, <2>3 DEF Tick, Cached, Derived, Scans
<1>2. ASSUME NEW u \in Users, NEW unread \in SUBSET Scanners, Transfer(u, unread)
      PROVE  TypeOK'
  <2>1. bytes[u] + 1 \in 0 .. MaxBytes /\ live[u] + 1 \in 0 .. MaxBytes
    BY <1>2 DEF Transfer, LiveIsPart
  <2>2. scan' \in [Threads -> Scans]
    BY <1>2, TransferReads
  <2>3. QED
    BY <1>2, <2>1, <2>2 DEF Transfer, Scans
<1>3. ASSUME NEW u \in Users, NEW last \in BOOLEAN, NEW missed \in SUBSET Scanners,
             NEW rest \in 0 .. live[u], NEW lost \in [Threads -> 0 .. live[u]],
             ProcessesExit(u, rest, last, lost, missed)
      PROVE  TypeOK'
  <2>1. rest \in 0 .. MaxBytes
    OBVIOUS
  <2>2. scan' \in [Threads -> Scans]
    BY <1>3, ExitReads
  <2>3. QED
    BY <1>3, <2>1, <2>2 DEF ProcessesExit, Scans
<1>4. CASE SetConfig
  <2>1. all' \in Cached /\ derived' \in Derived
    BY <1>4, OutdatedSample, OutdatedExtract DEF SetConfig, Cached, Derived, Outdated
  <2>2. \A t \in Threads : Outdated(deriving[t]) \in Derived
    BY OutdatedExtract DEF Derived, Outdated
  <2>3. deriving' \in [Threads -> Derived]
    BY <1>4, <2>2 DEF SetConfig
  <2>4. QED
    BY <1>4, <2>1, <2>3 DEF SetConfig, Cached, Derived
<1>5. CASE ClearCache
  <2>1. scan' \in [Threads -> Scans]
    <3>1. \A t \in Threads : Scanning(t) =>
             [scan[t] EXCEPT !.late = @ \cup {"config"}] \in ScanRecords
      BY ScanRecordKept DEF Scanning, Overtakings
    <3>2. QED
      BY <1>5, <3>1 DEF ClearCache, OvertakenByConfig, Scans
  <2>2. deriving' \in [Threads -> Derived]
    <3>1. \A t \in Threads : Deriving(t) =>
             [deriving[t] EXCEPT !.late = @ \cup {"config"}] \in Extracts
      BY DEF Deriving, Extracts, Overtakings
    <3>2. QED
      BY <1>5, <3>1 DEF ClearCache, OvertakenByConfig, Derived
  <2>3. QED
    BY <1>5, <2>1, <2>2 DEF ClearCache, Scans, Derived
<1>6. ASSUME NEW t \in Threads, NEW e \in EntryNames, AnswerFromCache(t, e)
      PROVE  TypeOK'
  <2> DEFINE entry == IF e = "all" THEN all ELSE derived
  <2>1. /\ entry \in Samples \cup Extracts
        /\ e = "all" => entry \in Samples
        /\ Deliver(t, e, entry)
        /\ UNCHANGED <<worldVars, clearing, all, derived, scan, deriving>>
    BY <1>6 DEF AnswerFromCache, Valid, EntryNames
  <2> HIDE DEF entry
  <2>2. /\ answer' \in [entry : EntryNames \cup {"none"}, age : 0 .. OldestAge,
                         current : BOOLEAN, late : SUBSET Overtakings]
        /\ stage' \in {"idle", "remediate"}
        /\ exported' \in [Users -> 0 .. MaxExported]
        /\ prev' \in [Users -> 0 .. MaxBytes]
        /\ accidents' \subseteq {"older_sample", "other_source"}
    BY ONLY <2>1, TypeOK, t \in Threads, e \in EntryNames, DeliveredTypes
  <2>3. QED
    BY <2>1, <2>2
<1>7. ASSUME NEW t \in Threads, NEW e \in EntryNames, StartScan(t, e)
      PROVE  TypeOK'
  <2>1. [age |-> 0, wants |-> e, late |-> {}, io |-> live, seen |-> present]
          \in ScanRecords
    BY DEF ScanRecords
  <2>2. scan' \in [Threads -> Scans]
    BY <1>7, <2>1 DEF StartScan, Scans
  <2>3. QED
    BY <1>7, <2>2 DEF StartScan, Scans
<1>8. ASSUME NEW t \in Threads, StartDerive(t)
      PROVE  TypeOK'
  <2>1. WithoutBytes(all) \in Extracts
    BY <1>8, ExtractOfSample DEF StartDerive, Valid
  <2>2. QED
    BY <1>8, <2>1 DEF StartDerive
<1>9. ASSUME NEW t \in Threads, EndDerive(t)
      PROVE  TypeOK'
  <2>1. deriving[t] \in Extracts /\ Deliver(t, "derived", deriving[t])
    BY <1>9 DEF EndDerive, Deriving
  <2>2. QED
    BY <1>9, <2>1, DeliveredTypes DEF EndDerive, EntryNames
<1>10. ASSUME NEW t \in Threads, NEW fallback \in BOOLEAN, EndScan(t, fallback)
       PROVE  TypeOK'
  <2>1. scan[t] \in ScanRecords
    BY <1>10 DEF EndScan, Scanning
  <2>2. SampleOf(t) \in Samples
    BY <2>1, SampleOfScan
  <2>3. all' \in Cached
    BY <1>10, <2>2, ScanEnds DEF Cached
  <2>4. scan' \in [Threads -> Scans]
    <3>1. \A s \in Threads : Scanning(s) =>
             [scan[s] EXCEPT !.late = @ \cup {"scan"}] \in ScanRecords
      BY ScanRecordKept DEF Scanning, Overtakings
    <3>2. QED
      BY <1>10, <3>1, ScansOvertaken DEF Scans
  <2>5. WithoutBytes(SampleOf(t)) \in Extracts
    BY <2>2, ExtractOfSample
  <2>6. /\ deriving' \in [Threads -> Derived]
        /\ UNCHANGED <<worldVars, clearing, derived>>
    BY <1>10, <2>5, ScanEnds DEF Derived
  <2>7. /\ answer' \in [entry : EntryNames \cup {"none"}, age : 0 .. OldestAge,
                         current : BOOLEAN, late : SUBSET Overtakings]
        /\ stage' \in {"idle", "remediate"}
        /\ exported' \in [Users -> 0 .. MaxExported]
        /\ prev' \in [Users -> 0 .. MaxBytes]
        /\ accidents' \subseteq {"older_sample", "other_source"}
    <3>1. CASE scan[t].wants = "all"
      BY <1>10, <2>2, <3>1, ScanEnds, DeliveredTypes DEF EntryNames
    <3>2. CASE scan[t].wants # "all"
      BY <1>10, <3>2, ScanEnds
    <3>3. QED
      BY <3>1, <3>2
  <2>8. QED
    BY <2>3, <2>4, <2>6, <2>7 DEF Cached, Derived, Scans
<1>11. ASSUME NEW u \in Users, Login(u)
       PROVE  TypeOK'
  BY <1>11 DEF Login
<1>12. CASE UNCHANGED vars
  BY <1>12 DEF vars
<1>13. QED
  BY <1>1, <1>2, <1>3, <1>4, <1>5, <1>6, <1>7, <1>8, <1>9, <1>10, <1>11, <1>12 DEF Next

\* TypeOK, with the fact it rests on.
LEMMA TypeInvariant == Spec => [](TypeOK /\ LiveIsPart)
<1>1. Init => TypeOK /\ LiveIsPart
  <2>1. SUFFICES ASSUME Init
                 PROVE  TypeOK /\ LiveIsPart
    OBVIOUS
  <2>2. 0 \in 0 .. MaxBytes /\ 0 \in 0 .. MaxExported
    BY ObservationAssumption DEF MaxExported
  <2>3. LiveIsPart
    BY <2>1, ObservationAssumption DEF Init, LiveIsPart, Scanning
  <2>4. bytes \in [Users -> 0 .. MaxBytes] /\ live \in [Users -> 0 .. MaxBytes]
    BY <2>1, <2>2 DEF Init
  <2>5. exported \in [Users -> 0 .. MaxExported] /\ prev \in [Users -> 0 .. MaxBytes]
    BY <2>1, <2>2 DEF Init
  <2>6. /\ scan \in [Threads -> {NoScan} \cup ScanRecords]
        /\ deriving \in [Threads -> {NoEntry} \cup Extracts]
    BY <2>1 DEF Init
  <2>7. QED
    BY <2>1, <2>3, <2>4, <2>5, <2>6, NoAnswerType DEF Init, TypeOK, NoAnswerTyped
<1>2. TypeOK /\ LiveIsPart /\ [Next]_vars => (TypeOK /\ LiveIsPart)'
  BY TypeStep, LiveStep
<1>3. QED
  BY <1>1, <1>2, PTL DEF Spec

\* The collector's cache, its scans and the exporter's counters stay within their
\* types and bounds, for any number of users and of MCP requests.
THEOREM ObservationTypeCorrect == Spec => []TypeOK
BY TypeInvariant, PTL

-----------------------------------------------------------------------------
(* Ages.                                                                   *)

\* What an entry adds to the time since it was stored: one scan for a sample, and
\* the TTL of the sample as well for what is derived from one.
AgeInv ==
    /\ all # NoEntry => all.age <= ScanTime + all.stored
    /\ derived # NoEntry => derived.age <= ScanTime + TTL + derived.stored
    /\ \A t \in Threads :
         Deriving(t) => deriving[t].age <= ScanTime + TTL /\ deriving[t].stored = 0
    /\ AnswersAreFresh

\* What a sample or an extract is made of.
LEMMA EntryFields ==
    /\ \A e \in Samples \cup Extracts :
         /\ e.stored \in 0 .. TTL /\ e.age \in 0 .. OldestAge
         /\ e.current \in BOOLEAN /\ e.late \subseteq Overtakings
    /\ TTL \in Nat /\ ScanTime \in Nat /\ OldestAge \in Nat /\ MaxBytes \in Nat
BY ObservationAssumption DEF Samples, Extracts, OldestAge

\* A step without an answer gives none that is too old.
LEMMA NoAnswerIsFresh ==
    ASSUME answer' = NoAnswer
    PROVE  AnswersAreFresh'
BY ObservationAssumption DEF AnswersAreFresh, NoAnswer

\* One step keeps the bounds on the ages.
LEMMA AgeStep ==
    ASSUME TypeOK, TypeOK', AgeInv, [Next]_vars
    PROVE  AgeInv'
<1> USE EntryFields DEF TypeOK, AgeInv
<1>1. CASE Tick
  <2>1. all' # NoEntry => all'.age <= ScanTime + all'.stored
    <3>1. all = NoEntry => all' = NoEntry
      BY <1>1 DEF Tick, Aged
    <3>2. QED
      BY <1>1, <3>1, AgedSample DEF Tick
  <2>2. derived' # NoEntry => derived'.age <= ScanTime + TTL + derived'.stored
    <3>1. derived = NoEntry => derived' = NoEntry
      BY <1>1 DEF Tick, Aged
    <3>2. QED
      BY <1>1, <3>1, AgedExtract DEF Tick
  <2>3. QED
    BY <1>1, <2>1, <2>2, NoAnswerIsFresh DEF Tick, Deriving
<1>2. ASSUME NEW u \in Users, NEW unread \in SUBSET Scanners, Transfer(u, unread)
      PROVE  AgeInv'
  BY <1>2, NoAnswerIsFresh DEF Transfer, Deriving
<1>3. ASSUME NEW u \in Users, NEW last \in BOOLEAN, NEW missed \in SUBSET Scanners,
             NEW rest \in 0 .. live[u], NEW lost \in [Threads -> 0 .. live[u]],
             ProcessesExit(u, rest, last, lost, missed)
      PROVE  AgeInv'
  BY <1>3, NoAnswerIsFresh DEF ProcessesExit, Deriving
<1>4. CASE SetConfig
  <2>1. all' # NoEntry => all'.age <= ScanTime + all'.stored
    BY <1>4, OutdatedSample DEF SetConfig, Outdated
  <2>2. derived' # NoEntry => derived'.age <= ScanTime + TTL + derived'.stored
    BY <1>4, OutdatedExtract DEF SetConfig, Outdated
  <2>3. ASSUME NEW t \in Threads, deriving'[t] # NoEntry
        PROVE  deriving'[t].age <= ScanTime + TTL /\ deriving'[t].stored = 0
    BY <1>4, <2>3, OutdatedExtract DEF SetConfig, Outdated, Deriving
  <2>4. QED
    BY <1>4, <2>1, <2>2, <2>3, NoAnswerIsFresh DEF SetConfig, Deriving
<1>5. CASE ClearCache
  <2>1. ASSUME NEW t \in Threads, deriving'[t] # NoEntry
        PROVE  deriving'[t].age <= ScanTime + TTL /\ deriving'[t].stored = 0
    BY <1>5, <2>1 DEF ClearCache, OvertakenByConfig, Deriving, Extracts
  <2>2. QED
    BY <1>5, <2>1, NoAnswerIsFresh DEF ClearCache, Deriving
<1>6. ASSUME NEW t \in Threads, NEW e \in EntryNames, AnswerFromCache(t, e)
      PROVE  AgeInv'
  <2>1. AnswersAreFresh'
    <3>1. CASE e = "all"
      BY <1>6, <3>1 DEF AnswerFromCache, Valid, Deliver, AnswersAreFresh
    <3>2. CASE e = "derived"
      BY <1>6, <3>2 DEF AnswerFromCache, Valid, Deliver, AnswersAreFresh
    <3>3. QED
      BY <3>1, <3>2 DEF EntryNames
  <2>2. QED
    BY <1>6, <2>1 DEF AnswerFromCache, Deriving
<1>7. ASSUME NEW t \in Threads, NEW e \in EntryNames, StartScan(t, e)
      PROVE  AgeInv'
  BY <1>7, NoAnswerIsFresh DEF StartScan, Deriving
<1>8. ASSUME NEW t \in Threads, StartDerive(t)
      PROVE  AgeInv'
  <2>1. WithoutBytes(all).age <= ScanTime + TTL /\ WithoutBytes(all).stored = 0
    BY <1>8, ExtractOfSample DEF StartDerive, Valid
  <2>2. QED
    BY <1>8, <2>1, NoAnswerIsFresh DEF StartDerive, Deriving
<1>9. ASSUME NEW t \in Threads, EndDerive(t)
      PROVE  AgeInv'
  <2>1. derived' = deriving[t] /\ Deriving(t)
    BY <1>9 DEF EndDerive
  <2>2. AnswersAreFresh'
    BY <1>9, <2>1 DEF EndDerive, Deliver, AnswersAreFresh, Deriving
  <2>3. QED
    BY <1>9, <2>1, <2>2 DEF EndDerive, Deriving
<1>10. ASSUME NEW t \in Threads, NEW fallback \in BOOLEAN, EndScan(t, fallback)
       PROVE  AgeInv'
  <2>1. scan[t] \in ScanRecords
    BY <1>10 DEF EndScan, Scanning
  <2>2. SampleOf(t) \in Samples /\ SampleOf(t).stored = 0 /\ SampleOf(t).age <= ScanTime
    BY <2>1, SampleOfScan DEF SampleOf, ScanRecords
  <2>3. all' # NoEntry => all'.age <= ScanTime + all'.stored
    BY <1>10, <2>2, ScanEnds
  <2>4. ASSUME NEW s \in Threads, deriving'[s] # NoEntry
        PROVE  deriving'[s].age <= ScanTime + TTL /\ deriving'[s].stored = 0
    <3>1. /\ WithoutBytes(SampleOf(t)).age <= ScanTime + TTL
          /\ WithoutBytes(SampleOf(t)).stored = 0
      BY <2>2, ExtractOfSample
    <3>2. deriving' = deriving \/ deriving' = [deriving EXCEPT ![t] = WithoutBytes(SampleOf(t))]
      BY <1>10, ScanEnds
    <3>3. QED
      BY <2>4, <3>1, <3>2 DEF Deriving
  <2>5. AnswersAreFresh'
    <3>1. CASE scan[t].wants = "all"
      <4>1. answer'.age = SampleOf(t).age
        BY <1>10, <3>1, ScanEnds DEF Deliver
      <4>2. QED
        BY <2>2, <4>1 DEF AnswersAreFresh
    <3>2. CASE scan[t].wants # "all"
      BY <1>10, <3>2, ScanEnds, NoAnswerIsFresh
    <3>3. QED
      BY <3>1, <3>2
  <2>6. derived' = derived
    BY <1>10, ScanEnds
  <2>7. QED
    BY <2>3, <2>4, <2>5, <2>6 DEF Deriving
<1>11. ASSUME NEW u \in Users, Login(u)
       PROVE  AgeInv'
  BY <1>11, NoAnswerIsFresh DEF Login, Deriving
<1>12. CASE UNCHANGED vars
  BY <1>12 DEF vars, Deriving, AnswersAreFresh
<1>13. QED
  BY <1>1, <1>2, <1>3, <1>4, <1>5, <1>6, <1>7, <1>8, <1>9, <1>10, <1>11, <1>12 DEF Next

\* GetAllUserMetrics and the getters derived from it never answer with processes
\* read longer ago than one scan and the TTLs of the entries the answer passed
\* through, whatever the TTL, the time of a scan and the number of threads that
\* fill and read the cache without a lock between the two.
THEOREM AnswersStayFresh == Spec => []AnswersAreFresh
<1>1. Init => AgeInv
  BY ObservationAssumption DEF Init, AgeInv, AnswersAreFresh, NoAnswer, Deriving
<1>2. TypeOK /\ TypeOK' /\ AgeInv /\ [Next]_vars => AgeInv'
  BY AgeStep
<1>3. AgeInv => AnswersAreFresh
  BY DEF AgeInv
<1>4. QED
  BY <1>1, <1>2, <1>3, TypeInvariant, PTL DEF Spec

-----------------------------------------------------------------------------
(* Configuration changes.                                                  *)

\* Between two UpdateConfig calls an entry made with old filters stems from a scan
\* or a derivation that the last of them has overtaken.
StaleEntry(e) == e # NoEntry /\ ~e.current /\ "config" \notin e.late
StaleInv ==
    ~clearing =>
      ~StaleEntry(all) /\ ~StaleEntry(derived) /\ \A t \in Threads : ~StaleEntry(deriving[t])

\* What a step says of the filters its answer applies.
AnswerOverlaps == ~clearing /\ ~answer'.current => "config" \in answer'.late

\* A step without an answer says nothing of them.
LEMMA NoAnswerOverlaps ==
    ASSUME answer' = NoAnswer
    PROVE  AnswerOverlaps
BY DEF AnswerOverlaps, NoAnswer

\* An answer is as stale as the entry it is taken from.
LEMMA AnswerAsStale ==
    ASSUME NEW t \in Threads, NEW e \in EntryNames, NEW entry \in Samples \cup Extracts,
           Deliver(t, e, entry), ~clearing => ~StaleEntry(entry)
    PROVE  AnswerOverlaps
BY EntriesExist DEF Deliver, StaleEntry, AnswerOverlaps

\* One step: no answer is stale without an overlap, and no entry becomes so.
LEMMA StaleStep ==
    ASSUME TypeOK, StaleInv, [Next]_vars
    PROVE  StaleInv' /\ (AnswerOverlaps \/ UNCHANGED vars)
<1> USE EntryFields DEF TypeOK, StaleInv
<1>1. CASE Tick
  <2>1. StaleEntry(all') => StaleEntry(all)
    <3>1. all = NoEntry => all' = NoEntry
      BY <1>1 DEF Tick, Aged
    <3>2. QED
      BY <1>1, <3>1, AgedSample DEF Tick, StaleEntry
  <2>2. StaleEntry(derived') => StaleEntry(derived)
    <3>1. derived = NoEntry => derived' = NoEntry
      BY <1>1 DEF Tick, Aged
    <3>2. QED
      BY <1>1, <3>1, AgedExtract DEF Tick, StaleEntry
  <2>3. QED
    BY <1>1, <2>1, <2>2, NoAnswerOverlaps DEF Tick
<1>2. ASSUME NEW u \in Users, NEW unread \in SUBSET Scanners, Transfer(u, unread)
      PROVE  StaleInv' /\ AnswerOverlaps
  BY <1>2, NoAnswerOverlaps DEF Transfer
<1>3. ASSUME NEW u \in Users, NEW last \in BOOLEAN, NEW missed \in SUBSET Scanners,
             NEW rest \in 0 .. live[u], NEW lost \in [Threads -> 0 .. live[u]],
             ProcessesExit(u, rest, last, lost, missed)
      PROVE  StaleInv' /\ AnswerOverlaps
  BY <1>3, NoAnswerOverlaps DEF ProcessesExit
<1>4. CASE SetConfig
  BY <1>4, NoAnswerOverlaps DEF SetConfig
<1>5. CASE ClearCache
  <2>1. ASSUME NEW t \in Threads
        PROVE  ~StaleEntry(deriving'[t])
    <3>1. CASE Deriving(t)
      <4>1. "config" \in deriving'[t].late
        BY <1>5, <3>1 DEF ClearCache, OvertakenByConfig, Deriving, Extracts
      <4>2. QED
        BY <4>1 DEF StaleEntry
    <3>2. CASE ~Deriving(t)
      BY <1>5, <3>2 DEF ClearCache, OvertakenByConfig, StaleEntry
    <3>3. QED
      BY <3>1, <3>2
  <2>2. QED
    BY <1>5, <2>1, NoAnswerOverlaps DEF ClearCache, StaleEntry
<1>6. ASSUME NEW t \in Threads, NEW e \in EntryNames, AnswerFromCache(t, e)
      PROVE  StaleInv' /\ AnswerOverlaps
  <2> DEFINE entry == IF e = "all" THEN all ELSE derived
  <2>1. /\ entry \in Samples \cup Extracts
        /\ ~clearing => ~StaleEntry(entry)
        /\ Deliver(t, e, entry)
        /\ UNCHANGED <<clearing, all, derived, deriving>>
    BY <1>6 DEF AnswerFromCache, Valid, EntryNames
  <2> HIDE DEF entry
  <2>2. AnswerOverlaps
    BY <2>1, AnswerAsStale
  <2>3. QED
    BY <2>1, <2>2
<1>7. ASSUME NEW t \in Threads, NEW e \in EntryNames, StartScan(t, e)
      PROVE  StaleInv' /\ AnswerOverlaps
  BY <1>7, NoAnswerOverlaps DEF StartScan
<1>8. ASSUME NEW t \in Threads, StartDerive(t)
      PROVE  StaleInv' /\ AnswerOverlaps
  <2>1. StaleEntry(WithoutBytes(all)) => StaleEntry(all)
    BY <1>8, ExtractOfSample DEF StartDerive, Valid, StaleEntry
  <2>2. QED
    BY <1>8, <2>1, NoAnswerOverlaps DEF StartDerive
<1>9. ASSUME NEW t \in Threads, EndDerive(t)
      PROVE  StaleInv' /\ AnswerOverlaps
  <2>1. /\ deriving[t] \in Extracts /\ derived' = deriving[t]
        /\ Deliver(t, "derived", deriving[t])
        /\ deriving' = [deriving EXCEPT ![t] = NoEntry]
        /\ UNCHANGED <<clearing, all>>
    BY <1>9 DEF EndDerive, Deriving
  <2>2. AnswerOverlaps
    BY <2>1, AnswerAsStale DEF EntryNames
  <2>3. QED
    BY <2>1, <2>2 DEF StaleEntry
<1>10. ASSUME NEW t \in Threads, NEW fallback \in BOOLEAN, EndScan(t, fallback)
       PROVE  StaleInv' /\ AnswerOverlaps
  <2>1. scan[t] \in ScanRecords
    BY <1>10 DEF EndScan, Scanning
  <2>2. SampleOf(t) \in Samples /\ ~StaleEntry(SampleOf(t))
    BY <2>1, SampleOfScan DEF SampleOf, StaleEntry
  <2>3. StaleEntry(all') => StaleEntry(all)
    BY <1>10, <2>2, ScanEnds DEF StaleEntry
  <2>4. ASSUME NEW s \in Threads
        PROVE  StaleEntry(deriving'[s]) => StaleEntry(deriving[s])
    <3>1. ~StaleEntry(WithoutBytes(SampleOf(t)))
      BY <2>2, EntriesExist, ExtractOfSample DEF StaleEntry
    <3>2. deriving' = deriving \/ deriving' = [deriving EXCEPT ![t] = WithoutBytes(SampleOf(t))]
      BY <1>10, ScanEnds
    <3>3. QED
      BY <3>1, <3>2
  <2>5. AnswerOverlaps
    <3>1. CASE scan[t].wants = "all"
      BY <1>10, <2>2, <3>1, ScanEnds, AnswerAsStale DEF EntryNames
    <3>2. CASE scan[t].wants # "all"
      BY <1>10, <3>2, ScanEnds, NoAnswerOverlaps
    <3>3. QED
      BY <3>1, <3>2
  <2>6. UNCHANGED <<clearing, derived>>
    BY <1>10, ScanEnds
  <2>7. QED
    BY <2>3, <2>4, <2>5, <2>6
<1>11. ASSUME NEW u \in Users, Login(u)
       PROVE  StaleInv' /\ AnswerOverlaps
  BY <1>11, NoAnswerOverlaps DEF Login
<1>12. CASE UNCHANGED vars
  BY <1>12 DEF vars
<1>13. QED
  BY <1>1, <1>2, <1>3, <1>4, <1>5, <1>6, <1>7, <1>8, <1>9, <1>10, <1>11, <1>12 DEF Next

\* Once UpdateConfig has returned no answer applies the filters it has replaced,
\* unless the answer stems from a scan or a derivation that was under way when the
\* cache was cleared, for any number of threads.
THEOREM StaleAnswersOverlap == Spec => StaleOnlyByOverlap
<1>1. Init => StaleInv
  BY DEF Init, StaleInv, StaleEntry
<1>2. TypeOK /\ StaleInv /\ [Next]_vars => StaleInv' /\ (AnswerOverlaps \/ UNCHANGED vars)
  BY StaleStep
<1>3. QED
  BY <1>1, <1>2, TypeInvariant, PTL DEF Spec, StaleOnlyByOverlap, AnswerOverlaps

-----------------------------------------------------------------------------
(* Exported counters.                                                      *)

\* Bytes that ended processes account for.
Dead == [u \in Users |-> bytes[u] - live[u]]

\* One reading of /proc and another that was made no earlier: neither the bytes of
\* ended processes nor all bytes can have become fewer.
NoLater(io1, dead1, io2, dead2) ==
    \A u \in Users : dead1[u] <= dead2[u] /\ io1[u] + dead1[u] <= io2[u] + dead2[u]

\* Each value the exporter and the collector keep stands for readings of processes:
\* p, a and d are the bytes of processes that had ended before they could be read for
\* prevIOStats, the cached sample and the scans under way.  A counter shows no more
\* than was transferred up to the readings of prevIOStats.  A scan that no other has
\* overtaken runs without a cached sample and reads later than prevIOStats.
Moments(p, a, d) ==
    /\ \A u \in Users : exported[u] <= prev[u] + p[u]
    /\ NoLater(prev, p, live, Dead)
    /\ all # NoEntry =>
         /\ NoLater(all.io, a, live, Dead)
         /\ "scan" \notin all.late => NoLater(prev, p, all.io, a)
    /\ \A t \in Threads : Scanning(t) =>
         /\ NoLater(scan[t].io, d[t], live, Dead)
         /\ "scan" \notin scan[t].late => all = NoEntry /\ NoLater(prev, p, scan[t].io, d[t])

PastBytes == [Users -> 0 .. MaxBytes]

ExportInv ==
    accidents = {} =>
      \E p, a \in PastBytes, d \in [Threads -> PastBytes] : Moments(p, a, d)

\* Readings are ordered.
LEMMA NoLaterTransitive ==
    ASSUME NEW i1 \in PastBytes, NEW d1 \in PastBytes, NEW i2 \in PastBytes,
           NEW d2 \in PastBytes, NEW i3 \in PastBytes, NEW d3 \in PastBytes,
           NoLater(i1, d1, i2, d2), NoLater(i2, d2, i3, d3)
    PROVE  NoLater(i1, d1, i3, d3)
<1>1. SUFFICES ASSUME NEW u \in Users
               PROVE  d1[u] <= d3[u] /\ i1[u] + d1[u] <= i3[u] + d3[u]
  BY DEF NoLater
<1>2. /\ d1[u] \in Int /\ d2[u] \in Int /\ d3[u] \in Int
      /\ i1[u] \in Int /\ i2[u] \in Int /\ i3[u] \in Int
  BY ObservationAssumption DEF PastBytes
<1>3. d1[u] <= d2[u] /\ i1[u] + d1[u] <= i2[u] + d2[u]
  BY <1>1 DEF NoLater
<1>4. d2[u] <= d3[u] /\ i2[u] + d2[u] <= i3[u] + d3[u]
  BY <1>1 DEF NoLater
<1>5. QED
  BY <1>2, <1>3, <1>4

\* The bytes of ended processes are a possible reading.
LEMMA DeadBytes ==
    ASSUME TypeOK, LiveIsPart
    PROVE  Dead \in PastBytes /\ live \in PastBytes
<1>1. \A u \in Users : bytes[u] - live[u] \in 0 .. MaxBytes
  BY ObservationAssumption DEF TypeOK, LiveIsPart
<1>2. QED
  BY <1>1 DEF Dead, PastBytes, TypeOK

\* No step takes bytes back, whether processes transfer some or end.
LEMMA WorldMovesOn ==
    ASSUME TypeOK, [Next]_vars
    PROVE  NoLater(live, Dead, live', Dead')
<1> USE ObservationAssumption DEF TypeOK, NoLater, Dead, worldVars
<1>1. ASSUME NEW u \in Users, NEW unread \in SUBSET Scanners, Transfer(u, unread)
      PROVE  NoLater(live, Dead, live', Dead')
  BY <1>1 DEF Transfer
<1>2. ASSUME NEW u \in Users, NEW last \in BOOLEAN, NEW missed \in SUBSET Scanners,
             NEW rest \in 0 .. live[u], NEW lost \in [Threads -> 0 .. live[u]],
             ProcessesExit(u, rest, last, lost, missed)
      PROVE  NoLater(live, Dead, live', Dead')
  <2>1. rest \in Nat /\ rest <= live[u]
    OBVIOUS
  <2>2. QED
    <3>1. bytes' = bytes /\ live' = [live EXCEPT ![u] = rest]
      BY <1>2 DEF ProcessesExit
    <3>2. QED
      BY <2>1, <3>1
<1>3. CASE UNCHANGED <<bytes, live>>
  BY <1>3
<1>4. ASSUME NEW t \in Threads, NEW e \in EntryNames, AnswerFromCache(t, e) \/ StartScan(t, e)
      PROVE  NoLater(live, Dead, live', Dead')
  BY <1>3, <1>4 DEF AnswerFromCache, StartScan
<1>5. ASSUME NEW t \in Threads, StartDerive(t) \/ EndDerive(t)
      PROVE  NoLater(live, Dead, live', Dead')
  BY <1>3, <1>5 DEF StartDerive, EndDerive
<1>6. ASSUME NEW t \in Threads, NEW fallback \in BOOLEAN, EndScan(t, fallback)
      PROVE  NoLater(live, Dead, live', Dead')
  BY <1>3, <1>6 DEF EndScan
<1>7. ASSUME NEW u \in Users, Login(u)
      PROVE  NoLater(live, Dead, live', Dead')
  BY <1>3, <1>7 DEF Login
<1>8. CASE Tick \/ SetConfig \/ ClearCache \/ UNCHANGED vars
  BY <1>3, <1>8 DEF Tick, SetConfig, ClearCache, vars
<1>9. QED
  BY <1>1, <1>2, <1>4, <1>5, <1>6, <1>7, <1>8 DEF Next

\* An export of a sample that is no older than the last one and comes from the
\* processes: the counters show no more than the sample's moment accounts for.
LEMMA ExportKeepsBound ==
    ASSUME TypeOK, NEW sample \in Samples, NEW cgroup \in IOStats, Export(sample, cgroup),
           accidents' = {}, NEW p \in PastBytes, NEW q \in PastBytes,
           \A u \in Users : exported[u] <= prev[u] + p[u],
           NoLater(prev, p, sample.io, q)
    PROVE  /\ accidents = {} /\ "scan" \notin sample.late
           /\ \A u \in Users : exported'[u] <= prev'[u] + q[u]
           /\ NoLater(prev', q, sample.io, q)
<1>1. accidents = {} /\ "scan" \notin sample.late
  BY DEF Export
<1>2. \A u \in sample.seen : ~OtherSource(sample, cgroup, u)
  BY DEF Export
<1>3. ASSUME NEW u \in Users
      PROVE  /\ exported'[u] <= prev'[u] + q[u]
             /\ q[u] <= q[u] /\ prev'[u] + q[u] <= sample.io[u] + q[u]
  <2>1. /\ exported[u] \in Int /\ prev[u] \in 0 .. MaxBytes /\ p[u] \in Int
        /\ q[u] \in 0 .. MaxBytes /\ sample.io[u] \in 0 .. MaxBytes
        /\ MaxBytes \in Nat /\ MaxExported \in Int
    BY ObservationAssumption DEF TypeOK, PastBytes, Samples, MaxExported
  <2>2. exported[u] <= prev[u] + p[u] /\ p[u] <= q[u]
        /\ prev[u] + p[u] <= sample.io[u] + q[u]
    BY DEF NoLater
  <2>3. CASE u \in sample.seen
    <3>1. prev'[u] = sample.io[u]
      BY <1>2, <2>3 DEF Export, ExportedBytes
    <3>2. exported'[u] = Min({exported[u] + Added(prev[u], sample.io[u]), MaxExported})
      BY <1>2, <2>3 DEF Export, ExportedBytes
    <3>3. Added(prev[u], sample.io[u]) \in Int
      BY <2>1 DEF Added
    <3>4. exported'[u] <= exported[u] + Added(prev[u], sample.io[u])
      BY <2>1, <3>2, <3>3, MinOfTwo
    <3>5. exported[u] + Added(prev[u], sample.io[u]) <= sample.io[u] + q[u]
      BY <2>1, <2>2 DEF Added
    <3>6. exported'[u] \in Int
      BY <2>1, <3>2, <3>3, MinOfTwo
    <3>7. QED
      BY <2>1, <3>1, <3>3, <3>4, <3>5, <3>6
  <2>4. CASE u \notin sample.seen
    <3>1. prev'[u] = 0 /\ exported'[u] = 0
      BY <2>4 DEF Export
    <3>2. QED
      BY <2>1, <3>1
  <2>5. QED
    BY <2>3, <2>4
<1>4. QED
  BY <1>1, <1>3 DEF NoLater

\* A step that exports nothing leaves the readings of prevIOStats and of the cached
\* sample as they are: the world moves on, entries may go, scans read on or are
\* overtaken.
LEMMA MomentsKept ==
    ASSUME TypeOK, LiveIsPart, (TypeOK /\ LiveIsPart)', [Next]_vars,
           NEW p \in PastBytes, NEW a \in PastBytes, NEW d \in [Threads -> PastBytes],
           NEW c \in [Threads -> PastBytes],
           Moments(p, a, d),
           UNCHANGED <<exported, prev>>,
           all' # NoEntry => /\ all # NoEntry /\ all'.io = all.io
                             /\ "scan" \in all.late => "scan" \in all'.late,
           \A t \in Threads : Scanning(t)' =>
             /\ Scanning(t)
             /\ NoLater(scan[t].io, d[t], scan'[t].io, c[t])
             /\ NoLater(scan'[t].io, c[t], live', Dead')
             /\ "scan" \in scan[t].late => "scan" \in scan'[t].late
    PROVE  Moments(p, a, c)'
<1>1. NoLater(live, Dead, live', Dead')
  BY WorldMovesOn
<1>2. /\ Dead \in PastBytes /\ live \in PastBytes
      /\ Dead' \in PastBytes /\ live' \in PastBytes
      /\ prev \in PastBytes
      /\ all # NoEntry => all.io \in PastBytes
      /\ \A t \in Threads : /\ d[t] \in PastBytes /\ c[t] \in PastBytes
                            /\ Scanning(t) => scan[t].io \in PastBytes
                            /\ Scanning(t)' => scan'[t].io \in PastBytes
  <2>1. (Dead \in PastBytes /\ live \in PastBytes)'
    BY DeadBytes, PTL
  <2>2. Dead \in PastBytes /\ live \in PastBytes
    BY DeadBytes
  <2>3. QED
    BY <2>1, <2>2 DEF TypeOK, PastBytes, Samples, ScanRecords, Scanning
<1>3. \A u \in Users : exported'[u] <= prev'[u] + p[u]
  BY DEF Moments
<1>4. NoLater(prev', p, live', Dead')
  BY <1>1, <1>2, NoLaterTransitive DEF Moments
<1>5. all' # NoEntry =>
         /\ NoLater(all'.io, a, live', Dead')
         /\ "scan" \notin all'.late => NoLater(prev', p, all'.io, a)
  BY <1>1, <1>2, NoLaterTransitive DEF Moments
<1>6. ASSUME NEW t \in Threads, Scanning(t)'
      PROVE  /\ NoLater(scan'[t].io, c[t], live', Dead')
             /\ "scan" \notin scan'[t].late =>
                  all' = NoEntry /\ NoLater(prev', p, scan'[t].io, c[t])
  <2>1. /\ Scanning(t) /\ NoLater(scan'[t].io, c[t], live', Dead')
        /\ NoLater(scan[t].io, d[t], scan'[t].io, c[t])
        /\ "scan" \in scan[t].late => "scan" \in scan'[t].late
    BY <1>6
  <2>2. ASSUME "scan" \notin scan'[t].late
        PROVE  all' = NoEntry /\ NoLater(prev', p, scan'[t].io, c[t])
    <3>1. all = NoEntry /\ NoLater(prev, p, scan[t].io, d[t])
      BY <2>1, <2>2 DEF Moments
    <3>2. /\ scan[t].io \in PastBytes /\ scan'[t].io \in PastBytes
          /\ d[t] \in PastBytes /\ c[t] \in PastBytes
      BY <1>2, <1>6, <2>1
    <3>3. NoLater(prev, p, scan'[t].io, c[t])
      <4>1. prev \in PastBytes /\ NoLater(scan[t].io, d[t], scan'[t].io, c[t])
        BY <1>2, <2>1
      <4>2. QED
        BY <3>1, <3>2, <4>1, NoLaterTransitive
    <3>4. QED
      BY <3>1, <3>3
  <2>3. QED
    BY <2>1, <2>2
<1>7. QED
  BY <1>3, <1>4, <1>5, <1>6 DEF Moments

\* What the invariants say together.
ObservationInv == TypeOK /\ LiveIsPart /\ ExportInv

\* The readings the model keeps are functions of the users.
LEMMA Readings ==
    ASSUME TypeOK, LiveIsPart
    PROVE  /\ Dead \in PastBytes /\ live \in PastBytes /\ prev \in PastBytes
           /\ all # NoEntry => all.io \in PastBytes
           /\ \A t \in Threads : Scanning(t) => scan[t].io \in PastBytes
<1>1. Dead \in PastBytes /\ live \in PastBytes
  BY DeadBytes
<1>2. QED
  BY <1>1 DEF TypeOK, PastBytes, Samples, ScanRecords, Scanning

\* Steps that neither export nor change what a scan finds.
LEMMA OtherStepExport ==
    ASSUME ObservationInv, (TypeOK /\ LiveIsPart)', [Next]_vars,
           UNCHANGED exportVars,
           all' # NoEntry => /\ all # NoEntry /\ all'.io = all.io
                             /\ "scan" \in all.late => "scan" \in all'.late,
           \A t \in Threads : Scanning(t)' =>
             /\ Scanning(t) /\ scan'[t].io = scan[t].io
             /\ "scan" \in scan[t].late => "scan" \in scan'[t].late
    PROVE  ExportInv'
<1>1. SUFFICES ASSUME accidents' = {}
               PROVE  (\E p, a \in PastBytes, d \in [Threads -> PastBytes] : Moments(p, a, d))'
  BY DEF ExportInv
<1>2. PICK p \in PastBytes, a \in PastBytes, d \in [Threads -> PastBytes] : Moments(p, a, d)
  BY <1>1 DEF ObservationInv, ExportInv, exportVars
<1>3. ASSUME NEW t \in Threads, Scanning(t)'
      PROVE  /\ NoLater(scan[t].io, d[t], scan'[t].io, d[t])
             /\ NoLater(scan'[t].io, d[t], live', Dead')
  <2>1. /\ Scanning(t) /\ scan'[t].io = scan[t].io
        /\ scan[t].io \in PastBytes /\ d[t] \in PastBytes
    BY <1>3, Readings DEF ObservationInv
  <2>2. NoLater(scan[t].io, d[t], live, Dead) /\ NoLater(live, Dead, live', Dead')
    BY <1>2, <2>1, WorldMovesOn DEF Moments, ObservationInv
  <2>3. /\ Dead \in PastBytes /\ live \in PastBytes
        /\ Dead' \in PastBytes /\ live' \in PastBytes
    <3>1. (Dead \in PastBytes /\ live \in PastBytes)'
      BY DeadBytes, PTL
    <3>2. QED
      BY <3>1, DeadBytes DEF ObservationInv
  <2>4. NoLater(scan[t].io, d[t], live', Dead')
    BY <2>1, <2>2, <2>3, NoLaterTransitive
  <2>5. NoLater(scan[t].io, d[t], scan[t].io, d[t])
    BY <2>1, ObservationAssumption DEF NoLater, PastBytes
  <2>6. QED
    BY <2>1, <2>4, <2>5
<1>4. Moments(p, a, d)'
  BY <1>2, <1>3, MomentsKept DEF ObservationInv, exportVars
<1>5. QED
  BY <1>4

\* A process transfers bytes: a scan that has still to read it finds them.
LEMMA TransferExport ==
    ASSUME ObservationInv, (TypeOK /\ LiveIsPart)',
           NEW v \in Users, NEW unread \in SUBSET Scanners, Transfer(v, unread)
    PROVE  ExportInv'
<1>1. SUFFICES ASSUME accidents' = {}
               PROVE  (\E p, a \in PastBytes, d \in [Threads -> PastBytes] : Moments(p, a, d))'
  BY DEF ExportInv
<1>2. UNCHANGED <<all, exported, prev, accidents>>
  BY DEF Transfer, exportVars
<1>3. PICK p \in PastBytes, a \in PastBytes, d \in [Threads -> PastBytes] : Moments(p, a, d)
  BY <1>1, <1>2 DEF ObservationInv, ExportInv
<1>4. ASSUME NEW t \in Threads, Scanning(t)'
      PROVE  /\ Scanning(t) /\ scan'[t].late = scan[t].late
             /\ NoLater(scan[t].io, d[t], scan'[t].io, d[t])
             /\ NoLater(scan'[t].io, d[t], live', Dead')
  <2>1. /\ Scanning(t) /\ scan'[t].late = scan[t].late
        /\ scan'[t].io = scan[t].io \/ scan'[t].io = [scan[t].io EXCEPT ![v] = @ + 1]
    BY <1>4, TransferReads DEF ObservationInv
  <2>2. scan[t].io \in PastBytes /\ d[t] \in PastBytes /\ NoLater(scan[t].io, d[t], live, Dead)
    BY <1>3, <2>1, Readings DEF Moments, ObservationInv
  <2>3. ASSUME NEW u \in Users
        PROVE  /\ d[t][u] <= d[t][u] /\ scan[t].io[u] + d[t][u] <= scan'[t].io[u] + d[t][u]
               /\ d[t][u] <= Dead'[u] /\ scan'[t].io[u] + d[t][u] <= live'[u] + Dead'[u]
    <3>1. /\ scan[t].io[u] \in Int /\ d[t][u] \in Int
          /\ live[u] \in Int /\ bytes[u] \in Int
      BY <2>2, ObservationAssumption DEF PastBytes, ObservationInv, TypeOK
    <3>2. d[t][u] <= bytes[u] - live[u] /\ scan[t].io[u] + d[t][u] <= live[u] + (bytes[u] - live[u])
      BY <2>2 DEF NoLater, Dead
    <3>3. /\ bytes' = [bytes EXCEPT ![v] = @ + 1] /\ live' = [live EXCEPT ![v] = @ + 1]
          /\ Dead'[u] = bytes'[u] - live'[u]
      BY DEF Transfer, Dead
    <3>4. scan[t].io \in [Users -> 0 .. MaxBytes]
      BY <2>2 DEF PastBytes
    <3>5. CASE u = v
      <4>1. bytes'[u] = bytes[u] + 1 /\ live'[u] = live[u] + 1
        BY <3>3, <3>5 DEF ObservationInv, TypeOK
      <4>2. scan'[t].io[u] = scan[t].io[u] \/ scan'[t].io[u] = scan[t].io[u] + 1
        BY <2>1, <3>4, <3>5
      <4>3. QED
        BY <3>1, <3>2, <3>3, <4>1, <4>2
    <3>6. CASE u # v
      <4>1. bytes'[u] = bytes[u] /\ live'[u] = live[u]
        BY <3>3, <3>6 DEF ObservationInv, TypeOK
      <4>2. scan'[t].io[u] = scan[t].io[u]
        BY <2>1, <3>4, <3>6
      <4>3. QED
        BY <3>1, <3>2, <3>3, <4>1, <4>2
    <3>7. QED
      BY <3>5, <3>6
  <2>4. QED
    BY <2>1, <2>3 DEF NoLater
<1>5. [Next]_vars
  BY DEF Next
<1>6. Moments(p, a, d)'
  BY <1>2, <1>3, <1>4, <1>5, MomentsKept DEF ObservationInv
<1>7. QED
  BY <1>6

\* Processes end: what a scan does not find any more counts as ended for it too.
LEMMA ExitExport ==
    ASSUME ObservationInv, (TypeOK /\ LiveIsPart)',
           NEW v \in Users, NEW last \in BOOLEAN, NEW missed \in SUBSET Scanners,
           NEW rest \in 0 .. live[v], NEW lost \in [Threads -> 0 .. live[v]],
           ProcessesExit(v, rest, last, lost, missed)
    PROVE  ExportInv'
<1>1. SUFFICES ASSUME accidents' = {}
               PROVE  (\E p, a \in PastBytes, d \in [Threads -> PastBytes] : Moments(p, a, d))'
  BY DEF ExportInv
<1>2. UNCHANGED <<bytes, all, exported, prev, accidents>> /\ live' = [live EXCEPT ![v] = rest]
  BY DEF ProcessesExit, exportVars
<1>3. PICK p \in PastBytes, a \in PastBytes, d \in [Threads -> PastBytes] : Moments(p, a, d)
  BY <1>1, <1>2 DEF ObservationInv, ExportInv
<1> DEFINE Gone(t) ==
             IF Scanning(t) THEN [u \in Users |-> IF u = v THEN d[t][u] + lost[t] ELSE d[t][u]]
             ELSE d[t]
<1>4. ASSUME NEW t \in Threads, Scanning(t)
      PROVE  /\ Gone(t) \in PastBytes
             /\ scan'[t].late = scan[t].late
             /\ NoLater(scan[t].io, d[t], scan'[t].io, Gone(t))
             /\ NoLater(scan'[t].io, Gone(t), live', Dead')
  <2>1. /\ scan'[t].late = scan[t].late
        /\ lost[t] \in Nat /\ lost[t] <= live[v] - rest
        /\ scan'[t].io = [scan[t].io EXCEPT ![v] = @ - lost[t]]
    BY <1>4, ExitReads DEF ObservationInv
  <2>2. scan[t].io \in PastBytes /\ d[t] \in PastBytes /\ NoLater(scan[t].io, d[t], live, Dead)
    BY <1>3, <1>4, Readings DEF Moments, ObservationInv
  <2>3. Gone(t) = [u \in Users |-> IF u = v THEN d[t][u] + lost[t] ELSE d[t][u]]
    BY <1>4
  <2>4. ASSUME NEW u \in Users
        PROVE  /\ Gone(t)[u] \in 0 .. MaxBytes
               /\ d[t][u] <= Gone(t)[u]
               /\ scan[t].io[u] + d[t][u] <= scan'[t].io[u] + Gone(t)[u]
               /\ Gone(t)[u] <= Dead'[u]
               /\ scan'[t].io[u] + Gone(t)[u] <= live'[u] + Dead'[u]
    <3>1. /\ scan[t].io[u] \in Int /\ d[t][u] \in 0 .. MaxBytes /\ MaxBytes \in Nat
          /\ live[u] \in 0 .. MaxBytes /\ bytes[u] \in 0 .. MaxBytes /\ rest \in Nat
      BY <2>2, ObservationAssumption DEF PastBytes, ObservationInv, TypeOK
    <3>2. d[t][u] <= bytes[u] - live[u] /\ scan[t].io[u] + d[t][u] <= live[u] + (bytes[u] - live[u])
      BY <2>2 DEF NoLater, Dead
    <3>3. Dead'[u] = bytes[u] - live'[u]
      BY <1>2 DEF Dead
    <3>4. scan[t].io \in [Users -> 0 .. MaxBytes]
      BY <2>2 DEF PastBytes
    <3>5. CASE u = v
      <4>1. live'[u] = rest /\ Gone(t)[u] = d[t][u] + lost[t]
        BY <1>2, <2>3, <3>5 DEF ObservationInv, TypeOK
      <4>2. scan'[t].io[u] = scan[t].io[u] - lost[t]
        BY <2>1, <3>4, <3>5
      <4>3. lost[t] \in Nat /\ lost[t] <= live[u] - rest
        BY <2>1, <3>5
      <4> HIDE DEF Gone
      <4>4. QED
        BY <3>1, <3>2, <3>3, <4>1, <4>2, <4>3
    <3>6. CASE u # v
      <4>1. live'[u] = live[u] /\ Gone(t)[u] = d[t][u]
        BY <1>2, <2>3, <3>6 DEF ObservationInv, TypeOK
      <4>2. scan'[t].io[u] = scan[t].io[u]
        BY <2>1, <3>4, <3>6
      <4> HIDE DEF Gone
      <4>3. QED
        BY <3>1, <3>2, <3>3, <4>1, <4>2
    <3>7. QED
      BY <3>5, <3>6
  <2>5. Gone(t) \in PastBytes
    BY <2>3, <2>4 DEF PastBytes
  <2> HIDE DEF Gone
  <2>6. QED
    BY <2>1, <2>4, <2>5 DEF NoLater
<1>5. PICK c \in [Threads -> PastBytes] : \A t \in Threads : c[t] = Gone(t)
  <2>1. \A t \in Threads : Gone(t) \in PastBytes
    BY <1>4
  <2> HIDE DEF Gone
  <2>2. [t \in Threads |-> Gone(t)] \in [Threads -> PastBytes]
    BY <2>1
  <2>3. QED
    BY <2>2
<1> HIDE DEF Gone
<1>6. \A t \in Threads : Scanning(t)' =>
        /\ Scanning(t) /\ scan'[t].late = scan[t].late
        /\ NoLater(scan[t].io, d[t], scan'[t].io, c[t])
        /\ NoLater(scan'[t].io, c[t], live', Dead')
  <2>1. \A t \in Threads : Scanning(t)' => Scanning(t)
    BY ExitReads DEF ObservationInv
  <2>2. QED
    BY <1>4, <1>5, <2>1
<1>7. [Next]_vars
  BY DEF Next
<1>8. Moments(p, a, c)'
  BY <1>2, <1>3, <1>6, <1>7, MomentsKept DEF ObservationInv
<1>9. QED
  BY <1>8

\* A scan that starts will find what there is now.
LEMMA StartScanExport ==
    ASSUME ObservationInv, (TypeOK /\ LiveIsPart)',
           NEW t \in Threads, NEW e \in EntryNames, StartScan(t, e)
    PROVE  ExportInv'
<1>1. SUFFICES ASSUME accidents' = {}
               PROVE  (\E p, a \in PastBytes, d \in [Threads -> PastBytes] : Moments(p, a, d))'
  BY DEF ExportInv
<1>2. UNCHANGED <<bytes, live, all, exported, prev, accidents>> /\ all = NoEntry
  BY DEF StartScan, worldVars, exportVars, Valid
<1>3. PICK p \in PastBytes, a \in PastBytes, d \in [Threads -> PastBytes] : Moments(p, a, d)
  BY <1>1, <1>2 DEF ObservationInv, ExportInv
<1>4. /\ Dead \in PastBytes /\ live \in PastBytes /\ Dead' = Dead
      /\ NoLater(live, Dead, live, Dead)
  <2>1. Dead \in PastBytes /\ live \in PastBytes
    BY DeadBytes DEF ObservationInv
  <2>2. QED
    BY <1>2, <2>1, ObservationAssumption DEF Dead, NoLater, PastBytes
<1>5. PICK c \in [Threads -> PastBytes] : c = [d EXCEPT ![t] = Dead]
  BY <1>4
<1>6. ASSUME NEW r \in Threads, Scanning(r)'
      PROVE  /\ NoLater(scan'[r].io, c[r], live, Dead)
             /\ "scan" \notin scan'[r].late => NoLater(prev, p, scan'[r].io, c[r])
  <2>1. CASE r = t
    <3>1. scan'[r].io = live /\ c[r] = Dead
      BY <1>5, <2>1, ScanBegins DEF ObservationInv
    <3>2. QED
      BY <1>3, <1>4, <3>1 DEF Moments
  <2>2. CASE r # t
    <3>1. scan'[r] = scan[r] /\ c[r] = d[r] /\ Scanning(r)
      BY <1>5, <1>6, <2>2, ScanBegins DEF ObservationInv
    <3>2. QED
      BY <1>3, <3>1 DEF Moments
  <2>3. QED
    BY <2>1, <2>2
<1>7. Moments(p, a, c)'
  <2>1. (\A u \in Users : exported[u] <= prev[u] + p[u])' /\ NoLater(prev', p, live', Dead')
    BY <1>2, <1>3, <1>4 DEF Moments
  <2>2. QED
    BY <1>2, <1>4, <1>6, <2>1 DEF Moments
<1>8. QED
  BY <1>7

\* The loop exports the cached sample: the moment of prevIOStats becomes the
\* sample's.
LEMMA CachedExport ==
    ASSUME ObservationInv, all # NoEntry,
           UNCHANGED <<worldVars, all, scan>>,
           NEW cgroup \in IOStats, Export(all, cgroup)
    PROVE  ExportInv'
<1>1. SUFFICES ASSUME accidents' = {}
               PROVE  (\E p, a \in PastBytes, d \in [Threads -> PastBytes] : Moments(p, a, d))'
  BY DEF ExportInv
<1>2. accidents = {} /\ "scan" \notin all.late
  BY <1>1 DEF Export
<1>3. PICK p \in PastBytes, a \in PastBytes, d \in [Threads -> PastBytes] : Moments(p, a, d)
  BY <1>2 DEF ObservationInv, ExportInv
<1>4. all \in Samples
  BY DEF ObservationInv, TypeOK
<1>5. /\ \A u \in Users : exported'[u] <= prev'[u] + a[u]
      /\ NoLater(prev', a, all.io, a)
  <2>1. NoLater(prev, p, all.io, a) /\ \A u \in Users : exported[u] <= prev[u] + p[u]
    BY <1>2, <1>3 DEF Moments
  <2>2. QED
    BY <1>1, <1>4, <2>1, ExportKeepsBound DEF ObservationInv
<1>6. prev' \in PastBytes
  <2>1. cgroup \in [Users -> 0 .. MaxBytes] /\ all.io \in [Users -> 0 .. MaxBytes]
    BY <1>4 DEF IOStats, Samples
  <2>2. \A u \in Users : ExportedBytes(all, cgroup, u) \in 0 .. MaxBytes
    BY <2>1 DEF ExportedBytes
  <2>3. QED
    BY <2>2, ObservationAssumption DEF Export, PastBytes
<1>7. /\ Dead \in PastBytes /\ live \in PastBytes /\ all.io \in PastBytes
      /\ \A t \in Threads : Scanning(t) => scan[t].io \in PastBytes
  BY Readings DEF ObservationInv
<1>8. Dead' = Dead /\ live' = live
  BY DEF Dead, worldVars
<1>9. NoLater(prev', a, live, Dead)
  <2>1. NoLater(all.io, a, live, Dead)
    BY <1>3 DEF Moments
  <2>2. QED
    BY <1>5, <1>6, <1>7, <2>1, NoLaterTransitive
<1>10. \A t \in Threads : Scanning(t) =>
         NoLater(scan[t].io, d[t], live, Dead) /\ "scan" \in scan[t].late
  BY <1>3 DEF Moments
<1>11. Moments(a, a, d)'
  BY <1>3, <1>5, <1>8, <1>9, <1>10 DEF Moments, Scanning
<1>12. QED
  BY <1>11

\* A scan ends: its sample may become the cached one, and the loop may export it.
LEMMA EndScanExport ==
    ASSUME ObservationInv, (TypeOK /\ LiveIsPart)',
           NEW t \in Threads, NEW fallback \in BOOLEAN, EndScan(t, fallback)
    PROVE  ExportInv'
<1>1. SUFFICES ASSUME accidents' = {}
               PROVE  (\E p, a \in PastBytes, d \in [Threads -> PastBytes] : Moments(p, a, d))'
  BY DEF ExportInv
<1>2. /\ Scanning(t) /\ scan[t] \in ScanRecords
      /\ SampleOf(t) \in Samples /\ SampleOf(t).io = scan[t].io
      /\ SampleOf(t).late = scan[t].late
  <2>1. Scanning(t) /\ scan[t] \in ScanRecords
    BY DEF EndScan, Scanning, ObservationInv, TypeOK
  <2>2. QED
    BY <2>1, SampleOfScan DEF SampleOf
<1>3. UNCHANGED exportVars \/ \E cgroup \in IOStats : Export(SampleOf(t), cgroup)
  <2>1. CASE scan[t].wants = "all"
    BY <2>1, ScanEnds DEF Deliver
  <2>2. CASE scan[t].wants # "all"
    BY <2>2, ScanEnds
  <2>3. QED
    BY <2>1, <2>2
<1>4. accidents = {}
  BY <1>1, <1>3 DEF exportVars, Export
<1>5. PICK p \in PastBytes, a \in PastBytes, d \in [Threads -> PastBytes] : Moments(p, a, d)
  BY <1>4 DEF ObservationInv, ExportInv
<1>6. /\ Dead \in PastBytes /\ live \in PastBytes /\ prev' \in PastBytes
      /\ Dead' = Dead /\ live' = live
      /\ \A s \in Threads : d[s] \in PastBytes /\ (Scanning(s) => scan[s].io \in PastBytes)
  <2>1. UNCHANGED worldVars
    BY DEF EndScan
  <2>2. Dead' = Dead /\ live' = live
    BY <2>1 DEF Dead, worldVars
  <2>3. prev' \in PastBytes
    BY DEF TypeOK, PastBytes
  <2>4. QED
    BY <2>2, <2>3, Readings DEF ObservationInv
<1>7. /\ NoLater(scan[t].io, d[t], live, Dead)
      /\ "scan" \notin scan[t].late => NoLater(prev, p, scan[t].io, d[t])
  BY <1>2, <1>5 DEF Moments
<1> DEFINE Moved(q) == "scan" \notin scan[t].late /\ NoLater(prev', q, scan[t].io, d[t])
<1>8. PICK q \in PastBytes :
        /\ \A u \in Users : exported'[u] <= prev'[u] + q[u]
        /\ NoLater(prev', q, live, Dead)
        /\ (q = p /\ prev' = prev) \/ Moved(q)
  <2>1. CASE UNCHANGED exportVars
    BY <1>5, <2>1 DEF Moments, exportVars
  <2>2. ASSUME NEW cgroup \in IOStats, Export(SampleOf(t), cgroup)
        PROVE  /\ \A u \in Users : exported'[u] <= prev'[u] + d[t][u]
               /\ NoLater(prev', d[t], live, Dead)
               /\ Moved(d[t])
    <3>1. "scan" \notin scan[t].late
      BY <1>1, <1>2, <2>2 DEF Export
    <3>2. \A u \in Users : exported[u] <= prev[u] + p[u]
      BY <1>5 DEF Moments
    <3>3. NoLater(prev, p, SampleOf(t).io, d[t]) /\ d[t] \in PastBytes
      BY <1>2, <1>6, <1>7, <3>1
    <3>4. /\ \A u \in Users : exported'[u] <= prev'[u] + d[t][u]
          /\ NoLater(prev', d[t], SampleOf(t).io, d[t])
      BY <1>1, <1>2, <2>2, <3>2, <3>3, ExportKeepsBound DEF ObservationInv
    <3>5. NoLater(prev', d[t], scan[t].io, d[t]) /\ scan[t].io \in PastBytes
      BY <1>2, <1>6, <3>4
    <3>6. NoLater(prev', d[t], live, Dead)
      <4>1. Dead \in PastBytes /\ live \in PastBytes /\ prev' \in PastBytes
        BY <1>6
      <4>2. QED
        BY <1>7, <3>3, <3>5, <4>1, NoLaterTransitive
    <3>7. QED
      BY <3>1, <3>4, <3>5, <3>6
  <2>3. d[t] \in PastBytes
    BY <1>6
  <2>4. QED
    BY <1>3, <2>1, <2>2, <2>3
<1>9. PICK b \in PastBytes :
        \/ ~fallback /\ all' = SampleOf(t) /\ b = d[t]
        \/ fallback /\ all' = all /\ b = a
  <2>1. d[t] \in PastBytes
    BY <1>6
  <2>2. QED
    BY <2>1, ScanEnds
<1>10. all' # NoEntry =>
         /\ NoLater(all'.io, b, live, Dead)
         /\ "scan" \notin all'.late => NoLater(prev', q, all'.io, b)
  <2>1. CASE ~fallback /\ all' = SampleOf(t) /\ b = d[t]
    BY <1>2, <1>7, <1>8, <2>1
  <2>2. CASE fallback /\ all' = all /\ b = a
    <3>1. "scan" \notin scan[t].late => all = NoEntry
      BY <1>2, <1>5 DEF Moments
    <3>2. QED
      BY <1>5, <1>8, <2>2, <3>1 DEF Moments
  <2>3. QED
    BY <1>9, <2>1, <2>2
<1>11. ASSUME NEW r \in Threads, Scanning(r)'
       PROVE  NoLater(scan'[r].io, d[r], live, Dead) /\ "scan" \in scan'[r].late
  <2>1. Scanning(r) /\ scan'[r].io = scan[r].io /\ "scan" \in scan'[r].late
    BY <1>11, ScansLeft DEF ObservationInv
  <2>2. QED
    BY <1>5, <2>1 DEF Moments
<1>12. Moments(q, b, d)'
  BY <1>6, <1>8, <1>10, <1>11 DEF Moments
<1>13. QED
  BY <1>12

\* Every step keeps the moments.
LEMMA ExportStep ==
    ASSUME ObservationInv, (TypeOK /\ LiveIsPart)', [Next]_vars
    PROVE  ExportInv'
<1> USE DEF ObservationInv
<1> DEFINE Kept ==
             /\ UNCHANGED exportVars
             /\ all' # NoEntry => /\ all # NoEntry /\ all'.io = all.io
                                  /\ "scan" \in all.late => "scan" \in all'.late
             /\ \A t \in Threads : Scanning(t)' =>
                  /\ Scanning(t) /\ scan'[t].io = scan[t].io
                  /\ "scan" \in scan[t].late => "scan" \in scan'[t].late
<1>1. CASE Kept
  BY <1>1, OtherStepExport
<1>2. CASE UNCHANGED <<all, scan, exportVars>>
  <2>1. Kept
    BY <1>2 DEF Scanning
  <2>2. QED
    BY <1>1, <2>1
<1>3. CASE Tick
  <2>1. all' # NoEntry => all # NoEntry /\ all'.io = all.io /\ all'.late = all.late
    <3>1. all = NoEntry => all' = NoEntry
      BY <1>3 DEF Tick, Aged
    <3>2. QED
      BY <1>3, <3>1, AgedSample DEF Tick, TypeOK
  <2>2. UNCHANGED exportVars
    BY <1>3 DEF Tick
  <2>3. Kept
    BY <1>3, <2>1, <2>2, ScansKept
  <2>4. QED
    BY <1>1, <2>3
<1>4. ASSUME NEW u \in Users, NEW unread \in SUBSET Scanners, Transfer(u, unread)
      PROVE  ExportInv'
  BY <1>4, TransferExport
<1>5. ASSUME NEW u \in Users, NEW last \in BOOLEAN, NEW missed \in SUBSET Scanners,
             NEW rest \in 0 .. live[u], NEW lost \in [Threads -> 0 .. live[u]],
             ProcessesExit(u, rest, last, lost, missed)
      PROVE  ExportInv'
  BY <1>5, ExitExport
<1>6. CASE SetConfig
  <2>1. all' # NoEntry => all # NoEntry /\ all'.io = all.io /\ all'.late = all.late
    <3>1. all = NoEntry => all' = NoEntry
      BY <1>6 DEF SetConfig, Outdated
    <3>2. QED
      BY <1>6, <3>1, OutdatedSample DEF SetConfig, TypeOK
  <2>2. UNCHANGED <<scan, exportVars>>
    BY <1>6 DEF SetConfig
  <2>3. Kept
    BY <2>1, <2>2 DEF Scanning
  <2>4. QED
    BY <1>1, <2>3
<1>7. CASE ClearCache
  <2>1. all' = NoEntry /\ UNCHANGED exportVars
    BY <1>7 DEF ClearCache
  <2>2. Kept
    BY <1>7, <2>1, ScansKept
  <2>3. QED
    BY <1>1, <2>2
<1>8. ASSUME NEW t \in Threads, NEW e \in EntryNames, AnswerFromCache(t, e)
      PROVE  ExportInv'
  <2>1. CASE t = "loop" /\ e = "all"
    <3>1. all # NoEntry /\ UNCHANGED <<worldVars, all, scan>>
      BY <1>8, <2>1 DEF AnswerFromCache, Valid
    <3>2. PICK cgroup \in IOStats : Export(all, cgroup)
      BY <1>8, <2>1 DEF AnswerFromCache, Deliver
    <3>3. QED
      BY <3>1, <3>2, CachedExport
  <2>2. CASE ~(t = "loop" /\ e = "all")
    BY <1>2, <1>8, <2>2 DEF AnswerFromCache, Deliver
  <2>3. QED
    BY <2>1, <2>2
<1>9. ASSUME NEW t \in Threads, NEW e \in EntryNames, StartScan(t, e)
      PROVE  ExportInv'
  BY <1>9, StartScanExport
<1>10. ASSUME NEW t \in Threads, StartDerive(t) \/ EndDerive(t)
       PROVE  ExportInv'
  BY <1>2, <1>10 DEF StartDerive, EndDerive, Deliver
<1>11. ASSUME NEW t \in Threads, NEW fallback \in BOOLEAN, EndScan(t, fallback)
       PROVE  ExportInv'
  BY <1>11, EndScanExport
<1>12. ASSUME NEW u \in Users, Login(u)
       PROVE  ExportInv'
  BY <1>2, <1>12 DEF Login
<1>13. CASE UNCHANGED vars
  BY <1>2, <1>13 DEF vars
<1>14. QED
  BY <1>3, <1>4, <1>5, <1>6, <1>7, <1>8, <1>9, <1>10, <1>11, <1>12, <1>13 DEF Next

\* The IO counters of Prometheus never show more than a user's processes have
\* transferred, as long as no sample of a scan during which another one ended and no
\* cgroup counter has been exported: for any number of threads that scan, each
\* reading the processes one after the other, any number of users whose processes
\* end, log out and come back, and whatever the cache returns.
THEOREM CountersAreReal == Spec => []ExportedIOIsReal
<1>1. Init => ExportInv
  <2>1. SUFFICES ASSUME Init
                 PROVE  ExportInv
    OBVIOUS
  <2>2. PICK z \in PastBytes : z = [u \in Users |-> 0]
    <3>1. 0 \in 0 .. MaxBytes
      BY ObservationAssumption
    <3>2. [u \in Users |-> 0] \in PastBytes
      BY <3>1 DEF PastBytes
    <3>3. QED
      BY <3>2
  <2>3. PICK d \in [Threads -> PastBytes] : d = [t \in Threads |-> z]
    BY <2>2
  <2>4. Moments(z, z, d)
    BY <2>1, <2>2 DEF Init, Moments, NoLater, Dead, Scanning
  <2>5. QED
    BY <2>4 DEF ExportInv
<1>2. TypeOK /\ LiveIsPart /\ (TypeOK /\ LiveIsPart)' /\ ExportInv /\ [Next]_vars => ExportInv'
  BY ExportStep DEF ObservationInv
<1>3. TypeOK /\ LiveIsPart /\ ExportInv => ExportedIOIsReal
  <2>1. SUFFICES ASSUME TypeOK, LiveIsPart, ExportInv, accidents = {}, NEW u \in Users
                 PROVE  exported[u] <= bytes[u]
    BY DEF ExportedIOIsReal
  <2>2. PICK p \in PastBytes, a \in PastBytes, d \in [Threads -> PastBytes] : Moments(p, a, d)
    BY <2>1 DEF ExportInv
  <2>3. exported[u] <= prev[u] + p[u] /\ prev[u] + p[u] <= live[u] + (bytes[u] - live[u])
    BY <2>2 DEF Moments, NoLater, Dead
  <2>4. /\ exported[u] \in Int /\ prev[u] \in Int /\ p[u] \in Int
        /\ live[u] \in Int /\ bytes[u] \in Int
    BY <2>1, ObservationAssumption DEF TypeOK, PastBytes, MaxExported
  <2>5. QED
    BY <2>3, <2>4
<1>4. QED
  BY <1>1, <1>2, <1>3, TypeInvariant, PTL DEF Spec
=============================================================================
