------------------------ MODULE CgroupTracking_proofs -----------------------
(***************************************************************************)
(* Proofs about CgroupTracking, for any number of users and of threads.    *)
(***************************************************************************)
EXTENDS CgroupTracking, TLAPS

\* The user u has a directory that a thread has made and not yet recorded.
Making(u) == \E c \in Callers : call[c].at = "making" /\ call[c].uid = u

\* Manager.mu is held by one thread or by the rewrite of the file, not by both,
\* and only a rewrite holds lines in memory, of a file that it has truncated.
LockInv ==
    /\ phase = "rewrite" => file = {} /\ \A c \in Callers : call[c].at # "making"
    /\ phase # "rewrite" => lines = {}
    /\ phase = "down" => \A c \in Callers : call[c].at = "idle"

\* A directory that is being recorded is there.
MadeInv ==
    \A c \in Callers : call[c].at = "making" => call[c].uid \in dir

\* Until CleanupAll starts, a call that got past CreateUserCgroup has its directory.
PresentInv ==
    phase \in {"up", "down"} =>
        \A c \in Callers : call[c].at \in {"write", "move"} => call[c].uid \in dir

\* Every directory is known to the running process, and to the file or to the
\* process that is rewriting it, or it was forgotten, or it is just being made.
KnownInv ==
    /\ phase # "down" => \A u \in dir : u \in created \/ u \in forgotten \/ Making(u)
    /\ \A u \in dir : u \in file \/ u \in lines \/ u \in forgotten \/ Making(u)

TrackInv ==
    /\ TypeOK
    /\ created \subseteq dir
    /\ LockInv
    /\ MadeInv
    /\ PresentInv
    /\ KnownInv
-----------------------------------------------------------------------------
\* The first state of the daemon: nothing is tracked and nothing exists.
LEMMA TrackInit == Init => TrackInv
BY DEF Init, Idle, Steps, TrackInv, TypeOK, LockInv, MadeInv, PresentInv, KnownInv, Making

\* A step of a call into cgroup.Manager keeps every part of the invariant.
LEMMA TrackCallStep ==
    ASSUME TrackInv, NEW c \in Callers, CallStep(c)
    PROVE  TrackInv'
<1> USE DEF TrackInv, Free, GoTo
<1>1. ASSUME NEW u \in Users, EnsureByStat(c, u) PROVE TrackInv'
  <2>1. TypeOK'
    BY <1>1 DEF EnsureByStat, MayCall, Running, TypeOK, Steps
  <2>2. (created \subseteq dir)'
    BY <1>1 DEF EnsureByStat, MayCall, Running, MadeInv, TypeOK
  <2>3. LockInv'
    BY <1>1 DEF EnsureByStat, MayCall, Running, LockInv, TypeOK
  <2>4. MadeInv'
    BY <1>1 DEF EnsureByStat, MayCall, Running, MadeInv, LockInv, TypeOK
  <2>5. PresentInv'
    BY <1>1 DEF EnsureByStat, MayCall, Running, PresentInv, MadeInv, TypeOK
  <2>6. KnownInv'
    BY <1>1 DEF EnsureByStat, MayCall, Running, KnownInv, LockInv, MadeInv, Making, TypeOK
  <2> QED
    BY <2>1, <2>2, <2>3, <2>4, <2>5, <2>6
<1>2. ASSUME NEW u \in Users, EnsureByMap(c, u) PROVE TrackInv'
  <2>1. TypeOK'
    BY <1>2 DEF EnsureByMap, MayCall, Running, TypeOK, Steps
  <2>2. (created \subseteq dir)'
    BY <1>2 DEF EnsureByMap, MayCall, Running, MadeInv, TypeOK
  <2>3. LockInv'
    BY <1>2 DEF EnsureByMap, MayCall, Running, LockInv, TypeOK
  <2>4. MadeInv'
    BY <1>2 DEF EnsureByMap, MayCall, Running, MadeInv, LockInv, TypeOK
  <2>5. PresentInv'
    BY <1>2 DEF EnsureByMap, MayCall, Running, PresentInv, MadeInv, TypeOK
  <2>6. KnownInv'
    BY <1>2 DEF EnsureByMap, MayCall, Running, KnownInv, LockInv, MadeInv, Making, TypeOK
  <2> QED
    BY <2>1, <2>2, <2>3, <2>4, <2>5, <2>6
<1>3. CASE AlreadyCreated(c)
  <2>1. TypeOK'
    BY <1>3 DEF AlreadyCreated, TypeOK, Steps
  <2>2. (created \subseteq dir)'
    BY <1>3 DEF AlreadyCreated, MadeInv, TypeOK
  <2>3. LockInv'
    BY <1>3 DEF AlreadyCreated, LockInv, TypeOK
  <2>4. MadeInv'
    BY <1>3 DEF AlreadyCreated, MadeInv, LockInv, TypeOK
  <2>5. PresentInv'
    BY <1>3 DEF AlreadyCreated, PresentInv, MadeInv, TypeOK
  <2>6. KnownInv'
    BY <1>3 DEF AlreadyCreated, KnownInv, LockInv, MadeInv, Making, TypeOK
  <2> QED
    BY <2>1, <2>2, <2>3, <2>4, <2>5, <2>6
<1>4. CASE MakeDir(c)
  <2>1. TypeOK'
    BY <1>4 DEF MakeDir, TypeOK, Steps
  <2>2. (created \subseteq dir)'
    BY <1>4 DEF MakeDir, MadeInv, TypeOK
  <2>3. LockInv'
    BY <1>4 DEF MakeDir, LockInv, TypeOK
  <2>4. MadeInv'
    BY <1>4 DEF MakeDir, MadeInv, LockInv, TypeOK
  <2>5. PresentInv'
    BY <1>4 DEF MakeDir, PresentInv, MadeInv, TypeOK
  <2>6. KnownInv'
    BY <1>4 DEF MakeDir, KnownInv, LockInv, MadeInv, Making, TypeOK
  <2> QED
    BY <2>1, <2>2, <2>3, <2>4, <2>5, <2>6
<1>5. CASE TrackDir(c)
  <2>1. TypeOK'
    BY <1>5 DEF TrackDir, TypeOK, Steps
  <2>2. (created \subseteq dir)'
    BY <1>5 DEF TrackDir, MadeInv, TypeOK
  <2>3. LockInv'
    BY <1>5 DEF TrackDir, LockInv, TypeOK
  <2>4. MadeInv'
    BY <1>5 DEF TrackDir, MadeInv, LockInv, TypeOK
  <2>5. PresentInv'
    BY <1>5 DEF TrackDir, PresentInv, MadeInv, TypeOK
  <2>6. KnownInv'
    BY <1>5 DEF TrackDir, KnownInv, LockInv, MadeInv, Making, TypeOK
  <2> QED
    BY <2>1, <2>2, <2>3, <2>4, <2>5, <2>6
<1>6. CASE WriteKnob(c)
  <2>1. TypeOK'
    BY <1>6 DEF WriteKnob, TypeOK, Steps
  <2>2. (created \subseteq dir)'
    BY <1>6 DEF WriteKnob, MadeInv, TypeOK
  <2>3. LockInv'
    BY <1>6 DEF WriteKnob, LockInv, TypeOK
  <2>4. MadeInv'
    BY <1>6 DEF WriteKnob, MadeInv, LockInv, TypeOK
  <2>5. PresentInv'
    BY <1>6 DEF WriteKnob, PresentInv, MadeInv, TypeOK
  <2>6. KnownInv'
    BY <1>6 DEF WriteKnob, KnownInv, LockInv, MadeInv, Making, TypeOK
  <2> QED
    BY <2>1, <2>2, <2>3, <2>4, <2>5, <2>6
<1>7. CASE MoveAllUserProcesses(c)
  <2>1. TypeOK'
    BY <1>7 DEF MoveAllUserProcesses, TypeOK, Steps
  <2>2. (created \subseteq dir)'
    BY <1>7 DEF MoveAllUserProcesses, MadeInv, TypeOK
  <2>3. LockInv'
    BY <1>7 DEF MoveAllUserProcesses, LockInv, TypeOK
  <2>4. MadeInv'
    BY <1>7 DEF MoveAllUserProcesses, MadeInv, LockInv, TypeOK
  <2>5. PresentInv'
    BY <1>7 DEF MoveAllUserProcesses, PresentInv, MadeInv, TypeOK
  <2>6. KnownInv'
    BY <1>7 DEF MoveAllUserProcesses, KnownInv, LockInv, MadeInv, Making, TypeOK
  <2> QED
    BY <2>1, <2>2, <2>3, <2>4, <2>5, <2>6
<1> QED
  BY <1>1, <1>2, <1>3, <1>4, <1>5, <1>6, <1>7 DEF CallStep

\* A step of CleanupAll keeps every part of the invariant.
LEMMA TrackCleanup == TrackInv /\ Cleanup => TrackInv'
<1> SUFFICES ASSUME TrackInv, Cleanup PROVE TrackInv'
  OBVIOUS
<1> USE DEF TrackInv, Free
<1>1. CASE BeginCleanupAll
  <2>1. TypeOK'
    BY <1>1 DEF BeginCleanupAll, TypeOK, Steps
  <2>2. (created \subseteq dir)'
    BY <1>1 DEF BeginCleanupAll, MadeInv, TypeOK
  <2>3. LockInv'
    BY <1>1 DEF BeginCleanupAll, LockInv, TypeOK
  <2>4. MadeInv'
    BY <1>1 DEF BeginCleanupAll, MadeInv, LockInv, TypeOK
  <2>5. PresentInv'
    BY <1>1 DEF BeginCleanupAll, PresentInv, MadeInv, TypeOK
  <2>6. KnownInv'
    BY <1>1 DEF BeginCleanupAll, KnownInv, LockInv, MadeInv, Making, TypeOK
  <2> QED
    BY <2>1, <2>2, <2>3, <2>4, <2>5, <2>6
<1>2. CASE RewriteFile
  <2>1. TypeOK'
    BY <1>2 DEF RewriteFile, TypeOK, Steps
  <2>2. (created \subseteq dir)'
    BY <1>2 DEF RewriteFile, MadeInv, TypeOK
  <2>3. LockInv'
    BY <1>2 DEF RewriteFile, LockInv, TypeOK
  <2>4. MadeInv'
    BY <1>2 DEF RewriteFile, MadeInv, LockInv, TypeOK
  <2>5. PresentInv'
    BY <1>2 DEF RewriteFile, PresentInv, MadeInv, TypeOK
  <2>6. KnownInv'
    BY <1>2 DEF RewriteFile, KnownInv, LockInv, MadeInv, Making, TypeOK
  <2> QED
    BY <2>1, <2>2, <2>3, <2>4, <2>5, <2>6
<1>3. CASE DeleteTrackingFile
  <2>1. TypeOK'
    BY <1>3 DEF DeleteTrackingFile, TypeOK, Steps
  <2>2. (created \subseteq dir)'
    BY <1>3 DEF DeleteTrackingFile, MadeInv, TypeOK
  <2>3. LockInv'
    BY <1>3 DEF DeleteTrackingFile, LockInv, TypeOK
  <2>4. MadeInv'
    BY <1>3 DEF DeleteTrackingFile, MadeInv, LockInv, TypeOK
  <2>5. PresentInv'
    BY <1>3 DEF DeleteTrackingFile, PresentInv, MadeInv, TypeOK
  <2>6. KnownInv'
    BY <1>3 DEF DeleteTrackingFile, KnownInv, LockInv, MadeInv, Making, TypeOK
  <2> QED
    BY <2>1, <2>2, <2>3, <2>4, <2>5, <2>6
<1>4. ASSUME NEW u \in Users, CleanupUserCgroup(u) PROVE TrackInv'
  <2>1. TypeOK'
    BY <1>4 DEF CleanupUserCgroup, TypeOK, Steps
  <2>2. (created \subseteq dir)'
    BY <1>4 DEF CleanupUserCgroup, MadeInv, TypeOK
  <2>3. LockInv'
    BY <1>4 DEF CleanupUserCgroup, LockInv, TypeOK
  <2>4. MadeInv'
    BY <1>4 DEF CleanupUserCgroup, MadeInv, LockInv, TypeOK
  <2>5. PresentInv'
    BY <1>4 DEF CleanupUserCgroup, PresentInv, MadeInv, TypeOK
  <2>6. KnownInv'
    BY <1>4 DEF CleanupUserCgroup, KnownInv, LockInv, MadeInv, Making, TypeOK
  <2> QED
    BY <2>1, <2>2, <2>3, <2>4, <2>5, <2>6
<1>5. ASSUME NEW u \in Users, CleanupUserCgroupFails(u) PROVE TrackInv'
  <2>1. TypeOK'
    BY <1>5 DEF CleanupUserCgroupFails, TypeOK, Steps
  <2>2. (created \subseteq dir)'
    BY <1>5 DEF CleanupUserCgroupFails, MadeInv, TypeOK
  <2>3. LockInv'
    BY <1>5 DEF CleanupUserCgroupFails, LockInv, TypeOK
  <2>4. MadeInv'
    BY <1>5 DEF CleanupUserCgroupFails, MadeInv, LockInv, TypeOK
  <2>5. PresentInv'
    BY <1>5 DEF CleanupUserCgroupFails, PresentInv, MadeInv, TypeOK
  <2>6. KnownInv'
    BY <1>5 DEF CleanupUserCgroupFails, KnownInv, LockInv, MadeInv, Making, TypeOK
  <2> QED
    BY <2>1, <2>2, <2>3, <2>4, <2>5, <2>6
<1> QED
  BY <1>1, <1>2, <1>3, <1>4, <1>5 DEF Cleanup

\* Processes that leave, the end of the daemon, a reboot and the next start
\* keep every part of the invariant.
LEMMA TrackOutside ==
    ASSUME TrackInv,
           (\E u \in Users : ProcessesLeave(u)) \/ Exit \/ Reboot \/ Boot
    PROVE  TrackInv'
<1> USE DEF TrackInv
<1>1. ASSUME NEW u \in Users, ProcessesLeave(u) PROVE TrackInv'
  <2>1. TypeOK'
    BY <1>1 DEF ProcessesLeave, TypeOK, Steps
  <2>2. (created \subseteq dir)'
    BY <1>1 DEF ProcessesLeave, MadeInv, TypeOK
  <2>3. LockInv'
    BY <1>1 DEF ProcessesLeave, LockInv, TypeOK
  <2>4. MadeInv'
    BY <1>1 DEF ProcessesLeave, MadeInv, LockInv, TypeOK
  <2>5. PresentInv'
    BY <1>1 DEF ProcessesLeave, PresentInv, MadeInv, TypeOK
  <2>6. KnownInv'
    BY <1>1 DEF ProcessesLeave, KnownInv, LockInv, MadeInv, Making, TypeOK
  <2> QED
    BY <2>1, <2>2, <2>3, <2>4, <2>5, <2>6
<1>2. CASE Exit
  <2>1. TypeOK'
    BY <1>2 DEF Exit, Stopped, Interrupted, Running, TypeOK, Steps
  <2>2. (created \subseteq dir)'
    BY <1>2 DEF Exit, Stopped, Interrupted, Running, MadeInv, TypeOK
  <2>3. LockInv'
    BY <1>2 DEF Exit, Stopped, Interrupted, Running, LockInv, TypeOK
  <2>4. MadeInv'
    BY <1>2 DEF Exit, Stopped, Interrupted, Running, MadeInv, LockInv, TypeOK
  <2>5. PresentInv'
    BY <1>2 DEF Exit, Stopped, Interrupted, Running, PresentInv, MadeInv, TypeOK
  <2>6. KnownInv'
    BY <1>2 DEF Exit, Stopped, Interrupted, Running, KnownInv, LockInv, MadeInv, Making, TypeOK
  <2> QED
    BY <2>1, <2>2, <2>3, <2>4, <2>5, <2>6
<1>3. CASE Reboot
  <2>1. TypeOK'
    BY <1>3 DEF Reboot, Stopped, TypeOK, Steps
  <2>2. (created \subseteq dir)'
    BY <1>3 DEF Reboot, Stopped, MadeInv, TypeOK
  <2>3. LockInv'
    BY <1>3 DEF Reboot, Stopped, LockInv, TypeOK
  <2>4. MadeInv'
    BY <1>3 DEF Reboot, Stopped, MadeInv, LockInv, TypeOK
  <2>5. PresentInv'
    BY <1>3 DEF Reboot, Stopped, PresentInv, MadeInv, TypeOK
  <2>6. KnownInv'
    BY <1>3 DEF Reboot, Stopped, KnownInv, LockInv, MadeInv, Making, TypeOK
  <2> QED
    BY <2>1, <2>2, <2>3, <2>4, <2>5, <2>6
<1>4. CASE Boot
  <2>1. TypeOK'
    BY <1>4 DEF Boot, TypeOK, Steps
  <2>2. (created \subseteq dir)'
    BY <1>4 DEF Boot, MadeInv, TypeOK
  <2>3. LockInv'
    BY <1>4 DEF Boot, LockInv, TypeOK
  <2>4. MadeInv'
    BY <1>4 DEF Boot, MadeInv, LockInv, TypeOK
  <2>5. PresentInv'
    BY <1>4 DEF Boot, PresentInv, MadeInv, TypeOK
  <2>6. KnownInv'
    BY <1>4 DEF Boot, KnownInv, LockInv, MadeInv, Making, TypeOK
  <2> QED
    BY <2>1, <2>2, <2>3, <2>4, <2>5, <2>6
<1> QED
  BY <1>1, <1>2, <1>3, <1>4

\* TrackInv is an inductive invariant of the specification.
THEOREM TrackInvariant == Spec => []TrackInv
<1>1. TrackInv /\ [Next]_vars => TrackInv'
  <2> SUFFICES ASSUME TrackInv, [Next]_vars PROVE TrackInv'
    OBVIOUS
  <2>1. CASE UNCHANGED vars
    BY <2>1 DEF vars, TrackInv, TypeOK, LockInv, MadeInv, PresentInv, KnownInv, Making
  <2>2. CASE Next
    BY <2>2, TrackCallStep, TrackCleanup, TrackOutside DEF Next
  <2> QED
    BY <2>1, <2>2
<1> QED
  BY TrackInit, <1>1, PTL DEF Spec

-----------------------------------------------------------------------------
\* Whatever the order of calls, kills, reboots and restarts, a cgroup leaves
\* createdCgroups only in the accidents that the ghost records.
THEOREM OnlyAccidentsLoseTrack == Spec => []OnlyAccidentsForget
<1>1. TrackInv => OnlyAccidentsForget
  BY DEF TrackInv, KnownInv, Making, OnlyAccidentsForget, Running, Free
<1> QED
  BY TrackInvariant, <1>1, PTL

\* createdCgroups never names a directory that is gone, so the early return of
\* CreateUserCgroup is sound.
THEOREM MapIsReal == Spec => []MapNamesExistingDirs
<1>1. TrackInv => MapNamesExistingDirs
  BY DEF TrackInv, MapNamesExistingDirs
<1> QED
  BY TrackInvariant, <1>1, PTL

\* MoveProcessToCgroup refuses only forgotten cgroups, for any number of
\* threads that apply limits to one user.
THEOREM MovesAreRefusedOnlyIfForgotten == Spec => []RefusedOnlyIfForgotten
<1>1. TrackInv => RefusedOnlyIfForgotten
  BY DEF TrackInv, TypeOK, PresentInv, KnownInv, Making, RefusedOnlyIfForgotten, Free
<1> QED
  BY TrackInvariant, <1>1, PTL
=============================================================================
