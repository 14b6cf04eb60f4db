----------------------- MODULE SessionLifecycle_proofs -----------------------
(***************************************************************************)
(* Proofs about the life of a session, for any number of connections,      *)
(* runner starts, boots and daemon processes, whether bootout succeeds,    *)
(* fails or does either, and whether the user may ask twice for an end.    *)
(* The inductive invariant has one part per question; each part is kept by *)
(* every action, one step per action.                                      *)
(***************************************************************************)
EXTENDS SessionLifecycle, TLAPS

(* A daemon stops only while the bound lets it start again.                *)
DownIsBounded == ~up => daemons < MaxDaemons

(* The conjuncts of TypeOK, by what disturbs them together.                *)
HostType == /\ boot \in 1..MaxBoots /\ starts \in 0..MaxStarts
            /\ run \in Stages /\ loaded \in BOOLEAN
            /\ exits \subseteq Pids /\ told \subseteq Pids
            /\ lane \subseteq Facts
            /\ daemons \in 1..MaxDaemons /\ up \in BOOLEAN
            /\ session \in Conns \cup {NoConn}
            /\ watch \in Watches /\ timer \in BOOLEAN
            /\ hello \in 0..MaxStarts
            /\ asked \subseteq 1..MaxBoots
FilesType == disk \in Files
ConnType == conn \in [Conns -> ConnStates]
ActorType == /\ pc \in [Actors -> Places]
             /\ held \in [Dialers -> Conns \cup {NoConn}]
             /\ \A a \in Dialers : pc[a] \in {"register", "manage"} <=> held[a] # NoConn
PassType == pass \in Passes /\ plan \in Plans

(* The parts are the type invariant.                                       *)
LEMMA TypeParts == TypeOK <=> HostType /\ FilesType /\ ConnType /\ ActorType /\ PassType
  BY DEF TypeOK, HostType, FilesType, ConnType, ActorType, PassType

(* The numbers the files and the discovery pass are given.                 *)
LEMMA Bounds ==
    ASSUME HostType
    PROVE  /\ 0 \in 0..MaxBoots /\ boot \in 0..MaxBoots
           /\ 0 \in 0..NoMeta /\ NoMeta \in 0..NoMeta /\ hello \in 0..NoMeta
           /\ starts \in 0..MaxStarts /\ 0 \in 0..MaxStarts
           /\ (starts < MaxStarts => starts + 1 \in 0..NoMeta)
  BY BoundAssumption DEF HostType, NoMeta

(* The counters stay within their bounds.                                  *)
LEMMA HostBounds ==
    ASSUME HostType
    PROVE  /\ 0 \in 0..MaxStarts
           /\ (starts < MaxStarts => starts + 1 \in 0..MaxStarts)
           /\ (boot < MaxBoots => boot + 1 \in 1..MaxBoots)
           /\ (daemons < MaxDaemons => daemons + 1 \in 1..MaxDaemons)
  BY BoundAssumption DEF HostType

(* Booting a job out keeps the types of what it changes.                   *)
LEMMA ReapType ==
    ASSUME HostType, NEW files \in Files, NEW ok \in BOOLEAN, Reap(files, ok)
    PROVE  disk' \in Files /\ loaded' \in BOOLEAN /\ run' \in Stages
<1>1. disk' \in Files
  <2>1. CASE files.plist /\ ok
    <3> DEFINE s == IF Answers THEN FALSE ELSE files.sock
               m == IF Answers THEN NoMeta ELSE files.meta
    <3>1. s \in BOOLEAN /\ m \in 0..NoMeta
      BY Bounds DEF Files
    <3>2. disk' = [files EXCEPT !.plist = FALSE, !.permit = 0, !.marker = FALSE,
                                !.sock = s, !.meta = m]
      BY <2>1 DEF Reap
    <3> HIDE DEF s, m
    <3> QED BY <3>1, <3>2, Bounds DEF Files
  <2>2. CASE ~(files.plist /\ ok)
    <3>1. disk' = [files EXCEPT !.permit = 0, !.marker = FALSE]
      BY <2>2 DEF Reap
    <3> QED BY <3>1, Bounds DEF Files
  <2> QED BY <2>1, <2>2
<1>2. loaded' \in BOOLEAN /\ run' \in Stages
  BY DEF Reap, HostType, Stages, Files
<1> QED BY <1>1, <1>2

(* Booting a job out leaves each connection a known state.                 *)
LEMMA ReapedType ==
    ASSUME ConnType, NEW files, NEW ok
    PROVE  Reaped(files, ok) \in [Conns -> ConnStates]
  BY DEF ConnType, Reaped, Hangup, ConnStates

(* Every step keeps the types.                                             *)
LEMMA TypeStep ==
    ASSUME TypeOK, DownIsBounded, [Next]_vars
    PROVE  TypeOK' /\ DownIsBounded'
<1>0. HostType /\ FilesType /\ ConnType /\ ActorType /\ PassType
  BY TypeParts
<1> SUFFICES (HostType /\ FilesType /\ ConnType /\ ActorType /\ PassType)' /\ DownIsBounded'
  BY DEF TypeOK, HostType, FilesType, ConnType, ActorType, PassType
<1> USE <1>0
<1>1. CASE LaunchdStarts
  BY <1>1, ConnAssumption, BoundAssumption, SwitchAssumption
  DEF LaunchdStarts, HostType, FilesType, ConnType, ActorType, PassType, Files, Stages, Watches, Places, Facts, ConnStates, Passes, Plans, Dialers, Actors, Pids, NoMeta, hostVars, daemonVars, DownIsBounded
<1>2. CASE RunnerBinds
  <2>1. HostType'
    BY <1>2, HostBounds DEF RunnerBinds, Permitted, HostType, Stages, Watches, Facts, Pids, Files, hostVars, daemonVars
  <2>2. FilesType'
    BY <1>2, Bounds DEF RunnerBinds, Permitted, FilesType, Files, hostVars, daemonVars
  <2>3. ConnType'
    BY <1>2, ConnAssumption, BoundAssumption, SwitchAssumption DEF RunnerBinds, Permitted, ConnType, ConnStates, hostVars, daemonVars
  <2>4. ActorType'
    BY <1>2, ConnAssumption, BoundAssumption, SwitchAssumption DEF RunnerBinds, Permitted, ActorType, Dialers, Actors, Places, hostVars, daemonVars
  <2>5. PassType'
    BY <1>2, Bounds DEF RunnerBinds, Permitted, PassType, Passes, Plans, Stages, Files, hostVars, daemonVars
  <2>6. DownIsBounded'
    BY <1>2, BoundAssumption DEF RunnerBinds, Permitted, DownIsBounded, HostType, hostVars, daemonVars
  <2> QED BY <2>1, <2>2, <2>3, <2>4, <2>5, <2>6
<1>3. CASE RunnerDeclines
  <2>1. HostType'
    BY <1>3, HostBounds DEF RunnerDeclines, Permitted, HostType, Stages, Watches, Facts, Pids, Files, hostVars, daemonVars
  <2>2. FilesType'
    BY <1>3, Bounds DEF RunnerDeclines, Permitted, FilesType, Files, hostVars, daemonVars
  <2>3. ConnType'
    BY <1>3, ConnAssumption, BoundAssumption, SwitchAssumption DEF RunnerDeclines, Permitted, ConnType, ConnStates, hostVars, daemonVars
  <2>4. ActorType'
    BY <1>3, ConnAssumption, BoundAssumption, SwitchAssumption DEF RunnerDeclines, Permitted, ActorType, Dialers, Actors, Places, hostVars, daemonVars
  <2>5. PassType'
    BY <1>3, Bounds DEF RunnerDeclines, Permitted, PassType, Passes, Plans, Stages, Files, hostVars, daemonVars
  <2>6. DownIsBounded'
    BY <1>3, BoundAssumption DEF RunnerDeclines, Permitted, DownIsBounded, HostType, hostVars, daemonVars
  <2> QED BY <2>1, <2>2, <2>3, <2>4, <2>5, <2>6
<1>4. CASE RunnerListens
  <2>1. HostType'
    BY <1>4, HostBounds DEF RunnerListens, HostType, Stages, Watches, Facts, Pids, Files, hostVars, daemonVars
  <2>2. FilesType'
    BY <1>4, Bounds DEF RunnerListens, FilesType, Files, hostVars, daemonVars
  <2>3. ConnType'
    BY <1>4 DEF RunnerListens, ConnType, ConnStates, daemonVars
  <2>4. ActorType'
    BY <1>4 DEF RunnerListens, ActorType, Dialers, Actors, Places, daemonVars
  <2>5. PassType'
    BY <1>4 DEF RunnerListens, PassType, Passes, Plans, Stages, Files, NoMeta, daemonVars
  <2>6. DownIsBounded'
    BY <1>4 DEF RunnerListens, DownIsBounded, HostType, daemonVars
  <2> QED BY <2>1, <2>2, <2>3, <2>4, <2>5, <2>6
<1>5. CASE RunnerEnds
  <2>1. HostType'
    BY <1>5, HostBounds DEF RunnerEnds, Hangup, HostType, Stages, Watches, Facts, Pids, Files, hostVars, daemonVars
  <2>2. FilesType'
    BY <1>5, Bounds DEF RunnerEnds, Hangup, FilesType, Files, hostVars, daemonVars
  <2>3. ConnType'
    BY <1>5, ConnAssumption, BoundAssumption, SwitchAssumption DEF RunnerEnds, Hangup, ConnType, ConnStates, hostVars, daemonVars
  <2>4. ActorType'
    BY <1>5, ConnAssumption, BoundAssumption, SwitchAssumption DEF RunnerEnds, Hangup, ActorType, Dialers, Actors, Places, hostVars, daemonVars
  <2>5. PassType'
    BY <1>5, Bounds DEF RunnerEnds, Hangup, PassType, Passes, Plans, Stages, Files, hostVars, daemonVars
  <2>6. DownIsBounded'
    BY <1>5, BoundAssumption DEF RunnerEnds, DownIsBounded, HostType, hostVars, daemonVars
  <2> QED BY <2>1, <2>2, <2>3, <2>4, <2>5, <2>6
<1>6. CASE RunnerObeysKill
  <2>1. HostType'
    BY <1>6, HostBounds DEF RunnerObeysKill, RunnerEnds, Hangup, HostType, Stages, Watches, Facts, Pids, Files, hostVars, daemonVars
  <2>2. FilesType'
    BY <1>6, Bounds DEF RunnerObeysKill, RunnerEnds, Hangup, FilesType, Files, hostVars, daemonVars
  <2>3. ConnType'
    BY <1>6, ConnAssumption, BoundAssumption, SwitchAssumption DEF RunnerObeysKill, RunnerEnds, Hangup, ConnType, ConnStates, hostVars, daemonVars
  <2>4. ActorType'
    BY <1>6, ConnAssumption, BoundAssumption, SwitchAssumption DEF RunnerObeysKill, RunnerEnds, Hangup, ActorType, Dialers, Actors, Places, hostVars, daemonVars
  <2>5. PassType'
    BY <1>6, Bounds DEF RunnerObeysKill, RunnerEnds, Hangup, PassType, Passes, Plans, Stages, Files, hostVars, daemonVars
  <2>6. DownIsBounded'
    BY <1>6, BoundAssumption DEF RunnerObeysKill, RunnerEnds, DownIsBounded, HostType, hostVars, daemonVars
  <2> QED BY <2>1, <2>2, <2>3, <2>4, <2>5, <2>6
<1>7. CASE RunnerLeaves
  <2>1. HostType'
    BY <1>7, HostBounds DEF RunnerLeaves, HostType, Stages, Watches, Facts, Pids, Files, hostVars, daemonVars
  <2>2. FilesType'
    BY <1>7, Bounds DEF RunnerLeaves, FilesType, Files, hostVars, daemonVars
  <2>3. ConnType'
    BY <1>7, ConnAssumption, BoundAssumption, SwitchAssumption DEF RunnerLeaves, ConnType, ConnStates, hostVars, daemonVars
  <2>4. ActorType'
    BY <1>7, ConnAssumption, BoundAssumption, SwitchAssumption DEF RunnerLeaves, ActorType, Dialers, Actors, Places, hostVars, daemonVars
  <2>5. PassType'
    BY <1>7, Bounds DEF RunnerLeaves, PassType, Passes, Plans, Stages, Files, hostVars, daemonVars
  <2>6. DownIsBounded'
    BY <1>7, BoundAssumption DEF RunnerLeaves, DownIsBounded, HostType, hostVars, daemonVars
  <2> QED BY <2>1, <2>2, <2>3, <2>4, <2>5, <2>6
<1>8. CASE RunnerCrashes
  <2>1. HostType'
    BY <1>8, HostBounds DEF RunnerCrashes, Hangup, HostType, Stages, Watches, Facts, Pids, Files, hostVars, daemonVars
  <2>2. FilesType'
    BY <1>8, Bounds DEF RunnerCrashes, Hangup, FilesType, Files, hostVars, daemonVars
  <2>3. ConnType'
    BY <1>8, ConnAssumption, BoundAssumption, SwitchAssumption DEF RunnerCrashes, Hangup, ConnType, ConnStates, hostVars, daemonVars
  <2>4. ActorType'
    BY <1>8, ConnAssumption, BoundAssumption, SwitchAssumption DEF RunnerCrashes, Hangup, ActorType, Dialers, Actors, Places, hostVars, daemonVars
  <2>5. PassType'
    BY <1>8, Bounds DEF RunnerCrashes, Hangup, PassType, Passes, Plans, Stages, Files, hostVars, daemonVars
  <2>6. DownIsBounded'
    BY <1>8, BoundAssumption DEF RunnerCrashes, DownIsBounded, HostType, hostVars, daemonVars
  <2> QED BY <2>1, <2>2, <2>3, <2>4, <2>5, <2>6
<1>9. CASE ConnectionBreaks
  BY <1>9, ConnAssumption, BoundAssumption, SwitchAssumption
  DEF ConnectionBreaks, HostType, FilesType, ConnType, ActorType, PassType, Files, Stages, Watches, Places, Facts, ConnStates, Passes, Plans, Dialers, Actors, Pids, NoMeta, hostVars, daemonVars, DownIsBounded
<1>10. CASE CreateTracks
  BY <1>10, ConnAssumption, BoundAssumption, SwitchAssumption
  DEF CreateTracks, Go, HostType, FilesType, ConnType, ActorType, PassType, Files, Stages, Watches, Places, Facts, ConnStates, Passes, Plans, Dialers, Actors, Pids, NoMeta, hostVars, daemonVars, DownIsBounded
<1>11. CASE CreateRecords
  <2>1. HostType'
    BY <1>11, HostBounds DEF CreateRecords, Go, HostType, Stages, Watches, Facts, Pids, Files, hostVars, daemonVars
  <2>2. FilesType'
    BY <1>11, Bounds DEF CreateRecords, Go, FilesType, Files, hostVars, daemonVars
  <2>3. ConnType'
    BY <1>11, ConnAssumption, BoundAssumption, SwitchAssumption DEF CreateRecords, Go, ConnType, ConnStates, hostVars, daemonVars
  <2>4. ActorType'
    BY <1>11, ConnAssumption, BoundAssumption, SwitchAssumption DEF CreateRecords, Go, ActorType, Dialers, Actors, Places, hostVars, daemonVars
  <2>5. PassType'
    BY <1>11, Bounds DEF CreateRecords, Go, PassType, Passes, Plans, Stages, Files, hostVars, daemonVars
  <2>6. DownIsBounded'
    BY <1>11, BoundAssumption DEF CreateRecords, Go, DownIsBounded, HostType, hostVars, daemonVars
  <2> QED BY <2>1, <2>2, <2>3, <2>4, <2>5, <2>6
<1>12. CASE CreateLaunches
  <2>1. HostType'
    BY <1>12, HostBounds DEF CreateLaunches, Go, HostType, Stages, Watches, Facts, Pids, Files, hostVars, daemonVars
  <2>2. FilesType'
    BY <1>12, Bounds DEF CreateLaunches, Go, FilesType, Files, hostVars, daemonVars
  <2>3. ConnType'
    BY <1>12, ConnAssumption, BoundAssumption, SwitchAssumption DEF CreateLaunches, Go, ConnType, ConnStates, hostVars, daemonVars
  <2>4. ActorType'
    BY <1>12, ConnAssumption, BoundAssumption, SwitchAssumption DEF CreateLaunches, Go, ActorType, Dialers, Actors, Places, hostVars, daemonVars
  <2>5. PassType'
    BY <1>12, Bounds DEF CreateLaunches, Go, PassType, Passes, Plans, Stages, Files, hostVars, daemonVars
  <2>6. DownIsBounded'
    BY <1>12, BoundAssumption DEF CreateLaunches, Go, DownIsBounded, HostType, hostVars, daemonVars
  <2> QED BY <2>1, <2>2, <2>3, <2>4, <2>5, <2>6
<1>13. CASE CreateDials
  <2>1. HostType'
    BY <1>13, HostBounds DEF CreateDials, Dial, Go, Spare, Answers, HostType, Stages, Watches, Facts, Pids, Files, hostVars, daemonVars
  <2>2. FilesType'
    BY <1>13, Bounds DEF CreateDials, Dial, Go, Spare, Answers, FilesType, Files, hostVars, daemonVars
  <2>3. ConnType'
    BY <1>13, ConnAssumption, BoundAssumption, SwitchAssumption DEF CreateDials, Dial, Go, Spare, Answers, ConnType, ConnStates, hostVars, daemonVars
  <2>4. ActorType'
    BY <1>13, ConnAssumption, BoundAssumption, SwitchAssumption DEF CreateDials, Dial, Go, Spare, Answers, ActorType, Dialers, Actors, Places, hostVars, daemonVars
  <2>5. PassType'
    BY <1>13, Bounds DEF CreateDials, Dial, Go, Spare, Answers, PassType, Passes, Plans, Stages, Files, hostVars, daemonVars
  <2>6. DownIsBounded'
    BY <1>13, BoundAssumption DEF CreateDials, Dial, Go, Spare, Answers, DownIsBounded, HostType, hostVars, daemonVars
  <2> QED BY <2>1, <2>2, <2>3, <2>4, <2>5, <2>6
<1>14. CASE CreateFails
  <2> DEFINE files == disk
  <2>a. files \in Files
    BY Bounds DEF FilesType, Files
  <2>b. PICK ok \in ReapResults : Reap(files, ok) /\ conn' = Reaped(files, ok)
    BY <1>14 DEF CreateFails
  <2>c. ok \in BOOLEAN
    BY <2>b, SwitchAssumption
  <2> HIDE DEF files
  <2>d. disk' \in Files /\ loaded' \in BOOLEAN /\ run' \in Stages
    BY <2>a, <2>b, <2>c, ReapType
  <2>1. HostType'
    BY <1>14, <2>d DEF CreateFails, HostType, Facts
  <2>2. FilesType'
    BY <2>d DEF FilesType
  <2>3. ConnType'
    BY <2>b, ReapedType DEF ConnType, ConnStates
  <2>4. ActorType'
    BY <1>14, ConnAssumption, BoundAssumption, SwitchAssumption DEF CreateFails, Go, ActorType, Dialers, Actors, Places, hostVars, daemonVars
  <2>5. PassType'
    BY <1>14, Bounds DEF CreateFails, Go, PassType, Passes, Plans, Stages, Files, hostVars, daemonVars
  <2>6. DownIsBounded'
    BY <1>14, BoundAssumption DEF CreateFails, Go, DownIsBounded, HostType, hostVars, daemonVars
  <2> QED BY <2>1, <2>2, <2>3, <2>4, <2>5, <2>6
<1>15. CASE CreateRegisters
  <2>1. HostType'
    BY <1>15, HostBounds DEF CreateRegisters, Register, Refused, Dropped, Release, Go, Present, HostType, Stages, Watches, Facts, Pids, Files, ActorType, Dialers, hostVars, daemonVars
  <2>2. FilesType'
    BY <1>15, Bounds DEF CreateRegisters, Register, Refused, Dropped, Release, Go, Present, FilesType, Files, hostVars, daemonVars
  <2>3. ConnType'
    BY <1>15, ConnAssumption, BoundAssumption, SwitchAssumption DEF CreateRegisters, Register, Refused, Dropped, Release, Go, Present, ConnType, ConnStates, hostVars, daemonVars
  <2>4. ActorType'
    BY <1>15, ConnAssumption, BoundAssumption, SwitchAssumption DEF CreateRegisters, Register, Refused, Dropped, Release, Go, Present, ActorType, Dialers, Actors, Places, hostVars, daemonVars
  <2>5. PassType'
    BY <1>15, Bounds DEF CreateRegisters, Register, Refused, Dropped, Release, Go, Present, PassType, Passes, Plans, Stages, Files, hostVars, daemonVars
  <2>6. DownIsBounded'
    BY <1>15, BoundAssumption DEF CreateRegisters, Register, Refused, Dropped, Release, Go, Present, DownIsBounded, HostType, hostVars, daemonVars
  <2> QED BY <2>1, <2>2, <2>3, <2>4, <2>5, <2>6
<1>16. CASE Manage("create", "done")
  <2>1. HostType'
    BY <1>16, HostBounds DEF Manage, Release, Go, Present, HostType, Stages, Watches, Facts, Pids, Files, hostVars, daemonVars
  <2>2. FilesType'
    BY <1>16, Bounds DEF Manage, Release, Go, Present, FilesType, Files, hostVars, daemonVars
  <2>3. ConnType'
    BY <1>16, ConnAssumption, BoundAssumption, SwitchAssumption DEF Manage, Release, Go, Present, ConnType, ConnStates, hostVars, daemonVars
  <2>4. ActorType'
    BY <1>16, ConnAssumption, BoundAssumption, SwitchAssumption DEF Manage, Release, Go, Present, ActorType, Dialers, Actors, Places, hostVars, daemonVars
  <2>5. PassType'
    BY <1>16, Bounds DEF Manage, Release, Go, Present, PassType, Passes, Plans, Stages, Files, hostVars, daemonVars
  <2>6. DownIsBounded'
    BY <1>16, BoundAssumption DEF Manage, Release, Go, Present, DownIsBounded, HostType, hostVars, daemonVars
  <2> QED BY <2>1, <2>2, <2>3, <2>4, <2>5, <2>6
<1>17. CASE DiscoverScans
  <2>1. HostType'
    BY <1>17, HostBounds DEF DiscoverScans, Go, ChildPid, HostType, Stages, Watches, Facts, Pids, Files, hostVars, daemonVars
  <2>2. FilesType'
    BY <1>17, Bounds DEF DiscoverScans, Go, ChildPid, FilesType, Files, hostVars, daemonVars
  <2>3. ConnType'
    BY <1>17, ConnAssumption, BoundAssumption, SwitchAssumption DEF DiscoverScans, Go, ChildPid, ConnType, ConnStates, hostVars, daemonVars
  <2>4. ActorType'
    BY <1>17, ConnAssumption, BoundAssumption, SwitchAssumption DEF DiscoverScans, Go, ChildPid, ActorType, Dialers, Actors, Places, hostVars, daemonVars
  <2>5. PassType'
    BY <1>17, Bounds DEF DiscoverScans, Go, ChildPid, PassType, Passes, Plans, Stages, Files, hostVars, daemonVars
  <2>6. DownIsBounded'
    BY <1>17, BoundAssumption DEF DiscoverScans, Go, ChildPid, DownIsBounded, HostType, hostVars, daemonVars
  <2> QED BY <2>1, <2>2, <2>3, <2>4, <2>5, <2>6
<1>18. CASE DiscoverSkips
  <2>1. HostType'
    BY <1>18, HostBounds DEF DiscoverSkips, Settle, Conclude, Go, HostType, Stages, Watches, Facts, Pids, Files, hostVars, daemonVars
  <2>2. FilesType'
    BY <1>18, Bounds DEF DiscoverSkips, Settle, Conclude, Go, FilesType, Files, hostVars, daemonVars
  <2>3. ConnType'
    BY <1>18, ConnAssumption, BoundAssumption, SwitchAssumption DEF DiscoverSkips, Settle, Conclude, Go, ConnType, ConnStates, hostVars, daemonVars
  <2>4. ActorType'
    BY <1>18, ConnAssumption, BoundAssumption, SwitchAssumption DEF DiscoverSkips, Settle, Conclude, Go, ActorType, Dialers, Actors, Places, hostVars, daemonVars
  <2>5. PassType'
    <3>1. pass' \in {NoPass, [pass EXCEPT !.alive = 0]} /\ plan' = plan
      BY <1>18 DEF DiscoverSkips, Conclude, Settle
    <3>2. NoPass \in Passes /\ [pass EXCEPT !.alive = 0] \in Passes
      BY Bounds DEF PassType, Passes, NoPass
    <3> QED BY <3>1, <3>2 DEF PassType
  <2>6. DownIsBounded'
    BY <1>18, BoundAssumption DEF DiscoverSkips, Settle, Conclude, Go, DownIsBounded, HostType, hostVars, daemonVars
  <2> QED BY <2>1, <2>2, <2>3, <2>4, <2>5, <2>6
<1>19. CASE DiscoverDials
  <2>1. HostType'
    BY <1>19, HostBounds DEF DiscoverDials, Inspected, Dial, Go, Spare, NoPass, Answers, HostType, Stages, Watches, Facts, Pids, Files, hostVars, daemonVars
  <2>2. FilesType'
    BY <1>19, Bounds DEF DiscoverDials, Inspected, Dial, Go, Spare, NoPass, Answers, FilesType, Files, hostVars, daemonVars
  <2>3. ConnType'
    BY <1>19, ConnAssumption, BoundAssumption, SwitchAssumption DEF DiscoverDials, Inspected, Dial, Go, Spare, NoPass, Answers, ConnType, ConnStates, hostVars, daemonVars
  <2>4. ActorType'
    BY <1>19, ConnAssumption, BoundAssumption, SwitchAssumption DEF DiscoverDials, Inspected, Dial, Go, Spare, NoPass, Answers, ActorType, Dialers, Actors, Places, hostVars, daemonVars
  <2>5. PassType'
    BY <1>19, Bounds DEF DiscoverDials, Inspected, Dial, Go, Spare, NoPass, Answers, PassType, Passes, Plans, Stages, Files, hostVars, daemonVars
  <2>6. DownIsBounded'
    BY <1>19, BoundAssumption DEF DiscoverDials, Inspected, Dial, Go, Spare, NoPass, Answers, DownIsBounded, HostType, hostVars, daemonVars
  <2> QED BY <2>1, <2>2, <2>3, <2>4, <2>5, <2>6
<1>20. CASE DiscoverGetsNoAnswer
  <2>1. HostType'
    BY <1>20, HostBounds DEF DiscoverGetsNoAnswer, Inspected, Settle, Go, NoPass, HostType, Stages, Watches, Facts, Pids, Files, hostVars, daemonVars
  <2>2. FilesType'
    BY <1>20, Bounds DEF DiscoverGetsNoAnswer, Inspected, Settle, Go, NoPass, FilesType, Files, hostVars, daemonVars
  <2>3. ConnType'
    BY <1>20, ConnAssumption, BoundAssumption, SwitchAssumption DEF DiscoverGetsNoAnswer, Inspected, Settle, Go, NoPass, ConnType, ConnStates, hostVars, daemonVars
  <2>4. ActorType'
    BY <1>20, ConnAssumption, BoundAssumption, SwitchAssumption DEF DiscoverGetsNoAnswer, Inspected, Settle, Go, NoPass, ActorType, Dialers, Actors, Places, hostVars, daemonVars
  <2>5. PassType'
    <3>1. pass' \in {NoPass, [NoPass EXCEPT !.candidate = TRUE, !.dead = TRUE]} /\ plan' = plan
      BY <1>20 DEF DiscoverGetsNoAnswer, Settle
    <3>2. NoPass \in Passes /\ [NoPass EXCEPT !.candidate = TRUE, !.dead = TRUE] \in Passes
      BY Bounds DEF PassType, Passes, NoPass
    <3> QED BY <3>1, <3>2 DEF PassType
  <2>6. DownIsBounded'
    BY <1>20, BoundAssumption DEF DiscoverGetsNoAnswer, Inspected, Settle, Go, NoPass, DownIsBounded, HostType, hostVars, daemonVars
  <2> QED BY <2>1, <2>2, <2>3, <2>4, <2>5, <2>6
<1>21. CASE DiscoverRegisters
  <2>1. HostType'
    BY <1>21, HostBounds DEF DiscoverRegisters, Register, Refused, Dropped, Release, Go, HostType, Stages, Watches, Facts, Pids, Files, ActorType, Dialers, hostVars, daemonVars
  <2>2. FilesType'
    BY <1>21, Bounds DEF DiscoverRegisters, Register, Refused, Dropped, Release, Go, FilesType, Files, hostVars, daemonVars
  <2>3. ConnType'
    BY <1>21, ConnAssumption, BoundAssumption, SwitchAssumption DEF DiscoverRegisters, Register, Refused, Dropped, Release, Go, ConnType, ConnStates, hostVars, daemonVars
  <2>4. ActorType'
    BY <1>21, ConnAssumption, BoundAssumption, SwitchAssumption DEF DiscoverRegisters, Register, Refused, Dropped, Release, Go, ActorType, Dialers, Actors, Places, hostVars, daemonVars
  <2>5. PassType'
    BY <1>21, Bounds DEF DiscoverRegisters, Register, Refused, Dropped, Release, Go, PassType, Passes, Plans, Stages, Files, hostVars, daemonVars
  <2>6. DownIsBounded'
    BY <1>21, BoundAssumption DEF DiscoverRegisters, Register, Refused, Dropped, Release, Go, DownIsBounded, HostType, hostVars, daemonVars
  <2> QED BY <2>1, <2>2, <2>3, <2>4, <2>5, <2>6
<1>22. CASE Manage("discover", "reconcile")
  <2>1. HostType'
    BY <1>22, HostBounds DEF Manage, Release, Go, Present, HostType, Stages, Watches, Facts, Pids, Files, hostVars, daemonVars
  <2>2. FilesType'
    BY <1>22, Bounds DEF Manage, Release, Go, Present, FilesType, Files, hostVars, daemonVars
  <2>3. ConnType'
    BY <1>22, ConnAssumption, BoundAssumption, SwitchAssumption DEF Manage, Release, Go, Present, ConnType, ConnStates, hostVars, daemonVars
  <2>4. ActorType'
    BY <1>22, ConnAssumption, BoundAssumption, SwitchAssumption DEF Manage, Release, Go, Present, ActorType, Dialers, Actors, Places, hostVars, daemonVars
  <2>5. PassType'
    BY <1>22, Bounds DEF Manage, Release, Go, Present, PassType, Passes, Plans, Stages, Files, hostVars, daemonVars
  <2>6. DownIsBounded'
    BY <1>22, BoundAssumption DEF Manage, Release, Go, Present, DownIsBounded, HostType, hostVars, daemonVars
  <2> QED BY <2>1, <2>2, <2>3, <2>4, <2>5, <2>6
<1>23. CASE DiscoverRetires
  <2> DEFINE files == IF pass.dead THEN [disk EXCEPT !.sock = FALSE, !.meta = NoMeta] ELSE disk
  <2>a. files \in Files
    BY Bounds DEF FilesType, Files
  <2>b. PICK ok \in ReapResults : Reap(files, ok) /\ conn' = Reaped(files, ok)
    BY <1>23 DEF DiscoverRetires
  <2>c. ok \in BOOLEAN
    BY <2>b, SwitchAssumption
  <2> HIDE DEF files
  <2>d. disk' \in Files /\ loaded' \in BOOLEAN /\ run' \in Stages
    BY <2>a, <2>b, <2>c, ReapType
  <2>1. HostType'
    BY <1>23, <2>d DEF DiscoverRetires, HostType, Facts
  <2>2. FilesType'
    BY <2>d DEF FilesType
  <2>3. ConnType'
    BY <2>b, ReapedType DEF ConnType, ConnStates
  <2>4. ActorType'
    BY <1>23, ConnAssumption, BoundAssumption, SwitchAssumption DEF DiscoverRetires, Settle, Go, NoPass, ActorType, Dialers, Actors, Places, Files, NoMeta, hostVars, daemonVars
  <2>5. PassType'
    BY <1>23, Bounds DEF DiscoverRetires, Settle, Go, NoPass, PassType, Passes, Plans, Stages, Files, NoMeta, hostVars, daemonVars
  <2>6. DownIsBounded'
    BY <1>23, BoundAssumption DEF DiscoverRetires, Settle, Go, NoPass, DownIsBounded, HostType, hostVars, daemonVars
  <2> QED BY <2>1, <2>2, <2>3, <2>4, <2>5, <2>6
<1>24. CASE DiscoverReconciles
  BY <1>24, ConnAssumption, BoundAssumption, SwitchAssumption
  DEF DiscoverReconciles, Go, HostType, FilesType, ConnType, ActorType, PassType, Files, Stages, Watches, Places, Facts, ConnStates, Passes, Plans, Dialers, Actors, Pids, NoMeta, hostVars, daemonVars, DownIsBounded
<1>25. CASE DiscoverRecordsLoss
  BY <1>25, ConnAssumption, BoundAssumption, SwitchAssumption
  DEF DiscoverRecordsLoss, Go, HostType, FilesType, ConnType, ActorType, PassType, Files, Stages, Watches, Places, Facts, ConnStates, Passes, Plans, Dialers, Actors, Pids, NoMeta, hostVars, daemonVars, DownIsBounded
<1>26. CASE ReconnectWaits
  <2>1. HostType'
    BY <1>26, HostBounds DEF ReconnectWaits, HostType, Stages, Watches, Facts, Pids, Files, Artifacts, hostVars, daemonVars
  <2>2. FilesType'
    BY <1>26, Bounds DEF ReconnectWaits, FilesType, Files, hostVars, daemonVars
  <2>3. ConnType'
    BY <1>26, ConnAssumption, BoundAssumption, SwitchAssumption DEF ReconnectWaits, ConnType, ConnStates, hostVars, daemonVars
  <2>4. ActorType'
    BY <1>26, ConnAssumption, BoundAssumption, SwitchAssumption DEF ReconnectWaits, ActorType, Dialers, Actors, Places, hostVars, daemonVars
  <2>5. PassType'
    BY <1>26, Bounds DEF ReconnectWaits, PassType, Passes, Plans, Stages, Files, hostVars, daemonVars
  <2>6. DownIsBounded'
    BY <1>26, BoundAssumption DEF ReconnectWaits, DownIsBounded, HostType, hostVars, daemonVars
  <2> QED BY <2>1, <2>2, <2>3, <2>4, <2>5, <2>6
<1>27. CASE ReconnectDials
  <2>1. HostType'
    BY <1>27, HostBounds DEF ReconnectDials, Dial, Go, Spare, Answers, HostType, Stages, Watches, Facts, Pids, Files, hostVars, daemonVars
  <2>2. FilesType'
    BY <1>27, Bounds DEF ReconnectDials, Dial, Go, Spare, Answers, FilesType, Files, hostVars, daemonVars
  <2>3. ConnType'
    BY <1>27, ConnAssumption, BoundAssumption, SwitchAssumption DEF ReconnectDials, Dial, Go, Spare, Answers, ConnType, ConnStates, hostVars, daemonVars
  <2>4. ActorType'
    BY <1>27, ConnAssumption, BoundAssumption, SwitchAssumption DEF ReconnectDials, Dial, Go, Spare, Answers, ActorType, Dialers, Actors, Places, hostVars, daemonVars
  <2>5. PassType'
    BY <1>27, Bounds DEF ReconnectDials, Dial, Go, Spare, Answers, PassType, Passes, Plans, Stages, Files, hostVars, daemonVars
  <2>6. DownIsBounded'
    BY <1>27, BoundAssumption DEF ReconnectDials, Dial, Go, Spare, Answers, DownIsBounded, HostType, hostVars, daemonVars
  <2> QED BY <2>1, <2>2, <2>3, <2>4, <2>5, <2>6
<1>28. CASE ReconnectRegisters
  <2>1. HostType'
    BY <1>28, HostBounds DEF ReconnectRegisters, Register, Refused, Dropped, Release, Go, HostType, Stages, Watches, Facts, Pids, Files, ActorType, Dialers, hostVars, daemonVars
  <2>2. FilesType'
    BY <1>28, Bounds DEF ReconnectRegisters, Register, Refused, Dropped, Release, Go, FilesType, Files, hostVars, daemonVars
  <2>3. ConnType'
    BY <1>28, ConnAssumption, BoundAssumption, SwitchAssumption DEF ReconnectRegisters, Register, Refused, Dropped, Release, Go, ConnType, ConnStates, hostVars, daemonVars
  <2>4. ActorType'
    BY <1>28, ConnAssumption, BoundAssumption, SwitchAssumption DEF ReconnectRegisters, Register, Refused, Dropped, Release, Go, ActorType, Dialers, Actors, Places, hostVars, daemonVars
  <2>5. PassType'
    BY <1>28, Bounds DEF ReconnectRegisters, Register, Refused, Dropped, Release, Go, PassType, Passes, Plans, Stages, Files, hostVars, daemonVars
  <2>6. DownIsBounded'
    BY <1>28, BoundAssumption DEF ReconnectRegisters, Register, Refused, Dropped, Release, Go, DownIsBounded, HostType, hostVars, daemonVars
  <2> QED BY <2>1, <2>2, <2>3, <2>4, <2>5, <2>6
<1>29. CASE Manage("reconnect", "idle")
  <2>1. HostType'
    BY <1>29, HostBounds DEF Manage, Release, Go, Present, HostType, Stages, Watches, Facts, Pids, Files, hostVars, daemonVars
  <2>2. FilesType'
    BY <1>29, Bounds DEF Manage, Release, Go, Present, FilesType, Files, hostVars, daemonVars
  <2>3. ConnType'
    BY <1>29, ConnAssumption, BoundAssumption, SwitchAssumption DEF Manage, Release, Go, Present, ConnType, ConnStates, hostVars, daemonVars
  <2>4. ActorType'
    BY <1>29, ConnAssumption, BoundAssumption, SwitchAssumption DEF Manage, Release, Go, Present, ActorType, Dialers, Actors, Places, hostVars, daemonVars
  <2>5. PassType'
    BY <1>29, Bounds DEF Manage, Release, Go, Present, PassType, Passes, Plans, Stages, Files, hostVars, daemonVars
  <2>6. DownIsBounded'
    BY <1>29, BoundAssumption DEF Manage, Release, Go, Present, DownIsBounded, HostType, hostVars, daemonVars
  <2> QED BY <2>1, <2>2, <2>3, <2>4, <2>5, <2>6
<1>30. CASE WakeBegins
  <2>1. HostType'
    BY <1>30, HostBounds DEF WakeBegins, Go, HostType, Stages, Watches, Facts, Pids, Files, hostVars, daemonVars
  <2>2. FilesType'
    BY <1>30, Bounds DEF WakeBegins, Go, FilesType, Files, hostVars, daemonVars
  <2>3. ConnType'
    BY <1>30, ConnAssumption, BoundAssumption, SwitchAssumption DEF WakeBegins, Go, ConnType, ConnStates, hostVars, daemonVars
  <2>4. ActorType'
    BY <1>30, ConnAssumption, BoundAssumption, SwitchAssumption DEF WakeBegins, Go, ActorType, Dialers, Actors, Places, hostVars, daemonVars
  <2>5. PassType'
    BY <1>30, Bounds DEF WakeBegins, Go, PassType, Passes, Plans, Stages, Files, hostVars, daemonVars
  <2>6. DownIsBounded'
    BY <1>30, BoundAssumption DEF WakeBegins, Go, DownIsBounded, HostType, hostVars, daemonVars
  <2> QED BY <2>1, <2>2, <2>3, <2>4, <2>5, <2>6
<1>31. CASE WakeKicks
  <2>1. HostType'
    BY <1>31, HostBounds DEF WakeKicks, Go, HostType, Stages, Watches, Facts, Pids, Files, hostVars, daemonVars
  <2>2. FilesType'
    BY <1>31, Bounds DEF WakeKicks, Go, FilesType, Files, hostVars, daemonVars
  <2>3. ConnType'
    BY <1>31, ConnAssumption, BoundAssumption, SwitchAssumption DEF WakeKicks, Go, ConnType, ConnStates, hostVars, daemonVars
  <2>4. ActorType'
    BY <1>31, ConnAssumption, BoundAssumption, SwitchAssumption DEF WakeKicks, Go, ActorType, Dialers, Actors, Places, hostVars, daemonVars
  <2>5. PassType'
    BY <1>31, Bounds DEF WakeKicks, Go, PassType, Passes, Plans, Stages, Files, hostVars, daemonVars
  <2>6. DownIsBounded'
    BY <1>31, BoundAssumption DEF WakeKicks, Go, DownIsBounded, HostType, hostVars, daemonVars
  <2> QED BY <2>1, <2>2, <2>3, <2>4, <2>5, <2>6
<1>32. CASE WakeDials
  <2>1. HostType'
    BY <1>32, HostBounds DEF WakeDials, Dial, Go, Spare, Answers, HostType, Stages, Watches, Facts, Pids, Files, hostVars, daemonVars
  <2>2. FilesType'
    BY <1>32, Bounds DEF WakeDials, Dial, Go, Spare, Answers, FilesType, Files, hostVars, daemonVars
  <2>3. ConnType'
    BY <1>32, ConnAssumption, BoundAssumption, SwitchAssumption DEF WakeDials, Dial, Go, Spare, Answers, ConnType, ConnStates, hostVars, daemonVars
  <2>4. ActorType'
    BY <1>32, ConnAssumption, BoundAssumption, SwitchAssumption DEF WakeDials, Dial, Go, Spare, Answers, ActorType, Dialers, Actors, Places, hostVars, daemonVars
  <2>5. PassType'
    BY <1>32, Bounds DEF WakeDials, Dial, Go, Spare, Answers, PassType, Passes, Plans, Stages, Files, hostVars, daemonVars
  <2>6. DownIsBounded'
    BY <1>32, BoundAssumption DEF WakeDials, Dial, Go, Spare, Answers, DownIsBounded, HostType, hostVars, daemonVars
  <2> QED BY <2>1, <2>2, <2>3, <2>4, <2>5, <2>6
<1>33. CASE WakeFails
  <2>1. HostType'
    BY <1>33, HostBounds DEF WakeFails, Go, HostType, Stages, Watches, Facts, Pids, Files, hostVars, daemonVars
  <2>2. FilesType'
    BY <1>33, Bounds DEF WakeFails, Go, FilesType, Files, hostVars, daemonVars
  <2>3. ConnType'
    BY <1>33, ConnAssumption, BoundAssumption, SwitchAssumption DEF WakeFails, Go, ConnType, ConnStates, hostVars, daemonVars
  <2>4. ActorType'
    BY <1>33, ConnAssumption, BoundAssumption, SwitchAssumption DEF WakeFails, Go, ActorType, Dialers, Actors, Places, hostVars, daemonVars
  <2>5. PassType'
    BY <1>33, Bounds DEF WakeFails, Go, PassType, Passes, Plans, Stages, Files, hostVars, daemonVars
  <2>6. DownIsBounded'
    BY <1>33, BoundAssumption DEF WakeFails, Go, DownIsBounded, HostType, hostVars, daemonVars
  <2> QED BY <2>1, <2>2, <2>3, <2>4, <2>5, <2>6
<1>34. CASE WakeRegisters
  <2>1. HostType'
    BY <1>34, HostBounds DEF WakeRegisters, Register, Refused, Dropped, Release, Go, HostType, Stages, Watches, Facts, Pids, Files, ActorType, Dialers, hostVars, daemonVars
  <2>2. FilesType'
    BY <1>34, Bounds DEF WakeRegisters, Register, Refused, Dropped, Release, Go, FilesType, Files, hostVars, daemonVars
  <2>3. ConnType'
    BY <1>34, ConnAssumption, BoundAssumption, SwitchAssumption DEF WakeRegisters, Register, Refused, Dropped, Release, Go, ConnType, ConnStates, hostVars, daemonVars
  <2>4. ActorType'
    BY <1>34, ConnAssumption, BoundAssumption, SwitchAssumption DEF WakeRegisters, Register, Refused, Dropped, Release, Go, ActorType, Dialers, Actors, Places, hostVars, daemonVars
  <2>5. PassType'
    BY <1>34, Bounds DEF WakeRegisters, Register, Refused, Dropped, Release, Go, PassType, Passes, Plans, Stages, Files, hostVars, daemonVars
  <2>6. DownIsBounded'
    BY <1>34, BoundAssumption DEF WakeRegisters, Register, Refused, Dropped, Release, Go, DownIsBounded, HostType, hostVars, daemonVars
  <2> QED BY <2>1, <2>2, <2>3, <2>4, <2>5, <2>6
<1>35. CASE Manage("wake", "unmark")
  <2>1. HostType'
    BY <1>35, HostBounds DEF Manage, Release, Go, Present, HostType, Stages, Watches, Facts, Pids, Files, hostVars, daemonVars
  <2>2. FilesType'
    BY <1>35, Bounds DEF Manage, Release, Go, Present, FilesType, Files, hostVars, daemonVars
  <2>3. ConnType'
    BY <1>35, ConnAssumption, BoundAssumption, SwitchAssumption DEF Manage, Release, Go, Present, ConnType, ConnStates, hostVars, daemonVars
  <2>4. ActorType'
    BY <1>35, ConnAssumption, BoundAssumption, SwitchAssumption DEF Manage, Release, Go, Present, ActorType, Dialers, Actors, Places, hostVars, daemonVars
  <2>5. PassType'
    BY <1>35, Bounds DEF Manage, Release, Go, Present, PassType, Passes, Plans, Stages, Files, hostVars, daemonVars
  <2>6. DownIsBounded'
    BY <1>35, BoundAssumption DEF Manage, Release, Go, Present, DownIsBounded, HostType, hostVars, daemonVars
  <2> QED BY <2>1, <2>2, <2>3, <2>4, <2>5, <2>6
<1>36. CASE WakeEnds
  <2>1. HostType'
    BY <1>36, HostBounds DEF WakeEnds, Go, HostType, Stages, Watches, Facts, Pids, Files, hostVars, daemonVars
  <2>2. FilesType'
    BY <1>36, Bounds DEF WakeEnds, Go, FilesType, Files, hostVars, daemonVars
  <2>3. ConnType'
    BY <1>36, ConnAssumption, BoundAssumption, SwitchAssumption DEF WakeEnds, Go, ConnType, ConnStates, hostVars, daemonVars
  <2>4. ActorType'
    BY <1>36, ConnAssumption, BoundAssumption, SwitchAssumption DEF WakeEnds, Go, ActorType, Dialers, Actors, Places, hostVars, daemonVars
  <2>5. PassType'
    BY <1>36, Bounds DEF WakeEnds, Go, PassType, Passes, Plans, Stages, Files, hostVars, daemonVars
  <2>6. DownIsBounded'
    BY <1>36, BoundAssumption DEF WakeEnds, Go, DownIsBounded, HostType, hostVars, daemonVars
  <2> QED BY <2>1, <2>2, <2>3, <2>4, <2>5, <2>6
<1>37. CASE KillRecords
  <2>1. HostType'
    BY <1>37, HostBounds DEF KillRecords, Go, Tombstone, HostType, Stages, Watches, Facts, Pids, Files, hostVars, daemonVars
  <2>2. FilesType'
    BY <1>37, Bounds DEF KillRecords, Go, Tombstone, FilesType, Files, hostVars, daemonVars
  <2>3. ConnType'
    BY <1>37, ConnAssumption, BoundAssumption, SwitchAssumption DEF KillRecords, Go, Tombstone, ConnType, ConnStates, hostVars, daemonVars
  <2>4. ActorType'
    BY <1>37, ConnAssumption, BoundAssumption, SwitchAssumption DEF KillRecords, Go, Tombstone, ActorType, Dialers, Actors, Places, hostVars, daemonVars
  <2>5. PassType'
    BY <1>37, Bounds DEF KillRecords, Go, Tombstone, PassType, Passes, Plans, Stages, Files, LostWithoutRunner, PausedWithoutRunner, FilesType, hostVars, daemonVars
  <2>6. DownIsBounded'
    BY <1>37, BoundAssumption DEF KillRecords, Go, Tombstone, DownIsBounded, HostType, hostVars, daemonVars
  <2> QED BY <2>1, <2>2, <2>3, <2>4, <2>5, <2>6
<1>38. CASE KillClosesPaused
  <2>1. HostType' /\ FilesType' /\ ConnType'
    <3>1. CASE Reachable /\ UNCHANGED <<disk, loaded, run, conn, session>>
      BY <1>38, <3>1 DEF KillClosesPaused, HostType, FilesType, ConnType
    <3>2. ASSUME NEW ok \in ReapResults, Reap(disk, ok), session' = NoConn,
                 conn' = [c \in Conns |-> IF c = session THEN "free" ELSE Reaped(disk, ok)[c]]
          PROVE  HostType' /\ FilesType' /\ ConnType'
      <4>1. disk' \in Files /\ loaded' \in BOOLEAN /\ run' \in Stages
        BY <3>2, SwitchAssumption, ReapType DEF FilesType
      <4>2. HostType'
        BY <1>38, <3>2, <4>1 DEF KillClosesPaused, HostType
      <4>3. ConnType'
        BY <3>2, ReapedType DEF ConnType, ConnStates
      <4> QED BY <4>1, <4>2, <4>3 DEF FilesType
    <3> QED BY <1>38, <3>1, <3>2 DEF KillClosesPaused
  <2>4. ActorType'
    BY <1>38, ConnAssumption, BoundAssumption, SwitchAssumption DEF KillClosesPaused, Go, NoPlan, ActorType, Dialers, Actors, Places, hostVars, daemonVars
  <2>5. PassType'
    BY <1>38, Bounds DEF KillClosesPaused, Go, NoPlan, PassType, Passes, Plans, Stages, Files, hostVars, daemonVars
  <2>6. DownIsBounded'
    BY <1>38, BoundAssumption DEF KillClosesPaused, Go, NoPlan, DownIsBounded, HostType, hostVars, daemonVars
  <2> QED BY <2>1, <2>4, <2>5, <2>6
<1>39. CASE KillClosesLost
  <2>1. HostType'
    BY <1>39, HostBounds DEF KillClosesLost, Go, NoPlan, RemoveUnreachable, HostType, Stages, Watches, Facts, Pids, Files, hostVars, daemonVars
  <2>2. FilesType'
    BY <1>39, Bounds DEF KillClosesLost, Go, NoPlan, RemoveUnreachable, FilesType, Files, hostVars, daemonVars
  <2>3. ConnType'
    BY <1>39, ConnAssumption, BoundAssumption, SwitchAssumption DEF KillClosesLost, Go, NoPlan, RemoveUnreachable, ConnType, ConnStates, hostVars, daemonVars
  <2>4. ActorType'
    BY <1>39, ConnAssumption, BoundAssumption, SwitchAssumption DEF KillClosesLost, Go, NoPlan, RemoveUnreachable, ActorType, Dialers, Actors, Places, hostVars, daemonVars
  <2>5. PassType'
    BY <1>39, Bounds DEF KillClosesLost, Go, NoPlan, RemoveUnreachable, PassType, Passes, Plans, Stages, Files, hostVars, daemonVars
  <2>6. DownIsBounded'
    BY <1>39, BoundAssumption DEF KillClosesLost, Go, NoPlan, RemoveUnreachable, DownIsBounded, HostType, hostVars, daemonVars
  <2> QED BY <2>1, <2>2, <2>3, <2>4, <2>5, <2>6
<1>40. CASE KillTells
  <2>1. HostType'
    BY <1>40, HostBounds DEF KillTells, Go, NoPlan, HostType, Stages, Watches, Facts, Pids, Files, hostVars, daemonVars
  <2>2. FilesType'
    BY <1>40, Bounds DEF KillTells, Go, NoPlan, FilesType, Files, hostVars, daemonVars
  <2>3. ConnType'
    BY <1>40, ConnAssumption, BoundAssumption, SwitchAssumption DEF KillTells, Go, NoPlan, ConnType, ConnStates, hostVars, daemonVars
  <2>4. ActorType'
    BY <1>40, ConnAssumption, BoundAssumption, SwitchAssumption DEF KillTells, Go, NoPlan, ActorType, Dialers, Actors, Places, hostVars, daemonVars
  <2>5. PassType'
    BY <1>40, Bounds DEF KillTells, Go, NoPlan, PassType, Passes, Plans, Stages, Files, hostVars, daemonVars
  <2>6. DownIsBounded'
    BY <1>40, BoundAssumption DEF KillTells, Go, NoPlan, DownIsBounded, HostType, hostVars, daemonVars
  <2> QED BY <2>1, <2>2, <2>3, <2>4, <2>5, <2>6
<1>41. CASE PumpLoses
  <2>1. HostType'
    BY <1>41, HostBounds DEF PumpLoses, Tell, HostType, Stages, Watches, Facts, Pids, Files, hostVars, daemonVars
  <2>2. FilesType'
    BY <1>41, Bounds DEF PumpLoses, Tell, FilesType, Files, hostVars, daemonVars
  <2>3. ConnType'
    BY <1>41, ConnAssumption, BoundAssumption, SwitchAssumption DEF PumpLoses, Tell, ConnType, ConnStates, hostVars, daemonVars
  <2>4. ActorType'
    BY <1>41, ConnAssumption, BoundAssumption, SwitchAssumption DEF PumpLoses, Tell, ActorType, Dialers, Actors, Places, hostVars, daemonVars
  <2>5. PassType'
    BY <1>41, Bounds DEF PumpLoses, Tell, PassType, Passes, Plans, Stages, Files, hostVars, daemonVars
  <2>6. DownIsBounded'
    BY <1>41, BoundAssumption DEF PumpLoses, Tell, DownIsBounded, HostType, hostVars, daemonVars
  <2> QED BY <2>1, <2>2, <2>3, <2>4, <2>5, <2>6
<1>42. CASE PumpExits
  <2>1. HostType'
    BY <1>42, HostBounds DEF PumpExits, Tell, HostType, Stages, Watches, Facts, Pids, Files, hostVars, daemonVars
  <2>2. FilesType'
    BY <1>42, Bounds DEF PumpExits, Tell, FilesType, Files, hostVars, daemonVars
  <2>3. ConnType'
    BY <1>42, ConnAssumption, BoundAssumption, SwitchAssumption DEF PumpExits, Tell, ConnType, ConnStates, hostVars, daemonVars
  <2>4. ActorType'
    BY <1>42, ConnAssumption, BoundAssumption, SwitchAssumption DEF PumpExits, Tell, ActorType, Dialers, Actors, Places, hostVars, daemonVars
  <2>5. PassType'
    BY <1>42, Bounds DEF PumpExits, Tell, PassType, Passes, Plans, Stages, Files, hostVars, daemonVars
  <2>6. DownIsBounded'
    BY <1>42, BoundAssumption DEF PumpExits, Tell, DownIsBounded, HostType, hostVars, daemonVars
  <2> QED BY <2>1, <2>2, <2>3, <2>4, <2>5, <2>6
<1>43. CASE ExitIsReaped
  <2> DEFINE files == disk
  <2>a. files \in Files
    BY Bounds DEF FilesType, Files
  <2>b. PICK ok \in ReapResults : Reap(files, ok) /\ conn' = [Reaped(files, ok) EXCEPT ![session] = "reaped"]
    BY <1>43 DEF ExitIsReaped
  <2>c. ok \in BOOLEAN
    BY <2>b, SwitchAssumption
  <2> HIDE DEF files
  <2>d. disk' \in Files /\ loaded' \in BOOLEAN /\ run' \in Stages
    BY <2>a, <2>b, <2>c, ReapType
  <2>1. HostType'
    BY <1>43, <2>d DEF ExitIsReaped, HostType, Facts
  <2>2. FilesType'
    BY <2>d DEF FilesType
  <2>3. ConnType'
    BY <2>b, ReapedType DEF ConnType, ConnStates
  <2>4. ActorType'
    BY <1>43, ConnAssumption, BoundAssumption, SwitchAssumption DEF ExitIsReaped, ActorType, Dialers, Actors, Places, hostVars, daemonVars
  <2>5. PassType'
    BY <1>43, Bounds DEF ExitIsReaped, PassType, Passes, Plans, Stages, Files, hostVars, daemonVars
  <2>6. DownIsBounded'
    BY <1>43, BoundAssumption DEF ExitIsReaped, DownIsBounded, HostType, hostVars, daemonVars
  <2> QED BY <2>1, <2>2, <2>3, <2>4, <2>5, <2>6
<1>44. CASE GraceEnds
  <2>1. HostType'
    BY <1>44, HostBounds DEF GraceEnds, RemoveUnreachable, HostType, Stages, Watches, Facts, Pids, Files, hostVars, daemonVars
  <2>2. FilesType'
    BY <1>44, Bounds DEF GraceEnds, RemoveUnreachable, FilesType, Files, hostVars, daemonVars
  <2>3. ConnType'
    BY <1>44, ConnAssumption, BoundAssumption, SwitchAssumption DEF GraceEnds, RemoveUnreachable, ConnType, ConnStates, hostVars, daemonVars
  <2>4. ActorType'
    BY <1>44, ConnAssumption, BoundAssumption, SwitchAssumption DEF GraceEnds, RemoveUnreachable, ActorType, Dialers, Actors, Places, hostVars, daemonVars
  <2>5. PassType'
    BY <1>44, Bounds DEF GraceEnds, RemoveUnreachable, PassType, Passes, Plans, Stages, Files, hostVars, daemonVars
  <2>6. DownIsBounded'
    BY <1>44, BoundAssumption DEF GraceEnds, RemoveUnreachable, DownIsBounded, HostType, hostVars, daemonVars
  <2> QED BY <2>1, <2>2, <2>3, <2>4, <2>5, <2>6
<1>45. CASE ObserverRecordsLoss
  BY <1>45, ConnAssumption, BoundAssumption, SwitchAssumption
  DEF ObserverRecordsLoss, HostType, FilesType, ConnType, ActorType, PassType, Files, Stages, Watches, Places, Facts, ConnStates, Passes, Plans, Dialers, Actors, Pids, NoMeta, hostVars, daemonVars, DownIsBounded
<1>46. CASE ObserverLeaves
  BY <1>46, ConnAssumption, BoundAssumption, SwitchAssumption
  DEF ObserverLeaves, HostType, FilesType, ConnType, ActorType, PassType, Files, Stages, Watches, Places, Facts, ConnStates, Passes, Plans, Dialers, Actors, Pids, NoMeta, hostVars, daemonVars, DownIsBounded
<1>47. CASE DaemonStops
  <2>1. HostType'
    BY <1>47, HostBounds DEF DaemonStops, NoMemory, NoPass, NoPlan, HostType, Stages, Watches, Facts, Pids, Files, hostVars, daemonVars
  <2>2. FilesType'
    BY <1>47, Bounds DEF DaemonStops, NoMemory, NoPass, NoPlan, FilesType, Files, hostVars, daemonVars
  <2>3. ConnType'
    BY <1>47, ConnAssumption, BoundAssumption, SwitchAssumption DEF DaemonStops, NoMemory, NoPass, NoPlan, ConnType, ConnStates, hostVars, daemonVars
  <2>4. ActorType'
    BY <1>47, ConnAssumption, BoundAssumption, SwitchAssumption DEF DaemonStops, NoMemory, NoPass, NoPlan, ActorType, Dialers, Actors, Places, hostVars, daemonVars
  <2>5. PassType'
    BY <1>47, Bounds DEF DaemonStops, NoMemory, NoPass, NoPlan, PassType, Passes, Plans, Stages, Files, hostVars, daemonVars
  <2>6. DownIsBounded'
    BY <1>47, BoundAssumption DEF DaemonStops, NoMemory, NoPass, NoPlan, DownIsBounded, HostType, hostVars, daemonVars
  <2> QED BY <2>1, <2>2, <2>3, <2>4, <2>5, <2>6
<1>48. CASE DaemonStarts
  <2>1. HostType'
    BY <1>48, HostBounds DEF DaemonStarts, HostType, Stages, Watches, Facts, Pids, Files, DownIsBounded, hostVars, daemonVars
  <2>2. FilesType'
    BY <1>48, Bounds DEF DaemonStarts, FilesType, Files, hostVars, daemonVars
  <2>3. ConnType'
    BY <1>48, ConnAssumption, BoundAssumption, SwitchAssumption DEF DaemonStarts, ConnType, ConnStates, hostVars, daemonVars
  <2>4. ActorType'
    BY <1>48, ConnAssumption, BoundAssumption, SwitchAssumption DEF DaemonStarts, ActorType, Dialers, Actors, Places, hostVars, daemonVars
  <2>5. PassType'
    BY <1>48, Bounds DEF DaemonStarts, PassType, Passes, Plans, Stages, Files, hostVars, daemonVars
  <2>6. DownIsBounded'
    BY <1>48, BoundAssumption DEF DaemonStarts, DownIsBounded, HostType, hostVars, daemonVars
  <2> QED BY <2>1, <2>2, <2>3, <2>4, <2>5, <2>6
<1>49. CASE Reboot
  <2>1. HostType'
    BY <1>49, HostBounds DEF Reboot, NoMemory, NoPass, NoPlan, HostType, Stages, Watches, Facts, Pids, Files, FilesType, hostVars, daemonVars
  <2>2. FilesType'
    BY <1>49, Bounds DEF Reboot, NoMemory, NoPass, NoPlan, FilesType, Files, hostVars, daemonVars
  <2>3. ConnType'
    BY <1>49, ConnAssumption, BoundAssumption, SwitchAssumption DEF Reboot, NoMemory, NoPass, NoPlan, ConnType, ConnStates, hostVars, daemonVars
  <2>4. ActorType'
    BY <1>49, ConnAssumption, BoundAssumption, SwitchAssumption DEF Reboot, NoMemory, NoPass, NoPlan, ActorType, Dialers, Actors, Places, hostVars, daemonVars
  <2>5. PassType'
    BY <1>49, Bounds DEF Reboot, NoMemory, NoPass, NoPlan, PassType, Passes, Plans, Stages, Files, hostVars, daemonVars
  <2>6. DownIsBounded'
    BY <1>49, BoundAssumption DEF Reboot, NoMemory, NoPass, NoPlan, DownIsBounded, HostType, hostVars, daemonVars
  <2> QED BY <2>1, <2>2, <2>3, <2>4, <2>5, <2>6
<1>50. CASE UNCHANGED vars
  BY <1>50 DEF vars, HostType, FilesType, ConnType, ActorType, PassType, DownIsBounded
<1> QED
  BY <1>1, <1>2, <1>3, <1>4, <1>5, <1>6, <1>7, <1>8, <1>9, <1>10, <1>11, <1>12, <1>13, <1>14, <1>15, <1>16, <1>17, <1>18, <1>19, <1>20, <1>21, <1>22, <1>23, <1>24, <1>25, <1>26, <1>27, <1>28, <1>29, <1>30, <1>31, <1>32, <1>33, <1>34, <1>35, <1>36, <1>37, <1>38, <1>39, <1>40, <1>41, <1>42, <1>43, <1>44, <1>45, <1>46, <1>47, <1>48, <1>49, <1>50 DEF Next, Runner, Create, Discover, Reconnect, Wake, Kill, Pump, Observer

-----------------------------------------------------------------------------
(* An exit that reached the daemon, in a connection or in the ledger, was  *)
(* said by a runner.                                                       *)
LossInv == /\ \A c \in Conns : conn[c] = "exit" => exits # {}
           /\ run = "ended" => exits # {}
           /\ "exited" \in lane => exits # {}

(* Every step keeps an exit something a runner said.                       *)
LEMMA LossStep ==
    ASSUME TypeOK, LossInv, [Next]_vars
    PROVE  LossInv'
<1>0. HostType /\ FilesType /\ ConnType /\ ActorType
  BY TypeParts
<1> USE <1>0
<1>1. CASE LaunchdStarts
  BY <1>1
  DEF LaunchdStarts, LossInv, ConnType, HostType, hostVars, daemonVars
<1>2. CASE RunnerBinds
  BY <1>2
  DEF RunnerBinds, Permitted, LossInv, ConnType, HostType, hostVars, daemonVars
<1>3. CASE RunnerDeclines
  BY <1>3
  DEF RunnerDeclines, Permitted, LossInv, ConnType, HostType, hostVars, daemonVars
<1>4. CASE RunnerListens
  BY <1>4
  DEF RunnerListens, LossInv, ConnType, HostType, hostVars, daemonVars
<1>5. CASE RunnerEnds
  BY <1>5
  DEF RunnerEnds, Hangup, LossInv, ConnType, HostType, hostVars, daemonVars
<1>6. CASE RunnerObeysKill
  BY <1>6
  DEF RunnerObeysKill, RunnerEnds, Hangup, LossInv, ConnType, HostType, hostVars, daemonVars
<1>7. CASE RunnerLeaves
  BY <1>7
  DEF RunnerLeaves, LossInv, ConnType, HostType, hostVars, daemonVars
<1>8. CASE RunnerCrashes
  BY <1>8
  DEF RunnerCrashes, Hangup, LossInv, ConnType, HostType, hostVars, daemonVars
<1>9. CASE ConnectionBreaks
  BY <1>9
  DEF ConnectionBreaks, LossInv, ConnType, HostType, hostVars, daemonVars
<1>10. CASE CreateTracks
  BY <1>10
  DEF CreateTracks, Go, LossInv, ConnType, HostType, hostVars, daemonVars
<1>11. CASE CreateRecords
  BY <1>11
  DEF CreateRecords, Go, LossInv, ConnType, HostType, hostVars, daemonVars
<1>12. CASE CreateLaunches
  BY <1>12
  DEF CreateLaunches, Go, LossInv, ConnType, HostType, hostVars, daemonVars
<1>13. CASE CreateDials
  BY <1>13
  DEF CreateDials, Dial, Go, Spare, Answers, LossInv, ConnType, HostType, hostVars, daemonVars
<1>14. CASE CreateFails
  BY <1>14
  DEF CreateFails, Go, Reap, Reaped, Hangup, LossInv, ConnType, HostType, hostVars, daemonVars
<1>15. CASE CreateRegisters
  BY <1>15
  DEF CreateRegisters, Register, Refused, Dropped, Release, Go, Present, LossInv, ConnType, HostType, hostVars, daemonVars
<1>16. CASE Manage("create", "done")
  BY <1>16
  DEF Manage, Release, Go, Present, LossInv, ConnType, HostType, hostVars, daemonVars
<1>17. CASE DiscoverScans
  BY <1>17
  DEF DiscoverScans, Go, ChildPid, LossInv, ConnType, HostType, hostVars, daemonVars
<1>18. CASE DiscoverSkips
  BY <1>18
  DEF DiscoverSkips, Settle, Conclude, Go, LossInv, ConnType, HostType, hostVars, daemonVars
<1>19. CASE DiscoverDials
  BY <1>19
  DEF DiscoverDials, Inspected, Dial, Go, Spare, NoPass, Answers, LossInv, ConnType, HostType, hostVars, daemonVars
<1>20. CASE DiscoverGetsNoAnswer
  BY <1>20
  DEF DiscoverGetsNoAnswer, Inspected, Settle, Go, NoPass, LossInv, ConnType, HostType, hostVars, daemonVars
<1>21. CASE DiscoverRegisters
  BY <1>21
  DEF DiscoverRegisters, Register, Refused, Dropped, Release, Go, LossInv, ConnType, HostType, hostVars, daemonVars
<1>22. CASE Manage("discover", "reconcile")
  BY <1>22
  DEF Manage, Release, Go, Present, LossInv, ConnType, HostType, hostVars, daemonVars
<1>23. CASE DiscoverRetires
  BY <1>23
  DEF DiscoverRetires, Settle, Go, NoPass, Reap, Reaped, Hangup, LossInv, ConnType, HostType, hostVars, daemonVars
<1>24. CASE DiscoverReconciles
  BY <1>24
  DEF DiscoverReconciles, Go, LossInv, ConnType, HostType, hostVars, daemonVars
<1>25. CASE DiscoverRecordsLoss
  BY <1>25
  DEF DiscoverRecordsLoss, Go, LossInv, ConnType, HostType, hostVars, daemonVars
<1>26. CASE ReconnectWaits
  BY <1>26
  DEF ReconnectWaits, LossInv, ConnType, HostType, hostVars, daemonVars
<1>27. CASE ReconnectDials
  BY <1>27
  DEF ReconnectDials, Dial, Go, Spare, Answers, LossInv, ConnType, HostType, hostVars, daemonVars
<1>28. CASE ReconnectRegisters
  BY <1>28
  DEF ReconnectRegisters, Register, Refused, Dropped, Release, Go, LossInv, ConnType, HostType, hostVars, daemonVars
<1>29. CASE Manage("reconnect", "idle")
  BY <1>29
  DEF Manage, Release, Go, Present, LossInv, ConnType, HostType, hostVars, daemonVars
<1>30. CASE WakeBegins
  BY <1>30
  DEF WakeBegins, Go, LossInv, ConnType, HostType, hostVars, daemonVars
<1>31. CASE WakeKicks
  BY <1>31
  DEF WakeKicks, Go, LossInv, ConnType, HostType, hostVars, daemonVars
<1>32. CASE WakeDials
  BY <1>32
  DEF WakeDials, Dial, Go, Spare, Answers, LossInv, ConnType, HostType, hostVars, daemonVars
<1>33. CASE WakeFails
  BY <1>33
  DEF WakeFails, Go, LossInv, ConnType, HostType, hostVars, daemonVars
<1>34. CASE WakeRegisters
  BY <1>34
  DEF WakeRegisters, Register, Refused, Dropped, Release, Go, LossInv, ConnType, HostType, hostVars, daemonVars
<1>35. CASE Manage("wake", "unmark")
  BY <1>35
  DEF Manage, Release, Go, Present, LossInv, ConnType, HostType, hostVars, daemonVars
<1>36. CASE WakeEnds
  BY <1>36
  DEF WakeEnds, Go, LossInv, ConnType, HostType, hostVars, daemonVars
<1>37. CASE KillRecords
  BY <1>37
  DEF KillRecords, Go, Tombstone, LossInv, ConnType, HostType, hostVars, daemonVars
<1>38. CASE KillClosesPaused
  BY <1>38
  DEF KillClosesPaused, Go, NoPlan, Reap, Reaped, Hangup, LossInv, ConnType, HostType, hostVars, daemonVars
<1>39. CASE KillClosesLost
  BY <1>39
  DEF KillClosesLost, Go, NoPlan, RemoveUnreachable, LossInv, ConnType, HostType, hostVars, daemonVars
<1>40. CASE KillTells
  BY <1>40
  DEF KillTells, Go, NoPlan, LossInv, ConnType, HostType, hostVars, daemonVars
<1>41. CASE PumpLoses
  BY <1>41
  DEF PumpLoses, Tell, LossInv, ConnType, HostType, hostVars, daemonVars
<1>42. CASE PumpExits
  BY <1>42
  DEF PumpExits, Tell, LossInv, ConnType, HostType, hostVars, daemonVars
<1>43. CASE ExitIsReaped
  BY <1>43
  DEF ExitIsReaped, Reap, Reaped, Hangup, LossInv, ConnType, HostType, hostVars, daemonVars
<1>44. CASE GraceEnds
  BY <1>44
  DEF GraceEnds, RemoveUnreachable, LossInv, ConnType, HostType, hostVars, daemonVars
<1>45. CASE ObserverRecordsLoss
  BY <1>45
  DEF ObserverRecordsLoss, LossInv, ConnType, HostType, hostVars, daemonVars
<1>46. CASE ObserverLeaves
  BY <1>46
  DEF ObserverLeaves, LossInv, ConnType, HostType, hostVars, daemonVars
<1>47. CASE DaemonStops
  BY <1>47
  DEF DaemonStops, NoMemory, NoPass, NoPlan, LossInv, ConnType, HostType, hostVars, daemonVars
<1>48. CASE DaemonStarts
  BY <1>48
  DEF DaemonStarts, LossInv, ConnType, HostType, hostVars, daemonVars
<1>49. CASE Reboot
  BY <1>49
  DEF Reboot, NoMemory, NoPass, NoPlan, LossInv, ConnType, HostType, hostVars, daemonVars
<1>50. CASE UNCHANGED vars
  BY <1>50 DEF vars, LossInv, ConnType, HostType, hostVars, daemonVars
<1> QED
  BY <1>1, <1>2, <1>3, <1>4, <1>5, <1>6, <1>7, <1>8, <1>9, <1>10, <1>11, <1>12, <1>13, <1>14, <1>15, <1>16, <1>17, <1>18, <1>19, <1>20, <1>21, <1>22, <1>23, <1>24, <1>25, <1>26, <1>27, <1>28, <1>29, <1>30, <1>31, <1>32, <1>33, <1>34, <1>35, <1>36, <1>37, <1>38, <1>39, <1>40, <1>41, <1>42, <1>43, <1>44, <1>45, <1>46, <1>47, <1>48, <1>49, <1>50 DEF Next, Runner, Create, Discover, Reconnect, Wake, Kill, Pump, Observer

(* The launch permit is never of a later boot, and one of this boot, or a  *)
(* provider in it, was asked for or restored.                              *)
RestartInv == /\ disk.permit <= boot
              /\ disk.permit = boot => Pinned \/ boot \in asked
              /\ run \in {"bound", "serving", "ended"} => Pinned \/ boot \in asked

(* Every step keeps a provider asked for.                                  *)
LEMMA RestartStep ==
    ASSUME TypeOK, RestartInv, [Next]_vars
    PROVE  RestartInv'
<1>0. HostType /\ FilesType /\ ConnType /\ ActorType
  BY TypeParts
<1> USE <1>0
<1>1. CASE LaunchdStarts
  BY <1>1
  DEF LaunchdStarts, RestartInv, HostType, FilesType, Files, hostVars, daemonVars
<1>2. CASE RunnerBinds
  BY <1>2
  DEF RunnerBinds, Permitted, RestartInv, HostType, FilesType, Files, hostVars, daemonVars
<1>3. CASE RunnerDeclines
  BY <1>3
  DEF RunnerDeclines, Permitted, RestartInv, HostType, FilesType, Files, hostVars, daemonVars
<1>4. CASE RunnerListens
  BY <1>4
  DEF RunnerListens, RestartInv, HostType, FilesType, Files, hostVars, daemonVars
<1>5. CASE RunnerEnds
  BY <1>5
  DEF RunnerEnds, Hangup, RestartInv, HostType, FilesType, Files, hostVars, daemonVars
<1>6. CASE RunnerObeysKill
  BY <1>6
  DEF RunnerObeysKill, RunnerEnds, Hangup, RestartInv, HostType, FilesType, Files, hostVars, daemonVars
<1>7. CASE RunnerLeaves
  BY <1>7
  DEF RunnerLeaves, RestartInv, HostType, FilesType, Files, hostVars, daemonVars
<1>8. CASE RunnerCrashes
  BY <1>8
  DEF RunnerCrashes, Hangup, RestartInv, HostType, FilesType, Files, hostVars, daemonVars
<1>9. CASE ConnectionBreaks
  BY <1>9
  DEF ConnectionBreaks, RestartInv, HostType, FilesType, Files, hostVars, daemonVars
<1>10. CASE CreateTracks
  BY <1>10
  DEF CreateTracks, Go, RestartInv, HostType, FilesType, Files, hostVars, daemonVars
<1>11. CASE CreateRecords
  BY <1>11
  DEF CreateRecords, Go, RestartInv, HostType, FilesType, Files, hostVars, daemonVars
<1>12. CASE CreateLaunches
  BY <1>12
  DEF CreateLaunches, Go, RestartInv, HostType, FilesType, Files, hostVars, daemonVars
<1>13. CASE CreateDials
  BY <1>13
  DEF CreateDials, Dial, Go, Spare, Answers, RestartInv, HostType, FilesType, Files, hostVars, daemonVars
<1>14. CASE CreateFails
  BY <1>14
  DEF CreateFails, Go, Reap, Reaped, Hangup, RestartInv, HostType, FilesType, Files, hostVars, daemonVars
<1>15. CASE CreateRegisters
  BY <1>15
  DEF CreateRegisters, Register, Refused, Dropped, Release, Go, Present, RestartInv, HostType, FilesType, Files, hostVars, daemonVars
<1>16. CASE Manage("create", "done")
  BY <1>16
  DEF Manage, Release, Go, Present, RestartInv, HostType, FilesType, Files, hostVars, daemonVars
<1>17. CASE DiscoverScans
  BY <1>17
  DEF DiscoverScans, Go, ChildPid, RestartInv, HostType, FilesType, Files, hostVars, daemonVars
<1>18. CASE DiscoverSkips
  BY <1>18
  DEF DiscoverSkips, Settle, Conclude, Go, RestartInv, HostType, FilesType, Files, hostVars, daemonVars
<1>19. CASE DiscoverDials
  BY <1>19
  DEF DiscoverDials, Inspected, Dial, Go, Spare, NoPass, Answers, RestartInv, HostType, FilesType, Files, hostVars, daemonVars
<1>20. CASE DiscoverGetsNoAnswer
  BY <1>20
  DEF DiscoverGetsNoAnswer, Inspected, Settle, Go, NoPass, RestartInv, HostType, FilesType, Files, hostVars, daemonVars
<1>21. CASE DiscoverRegisters
  BY <1>21
  DEF DiscoverRegisters, Register, Refused, Dropped, Release, Go, RestartInv, HostType, FilesType, Files, hostVars, daemonVars
<1>22. CASE Manage("discover", "reconcile")
  BY <1>22
  DEF Manage, Release, Go, Present, RestartInv, HostType, FilesType, Files, hostVars, daemonVars
<1>23. CASE DiscoverRetires
  BY <1>23
  DEF DiscoverRetires, Settle, Go, NoPass, Reap, Reaped, Hangup, RestartInv, HostType, FilesType, Files, hostVars, daemonVars
<1>24. CASE DiscoverReconciles
  BY <1>24
  DEF DiscoverReconciles, Go, RestartInv, HostType, FilesType, Files, hostVars, daemonVars
<1>25. CASE DiscoverRecordsLoss
  BY <1>25
  DEF DiscoverRecordsLoss, Go, RestartInv, HostType, FilesType, Files, hostVars, daemonVars
<1>26. CASE ReconnectWaits
  BY <1>26
  DEF ReconnectWaits, RestartInv, HostType, FilesType, Files, hostVars, daemonVars
<1>27. CASE ReconnectDials
  BY <1>27
  DEF ReconnectDials, Dial, Go, Spare, Answers, RestartInv, HostType, FilesType, Files, hostVars, daemonVars
<1>28. CASE ReconnectRegisters
  BY <1>28
  DEF ReconnectRegisters, Register, Refused, Dropped, Release, Go, RestartInv, HostType, FilesType, Files, hostVars, daemonVars
<1>29. CASE Manage("reconnect", "idle")
  BY <1>29
  DEF Manage, Release, Go, Present, RestartInv, HostType, FilesType, Files, hostVars, daemonVars
<1>30. CASE WakeBegins
  BY <1>30
  DEF WakeBegins, Go, RestartInv, HostType, FilesType, Files, hostVars, daemonVars
<1>31. CASE WakeKicks
  BY <1>31
  DEF WakeKicks, Go, RestartInv, HostType, FilesType, Files, hostVars, daemonVars
<1>32. CASE WakeDials
  BY <1>32
  DEF WakeDials, Dial, Go, Spare, Answers, RestartInv, HostType, FilesType, Files, hostVars, daemonVars
<1>33. CASE WakeFails
  BY <1>33
  DEF WakeFails, Go, RestartInv, HostType, FilesType, Files, hostVars, daemonVars
<1>34. CASE WakeRegisters
  BY <1>34
  DEF WakeRegisters, Register, Refused, Dropped, Release, Go, RestartInv, HostType, FilesType, Files, hostVars, daemonVars
<1>35. CASE Manage("wake", "unmark")
  BY <1>35
  DEF Manage, Release, Go, Present, RestartInv, HostType, FilesType, Files, hostVars, daemonVars
<1>36. CASE WakeEnds
  BY <1>36
  DEF WakeEnds, Go, RestartInv, HostType, FilesType, Files, hostVars, daemonVars
<1>37. CASE KillRecords
  BY <1>37
  DEF KillRecords, Go, Tombstone, RestartInv, HostType, FilesType, Files, hostVars, daemonVars
<1>38. CASE KillClosesPaused
  <2>1. boot' = boot /\ asked' = asked
    BY <1>38 DEF KillClosesPaused
  <2>2. run' \in {run, "none"} /\ disk'.permit \in {disk.permit, 0}
    BY <1>38 DEF KillClosesPaused, Reap, FilesType, Files
  <2> QED
    BY <2>1, <2>2, BoundAssumption DEF RestartInv, HostType, FilesType, Files
<1>39. CASE KillClosesLost
  BY <1>39
  DEF KillClosesLost, Go, NoPlan, RemoveUnreachable, RestartInv, HostType, FilesType, Files, hostVars, daemonVars
<1>40. CASE KillTells
  BY <1>40
  DEF KillTells, Go, NoPlan, RestartInv, HostType, FilesType, Files, hostVars, daemonVars
<1>41. CASE PumpLoses
  BY <1>41
  DEF PumpLoses, Tell, RestartInv, HostType, FilesType, Files, hostVars, daemonVars
<1>42. CASE PumpExits
  BY <1>42
  DEF PumpExits, Tell, RestartInv, HostType, FilesType, Files, hostVars, daemonVars
<1>43. CASE ExitIsReaped
  BY <1>43
  DEF ExitIsReaped, Reap, Reaped, Hangup, RestartInv, HostType, FilesType, Files, hostVars, daemonVars
<1>44. CASE GraceEnds
  BY <1>44
  DEF GraceEnds, RemoveUnreachable, RestartInv, HostType, FilesType, Files, hostVars, daemonVars
<1>45. CASE ObserverRecordsLoss
  BY <1>45
  DEF ObserverRecordsLoss, RestartInv, HostType, FilesType, Files, hostVars, daemonVars
<1>46. CASE ObserverLeaves
  BY <1>46
  DEF ObserverLeaves, RestartInv, HostType, FilesType, Files, hostVars, daemonVars
<1>47. CASE DaemonStops
  BY <1>47
  DEF DaemonStops, NoMemory, NoPass, NoPlan, RestartInv, HostType, FilesType, Files, hostVars, daemonVars
<1>48. CASE DaemonStarts
  BY <1>48
  DEF DaemonStarts, RestartInv, HostType, FilesType, Files, hostVars, daemonVars
<1>49. CASE Reboot
  BY <1>49
  DEF Reboot, NoMemory, NoPass, NoPlan, RestartInv, HostType, FilesType, Files, hostVars, daemonVars
<1>50. CASE UNCHANGED vars
  BY <1>50 DEF vars, RestartInv, HostType, FilesType, Files, hostVars, daemonVars
<1> QED
  BY <1>1, <1>2, <1>3, <1>4, <1>5, <1>6, <1>7, <1>8, <1>9, <1>10, <1>11, <1>12, <1>13, <1>14, <1>15, <1>16, <1>17, <1>18, <1>19, <1>20, <1>21, <1>22, <1>23, <1>24, <1>25, <1>26, <1>27, <1>28, <1>29, <1>30, <1>31, <1>32, <1>33, <1>34, <1>35, <1>36, <1>37, <1>38, <1>39, <1>40, <1>41, <1>42, <1>43, <1>44, <1>45, <1>46, <1>47, <1>48, <1>49, <1>50 DEF Next, Runner, Create, Discover, Reconnect, Wake, Kill, Pump, Observer

(* Before its creation is recorded a session has nothing: no file, job,    *)
(* entry, observer, timer or actor at work on it.                          *)
FreshInv == lane = {} =>
    /\ disk = NoFiles /\ run = "none" /\ ~loaded
    /\ session = NoConn /\ watch = "none" /\ ~timer
    /\ pc["create"] \in {"idle", "record"} /\ pc["discover"] \in {"idle", "inspect", "reconcile"}
    /\ pc["reconnect"] = "idle" /\ pc["wake"] = "idle" /\ pc["kill"] = "idle"
    /\ pass.candidate = FALSE

(* The creation is recorded in an empty lane, and the tombstone precedes   *)
(* what a kill does.                                                       *)
KillInv == /\ pc["create"] = "record" => lane = {}
           /\ pc["kill"] = "act" => "kill" \in lane
           /\ told # {} => "kill" \in lane

(* Every step keeps an unrecorded session without anything.                *)
LEMMA FreshStep ==
    ASSUME TypeOK, FreshInv, [Next]_vars
    PROVE  FreshInv'
<1>0. HostType /\ FilesType /\ ConnType /\ ActorType
  BY TypeParts
<1> USE <1>0
<1>1. CASE LaunchdStarts
  BY <1>1
  DEF LaunchdStarts, FreshInv, Gone, ReconnectIsDue, Closed, Answers, NoFiles, NoPass, ActorType, Actors, Dialers, hostVars, daemonVars
<1>2. CASE RunnerBinds
  BY <1>2
  DEF RunnerBinds, Permitted, FreshInv, Gone, ReconnectIsDue, Closed, Answers, NoFiles, NoPass, ActorType, Actors, Dialers, hostVars, daemonVars
<1>3. CASE RunnerDeclines
  BY <1>3
  DEF RunnerDeclines, Permitted, FreshInv, Gone, ReconnectIsDue, Closed, Answers, NoFiles, NoPass, ActorType, Actors, Dialers, hostVars, daemonVars
<1>4. CASE RunnerListens
  BY <1>4
  DEF RunnerListens, FreshInv, Gone, ReconnectIsDue, Closed, Answers, NoFiles, NoPass, ActorType, Actors, Dialers, hostVars, daemonVars
<1>5. CASE RunnerEnds
  BY <1>5
  DEF RunnerEnds, Hangup, FreshInv, Gone, ReconnectIsDue, Closed, Answers, NoFiles, NoPass, ActorType, Actors, Dialers, hostVars, daemonVars
<1>6. CASE RunnerObeysKill
  BY <1>6
  DEF RunnerObeysKill, RunnerEnds, Hangup, FreshInv, Gone, ReconnectIsDue, Closed, Answers, NoFiles, NoPass, ActorType, Actors, Dialers, hostVars, daemonVars
<1>7. CASE RunnerLeaves
  BY <1>7
  DEF RunnerLeaves, FreshInv, Gone, ReconnectIsDue, Closed, Answers, NoFiles, NoPass, ActorType, Actors, Dialers, hostVars, daemonVars
<1>8. CASE RunnerCrashes
  BY <1>8
  DEF RunnerCrashes, Hangup, FreshInv, Gone, ReconnectIsDue, Closed, Answers, NoFiles, NoPass, ActorType, Actors, Dialers, hostVars, daemonVars
<1>9. CASE ConnectionBreaks
  BY <1>9
  DEF ConnectionBreaks, FreshInv, Gone, ReconnectIsDue, Closed, Answers, NoFiles, NoPass, ActorType, Actors, Dialers, hostVars, daemonVars
<1>10. CASE CreateTracks
  BY <1>10
  DEF CreateTracks, Go, FreshInv, Gone, ReconnectIsDue, Closed, Answers, NoFiles, NoPass, ActorType, Actors, Dialers, hostVars, daemonVars
<1>11. CASE CreateRecords
  BY <1>11
  DEF CreateRecords, Go, FreshInv, Gone, ReconnectIsDue, Closed, Answers, NoFiles, NoPass, ActorType, Actors, Dialers, hostVars, daemonVars
<1>12. CASE CreateLaunches
  BY <1>12
  DEF CreateLaunches, Go, FreshInv, Gone, ReconnectIsDue, Closed, Answers, NoFiles, NoPass, ActorType, Actors, Dialers, hostVars, daemonVars
<1>13. CASE CreateDials
  BY <1>13
  DEF CreateDials, Dial, Go, Spare, Answers, FreshInv, Gone, ReconnectIsDue, Closed, Answers, NoFiles, NoPass, ActorType, Actors, Dialers, hostVars, daemonVars
<1>14. CASE CreateFails
  BY <1>14
  DEF CreateFails, Go, Reap, Reaped, Hangup, FreshInv, Gone, ReconnectIsDue, Closed, Answers, NoFiles, NoPass, ActorType, Actors, Dialers, hostVars, daemonVars
<1>15. CASE CreateRegisters
  BY <1>15
  DEF CreateRegisters, Register, Refused, Dropped, Release, Go, Present, FreshInv, Gone, ReconnectIsDue, Closed, Answers, NoFiles, NoPass, ActorType, Actors, Dialers, hostVars, daemonVars
<1>16. CASE Manage("create", "done")
  BY <1>16
  DEF Manage, Release, Go, Present, FreshInv, Gone, ReconnectIsDue, Closed, Answers, NoFiles, NoPass, ActorType, Actors, Dialers, hostVars, daemonVars
<1>17. CASE DiscoverScans
  BY <1>17
  DEF DiscoverScans, Go, ChildPid, FreshInv, Gone, ReconnectIsDue, Closed, Answers, NoFiles, NoPass, ActorType, Actors, Dialers, hostVars, daemonVars
<1>18. CASE DiscoverSkips
  BY <1>18
  DEF DiscoverSkips, Settle, Conclude, Go, FreshInv, Gone, ReconnectIsDue, Closed, Answers, NoFiles, NoPass, ActorType, Actors, Dialers, hostVars, daemonVars
<1>19. CASE DiscoverDials
  BY <1>19
  DEF DiscoverDials, Inspected, Dial, Go, Spare, NoPass, Answers, FreshInv, Gone, ReconnectIsDue, Closed, Answers, NoFiles, NoPass, ActorType, Actors, Dialers, hostVars, daemonVars
<1>20. CASE DiscoverGetsNoAnswer
  BY <1>20
  DEF DiscoverGetsNoAnswer, Inspected, Settle, Go, NoPass, FreshInv, Gone, ReconnectIsDue, Closed, Answers, NoFiles, NoPass, ActorType, Actors, Dialers, hostVars, daemonVars
<1>21. CASE DiscoverRegisters
  BY <1>21
  DEF DiscoverRegisters, Register, Refused, Dropped, Release, Go, FreshInv, Gone, ReconnectIsDue, Closed, Answers, NoFiles, NoPass, ActorType, Actors, Dialers, hostVars, daemonVars
<1>22. CASE Manage("discover", "reconcile")
  BY <1>22
  DEF Manage, Release, Go, Present, FreshInv, Gone, ReconnectIsDue, Closed, Answers, NoFiles, NoPass, ActorType, Actors, Dialers, hostVars, daemonVars
<1>23. CASE DiscoverRetires
  BY <1>23
  DEF DiscoverRetires, Settle, Go, NoPass, Reap, Reaped, Hangup, FreshInv, Gone, ReconnectIsDue, Closed, Answers, NoFiles, NoPass, ActorType, Actors, Dialers, hostVars, daemonVars
<1>24. CASE DiscoverReconciles
  BY <1>24
  DEF DiscoverReconciles, Go, FreshInv, Gone, ReconnectIsDue, Closed, Answers, NoFiles, NoPass, ActorType, Actors, Dialers, hostVars, daemonVars
<1>25. CASE DiscoverRecordsLoss
  BY <1>25
  DEF DiscoverRecordsLoss, Go, FreshInv, Gone, ReconnectIsDue, Closed, Answers, NoFiles, NoPass, ActorType, Actors, Dialers, hostVars, daemonVars
<1>26. CASE ReconnectWaits
  BY <1>26
  DEF ReconnectWaits, FreshInv, Gone, ReconnectIsDue, Closed, Answers, NoFiles, NoPass, ActorType, Actors, Dialers, hostVars, daemonVars
<1>27. CASE ReconnectDials
  BY <1>27
  DEF ReconnectDials, Dial, Go, Spare, Answers, FreshInv, Gone, ReconnectIsDue, Closed, Answers, NoFiles, NoPass, ActorType, Actors, Dialers, hostVars, daemonVars
<1>28. CASE ReconnectRegisters
  BY <1>28
  DEF ReconnectRegisters, Register, Refused, Dropped, Release, Go, FreshInv, Gone, ReconnectIsDue, Closed, Answers, NoFiles, NoPass, ActorType, Actors, Dialers, hostVars, daemonVars
<1>29. CASE Manage("reconnect", "idle")
  BY <1>29
  DEF Manage, Release, Go, Present, FreshInv, Gone, ReconnectIsDue, Closed, Answers, NoFiles, NoPass, ActorType, Actors, Dialers, hostVars, daemonVars
<1>30. CASE WakeBegins
  BY <1>30
  DEF WakeBegins, Go, FreshInv, Gone, ReconnectIsDue, Closed, Answers, NoFiles, NoPass, ActorType, Actors, Dialers, hostVars, daemonVars
<1>31. CASE WakeKicks
  BY <1>31
  DEF WakeKicks, Go, FreshInv, Gone, ReconnectIsDue, Closed, Answers, NoFiles, NoPass, ActorType, Actors, Dialers, hostVars, daemonVars
<1>32. CASE WakeDials
  BY <1>32
  DEF WakeDials, Dial, Go, Spare, Answers, FreshInv, Gone, ReconnectIsDue, Closed, Answers, NoFiles, NoPass, ActorType, Actors, Dialers, hostVars, daemonVars
<1>33. CASE WakeFails
  BY <1>33
  DEF WakeFails, Go, FreshInv, Gone, ReconnectIsDue, Closed, Answers, NoFiles, NoPass, ActorType, Actors, Dialers, hostVars, daemonVars
<1>34. CASE WakeRegisters
  BY <1>34
  DEF WakeRegisters, Register, Refused, Dropped, Release, Go, FreshInv, Gone, ReconnectIsDue, Closed, Answers, NoFiles, NoPass, ActorType, Actors, Dialers, hostVars, daemonVars
<1>35. CASE Manage("wake", "unmark")
  BY <1>35
  DEF Manage, Release, Go, Present, FreshInv, Gone, ReconnectIsDue, Closed, Answers, NoFiles, NoPass, ActorType, Actors, Dialers, hostVars, daemonVars
<1>36. CASE WakeEnds
  BY <1>36
  DEF WakeEnds, Go, FreshInv, Gone, ReconnectIsDue, Closed, Answers, NoFiles, NoPass, ActorType, Actors, Dialers, hostVars, daemonVars
<1>37. CASE KillRecords
  BY <1>37
  DEF KillRecords, Go, Tombstone, FreshInv, Gone, ReconnectIsDue, Closed, Answers, NoFiles, NoPass, ActorType, Actors, Dialers, hostVars, daemonVars
<1>38. CASE KillClosesPaused
  BY <1>38
  DEF KillClosesPaused, Go, NoPlan, Reap, Reaped, Hangup, FreshInv, Gone, ReconnectIsDue, Closed, Answers, NoFiles, NoPass, ActorType, Actors, Dialers, hostVars, daemonVars
<1>39. CASE KillClosesLost
  BY <1>39
  DEF KillClosesLost, Go, NoPlan, RemoveUnreachable, FreshInv, Gone, ReconnectIsDue, Closed, Answers, NoFiles, NoPass, ActorType, Actors, Dialers, hostVars, daemonVars
<1>40. CASE KillTells
  BY <1>40
  DEF KillTells, Go, NoPlan, FreshInv, Gone, ReconnectIsDue, Closed, Answers, NoFiles, NoPass, ActorType, Actors, Dialers, hostVars, daemonVars
<1>41. CASE PumpLoses
  BY <1>41
  DEF PumpLoses, Tell, FreshInv, Gone, ReconnectIsDue, Closed, Answers, NoFiles, NoPass, ActorType, Actors, Dialers, hostVars, daemonVars
<1>42. CASE PumpExits
  BY <1>42
  DEF PumpExits, Tell, FreshInv, Gone, ReconnectIsDue, Closed, Answers, NoFiles, NoPass, ActorType, Actors, Dialers, hostVars, daemonVars
<1>43. CASE ExitIsReaped
  BY <1>43
  DEF ExitIsReaped, Reap, Reaped, Hangup, FreshInv, Gone, ReconnectIsDue, Closed, Answers, NoFiles, NoPass, ActorType, Actors, Dialers, hostVars, daemonVars
<1>44. CASE GraceEnds
  BY <1>44
  DEF GraceEnds, RemoveUnreachable, FreshInv, Gone, ReconnectIsDue, Closed, Answers, NoFiles, NoPass, ActorType, Actors, Dialers, hostVars, daemonVars
<1>45. CASE ObserverRecordsLoss
  BY <1>45
  DEF ObserverRecordsLoss, FreshInv, Gone, ReconnectIsDue, Closed, Answers, NoFiles, NoPass, ActorType, Actors, Dialers, hostVars, daemonVars
<1>46. CASE ObserverLeaves
  BY <1>46
  DEF ObserverLeaves, FreshInv, Gone, ReconnectIsDue, Closed, Answers, NoFiles, NoPass, ActorType, Actors, Dialers, hostVars, daemonVars
<1>47. CASE DaemonStops
  BY <1>47
  DEF DaemonStops, NoMemory, NoPass, NoPlan, FreshInv, Gone, ReconnectIsDue, Closed, Answers, NoFiles, NoPass, ActorType, Actors, Dialers, hostVars, daemonVars
<1>48. CASE DaemonStarts
  BY <1>48
  DEF DaemonStarts, FreshInv, Gone, ReconnectIsDue, Closed, Answers, NoFiles, NoPass, ActorType, Actors, Dialers, hostVars, daemonVars
<1>49. CASE Reboot
  BY <1>49
  DEF Reboot, NoMemory, NoPass, NoPlan, FreshInv, Gone, ReconnectIsDue, Closed, Answers, NoFiles, NoPass, ActorType, Actors, Dialers, hostVars, daemonVars
<1>50. CASE UNCHANGED vars
  BY <1>50 DEF vars, FreshInv, Gone, ReconnectIsDue, Closed, Answers, NoFiles, NoPass, ActorType, Actors, Dialers, hostVars, daemonVars
<1> QED
  BY <1>1, <1>2, <1>3, <1>4, <1>5, <1>6, <1>7, <1>8, <1>9, <1>10, <1>11, <1>12, <1>13, <1>14, <1>15, <1>16, <1>17, <1>18, <1>19, <1>20, <1>21, <1>22, <1>23, <1>24, <1>25, <1>26, <1>27, <1>28, <1>29, <1>30, <1>31, <1>32, <1>33, <1>34, <1>35, <1>36, <1>37, <1>38, <1>39, <1>40, <1>41, <1>42, <1>43, <1>44, <1>45, <1>46, <1>47, <1>48, <1>49, <1>50 DEF Next, Runner, Create, Discover, Reconnect, Wake, Kill, Pump, Observer

(* Every step keeps the tombstone before the kill.                         *)
LEMMA KillStep ==
    ASSUME TypeOK, FreshInv, KillInv, [Next]_vars
    PROVE  KillInv'
<1>0. HostType /\ FilesType /\ ConnType /\ ActorType
  BY TypeParts
<1> USE <1>0
<1>1. CASE LaunchdStarts
  BY <1>1
  DEF LaunchdStarts, KillInv, FreshInv, ActorType, Actors, Dialers, hostVars, daemonVars
<1>2. CASE RunnerBinds
  BY <1>2
  DEF RunnerBinds, Permitted, KillInv, FreshInv, ActorType, Actors, Dialers, hostVars, daemonVars
<1>3. CASE RunnerDeclines
  BY <1>3
  DEF RunnerDeclines, Permitted, KillInv, FreshInv, ActorType, Actors, Dialers, hostVars, daemonVars
<1>4. CASE RunnerListens
  BY <1>4
  DEF RunnerListens, KillInv, FreshInv, ActorType, Actors, Dialers, hostVars, daemonVars
<1>5. CASE RunnerEnds
  BY <1>5
  DEF RunnerEnds, Hangup, KillInv, FreshInv, ActorType, Actors, Dialers, hostVars, daemonVars
<1>6. CASE RunnerObeysKill
  BY <1>6
  DEF RunnerObeysKill, RunnerEnds, Hangup, KillInv, FreshInv, ActorType, Actors, Dialers, hostVars, daemonVars
<1>7. CASE RunnerLeaves
  BY <1>7
  DEF RunnerLeaves, KillInv, FreshInv, ActorType, Actors, Dialers, hostVars, daemonVars
<1>8. CASE RunnerCrashes
  BY <1>8
  DEF RunnerCrashes, Hangup, KillInv, FreshInv, ActorType, Actors, Dialers, hostVars, daemonVars
<1>9. CASE ConnectionBreaks
  BY <1>9
  DEF ConnectionBreaks, KillInv, FreshInv, ActorType, Actors, Dialers, hostVars, daemonVars
<1>10. CASE CreateTracks
  BY <1>10
  DEF CreateTracks, Go, KillInv, FreshInv, ActorType, Actors, Dialers, hostVars, daemonVars
<1>11. CASE CreateRecords
  BY <1>11
  DEF CreateRecords, Go, KillInv, FreshInv, ActorType, Actors, Dialers, hostVars, daemonVars
<1>12. CASE CreateLaunches
  BY <1>12
  DEF CreateLaunches, Go, KillInv, FreshInv, ActorType, Actors, Dialers, hostVars, daemonVars
<1>13. CASE CreateDials
  BY <1>13
  DEF CreateDials, Dial, Go, Spare, Answers, KillInv, FreshInv, ActorType, Actors, Dialers, hostVars, daemonVars
<1>14. CASE CreateFails
  BY <1>14
  DEF CreateFails, Go, Reap, Reaped, Hangup, KillInv, FreshInv, ActorType, Actors, Dialers, hostVars, daemonVars
<1>15. CASE CreateRegisters
  BY <1>15
  DEF CreateRegisters, Register, Refused, Dropped, Release, Go, Present, KillInv, FreshInv, ActorType, Actors, Dialers, hostVars, daemonVars
<1>16. CASE Manage("create", "done")
  BY <1>16
  DEF Manage, Release, Go, Present, KillInv, FreshInv, ActorType, Actors, Dialers, hostVars, daemonVars
<1>17. CASE DiscoverScans
  BY <1>17
  DEF DiscoverScans, Go, ChildPid, KillInv, FreshInv, ActorType, Actors, Dialers, hostVars, daemonVars
<1>18. CASE DiscoverSkips
  BY <1>18
  DEF DiscoverSkips, Settle, Conclude, Go, KillInv, FreshInv, ActorType, Actors, Dialers, hostVars, daemonVars
<1>19. CASE DiscoverDials
  BY <1>19
  DEF DiscoverDials, Inspected, Dial, Go, Spare, NoPass, Answers, KillInv, FreshInv, ActorType, Actors, Dialers, hostVars, daemonVars
<1>20. CASE DiscoverGetsNoAnswer
  BY <1>20
  DEF DiscoverGetsNoAnswer, Inspected, Settle, Go, NoPass, KillInv, FreshInv, ActorType, Actors, Dialers, hostVars, daemonVars
<1>21. CASE DiscoverRegisters
  BY <1>21
  DEF DiscoverRegisters, Register, Refused, Dropped, Release, Go, KillInv, FreshInv, ActorType, Actors, Dialers, hostVars, daemonVars
<1>22. CASE Manage("discover", "reconcile")
  BY <1>22
  DEF Manage, Release, Go, Present, KillInv, FreshInv, ActorType, Actors, Dialers, hostVars, daemonVars
<1>23. CASE DiscoverRetires
  BY <1>23
  DEF DiscoverRetires, Settle, Go, NoPass, Reap, Reaped, Hangup, KillInv, FreshInv, ActorType, Actors, Dialers, hostVars, daemonVars
<1>24. CASE DiscoverReconciles
  BY <1>24
  DEF DiscoverReconciles, Go, KillInv, FreshInv, ActorType, Actors, Dialers, hostVars, daemonVars
<1>25. CASE DiscoverRecordsLoss
  BY <1>25
  DEF DiscoverRecordsLoss, Go, KillInv, FreshInv, ActorType, Actors, Dialers, hostVars, daemonVars
<1>26. CASE ReconnectWaits
  BY <1>26
  DEF ReconnectWaits, KillInv, FreshInv, ActorType, Actors, Dialers, hostVars, daemonVars
<1>27. CASE ReconnectDials
  BY <1>27
  DEF ReconnectDials, Dial, Go, Spare, Answers, KillInv, FreshInv, ActorType, Actors, Dialers, hostVars, daemonVars
<1>28. CASE ReconnectRegisters
  BY <1>28
  DEF ReconnectRegisters, Register, Refused, Dropped, Release, Go, KillInv, FreshInv, ActorType, Actors, Dialers, hostVars, daemonVars
<1>29. CASE Manage("reconnect", "idle")
  BY <1>29
  DEF Manage, Release, Go, Present, KillInv, FreshInv, ActorType, Actors, Dialers, hostVars, daemonVars
<1>30. CASE WakeBegins
  BY <1>30
  DEF WakeBegins, Go, KillInv, FreshInv, ActorType, Actors, Dialers, hostVars, daemonVars
<1>31. CASE WakeKicks
  BY <1>31
  DEF WakeKicks, Go, KillInv, FreshInv, ActorType, Actors, Dialers, hostVars, daemonVars
<1>32. CASE WakeDials
  BY <1>32
  DEF WakeDials, Dial, Go, Spare, Answers, KillInv, FreshInv, ActorType, Actors, Dialers, hostVars, daemonVars
<1>33. CASE WakeFails
  BY <1>33
  DEF WakeFails, Go, KillInv, FreshInv, ActorType, Actors, Dialers, hostVars, daemonVars
<1>34. CASE WakeRegisters
  BY <1>34
  DEF WakeRegisters, Register, Refused, Dropped, Release, Go, KillInv, FreshInv, ActorType, Actors, Dialers, hostVars, daemonVars
<1>35. CASE Manage("wake", "unmark")
  BY <1>35
  DEF Manage, Release, Go, Present, KillInv, FreshInv, ActorType, Actors, Dialers, hostVars, daemonVars
<1>36. CASE WakeEnds
  BY <1>36
  DEF WakeEnds, Go, KillInv, FreshInv, ActorType, Actors, Dialers, hostVars, daemonVars
<1>37. CASE KillRecords
  BY <1>37
  DEF KillRecords, Go, Tombstone, KillInv, FreshInv, ActorType, Actors, Dialers, hostVars, daemonVars
<1>38. CASE KillClosesPaused
  BY <1>38
  DEF KillClosesPaused, Go, NoPlan, Reap, Reaped, Hangup, KillInv, FreshInv, ActorType, Actors, Dialers, hostVars, daemonVars
<1>39. CASE KillClosesLost
  BY <1>39
  DEF KillClosesLost, Go, NoPlan, RemoveUnreachable, KillInv, FreshInv, ActorType, Actors, Dialers, hostVars, daemonVars
<1>40. CASE KillTells
  BY <1>40
  DEF KillTells, Go, NoPlan, KillInv, FreshInv, ActorType, Actors, Dialers, hostVars, daemonVars
<1>41. CASE PumpLoses
  BY <1>41
  DEF PumpLoses, Tell, KillInv, FreshInv, ActorType, Actors, Dialers, hostVars, daemonVars
<1>42. CASE PumpExits
  BY <1>42
  DEF PumpExits, Tell, KillInv, FreshInv, ActorType, Actors, Dialers, hostVars, daemonVars
<1>43. CASE ExitIsReaped
  BY <1>43
  DEF ExitIsReaped, Reap, Reaped, Hangup, KillInv, FreshInv, ActorType, Actors, Dialers, hostVars, daemonVars
<1>44. CASE GraceEnds
  BY <1>44
  DEF GraceEnds, RemoveUnreachable, KillInv, FreshInv, ActorType, Actors, Dialers, hostVars, daemonVars
<1>45. CASE ObserverRecordsLoss
  BY <1>45
  DEF ObserverRecordsLoss, KillInv, FreshInv, ActorType, Actors, Dialers, hostVars, daemonVars
<1>46. CASE ObserverLeaves
  BY <1>46
  DEF ObserverLeaves, KillInv, FreshInv, ActorType, Actors, Dialers, hostVars, daemonVars
<1>47. CASE DaemonStops
  BY <1>47
  DEF DaemonStops, NoMemory, NoPass, NoPlan, KillInv, FreshInv, ActorType, Actors, Dialers, hostVars, daemonVars
<1>48. CASE DaemonStarts
  BY <1>48
  DEF DaemonStarts, KillInv, FreshInv, ActorType, Actors, Dialers, hostVars, daemonVars
<1>49. CASE Reboot
  BY <1>49
  DEF Reboot, NoMemory, NoPass, NoPlan, KillInv, FreshInv, ActorType, Actors, Dialers, hostVars, daemonVars
<1>50. CASE UNCHANGED vars
  BY <1>50 DEF vars, KillInv, FreshInv, ActorType, Actors, Dialers, hostVars, daemonVars
<1> QED
  BY <1>1, <1>2, <1>3, <1>4, <1>5, <1>6, <1>7, <1>8, <1>9, <1>10, <1>11, <1>12, <1>13, <1>14, <1>15, <1>16, <1>17, <1>18, <1>19, <1>20, <1>21, <1>22, <1>23, <1>24, <1>25, <1>26, <1>27, <1>28, <1>29, <1>30, <1>31, <1>32, <1>33, <1>34, <1>35, <1>36, <1>37, <1>38, <1>39, <1>40, <1>41, <1>42, <1>43, <1>44, <1>45, <1>46, <1>47, <1>48, <1>49, <1>50 DEF Next, Runner, Create, Discover, Reconnect, Wake, Kill, Pump, Observer

-----------------------------------------------------------------------------
(* A stopped daemon has no actor and no entry; a connection about to be    *)
(* registered is in one pair of hands, is not the entry, and its runner    *)
(* answered; the entry is a connection in use.                             *)
EntryInv ==
    /\ ~up => /\ \A a \in Actors : pc[a] = "idle"
              /\ session = NoConn
    /\ \A a \in Dialers : pc[a] = "register" => /\ held[a] # session
                                               /\ conn[held[a]] \in {"open", "lost", "exit"}
    /\ \A a, b \in Dialers : a # b /\ held[a] = held[b] => held[a] = NoConn
    /\ session # NoConn => conn[session] # "free"

(* Every step keeps the connections in one pair of hands.                  *)
LEMMA EntryStep ==
    ASSUME TypeOK, EntryInv, [Next]_vars
    PROVE  EntryInv'
<1>0. HostType /\ FilesType /\ ConnType /\ ActorType
  BY TypeParts
<1> USE <1>0
<1>1. CASE LaunchdStarts
  BY <1>1
  DEF LaunchdStarts, EntryInv, ReconnectIsDue, HostType, ConnType, ActorType, Actors, Dialers, hostVars, daemonVars
<1>2. CASE RunnerBinds
  BY <1>2
  DEF RunnerBinds, Permitted, EntryInv, ReconnectIsDue, HostType, ConnType, ActorType, Actors, Dialers, hostVars, daemonVars
<1>3. CASE RunnerDeclines
  BY <1>3
  DEF RunnerDeclines, Permitted, EntryInv, ReconnectIsDue, HostType, ConnType, ActorType, Actors, Dialers, hostVars, daemonVars
<1>4. CASE RunnerListens
  BY <1>4
  DEF RunnerListens, EntryInv, ReconnectIsDue, HostType, ConnType, ActorType, Actors, Dialers, hostVars, daemonVars
<1>5. CASE RunnerEnds
  BY <1>5
  DEF RunnerEnds, Hangup, EntryInv, ReconnectIsDue, HostType, ConnType, ActorType, Actors, Dialers, hostVars, daemonVars
<1>6. CASE RunnerObeysKill
  BY <1>6
  DEF RunnerObeysKill, RunnerEnds, Hangup, EntryInv, ReconnectIsDue, HostType, ConnType, ActorType, Actors, Dialers, hostVars, daemonVars
<1>7. CASE RunnerLeaves
  BY <1>7
  DEF RunnerLeaves, EntryInv, ReconnectIsDue, HostType, ConnType, ActorType, Actors, Dialers, hostVars, daemonVars
<1>8. CASE RunnerCrashes
  BY <1>8
  DEF RunnerCrashes, Hangup, EntryInv, ReconnectIsDue, HostType, ConnType, ActorType, Actors, Dialers, hostVars, daemonVars
<1>9. CASE ConnectionBreaks
  BY <1>9
  DEF ConnectionBreaks, EntryInv, ReconnectIsDue, HostType, ConnType, ActorType, Actors, Dialers, hostVars, daemonVars
<1>10. CASE CreateTracks
  BY <1>10
  DEF CreateTracks, Go, EntryInv, ReconnectIsDue, HostType, ConnType, ActorType, Actors, Dialers, hostVars, daemonVars
<1>11. CASE CreateRecords
  BY <1>11
  DEF CreateRecords, Go, EntryInv, ReconnectIsDue, HostType, ConnType, ActorType, Actors, Dialers, hostVars, daemonVars
<1>12. CASE CreateLaunches
  BY <1>12
  DEF CreateLaunches, Go, EntryInv, ReconnectIsDue, HostType, ConnType, ActorType, Actors, Dialers, hostVars, daemonVars
<1>13. CASE CreateDials
  BY <1>13
  DEF CreateDials, Dial, Go, Spare, Answers, EntryInv, ReconnectIsDue, HostType, ConnType, ActorType, Actors, Dialers, hostVars, daemonVars
<1>14. CASE CreateFails
  BY <1>14
  DEF CreateFails, Go, Reap, Reaped, Hangup, EntryInv, ReconnectIsDue, HostType, ConnType, ActorType, Actors, Dialers, hostVars, daemonVars
<1>15. CASE CreateRegisters
  BY <1>15
  DEF CreateRegisters, Register, Refused, Dropped, Release, Go, Present, EntryInv, ReconnectIsDue, HostType, ConnType, ActorType, Actors, Dialers, hostVars, daemonVars
<1>16. CASE Manage("create", "done")
  BY <1>16
  DEF Manage, Release, Go, Present, EntryInv, ReconnectIsDue, HostType, ConnType, ActorType, Actors, Dialers, hostVars, daemonVars
<1>17. CASE DiscoverScans
  BY <1>17
  DEF DiscoverScans, Go, ChildPid, EntryInv, ReconnectIsDue, HostType, ConnType, ActorType, Actors, Dialers, hostVars, daemonVars
<1>18. CASE DiscoverSkips
  BY <1>18
  DEF DiscoverSkips, Settle, Conclude, Go, EntryInv, ReconnectIsDue, HostType, ConnType, ActorType, Actors, Dialers, hostVars, daemonVars
<1>19. CASE DiscoverDials
  BY <1>19
  DEF DiscoverDials, Inspected, Dial, Go, Spare, NoPass, Answers, EntryInv, ReconnectIsDue, HostType, ConnType, ActorType, Actors, Dialers, hostVars, daemonVars
<1>20. CASE DiscoverGetsNoAnswer
  BY <1>20
  DEF DiscoverGetsNoAnswer, Inspected, Settle, Go, NoPass, EntryInv, ReconnectIsDue, HostType, ConnType, ActorType, Actors, Dialers, hostVars, daemonVars
<1>21. CASE DiscoverRegisters
  BY <1>21
  DEF DiscoverRegisters, Register, Refused, Dropped, Release, Go, EntryInv, ReconnectIsDue, HostType, ConnType, ActorType, Actors, Dialers, hostVars, daemonVars
<1>22. CASE Manage("discover", "reconcile")
  BY <1>22
  DEF Manage, Release, Go, Present, EntryInv, ReconnectIsDue, HostType, ConnType, ActorType, Actors, Dialers, hostVars, daemonVars
<1>23. CASE DiscoverRetires
  BY <1>23
  DEF DiscoverRetires, Settle, Go, NoPass, Reap, Reaped, Hangup, EntryInv, ReconnectIsDue, HostType, ConnType, ActorType, Actors, Dialers, hostVars, daemonVars
<1>24. CASE DiscoverReconciles
  BY <1>24
  DEF DiscoverReconciles, Go, EntryInv, ReconnectIsDue, HostType, ConnType, ActorType, Actors, Dialers, hostVars, daemonVars
<1>25. CASE DiscoverRecordsLoss
  BY <1>25
  DEF DiscoverRecordsLoss, Go, EntryInv, ReconnectIsDue, HostType, ConnType, ActorType, Actors, Dialers, hostVars, daemonVars
<1>26. CASE ReconnectWaits
  BY <1>26
  DEF ReconnectWaits, EntryInv, ReconnectIsDue, HostType, ConnType, ActorType, Actors, Dialers, hostVars, daemonVars
<1>27. CASE ReconnectDials
  BY <1>27
  DEF ReconnectDials, Dial, Go, Spare, Answers, EntryInv, ReconnectIsDue, HostType, ConnType, ActorType, Actors, Dialers, hostVars, daemonVars
<1>28. CASE ReconnectRegisters
  BY <1>28
  DEF ReconnectRegisters, Register, Refused, Dropped, Release, Go, EntryInv, ReconnectIsDue, HostType, ConnType, ActorType, Actors, Dialers, hostVars, daemonVars
<1>29. CASE Manage("reconnect", "idle")
  BY <1>29
  DEF Manage, Release, Go, Present, EntryInv, ReconnectIsDue, HostType, ConnType, ActorType, Actors, Dialers, hostVars, daemonVars
<1>30. CASE WakeBegins
  BY <1>30
  DEF WakeBegins, Go, EntryInv, ReconnectIsDue, HostType, ConnType, ActorType, Actors, Dialers, hostVars, daemonVars
<1>31. CASE WakeKicks
  BY <1>31
  DEF WakeKicks, Go, EntryInv, ReconnectIsDue, HostType, ConnType, ActorType, Actors, Dialers, hostVars, daemonVars
<1>32. CASE WakeDials
  BY <1>32
  DEF WakeDials, Dial, Go, Spare, Answers, EntryInv, ReconnectIsDue, HostType, ConnType, ActorType, Actors, Dialers, hostVars, daemonVars
<1>33. CASE WakeFails
  BY <1>33
  DEF WakeFails, Go, EntryInv, ReconnectIsDue, HostType, ConnType, ActorType, Actors, Dialers, hostVars, daemonVars
<1>34. CASE WakeRegisters
  BY <1>34
  DEF WakeRegisters, Register, Refused, Dropped, Release, Go, EntryInv, ReconnectIsDue, HostType, ConnType, ActorType, Actors, Dialers, hostVars, daemonVars
<1>35. CASE Manage("wake", "unmark")
  BY <1>35
  DEF Manage, Release, Go, Present, EntryInv, ReconnectIsDue, HostType, ConnType, ActorType, Actors, Dialers, hostVars, daemonVars
<1>36. CASE WakeEnds
  BY <1>36
  DEF WakeEnds, Go, EntryInv, ReconnectIsDue, HostType, ConnType, ActorType, Actors, Dialers, hostVars, daemonVars
<1>37. CASE KillRecords
  BY <1>37
  DEF KillRecords, Go, Tombstone, EntryInv, ReconnectIsDue, HostType, ConnType, ActorType, Actors, Dialers, hostVars, daemonVars
<1>38. CASE KillClosesPaused
  BY <1>38
  DEF KillClosesPaused, Go, NoPlan, Reap, Reaped, Hangup, EntryInv, ReconnectIsDue, HostType, ConnType, ActorType, Actors, Dialers, hostVars, daemonVars
<1>39. CASE KillClosesLost
  BY <1>39
  DEF KillClosesLost, Go, NoPlan, RemoveUnreachable, EntryInv, ReconnectIsDue, HostType, ConnType, ActorType, Actors, Dialers, hostVars, daemonVars
<1>40. CASE KillTells
  BY <1>40
  DEF KillTells, Go, NoPlan, EntryInv, ReconnectIsDue, HostType, ConnType, ActorType, Actors, Dialers, hostVars, daemonVars
<1>41. CASE PumpLoses
  BY <1>41
  DEF PumpLoses, Tell, EntryInv, ReconnectIsDue, HostType, ConnType, ActorType, Actors, Dialers, hostVars, daemonVars
<1>42. CASE PumpExits
  BY <1>42
  DEF PumpExits, Tell, EntryInv, ReconnectIsDue, HostType, ConnType, ActorType, Actors, Dialers, hostVars, daemonVars
<1>43. CASE ExitIsReaped
  BY <1>43
  DEF ExitIsReaped, Reap, Reaped, Hangup, EntryInv, ReconnectIsDue, HostType, ConnType, ActorType, Actors, Dialers, hostVars, daemonVars
<1>44. CASE GraceEnds
  BY <1>44
  DEF GraceEnds, RemoveUnreachable, EntryInv, ReconnectIsDue, HostType, ConnType, ActorType, Actors, Dialers, hostVars, daemonVars
<1>45. CASE ObserverRecordsLoss
  BY <1>45
  DEF ObserverRecordsLoss, EntryInv, ReconnectIsDue, HostType, ConnType, ActorType, Actors, Dialers, hostVars, daemonVars
<1>46. CASE ObserverLeaves
  BY <1>46
  DEF ObserverLeaves, EntryInv, ReconnectIsDue, HostType, ConnType, ActorType, Actors, Dialers, hostVars, daemonVars
<1>47. CASE DaemonStops
  BY <1>47
  DEF DaemonStops, NoMemory, NoPass, NoPlan, EntryInv, ReconnectIsDue, HostType, ConnType, ActorType, Actors, Dialers, hostVars, daemonVars
<1>48. CASE DaemonStarts
  BY <1>48
  DEF DaemonStarts, EntryInv, ReconnectIsDue, HostType, ConnType, ActorType, Actors, Dialers, hostVars, daemonVars
<1>49. CASE Reboot
  BY <1>49
  DEF Reboot, NoMemory, NoPass, NoPlan, EntryInv, ReconnectIsDue, HostType, ConnType, ActorType, Actors, Dialers, hostVars, daemonVars
<1>50. CASE UNCHANGED vars
  BY <1>50 DEF vars, EntryInv, ReconnectIsDue, HostType, ConnType, ActorType, Actors, Dialers, hostVars, daemonVars
<1> QED
  BY <1>1, <1>2, <1>3, <1>4, <1>5, <1>6, <1>7, <1>8, <1>9, <1>10, <1>11, <1>12, <1>13, <1>14, <1>15, <1>16, <1>17, <1>18, <1>19, <1>20, <1>21, <1>22, <1>23, <1>24, <1>25, <1>26, <1>27, <1>28, <1>29, <1>30, <1>31, <1>32, <1>33, <1>34, <1>35, <1>36, <1>37, <1>38, <1>39, <1>40, <1>41, <1>42, <1>43, <1>44, <1>45, <1>46, <1>47, <1>48, <1>49, <1>50 DEF Next, Runner, Create, Discover, Reconnect, Wake, Kill, Pump, Observer

(* While this daemon carries a launch out, nothing else is at work on the  *)
(* session but a discovery pass, which can only retire the files of a      *)
(* runner that has already left, and the permit is this boot's for as long *)
(* as a runner is there.                                                   *)
LaunchInv == Tracked =>
    /\ "lost" \notin lane /\ session = NoConn /\ watch = "none" /\ ~timer
    /\ pc["reconnect"] = "idle" /\ pc["wake"] = "idle" /\ pc["kill"] = "idle"
    /\ pc["discover"] \in {"idle", "inspect", "retire", "reconcile"}
    /\ ~disk.marker /\ disk.permit \in {0, boot}
    /\ run # "none" => disk.permit = boot
    /\ pc["create"] = "launch" => disk.meta = 0 /\ run = "none" /\ ~loaded
    /\ pc["create"] \in {"record", "launch"} =>
          ~disk.plist /\ ~pass.candidate /\ pc["discover"] # "retire"
    /\ ~disk.events /\ disk.meta # 0 => disk.permit = 0 /\ run = "none"
    /\ pass.candidate \/ pc["discover"] = "retire" => disk.permit = 0 /\ run = "none"

(* Every step keeps a launch to itself.                                    *)
LEMMA LaunchStep ==
    ASSUME TypeOK, EntryInv, FreshInv, KillInv, LaunchInv, [Next]_vars
    PROVE  LaunchInv'
<1>0. HostType /\ FilesType /\ ConnType /\ ActorType
  BY TypeParts
<1> USE <1>0
<1>1. CASE LaunchdStarts
  BY <1>1
  DEF LaunchdStarts, LaunchInv, Tracked, NoFiles, NoPass, LeftAlone, Gone, ReconnectIsDue, LostWithoutRunner, PausedWithoutRunner, EntryInv, FreshInv, KillInv, HostType, FilesType, Files, ActorType, Actors, Dialers, hostVars, daemonVars
<1>2. CASE RunnerBinds
  BY <1>2
  DEF RunnerBinds, Permitted, LaunchInv, Tracked, NoFiles, NoPass, LeftAlone, Gone, ReconnectIsDue, LostWithoutRunner, PausedWithoutRunner, EntryInv, FreshInv, KillInv, HostType, FilesType, Files, ActorType, Actors, Dialers, hostVars, daemonVars
<1>3. CASE RunnerDeclines
  BY <1>3
  DEF RunnerDeclines, Permitted, LaunchInv, Tracked, NoFiles, NoPass, LeftAlone, Gone, ReconnectIsDue, LostWithoutRunner, PausedWithoutRunner, EntryInv, FreshInv, KillInv, HostType, FilesType, Files, ActorType, Actors, Dialers, hostVars, daemonVars
<1>4. CASE RunnerListens
  BY <1>4
  DEF RunnerListens, LaunchInv, Tracked, NoFiles, NoPass, LeftAlone, Gone, ReconnectIsDue, LostWithoutRunner, PausedWithoutRunner, EntryInv, FreshInv, KillInv, HostType, FilesType, Files, ActorType, Actors, Dialers, hostVars, daemonVars
<1>5. CASE RunnerEnds
  BY <1>5
  DEF RunnerEnds, Hangup, LaunchInv, Tracked, NoFiles, NoPass, LeftAlone, Gone, ReconnectIsDue, LostWithoutRunner, PausedWithoutRunner, EntryInv, FreshInv, KillInv, HostType, FilesType, Files, ActorType, Actors, Dialers, hostVars, daemonVars
<1>6. CASE RunnerObeysKill
  BY <1>6
  DEF RunnerObeysKill, RunnerEnds, Hangup, LaunchInv, Tracked, NoFiles, NoPass, LeftAlone, Gone, ReconnectIsDue, LostWithoutRunner, PausedWithoutRunner, EntryInv, FreshInv, KillInv, HostType, FilesType, Files, ActorType, Actors, Dialers, hostVars, daemonVars
<1>7. CASE RunnerLeaves
  BY <1>7
  DEF RunnerLeaves, LaunchInv, Tracked, NoFiles, NoPass, LeftAlone, Gone, ReconnectIsDue, LostWithoutRunner, PausedWithoutRunner, EntryInv, FreshInv, KillInv, HostType, FilesType, Files, ActorType, Actors, Dialers, hostVars, daemonVars
<1>8. CASE RunnerCrashes
  BY <1>8
  DEF RunnerCrashes, Hangup, LaunchInv, Tracked, NoFiles, NoPass, LeftAlone, Gone, ReconnectIsDue, LostWithoutRunner, PausedWithoutRunner, EntryInv, FreshInv, KillInv, HostType, FilesType, Files, ActorType, Actors, Dialers, hostVars, daemonVars
<1>9. CASE ConnectionBreaks
  BY <1>9
  DEF ConnectionBreaks, LaunchInv, Tracked, NoFiles, NoPass, LeftAlone, Gone, ReconnectIsDue, LostWithoutRunner, PausedWithoutRunner, EntryInv, FreshInv, KillInv, HostType, FilesType, Files, ActorType, Actors, Dialers, hostVars, daemonVars
<1>10. CASE CreateTracks
  BY <1>10
  DEF CreateTracks, Go, LaunchInv, Tracked, NoFiles, NoPass, LeftAlone, Gone, ReconnectIsDue, LostWithoutRunner, PausedWithoutRunner, EntryInv, FreshInv, KillInv, HostType, FilesType, Files, ActorType, Actors, Dialers, hostVars, daemonVars
<1>11. CASE CreateRecords
  BY <1>11
  DEF CreateRecords, Go, LaunchInv, Tracked, NoFiles, NoPass, LeftAlone, Gone, ReconnectIsDue, LostWithoutRunner, PausedWithoutRunner, EntryInv, FreshInv, KillInv, HostType, FilesType, Files, ActorType, Actors, Dialers, hostVars, daemonVars
<1>12. CASE CreateLaunches
  BY <1>12
  DEF CreateLaunches, Go, LaunchInv, Tracked, NoFiles, NoPass, LeftAlone, Gone, ReconnectIsDue, LostWithoutRunner, PausedWithoutRunner, EntryInv, FreshInv, KillInv, HostType, FilesType, Files, ActorType, Actors, Dialers, hostVars, daemonVars
<1>13. CASE CreateDials
  BY <1>13
  DEF CreateDials, Dial, Go, Spare, Answers, LaunchInv, Tracked, NoFiles, NoPass, LeftAlone, Gone, ReconnectIsDue, LostWithoutRunner, PausedWithoutRunner, EntryInv, FreshInv, KillInv, HostType, FilesType, Files, ActorType, Actors, Dialers, hostVars, daemonVars
<1>14. CASE CreateFails
  BY <1>14
  DEF CreateFails, Go, Reap, Reaped, Hangup, LaunchInv, Tracked, NoFiles, NoPass, LeftAlone, Gone, ReconnectIsDue, LostWithoutRunner, PausedWithoutRunner, EntryInv, FreshInv, KillInv, HostType, FilesType, Files, ActorType, Actors, Dialers, hostVars, daemonVars
<1>15. CASE CreateRegisters
  BY <1>15
  DEF CreateRegisters, Register, Refused, Dropped, Release, Go, Present, LaunchInv, Tracked, NoFiles, NoPass, LeftAlone, Gone, ReconnectIsDue, LostWithoutRunner, PausedWithoutRunner, EntryInv, FreshInv, KillInv, HostType, FilesType, Files, ActorType, Actors, Dialers, hostVars, daemonVars
<1>16. CASE Manage("create", "done")
  BY <1>16
  DEF Manage, Release, Go, Present, LaunchInv, Tracked, NoFiles, NoPass, LeftAlone, Gone, ReconnectIsDue, LostWithoutRunner, PausedWithoutRunner, EntryInv, FreshInv, KillInv, HostType, FilesType, Files, ActorType, Actors, Dialers, hostVars, daemonVars
<1>17. CASE DiscoverScans
  BY <1>17
  DEF DiscoverScans, Go, ChildPid, LaunchInv, Tracked, NoFiles, NoPass, LeftAlone, Gone, ReconnectIsDue, LostWithoutRunner, PausedWithoutRunner, EntryInv, FreshInv, KillInv, HostType, FilesType, Files, ActorType, Actors, Dialers, hostVars, daemonVars
<1>18. CASE DiscoverSkips
  BY <1>18
  DEF DiscoverSkips, Settle, Conclude, Go, LaunchInv, Tracked, NoFiles, NoPass, LeftAlone, Gone, ReconnectIsDue, LostWithoutRunner, PausedWithoutRunner, EntryInv, FreshInv, KillInv, HostType, FilesType, Files, ActorType, Actors, Dialers, hostVars, daemonVars
<1>19. CASE DiscoverDials
  BY <1>19
  DEF DiscoverDials, Inspected, Dial, Go, Spare, NoPass, Answers, LaunchInv, Tracked, NoFiles, NoPass, LeftAlone, Gone, ReconnectIsDue, LostWithoutRunner, PausedWithoutRunner, EntryInv, FreshInv, KillInv, HostType, FilesType, Files, ActorType, Actors, Dialers, hostVars, daemonVars
<1>20. CASE DiscoverGetsNoAnswer
  BY <1>20
  DEF DiscoverGetsNoAnswer, Inspected, Settle, Go, NoPass, LaunchInv, Tracked, NoFiles, NoPass, LeftAlone, Gone, ReconnectIsDue, LostWithoutRunner, PausedWithoutRunner, EntryInv, FreshInv, KillInv, HostType, FilesType, Files, ActorType, Actors, Dialers, hostVars, daemonVars
<1>21. CASE DiscoverRegisters
  BY <1>21
  DEF DiscoverRegisters, Register, Refused, Dropped, Release, Go, LaunchInv, Tracked, NoFiles, NoPass, LeftAlone, Gone, ReconnectIsDue, LostWithoutRunner, PausedWithoutRunner, EntryInv, FreshInv, KillInv, HostType, FilesType, Files, ActorType, Actors, Dialers, hostVars, daemonVars
<1>22. CASE Manage("discover", "reconcile")
  BY <1>22
  DEF Manage, Release, Go, Present, LaunchInv, Tracked, NoFiles, NoPass, LeftAlone, Gone, ReconnectIsDue, LostWithoutRunner, PausedWithoutRunner, EntryInv, FreshInv, KillInv, HostType, FilesType, Files, ActorType, Actors, Dialers, hostVars, daemonVars
<1>23. CASE DiscoverRetires
  BY <1>23
  DEF DiscoverRetires, Settle, Go, NoPass, Reap, Reaped, Hangup, LaunchInv, Tracked, NoFiles, NoPass, LeftAlone, Gone, ReconnectIsDue, LostWithoutRunner, PausedWithoutRunner, EntryInv, FreshInv, KillInv, HostType, FilesType, Files, ActorType, Actors, Dialers, hostVars, daemonVars
<1>24. CASE DiscoverReconciles
  BY <1>24
  DEF DiscoverReconciles, Go, LaunchInv, Tracked, NoFiles, NoPass, LeftAlone, Gone, ReconnectIsDue, LostWithoutRunner, PausedWithoutRunner, EntryInv, FreshInv, KillInv, HostType, FilesType, Files, ActorType, Actors, Dialers, hostVars, daemonVars
<1>25. CASE DiscoverRecordsLoss
  BY <1>25
  DEF DiscoverRecordsLoss, Go, LaunchInv, Tracked, NoFiles, NoPass, LeftAlone, Gone, ReconnectIsDue, LostWithoutRunner, PausedWithoutRunner, EntryInv, FreshInv, KillInv, HostType, FilesType, Files, ActorType, Actors, Dialers, hostVars, daemonVars
<1>26. CASE ReconnectWaits
  BY <1>26
  DEF ReconnectWaits, LaunchInv, Tracked, NoFiles, NoPass, LeftAlone, Gone, ReconnectIsDue, LostWithoutRunner, PausedWithoutRunner, EntryInv, FreshInv, KillInv, HostType, FilesType, Files, ActorType, Actors, Dialers, hostVars, daemonVars
<1>27. CASE ReconnectDials
  BY <1>27
  DEF ReconnectDials, Dial, Go, Spare, Answers, LaunchInv, Tracked, NoFiles, NoPass, LeftAlone, Gone, ReconnectIsDue, LostWithoutRunner, PausedWithoutRunner, EntryInv, FreshInv, KillInv, HostType, FilesType, Files, ActorType, Actors, Dialers, hostVars, daemonVars
<1>28. CASE ReconnectRegisters
  BY <1>28
  DEF ReconnectRegisters, Register, Refused, Dropped, Release, Go, LaunchInv, Tracked, NoFiles, NoPass, LeftAlone, Gone, ReconnectIsDue, LostWithoutRunner, PausedWithoutRunner, EntryInv, FreshInv, KillInv, HostType, FilesType, Files, ActorType, Actors, Dialers, hostVars, daemonVars
<1>29. CASE Manage("reconnect", "idle")
  BY <1>29
  DEF Manage, Release, Go, Present, LaunchInv, Tracked, NoFiles, NoPass, LeftAlone, Gone, ReconnectIsDue, LostWithoutRunner, PausedWithoutRunner, EntryInv, FreshInv, KillInv, HostType, FilesType, Files, ActorType, Actors, Dialers, hostVars, daemonVars
<1>30. CASE WakeBegins
  BY <1>30
  DEF WakeBegins, Go, LaunchInv, Tracked, NoFiles, NoPass, LeftAlone, Gone, ReconnectIsDue, LostWithoutRunner, PausedWithoutRunner, EntryInv, FreshInv, KillInv, HostType, FilesType, Files, ActorType, Actors, Dialers, hostVars, daemonVars
<1>31. CASE WakeKicks
  BY <1>31
  DEF WakeKicks, Go, LaunchInv, Tracked, NoFiles, NoPass, LeftAlone, Gone, ReconnectIsDue, LostWithoutRunner, PausedWithoutRunner, EntryInv, FreshInv, KillInv, HostType, FilesType, Files, ActorType, Actors, Dialers, hostVars, daemonVars
<1>32. CASE WakeDials
  BY <1>32
  DEF WakeDials, Dial, Go, Spare, Answers, LaunchInv, Tracked, NoFiles, NoPass, LeftAlone, Gone, ReconnectIsDue, LostWithoutRunner, PausedWithoutRunner, EntryInv, FreshInv, KillInv, HostType, FilesType, Files, ActorType, Actors, Dialers, hostVars, daemonVars
<1>33. CASE WakeFails
  BY <1>33
  DEF WakeFails, Go, LaunchInv, Tracked, NoFiles, NoPass, LeftAlone, Gone, ReconnectIsDue, LostWithoutRunner, PausedWithoutRunner, EntryInv, FreshInv, KillInv, HostType, FilesType, Files, ActorType, Actors, Dialers, hostVars, daemonVars
<1>34. CASE WakeRegisters
  BY <1>34
  DEF WakeRegisters, Register, Refused, Dropped, Release, Go, LaunchInv, Tracked, NoFiles, NoPass, LeftAlone, Gone, ReconnectIsDue, LostWithoutRunner, PausedWithoutRunner, EntryInv, FreshInv, KillInv, HostType, FilesType, Files, ActorType, Actors, Dialers, hostVars, daemonVars
<1>35. CASE Manage("wake", "unmark")
  BY <1>35
  DEF Manage, Release, Go, Present, LaunchInv, Tracked, NoFiles, NoPass, LeftAlone, Gone, ReconnectIsDue, LostWithoutRunner, PausedWithoutRunner, EntryInv, FreshInv, KillInv, HostType, FilesType, Files, ActorType, Actors, Dialers, hostVars, daemonVars
<1>36. CASE WakeEnds
  BY <1>36
  DEF WakeEnds, Go, LaunchInv, Tracked, NoFiles, NoPass, LeftAlone, Gone, ReconnectIsDue, LostWithoutRunner, PausedWithoutRunner, EntryInv, FreshInv, KillInv, HostType, FilesType, Files, ActorType, Actors, Dialers, hostVars, daemonVars
<1>37. CASE KillRecords
  BY <1>37
  DEF KillRecords, Go, Tombstone, LaunchInv, Tracked, NoFiles, NoPass, LeftAlone, Gone, ReconnectIsDue, LostWithoutRunner, PausedWithoutRunner, EntryInv, FreshInv, KillInv, HostType, FilesType, Files, ActorType, Actors, Dialers, hostVars, daemonVars
<1>38. CASE KillClosesPaused
  BY <1>38
  DEF KillClosesPaused, Go, NoPlan, Reap, Reaped, Hangup, LaunchInv, Tracked, NoFiles, NoPass, LeftAlone, Gone, ReconnectIsDue, LostWithoutRunner, PausedWithoutRunner, EntryInv, FreshInv, KillInv, HostType, FilesType, Files, ActorType, Actors, Dialers, hostVars, daemonVars
<1>39. CASE KillClosesLost
  BY <1>39
  DEF KillClosesLost, Go, NoPlan, RemoveUnreachable, LaunchInv, Tracked, NoFiles, NoPass, LeftAlone, Gone, ReconnectIsDue, LostWithoutRunner, PausedWithoutRunner, EntryInv, FreshInv, KillInv, HostType, FilesType, Files, ActorType, Actors, Dialers, hostVars, daemonVars
<1>40. CASE KillTells
  BY <1>40
  DEF KillTells, Go, NoPlan, LaunchInv, Tracked, NoFiles, NoPass, LeftAlone, Gone, ReconnectIsDue, LostWithoutRunner, PausedWithoutRunner, EntryInv, FreshInv, KillInv, HostType, FilesType, Files, ActorType, Actors, Dialers, hostVars, daemonVars
<1>41. CASE PumpLoses
  BY <1>41
  DEF PumpLoses, Tell, LaunchInv, Tracked, NoFiles, NoPass, LeftAlone, Gone, ReconnectIsDue, LostWithoutRunner, PausedWithoutRunner, EntryInv, FreshInv, KillInv, HostType, FilesType, Files, ActorType, Actors, Dialers, hostVars, daemonVars
<1>42. CASE PumpExits
  BY <1>42
  DEF PumpExits, Tell, LaunchInv, Tracked, NoFiles, NoPass, LeftAlone, Gone, ReconnectIsDue, LostWithoutRunner, PausedWithoutRunner, EntryInv, FreshInv, KillInv, HostType, FilesType, Files, ActorType, Actors, Dialers, hostVars, daemonVars
<1>43. CASE ExitIsReaped
  BY <1>43
  DEF ExitIsReaped, Reap, Reaped, Hangup, LaunchInv, Tracked, NoFiles, NoPass, LeftAlone, Gone, ReconnectIsDue, LostWithoutRunner, PausedWithoutRunner, EntryInv, FreshInv, KillInv, HostType, FilesType, Files, ActorType, Actors, Dialers, hostVars, daemonVars
<1>44. CASE GraceEnds
  BY <1>44
  DEF GraceEnds, RemoveUnreachable, LaunchInv, Tracked, NoFiles, NoPass, LeftAlone, Gone, ReconnectIsDue, LostWithoutRunner, PausedWithoutRunner, EntryInv, FreshInv, KillInv, HostType, FilesType, Files, ActorType, Actors, Dialers, hostVars, daemonVars
<1>45. CASE ObserverRecordsLoss
  BY <1>45
  DEF ObserverRecordsLoss, LaunchInv, Tracked, NoFiles, NoPass, LeftAlone, Gone, ReconnectIsDue, LostWithoutRunner, PausedWithoutRunner, EntryInv, FreshInv, KillInv, HostType, FilesType, Files, ActorType, Actors, Dialers, hostVars, daemonVars
<1>46. CASE ObserverLeaves
  BY <1>46
  DEF ObserverLeaves, LaunchInv, Tracked, NoFiles, NoPass, LeftAlone, Gone, ReconnectIsDue, LostWithoutRunner, PausedWithoutRunner, EntryInv, FreshInv, KillInv, HostType, FilesType, Files, ActorType, Actors, Dialers, hostVars, daemonVars
<1>47. CASE DaemonStops
  BY <1>47
  DEF DaemonStops, NoMemory, NoPass, NoPlan, LaunchInv, Tracked, NoFiles, NoPass, LeftAlone, Gone, ReconnectIsDue, LostWithoutRunner, PausedWithoutRunner, EntryInv, FreshInv, KillInv, HostType, FilesType, Files, ActorType, Actors, Dialers, hostVars, daemonVars
<1>48. CASE DaemonStarts
  BY <1>48
  DEF DaemonStarts, LaunchInv, Tracked, NoFiles, NoPass, LeftAlone, Gone, ReconnectIsDue, LostWithoutRunner, PausedWithoutRunner, EntryInv, FreshInv, KillInv, HostType, FilesType, Files, ActorType, Actors, Dialers, hostVars, daemonVars
<1>49. CASE Reboot
  BY <1>49
  DEF Reboot, NoMemory, NoPass, NoPlan, LaunchInv, Tracked, NoFiles, NoPass, LeftAlone, Gone, ReconnectIsDue, LostWithoutRunner, PausedWithoutRunner, EntryInv, FreshInv, KillInv, HostType, FilesType, Files, ActorType, Actors, Dialers, hostVars, daemonVars
<1>50. CASE UNCHANGED vars
  BY <1>50 DEF vars, LaunchInv, Tracked, NoFiles, NoPass, LeftAlone, Gone, ReconnectIsDue, LostWithoutRunner, PausedWithoutRunner, EntryInv, FreshInv, KillInv, HostType, FilesType, Files, ActorType, Actors, Dialers, hostVars, daemonVars
<1> QED
  BY <1>1, <1>2, <1>3, <1>4, <1>5, <1>6, <1>7, <1>8, <1>9, <1>10, <1>11, <1>12, <1>13, <1>14, <1>15, <1>16, <1>17, <1>18, <1>19, <1>20, <1>21, <1>22, <1>23, <1>24, <1>25, <1>26, <1>27, <1>28, <1>29, <1>30, <1>31, <1>32, <1>33, <1>34, <1>35, <1>36, <1>37, <1>38, <1>39, <1>40, <1>41, <1>42, <1>43, <1>44, <1>45, <1>46, <1>47, <1>48, <1>49, <1>50 DEF Next, Runner, Create, Discover, Reconnect, Wake, Kill, Pump, Observer

(* What the entry of the abstract specification shows, and its actions.    *)
Contact == IF session = NoConn THEN "none"
           ELSE IF conn[session] = "unreachable" THEN "unreachable"
           ELSE IF conn[session] \in {"exited", "reaped"} THEN "exited"
           ELSE "live"

Attaches == /\ up /\ Contact \in {"none", "unreachable"}
            /\ session' \in Conns \ {session} /\ Contact' = "live"
            /\ up' = up /\ ("kill" \in lane') = ("kill" \in lane)
Loses == /\ Contact = "live" /\ Contact' = "unreachable"
         /\ up' = up /\ session' = session /\ ("kill" \in lane') = ("kill" \in lane)
Ends == /\ Contact = "live" /\ Contact' = "exited"
        /\ up' = up /\ session' = session /\ ("kill" \in lane') = ("kill" \in lane)
Asks == /\ "kill" \in lane' /\ up' = up /\ session' = session /\ Contact' = Contact
Forgets == /\ Contact = "exited" \/ (Contact = "unreachable" /\ "kill" \in lane)
           /\ session' = NoConn /\ up' = up /\ ("kill" \in lane') = ("kill" \in lane)
Stops == /\ up /\ ~up' /\ session' = NoConn /\ ("kill" \in lane') = ("kill" \in lane)
Starts == /\ ~up /\ up' /\ session' = session /\ Contact' = Contact /\ lane' = lane
Stays == /\ up' = up /\ session' = session /\ Contact' = Contact
         /\ ("kill" \in lane') = ("kill" \in lane)
EntryMoves == Attaches \/ Loses \/ Ends \/ Asks \/ Forgets \/ Stops \/ Starts \/ Stays

(* Every step is a step of the entry, or none.                             *)
LEMMA MoveStep ==
    ASSUME TypeOK, KillInv, EntryInv, [Next]_vars
    PROVE  EntryMoves
<1>0. HostType /\ FilesType /\ ConnType /\ ActorType
  BY TypeParts
<1> USE <1>0
<1>1. CASE LaunchdStarts
  BY <1>1
  DEF LaunchdStarts, EntryMoves, Attaches, Loses, Ends, Asks, Forgets, Stops, Starts, Stays, Contact, EntryInv, KillInv, Reachable, Unreached, HostType, ConnType, ActorType, Actors, Dialers, hostVars, daemonVars
<1>2. CASE RunnerBinds
  BY <1>2
  DEF RunnerBinds, Permitted, EntryMoves, Attaches, Loses, Ends, Asks, Forgets, Stops, Starts, Stays, Contact, EntryInv, KillInv, Reachable, Unreached, HostType, ConnType, ActorType, Actors, Dialers, hostVars, daemonVars
<1>3. CASE RunnerDeclines
  BY <1>3
  DEF RunnerDeclines, Permitted, EntryMoves, Attaches, Loses, Ends, Asks, Forgets, Stops, Starts, Stays, Contact, EntryInv, KillInv, Reachable, Unreached, HostType, ConnType, ActorType, Actors, Dialers, hostVars, daemonVars
<1>4. CASE RunnerListens
  BY <1>4
  DEF RunnerListens, EntryMoves, Attaches, Loses, Ends, Asks, Forgets, Stops, Starts, Stays, Contact, EntryInv, KillInv, Reachable, Unreached, HostType, ConnType, ActorType, Actors, Dialers, hostVars, daemonVars
<1>5. CASE RunnerEnds
  BY <1>5
  DEF RunnerEnds, Hangup, EntryMoves, Attaches, Loses, Ends, Asks, Forgets, Stops, Starts, Stays, Contact, EntryInv, KillInv, Reachable, Unreached, HostType, ConnType, ActorType, Actors, Dialers, hostVars, daemonVars
<1>6. CASE RunnerObeysKill
  BY <1>6
  DEF RunnerObeysKill, RunnerEnds, Hangup, EntryMoves, Attaches, Loses, Ends, Asks, Forgets, Stops, Starts, Stays, Contact, EntryInv, KillInv, Reachable, Unreached, HostType, ConnType, ActorType, Actors, Dialers, hostVars, daemonVars
<1>7. CASE RunnerLeaves
  BY <1>7
  DEF RunnerLeaves, EntryMoves, Attaches, Loses, Ends, Asks, Forgets, Stops, Starts, Stays, Contact, EntryInv, KillInv, Reachable, Unreached, HostType, ConnType, ActorType, Actors, Dialers, hostVars, daemonVars
<1>8. CASE RunnerCrashes
  BY <1>8
  DEF RunnerCrashes, Hangup, EntryMoves, Attaches, Loses, Ends, Asks, Forgets, Stops, Starts, Stays, Contact, EntryInv, KillInv, Reachable, Unreached, HostType, ConnType, ActorType, Actors, Dialers, hostVars, daemonVars
<1>9. CASE ConnectionBreaks
  BY <1>9
  DEF ConnectionBreaks, EntryMoves, Attaches, Loses, Ends, Asks, Forgets, Stops, Starts, Stays, Contact, EntryInv, KillInv, Reachable, Unreached, HostType, ConnType, ActorType, Actors, Dialers, hostVars, daemonVars
<1>10. CASE CreateTracks
  BY <1>10
  DEF CreateTracks, Go, EntryMoves, Attaches, Loses, Ends, Asks, Forgets, Stops, Starts, Stays, Contact, EntryInv, KillInv, Reachable, Unreached, HostType, ConnType, ActorType, Actors, Dialers, hostVars, daemonVars
<1>11. CASE CreateRecords
  BY <1>11
  DEF CreateRecords, Go, EntryMoves, Attaches, Loses, Ends, Asks, Forgets, Stops, Starts, Stays, Contact, EntryInv, KillInv, Reachable, Unreached, HostType, ConnType, ActorType, Actors, Dialers, hostVars, daemonVars
<1>12. CASE CreateLaunches
  BY <1>12
  DEF CreateLaunches, Go, EntryMoves, Attaches, Loses, Ends, Asks, Forgets, Stops, Starts, Stays, Contact, EntryInv, KillInv, Reachable, Unreached, HostType, ConnType, ActorType, Actors, Dialers, hostVars, daemonVars
<1>13. CASE CreateDials
  BY <1>13
  DEF CreateDials, Dial, Go, Spare, Answers, EntryMoves, Attaches, Loses, Ends, Asks, Forgets, Stops, Starts, Stays, Contact, EntryInv, KillInv, Reachable, Unreached, HostType, ConnType, ActorType, Actors, Dialers, hostVars, daemonVars
<1>14. CASE CreateFails
  BY <1>14
  DEF CreateFails, Go, Reap, Reaped, Hangup, EntryMoves, Attaches, Loses, Ends, Asks, Forgets, Stops, Starts, Stays, Contact, EntryInv, KillInv, Reachable, Unreached, HostType, ConnType, ActorType, Actors, Dialers, hostVars, daemonVars
<1>15. CASE CreateRegisters
  BY <1>15
  DEF CreateRegisters, Register, Refused, Dropped, Release, Go, Present, EntryMoves, Attaches, Loses, Ends, Asks, Forgets, Stops, Starts, Stays, Contact, EntryInv, KillInv, Reachable, Unreached, HostType, ConnType, ActorType, Actors, Dialers, hostVars, daemonVars
<1>16. CASE Manage("create", "done")
  BY <1>16
  DEF Manage, Release, Go, Present, EntryMoves, Attaches, Loses, Ends, Asks, Forgets, Stops, Starts, Stays, Contact, EntryInv, KillInv, Reachable, Unreached, HostType, ConnType, ActorType, Actors, Dialers, hostVars, daemonVars
<1>17. CASE DiscoverScans
  BY <1>17
  DEF DiscoverScans, Go, ChildPid, EntryMoves, Attaches, Loses, Ends, Asks, Forgets, Stops, Starts, Stays, Contact, EntryInv, KillInv, Reachable, Unreached, HostType, ConnType, ActorType, Actors, Dialers, hostVars, daemonVars
<1>18. CASE DiscoverSkips
  BY <1>18
  DEF DiscoverSkips, Settle, Conclude, Go, EntryMoves, Attaches, Loses, Ends, Asks, Forgets, Stops, Starts, Stays, Contact, EntryInv, KillInv, Reachable, Unreached, HostType, ConnType, ActorType, Actors, Dialers, hostVars, daemonVars
<1>19. CASE DiscoverDials
  BY <1>19
  DEF DiscoverDials, Inspected, Dial, Go, Spare, NoPass, Answers, EntryMoves, Attaches, Loses, Ends, Asks, Forgets, Stops, Starts, Stays, Contact, EntryInv, KillInv, Reachable, Unreached, HostType, ConnType, ActorType, Actors, Dialers, hostVars, daemonVars
<1>20. CASE DiscoverGetsNoAnswer
  BY <1>20
  DEF DiscoverGetsNoAnswer, Inspected, Settle, Go, NoPass, EntryMoves, Attaches, Loses, Ends, Asks, Forgets, Stops, Starts, Stays, Contact, EntryInv, KillInv, Reachable, Unreached, HostType, ConnType, ActorType, Actors, Dialers, hostVars, daemonVars
<1>21. CASE DiscoverRegisters
  BY <1>21
  DEF DiscoverRegisters, Register, Refused, Dropped, Release, Go, EntryMoves, Attaches, Loses, Ends, Asks, Forgets, Stops, Starts, Stays, Contact, EntryInv, KillInv, Reachable, Unreached, HostType, ConnType, ActorType, Actors, Dialers, hostVars, daemonVars
<1>22. CASE Manage("discover", "reconcile")
  BY <1>22
  DEF Manage, Release, Go, Present, EntryMoves, Attaches, Loses, Ends, Asks, Forgets, Stops, Starts, Stays, Contact, EntryInv, KillInv, Reachable, Unreached, HostType, ConnType, ActorType, Actors, Dialers, hostVars, daemonVars
<1>23. CASE DiscoverRetires
  BY <1>23
  DEF DiscoverRetires, Settle, Go, NoPass, Reap, Reaped, Hangup, EntryMoves, Attaches, Loses, Ends, Asks, Forgets, Stops, Starts, Stays, Contact, EntryInv, KillInv, Reachable, Unreached, HostType, ConnType, ActorType, Actors, Dialers, hostVars, daemonVars
<1>24. CASE DiscoverReconciles
  BY <1>24
  DEF DiscoverReconciles, Go, EntryMoves, Attaches, Loses, Ends, Asks, Forgets, Stops, Starts, Stays, Contact, EntryInv, KillInv, Reachable, Unreached, HostType, ConnType, ActorType, Actors, Dialers, hostVars, daemonVars
<1>25. CASE DiscoverRecordsLoss
  BY <1>25
  DEF DiscoverRecordsLoss, Go, EntryMoves, Attaches, Loses, Ends, Asks, Forgets, Stops, Starts, Stays, Contact, EntryInv, KillInv, Reachable, Unreached, HostType, ConnType, ActorType, Actors, Dialers, hostVars, daemonVars
<1>26. CASE ReconnectWaits
  BY <1>26
  DEF ReconnectWaits, EntryMoves, Attaches, Loses, Ends, Asks, Forgets, Stops, Starts, Stays, Contact, EntryInv, KillInv, Reachable, Unreached, HostType, ConnType, ActorType, Actors, Dialers, hostVars, daemonVars
<1>27. CASE ReconnectDials
  BY <1>27
  DEF ReconnectDials, Dial, Go, Spare, Answers, EntryMoves, Attaches, Loses, Ends, Asks, Forgets, Stops, Starts, Stays, Contact, EntryInv, KillInv, Reachable, Unreached, HostType, ConnType, ActorType, Actors, Dialers, hostVars, daemonVars
<1>28. CASE ReconnectRegisters
  BY <1>28
  DEF ReconnectRegisters, Register, Refused, Dropped, Release, Go, EntryMoves, Attaches, Loses, Ends, Asks, Forgets, Stops, Starts, Stays, Contact, EntryInv, KillInv, Reachable, Unreached, HostType, ConnType, ActorType, Actors, Dialers, hostVars, daemonVars
<1>29. CASE Manage("reconnect", "idle")
  BY <1>29
  DEF Manage, Release, Go, Present, EntryMoves, Attaches, Loses, Ends, Asks, Forgets, Stops, Starts, Stays, Contact, EntryInv, KillInv, Reachable, Unreached, HostType, ConnType, ActorType, Actors, Dialers, hostVars, daemonVars
<1>30. CASE WakeBegins
  BY <1>30
  DEF WakeBegins, Go, EntryMoves, Attaches, Loses, Ends, Asks, Forgets, Stops, Starts, Stays, Contact, EntryInv, KillInv, Reachable, Unreached, HostType, ConnType, ActorType, Actors, Dialers, hostVars, daemonVars
<1>31. CASE WakeKicks
  BY <1>31
  DEF WakeKicks, Go, EntryMoves, Attaches, Loses, Ends, Asks, Forgets, Stops, Starts, Stays, Contact, EntryInv, KillInv, Reachable, Unreached, HostType, ConnType, ActorType, Actors, Dialers, hostVars, daemonVars
<1>32. CASE WakeDials
  BY <1>32
  DEF WakeDials, Dial, Go, Spare, Answers, EntryMoves, Attaches, Loses, Ends, Asks, Forgets, Stops, Starts, Stays, Contact, EntryInv, KillInv, Reachable, Unreached, HostType, ConnType, ActorType, Actors, Dialers, hostVars, daemonVars
<1>33. CASE WakeFails
  BY <1>33
  DEF WakeFails, Go, EntryMoves, Attaches, Loses, Ends, Asks, Forgets, Stops, Starts, Stays, Contact, EntryInv, KillInv, Reachable, Unreached, HostType, ConnType, ActorType, Actors, Dialers, hostVars, daemonVars
<1>34. CASE WakeRegisters
  BY <1>34
  DEF WakeRegisters, Register, Refused, Dropped, Release, Go, EntryMoves, Attaches, Loses, Ends, Asks, Forgets, Stops, Starts, Stays, Contact, EntryInv, KillInv, Reachable, Unreached, HostType, ConnType, ActorType, Actors, Dialers, hostVars, daemonVars
<1>35. CASE Manage("wake", "unmark")
  BY <1>35
  DEF Manage, Release, Go, Present, EntryMoves, Attaches, Loses, Ends, Asks, Forgets, Stops, Starts, Stays, Contact, EntryInv, KillInv, Reachable, Unreached, HostType, ConnType, ActorType, Actors, Dialers, hostVars, daemonVars
<1>36. CASE WakeEnds
  BY <1>36
  DEF WakeEnds, Go, EntryMoves, Attaches, Loses, Ends, Asks, Forgets, Stops, Starts, Stays, Contact, EntryInv, KillInv, Reachable, Unreached, HostType, ConnType, ActorType, Actors, Dialers, hostVars, daemonVars
<1>37. CASE KillRecords
  BY <1>37
  DEF KillRecords, Go, Tombstone, EntryMoves, Attaches, Loses, Ends, Asks, Forgets, Stops, Starts, Stays, Contact, EntryInv, KillInv, Reachable, Unreached, HostType, ConnType, ActorType, Actors, Dialers, hostVars, daemonVars
<1>38. CASE KillClosesPaused
  BY <1>38
  DEF KillClosesPaused, Go, NoPlan, Reap, Reaped, Hangup, EntryMoves, Attaches, Loses, Ends, Asks, Forgets, Stops, Starts, Stays, Contact, EntryInv, KillInv, Reachable, Unreached, HostType, ConnType, ActorType, Actors, Dialers, hostVars, daemonVars
<1>39. CASE KillClosesLost
  BY <1>39
  DEF KillClosesLost, Go, NoPlan, RemoveUnreachable, EntryMoves, Attaches, Loses, Ends, Asks, Forgets, Stops, Starts, Stays, Contact, EntryInv, KillInv, Reachable, Unreached, HostType, ConnType, ActorType, Actors, Dialers, hostVars, daemonVars
<1>40. CASE KillTells
  BY <1>40
  DEF KillTells, Go, NoPlan, EntryMoves, Attaches, Loses, Ends, Asks, Forgets, Stops, Starts, Stays, Contact, EntryInv, KillInv, Reachable, Unreached, HostType, ConnType, ActorType, Actors, Dialers, hostVars, daemonVars
<1>41. CASE PumpLoses
  BY <1>41
  DEF PumpLoses, Tell, EntryMoves, Attaches, Loses, Ends, Asks, Forgets, Stops, Starts, Stays, Contact, EntryInv, KillInv, Reachable, Unreached, HostType, ConnType, ActorType, Actors, Dialers, hostVars, daemonVars
<1>42. CASE PumpExits
  BY <1>42
  DEF PumpExits, Tell, EntryMoves, Attaches, Loses, Ends, Asks, Forgets, Stops, Starts, Stays, Contact, EntryInv, KillInv, Reachable, Unreached, HostType, ConnType, ActorType, Actors, Dialers, hostVars, daemonVars
<1>43. CASE ExitIsReaped
  BY <1>43
  DEF ExitIsReaped, Reap, Reaped, Hangup, EntryMoves, Attaches, Loses, Ends, Asks, Forgets, Stops, Starts, Stays, Contact, EntryInv, KillInv, Reachable, Unreached, HostType, ConnType, ActorType, Actors, Dialers, hostVars, daemonVars
<1>44. CASE GraceEnds
  BY <1>44
  DEF GraceEnds, RemoveUnreachable, EntryMoves, Attaches, Loses, Ends, Asks, Forgets, Stops, Starts, Stays, Contact, EntryInv, KillInv, Reachable, Unreached, HostType, ConnType, ActorType, Actors, Dialers, hostVars, daemonVars
<1>45. CASE ObserverRecordsLoss
  BY <1>45
  DEF ObserverRecordsLoss, EntryMoves, Attaches, Loses, Ends, Asks, Forgets, Stops, Starts, Stays, Contact, EntryInv, KillInv, Reachable, Unreached, HostType, ConnType, ActorType, Actors, Dialers, hostVars, daemonVars
<1>46. CASE ObserverLeaves
  BY <1>46
  DEF ObserverLeaves, EntryMoves, Attaches, Loses, Ends, Asks, Forgets, Stops, Starts, Stays, Contact, EntryInv, KillInv, Reachable, Unreached, HostType, ConnType, ActorType, Actors, Dialers, hostVars, daemonVars
<1>47. CASE DaemonStops
  BY <1>47
  DEF DaemonStops, NoMemory, NoPass, NoPlan, EntryMoves, Attaches, Loses, Ends, Asks, Forgets, Stops, Starts, Stays, Contact, EntryInv, KillInv, Reachable, Unreached, HostType, ConnType, ActorType, Actors, Dialers, hostVars, daemonVars
<1>48. CASE DaemonStarts
  BY <1>48
  DEF DaemonStarts, EntryMoves, Attaches, Loses, Ends, Asks, Forgets, Stops, Starts, Stays, Contact, EntryInv, KillInv, Reachable, Unreached, HostType, ConnType, ActorType, Actors, Dialers, hostVars, daemonVars
<1>49. CASE Reboot
  BY <1>49
  DEF Reboot, NoMemory, NoPass, NoPlan, EntryMoves, Attaches, Loses, Ends, Asks, Forgets, Stops, Starts, Stays, Contact, EntryInv, KillInv, Reachable, Unreached, HostType, ConnType, ActorType, Actors, Dialers, hostVars, daemonVars
<1>50. CASE UNCHANGED vars
  BY <1>50 DEF vars, EntryMoves, Attaches, Loses, Ends, Asks, Forgets, Stops, Starts, Stays, Contact, EntryInv, KillInv, Reachable, Unreached, HostType, ConnType, ActorType, Actors, Dialers, hostVars, daemonVars
<1> QED
  BY <1>1, <1>2, <1>3, <1>4, <1>5, <1>6, <1>7, <1>8, <1>9, <1>10, <1>11, <1>12, <1>13, <1>14, <1>15, <1>16, <1>17, <1>18, <1>19, <1>20, <1>21, <1>22, <1>23, <1>24, <1>25, <1>26, <1>27, <1>28, <1>29, <1>30, <1>31, <1>32, <1>33, <1>34, <1>35, <1>36, <1>37, <1>38, <1>39, <1>40, <1>41, <1>42, <1>43, <1>44, <1>45, <1>46, <1>47, <1>48, <1>49, <1>50 DEF Next, Runner, Create, Discover, Reconnect, Wake, Kill, Pump, Observer

-----------------------------------------------------------------------------

(* The inductive invariant, and that it is one.                            *)
SessionInv == /\ TypeOK /\ DownIsBounded /\ LossInv /\ RestartInv
              /\ FreshInv /\ KillInv /\ EntryInv /\ LaunchInv

(* It holds at first, every step keeps it, and so it always holds.         *)
LEMMA SessionInit == Init => SessionInv
<1> SUFFICES ASSUME Init PROVE SessionInv
  OBVIOUS
<1>1. TypeOK
  <2>1. disk \in Files
    <3>1. 0 \in 0..MaxBoots /\ NoMeta \in 0..NoMeta
      BY BoundAssumption DEF NoMeta
    <3> QED BY <3>1 DEF Init, NoFiles, Files
  <2>2. boot \in 1..MaxBoots /\ starts \in 0..MaxStarts /\ daemons \in 1..MaxDaemons
        /\ hello \in 0..MaxStarts
    BY BoundAssumption DEF Init
  <2>3. pass \in Passes /\ plan \in Plans
    BY <2>2 DEF Init, NoPass, NoPlan, Passes, Plans
  <2>4. conn \in [Conns -> ConnStates] /\ pc \in [Actors -> Places]
        /\ held \in [Dialers -> Conns \cup {NoConn}]
        /\ \A a \in Dialers : pc[a] \in {"register", "manage"} <=> held[a] # NoConn
    BY DEF Init, ConnStates, Places, Actors
  <2> QED
    BY <2>1, <2>2, <2>3, <2>4 DEF Init, TypeOK, Stages, Watches, Facts
<1>2. DownIsBounded /\ LossInv /\ FreshInv /\ KillInv /\ LaunchInv
  BY DEF Init, DownIsBounded, LossInv, FreshInv, KillInv, LaunchInv, Tracked, NoPass, Actors, Dialers
<1>3. RestartInv
  BY BoundAssumption DEF Init, NoFiles, RestartInv
<1>4. EntryInv
  BY DEF Init, EntryInv, Actors, Dialers
<1> QED
  BY <1>1, <1>2, <1>3, <1>4 DEF SessionInv

(* Every step keeps it.                                                    *)
LEMMA SessionStep == SessionInv /\ [Next]_vars => SessionInv'
  BY TypeStep, LossStep, RestartStep, FreshStep, KillStep, EntryStep, LaunchStep DEF SessionInv

(* It always holds.                                                        *)
LEMMA SessionInvariant == Spec => []SessionInv
  BY SessionInit, SessionStep, PTL DEF Spec

-----------------------------------------------------------------------------
(* Every variable keeps its type, and an actor holds a connection exactly  *)
(* from its dial until it is managed or refused.                           *)
THEOREM SessionTypeCorrect == Spec => []TypeOK
<1>1. SessionInv => TypeOK
  BY DEF SessionInv
<1> QED BY <1>1, SessionInvariant, PTL

(* Neither a broken socket, a daemon restart, a crash nor a bootout makes  *)
(* an exit of a session whose runner never reported one.                   *)
THEOREM LossIsNotAnExitAlways == Spec => []LossIsNotAnExit
<1>1. SessionInv => LossIsNotAnExit
  BY DEF SessionInv, LossInv, LossIsNotAnExit
<1> QED BY <1>1, SessionInvariant, PTL

(* A KILL frame follows the durable tombstone, whoever else is at work on  *)
(* the session.                                                            *)
THEOREM TombstoneBeforeKillAlways == Spec => []TombstoneBeforeKill
<1>1. SessionInv => TombstoneBeforeKill
  BY DEF SessionInv, KillInv, TombstoneBeforeKill
<1> QED BY <1>1, SessionInvariant, PTL

(* A boot by itself starts no provider of a session it does not restore.   *)
THEOREM RestartIsAskedForAlways == Spec => []RestartIsAskedFor
<1>1. SessionInv => RestartIsAskedFor
  BY DEF SessionInv, RestartInv, RestartIsAskedFor
<1> QED BY <1>1, SessionInvariant, PTL

(* A launch in progress is never recorded as lost: the reconciler, the     *)
(* observer and a discovery pass begun before it cannot reach it.          *)
THEOREM LaunchNotLostAlways == Spec => []LaunchNotLost
<1>1. SessionInv => LaunchNotLost
  BY DEF SessionInv, LaunchInv, LaunchNotLost
<1> QED BY <1>1, SessionInvariant, PTL

(* The registry keeps the promise of a session's entry: a reachable one is *)
(* never replaced, a loss is not an end, and it goes only after an end.    *)
THEOREM EntryRefinement == Spec => EntryPromise
<1>1. Init => Entry!Init
  BY DEF Init, Entry!Init
<1>2. SessionInv /\ [Next]_vars => [Entry!Next]_(Entry!entryVars)
  <2> SUFFICES ASSUME SessionInv, [Next]_vars
               PROVE  [Entry!Next]_(Entry!entryVars)
    OBVIOUS
  <2>1. EntryMoves
    BY MoveStep DEF SessionInv
  <2>2. up \in BOOLEAN /\ up' \in BOOLEAN /\ session \in Conns \cup {NoConn}
    BY SessionStep DEF SessionInv, TypeOK
  <2>3. CASE Attaches
    BY <2>2, <2>3 DEF Attaches, Contact, Entry!Next, Entry!Attach
  <2>4. CASE Loses
    BY <2>2, <2>4 DEF Loses, Contact, Entry!Next, Entry!Lose
  <2>5. CASE Ends
    BY <2>2, <2>5 DEF Ends, Contact, Entry!Next, Entry!End
  <2>6. CASE Asks
    BY <2>2, <2>6 DEF Asks, Contact, Entry!Next, Entry!AskEnd
  <2>7. CASE Forgets
    BY <2>2, <2>7 DEF Forgets, Contact, Entry!Next, Entry!Forget
  <2>8. CASE Stops
    BY <2>2, <2>8 DEF Stops, Contact, Entry!Next, Entry!Stop
  <2>9. CASE Starts
    BY <2>2, <2>9 DEF Starts, Contact, Entry!Next, Entry!Start
  <2>10. CASE Stays
    BY <2>2, <2>10 DEF Stays, Contact, Entry!entryVars
  <2> QED
    BY <2>1, <2>3, <2>4, <2>5, <2>6, <2>7, <2>8, <2>9, <2>10 DEF EntryMoves
<1> QED
  BY <1>1, <1>2, SessionInvariant, PTL DEF Spec, EntryPromise, Entry!EntrySpec

-----------------------------------------------------------------------------
(* What brings a session without a process back.                           *)

(* No process, no permit to start one, no marker to wake it from, and      *)
(* neither a create nor a wake on its way to launchd.                      *)
Cleared == /\ lane # {} /\ run = "none" /\ disk.permit = 0 /\ ~disk.marker
           /\ pc["create"] # "launch" /\ pc["wake"] \notin {"kick", "dial"}

ClearedForGood == [][Cleared => Cleared']_vars

(* Whatever else bootout does, permit and marker go and nothing starts.    *)
LEMMA ReapClears ==
    ASSUME NEW files \in Files, NEW ok, Reap(files, ok)
    PROVE  disk'.permit = 0 /\ ~disk'.marker /\ run' \in {run, "none"}
<1>1. CASE files.plist /\ ok
  <2> DEFINE s == IF Answers THEN FALSE ELSE files.sock
             m == IF Answers THEN NoMeta ELSE files.meta
  <2>1. disk' = [files EXCEPT !.plist = FALSE, !.permit = 0, !.marker = FALSE, !.sock = s, !.meta = m]
    BY <1>1 DEF Reap
  <2> HIDE DEF s, m
  <2> QED BY <1>1, <2>1 DEF Reap, Files
<1>2. CASE ~(files.plist /\ ok)
  <2>1. disk' = [files EXCEPT !.permit = 0, !.marker = FALSE]
    BY <1>2 DEF Reap
  <2> QED BY <1>2, <2>1 DEF Reap, Files
<1> QED BY <1>1, <1>2

LEMMA ClearedFrame ==
    ASSUME Cleared, lane \subseteq lane', run' \in {run, "none"}, disk'.permit = 0, ~disk'.marker,
           pc'["create"] # "launch", pc'["wake"] \notin {"kick", "dial"}
    PROVE  Cleared'
  BY DEF Cleared

(* A step of an actor that is not the creating request or a wake.          *)
LEMMA ClearedElsewhere ==
    ASSUME TypeOK, Cleared, NEW a \in Actors \ {"create", "wake"}, NEW where,
           lane \subseteq lane' \/ lane' # {}, run' \in {run, "none"}, disk'.permit = 0, ~disk'.marker,
           pc' = [pc EXCEPT ![a] = where]
    PROVE  Cleared'
  BY DEF Cleared, TypeOK, Actors, Dialers

LEMMA ClearedRunner == Cleared => ~Runner
  BY DEF Cleared, Runner, LaunchdStarts, RunnerBinds, RunnerDeclines, RunnerListens, RunnerEnds,
         RunnerObeysKill, RunnerLeaves, RunnerCrashes

LEMMA ClearedCreate == SessionInv /\ Cleared /\ Create => Cleared'
<1> SUFFICES ASSUME SessionInv, Cleared, Create PROVE Cleared'
  OBVIOUS
<1>0. TypeOK /\ disk \in Files /\ pc \in [Actors -> Places] /\ {"create", "wake"} \subseteq Actors
  BY DEF SessionInv, TypeOK, Actors, Dialers
<1>1. ~(CreateTracks \/ CreateRecords \/ CreateLaunches \/ CreateDials)
  BY DEF Cleared, CreateTracks, CreateRecords, CreateLaunches, CreateDials, Dial, Answers, SessionInv, KillInv
<1>2. CASE CreateFails
  <2>1. PICK ok \in ReapResults : Reap(disk, ok)
    BY <1>2 DEF CreateFails
  <2>2. disk'.permit = 0 /\ ~disk'.marker /\ run' \in {run, "none"}
    BY <1>0, <2>1, ReapClears
  <2> QED BY <1>0, <1>2, <2>2, ClearedFrame DEF CreateFails, Go, Cleared
<1>3. CASE CreateRegisters
  <2>1. lane' # {} /\ run' = run /\ disk' \in {disk, [disk EXCEPT !.meta = hello]}
    BY <1>3 DEF CreateRegisters, Present
  <2>2. \E where \in {"manage", "done"} : pc' = [pc EXCEPT !["create"] = where]
    BY <1>3 DEF CreateRegisters, Register, Refused, Dropped, Go, Release
  <2> QED BY <1>0, <2>1, <2>2 DEF Cleared, Files
<1>4. CASE Manage("create", "done")
  <2>1. lane' # {} /\ run' = run /\ disk' = disk /\ pc' = [pc EXCEPT !["create"] = "done"]
    BY <1>4 DEF Manage, Release, Go, Present, hostVars, Cleared
  <2> QED BY <1>0, <2>1 DEF Cleared
<1> QED BY <1>1, <1>2, <1>3, <1>4 DEF Create

LEMMA ClearedDiscover == SessionInv /\ Cleared /\ (Discover \/ Reconnect) => Cleared'
<1> SUFFICES ASSUME SessionInv, Cleared, Discover \/ Reconnect PROVE Cleared'
  OBVIOUS
<1>0. /\ TypeOK /\ disk \in Files /\ disk.permit = 0 /\ ~disk.marker
      /\ {"discover", "reconnect"} \subseteq Actors \ {"create", "wake"}
  BY DEF SessionInv, TypeOK, Actors, Dialers, Cleared
<1>1. CASE DiscoverRetires
  <2>1. PICK ok \in ReapResults :
            \E files \in {[disk EXCEPT !.sock = FALSE, !.meta = NoMeta], disk} : Reap(files, ok)
    BY <1>1 DEF DiscoverRetires
  <2>2. [disk EXCEPT !.sock = FALSE, !.meta = NoMeta] \in Files
    BY <1>0, Bounds, TypeParts DEF Files
  <2>3. disk'.permit = 0 /\ ~disk'.marker /\ run' \in {run, "none"}
    BY <1>0, <2>1, <2>2, ReapClears
  <2>4. lane' = lane /\ pc' = [pc EXCEPT !["discover"] = "reconcile"]
    BY <1>1 DEF DiscoverRetires, Settle, Go
  <2> QED BY <1>0, <2>3, <2>4, ClearedElsewhere
<1>2. CASE Discover /\ ~DiscoverRetires
  <2>1. run' = run /\ disk' = disk
    BY <1>2 DEF Discover, DiscoverScans, DiscoverSkips, DiscoverDials, DiscoverGetsNoAnswer,
                DiscoverRegisters, Manage, DiscoverReconciles, DiscoverRecordsLoss, hostVars
  <2>2. lane \subseteq lane' \/ lane' # {}
    BY <1>2 DEF Discover, DiscoverScans, DiscoverSkips, DiscoverDials, DiscoverGetsNoAnswer,
                DiscoverRegisters, Manage, DiscoverReconciles, DiscoverRecordsLoss, Present
  <2>3. \E where : pc' = [pc EXCEPT !["discover"] = where]
    BY <1>2 DEF Discover, DiscoverScans, DiscoverSkips, DiscoverDials, DiscoverGetsNoAnswer,
                DiscoverRegisters, Manage, DiscoverReconciles, DiscoverRecordsLoss, Settle, Conclude,
                Go, Dial, Register, Refused, Dropped, Release
  <2> QED BY <1>0, <2>1, <2>2, <2>3, ClearedElsewhere
<1>3. CASE Reconnect
  <2>1. run' = run /\ disk' = disk
    BY <1>3 DEF Reconnect, ReconnectWaits, ReconnectDials, ReconnectRegisters, Manage, hostVars
  <2>2. lane \subseteq lane' \/ lane' # {}
    BY <1>3 DEF Reconnect, ReconnectWaits, ReconnectDials, ReconnectRegisters, Manage, Present
  <2>3. CASE pc' = pc
    BY <1>0, <2>1, <2>2, <2>3 DEF Cleared
  <2>4. CASE \E where : pc' = [pc EXCEPT !["reconnect"] = where]
    BY <1>0, <2>1, <2>2, <2>4, ClearedElsewhere
  <2> QED BY <1>3, <2>3, <2>4
      DEF Reconnect, ReconnectWaits, ReconnectDials, ReconnectRegisters, Manage, Dial, Register,
          Refused, Dropped, Release, Go
<1> QED BY <1>1, <1>2, <1>3

LEMMA ClearedWake == SessionInv /\ Cleared /\ Wake => Cleared'
<1> SUFFICES ASSUME SessionInv, Cleared, Wake PROVE Cleared'
  OBVIOUS
<1>0. TypeOK /\ disk \in Files /\ pc \in [Actors -> Places] /\ {"create", "wake"} \subseteq Actors
  BY DEF SessionInv, TypeOK, Actors, Dialers
<1>1. ~(WakeBegins \/ WakeKicks \/ WakeDials \/ WakeFails)
  BY DEF Cleared, WakeBegins, WakeKicks, WakeDials, WakeFails
<1>2. CASE WakeRegisters \/ Manage("wake", "unmark") \/ WakeEnds
  <2>1. run' = run /\ (disk' = disk \/ disk' = [disk EXCEPT !.marker = FALSE])
    BY <1>2 DEF WakeRegisters, Manage, WakeEnds, hostVars
  <2>2. lane' # {}
    BY <1>2 DEF WakeRegisters, Manage, WakeEnds, Present, Cleared
  <2>3. \E where \in {"manage", "idle", "unmark"} : pc' = [pc EXCEPT !["wake"] = where]
    BY <1>2 DEF WakeRegisters, Manage, WakeEnds, Register, Refused, Dropped, Release, Go
  <2>4. disk'.permit = 0 /\ ~disk'.marker
    BY <1>0, <2>1 DEF Cleared, Files
  <2> QED BY <1>0, <2>1, <2>2, <2>3, <2>4 DEF Cleared
<1> QED BY <1>1, <1>2 DEF Wake

LEMMA ClearedKill == SessionInv /\ Cleared /\ (Kill \/ Pump \/ Observer \/ ConnectionBreaks) => Cleared'
<1> SUFFICES ASSUME SessionInv, Cleared, Kill \/ Pump \/ Observer \/ ConnectionBreaks PROVE Cleared'
  OBVIOUS
<1>0. /\ TypeOK /\ disk \in Files /\ disk.permit = 0 /\ ~disk.marker
      /\ "kill" \in Actors \ {"create", "wake"}
  BY DEF SessionInv, TypeOK, Actors, Dialers, Cleared
<1>1. CASE KillClosesPaused
  <2>1. (disk' = disk /\ run' = run) \/ \E ok \in ReapResults : Reap(disk, ok)
    BY <1>1 DEF KillClosesPaused
  <2>2. disk'.permit = 0 /\ ~disk'.marker /\ run' \in {run, "none"}
    BY <1>0, <2>1, ReapClears
  <2>3. lane' = lane /\ pc' = [pc EXCEPT !["kill"] = "idle"]
    BY <1>1 DEF KillClosesPaused, Go
  <2> QED BY <1>0, <2>2, <2>3, ClearedElsewhere
<1>2. CASE KillRecords \/ KillClosesLost \/ KillTells
  <2>1. run' = run /\ disk' = disk /\ lane \subseteq lane'
    BY <1>2 DEF KillRecords, KillClosesLost, KillTells, Tombstone, hostVars
  <2>2. \E where : pc' = [pc EXCEPT !["kill"] = where]
    BY <1>2 DEF KillRecords, KillClosesLost, KillTells, Go
  <2> QED BY <1>0, <2>1, <2>2, ClearedElsewhere
<1>3. CASE ExitIsReaped
  <2>1. PICK ok \in ReapResults : Reap(disk, ok)
    BY <1>3 DEF ExitIsReaped
  <2>2. disk'.permit = 0 /\ ~disk'.marker /\ run' \in {run, "none"}
    BY <1>0, <2>1, ReapClears
  <2>3. lane \subseteq lane' /\ pc' = pc
    BY <1>3 DEF ExitIsReaped
  <2> QED BY <2>2, <2>3 DEF Cleared
<1>4. CASE PumpLoses \/ PumpExits \/ GraceEnds \/ Observer \/ ConnectionBreaks
  <2>1. run' = run /\ disk' = disk /\ lane \subseteq lane' /\ pc' = pc
    BY <1>4 DEF PumpLoses, PumpExits, GraceEnds, Observer, ObserverRecordsLoss, ObserverLeaves,
                ConnectionBreaks, hostVars
  <2> QED BY <2>1 DEF Cleared
<1> QED BY <1>1, <1>2, <1>3, <1>4 DEF Kill, Pump

LEMMA ClearedMachine ==
    SessionInv /\ Cleared /\ (DaemonStops \/ DaemonStarts \/ Reboot \/ UNCHANGED vars) => Cleared'
<1> SUFFICES ASSUME SessionInv, Cleared, DaemonStops \/ DaemonStarts \/ Reboot \/ UNCHANGED vars
             PROVE  Cleared'
  OBVIOUS
<1>0. disk \in Files /\ {"create", "wake"} \subseteq Actors
  BY DEF SessionInv, TypeOK, Actors, Dialers
<1>1. lane' = lane /\ run' \in {run, "none"}
  BY DEF DaemonStops, DaemonStarts, Reboot, vars
<1>2. pc' = pc \/ pc' = [a \in Actors |-> "idle"]
  BY DEF DaemonStops, DaemonStarts, Reboot, NoMemory, vars, daemonVars
<1>3. \/ disk' = disk \/ disk' = [disk EXCEPT !.plist = FALSE, !.sock = FALSE]
      \/ disk' = [disk EXCEPT !.sock = FALSE, !.meta = NoMeta]
  BY DEF DaemonStops, DaemonStarts, Reboot, vars
<1>4. disk'.permit = 0 /\ ~disk'.marker
  BY <1>0, <1>3 DEF Cleared, Files
<1> QED BY <1>0, <1>1, <1>2, <1>4 DEF Cleared

LEMMA ClearedStep == SessionInv /\ Cleared /\ [Next]_vars => Cleared'
  BY ClearedRunner, ClearedCreate, ClearedDiscover, ClearedWake, ClearedKill, ClearedMachine DEF Next

(* A session without process, permit and marker, that nobody is launching, *)
(* stays so through every discovery pass, reconnect, wake, daemon restart  *)
(* and reboot, for any number of them: launchd keeps its job loaded and    *)
(* the permit's path alone decides (state/plist.go).                       *)
THEOREM ClearedStaysCleared == Spec => ClearedForGood
  BY ClearedStep, SessionInvariant, PTL DEF Spec, ClearedForGood

(* Ending a paused session leaves nothing that could start it again,       *)
(* unless it was brought back first or its process runs: also when the     *)
(* bootout fails, or a create, a wake or a discovery pass is at work.      *)
ClosedIsCleared ==
    [][pc["kill"] = "act" /\ plan.paused /\ pc'["kill"] = "idle" /\ up' /\ ~Reachable /\ run' = "none"
          => Cleared']_vars

LEMMA PausedClosing ==
    ASSUME SessionInv, [Next]_vars, pc["kill"] = "act", plan.paused, pc'["kill"] = "idle", up',
           ~Reachable, run' = "none"
    PROVE  Cleared'
<1>0. /\ disk \in Files /\ pc \in [Actors -> Places] /\ Actors = {"create", "discover", "reconnect", "wake", "kill"}
      /\ lane # {} /\ pc["create"] # "launch"
  BY DEF SessionInv, TypeOK, Actors, Dialers, KillInv, LaunchInv, Tracked
<1>1. CASE KillClosesPaused
  <2>1. PICK ok \in ReapResults : Reap(disk, ok)
    BY <1>1 DEF KillClosesPaused
  <2>2. disk'.permit = 0 /\ ~disk'.marker
    BY <1>0, <2>1, ReapClears
  <2>3. lane' = lane /\ pc' = [pc EXCEPT !["kill"] = "idle"] /\ pc["wake"] = "idle"
    BY <1>1 DEF KillClosesPaused, Go
  <2> QED BY <1>0, <2>2, <2>3 DEF Cleared
<1>2. CASE ~KillClosesPaused
  <2>1. ~Kill
    BY <1>2 DEF Kill, KillRecords, KillClosesLost, KillTells
  <2>2. ~(DaemonStops \/ Reboot)
    BY DEF DaemonStops, Reboot
  <2>3. ~(DaemonStarts \/ ConnectionBreaks \/ Runner \/ Observer \/ Pump \/ UNCHANGED vars)
    BY DEF DaemonStarts, ConnectionBreaks, Runner, LaunchdStarts, RunnerBinds, RunnerDeclines,
           RunnerListens, RunnerEnds, RunnerObeysKill, RunnerLeaves, RunnerCrashes, Observer,
           ObserverRecordsLoss, ObserverLeaves, Pump, PumpLoses, PumpExits, ExitIsReaped, GraceEnds,
           daemonVars, vars
  <2>4. ASSUME Create \/ Discover \/ Reconnect \/ Wake PROVE pc'["kill"] = pc["kill"]
    <3>1. CASE pc' = pc
      BY <3>1
    <3>2. CASE \E a \in Dialers : \E where : pc' = [pc EXCEPT ![a] = where]
      BY <1>0, <3>2 DEF Dialers
    <3> QED BY <2>4, <3>1, <3>2
        DEF Create, CreateTracks, CreateRecords, CreateLaunches, CreateDials, CreateFails,
            CreateRegisters, Discover, DiscoverScans, DiscoverSkips, DiscoverDials,
            DiscoverGetsNoAnswer, DiscoverRegisters, DiscoverRetires, DiscoverReconciles,
            DiscoverRecordsLoss, Reconnect, ReconnectWaits, ReconnectDials, ReconnectRegisters,
            Wake, WakeBegins, WakeKicks, WakeDials, WakeFails, WakeRegisters, WakeEnds, Manage,
            Settle, Conclude, Dial, Register, Refused, Dropped, Release, Go, Dialers
  <2> QED BY <2>1, <2>2, <2>3, <2>4 DEF Next
<1> QED BY <1>1, <1>2

(* The kill of a paused session ends in such a state, so with              *)
(* ClearedForGood it stays ended (manager_input.go killOne; contrast the   *)
(* run of a session whose loss was recorded, EndedStaysEnded).             *)
THEOREM ClosingPausedClears == Spec => ClosedIsCleared
<1>1. SessionInv /\ [Next]_vars =>
          (pc["kill"] = "act" /\ plan.paused /\ pc'["kill"] = "idle" /\ up' /\ ~Reachable
             /\ run' = "none" => Cleared')
  BY PausedClosing
<1> QED BY <1>1, SessionInvariant, PTL DEF Spec, ClosedIsCleared
=============================================================================
