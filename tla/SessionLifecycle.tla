-------------------------- MODULE SessionLifecycle --------------------------
(***************************************************************************)
(* The life of one terminal session: its runner process under launchd, the *)
(* runner's coordination files, the daemon's registry entry, the manager's *)
(* runtime that observes it, the ledger's facts, and everything that races *)
(* to attach, lose, retire or end it: the creating request, the discovery  *)
(* pass, the reconnect timer, a wake after a reboot, and the user's kill.  *)
(* The runner survives the daemon; the daemon's memory does not survive    *)
(* it.  A step is what runs under one lock or between two calls that wait. *)
(***************************************************************************)
EXTENDS Naturals, FiniteSets

CONSTANTS
    Conns,          \* connections the daemon can hold at a time
    NoConn,         \* no connection
    MaxStarts,      \* runner processes in a behaviour
    MaxBoots,       \* boots of the machine in a behaviour
    MaxDaemons,     \* daemon processes in a behaviour
    Pinned,         \* the session is among those a new boot restores
    KillsAgain,     \* the user may ask again for an end already recorded
    ReapResults     \* whether bootout may succeed, fail, or both

ASSUME ConnAssumption == NoConn \notin Conns
ASSUME BoundAssumption == /\ MaxStarts \in Nat \ {0}
                          /\ MaxBoots \in Nat \ {0}
                          /\ MaxDaemons \in Nat \ {0}
ASSUME SwitchAssumption == /\ Pinned \in BOOLEAN /\ KillsAgain \in BOOLEAN
                           /\ ReapResults \subseteq BOOLEAN

VARIABLES
    boot,           \* the boot the machine is in
    starts,         \* runner processes started so far: the last one's pid
    run,            \* the stage of the runner process, "none" without one
    loaded,         \* launchd knows the job
    disk,           \* the session's coordination files
    exits,          \* pids whose process ended and said so
    told,           \* pids a KILL frame was written to
    lane,           \* the ledger's facts about the session, folded
    daemons,        \* daemon processes so far
    up,             \* the daemon runs
    conn,           \* each connection: the pid it reaches and its state
    session,        \* the registry's entry
    watch,          \* the manager's runtime: what it observes and has heard
    timer,          \* a reconnect attempt is scheduled
    pc,             \* where each actor of the daemon is
    held,           \* the connection each actor has dialled
    pass,           \* what the discovery pass has concluded so far
    plan,           \* what the kill found before it wrote its tombstone
    hello,          \* the pid the creating request's runner answered with
    asked           \* history: the boots a create or a wake let the runner start in

hostVars == <<boot, starts, run, loaded, disk, exits, told, asked>>
daemonVars == <<conn, session, watch, timer, pc, held, pass, plan, hello>>
vars == <<boot, starts, run, loaded, disk, exits, told, lane, daemons, up,
          conn, session, watch, timer, pc, held, pass, plan, hello, asked>>

Dialers == {"create", "discover", "reconnect", "wake"}
Actors == Dialers \cup {"kill"}
Pids == 0..MaxStarts                \* 0 is a pid nobody has confirmed
NoMeta == MaxStarts + 1             \* no metadata document
NoPass == [alive |-> 0, candidate |-> FALSE, dead |-> FALSE]
NoPlan == [lost |-> FALSE, paused |-> FALSE]
NoFiles == [sock |-> FALSE, meta |-> NoMeta, plist |-> FALSE, permit |-> 0,
            marker |-> FALSE, events |-> FALSE]

-----------------------------------------------------------------------------
(* The runner process and what a probe of it says.                         *)

(* The child whose pid the metadata names runs: liveness is a process with *)
(* that pid and this session's command.                                    *)
ChildPid == IF run \in {"bound", "serving"} THEN starts ELSE 0
Alive(pid) == pid > 0 /\ pid # NoMeta /\ pid = ChildPid

(* A dial reaches the runner that listens, also one whose child has ended. *)
Answers == run \in {"serving", "ended"}

(* The runner's end of every open connection is gone: the reader reports a *)
(* clean exit if the runner said so first, a loss otherwise.               *)
HangupIsAnExit(how) == [c \in Conns |-> IF conn[c] = "open" THEN "exit" ELSE conn[c]]
Hangup(how) == [c \in Conns |-> IF conn[c] = "open"
                                THEN how ELSE conn[c]]

Closed(f) == /\ "created" \in f
             /\ f \cap {"kill", "exited", "reaped"} # {}

Reachable == session # NoConn /\ conn[session] # "unreachable"
HasExited == session # NoConn
             /\ conn[session] \in {"exit", "exited", "reaped"}
Unreached == session # NoConn /\ conn[session] = "unreachable"

(* An exited entry and a registered but unreached one do not hold a        *)
(* process; then the recorded pid decides.                                 *)
StillLive == \/ session # NoConn /\ conn[session] \in {"open", "lost", "exit"}
             \/ Alive(disk.meta)

(* Ready and attached facts take a loss back; an end is never taken back.  *)
Present(f, fact) == (f \ {"lost"}) \cup {fact}

-----------------------------------------------------------------------------
(* Reap boots the job out and unlinks its plist, or keeps both when launchd*)
(* would not say; the permit and the paused marker go either way.          *)
Reap(files, ok) ==
    /\ disk' = IF files.plist /\ ok
               THEN [files EXCEPT !.plist = FALSE, !.permit = 0, !.marker = FALSE,
                                  !.sock = IF Answers THEN FALSE ELSE @,
                                  !.meta = IF Answers THEN NoMeta ELSE @]
               ELSE [files EXCEPT !.permit = 0, !.marker = FALSE]
    /\ loaded' = (loaded /\ ~(files.plist /\ ok))
    /\ run' = IF files.plist /\ ok THEN "none" ELSE run

(* What bootout does to the daemon's connections: a runner told to stop by *)
(* the host hangs up without an exit.                                      *)
Reaped(files, ok) == IF files.plist /\ ok THEN Hangup("lost") ELSE conn

-----------------------------------------------------------------------------
(* The machine.                                                            *)

(* launchd starts the job when it is loaded and the permit's path exists.  *)
LaunchdStarts ==
    /\ loaded /\ run = "none" /\ disk.permit > 0 /\ starts < MaxStarts
    /\ run' = "starting"
    /\ UNCHANGED <<boot, starts, loaded, disk, exits, told, lane, daemons, up, asked>>
    /\ UNCHANGED daemonVars

(* The runner's reboot boundary: a permit of this boot lets it start, an   *)
(* older one only a session the restore policy chose.                      *)
PermittedByAnyBoot == disk.permit > 0
Permitted == disk.permit = boot \/ (disk.permit > 0 /\ Pinned)

(* A permitted runner removes a stale socket, starts its provider, opens   *)
(* the event log and writes the metadata.                                  *)
RunnerBinds ==
    /\ run = "starting" /\ Permitted /\ starts < MaxStarts
    /\ disk' = [disk EXCEPT !.permit = boot, !.marker = FALSE, !.sock = FALSE,
                            !.meta = starts + 1, !.events = TRUE]
    /\ run' = "bound" /\ starts' = starts + 1
    /\ UNCHANGED <<boot, loaded, exits, told, lane, daemons, up, asked>>
    /\ UNCHANGED daemonVars

(* A runner that may not start leaves the paused marker and no permit; one *)
(* whose provider cannot be started leaves no permit.                      *)
RunnerDeclines ==
    /\ run = "starting"
    /\ disk' = IF Permitted THEN [disk EXCEPT !.permit = 0, !.marker = FALSE, !.sock = FALSE]
               ELSE [disk EXCEPT !.permit = 0, !.marker = TRUE]
    /\ run' = "none"
    /\ UNCHANGED <<boot, starts, loaded, exits, told, lane, daemons, up, asked>>
    /\ UNCHANGED daemonVars

RunnerListens ==
    /\ run = "bound"
    /\ run' = "serving" /\ disk' = [disk EXCEPT !.sock = TRUE]
    /\ UNCHANGED <<boot, starts, loaded, exits, told, lane, daemons, up, asked>>
    /\ UNCHANGED daemonVars

(* The child ends: EXIT goes to every client, and the runner lingers for   *)
(* a daemon that reconnects.                                               *)
RunnerEnds ==
    /\ run = "serving"
    /\ run' = "ended" /\ exits' = exits \cup {starts}
    /\ conn' = Hangup("exit")
    /\ UNCHANGED <<boot, starts, loaded, disk, told, lane, daemons, up, asked>>
    /\ UNCHANGED <<session, watch, timer, pc, held, pass, plan, hello>>

RunnerObeysKill == starts \in told /\ RunnerEnds

(* The grace after the end is over: nothing of the run stays behind.       *)
RunnerLeaves ==
    /\ run = "ended"
    /\ run' = "none"
    /\ disk' = [disk EXCEPT !.sock = FALSE, !.meta = NoMeta, !.permit = 0,
                            !.marker = FALSE, !.events = FALSE]
    /\ UNCHANGED <<boot, starts, loaded, exits, told, lane, daemons, up, asked>>
    /\ UNCHANGED daemonVars

(* The runner dies without a word; its files and permit stay.              *)
RunnerCrashes ==
    /\ run # "none"
    /\ run' = "none" /\ conn' = Hangup("lost")
    /\ UNCHANGED <<boot, starts, loaded, disk, exits, told, lane, daemons, up, asked>>
    /\ UNCHANGED <<session, watch, timer, pc, held, pass, plan, hello>>

(* A socket read fails although the runner is well.                        *)
ConnectionBreaks ==
    /\ \E c \in Conns : conn[c] = "open" /\ conn' = [conn EXCEPT ![c] = "lost"]
    /\ UNCHANGED <<boot, starts, run, loaded, disk, exits, told, lane, daemons, up, asked>>
    /\ UNCHANGED <<session, watch, timer, pc, held, pass, plan, hello>>

-----------------------------------------------------------------------------
(* The daemon stops at any point, and forgets everything but the disk.     *)
NoMemory ==
    /\ conn' = [c \in Conns |-> "free"]
    /\ session' = NoConn /\ watch' = "none" /\ timer' = FALSE
    /\ pc' = [a \in Actors |-> "idle"] /\ held' = [a \in Dialers |-> NoConn]
    /\ pass' = NoPass /\ plan' = NoPlan /\ hello' = 0

DaemonStops ==
    /\ up /\ daemons < MaxDaemons
    /\ up' = FALSE
    /\ NoMemory
    /\ UNCHANGED <<boot, starts, run, loaded, disk, exits, told, lane, daemons, asked>>

(* The startup sweep unlinks the launch files of a session that is over,   *)
(* unless its process runs or (fresh) the files may be a launch in progress. *)
DaemonStarts ==
    /\ ~up /\ up' = TRUE /\ daemons' = daemons + 1
    /\ \E fresh \in BOOLEAN :
          disk' = IF Closed(lane) /\ ~Alive(disk.meta) /\ ~fresh
                  THEN [disk EXCEPT !.plist = FALSE, !.sock = FALSE] ELSE disk
    /\ UNCHANGED <<boot, starts, run, loaded, exits, told, lane, asked>>
    /\ UNCHANGED daemonVars

(* The machine restarts. A runner the host stops in order unlinks its      *)
(* socket and metadata and keeps its permit; launchd loads what has a plist. *)
Reboot ==
    /\ boot < MaxBoots /\ daemons < MaxDaemons
    /\ boot' = boot + 1
    /\ up' = FALSE
    /\ NoMemory
    /\ run' = "none" /\ loaded' = disk.plist
    /\ \E orderly \in BOOLEAN :
          disk' = IF orderly /\ Answers
                  THEN [disk EXCEPT !.sock = FALSE, !.meta = NoMeta] ELSE disk
    /\ UNCHANGED <<starts, exits, told, lane, daemons, asked>>

-----------------------------------------------------------------------------
(* Steps the daemon's actors share: dial, register, manage.                *)

Go(a, where) == pc' = [pc EXCEPT ![a] = where]
ReleaseKeepsConn(a, where) == Go(a, where) /\ UNCHANGED held
Release(a, where) == Go(a, where) /\ held' = [held EXCEPT ![a] = NoConn]

(* A connection in nobody's hands.                                         *)
Spare == {c \in Conns : /\ conn[c] = "free" /\ \A a \in Dialers : held[a] # c}

(* The dial waits for HELLO; the exit of an ended child follows it.        *)
Dial(a, next) ==
    /\ Answers
    /\ \E c \in Spare :
          /\ conn' = [conn EXCEPT ![c] = IF run = "ended" THEN "exit" ELSE "open"]
          /\ held' = [held EXCEPT ![a] = c]
    /\ Go(a, next)

(* A reachable entry keeps its place; an unreachable one is replaced and   *)
(* closed.                                                                 *)
RegisterAlways(a, next) ==
    /\ session' = held[a]
    /\ conn' = [c \in Conns |-> IF c = session THEN "free" ELSE conn[c]]
    /\ Go(a, next) /\ UNCHANGED held
Register(a, next) ==
    /\ ~Reachable
    /\ session' = held[a]
    /\ conn' = [c \in Conns |-> IF c = session THEN "free" ELSE conn[c]]
    /\ Go(a, next)
    /\ UNCHANGED held

Dropped(a, next) ==
    /\ conn' = [conn EXCEPT ![held[a]] = "free"]
    /\ Release(a, next)
    /\ UNCHANGED session
Refused(a, next) == Reachable /\ Dropped(a, next)

(* manage keeps a runtime that is already there. A new one subscribes to   *)
(* the session, to one whose last event has passed it will hear nothing,   *)
(* and records the attached fact before its observer starts.               *)
Manage(a, next) ==
    /\ pc[a] = "manage"
    /\ \/ watch # "none" /\ UNCHANGED <<watch, lane>>
       \/ /\ watch = "none"
          /\ watch' = IF conn[held[a]] \in {"open", "lost", "exit"} THEN "live" ELSE "deaf"
          /\ lane' = Present(lane, "attached")
    /\ Release(a, next)
    /\ UNCHANGED <<conn, session, timer, pass, plan, hello>>
    /\ UNCHANGED hostVars /\ UNCHANGED <<daemons, up>>

-----------------------------------------------------------------------------
(* Creating the session.                                                   *)

(* The launch is tracked as this daemon's own before its creation is       *)
(* recorded, until the registry has it or the launch has failed.           *)
Tracked == pc["create"] \in {"record", "launch", "dial", "register"}

CreateTracks ==
    /\ up /\ pc["create"] = "idle" /\ lane = {}
    /\ Go("create", "record")
    /\ UNCHANGED <<lane, conn, session, watch, timer, held, pass, plan, hello>>
    /\ UNCHANGED hostVars /\ UNCHANGED <<daemons, up>>

(* The created fact, then the metadata without a pid.                      *)
CreateRecords ==
    /\ pc["create"] = "record"
    /\ lane' = {"created"} /\ disk' = [disk EXCEPT !.meta = 0]
    /\ Go("create", "launch")
    /\ UNCHANGED <<conn, session, watch, timer, held, pass, plan, hello>>
    /\ UNCHANGED <<boot, starts, run, loaded, exits, told, daemons, up, asked>>

(* Permit and plist, the launched fact, and launchctl bootstrap.           *)
CreateLaunches ==
    /\ pc["create"] = "launch"
    /\ disk' = [disk EXCEPT !.permit = boot, !.plist = TRUE]
    /\ lane' = lane \cup {"launched"}
    /\ loaded' = TRUE
    /\ Go("create", "dial")
    /\ UNCHANGED <<conn, session, watch, timer, held, pass, plan, hello>>
    /\ UNCHANGED <<boot, starts, run, exits, told, daemons, up>>
    /\ asked' = asked \cup {boot}

CreateDials ==
    /\ pc["create"] = "dial" /\ Dial("create", "register")
    /\ hello' = starts
    /\ UNCHANGED <<lane, session, watch, timer, pass, plan>>
    /\ UNCHANGED hostVars /\ UNCHANGED <<daemons, up>>

(* launchctl refused, the socket never came, or the caller left: the       *)
(* launch is taken back.                                                   *)
CreateFails ==
    /\ pc["create"] = "dial"
    /\ \E ok \in ReapResults : Reap(disk, ok) /\ conn' = Reaped(disk, ok)
    /\ Go("create", "done")
    /\ UNCHANGED <<boot, starts, exits, told, lane, daemons, up, asked>>
    /\ UNCHANGED <<session, watch, timer, held, pass, plan, hello>>

(* RunnerReady is recorded and the metadata rewritten with the runner's pid *)
(* before the registry is asked; when it cannot be written the launch      *)
(* stays, and nobody reads the connection.                                 *)
CreateRegisters ==
    /\ pc["create"] = "register"
    /\ lane' = Present(lane, "ready")
    /\ \/ /\ disk' = [disk EXCEPT !.meta = hello]
          /\ Register("create", "manage") \/ Refused("create", "done")
       \/ UNCHANGED disk /\ Dropped("create", "done")
    /\ hello' = 0
    /\ UNCHANGED <<watch, timer, pass, plan>>
    /\ UNCHANGED <<boot, starts, run, loaded, exits, told, daemons, up, asked>>

-----------------------------------------------------------------------------
(* One discovery pass.                                                     *)

(* A pass ends without or with a candidate to retire.                      *)
Settle == pass' = NoPass /\ Go("discover", "reconcile")
Conclude(candidate) ==
    IF candidate THEN pass' = [pass EXCEPT !.alive = 0] /\ Go("discover", "retire")
                 ELSE Settle

(* The process table is read once. A launch file without a socket and an   *)
(* event log is an orphan when it is old enough and its process is gone.   *)
DiscoverScans ==
    /\ up /\ pc["discover"] = "idle"
    /\ \E fresh \in BOOLEAN :
          LET orphan == /\ disk.plist /\ ~disk.sock /\ ~disk.events /\ ~fresh
                        /\ disk.meta # 0 /\ ~Alive(disk.meta)
                        /\ session = NoConn
          IN pass' = [alive |-> ChildPid, candidate |-> orphan,
                      dead |-> orphan /\ disk.meta # NoMeta]
    /\ Go("discover", "inspect")
    /\ UNCHANGED <<lane, conn, session, watch, timer, held, plan, hello>>
    /\ UNCHANGED hostVars /\ UNCHANGED <<daemons, up>>

(* A socket file is left alone when its launch is tracked, its entry is    *)
(* reachable, its metadata cannot be read or its paused marker stands;     *)
(* each but the reachable entry also clears an orphan's suspicion.         *)
LeftAloneIfLost == Tracked \/ Reachable \/ disk.meta = NoMeta \/ disk.marker
                   \/ "lost" \in lane
LeftAlone == Tracked \/ Reachable \/ disk.meta = NoMeta \/ disk.marker

DiscoverSkips ==
    /\ pc["discover"] = "inspect"
    /\ disk.sock => LeftAlone
    /\ IF disk.sock /\ (Tracked \/ ~Reachable) THEN Settle ELSE Conclude(pass.candidate)
    /\ UNCHANGED <<lane, conn, session, watch, timer, held, plan, hello>>
    /\ UNCHANGED hostVars /\ UNCHANGED <<daemons, up>>

Inspected == pc["discover"] = "inspect" /\ disk.sock /\ ~LeftAlone

DiscoverDials ==
    /\ Inspected /\ Dial("discover", "register")
    /\ pass' = NoPass
    /\ UNCHANGED <<lane, session, watch, timer, plan, hello>>
    /\ UNCHANGED hostVars /\ UNCHANGED <<daemons, up>>

(* Nothing answers, or not in time, although the runner serves: the files  *)
(* of a process the table did not have are retired, those of any other are *)
(* left alone.                                                             *)
DiscoverGetsNoAnswer ==
    /\ Inspected
    /\ IF disk.meta > 0 /\ disk.meta # pass.alive
       THEN Go("discover", "retire") /\ pass' = [NoPass EXCEPT !.candidate = TRUE, !.dead = TRUE]
       ELSE Settle
    /\ UNCHANGED <<lane, conn, session, watch, timer, held, plan, hello>>
    /\ UNCHANGED hostVars /\ UNCHANGED <<daemons, up>>

DiscoverRegisters ==
    /\ pc["discover"] = "register"
    /\ Register("discover", "manage") \/ Refused("discover", "reconcile")
    /\ UNCHANGED <<lane, watch, timer, pass, plan, hello>>
    /\ UNCHANGED hostVars /\ UNCHANGED <<daemons, up>>

(* The candidate's socket and metadata are unlinked and its job booted out,*)
(* whatever has happened to the session since.                             *)
DiscoverRetires ==
    /\ pc["discover"] = "retire"
    /\ LET files == IF pass.dead
                    THEN [disk EXCEPT !.sock = FALSE, !.meta = NoMeta] ELSE disk
       IN \E ok \in ReapResults : Reap(files, ok) /\ conn' = Reaped(files, ok)
    /\ Settle
    /\ UNCHANGED <<boot, starts, exits, told, lane, daemons, up, asked>>
    /\ UNCHANGED <<session, watch, timer, held, plan, hello>>

(* A created lane that is neither over nor lost, tracked nor registered is *)
(* lost when its process is gone. The facts are read before the rest.      *)
GoneOrLaunching == /\ "created" \in lane /\ ~Closed(lane) /\ "lost" \notin lane
                   /\ session = NoConn /\ ~Alive(disk.meta)
Gone == /\ "created" \in lane /\ ~Closed(lane) /\ "lost" \notin lane
        /\ ~Tracked /\ session = NoConn /\ ~Alive(disk.meta)

DiscoverReconciles ==
    /\ pc["discover"] = "reconcile"
    /\ Go("discover", IF Gone THEN "lose" ELSE "idle")
    /\ UNCHANGED <<lane, conn, session, watch, timer, held, pass, plan, hello>>
    /\ UNCHANGED hostVars /\ UNCHANGED <<daemons, up>>

DiscoverRecordsLoss ==
    /\ pc["discover"] = "lose"
    /\ lane' = lane \cup {"lost"}
    /\ Go("discover", "idle")
    /\ UNCHANGED <<conn, session, watch, timer, held, pass, plan, hello>>
    /\ UNCHANGED hostVars /\ UNCHANGED <<daemons, up>>

-----------------------------------------------------------------------------
(* The reconnect timer.                                                    *)

Artifacts == disk.meta # NoMeta \/ disk.plist

Unheld == session = NoConn \/ Unreached
ReconnectIsDue == up /\ timer /\ pc["reconnect"] = "idle"

(* The timer finds the session reachable or over and stops; without a      *)
(* socket or an answer, which a runner that serves may fail to give too,   *)
(* it tries again as long as there is a file.                              *)
ReconnectWaits ==
    /\ ReconnectIsDue
    /\ \/ ~Unheld /\ timer' = FALSE
       \/ Unheld /\ timer' = Artifacts
    /\ UNCHANGED <<lane, conn, session, watch, pc, held, pass, plan, hello>>
    /\ UNCHANGED hostVars /\ UNCHANGED <<daemons, up>>

ReconnectDials ==
    /\ ReconnectIsDue /\ Unheld /\ disk.sock
    /\ Dial("reconnect", "register") /\ timer' = FALSE
    /\ UNCHANGED <<lane, session, watch, pass, plan, hello>>
    /\ UNCHANGED hostVars /\ UNCHANGED <<daemons, up>>

ReconnectRegisters ==
    /\ pc["reconnect"] = "register"
    /\ \/ Register("reconnect", "manage") /\ UNCHANGED timer
       \/ Refused("reconnect", "idle") /\ timer' = (timer \/ Artifacts)
    /\ UNCHANGED <<lane, watch, pass, plan, hello>>
    /\ UNCHANGED hostVars /\ UNCHANGED <<daemons, up>>

-----------------------------------------------------------------------------
(* Waking a session that stayed paused after a reboot.                     *)

(* Under wakeMu: renew the permit, take the marker away.                   *)
WakeBegins ==
    /\ up /\ pc["wake"] = "idle" /\ disk.marker /\ ~Reachable
    /\ disk' = [disk EXCEPT !.permit = boot, !.marker = FALSE]
    /\ Go("wake", "kick")
    /\ UNCHANGED <<lane, conn, session, watch, timer, held, pass, plan, hello>>
    /\ UNCHANGED <<boot, starts, run, loaded, exits, told, daemons, up>>
    /\ asked' = asked \cup {boot}

(* launchctl kickstarts the job, loading it when it has to.                *)
WakeKicks ==
    /\ pc["wake"] = "kick" /\ (loaded \/ disk.plist)
    /\ loaded' = TRUE
    /\ run' = IF run = "none" THEN "starting" ELSE run
    /\ Go("wake", "dial")
    /\ UNCHANGED <<lane, conn, session, watch, timer, held, pass, plan, hello>>
    /\ UNCHANGED <<boot, starts, disk, exits, told, daemons, up, asked>>

WakeDials ==
    /\ pc["wake"] = "dial" /\ Dial("wake", "register")
    /\ UNCHANGED <<lane, session, watch, timer, pass, plan, hello>>
    /\ UNCHANGED hostVars /\ UNCHANGED <<daemons, up>>

(* launchctl refused, the socket did not come in time, or the caller left: *)
(* the permit goes and the marker comes back.                              *)
WakeFails ==
    /\ pc["wake"] \in {"kick", "dial"}
    /\ disk' = [disk EXCEPT !.permit = 0, !.marker = TRUE]
    /\ Go("wake", "idle")
    /\ UNCHANGED <<lane, conn, session, watch, timer, held, pass, plan, hello>>
    /\ UNCHANGED <<boot, starts, run, loaded, exits, told, daemons, up, asked>>

WakeRegisters ==
    /\ pc["wake"] = "register"
    /\ Register("wake", "manage") \/ Refused("wake", "idle")
    /\ UNCHANGED <<lane, watch, timer, pass, plan, hello>>
    /\ UNCHANGED hostVars /\ UNCHANGED <<daemons, up>>

(* The session is live, and the marker goes.                               *)
WakeEnds ==
    /\ pc["wake"] = "unmark"
    /\ disk' = [disk EXCEPT !.marker = FALSE]
    /\ Go("wake", "idle")
    /\ UNCHANGED <<lane, conn, session, watch, timer, held, pass, plan, hello>>
    /\ UNCHANGED <<boot, starts, run, loaded, exits, told, daemons, up, asked>>

-----------------------------------------------------------------------------
(* The user's kill.                                                        *)

(* A record may be closed without a runner when its loss is a fact and its *)
(* process is gone; a paused one when its marker stands and nothing runs.  *)
LostWithoutRunner == "lost" \in lane /\ ~Closed(lane) /\ ~StillLive
PausedWithoutRunner == disk.marker /\ ~StillLive

Untombed(f) == f
Tombstone(f) == f \cup {"kill"}

(* What is there to end is read before the tombstone is written, and used  *)
(* after it. An exited entry is already ended.                             *)
KillRecords ==
    /\ up /\ pc["kill"] = "idle" /\ lane # {} /\ ("kill" \in lane => KillsAgain)
    /\ session # NoConn \/ LostWithoutRunner \/ PausedWithoutRunner
    /\ ~HasExited
    /\ plan' = [lost |-> LostWithoutRunner, paused |-> PausedWithoutRunner]
    /\ lane' = Tombstone(lane)
    /\ Go("kill", "act")
    /\ UNCHANGED <<conn, session, watch, timer, held, pass, hello>>
    /\ UNCHANGED hostVars /\ UNCHANGED <<daemons, up>>

RemoveUnreachable ==
    /\ session' = NoConn
    /\ conn' = [conn EXCEPT ![session] = "free"]

(* A paused record: the launch registration and the marker go, unless a    *)
(* wake, which it waits for, has brought the session back.                 *)
KillClosesPaused ==
    /\ pc["kill"] = "act" /\ plan.paused /\ pc["wake"] = "idle"
    /\ \/ Reachable /\ UNCHANGED <<disk, loaded, run, conn, session>>
       \/ \E ok \in ReapResults :
             /\ ~Reachable /\ Reap(disk, ok)
             /\ session' = NoConn
             /\ conn' = [c \in Conns |-> IF c = session THEN "free"
                                         ELSE Reaped(disk, ok)[c]]
    /\ Go("kill", "idle") /\ plan' = NoPlan
    /\ UNCHANGED <<boot, starts, exits, told, lane, daemons, up, asked>>
    /\ UNCHANGED <<watch, timer, held, pass, hello>>

(* A lost record whose entry is still unreachable or gone: only the entry  *)
(* is dropped.                                                             *)
KillClosesLost ==
    /\ pc["kill"] = "act" /\ plan.lost /\ ~plan.paused /\ ~Reachable
    /\ IF Unreached THEN RemoveUnreachable ELSE UNCHANGED <<session, conn>>
    /\ Go("kill", "idle") /\ plan' = NoPlan
    /\ UNCHANGED <<lane, watch, timer, held, pass, hello>>
    /\ UNCHANGED hostVars /\ UNCHANGED <<daemons, up>>

(* Otherwise the runner is told, if its connection still takes a frame.    *)
KillTells ==
    /\ pc["kill"] = "act" /\ ~plan.paused /\ (plan.lost => Reachable)
    /\ told' = IF session # NoConn /\ conn[session] = "open"
               THEN told \cup {starts} ELSE told
    /\ Go("kill", "idle") /\ plan' = NoPlan
    /\ UNCHANGED <<boot, starts, run, loaded, disk, exits, lane, daemons, up, asked>>
    /\ UNCHANGED <<conn, session, watch, timer, held, pass, hello>>

-----------------------------------------------------------------------------
(* The session's event pump, the end of a session, and the observer.       *)

(* The runtime that observes the entry is told of its last event.          *)
Tell(what) == watch' = IF watch = "live" THEN what ELSE watch

PumpLoses ==
    /\ up /\ session # NoConn /\ conn[session] = "lost"
    /\ conn' = [conn EXCEPT ![session] = "unreachable"]
    /\ Tell("lost")
    /\ UNCHANGED <<lane, session, timer, pc, held, pass, plan, hello>>
    /\ UNCHANGED hostVars /\ UNCHANGED <<daemons, up>>

(* The exit is applied and recorded before the launch is reaped.           *)
PumpExits ==
    /\ up /\ session # NoConn /\ conn[session] = "exit"
    /\ conn' = [conn EXCEPT ![session] = "exited"]
    /\ Tell("exit")
    /\ lane' = lane \cup {"exited"}
    /\ UNCHANGED <<session, timer, pc, held, pass, plan, hello>>
    /\ UNCHANGED hostVars /\ UNCHANGED <<daemons, up>>

ExitIsReaped ==
    /\ up /\ session # NoConn /\ conn[session] = "exited"
    /\ \E ok \in ReapResults :
          /\ Reap(disk, ok)
          /\ conn' = [Reaped(disk, ok) EXCEPT ![session] = "reaped"]
          /\ lane' = IF ok \/ ~disk.plist THEN lane \cup {"reaped"} ELSE lane
    /\ UNCHANGED <<boot, starts, exits, told, daemons, up, asked>>
    /\ UNCHANGED <<session, watch, timer, pc, held, pass, plan, hello>>

(* The exited entry is forgotten after its grace.                          *)
GraceEnds ==
    /\ up /\ session # NoConn /\ conn[session] = "reaped"
    /\ RemoveUnreachable
    /\ UNCHANGED <<lane, watch, timer, pc, held, pass, plan, hello>>
    /\ UNCHANGED hostVars /\ UNCHANGED <<daemons, up>>

ObserverRecordsLoss ==
    /\ watch = "lost"
    /\ lane' = lane \cup {"lost"}
    /\ watch' = "recorded"
    /\ UNCHANGED <<conn, session, timer, pc, held, pass, plan, hello>>
    /\ UNCHANGED hostVars /\ UNCHANGED <<daemons, up>>

(* The runtime is dropped; after a loss a reconnect is scheduled.          *)
ObserverLeaves ==
    /\ watch \in {"recorded", "exit"}
    /\ watch' = "none"
    /\ timer' = (timer \/ watch = "recorded")
    /\ UNCHANGED <<lane, conn, session, pc, held, pass, plan, hello>>
    /\ UNCHANGED hostVars /\ UNCHANGED <<daemons, up>>

-----------------------------------------------------------------------------
Init ==
    /\ boot = 1 /\ starts = 0 /\ run = "none" /\ loaded = FALSE /\ disk = NoFiles
    /\ exits = {} /\ told = {} /\ lane = {} /\ daemons = 1 /\ up = TRUE
    /\ conn = [c \in Conns |-> "free"]
    /\ session = NoConn /\ watch = "none" /\ timer = FALSE
    /\ pc = [a \in Actors |-> "idle"] /\ held = [a \in Dialers |-> NoConn]
    /\ pass = NoPass /\ plan = NoPlan /\ hello = 0
    /\ asked = {}

Runner == \/ LaunchdStarts \/ RunnerBinds \/ RunnerDeclines \/ RunnerListens
          \/ RunnerEnds \/ RunnerObeysKill \/ RunnerLeaves \/ RunnerCrashes

Create == \/ CreateTracks \/ CreateRecords \/ CreateLaunches
          \/ CreateDials \/ CreateFails \/ CreateRegisters
          \/ Manage("create", "done")

Discover == \/ DiscoverScans \/ DiscoverSkips \/ DiscoverDials
            \/ DiscoverGetsNoAnswer \/ DiscoverRegisters
            \/ Manage("discover", "reconcile")
            \/ DiscoverRetires \/ DiscoverReconciles \/ DiscoverRecordsLoss

Reconnect == \/ ReconnectWaits \/ ReconnectDials \/ ReconnectRegisters
             \/ Manage("reconnect", "idle")

Wake == \/ WakeBegins \/ WakeKicks \/ WakeDials \/ WakeFails \/ WakeRegisters
        \/ Manage("wake", "unmark") \/ WakeEnds

Kill == \/ KillRecords \/ KillClosesPaused \/ KillClosesLost
        \/ KillTells

Pump == PumpLoses \/ PumpExits \/ ExitIsReaped \/ GraceEnds
Observer == ObserverRecordsLoss \/ ObserverLeaves

Next == \/ Runner \/ ConnectionBreaks \/ Create \/ Discover \/ Reconnect \/ Wake
        \/ Kill \/ Pump \/ Observer \/ DaemonStops \/ DaemonStarts \/ Reboot

Spec == Init /\ [][Next]_vars

(* What the daemon has begun it goes on with, its discovery loop and the   *)
(* armed timer start over and over, launchd keeps the job running while    *)
(* the permit exists, and a runner that was started gets on with it; one   *)
(* that serves answers the discovery loop in the end.                      *)
(* Nobody has to create, wake or kill, and nothing has to fail.            *)
Fairness ==
    /\ WF_vars(LaunchdStarts) /\ WF_vars(RunnerBinds \/ RunnerDeclines)
    /\ WF_vars(RunnerListens) /\ WF_vars(RunnerObeysKill) /\ WF_vars(RunnerLeaves)
    /\ WF_vars(DaemonStarts)
    /\ WF_vars(Create /\ pc["create"] # "idle")
    /\ WF_vars(Discover) /\ SF_vars(DiscoverDials) /\ WF_vars(Reconnect)
    /\ WF_vars(Wake /\ pc["wake"] # "idle")
    /\ WF_vars(Kill /\ pc["kill"] # "idle")
    /\ WF_vars(Pump) /\ WF_vars(Observer)

FairSpec == Spec /\ Fairness

-----------------------------------------------------------------------------
Facts == {"created", "launched", "ready", "attached", "lost", "exited", "reaped", "kill"}
ConnStates == {"free", "open", "lost", "exit", "unreachable", "exited", "reaped"}
Stages == {"none", "starting", "bound", "serving", "ended"}
Watches == {"none", "live", "deaf", "lost", "recorded", "exit"}
Places == {"idle", "record", "launch", "dial", "register", "manage", "done", "inspect",
           "retire", "reconcile", "lose", "kick", "unmark", "act"}
Files == [sock: BOOLEAN, meta: 0..NoMeta, plist: BOOLEAN, permit: 0..MaxBoots,
          marker: BOOLEAN, events: BOOLEAN]
Passes == [alive: 0..MaxStarts, candidate: BOOLEAN, dead: BOOLEAN]
Plans == [lost: BOOLEAN, paused: BOOLEAN]

(* Every variable has its type, and an actor holds a connection exactly    *)
(* from its dial until the connection is managed or refused.               *)
TypeOK ==
    /\ boot \in 1..MaxBoots /\ starts \in 0..MaxStarts
    /\ run \in Stages /\ loaded \in BOOLEAN /\ disk \in Files
    /\ exits \subseteq Pids /\ told \subseteq Pids
    /\ lane \subseteq Facts
    /\ daemons \in 1..MaxDaemons /\ up \in BOOLEAN
    /\ conn \in [Conns -> ConnStates]
    /\ session \in Conns \cup {NoConn}
    /\ watch \in Watches /\ timer \in BOOLEAN
    /\ pc \in [Actors -> Places]
    /\ held \in [Dialers -> Conns \cup {NoConn}]
    /\ \A a \in Dialers : pc[a] \in {"register", "manage"} <=> held[a] # NoConn
    /\ pass \in Passes /\ plan \in Plans
    /\ hello \in 0..MaxStarts
    /\ asked \subseteq 1..MaxBoots

(* A launch this daemon is carrying out is never recorded as lost.         *)
LaunchNotLost == Tracked => "lost" \notin lane

(* Only a runner that reported its end is recorded as exited: neither a    *)
(* broken socket, a daemon restart nor a crash of the runner is an exit.   *)
LossIsNotAnExit == "exited" \in lane => exits # {}

(* No runner is told to stop before the user's end is durable.             *)
TombstoneBeforeKill == told # {} => "kill" \in lane

(* A provider runs in a later boot only when the boot restores the session *)
(* or somebody in that boot asked for it: a new boot by itself starts none.*)
RestartIsAskedFor == run \in {"bound", "serving", "ended"} => Pinned \/ boot \in asked

(* A runner that serves a session nobody has ended, that is not marked as  *)
(* paused and whose files stand is adopted by the daemon, after the        *)
(* daemon's restart too.                                                   *)
Adoptable == /\ up /\ run = "serving" /\ ~Closed(lane)
             /\ disk.sock /\ disk.meta # NoMeta /\ ~disk.marker
ServingIsAdopted == Adoptable ~> (Reachable \/ ~Adoptable)

(* A session the user ended, once it has no process, stays without one.    *)
EndedStaysEnded == []["kill" \in lane /\ run = "none" /\ pc["kill"] = "idle" => run' = "none"]_vars

(* Retiring what the process table did not know never stops a session the  *)
(* daemon has a live connection to.                                        *)
LiveIsNotRetired ==
    [][pc["discover"] = "retire" /\ pc'["discover"] = "reconcile" /\ Reachable
       /\ conn[session] = "open" => run' = run]_vars

Entry == INSTANCE SessionEntry WITH
    running <- up, owner <- session, ending <- "kill" \in lane,
    contact <- IF session = NoConn THEN "none"
               ELSE IF conn[session] = "unreachable" THEN "unreachable"
               ELSE IF conn[session] \in {"exited", "reaped"} THEN "exited"
               ELSE "live"

EntryPromise == Entry!EntrySpec
=============================================================================
