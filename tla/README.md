# Sessions in TLA+

A verification development of Sessions, the program that keeps coding agents
(Claude, Codex) and terminals running in long-lived sessions and lets people,
other agents and scripts send messages to them. The modules are translated from
the Go sources under `src/runtime`. TLC checks them on small instances; TLAPS
proves the safety properties named in section 4 for every value of the constants.

Line references are relative to `src/runtime` unless they start with `src/`.

Contents: [the system](#1-the-system) ·
[the modules](#2-the-modules-and-the-code) · [the runs](#3-the-runs) ·
[the proofs](#4-what-is-proved) · [limits](#5-what-is-only-checked-and-what-is-not-modelled) ·
[the plan](#6-the-plan)

## 1. The system

### 1.1 Processes

    Sessions.app / browser / CLI ──HTTP, WebSocket──> sessionsd (one daemon)
                                                        │  one socket per session
                                                        v
                                   sessions-runner (one process per session)
                                       PTY lane, structured Claude, Codex app-server

The runner owns the work and outlives the daemon: a daemon that crashes, is
updated or is restarted discovers the runners by their sockets and metadata
files and reconnects. A runner may be stopped, killed or crash by itself; launchd
starts it again as long as its restart permit stands. What must survive is
therefore in files: the runner's queue and history, the daemon's receipts, the
coordination files both of them read and write, and the append-only ledger.

### 1.2 Components

What each component keeps, does, finds hard, and has to get right. M is
modelled, P partly modelled, – not modelled. `PROJECT.json` lists the same
components with their source files.

| | Component | State | Operations | Hard | Correct when |
|---|---|---|---|---|---|
| M | Claude next-turn queue (`cmd/sessions-runner/claude_queue*.go`) | queue in memory, queue file, `queueCurrent`, `active`, history sidecar | admit, claim, settle, resume, load | two locks, disk writes that fail halfway through an operation, crash between phases | nothing accepted is lost, nothing runs in two processes, order is kept, nobody is stranded |
| M | Provider turn retry (`structured_retry.go`) | retained input, schedule, timer, suppression | Failed, RunNow, fire, Interrupt, Replace, Stop, Close | the timer races the settle, Retry races a new turn | answered input is never run again; a schedule is acted on |
| P | Structured Claude runner (`claude_p.go`) | one turn goroutine and its cancel function | INPUT, RETRY_REQ, RETRY_STOP, shutdown | raw Enter takes one lock where messages take two | one turn at a time |
| P | Terminal runner (`cmd/sessions-runner/main.go`, `git_state.go`) | output numbers, kept exit, clients, grace timer | output, exit, replay, serve a client, leave | the grace timer fires while a client comes or goes | nobody is left with a hole it cannot see; an ended runner leaves |
| P | Delivery receipt store (`internal/delivery`) | a file per operation id | Begin, Complete, ConfirmAccepted, Get | torn and missing final writes, reuse of an id | `retry:true` is right for good; accepted means taken |
| P | Submit and receipt routes (`internal/api/server_routes.go`, `message_submit.go`, `delivery_handlers.go`) | a gate per session | submit, read a receipt, late confirmation | stale session lookup, callers that leave | one submit per session at a time, always answered |
| P | Daemon's runner connection (`internal/proto/client.go`, `message.go`) | waiters, response channels, late answers, one replay request, the event stream | SubmitMessage, Replay, dispatch, close with loss | an answer races its timeout; replay races live output; a full stream at the end | an acceptance is never dropped; the end is told, last and once |
| P | Runner's message handler | per provider | treat a MESSAGE_REQ | a steer whose fate is unknown | the answer is true |
| P | Session registry and discovery (`internal/state/registry*.go`, `internal/session/manager_discovery.go`) | the map of sessions, unreachable ones, an exit grace | create, discover, register, reconnect, lose, reap, remove | creation, discovery, reconnect, wake and kill at once | one entry per session; a loss is not an end; a launch is not lost |
| P | Session manager (`internal/session`) | a runtime per session, launches of its own, the gate of creation | create, submit, wake, kill, reconcile, observe | ledger first, then the action, and a crash in between | one session per operation; the ledger explains every session |
| P | Lifecycle ledger (`internal/ledger`) | append-only SQLite, the projection, a memory of recent activity | append, coalesce, read, fold, classify | reads that fail halfway; what the memory leaves out | the projection is a function of the rows; an end is final |
| P | Claude SDK bridge (`src/runtime/claude-sdk`) | provider process | start, stream, interrupt | – | external |
| – | Recovery and continuation (`internal/recovery`) | candidates, records | scan, adopt, resume | two adopters of one conversation | one live session per conversation |
| – | Session metadata and file locks (`internal/state/paths.go`, `internal/filelock`) | a JSON document and its lock file | read-modify-write by daemon and runner | an unlocked reader-writer | no update is lost |
| – | Structured history log | the event log and its window | append, replay, trim | a reader at the cut | replay plus live stream has no gap |
| – | Codex app-server runner (`codex_app.go`, `internal/codexapp`) | threads, turns | start, steer, interrupt | request ids over stdio | as for Claude, without a queue |
| – | Terminal submit (`internal/api/legacy_submit.go`) | paste, settle, Enter, transcript witness | submit | failure between the writes | never claims what the transcript does not show |
| – | Waiting conditions, idle and activity classification, watchers, terminal mirror, idle compaction, usage, search, review, verdict, storage, integrations, backup, migration, relay, tailnet, pairing, fleet accounts, CLI, daemon start-up, frontend, desktop shell, cloud and packaging | see `PROJECT.json` | | | |

### 1.3 How they interact

**The path of a message**: *sender → submit route → receipt store → session manager →
runner connection → runner's frame loop → next-turn queue → Claude*. Every arrow
may break: the sender disconnects, the receipt cannot be written, the answer is
late, the connection is lost and replaced, the daemon or the runner dies. The
design's answer is an operation id chosen by the sender, a receipt that is
written before anything is sent, and a queue file that says *dispatched* before
Claude is started.

* `DeliveryReceipts` covers the path from the sender to the runner's frame loop,
  with a runner that answers arbitrarily and remembers nothing.
* `ClaudeTurnQueue` covers the runner. Its sender resends only a message it was
  told is not queued. That is what `DeliveryReceipts` shows of the daemon
  (`RetryIsSafe`, `AtMostOneRun`), so neither model assumes anything of the other
  that is not established there. The first needs no memory of operation ids in
  the runner; the second keeps the memory the Claude runner really has.

**The life of a session**: *start request → ledger lookup → creation gate →
created fact → launch permit and launchd → runner → socket → registry entry →
runtime that observes it → exit, loss or kill → ledger*.

* `SessionCreation` covers the request until its runner is launched and
  registered, for several requests and sessions at a time; the runner is no more
  than up or ended.
* `SessionLifecycle` takes one session from its creation to its end and keeps
  everything that can be at work on it at the same time: runner, launchd, files,
  creating request, discovery, reconnect timer, wake, kill, observer. That a lane is launched
  once, by the request that recorded it (here `CreateTracks` needs an empty lane),
  is what `SessionCreation` shows (`CreationPromise`).
* `RunnerChannel` looks into what `SessionLifecycle` calls a connection: frames,
  replay, the stream of events, the grace of an ended runner. `SessionLifecycle`
  relies on the loss or exit of a connection reaching the session, which is
  `EndIsTold`, and on an ended runner leaving, which is `EndedRunnerLeaves`.
* `LaneLedger` and `LaneFold` cover the ledger beneath both: `SessionLifecycle` keeps
  the folded facts of one lane and `SessionCreation` the rows, which agree by
  `ProjectionIsFold` and `TombstoneIsFinal`.

`PROJECT.json` "hazards" lists what is hard to test in this code, at its line,
with the property that covers it or why none does.

## 2. The modules and the code

| Module | What it is |
|---|---|
| `ClaudeTurnQueue` | the structured Claude runner: queue, turn, retry, process |
| `NextTurnLine` | what it promises senders: a line, each message handed over at most once, in order |
| `ClaudeTurnQueue_proofs` | its theorems |
| `QueueOutcomes_proofs` | more of them: what becomes of an accepted message |
| `DeliveryReceipts` | receipts, submit handlers, runner connection, both byte streams |
| `DeliveryPromise` | what a receipt promises its sender |
| `DeliveryReceipts_proofs` | its theorems |
| `SessionLifecycle` | one session: runner, launchd, files, registry, manager, ledger facts |
| `SessionEntry` | what the registry promises of its entry |
| `SessionLifecycle_proofs` | its theorems |
| `SessionCreation` | start requests with operation ids, ledger cache, gate and launch |
| `StartPromise` | what an operation id promises whoever starts a session with it |
| `SessionCreation_proofs` | its theorems |
| `RunnerChannel` | one runner's socket: greeting, output, replay, exit, grace |
| `LaneLedger` | the ledger's store: coalesced activity, the projection and its reads |
| `RunnerChannel_proofs` | its theorems |
| `LaneFold` | what one fact makes of a lane, and what recovery makes of the lane |
| `LaneLedger_proofs` | theorems of the store, its memory and its fold |
| `NumberSets` | a greatest number, and induction over a set of numbers, for both |
| `MC…` | the instance of each: symmetry sets, message and fact values |

`PROJECT.json` "map" gives the source lines of every definition. In the modules
some operators stand directly before the one they resemble and are not used by
it (`OneTooMany`, `DispatchedLater`, `PermittedByAnyBoot`, `Untombed`,
`AfterDoneWithdraws`, `LabelRead` and so on). Each is a plausible bug of that
operator: put in its place, it makes the run listed under "mutants" fail, which
shows that the property can tell.

### 2.1 ClaudeTurnQueue

An action is what one goroutine does between two points where another goroutine
may run. `queueMu` is the variable `lock`: which operation holds it and what that
operation does next. `mu` guards only `active` and the cancel function, and raw
input takes `mu` alone, so the actions of `Input` are enabled at every point,
also in the middle of an admission, a claim or a settle.

| State | Code |
|---|---|
| `queue`, `disk`, `current` | `r.queue`, the queue file, `r.queueCurrent` |
| `active`, `turn` | `r.active`; the goroutine in `runTurn` and how far it is |
| `retry`, `caller` | the fields of the retry controller; the timer's and the user's goroutine on their way from the controller to `queueMu` |
| `recorded`, `told` | what the history sidecar shows: the message, and its end or unknown end |
| `up`, `life` | the process and its context |
| `reply` | what the sender was last told |
| `handed`, `launched`, `answered` | ghosts |

| Actions | Code |
|---|---|
| `AdmitRefused`, `RepeatRefused`, `AdmitDuplicate`, `AdmitBegin`, `AdmitCommit`, `AdmitWriteFails` | `admitClaudeMessage`, split at the disk write |
| `ClaimRefused`, `ClaimReserve`, `ClaimNothing`, `ClaimCommit`, `ClaimWriteFails` | `claimQueuedTurnLocked`, split between the reservation of `active` and the disk write |
| `Interrupt`, `Keystroke`, `Enter` | `handleInput` |
| `RetryRequest`, `RunNow`, `RetryStop`, `TimerFires`, `StartRetryTurn`, `ResumeQueue` | `handleRetryControl`, `structured_retry.go`, `startRetryTurn`, split where the goroutine holds no lock |
| `TurnBegin` … `TurnEnds` | `runTurn` and the SDK's stream |
| `SettleSaved`, `SettleWriteFails` | `settleClaudeTurn` |
| `Stop`, `ProcessEnds`, `Restart`, `RestartFails` | shutdown, crash, `loadMessageQueue` |

Abstractions. A message is its operation id; its text, hash, size and
continuation file are left out, and with them the byte limit. The list is a set
of entries with places, because only order matters. Delays are untimed: the
backoff timer fires whenever it is armed. Approvals, model changes and the stored
conversation are left out. A sender sends anew what it was told is not queued and asks
again about an id the queue holds; nobody asks about an id whose receipt was trimmed (64 of
each kind are kept, claude_queue_history.go:22).

One supposition. The record of the conversation never fails to be written: the code logs a
record that it cannot write and goes on (`appendStructured`, claude_p.go:734-742).
`NothingLostSilently` and `SavedIsVisible`, and their theorems, are to be read "as long as the
conversation can be written".

Two answers say "not queued". `AdmitRefused` is the refusal of something new, and leaves `reply`
at `refused`. `RepeatRefused` is what a stopping runner answers to a repeat of a message it
holds, because admitClaudeMessage looks at the context (claude_queue.go:118) before the id (:122); it
leaves `reply` at `stopping`. `RefusedNeverRuns` is about the first. The second is untrue of the
code, section 3.2.

One reduction. `settleClaudeTurn` clears `active` under `mu` (claude_queue.go:244)
before it writes the queue; `SettleSaved` does both at once. The only actions that
can come in between take `mu` alone, and they neither read nor write the queue; a
raw Enter between the two reaches the same state as one right after the settle, or
is the `Enter` before the settle's claim, which the model has as a separate step
(`lock.op = "claim"`).

### 2.2 DeliveryReceipts

| State | Code |
|---|---|
| `record` | the receipt files; `torn` is a file created and not completely written |
| `post`, `req` | a POST that waits for the session's gate, with the result of its earlier lookup; the handler that holds the gate |
| `reading` | a reader between finding a late acceptance and confirming it |
| `target`, `alive` | the session as the daemon sees it; the runner process |
| `waiters`, `slots`, `late` | `SocketRunner.messages`, their one-place channels, `lateOrder` with `lateMessages` |
| `inbox`, `outbox`, `stale` | bytes under way to the runner, from it, and in lost connections |
| `runs`, `acked` | ghosts |

`Post` looks the session up, `Begin` takes the gate and runs `Store.Begin`,
`RouteUnknown`, `SubmitFails`, `Send`, `Answered` and `GiveUp` are what
`handleSubmitMessage`, `Manager.SubmitMessage` and `SocketRunner.SubmitMessage` can
come to, and `Complete` is `Store.Complete` with the release of the gate.
`Read` and `Confirm` are `reconcileLateAcceptance`. `RunnerAnswers` and
`StaleRequest` are the runner's frame loop, and `DeliverAnswer`, `ConnectionLost`,
`Reconnect`, `Forgotten` and `DaemonRestarts` the daemon's side.

Abstractions. One session: receipts of other sessions have their own gate and
share only the directory. A reused id with other content is a 409 without effect
and left out. The runner may answer anything and remembers nothing; this is the
worst case (a Codex runner keeps no ids, a Claude runner a bounded number). A
POST of a recorded operation behaves as a read. A request in a lost connection
may still be read by the runner until the runner exits.

### 2.3 SessionLifecycle

One session, and everything that can be at work on it. A step is what runs under
one lock, or between two calls that wait (a dial, launchctl, a ledger write).

| State | Code |
|---|---|
| `boot`, `starts`, `run`, `loaded` | the machine's boot, the runner processes so far, how far the present one is in `main.go`, launchd's knowledge of the job |
| `disk` | the coordination files (internal/state/paths.go): socket, metadata with the child's pid, launchd plist, restart permit with its boot, paused marker, event log |
| `lane` | the folded facts of the session's lane, see 2.5 |
| `up`, `daemons` | the daemon process |
| `conn` | each `SocketRunner` with its session: open, ended by a loss or an exit that the pump has not applied, then unreachable, exited, reaped |
| `session` | the registry's entry: which connection holds it |
| `watch`, `timer` | the manager's runtime with its observer; `reconnects` of the runtime |
| `pc`, `held` | where each actor is, and the connection it has dialled and not yet handed on |
| `pass`, `plan`, `hello` | locals that live across a wait: the process table and the suspicion of a discovery pass, what a kill read before its tombstone, the pid the creation was greeted with |
| `exits`, `told`, `asked` | history: who reported an end, who was told to stop, in which boots somebody asked for the session |

| Actions | Code |
|---|---|
| `RunnerBinds`, `RunnerDeclines`, `RunnerListens`, `RunnerEnds`, `RunnerObeysKill`, `RunnerLeaves`, `RunnerCrashes` | the runner's `main.go` with `restart_policy.go` at its start and `shutdown` in `git_state.go` at its end |
| `CreateTracks` … `CreateRegisters` | `Registry.Create` inside `createRegistryTracked`, split at the ledger, launchd and the dial |
| `DiscoverScans` … `DiscoverRetires` | one pass of `Manager.DiscoverWithOptions`: scan, inspect, dial, register, retire |
| `DiscoverReconciles`, `DiscoverRecordsLoss` | `reconcileLedger`, which follows the pass |
| `ReconnectWaits`, `ReconnectDials`, `ReconnectRegisters` | the timer of `scheduleReconnect` |
| `WakeBegins` … `WakeEnds` | `WakePaused` (manager_restart.go) with the launcher's `Wake`, under `wakeMu` |
| `KillRecords`, `KillClosesPaused`, `KillClosesLost`, `KillTells` | `killOne` (manager_input.go:107) and the two ways a record is closed without a runner |
| `Manage` | `Manager.manage`, for each actor that attached the session |
| `PumpLoses`, `PumpExits`, `ExitIsReaped`, `GraceEnds` | `Session.start` with `applyEvent`, and the exit handler `registerInfo` gives it |
| `ObserverRecordsLoss`, `ObserverLeaves` | `runtimeSession.observe` |
| `LaunchdStarts`, `Reboot` | launchd, external: it starts a loaded job while the permit's path exists, and after a reboot loads what has a plist |
| `DaemonStops`, `DaemonStarts` | the daemon, with the sweep of launch files at its start |

Abstractions. One session; sessions share only locks and the discovery pass, which
visits them one after the other. `Alive` stands for the process table: a process
with the recorded pid and this session's command, so a pid that another program got
is not alive. A dial may fail although the runner serves (`DiscoverGetsNoAnswer`, `ReconnectWaits`,
`CreateFails`, `WakeFails`), and a creation that cannot write the metadata after `RunnerReady` leaves the launch and
the connection behind (`CreateRegisters`). What else registerInfo can refuse (an incompatible version, an
empty id, a mirror it cannot make) is the same for every dial of a runner and left out. Ages of files (an orphan must be old enough) are a free choice, `fresh`.
A kill of a whole tree, working and idle states, archives and moves are left out,
and so are the launchers of other platforms.

`SessionEntry` is what the registry promises whoever looks a session up: a lost socket
neither ends the session nor removes it, a recovered connection replaces only an
unreachable one, and an entry goes only after an end. `EntryPromise` maps `session`,
`conn` and the tombstone onto it.

### 2.4 RunnerChannel

One terminal runner and the daemon's connections to it, one after the other. What the
runner does under `streamMu`, and what the reader does with one frame, is one step.

| State | Code |
|---|---|
| `seq`, `ended`, `clients`, `gone` | the runner's output number, its kept exit, `r.clients`, the process |
| `owed`, `idle`, `stray`, `calls`, `leaving` | calls of `scheduleIdleShutdown` under way, `r.idle`, timers that still tick though `r.idle` names another, callbacks waiting for `mu`, the decision to shut down |
| `dial`, `wire`, `cut`, `asked` | the last connection, its frames under way, whether the runner closed it, a REPLAY_REQ under way |
| `closed`, `current`, `replay`, `replayed`, `stream` | `SocketRunner`: its reader, `info.CurrentSeq`, the replay request and what it collected, `events` |
| `stage`, `outputs`, `nextSeq`, `told` | the session: how far `newSession` is, its output log, the next number it takes, how it learned of its end |
| `dropped`, `short` | history: the stream was full; the replay ended without REPLAY_DONE |

`Dials` is the greeting with the client's registration, `AsksReplay`, `GivesUpReplay` and
`TakesReplay` are `Replay`, `Starts` the start of the pump. `ReadsOutput`, `ReadsDone`, `ReadsExit` and
`Breaks` are the reader's `handleFrame` and its end, with `WithTerminal` for a full stream.
`Schedule`, `TimerFires` and `TimerDecides` are the grace timer: `cancelIdleShutdown` cannot
recall a timer that has fired, and its callback clears `r.idle` whichever timer that names.

Abstractions. An output is its number, and the runner retains them all (the bytes kept
are bounded in the code; eviction is left out). A client whose outbox is full is closed
with any number of its frames delivered. Input, resize, snapshots and the
completion manifest are left out.

### 2.5 LaneLedger and LaneFold

| State | Code |
|---|---|
| `log` | `lane_events`; a row's place is its seq |
| `memory` | `Store.coalesce.latest`, the newest activity remembered of each lane |
| `projection`, `reading` | the cached states with their cursor; a `CurrentStates` under way with the lanes it changed |
| `call` | each goroutine in `RecordActivity` |

A transaction is one step. The store has one connection (`SetMaxOpenConns(1)`,
internal/ledger/store.go), so a read that is under way keeps this daemon's own queries
and inserts waiting (`~reading.open`), but not other processes with the same file
(`Appends`). `Inserts` has the case in which the transaction commits and the caller is
told of a failure, because the file's mode could not be set afterwards.

`LaneFold` is `applyLaneEvent` and its helpers, and `ClassifyLane`, `InRecoveryPlan`. A fact
keeps what the fold looks at: type, lane, date and up to two arguments. Migration,
retention, worktree and message rows change no field the model has. Dates come from
several writers and need not grow along the table; the bounds include facts whose date is
before that of an earlier row.

### 2.6 SessionCreation

| State | Code |
|---|---|
| `log` | the ledger's rows |
| `cache`, `folder` | the daemon's folded ledger, keyed on the high-water mark; the holder of the fold slot |
| `gate`, `starting` | `bindGate`; `Manager.starting`, the launches that this daemon's Create owns |
| `registry`, `runner`, `launches`, `minted` | each session's entry, runner, number of launches; the ids handed out |
| `call`, `answer` | each request being served: stage, mark and snapshot; what its caller was told |

Nothing is ever removed from the ledger, so a snapshot of it is the length of a prefix, and so is the mark. `LooksUp`,
`Admitted`, `Folds`, `Publishes`, `LookupFails` are `readLedger`, `ChecksRegistry` and
`ChecksStarting` the rest of `replayStart`; `TakesGate`, `GivesUp`, `PreparationFails`,
`Tracks`, `Records`, `RecordFails` are `Create` up to the recorded creation, where the gate is
given back; `Launches`, `RunnerAnswers`, `LaunchFails`, `Registers`, `Untracks`, `Finishes` the launch
and the answer. `Answers` is every return of `Create`, with its deferred releases. The actions
of `Around` are what the rest of the daemon and the runners do meanwhile, as coarse as this
model needs them; `SessionLifecycle` has them in full.

The mark is read before the fold and the fold is published under it (`Label`). A write
may commit and yet be reported as failed, a launch that failed is reaped or not, and the daemon may stop anywhere.
Works stand for what a request is compared by: fingerprint, tool and parent. The adoption
of a conversation by one session only (`exclusive`) is left out: the code does not promise
it under concurrency (internal/session/manager_provenance.go:426).

`StartPromise` is what is left for the sender: sessions are made, started and handed over. The
mapping reads them off the model: made is what the ledger says was created (`RecordedSessions`), the starts are
`launches`, and a caller holds what his last answer returned, for what he had asked (`Holdings`). Lookups, the gate, the
cache, refusals and everything the daemon forgets are steps that the sender does not see.

## 3. The runs

### 3.1 Passing

| Run | Asks | Shows |
|---|---|---|
| `queue_crash` | messages, transient faults, failing writes, a stop or crash and a restart | `AcceptedIsDurable`, `QueuedNeverRan`, `OneLifePerMessage`, `RefusedNeverRuns`, `NothingLostSilently`, `SavedIsVisible`, `ActiveIsOwned`; `LineSpec`: the runner implements `NextTurnLine`; `SavedMovesOrPauses`: all that is saved is dispatched, or the queue says that it is paused |
| `queue_composer` | the raw composer, which takes one lock of the two | `FailedInputPausesQueue`, `NoStrandedMessage`: no order of the two paths strands a message or lets it overtake a failed turn |
| `receipts` | two operations, room for one late answer, every loss | `RetryIsSafe`, `AtMostOneRun`, `AcceptedWasTaken`, `NoAcceptanceForgotten`; `PromiseSpec`: it implements `DeliveryPromise`; `EverySubmitIsAnswered`: no lost answer, connection, runner or daemon keeps the gate |
| `session` | creation, discovery, reconnect, wake, kill, reboot and daemon restarts at once | `LaunchNotLost`, `LossIsNotAnExit`, `TombstoneBeforeKill`, `RestartIsAskedFor`; `EntryPromise`: the registry implements `SessionEntry` |
| `session_adopted` | fairness | `ServingIsAdopted`: a runner that serves and whose files stand is attached, after a daemon restart too |
| `channel` | replay, live output, full outbox, full stream, exit, grace, daemon restarts | `EndIsTold`, `NoSilentHole`, and under fairness `EndedRunnerLeaves` |
| `ledger` | racing recordings, writers that close a lane, reads that fail halfway, restarts | `ActivityNotLost`, `ProjectionIsFold`, `TombstoneIsFinal` |
| `creation` | two requests of one operation, failing reads, writes, launches, restarts | `CreationPromise`: it implements `StartPromise`, one session and one launch per operation; `LookupIsCurrent`, `AnswersAreTrue`, `LaunchUnderWayIsSaid`, and under fairness `WaitersMoveOn` |

Every run also checks its module's `TypeOK` (with `queue_crash` for the queue and `session` for the session).

### 3.2 Where the code and its documents disagree

Each of these runs checks one sentence of the repository, and TLC finds a
behaviour of the code that breaks it. `PROJECT.json` "findings" quotes both sides.

| Run | The repository says | The code |
|---|---|---|
| `queue_retry_race` | an answered message "is never run again" (claude_queue.go:226; the notice of a failed save says the same to the user, :273) | a Retry that took the input before another attempt was answered runs it again: the timer and the user both read the input under `c.mu` and start the turn after releasing it, and `startRetryTurn` looks only at `active` |
| `queue_boundary` | boundary `runner` means a new turn was accepted (CONTRACT/runner-protocol.md:231) | a raw Enter between snapshot and claim makes it untrue |
| `session_ended` | a runner removes its permit "on a normal end, explicit stop" (CONTRACT/state-dir.md:509-510) | the kill of a session whose runner crashed leaves the permit and the job: launchd starts the provider again after the user ended it |
| `channel_repeat` | "Replay is ordered before live traffic" (ARCHITECTURE.md:89-90) | an output broadcast before the runner reads REPLAY_REQ is collected by the request, and replayed again: the session holds it twice |

The window of `queue_retry_race` is not only a few instructions: `RunNow` writes its state
to the socket between the two.

How far each of these goes is proved (section 4), so that a reader knows what is *not* at risk.
A turn that was answered lets go of its message unless a goroutine already held the text, and a
message that was let go of is never run again (`AnsweredIsReleased`, `AnsweredIsOver`). The boundary `runner`
is untrue only behind a text of the composer that runs at that moment (`OnlyTheComposerOvertakes`), and never without one
(`RunnerIsATurnWithoutComposer`). A kill that finds the session paused leaves nothing that could start it again,
and it stays so (`ClosingPausedClears`, `ClearedStaysCleared`): the finding is about a loss that was
recorded. The repeated outputs are those of the replay: the pump adds only what is above everything there
(`LiveOutputIsNewAlways`). And of the list below, a receipt that moves from unknown to not-delivered does so by
its own handler, of a request that was never sent (`ResendIsItsHandlersNews`): the resend is safe.

Nine more disagreements are kept as configurations to run by hand, because they are of less weight
or restate one above from another side. `tlc -config X.cfg MCModule` reports the violation of the
one property in the file:

| Configuration and module | Property | The repository says | The code |
|---|---|---|---|
| `queue_done_label`, `MCClaudeTurnQueue` | `DoneMeansAnswered` | "answered (done) entries" (claude_queue_history.go:20) | Retry of a failed raw turn settles the entry of an *earlier failed message* as done |
| `queue_lost_schedule`, `MCClaudeTurnQueue` | `ScheduleIsLive` | `retry` is present while one is scheduled or running (CONTRACT/http-api.md:160) | a timer or Retry that finds the failed turn not yet settled is dropped, and the schedule stays published with nothing to run it |
| `queue_stop_refusal`, `MCClaudeTurnQueue` | `NotQueuedIsTrue` | "Claude runner is stopping. This message was not queued." (claude_queue.go:119) | said before the id is looked up (:122), so also to a repeat of a message that is on disk and that a Retry after the restart runs |
| `receipts_exited`, `MCDeliveryReceipts` | `ExitedTargetIsRefused` | an exited target is `not-delivered`, `retry:true` (CONTRACT/http-api.md:2118) | it is recorded as `unknown` |
| `receipts_resend`, `MCDeliveryReceipts` | `NeverTowardsResend` | no receipt ever moves toward looking safe to resend (CONTRACT/http-api.md:2267) | a receipt read while its submit runs says `unknown`, and may say `not-delivered` a moment later |
| `session_retired`, `MCSessionLifecycle` | `LiveIsNotRetired` | "A filesystem-only orphan signal cannot override the daemon's current ownership of a live session" (internal/session/manager_discovery.go:99-100) | the check is made when a launch file is found suspect, and not at all for a socket nothing answers behind; the retirement at the end of the pass (:206) does not look again, and boots out a session that was created or woken meanwhile |
| `channel_ended`, `MCRunnerChannel` | `EndedRunnerReplays` | the grace exists so that a daemon that reconnects can replay (cmd/sessions-runner/main.go:658-660) | the daemon closes the connection on the EXIT that greets it (internal/proto/client.go:379), before its replay |
| `ledger_memory`, `MCLaneLedger` | `MemoryIsTheQuery` | "when the remembered value is not newer than the event being appended, it is that answer" (internal/ledger/store.go:118-123) | the memory is brought up to date after the insert has committed (:820), and not at all when the file's mode cannot be set (:816), so it may lag behind the table without another process; nothing is lost by it (`ActivityNotLost`) |
| `creation_never_ready`, `MCSessionCreation` | `NeverReadyIsTrue` | "never reported ready; inspect the recorded runner" (internal/session/manager_provenance.go:650) | the registry is read (:644) before the launches under way (:647): a session that is registered in between is in neither answer |

None of the thirteen by itself delivers a message of a sender twice or loses one; `queue_retry_race` runs the input
of a turn twice. A sender who believes the answer of `queue_stop_refusal` sends again under another id: then
the message runs twice.

### 3.3 Bounds

* Queue: 2 messages, `QueueLimit` 2, `ReceiptLimit` 1, `RetryMax` 1, 2 lives.
  Two messages give one that runs, failed or waits and one that is behind it; the
  limit is reached with both pending; one receipt of each kind makes the second
  one evict the first; one retry is both the first and the last; a second life
  sees everything a crash can leave. `MaxLives` is the only bound on behaviour: the last life does not end.
  `queue_crash` has transient faults and no composer, `queue_composer` the composer,
  terminal faults and one life; the proofs have neither separation nor bound.
* Receipts: 2 operations with `LateLimit` 1, so that a late answer is replaced and evicted. There is no
  bound on losses, reconnections or restarts. Bounds of the model itself: one POST
  per operation waits for the gate, and one reader at a time confirms. More of
  either repeats a step that has already no effect (`Begin` of a pending receipt,
  `ConfirmAccepted` of a settled one).
* Session: 2 connections, 2 runner starts, 2 boots, 2 daemons. Two connections are
  the entry and one that is about to replace it; a second start is the runner launchd starts
  after a crash or a reboot; a second boot sees an old permit, a second daemon everything the first may leave.
  `Pinned` FALSE leaves sessions that a boot restores to the proofs, `KillsAgain` FALSE a
  second kill, `ReapResults` {TRUE} a bootout that fails: with them the instance is too
  large for TLC, and the proofs cover all values. `session_adopted` has one boot.
* Channel: 3 outputs, 3 dials, `Outbox` 2, `Slots` 3: one output before, one in and one after a replay, a full
  outbox and a full stream, and a client that leaves, comes back and leaves again while timers are under way. When the runner is gone
  and the dials are used up nothing happens any more: `CHECK_DEADLOCK FALSE`.
* Ledger: 2 lanes, 2 workers, 3 rows, `EntryLimit` 1 (a second lane empties the memory),
  activity at 1 and 3 with `Window` 2, so that two are a window apart and two are
  together; the other writers kill the first lane on behalf of two people, with dates against the order,
  lose it, attach it and reopen it. Symmetry of the workers.
* Creation: 2 callers, 1 operation, 2 works, 2 sessions; callers ask while the table has fewer than 2
  rows and others append to an empty one, so with the creation and its launch facts it grows to 6 or so. One operation is where two requests
  collide; requests without an operation id, and more of everything, are in the proofs.
* Symmetry over messages, operations, connections or workers is used only for safety.

### 3.4 Fairness

Queue: goroutines that hold or wait for `queueMu` go on (Go schedules them, and
every critical section ends), and Claude is assumed to end its turn. People,
timers, retries, faults, crashes and restarts owe nothing. Receipts: a handler goes on, and
the ten-second timer (internal/proto/message.go:77) ends every wait, so weak
fairness. The gate is a channel with one token; Go serves its waiters first in,
first out, so each waiting handler gets it: strong fairness of `Begin(m)`. The
runner, the network and the daemon's restarts owe nothing.

Session: the discovery loop and the armed reconnect timer start over and over
(manager_discovery.go:22-63, manager_runtime.go:841-846), a runner that serves answers the discovery loop's
dial in the end (strong fairness of `DiscoverDials`: a dial may fail, but not every time; without it `ServingIsAdopted` is false), what the daemon has begun it goes on
with, launchd keeps a loaded job running while its permit exists (its `KeepAlive` condition), a
started runner gets on with it, and a stopped daemon is started again (it is a launchd job itself). Nobody has to create, wake or
kill, and nothing has to fail. Channel: goroutines go on and timers fire; the provider need not end, the
daemon need not dial, nothing has to break. Creation: lookups and writes end; the
gate and the fold slot are channels, served first in, first out, so strong fairness of
each waiter; a launch owes nothing, since waiting for a socket is what must hold nobody up.
Ledger: only safety.

## 4. What is proved

Seven proof modules (and `NumberSets`, two lemmas) are checked to the last leaf, with no assumption but those the
modules state about their constants. The queue: the messages are finitely many, `NoText` is
not among them, message and raw texts are distinct, limits are positive naturals, writes are
`BOOLEAN`, faults transient or terminal. The receipts: `NoOperation` is no operation, a positive limit. The
session: `NoConn` is no connection, positive bounds, Boolean switches. The creation: `Nothing`
is none of the values. The ledger: a positive limit
and number of rows, dates above zero, facts and activities of lanes, `Nothing` no activity. The channel: natural
bounds, an outbox and a stream of at least one place. So the theorems hold for any number of messages, operations,
connections, callers, sessions, lives, boots, limits and losses, with the composer, timers,
crashes and failing writes all together.

| Module | Theorem | Property |
|---|---|---|
| `ClaudeTurnQueue_proofs` | `TypeCorrect` | `TypeOK`: no turn is ever one attempt too many |
| | `Invariance` | `IInv` of the queue |
| | `AcceptedSurvives` | `AcceptedIsDurable` |
| | `WaitingNeverRan` | `QueuedNeverRan` |
| | `OneLife` | `OneLifePerMessage` |
| | `RefusedIsSafeToResend` | `RefusedNeverRuns` |
| | `ActiveHasOneOwner` | `ActiveIsOwned` |
| | `ImplementsLine` | `LineSpec`, by step simulation |
| `QueueOutcomes_proofs` | `SavedIsShown` | `SavedIsVisible` |
| | `NothingIsLost` | `NothingLostSilently` |
| | `Resting` | `Rest` |
| | `FailedInputHolds` | `FailedInputPausesQueue` |
| | `NoneIsStranded` | `NoStrandedMessage` |
| | `OnlyTheComposerOvertakes` | an action property: `runner` is true or a composer's text runs |
| | `RunnerIsATurnWithoutComposer` | `RunnerBoundaryIsATurn`, if `RawTexts = {}` |
| | `AnsweredIsOver` | an action property: what was answered and let go of is never held or launched again |
| | `AnsweredIsReleased` | an action property: the turn that answers lets go |
| `DeliveryReceipts_proofs` | `ReceiptTypes` | `TypeOK`: late answers stay within their limit |
| | `Invariance` | `IInv` of the receipts |
| | `RefusedIsRetried` | `RetryIsSafe` |
| | `TakenOnce` | `AtMostOneRun` |
| | `AcceptedIsTrue` | `AcceptedWasTaken` |
| | `ImplementsPromise` | `PromiseSpec`, by step simulation |
| | `AcceptancesTraced` | `AckInv` of the receipts |
| | `AcceptanceIsKept` | `NoAcceptanceForgotten` |
| | `ResendIsItsHandlersNews` | an action property: from unknown to not-delivered only by the receipt's own handler |
| `SessionLifecycle_proofs` | `SessionTypeCorrect` | `TypeOK`: a connection is held from its dial until it is managed or refused |
| | `LossIsNotAnExitAlways` | `LossIsNotAnExit` |
| | `TombstoneBeforeKillAlways` | `TombstoneBeforeKill` |
| | `RestartIsAskedForAlways` | `RestartIsAskedFor` |
| | `LaunchNotLostAlways` | `LaunchNotLost` |
| | `EntryRefinement` | `EntryPromise`, by step simulation |
| | `ClearedStaysCleared` | an action property: a session without process, permit and marker stays so |
| | `ClosingPausedClears` | an action property: ending a paused session leaves it so |
| `SessionCreation_proofs` | `CreationInvariant` | `CreationInv` |
| | `CreationTypeCorrect` | `TypeOK`: gate and fold slot are held exactly where they are needed |
| | `OneSessionAlways` | `OneSessionPerOperation`, which `CreationPromise` says of the sender's view |
| | `LookupIsCurrentAlways` | `LookupIsCurrent` |
| | `AnswersInvariant` | `AnswersInv` |
| | `AnswersAreTrueAlways` | `AnswersAreTrue` |
| | `LaunchUnderWayIsSaidAlways` | `LaunchUnderWayIsSaid` |
| | `CreationKeepsItsPromise` | `CreationPromise`, by step simulation |
| `RunnerChannel_proofs` | `ChannelInvariant` | `ChannelInv` |
| | `ChannelTypeCorrect` | `TypeOK`: a stream never exceeds its slots |
| | `EndIsToldAlways` | `EndIsTold` |
| | `HoleInvariant` | `HoleInv` |
| | `NoSilentHoleAlways` | `NoSilentHole` |
| | `LiveOutputIsNewAlways` | an action property: the pump adds only what is above everything there |
| `LaneLedger_proofs` | `MemoryIsTrue` | `RecordingInv` |
| | `ActivityIsKept` | `ActivityNotLost` |
| | `PublishedIsFold` | `ReadingInv`: the projection and every read under way |
| | `ProjectionIsTheFold` | `ProjectionIsFold` |
| | `TombstoneIsFinalAlways` | `TombstoneIsFinal` |
| | `LedgerTypeCorrect` | `TypeOK`: no read is ahead of the table, no worker holds what it may not |

**The queue's invariant.** `AcceptedIsDurable` alone is not inductive: a step
could drop an entry that was never claimed. `StoreOK` says that memory and disk
hold the same entries, that ids and places are unique, and that an entry waits
exactly while it was never claimed; `Trim` therefore never drops an unclaimed one
(the lemma about `Trim`). `SendersOK` ties what the sender knows to the file: who
may still submit is unknown to it. `TurnsOK` says that whatever a turn, the retry
controller or a goroutine on its way to a turn holds was claimed by this very
process, which is why no second life runs it: after a crash nothing volatile is
left. `ImplementsLine` needs `PlacesInOrder`: a new entry's place is above every
place in the file.

**What becomes of a message**, in `QueueOutcomes_proofs`, on top of `IInv` and `OneOwner`. `Telling`:
a message that was claimed and whose end is not told is dispatched on disk, where the next process
finds it, and in this process it is the current input of an unfinished turn, unless the process is
stopping (an interrupt is not told then). A reservation is made only when none is
left, so the next claim replaces nothing untold, and `Trim` spares the current entry. `Visibility`: only the
message the lock is held for may be saved and not shown. `Rest`: while nothing runs, a kept
failed input means a pause, and an admission under way read that pause and will write
it back; whoever holds the lock to claim looks at the queue again, so only the states in which it
is free, or held by an admission, must have nothing waiting.

**After the answer.** `LetGo(m)` says that Claude answered the message and that neither turn, retry controller nor a
goroutine between the controller and `queueMu` holds its text. It is kept by every action because an answered
message was claimed (`AnsweredWasClaimed`), so no claim finds it waiting, and because a retry is armed only by a turn
that failed; `SuccessKeepsNothing` is what the end of an answered turn leaves. For the boundary, `Served` says that while
the lock serves a message whose sender is to hear `runner`, nothing else is queued, the queue is not paused, and a turn that runs
all the same is the composer's: the claim then takes that message, or waits behind the raw text.

**The receipts' invariant.** The heart is `OneRequest`: at most one request of an
operation is on its way, and then it was not taken, nothing answered it, and its
receipt is pending or unknown. `Traceless` says that a receipt that may be
executed again has left nothing behind, so a new request is again the only one.
`AnswersOK` says that every answer in a stream, a channel or among the late ones
is true of that request, and that a reader about to confirm holds a true
acceptance. `HandlerOK` and `FreshChannel` fix which stage may own a waiter and an
answer. `RetryIsSafe` follows because a refusal is an answer to the only request.

**Where an acceptance is.** `NoAcceptanceForgotten` speaks of unknown receipts only
and is not inductive. `AckInv`, proved on top of `IInv`, follows every accepted
answer from the moment it is read: it is in the channel of the handler that waits on
this connection (`InChannel`), among the late answers or evicted by newer ones
(`Kept`), or the receipt is settled or stays pending for good (`Settled`). It is the only answer
its operation will get, so no other replaces it. `WaitersAreOurs` says that a handler
left over from a replaced connection has no waiter: its answer is not kept by the new
one, and no accepted answer is put into its channel.

**The session's invariant**, `SessionInv`, has one part per question. `LossInv` follows an exit
from the runner that says it through the connection to the ledger. `RestartInv` bounds the
permit: it is never of a later boot, and this boot's only if somebody asked. `KillInv` puts the
tombstone before whatever a kill does. `EntryInv` keeps each connection in one pair
of hands and out of the registry until it is registered, so that closing a replaced or refused
one never closes the entry; it carries `EntryRefinement`. `LaunchInv` is the hardest: while this
daemon tracks a launch, no timer, wake, kill or observer is at work on the session, and a
discovery pass can at most retire the files of a runner that has left. It needs
`FreshInv` (before its creation is recorded a session has nothing at all), because a pass that
began before the creation may still be under way. `DownIsBounded` is about the model's own bound.

**The creation's invariant**, `CreationInv`. `LookupIsCurrent` is about a request that holds
the gate; what makes it true is `Snapshots`: the cache's mark is never above what it folded, and
while a request holds the gate no creation is recorded after its mark or its fold, so that a
cached answer under an equal mark is complete. `Current` carries the result to the write,
`Unrepeated` is what the write then keeps. `InHand` and `OwnAlone` say that a
session id is in one request's hands only; with them `LaunchedOnce` gives at most one launch,
after its record. `TypeOK` contains who holds the gate and the fold slot.

**What callers are told**, `AnswersInv`, on top of `CreationInv`. An answer is true when it is given; the work is that
it stays so. `HeldAt` ties a request to the record it made or found, tracks its session from
before the record until it is managed, and has it launched once where the stage says so. `TrueAt` is what the
answer claims, and `Apart` that nobody has in hand a session that somebody was told is his, was refused, or was told never
came up: such a session can therefore not be launched afterwards. For `LaunchUnderWayIsSaid` the point is that
a session whose creation can be read is tracked already, so a caller that finds the record and no
tracked launch finds a launch that is over.

**What an operation id promises.** `CreationKeepsItsPromise` puts the two together. A recorded creation is a new session
by `HeldAt` and for a new operation by `Current`; a launch is a first one of a recorded session by `LaunchedOnce`; and what
`TrueAt` says of an answer is the guard of `Hand`. A write that commits and is reported as failed makes a
session and answers in one step: the promise sees the first alone, because whoever is being served
holds nothing (`Asked`).

**The channel's invariant**, `ChannelInv`, is the types and `EndIsTold`, which is inductive with
them. The point is `StopsLast`: a reader stops once, no terminal event is in the stream
before, and a full stream gives up its oldest event and no terminal one. `EndsLast` then lets the
pump take everything before the end and the end once. That an exit is never made up
(`ExitIsTrue`) follows the frame from the broadcast, which a full outbox may cut short, through the
wire and the stream. The type of `nextSeq` rests on `Greatest`: the highest of the numbers a replay
brought is one of them.

**No hole at the boundary**, `HoleInv`, on top of `ChannelInv`. `NoSilentHole` speaks of a session that has its
replay; what makes it true happens earlier, on the wire. `Live(d, n)` says that from place d on
the wire continues the outputs at n + 1, without a gap, to the last one there is if it is not cut.
`UnderReplay` distinguishes three wires: the runner has not replayed yet (`BeforeReplay`), an exit is
ahead of the end of the replay and will end it (`ExitComesFirst`), or the end of the replay is
on the wire (`ReplayOnWire(d, r)`): ahead of it are live outputs from before it and the rest of 1 to r, behind
it what follows r. There the numbers begin again below the current one, so `current` tells nothing
until the end is read; then the request has exactly 1 to `current` (`Complete`), and the session that takes
it keeps `Attached`: what it lacks up to `current` is in its stream, in order. A connection that is cut is no exception, since a
replay may be complete before the loss is read: shortening the wire from its end keeps every part. What is
lost on the daemon's side is what `short` and `dropped` record. `ExitInv` adds that whoever is told of the exit has come
to the runner's last output, although the exit carries no number.

**The ledger's invariant**, `RecordingInv`. `ActivityNotLost` speaks of the worker whose recording
has just returned and says nothing of the memory it decided by. `MemoryIsTold` adds that a
date the memory has of a lane is the date of a row, and `CallsAreTold` the same of what a
query found or an insert wrote, from the decision until the return. Neither says
that the memory is the newest: it may lag behind the table or be emptied, and
the theorem holds all the same. The query returns the greatest date there is; that a finite
set of dates has one (`Greatest`) is taken from the well-founded order of finite
sets by strict inclusion.

**The fold of the ledger**, `ReadingInv`. `ProjectionIsFold` is about what is published; a read that is under
way has already changed lanes that nobody sees. So the invariant says of a read that its changes, laid
over what the last read left (`Overlaid`), are the fold of the rows up to where it has come, and that
those rows never change, because the table only grows. One row more is one fact more on its lane
and nothing on any other (`FoldAppends`). That a fold has the value one expects of it is an
induction, which the library's theorems offer only with an operator as a parameter; `SetInduction` in `NumberSets`
states it for a set of numbers instead, from the well-founded order of the numbers, and the proofs
apply it to the set of the lengths for which the claim holds (`RunExists`, `RunIsOne`, `FoldUntouched`, `FoldIsSound`). For
`TombstoneIsFinal` the claim is `Sound`, which the fold of every table has; that no fact
of any kind or date takes the end back from a lane that is `Sound` and was killed is `EndIsFinal`, and `EndStays` carries it
over the rows that are appended later. The limit of the memory (`BoundsInv`) holds because an insert
into a full memory empties it first, whatever it was when its worker decided.

`NextTurnLine`, `DeliveryPromise`, `SessionEntry` and `StartPromise` are the abstract specifications; each
refinement is proved as well as model-checked.

## 5. What is only checked, and what is not modelled

Only model-checked: the liveness properties (`SavedMovesOrPauses`, `EverySubmitIsAnswered`,
`ServingIsAdopted`, `EndedRunnerLeaves`, `WaitersMoveOn`), because the prover handles neither
fairness nor `ENABLED`, and the violations of section 3.2, which are behaviours (the theorems that bound them are named there). Every invariant,
action property and refinement of the passing runs is proved.

Not modelled: the components marked – above, with the reason of each in
`PROJECT.json`. Within the modelled ones: queue sizes in bytes and continuation
files, approvals, provider conversation ids, the transcript intent of a terminal
submit, idle-compaction operations, MODEL and RETRY control frames of the
connection (they carry no request id, and no document promises a correlation), input,
resize and snapshots of a terminal, moves, renames, tags, archives and the kill of a
tree, working and idle states, the takeover of a conversation, the launchers of
platforms without launchd, ledger rows of migration, retention, worktrees and messages.
Disk writes are atomic renames (as the code makes
them) and survive a process crash; loss of power is not modelled.

## 6. The plan

In this order; the most important behaviour first.

1. `ClaudeTurnQueue`, `NextTurnLine` and their proofs — done.
2. `DeliveryReceipts`, `DeliveryPromise` and their proofs — done.
3. `SessionLifecycle`, `SessionEntry` and their proofs — done.
4. `SessionCreation`, `StartPromise` and their proofs — done.
5. `LaneLedger`, `LaneFold`, `RunnerChannel` and their proofs — done.
6. `TerminalSubmit`: paste, settle, Enter, and confirmation by the transcript
   (internal/api/legacy_submit.go); the first prompt of a start request with its receipt
   (internal/api/start_receipts.go), on top of `DeliveryReceipts` and `SessionCreation`.
7. `SharedMetadata`: two writers of one document and the lock file (internal/state/paths.go,
   internal/filelock); the bounded window of structured events and its replay.
8. Adoption of a conversation by one live session (internal/recovery), the Codex runner's turns.
9. Pure algorithms against reference definitions (wait conditions, activity
   classification), idle compaction, pairing tickets, the two ledger records of a migration.

Bounds of what is left: two sessions or writers, one crash of each process and one loss, which
is enough for every pair of actors to interleave. The violation runs of section 3.2 stay as long as the code and
its documents disagree.
