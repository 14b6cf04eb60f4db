--------------------------- MODULE ClaudeTurnQueue ---------------------------
(***************************************************************************)
(* The structured Claude runner: one process per session that saves the    *)
(* messages sent to it in a durable next-turn queue and gives them to      *)
(* Claude one turn at a time.  Its actors are the goroutines that answer   *)
(* MESSAGE_REQ, INPUT, RETRY_REQ and RETRY_STOP frames, the goroutine of   *)
(* the turn, the backoff timer of the retry controller, and the host that  *)
(* stops, kills and restarts the process.                                  *)
(*                                                                         *)
(* Two locks order them.  queueMu (here: lock) is held over the disk       *)
(* writes; mu guards only the flag active and the turn's cancel function,  *)
(* and the raw INPUT path takes it without queueMu.  An action here is     *)
(* what one goroutine does between two points where another may run.       *)
(***************************************************************************)
EXTENDS Naturals, FiniteSets

CONSTANTS Messages,      \* operation ids of semantic messages, each with its own text
          RawTexts,      \* texts entered through the raw INPUT composer
          NoText,        \* no message, no text
          QueueLimit,    \* claudeQueueLimit
          ReceiptLimit,  \* claudeQueueReceiptLimit
          RetryMax,      \* structuredRetryMax
          FaultKinds,    \* how a provider fault is classified
          WriteResults,  \* whether a queue write succeeds (TRUE) or fails
          MaxLives       \* bound: starts of the runner process

ASSUME FiniteAssumption  == IsFiniteSet(Messages)
ASSUME NoTextAssumption  == NoText \notin Messages \cup RawTexts
ASSUME TextsAssumption   == Messages \cap RawTexts = {}
ASSUME LimitsAssumption  == /\ QueueLimit \in Nat \ {0}
                            /\ ReceiptLimit \in Nat \ {0}
                            /\ RetryMax \in Nat \ {0}
                            /\ MaxLives \in Nat \ {0}
ASSUME FaultsAssumption  == FaultKinds \subseteq {"transient", "terminal"}
ASSUME WritesAssumption  == WriteResults \subseteq BOOLEAN

VARIABLES
    up,        \* ctx: "up", "stopping" (cancelled) or "down" (no process)
    life,      \* how many times the process has been started
    disk,      \* the queue file: [paused, items]
    queue,     \* r.queue: the same in memory
    current,   \* r.queueCurrent: the entry whose turn runs or may be retried
    active,    \* r.active
    turn,      \* the goroutine in runTurn, or NoTurn
    retry,     \* the retry controller
    caller,    \* goroutines between the retry controller and queueMu
    lock,      \* the holder of queueMu and what it does next
    reply,     \* what the sender of each message was last told
    recorded,  \* messages whose text is in the history sidecar
    told,      \* messages whose end, or unknown end, is in the sidecar
    handed,    \* ghost: the life in which a message was claimed, or 0
    launched,  \* ghost: the lives in which Claude was started with it
    answered   \* ghost: messages Claude has answered successfully

volatile == <<queue, current, active, turn, retry, caller, lock>>
history  == <<recorded, told>>
ghosts   == <<handed, launched, answered>>
vars     == <<up, life, disk, volatile, reply, history, ghosts>>

Texts == Messages \cup RawTexts
Phases == {"queued", "dispatched", "done"}
Boundaries == {"runner", "queue"}
Outcomes == {"unresolved", "answered", "answeredThenErrored"}

(* The list r.queue.Items as a set: at is the place an entry was appended  *)
(* at, counted over every message admitted so far.                         *)
Items == [id : Messages, phase : Phases, boundary : Boundaries, at : Nat]
Queues == [paused : BOOLEAN, items : SUBSET Items]

NoTurn == [text |-> NoText, id |-> NoText, attempt |-> 0, stage |-> "none",
           cancelled |-> FALSE, result |-> "none", outcome |-> "unresolved"]
Spawned(text, id, attempt) ==
    [NoTurn EXCEPT !.text = text, !.id = id, !.attempt = attempt, !.stage = "spawned"]

Idle  == [op |-> "idle", text |-> NoText, attempt |-> 0]
Free  == [op |-> "free", msg |-> NoText, boundary |-> "runner", paused |-> FALSE, resume |-> FALSE]
Clear == [input |-> NoText, sched |-> FALSE, timer |-> FALSE, attempt |-> 0, suppressed |-> FALSE]

-----------------------------------------------------------------------------
(* The queue's own operators.                                              *)

Ids(q)    == {it.id : it \in q.items}
Queued(q) == {it \in q.items : it.phase = "queued"}
Newest(items) == CHOOSE it \in items : \A other \in items : it.at >= other.at
Oldest(items) == CHOOSE it \in items : \A other \in items : it.at <= other.at
Admitted  == Ids(queue) \cup {m \in Messages : handed[m] # 0}

(* queueReceiptOnly: never sent again, so kept only to recognise its id.   *)
ReceiptOnly(it, cur) == it.phase = "done" \/ (it.phase = "dispatched" /\ it.id # cur)
Pending(items, cur)  == {it \in items : ~ReceiptOnly(it, cur)}

(* trimClaudeQueueReceipts: the newest ReceiptLimit receipts of each kind  *)
(* stay, with everything pending.                                          *)
Trim(items, cur) ==
    {it \in items :
        ReceiptOnly(it, cur) =>
            Cardinality({other \in items : /\ ReceiptOnly(other, cur)
                                           /\ other.phase = it.phase
                                           /\ other.at >= it.at}) <= ReceiptLimit}

(* queuePauseHoldsWork                                                     *)
UnsentWorkOnly == Queued(queue) # {}
PauseHoldsWork == Queued(queue) # {} \/ retry.input # NoText

(* writeClaudeQueue replaces the file by rename: all of it or none.        *)
WrittenToMemory(q) == queue' = q /\ UNCHANGED disk
Written(q) == disk' = q /\ queue' = q

-----------------------------------------------------------------------------
(* structured_retry.go: each of these is one critical section of c.mu.     *)

RetryInterrupt == [retry EXCEPT !.sched = FALSE, !.timer = FALSE,
                                !.attempt = 0, !.suppressed = TRUE]
RetryReplaced  == Clear
RetrySucceeded == Clear
RetryClosed    == [retry EXCEPT !.sched = FALSE, !.timer = FALSE, !.attempt = 0]
RetryStopped   == [RetryClosed EXCEPT !.suppressed = TRUE]

(* retryDelay: which faults are retried, and how often                     *)
OneTooMany(attempt, kind) == kind = "transient" /\ attempt <= RetryMax
MayRetry(attempt, kind) == kind = "transient" /\ attempt < RetryMax

(* Failed: a transient fault with attempts left arms the backoff timer,    *)
(* unless the schedule was stopped or interrupted.                         *)
RetryFailed(text, attempt, kind) ==
    IF MayRetry(attempt, kind) /\ ~retry.suppressed
    THEN [input |-> text, sched |-> TRUE, timer |-> TRUE,
          attempt |-> attempt + 1, suppressed |-> FALSE]
    ELSE [RetryClosed EXCEPT !.input = text]

-----------------------------------------------------------------------------
(* claimQueuedTurnLocked, entered with queueMu held.  The active flag is   *)
(* reserved first; the disk write then runs without mu.                    *)

Claiming(msg, boundary, resume) ==
    [Free EXCEPT !.op = "claim", !.msg = msg, !.boundary = boundary, !.resume = resume]

SavedToldRefused(msg, answer) ==
    IF msg = NoText THEN reply
    ELSE [reply EXCEPT ![msg] = IF answer = "queue" THEN "refused" ELSE answer]
Told(msg, answer) == IF msg = NoText THEN reply ELSE [reply EXCEPT ![msg] = answer]

ClaimRefused ==
    /\ up # "down"
    /\ lock.op = "claim"
    /\ active \/ up # "up" \/ (queue.paused /\ ~lock.resume)
    /\ lock' = Free
    /\ reply' = Told(lock.msg, lock.boundary)
    /\ recorded' = recorded \cup ({lock.msg} \cap Messages)
    /\ UNCHANGED <<up, life, disk, queue, current, active, turn, retry, caller, told, ghosts>>

ClaimReserve ==
    /\ up = "up"
    /\ lock.op = "claim"
    /\ ~active
    /\ ~queue.paused \/ lock.resume
    /\ active' = TRUE
    /\ lock' = [lock EXCEPT !.op = "reserved"]
    /\ recorded' = recorded \cup ({lock.msg} \cap Messages)
    /\ UNCHANGED <<up, life, disk, queue, current, turn, retry, caller, reply, told, ghosts>>

ClaimNothingKeepsActive ==
    /\ up # "down"
    /\ lock.op = "reserved"
    /\ Queued(queue) = {}
    /\ lock' = Free
    /\ reply' = Told(lock.msg, lock.boundary)
    /\ UNCHANGED <<up, life, disk, queue, current, active, turn, retry, caller, history, ghosts>>

ClaimNothing ==
    /\ up # "down"
    /\ lock.op = "reserved"
    /\ Queued(queue) = {}
    /\ active' = FALSE
    /\ lock' = Free
    /\ reply' = Told(lock.msg, lock.boundary)
    /\ UNCHANGED <<up, life, disk, queue, current, turn, retry, caller, history, ghosts>>

DispatchedLater(it) == [queue EXCEPT !.paused = FALSE]
DispatchedNow(it) ==
    [paused |-> FALSE,
     items  |-> (queue.items \ {it}) \cup {[it EXCEPT !.phase = "dispatched"]}]

ClaimCommit ==
    /\ up # "down"
    /\ lock.op = "reserved"
    /\ Queued(queue) # {}
    /\ TRUE \in WriteResults
    /\ LET it == Oldest(Queued(queue)) IN
          /\ Written(DispatchedNow(it))
          /\ current' = it.id
          /\ turn' = Spawned(it.id, it.id, 0)
          /\ handed' = [handed EXCEPT ![it.id] = life]
    /\ retry' = RetryReplaced
    /\ lock' = Free
    /\ reply' = Told(lock.msg, lock.boundary)
    /\ UNCHANGED <<up, life, active, caller, history, launched, answered>>

ClaimWriteFails ==
    /\ up # "down"
    /\ lock.op = "reserved"
    /\ Queued(queue) # {}
    /\ FALSE \in WriteResults
    /\ queue' = [queue EXCEPT !.paused = TRUE]
    /\ active' = FALSE
    /\ lock' = Free
    /\ reply' = Told(lock.msg, "queue")
    /\ UNCHANGED <<up, life, disk, current, turn, retry, caller, history, ghosts>>

Claim == ClaimRefused \/ ClaimReserve \/ ClaimNothing \/ ClaimCommit \/ ClaimWriteFails

-----------------------------------------------------------------------------
(* admitClaudeMessage.  A sender sends anew only what it was told is not   *)
(* queued; anyone may ask again about an id the queue still holds.  Bound: *)
(* nobody asks about an id the queue holds no more.                        *)

MaySubmit(m) == /\ up # "down"
                /\ lock = Free
                /\ reply[m] \in {"none", "refused"}

AdmitRefused(m) ==
    /\ MaySubmit(m)
    /\ \/ up = "stopping"
       \/ m \notin Ids(queue) /\ Cardinality(Pending(queue.items, current)) >= QueueLimit
    /\ reply' = [reply EXCEPT ![m] = "refused"]
    /\ UNCHANGED <<up, life, disk, volatile, history, ghosts>>

(* A stopping runner says "This message was not queued" before it looks    *)
(* the id up, so also to a repeat of a message it holds.                   *)
RepeatRefused(m) ==
    /\ up = "stopping"
    /\ lock = Free
    /\ m \in Ids(queue)
    /\ reply' = [reply EXCEPT ![m] = "stopping"]
    /\ UNCHANGED <<up, life, disk, volatile, history, ghosts>>

AdmitDuplicate(m) ==
    /\ up = "up"
    /\ lock = Free
    /\ \E it \in queue.items :
          /\ it.id = m
          /\ reply' = [reply EXCEPT ![m] = IF it.phase = "queued" THEN "queue" ELSE it.boundary]
    /\ UNCHANGED <<up, life, disk, volatile, history, ghosts>>

BoundaryFor(paused) == IF active \/ paused THEN "queue" ELSE "runner"

(* The snapshot of active and of the pause, from which the boundary the    *)
(* sender will be told is decided.                                         *)
AdmitBegin(m) ==
    /\ MaySubmit(m)
    /\ up = "up"
    /\ m \notin Ids(queue)
    /\ Cardinality(Pending(queue.items, current)) < QueueLimit
    /\ LET paused == queue.paused /\ PauseHoldsWork IN
          lock' = [Free EXCEPT !.op = "admit", !.msg = m, !.paused = paused,
                               !.boundary = BoundaryFor(paused)]
    /\ reply' = [reply EXCEPT ![m] = "pending"]
    /\ UNCHANGED <<up, life, disk, queue, current, active, turn, retry, caller, history, ghosts>>

Saved ==
    [paused |-> lock.paused,
     items  |-> Trim(queue.items, current) \cup
                   {[id |-> lock.msg, phase |-> "queued", boundary |-> lock.boundary,
                     at |-> Cardinality(Admitted)]}]

AdmitCommit ==
    /\ up # "down"
    /\ lock.op = "admit"
    /\ TRUE \in WriteResults
    /\ Written(Saved)
    /\ lock' = Claiming(lock.msg, lock.boundary, FALSE)
    /\ UNCHANGED <<up, life, current, active, turn, retry, caller, reply, history, ghosts>>

AdmitWriteFails ==
    /\ up # "down"
    /\ lock.op = "admit"
    /\ FALSE \in WriteResults
    /\ lock' = Free
    /\ reply' = [reply EXCEPT ![lock.msg] = "refused"]
    /\ UNCHANGED <<up, life, disk, queue, current, active, turn, retry, caller, history, ghosts>>

Admit == \/ \E m \in Messages : \/ AdmitRefused(m) \/ RepeatRefused(m)
                                 \/ AdmitDuplicate(m) \/ AdmitBegin(m)
         \/ AdmitCommit
         \/ AdmitWriteFails

-----------------------------------------------------------------------------
(* handleInput: raw terminal input.  It takes mu and never queueMu.        *)

Cancellable == turn.stage \in {"ready", "streaming"}

Interrupt ==
    /\ up # "down"
    /\ retry' = RetryInterrupt
    /\ turn' = IF Cancellable THEN [turn EXCEPT !.cancelled = TRUE] ELSE turn
    /\ UNCHANGED <<up, life, disk, queue, current, active, caller, lock, reply, history, ghosts>>

(* Text without Enter, or Enter while a turn is active (which is rejected  *)
(* with a notice): either way the automatic retry is cancelled.            *)
Keystroke ==
    /\ up # "down"
    /\ RawTexts # {}
    /\ retry' = RetryInterrupt
    /\ UNCHANGED <<up, life, disk, queue, current, active, turn, caller, lock, reply, history, ghosts>>

Enter(y) ==
    /\ up # "down"
    /\ ~active
    /\ active' = TRUE
    /\ retry' = RetryReplaced
    /\ turn' = Spawned(y, NoText, 0)
    /\ UNCHANGED <<up, life, disk, queue, current, caller, lock, reply, history, ghosts>>

Input == Interrupt \/ Keystroke \/ \E y \in RawTexts : Enter(y)

-----------------------------------------------------------------------------
(* handleRetryControl, fire, RunNow and startRetryTurn.  Between the retry *)
(* controller's critical section and queueMu the goroutine holds no lock.  *)

Running(text, attempt) == [op |-> "run", text |-> text, attempt |-> attempt]

(* A Retry is refused while a turn is active; the answer may be stale by   *)
(* the time the controller is asked what there is to retry.                *)
RetryRequest ==
    /\ up # "down"
    /\ caller["user"] = Idle
    /\ ~active
    /\ caller' = [caller EXCEPT !["user"].op = "asked"]
    /\ UNCHANGED <<up, life, disk, queue, current, active, turn, retry, lock, reply, history, ghosts>>

RunNow ==
    /\ up # "down"
    /\ caller["user"].op = "asked"
    /\ LET attempt == IF retry.sched THEN retry.attempt ELSE 1 IN
       IF retry.input # NoText
       THEN /\ retry' = [retry EXCEPT !.sched = TRUE, !.timer = FALSE, !.attempt = attempt]
            /\ caller' = [caller EXCEPT !["user"] = Running(retry.input, attempt)]
       ELSE /\ caller' = [caller EXCEPT !["user"].op = "resume"]
            /\ UNCHANGED retry
    /\ UNCHANGED <<up, life, disk, queue, current, active, turn, lock, reply, history, ghosts>>

RetryStop ==
    /\ up # "down"
    /\ retry.sched
    /\ retry' = RetryStopped
    /\ UNCHANGED <<up, life, disk, queue, current, active, turn, caller, lock, reply, history, ghosts>>

TimerFires ==
    /\ up # "down"
    /\ retry.timer
    /\ caller["timer"] = Idle    \* bound: one stalled timer goroutine
    /\ retry' = [retry EXCEPT !.timer = FALSE]
    /\ caller' = [caller EXCEPT !["timer"] = Running(retry.input, retry.attempt)]
    /\ UNCHANGED <<up, life, disk, queue, current, active, turn, lock, reply, history, ghosts>>

StartRetryTurn(c) ==
    /\ up # "down"
    /\ caller[c].op = "run"
    /\ lock = Free
    /\ caller' = [caller EXCEPT ![c] = Idle]
    /\ IF active \/ up # "up"
       THEN UNCHANGED <<active, turn>>
       ELSE /\ active' = TRUE
            /\ turn' = Spawned(caller[c].text, current, caller[c].attempt)
    /\ UNCHANGED <<up, life, disk, queue, current, retry, lock, reply, history, ghosts>>

ResumeQueue(c) ==
    /\ up # "down"
    /\ caller[c].op = "resume"
    /\ lock = Free
    /\ caller' = [caller EXCEPT ![c] = Idle]
    /\ lock' = Claiming(NoText, "runner", TRUE)
    /\ UNCHANGED <<up, life, disk, queue, current, active, turn, retry, reply, history, ghosts>>

Retry == \/ RetryRequest \/ RunNow \/ RetryStop \/ TimerFires
         \/ \E c \in {"timer", "user"} : StartRetryTurn(c)
         \/ ResumeQueue("user")

-----------------------------------------------------------------------------
(* runTurn and consumeTurn.  Stages: spawned (no cancel function yet),     *)
(* ready, streaming (Claude has the text), ended (waiting for queueMu).    *)

Cancelled == turn.cancelled \/ up = "stopping"
ToldOf(text) == told \cup ({text} \cap Messages)
End(outcome) == turn' = [turn EXCEPT !.stage = "ended", !.outcome = outcome]

(* A fresh turn records its text; a retry does not repeat the record.      *)
TurnBegin ==
    /\ up # "down"
    /\ turn.stage = "spawned"
    /\ turn' = [turn EXCEPT !.stage = "ready"]
    /\ recorded' = IF turn.attempt = 0 THEN recorded \cup ({turn.id} \cap Messages) ELSE recorded
    /\ UNCHANGED <<up, life, disk, queue, current, active, retry, caller, lock, reply, told, ghosts>>

TurnLaunch ==
    /\ up = "up"
    /\ turn.stage = "ready"
    /\ ~turn.cancelled
    /\ turn' = [turn EXCEPT !.stage = "streaming"]
    /\ launched' = [m \in Messages |-> IF m = turn.text THEN launched[m] \cup {life} ELSE launched[m]]
    /\ UNCHANGED <<up, life, disk, queue, current, active, retry, caller, lock, reply, history,
                   handed, answered>>

(* SendTurn fails: an interrupted start is recorded as interrupted, unless *)
(* the runner is stopping; any other is a failed turn kept for Retry.      *)
TurnLaunchFails ==
    /\ up # "down"
    /\ turn.stage = "ready"
    /\ End("unresolved")
    /\ \/ /\ Cancelled
          /\ told' = IF up = "up" THEN ToldOf(turn.text) ELSE told
          /\ UNCHANGED retry
       \/ /\ ~Cancelled
          /\ told' = ToldOf(turn.text)
          /\ \E kind \in FaultKinds : retry' = RetryFailed(turn.text, turn.attempt, kind)
    /\ UNCHANGED <<up, life, disk, queue, current, active, caller, lock, reply, recorded, ghosts>>

(* Claude's result event: success, or is_error with a classified fault.    *)
(* The process that wrote it may stay open.                                *)
TurnResult ==
    /\ up # "down"
    /\ turn.stage = "streaming"
    /\ turn.result = "none"
    /\ told' = ToldOf(turn.text)
    /\ \/ /\ turn' = [turn EXCEPT !.result = "success"]
          /\ answered' = answered \cup ({turn.text} \cap Messages)
          /\ UNCHANGED retry
       \/ /\ turn' = [turn EXCEPT !.result = "error"]
          /\ \E kind \in FaultKinds : retry' = RetryFailed(turn.text, turn.attempt, kind)
          /\ UNCHANGED answered
    /\ UNCHANGED <<up, life, disk, queue, current, active, caller, lock, reply, recorded,
                   handed, launched>>

(* The stream ended after the turn was cancelled.                          *)
TurnInterrupted ==
    /\ up # "down"
    /\ turn.stage = "streaming"
    /\ Cancelled
    /\ End("unresolved")
    /\ told' = IF up = "up" THEN ToldOf(turn.text) ELSE told
    /\ \/ turn.result = "success" /\ retry' = RetrySucceeded
       \/ turn.result = "error" /\ UNCHANGED retry
       \/ turn.result = "none" /\ retry' \in {retry, RetryInterrupt}
    /\ UNCHANGED <<up, life, disk, queue, current, active, caller, lock, reply, recorded, ghosts>>

(* The stream ended by itself: after a success with or without an error of *)
(* the process, after an error result, or with an error and no result.     *)
TurnEnds ==
    /\ up = "up"
    /\ turn.stage = "streaming"
    /\ ~turn.cancelled
    /\ \/ /\ turn.result = "success"
          /\ retry' = RetrySucceeded
          /\ End("answered") \/ End("answeredThenErrored")
          /\ UNCHANGED told
       \/ /\ turn.result = "error"
          /\ End("unresolved")
          /\ UNCHANGED <<retry, told>>
       \/ /\ turn.result = "none"
          /\ End("unresolved")
          /\ told' = ToldOf(turn.text)
          /\ \E kind \in FaultKinds : retry' = RetryFailed(turn.text, turn.attempt, kind)
    /\ UNCHANGED <<up, life, disk, queue, current, active, caller, lock, reply, recorded, ghosts>>

-----------------------------------------------------------------------------
(* settleClaudeTurn                                                        *)

Resolved == turn.outcome # "unresolved"

MarkDone(items) ==
    {IF it.id = turn.id /\ Resolved THEN [it EXCEPT !.phase = "done"] ELSE it : it \in items}

SettledUnpaused == [paused |-> turn.outcome = "answeredThenErrored",
                    items  |-> Trim(MarkDone(queue.items), current)]
SettledQueue == [paused |-> turn.outcome # "answered",
                 items  |-> Trim(MarkDone(queue.items), current)]

Settling == /\ up # "down"
            /\ turn.stage = "ended"
            /\ lock = Free

(* An empty queue is not written.                                          *)
SettleSaved ==
    /\ Settling
    /\ SettledQueue.items = {} \/ TRUE \in WriteResults
    /\ disk' = IF SettledQueue.items = {} THEN disk ELSE SettledQueue
    /\ queue' = SettledQueue
    /\ current' = IF Resolved THEN NoText ELSE current
    /\ active' = FALSE
    /\ turn' = NoTurn
    /\ lock' = IF turn.outcome = "answered" THEN Claiming(NoText, "runner", FALSE) ELSE Free
    /\ UNCHANGED <<up, life, retry, caller, reply, history, ghosts>>

SettleWriteFails ==
    /\ Settling
    /\ SettledQueue.items # {}
    /\ FALSE \in WriteResults
    /\ queue' = [queue EXCEPT !.paused = TRUE]
    /\ active' = FALSE
    /\ turn' = NoTurn
    /\ UNCHANGED <<up, life, disk, current, retry, caller, lock, reply, history, ghosts>>

Settle == SettleSaved \/ SettleWriteFails

Turn == TurnBegin \/ TurnLaunch \/ TurnLaunchFails \/ TurnResult \/ TurnInterrupted \/ TurnEnds \/ Settle

-----------------------------------------------------------------------------
(* The process: SIGTERM and Kill cancel the context; a crash does not.     *)
(* Bound: the last life of the process never ends.                         *)

Stop ==
    /\ up = "up"
    /\ life < MaxLives
    /\ up' = "stopping"
    /\ retry' = RetryClosed
    /\ UNCHANGED <<life, disk, queue, current, active, turn, caller, lock, reply, history, ghosts>>

Gone == [paused |-> FALSE, items |-> {}]

ProcessEnds ==
    /\ up = "stopping" \/ (up = "up" /\ life < MaxLives)
    /\ up' = "down"
    /\ queue' = Gone
    /\ current' = NoText
    /\ active' = FALSE
    /\ turn' = NoTurn
    /\ retry' = Clear
    /\ caller' = [c \in {"timer", "user"} |-> Idle]
    /\ lock' = Free
    /\ reply' = [m \in Messages |-> IF reply[m] = "pending" THEN "lost" ELSE reply[m]]
    /\ UNCHANGED <<life, disk, history, ghosts>>

(* loadMessageQueue: a queue that still holds an unsent message comes back *)
(* paused, and that pause is on disk before anything can be claimed; if it *)
(* cannot be written the process does not start.                           *)
LoadedForReplay ==
    [paused |-> TRUE, items |-> {[it EXCEPT !.phase = "queued"] : it \in disk.items}]
Loaded == [disk EXCEPT !.paused = @ \/ Queued(disk) # {}]

NoIds(items) == {}
UnsentIds(items) == {it.id : it \in {x \in items : x.phase = "queued"}}
NoUnknownIds(items) == {}
UnknownIds(items) == {it.id : it \in {x \in items : x.phase = "dispatched"}}

Restart ==
    /\ up = "down"
    /\ Queued(disk) = {} \/ TRUE \in WriteResults
    /\ up' = "up"
    /\ life' = life + 1
    /\ disk' = IF Queued(disk) = {} THEN disk ELSE Loaded
    /\ queue' = Loaded
    /\ recorded' = recorded \cup UnsentIds(disk.items)
    /\ told' = told \cup UnknownIds(disk.items)
    /\ UNCHANGED <<current, active, turn, retry, caller, lock, reply, ghosts>>

RestartFails ==
    /\ up = "down"
    /\ Queued(disk) # {}
    /\ FALSE \in WriteResults
    /\ recorded' = recorded \cup UnsentIds(disk.items)
    /\ told' = told \cup UnknownIds(disk.items)
    /\ UNCHANGED <<up, life, disk, volatile, reply, ghosts>>

Host == Stop \/ ProcessEnds \/ Restart \/ RestartFails

-----------------------------------------------------------------------------
Init ==
    /\ up = "up"
    /\ life = 1
    /\ disk = Gone
    /\ queue = Gone
    /\ current = NoText
    /\ active = FALSE
    /\ turn = NoTurn
    /\ retry = Clear
    /\ caller = [c \in {"timer", "user"} |-> Idle]
    /\ lock = Free
    /\ reply = [m \in Messages |-> "none"]
    /\ recorded = {}
    /\ told = {}
    /\ handed = [m \in Messages |-> 0]
    /\ launched = [m \in Messages |-> {}]
    /\ answered = {}

Next == Admit \/ Claim \/ Input \/ Retry \/ Turn \/ Host

Spec == Init /\ [][Next]_vars

(* The goroutines that hold or wait for queueMu keep running, and Claude's *)
(* process is assumed to end its turn; people, retries, faults and crashes *)
(* owe nothing.                                                            *)
Fairness ==
    /\ WF_vars(AdmitCommit \/ AdmitWriteFails)
    /\ WF_vars(Claim)
    /\ WF_vars(TurnBegin)
    /\ WF_vars(TurnLaunch \/ TurnLaunchFails)
    /\ WF_vars(TurnInterrupted \/ (TurnEnds /\ turn.result # "none") \/ TurnResult)
    /\ WF_vars(Settle)

FairSpec == Spec /\ Fairness

-----------------------------------------------------------------------------
(* Properties.                                                             *)

Accepted(m) == reply[m] \in {"runner", "queue"}

Attempts == 0..RetryMax
Turns   == [text : Texts \cup {NoText}, id : Messages \cup {NoText}, attempt : Attempts,
            stage : {"none", "spawned", "ready", "streaming", "ended"},
            cancelled : BOOLEAN, result : {"none", "success", "error"}, outcome : Outcomes]
Retries == [input : Texts \cup {NoText}, sched : BOOLEAN, timer : BOOLEAN,
            attempt : Attempts, suppressed : BOOLEAN]
Callers == [op : {"idle", "asked", "run", "resume"}, text : Texts \cup {NoText}, attempt : Attempts]
Locks   == {l \in [op : {"free", "admit", "claim", "reserved"}, msg : Messages \cup {NoText},
                   boundary : Boundaries, paused : BOOLEAN, resume : BOOLEAN] :
               l.op = "admit" => l.msg \in Messages}
Replies == {"none", "pending", "refused", "stopping", "lost"} \cup Boundaries

(* Every variable has its type; in particular no turn is a sixth attempt.  *)
TypeOK ==
    /\ up \in {"up", "stopping", "down"}
    /\ life \in Nat
    /\ disk \in Queues
    /\ queue \in Queues
    /\ current \in Messages \cup {NoText}
    /\ active \in BOOLEAN
    /\ turn \in Turns
    /\ retry \in Retries
    /\ caller \in [{"timer", "user"} -> Callers]
    /\ lock \in Locks
    /\ reply \in [Messages -> Replies]
    /\ recorded \subseteq Messages
    /\ told \subseteq Messages
    /\ handed \in [Messages -> Nat]
    /\ launched \in [Messages -> SUBSET Nat]
    /\ answered \subseteq Messages

(* The active flag is set exactly while a turn runs or a claim reserves    *)
(* one: it is never left set by a failed claim, a settle that could not    *)
(* write or a raw turn that overlapped a settle, which would refuse every  *)
(* later turn, and it is never cleared under a running turn, which would   *)
(* start a second one.                                                     *)
ActiveIsOwned == active = (turn # NoTurn \/ lock.op = "reserved")

(* A message the sender was told is accepted survives any crash: it is on  *)
(* disk, or its turn was already claimed.                                  *)
AcceptedIsDurable ==
    \A m \in Messages : Accepted(m) => m \in Ids(disk) \/ handed[m] # 0

(* What the disk would let a restart claim has never been given to Claude: *)
(* the dispatched phase is on disk before the provider is launched.        *)
QueuedNeverRan ==
    \A it \in Queued(disk) \cup Queued(queue) : handed[it.id] = 0 /\ launched[it.id] = {}

(* A message dispatched by one process is never run again by a later one.  *)
OneLifePerMessage ==
    \A m \in Messages : \A l1, l2 \in launched[m] : l1 = l2

(* A message that was not queued, because the queue was full, a write      *)
(* failed or the runner was stopping, stays out of the file and is never   *)
(* run until it is sent anew: the sender may resend without risking two    *)
(* deliveries.  A stopping runner tells a repeat the same whatever became  *)
(* of the message, and such an answer promises nothing.                    *)
RefusedNeverRuns ==
    \A m \in Messages : reply[m] = "refused" => m \notin Ids(disk) /\ launched[m] = {}

(* "This message was not queued" is true of every message that is told so  *)
(* (claude_queue.go:119).                                                  *)
NotQueuedIsTrue ==
    \A m \in Messages : reply[m] \in {"refused", "stopping"} => m \notin Ids(disk)

(* Nothing disappears silently: while the runner is up, every message ever *)
(* accepted or claimed is still saved, is the running turn, or has a       *)
(* record in the conversation of how its turn ended, or that nobody knows. *)
(* Like the next one this supposes that the conversation can be written: a *)
(* record that cannot be is logged and given up (claude_p.go:734-742).     *)
NothingLostSilently ==
    up = "up" =>
        \A m \in Messages :
            (Accepted(m) \/ handed[m] # 0) /\ m \notin {it.id : it \in Queued(queue)} /\ turn.text # m => m \in told

(* A saved message is in the conversation from the moment its admission    *)
(* is over, also when a crash cut the admission after its disk write.      *)
SavedIsVisible ==
    up = "up" => \A it \in Queued(queue) : it.id # lock.msg => it.id \in recorded

(* While a failed turn is kept for Retry and nothing runs, the queue is    *)
(* paused: a later message never overtakes the failed one by itself.       *)
FailedInputPausesQueue ==
    up = "up" /\ ~active /\ lock.op \in {"free", "claim"} /\ retry.input # NoText => queue.paused

(* No lost wakeup: an idle runner whose queue is not paused has nothing    *)
(* saved, so no message waits for a settle that already happened.          *)
NoStrandedMessage ==
    up = "up" /\ ~active /\ lock = Free /\ ~queue.paused => Queued(queue) = {}

(* What is saved in a running process is dispatched, all of it, or the     *)
(* queue gets paused and says so, or the process stops.  (Messages are     *)
(* finitely many here, and each is admitted once.)                         *)
SavedMovesOrPauses ==
    (up = "up" /\ Queued(queue) # {}) ~> (Queued(queue) = {} \/ queue.paused \/ up # "up")

(* The durable queue implements the line its senders are promised: the     *)
(* file, not the memory of one process, says who is waiting.               *)
Place(m) == LET own == {it \in Queued(disk) : it.id = m} IN
            IF own = {} THEN 0 ELSE (CHOOSE it \in own : TRUE).at
Fate(m) == IF handed[m] # 0 THEN "handed" ELSE IF m \in Ids(disk) THEN "saved" ELSE "new"
Line == INSTANCE NextTurnLine WITH fate  <- [m \in Messages |-> Fate(m)],
                                   place <- [m \in Messages |-> Place(m)]
LineSpec == Line!Spec

(* "done" entries are answered ones (claude_queue_history.go:20).          *)
DoneMeansAnswered == \A it \in disk.items : it.phase = "done" => it.id \in answered

(* "The message is answered and is never run again" (claude_queue.go:226). *)
AnsweredNeverRunAgain ==
    [][\A m \in Messages : m \in answered => launched'[m] = launched[m] /\ ~(turn.text # m /\ turn'.text = m)]_vars

(* A published retry schedule is acted on: while nothing runs or is about  *)
(* to, its timer is armed.                                                 *)
ScheduleIsLive ==
    up = "up" /\ retry.sched /\ turn = NoTurn /\ lock.op \in {"free", "admit"}
      /\ (\A c \in {"timer", "user"} : caller[c] = Idle) => retry.timer

(* boundary "runner" says that the runner accepted a new turn: by then the *)
(* message has been dispatched, not saved behind another turn.             *)
RunnerBoundaryIsATurn ==
    [][\A m \in Messages :
          up' = "up" /\ reply[m] = "pending" /\ reply'[m] = "runner" => handed'[m] # 0]_vars

-----------------------------------------------------------------------------
(* The inductive invariant behind the safety properties, part by part.     *)

Claimed == {m \in Messages : handed[m] # 0}

(* An operation id has one entry, and so has a place in the list.          *)
EntriesUnique == \A a, b \in disk.items : a.id = b.id \/ a.at = b.at => a = b

(* A running process holds exactly the entries that are on disk: a write   *)
(* that fails leaves both alone.                                           *)
MemoryMatchesDisk == up # "down" => queue.items = disk.items

(* An entry is waiting exactly while its message was never claimed.        *)
QueuedIffUnclaimed == \A it \in disk.items : it.phase = "queued" <=> handed[it.id] = 0

(* Places grow with every admission, so the order of places is the order   *)
(* of admission.                                                           *)
PlacesInOrder == \A it \in disk.items : it.at < Cardinality(Ids(disk) \cup Claimed)

StoreOK == EntriesUnique /\ MemoryMatchesDisk /\ QueuedIffUnclaimed /\ PlacesInOrder

(* A message that may still be submitted, or is being admitted, is unknown *)
(* to the queue and was never claimed.                                     *)
SubmittableIsNew ==
    \A m \in Messages :
        reply[m] \in {"none", "refused"} \/ (lock.op = "admit" /\ lock.msg = m)
            => m \notin Ids(disk) /\ handed[m] = 0

(* The goroutine that admits a message has not answered its sender, and    *)
(* whoever claims on behalf of a sender does it for a saved message.       *)
LockServesSender ==
    /\ lock.op = "admit" => reply[lock.msg] = "pending"
    /\ lock.op \in {"claim", "reserved"} /\ lock.msg # NoText
          => lock.msg \in Ids(disk) \cup Claimed

SendersOK == SubmittableIsNew /\ LockServesSender /\ AcceptedIsDurable

(* Without a process nothing volatile is left to act on.                   *)
DownIsEmpty ==
    up = "down" => /\ queue = Gone
                   /\ turn = NoTurn
                   /\ current = NoText
                   /\ retry = Clear
                   /\ lock = Free
                   /\ caller = [c \in {"timer", "user"} |-> Idle]

(* Every message that a turn, the retry controller or a goroutine on its   *)
(* way to a turn holds was claimed by this very process.                   *)
Held == {turn.text, turn.id, current, retry.input, caller["timer"].text, caller["user"].text}
HeldWasClaimedHere == \A m \in Held \cap Messages : handed[m] = life

(* Claude is only ever started with a message by the process that claimed  *)
(* it.                                                                     *)
LaunchedByClaimer ==
    \A m \in Messages : /\ launched[m] \subseteq {handed[m]}
                        /\ handed[m] = 0 => launched[m] = {}

TurnsOK == DownIsEmpty /\ HeldWasClaimedHere /\ LaunchedByClaimer

IInv == TypeOK /\ life > 0 /\ StoreOK /\ SendersOK /\ TurnsOK

=============================================================================
