--------------------------- MODULE SessionCreation ---------------------------
(***************************************************************************)
(* Creating a session at most once per operation id.  A request looks its  *)
(* operation up in the lane ledger, first without a lock and again under   *)
(* the creation gate; it tracks the launch, records the creation, gives    *)
(* the gate back and only then launches.  The lookups go through the       *)
(* daemon's cache of the folded ledger, which is keyed on the ledger's     *)
(* high-water mark.  The daemon may stop between any two steps; the        *)
(* ledger and the runners stay.                                            *)
(*                                                                         *)
(* What the ledger says is what a prefix of its rows says, so a snapshot   *)
(* of it is the length of that prefix.                                     *)
(***************************************************************************)
EXTENDS Naturals, Sequences

CONSTANTS
    Callers,        \* requests the daemon may serve at the same time
    Operations,     \* operation ids
    Works,          \* what a request asks for: fingerprint, tool and parent
    Requests,       \* [op, work]: what is sent
    MarkReads,      \* whether the ledger's high-water mark can be read
    Nothing,        \* no operation id, no session id
    MaxLanes,       \* bounds the sessions
    MaxRows,        \* bounds the rows that others append
    MaxAsked        \* bounds the requests begun, by the rows there are

ASSUME CreationAssumption ==
    /\ Nothing \notin Callers \cup Operations \cup Works \cup Nat
    /\ Requests \subseteq [op : Operations \cup {Nothing}, work : Works]
    /\ MarkReads \subseteq BOOLEAN
    /\ MaxLanes \in Nat /\ MaxRows \in Nat /\ MaxAsked \in Nat

VARIABLES
    log,            \* the ledger: rows [type, lane, op, work]
    cache,          \* [ready, mark, upTo]: a fold of upTo rows, kept for mark
    folder,         \* who holds the fold slot
    gate,           \* who holds bindGate
    starting,       \* launches that this daemon's Create owns
    registry,       \* each lane in this daemon: none, live or exited
    minted,         \* how many ids were handed out; they never repeat
    runner,         \* each lane's runner: none, up or ended
    launches,       \* how often each lane's runner was launched
    call,           \* each request being served
    answer          \* the last answer of each caller

memory == <<cache, folder, gate, starting, registry, call>>
world == <<log, minted, runner, launches, answer>>
vars == <<memory, world>>

Lanes == 1..MaxLanes
Rows == [type : {"created", "launch_started", "runner_ready", "attached",
                 "runner_exited", "runner_lost"},
         lane : Lanes \cup {Nothing}, op : Operations \cup {Nothing}, work : Works \cup {Nothing}]

Row(type, lane) == [type |-> type, lane |-> lane, op |-> Nothing, work |-> Nothing]
CreatedRow(lane, request) ==
    [type |-> "created", lane |-> lane, op |-> request.op, work |-> request.work]

(* What the first n rows say of a lane.                                    *)
Says(n, type, lane) == \E i \in 1..n : log[i].type = type /\ log[i].lane = lane
DurablyClosed(n, lane) == Says(n, "runner_exited", lane)

(* The rows of the first n that created a session for the operation.       *)
Creations(n, op) == {i \in 1..n : log[i].type = "created" /\ log[i].op = op}

(* Before the lookup, in one of its steps, between lookups, or launching.  *)
Looking == {"lookup", "missed", "folding", "folded"}
Checking == {"checking", "absent", "over"}
Making == {"making", "recording"}
Launching == {"launching", "launched", "ready"}
Stages == {"idle", "gate", "registered", "managed"} \cup Looking \cup Checking \cup Making \cup Launching

Reasons == {"none", "other work", "ended", "starting", "never ready", "not attached"}
NoAnswer == [kind |-> "none", lane |-> Nothing, op |-> Nothing, work |-> Nothing,
             reason |-> "none", own |-> Nothing]
NoCall == [stage |-> "idle", op |-> Nothing, work |-> Nothing, marked |-> FALSE, mark |-> 0,
           upTo |-> 0, lane |-> Nothing]

(* The next step of a request; a snapshot is kept only while it is read.   *)
At(c, stage) == [call EXCEPT ![c] = [@ EXCEPT !.stage = stage]]

(* Create returns: its deferred calls untrack the launch and give back the *)
(* gate unless that was done before.                                       *)
Answers(c, kind, lane, reason) ==
    /\ answer' = [answer EXCEPT ![c] = [kind |-> kind, lane |-> lane, op |-> call[c].op,
                                        work |-> call[c].work, reason |-> reason,
                                        own |-> IF call[c].stage \in Checking THEN Nothing
                                                ELSE call[c].lane]]
    /\ call' = [call EXCEPT ![c] = NoCall]
    /\ starting' = IF call[c].stage \in Checking THEN starting ELSE starting \ {call[c].lane}
    /\ gate' = IF gate = c THEN Nothing ELSE gate

Refuses(c) == Answers(c, "refused", Nothing, "none")

-----------------------------------------------------------------------------
(* Looking an operation up: replayStart over readLedger.                   *)

(* A request without an operation id has nothing to look up.  The first    *)
(* lookup leads to the gate, the second, under it, to the creation.        *)
Unrecorded(c) ==
    [call EXCEPT ![c] = [@ EXCEPT !.stage = IF gate = c THEN "making" ELSE "gate",
                                  !.marked = FALSE, !.mark = 0, !.upTo = 0]]

(* A request as its lookup begins: the mark is read, or cannot be.         *)
Marking(request, marked) ==
    [request EXCEPT !.stage = "lookup", !.marked = marked, !.mark = IF marked THEN Len(log) ELSE 0]

Asks(c) ==
    /\ call[c].stage = "idle" /\ Len(log) < MaxAsked
    /\ \E r \in Requests, marked \in MarkReads :
           LET request == [NoCall EXCEPT !.stage = "gate", !.op = r.op, !.work = r.work] IN
           call' = [call EXCEPT ![c] = IF r.op = Nothing THEN request ELSE Marking(request, marked)]
    /\ answer' = [answer EXCEPT ![c] = NoAnswer]
    /\ UNCHANGED <<log, minted, runner, launches, cache, folder, gate, starting, registry>>

(* What a request makes of a snapshot that speaks for it.                  *)
Decides(c, upTo) ==
    LET found == Creations(upTo, call[c].op) IN
    \/ /\ found = {}
       /\ call' = Unrecorded(c)
       /\ UNCHANGED <<answer, starting, gate>>
    \/ \E i \in found :
       \/ /\ log[i].work = call[c].work
          /\ call' = [call EXCEPT ![c] = [@ EXCEPT !.stage = "checking",
                         !.marked = FALSE, !.mark = 0, !.upTo = upTo, !.lane = log[i].lane]]
          /\ UNCHANGED <<answer, starting, gate>>
       \/ /\ log[i].work # call[c].work
          /\ Answers(c, "conflict", log[i].lane, "other work")

Cached(c) == call[c].marked /\ cache.ready /\ cache.mark = call[c].mark

LooksUp(c) ==
    /\ call[c].stage = "lookup"
    /\ \/ Cached(c) /\ Decides(c, cache.upTo)
       \/ /\ ~Cached(c)
          /\ call' = At(c, "missed")
          /\ UNCHANGED <<answer, starting, gate>>
    /\ UNCHANGED <<log, minted, runner, launches, cache, folder, registry>>

(* admitFold: one folder at a time, and a second look once admitted.       *)
Admitted(c) ==
    /\ call[c].stage = "missed" /\ folder = Nothing
    /\ \/ Cached(c) /\ Decides(c, cache.upTo) /\ UNCHANGED folder
       \/ /\ ~Cached(c)
          /\ folder' = c
          /\ call' = At(c, "folding")
          /\ UNCHANGED <<answer, starting, gate>>
    /\ UNCHANGED <<log, minted, runner, launches, cache, registry>>

Folds(c) ==
    /\ call[c].stage = "folding"
    /\ call' = [call EXCEPT ![c] = [@ EXCEPT !.stage = "folded", !.upTo = Len(log)]]
    /\ UNCHANGED <<world, cache, folder, gate, starting, registry>>

(* A defect for Label: the mark is read again when the fold is stored.     *)
LabelRead(c) == Len(log)

(* publishLedger: under the mark that was read before the fold.  Without   *)
(* one the cache is emptied.                                               *)
Label(c) == call[c].mark

Publishes(c) ==
    /\ call[c].stage = "folded"
    /\ cache' = IF call[c].marked THEN [ready |-> TRUE, mark |-> Label(c), upTo |-> call[c].upTo]
                ELSE [ready |-> FALSE, mark |-> 0, upTo |-> 0]
    /\ folder' = Nothing
    /\ Decides(c, call[c].upTo)
    /\ UNCHANGED <<log, minted, runner, launches, registry>>

(* A defect for LookupFails: the slot stays taken.                         *)
LookupFailsInside(c) ==
    /\ call[c].stage \in Looking
    /\ Refuses(c)
    /\ UNCHANGED <<log, minted, runner, launches, cache, folder, registry>>

(* The ledger cannot be read, or the caller is gone.                       *)
LookupFails(c) ==
    /\ call[c].stage \in Looking
    /\ folder' = IF folder = c THEN Nothing ELSE folder
    /\ Refuses(c)
    /\ UNCHANGED <<log, minted, runner, launches, cache, registry>>

(* The operation has a session.  One that is live is the answer.           *)
ChecksRegistry(c) ==
    /\ call[c].stage = "checking"
    /\ \/ registry[call[c].lane] = "live" /\ Answers(c, "replayed", call[c].lane, "none")
       \/ /\ registry[call[c].lane] # "live"
          /\ call' = At(c, IF registry[call[c].lane] = "none" THEN "absent" ELSE "over")
          /\ UNCHANGED <<answer, starting, gate>>
    /\ UNCHANGED <<log, minted, runner, launches, cache, folder, registry>>

(* Why the session, not live when the registry was asked, is not returned. *)
(* The rows are those of the lookup.                                       *)
WhyNot(c) ==
    LET l == call[c].lane n == call[c].upTo
        hasRun == Says(n, "runner_ready", l) \/ Says(n, "attached", l)
    IN  CASE l \in starting -> "starting"
          [] l \notin starting /\ call[c].stage = "over" -> "ended"
          [] l \notin starting /\ call[c].stage = "absent" ->
                 CASE ~hasRun -> "never ready"
                   [] hasRun /\ DurablyClosed(n, l) -> "ended"
                   [] hasRun /\ ~DurablyClosed(n, l) -> "not attached"

ChecksStarting(c) ==
    /\ call[c].stage \in {"absent", "over"}
    /\ Answers(c, "conflict", call[c].lane, WhyNot(c))
    /\ UNCHANGED <<log, minted, runner, launches, cache, folder, registry>>

-----------------------------------------------------------------------------
(* Creating.                                                               *)

(* acquireCreation, and with the gate the second lookup begins.  A defect: *)
(* the operation is not looked up again.                                   *)
TakesGateOnly(c) ==
    /\ call[c].stage = "gate" /\ gate = Nothing
    /\ gate' = c
    /\ call' = At(c, "making")
    /\ UNCHANGED <<world, cache, folder, starting, registry>>

TakesGate(c) ==
    /\ call[c].stage = "gate" /\ gate = Nothing
    /\ gate' = c
    /\ \E marked \in MarkReads :
           call' = IF call[c].op = Nothing THEN At(c, "making")
                   ELSE [call EXCEPT ![c] = Marking(@, marked)]
    /\ UNCHANGED <<world, cache, folder, starting, registry>>

(* Preparing the request fails before the gate, or the caller is gone.     *)
GivesUp(c) ==
    /\ call[c].stage = "gate"
    /\ Refuses(c)
    /\ UNCHANGED <<log, minted, runner, launches, cache, folder, registry>>

(* The creator, the folder or the conversation is refused under the gate.  *)
PreparationFails(c) ==
    /\ call[c].stage = "making"
    /\ Refuses(c)
    /\ UNCHANGED <<log, minted, runner, launches, cache, folder, registry>>

(* A defect for Tracked: the launch is tracked by nobody.                  *)
Untracked(lane) == starting

(* createRegistryTracked: before the creation is written, not after.       *)
Tracked(lane) == starting \cup {lane}

Tracks(c) ==
    /\ call[c].stage = "making"
    /\ minted < MaxLanes
    /\ minted' = minted + 1
    /\ starting' = Tracked(minted')
    /\ call' = [call EXCEPT ![c] = [@ EXCEPT !.stage = "recording", !.lane = minted']]
    /\ UNCHANGED <<log, runner, launches, answer, cache, folder, gate, registry>>

(* A defect for Records: the gate is kept until Create returns.            *)
RecordsAndKeepsGate(c) ==
    /\ call[c].stage = "recording"
    /\ log' = Append(log, CreatedRow(call[c].lane, call[c]))
    /\ call' = At(c, "launching")
    /\ UNCHANGED <<minted, runner, launches, answer, cache, folder, gate, starting, registry>>

(* recordCreated; once the creation is durable the gate is given back.     *)
Records(c) ==
    /\ call[c].stage = "recording"
    /\ log' = Append(log, CreatedRow(call[c].lane, call[c]))
    /\ call' = At(c, "launching")
    /\ gate' = Nothing
    /\ UNCHANGED <<minted, runner, launches, answer, cache, folder, starting, registry>>

(* The row is not written; or it is, and the caller is told that it is     *)
(* not, because the file's mode could not be set.                          *)
RecordFails(c) ==
    /\ call[c].stage = "recording"
    /\ log' \in {log, Append(log, CreatedRow(call[c].lane, call[c]))}
    /\ Refuses(c)
    /\ UNCHANGED <<minted, runner, launches, cache, folder, registry>>

(* An observation that is not written is logged and forgotten.             *)
Observes(type, lane) == log' \in {log, Append(log, Row(type, lane))}

Launches(c) ==
    /\ call[c].stage = "launching"
    /\ Observes("launch_started", call[c].lane)
    /\ launches' = [launches EXCEPT ![call[c].lane] = @ + 1]
    /\ runner' = [runner EXCEPT ![call[c].lane] = "up"]
    /\ call' = At(c, "launched")
    /\ UNCHANGED <<minted, answer, cache, folder, gate, starting, registry>>

RunnerAnswers(c) ==
    /\ call[c].stage = "launched" /\ runner[call[c].lane] = "up"
    /\ Observes("runner_ready", call[c].lane)
    /\ call' = At(c, "ready")
    /\ UNCHANGED <<minted, runner, launches, answer, cache, folder, gate, starting, registry>>

(* A defect for Failed: the error says nothing of the recorded session.    *)
FailedBare(c) == Refuses(c)

(* StartCreateFailedError: the id is the caller's only handle.             *)
Failed(c) == Answers(c, "failed", call[c].lane, "none")

(* Before the launch a file cannot be written; a launch that fails is      *)
(* reaped, which may fail too; a runner that came up is not registered.    *)
LaunchFails(c) ==
    /\ call[c].stage \in Launching
    /\ runner' \in {runner, [runner EXCEPT ![call[c].lane] =
                                IF call[c].stage = "launched" /\ @ = "up" THEN "ended" ELSE @]}
    /\ Failed(c)
    /\ UNCHANGED <<log, minted, launches, cache, folder, registry>>

Registers(c) ==
    /\ call[c].stage = "ready"
    /\ registry' = [registry EXCEPT ![call[c].lane] = "live"]
    /\ call' = At(c, "registered")
    /\ UNCHANGED <<world, cache, folder, gate, starting>>

Untracks(c) ==
    /\ call[c].stage = "registered"
    /\ starting' = starting \ {call[c].lane}
    /\ call' = At(c, "managed")
    /\ UNCHANGED <<world, cache, folder, gate, registry>>

(* finishCreate: the session may be gone from the registry by then.        *)
Finishes(c) ==
    /\ call[c].stage = "managed"
    /\ IF registry[call[c].lane] = "none" THEN Failed(c)
       ELSE Answers(c, "created", call[c].lane, "none")
    /\ UNCHANGED <<log, minted, runner, launches, cache, folder, registry>>

-----------------------------------------------------------------------------
(* Around the requests.                                                    *)

RunnerEnds(l) ==
    /\ runner[l] = "up"
    /\ runner' = [runner EXCEPT ![l] = "ended"]
    /\ UNCHANGED <<memory, log, minted, launches, answer>>

(* The registry hears of the end, records it, and later forgets the lane.  *)
HearsExit(l) ==
    /\ registry[l] = "live" /\ runner[l] = "ended" /\ Len(log) < MaxRows
    /\ Observes("runner_exited", l)
    /\ registry' = [registry EXCEPT ![l] = "exited"]
    /\ UNCHANGED <<minted, runner, launches, answer, cache, folder, gate, starting, call>>

Forgets(l) ==
    /\ registry[l] = "exited"
    /\ registry' = [registry EXCEPT ![l] = "none"]
    /\ UNCHANGED <<world, cache, folder, gate, starting, call>>

(* Discovery leaves the launches alone that Create owns.                   *)
Adopts(l) ==
    /\ l \notin starting /\ registry[l] = "none" /\ runner[l] = "up" /\ Len(log) < MaxRows
    /\ Observes("attached", l)
    /\ registry' = [registry EXCEPT ![l] = "live"]
    /\ UNCHANGED <<minted, runner, launches, answer, cache, folder, gate, starting, call>>

RecordsLoss(l) ==
    /\ l \notin starting /\ registry[l] = "none" /\ runner[l] # "up" /\ Len(log) < MaxRows
    /\ Says(Len(log), "created", l) /\ ~Says(Len(log), "runner_lost", l)
    /\ log' = Append(log, Row("runner_lost", l))
    /\ UNCHANGED <<memory, minted, runner, launches, answer>>

(* A row about some other session, from whoever writes to the ledger.  Its *)
(* bound leaves room for one about these.                                  *)
OthersAppend ==
    /\ Len(log) + 1 < MaxRows
    /\ log' = Append(log, Row("attached", Nothing))
    /\ UNCHANGED <<memory, minted, runner, launches, answer>>

(* The daemon stops, and another opens the ledger; who was being served    *)
(* hears nothing.                                                          *)
DaemonRestarts ==
    /\ cache' = [ready |-> FALSE, mark |-> 0, upTo |-> 0]
    /\ folder' = Nothing /\ gate' = Nothing /\ starting' = {}
    /\ registry' = [l \in Lanes |-> "none"]
    /\ call' = [c \in Callers |-> NoCall]
    /\ UNCHANGED world

-----------------------------------------------------------------------------
Init ==
    /\ log = <<>> /\ minted = 0
    /\ cache = [ready |-> FALSE, mark |-> 0, upTo |-> 0]
    /\ folder = Nothing /\ gate = Nothing /\ starting = {}
    /\ registry = [l \in Lanes |-> "none"]
    /\ runner = [l \in Lanes |-> "none"]
    /\ launches = [l \in Lanes |-> 0]
    /\ call = [c \in Callers |-> NoCall]
    /\ answer = [c \in Callers |-> NoAnswer]

Lookup(c) == LooksUp(c) \/ Admitted(c) \/ Folds(c) \/ Publishes(c) \/ LookupFails(c)
Answering(c) == ChecksRegistry(c) \/ ChecksStarting(c)
Creating(c) ==
    TakesGate(c) \/ GivesUp(c) \/ PreparationFails(c) \/ Tracks(c) \/ Records(c) \/ RecordFails(c)
Launch(c) == Launches(c) \/ RunnerAnswers(c) \/ LaunchFails(c) \/ Registers(c) \/ Untracks(c) \/ Finishes(c)
Around(l) == RunnerEnds(l) \/ HearsExit(l) \/ Forgets(l) \/ Adopts(l) \/ RecordsLoss(l)

Next ==
    \/ \E c \in Callers : Asks(c) \/ Lookup(c) \/ Answering(c) \/ Creating(c) \/ Launch(c)
    \/ \E l \in Lanes : Around(l)
    \/ OthersAppend \/ DaemonRestarts

Spec == Init /\ [][Next]_vars

(* A launch may take for ever.  A goroutine that needs nobody goes on; the *)
(* gate and the slot are channels, whose waiters are served in order.      *)
GoesOn(c) == \/ LooksUp(c) \/ Folds(c) \/ Publishes(c) \/ Answering(c)
             \/ PreparationFails(c) \/ Tracks(c) \/ Records(c) \/ RecordFails(c)
IsServed(c) == TakesGate(c) \/ Admitted(c)

Fairness == \A c \in Callers : WF_vars(GoesOn(c)) /\ SF_vars(IsServed(c))

FairSpec == Spec /\ Fairness

-----------------------------------------------------------------------------
(* Properties.                                                             *)

(* Every variable has its type; a request holds the gate from its second   *)
(* lookup until its creation is recorded, and the fold slot while it       *)
(* folds, and no request that is over holds either (acquireCreation and    *)
(* admitFold, with the deferred releases of Create and readLedger).        *)
TypeOK ==
    /\ log \in Seq(Rows)
    /\ cache \in [ready : BOOLEAN, mark : Nat, upTo : Nat]
    /\ minted \in 0..MaxLanes /\ starting \subseteq 1..minted
    /\ registry \in [Lanes -> {"none", "live", "exited"}]
    /\ runner \in [Lanes -> {"none", "up", "ended"}]
    /\ launches \in [Lanes -> Nat]
    /\ call \in [Callers -> [stage : Stages, op : Operations \cup {Nothing},
                             work : Works \cup {Nothing}, marked : BOOLEAN,
                             mark : Nat, upTo : Nat, lane : Lanes \cup {Nothing}]]
    /\ answer \in [Callers -> [kind : {"none", "refused", "failed", "conflict", "replayed", "created"},
                               lane : Lanes \cup {Nothing}, op : Operations \cup {Nothing},
                               work : Works \cup {Nothing}, reason : Reasons,
                               own : Lanes \cup {Nothing}]]
    /\ gate \in Callers \cup {Nothing} /\ folder \in Callers \cup {Nothing}
    /\ \A c \in Callers : /\ call[c].stage \in Making => gate = c
                          /\ gate = c => call[c].stage \in Looking \cup Checking \cup Making
                          /\ folder = c <=> call[c].stage \in {"folding", "folded"}

(* However often and by however many an operation id is sent, through      *)
(* failed writes, failed launches, crashes and restarts, one session is    *)
(* recorded for it and at most one runner is launched, after the record    *)
(* (manager_provenance.go Create; "a caller that lost the first response   *)
(* cannot start the same work twice").                                     *)
OneSessionPerOperation ==
    /\ \A i, j \in DOMAIN log :
           /\ log[i].type = "created" /\ log[j].type = "created"
           /\ log[i].op # Nothing /\ log[i].op = log[j].op
           => i = j
    /\ \A l \in Lanes : /\ launches[l] <= 1
                        /\ launches[l] = 1 => Says(Len(log), "created", l)

(* A request that is about to create has been told the truth by the cache: *)
(* its operation is not in the ledger (ledger_cache.go readLedger, which   *)
(* publishes a fold under the mark that was read before it).               *)
LookupIsCurrent ==
    \A c \in Callers : call[c].stage \in Making /\ call[c].op # Nothing =>
        Creations(Len(log), call[c].op) = {}

(* An answer names the session that is recorded for the caller's           *)
(* operation; one that returns it, created or replayed, returns what the   *)
(* caller asked for; no two are told that they created it; and one that    *)
(* names no session has launched none (finishCreate, replayStart,          *)
(* StartCreateFailedError).                                                *)
AnswersAreTrue ==
    \A c \in Callers :
        /\ answer[c].kind \in {"failed", "conflict", "replayed", "created"} =>
               \E i \in DOMAIN log :
                   /\ log[i].type = "created"
                   /\ log[i].lane = answer[c].lane /\ log[i].op = answer[c].op
                   /\ answer[c].kind # "conflict" => log[i].work = answer[c].work
        /\ answer[c].kind \in {"replayed", "created"} => launches[answer[c].lane] = 1
        /\ \A d \in Callers \ {c} :
               answer[c].kind = "created" /\ answer[d].kind = "created"
               => answer[c].lane # answer[d].lane
        /\ answer[c].kind = "refused" => \A l \in {answer[c].own} \cap Lanes : launches[l] = 0

(* A caller is told that a launch never reported ready only when no launch *)
(* of that session is under way: Create tracks it before the creation can  *)
(* be read (createRegistryTracked; manager_starting_test.go wants "still   *)
(* starting").                                                             *)
LaunchUnderWayIsSaid ==
    \A c, d \in Callers :
        answer[c].reason = "never ready" /\ call[d].stage \in Launching =>
            answer[c].lane # call[d].lane

(* "never reported ready" (manager_provenance.go:650) is not said of a      *)
(* session that this daemon has registered.                                *)
NeverReadyIsTrue ==
    [][\A c \in Callers :
          answer'[c].reason = "never ready" /\ answer'[c] # answer[c]
              => registry[answer'[c].lane] # "live"]_vars

(* A launch that never returns keeps nobody from being recorded or         *)
(* answered (createRegistryTracked: waiting for a socket "must not         *)
(* serialize unrelated session creation").                                 *)
WaitersMoveOn ==
    \A c \in Callers :
        call[c].stage \in {"gate"} \cup Looking \cup Checking \cup Making
        ~> call[c].stage \in {"idle"} \cup Launching

(* What the ledger says was created, and what a caller holds: the session  *)
(* that was returned to him, for what he asked.                            *)
Recording(i) == [session |-> log[i].lane, op |-> log[i].op, work |-> log[i].work]
RecordedSessions == {Recording(i) : i \in {j \in DOMAIN log : log[j].type = "created"}}
Handed(c) ==
    IF answer[c].kind \in {"replayed", "created"}
    THEN {[session |-> answer[c].lane, op |-> answer[c].op, work |-> answer[c].work]} ELSE {}

Holdings == [c \in Callers |-> Handed(c)]

Promise == INSTANCE StartPromise WITH Sessions <- Lanes, made <- RecordedSessions,
                                      starts <- launches, handed <- Holdings

(* All of this implements what an operation id promises whoever sends it:  *)
(* through lost requests, failed writes and launches and restarts, a       *)
(* session is recorded once for it, launched at most once and only then    *)
(* handed over (manager_provenance.go replayStart: "a caller that lost the      *)
(* first response cannot start the same work twice").                      *)
CreationPromise == Promise!Spec
=============================================================================
