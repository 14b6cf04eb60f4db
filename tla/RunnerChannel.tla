--------------------------- MODULE RunnerChannel ---------------------------
(***************************************************************************)
(* The socket between a terminal runner and the daemon: the greeting, the  *)
(* live output, one replay of what the runner retains, the exit, and the   *)
(* grace in which an ended runner waits for a daemon to come back.  The    *)
(* daemon dials again after a loss or a restart; each connection has a     *)
(* fresh session of its own.  What the runner does under streamMu and what *)
(* the reader does with one frame is one step.                             *)
(***************************************************************************)
EXTENDS Naturals, Sequences

CONSTANTS
    MaxOutputs,     \* outputs of the provider in a behaviour
    MaxDials,       \* connections in a behaviour
    Outbox,         \* frames on their way before the runner drops a client
    Slots           \* events on their way to the session's pump

ASSUME LimitAssumption == /\ MaxOutputs \in Nat /\ MaxDials \in Nat
                          /\ Outbox \in Nat \ {0} /\ Slots \in Nat \ {0}

VARIABLES
    seq,            \* the last output's number; the runner retains them all
    ended,          \* the provider ended, and EXIT is what new clients are told
    gone,           \* the runner process left and took its files along
    clients,        \* connections the runner serves
    owed,           \* calls of scheduleIdleShutdown that are about to run
    idle,           \* r.idle: "nil", or its timer "ticking" or "fired"
    stray,          \* timers that tick although r.idle no longer names them
    calls,          \* timer callbacks that wait for mu
    leaving,        \* a callback decided to shut down
    dial,           \* the daemon's last connection
    wire,           \* its frames on their way to the daemon
    cut,            \* the runner closed it, or it broke
    asked,          \* a replay request is on its way to the runner
    stage,          \* where the daemon is with it
    closed,         \* its reader has stopped
    current,        \* info.CurrentSeq
    replay,         \* the replay request: "none", "open" or "done"
    replayed,       \* the outputs the request has collected
    stream,         \* events on their way to the pump
    outputs,        \* the session's outputs
    nextSeq,        \* the next output the session expects
    told,           \* how the session learned that it is over
    dropped,        \* history: an output found the stream full
    short           \* history: the replay ended without REPLAY_DONE

runnerVars == <<seq, ended, gone, clients, owed, idle, stray, calls, leaving>>
linkVars == <<dial, wire, cut, asked>>
readerVars == <<closed, current, replay, replayed, stream, dropped, short>>
sessionVars == <<stage, outputs, nextSeq, told>>
vars == <<seq, ended, gone, clients, owed, idle, stray, calls, leaving,
          dial, wire, cut, asked, closed, current, replay, replayed, stream,
          dropped, short, stage, outputs, nextSeq, told>>

Exit == MaxOutputs + 1          \* frames and events are numbered outputs, or
Done == MaxOutputs + 2          \* the exit, the end of a replay,
Lost == MaxOutputs + 3          \* the reader's own account of a loss
Terminal == {Exit, Lost}

-----------------------------------------------------------------------------
(* The runner.                                                             *)

(* A frame for every client; one whose outbox is full is closed, and keeps *)
(* what had left the outbox.                                               *)
Broadcast(frame) ==
    IF dial \in clients /\ ~cut
    THEN \/ /\ Len(wire) < Outbox
            /\ wire' = Append(wire, frame) /\ UNCHANGED cut
         \/ /\ Len(wire) >= Outbox
            /\ \E n \in 0..Len(wire) : wire' = SubSeq(wire, 1, n)
            /\ cut' = TRUE
    ELSE UNCHANGED <<wire, cut>>

RunnerOutputs ==
    /\ ~ended /\ ~gone /\ seq < MaxOutputs
    /\ seq' = seq + 1
    /\ Broadcast(seq + 1)
    /\ UNCHANGED <<ended, gone, clients, owed, idle, stray, calls, leaving, dial, asked>>
    /\ UNCHANGED readerVars /\ UNCHANGED sessionVars

(* The child is waited for and its output is read to the end; then the exit *)
(* is kept for later clients and sent to the present ones.                 *)
RunnerEnds ==
    /\ ~ended /\ ~gone
    /\ ended' = TRUE
    /\ Broadcast(Exit)
    /\ owed' = IF clients = {} THEN owed + 1 ELSE owed
    /\ UNCHANGED <<seq, gone, clients, idle, stray, calls, leaving, dial, asked>>
    /\ UNCHANGED readerVars /\ UNCHANGED sessionVars

(* A replay is written frame by frame, waiting for the client.             *)
RunnerReplays ==
    /\ asked /\ ~gone
    /\ asked' = FALSE
    /\ wire' = IF dial \in clients /\ ~cut
               THEN wire \o [n \in 1..seq |-> n] \o <<Done>> ELSE wire
    /\ UNCHANGED <<dial, cut>> /\ UNCHANGED runnerVars
    /\ UNCHANGED readerVars /\ UNCHANGED sessionVars

(* serveClient's read fails: the client is removed, and the last one of an *)
(* ended runner starts the grace.                                          *)
RunnerRemoves ==
    /\ ~gone
    /\ \E c \in clients :
          /\ c # dial \/ cut \/ closed
          /\ clients' = clients \ {c}
          /\ owed' = IF ended /\ clients = {c} THEN owed + 1 ELSE owed
          /\ cut' = (cut \/ c = dial)
    /\ UNCHANGED <<seq, ended, gone, idle, stray, calls, leaving, dial, wire, asked>>
    /\ UNCHANGED readerVars /\ UNCHANGED sessionVars

Schedule ==
    /\ owed > 0 /\ ~gone
    /\ owed' = owed - 1
    /\ idle' = IF ended /\ clients = {} /\ idle = "nil" THEN "ticking" ELSE idle
    /\ UNCHANGED <<seq, ended, gone, clients, stray, calls, leaving>>
    /\ UNCHANGED linkVars /\ UNCHANGED readerVars /\ UNCHANGED sessionVars

(* A timer that has fired cannot be recalled.                              *)
TimerFires ==
    /\ ~gone
    /\ \/ idle = "ticking" /\ idle' = "fired" /\ UNCHANGED stray
       \/ stray > 0 /\ stray' = stray - 1 /\ UNCHANGED idle
    /\ calls' = calls + 1
    /\ UNCHANGED <<seq, ended, gone, clients, owed, leaving>>
    /\ UNCHANGED linkVars /\ UNCHANGED readerVars /\ UNCHANGED sessionVars

(* The callback looks again at who is there.  It clears r.idle whichever   *)
(* timer that names.                                                       *)
TimerDecides ==
    /\ calls > 0 /\ ~gone
    /\ calls' = calls - 1
    /\ idle' = "nil" /\ stray' = IF idle = "ticking" THEN stray + 1 ELSE stray
    /\ leaving' = (leaving \/ (ended /\ clients = {}))
    /\ UNCHANGED <<seq, ended, gone, clients, owed>>
    /\ UNCHANGED linkVars /\ UNCHANGED readerVars /\ UNCHANGED sessionVars

RunnerLeaves ==
    /\ leaving /\ ~gone
    /\ gone' = TRUE /\ cut' = TRUE
    /\ UNCHANGED <<seq, ended, clients, owed, idle, stray, calls, leaving, dial, wire, asked>>
    /\ UNCHANGED readerVars /\ UNCHANGED sessionVars

-----------------------------------------------------------------------------
(* The daemon dials, subscribes, and replays.                              *)

StopsTimerOnly == idle' = IF idle = "ticking" THEN "fired" ELSE idle
CancelIdle == idle' = "nil"

(* The runner registers the client, disarms the grace and greets it, an    *)
(* ended one with its exit; the daemon has the greeting and subscribes.    *)
Dials ==
    /\ stage \in {"none", "over"} /\ ~gone /\ dial < MaxDials
    /\ dial' = dial + 1 /\ clients' = clients \cup {dial + 1}
    /\ CancelIdle
    /\ wire' = (IF ended THEN <<Exit>> ELSE <<>>)
    /\ cut' = FALSE /\ asked' = FALSE
    /\ closed' = FALSE /\ current' = seq /\ replay' = "none" /\ replayed' = <<>>
    /\ stream' = <<>> /\ dropped' = FALSE /\ short' = FALSE
    /\ stage' = "subscribed" /\ outputs' = <<>> /\ nextSeq' = 1 /\ told' = "nothing"
    /\ UNCHANGED <<seq, ended, gone, owed, stray, calls, leaving>>

(* The request is in place before the runner hears of it.                  *)
AsksReplay ==
    /\ stage = "subscribed"
    /\ stage' = "replaying"
    /\ IF closed THEN /\ short' = TRUE /\ UNCHANGED <<replay, asked>>
                 ELSE /\ replay' = "open" /\ asked' = TRUE /\ UNCHANGED short
    /\ UNCHANGED <<dial, wire, cut, closed, current, replayed, stream, dropped>>
    /\ UNCHANGED runnerVars /\ UNCHANGED <<outputs, nextSeq, told>>

(* Ten seconds pass, or the request could not be written.                  *)
GivesUpReplay ==
    /\ stage = "replaying" /\ replay = "open"
    /\ replay' = "done" /\ short' = TRUE
    /\ UNCHANGED <<closed, current, replayed, stream, dropped>>
    /\ UNCHANGED runnerVars /\ UNCHANGED linkVars /\ UNCHANGED sessionVars

Members(s) == {s[i] : i \in DOMAIN s}
Highest(S) == CHOOSE n \in S : \A m \in S : m <= n

(* Replay takes what the request has collected and withdraws the request;  *)
(* newSession appends it and expects what follows the highest number known. *)
TakesReplay ==
    /\ stage = "replaying" /\ replay # "open"
    /\ stage' = "replayed" /\ replay' = "none" /\ replayed' = <<>>
    /\ outputs' = replayed
    /\ nextSeq' = Highest(Members(replayed) \cup {current}) + 1
    /\ UNCHANGED <<closed, current, stream, dropped, short, told>>
    /\ UNCHANGED runnerVars /\ UNCHANGED linkVars

(* The session is registered and its pump starts.                          *)
Starts ==
    /\ stage = "replayed" /\ stage' = "running"
    /\ UNCHANGED runnerVars /\ UNCHANGED linkVars /\ UNCHANGED readerVars
    /\ UNCHANGED <<outputs, nextSeq, told>>

-----------------------------------------------------------------------------
(* The reader of the connection.                                           *)

(* A full stream loses an output; a terminal event takes the oldest one's  *)
(* place.                                                                  *)
TerminalOverflows(event) == Append(stream, event)
TerminalMayDrop(event) == IF Len(stream) < Slots THEN Append(stream, event) ELSE stream
WithTerminal(event) == Append(IF Len(stream) < Slots THEN stream ELSE Tail(stream), event)

Reading == stage # "none" /\ ~closed /\ wire # <<>>

ReadsOutput ==
    /\ Reading /\ Head(wire) \in 1..MaxOutputs
    /\ wire' = Tail(wire) /\ current' = Head(wire)
    /\ replayed' = IF replay # "none" THEN Append(replayed, Head(wire)) ELSE replayed
    /\ IF Len(stream) < Slots
       THEN stream' = Append(stream, Head(wire)) /\ UNCHANGED dropped
       ELSE dropped' = TRUE /\ UNCHANGED stream
    /\ UNCHANGED <<closed, replay, short, dial, cut, asked>>
    /\ UNCHANGED runnerVars /\ UNCHANGED sessionVars

(* The request stays in place until Replay takes it, and collects the live *)
(* output that follows its end.                                            *)
AfterDoneWithdraws == IF replay = "open" THEN "none" ELSE replay
AfterDone == IF replay = "open" THEN "done" ELSE replay

ReadsDone ==
    /\ Reading /\ Head(wire) = Done
    /\ wire' = Tail(wire) /\ replay' = AfterDone
    /\ UNCHANGED <<closed, current, replayed, stream, dropped, short, dial, cut, asked>>
    /\ UNCHANGED runnerVars /\ UNCHANGED sessionVars

(* The reader stops: a replay that waits is released.                      *)
Stops(event) ==
    /\ closed' = TRUE /\ stream' = WithTerminal(event)
    /\ dropped' = (dropped \/ Len(stream) = Slots)
    /\ replay' = AfterDone /\ short' = (short \/ replay = "open")

ReadsExit ==
    /\ Reading /\ Head(wire) = Exit
    /\ wire' = <<>> /\ current' = seq
    /\ Stops(Exit)
    /\ UNCHANGED <<replayed, dial, cut, asked>>
    /\ UNCHANGED runnerVars /\ UNCHANGED sessionVars

(* Any read error without an exit before it is a loss.                     *)
Breaks ==
    /\ stage # "none" /\ ~closed
    /\ wire' = <<>> /\ cut' = TRUE
    /\ Stops(Lost)
    /\ UNCHANGED <<current, replayed, dial, asked>>
    /\ UNCHANGED runnerVars /\ UNCHANGED sessionVars

-----------------------------------------------------------------------------
(* The session's pump.                                                     *)

PumpsOutput ==
    /\ stage = "running" /\ stream # <<>> /\ Head(stream) \in 1..MaxOutputs
    /\ stream' = Tail(stream)
    /\ IF Head(stream) >= nextSeq
       THEN outputs' = Append(outputs, Head(stream)) /\ nextSeq' = Head(stream) + 1
       ELSE UNCHANGED <<outputs, nextSeq>>
    /\ UNCHANGED <<closed, current, replay, replayed, dropped, short, stage, told>>
    /\ UNCHANGED runnerVars /\ UNCHANGED linkVars

PumpsEnd ==
    /\ stage = "running" /\ stream # <<>> /\ Head(stream) \in Terminal
    /\ stream' = Tail(stream)
    /\ told' = IF Head(stream) = Exit THEN "exit" ELSE "lost"
    /\ stage' = "over"
    /\ UNCHANGED <<closed, current, replay, replayed, dropped, short, outputs, nextSeq>>
    /\ UNCHANGED runnerVars /\ UNCHANGED linkVars

(* The daemon restarts: its sockets close and its sessions are forgotten.  *)
DaemonRestarts ==
    /\ stage # "none" /\ dial < MaxDials
    /\ stage' = "none" /\ closed' = TRUE /\ cut' = TRUE /\ wire' = <<>>
    /\ replay' = "none" /\ replayed' = <<>> /\ stream' = <<>>
    /\ outputs' = <<>> /\ nextSeq' = 1 /\ told' = "nothing"
    /\ UNCHANGED <<dial, asked, current, dropped, short>>
    /\ UNCHANGED runnerVars

-----------------------------------------------------------------------------
Init ==
    /\ seq = 0 /\ ended = FALSE /\ gone = FALSE /\ clients = {} /\ owed = 0
    /\ idle = "nil" /\ stray = 0 /\ calls = 0 /\ leaving = FALSE
    /\ dial = 0 /\ wire = <<>> /\ cut = TRUE /\ asked = FALSE
    /\ closed = TRUE /\ current = 0 /\ replay = "none" /\ replayed = <<>>
    /\ stream = <<>> /\ dropped = FALSE /\ short = FALSE
    /\ stage = "none" /\ outputs = <<>> /\ nextSeq = 1 /\ told = "nothing"

Grace == Schedule \/ TimerFires \/ TimerDecides \/ RunnerLeaves
Runner == RunnerOutputs \/ RunnerEnds \/ RunnerReplays \/ RunnerRemoves
Attach == AsksReplay \/ GivesUpReplay \/ TakesReplay \/ Starts
Reader == ReadsOutput \/ ReadsDone \/ ReadsExit
Pump == PumpsOutput \/ PumpsEnd

Next == Runner \/ Grace \/ Dials \/ Attach \/ Reader \/ Breaks \/ Pump \/ DaemonRestarts

Spec == Init /\ [][Next]_vars

(* Every goroutine goes on and every timer fires; the provider need not    *)
(* end, the daemon need not dial, and nothing has to break.                *)
Fairness == /\ WF_vars(RunnerReplays) /\ WF_vars(RunnerRemoves)
            /\ WF_vars(Schedule) /\ WF_vars(TimerFires)
            /\ WF_vars(TimerDecides) /\ WF_vars(RunnerLeaves)
            /\ WF_vars(AsksReplay) /\ WF_vars(TakesReplay) /\ WF_vars(Starts)
            /\ WF_vars(Reader) /\ WF_vars(Pump)

FairSpec == Spec /\ Fairness

-----------------------------------------------------------------------------
(* Every variable has its type; only the last dial's connection carries    *)
(* frames, and the stream never holds more than its slots.                 *)
TypeOK ==
    /\ seq \in 0..MaxOutputs /\ ended \in BOOLEAN /\ gone \in BOOLEAN
    /\ clients \subseteq 1..dial /\ owed \in Nat
    /\ idle \in {"nil", "ticking", "fired"} /\ stray \in Nat
    /\ calls \in Nat /\ leaving \in BOOLEAN
    /\ dial \in 0..MaxDials /\ wire \in Seq(1..Done) /\ cut \in BOOLEAN
    /\ asked \in BOOLEAN
    /\ stage \in {"none", "subscribed", "replaying", "replayed", "running", "over"}
    /\ closed \in BOOLEAN /\ current \in 0..MaxOutputs
    /\ replay \in {"none", "open", "done"} /\ replayed \in Seq(1..MaxOutputs)
    /\ stream \in Seq(1..Lost) /\ Len(stream) <= Slots
    /\ outputs \in Seq(1..MaxOutputs) /\ nextSeq \in 1..MaxOutputs + 1
    /\ told \in {"nothing", "exit", "lost"}
    /\ dropped \in BOOLEAN /\ short \in BOOLEAN

(* A session whose connection is over is told so once, after everything    *)
(* else, however full its stream was; and it is told of an exit only when  *)
(* the runner sent one.                                                    *)
EndIsTold ==
    /\ \A i \in DOMAIN stream : stream[i] \in Terminal <=> closed /\ i = Len(stream)
    /\ stage \notin {"none", "over"} /\ closed => stream # <<>>
    /\ told = "exit" \/ Exit \in Members(stream) \/ Exit \in Members(wire) => ended

(* Unless the replay was cut short or the stream overflowed, a session that *)
(* has been replayed misses no output: what arrived around the boundary of *)
(* replay and live output is there, or still on its way; and a session that *)
(* is told of the exit has everything its runner ever said.                *)
NoSilentHole ==
    ~dropped /\ ~short =>
        /\ stage \in {"replayed", "running"} =>
            /\ Members(outputs) = 1..nextSeq - 1
            /\ nextSeq - 1 <= current
            /\ nextSeq..current \subseteq Members(stream)
        /\ told = "exit" => Members(outputs) = 1..seq

(* A session whose replay came to its end holds each output of its runner  *)
(* once, in its order ("Replay is ordered before live traffic",            *)
(* ARCHITECTURE.md; client.go handleFrame, session.go newSession).         *)
OutputsInOrder == ~short => \A i, j \in DOMAIN outputs : i < j => outputs[i] < outputs[j]

(* A daemon that attaches to a runner in its grace gets what the runner    *)
(* retains.                                                                *)
EndedRunnerReplays ==
    told = "exit" /\ ~dropped => Members(outputs) = 1..seq

(* An ended runner without a client leaves, unless a client comes: however *)
(* clients came and went while its timers fired, the grace is never lost.  *)
EndedRunnerLeaves == ended /\ clients = {} ~> gone \/ clients # {}
=============================================================================
