--------------------------- MODULE DeliveryReceipts ---------------------------
(***************************************************************************)
(* Semantic submits to one structured session: the daemon's durable        *)
(* receipt store, the HTTP handlers that fill it, the daemon's connection  *)
(* to the session's runner with its answer waiters and late answers, and   *)
(* the two byte streams in between.  The runner is reduced to what its     *)
(* answer means: it remembers nothing, so that a request that reaches it   *)
(* twice and is accepted twice is a message delivered twice.               *)
(*                                                                         *)
(* Submits to one session hold the session's gate, so at most one handler  *)
(* is between Begin and Complete.  Receipts are read at any time.          *)
(***************************************************************************)
EXTENDS Naturals, Sequences

CONSTANTS Operations,   \* operation ids of messages for this session
          NoOperation,
          LateLimit,    \* lateMessageResultLimit
          WriteResults  \* whether a receipt write succeeds (TRUE) or fails

ASSUME NoOperationAssumption == NoOperation \notin Operations
ASSUME LateLimitAssumption   == LateLimit \in Nat \ {0}
ASSUME WriteAssumption       == WriteResults \subseteq BOOLEAN

VARIABLES
    record,    \* the receipt file of every operation: [status, acceptance]
    post,      \* a POST waiting for the gate, with what its session lookup said
    req,       \* the handler that holds the gate
    reading,   \* a reader that found a late acceptance and is about to confirm it
    target,    \* the session: "live", "lost" (unreachable), "exited" or "gone"
    alive,     \* the runner process exists
    waiters,   \* SocketRunner.messages: operations somebody waits for
    slots,     \* the response channel of each waiter, which holds one answer
    late,      \* lateOrder and lateMessages of the current connection
    acked,     \* ghost: accepted answers read by the current connection
    inbox,     \* requests written and not yet read by the runner
    stale,     \* the same, left behind in lost connections
    outbox,    \* answers written and not yet read by the daemon
    runs       \* ghost: how often the runner took the message

connection == <<waiters, slots, late, acked>>
wire       == <<inbox, stale, outbox>>
vars       == <<record, post, req, reading, target, alive, connection, wire, runs>>

Statuses    == {"none", "torn", "pending", "accepted", "not-delivered", "unknown"}
Answers     == {"accepted", "refused", "unknown"}
Acceptances == {"", "boundary", "unknown"}
Outcomes    == [status : Statuses, acceptance : Acceptances]
Results     == [op : Operations, answer : Answers]

Outcome(status, acceptance) == [status |-> status, acceptance |-> acceptance]
Untouched == Outcome("none", "")
Pending   == Outcome("pending", "")
Refusal   == Outcome("not-delivered", "")
Doubt     == Outcome("unknown", "")

NoRequest == [op |-> NoOperation, stage |-> "idle", lookup |-> "none",
              ours |-> TRUE, verdict |-> Untouched]
NoReading == NoOperation

In(m, queue)    == \E i \in 1..Len(queue) : queue[i] = m
Distinct(queue) == \A i, j \in 1..Len(queue) : queue[i] = queue[j] => i = j

-----------------------------------------------------------------------------
(* delivery.Store                                                          *)

(* Begin executes an operation for the first time, or again after a        *)
(* refusal that proved that nothing was sent.                              *)
ExecutesDoubts(m) == record[m].status \in {"none", "not-delivered", "unknown"}
MayExecute(m) == record[m].status \in {"none", "not-delivered"}

(* Complete leaves a receipt that is no longer pending alone.              *)
Completed(m, verdict) ==
    IF record[m].status = "pending" THEN [record EXCEPT ![m] = verdict] ELSE record

(* ConfirmAccepted moves only an unknown receipt without acceptance.       *)
Confirmable(m) == record[m] = Doubt
Confirmed(m) ==
    IF Confirmable(m) THEN [record EXCEPT ![m] = Outcome("accepted", "boundary")] ELSE record

(* deliveryReceiptBody: a pending receipt is shown as unknown.             *)
Shown(m) == IF record[m].status = "pending" THEN "unknown" ELSE record[m].status

-----------------------------------------------------------------------------
(* SocketRunner: answers and their waiters.                                *)

Known(m) == \E i \in 1..Len(late) : late[i].op = m

Replaced(result) ==
    [i \in 1..Len(late) |-> IF late[i].op = result.op THEN result ELSE late[i]]

(* retainLateResultLocked: a repeated operation keeps its place, and the   *)
(* oldest answer makes room for a new one.                                 *)
RetainedOneMore(result) ==
    IF Known(result.op) THEN Replaced(result)
    ELSE Append(IF Len(late) > LateLimit THEN Tail(late) ELSE late, result)
Retained(result) ==
    IF Known(result.op) THEN Replaced(result)
    ELSE Append(IF Len(late) >= LateLimit THEN Tail(late) ELSE late, result)

LateAnswered(m) == Known(m)
LateAccepted(m) == \E i \in 1..Len(late) : late[i] = [op |-> m, answer |-> "accepted"]

(* finishMessageWaiter: an answer that made it into the channel and was    *)
(* not consumed is kept, by the connection it came over.                   *)
ForgottenAnswer(m) == late
LateAfter(m) ==
    IF slots[m] # "empty" /\ req.ours
    THEN Retained([op |-> m, answer |-> slots[m]])
    ELSE late

-----------------------------------------------------------------------------
(* POST /api/sessions/:id/submit                                           *)

Found == {"known", "exited"}
Lookups == Found \cup {"none", "unknown session"}

(* The session is looked up before the gate is waited for; one that has    *)
(* exited is still found for a while.                                      *)
Post(m) ==
    /\ post[m] = "none"
    /\ post' = [post EXCEPT ![m] = CASE target = "gone" -> "unknown session"
                                     [] target = "exited" -> "exited"
                                     [] OTHER -> "known"]
    /\ UNCHANGED <<record, req, reading, target, alive, connection, wire, runs>>

Begin(m) ==
    /\ req = NoRequest
    /\ post[m] # "none"
    /\ post' = [post EXCEPT ![m] = "none"]
    /\ \/ /\ MayExecute(m)
          /\ TRUE \in WriteResults
          /\ record' = [record EXCEPT ![m] = Pending]
          /\ req' = [NoRequest EXCEPT !.op = m, !.stage = "begun", !.lookup = post[m]]
       \/ /\ MayExecute(m) => FALSE \in WriteResults   \* 409, or a duplicate
          /\ UNCHANGED <<record, req>>
    /\ UNCHANGED <<reading, target, alive, connection, wire, runs>>

Decide(verdict) == req' = [req EXCEPT !.stage = "decided", !.verdict = verdict]

RouteUnknown ==
    /\ req.stage = "begun"
    /\ req.lookup = "unknown session"
    /\ Decide(Refusal)
    /\ UNCHANGED <<record, post, reading, target, alive, connection, wire, runs>>

(* An error before anything is written: the message's source cannot be     *)
(* resolved, the session has exited, is unreachable or gone, the           *)
(* connection is closed, or the caller has left.                           *)
SubmitFails ==
    /\ req.stage = "begun"
    /\ req.lookup \in Found
    /\ Decide(Doubt)
    /\ UNCHANGED <<record, post, reading, target, alive, connection, wire, runs>>

Send ==
    /\ req.stage = "begun"
    /\ req.lookup \in Found
    /\ target = "live"
    /\ req.op \notin waiters    \* otherwise "already in flight"
    /\ waiters' = waiters \cup {req.op}
    /\ inbox' = Append(inbox, req.op)
    /\ req' = [req EXCEPT !.stage = "waiting"]
    /\ UNCHANGED <<record, post, reading, target, alive, slots, late, acked, stale, outbox, runs>>

(* The answer was received.  An accepted message whose attribution cannot  *)
(* be recorded is an error of the submit that keeps the runner's boundary. *)
Answered ==
    /\ req.stage = "waiting"
    /\ slots[req.op] # "empty"
    /\ \/ slots[req.op] = "accepted" /\ Decide(Outcome("accepted", "boundary"))
       \/ slots[req.op] = "accepted" /\ Decide(Outcome("unknown", "boundary"))
       \/ slots[req.op] = "refused"  /\ Decide(Refusal)
       \/ slots[req.op] = "unknown"  /\ Decide(Outcome("unknown", "unknown"))
    /\ slots' = [slots EXCEPT ![req.op] = "empty"]
    /\ waiters' = waiters \ {req.op}
    /\ UNCHANGED <<record, post, reading, target, alive, late, acked, wire, runs>>

(* Nobody reads the answer any more: the timer of ten seconds, a caller    *)
(* that disconnected, a failed write or the loss of the connection.        *)
TimerMissing == FALSE
TimedOut == req.stage = "waiting"
GiveUpRefuses == Refusal
GiveUpVerdict == Doubt

GiveUp ==
    /\ TimedOut
    /\ Decide(GiveUpVerdict)
    /\ late' = LateAfter(req.op)
    /\ slots' = [slots EXCEPT ![req.op] = "empty"]
    /\ waiters' = waiters \ {req.op}
    /\ UNCHANGED <<record, post, reading, target, alive, acked, wire, runs>>

(* A receipt that cannot be written stays pending.                         *)
Complete ==
    /\ req.stage = "decided"
    /\ \/ TRUE \in WriteResults /\ record' = Completed(req.op, req.verdict)
       \/ FALSE \in WriteResults /\ UNCHANGED record
    /\ req' = NoRequest
    /\ UNCHANGED <<post, reading, target, alive, connection, wire, runs>>

Submit == \/ \E m \in Operations : Post(m) \/ Begin(m)
          \/ RouteUnknown \/ SubmitFails \/ Send \/ Answered \/ GiveUp \/ Complete

-----------------------------------------------------------------------------
(* GET /api/message-deliveries/:id, and a POST of a recorded operation:    *)
(* reconcileLateAcceptance.  Bound: one reader at a time confirms.         *)

Read(m) ==
    /\ reading = NoReading
    /\ Confirmable(m)
    /\ target # "gone"
    /\ LateAccepted(m)
    /\ reading' = m
    /\ UNCHANGED <<record, post, req, target, alive, connection, wire, runs>>

Confirm ==
    /\ reading # NoReading
    /\ \/ TRUE \in WriteResults /\ record' = Confirmed(reading)
       \/ FALSE \in WriteResults /\ UNCHANGED record
    /\ reading' = NoReading
    /\ UNCHANGED <<post, req, target, alive, connection, wire, runs>>

Receipt == Confirm \/ \E m \in Operations : Read(m)

-----------------------------------------------------------------------------
(* The runner's frame loop, one per connection.  An unconfirmed steer may  *)
(* or may not have reached the provider.                                   *)

Took(m) == runs' = [runs EXCEPT ![m] = @ + 1]

Treat(m, answer) ==
    \/ answer = "accepted" /\ Took(m)
    \/ answer = "refused"  /\ UNCHANGED runs
    \/ answer = "unknown"  /\ (Took(m) \/ UNCHANGED runs)

RunnerAnswers ==
    /\ inbox # <<>>
    /\ inbox' = Tail(inbox)
    /\ \E answer \in Answers :
          /\ Treat(Head(inbox), answer)
          /\ outbox' = Append(outbox, [op |-> Head(inbox), answer |-> answer])
    /\ UNCHANGED <<record, post, req, reading, target, alive, connection, stale>>

(* What a lost connection had carried is still read, or never will be.     *)
StaleRequest ==
    /\ stale # <<>>
    /\ stale' = Tail(stale)
    /\ \E answer \in Answers : Treat(Head(stale), answer)
    /\ UNCHANGED <<record, post, req, reading, target, alive, connection, inbox, outbox>>

RunnerExits ==
    /\ alive
    /\ alive' = FALSE
    /\ target' = IF target = "live" THEN "exited" ELSE target
    /\ waiters' = {}
    /\ inbox' = <<>>
    /\ stale' = <<>>
    /\ outbox' = <<>>
    /\ UNCHANGED <<record, post, req, reading, slots, late, acked, runs>>

Runner == RunnerAnswers \/ StaleRequest \/ RunnerExits

-----------------------------------------------------------------------------
(* The daemon's side of the connection, and the daemon process.            *)

DeliverAnswer ==
    /\ outbox # <<>>
    /\ outbox' = Tail(outbox)
    /\ LET result == Head(outbox) IN
          /\ IF result.op \in waiters
             THEN /\ slots' = IF slots[result.op] = "empty"
                              THEN [slots EXCEPT ![result.op] = result.answer] ELSE slots
                  /\ UNCHANGED late
             ELSE /\ late' = Retained(result)
                  /\ UNCHANGED slots
          /\ acked' = IF result.answer = "accepted" THEN acked \cup {result.op} ELSE acked
    /\ UNCHANGED <<record, post, req, reading, target, alive, waiters, inbox, stale, runs>>

(* closeWithLoss: every waiter's channel is closed; what it holds stays.   *)
ConnectionLost ==
    /\ target = "live"
    /\ target' = "lost"
    /\ waiters' = {}
    /\ stale' = stale \o inbox
    /\ inbox' = <<>>
    /\ outbox' = <<>>
    /\ UNCHANGED <<record, post, req, reading, alive, slots, late, acked, runs>>

(* A new connection object replaces the unreachable one, and with it what  *)
(* the old one remembers.  A handler that still waits, waits on the old.   *)
Reconnect ==
    /\ alive
    /\ target \in {"lost", "gone"}
    /\ target' = "live"
    /\ late' = <<>>
    /\ acked' = {}
    /\ req' = IF req.stage = "waiting" THEN [req EXCEPT !.ours = FALSE] ELSE req
    /\ UNCHANGED <<record, post, reading, alive, waiters, slots, wire, runs>>

(* exitedGrace                                                             *)
Forgotten ==
    /\ ~alive
    /\ target # "gone"
    /\ target' = "gone"
    /\ late' = <<>>
    /\ acked' = {}
    /\ req' = IF req.stage = "waiting" THEN [req EXCEPT !.ours = FALSE] ELSE req
    /\ UNCHANGED <<record, post, reading, alive, waiters, slots, wire, runs>>

RecordAfterCrash == {record} \cup
    {[record EXCEPT ![m] = Outcome("torn", "")] :
        m \in {n \in Operations : record[n] = Untouched /\ post[n] # "none" /\ req = NoRequest}}

(* The daemon dies, possibly between creating a receipt file and writing   *)
(* it, and starts again: it knows the receipts and nothing else.           *)
DaemonRestarts ==
    /\ record' \in RecordAfterCrash
    /\ post' = [m \in Operations |-> "none"]
    /\ req' = NoRequest
    /\ reading' = NoReading
    /\ target' = "gone"
    /\ waiters' = {}
    /\ slots' = [m \in Operations |-> "empty"]
    /\ late' = <<>>
    /\ acked' = {}
    /\ stale' = stale \o inbox
    /\ inbox' = <<>>
    /\ outbox' = <<>>
    /\ UNCHANGED <<alive, runs>>

Daemon == DeliverAnswer \/ ConnectionLost \/ Reconnect \/ Forgotten \/ DaemonRestarts

-----------------------------------------------------------------------------
Init ==
    /\ record = [m \in Operations |-> Untouched]
    /\ post = [m \in Operations |-> "none"]
    /\ req = NoRequest
    /\ reading = NoReading
    /\ target = "live"
    /\ alive = TRUE
    /\ waiters = {}
    /\ slots = [m \in Operations |-> "empty"]
    /\ late = <<>>
    /\ acked = {}
    /\ inbox = <<>>
    /\ stale = <<>>
    /\ outbox = <<>>
    /\ runs = [m \in Operations |-> 0]

Next == Submit \/ Receipt \/ Runner \/ Daemon

Spec == Init /\ [][Next]_vars

(* A handler runs on, its timer fires, and the gate, a channel token that  *)
(* waiting handlers receive in turn, reaches each of them.                 *)
Fairness ==
    /\ WF_vars(RouteUnknown \/ SubmitFails \/ Send)
    /\ WF_vars(Answered \/ GiveUp)
    /\ WF_vars(Complete)
    /\ \A m \in Operations : SF_vars(Begin(m))

FairSpec == Spec /\ Fairness

-----------------------------------------------------------------------------
(* Properties.                                                             *)

Stages   == {"idle", "begun", "waiting", "decided"}
Requests == [op : Operations \cup {NoOperation}, stage : Stages,
             lookup : Lookups, ours : BOOLEAN, verdict : Outcomes]

(* Every variable has its type, and late answers stay within their limit.  *)
TypeOK ==
    /\ record \in [Operations -> Outcomes]
    /\ post \in [Operations -> Lookups]
    /\ req \in Requests /\ (req.stage # "idle" => req.op \in Operations)
    /\ reading \in Operations \cup {NoOperation}
    /\ target \in {"live", "lost", "exited", "gone"}
    /\ alive \in BOOLEAN
    /\ waiters \subseteq Operations
    /\ slots \in [Operations -> Answers \cup {"empty"}]
    /\ late \in Seq(Results) /\ Len(late) <= LateLimit
    /\ acked \subseteq Operations
    /\ inbox \in Seq(Operations)
    /\ stale \in Seq(Operations)
    /\ outbox \in Seq(Results)
    /\ runs \in [Operations -> Nat]

(* A receipt that offers a retry is right for good: the runner has not     *)
(* taken the message, and nothing on its way to the runner still can.      *)
RetryIsSafe ==
    \A m \in Operations :
        record[m].status = "not-delivered" => runs[m] = 0 /\ ~In(m, inbox) /\ ~In(m, stale)

(* The runner takes a message at most once, although it does not remember  *)
(* operation ids and every receipt may be asked for again.                 *)
AtMostOneRun == \A m \in Operations : runs[m] <= 1

(* An accepted receipt, whichever answer settled it, is about a message    *)
(* the runner took.                                                        *)
AcceptedWasTaken == \A m \in Operations : record[m].status = "accepted" => runs[m] = 1

(* An acceptance that reached this connection is never lost to the race    *)
(* between the reader of the answer and a caller that gives up: while the  *)
(* receipt is unknown, the answer is kept, unless newer ones evicted it.   *)
Kept(m) == LateAccepted(m) \/ (Len(late) = LateLimit /\ ~Known(m))
NoAcceptanceForgotten == \A m \in acked : Confirmable(m) => Kept(m)

(* Every submit gets the gate and is answered: no lost answer, connection  *)
(* or runner keeps the gate, and no handler waits for it for ever.         *)
EverySubmitIsAnswered ==
    \A m \in Operations : /\ post[m] # "none" ~> post[m] = "none"
                          /\ req.op = m ~> req.op # m

(* The store, the handlers and the connection implement the promise.       *)
ReceiptOf(m) == CASE record[m].status = "none" -> "none"
                  [] record[m].status \in {"torn", "pending"} -> "open"
                  [] record[m].status = "not-delivered" -> "retry"
                  [] OTHER -> record[m].status
Promise == INSTANCE DeliveryPromise WITH receipt <- [m \in Operations |-> ReceiptOf(m)]
PromiseSpec == Promise!Spec

(* "An unknown/exited target is `not-delivered` with `retry:true`"         *)
(* (http-api.md:2118).                                                     *)
ExitedTargetIsRefused ==
    [][req.lookup = "exited" /\ req'.stage = "decided" => req'.verdict = Refusal]_vars

(* "No receipt ever moves toward looking safe to resend"                   *)
(* (http-api.md:2267).                                                     *)
NeverTowardsResend ==
    [][\A m \in Operations : Shown(m) = "unknown" => Shown(m)' # "not-delivered"]_vars

-----------------------------------------------------------------------------
(* The inductive invariant, part by part.                                  *)

(* No request for the message exists anywhere, and it was never taken.     *)
Unsent(m) == runs[m] = 0 /\ ~In(m, inbox) /\ ~In(m, stale)
Answering(m) == \E i \in 1..Len(outbox) : outbox[i].op = m
Unanswered(m) == slots[m] = "empty" /\ ~Answering(m)

(* A receipt that may be executed has left no trace but its refusal, and   *)
(* the handler of a pending one is where its stage says.                   *)
Traceless ==
    \A m \in Operations :
        record[m].status \in {"none", "torn", "not-delivered"} \/ (req.op = m /\ req.stage = "begun")
            => Unsent(m) /\ Unanswered(m)

HandlerOK ==
    /\ req.stage = "idle" <=> req.op = NoOperation
    /\ req.op # NoOperation => record[req.op] = Pending
    /\ req.stage = "decided" =>
          /\ req.verdict.status \in {"accepted", "unknown", "not-delivered"}
          /\ req.verdict.status = "not-delivered" => Unsent(req.op) /\ Unanswered(req.op)
          /\ req.verdict.status = "accepted" => runs[req.op] = 1

(* At most one request of an operation is on its way, and then nothing     *)
(* answered it and its receipt is not settled.                             *)
OneRequest ==
    /\ Distinct(inbox)
    /\ Distinct(stale)
    /\ \A m \in Operations : ~(In(m, inbox) /\ In(m, stale))
    /\ \A m \in Operations :
          In(m, inbox) \/ In(m, stale) => /\ runs[m] = 0
                                          /\ Unanswered(m)
                                          /\ record[m].status \in {"pending", "unknown"}

(* Only the waiting handler has a waiter, or an answer in its channel.     *)
FreshChannel ==
    \A m \in Operations :
        slots[m] # "empty" \/ m \in waiters => req.op = m /\ req.stage = "waiting"

(* An answer tells what became of the only request there was.              *)
Truthful(m, answer) ==
    /\ answer = "accepted" => runs[m] = 1
    /\ answer = "refused" => Unsent(m)

AnswersOK ==
    /\ \A i \in 1..Len(outbox) : Truthful(outbox[i].op, outbox[i].answer)
    /\ \A i, j \in 1..Len(outbox) : outbox[i].op = outbox[j].op => i = j
    /\ \A m \in Operations :
          slots[m] # "empty" => /\ Truthful(m, slots[m])
                                /\ ~Answering(m)
    /\ \A i \in 1..Len(late) : late[i].answer = "accepted" => runs[late[i].op] = 1
    /\ reading # NoReading => runs[reading] = 1

IInv == /\ TypeOK
        /\ Traceless
        /\ HandlerOK
        /\ OneRequest
        /\ AnswersOK
        /\ FreshChannel
        /\ AcceptedWasTaken
        /\ AtMostOneRun

(* An accepted answer that was read is in the channel of the handler that  *)
(* waits on this connection, or has settled the receipt or is about to.    *)
InChannel(m) == slots[m] = "accepted" /\ req.op = m /\ req.ours
Settled(m) ==
    record[m] # Doubt /\ (req.op = m => req.stage = "decided" /\ req.verdict # Doubt)

Somewhere(m) == Kept(m) \/ InChannel(m) \/ Settled(m)

(* It is the only answer there will be.                                    *)
OnlyAnswer(m) == runs[m] = 1 /\ ~Answering(m) /\ slots[m] \in {"empty", "accepted"}

AcceptancesAreSomewhere == \A m \in acked : OnlyAnswer(m) /\ Somewhere(m)

(* An operation has one late answer at most.                               *)
LateDistinct == \A i, j \in 1..Len(late) : late[i].op = late[j].op => i = j

(* A handler with a waiter waits on the session's current connection.      *)
WaitersAreOurs ==
    /\ waiters # {} => target = "live" /\ req.ours
    /\ target = "live" => alive
    /\ req.stage \in {"idle", "begun"} => req.ours

AckInv == AcceptancesAreSomewhere /\ LateDistinct /\ WaitersAreOurs

=============================================================================
