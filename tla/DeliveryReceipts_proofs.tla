----------------------- MODULE DeliveryReceipts_proofs -----------------------
(***************************************************************************)
(* Proofs about the delivery receipts of one session, for every set of     *)
(* operations, every limit of late answers, and any writes that fail.      *)
(***************************************************************************)
EXTENDS DeliveryReceipts, TLAPS

-----------------------------------------------------------------------------
(* Queues of the wire.                                                     *)

LEMMA AppendFacts ==
    ASSUME NEW S, NEW queue \in Seq(S), NEW x \in S
    PROVE  /\ Append(queue, x) \in Seq(S)
           /\ \A m : In(m, Append(queue, x)) <=> In(m, queue) \/ m = x
           /\ Distinct(queue) /\ ~In(x, queue) => Distinct(Append(queue, x))
BY DEF In, Distinct

LEMMA TailFacts ==
    ASSUME NEW S, NEW queue \in Seq(S), queue # <<>>
    PROVE  /\ Tail(queue) \in Seq(S)
           /\ Head(queue) \in S
           /\ In(Head(queue), queue)
           /\ \A m : In(m, Tail(queue)) => In(m, queue)
           /\ Distinct(queue) => Distinct(Tail(queue)) /\ ~In(Head(queue), Tail(queue))
BY DEF In, Distinct

LEMMA ConcatFacts ==
    ASSUME NEW S, NEW first \in Seq(S), NEW second \in Seq(S)
    PROVE  /\ first \o second \in Seq(S)
           /\ \A m : In(m, first \o second) <=> In(m, first) \/ In(m, second)
           /\ /\ Distinct(first) /\ Distinct(second)
              /\ \A m : ~(In(m, first) /\ In(m, second))
              => Distinct(first \o second)
<1> DEFINE both == first \o second
<1>1. /\ both \in Seq(S)
      /\ Len(both) = Len(first) + Len(second)
      /\ \A i \in 1..Len(both) :
            both[i] = IF i <= Len(first) THEN first[i] ELSE second[i - Len(first)]
  OBVIOUS
<1>2. ASSUME NEW m PROVE In(m, both) <=> In(m, first) \/ In(m, second)
  <2>1. ASSUME In(m, both) PROVE In(m, first) \/ In(m, second)
    BY <1>1, <2>1 DEF In
  <2>2. ASSUME In(m, first) PROVE In(m, both)
    <3>1. PICK i \in 1..Len(first) : first[i] = m
      BY <2>2 DEF In
    <3>2. i \in 1..Len(both) /\ both[i] = m
      BY <1>1, <3>1
    <3> QED
      BY <3>2 DEF In
  <2>3. ASSUME In(m, second) PROVE In(m, both)
    <3>1. PICK i \in 1..Len(second) : second[i] = m
      BY <2>3 DEF In
    <3>2. i + Len(first) \in 1..Len(both) /\ both[i + Len(first)] = m
      BY <1>1, <3>1
    <3> QED
      BY <3>2 DEF In
  <2> QED
    BY <2>1, <2>2, <2>3
<1>3. ASSUME Distinct(first), Distinct(second), \A m : ~(In(m, first) /\ In(m, second))
      PROVE  Distinct(both)
  <2> SUFFICES ASSUME NEW i \in 1..Len(both), NEW j \in 1..Len(both), both[i] = both[j]
               PROVE  i = j
    BY DEF Distinct
  <2>1. CASE i <= Len(first) /\ j <= Len(first)
    <3>1. i \in 1..Len(first) /\ j \in 1..Len(first) /\ first[i] = first[j]
      BY <1>1, <2>1
    <3> QED
      BY <1>3, <3>1 DEF Distinct
  <2>2. CASE ~(i <= Len(first)) /\ ~(j <= Len(first))
    <3>1. /\ i - Len(first) \in 1..Len(second)
          /\ j - Len(first) \in 1..Len(second)
          /\ second[i - Len(first)] = second[j - Len(first)]
      BY <1>1, <2>2
    <3>2. i - Len(first) = j - Len(first)
      BY <1>3, <3>1 DEF Distinct
    <3> QED
      BY <1>1, <3>2
  <2>3. ASSUME NEW k \in 1..Len(both), NEW l \in 1..Len(both), both[k] = both[l],
               k <= Len(first), ~(l <= Len(first))
        PROVE  FALSE
    <3>1. k \in 1..Len(first) /\ l - Len(first) \in 1..Len(second)
      BY <1>1, <2>3
    <3>2. first[k] = second[l - Len(first)]
      BY <1>1, <2>3
    <3> QED
      BY <1>3, <3>1, <3>2 DEF In
  <2> QED
    BY <2>1, <2>2, <2>3
<1> QED
  BY <1>1, <1>2, <1>3

LEMMA EmptyFacts == /\ \A S : <<>> \in Seq(S)
                    /\ \A m : ~In(m, <<>>)
                    /\ Distinct(<<>>)
BY DEF In, Distinct

-----------------------------------------------------------------------------
(* Type correctness.                                                       *)

LEMMA OutcomeType ==
    \A status \in Statuses, acceptance \in Acceptances : Outcome(status, acceptance) \in Outcomes
BY DEF Outcome, Outcomes

LEMMA ConstantTypes ==
    /\ Untouched \in Outcomes
    /\ Pending \in Outcomes
    /\ Refusal \in Outcomes
    /\ Doubt \in Outcomes
    /\ NoRequest \in Requests
<1>1. Untouched \in Outcomes /\ Pending \in Outcomes /\ Refusal \in Outcomes /\ Doubt \in Outcomes
  BY OutcomeType DEF Untouched, Pending, Refusal, Doubt, Statuses, Acceptances
<1>2. NoRequest \in Requests
  BY <1>1 DEF NoRequest, Requests, Lookups, Stages
<1> QED
  BY <1>1, <1>2

LEMMA StatusFacts ==
    /\ \A status, acceptance : Outcome(status, acceptance).status = status
    /\ Untouched.status = "none"
    /\ Pending.status = "pending"
    /\ Refusal.status = "not-delivered"
    /\ Doubt.status = "unknown"
<1>1. \A status, acceptance : Outcome(status, acceptance).status = status
  BY DEF Outcome
<1> QED
  BY <1>1 DEF Untouched, Pending, Refusal, Doubt

LEMMA RetainedType ==
    ASSUME TypeOK, NEW result \in Results
    PROVE  Retained(result) \in Seq(Results) /\ Len(Retained(result)) <= LateLimit
<1>1. CASE Known(result.op)
  <2>1. Replaced(result) \in Seq(Results) /\ Len(Replaced(result)) = Len(late)
    BY DEF Replaced, TypeOK
  <2> QED
    BY <1>1, <2>1 DEF Retained, TypeOK
<1>2. CASE ~Known(result.op)
  BY <1>2, LateLimitAssumption DEF Retained, TypeOK
<1> QED
  BY <1>1, <1>2

LEMMA DecideType ==
    ASSUME TypeOK, NEW verdict \in Outcomes, Decide(verdict), req.stage # "idle"
    PROVE  /\ req' \in Requests
           /\ req'.stage # "idle" => req'.op \in Operations
BY DEF TypeOK, Decide, Requests, Stages

LEMMA TypeInit == Init => TypeOK
<1> SUFFICES ASSUME Init PROVE TypeOK
  OBVIOUS
<1>1. record \in [Operations -> Outcomes]
  BY ConstantTypes DEF Init
<1>2. /\ post \in [Operations -> Lookups]
      /\ slots \in [Operations -> Answers \cup {"empty"}]
      /\ runs \in [Operations -> Nat]
  BY DEF Init, Lookups
<1>3. /\ late \in Seq(Results) /\ Len(late) <= LateLimit
      /\ inbox \in Seq(Operations) /\ stale \in Seq(Operations) /\ outbox \in Seq(Results)
  BY EmptyFacts, LateLimitAssumption DEF Init
<1>4. req \in Requests /\ (req.stage # "idle" => req.op \in Operations)
  BY ConstantTypes DEF Init, NoRequest
<1> QED
  BY <1>1, <1>2, <1>3, <1>4 DEF Init, TypeOK, NoReading

LEMMA TypeSubmit == TypeOK /\ Submit => TypeOK'
<1> SUFFICES ASSUME TypeOK, Submit PROVE TypeOK'
  OBVIOUS
<1> USE DEF TypeOK, connection, wire
<1> DEFINE ReqType == req \in Requests /\ (req.stage # "idle" => req.op \in Operations)
<1>1. ASSUME NEW m \in Operations, Post(m) PROVE TypeOK'
  <2>1. post' \in [Operations -> Lookups]
    BY <1>1 DEF Post, Lookups, Found
  <2> QED
    BY <1>1, <2>1 DEF Post
<1>2. ASSUME NEW m \in Operations, Begin(m) PROVE TypeOK'
  <2>1. post' \in [Operations -> Lookups]
    BY <1>2 DEF Begin, Lookups
  <2>2. record' \in [Operations -> Outcomes]
    BY <1>2, ConstantTypes DEF Begin
  <2>3. ReqType'
    <3>1. CASE UNCHANGED req
      BY <3>1
    <3>2. CASE req' = [NoRequest EXCEPT !.op = m, !.stage = "begun", !.lookup = post[m]]
      BY <3>2, ConstantTypes DEF Requests, Stages, NoRequest
    <3> QED
      BY <1>2, <3>1, <3>2 DEF Begin
  <2> HIDE DEF ReqType
  <2> QED
    BY <1>2, <2>1, <2>2, <2>3 DEF Begin, ReqType
<1>3. CASE RouteUnknown
  <2>1. ReqType'
    BY <1>3, DecideType, ConstantTypes DEF RouteUnknown
  <2> QED
    BY <1>3, <2>1 DEF RouteUnknown
<1>4. CASE SubmitFails
  <2>1. ReqType'
    BY <1>4, DecideType, ConstantTypes DEF SubmitFails
  <2> QED
    BY <1>4, <2>1 DEF SubmitFails
<1>5. CASE Send
  <2>1. req.op \in Operations
    BY <1>5 DEF Send
  <2>2. ReqType'
    BY <1>5, <2>1 DEF Send, Requests, Stages
  <2>3. inbox' \in Seq(Operations)
    BY <1>5, <2>1, AppendFacts DEF Send
  <2> QED
    BY <1>5, <2>1, <2>2, <2>3 DEF Send
<1>6. CASE Answered
  <2>1. PICK verdict \in Outcomes : Decide(verdict)
    BY <1>6, ConstantTypes, OutcomeType DEF Answered, Statuses, Acceptances
  <2>2. ReqType'
    BY <1>6, <2>1, DecideType DEF Answered
  <2>3. slots' \in [Operations -> Answers \cup {"empty"}] /\ waiters' \subseteq Operations
    BY <1>6 DEF Answered
  <2> QED
    BY <1>6, <2>2, <2>3 DEF Answered
<1>7. CASE GiveUp
  <2>1. ReqType'
    BY <1>7, DecideType, ConstantTypes DEF GiveUp, GiveUpVerdict, TimedOut
  <2>2. req.op \in Operations
    BY <1>7 DEF GiveUp, TimedOut
  <2>3. late' \in Seq(Results) /\ Len(late') <= LateLimit
    <3>1. CASE slots[req.op] # "empty" /\ req.ours
      <4>1. [op |-> req.op, answer |-> slots[req.op]] \in Results
        BY <2>2, <3>1 DEF Results
      <4> QED
        BY <1>7, <3>1, <4>1, RetainedType DEF GiveUp, LateAfter
    <3>2. CASE ~(slots[req.op] # "empty" /\ req.ours)
      BY <1>7, <3>2 DEF GiveUp, LateAfter
    <3> QED
      BY <3>1, <3>2
  <2>4. slots' \in [Operations -> Answers \cup {"empty"}] /\ waiters' \subseteq Operations
    BY <1>7 DEF GiveUp
  <2> QED
    BY <1>7, <2>1, <2>3, <2>4 DEF GiveUp
<1>8. CASE Complete
  <2>1. req.verdict \in Outcomes
    BY DEF Requests
  <2>2. record' \in [Operations -> Outcomes]
    BY <1>8, <2>1 DEF Complete, Completed
  <2>3. ReqType'
    BY <1>8, ConstantTypes DEF Complete, NoRequest
  <2> QED
    BY <1>8, <2>2, <2>3 DEF Complete
<1> QED
  BY <1>1, <1>2, <1>3, <1>4, <1>5, <1>6, <1>7, <1>8 DEF Submit

LEMMA TypeReceipt == TypeOK /\ Receipt => TypeOK'
<1> SUFFICES ASSUME TypeOK, Receipt PROVE TypeOK'
  OBVIOUS
<1> USE DEF TypeOK, connection, wire
<1>1. ASSUME NEW m \in Operations, Read(m) PROVE TypeOK'
  BY <1>1 DEF Read
<1>2. CASE Confirm
  <2>1. Outcome("accepted", "boundary") \in Outcomes
    BY OutcomeType DEF Statuses, Acceptances
  <2>2. record' \in [Operations -> Outcomes]
    BY <1>2, <2>1 DEF Confirm, Confirmed
  <2> QED
    BY <1>2, <2>2 DEF Confirm, NoReading
<1> QED
  BY <1>1, <1>2 DEF Receipt

LEMMA TypeRunner == TypeOK /\ Runner => TypeOK'
<1> SUFFICES ASSUME TypeOK, Runner PROVE TypeOK'
  OBVIOUS
<1> USE DEF TypeOK, connection, wire
<1>1. ASSUME NEW m \in Operations, NEW answer, Treat(m, answer) PROVE runs' \in [Operations -> Nat]
  BY <1>1 DEF Treat, Took
<1>2. CASE RunnerAnswers
  <2>1. PICK answer \in Answers : /\ Treat(Head(inbox), answer)
                                  /\ outbox' = Append(outbox, [op |-> Head(inbox), answer |-> answer])
    BY <1>2 DEF RunnerAnswers
  <2>2. Head(inbox) \in Operations /\ Tail(inbox) \in Seq(Operations)
    BY <1>2, TailFacts DEF RunnerAnswers
  <2>3. outbox' \in Seq(Results)
    BY <2>1, <2>2, AppendFacts DEF Results
  <2> QED
    BY <1>1, <1>2, <2>1, <2>2, <2>3 DEF RunnerAnswers
<1>3. CASE StaleRequest
  <2>1. Head(stale) \in Operations /\ Tail(stale) \in Seq(Operations)
    BY <1>3, TailFacts DEF StaleRequest
  <2> QED
    BY <1>1, <1>3, <2>1 DEF StaleRequest
<1>4. CASE RunnerExits
  BY <1>4, EmptyFacts DEF RunnerExits
<1> QED
  BY <1>2, <1>3, <1>4 DEF Runner

LEMMA TypeDaemon == TypeOK /\ Daemon => TypeOK'
<1> SUFFICES ASSUME TypeOK, Daemon PROVE TypeOK'
  OBVIOUS
<1> USE DEF TypeOK, connection, wire
<1>1. CASE DeliverAnswer
  <2>1. Head(outbox) \in Results /\ Tail(outbox) \in Seq(Results)
    BY <1>1, TailFacts DEF DeliverAnswer
  <2>2. late' \in Seq(Results) /\ Len(late') <= LateLimit
    BY <1>1, <2>1, RetainedType DEF DeliverAnswer
  <2>3. slots' \in [Operations -> Answers \cup {"empty"}]
    BY <1>1, <2>1 DEF DeliverAnswer, Results
  <2>4. acked' \subseteq Operations
    BY <1>1, <2>1 DEF DeliverAnswer, Results
  <2> QED
    BY <1>1, <2>1, <2>2, <2>3, <2>4 DEF DeliverAnswer
<1>2. CASE ConnectionLost
  BY <1>2, ConcatFacts, EmptyFacts DEF ConnectionLost
<1>3. CASE Reconnect \/ Forgotten
  <2>1. req' \in Requests /\ (req'.stage # "idle" => req'.op \in Operations)
    BY <1>3 DEF Reconnect, Forgotten, Requests
  <2>2. late' \in Seq(Results) /\ Len(late') <= LateLimit
    <3>1. late' = <<>>
      BY <1>3 DEF Reconnect, Forgotten
    <3> QED
      BY <3>1, EmptyFacts, LateLimitAssumption
  <2> QED
    BY <1>3, <2>1, <2>2 DEF Reconnect, Forgotten
<1>4. CASE DaemonRestarts
  <2>1. record' \in [Operations -> Outcomes]
    <3>1. Outcome("torn", "") \in Outcomes
      BY OutcomeType DEF Statuses, Acceptances
    <3> QED
      BY <1>4, <3>1 DEF DaemonRestarts, RecordAfterCrash
  <2>2. post' \in [Operations -> Lookups]
    BY <1>4 DEF DaemonRestarts, Lookups
  <2>3. stale' \in Seq(Operations)
    BY <1>4, ConcatFacts DEF DaemonRestarts
  <2>4. /\ late' \in Seq(Results) /\ Len(late') <= LateLimit
        /\ inbox' \in Seq(Operations) /\ outbox' \in Seq(Results)
    BY <1>4, EmptyFacts, LateLimitAssumption DEF DaemonRestarts
  <2>5. req' \in Requests /\ (req'.stage # "idle" => req'.op \in Operations)
    BY <1>4, ConstantTypes DEF DaemonRestarts, NoRequest
  <2> QED
    BY <1>4, <2>1, <2>2, <2>3, <2>4, <2>5 DEF DaemonRestarts, NoReading
<1> QED
  BY <1>1, <1>2, <1>3, <1>4 DEF Daemon

LEMMA TypeNext == TypeOK /\ [Next]_vars => TypeOK'
<1>1. TypeOK /\ UNCHANGED vars => TypeOK'
  BY DEF TypeOK, vars, connection, wire
<1> QED
  BY <1>1, TypeSubmit, TypeReceipt, TypeRunner, TypeDaemon DEF Next

(* Every variable of the receipts keeps its type, and never more than      *)
(* LateLimit late answers are kept.                                        *)
THEOREM ReceiptTypes == Spec => []TypeOK
BY TypeInit, TypeNext, PTL DEF Spec


-----------------------------------------------------------------------------
(* The inductive invariant: the steps that leave the wire alone.           *)

LEMMA InitInv == Init => IInv
<1> SUFFICES ASSUME Init PROVE IInv
  OBVIOUS
<1>1. \A m \in Operations : Unsent(m) /\ Unanswered(m)
  <2>1. \A m : ~In(m, inbox) /\ ~In(m, stale)
    BY EmptyFacts DEF Init
  <2>2. Len(outbox) = 0
    BY DEF Init
  <2>3. \A m : ~Answering(m)
    BY <2>2 DEF Answering
  <2> QED
    BY <2>1, <2>3 DEF Init, Unsent, Unanswered
<1>2. HandlerOK
  BY DEF Init, HandlerOK, NoRequest
<1>3. Traceless /\ OneRequest /\ FreshChannel
  BY <1>1, EmptyFacts DEF Init, Traceless, OneRequest, FreshChannel
<1>4. AnswersOK
  BY DEF Init, AnswersOK, NoReading
<1>5. AcceptedWasTaken /\ AtMostOneRun
  BY StatusFacts DEF Init, AcceptedWasTaken, AtMostOneRun
<1> QED
  BY <1>2, <1>3, <1>4, <1>5, TypeInit DEF IInv

(* A step that touches neither the wire, nor a channel, nor the runner     *)
(* keeps the invariant when what it writes to receipts, handler and memory *)
(* agrees with what is on the wire.                                        *)
LEMMA QuietStep ==
    ASSUME IInv, TypeOK', HandlerOK',
           UNCHANGED <<waiters, slots, wire, runs>>,
           \A m \in Operations :
              \/ record'[m] = record[m]
              \/ record'[m].status = "unknown"
              \/ record'[m].status = "accepted" /\ runs[m] = 1
              \/ Unsent(m) /\ Unanswered(m) /\ record'[m].status # "accepted",
           req'.stage = "begun" => Unsent(req'.op) /\ Unanswered(req'.op),
           \A m \in Operations :
              slots[m] # "empty" \/ m \in waiters => req'.op = m /\ req'.stage = "waiting",
           \A i \in 1..Len(late') : late'[i].answer = "accepted" => runs[late'[i].op] = 1,
           reading' # NoReading => runs[reading'] = 1
    PROVE  IInv'
<1>1. /\ \A m \in Operations : Unsent(m)' <=> Unsent(m)
      /\ \A m \in Operations : Unanswered(m)' <=> Unanswered(m)
  BY DEF Unsent, Unanswered, Answering, wire
<1>2. Traceless'
  BY <1>1 DEF IInv, Traceless
<1>3. OneRequest'
  BY DEF IInv, OneRequest, Unsent, Unanswered, Answering, wire
<1>4. AnswersOK'
  <2>1. /\ \A i \in 1..Len(outbox) : Truthful(outbox[i].op, outbox[i].answer)'
        /\ \A m \in Operations : slots[m] # "empty" => Truthful(m, slots[m])' /\ ~Answering(m)'
    BY DEF IInv, AnswersOK, Truthful, Unsent, Answering, wire
  <2> QED
    BY <2>1 DEF IInv, AnswersOK, wire
<1>5. FreshChannel'
  BY DEF FreshChannel
<1>6. AcceptedWasTaken' /\ AtMostOneRun'
  BY DEF IInv, AcceptedWasTaken, AtMostOneRun
<1> QED
  BY <1>2, <1>3, <1>4, <1>5, <1>6 DEF IInv

(* Facts about the operation whose handler holds the gate.                 *)
LEMMA HandlerFacts ==
    ASSUME IInv, req.stage # "idle"
    PROVE  /\ req.op \in Operations
           /\ req.op # NoOperation
           /\ record[req.op] = Pending
           /\ record[req.op].status = "pending"
           /\ req.stage = "begun" => Unsent(req.op) /\ Unanswered(req.op)
<1>1. req.op \in Operations /\ req.op # NoOperation
  BY NoOperationAssumption DEF IInv, TypeOK
<1>2. record[req.op] = Pending
  BY <1>1 DEF IInv, HandlerOK
<1>3. req.stage = "begun" => Unsent(req.op) /\ Unanswered(req.op)
  BY <1>1 DEF IInv, Traceless
<1> QED
  BY <1>1, <1>2, <1>3, StatusFacts

LEMMA PostInv ==
    ASSUME IInv, TypeOK', NEW m \in Operations, Post(m)
    PROVE  IInv'
<1>1. UNCHANGED <<record, req, reading, connection, wire, runs>>
  BY DEF Post
<1>2. HandlerOK'
  BY <1>1 DEF IInv, HandlerOK, Unsent, Unanswered, Answering, wire, connection
<1> QED
  BY <1>1, <1>2, QuietStep, HandlerFacts
     DEF IInv, FreshChannel, AnswersOK, connection

LEMMA BeginInv ==
    ASSUME IInv, TypeOK', NEW m \in Operations, Begin(m)
    PROVE  IInv'
<1>1. UNCHANGED <<reading, connection, wire, runs>> /\ req = NoRequest
  BY DEF Begin
<1>2. CASE UNCHANGED <<record, req>>
  <2>1. HandlerOK'
    BY <1>1, <1>2 DEF IInv, HandlerOK, Unsent, Unanswered, Answering, wire, connection
  <2> QED
    BY <1>1, <1>2, <2>1, QuietStep, HandlerFacts DEF IInv, FreshChannel, AnswersOK, connection
<1>3. CASE /\ MayExecute(m)
           /\ record' = [record EXCEPT ![m] = Pending]
           /\ req' = [NoRequest EXCEPT !.op = m, !.stage = "begun", !.lookup = post[m]]
  <2>1. Unsent(m) /\ Unanswered(m)
    BY <1>3 DEF IInv, Traceless, MayExecute
  <2>2. req'.op = m /\ req'.stage = "begun"
    BY <1>3 DEF NoRequest
  <2>3. record \in [Operations -> Outcomes]
    BY DEF IInv, TypeOK
  <2>4. record'[m] = Pending /\ \A n \in Operations \ {m} : record'[n] = record[n]
    BY <1>3, <2>3
  <2>5. HandlerOK'
    BY <2>2, <2>4, NoOperationAssumption DEF HandlerOK
  <2>6. \A n \in Operations : ~(slots[n] # "empty" \/ n \in waiters)
    BY <1>1 DEF IInv, FreshChannel, NoRequest
  <2>7. Pending.status # "accepted"
    BY DEF Pending, Outcome
  <2>8. late' = late /\ reading' = reading /\ UNCHANGED <<waiters, slots>>
    BY <1>1 DEF connection
  <2> QED
    BY <1>1, <2>1, <2>2, <2>4, <2>5, <2>6, <2>7, <2>8, QuietStep DEF IInv, AnswersOK
<1> QED
  BY <1>2, <1>3 DEF Begin

(* A decision before anything was sent.                                    *)
LEMMA EarlyDecision ==
    ASSUME IInv, TypeOK', req.stage = "begun", NEW verdict \in {Refusal, Doubt}, Decide(verdict),
           UNCHANGED <<record, post, reading, target, alive, connection, wire, runs>>
    PROVE  IInv'
<1>1. /\ req' = [req EXCEPT !.stage = "decided", !.verdict = verdict]
      /\ req \in Requests
  BY DEF Decide, IInv, TypeOK
<1>2. req'.op = req.op /\ req'.stage = "decided" /\ req'.verdict = verdict
  BY <1>1 DEF Requests
<1>3. verdict.status \in {"not-delivered", "unknown"}
  BY StatusFacts
<1>4. Unsent(req.op)' /\ Unanswered(req.op)' /\ req.op # NoOperation /\ record[req.op] = Pending
  BY <1>2, HandlerFacts DEF Unsent, Unanswered, Answering, wire, connection
<1>5. HandlerOK'
  BY <1>2, <1>3, <1>4 DEF HandlerOK, Unsent, Unanswered, Answering
<1>6. \A n \in Operations : ~(slots[n] # "empty" \/ n \in waiters)
  BY DEF IInv, FreshChannel
<1>7. late' = late /\ reading' = reading /\ UNCHANGED <<waiters, slots>>
  BY DEF connection
<1> QED
  BY <1>2, <1>5, <1>6, <1>7, QuietStep DEF IInv, AnswersOK

LEMMA RouteUnknownInv ==
    ASSUME IInv, TypeOK', RouteUnknown
    PROVE  IInv'
BY EarlyDecision DEF RouteUnknown

LEMMA SubmitFailsInv ==
    ASSUME IInv, TypeOK', SubmitFails
    PROVE  IInv'
BY EarlyDecision DEF SubmitFails

LEMMA CompleteInv ==
    ASSUME IInv, TypeOK', Complete
    PROVE  IInv'
<1>1. /\ req.stage = "decided" /\ req' = NoRequest
      /\ UNCHANGED <<waiters, slots, late, reading, wire, runs>>
  BY DEF Complete, connection
<1>2. req.op \in Operations /\ record[req.op].status = "pending"
  BY <1>1, HandlerFacts
<1>3. record \in [Operations -> Outcomes]
  BY DEF IInv, TypeOK
<1>4. /\ record'[req.op] \in {record[req.op], req.verdict}
      /\ \A m \in Operations \ {req.op} : record'[m] = record[m]
  BY <1>2, <1>3 DEF Complete, Completed
<1>5. HandlerOK'
  BY <1>1 DEF HandlerOK, NoRequest
<1>6. \/ req.verdict.status = "unknown"
      \/ req.verdict.status = "accepted" /\ runs[req.op] = 1
      \/ req.verdict.status = "not-delivered" /\ Unsent(req.op) /\ Unanswered(req.op)
  BY <1>1 DEF IInv, HandlerOK
<1>7. \A m \in Operations : ~(slots[m] # "empty" \/ m \in waiters)
  BY <1>1 DEF IInv, FreshChannel
<1>8. req'.stage = "idle"
  BY <1>1 DEF NoRequest
<1> QED
  BY <1>1, <1>2, <1>4, <1>5, <1>6, <1>7, <1>8, QuietStep DEF IInv, AnswersOK

LEMMA ReadInv ==
    ASSUME IInv, TypeOK', NEW m \in Operations, Read(m)
    PROVE  IInv'
<1>1. UNCHANGED <<record, req, connection, wire, runs>> /\ reading' = m /\ LateAccepted(m)
  BY DEF Read
<1>2. runs[m] = 1
  BY <1>1 DEF LateAccepted, IInv, AnswersOK
<1>3. HandlerOK'
  BY <1>1 DEF IInv, HandlerOK, Unsent, Unanswered, Answering, wire, connection
<1> QED
  BY <1>1, <1>2, <1>3, QuietStep, HandlerFacts DEF IInv, FreshChannel, AnswersOK, connection

LEMMA ConfirmInv ==
    ASSUME IInv, TypeOK', Confirm
    PROVE  IInv'
<1>1. UNCHANGED <<req, connection, wire, runs>> /\ reading' = NoReading /\ reading # NoReading
  BY DEF Confirm
<1>2. reading \in Operations /\ runs[reading] = 1
  BY <1>1 DEF IInv, TypeOK, AnswersOK, NoReading
<1>3. record \in [Operations -> Outcomes]
  BY DEF IInv, TypeOK
<1>4. /\ \A m \in Operations \ {reading} : record'[m] = record[m]
      /\ \/ record'[reading] = record[reading]
         \/ record[reading] = Doubt /\ record'[reading] = Outcome("accepted", "boundary")
  BY <1>2, <1>3 DEF Confirm, Confirmed, Confirmable
<1>5. Outcome("accepted", "boundary").status = "accepted" /\ Doubt # Pending
  BY DEF Outcome, Doubt, Pending
<1>6. HandlerOK'
  <2>1. req.op # NoOperation => record'[req.op] = Pending
    BY <1>4, <1>5 DEF IInv, HandlerOK, TypeOK, Requests
  <2> QED
    BY <1>1, <2>1 DEF IInv, HandlerOK, Unsent, Unanswered, Answering, wire, connection
<1>7. UNCHANGED <<waiters, slots, late>>
  BY <1>1 DEF connection
<1> QED
  BY <1>1, <1>2, <1>4, <1>5, <1>6, <1>7, QuietStep, HandlerFacts DEF IInv, FreshChannel, AnswersOK

(* A connection that is replaced or forgotten loses its late answers only. *)
LEMMA NewConnectionInv ==
    ASSUME IInv, TypeOK', late' = <<>>,
           req' = IF req.stage = "waiting" THEN [req EXCEPT !.ours = FALSE] ELSE req,
           UNCHANGED <<record, reading, waiters, slots, wire, runs>>
    PROVE  IInv'
<1>1. req'.op = req.op /\ req'.stage = req.stage /\ req'.verdict = req.verdict
  BY DEF IInv, TypeOK, Requests
<1>2. HandlerOK'
  BY <1>1 DEF IInv, HandlerOK, Unsent, Unanswered, Answering, wire
<1> QED
  BY <1>1, <1>2, QuietStep, HandlerFacts DEF IInv, FreshChannel, AnswersOK

LEMMA ReconnectInv ==
    ASSUME IInv, TypeOK', Reconnect
    PROVE  IInv'
BY NewConnectionInv DEF Reconnect

LEMMA ForgottenInv ==
    ASSUME IInv, TypeOK', Forgotten
    PROVE  IInv'
BY NewConnectionInv DEF Forgotten

-----------------------------------------------------------------------------
(* The steps that change channels or the wire.                             *)

LEMMA OutboxTypes ==
    ASSUME TypeOK
    PROVE  \A i \in 1..Len(outbox) : outbox[i] \in Results /\ outbox[i].op \in Operations
<1>1. \A i \in 1..Len(outbox) : outbox[i] \in Results
  BY DEF TypeOK
<1> QED
  BY <1>1 DEF Results

LEMMA LateTypes ==
    ASSUME TypeOK
    PROVE  \A i \in 1..Len(late) : late[i] \in Results /\ late[i].op \in Operations
<1>1. \A i \in 1..Len(late) : late[i] \in Results
  BY DEF TypeOK
<1> QED
  BY <1>1 DEF Results

LEMMA SendInv ==
    ASSUME IInv, TypeOK', Send
    PROVE  IInv'
<1>0. PICK o : o = req.op
  OBVIOUS
<1>1. /\ req.stage = "begun" /\ o \notin waiters
      /\ waiters' = waiters \cup {o}
      /\ inbox' = Append(inbox, o)
      /\ UNCHANGED <<record, reading, slots, late, stale, outbox, runs>>
  BY <1>0 DEF Send
<1>2. o \in Operations /\ record[o] = Pending /\ record[o].status = "pending"
      /\ o # NoOperation /\ Unsent(o) /\ Unanswered(o)
  BY <1>0, <1>1, HandlerFacts
<1>3. req'.op = o /\ req'.stage = "waiting"
  BY <1>0 DEF Send, IInv, TypeOK, Requests
<1>4. /\ \A m : In(m, inbox') <=> In(m, inbox) \/ m = o
      /\ Distinct(inbox')
  <2>1. inbox \in Seq(Operations) /\ Distinct(inbox) /\ ~In(o, inbox)
    BY <1>2 DEF IInv, TypeOK, OneRequest, Unsent
  <2> QED
    BY <1>1, <1>2, <2>1, AppendFacts
<1>5. \A m \in Operations : /\ Unanswered(m)' <=> Unanswered(m)
                            /\ Answering(m)' <=> Answering(m)
                            /\ m # o => (Unsent(m)' <=> Unsent(m))
  BY <1>1, <1>4 DEF Unanswered, Answering, Unsent
<1>6. Traceless'
  BY <1>1, <1>2, <1>3, <1>5 DEF IInv, Traceless
<1>7. HandlerOK'
  BY <1>1, <1>2, <1>3 DEF HandlerOK
<1>8. OneRequest'
  BY <1>1, <1>2, <1>4, <1>5 DEF IInv, OneRequest, Unsent
<1>9. AnswersOK'
  <2>1. \A m \in Operations : slots[m] # "empty" => m # o
    BY <1>2 DEF Unanswered
  <2>2. \A i \in 1..Len(outbox) : outbox[i].op \in Operations /\ outbox[i].op # o
    BY <1>2, OutboxTypes DEF Unanswered, Answering, IInv
  <2> QED
    BY <1>1, <1>5, <2>1, <2>2 DEF IInv, AnswersOK, Truthful
<1>10. FreshChannel'
  BY <1>1, <1>2, <1>3 DEF IInv, FreshChannel
<1>11. AcceptedWasTaken' /\ AtMostOneRun'
  BY <1>1 DEF IInv, AcceptedWasTaken, AtMostOneRun
<1> QED
  BY <1>6, <1>7, <1>8, <1>9, <1>10, <1>11 DEF IInv

(* The handler stops waiting: its verdict agrees with what the channel     *)
(* holds, and so do the late answers afterwards.                           *)
LEMMA StopsWaiting ==
    ASSUME IInv, TypeOK', req.stage = "waiting", NEW verdict \in Outcomes, Decide(verdict),
           verdict.status \in {"accepted", "unknown", "not-delivered"},
           verdict.status = "accepted" => slots[req.op] = "accepted",
           verdict.status = "not-delivered" => slots[req.op] = "refused",
           slots' = [slots EXCEPT ![req.op] = "empty"], waiters' = waiters \ {req.op},
           \A i \in 1..Len(late') : late'[i].answer = "accepted" => runs[late'[i].op] = 1,
           UNCHANGED <<record, reading, wire, runs>>
    PROVE  IInv'
<1>0. PICK o : o = req.op
  OBVIOUS
<1>1. o \in Operations /\ o # NoOperation /\ record[o] = Pending /\ record[o].status = "pending"
  BY <1>0, HandlerFacts
<1>2. req'.op = o /\ req'.stage = "decided" /\ req'.verdict = verdict
  BY <1>0 DEF Decide, IInv, TypeOK, Requests
<1>3. slots'[o] = "empty" /\ \A m \in Operations : slots'[m] \in {slots[m], "empty"}
  BY <1>0, <1>1 DEF IInv, TypeOK
<1>4. \A m \in Operations : /\ Unsent(m)' <=> Unsent(m)
                            /\ Answering(m)' <=> Answering(m)
                            /\ Unanswered(m) => Unanswered(m)'
  BY <1>3 DEF Unsent, Unanswered, Answering, wire
<1>5. slots[o] # "empty" => ~Answering(o) /\ Truthful(o, slots[o])
  BY <1>1 DEF IInv, AnswersOK
<1>6. Traceless'
  BY <1>2, <1>4 DEF IInv, Traceless
<1>7. HandlerOK'
  <2>1. verdict.status = "not-delivered" => Unsent(o)' /\ Unanswered(o)'
    BY <1>0, <1>1, <1>3, <1>4, <1>5 DEF Truthful, Unanswered
  <2>2. verdict.status = "accepted" => runs'[o] = 1
    BY <1>0, <1>5 DEF Truthful
  <2>3. Unsent(req.op)' <=> Unsent(o)'
    BY <1>2 DEF Unsent
  <2>4. Unanswered(req.op)' <=> Unanswered(o)'
    BY <1>2 DEF Unanswered, Answering
  <2>5. req'.stage # "idle" /\ req'.op # NoOperation /\ record'[req'.op] = Pending
    BY <1>1, <1>2
  <2> QED
    BY <1>2, <2>1, <2>2, <2>3, <2>4, <2>5 DEF HandlerOK
<1>8. OneRequest'
  BY <1>4 DEF IInv, OneRequest, wire
<1>9. AnswersOK'
  <2>1. \A i \in 1..Len(outbox) : Truthful(outbox[i].op, outbox[i].answer)'
    BY DEF IInv, AnswersOK, Truthful, Unsent, wire
  <2>2. \A m \in Operations : slots'[m] # "empty" => Truthful(m, slots[m])' /\ ~Answering(m)'
    BY <1>3, <1>4 DEF IInv, AnswersOK, Truthful
  <2>3. \A m \in Operations : slots'[m] # "empty" => slots'[m] = slots[m]
    BY <1>3
  <2> QED
    BY <2>1, <2>2, <2>3 DEF IInv, AnswersOK, wire, Truthful
<1>10. FreshChannel'
  BY <1>0, <1>1, <1>3 DEF IInv, FreshChannel
<1>11. AcceptedWasTaken' /\ AtMostOneRun'
  BY DEF IInv, AcceptedWasTaken, AtMostOneRun
<1> QED
  BY <1>6, <1>7, <1>8, <1>9, <1>10, <1>11 DEF IInv

LEMMA AnsweredInv ==
    ASSUME IInv, TypeOK', Answered
    PROVE  IInv'
<1>1. /\ Outcome("accepted", "boundary") \in Outcomes
      /\ Outcome("unknown", "boundary") \in Outcomes
      /\ Outcome("unknown", "unknown") \in Outcomes
      /\ Refusal \in Outcomes
  BY ConstantTypes, OutcomeType DEF Statuses, Acceptances
<1>2. PICK verdict \in Outcomes :
        /\ Decide(verdict)
        /\ verdict.status \in {"accepted", "unknown", "not-delivered"}
        /\ verdict.status = "accepted" => slots[req.op] = "accepted"
        /\ verdict.status = "not-delivered" => slots[req.op] = "refused"
  <2>1. \/ slots[req.op] = "accepted" /\ Decide(Outcome("accepted", "boundary"))
        \/ Decide(Outcome("unknown", "boundary"))
        \/ slots[req.op] = "refused"  /\ Decide(Refusal)
        \/ Decide(Outcome("unknown", "unknown"))
    BY DEF Answered
  <2>2. /\ Outcome("accepted", "boundary").status = "accepted"
        /\ Outcome("unknown", "boundary").status = "unknown"
        /\ Outcome("unknown", "unknown").status = "unknown"
        /\ Refusal.status = "not-delivered"
    BY StatusFacts
  <2> QED
    BY <1>1, <2>1, <2>2
<1>3. \A i \in 1..Len(late') : late'[i].answer = "accepted" => runs[late'[i].op] = 1
  BY DEF Answered, IInv, AnswersOK
<1> QED
  BY <1>2, <1>3, StopsWaiting DEF Answered

LEMMA RetainedMembers ==
    ASSUME TypeOK, NEW result \in Results
    PROVE  \A i \in 1..Len(Retained(result)) :
              Retained(result)[i] = result \/ \E j \in 1..Len(late) : Retained(result)[i] = late[j]
<1>1. CASE Known(result.op)
  BY <1>1 DEF Retained, Replaced, TypeOK
<1>2. CASE ~Known(result.op) /\ Len(late) >= LateLimit
  <2>1. late # <<>>
    BY <1>2, LateLimitAssumption
  <2> QED
    BY <1>2, <2>1 DEF Retained, TypeOK
<1>3. CASE ~Known(result.op) /\ ~(Len(late) >= LateLimit)
  BY <1>3 DEF Retained, TypeOK
<1> QED
  BY <1>1, <1>2, <1>3

(* Late answers stay truthful when a truthful one joins them.              *)
LEMMA RetainedTruth ==
    ASSUME IInv, NEW result \in Results, Truthful(result.op, result.answer)
    PROVE  \A i \in 1..Len(Retained(result)) :
              Retained(result)[i].answer = "accepted" => runs[Retained(result)[i].op] = 1
<1>1. TypeOK /\ \A j \in 1..Len(late) : late[j].answer = "accepted" => runs[late[j].op] = 1
  BY DEF IInv, AnswersOK
<1> QED
  BY <1>1, RetainedMembers DEF Truthful

LEMMA GiveUpInv ==
    ASSUME IInv, TypeOK', GiveUp
    PROVE  IInv'
<1>1. req.stage = "waiting" /\ req.op \in Operations
  BY HandlerFacts DEF GiveUp, TimedOut
<1>2. \A i \in 1..Len(late') : late'[i].answer = "accepted" => runs[late'[i].op] = 1
  <2>1. CASE slots[req.op] # "empty" /\ req.ours
    <3> DEFINE result == [op |-> req.op, answer |-> slots[req.op]]
    <3>1. result \in Results /\ late' = Retained(result)
      BY <1>1, <2>1 DEF GiveUp, LateAfter, Results, IInv, TypeOK
    <3>2. Truthful(result.op, result.answer)
      BY <1>1, <2>1 DEF IInv, AnswersOK
    <3> HIDE DEF result
    <3> QED
      BY <3>1, <3>2, RetainedTruth
  <2>2. CASE ~(slots[req.op] # "empty" /\ req.ours)
    BY <2>2 DEF GiveUp, LateAfter, IInv, AnswersOK
  <2> QED
    BY <2>1, <2>2
<1> QED
  BY <1>1, <1>2, ConstantTypes, StatusFacts, StopsWaiting DEF GiveUp, GiveUpVerdict

(* A request that the runner reads is the only one for its operation.      *)
LEMMA RequestFacts ==
    ASSUME IInv, NEW m \in Operations, In(m, inbox) \/ In(m, stale)
    PROVE  /\ runs[m] = 0
           /\ Unanswered(m)
           /\ record[m].status \in {"pending", "unknown"}
           /\ ~(req.op = m /\ req.stage = "begun")
           /\ req.op = m /\ req.stage = "decided" => req.verdict.status = "unknown"
           /\ reading # m
<1>1. ~Unsent(m)
  BY DEF Unsent
<1>2. runs[m] = 0 /\ Unanswered(m) /\ record[m].status \in {"pending", "unknown"}
  BY DEF IInv, OneRequest
<1>3. m # NoOperation
  BY NoOperationAssumption
<1> QED
  BY <1>1, <1>2, <1>3 DEF IInv, Traceless, HandlerOK, AnswersOK, NoReading

LEMMA TreatFacts ==
    ASSUME TypeOK, NEW m \in Operations, NEW answer \in Answers, Treat(m, answer), runs[m] = 0
    PROVE  /\ \A n \in Operations \ {m} : runs'[n] = runs[n]
           /\ runs'[m] \in {0, 1}
           /\ answer = "accepted" => runs'[m] = 1
           /\ answer = "refused" => runs'[m] = 0
BY DEF TypeOK, Treat, Took

LEMMA OutboxAppend ==
    ASSUME TypeOK, NEW result \in Results, outbox' = Append(outbox, result)
    PROVE  /\ \A m : Answering(m)' <=> Answering(m) \/ m = result.op
           /\ \A i \in 1..Len(outbox') :
                 \/ i = Len(outbox) + 1 /\ outbox'[i] = result
                 \/ i \in 1..Len(outbox) /\ outbox'[i] = outbox[i]
<1>1. /\ Len(outbox') = Len(outbox) + 1
      /\ outbox'[Len(outbox) + 1] = result
      /\ \A i \in 1..Len(outbox) : outbox'[i] = outbox[i]
  BY DEF TypeOK
<1>2. Len(outbox) \in Nat
  BY DEF TypeOK
<1> QED
  BY <1>1, <1>2 DEF Answering

(* The runner treats a request, of this connection or of a lost one, and   *)
(* answers it or not.                                                      *)
LEMMA TreatInv ==
    ASSUME IInv, TypeOK', NEW h \in Operations, NEW answer \in Answers, Treat(h, answer),
           In(h, inbox) \/ In(h, stale),
           ~In(h, inbox') /\ ~In(h, stale'),
           \A m : In(m, inbox') => In(m, inbox),
           \A m : In(m, stale') => In(m, stale),
           Distinct(inbox') /\ Distinct(stale'),
           outbox' \in {outbox, Append(outbox, [op |-> h, answer |-> answer])},
           UNCHANGED <<record, req, reading, waiters, slots, late>>
    PROVE  IInv'
<1>1. /\ runs[h] = 0
      /\ Unanswered(h)
      /\ record[h].status \in {"pending", "unknown"}
      /\ ~(req.op = h /\ req.stage = "begun")
      /\ req.op = h /\ req.stage = "decided" => req.verdict.status = "unknown"
      /\ reading # h
  BY RequestFacts
<1>2. /\ \A n \in Operations \ {h} : runs'[n] = runs[n]
      /\ runs'[h] \in {0, 1}
      /\ answer = "accepted" => runs'[h] = 1
      /\ answer = "refused" => runs'[h] = 0
  BY <1>1, TreatFacts DEF IInv
<1>3. /\ \A m : Answering(m)' => Answering(m) \/ m = h
      /\ \A i \in 1..Len(outbox') :
            \/ i = Len(outbox) + 1 /\ outbox'[i] = [op |-> h, answer |-> answer]
            \/ i \in 1..Len(outbox) /\ outbox'[i] = outbox[i]
  <2>1. [op |-> h, answer |-> answer] \in Results
    BY DEF Results
  <2>2. CASE outbox' = outbox
    BY <2>2 DEF Answering
  <2>3. CASE outbox' = Append(outbox, [op |-> h, answer |-> answer])
    BY <2>1, <2>3, OutboxAppend DEF IInv
  <2> QED
    BY <2>2, <2>3
<1>4. \A m \in Operations \ {h} : /\ Unsent(m) => Unsent(m)'
                                  /\ Unanswered(m) => Unanswered(m)'
  BY <1>2, <1>3 DEF Unsent, Unanswered
<1>5. Traceless'
  BY <1>1, <1>4 DEF IInv, Traceless
<1>6. HandlerOK'
  <2>1. req.op # NoOperation => req.op \in Operations
    BY DEF IInv, TypeOK, Requests
  <2>2. CASE req.op = h
    <3>1. h # NoOperation
      BY NoOperationAssumption
    <3> QED
      BY <1>1, <2>2, <3>1 DEF IInv, HandlerOK
  <2>3. CASE req.op # h
    <3>1. req.stage = "decided" => req.op \in Operations \ {h}
      BY <2>3 DEF IInv, TypeOK
    <3>2. /\ req.stage = "decided" /\ Unsent(req.op) => Unsent(req.op)'
          /\ req.stage = "decided" /\ Unanswered(req.op) => Unanswered(req.op)'
      <4>1. Unsent(req.op)' <=> (\E m \in {req.op} : Unsent(m)')
        BY DEF Unsent
      <4>2. Unanswered(req.op)' <=> (\E m \in {req.op} : Unanswered(m)')
        BY DEF Unanswered, Answering
      <4> QED
        BY <1>4, <3>1, <4>1, <4>2
    <3> QED
      BY <1>2, <3>1, <3>2 DEF IInv, HandlerOK
  <2> QED
    BY <2>2, <2>3
<1>7. OneRequest'
  BY <1>2, <1>4 DEF IInv, OneRequest
<1>8. AnswersOK'
  <2>1. Truthful(h, answer)'
    BY <1>2 DEF Truthful, Unsent
  <2>2. \A m \in Operations \ {h} : \A x : Truthful(m, x) => Truthful(m, x)'
    BY <1>2, <1>4 DEF Truthful
  <2>3. \A i \in 1..Len(outbox) : outbox[i].op \in Operations \ {h}
    BY <1>1, OutboxTypes DEF Unanswered, Answering, IInv
  <2>4. \A i \in 1..Len(outbox') : Truthful(outbox[i].op, outbox[i].answer)'
    <3> SUFFICES ASSUME NEW i \in 1..Len(outbox')
                 PROVE  Truthful(outbox[i].op, outbox[i].answer)'
      OBVIOUS
    <3>1. CASE i = Len(outbox) + 1 /\ outbox'[i] = [op |-> h, answer |-> answer]
      BY <2>1, <3>1 DEF Truthful, Unsent
    <3>2. CASE i \in 1..Len(outbox) /\ outbox'[i] = outbox[i]
      <4>1. PICK m \in Operations \ {h} : m = outbox[i].op
        BY <2>3, <3>2
      <4>2. PICK x : x = outbox[i].answer
        OBVIOUS
      <4>3. Truthful(m, x)'
        BY <2>2, <3>2, <4>1, <4>2 DEF IInv, AnswersOK
      <4> QED
        BY <3>2, <4>1, <4>2, <4>3 DEF Truthful, Unsent
    <3> QED
      BY <1>3, <3>1, <3>2
  <2>5. \A i, j \in 1..Len(outbox') : outbox'[i].op = outbox'[j].op => i = j
    BY <1>3, <2>3 DEF IInv, AnswersOK
  <2>6. \A m \in Operations : slots'[m] # "empty" => Truthful(m, slots[m])' /\ ~Answering(m)'
    BY <1>1, <1>3, <2>2 DEF Unanswered, IInv, AnswersOK
  <2>7. \A i \in 1..Len(late') : late'[i].answer = "accepted" => runs'[late'[i].op] = 1
    BY <1>1, <1>2, LateTypes DEF IInv, AnswersOK
  <2>8. reading' # NoReading => runs'[reading'] = 1
    BY <1>1, <1>2 DEF IInv, AnswersOK, TypeOK, NoReading
  <2> QED
    BY <2>4, <2>5, <2>6, <2>7, <2>8 DEF AnswersOK, Truthful, Unsent, Answering
<1>9. FreshChannel'
  BY DEF IInv, FreshChannel
<1>10. AcceptedWasTaken' /\ AtMostOneRun'
  BY <1>1, <1>2 DEF IInv, AcceptedWasTaken, AtMostOneRun
<1> QED
  BY <1>5, <1>6, <1>7, <1>8, <1>9, <1>10 DEF IInv

LEMMA RunnerAnswersInv ==
    ASSUME IInv, TypeOK', RunnerAnswers
    PROVE  IInv'
<1>0. PICK h : h = Head(inbox)
  OBVIOUS
<1>1. PICK answer \in Answers : /\ Treat(h, answer)
                                /\ outbox' = Append(outbox, [op |-> h, answer |-> answer])
  BY <1>0 DEF RunnerAnswers
<1>2. /\ inbox # <<>> /\ inbox' = Tail(inbox)
      /\ UNCHANGED <<record, req, reading, waiters, slots, late, stale>>
  BY DEF RunnerAnswers, connection
<1>3. inbox \in Seq(Operations) /\ Distinct(inbox) /\ Distinct(stale)
  BY DEF IInv, TypeOK, OneRequest
<1>4. /\ h \in Operations /\ In(h, inbox) /\ ~In(h, inbox') /\ Distinct(inbox')
      /\ \A m : In(m, inbox') => In(m, inbox)
  BY <1>0, <1>2, <1>3, TailFacts
<1>5. ~In(h, stale)
  BY <1>4 DEF IInv, OneRequest
<1> QED
  BY <1>1, <1>2, <1>3, <1>4, <1>5, TreatInv

LEMMA StaleRequestInv ==
    ASSUME IInv, TypeOK', StaleRequest
    PROVE  IInv'
<1>0. PICK h : h = Head(stale)
  OBVIOUS
<1>1. PICK answer \in Answers : Treat(h, answer)
  BY <1>0 DEF StaleRequest
<1>2. /\ stale # <<>> /\ stale' = Tail(stale)
      /\ UNCHANGED <<record, req, reading, waiters, slots, late, inbox, outbox>>
  BY DEF StaleRequest, connection
<1>3. stale \in Seq(Operations) /\ Distinct(inbox) /\ Distinct(stale)
  BY DEF IInv, TypeOK, OneRequest
<1>4. /\ h \in Operations /\ In(h, stale) /\ ~In(h, stale') /\ Distinct(stale')
      /\ \A m : In(m, stale') => In(m, stale)
  BY <1>0, <1>2, <1>3, TailFacts
<1>5. ~In(h, inbox)
  BY <1>4 DEF IInv, OneRequest
<1> QED
  BY <1>1, <1>2, <1>3, <1>4, <1>5, TreatInv

(* A connection that ends takes its waiters and its answers with it; what  *)
(* it carried to the runner moves among what lost connections left behind, *)
(* or disappears.                                                          *)
LEMMA DropInv ==
    ASSUME IInv, TypeOK', outbox' = <<>>, waiters' = {}, UNCHANGED <<slots, late, record, req, reading, runs>>,
           \A m : In(m, inbox') \/ In(m, stale') => In(m, inbox) \/ In(m, stale),
           Distinct(inbox') /\ Distinct(stale'),
           \A m \in Operations : ~(In(m, inbox') /\ In(m, stale'))
    PROVE  IInv'
<1>1. Len(outbox') = 0 /\ \A m : ~Answering(m)'
  BY DEF Answering
<1>2. \A m \in Operations : /\ Unsent(m) => Unsent(m)'
                            /\ Unanswered(m) => Unanswered(m)'
  BY <1>1 DEF Unsent, Unanswered
<1>3. Traceless'
  BY <1>2 DEF IInv, Traceless
<1>4. HandlerOK'
  <2>1. req.stage = "decided" => req.op \in Operations
    BY DEF IInv, TypeOK
  <2>2. PICK o : o = req.op
    OBVIOUS
  <2>3. /\ req.stage = "decided" /\ Unsent(req.op) => Unsent(req.op)'
        /\ req.stage = "decided" /\ Unanswered(req.op) => Unanswered(req.op)'
    BY <1>2, <2>1, <2>2 DEF Unsent, Unanswered, Answering
  <2> QED
    BY <2>3 DEF IInv, HandlerOK
<1>5. OneRequest'
  BY <1>2 DEF IInv, OneRequest
<1>6. AnswersOK'
  <2>1. \A m \in Operations : slots'[m] # "empty" => Truthful(m, slots[m])' /\ ~Answering(m)'
    BY <1>1, <1>2 DEF IInv, AnswersOK, Truthful
  <2>2. /\ \A i \in 1..Len(outbox') : Truthful(outbox[i].op, outbox[i].answer)'
        /\ \A i, j \in 1..Len(outbox') : outbox'[i].op = outbox'[j].op => i = j
    BY <1>1
  <2> QED
    BY <2>1, <2>2 DEF IInv, AnswersOK
<1>7. FreshChannel'
  BY DEF IInv, FreshChannel
<1>8. AcceptedWasTaken' /\ AtMostOneRun'
  BY DEF IInv, AcceptedWasTaken, AtMostOneRun
<1> QED
  BY <1>3, <1>4, <1>5, <1>6, <1>7, <1>8 DEF IInv

LEMMA RunnerExitsInv ==
    ASSUME IInv, TypeOK', RunnerExits
    PROVE  IInv'
<1>1. /\ inbox' = <<>> /\ stale' = <<>> /\ outbox' = <<>> /\ waiters' = {}
      /\ UNCHANGED <<slots, late, record, req, reading, runs>>
  BY DEF RunnerExits
<1>2. /\ \A m : ~In(m, inbox') /\ ~In(m, stale')
      /\ Distinct(inbox') /\ Distinct(stale')
  BY <1>1, EmptyFacts
<1> QED
  BY <1>1, <1>2, DropInv

LEMMA StaleFacts ==
    ASSUME IInv, stale' = stale \o inbox, inbox' = <<>>
    PROVE  /\ \A m : In(m, inbox') \/ In(m, stale') => In(m, inbox) \/ In(m, stale)
           /\ Distinct(inbox') /\ Distinct(stale')
           /\ \A m \in Operations : ~(In(m, inbox') /\ In(m, stale'))
<1>1. /\ inbox \in Seq(Operations) /\ stale \in Seq(Operations)
      /\ Distinct(inbox) /\ Distinct(stale)
  BY DEF IInv, TypeOK, OneRequest
<1>2. \A m : ~(In(m, stale) /\ In(m, inbox))
  <2>1. \A m : In(m, stale) => m \in Operations
    BY <1>1 DEF In
  <2> QED
    BY <2>1 DEF IInv, OneRequest
<1>3. /\ \A m : In(m, stale') <=> In(m, stale) \/ In(m, inbox)
      /\ Distinct(stale')
  BY <1>1, <1>2, ConcatFacts
<1> QED
  BY <1>3, EmptyFacts

LEMMA ConnectionLostInv ==
    ASSUME IInv, TypeOK', ConnectionLost
    PROVE  IInv'
<1>1. /\ outbox' = <<>> /\ waiters' = {} /\ stale' = stale \o inbox /\ inbox' = <<>>
      /\ UNCHANGED <<slots, late, record, req, reading, runs>>
  BY DEF ConnectionLost
<1> QED
  BY <1>1, StaleFacts, DropInv

(* The oldest answer leaves the stream, for the empty channel of a waiter  *)
(* or for the late answers.                                                *)
LEMMA DeliveredFacts ==
    ASSUME IInv, DeliverAnswer, NEW r, r = Head(outbox)
    PROVE  /\ r \in Results /\ r.op \in Operations
           /\ Truthful(r.op, r.answer) /\ Answering(r.op) /\ slots[r.op] = "empty"
           /\ \/ /\ r.op \in waiters /\ late' = late
                 /\ slots' = [slots EXCEPT ![r.op] = r.answer]
              \/ r.op \notin waiters /\ late' = Retained(r) /\ slots' = slots
           /\ \A i \in 1..Len(outbox') : i + 1 \in 1..Len(outbox) /\ outbox'[i] = outbox[i + 1]
           /\ \A m \in Operations : Answering(m)' => Answering(m) /\ m # r.op
           /\ \A m \in Operations \ {r.op} : slots'[m] = slots[m]
<1>1. /\ outbox # <<>> /\ outbox' = Tail(outbox)
      /\ UNCHANGED <<record, req, reading, waiters, inbox, stale, runs>>
      /\ \/ /\ r.op \in waiters /\ late' = late
            /\ slots' = IF slots[r.op] = "empty" THEN [slots EXCEPT ![r.op] = r.answer] ELSE slots
         \/ r.op \notin waiters /\ late' = Retained(r) /\ slots' = slots
  BY DEF DeliverAnswer
<1>2. /\ r = outbox[1] /\ 1 \in 1..Len(outbox)
      /\ Len(outbox') = Len(outbox) - 1
      /\ \A i \in 1..Len(outbox') : i + 1 \in 1..Len(outbox) /\ i + 1 # 1 /\ outbox'[i] = outbox[i + 1]
  <2>1. outbox \in Seq(Results)
    BY DEF IInv, TypeOK
  <2> QED
    BY <1>1, <2>1
<1>3. /\ r \in Results /\ r.op \in Operations
      /\ Truthful(r.op, r.answer)
      /\ Answering(r.op)
  BY <1>2, OutboxTypes DEF IInv, AnswersOK, Answering
<1>4. slots[r.op] = "empty"
  BY <1>3 DEF IInv, AnswersOK
<1>5. \A m \in Operations : Answering(m)' => Answering(m) /\ m # r.op
  <2> SUFFICES ASSUME NEW m \in Operations, NEW i \in 1..Len(outbox'), outbox'[i].op = m
               PROVE  Answering(m) /\ m # r.op
    BY DEF Answering
  <2>1. i + 1 \in 1..Len(outbox) /\ outbox[i + 1].op = m /\ i + 1 # 1
    BY <1>2
  <2>2. \A j, k \in 1..Len(outbox) : outbox[j].op = outbox[k].op => j = k
    BY DEF IInv, AnswersOK
  <2>3. m # outbox[1].op
    BY <1>2, <2>1, <2>2
  <2> QED
    BY <1>2, <2>1, <2>3 DEF Answering
<1>6. \A m \in Operations \ {r.op} : slots'[m] = slots[m]
  BY <1>1, <1>3 DEF IInv, TypeOK
<1> QED
  BY <1>1, <1>2, <1>3, <1>4, <1>5, <1>6

LEMMA DeliverAnswerInv ==
    ASSUME IInv, TypeOK', DeliverAnswer
    PROVE  IInv'
<1>0. PICK r : r = Head(outbox)
  OBVIOUS
<1>1. /\ outbox # <<>> /\ outbox' = Tail(outbox)
      /\ UNCHANGED <<record, req, reading, waiters, inbox, stale, runs>>
      /\ \/ /\ r.op \in waiters /\ late' = late
            /\ slots' = IF slots[r.op] = "empty" THEN [slots EXCEPT ![r.op] = r.answer] ELSE slots
         \/ r.op \notin waiters /\ late' = Retained(r) /\ slots' = slots
  BY <1>0 DEF DeliverAnswer
<1>2. \A i \in 1..Len(outbox') : i + 1 \in 1..Len(outbox) /\ outbox'[i] = outbox[i + 1]
  BY <1>0, DeliveredFacts
<1>3. /\ r \in Results /\ r.op \in Operations
      /\ Truthful(r.op, r.answer)
      /\ Answering(r.op)
  BY <1>0, DeliveredFacts
<1>4. slots[r.op] = "empty"
  BY <1>0, DeliveredFacts
<1>5. \A m \in Operations : Answering(m)' => Answering(m) /\ m # r.op
  BY <1>0, DeliveredFacts
<1>6. \A m \in Operations \ {r.op} : slots'[m] = slots[m]
  BY <1>0, DeliveredFacts
<1>7. \A m \in Operations : /\ Unsent(m)' <=> Unsent(m)
                            /\ Unanswered(m) => Unanswered(m)' /\ m # r.op
  BY <1>1, <1>3, <1>5, <1>6 DEF Unsent, Unanswered
<1>8. Traceless'
  BY <1>1, <1>7 DEF IInv, Traceless
<1>9. HandlerOK'
  <2>1. PICK o : o = req.op
    OBVIOUS
  <2>2. req.stage = "decided" => o \in Operations
    BY <2>1 DEF IInv, TypeOK
  <2>3. /\ req.stage = "decided" /\ Unsent(req.op) => Unsent(req.op)'
        /\ req.stage = "decided" /\ Unanswered(req.op) => Unanswered(req.op)'
    BY <1>1, <1>7, <2>1, <2>2 DEF Unsent, Unanswered, Answering
  <2> QED
    BY <1>1, <2>3 DEF IInv, HandlerOK
<1>10. OneRequest'
  BY <1>1, <1>7 DEF IInv, OneRequest
<1>11. AnswersOK'
  <2>1. \A m \in Operations : \A x : Truthful(m, x) <=> Truthful(m, x)'
    BY <1>1, <1>7 DEF Truthful
  <2>2. \A i \in 1..Len(outbox') : Truthful(outbox[i].op, outbox[i].answer)'
    <3>1. \A i \in 1..Len(outbox) : Truthful(outbox[i].op, outbox[i].answer)
      BY DEF IInv, AnswersOK
    <3> QED
      BY <1>1, <1>2, <3>1 DEF Truthful, Unsent
  <2>3. \A i, j \in 1..Len(outbox') : outbox'[i].op = outbox'[j].op => i = j
    <3> SUFFICES ASSUME NEW i \in 1..Len(outbox'), NEW j \in 1..Len(outbox'),
                        outbox'[i].op = outbox'[j].op
                 PROVE  i = j
      OBVIOUS
    <3>1. \A k, l \in 1..Len(outbox) : outbox[k].op = outbox[l].op => k = l
      BY DEF IInv, AnswersOK
    <3>2. /\ i + 1 \in 1..Len(outbox) /\ j + 1 \in 1..Len(outbox)
          /\ outbox[i + 1].op = outbox[j + 1].op
      BY <1>2
    <3>3. i + 1 = j + 1
      BY <3>1, <3>2
    <3> QED
      BY <3>3
  <2>4. \A m \in Operations : slots'[m] # "empty" => Truthful(m, slots[m])' /\ ~Answering(m)'
    <3> SUFFICES ASSUME NEW m \in Operations, slots'[m] # "empty"
                 PROVE  Truthful(m, slots[m])' /\ ~Answering(m)'
      OBVIOUS
    <3>1. CASE m = r.op
      <4>1. slots'[m] = r.answer
        BY <1>1, <1>3, <1>4, <3>1 DEF IInv, TypeOK
      <4> QED
        BY <1>1, <1>3, <1>5, <3>1, <4>1 DEF Truthful, Unsent
    <3>2. CASE m # r.op
      BY <1>1, <1>5, <1>6, <3>2 DEF IInv, AnswersOK, Truthful, Unsent
    <3> QED
      BY <3>1, <3>2
  <2>5. \A i \in 1..Len(late') : late'[i].answer = "accepted" => runs'[late'[i].op] = 1
    <3>1. CASE late' = late
      BY <1>1, <3>1 DEF IInv, AnswersOK
    <3>2. CASE late' = Retained(r)
      BY <1>1, <1>3, <3>2, RetainedTruth
    <3> QED
      BY <1>1, <3>1, <3>2
  <2> QED
    BY <1>1, <2>2, <2>3, <2>4, <2>5 DEF IInv, AnswersOK
<1>12. FreshChannel'
  BY <1>1, <1>6 DEF IInv, FreshChannel
<1>13. AcceptedWasTaken' /\ AtMostOneRun'
  BY <1>1 DEF IInv, AcceptedWasTaken, AtMostOneRun
<1> QED
  BY <1>8, <1>9, <1>10, <1>11, <1>12, <1>13 DEF IInv

(* A torn receipt is one of an operation that had not begun.               *)
LEMMA CrashFacts ==
    ASSUME TypeOK, NEW after \in RecordAfterCrash, NEW m \in Operations
    PROVE  \/ after[m] = record[m]
           \/ record[m].status = "none" /\ after[m].status = "torn"
<1>1. CASE after = record
  BY <1>1
<1>2. CASE \E n \in Operations : /\ record[n] = Untouched
                                 /\ after = [record EXCEPT ![n] = Outcome("torn", "")]
  <2>1. PICK n \in Operations : /\ record[n] = Untouched
                                /\ after = [record EXCEPT ![n] = Outcome("torn", "")]
    BY <1>2
  <2>2. Outcome("torn", "").status = "torn" /\ Untouched.status = "none"
    BY StatusFacts
  <2>3. record \in [Operations -> Outcomes]
    BY DEF TypeOK
  <2>4. CASE m = n
    BY <2>1, <2>2, <2>3, <2>4
  <2>5. CASE m # n
    BY <2>1, <2>3, <2>5
  <2> QED
    BY <2>4, <2>5
<1> QED
  BY <1>1, <1>2 DEF RecordAfterCrash

LEMMA DaemonRestartsInv ==
    ASSUME IInv, TypeOK', DaemonRestarts
    PROVE  IInv'
<1>1. /\ req' = NoRequest /\ reading' = NoReading /\ waiters' = {}
      /\ slots' = [m \in Operations |-> "empty"]
      /\ late' = <<>> /\ outbox' = <<>> /\ stale' = stale \o inbox /\ inbox' = <<>>
      /\ record' \in RecordAfterCrash /\ runs' = runs
  BY DEF DaemonRestarts
<1>2. \A m \in Operations : \/ record'[m] = record[m]
                            \/ record[m].status = "none" /\ record'[m].status = "torn"
  BY <1>1, CrashFacts DEF IInv
<1>3. Len(outbox') = 0 /\ Len(late') = 0 /\ \A m : ~Answering(m)'
  BY <1>1 DEF Answering
<1>4. \A m \in Operations : slots'[m] = "empty" /\ Unanswered(m)'
  BY <1>1, <1>3 DEF Unanswered
<1>5. /\ \A m : In(m, inbox') \/ In(m, stale') => In(m, inbox) \/ In(m, stale)
      /\ Distinct(inbox') /\ Distinct(stale')
      /\ \A m \in Operations : ~(In(m, inbox') /\ In(m, stale'))
  BY <1>1, StaleFacts
<1>6. \A m \in Operations : Unsent(m) => Unsent(m)'
  BY <1>1, <1>5 DEF Unsent
<1>7. req'.op = NoOperation /\ req'.stage = "idle"
  BY <1>1 DEF NoRequest
<1>8. Traceless'
  BY <1>2, <1>4, <1>6, <1>7 DEF IInv, Traceless
<1>9. HandlerOK'
  BY <1>7 DEF HandlerOK
<1>10. OneRequest'
  BY <1>1, <1>2, <1>4, <1>5 DEF IInv, OneRequest
<1>11. AnswersOK' /\ FreshChannel'
  <2>1. /\ \A i \in 1..Len(outbox') : Truthful(outbox[i].op, outbox[i].answer)'
        /\ \A i, j \in 1..Len(outbox') : outbox'[i].op = outbox'[j].op => i = j
        /\ \A i \in 1..Len(late') : late'[i].answer = "accepted" => runs'[late'[i].op] = 1
    BY <1>3
  <2> QED
    BY <1>1, <1>4, <2>1 DEF AnswersOK, FreshChannel
<1>12. AcceptedWasTaken' /\ AtMostOneRun'
  BY <1>1, <1>2 DEF IInv, AcceptedWasTaken, AtMostOneRun
<1> QED
  BY <1>8, <1>9, <1>10, <1>11, <1>12 DEF IInv

LEMMA NextInv == IInv /\ [Next]_vars => IInv'
<1> SUFFICES ASSUME IInv, [Next]_vars PROVE IInv'
  OBVIOUS
<1>1. TypeOK'
  BY TypeNext DEF IInv
<1>2. CASE Submit
  BY <1>1, <1>2, PostInv, BeginInv, RouteUnknownInv, SubmitFailsInv, SendInv, AnsweredInv,
     GiveUpInv, CompleteInv DEF Submit
<1>3. CASE Receipt
  BY <1>1, <1>3, ReadInv, ConfirmInv DEF Receipt
<1>4. CASE Runner
  BY <1>1, <1>4, RunnerAnswersInv, StaleRequestInv, RunnerExitsInv DEF Runner
<1>5. CASE Daemon
  BY <1>1, <1>5, DeliverAnswerInv, ConnectionLostInv, ReconnectInv, ForgottenInv,
     DaemonRestartsInv DEF Daemon
<1>6. CASE UNCHANGED vars
  <2>1. UNCHANGED <<record, req, reading, connection, wire, runs>>
    BY <1>6 DEF vars
  <2>2. HandlerOK'
    BY <2>1 DEF IInv, HandlerOK, Unsent, Unanswered, Answering, wire, connection
  <2> QED
    BY <1>1, <2>1, <2>2, QuietStep, HandlerFacts DEF IInv, FreshChannel, AnswersOK, connection
<1> QED
  BY <1>2, <1>3, <1>4, <1>5, <1>6 DEF Next

-----------------------------------------------------------------------------
(* The theorems about receipts.                                            *)

(* The inductive invariant holds of every behaviour.                       *)
THEOREM Invariance == Spec => []IInv
BY InitInv, NextInv, PTL DEF Spec

(* A receipt that offers a retry is right for good: the runner has not     *)
(* taken the message, and nothing under way to the runner still can.       *)
THEOREM RefusedIsRetried == Spec => []RetryIsSafe
<1>1. IInv => RetryIsSafe
  BY DEF IInv, Traceless, RetryIsSafe, Unsent
<1> QED
  BY <1>1, Invariance, PTL

(* No message is taken twice, although the runner remembers nothing.       *)
THEOREM TakenOnce == Spec => []AtMostOneRun
<1>1. IInv => AtMostOneRun
  BY DEF IInv
<1> QED
  BY <1>1, Invariance, PTL

(* Every accepted receipt is about a message that the runner took.         *)
THEOREM AcceptedIsTrue == Spec => []AcceptedWasTaken
<1>1. IInv => AcceptedWasTaken
  BY DEF IInv
<1> QED
  BY <1>1, Invariance, PTL

-----------------------------------------------------------------------------
(* The promise.                                                            *)

LEMMA ReceiptFacts ==
    ASSUME NEW m \in Operations
    PROVE  /\ record[m].status = "none" => ReceiptOf(m) = "none"
           /\ record[m].status \in {"torn", "pending"} => ReceiptOf(m) = "open"
           /\ record[m].status = "not-delivered" => ReceiptOf(m) = "retry"
           /\ record[m].status = "accepted" => ReceiptOf(m) = "accepted"
           /\ record[m].status = "unknown" => ReceiptOf(m) = "unknown"
BY DEF ReceiptOf

(* At most the receipt of one operation changes.                           *)
LEMMA OneBecomes ==
    ASSUME NEW m \in Operations, \A n \in Operations \ {m} : record'[n] = record[n],
           UNCHANGED runs, NEW status, ReceiptOf(m)' = status
    PROVE  Promise!Becomes(m, status)
<1>1. \A n \in Operations \ {m} : ReceiptOf(n)' = ReceiptOf(n)
  BY DEF ReceiptOf
<1> QED
  BY <1>1 DEF Promise!Becomes

LEMMA PromiseInit == Init => Promise!Init
<1> SUFFICES ASSUME Init PROVE Promise!Init
  OBVIOUS
<1>1. \A m \in Operations : record[m].status = "none"
  BY StatusFacts DEF Init
<1>2. \A m \in Operations : ReceiptOf(m) = "none"
  BY <1>1, ReceiptFacts
<1> QED
  BY <1>2 DEF Init, Promise!Init

LEMMA PromiseStutters ==
    ASSUME UNCHANGED <<record, runs>>
    PROVE  UNCHANGED Promise!vars
BY DEF Promise!vars, ReceiptOf

LEMMA PromiseBegin ==
    ASSUME IInv, NEW m \in Operations, Begin(m)
    PROVE  [Promise!Next]_Promise!vars
<1>1. CASE UNCHANGED <<record, req>>
  BY <1>1, PromiseStutters DEF Begin
<1>2. CASE MayExecute(m) /\ record' = [record EXCEPT ![m] = Pending]
  <2>1. record \in [Operations -> Outcomes]
    BY DEF IInv, TypeOK
  <2>2. record'[m] = Pending /\ \A n \in Operations \ {m} : record'[n] = record[n]
    BY <1>2, <2>1
  <2>3. record'[m].status = "pending"
    BY <2>2, StatusFacts
  <2>4. ReceiptOf(m) \in {"none", "retry"} /\ ReceiptOf(m)' = "open"
    BY <1>2, <2>3, ReceiptFacts DEF MayExecute, ReceiptOf
  <2>5. Promise!Open(m)
    BY <2>2, <2>4, OneBecomes DEF Promise!Open, Begin
  <2> QED
    BY <2>5 DEF Promise!Next
<1> QED
  BY <1>1, <1>2 DEF Begin

LEMMA PromiseComplete ==
    ASSUME IInv, Complete
    PROVE  [Promise!Next]_Promise!vars
<1>0. PICK m : m = req.op
  OBVIOUS
<1>1. /\ m \in Operations /\ record[m].status = "pending"
      /\ record \in [Operations -> Outcomes] /\ runs' = runs
  BY <1>0, HandlerFacts DEF Complete, IInv, TypeOK
<1>2. /\ \/ req.verdict.status = "unknown"
         \/ req.verdict.status = "accepted" /\ runs[m] = 1
         \/ req.verdict.status = "not-delivered" /\ runs[m] = 0
  BY <1>0 DEF Complete, IInv, HandlerOK, Unsent
<1>3. CASE record' = record
  BY <1>1, <1>3, PromiseStutters
<1>4. CASE record' = [record EXCEPT ![m] = req.verdict]
  <2>1. record'[m] = req.verdict /\ \A n \in Operations \ {m} : record'[n] = record[n]
    BY <1>1, <1>4
  <2>2. ReceiptOf(m) = "open"
    BY <1>1, ReceiptFacts
  <2>3. CASE req.verdict.status = "unknown"
    <3>1. ReceiptOf(m)' = "unknown"
      BY <2>1, <2>3 DEF ReceiptOf
    <3>2. Promise!Doubt(m)
      BY <1>1, <2>1, <2>2, <3>1, OneBecomes DEF Promise!Doubt
    <3> QED
      BY <1>1, <3>2 DEF Promise!Next
  <2>4. CASE req.verdict.status = "accepted" /\ runs[m] = 1
    <3>1. ReceiptOf(m)' = "accepted"
      BY <2>1, <2>4 DEF ReceiptOf
    <3>2. Promise!Accept(m)
      BY <1>1, <2>1, <2>2, <2>4, <3>1, OneBecomes DEF Promise!Accept
    <3> QED
      BY <1>1, <3>2 DEF Promise!Next
  <2>5. CASE req.verdict.status = "not-delivered" /\ runs[m] = 0
    <3>1. ReceiptOf(m)' = "retry"
      BY <2>1, <2>5 DEF ReceiptOf
    <3>2. Promise!Refuse(m)
      BY <1>1, <2>1, <2>2, <2>5, <3>1, OneBecomes DEF Promise!Refuse
    <3> QED
      BY <1>1, <3>2 DEF Promise!Next
  <2> QED
    BY <1>2, <2>3, <2>4, <2>5
<1> QED
  BY <1>0, <1>1, <1>3, <1>4 DEF Complete, Completed

LEMMA PromiseConfirm ==
    ASSUME IInv, Confirm
    PROVE  [Promise!Next]_Promise!vars
<1>0. PICK m : m = reading
  OBVIOUS
<1>1. /\ m \in Operations /\ runs[m] = 1 /\ runs' = runs
      /\ record \in [Operations -> Outcomes]
  BY <1>0 DEF Confirm, IInv, TypeOK, AnswersOK, NoReading
<1>2. CASE record' = record
  BY <1>1, <1>2, PromiseStutters
<1>3. CASE record[m] = Doubt /\ record' = [record EXCEPT ![m] = Outcome("accepted", "boundary")]
  <2>1. /\ record'[m] = Outcome("accepted", "boundary")
        /\ \A n \in Operations \ {m} : record'[n] = record[n]
    BY <1>1, <1>3
  <2>2. record[m].status = "unknown" /\ record'[m].status = "accepted"
    BY <1>3, <2>1, StatusFacts
  <2>3. ReceiptOf(m) = "unknown" /\ ReceiptOf(m)' = "accepted"
    BY <2>2 DEF ReceiptOf
  <2>4. Promise!Accept(m)
    BY <1>1, <2>1, <2>3, OneBecomes DEF Promise!Accept
  <2> QED
    BY <1>1, <2>4 DEF Promise!Next
<1> QED
  BY <1>0, <1>2, <1>3 DEF Confirm, Confirmed, Confirmable

(* Treating a request is a run, or nothing that the promise sees.          *)
LEMMA PromiseTreat ==
    ASSUME IInv, NEW m \in Operations, In(m, inbox) \/ In(m, stale),
           NEW answer \in Answers, Treat(m, answer), record' = record
    PROVE  [Promise!Next]_Promise!vars
<1>1. runs[m] = 0 /\ record[m].status \in {"pending", "unknown"}
  BY RequestFacts
<1>2. CASE runs' = runs
  BY <1>2, PromiseStutters
<1>3. CASE Took(m)
  <2>1. runs' = [runs EXCEPT ![m] = 1]
    BY <1>1, <1>3 DEF Took, IInv, TypeOK
  <2>2. ReceiptOf(m) \in {"open", "unknown"}
    BY <1>1, ReceiptFacts
  <2>3. \A n \in Operations : ReceiptOf(n)' = ReceiptOf(n)
    BY DEF ReceiptOf
  <2>4. Promise!Run(m)
    BY <1>1, <2>1, <2>2, <2>3 DEF Promise!Run
  <2> QED
    BY <2>4 DEF Promise!Next
<1> QED
  BY <1>2, <1>3 DEF Treat

LEMMA PromiseRunner ==
    ASSUME IInv, Runner
    PROVE  [Promise!Next]_Promise!vars
<1>1. CASE RunnerAnswers
  <2>1. PICK m : m = Head(inbox)
    OBVIOUS
  <2>2. PICK answer \in Answers : Treat(m, answer)
    BY <1>1, <2>1 DEF RunnerAnswers
  <2>3. m \in Operations /\ In(m, inbox)
    BY <1>1, <2>1, TailFacts DEF RunnerAnswers, IInv, TypeOK
  <2> QED
    BY <1>1, <2>2, <2>3, PromiseTreat DEF RunnerAnswers
<1>2. CASE StaleRequest
  <2>1. PICK m : m = Head(stale)
    OBVIOUS
  <2>2. PICK answer \in Answers : Treat(m, answer)
    BY <1>2, <2>1 DEF StaleRequest
  <2>3. m \in Operations /\ In(m, stale)
    BY <1>2, <2>1, TailFacts DEF StaleRequest, IInv, TypeOK
  <2> QED
    BY <1>2, <2>2, <2>3, PromiseTreat DEF StaleRequest
<1>3. CASE RunnerExits
  BY <1>3, PromiseStutters DEF RunnerExits
<1> QED
  BY <1>1, <1>2, <1>3 DEF Runner

LEMMA PromiseRestart ==
    ASSUME IInv, DaemonRestarts
    PROVE  [Promise!Next]_Promise!vars
<1>1. record' \in RecordAfterCrash /\ runs' = runs /\ record \in [Operations -> Outcomes]
  BY DEF DaemonRestarts, IInv, TypeOK
<1>2. CASE record' = record
  BY <1>1, <1>2, PromiseStutters
<1>3. CASE \E m \in Operations : /\ record[m] = Untouched
                                 /\ record' = [record EXCEPT ![m] = Outcome("torn", "")]
  <2>1. PICK m \in Operations : /\ record[m] = Untouched
                                /\ record' = [record EXCEPT ![m] = Outcome("torn", "")]
    BY <1>3
  <2>2. /\ record'[m] = Outcome("torn", "")
        /\ \A n \in Operations \ {m} : record'[n] = record[n]
    BY <1>1, <2>1
  <2>3. record[m].status = "none" /\ record'[m].status = "torn"
    BY <2>1, <2>2, StatusFacts
  <2>4. ReceiptOf(m) = "none" /\ ReceiptOf(m)' = "open"
    BY <2>3 DEF ReceiptOf
  <2>5. Promise!Open(m)
    BY <1>1, <2>2, <2>4, OneBecomes DEF Promise!Open
  <2> QED
    BY <2>5 DEF Promise!Next
<1> QED
  BY <1>1, <1>2, <1>3 DEF RecordAfterCrash

LEMMA PromiseNext == IInv /\ [Next]_vars => [Promise!Next]_Promise!vars
<1> SUFFICES ASSUME IInv, [Next]_vars PROVE [Promise!Next]_Promise!vars
  OBVIOUS
<1>1. CASE UNCHANGED <<record, runs>>
  BY <1>1, PromiseStutters
<1>2. CASE Submit
  <2>1. CASE \E m \in Operations : Begin(m)
    BY <2>1, PromiseBegin
  <2>2. CASE Complete
    BY <2>2, PromiseComplete
  <2>3. ASSUME NEW m \in Operations, Post(m) PROVE UNCHANGED <<record, runs>>
    BY <2>3 DEF Post
  <2>4. CASE RouteUnknown \/ SubmitFails \/ Send \/ Answered \/ GiveUp
    <3>1. UNCHANGED <<record, runs>>
      BY <2>4 DEF RouteUnknown, SubmitFails, Send, Answered, GiveUp
    <3> QED
      BY <1>1, <3>1
  <2> QED
    BY <1>1, <1>2, <2>1, <2>2, <2>3, <2>4 DEF Submit
<1>3. CASE Receipt
  <2>1. CASE Confirm
    BY <2>1, PromiseConfirm
  <2>2. ASSUME NEW m \in Operations, Read(m) PROVE UNCHANGED <<record, runs>>
    BY <2>2 DEF Read
  <2> QED
    BY <1>1, <1>3, <2>1, <2>2 DEF Receipt
<1>4. CASE Runner
  BY <1>4, PromiseRunner
<1>5. CASE Daemon
  <2>1. CASE DaemonRestarts
    BY <2>1, PromiseRestart
  <2>2. CASE DeliverAnswer \/ ConnectionLost \/ Reconnect \/ Forgotten
    <3>1. UNCHANGED <<record, runs>>
      BY <2>2 DEF DeliverAnswer, ConnectionLost, Reconnect, Forgotten
    <3> QED
      BY <1>1, <3>1
  <2> QED
    BY <1>5, <2>1, <2>2 DEF Daemon
<1>6. CASE UNCHANGED vars
  BY <1>1, <1>6 DEF vars
<1> QED
  BY <1>2, <1>3, <1>4, <1>5, <1>6 DEF Next

(* The store, the handlers, the connection and any runner together keep    *)
(* the promise of DeliveryPromise, whatever is lost on the way.            *)
THEOREM ImplementsPromise == Spec => PromiseSpec
<1>1. Init => Promise!Init
  BY PromiseInit
<1>2. IInv /\ [Next]_vars => [Promise!Next]_Promise!vars
  BY PromiseNext
<1> QED
  BY <1>1, <1>2, Invariance, PTL DEF Spec, PromiseSpec, Promise!Spec

-----------------------------------------------------------------------------
(* No acceptance that was read is forgotten.                               *)

(* A late answer that joins the others has a place of its own, and costs   *)
(* at most the oldest one.                                                 *)
LEMMA RetainedKeeps ==
    ASSUME TypeOK, LateDistinct, NEW r \in Results, late' = Retained(r)
    PROVE  /\ LateDistinct'
           /\ r.answer = "accepted" => LateAccepted(r.op)'
           /\ \A m \in Operations \ {r.op} : Kept(m) => Kept(m)'
<1>1. /\ late \in Seq(Results) /\ Len(late) \in Nat /\ Len(late) <= LateLimit
      /\ LateLimit \in Nat \ {0}
      /\ r.answer = "accepted" => r = [op |-> r.op, answer |-> "accepted"]
  BY LateLimitAssumption DEF TypeOK, Results
<1>2. \A i, j \in 1..Len(late) : late[i].op = late[j].op => i = j
  BY DEF LateDistinct
<1>3. CASE Known(r.op)
  <2>1. /\ Len(late') = Len(late)
        /\ \A i \in 1..Len(late) : late'[i] = IF late[i].op = r.op THEN r ELSE late[i]
    BY <1>1, <1>3 DEF Retained, Replaced
  <2>2. \A i \in 1..Len(late) : late'[i].op = late[i].op
    BY <2>1
  <2>3. LateDistinct'
    BY <1>2, <2>1, <2>2 DEF LateDistinct
  <2>4. r.answer = "accepted" => LateAccepted(r.op)'
    BY <1>1, <1>3, <2>1 DEF Known, LateAccepted
  <2>5. ASSUME NEW m \in Operations \ {r.op}, Kept(m) PROVE Kept(m)'
    <3>1. Known(m)' <=> Known(m)
      BY <2>1, <2>2 DEF Known
    <3>2. LateAccepted(m) => LateAccepted(m)'
      BY <2>1 DEF LateAccepted
    <3> QED
      BY <2>1, <2>5, <3>1, <3>2 DEF Kept
  <2> QED
    BY <2>3, <2>4, <2>5
<1>4. CASE ~Known(r.op) /\ ~(Len(late) >= LateLimit)
  <2>1. /\ Len(late') = Len(late) + 1
        /\ late'[Len(late) + 1] = r
        /\ \A i \in 1..Len(late) : late'[i] = late[i]
    BY <1>1, <1>4 DEF Retained
  <2>2. \A i \in 1..Len(late) : late[i].op # r.op
    BY <1>4 DEF Known
  <2>3. LateDistinct'
    <3> SUFFICES ASSUME NEW i \in 1..Len(late'), NEW j \in 1..Len(late'),
                        late'[i].op = late'[j].op
                 PROVE  i = j
      BY DEF LateDistinct
    <3>1. CASE i = Len(late) + 1 \/ j = Len(late) + 1
      BY <1>1, <2>1, <2>2, <3>1
    <3>2. CASE i \in 1..Len(late) /\ j \in 1..Len(late)
      BY <1>2, <2>1, <3>2
    <3> QED
      BY <1>1, <2>1, <3>1, <3>2
  <2>4. r.answer = "accepted" => LateAccepted(r.op)'
    BY <1>1, <2>1 DEF LateAccepted
  <2>5. ASSUME NEW m \in Operations \ {r.op}, Kept(m) PROVE Kept(m)'
    <3>1. LateAccepted(m)
      BY <1>1, <1>4, <2>5 DEF Kept
    <3>2. LateAccepted(m)'
      BY <1>1, <2>1, <3>1 DEF LateAccepted
    <3> QED
      BY <3>2 DEF Kept
  <2> QED
    BY <2>3, <2>4, <2>5
<1>5. CASE ~Known(r.op) /\ Len(late) >= LateLimit
  <2>1. /\ Len(late') = Len(late) /\ Len(late) = LateLimit
        /\ late'[Len(late)] = r
        /\ \A i \in 1..(Len(late) - 1) : late'[i] = late[i + 1]
    <3>1. late # <<>> /\ Len(late) = LateLimit
      BY <1>1, <1>5
    <3>2. late' = Append(Tail(late), r)
      BY <1>5 DEF Retained
    <3> QED
      BY <1>1, <3>1, <3>2
  <2>2. \A i \in 1..Len(late) : late[i].op # r.op
    BY <1>5 DEF Known
  <2>3. LateDistinct'
    <3> SUFFICES ASSUME NEW i \in 1..Len(late'), NEW j \in 1..Len(late'),
                        late'[i].op = late'[j].op
                 PROVE  i = j
      BY DEF LateDistinct
    <3>1. CASE i = Len(late) \/ j = Len(late)
      BY <1>1, <2>1, <2>2, <3>1
    <3>2. CASE i \in 1..(Len(late) - 1) /\ j \in 1..(Len(late) - 1)
      <4>1. i + 1 = j + 1
        BY <1>1, <1>2, <2>1, <3>2
      <4> QED
        BY <4>1
    <3> QED
      BY <1>1, <2>1, <3>1, <3>2
  <2>4. r.answer = "accepted" => LateAccepted(r.op)'
    BY <1>1, <2>1 DEF LateAccepted
  <2>5. ASSUME NEW m \in Operations \ {r.op}, Kept(m) PROVE Kept(m)'
    <3>1. CASE \E i \in 2..Len(late) : late[i] = [op |-> m, answer |-> "accepted"]
      <4>1. PICK i \in 2..Len(late) : late[i] = [op |-> m, answer |-> "accepted"]
        BY <3>1
      <4>2. i - 1 \in 1..Len(late') /\ late'[i - 1] = [op |-> m, answer |-> "accepted"]
        BY <1>1, <2>1, <4>1
      <4> QED
        BY <4>2 DEF Kept, LateAccepted
    <3>2. CASE \A i \in 2..Len(late) : late[i].op # m
      <4>1. \A i \in 1..Len(late') : late'[i].op # m
        BY <1>1, <2>1, <2>5, <3>2
      <4> QED
        BY <2>1, <4>1 DEF Kept, Known
    <3>3. CASE late[1] = [op |-> m, answer |-> "accepted"]
      <4>1. \A i \in 2..Len(late) : late[i].op # m
        BY <1>1, <1>2, <2>1, <3>3
      <4> QED
        BY <3>2, <4>1
    <3>4. CASE ~Known(m)
      <4>1. \A i \in 2..Len(late) : late[i].op # m
        BY <1>1, <3>4 DEF Known
      <4> QED
        BY <3>2, <4>1
    <3> QED
      BY <1>1, <2>5, <3>1, <3>3, <3>4 DEF Kept, LateAccepted
  <2> QED
    BY <2>3, <2>4, <2>5
<1> QED
  BY <1>3, <1>4, <1>5

LEMMA InitAcks == Init => AckInv
BY DEF Init, AckInv, AcceptancesAreSomewhere, LateDistinct, WaitersAreOurs, NoRequest

LEMMA WaitersNext ==
    ASSUME IInv, WaitersAreOurs, [Next]_vars
    PROVE  WaitersAreOurs'
<1>0. /\ req \in Requests
      /\ waiters # {} => req.stage = "waiting"
      /\ NoRequest.ours = TRUE
  BY DEF IInv, TypeOK, FreshChannel, NoRequest
<1>1. ASSUME NEW m \in Operations, Post(m) \/ Read(m) PROVE WaitersAreOurs'
  BY <1>1 DEF Post, Read, connection, WaitersAreOurs
<1>2. ASSUME NEW m \in Operations, Begin(m) PROVE WaitersAreOurs'
  BY <1>0, <1>2 DEF Begin, connection, WaitersAreOurs, NoRequest
<1>3. ASSUME NEW verdict, Decide(verdict) PROVE req'.ours = req.ours /\ req'.stage = "decided"
  BY <1>0, <1>3 DEF Decide, Requests
<1>4. CASE RouteUnknown \/ SubmitFails \/ Answered \/ GiveUp
  <2>1. /\ waiters' \subseteq waiters /\ target' = target /\ alive' = alive
        /\ req'.ours = req.ours /\ req'.stage = "decided"
    BY <1>3, <1>4 DEF RouteUnknown, SubmitFails, Answered, GiveUp, connection
  <2> QED
    BY <2>1 DEF WaitersAreOurs
<1>5. CASE Send
  BY <1>0, <1>5 DEF Send, WaitersAreOurs, Requests
<1>6. CASE Complete
  BY <1>0, <1>6 DEF Complete, connection, WaitersAreOurs, NoRequest
<1>7. CASE Confirm \/ RunnerAnswers \/ StaleRequest \/ RunnerExits
  BY <1>7 DEF Confirm, RunnerAnswers, StaleRequest, RunnerExits, connection, WaitersAreOurs
<1>8. CASE DeliverAnswer \/ ConnectionLost \/ DaemonRestarts
  BY <1>0, <1>8 DEF DeliverAnswer, ConnectionLost, DaemonRestarts, WaitersAreOurs
<1>9. CASE Reconnect \/ Forgotten
  <2>1. waiters = {} /\ waiters' = {}
    BY <1>9 DEF Reconnect, Forgotten, WaitersAreOurs
  <2>2. target' = "live" => alive'
    BY <1>9 DEF Reconnect, Forgotten
  <2>3. req'.stage \in {"idle", "begun"} => req'.ours
    BY <1>0, <1>9 DEF Reconnect, Forgotten, WaitersAreOurs, Requests
  <2> QED
    BY <2>1, <2>2, <2>3 DEF WaitersAreOurs
<1>10. CASE UNCHANGED vars
  BY <1>10 DEF vars, connection, WaitersAreOurs
<1> QED
  BY <1>1, <1>2, <1>4, <1>5, <1>6, <1>7, <1>8, <1>9, <1>10
     DEF Next, Submit, Receipt, Runner, Daemon

(* A handler that gives up keeps what its channel holds, and loses nothing *)
(* but the oldest late answer.                                             *)
LEMMA LateAfterKeeps ==
    ASSUME TypeOK, LateDistinct, NEW o \in Operations, late' = LateAfter(o)
    PROVE  /\ LateDistinct'
           /\ slots[o] = "accepted" /\ req.ours => LateAccepted(o)'
           /\ \A m \in Operations \ {o} : Kept(m) => Kept(m)'
           /\ slots[o] \in {"empty", "accepted"} /\ Kept(o) => Kept(o)'
<1>1. CASE slots[o] # "empty" /\ req.ours
  <2>1. PICK r : r = [op |-> o, answer |-> slots[o]]
    OBVIOUS
  <2>2. r \in Results /\ r.op = o /\ r.answer = slots[o]
    BY <1>1, <2>1 DEF TypeOK, Results
  <2>3. late' = Retained(r)
    BY <1>1, <2>1 DEF LateAfter
  <2>4. /\ LateDistinct'
        /\ r.answer = "accepted" => LateAccepted(o)'
        /\ \A m \in Operations \ {o} : Kept(m) => Kept(m)'
    BY <2>2, <2>3, RetainedKeeps
  <2>5. LateAccepted(o)' => Kept(o)'
    BY DEF Kept
  <2> QED
    BY <1>1, <2>2, <2>4, <2>5
<1>2. CASE ~(slots[o] # "empty" /\ req.ours)
  <2>1. late' = late
    BY <1>2 DEF LateAfter
  <2>2. \A m : Kept(m) => Kept(m)'
    BY <2>1 DEF Kept, LateAccepted, Known
  <2>3. LateDistinct'
    BY <2>1 DEF LateDistinct
  <2> QED
    BY <1>2, <2>2, <2>3
<1> QED
  BY <1>1, <1>2

LEMMA LateNext ==
    ASSUME IInv, LateDistinct, [Next]_vars
    PROVE  LateDistinct'
<1>1. CASE GiveUp
  <2>1. req.op \in Operations /\ late' = LateAfter(req.op)
    BY <1>1, HandlerFacts DEF GiveUp, TimedOut
  <2> QED
    BY <2>1, LateAfterKeeps DEF IInv
<1>2. CASE DeliverAnswer
  <2>1. PICK r : r = Head(outbox)
    OBVIOUS
  <2>2. r \in Results /\ (late' = late \/ late' = Retained(r))
    BY <1>2, <2>1, DeliveredFacts
  <2>3. CASE late' = late
    BY <2>3 DEF LateDistinct
  <2> QED
    BY <2>2, <2>3, RetainedKeeps DEF IInv
<1>3. CASE late' = <<>>
  BY <1>3 DEF LateDistinct
<1>4. CASE late' = late
  BY <1>4 DEF LateDistinct
<1>5. GiveUp \/ DeliverAnswer \/ late' = <<>> \/ late' = late
  BY DEF Next, Submit, Post, Begin, RouteUnknown, SubmitFails, Send, Answered, Complete,
         Receipt, Read, Confirm, Runner, RunnerAnswers, StaleRequest, RunnerExits,
         Daemon, ConnectionLost, Reconnect, Forgotten, DaemonRestarts, vars, connection
<1> QED
  BY <1>1, <1>2, <1>3, <1>4, <1>5

(* An acceptance that was read keeps its operation from being executed     *)
(* again, and from being the one the handler has only begun.               *)
LEMMA AckFacts ==
    ASSUME IInv, AcceptancesAreSomewhere, NEW m \in acked
    PROVE  /\ m \in Operations /\ m # NoOperation
           /\ OnlyAnswer(m) /\ Somewhere(m)
           /\ ~MayExecute(m)
           /\ ~(req.op = m /\ req.stage = "begun")
           /\ ~In(m, inbox) /\ ~In(m, stale)
           /\ InChannel(m) => req.stage = "waiting"
           /\ Settled(m) => ~(req.op = m /\ req.stage = "waiting")
<1>1. m \in Operations /\ m # NoOperation
  BY NoOperationAssumption DEF IInv, TypeOK
<1>2. OnlyAnswer(m) /\ Somewhere(m) /\ runs[m] = 1 /\ ~Unsent(m)
  BY DEF AcceptancesAreSomewhere, OnlyAnswer, Unsent
<1>3. ~MayExecute(m) /\ ~(req.op = m /\ req.stage = "begun")
  BY <1>1, <1>2 DEF IInv, Traceless, MayExecute
<1>4. ~In(m, inbox) /\ ~In(m, stale)
  BY <1>1, <1>2 DEF IInv, OneRequest
<1>5. InChannel(m) => req.stage = "waiting"
  BY <1>1 DEF InChannel, IInv, FreshChannel
<1> QED
  BY <1>1, <1>2, <1>3, <1>4, <1>5 DEF Settled

LEMMA OnlyAnswerNext ==
    ASSUME IInv, AcceptancesAreSomewhere, [Next]_vars, NEW m \in acked
    PROVE  OnlyAnswer(m)'
<1>1. /\ m \in Operations /\ runs[m] = 1 /\ ~Answering(m) /\ slots[m] \in {"empty", "accepted"}
      /\ ~In(m, inbox) /\ ~In(m, stale)
  BY AckFacts DEF OnlyAnswer
<1>2. CASE UNCHANGED <<runs, outbox>> /\ slots'[m] \in {slots[m], "empty"}
  BY <1>1, <1>2 DEF OnlyAnswer, Answering
<1>3. CASE outbox' = <<>> /\ runs' = runs /\ slots'[m] \in {slots[m], "empty"}
  BY <1>1, <1>3 DEF OnlyAnswer, Answering
<1>4. CASE DeliverAnswer
  <2>1. PICK r : r = Head(outbox)
    OBVIOUS
  <2>2. m # r.op /\ slots'[m] = slots[m] /\ ~Answering(m)'
    BY <1>1, <1>4, <2>1, DeliveredFacts
  <2> QED
    BY <1>1, <1>4, <2>2 DEF DeliverAnswer, OnlyAnswer
<1>5. CASE RunnerAnswers
  <2>1. PICK h : h = Head(inbox)
    OBVIOUS
  <2>2. h \in Operations /\ h # m
    BY <1>1, <1>5, <2>1, TailFacts DEF RunnerAnswers, IInv, TypeOK
  <2>3. PICK answer \in Answers : /\ Treat(h, answer)
                                  /\ outbox' = Append(outbox, [op |-> h, answer |-> answer])
    BY <1>5, <2>1 DEF RunnerAnswers
  <2>4. PICK result : result = [op |-> h, answer |-> answer]
    OBVIOUS
  <2>5. result \in Results /\ result.op = h
    BY <2>2, <2>4 DEF Results
  <2>6. ~Answering(m)'
    BY <1>1, <2>2, <2>3, <2>4, <2>5, OutboxAppend DEF IInv
  <2>7. runs'[m] = runs[m]
    BY <1>1, <2>2, <2>3 DEF Treat, Took, IInv, TypeOK
  <2> QED
    BY <1>1, <1>5, <2>6, <2>7 DEF RunnerAnswers, connection, OnlyAnswer
<1>6. CASE StaleRequest
  <2>1. PICK h : h = Head(stale)
    OBVIOUS
  <2>2. h \in Operations /\ h # m
    BY <1>1, <1>6, <2>1, TailFacts DEF StaleRequest, IInv, TypeOK
  <2>3. runs'[m] = runs[m]
    BY <1>1, <1>6, <2>1, <2>2 DEF StaleRequest, Treat, Took, IInv, TypeOK
  <2> QED
    BY <1>1, <1>6, <2>3 DEF StaleRequest, connection, OnlyAnswer, Answering
<1>7. CASE Answered \/ GiveUp
  <2>1. UNCHANGED <<runs, outbox>> /\ slots' = [slots EXCEPT ![req.op] = "empty"]
    BY <1>7 DEF Answered, GiveUp, wire
  <2>2. slots'[m] \in {slots[m], "empty"}
    BY <1>1, <2>1 DEF IInv, TypeOK
  <2> QED
    BY <1>2, <2>1, <2>2
<1>8. CASE DaemonRestarts
  <2>1. outbox' = <<>> /\ runs' = runs /\ slots'[m] = "empty"
    BY <1>1, <1>8 DEF DaemonRestarts
  <2> QED
    BY <1>3, <2>1
<1>9. \/ UNCHANGED <<runs, outbox, slots>> \/ (outbox' = <<>> /\ runs' = runs /\ slots' = slots)
      \/ DeliverAnswer \/ RunnerAnswers \/ StaleRequest \/ Answered \/ GiveUp \/ DaemonRestarts
  BY DEF Next, Submit, Post, Begin, RouteUnknown, SubmitFails, Send, Complete,
         Receipt, Read, Confirm, Runner, RunnerExits,
         Daemon, ConnectionLost, Reconnect, Forgotten, vars, connection, wire
<1> QED
  BY <1>2, <1>3, <1>4, <1>5, <1>6, <1>7, <1>8, <1>9

(* What becomes of an acceptance when the handler takes a step.            *)
LEMMA SomewhereSubmit ==
    ASSUME IInv, AckInv, Submit, NEW m \in acked
    PROVE  Somewhere(m)'
<1>1. /\ m \in Operations /\ m # NoOperation /\ OnlyAnswer(m) /\ Somewhere(m) /\ ~MayExecute(m)
      /\ ~(req.op = m /\ req.stage = "begun")
      /\ InChannel(m) => req.stage = "waiting"
      /\ Settled(m) => ~(req.op = m /\ req.stage = "waiting")
  BY AckFacts DEF AckInv
<1>2. late' = late => (Kept(m) => Kept(m)')
  BY DEF Kept, LateAccepted, Known
<1>3. \A n : n = req.op /\ req.stage # "idle" => n \in Operations /\ record[n] = Pending
  BY HandlerFacts
<1>4. Pending # Doubt
  BY StatusFacts
<1>5. ASSUME NEW n \in Operations, Post(n) PROVE Somewhere(m)'
  <2>1. UNCHANGED <<record, req, slots, late>>
    BY <1>5 DEF Post, connection
  <2> QED
    BY <1>1, <1>2, <2>1 DEF Somewhere, InChannel, Settled
<1>6. ASSUME NEW n \in Operations, Begin(n) PROVE Somewhere(m)'
  <2>1. UNCHANGED <<slots, late>> /\ req = NoRequest /\ req.op = NoOperation
    BY <1>6 DEF Begin, connection, NoRequest
  <2>2. CASE UNCHANGED <<record, req>>
    BY <1>1, <1>2, <2>1, <2>2 DEF Somewhere, InChannel, Settled
  <2>3. CASE MayExecute(n) /\ record' = [record EXCEPT ![n] = Pending] /\ req'.op = n
    BY <1>1, <1>2, <2>1, <2>3 DEF Somewhere, InChannel, Settled, IInv, TypeOK
  <2>4. \/ UNCHANGED <<record, req>>
        \/ MayExecute(n) /\ record' = [record EXCEPT ![n] = Pending] /\ req'.op = n
    BY <1>6 DEF Begin, NoRequest
  <2> QED
    BY <2>2, <2>3, <2>4
<1>7. CASE RouteUnknown \/ SubmitFails \/ Send
  <2>1. /\ UNCHANGED <<record, slots, late>>
        /\ req.stage = "begun" /\ req'.op = req.op /\ req'.ours = req.ours
    BY <1>7 DEF RouteUnknown, SubmitFails, Send, connection, Decide, IInv, TypeOK, Requests
  <2> QED
    BY <1>1, <1>2, <2>1 DEF Somewhere, InChannel, Settled
<1>8. CASE Answered \/ GiveUp
  <2>1. PICK o : o = req.op
    OBVIOUS
  <2>2. req.stage = "waiting" /\ o \in Operations /\ record[o] = Pending /\ record' = record
    BY <1>3, <1>8, <2>1 DEF Answered, GiveUp, TimedOut
  <2>3. req'.op = o /\ req'.stage = "decided"
    BY <1>8, <2>1 DEF Answered, GiveUp, Decide, IInv, TypeOK, Requests
  <2>4. ~(InChannel(m) /\ o # m) /\ ~(Settled(m) /\ o = m)
    BY <1>1, <2>1, <2>2 DEF InChannel
  <2>5. CASE Settled(m)
    BY <2>1, <2>2, <2>3, <2>4, <2>5 DEF Somewhere, Settled
  <2>6. CASE Answered /\ Kept(m)
    BY <1>2, <2>6 DEF Answered, Somewhere
  <2>7. CASE Answered /\ InChannel(m)
    <3>1. slots[o] = "accepted" /\ o = m
      BY <2>1, <2>7 DEF InChannel
    <3>2. \/ req'.verdict = Outcome("accepted", "boundary")
          \/ req'.verdict = Outcome("unknown", "boundary")
      BY <2>1, <2>7, <3>1 DEF Answered, Decide, IInv, TypeOK, Requests
    <3>3. req'.verdict # Doubt
      <4>1. \A status, acceptance : Outcome(status, acceptance).acceptance = acceptance
        BY DEF Outcome
      <4>2. req'.verdict.acceptance = "boundary" /\ Doubt.acceptance = ""
        BY <3>2, <4>1 DEF Doubt
      <4> QED
        BY <4>2
    <3> QED
      BY <1>4, <2>2, <2>3, <3>1, <3>3 DEF Somewhere, Settled
  <2>8. CASE GiveUp /\ ~Settled(m)
    <3>1. /\ o # m /\ Kept(m) => Kept(m)'
          /\ slots[o] = "accepted" /\ req.ours => LateAccepted(o)'
          /\ slots[o] \in {"empty", "accepted"} /\ Kept(o) => Kept(o)'
      BY <1>1, <2>1, <2>2, <2>8, LateAfterKeeps DEF GiveUp, IInv, AckInv
    <3>2. o = m => Kept(m)'
      BY <1>1, <2>1, <2>8, <3>1 DEF OnlyAnswer, Somewhere, InChannel, Kept
    <3> QED
      BY <1>1, <2>4, <2>8, <3>1, <3>2 DEF Somewhere
  <2> QED
    BY <1>1, <1>8, <2>5, <2>6, <2>7, <2>8 DEF Somewhere
<1>9. CASE Complete
  <2>1. PICK o : o = req.op
    OBVIOUS
  <2>2. /\ o \in Operations /\ record[o] = Pending /\ late' = late
        /\ req.stage = "decided" /\ req'.op = NoOperation
    BY <1>3, <1>9, <2>1 DEF Complete, connection, NoRequest
  <2>3. \A n \in Operations : record'[n] = record[n] \/ (n = o /\ record'[n] = req.verdict)
    BY <1>9, <2>1, <2>2 DEF Complete, Completed, IInv, TypeOK
  <2>4. Settled(m) => Settled(m)'
    BY <1>1, <2>1, <2>2, <2>3 DEF Settled
  <2> QED
    BY <1>1, <1>2, <2>2, <2>4 DEF Somewhere
<1> QED
  BY <1>5, <1>6, <1>7, <1>8, <1>9 DEF Submit

LEMMA SomewhereElse ==
    ASSUME IInv, AckInv, Receipt \/ Runner \/ DeliverAnswer \/ ConnectionLost \/ UNCHANGED vars,
           NEW m \in acked
    PROVE  Somewhere(m)'
<1>1. m \in Operations /\ OnlyAnswer(m) /\ Somewhere(m)
  BY AckFacts DEF AckInv
<1>2. late' = late => (Kept(m) => Kept(m)')
  BY DEF Kept, LateAccepted, Known
<1>3. CASE UNCHANGED <<record, req, slots, late>>
  BY <1>1, <1>2, <1>3 DEF Somewhere, InChannel, Settled
<1>4. CASE Confirm
  <2>1. UNCHANGED <<req, slots, late>>
    BY <1>4 DEF Confirm, connection
  <2>2. record'[m] # Doubt \/ record'[m] = record[m]
    <3>1. Outcome("accepted", "boundary") # Doubt
      BY StatusFacts
    <3> QED
      BY <1>1, <1>4, <3>1 DEF Confirm, Confirmed, IInv, TypeOK
  <2> QED
    BY <1>1, <1>2, <2>1, <2>2 DEF Somewhere, InChannel, Settled
<1>5. CASE DeliverAnswer
  <2>1. PICK r : r = Head(outbox)
    OBVIOUS
  <2>2. /\ r \in Results /\ m # r.op /\ slots'[m] = slots[m]
        /\ late' = late \/ late' = Retained(r)
    BY <1>1, <1>5, <2>1, DeliveredFacts DEF OnlyAnswer
  <2>3. Kept(m) => Kept(m)'
    BY <1>1, <1>2, <2>2, RetainedKeeps DEF IInv, AckInv
  <2>4. UNCHANGED <<record, req>>
    BY <1>5 DEF DeliverAnswer
  <2> QED
    BY <1>1, <2>2, <2>3, <2>4 DEF Somewhere, InChannel, Settled
<1>6. UNCHANGED <<record, req, slots, late>> \/ Confirm \/ DeliverAnswer
  BY DEF Receipt, Read, Runner, RunnerAnswers, StaleRequest, RunnerExits, ConnectionLost,
         vars, connection
<1> QED
  BY <1>3, <1>4, <1>5, <1>6

(* An acceptance is read: it reaches the waiting handler's channel, or is  *)
(* kept among the late answers.                                            *)
LEMMA NewAcceptance ==
    ASSUME IInv, AckInv, DeliverAnswer, NEW m \in acked' \ acked
    PROVE  OnlyAnswer(m)' /\ Somewhere(m)'
<1>1. PICK r : r = Head(outbox)
  OBVIOUS
<1>2. m = r.op /\ r.answer = "accepted"
  BY <1>1 DEF DeliverAnswer
<1>3. /\ r \in Results /\ m \in Operations
      /\ Truthful(m, "accepted") /\ slots[m] = "empty"
      /\ \/ m \in waiters /\ slots' = [slots EXCEPT ![m] = "accepted"]
         \/ late' = Retained(r) /\ slots' = slots
      /\ ~Answering(m)'
  BY <1>1, <1>2, DeliveredFacts
<1>4. slots'[m] \in {"empty", "accepted"} /\ (m \in waiters => slots'[m] = "accepted" \/ late' = Retained(r))
  BY <1>3 DEF IInv, TypeOK
<1>5. OnlyAnswer(m)'
  BY <1>3, <1>4 DEF DeliverAnswer, Truthful, OnlyAnswer
<1>6. CASE late' = Retained(r)
  <2>1. LateAccepted(m)'
    BY <1>2, <1>3, <1>6, RetainedKeeps DEF IInv, AckInv
  <2> QED
    BY <1>5, <2>1 DEF Somewhere, Kept
<1>7. CASE m \in waiters /\ slots'[m] = "accepted"
  <2>1. req.op = m /\ req.ours /\ req' = req
    BY <1>3, <1>7 DEF DeliverAnswer, IInv, FreshChannel, AckInv, WaitersAreOurs
  <2> QED
    BY <1>5, <1>7, <2>1 DEF Somewhere, InChannel
<1> QED
  BY <1>3, <1>4, <1>6, <1>7

LEMMA AckNext == IInv /\ AckInv /\ [Next]_vars => AckInv'
<1> SUFFICES ASSUME IInv, AckInv, [Next]_vars PROVE AckInv'
  OBVIOUS
<1>1. WaitersAreOurs' /\ LateDistinct'
  BY WaitersNext, LateNext DEF AckInv
<1>2. \A m \in acked : OnlyAnswer(m)'
  BY OnlyAnswerNext DEF AckInv
<1>3. CASE acked' = {}
  BY <1>1, <1>3 DEF AckInv, AcceptancesAreSomewhere
<1>4. CASE Submit \/ Receipt \/ Runner \/ ConnectionLost \/ UNCHANGED vars
  <2>1. acked' = acked
    BY <1>4 DEF Submit, Post, Begin, RouteUnknown, SubmitFails, Send, Answered, GiveUp, Complete,
                Receipt, Read, Confirm, Runner, RunnerAnswers, StaleRequest, RunnerExits,
                ConnectionLost, vars, connection
  <2>2. \A m \in acked : Somewhere(m)'
    BY <1>4, SomewhereSubmit, SomewhereElse
  <2> QED
    BY <1>1, <1>2, <2>1, <2>2 DEF AckInv, AcceptancesAreSomewhere
<1>5. CASE DeliverAnswer
  <2>1. \A m \in acked : Somewhere(m)'
    BY <1>5, SomewhereElse
  <2>2. \A m \in acked' \ acked : OnlyAnswer(m)' /\ Somewhere(m)'
    BY <1>5, NewAcceptance
  <2> QED
    BY <1>1, <1>2, <2>1, <2>2 DEF AckInv, AcceptancesAreSomewhere
<1>6. acked' = {} \/ Submit \/ Receipt \/ Runner \/ ConnectionLost \/ DeliverAnswer \/ UNCHANGED vars
  BY DEF Next, Daemon, Reconnect, Forgotten, DaemonRestarts
<1> QED
  BY <1>3, <1>4, <1>5, <1>6

(* Where every accepted answer of the current connection is, for any       *)
(* number of operations and any limit of late answers.                     *)
THEOREM AcceptancesTraced == Spec => []AckInv
<1> QED
  BY InitAcks, AckNext, Invariance, PTL DEF Spec

(* An acceptance that reached the connection while the caller gave up is   *)
(* kept for a later reader, unless newer answers have taken its place.     *)
THEOREM AcceptanceIsKept == Spec => []NoAcceptanceForgotten
<1>1. IInv /\ AckInv => NoAcceptanceForgotten
  <2> SUFFICES ASSUME IInv, AckInv, NEW m \in acked, Confirmable(m) PROVE Kept(m)
    BY DEF NoAcceptanceForgotten
  <2>1. m \in Operations /\ m # NoOperation /\ Somewhere(m)
    BY AckFacts DEF AckInv
  <2>2. record[m] = Doubt /\ Doubt # Pending
    BY StatusFacts DEF Confirmable
  <2>3. req.op # m
    BY <2>1, <2>2 DEF IInv, HandlerOK
  <2> QED
    BY <2>1, <2>2, <2>3 DEF Somewhere, InChannel, Settled
<1> QED
  BY <1>1, Invariance, AcceptancesTraced, PTL

-----------------------------------------------------------------------------
(* A receipt that reads unknown.                                           *)

(* It turns into one that offers a retry only while its own handler is     *)
(* still at work, which has a refusal in hand that left nothing on its way *)
(* to the runner: a settled doubt, a reader, a late answer, another        *)
(* submit or a restart of the daemon never makes it look safe to resend    *)
(* (delivery/store.go Complete and ConfirmAccepted).                       *)
OnlyItsHandlerRefuses ==
    [][\A m \in Operations :
          Shown(m) = "unknown" /\ Shown(m)' = "not-delivered"
              => /\ record[m] = Pending /\ req.op = m /\ req.stage = "decided"
                 /\ Unsent(m) /\ Unsent(m)' /\ Unanswered(m)']_vars

LEMMA RefusedByHandler ==
    ASSUME IInv, [Next]_vars, NEW m \in Operations,
           Shown(m) = "unknown", Shown(m)' = "not-delivered"
    PROVE  /\ record[m] = Pending /\ req.op = m /\ req.stage = "decided"
           /\ Unsent(m) /\ Unsent(m)' /\ Unanswered(m)'
<1>0. /\ record \in [Operations -> Outcomes]
      /\ record[m].status \in {"pending", "unknown"} /\ record'[m].status = "not-delivered"
  BY DEF IInv, TypeOK, Shown, Outcomes
<1>1. ~(Untouched.status = "not-delivered" \/ Pending.status = "not-delivered"
          \/ Outcome("torn", "").status = "not-delivered"
          \/ Outcome("accepted", "boundary").status = "not-delivered")
  BY DEF Untouched, Pending, Outcome
<1>2. Complete
  <2>1. ASSUME NEW n \in Operations, Begin(n) PROVE record'[m] = record[m]
    BY <1>0, <2>1 DEF Begin, MayExecute
  <2>2. ASSUME Confirm PROVE record'[m] \in {record[m], Outcome("accepted", "boundary")}
    BY <1>0, <2>2 DEF Confirm, Confirmed
  <2>3. ASSUME DaemonRestarts PROVE record'[m] = record[m]
    <3>0. Untouched.status = "none"
      BY DEF Untouched, Outcome
    <3>1. \A n \in Operations : record[n] = Untouched => n # m
      BY <1>0, <3>0
    <3>2. record' = record \/ \E n \in Operations :
                record[n] = Untouched /\ record' = [record EXCEPT ![n] = Outcome("torn", "")]
      BY <2>3 DEF DaemonRestarts, RecordAfterCrash
    <3> QED BY <1>0, <3>1, <3>2
  <2>4. CASE record' = record
    BY <1>0, <2>4
  <2> QED BY <1>0, <1>1, <2>1, <2>2, <2>3, <2>4
      DEF Next, Submit, Post, RouteUnknown, SubmitFails, Send, Answered, GiveUp, Receipt, Read,
          Runner, RunnerAnswers, StaleRequest, RunnerExits, Daemon, DeliverAnswer, ConnectionLost,
          Reconnect, Forgotten, vars
<1>3. req.stage = "decided" /\ record' = Completed(req.op, req.verdict)
  BY <1>0, <1>2 DEF Complete
<1>4. req.op = m /\ record[m].status = "pending" /\ req.verdict.status = "not-delivered"
  BY <1>0, <1>3 DEF Completed
<1>5. m # NoOperation
  BY NoOperationAssumption
<1>6. record[m] = Pending /\ Unsent(m) /\ Unanswered(m)
  BY <1>3, <1>4, <1>5 DEF IInv, HandlerOK
<1>7. UNCHANGED <<runs, inbox, stale, slots, outbox>>
  BY <1>2 DEF Complete, wire, connection
<1> QED BY <1>3, <1>4, <1>6, <1>7 DEF Unsent, Unanswered, Answering, In

(* A receipt that was read as unknown becomes safe to resend only by the   *)
(* decision of the handler that still owns its only request, which was     *)
(* never sent: no other path, no crash and no late answer moves one there  *)
(* (CONTRACT/http-api.md:2267; delivery/store.go Complete).                *)
THEOREM ResendIsItsHandlersNews == Spec => OnlyItsHandlerRefuses
<1>1. IInv /\ [Next]_vars =>
          \A m \in Operations :
              Shown(m) = "unknown" /\ Shown(m)' = "not-delivered"
                  => /\ record[m] = Pending /\ req.op = m /\ req.stage = "decided"
                     /\ Unsent(m) /\ Unsent(m)' /\ Unanswered(m)'
  BY RefusedByHandler
<1> QED BY <1>1, Invariance, PTL DEF Spec, OnlyItsHandlerRefuses
=============================================================================
