----------------------- MODULE ClaudeTurnQueue_proofs -----------------------
(***************************************************************************)
(* Proofs about the structured Claude runner for every set of messages,    *)
(* every limit and any number of restarts.                                 *)
(***************************************************************************)
EXTENDS ClaudeTurnQueue, FiniteSetTheorems, NaturalsInduction, WellFoundedInduction, TLAPS

USE FiniteAssumption, NoTextAssumption, TextsAssumption, LimitsAssumption

-----------------------------------------------------------------------------
(* Lemmas about the operators of the queue.                                *)

(* Trimming only drops entries, and never one that waits to be sent.       *)
LEMMA TrimKeepsQueued ==
    ASSUME NEW items, NEW cur
    PROVE  /\ Trim(items, cur) \subseteq items
           /\ \A it \in items : it.phase = "queued" => it \in Trim(items, cur)
BY DEF Trim, ReceiptOnly

(* A non-empty set of entries has an oldest one.                           *)
LEMMA OldestIsOldest ==
    ASSUME NEW S \in SUBSET Items, S # {}
    PROVE  /\ Oldest(S) \in S
           /\ \A other \in S : Oldest(S).at <= other.at
<1> DEFINE Places == {it.at : it \in S}
<1>0. \A n : n \in Places <=> \E it \in S : it.at = n
  OBVIOUS
<1>1. Places \subseteq Nat /\ Places # {}
  BY DEF Items
<1> HIDE DEF Places
<1>2. PICK n \in Places : \A k \in Places : n <= k
  <2>1. IsWellFoundedOn(OpToRel(<, Nat), Nat)
    BY NatLessThanWellFounded
  <2>2. PICK n \in Places : \A k \in Places : ~(<<k, n>> \in OpToRel(<, Nat))
    BY <1>1, <2>1, WFMin
  <2>3. \A k \in Places : ~(k < n)
    BY <1>1, <2>2, Zenon DEF OpToRel
  <2>4. n \in Places
    OBVIOUS
  <2> QED
    BY <1>1, <2>3, <2>4
<1>3. PICK it \in S : it.at = n
  BY <1>0, <1>2
<1>4. \A other \in S : it.at <= other.at
  BY <1>0, <1>2, <1>3
<1> QED
  BY <1>3, <1>4 DEF Oldest

(* The number of admissions so far is a natural number.                    *)
LEMMA AdmittedIsFinite ==
    ASSUME queue \in Queues
    PROVE  /\ IsFiniteSet(Admitted)
           /\ Cardinality(Admitted) \in Nat
<1>1. Admitted \subseteq Messages
  BY DEF Admitted, Ids, Queues, Items
<1> QED
  BY <1>1, FS_Subset, FS_CardinalityType

-----------------------------------------------------------------------------
(* Type correctness.                                                       *)

(* A turn is a first attempt, or one of at most RetryMax retries.          *)
LEMMA AttemptFacts ==
    /\ 0 \in Attempts
    /\ 1 \in Attempts
    /\ \A attempt \in Attempts : attempt < RetryMax => attempt + 1 \in Attempts
BY DEF Attempts

(* The values the actions build from constants.                            *)
LEMMA ConstantTypes ==
    /\ NoTurn \in Turns
    /\ Clear \in Retries
    /\ Idle \in Callers
    /\ Free \in Locks
    /\ Gone \in Queues
BY AttemptFacts
   DEF NoTurn, Turns, Clear, Retries, Idle, Callers, Free, Locks, Gone, Queues,
       Outcomes, Boundaries, Texts

LEMMA SpawnedType ==
    ASSUME NEW text \in Texts \cup {NoText}, NEW id \in Messages \cup {NoText}, NEW attempt \in Attempts
    PROVE  Spawned(text, id, attempt) \in Turns
BY DEF Spawned, NoTurn, Turns, Outcomes

LEMMA ClaimingType ==
    ASSUME NEW msg \in Messages \cup {NoText}, NEW boundary \in Boundaries, NEW resume \in BOOLEAN
    PROVE  Claiming(msg, boundary, resume) \in Locks
BY DEF Claiming, Free, Locks

LEMMA ToldType ==
    ASSUME TypeOK, NEW answer \in Replies, NEW msg \in Messages \cup {NoText}
    PROVE  Told(msg, answer) \in [Messages -> Replies]
BY DEF TypeOK, Told

LEMMA RetryTypes ==
    ASSUME TypeOK
    PROVE  /\ RetryInterrupt \in Retries
           /\ RetryClosed \in Retries
           /\ RetryStopped \in Retries
           /\ RetryReplaced \in Retries
           /\ RetrySucceeded \in Retries
BY ConstantTypes, AttemptFacts DEF TypeOK, Retries, RetryInterrupt, RetryClosed, RetryStopped,
                     RetryReplaced, RetrySucceeded

LEMMA RetryFailedType ==
    ASSUME TypeOK, NEW text \in Texts \cup {NoText}, NEW attempt \in Attempts, NEW kind
    PROVE  RetryFailed(text, attempt, kind) \in Retries
<1>1. attempt < RetryMax =>
         [input |-> text, sched |-> TRUE, timer |-> TRUE,
          attempt |-> attempt + 1, suppressed |-> FALSE] \in Retries
  BY AttemptFacts DEF Retries
<1>2. [RetryClosed EXCEPT !.input = text] \in Retries
  BY RetryTypes DEF Retries
<1> QED
  BY <1>1, <1>2 DEF RetryFailed, MayRetry

LEMMA TypeInit == Init => TypeOK
<1> SUFFICES ASSUME Init PROVE TypeOK
  OBVIOUS
<1>1. /\ turn \in Turns /\ retry \in Retries /\ lock \in Locks
      /\ disk \in Queues /\ queue \in Queues
      /\ caller \in [{"timer", "user"} -> Callers]
  BY ConstantTypes DEF Init
<1>2. /\ reply \in [Messages -> Replies]
      /\ handed \in [Messages -> Nat]
      /\ launched \in [Messages -> SUBSET Nat]
  BY DEF Init, Replies
<1> QED
  BY <1>1, <1>2 DEF Init, TypeOK

(* What a step leaves alone keeps its type.                                *)
LEMMA TypeStutter == TypeOK /\ UNCHANGED vars => TypeOK'
BY DEF TypeOK, vars, volatile, history, ghosts

LEMMA TypeClaim == TypeOK /\ Claim => TypeOK'
<1> SUFFICES ASSUME TypeOK, Claim PROVE TypeOK'
  OBVIOUS
<1>0. /\ lock.msg \in Messages \cup {NoText}
      /\ lock.boundary \in Replies
  BY DEF TypeOK, Locks, Replies
<1>1. CASE ClaimRefused
  BY <1>0, <1>1, ToldType, ConstantTypes DEF ClaimRefused, TypeOK, ghosts
<1>2. CASE ClaimReserve
  <2>1. lock' \in Locks
    BY <1>2 DEF ClaimReserve, TypeOK, Locks
  <2> QED
    BY <1>2, <2>1 DEF ClaimReserve, TypeOK, ghosts
<1>3. CASE ClaimNothing
  BY <1>0, <1>3, ToldType, ConstantTypes DEF ClaimNothing, TypeOK, history, ghosts
<1>4. CASE ClaimCommit
  <2> DEFINE it == Oldest(Queued(queue))
  <2>1. it \in queue.items /\ it \in Items
    BY <1>4, OldestIsOldest DEF ClaimCommit, TypeOK, Queues, Queued
  <2>2. DispatchedNow(it) \in Queues
    BY <2>1 DEF DispatchedNow, TypeOK, Queues, Items, Phases
  <2>3. it.id \in Messages
    BY <2>1 DEF Items
  <2> HIDE DEF it
  <2>4. Spawned(it.id, it.id, 0) \in Turns
    BY <2>3, SpawnedType, AttemptFacts DEF Texts
  <2>5. /\ disk' = DispatchedNow(it) /\ queue' = DispatchedNow(it)
        /\ current' = it.id
        /\ turn' = Spawned(it.id, it.id, 0)
        /\ handed' = [handed EXCEPT ![it.id] = life]
    BY <1>4 DEF ClaimCommit, Written, it
  <2>6. /\ retry' = RetryReplaced
        /\ lock' = Free
        /\ reply' = Told(lock.msg, lock.boundary)
        /\ UNCHANGED <<up, life, active, caller, history, launched, answered>>
    BY <1>4 DEF ClaimCommit
  <2>7. /\ reply' \in [Messages -> Replies] /\ retry' \in Retries /\ lock' \in Locks
    BY <1>0, <2>6, ToldType, ConstantTypes, RetryTypes
  <2>8. handed' \in [Messages -> Nat]
    BY <2>3, <2>5 DEF TypeOK
  <2> QED
    BY <2>2, <2>3, <2>4, <2>5, <2>6, <2>7, <2>8 DEF TypeOK, history
<1>5. CASE ClaimWriteFails
  <2>1. queue' \in Queues
    BY <1>5 DEF ClaimWriteFails, TypeOK, Queues
  <2> QED
    BY <1>0, <1>5, <2>1, ToldType, ConstantTypes
       DEF ClaimWriteFails, TypeOK, history, ghosts, Replies, Boundaries
<1> QED
  BY <1>1, <1>2, <1>3, <1>4, <1>5 DEF Claim

LEMMA TypeAdmit == TypeOK /\ Admit => TypeOK'
<1> SUFFICES ASSUME TypeOK, Admit PROVE TypeOK'
  OBVIOUS
<1>1. ASSUME NEW m \in Messages, AdmitRefused(m) PROVE TypeOK'
  BY <1>1 DEF AdmitRefused, TypeOK, volatile, history, ghosts, Replies
<1>2. ASSUME NEW m \in Messages, AdmitDuplicate(m) PROVE TypeOK'
  <2>1. PICK it \in queue.items :
           reply' = [reply EXCEPT ![m] = IF it.phase = "queued" THEN "queue" ELSE it.boundary]
    BY <1>2 DEF AdmitDuplicate
  <2>2. it.boundary \in Boundaries
    BY DEF TypeOK, Queues, Items
  <2>3. reply' \in [Messages -> Replies]
    BY <2>1, <2>2 DEF TypeOK, Replies, Boundaries
  <2> QED
    BY <1>2, <2>3 DEF AdmitDuplicate, TypeOK, volatile, history, ghosts
<1>3. ASSUME NEW m \in Messages, AdmitBegin(m) PROVE TypeOK'
  <2>1. (queue.paused /\ PauseHoldsWork) \in BOOLEAN
    BY DEF PauseHoldsWork
  <2>2. lock' \in Locks
    BY <1>3, <2>1 DEF AdmitBegin, Locks, Free, BoundaryFor, Boundaries
  <2>3. reply' \in [Messages -> Replies]
    BY <1>3 DEF AdmitBegin, TypeOK, Replies
  <2> QED
    BY <1>3, <2>2, <2>3 DEF AdmitBegin, TypeOK, history, ghosts
<1>4. CASE AdmitCommit
  <2>1. lock.paused \in BOOLEAN /\ lock.boundary \in Boundaries /\ lock.msg \in Messages \cup {NoText}
    BY DEF TypeOK, Locks
  <2>2. Claiming(lock.msg, lock.boundary, FALSE) \in Locks
    BY <2>1, ClaimingType
  <2>3. lock.msg \in Messages
    BY <1>4 DEF AdmitCommit, TypeOK, Locks
  <2>4. Saved \in Queues
    <3>1. Trim(queue.items, current) \subseteq Items
      BY TrimKeepsQueued DEF TypeOK, Queues
    <3>2. [id |-> lock.msg, phase |-> "queued", boundary |-> lock.boundary,
           at |-> Cardinality(Admitted)] \in Items
      BY <2>1, <2>3, AdmittedIsFinite DEF TypeOK, Items, Phases
    <3> QED
      BY <2>1, <3>1, <3>2 DEF Saved, Queues
  <2>5. disk' = Saved /\ queue' = Saved
    BY <1>4 DEF AdmitCommit, Written
  <2> QED
    BY <1>4, <2>2, <2>4, <2>5 DEF AdmitCommit, TypeOK, history, ghosts
<1>5. CASE AdmitWriteFails
  <2>1. reply' \in [Messages -> Replies]
    BY <1>5 DEF AdmitWriteFails, TypeOK, Replies
  <2> QED
    BY <1>5, <2>1, ConstantTypes DEF AdmitWriteFails, TypeOK, history, ghosts
<1>6. ASSUME NEW m \in Messages, RepeatRefused(m) PROVE TypeOK'
  BY <1>6 DEF RepeatRefused, TypeOK, volatile, history, ghosts, Replies
<1> QED
  BY <1>1, <1>2, <1>3, <1>4, <1>5, <1>6 DEF Admit

LEMMA TypeInput == TypeOK /\ Input => TypeOK'
<1> SUFFICES ASSUME TypeOK, Input PROVE TypeOK'
  OBVIOUS
<1>1. CASE Interrupt
  <2>1. turn' \in Turns
    BY <1>1 DEF Interrupt, TypeOK, Turns
  <2> QED
    BY <1>1, <2>1, RetryTypes DEF Interrupt, TypeOK, history, ghosts
<1>2. CASE Keystroke
  BY <1>2, RetryTypes DEF Keystroke, TypeOK, history, ghosts
<1>3. ASSUME NEW y \in RawTexts, Enter(y) PROVE TypeOK'
  <2>1. Spawned(y, NoText, 0) \in Turns
    BY SpawnedType, AttemptFacts DEF Texts
  <2> QED
    BY <1>3, <2>1, RetryTypes DEF Enter, TypeOK, history, ghosts
<1> QED
  BY <1>1, <1>2, <1>3 DEF Input

LEMMA RunningType ==
    ASSUME NEW text \in Texts \cup {NoText}, NEW attempt \in Attempts
    PROVE  Running(text, attempt) \in Callers
BY DEF Running, Callers

LEMMA TypeRetry == TypeOK /\ Retry => TypeOK'
<1> SUFFICES ASSUME TypeOK, Retry PROVE TypeOK'
  OBVIOUS
<1>0. /\ retry.input \in Texts \cup {NoText} /\ retry.attempt \in Attempts
      /\ \A c \in {"timer", "user"} :
            caller[c].text \in Texts \cup {NoText} /\ caller[c].attempt \in Attempts
  BY DEF TypeOK, Retries, Callers
<1>a. CASE RetryRequest
  <2>1. caller' \in [{"timer", "user"} -> Callers]
    BY <1>a DEF RetryRequest, TypeOK, Callers
  <2> QED
    BY <1>a, <2>1 DEF RetryRequest, TypeOK, history, ghosts
<1>1. CASE RunNow
  <2> DEFINE attempt == IF retry.sched THEN retry.attempt ELSE 1
  <2>1. attempt \in Attempts
    BY <1>0, AttemptFacts
  <2> HIDE DEF attempt
  <2>2. CASE retry.input # NoText
    <3>1. /\ retry' = [retry EXCEPT !.sched = TRUE, !.timer = FALSE, !.attempt = attempt]
          /\ caller' = [caller EXCEPT !["user"] = Running(retry.input, attempt)]
      BY <1>1, <2>2 DEF RunNow, attempt
    <3>2. retry' \in Retries
      BY <2>1, <3>1 DEF TypeOK, Retries
    <3>3. caller' \in [{"timer", "user"} -> Callers]
      BY <1>0, <2>1, <3>1, RunningType DEF TypeOK
    <3> QED
      BY <1>1, <3>2, <3>3 DEF RunNow, TypeOK, history, ghosts
  <2>3. CASE retry.input = NoText
    <3>1. caller' = [caller EXCEPT !["user"].op = "resume"] /\ UNCHANGED retry
      BY <1>1, <2>3 DEF RunNow
    <3>2. caller' \in [{"timer", "user"} -> Callers]
      BY <3>1 DEF TypeOK, Callers
    <3> QED
      BY <1>1, <3>1, <3>2 DEF RunNow, TypeOK, history, ghosts
  <2> QED
    BY <2>2, <2>3
<1>2. CASE RetryStop
  BY <1>2, RetryTypes DEF RetryStop, TypeOK, history, ghosts
<1>3. CASE TimerFires
  <2>1. retry' \in Retries
    BY <1>3 DEF TimerFires, TypeOK, Retries
  <2>2. caller' \in [{"timer", "user"} -> Callers]
    BY <1>0, <1>3, RunningType DEF TimerFires, TypeOK
  <2> QED
    BY <1>3, <2>1, <2>2 DEF TimerFires, TypeOK, history, ghosts
<1>4. ASSUME NEW c \in {"timer", "user"}, StartRetryTurn(c) PROVE TypeOK'
  <2>1. caller' \in [{"timer", "user"} -> Callers]
    BY <1>4, ConstantTypes DEF StartRetryTurn, TypeOK
  <2>2. Spawned(caller[c].text, current, caller[c].attempt) \in Turns
    BY <1>0, SpawnedType DEF TypeOK
  <2>3. turn' \in Turns /\ active' \in BOOLEAN
    BY <1>4, <2>2 DEF StartRetryTurn, TypeOK
  <2> QED
    BY <1>4, <2>1, <2>3 DEF StartRetryTurn, TypeOK, history, ghosts
<1>5. CASE ResumeQueue("user")
  <2>1. caller' \in [{"timer", "user"} -> Callers]
    BY <1>5, ConstantTypes DEF ResumeQueue, TypeOK
  <2>2. lock' \in Locks
    BY <1>5, ClaimingType DEF ResumeQueue, Boundaries
  <2> QED
    BY <1>5, <2>1, <2>2 DEF ResumeQueue, TypeOK, history, ghosts
<1> QED
  BY <1>a, <1>1, <1>2, <1>3, <1>4, <1>5 DEF Retry

(* Settling only renames phases to "done" and drops receipts.              *)
LEMMA SettledQueueType ==
    ASSUME TypeOK
    PROVE  SettledQueue \in Queues
<1>1. MarkDone(queue.items) \subseteq Items
  <2>1. \A it \in queue.items : [it EXCEPT !.phase = "done"] \in Items
    BY DEF TypeOK, Queues, Items, Phases
  <2> QED
    BY <2>1 DEF MarkDone, TypeOK, Queues
<1>2. Trim(MarkDone(queue.items), current) \subseteq Items
  BY <1>1, TrimKeepsQueued
<1> QED
  BY <1>2 DEF SettledQueue, Queues

LEMMA TypeTurn == TypeOK /\ Turn => TypeOK'
<1> SUFFICES ASSUME TypeOK, Turn PROVE TypeOK'
  OBVIOUS
<1>0. /\ turn.text \in Texts \cup {NoText}
      /\ turn.attempt \in Attempts
      /\ \A outcome \in Outcomes :
            [turn EXCEPT !.stage = "ended", !.outcome = outcome] \in Turns
      /\ \A kind : RetryFailed(turn.text, turn.attempt, kind) \in Retries
  <2>1. turn.text \in Texts \cup {NoText} /\ turn.attempt \in Attempts
    BY DEF TypeOK, Turns
  <2>2. \A outcome \in Outcomes :
            [turn EXCEPT !.stage = "ended", !.outcome = outcome] \in Turns
    BY DEF TypeOK, Turns
  <2> QED
    BY <2>1, <2>2, RetryFailedType
<1>1. CASE TurnBegin
  <2>1. turn' \in Turns
    BY <1>1 DEF TurnBegin, TypeOK, Turns
  <2> QED
    BY <1>1, <2>1 DEF TurnBegin, TypeOK, ghosts
<1>2. CASE TurnLaunch
  <2>1. turn' \in Turns
    BY <1>2 DEF TurnLaunch, TypeOK, Turns
  <2>2. launched' \in [Messages -> SUBSET Nat]
    BY <1>2 DEF TurnLaunch, TypeOK
  <2> QED
    BY <1>2, <2>1, <2>2 DEF TurnLaunch, TypeOK, history
<1>3. CASE TurnLaunchFails
  <2>1. turn' \in Turns
    BY <1>0, <1>3 DEF TurnLaunchFails, End, Outcomes
  <2>2. told' \subseteq Messages
    BY <1>3 DEF TurnLaunchFails, ToldOf, TypeOK
  <2>3. retry' \in {retry, RetrySucceeded} \/ \E kind \in FaultKinds : retry' = RetryFailed(turn.text, turn.attempt, kind)
    BY <1>3 DEF TurnLaunchFails
  <2>4. retry' \in Retries
    <3>1. retry \in Retries
      BY DEF TypeOK
    <3>2. RetrySucceeded \in Retries
      BY RetryTypes
    <3> QED
      BY <1>0, <2>3, <3>1, <3>2
  <2> QED
    BY <1>3, <2>1, <2>2, <2>4 DEF TurnLaunchFails, TypeOK, ghosts
<1>4. CASE TurnResult
  <2>1. turn' \in Turns
    BY <1>4 DEF TurnResult, TypeOK, Turns
  <2>2. told' \subseteq Messages /\ answered' \subseteq Messages
    BY <1>4 DEF TurnResult, ToldOf, TypeOK
  <2>3. retry' = retry \/ \E kind \in FaultKinds : retry' = RetryFailed(turn.text, turn.attempt, kind)
    BY <1>4 DEF TurnResult
  <2>4. retry' \in Retries
    <3>1. retry \in Retries
      BY DEF TypeOK
    <3>2. \A kind : RetryFailed(turn.text, turn.attempt, kind) \in Retries
      BY <1>0
    <3> QED
      BY <2>3, <3>1, <3>2
  <2> QED
    BY <1>4, <2>1, <2>2, <2>4 DEF TurnResult, TypeOK
<1>5. CASE TurnInterrupted
  <2>1. turn' \in Turns
    BY <1>0, <1>5 DEF TurnInterrupted, End, Outcomes
  <2>2. retry' \in Retries /\ told' \subseteq Messages
    BY <1>5, RetryTypes DEF TurnInterrupted, ToldOf, TypeOK
  <2> QED
    BY <1>5, <2>1, <2>2 DEF TurnInterrupted, TypeOK, ghosts
<1>6. CASE TurnEnds
  <2>1. turn' \in Turns
    BY <1>0, <1>6 DEF TurnEnds, End, Outcomes
  <2>2. told' \subseteq Messages
    BY <1>6 DEF TurnEnds, ToldOf, TypeOK
  <2>3. retry' \in {retry, RetrySucceeded} \/ \E kind \in FaultKinds : retry' = RetryFailed(turn.text, turn.attempt, kind)
    BY <1>6 DEF TurnEnds
  <2>4. retry' \in Retries
    <3>1. retry \in Retries
      BY DEF TypeOK
    <3>2. RetrySucceeded \in Retries
      BY RetryTypes
    <3> QED
      BY <1>0, <2>3, <3>1, <3>2
  <2> QED
    BY <1>6, <2>1, <2>2, <2>4 DEF TurnEnds, TypeOK, ghosts
<1>7. CASE SettleSaved
  <2>1. SettledQueue \in Queues
    BY SettledQueueType
  <2>2. lock' \in Locks
    BY <1>7, ConstantTypes, ClaimingType DEF SettleSaved, Boundaries
  <2> QED
    BY <1>7, <2>1, <2>2, ConstantTypes DEF SettleSaved, TypeOK, history, ghosts
<1>8. CASE SettleWriteFails
  <2>1. queue' \in Queues
    BY <1>8 DEF SettleWriteFails, TypeOK, Queues
  <2> QED
    BY <1>8, <2>1, ConstantTypes DEF SettleWriteFails, TypeOK, history, ghosts
<1> QED
  BY <1>1, <1>2, <1>3, <1>4, <1>5, <1>6, <1>7, <1>8 DEF Turn, Settle

LEMMA TypeHost == TypeOK /\ Host => TypeOK'
<1> SUFFICES ASSUME TypeOK, Host PROVE TypeOK'
  OBVIOUS
<1>0. /\ Loaded \in Queues
      /\ UnsentIds(disk.items) \subseteq Messages
      /\ UnknownIds(disk.items) \subseteq Messages
  <2>1. disk.items \subseteq Items /\ disk.paused \in BOOLEAN
    BY DEF TypeOK, Queues
  <2>2. Loaded \in Queues
    BY DEF TypeOK, Queues, Loaded
  <2>3. \A it \in disk.items : it.id \in Messages
    BY <2>1 DEF Items
  <2> QED
    BY <2>2, <2>3 DEF UnsentIds, UnknownIds
<1>1. CASE Stop
  BY <1>1, RetryTypes DEF Stop, TypeOK, history, ghosts
<1>2. CASE ProcessEnds
  <2>1. reply' \in [Messages -> Replies]
    BY <1>2 DEF ProcessEnds, TypeOK, Replies
  <2>2. caller' \in [{"timer", "user"} -> Callers]
    BY <1>2, ConstantTypes DEF ProcessEnds
  <2> QED
    BY <1>2, <2>1, <2>2, ConstantTypes DEF ProcessEnds, TypeOK, history, ghosts
<1>3. CASE Restart
  BY <1>0, <1>3 DEF Restart, TypeOK, ghosts
<1>4. CASE RestartFails
  BY <1>0, <1>4 DEF RestartFails, TypeOK, volatile, ghosts
<1> QED
  BY <1>1, <1>2, <1>3, <1>4 DEF Host

LEMMA TypeNext == TypeOK /\ [Next]_vars => TypeOK'
BY TypeStutter, TypeAdmit, TypeClaim, TypeInput, TypeRetry, TypeTurn, TypeHost DEF Next

(* Type correctness of the runner.                                         *)
THEOREM TypeCorrect == Spec => []TypeOK
BY TypeInit, TypeNext, PTL DEF Spec

-----------------------------------------------------------------------------
(* The inductive invariant.  Three frame lemmas say what a step must leave *)
(* alone for each of its parts.                                            *)

LEMMA StoreFrame ==
    ASSUME IInv, TypeOK', disk'.items = disk.items, handed' = handed,
           up' # "down" => queue'.items = disk.items
    PROVE  StoreOK'
BY DEF IInv, StoreOK, EntriesUnique, MemoryMatchesDisk, QueuedIffUnclaimed, PlacesInOrder,
       Ids, Claimed

LEMMA SendersFrame ==
    ASSUME IInv, disk'.items = disk.items, UNCHANGED <<handed, reply, lock>>
    PROVE  SendersOK'
BY DEF IInv, SendersOK, SubmittableIsNew, LockServesSender, AcceptedIsDurable, Accepted,
       Ids, Claimed

LEMMA TurnsFrame ==
    ASSUME IInv, up' # "down", UNCHANGED <<life, handed, launched>>,
           Held' \cap Messages \subseteq Held
    PROVE  TurnsOK'
BY DEF IInv, TurnsOK, DownIsEmpty, HeldWasClaimedHere, LaunchedByClaimer

(* A step that touches neither the queue nor its senders.                  *)
LEMMA TurnStepFrame ==
    ASSUME IInv, TypeOK', up # "down",
           UNCHANGED <<up, life, disk, reply, lock, handed, launched>>,
           queue'.items = queue.items,
           Held' \cap Messages \subseteq Held
    PROVE  IInv'
<1>1. queue'.items = disk.items /\ disk'.items = disk.items
  BY DEF IInv, StoreOK, MemoryMatchesDisk
<1>2. StoreOK'
  BY <1>1, StoreFrame
<1>3. SendersOK'
  BY <1>1, SendersFrame
<1>4. TurnsOK'
  BY TurnsFrame
<1> QED
  BY <1>2, <1>3, <1>4 DEF IInv

(* A step that answers a sender or passes the queue lock on.               *)
LEMMA LockStepFrame ==
    ASSUME IInv, TypeOK', up # "down",
           UNCHANGED <<up, life, disk, turn, retry, current, handed, launched>>,
           queue'.items = queue.items,
           Held' \cap Messages \subseteq Held,
           \A m \in Messages :
              reply'[m] \in {"none", "refused"} \/ (lock'.op = "admit" /\ lock'.msg = m)
                 => m \notin Ids(disk) /\ handed[m] = 0,
           lock'.op = "admit" => reply'[lock'.msg] = "pending",
           lock'.op \in {"claim", "reserved"} /\ lock'.msg # NoText
              => lock'.msg \in Ids(disk) \cup Claimed,
           \A m \in Messages :
              reply'[m] \in {"runner", "queue"} => m \in Ids(disk) \/ handed[m] # 0
    PROVE  IInv'
<1>1. queue'.items = disk.items /\ disk'.items = disk.items
  BY DEF IInv, StoreOK, MemoryMatchesDisk
<1>2. StoreOK'
  BY <1>1, StoreFrame
<1>3. Ids(disk)' = Ids(disk) /\ Claimed' = Claimed
  BY DEF Ids, Claimed
<1>4. SendersOK'
  BY <1>3 DEF SendersOK, SubmittableIsNew, LockServesSender, AcceptedIsDurable, Accepted
<1>5. TurnsOK'
  BY TurnsFrame
<1> QED
  BY <1>2, <1>4, <1>5 DEF IInv

(* Answering the sender a claim serves, if there is one.                   *)
LEMMA ToldFacts ==
    ASSUME TypeOK, NEW answer \in Boundaries, NEW msg \in Messages \cup {NoText}
    PROVE  \A m \in Messages :
              /\ Told(msg, answer)[m] \in {"none", "refused", "pending"} => Told(msg, answer)[m] = reply[m]
              /\ Told(msg, answer)[m] \in {"runner", "queue"} =>
                    m = msg \/ Told(msg, answer)[m] = reply[m]
BY DEF Told, TypeOK, Boundaries

LEMMA IInvInit == Init => IInv
<1> SUFFICES ASSUME Init PROVE IInv
  OBVIOUS
<1>1. TypeOK
  BY TypeInit
<1>2. StoreOK
  BY DEF Init, StoreOK, EntriesUnique, MemoryMatchesDisk, QueuedIffUnclaimed, PlacesInOrder, Gone
<1>3. SendersOK
  BY DEF Init, SendersOK, SubmittableIsNew, LockServesSender, AcceptedIsDurable, Accepted,
         Gone, Ids, Free
<1>4. TurnsOK
  BY DEF Init, TurnsOK, DownIsEmpty, HeldWasClaimedHere, LaunchedByClaimer, Held, NoTurn, Clear, Idle
<1> QED
  BY <1>1, <1>2, <1>3, <1>4 DEF IInv, Init

LEMMA IInvInput == IInv /\ Input => IInv'
<1> SUFFICES ASSUME IInv, Input PROVE IInv'
  OBVIOUS
<1>0. TypeOK'
  BY TypeInput DEF IInv
<1>1. CASE Interrupt
  <2>1. Held' \cap Messages \subseteq Held
    BY <1>1 DEF Interrupt, Held, RetryInterrupt, IInv, TypeOK, Turns, Retries
  <2> QED
    BY <1>0, <1>1, <2>1, TurnStepFrame DEF Interrupt, ghosts
<1>2. CASE Keystroke
  <2>1. Held' \cap Messages \subseteq Held
    BY <1>2 DEF Keystroke, Held, RetryInterrupt, IInv, TypeOK, Retries
  <2> QED
    BY <1>0, <1>2, <2>1, TurnStepFrame DEF Keystroke, ghosts
<1>3. ASSUME NEW y \in RawTexts, Enter(y) PROVE IInv'
  <2>1. Held' \cap Messages \subseteq Held
    BY <1>3 DEF Enter, Held, RetryReplaced, Clear, Spawned, NoTurn
  <2> QED
    BY <1>0, <1>3, <2>1, TurnStepFrame DEF Enter, ghosts
<1> QED
  BY <1>1, <1>2, <1>3 DEF Input

LEMMA IInvRetry == IInv /\ Retry => IInv'
<1> SUFFICES ASSUME IInv, Retry PROVE IInv'
  OBVIOUS
<1>0. TypeOK'
  BY TypeRetry DEF IInv
<1> USE DEF IInv, TypeOK, Retries, Callers
<1>a. CASE RetryRequest
  <2>1. /\ \A c \in {"timer", "user"} : caller'[c].text = caller[c].text
        /\ UNCHANGED <<turn, current, retry>>
    BY <1>a DEF RetryRequest
  <2>2. Held' \cap Messages \subseteq Held
    BY <2>1 DEF Held
  <2> QED
    BY <1>0, <1>a, <2>2, TurnStepFrame DEF RetryRequest, ghosts
<1>1. CASE RunNow
  <2>0. /\ caller'["timer"].text = caller["timer"].text
        /\ caller'["user"].text \in {caller["user"].text, retry.input}
        /\ retry'.input = retry.input
        /\ UNCHANGED <<turn, current>>
    <3>1. CASE retry.input # NoText
      <4> DEFINE attempt == IF retry.sched THEN retry.attempt ELSE 1
      <4>1. /\ retry' = [retry EXCEPT !.sched = TRUE, !.timer = FALSE, !.attempt = attempt]
            /\ caller' = [caller EXCEPT !["user"] = Running(retry.input, attempt)]
            /\ UNCHANGED <<turn, current>>
        BY <1>1, <3>1 DEF RunNow
      <4> HIDE DEF attempt
      <4>2. Running(retry.input, attempt).text = retry.input
        BY DEF Running
      <4> QED
        BY <4>1, <4>2
    <3>2. CASE retry.input = NoText
      BY <1>1, <3>2 DEF RunNow
    <3> QED
      BY <3>1, <3>2
  <2>1. Held' \cap Messages \subseteq Held
    BY <2>0 DEF Held
  <2> QED
    BY <1>0, <1>1, <2>1, TurnStepFrame DEF RunNow, ghosts
<1>2. CASE RetryStop
  <2>1. Held' \cap Messages \subseteq Held
    BY <1>2 DEF RetryStop, Held, RetryStopped, RetryClosed
  <2> QED
    BY <1>0, <1>2, <2>1, TurnStepFrame DEF RetryStop, ghosts
<1>3. CASE TimerFires
  <2>1. Held' \cap Messages \subseteq Held
    BY <1>3 DEF TimerFires, Held, Running
  <2> QED
    BY <1>0, <1>3, <2>1, TurnStepFrame DEF TimerFires, ghosts
<1>4. ASSUME NEW c \in {"timer", "user"}, StartRetryTurn(c) PROVE IInv'
  <2>1. \A d \in {"timer", "user"} : caller'[d].text \in {caller[d].text, NoText}
    BY <1>4 DEF StartRetryTurn, Idle
  <2>2. turn'.text \in {turn.text, caller[c].text} /\ turn'.id \in {turn.id, current}
    BY <1>4 DEF StartRetryTurn, Spawned, NoTurn
  <2>3. UNCHANGED <<current, retry>>
    BY <1>4 DEF StartRetryTurn
  <2>4. Held' \cap Messages \subseteq Held
    <3>1. caller[c].text \in Held
      BY DEF Held
    <3>2. caller'["timer"].text \in Held \cup {NoText} /\ caller'["user"].text \in Held \cup {NoText}
      BY <2>1 DEF Held
    <3>3. turn'.text \in Held /\ turn'.id \in Held /\ current' \in Held /\ retry'.input \in Held
      BY <2>2, <2>3, <3>1 DEF Held
    <3>4. Held' \subseteq Held \cup {NoText}
      BY <3>2, <3>3 DEF Held
    <3> QED
      BY <3>4, NoTextAssumption
  <2> QED
    BY <1>0, <1>4, <2>4, TurnStepFrame DEF StartRetryTurn, ghosts
<1>5. CASE ResumeQueue("user")
  <2>0. /\ \A d \in {"timer", "user"} : caller'[d].text \in {caller[d].text, NoText}
        /\ UNCHANGED <<turn, current, retry>>
    BY <1>5 DEF ResumeQueue, Idle
  <2>1. Held' \cap Messages \subseteq Held
    BY <2>0, NoTextAssumption DEF Held
  <2>2. lock' = Claiming(NoText, "runner", TRUE) /\ UNCHANGED reply
    BY <1>5 DEF ResumeQueue
  <2>3. lock'.op = "claim" /\ lock'.msg = NoText
    BY <2>2 DEF Claiming, Free
  <2>4. \A m \in Messages :
           reply'[m] \in {"none", "refused"} => m \notin Ids(disk) /\ handed[m] = 0
    BY <2>2 DEF SendersOK, SubmittableIsNew
  <2>5. \A m \in Messages : reply'[m] \in {"runner", "queue"} => m \in Ids(disk) \/ handed[m] # 0
    BY <2>2 DEF SendersOK, AcceptedIsDurable, Accepted
  <2> QED
    BY <1>0, <1>5, <2>1, <2>3, <2>4, <2>5, LockStepFrame DEF ResumeQueue, ghosts
<1> QED
  BY <1>a, <1>1, <1>2, <1>3, <1>4, <1>5 DEF Retry

(* Answering for a claim keeps what senders know true.                     *)
LEMMA ClaimAnswers ==
    ASSUME IInv, lock.op \in {"claim", "reserved"},
           NEW answer \in Boundaries, reply' = Told(lock.msg, answer), lock' = Free
    PROVE  /\ \A m \in Messages :
                 reply'[m] \in {"none", "refused"} \/ (lock'.op = "admit" /\ lock'.msg = m)
                    => m \notin Ids(disk) /\ handed[m] = 0
           /\ lock'.op \notin {"admit", "claim", "reserved"}
           /\ \A m \in Messages :
                 reply'[m] \in {"runner", "queue"} => m \in Ids(disk) \/ handed[m] # 0
<1>1. lock.msg \in Messages \cup {NoText}
  BY DEF IInv, TypeOK, Locks
<1>2. lock.msg # NoText => lock.msg \in Ids(disk) \cup Claimed
  BY DEF IInv, SendersOK, LockServesSender
<1>3. \A m \in Messages :
         /\ reply'[m] \in {"none", "refused"} => reply'[m] = reply[m]
         /\ reply'[m] \in {"runner", "queue"} => m = lock.msg \/ reply'[m] = reply[m]
  BY <1>1, ToldFacts DEF IInv
<1>4. lock'.op = "free"
  BY DEF Free
<1>5. \A m \in Messages : reply'[m] \in {"none", "refused"} => m \notin Ids(disk) /\ handed[m] = 0
  BY <1>3 DEF IInv, SendersOK, SubmittableIsNew
<1>6. \A m \in Messages : reply'[m] \in {"runner", "queue"} => m \in Ids(disk) \/ handed[m] # 0
  BY <1>2, <1>3, NoTextAssumption DEF IInv, SendersOK, AcceptedIsDurable, Accepted, Claimed
<1> QED
  BY <1>4, <1>5, <1>6

(* A claim dispatches the oldest waiting entry, on disk before anything    *)
(* else, and every other entry stays as it is.                             *)
LEMMA DispatchShape ==
    ASSUME IInv, up # "down", Queued(queue) # {}, NEW it, it = Oldest(Queued(queue))
    PROVE  /\ it \in disk.items /\ it.phase = "queued" /\ it.id \in Messages
           /\ \A other \in Queued(disk) : it.at <= other.at
           /\ DispatchedNow(it).items =
                 (disk.items \ {it}) \cup {[it EXCEPT !.phase = "dispatched"]}
           /\ [it EXCEPT !.phase = "dispatched"].id = it.id
           /\ [it EXCEPT !.phase = "dispatched"].at = it.at
           /\ [it EXCEPT !.phase = "dispatched"].phase = "dispatched"
<1>1. queue.items = disk.items /\ Queued(queue) = Queued(disk)
  BY DEF IInv, StoreOK, MemoryMatchesDisk, Queued
<1>2. Queued(queue) \in SUBSET Items
  BY DEF IInv, TypeOK, Queues, Queued
<1>3. it \in Queued(disk) /\ \A other \in Queued(disk) : it.at <= other.at
  BY <1>1, <1>2, OldestIsOldest
<1>4. it \in disk.items /\ it.phase = "queued" /\ it \in Items
  BY <1>1, <1>2, <1>3 DEF Queued
<1>5. DispatchedNow(it).items = (disk.items \ {it}) \cup {[it EXCEPT !.phase = "dispatched"]}
  BY <1>1 DEF DispatchedNow
<1>6. /\ it.id \in Messages
      /\ [it EXCEPT !.phase = "dispatched"].id = it.id
      /\ [it EXCEPT !.phase = "dispatched"].at = it.at
      /\ [it EXCEPT !.phase = "dispatched"].phase = "dispatched"
  BY <1>4 DEF Items
<1> QED
  BY <1>3, <1>4, <1>5, <1>6

LEMMA IInvClaimCommit == IInv /\ ClaimCommit => IInv'
<1> SUFFICES ASSUME IInv, ClaimCommit PROVE IInv'
  OBVIOUS
<1>0. TypeOK' /\ TypeOK
  BY TypeClaim DEF IInv, Claim
<1>1. PICK it : it = Oldest(Queued(queue))
  OBVIOUS
<1> DEFINE new == [it EXCEPT !.phase = "dispatched"]
<1>2. /\ it \in disk.items /\ it.phase = "queued" /\ it.id \in Messages
      /\ disk'.items = (disk.items \ {it}) \cup {new}
      /\ queue'.items = disk'.items
      /\ new.id = it.id /\ new.at = it.at /\ new.phase = "dispatched"
  BY <1>1, DispatchShape DEF ClaimCommit, Written
<1> HIDE DEF new
<1>3. /\ handed' = [handed EXCEPT ![it.id] = life]
      /\ UNCHANGED <<up, life, active, caller, history, launched, answered>>
      /\ retry' = Clear /\ lock' = Free /\ current' = it.id
      /\ turn' = Spawned(it.id, it.id, 0)
      /\ reply' = Told(lock.msg, lock.boundary)
      /\ up # "down"
  BY <1>1 DEF ClaimCommit, RetryReplaced
<1>4. handed[it.id] = 0 /\ life > 0
  BY <1>2 DEF IInv, StoreOK, QueuedIffUnclaimed
<1>5. \A m \in Messages : handed'[m] = IF m = it.id THEN life ELSE handed[m]
  BY <1>0, <1>2, <1>3 DEF TypeOK
<1>6. Ids(disk)' = Ids(disk) /\ Claimed' = Claimed \cup {it.id}
  <2>1. Claimed' = Claimed \cup {it.id}
    BY <1>0, <1>2, <1>4, <1>5 DEF Claimed, TypeOK
  <2> QED
    BY <2>1, <1>2 DEF Ids
<1>7. StoreOK'
  <2>1. \A a \in disk.items : a.id = it.id \/ a.at = it.at => a = it
    BY <1>2 DEF IInv, StoreOK, EntriesUnique
  <2>2. EntriesUnique'
    BY <1>2, <2>1 DEF IInv, StoreOK, EntriesUnique
  <2>3. \A a \in disk.items : a.id \in Messages
    BY <1>0 DEF TypeOK, Queues, Items
  <2>4. QueuedIffUnclaimed'
    BY <1>2, <1>4, <1>5, <2>1, <2>3 DEF IInv, StoreOK, QueuedIffUnclaimed
  <2>5. (Ids(disk) \cup Claimed)' = Ids(disk) \cup Claimed
    BY <1>2, <1>6 DEF Ids
  <2>6. PlacesInOrder'
    BY <1>2, <2>5 DEF IInv, StoreOK, PlacesInOrder
  <2>7. MemoryMatchesDisk'
    BY <1>2 DEF MemoryMatchesDisk
  <2> QED
    BY <2>2, <2>4, <2>6, <2>7 DEF StoreOK
<1>8. SendersOK'
  <2>1. lock.op = "reserved" /\ lock.boundary \in Boundaries
    BY <1>0 DEF ClaimCommit, TypeOK, Locks
  <2>2. /\ \A m \in Messages :
              reply'[m] \in {"none", "refused"} \/ (lock'.op = "admit" /\ lock'.msg = m)
                 => m \notin Ids(disk) /\ handed[m] = 0
        /\ lock'.op \notin {"admit", "claim", "reserved"}
        /\ \A m \in Messages :
              reply'[m] \in {"runner", "queue"} => m \in Ids(disk) \/ handed[m] # 0
    BY <1>3, <2>1, ClaimAnswers
  <2>3. it.id \in Ids(disk)
    BY <1>2 DEF Ids
  <2>4. SubmittableIsNew'
    BY <1>5, <1>6, <2>2, <2>3 DEF SubmittableIsNew
  <2>5. LockServesSender'
    BY <2>2 DEF LockServesSender
  <2>6. AcceptedIsDurable'
    BY <1>4, <1>5, <1>6, <2>2 DEF AcceptedIsDurable, Accepted
  <2> QED
    BY <2>4, <2>5, <2>6 DEF SendersOK
<1>9. TurnsOK'
  <2>1. Held' \subseteq {it.id, NoText} \cup Held
    BY <1>3 DEF Held, Spawned, NoTurn, Clear
  <2>2. HeldWasClaimedHere'
    BY <1>3, <1>5, <2>1, NoTextAssumption DEF IInv, TurnsOK, HeldWasClaimedHere
  <2>3. LaunchedByClaimer'
    BY <1>3, <1>4, <1>5 DEF IInv, TurnsOK, LaunchedByClaimer
  <2> QED
    BY <1>3, <2>2, <2>3 DEF TurnsOK, DownIsEmpty
<1> QED
  BY <1>0, <1>3, <1>4, <1>7, <1>8, <1>9 DEF IInv

LEMMA IInvClaim == IInv /\ Claim => IInv'
<1> SUFFICES ASSUME IInv, Claim PROVE IInv'
  OBVIOUS
<1>0. TypeOK' /\ TypeOK /\ lock.boundary \in Boundaries /\ "queue" \in Boundaries
  BY TypeClaim DEF IInv, TypeOK, Locks, Boundaries
<1>1. CASE ClaimRefused \/ ClaimNothing
  <2>1. /\ up # "down" /\ lock.op \in {"claim", "reserved"}
        /\ lock' = Free /\ reply' = Told(lock.msg, lock.boundary)
        /\ UNCHANGED <<up, life, disk, queue, current, turn, retry, caller, handed, launched>>
    BY <1>1 DEF ClaimRefused, ClaimNothing, ghosts
  <2>2. Held' \cap Messages \subseteq Held
    BY <2>1 DEF Held
  <2> QED
    BY <1>0, <2>1, <2>2, ClaimAnswers, LockStepFrame
<1>2. CASE ClaimReserve
  <2>1. /\ up # "down" /\ lock.op = "claim" /\ lock' = [lock EXCEPT !.op = "reserved"]
        /\ UNCHANGED <<up, life, disk, queue, current, turn, retry, caller, reply, handed, launched>>
    BY <1>2 DEF ClaimReserve, ghosts
  <2>2. lock'.op = "reserved" /\ lock'.msg = lock.msg
    BY <1>0, <2>1 DEF TypeOK, Locks
  <2>3. Held' \cap Messages \subseteq Held
    BY <2>1 DEF Held
  <2>4. \A m \in Messages :
           /\ reply[m] \in {"none", "refused"} => m \notin Ids(disk) /\ handed[m] = 0
           /\ reply[m] \in {"runner", "queue"} => m \in Ids(disk) \/ handed[m] # 0
    BY DEF IInv, SendersOK, SubmittableIsNew, AcceptedIsDurable, Accepted
  <2>5. lock.msg # NoText => lock.msg \in Ids(disk) \cup Claimed
    BY <2>1 DEF IInv, SendersOK, LockServesSender
  <2> QED
    BY <1>0, <2>1, <2>2, <2>3, <2>4, <2>5, LockStepFrame
<1>3. CASE ClaimCommit
  BY <1>3, IInvClaimCommit
<1>4. CASE ClaimWriteFails
  <2>1. /\ up # "down" /\ lock.op \in {"claim", "reserved"}
        /\ lock' = Free /\ reply' = Told(lock.msg, "queue")
        /\ UNCHANGED <<up, life, disk, current, turn, retry, caller, handed, launched>>
    BY <1>4 DEF ClaimWriteFails, ghosts
  <2>2. queue'.items = queue.items
    BY <1>0, <1>4 DEF ClaimWriteFails, TypeOK, Queues
  <2>3. Held' \cap Messages \subseteq Held
    BY <2>1 DEF Held
  <2> QED
    BY <1>0, <2>1, <2>2, <2>3, ClaimAnswers, LockStepFrame
<1> QED
  BY <1>1, <1>2, <1>3, <1>4 DEF Claim

(* Trimming before an admission forgets only ids that were claimed.        *)
LEMMA TrimForgetsClaimed ==
    ASSUME IInv, up # "down", NEW cur
    PROVE  /\ Trim(queue.items, cur) \subseteq disk.items
           /\ \A it \in disk.items : it \in Trim(queue.items, cur) \/ handed[it.id] # 0
<1>1. queue.items = disk.items
  BY DEF IInv, StoreOK, MemoryMatchesDisk
<1>2. \A it \in disk.items : it.phase = "queued" \/ handed[it.id] # 0
  BY DEF IInv, StoreOK, QueuedIffUnclaimed
<1> QED
  BY <1>1, <1>2, TrimKeepsQueued

LEMMA IInvAdmitCommit == IInv /\ AdmitCommit => IInv'
<1> SUFFICES ASSUME IInv, AdmitCommit PROVE IInv'
  OBVIOUS
<1>0. TypeOK' /\ TypeOK
  BY TypeAdmit DEF IInv, Admit
<1> DEFINE m == lock.msg
           kept == Trim(queue.items, current)
           new == [id |-> lock.msg, phase |-> "queued", boundary |-> lock.boundary,
                   at |-> Cardinality(Admitted)]
           known == Ids(disk) \cup Claimed
<1>1. /\ up # "down" /\ lock.op = "admit" /\ m \in Messages
      /\ disk'.items = kept \cup {new} /\ queue' = disk'
      /\ lock' = Claiming(lock.msg, lock.boundary, FALSE)
      /\ UNCHANGED <<up, life, current, active, turn, retry, caller, reply, handed, launched>>
  BY <1>0 DEF AdmitCommit, Written, Saved, TypeOK, Locks, ghosts
<1>2. m \notin Ids(disk) /\ handed[m] = 0 /\ reply[m] = "pending"
  BY <1>1 DEF IInv, SendersOK, SubmittableIsNew, LockServesSender
<1>3. /\ kept \subseteq disk.items
      /\ \A it \in disk.items : it \in kept \/ handed[it.id] # 0
  BY <1>1, TrimForgetsClaimed
<1>4. Admitted = known
  BY <1>1 DEF Admitted, Claimed, Ids, IInv, StoreOK, MemoryMatchesDisk
<1>5. IsFiniteSet(known) /\ Cardinality(known) \in Nat
  BY <1>0, <1>4, AdmittedIsFinite DEF TypeOK
<1>6. new.id = m /\ new.phase = "queued" /\ new.at = Cardinality(known)
  BY <1>4
<1>7. \A it \in disk.items : it.at \in Nat /\ it.at < Cardinality(known) /\ it.id \in Messages
  BY <1>0 DEF IInv, StoreOK, PlacesInOrder, TypeOK, Queues, Items
<1> HIDE DEF kept, new, m
<1>8. Claimed' = Claimed
  BY <1>1 DEF Claimed
<1>9. (Ids(disk) \cup Claimed)' = known \cup {m}
  <2>1. Ids(disk)' = {it.id : it \in kept} \cup {m}
    BY <1>1, <1>6 DEF Ids
  <2>2. {it.id : it \in kept} \subseteq Ids(disk)
    BY <1>3 DEF Ids
  <2>3. Ids(disk) \subseteq {it.id : it \in kept} \cup Claimed
    BY <1>3, <1>7 DEF Ids, Claimed
  <2> QED
    BY <1>8, <2>1, <2>2, <2>3
<1>10. m \notin known
  BY <1>2 DEF Claimed
<1>11. Cardinality(known \cup {m}) = Cardinality(known) + 1
  BY <1>5, <1>10, FS_AddElement
<1> HIDE DEF known
<1>12. StoreOK'
  <2>1. \A it \in disk.items : it.id # m /\ it.at # new.at
    BY <1>2, <1>5, <1>6, <1>7 DEF Ids
  <2>2. EntriesUnique'
    BY <1>1, <1>3, <1>6, <2>1 DEF IInv, StoreOK, EntriesUnique
  <2>3. QueuedIffUnclaimed'
    BY <1>1, <1>2, <1>3, <1>6 DEF IInv, StoreOK, QueuedIffUnclaimed
  <2>4. PlacesInOrder'
    <3>1. \A it \in disk'.items : it.at \in Nat /\ it.at < Cardinality(known) + 1
      BY <1>1, <1>3, <1>5, <1>6, <1>7
    <3> QED
      BY <1>9, <1>11, <3>1 DEF PlacesInOrder
  <2>5. MemoryMatchesDisk'
    BY <1>1 DEF MemoryMatchesDisk
  <2> QED
    BY <2>2, <2>3, <2>4, <2>5 DEF StoreOK
<1>13. SendersOK'
  <2>1. lock'.op = "claim" /\ lock'.msg = m
    BY <1>1 DEF Claiming, Free, m
  <2>2. \A n \in Messages : n \in Ids(disk)' => n \in Ids(disk) \/ n = m
    BY <1>1, <1>3, <1>6 DEF Ids
  <2>3. SubmittableIsNew'
    BY <1>1, <1>2, <2>1, <2>2 DEF IInv, SendersOK, SubmittableIsNew
  <2>4. LockServesSender'
    BY <1>9, <2>1 DEF LockServesSender
  <2>5. \A n \in Messages : Accepted(n) => n \in known
    BY DEF known, Claimed, IInv, SendersOK, AcceptedIsDurable
  <2>6. AcceptedIsDurable'
    BY <1>1, <1>9, <2>5 DEF AcceptedIsDurable, Accepted, Claimed
  <2> QED
    BY <2>3, <2>4, <2>6 DEF SendersOK
<1>14. TurnsOK'
  <2>1. Held' \cap Messages \subseteq Held
    BY <1>1 DEF Held
  <2> QED
    BY <1>1, <2>1, TurnsFrame
<1> QED
  BY <1>0, <1>1, <1>12, <1>13, <1>14 DEF IInv

LEMMA IInvAdmit == IInv /\ Admit => IInv'
<1> SUFFICES ASSUME IInv, Admit PROVE IInv'
  OBVIOUS
<1>0. TypeOK' /\ TypeOK
  BY TypeAdmit DEF IInv
<1>1. \A n \in Messages :
         /\ reply[n] \in {"none", "refused"} => n \notin Ids(disk) /\ handed[n] = 0
         /\ reply[n] \in {"runner", "queue"} => n \in Ids(disk) \/ handed[n] # 0
  BY DEF IInv, SendersOK, SubmittableIsNew, AcceptedIsDurable, Accepted
<1>2. ASSUME NEW m \in Messages, AdmitRefused(m) PROVE IInv'
  <2>1. /\ up # "down" /\ lock' = lock /\ lock.op = "free" /\ reply[m] \in {"none", "refused"}
        /\ reply' = [reply EXCEPT ![m] = "refused"]
        /\ UNCHANGED <<up, life, disk, queue, current, active, turn, retry, caller, handed, launched>>
    BY <1>2 DEF AdmitRefused, MaySubmit, Free, volatile, history, ghosts
  <2>2. Held' \cap Messages \subseteq Held
    BY <2>1 DEF Held
  <2>3. \A n \in Messages : reply'[n] = IF n = m THEN "refused" ELSE reply[n]
    BY <1>0, <2>1 DEF TypeOK
  <2> QED
    BY <1>0, <1>1, <2>1, <2>2, <2>3, LockStepFrame
<1>3. ASSUME NEW m \in Messages, AdmitDuplicate(m) PROVE IInv'
  <2>1. /\ up # "down" /\ lock' = lock /\ lock.op = "free"
        /\ UNCHANGED <<up, life, disk, queue, current, active, turn, retry, caller, handed, launched>>
    BY <1>3 DEF AdmitDuplicate, Free, volatile, history, ghosts
  <2>2. PICK it \in queue.items :
           /\ it.id = m
           /\ reply' = [reply EXCEPT ![m] = IF it.phase = "queued" THEN "queue" ELSE it.boundary]
    BY <1>3 DEF AdmitDuplicate
  <2>3. m \in Ids(disk)
    BY <2>1, <2>2 DEF Ids, IInv, StoreOK, MemoryMatchesDisk
  <2>4. it.boundary \in {"runner", "queue"}
    BY <1>0 DEF TypeOK, Queues, Items, Boundaries
  <2>5. \A n \in Messages : IF n = m THEN reply'[n] \in {"runner", "queue"} ELSE reply'[n] = reply[n]
    BY <1>0, <2>2, <2>4 DEF TypeOK
  <2>6. Held' \cap Messages \subseteq Held
    BY <2>1 DEF Held
  <2> QED
    BY <1>0, <1>1, <2>1, <2>3, <2>5, <2>6, LockStepFrame
<1>4. ASSUME NEW m \in Messages, AdmitBegin(m) PROVE IInv'
  <2>1. /\ up # "down" /\ reply[m] \in {"none", "refused"}
        /\ reply' = [reply EXCEPT ![m] = "pending"]
        /\ lock'.op = "admit" /\ lock'.msg = m
        /\ UNCHANGED <<up, life, disk, queue, current, active, turn, retry, caller, handed, launched>>
    BY <1>4 DEF AdmitBegin, MaySubmit, Free, ghosts
  <2>2. Held' \cap Messages \subseteq Held
    BY <2>1 DEF Held
  <2>3. \A n \in Messages : reply'[n] = IF n = m THEN "pending" ELSE reply[n]
    BY <1>0, <2>1 DEF TypeOK
  <2> QED
    BY <1>0, <1>1, <2>1, <2>2, <2>3, LockStepFrame
<1>5. CASE AdmitCommit
  BY <1>5, IInvAdmitCommit
<1>6. CASE AdmitWriteFails
  <2>1. /\ up # "down" /\ lock.op = "admit" /\ lock.msg \in Messages /\ lock'.op = "free"
        /\ reply' = [reply EXCEPT ![lock.msg] = "refused"]
        /\ UNCHANGED <<up, life, disk, queue, current, active, turn, retry, caller, handed, launched>>
    BY <1>0, <1>6 DEF AdmitWriteFails, TypeOK, Locks, Free, ghosts
  <2>2. Held' \cap Messages \subseteq Held
    BY <2>1 DEF Held
  <2>3. \A n \in Messages : reply'[n] = IF n = lock.msg THEN "refused" ELSE reply[n]
    BY <1>0, <2>1 DEF TypeOK
  <2>4. lock.msg \notin Ids(disk) /\ handed[lock.msg] = 0
    BY <2>1 DEF IInv, SendersOK, SubmittableIsNew
  <2> QED
    BY <1>0, <1>1, <2>1, <2>2, <2>3, <2>4, LockStepFrame
<1>7. ASSUME NEW m \in Messages, RepeatRefused(m) PROVE IInv'
  <2>1. /\ up # "down" /\ lock' = lock /\ lock.op = "free"
        /\ reply' = [reply EXCEPT ![m] = "stopping"]
        /\ UNCHANGED <<up, life, disk, queue, current, active, turn, retry, caller, handed, launched>>
    BY <1>7 DEF RepeatRefused, Free, volatile, history, ghosts
  <2>2. Held' \cap Messages \subseteq Held
    BY <2>1 DEF Held
  <2>3. \A n \in Messages : reply'[n] = IF n = m THEN "stopping" ELSE reply[n]
    BY <1>0, <2>1 DEF TypeOK
  <2> QED
    BY <1>0, <1>1, <2>1, <2>2, <2>3, LockStepFrame
<1> QED
  BY <1>2, <1>3, <1>4, <1>5, <1>6, <1>7 DEF Admit

(* A bounded, non-empty set of entries has a newest one.                   *)
LEMMA NewestExists ==
    ASSUME NEW S, S # {}, NEW limit \in Nat,
           \A it \in S : it.at \in Nat /\ it.at < limit
    PROVE  \E it \in S : \A other \in S : other.at <= it.at
<1> DEFINE Above == {n \in Nat : \A it \in S : it.at <= n}
<1>1. Above \subseteq Nat /\ Above # {}
  <2>1. limit \in Above
    OBVIOUS
  <2> QED
    BY <2>1
<1>2. PICK n \in Above : \A k \in Above : n <= k
  <2> HIDE DEF Above
  <2>1. IsWellFoundedOn(OpToRel(<, Nat), Nat)
    BY NatLessThanWellFounded
  <2>2. PICK n \in Above : \A k \in Above : ~(<<k, n>> \in OpToRel(<, Nat))
    BY <1>1, <2>1, WFMin
  <2>3. \A k \in Above : ~(k < n)
    BY <1>1, <2>2, Zenon DEF OpToRel
  <2>4. n \in Above
    OBVIOUS
  <2> QED
    BY <1>1, <2>3, <2>4
<1>3. \E it \in S : it.at = n
  <2>1. SUFFICES ASSUME \A it \in S : it.at # n PROVE FALSE
    OBVIOUS
  <2>2. \A it \in S : it.at <= n - 1
    BY <1>2, <2>1
  <2>3. n # 0
    BY <2>2
  <2>4. n - 1 \in Above
    BY <2>2, <2>3
  <2> QED
    BY <1>2, <2>4
<1> QED
  BY <1>2, <1>3

(* Trimming never empties the list: the newest receipt of each kind stays. *)
LEMMA TrimKeepsSome ==
    ASSUME NEW S, S # {}, NEW cur, NEW limit \in Nat,
           \A it \in S : it.at \in Nat /\ it.at < limit,
           \A a, b \in S : a.at = b.at => a = b
    PROVE  Trim(S, cur) # {}
<1>1. PICK it \in S : \A other \in S : other.at <= it.at
  BY NewestExists
<1> DEFINE younger == {other \in S : /\ ReceiptOnly(other, cur)
                                     /\ other.phase = it.phase
                                     /\ other.at >= it.at}
<1>2. younger \subseteq {it}
  BY <1>1
<1>3. Cardinality(younger) <= ReceiptLimit
  <2>1. Cardinality({it}) = 1 /\ Cardinality({}) = 0
    BY FS_Singleton, FS_EmptySet
  <2> HIDE DEF younger
  <2>2. younger = {it} \/ younger = {}
    BY <1>2
  <2> QED
    BY <2>1, <2>2
<1>4. it \in Trim(S, cur)
  BY <1>3 DEF Trim
<1> QED
  BY <1>4

(* Settling renames the phase of one claimed entry and touches no other.   *)
LEMMA MarkDoneShape ==
    ASSUME IInv, up # "down"
    PROVE  /\ \A x \in MarkDone(queue.items) : \E it \in disk.items :
                 /\ x.id = it.id /\ x.at = it.at
                 /\ x.phase = "queued" <=> it.phase = "queued"
           /\ \A it \in disk.items : \E x \in MarkDone(queue.items) :
                 /\ x.id = it.id
                 /\ x.phase = "queued" <=> it.phase = "queued"
           /\ \A a, b \in MarkDone(queue.items) : a.id = b.id \/ a.at = b.at => a = b
<1> DEFINE f(it) == IF it.id = turn.id /\ Resolved THEN [it EXCEPT !.phase = "done"] ELSE it
<1>1. queue.items = disk.items /\ disk.items \subseteq Items
  BY DEF IInv, StoreOK, MemoryMatchesDisk, TypeOK, Queues
<1>2. \A it \in disk.items : it.id = turn.id => it.phase # "queued"
  <2>1. SUFFICES ASSUME NEW it \in disk.items, it.id = turn.id PROVE it.phase # "queued"
    OBVIOUS
  <2>2. it.id \in Held \cap Messages
    BY <1>1, <2>1 DEF Held, Items
  <2>3. handed[it.id] = life /\ life > 0
    BY <2>2 DEF IInv, TurnsOK, HeldWasClaimedHere
  <2>4. handed[it.id] # 0
    BY <2>3 DEF IInv, TypeOK
  <2> QED
    BY <2>4 DEF IInv, StoreOK, QueuedIffUnclaimed
<1>3. \A it \in disk.items :
         /\ f(it).id = it.id /\ f(it).at = it.at
         /\ f(it).phase = "queued" <=> it.phase = "queued"
  BY <1>1, <1>2 DEF Items
<1>4. MarkDone(queue.items) = {f(it) : it \in disk.items}
  BY <1>1 DEF MarkDone
<1> HIDE DEF f
<1>5. \A a, b \in MarkDone(queue.items) : a.id = b.id \/ a.at = b.at => a = b
  <2>1. SUFFICES ASSUME NEW p \in disk.items, NEW q \in disk.items,
                        f(p).id = f(q).id \/ f(p).at = f(q).at
                 PROVE  f(p) = f(q)
    BY <1>4
  <2>2. p = q
    BY <1>3, <2>1 DEF IInv, StoreOK, EntriesUnique
  <2> QED
    BY <2>2
<1> QED
  BY <1>3, <1>4, <1>5

LEMMA IInvSettleSaved == IInv /\ SettleSaved => IInv'
<1> SUFFICES ASSUME IInv, SettleSaved PROVE IInv'
  OBVIOUS
<1>0. TypeOK' /\ TypeOK
  BY TypeTurn DEF IInv, Turn, Settle
<1> DEFINE marked == MarkDone(queue.items)
           left == SettledQueue.items
           known == Ids(disk) \cup Claimed
<1>1. /\ up # "down" /\ lock = Free
      /\ disk' = IF left = {} THEN disk ELSE SettledQueue
      /\ queue' = SettledQueue
      /\ current' \in {NoText, current}
      /\ turn' = NoTurn
      /\ lock' \in {Claiming(NoText, "runner", FALSE), Free}
      /\ UNCHANGED <<up, life, retry, caller, reply, handed, launched>>
  BY DEF SettleSaved, Settling, ghosts
<1>2. /\ \A x \in marked : \E it \in disk.items :
            /\ x.id = it.id /\ x.at = it.at
            /\ x.phase = "queued" <=> it.phase = "queued"
      /\ \A it \in disk.items : \E x \in marked :
            /\ x.id = it.id
            /\ x.phase = "queued" <=> it.phase = "queued"
      /\ \A a, b \in marked : a.id = b.id \/ a.at = b.at => a = b
  BY <1>1, MarkDoneShape
<1>3. left = Trim(marked, current)
  BY DEF SettledQueue
<1>4. left \subseteq marked /\ \A x \in marked : x.phase = "queued" => x \in left
  BY <1>3, TrimKeepsQueued
<1>5. \A it \in disk.items :
         /\ it.at \in Nat /\ it.at < Cardinality(known) /\ it.id \in Messages
         /\ it.phase = "queued" <=> handed[it.id] = 0
  BY <1>0 DEF IInv, StoreOK, PlacesInOrder, QueuedIffUnclaimed, TypeOK, Queues, Items
<1>6. Cardinality(known) \in Nat
  <2>1. known \subseteq Messages
    BY <1>5 DEF Ids, Claimed
  <2> QED
    BY <2>1, FS_Subset, FS_CardinalityType
<1> HIDE DEF marked, known
<1>7. left = {} => disk.items = {}
  <2>1. SUFFICES ASSUME marked # {} PROVE left # {}
    BY <1>2
  <2>2. \A x \in marked : x.at \in Nat /\ x.at < Cardinality(known)
    BY <1>2, <1>5
  <2> QED
    BY <1>2, <1>3, <1>6, <2>1, <2>2, TrimKeepsSome
<1> HIDE DEF left
<1>8. disk'.items = left /\ queue'.items = left
  BY <1>1, <1>7 DEF left
<1>9. Claimed' = Claimed
  BY <1>1 DEF Claimed
<1>10. (Ids(disk) \cup Claimed)' = known
  <2>1. Ids(disk)' = {x.id : x \in left}
    BY <1>8 DEF Ids
  <2>2. \A x \in left : x.id \in Ids(disk)
    BY <1>2, <1>4 DEF Ids
  <2>3. \A it \in disk.items : it.id \in {x.id : x \in left} \cup Claimed
    <3>1. SUFFICES ASSUME NEW it \in disk.items, handed[it.id] = 0
                   PROVE  it.id \in {x.id : x \in left}
      BY <1>5 DEF Claimed
    <3>2. PICK x \in marked : x.id = it.id /\ (x.phase = "queued" <=> it.phase = "queued")
      BY <1>2
    <3> QED
      BY <1>4, <1>5, <3>1, <3>2
  <2> QED
    BY <1>9, <2>1, <2>2, <2>3 DEF Ids, known
<1>11. StoreOK'
  <2>1. EntriesUnique'
    BY <1>2, <1>4, <1>8 DEF EntriesUnique
  <2>2. QueuedIffUnclaimed'
    BY <1>1, <1>2, <1>4, <1>5, <1>8 DEF QueuedIffUnclaimed
  <2>3. \A x \in left : x.at < Cardinality(known)
    BY <1>2, <1>4, <1>5
  <2>4. PlacesInOrder'
    BY <1>8, <1>10, <2>3 DEF PlacesInOrder
  <2>5. MemoryMatchesDisk'
    BY <1>8 DEF MemoryMatchesDisk
  <2> QED
    BY <2>1, <2>2, <2>4, <2>5 DEF StoreOK
<1>12. SendersOK'
  <2>1. lock'.op \in {"claim", "free"} /\ lock'.msg = NoText
    <3>1. Claiming(NoText, "runner", FALSE).op = "claim" /\ Claiming(NoText, "runner", FALSE).msg = NoText
      BY DEF Claiming, Free
    <3>2. Free.op = "free" /\ Free.msg = NoText
      BY DEF Free
    <3> QED
      BY <1>1, <3>1, <3>2
  <2>2. Ids(disk)' \subseteq Ids(disk)
    BY <1>2, <1>4, <1>8 DEF Ids
  <2>3. SubmittableIsNew'
    BY <1>1, <2>1, <2>2 DEF IInv, SendersOK, SubmittableIsNew
  <2>4. LockServesSender'
    BY <2>1 DEF LockServesSender
  <2>5. \A n \in Messages : Accepted(n) => n \in known
    BY DEF known, Claimed, IInv, SendersOK, AcceptedIsDurable
  <2>6. AcceptedIsDurable'
    BY <1>1, <1>10, <2>5 DEF AcceptedIsDurable, Accepted, Claimed
  <2> QED
    BY <2>3, <2>4, <2>6 DEF SendersOK
<1>13. TurnsOK'
  <2>1. Held' \subseteq Held \cup {NoText}
    BY <1>1 DEF Held, NoTurn
  <2>2. Held' \cap Messages \subseteq Held
    BY <2>1, NoTextAssumption
  <2> QED
    BY <1>1, <2>2, TurnsFrame
<1> QED
  BY <1>0, <1>1, <1>11, <1>12, <1>13 DEF IInv

(* A failed turn keeps its own text for Retry.                             *)
LEMMA FailedInput ==
    ASSUME TypeOK, NEW text, NEW attempt, NEW kind
    PROVE  RetryFailed(text, attempt, kind).input = text
<1>1. [RetryClosed EXCEPT !.input = text].input = text
  BY RetryTypes DEF TypeOK, Retries
<1> QED
  BY <1>1 DEF RetryFailed

(* A step of the turn that only moves what this process already holds.     *)
LEMMA TurnMoves ==
    ASSUME IInv, TypeOK', up # "down",
           UNCHANGED <<up, life, disk, queue, current, caller, reply, lock, handed, launched>>,
           turn'.text \in {turn.text, NoText}, turn'.id \in {turn.id, NoText},
           retry'.input \in {retry.input, turn.text, NoText}
    PROVE  IInv'
<1>1. Held' \subseteq Held \cup {NoText}
  BY DEF Held
<1>2. Held' \cap Messages \subseteq Held
  BY <1>1, NoTextAssumption
<1> QED
  BY <1>2, TurnStepFrame

LEMMA IInvTurn == IInv /\ Turn => IInv'
<1> SUFFICES ASSUME IInv, Turn PROVE IInv'
  OBVIOUS
<1>0. TypeOK' /\ TypeOK
  BY TypeTurn DEF IInv
<1>f. \A kind : RetryFailed(turn.text, turn.attempt, kind).input = turn.text
  BY <1>0, FailedInput
<1>r. RetrySucceeded.input = NoText /\ RetryInterrupt.input = retry.input
  BY <1>0 DEF RetrySucceeded, Clear, RetryInterrupt, TypeOK, Retries
<1>e. \A outcome : /\ [turn EXCEPT !.stage = "ended", !.outcome = outcome].text = turn.text
                   /\ [turn EXCEPT !.stage = "ended", !.outcome = outcome].id = turn.id
  BY <1>0 DEF TypeOK, Turns
<1>1. CASE TurnBegin
  <2>1. turn'.text = turn.text /\ turn'.id = turn.id
    BY <1>0, <1>1 DEF TurnBegin, TypeOK, Turns
  <2> QED
    BY <1>0, <1>1, <2>1, TurnMoves DEF TurnBegin, ghosts
<1>2. CASE TurnLaunch
  <2>1. turn'.text = turn.text /\ turn'.id = turn.id
    BY <1>0, <1>2 DEF TurnLaunch, TypeOK, Turns
  <2>2. /\ up = "up"
        /\ launched' = [m \in Messages |-> IF m = turn.text THEN launched[m] \cup {life} ELSE launched[m]]
        /\ UNCHANGED <<up, life, disk, queue, current, retry, caller, reply, lock, handed>>
    BY <1>2 DEF TurnLaunch
  <2>3. Held' = Held
    BY <2>1, <2>2 DEF Held
  <2>4. \A m \in Messages : m = turn.text => handed[m] = life
    BY DEF Held, IInv, TurnsOK, HeldWasClaimedHere
  <2>5. LaunchedByClaimer'
    <3>1. SUFFICES ASSUME NEW m \in Messages
                   PROVE  /\ launched'[m] \subseteq {handed[m]}
                          /\ handed[m] = 0 => launched'[m] = {}
      BY <2>2 DEF LaunchedByClaimer
    <3>2. launched[m] \subseteq {handed[m]} /\ (handed[m] = 0 => launched[m] = {})
      BY DEF IInv, TurnsOK, LaunchedByClaimer
    <3>3. life # 0
      BY <1>0 DEF IInv, TypeOK
    <3>4. launched'[m] = IF m = turn.text THEN launched[m] \cup {life} ELSE launched[m]
      BY <2>2
    <3> QED
      BY <2>4, <3>2, <3>3, <3>4
  <2>6. TurnsOK'
    BY <2>2, <2>3, <2>5 DEF IInv, TurnsOK, DownIsEmpty, HeldWasClaimedHere
  <2>7. StoreOK'
    BY <1>0, <2>2, StoreFrame DEF IInv, StoreOK, MemoryMatchesDisk
  <2>8. SendersOK'
    BY <2>2, SendersFrame
  <2> QED
    BY <1>0, <2>2, <2>6, <2>7, <2>8 DEF IInv
<1>3. CASE TurnLaunchFails
  <2>1. /\ up # "down"
        /\ turn' = [turn EXCEPT !.stage = "ended", !.outcome = "unresolved"]
        /\ retry' = retry \/ \E kind \in FaultKinds : retry' = RetryFailed(turn.text, turn.attempt, kind)
        /\ UNCHANGED <<up, life, disk, queue, current, caller, reply, lock, handed, launched>>
    BY <1>3 DEF TurnLaunchFails, End, ghosts
  <2>2. retry'.input \in {retry.input, turn.text, NoText}
    BY <1>f, <2>1
  <2> QED
    BY <1>0, <1>e, <2>1, <2>2, TurnMoves
<1>4. CASE TurnResult
  <2>1. turn'.text = turn.text /\ turn'.id = turn.id
    BY <1>0, <1>4 DEF TurnResult, TypeOK, Turns
  <2>2. /\ up # "down"
        /\ retry' = retry \/ \E kind \in FaultKinds : retry' = RetryFailed(turn.text, turn.attempt, kind)
        /\ UNCHANGED <<up, life, disk, queue, current, caller, reply, lock, handed, launched>>
    BY <1>4 DEF TurnResult
  <2>3. retry'.input \in {retry.input, turn.text, NoText}
    BY <1>f, <2>2
  <2> QED
    BY <1>0, <2>1, <2>2, <2>3, TurnMoves
<1>5. CASE TurnInterrupted
  <2>1. /\ up # "down"
        /\ turn' = [turn EXCEPT !.stage = "ended", !.outcome = "unresolved"]
        /\ retry' \in {retry, RetrySucceeded, RetryInterrupt}
        /\ UNCHANGED <<up, life, disk, queue, current, caller, reply, lock, handed, launched>>
    BY <1>5 DEF TurnInterrupted, End, ghosts
  <2>2. retry'.input \in {retry.input, turn.text, NoText}
    BY <1>r, <2>1
  <2> QED
    BY <1>0, <1>e, <2>1, <2>2, TurnMoves
<1>6. CASE TurnEnds
  <2>1. /\ up # "down"
        /\ \E outcome : turn' = [turn EXCEPT !.stage = "ended", !.outcome = outcome]
        /\ \/ retry' \in {retry, RetrySucceeded}
           \/ \E kind \in FaultKinds : retry' = RetryFailed(turn.text, turn.attempt, kind)
        /\ UNCHANGED <<up, life, disk, queue, current, caller, reply, lock, handed, launched>>
    BY <1>6 DEF TurnEnds, End, ghosts
  <2>2. retry'.input \in {retry.input, turn.text, NoText}
    BY <1>f, <1>r, <2>1
  <2>3. turn'.text = turn.text /\ turn'.id = turn.id
    BY <1>e, <2>1
  <2> QED
    BY <1>0, <2>1, <2>2, <2>3, TurnMoves
<1>7. CASE SettleSaved
  BY <1>7, IInvSettleSaved
<1>8. CASE SettleWriteFails
  <2>1. /\ up # "down" /\ queue' = [queue EXCEPT !.paused = TRUE] /\ turn' = NoTurn
        /\ UNCHANGED <<up, life, disk, current, retry, caller, reply, lock, handed, launched>>
    BY <1>8 DEF SettleWriteFails, Settling, ghosts
  <2>2. queue'.items = queue.items
    BY <1>0, <2>1 DEF TypeOK, Queues
  <2>3. Held' \subseteq Held \cup {NoText}
    BY <2>1 DEF Held, NoTurn
  <2>4. Held' \cap Messages \subseteq Held
    BY <2>3, NoTextAssumption
  <2> QED
    BY <1>0, <2>1, <2>2, <2>4, TurnStepFrame
<1> QED
  BY <1>1, <1>2, <1>3, <1>4, <1>5, <1>6, <1>7, <1>8 DEF Turn, Settle

(* The process may stop, die and come back between any two steps.          *)
LEMMA IInvHost == IInv /\ Host => IInv'
<1> SUFFICES ASSUME IInv, Host PROVE IInv'
  OBVIOUS
<1>0. TypeOK' /\ TypeOK
  BY TypeHost DEF IInv
<1>1. CASE Stop
  <2>1. /\ up = "up" /\ up' = "stopping" /\ retry' = RetryClosed
        /\ UNCHANGED <<life, disk, queue, current, turn, caller, lock, reply, handed, launched>>
    BY <1>1 DEF Stop, ghosts
  <2>2. retry'.input = retry.input
    BY <1>0, <2>1 DEF RetryClosed, TypeOK, Retries
  <2>3. Held' \cap Messages \subseteq Held
    BY <2>1, <2>2 DEF Held
  <2>4. queue.items = disk.items
    BY <2>1 DEF IInv, StoreOK, MemoryMatchesDisk
  <2> QED
    BY <1>0, <2>1, <2>3, <2>4, StoreFrame, SendersFrame, TurnsFrame DEF IInv
<1>2. CASE ProcessEnds
  <2>1. /\ up' = "down" /\ queue' = Gone /\ current' = NoText /\ turn' = NoTurn /\ retry' = Clear /\ lock' = Free
        /\ caller' = [c \in {"timer", "user"} |-> Idle]
        /\ reply' = [m \in Messages |-> IF reply[m] = "pending" THEN "lost" ELSE reply[m]]
        /\ UNCHANGED <<life, disk, handed, launched>>
    BY <1>2 DEF ProcessEnds, ghosts
  <2>2. StoreOK'
    BY <1>0, <2>1, StoreFrame
  <2>3. Held' = {NoText}
    BY <2>1 DEF Held, NoTurn, Clear, Idle
  <2>4. TurnsOK'
    BY <2>1, <2>3, NoTextAssumption
       DEF IInv, TurnsOK, DownIsEmpty, HeldWasClaimedHere, LaunchedByClaimer
  <2>5. Ids(disk)' = Ids(disk) /\ lock'.op = "free"
    BY <2>1 DEF Ids, Free
  <2>6. SendersOK'
    BY <2>1, <2>5 DEF IInv, SendersOK, SubmittableIsNew, LockServesSender, AcceptedIsDurable, Accepted
  <2> QED
    BY <1>0, <2>1, <2>2, <2>4, <2>6 DEF IInv
<1>3. CASE Restart \/ RestartFails
  <2>1. /\ up = "down"
        /\ life' \in {life, life + 1}
        /\ disk' \in {disk, Loaded}
        /\ up' # "down" => queue' = Loaded
        /\ up' = "down" => queue' = queue
        /\ UNCHANGED <<current, turn, retry, caller, lock, reply, handed, launched>>
    BY <1>3 DEF Restart, RestartFails, volatile, ghosts
  <2>2. Loaded.items = disk.items
    BY <1>0 DEF Loaded, TypeOK, Queues
  <2>3. disk'.items = disk.items /\ (up' # "down" => queue'.items = disk.items)
    BY <2>1, <2>2
  <2>4. StoreOK'
    BY <1>0, <2>1, <2>3, StoreFrame
  <2>5. SendersOK'
    BY <2>1, <2>3, SendersFrame
  <2>6. /\ queue = Gone /\ turn = NoTurn /\ current = NoText /\ retry = Clear /\ lock = Free
        /\ caller = [c \in {"timer", "user"} |-> Idle]
    BY <2>1 DEF IInv, TurnsOK, DownIsEmpty
  <2>7. Held' = {NoText}
    BY <2>1, <2>6 DEF Held, NoTurn, Clear, Idle
  <2>8. TurnsOK'
    BY <2>1, <2>6, <2>7, NoTextAssumption
       DEF IInv, TurnsOK, DownIsEmpty, HeldWasClaimedHere, LaunchedByClaimer
  <2>9. life' > 0
    BY <1>0, <2>1 DEF IInv, TypeOK
  <2> QED
    BY <1>0, <2>4, <2>5, <2>8, <2>9 DEF IInv
<1> QED
  BY <1>1, <1>2, <1>3 DEF Host

LEMMA IInvNext == IInv /\ [Next]_vars => IInv'
<1>1. IInv /\ UNCHANGED vars => IInv'
  BY TypeStutter DEF IInv, StoreOK, EntriesUnique, MemoryMatchesDisk, QueuedIffUnclaimed,
     PlacesInOrder, SendersOK, SubmittableIsNew, LockServesSender, AcceptedIsDurable, Accepted,
     TurnsOK, DownIsEmpty, HeldWasClaimedHere, LaunchedByClaimer, Held, Ids, Claimed,
     vars, volatile, history, ghosts
<1> QED
  BY <1>1, IInvAdmit, IInvClaim, IInvInput, IInvRetry, IInvTurn, IInvHost DEF Next

(* The inductive invariant holds whatever the limits are: the queue in     *)
(* memory and on disk agree, entries are unique and wait exactly while     *)
(* unclaimed, and what a turn or a retry holds was claimed by this process.*)
THEOREM Invariance == Spec => []IInv
BY IInvInit, IInvNext, PTL DEF Spec

-----------------------------------------------------------------------------
(* What the inductive invariant gives.                                     *)

(* A message the sender was told is accepted is on disk or claimed, for    *)
(* every crash and failed write.                                           *)
THEOREM AcceptedSurvives == Spec => []AcceptedIsDurable
<1>1. IInv => AcceptedIsDurable
  BY DEF IInv, SendersOK
<1> QED
  BY <1>1, Invariance, PTL

(* What a restart may still claim was never given to Claude.               *)
THEOREM WaitingNeverRan == Spec => []QueuedNeverRan
<1>1. IInv => QueuedNeverRan
  <2>1. SUFFICES ASSUME IInv, NEW it \in Queued(disk) \cup Queued(queue)
                 PROVE  handed[it.id] = 0 /\ launched[it.id] = {}
    BY DEF QueuedNeverRan
  <2>2. it \in disk.items /\ it.phase = "queued" /\ it.id \in Messages
    <3>1. CASE up = "down"
      <4>1. Queued(queue) = {}
        BY <2>1, <3>1 DEF IInv, TurnsOK, DownIsEmpty, Gone, Queued
      <4> QED
        BY <2>1, <4>1 DEF IInv, TypeOK, Queues, Items, Queued
    <3>2. CASE up # "down"
      BY <2>1, <3>2 DEF IInv, TypeOK, Queues, Items, Queued, StoreOK, MemoryMatchesDisk
    <3> QED
      BY <3>1, <3>2
  <2>3. handed[it.id] = 0
    BY <2>1, <2>2 DEF IInv, StoreOK, QueuedIffUnclaimed
  <2> QED
    BY <2>1, <2>2, <2>3 DEF IInv, TurnsOK, LaunchedByClaimer
<1> QED
  BY <1>1, Invariance, PTL

(* No message is given to Claude by two processes.                         *)
THEOREM OneLife == Spec => []OneLifePerMessage
<1>1. IInv => OneLifePerMessage
  BY DEF IInv, TurnsOK, LaunchedByClaimer, OneLifePerMessage
<1> QED
  BY <1>1, Invariance, PTL

(* A message its sender was told is not queued is not on disk and was      *)
(* never given to Claude, so sending it again cannot run it twice.         *)
THEOREM RefusedIsSafeToResend == Spec => []RefusedNeverRuns
<1>1. IInv => RefusedNeverRuns
  BY DEF IInv, SendersOK, SubmittableIsNew, TurnsOK, LaunchedByClaimer, RefusedNeverRuns
<1> QED
  BY <1>1, Invariance, PTL

-----------------------------------------------------------------------------
(* The runner implements the line of NextTurnLine.                         *)

(* Fate and place of a message are read off the claims and the entries     *)
(* that wait on disk.                                                      *)
FateKnown ==
    \A m \in Messages :
        /\ Fate(m) = IF handed[m] # 0 THEN "handed"
                     ELSE IF \E it \in Queued(disk) : it.id = m THEN "saved" ELSE "new"
        /\ \A it \in Queued(disk) : it.id = m => Place(m) = it.at
        /\ (\A it \in Queued(disk) : it.id # m) => Place(m) = 0

LEMMA FateIsKnown == IInv => FateKnown
<1> SUFFICES ASSUME IInv, NEW m \in Messages
             PROVE  /\ Fate(m) = IF handed[m] # 0 THEN "handed"
                                 ELSE IF \E it \in Queued(disk) : it.id = m THEN "saved" ELSE "new"
                    /\ \A it \in Queued(disk) : it.id = m => Place(m) = it.at
                    /\ (\A it \in Queued(disk) : it.id # m) => Place(m) = 0
  BY DEF FateKnown
<1>1. handed[m] = 0 => (m \in Ids(disk) <=> \E it \in Queued(disk) : it.id = m)
  BY DEF IInv, StoreOK, QueuedIffUnclaimed, Ids, Queued
<1>2. \A a, b \in Queued(disk) : a.id = m /\ b.id = m => a = b
  BY DEF IInv, StoreOK, EntriesUnique, Queued
<1> DEFINE own == {it \in Queued(disk) : it.id = m}
<1>3. Place(m) = IF own = {} THEN 0 ELSE (CHOOSE it \in own : TRUE).at
  BY DEF Place
<1>4. ASSUME NEW it \in Queued(disk), it.id = m PROVE Place(m) = it.at
  <2>1. it \in own
    BY <1>4
  <2> HIDE DEF own
  <2>2. (CHOOSE x \in own : TRUE) \in own
    BY <2>1
  <2>3. (CHOOSE x \in own : TRUE) = it
    BY <1>2, <1>4, <2>2 DEF own
  <2> QED
    BY <1>3, <2>1, <2>3
<1> QED
  BY <1>1, <1>3, <1>4 DEF Fate

(* A step that claims nothing and leaves the waiting entries alone is      *)
(* invisible in the line.                                                  *)
LEMMA LineStutters ==
    ASSUME FateKnown, FateKnown', handed' = handed, Queued(disk)' = Queued(disk)
    PROVE  UNCHANGED Line!vars
<1>1. \A m \in Messages : Fate(m)' = Fate(m)
  BY DEF FateKnown
<1>2. \A m \in Messages : Place(m)' = Place(m)
  BY DEF FateKnown
<1>3. [m \in Messages |-> Fate(m)]' = [m \in Messages |-> Fate(m)]
  BY <1>1
<1>4. [m \in Messages |-> Place(m)]' = [m \in Messages |-> Place(m)]
  BY <1>2
<1> QED
  BY <1>3, <1>4 DEF Line!vars

LEMMA LineInit == Init => Line!Init
<1> SUFFICES ASSUME Init PROVE Line!Init
  OBVIOUS
<1>1. FateKnown
  BY IInvInit, FateIsKnown
<1>2. Queued(disk) = {} /\ \A m \in Messages : handed[m] = 0
  BY DEF Init, Gone, Queued
<1>3. \A m \in Messages : Fate(m) = "new" /\ Place(m) = 0
  BY <1>1, <1>2 DEF FateKnown
<1> QED
  BY <1>3 DEF Line!Init

(* Saving a message puts it at the end of the line.                        *)
LEMMA LineSaves ==
    ASSUME IInv, FateKnown, FateKnown', AdmitCommit
    PROVE  Line!Next
<1>0. TypeOK
  BY DEF IInv
<1>m. PICK m : m = lock.msg
  OBVIOUS
<1>n. PICK new : new = [id |-> lock.msg, phase |-> "queued", boundary |-> lock.boundary,
                        at |-> Cardinality(Admitted)]
  OBVIOUS
<1>1. /\ up # "down" /\ lock.op = "admit" /\ m \in Messages
      /\ disk'.items = Trim(queue.items, current) \cup {new}
      /\ handed' = handed
  BY <1>0, <1>m, <1>n DEF AdmitCommit, Written, Saved, TypeOK, Locks, ghosts
<1>2. m \notin Ids(disk) /\ handed[m] = 0
  BY <1>1, <1>m DEF IInv, SendersOK, SubmittableIsNew
<1>3. queue.items = disk.items
  BY <1>1 DEF IInv, StoreOK, MemoryMatchesDisk
<1>4. Admitted = Ids(disk) \cup Claimed
  BY <1>3 DEF Admitted, Claimed, Ids
<1>5. new.at \in Nat /\ new.id = m /\ new.phase = "queued"
  BY <1>0, <1>m, <1>n, AdmittedIsFinite DEF TypeOK
<1>6. \A it \in Queued(disk) : it.at < new.at /\ it.id # m
  BY <1>2, <1>4, <1>n DEF IInv, StoreOK, PlacesInOrder, Queued, Ids
<1>7. Queued(disk)' = Queued(disk) \cup {new}
  BY <1>1, <1>3, <1>5, TrimKeepsQueued DEF Queued
<1>8. \A n \in Messages : n # m => Fate(n)' = Fate(n) /\ Place(n)' = Place(n)
  BY <1>1, <1>5, <1>7 DEF FateKnown
<1>9. Fate(m) = "new" /\ Fate(m)' = "saved" /\ Place(m)' = new.at
  BY <1>1, <1>2, <1>5, <1>6, <1>7 DEF FateKnown
<1>10. \A n \in Messages : Fate(n) = "saved" => Place(n) < new.at
  BY <1>6 DEF FateKnown
<1> DEFINE fate == [n \in Messages |-> Fate(n)]
           place == [n \in Messages |-> Place(n)]
<1>11. fate' = [fate EXCEPT ![m] = "saved"] /\ fate[m] = "new"
  BY <1>1, <1>8, <1>9
<1>12. place'[m] = new.at /\ place' = [place EXCEPT ![m] = place'[m]]
  BY <1>1, <1>8, <1>9
<1>13. \A n \in {k \in Messages : fate[k] = "saved"} : place[n] < place'[m]
  BY <1>10, <1>12
<1>14. Line!Save(m)
  BY <1>5, <1>11, <1>12, <1>13 DEF Line!Save, Line!Waiting
<1> QED
  BY <1>1, <1>14 DEF Line!Next

(* Dispatching a message takes the first one out of the line.              *)
LEMMA LineHands ==
    ASSUME IInv, FateKnown, FateKnown', ClaimCommit
    PROVE  Line!Next
<1>0. TypeOK
  BY DEF IInv
<1>1. PICK it : it = Oldest(Queued(queue))
  OBVIOUS
<1>2. /\ it \in disk.items /\ it.phase = "queued" /\ it.id \in Messages
      /\ \A other \in Queued(disk) : it.at <= other.at
      /\ disk'.items = (disk.items \ {it}) \cup {[it EXCEPT !.phase = "dispatched"]}
      /\ [it EXCEPT !.phase = "dispatched"].phase = "dispatched"
  BY <1>1, DispatchShape DEF ClaimCommit, Written
<1>3. handed' = [handed EXCEPT ![it.id] = life]
  BY <1>1 DEF ClaimCommit
<1>4. handed[it.id] = 0 /\ life # 0
  BY <1>0, <1>2 DEF IInv, TypeOK, StoreOK, QueuedIffUnclaimed
<1>5. \A m \in Messages : handed'[m] = IF m = it.id THEN life ELSE handed[m]
  BY <1>0, <1>2, <1>3 DEF TypeOK
<1>6. Queued(disk)' = Queued(disk) \ {it} /\ it \in Queued(disk)
  BY <1>2 DEF Queued
<1>7. \A other \in Queued(disk) : other.id = it.id => other = it
  BY <1>6 DEF IInv, StoreOK, EntriesUnique, Queued
<1>8. \A n \in Messages : n # it.id => Fate(n)' = Fate(n) /\ Place(n)' = Place(n)
  BY <1>5, <1>6 DEF FateKnown
<1>9. Fate(it.id) = "saved" /\ Place(it.id) = it.at /\ Fate(it.id)' = "handed" /\ Place(it.id)' = 0
  BY <1>2, <1>4, <1>5, <1>6, <1>7 DEF FateKnown
<1>10. \A n \in Messages : Fate(n) = "saved" => it.at <= Place(n)
  BY <1>2 DEF FateKnown
<1> DEFINE fate == [n \in Messages |-> Fate(n)]
           place == [n \in Messages |-> Place(n)]
<1>11. fate' = [fate EXCEPT ![it.id] = "handed"] /\ fate[it.id] = "saved"
  BY <1>2, <1>8, <1>9
<1>12. place' = [place EXCEPT ![it.id] = 0] /\ place[it.id] = it.at
  BY <1>2, <1>8, <1>9
<1>13. \A n \in {k \in Messages : fate[k] = "saved"} : place[it.id] <= place[n]
  BY <1>10, <1>12
<1>14. Line!Hand(it.id)
  BY <1>2, <1>11, <1>12, <1>13 DEF Line!Hand, Line!Waiting
<1> QED
  BY <1>2, <1>14 DEF Line!Next

(* Settling drops and renames receipts only.                               *)
LEMMA SettleKeepsWaiting ==
    ASSUME IInv, SettleSaved
    PROVE  Queued(disk)' = Queued(disk)
<1>1. /\ up # "down"
      /\ disk' = IF SettledQueue.items = {} THEN disk ELSE SettledQueue
  BY DEF SettleSaved, Settling
<1>2. queue.items = disk.items /\ disk.items \subseteq Items
  BY <1>1 DEF IInv, TypeOK, Queues, StoreOK, MemoryMatchesDisk
<1>3. \A it \in disk.items : it.phase = "queued" => it.id # turn.id
  <2>1. SUFFICES ASSUME NEW it \in disk.items, it.id = turn.id PROVE it.phase # "queued"
    OBVIOUS
  <2>2. it.id \in Held \cap Messages
    BY <1>2, <2>1 DEF Held, Items
  <2>3. handed[it.id] = life /\ life > 0
    BY <2>2 DEF IInv, TurnsOK, HeldWasClaimedHere
  <2>4. handed[it.id] # 0
    BY <2>3 DEF IInv, TypeOK
  <2> QED
    BY <2>4 DEF IInv, StoreOK, QueuedIffUnclaimed
<1> DEFINE f(it) == IF it.id = turn.id /\ Resolved THEN [it EXCEPT !.phase = "done"] ELSE it
<1>4. \A it \in disk.items :
         /\ it.phase = "queued" => f(it) = it
         /\ f(it).phase = "queued" => f(it) = it
  BY <1>2, <1>3 DEF Items
<1>5. MarkDone(queue.items) = {f(it) : it \in disk.items}
  BY <1>2 DEF MarkDone
<1> HIDE DEF f
<1>6. {x \in MarkDone(queue.items) : x.phase = "queued"} = Queued(disk)
  BY <1>4, <1>5 DEF Queued
<1>7. SettledQueue.items = Trim(MarkDone(queue.items), current)
  BY DEF SettledQueue
<1>8. {x \in SettledQueue.items : x.phase = "queued"} = Queued(disk)
  BY <1>6, <1>7, TrimKeepsQueued
<1> QED
  BY <1>1, <1>8 DEF Queued

LEMMA LineNext == IInv /\ IInv' /\ [Next]_vars => [Line!Next]_(Line!vars)
<1>0. (IInv => FateKnown)'
  BY FateIsKnown, PTL
<1> SUFFICES ASSUME IInv, IInv', [Next]_vars PROVE [Line!Next]_(Line!vars)
  OBVIOUS
<1>1. FateKnown /\ FateKnown'
  BY <1>0, FateIsKnown
<1>2. CASE AdmitCommit
  BY <1>1, <1>2, LineSaves
<1>3. CASE ClaimCommit
  BY <1>1, <1>3, LineHands
<1>4. CASE SettleSaved
  <2>1. handed' = handed
    BY <1>4 DEF SettleSaved, ghosts
  <2> QED
    BY <1>1, <1>4, <2>1, SettleKeepsWaiting, LineStutters
<1>5. CASE Restart
  <2>1. handed' = handed /\ disk' \in {disk, Loaded}
    BY <1>5 DEF Restart, ghosts
  <2>2. Loaded.items = disk.items
    BY DEF Loaded, IInv, TypeOK, Queues
  <2>3. Queued(disk)' = Queued(disk)
    BY <2>1, <2>2 DEF Queued
  <2> QED
    BY <1>1, <2>1, <2>3, LineStutters
<1>6. ASSUME handed' = handed, disk' = disk PROVE [Line!Next]_(Line!vars)
  <2>1. Queued(disk)' = Queued(disk)
    BY <1>6 DEF Queued
  <2> QED
    BY <1>1, <1>6, <2>1, LineStutters
<1>7. CASE Admit /\ ~AdmitCommit
  BY <1>6, <1>7 DEF Admit, AdmitRefused, RepeatRefused, AdmitDuplicate, AdmitBegin, AdmitWriteFails, ghosts
<1>8. CASE Claim /\ ~ClaimCommit
  BY <1>6, <1>8 DEF Claim, ClaimRefused, ClaimReserve, ClaimNothing, ClaimWriteFails, ghosts
<1>9. CASE Input
  BY <1>6, <1>9 DEF Input, Interrupt, Keystroke, Enter, ghosts
<1>10. CASE Retry
  BY <1>6, <1>10 DEF Retry, RetryRequest, RunNow, RetryStop, TimerFires, StartRetryTurn, ResumeQueue, ghosts
<1>11. CASE Turn /\ ~SettleSaved
  BY <1>6, <1>11 DEF Turn, TurnBegin, TurnLaunch, TurnLaunchFails, TurnResult, TurnInterrupted,
                     TurnEnds, Settle, SettleWriteFails, ghosts
<1>12. CASE Host /\ ~Restart
  BY <1>6, <1>12 DEF Host, Stop, ProcessEnds, RestartFails, ghosts
<1>13. CASE UNCHANGED vars
  BY <1>6, <1>13 DEF vars, ghosts
<1> QED
  BY <1>2, <1>3, <1>4, <1>5, <1>7, <1>8, <1>9, <1>10, <1>11, <1>12, <1>13 DEF Next

(* Whatever crashes, retries and failed writes happen, messages leave the  *)
(* durable queue once each and in the order in which they were admitted.   *)
THEOREM ImplementsLine == Spec => LineSpec
<1>1. Spec => []IInv
  BY Invariance
<1>2. Init => Line!Init
  BY LineInit
<1>3. IInv /\ IInv' /\ [Next]_vars => [Line!Next]_(Line!vars)
  BY LineNext
<1> QED
  BY <1>1, <1>2, <1>3, PTL DEF Spec, LineSpec, Line!Spec

-----------------------------------------------------------------------------
(* The active flag has exactly one owner.                                  *)

(* A turn and a reservation never exist together, and each of them alone   *)
(* accounts for the flag.                                                  *)
OneOwner == /\ active <=> (turn.stage # "none" \/ lock.op = "reserved")
            /\ ~(turn.stage # "none" /\ lock.op = "reserved")
            /\ turn.stage = "none" => turn = NoTurn

LEMMA OwnerFrame ==
    ASSUME OneOwner, turn' = turn \/ (turn.stage # "none" /\ turn'.stage # "none"),
           active' = active, (lock'.op = "reserved") <=> (lock.op = "reserved")
    PROVE  OneOwner'
BY DEF OneOwner

LEMMA OwnerNext == TypeOK /\ OneOwner /\ [Next]_vars => OneOwner'
<1> SUFFICES ASSUME TypeOK, OneOwner, [Next]_vars PROVE OneOwner'
  OBVIOUS
<1>n. /\ NoTurn.stage = "none" /\ Free.op = "free"
      /\ \A msg, boundary, resume : Claiming(msg, boundary, resume).op = "claim"
      /\ \A text, id, attempt : Spawned(text, id, attempt).stage = "spawned"
  BY DEF NoTurn, Free, Claiming, Spawned
<1>e. \A outcome : [turn EXCEPT !.stage = "ended", !.outcome = outcome].stage = "ended"
  BY DEF TypeOK, Turns
<1>1. CASE Admit
  <2>1. CASE \E m \in Messages : AdmitRefused(m) \/ RepeatRefused(m) \/ AdmitDuplicate(m)
    BY <2>1, OwnerFrame DEF AdmitRefused, RepeatRefused, AdmitDuplicate, volatile
  <2>2. ASSUME NEW m \in Messages, AdmitBegin(m) PROVE OneOwner'
    <3>1. lock.op = "free" /\ lock'.op = "admit" /\ UNCHANGED <<turn, active>>
      BY <2>2 DEF AdmitBegin, MaySubmit, Free
    <3> QED
      BY <3>1, OwnerFrame
  <2>3. CASE AdmitCommit \/ AdmitWriteFails
    <3>1. lock.op = "admit" /\ lock'.op # "reserved" /\ UNCHANGED <<turn, active>>
      BY <1>n, <2>3 DEF AdmitCommit, AdmitWriteFails
    <3> QED
      BY <3>1, OwnerFrame
  <2> QED
    BY <1>1, <2>1, <2>2, <2>3 DEF Admit
<1>2. CASE Claim
  <2>1. CASE ClaimRefused
    BY <1>n, <2>1, OwnerFrame DEF ClaimRefused
  <2>2. CASE ClaimReserve
    <3>1. lock.op = "claim" /\ lock'.op = "reserved" /\ ~active /\ active' /\ turn' = turn
      BY <2>2 DEF ClaimReserve, TypeOK, Locks
    <3> QED
      BY <3>1 DEF OneOwner
  <2>3. CASE ClaimNothing \/ ClaimWriteFails
    <3>1. lock.op = "reserved" /\ lock'.op = "free" /\ ~active' /\ turn' = turn
      BY <1>n, <2>3 DEF ClaimNothing, ClaimWriteFails
    <3> QED
      BY <3>1 DEF OneOwner
  <2>4. CASE ClaimCommit
    <3>1. lock.op = "reserved" /\ lock'.op = "free" /\ active' = active /\ turn'.stage = "spawned"
      BY <1>n, <2>4 DEF ClaimCommit
    <3> QED
      BY <3>1 DEF OneOwner
  <2> QED
    BY <1>2, <2>1, <2>2, <2>3, <2>4 DEF Claim
<1>3. CASE Input
  <2>1. CASE Interrupt
    <3>1. turn' = turn \/ (turn.stage # "none" /\ turn'.stage # "none")
      BY <2>1 DEF Interrupt, Cancellable, TypeOK, Turns
    <3> QED
      BY <2>1, <3>1, OwnerFrame DEF Interrupt
  <2>2. CASE Keystroke
    BY <2>2, OwnerFrame DEF Keystroke
  <2>3. ASSUME NEW y \in RawTexts, Enter(y) PROVE OneOwner'
    <3>1. ~active /\ active' /\ lock' = lock /\ turn'.stage = "spawned"
      BY <1>n, <2>3 DEF Enter
    <3> QED
      BY <3>1 DEF OneOwner
  <2> QED
    BY <1>3, <2>1, <2>2, <2>3 DEF Input
<1>4. CASE Retry
  <2>1. CASE RetryRequest \/ RunNow \/ RetryStop \/ TimerFires
    BY <2>1, OwnerFrame DEF RetryRequest, RunNow, RetryStop, TimerFires
  <2>2. ASSUME NEW c \in {"timer", "user"}, StartRetryTurn(c) PROVE OneOwner'
    <3>1. CASE UNCHANGED <<active, turn>>
      BY <2>2, <3>1, OwnerFrame DEF StartRetryTurn
    <3>2. CASE ~active /\ active' /\ turn'.stage = "spawned"
      <4>1. lock' = lock
        BY <2>2 DEF StartRetryTurn
      <4> QED
        BY <3>2, <4>1 DEF OneOwner
    <3> QED
      BY <1>n, <2>2, <3>1, <3>2 DEF StartRetryTurn
  <2>3. CASE ResumeQueue("user")
    <3>1. lock.op = "free" /\ lock'.op = "claim" /\ UNCHANGED <<turn, active>>
      BY <1>n, <2>3 DEF ResumeQueue
    <3> QED
      BY <3>1, OwnerFrame
  <2> QED
    BY <1>4, <2>1, <2>2, <2>3 DEF Retry
<1>5. CASE Turn
  <2>1. CASE TurnBegin \/ TurnLaunch \/ TurnResult
    <3>1. turn.stage # "none" /\ turn'.stage # "none"
      BY <2>1 DEF TurnBegin, TurnLaunch, TurnResult, TypeOK, Turns
    <3> QED
      BY <2>1, <3>1, OwnerFrame DEF TurnBegin, TurnLaunch, TurnResult
  <2>2. CASE TurnLaunchFails \/ TurnInterrupted \/ TurnEnds
    <3>1. turn.stage # "none" /\ turn'.stage = "ended" /\ UNCHANGED <<active, lock>>
      BY <1>e, <2>2 DEF TurnLaunchFails, TurnInterrupted, TurnEnds, End
    <3> QED
      BY <3>1, OwnerFrame
  <2>3. CASE Settle
    <3>1. turn.stage # "none" /\ turn' = NoTurn /\ ~active' /\ lock'.op # "reserved"
      BY <1>n, <2>3 DEF Settle, SettleSaved, SettleWriteFails, Settling
    <3> QED
      BY <1>n, <3>1 DEF OneOwner
  <2> QED
    BY <1>5, <2>1, <2>2, <2>3 DEF Turn
<1>6. CASE Host
  <2>1. CASE Stop \/ Restart \/ RestartFails
    BY <2>1, OwnerFrame DEF Stop, Restart, RestartFails, volatile
  <2>2. CASE ProcessEnds
    BY <1>n, <2>2 DEF ProcessEnds, OneOwner
  <2> QED
    BY <1>6, <2>1, <2>2 DEF Host
<1>7. CASE UNCHANGED vars
  BY <1>7, OwnerFrame DEF vars, volatile
<1> QED
  BY <1>1, <1>2, <1>3, <1>4, <1>5, <1>6, <1>7 DEF Next

(* At most one turn runs, the flag that guards it is set as long as it     *)
(* runs, and no failed claim or settle leaves it set.                      *)
THEOREM ActiveHasOneOwner == Spec => []ActiveIsOwned
<1>1. Init => OneOwner
  BY DEF Init, OneOwner, NoTurn, Free
<1>2. TypeOK /\ OneOwner => ActiveIsOwned
  <2>1. NoTurn.stage = "none"
    BY DEF NoTurn
  <2> QED
    BY <2>1 DEF TypeOK, OneOwner, ActiveIsOwned
<1> QED
  BY <1>1, <1>2, TypeCorrect, OwnerNext, PTL DEF Spec

=============================================================================
