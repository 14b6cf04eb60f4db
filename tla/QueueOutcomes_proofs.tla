------------------------ MODULE QueueOutcomes_proofs ------------------------
(***************************************************************************)
(* Proofs about what becomes of a message that the Claude runner accepted: *)
(* it can be seen, its end is told, it does not overtake a failed one and  *)
(* it is not forgotten while the runner rests.  They rest on the inductive *)
(* invariant of the queue and on the owner of the active flag.             *)
(***************************************************************************)
EXTENDS ClaudeTurnQueue_proofs

USE FiniteAssumption, NoTextAssumption, TextsAssumption, LimitsAssumption

(* Everything that is known of the queue without these proofs.             *)
Known == IInv /\ OneOwner

LEMMA KnownType == Known => TypeOK
  BY DEF Known, IInv

LEMMA OwnerInit == Init => OneOwner
  BY DEF Init, OneOwner, NoTurn, Free

(* The invariants of the queue hold together in every behaviour.           *)
THEOREM Knowledge == Spec => []Known
<1>1. Init => Known
  BY IInvInit, OwnerInit DEF Known
<1>2. Known /\ [Next]_vars => Known'
  BY IInvNext, OwnerNext, KnownType DEF Known
<1> QED BY <1>1, <1>2, PTL DEF Spec

LEMMA LockFields ==
    /\ Free.op = "free" /\ Free.msg = NoText
    /\ \A msg, boundary, resume : /\ Claiming(msg, boundary, resume).op = "claim"
                                  /\ Claiming(msg, boundary, resume).msg = msg
  BY DEF Free, Claiming

LEMMA TurnFields ==
    /\ NoTurn.text = NoText /\ NoTurn.stage = "none" /\ NoTurn.result = "none"
    /\ NoTurn.outcome = "unresolved"
    /\ \A text, id, attempt :
          /\ Spawned(text, id, attempt).text = text /\ Spawned(text, id, attempt).stage = "spawned"
          /\ Spawned(text, id, attempt).result = "none"
          /\ Spawned(text, id, attempt).outcome = "unresolved"
  BY DEF NoTurn, Spawned

LEMMA Ending ==
    ASSUME TypeOK, NEW outcome \in Outcomes
    PROVE  /\ [turn EXCEPT !.stage = "ended", !.outcome = outcome].text = turn.text
           /\ [turn EXCEPT !.stage = "ended", !.outcome = outcome].stage = "ended"
           /\ [turn EXCEPT !.stage = "ended", !.outcome = outcome].result = turn.result
           /\ [turn EXCEPT !.stage = "ended", !.outcome = outcome].outcome = outcome
  BY DEF TypeOK, Turns

LEMMA EndShape ==
    ASSUME TypeOK, NEW outcome \in Outcomes, End(outcome)
    PROVE  /\ turn'.text = turn.text /\ turn'.stage = "ended" /\ turn'.result = turn.result
           /\ turn'.outcome = outcome
  BY Ending DEF End

-----------------------------------------------------------------------------
(* A saved message can be seen.                                            *)

Visible == up # "down" => \A it \in Queued(queue) : it.id # lock.msg => it.id \in recorded
ReservedIsVisible == lock.op = "reserved" /\ lock.msg # NoText => lock.msg \in recorded
Visibility == Visible /\ ReservedIsVisible

LEMMA VisibleFrame ==
    ASSUME Visibility, up' # "down" => up # "down", recorded \subseteq recorded',
           lock'.op = "reserved" /\ lock'.msg # NoText => lock'.msg \in recorded',
           \A it \in Queued(queue)' :
              \/ it.id \in recorded' \/ it.id = lock'.msg
              \/ it.id # lock.msg /\ \E x \in Queued(queue) : x.id = it.id
    PROVE  Visibility'
  BY DEF Visibility, Visible, ReservedIsVisible

(* A step that leaves the queue to itself.                                 *)
LEMMA VisibleSame ==
    ASSUME Visibility, up' # "down" => up # "down", recorded \subseteq recorded',
           UNCHANGED <<queue, lock>>
    PROVE  Visibility'
  BY DEF Visibility, Visible, ReservedIsVisible, Queued

(* Who gives the lock back has shown the message it held it for.           *)
LEMMA VisibleFree ==
    ASSUME Visibility, Known, up' = up, up # "down", recorded \subseteq recorded', lock'.op # "reserved",
           queue'.items = queue.items,
           lock.msg # NoText /\ lock.msg \in Ids(queue) => lock.msg \in recorded'
    PROVE  Visibility'
<1>1. \A it \in Queued(queue)' : it \in Queued(queue) /\ it.id \in Ids(queue) /\ it.id # NoText
  BY DEF Queued, Ids, Known, IInv, TypeOK, Queues, Items
<1> QED BY <1>1, VisibleFrame

LEMMA VisibleNext == Known /\ Visibility /\ [Next]_vars => Visibility'
<1> SUFFICES ASSUME Known, Visibility, [Next]_vars PROVE Visibility'
  OBVIOUS
<1>0. TypeOK
  BY KnownType
<1>1. CASE Admit
  <2>1. ASSUME NEW m \in Messages, AdmitRefused(m) \/ RepeatRefused(m) \/ AdmitDuplicate(m) PROVE Visibility'
    BY <2>1, VisibleSame DEF AdmitRefused, RepeatRefused, AdmitDuplicate, volatile, history
  <2>2. ASSUME NEW m \in Messages, AdmitBegin(m) PROVE Visibility'
    <3>1. /\ lock.msg = NoText /\ lock'.op = "admit" /\ queue' = queue /\ up' = up /\ up # "down"
          /\ recorded' = recorded
      BY <2>2 DEF AdmitBegin, MaySubmit, Free, history
    <3> QED BY <3>1, VisibleFree
  <2>3. CASE AdmitCommit
    <3>1. /\ up' = up /\ up # "down" /\ recorded' = recorded
          /\ lock'.op = "claim" /\ lock'.msg = lock.msg /\ queue' = Saved
      BY <2>3 DEF AdmitCommit, Written, history, Claiming, Free
    <3>2. \A it \in Queued(queue)' : it \in Queued(queue) \/ it.id = lock.msg
      BY <3>1, TrimKeepsQueued DEF Queued, Saved
    <3> QED BY <3>1, <3>2, VisibleFrame
  <2>4. CASE AdmitWriteFails
    <3>1. /\ up' = up /\ up # "down" /\ recorded' = recorded /\ lock.op = "admit"
          /\ lock'.op = "free" /\ queue' = queue
      BY <2>4, LockFields DEF AdmitWriteFails, history
    <3>2. lock.msg \in Messages /\ lock.msg \notin Ids(queue)
      BY <1>0, <3>1 DEF TypeOK, Locks, Known, IInv, SendersOK, SubmittableIsNew, StoreOK,
                        MemoryMatchesDisk, Ids
    <3> QED BY <3>1, <3>2, VisibleFree
  <2> QED BY <1>1, <2>1, <2>2, <2>3, <2>4 DEF Admit
<1>2. CASE Claim
  <2>0. up # "down" /\ up' = up /\ lock.msg \in Messages \cup {NoText}
    BY <1>0, <1>2 DEF Claim, ClaimRefused, ClaimReserve, ClaimNothing, ClaimCommit, ClaimWriteFails,
                      TypeOK, Locks
  <2>1. CASE ClaimRefused
    <3>1. /\ recorded' = recorded \cup ({lock.msg} \cap Messages)
          /\ queue' = queue /\ lock'.op = "free"
      BY <2>1, LockFields DEF ClaimRefused
    <3> QED BY <2>0, <3>1, VisibleFree
  <2>2. CASE ClaimReserve
    <3>1. /\ recorded' = recorded \cup ({lock.msg} \cap Messages)
          /\ queue' = queue /\ lock'.msg = lock.msg
      BY <1>0, <2>2 DEF ClaimReserve, TypeOK, Locks
    <3> QED BY <2>0, <3>1 DEF Visibility, Visible, ReservedIsVisible, Queued
  <2>3. CASE ClaimNothing \/ ClaimWriteFails
    <3>1. /\ lock.op = "reserved" /\ lock'.op = "free" /\ recorded' = recorded
          /\ queue'.items = queue.items
      BY <1>0, <2>3, LockFields DEF ClaimNothing, ClaimWriteFails, history, TypeOK, Queues
    <3> QED BY <2>0, <3>1, VisibleFree DEF Visibility, ReservedIsVisible
  <2>4. CASE ClaimCommit
    <3>1. /\ lock.op = "reserved" /\ lock'.op = "free" /\ recorded' = recorded
          /\ queue' = DispatchedNow(Oldest(Queued(queue)))
      BY <2>4, LockFields DEF ClaimCommit, Written, history
    <3>2. \A it \in Queued(queue)' : it \in Queued(queue) /\ it.id # NoText
      <4>1. PICK it : it = Oldest(Queued(queue))
        OBVIOUS
      <4>2. /\ DispatchedNow(it).items = (disk.items \ {it}) \cup {[it EXCEPT !.phase = "dispatched"]}
            /\ [it EXCEPT !.phase = "dispatched"].phase = "dispatched"
        BY <2>4, <4>1, DispatchShape DEF Known, ClaimCommit
      <4>3. queue.items = disk.items
        BY <2>0 DEF Known, IInv, StoreOK, MemoryMatchesDisk
      <4>4. \A x \in queue.items : x.id # NoText
        BY <1>0 DEF TypeOK, Queues, Items
      <4> QED BY <3>1, <4>1, <4>2, <4>3, <4>4 DEF Queued
    <3>3. lock.msg # NoText => lock.msg \in recorded
      BY <3>1 DEF Visibility, ReservedIsVisible
    <3> QED BY <2>0, <3>1, <3>2, <3>3, VisibleFrame
  <2> QED BY <1>2, <2>1, <2>2, <2>3, <2>4 DEF Claim
<1>3. CASE Input
  BY <1>3, VisibleSame DEF Input, Interrupt, Keystroke, Enter, history
<1>4. CASE Retry
  <2>1. CASE RetryRequest \/ RunNow \/ RetryStop \/ TimerFires \/ (\E c \in {"timer", "user"} : StartRetryTurn(c))
    BY <2>1, VisibleSame DEF RetryRequest, RunNow, RetryStop, TimerFires, StartRetryTurn, history
  <2>2. CASE ResumeQueue("user")
    <3>1. /\ lock.msg = NoText /\ lock'.op = "claim" /\ queue' = queue /\ up' = up /\ up # "down"
          /\ recorded' = recorded
      BY <2>2 DEF ResumeQueue, history, Claiming, Free
    <3> QED BY <3>1, VisibleFree
  <2> QED BY <1>4, <2>1, <2>2 DEF Retry
<1>5. CASE Turn
  <2>1. CASE TurnBegin \/ TurnLaunch \/ TurnLaunchFails \/ TurnResult \/ TurnInterrupted \/ TurnEnds
    <3>1. UNCHANGED <<up, queue, lock>> /\ recorded \subseteq recorded'
      BY <2>1 DEF TurnBegin, TurnLaunch, TurnLaunchFails, TurnResult, TurnInterrupted, TurnEnds, history
    <3> QED BY <3>1, VisibleSame
  <2>2. CASE SettleSaved
    <3>1. /\ lock.msg = NoText /\ lock'.op # "reserved" /\ up' = up /\ up # "down"
          /\ recorded' = recorded /\ queue' = SettledQueue
      BY <2>2, LockFields DEF SettleSaved, Settling, history
    <3>2. \A it \in Queued(queue)' : \E x \in Queued(queue) : x.id = it.id /\ it.id # NoText
      <4>1. \A it \in queue'.items : it \in MarkDone(queue.items)
        BY <3>1, TrimKeepsQueued DEF SettledQueue
      <4>2. \A x \in MarkDone(queue.items) : \E it \in disk.items :
               x.id = it.id /\ (x.phase = "queued" <=> it.phase = "queued")
        BY <3>1, MarkDoneShape DEF Known
      <4>3. queue.items = disk.items /\ \A it \in disk.items : it.id \in Messages
        BY <1>0, <3>1 DEF Known, IInv, StoreOK, MemoryMatchesDisk, TypeOK, Queues, Items
      <4> QED BY <4>1, <4>2, <4>3 DEF Queued
    <3> QED BY <3>1, <3>2, VisibleFrame
  <2>3. CASE SettleWriteFails
    <3>1. /\ UNCHANGED <<up, lock, recorded>> /\ queue'.items = queue.items /\ up # "down"
          /\ lock.op = "free" /\ lock.msg = NoText
      BY <1>0, <2>3, LockFields DEF SettleWriteFails, Settling, history, TypeOK, Queues
    <3> QED BY <3>1, VisibleFree
  <2> QED BY <1>5, <2>1, <2>2, <2>3 DEF Turn, Settle
<1>6. CASE Host
  <2>1. CASE Stop
    BY <2>1, VisibleSame DEF Stop, history
  <2>2. CASE ProcessEnds
    BY <2>2, LockFields DEF ProcessEnds, Visibility, Visible, ReservedIsVisible
  <2>3. CASE Restart
    <3>1. /\ queue' = Loaded /\ recorded' = recorded \cup UnsentIds(disk.items) /\ lock' = lock
          /\ lock.op = "free"
      BY <2>3, LockFields DEF Restart, Known, IInv, TurnsOK, DownIsEmpty
    <3>2. queue'.items = disk.items
      BY <1>0, <3>1 DEF Loaded, TypeOK, Queues
    <3> QED BY <3>1, <3>2 DEF Visibility, Visible, ReservedIsVisible, Queued, UnsentIds
  <2>4. CASE RestartFails
    BY <2>4, VisibleSame DEF RestartFails, volatile
  <2> QED BY <1>6, <2>1, <2>2, <2>3, <2>4 DEF Host
<1>7. CASE UNCHANGED vars
  BY <1>7, VisibleSame DEF vars, volatile, history
<1> QED BY <1>1, <1>2, <1>3, <1>4, <1>5, <1>6, <1>7 DEF Next

(* Also when a crash cut its admission after the write, a saved message is *)
(* in the conversation (claude_queue.go admitClaudeMessage,                *)
(* loadMessageQueue).                                                      *)
THEOREM SavedIsShown == Spec => []SavedIsVisible
<1>1. Init => Visibility
  BY LockFields DEF Init, Visibility, Visible, ReservedIsVisible, Gone, Queued
<1>2. Visibility => SavedIsVisible
  BY DEF Visibility, Visible, SavedIsVisible
<1> QED BY <1>1, <1>2, VisibleNext, Knowledge, PTL DEF Spec

-----------------------------------------------------------------------------
(* The end of a message is told.                                           *)

(* Claimed, and its end is not told yet: the file still says dispatched,   *)
(* for the next process to tell, and in this one it is the current input   *)
(* whose turn is not over, unless the process is stopping.                 *)
Untold(m) == handed[m] # 0 /\ m \notin told
OnFile(m) == \E it \in disk.items : it.id = m /\ it.phase = "dispatched"
UntoldIsFound ==
    \A m \in Messages : Untold(m) =>
        /\ OnFile(m)
        /\ up # "down" => current = m /\ (turn.text = m \/ up = "stopping")

(* A turn that ended, or has its result, is told.                          *)
TurnIsTold ==
    turn.text \in Messages =>
        /\ turn.result # "none" => turn.text \in told
        /\ up = "up" /\ turn.stage = "ended" => turn.text \in told

(* When the next message is taken, the previous ones are told.             *)
NextIsAfter ==
    lock.op = "reserved" \/ turn.outcome # "unresolved" => \A m \in Messages : ~Untold(m)

Telling == UntoldIsFound /\ TurnIsTold /\ NextIsAfter

LEMMA TellingFrame ==
    ASSUME Telling, UNCHANGED <<up, handed, told, current>>, disk'.items = disk.items,
           turn'.text = turn.text, turn'.result = turn.result, turn'.outcome = turn.outcome,
           turn'.stage = "ended" => turn.stage = "ended",
           lock'.op = "reserved" => lock.op = "reserved"
    PROVE  Telling'
  BY DEF Telling, UntoldIsFound, TurnIsTold, NextIsAfter, Untold, OnFile

(* A resting runner has told everything.                                   *)
LEMMA RestIsTold ==
    ASSUME Known, Telling, up = "up", turn.stage = "none"
    PROVE  \A m \in Messages : ~Untold(m)
  BY TurnFields DEF Known, OneOwner, Telling, UntoldIsFound

LEMMA TellingAdmit == Known /\ Telling /\ Admit => Telling'
<1> SUFFICES ASSUME Known, Telling, Admit PROVE Telling'
  OBVIOUS
<1>1. ASSUME NEW m \in Messages, AdmitRefused(m) \/ RepeatRefused(m) \/ AdmitDuplicate(m) PROVE Telling'
  BY <1>1, TellingFrame DEF AdmitRefused, RepeatRefused, AdmitDuplicate, volatile, history, ghosts
<1>2. ASSUME NEW m \in Messages, AdmitBegin(m) PROVE Telling'
  <2>1. lock'.op = "admit" /\ UNCHANGED <<up, handed, told, current, disk, turn>>
    BY <1>2 DEF AdmitBegin, Free, history, ghosts
  <2> QED BY <2>1, TellingFrame
<1>3. CASE AdmitCommit
  <2>1. /\ lock'.op = "claim" /\ up # "down" /\ UNCHANGED <<up, handed, told, current, turn>>
        /\ disk' = Saved
    BY <1>3 DEF AdmitCommit, Written, Claiming, Free, history, ghosts
  <2>2. \A m \in Messages : Untold(m) => current = m /\ OnFile(m)
    BY <2>1 DEF Telling, UntoldIsFound
  <2>3. queue.items = disk.items
    BY <2>1 DEF Known, IInv, StoreOK, MemoryMatchesDisk
  <2>4. \A it \in disk.items : it.id = current /\ it.phase = "dispatched" => it \in disk'.items
    BY <2>1, <2>3 DEF Saved, Trim, ReceiptOnly
  <2>5. \A m \in Messages : Untold(m)' => OnFile(m)'
    BY <2>1, <2>2, <2>4 DEF Untold, OnFile
  <2> QED BY <2>1, <2>5 DEF Telling, UntoldIsFound, TurnIsTold, NextIsAfter, Untold
<1>4. CASE AdmitWriteFails
  <2>1. lock'.op = "free" /\ UNCHANGED <<up, handed, told, current, disk, turn>>
    BY <1>4, LockFields DEF AdmitWriteFails, history, ghosts
  <2> QED BY <2>1, TellingFrame
<1> QED BY <1>1, <1>2, <1>3, <1>4 DEF Admit

LEMMA TellingClaim == Known /\ Telling /\ Claim => Telling'
<1> SUFFICES ASSUME Known, Telling, Claim PROVE Telling'
  OBVIOUS
<1>0. TypeOK
  BY KnownType
<1>1. CASE ClaimRefused \/ ClaimNothing \/ ClaimWriteFails
  <2>1. lock'.op = "free" /\ UNCHANGED <<up, handed, told, current, disk, turn>>
    BY <1>1, LockFields DEF ClaimRefused, ClaimNothing, ClaimWriteFails, history, ghosts
  <2> QED BY <2>1, TellingFrame
<1>2. CASE ClaimReserve
  <2>1. ~active /\ up = "up" /\ UNCHANGED <<up, handed, told, current, disk, turn>>
    BY <1>2 DEF ClaimReserve, ghosts
  <2>2. \A m \in Messages : ~Untold(m)
    BY <2>1, RestIsTold DEF Known, OneOwner
  <2> QED BY <2>1, <2>2 DEF Telling, UntoldIsFound, TurnIsTold, NextIsAfter, Untold
<1>3. CASE ClaimCommit
  <2>1. PICK it : it = Oldest(Queued(queue))
    OBVIOUS
  <2>2. /\ lock.op = "reserved" /\ lock' = Free /\ up # "down" /\ UNCHANGED <<up, told>>
        /\ current' = it.id /\ handed' = [handed EXCEPT ![it.id] = life]
        /\ turn' = Spawned(it.id, it.id, 0) /\ disk' = DispatchedNow(it)
    BY <1>3, <2>1 DEF ClaimCommit, Written, history
  <2>3. /\ it.id \in Messages
        /\ DispatchedNow(it).items = (disk.items \ {it}) \cup {[it EXCEPT !.phase = "dispatched"]}
        /\ [it EXCEPT !.phase = "dispatched"].id = it.id
        /\ [it EXCEPT !.phase = "dispatched"].phase = "dispatched"
    BY <1>3, <2>1, DispatchShape DEF ClaimCommit, Known
  <2>4. \A m \in Messages : Untold(m)' => m = it.id
    BY <1>0, <2>2 DEF Telling, NextIsAfter, Untold, TypeOK
  <2>5. OnFile(it.id)'
    BY <2>2, <2>3 DEF OnFile
  <2>6. UntoldIsFound'
    BY <2>2, <2>4, <2>5, TurnFields DEF UntoldIsFound
  <2> QED BY <2>2, <2>6, TurnFields, LockFields DEF Telling, TurnIsTold, NextIsAfter
<1> QED BY <1>1, <1>2, <1>3 DEF Claim

LEMMA TellingRequests == Known /\ Telling /\ (Input \/ Retry) => Telling'
<1> SUFFICES ASSUME Known, Telling, Input \/ Retry PROVE Telling'
  OBVIOUS
<1>0. TypeOK
  BY KnownType
<1>1. CASE Interrupt \/ Keystroke
  <2>1. /\ turn'.text = turn.text /\ turn'.result = turn.result /\ turn'.outcome = turn.outcome
        /\ turn'.stage = turn.stage
    BY <1>0, <1>1 DEF Interrupt, Keystroke, TypeOK, Turns
  <2> QED BY <1>1, <2>1, TellingFrame DEF Interrupt, Keystroke, history, ghosts
<1>2. ASSUME NEW text \in Texts \cup {NoText}, NEW id, NEW attempt, ~active, up # "down",
             turn' = Spawned(text, id, attempt), up = "up" \/ text \notin Messages,
             UNCHANGED <<up, handed, told, current, disk, lock>>
      PROVE  Telling'
  <2>1. turn.stage = "none" /\ lock.op # "reserved"
    BY <1>2 DEF Known, OneOwner
  <2>2. turn.text = NoText
    BY <2>1, TurnFields DEF Known, OneOwner
  <2>3. \A m \in Messages : Untold(m) => OnFile(m) /\ current = m /\ up = "stopping"
    BY <1>2, <2>2 DEF Telling, UntoldIsFound
  <2>4. UntoldIsFound'
    BY <1>2, <2>3 DEF UntoldIsFound, Untold, OnFile
  <2> QED BY <1>2, <2>1, <2>4, TurnFields DEF Telling, TurnIsTold, NextIsAfter
<1>3. ASSUME NEW y \in RawTexts, Enter(y) PROVE Telling'
  <2>1. y \in Texts /\ y \notin Messages
    BY DEF Texts
  <2> QED BY <1>2, <1>3, <2>1 DEF Enter, history, ghosts
<1>4. CASE RetryRequest \/ RunNow \/ RetryStop \/ TimerFires
  BY <1>4, TellingFrame DEF RetryRequest, RunNow, RetryStop, TimerFires, history, ghosts
<1>5. ASSUME NEW c \in {"timer", "user"}, StartRetryTurn(c) PROVE Telling'
  <2>1. UNCHANGED <<up, handed, told, current, disk, lock>> /\ up # "down"
    BY <1>5 DEF StartRetryTurn, history, ghosts
  <2>2. CASE UNCHANGED <<active, turn>>
    BY <2>1, <2>2, TellingFrame
  <2>3. CASE ~active /\ up = "up" /\ turn' = Spawned(caller[c].text, current, caller[c].attempt)
    <3>1. caller[c].text \in Texts \cup {NoText}
      BY <1>0 DEF TypeOK, Callers
    <3> QED BY <1>2, <2>1, <2>3, <3>1
  <2> QED BY <1>5, <2>2, <2>3 DEF StartRetryTurn
<1>6. CASE ResumeQueue("user")
  <2>1. lock'.op = "claim" /\ UNCHANGED <<up, handed, told, current, disk, turn>>
    BY <1>6 DEF ResumeQueue, Claiming, Free, history, ghosts
  <2> QED BY <2>1, TellingFrame
<1> QED BY <1>1, <1>3, <1>4, <1>5, <1>6 DEF Input, Retry

(* The turn's own end: told by this step or before it.                     *)
LEMMA TellingEnds ==
    ASSUME Known, Telling, NEW outcome \in Outcomes, End(outcome), turn.stage # "none",
           UNCHANGED <<up, handed, current, disk, lock>>, told \subseteq told',
           up = "up" /\ turn.text \in Messages => turn.text \in told',
           outcome # "unresolved" => up = "up"
    PROVE  Telling'
<1>1. /\ turn'.text = turn.text /\ turn'.result = turn.result /\ turn'.outcome = outcome
  BY KnownType, EndShape
<1>2. UntoldIsFound'
  BY <1>1 DEF Telling, UntoldIsFound, Untold, OnFile
<1>3. TurnIsTold'
  BY <1>1 DEF Telling, TurnIsTold
<1>4. lock.op # "reserved"
  BY DEF Known, OneOwner
<1>5. outcome # "unresolved" => \A m \in Messages : ~Untold(m)'
  BY <1>1 DEF Telling, UntoldIsFound, Untold
<1>6. NextIsAfter'
  BY <1>1, <1>4, <1>5 DEF NextIsAfter
<1> QED BY <1>2, <1>3, <1>6 DEF Telling

LEMMA TellingSettles ==
    ASSUME Known, Telling, Settle
    PROVE  Telling'
<1>0. /\ up # "down" /\ turn.stage = "ended" /\ turn' = NoTurn /\ lock'.op # "reserved"
      /\ UNCHANGED <<up, handed, told>>
  <2>1. CASE SettleSaved
    BY <2>1 DEF SettleSaved, Settling, Claiming, Free, history, ghosts
  <2>2. CASE SettleWriteFails
    BY <2>2, LockFields DEF SettleWriteFails, Settling, history, ghosts
  <2> QED BY <2>1, <2>2 DEF Settle
<1>1. \A m \in Messages : Untold(m) => OnFile(m) /\ current = m /\ up = "stopping"
                                       /\ turn.outcome = "unresolved"
  <2> SUFFICES ASSUME NEW m \in Messages, Untold(m)
               PROVE  OnFile(m) /\ current = m /\ up = "stopping" /\ turn.outcome = "unresolved"
    OBVIOUS
  <2>1. OnFile(m) /\ current = m /\ (turn.text = m \/ up = "stopping") /\ turn.outcome = "unresolved"
    BY <1>0 DEF Telling, UntoldIsFound, NextIsAfter
  <2>2. up # "stopping" => up = "up"
    BY <1>0, KnownType DEF TypeOK
  <2> QED BY <1>0, <2>1, <2>2 DEF Telling, TurnIsTold, Untold
<1>2. \A m \in Messages : Untold(m) => OnFile(m)' /\ current' = m
  <2> SUFFICES ASSUME NEW m \in Messages, Untold(m) PROVE OnFile(m)' /\ current' = m
    OBVIOUS
  <2>1. OnFile(m) /\ current = m /\ ~Resolved
    BY <1>1 DEF Resolved
  <2>2. current' = current
    BY <2>1 DEF Settle, SettleSaved, SettleWriteFails
  <2>3. queue.items = disk.items
    BY <1>0 DEF Known, IInv, StoreOK, MemoryMatchesDisk
  <2>4. \A it \in disk.items : it.id = m /\ it.phase = "dispatched" => it \in SettledQueue.items
    BY <2>1, <2>3 DEF SettledQueue, MarkDone, Trim, ReceiptOnly
  <2>5. disk' = disk \/ disk' = SettledQueue
    BY DEF Settle, SettleSaved, SettleWriteFails
  <2> QED BY <2>1, <2>2, <2>4, <2>5 DEF OnFile
<1>3. UntoldIsFound'
  BY <1>0, <1>1, <1>2 DEF UntoldIsFound, Untold
<1> QED BY <1>0, <1>3, TurnFields DEF Telling, TurnIsTold, NextIsAfter

LEMMA TellingTurn == Known /\ Telling /\ Turn => Telling'
<1> SUFFICES ASSUME Known, Telling, Turn PROVE Telling'
  OBVIOUS
<1>0. TypeOK
  BY KnownType
<1>1. CASE TurnBegin \/ TurnLaunch
  <2>1. /\ turn'.text = turn.text /\ turn'.result = turn.result /\ turn'.outcome = turn.outcome
        /\ turn'.stage # "ended"
    BY <1>0, <1>1 DEF TurnBegin, TurnLaunch, TypeOK, Turns
  <2> QED BY <1>1, <2>1, TellingFrame DEF TurnBegin, TurnLaunch, history, ghosts
<1>2. CASE TurnLaunchFails \/ TurnInterrupted
  <2>1. /\ End("unresolved") /\ "unresolved" \in Outcomes /\ turn.stage # "none"
        /\ UNCHANGED <<up, handed, current, disk, lock>>
    BY <1>2 DEF TurnLaunchFails, TurnInterrupted, ghosts, Outcomes
  <2>2. told \subseteq told' /\ (up = "up" /\ turn.text \in Messages => turn.text \in told')
    BY <1>2 DEF TurnLaunchFails, TurnInterrupted, ToldOf
  <2> QED BY <2>1, <2>2, TellingEnds
<1>3. CASE TurnResult
  <2>1. /\ turn'.text = turn.text /\ turn'.outcome = turn.outcome /\ turn'.stage = turn.stage
    BY <1>0, <1>3 DEF TurnResult, TypeOK, Turns
  <2>2. told' = ToldOf(turn.text) /\ UNCHANGED <<up, handed, current, disk, lock>>
    BY <1>3 DEF TurnResult
  <2>3. told \subseteq told' /\ (turn.text \in Messages => turn.text \in told')
    BY <2>2 DEF ToldOf
  <2> QED BY <2>1, <2>2, <2>3 DEF Telling, UntoldIsFound, TurnIsTold, NextIsAfter, Untold, OnFile
<1>4. CASE TurnEnds
  <2>1. /\ \E outcome \in Outcomes : End(outcome)
        /\ up = "up" /\ turn.stage # "none" /\ UNCHANGED <<up, handed, current, disk, lock>>
    BY <1>4 DEF TurnEnds, ghosts, Outcomes
  <2>2. told \subseteq told' /\ (turn.text \in Messages => turn.text \in told')
    BY <1>4 DEF TurnEnds, ToldOf, Telling, TurnIsTold
  <2> QED BY <2>1, <2>2, TellingEnds
<1> QED BY <1>1, <1>2, <1>3, <1>4, TellingSettles DEF Turn

LEMMA TellingHost == Known /\ Telling /\ Host => Telling'
<1> SUFFICES ASSUME Known, Telling, Host PROVE Telling'
  OBVIOUS
<1>1. CASE Stop
  <2>1. up' = "stopping" /\ UNCHANGED <<handed, told, current, disk, turn, lock>> /\ up # "down"
    BY <1>1 DEF Stop, history, ghosts
  <2> QED BY <2>1 DEF Telling, UntoldIsFound, TurnIsTold, NextIsAfter, Untold, OnFile
<1>2. CASE ProcessEnds
  <2>1. /\ up' = "down" /\ UNCHANGED <<handed, told, disk>> /\ turn' = NoTurn /\ lock'.op = "free"
    BY <1>2, LockFields DEF ProcessEnds, history, ghosts
  <2> QED BY <2>1, TurnFields DEF Telling, UntoldIsFound, TurnIsTold, NextIsAfter, Untold, OnFile
<1>3. CASE Restart \/ RestartFails
  <2>1. /\ told' = told \cup UnknownIds(disk.items) /\ UNCHANGED <<handed, turn, lock>>
        /\ up = "down"
    BY <1>3 DEF Restart, RestartFails, ghosts, volatile
  <2>2. turn.stage = "none" /\ turn.text = NoText /\ turn.result = "none"
    BY <2>1, TurnFields DEF Known, IInv, TurnsOK, DownIsEmpty
  <2>3. \A m \in Messages : ~Untold(m)'
    BY <2>1 DEF Telling, UntoldIsFound, Untold, OnFile, UnknownIds
  <2> QED BY <2>1, <2>2, <2>3 DEF Telling, UntoldIsFound, TurnIsTold, NextIsAfter
<1> QED BY <1>1, <1>2, <1>3 DEF Host

LEMMA TellingNext == Known /\ Telling /\ [Next]_vars => Telling'
<1>1. Known /\ Telling /\ UNCHANGED vars => Telling'
  BY TellingFrame DEF vars, volatile, history, ghosts
<1> QED BY <1>1, TellingAdmit, TellingClaim, TellingRequests, TellingTurn, TellingHost DEF Next

(* Whatever was accepted is saved, is the running turn, or its end was     *)
(* told, for every order of turns, interrupts, stops, crashes and trims    *)
(* (claude_p.go runTurn, claude_queue.go loadMessageQueue).                *)
THEOREM NothingIsLost == Spec => []NothingLostSilently
<1>1. Init => Telling
  BY LockFields, TurnFields DEF Init, Telling, UntoldIsFound, TurnIsTold, NextIsAfter, Untold
<1>2. Known /\ Telling => NothingLostSilently
  <2> SUFFICES ASSUME Known, Telling, up = "up", NEW m \in Messages, Accepted(m) \/ handed[m] # 0,
                      m \notin {it.id : it \in Queued(queue)}, turn.text # m
               PROVE  m \in told
    BY DEF NothingLostSilently
  <2>1. queue.items = disk.items
    BY DEF Known, IInv, StoreOK, MemoryMatchesDisk
  <2>2. handed[m] # 0
    BY <2>1 DEF Known, IInv, SendersOK, AcceptedIsDurable, StoreOK, QueuedIffUnclaimed, Ids, Queued
  <2> QED BY <2>2 DEF Telling, UntoldIsFound, Untold
<1> QED BY <1>1, <1>2, TellingNext, Knowledge, PTL DEF Spec

-----------------------------------------------------------------------------
(* A resting runner waits for somebody, or has nothing to do.              *)

(* A failed input is kept, and nothing runs: the queue is paused, and an   *)
(* admission that is under way will keep it so.                            *)
FailedPauses ==
    turn.stage = "none" /\ retry.input # NoText
        => queue.paused /\ (lock.op = "admit" => lock.paused)

AnsweredKeepsNothing ==
    turn.outcome = "answered" => turn.stage = "ended" /\ retry.input = NoText

(* Whoever holds the lock to claim will look at the queue again.           *)
NothingWaits ==
    up = "up" /\ turn.stage = "none" /\ lock.op \in {"free", "admit"} /\ ~queue.paused
        => Queued(queue) = {}

Rest == FailedPauses /\ AnsweredKeepsNothing /\ NothingWaits

LEMMA RestFrame ==
    ASSUME Rest, UNCHANGED <<queue, lock>>, retry'.input \in {retry.input, NoText},
           up' = "up" => up = "up", turn'.stage = "none" => turn.stage = "none",
           turn'.outcome = "answered" => turn.outcome = "answered" /\ turn'.stage = turn.stage
    PROVE  Rest'
  BY DEF Rest, FailedPauses, AnsweredKeepsNothing, NothingWaits, Queued

(* While a turn runs only its answer matters.                              *)
LEMMA RestRunning ==
    ASSUME turn'.stage # "none",
           turn'.outcome = "answered" => turn'.stage = "ended" /\ retry'.input = NoText
    PROVE  Rest'
  BY DEF Rest, FailedPauses, AnsweredKeepsNothing, NothingWaits

LEMMA RetryInputs ==
    ASSUME TypeOK
    PROVE  /\ Clear.input = NoText /\ RetryInterrupt.input = retry.input
           /\ RetryClosed.input = retry.input /\ RetryStopped.input = retry.input
  BY DEF TypeOK, Retries, Clear, RetryInterrupt, RetryClosed, RetryStopped

LEMMA RestAdmit == Known /\ Rest /\ Admit => Rest'
<1> SUFFICES ASSUME Known, Rest, Admit PROVE Rest'
  OBVIOUS
<1>1. ASSUME NEW m \in Messages, AdmitRefused(m) \/ RepeatRefused(m) \/ AdmitDuplicate(m) PROVE Rest'
  BY <1>1, RestFrame DEF AdmitRefused, RepeatRefused, AdmitDuplicate, volatile
<1>2. ASSUME NEW m \in Messages, AdmitBegin(m) PROVE Rest'
  <2>1. /\ lock.op = "free" /\ lock'.op = "admit"
        /\ lock'.paused = (queue.paused /\ PauseHoldsWork)
        /\ UNCHANGED <<up, queue, turn, retry>>
    BY <1>2, KnownType DEF AdmitBegin, MaySubmit, Free, TypeOK, Queues
  <2> QED BY <2>1 DEF Rest, FailedPauses, AnsweredKeepsNothing, NothingWaits, Queued, PauseHoldsWork
<1>3. CASE AdmitCommit
  <2>1. /\ lock.op = "admit" /\ lock'.op = "claim" /\ queue'.paused = lock.paused
        /\ UNCHANGED <<up, turn, retry>>
    BY <1>3 DEF AdmitCommit, Written, Saved, Claiming, Free
  <2> QED BY <2>1 DEF Rest, FailedPauses, AnsweredKeepsNothing, NothingWaits
<1>4. CASE AdmitWriteFails
  <2>1. lock.op = "admit" /\ lock'.op = "free" /\ UNCHANGED <<up, queue, turn, retry>>
    BY <1>4, LockFields DEF AdmitWriteFails
  <2> QED BY <2>1 DEF Rest, FailedPauses, AnsweredKeepsNothing, NothingWaits, Queued
<1> QED BY <1>1, <1>2, <1>3, <1>4 DEF Admit

LEMMA RestClaim == Known /\ Rest /\ Claim => Rest'
<1> SUFFICES ASSUME Known, Rest, Claim PROVE Rest'
  OBVIOUS
<1>1. CASE ClaimRefused
  <2>1. /\ lock.op = "claim" /\ lock'.op = "free" /\ UNCHANGED <<up, queue, turn, retry>>
        /\ active \/ up # "up" \/ queue.paused
    BY <1>1, LockFields DEF ClaimRefused
  <2>2. active => turn.stage # "none"
    BY <2>1 DEF Known, OneOwner
  <2> QED BY <2>1, <2>2 DEF Rest, FailedPauses, AnsweredKeepsNothing, NothingWaits
<1>2. CASE ClaimReserve
  <2>1. lock'.op = "reserved" /\ UNCHANGED <<queue, turn, retry>>
    BY <1>2, KnownType DEF ClaimReserve, TypeOK, Locks
  <2> QED BY <2>1 DEF Rest, FailedPauses, AnsweredKeepsNothing, NothingWaits
<1>3. CASE ClaimNothing
  <2>1. lock'.op = "free" /\ Queued(queue)' = {} /\ UNCHANGED <<queue, turn, retry>>
    BY <1>3, LockFields DEF ClaimNothing, Queued
  <2> QED BY <2>1 DEF Rest, FailedPauses, AnsweredKeepsNothing, NothingWaits
<1>4. CASE ClaimCommit
  <2>1. \E it : turn' = Spawned(it.id, it.id, 0)
    BY <1>4 DEF ClaimCommit
  <2> QED BY <2>1, TurnFields, RestRunning
<1>5. CASE ClaimWriteFails
  <2>1. lock'.op = "free" /\ queue'.paused /\ UNCHANGED <<turn, retry>>
    BY <1>5, LockFields, KnownType DEF ClaimWriteFails, TypeOK, Queues
  <2> QED BY <2>1 DEF Rest, FailedPauses, AnsweredKeepsNothing, NothingWaits
<1> QED BY <1>1, <1>2, <1>3, <1>4, <1>5 DEF Claim

LEMMA RestRequests == Known /\ Rest /\ (Input \/ Retry) => Rest'
<1> SUFFICES ASSUME Known, Rest, Input \/ Retry PROVE Rest'
  OBVIOUS
<1>0. TypeOK
  BY KnownType
<1>1. CASE Interrupt \/ Keystroke
  <2>1. turn'.stage = turn.stage /\ turn'.outcome = turn.outcome
    BY <1>0, <1>1 DEF Interrupt, Keystroke, TypeOK, Turns
  <2> QED BY <1>0, <1>1, <2>1, RetryInputs, RestFrame DEF Interrupt, Keystroke
<1>2. CASE \E y \in RawTexts : Enter(y)
  <2>1. \E y : turn' = Spawned(y, NoText, 0)
    BY <1>2 DEF Enter
  <2> QED BY <2>1, TurnFields, RestRunning
<1>3. CASE RetryRequest \/ RunNow \/ RetryStop \/ TimerFires
  <2>1. retry'.input = retry.input
    <3>1. CASE RunNow
      BY <1>0, <3>1 DEF RunNow, TypeOK, Retries
    <3> QED BY <1>0, <1>3, <3>1, RetryInputs DEF RetryRequest, RetryStop, TimerFires, TypeOK, Retries
  <2>2. UNCHANGED <<up, queue, lock, turn>>
    BY <1>3 DEF RetryRequest, RunNow, RetryStop, TimerFires
  <2> QED BY <2>1, <2>2, RestFrame
<1>4. ASSUME NEW c \in {"timer", "user"}, StartRetryTurn(c) PROVE Rest'
  <2>1. CASE UNCHANGED <<active, turn>>
    BY <1>4, <2>1, RestFrame DEF StartRetryTurn
  <2>2. CASE turn' = Spawned(caller[c].text, current, caller[c].attempt)
    BY <2>2, TurnFields, RestRunning
  <2> QED BY <1>4, <2>1, <2>2 DEF StartRetryTurn
<1>5. CASE ResumeQueue("user")
  <2>1. lock'.op = "claim" /\ UNCHANGED <<queue, turn, retry>>
    BY <1>5 DEF ResumeQueue, Claiming, Free
  <2> QED BY <2>1 DEF Rest, FailedPauses, AnsweredKeepsNothing, NothingWaits
<1> QED BY <1>1, <1>2, <1>3, <1>4, <1>5 DEF Input, Retry

LEMMA RestTurn == Known /\ Rest /\ Turn => Rest'
<1> SUFFICES ASSUME Known, Rest, Turn PROVE Rest'
  OBVIOUS
<1>0. TypeOK
  BY KnownType
<1>1. CASE TurnBegin \/ TurnLaunch \/ TurnResult
  <2>1. /\ turn.stage \in {"spawned", "ready", "streaming"} /\ turn'.stage # "none"
        /\ turn'.outcome = turn.outcome
    BY <1>0, <1>1 DEF TurnBegin, TurnLaunch, TurnResult, TypeOK, Turns
  <2>2. turn.outcome # "answered"
    BY <2>1 DEF Rest, AnsweredKeepsNothing
  <2> QED BY <2>1, <2>2, RestRunning
<1>2. CASE TurnLaunchFails \/ TurnInterrupted \/ TurnEnds
  <2>1. \E outcome \in Outcomes : /\ End(outcome)
                                  /\ outcome = "answered" => retry' = RetrySucceeded
    BY <1>2 DEF TurnLaunchFails, TurnInterrupted, TurnEnds, Outcomes
  <2>2. PICK outcome \in Outcomes : /\ End(outcome)
                                    /\ outcome = "answered" => retry' = RetrySucceeded
    BY <2>1
  <2>3. turn'.stage = "ended" /\ turn'.outcome = outcome
    BY <1>0, <2>2, EndShape
  <2>4. RetrySucceeded.input = NoText
    BY DEF RetrySucceeded, Clear
  <2>5. turn'.stage # "none" /\ (turn'.outcome = "answered" => retry'.input = NoText)
    BY <2>2, <2>3, <2>4
  <2> QED BY <2>3, <2>5, RestRunning
<1>3. CASE SettleSaved
  <2>1. /\ turn' = NoTurn /\ retry' = retry /\ queue'.paused = (turn.outcome # "answered")
        /\ lock'.op = IF turn.outcome = "answered" THEN "claim" ELSE "free"
    BY <1>3 DEF SettleSaved, SettledQueue, Claiming, Free
  <2> QED BY <2>1, TurnFields DEF Rest, FailedPauses, AnsweredKeepsNothing, NothingWaits
<1>4. CASE SettleWriteFails
  <2>1. turn' = NoTurn /\ queue'.paused /\ lock'.op = "free"
    BY <1>0, <1>4, LockFields DEF SettleWriteFails, Settling, TypeOK, Queues
  <2> QED BY <2>1, TurnFields DEF Rest, FailedPauses, AnsweredKeepsNothing, NothingWaits
<1> QED BY <1>1, <1>2, <1>3, <1>4 DEF Turn, Settle

LEMMA RestHost == Known /\ Rest /\ Host => Rest'
<1> SUFFICES ASSUME Known, Rest, Host PROVE Rest'
  OBVIOUS
<1>0. TypeOK
  BY KnownType
<1>1. CASE Stop
  BY <1>0, <1>1, RetryInputs, RestFrame DEF Stop
<1>2. CASE ProcessEnds
  <2>1. turn' = NoTurn /\ retry' = Clear /\ up' = "down"
    BY <1>2 DEF ProcessEnds
  <2> QED BY <1>0, <2>1, TurnFields, RetryInputs
       DEF Rest, FailedPauses, AnsweredKeepsNothing, NothingWaits
<1>3. CASE Restart
  <2>1. turn' = NoTurn /\ retry' = Clear /\ queue' = Loaded
    BY <1>3 DEF Restart, Known, IInv, TurnsOK, DownIsEmpty
  <2>2. Loaded.items = disk.items /\ (~Loaded.paused => Queued(disk) = {})
    BY <1>0 DEF Loaded, TypeOK, Queues
  <2>3. ~queue'.paused => Queued(queue)' = {}
    BY <2>1, <2>2 DEF Queued
  <2> QED BY <1>0, <2>1, <2>3, TurnFields, RetryInputs
       DEF Rest, FailedPauses, AnsweredKeepsNothing, NothingWaits
<1>4. CASE RestartFails
  BY <1>4, RestFrame DEF RestartFails, volatile
<1> QED BY <1>1, <1>2, <1>3, <1>4 DEF Host

LEMMA RestNext == Known /\ Rest /\ [Next]_vars => Rest'
<1>1. Known /\ Rest /\ UNCHANGED vars => Rest'
  BY RestFrame DEF vars, volatile
<1> QED BY <1>1, RestAdmit, RestClaim, RestRequests, RestTurn, RestHost DEF Next

(* The resting runner, whatever was typed, interrupted, resumed or admitted *)
(* while its last turn ended.                                              *)
THEOREM Resting == Spec => []Rest
<1>1. Init => Rest
  BY TurnFields DEF Init, Rest, FailedPauses, AnsweredKeepsNothing, NothingWaits, Clear, Gone, Queued
<1> QED BY <1>1, RestNext, Knowledge, PTL DEF Spec

(* No later message overtakes a failed one by itself, also not when it was *)
(* being admitted while the failure settled (claude_queue.go               *)
(* settleClaudeTurn, admitClaudeMessage).                                  *)
THEOREM FailedInputHolds == Spec => []FailedInputPausesQueue
<1>1. Known /\ Rest => FailedInputPausesQueue
  BY DEF Known, OneOwner, Rest, FailedPauses, FailedInputPausesQueue
<1> QED BY <1>1, Resting, Knowledge, PTL

(* No wakeup is lost: what is saved while the last turn settles is taken   *)
(* by the settle or by the admission itself (claude_queue.go               *)
(* claimQueuedTurnLocked).                                                 *)
THEOREM NoneIsStranded == Spec => []NoStrandedMessage
<1>1. Known /\ Rest => NoStrandedMessage
  BY LockFields DEF Known, OneOwner, Rest, NothingWaits, NoStrandedMessage
<1> QED BY <1>1, Resting, Knowledge, PTL

-----------------------------------------------------------------------------
(* What the boundary "runner" is worth.                                    *)

(* A sender waits for the goroutine that holds the lock, and one that will *)
(* be told "runner" is the only one waiting in a queue that is not paused: *)
(* nothing but a text of the composer can have come before it.             *)
ServesRunner == lock.op # "free" /\ lock.msg # NoText /\ lock.boundary = "runner"

NextInLine ==
    ServesRunner => /\ \A it \in Queued(queue) : it.id = lock.msg
                    /\ lock.op = "admit" => ~lock.paused
                    /\ lock.op = "claim" => ~queue.paused
                    /\ lock.op # "reserved" /\ turn.stage # "none" => turn.text \in RawTexts

PendingIsServed == \A m \in Messages : reply[m] = "pending" => lock.op # "free" /\ lock.msg = m

Served == NextInLine /\ PendingIsServed

LEMMA ServedFrame ==
    ASSUME Served, UNCHANGED <<queue, lock, reply>>,
           turn'.stage # "none" => \/ turn'.text \in RawTexts
                                   \/ turn.stage # "none" /\ turn'.text = turn.text
    PROVE  Served'
  BY DEF Served, NextInLine, PendingIsServed, ServesRunner, Queued

(* A lock that is given back, or taken for nobody in particular.           *)
LEMMA ServedUnserved ==
    ASSUME Served, lock'.op = "free" \/ lock'.msg = NoText,
           \A m \in Messages : reply'[m] # "pending"
    PROVE  Served'
  BY DEF Served, NextInLine, PendingIsServed, ServesRunner

LEMMA NobodyPending ==
    ASSUME Served, lock.op = "free"
    PROVE  \A m \in Messages : reply[m] # "pending"
  BY DEF Served, PendingIsServed

(* Who held the lock is answered, and nobody else was waiting.             *)
LEMMA AnsweredSender ==
    ASSUME TypeOK, Served, lock.op # "free", NEW answer \in Boundaries,
           reply' = Told(lock.msg, answer)
    PROVE  \A m \in Messages : reply'[m] # "pending"
<1>1. lock.msg \in Messages \cup {NoText} /\ reply \in [Messages -> Replies]
  BY DEF TypeOK, Locks
<1>2. \A m \in Messages : reply[m] = "pending" => m = lock.msg
  BY DEF Served, PendingIsServed
<1>3. answer # "pending"
  BY DEF Boundaries
<1> QED BY <1>1, <1>2, <1>3, NoTextAssumption DEF Told

LEMMA ServedAdmit == Known /\ Rest /\ Served /\ Admit => Served'
<1> SUFFICES ASSUME Known, Rest, Served, Admit PROVE Served'
  OBVIOUS
<1>0. TypeOK
  BY KnownType
<1>1. ASSUME NEW m \in Messages, AdmitRefused(m) \/ RepeatRefused(m) \/ AdmitDuplicate(m) PROVE Served'
  <2>1. lock.op = "free" /\ lock' = lock
    BY <1>1 DEF AdmitRefused, RepeatRefused, AdmitDuplicate, MaySubmit, Free, volatile
  <2>2. PICK said : said # "pending" /\ reply' = [reply EXCEPT ![m] = said]
    <3>1. CASE AdmitRefused(m)
      BY <3>1 DEF AdmitRefused
    <3>2. CASE AdmitDuplicate(m)
      <4>1. PICK it \in queue.items :
                reply' = [reply EXCEPT ![m] = IF it.phase = "queued" THEN "queue" ELSE it.boundary]
        BY <3>2 DEF AdmitDuplicate
      <4>2. it.boundary \in Boundaries
        BY <1>0, <4>1 DEF TypeOK, Queues, Items
      <4> QED BY <4>1, <4>2 DEF Boundaries
    <3>3. CASE RepeatRefused(m)
      BY <3>3 DEF RepeatRefused
    <3> QED BY <1>1, <3>1, <3>2, <3>3
  <2>3. \A x \in Messages : reply'[x] # "pending"
    BY <1>0, <2>1, <2>2, NobodyPending DEF TypeOK
  <2> QED BY <2>1, <2>3, ServedUnserved
<1>2. ASSUME NEW m \in Messages, AdmitBegin(m) PROVE Served'
  <2>1. /\ lock = Free /\ lock.op = "free" /\ up = "up"
        /\ lock'.msg = m /\ lock'.op = "admit"
        /\ lock'.paused = (queue.paused /\ PauseHoldsWork)
        /\ lock'.boundary = BoundaryFor(queue.paused /\ PauseHoldsWork)
        /\ reply' = [reply EXCEPT ![m] = "pending"] /\ UNCHANGED <<queue, turn>>
    BY <1>2 DEF AdmitBegin, MaySubmit, Free
  <2>2. \A x \in Messages : reply'[x] = "pending" => x = m
    BY <1>0, <2>1, NobodyPending DEF TypeOK
  <2>3. ASSUME lock'.boundary = "runner"
        PROVE  turn.stage = "none" /\ ~lock'.paused /\ Queued(queue) = {}
    <3>1. ~active /\ ~(queue.paused /\ PauseHoldsWork)
      BY <2>1, <2>3 DEF BoundaryFor
    <3>2. turn.stage = "none"
      BY <3>1 DEF Known, OneOwner
    <3>3. CASE queue.paused
      BY <2>1, <3>1, <3>2, <3>3 DEF PauseHoldsWork
    <3>4. CASE ~queue.paused
      BY <2>1, <3>2, <3>4 DEF Rest, NothingWaits
    <3> QED BY <3>3, <3>4
  <2> QED BY <2>1, <2>2, <2>3 DEF Served, NextInLine, PendingIsServed, ServesRunner, Queued
<1>3. CASE AdmitCommit
  <2>1. /\ lock.op = "admit" /\ queue' = Saved /\ UNCHANGED <<turn, reply>>
        /\ lock'.op = "claim" /\ lock'.msg = lock.msg /\ lock'.boundary = lock.boundary
    BY <1>3 DEF AdmitCommit, Written, Claiming, Free
  <2>2. queue'.paused = lock.paused
    BY <2>1 DEF Saved
  <2>3. \A it \in queue'.items :
            it \in queue.items \/ (it.id = lock.msg /\ it.phase = "queued")
    BY <2>1, TrimKeepsQueued DEF Saved
  <2>4. \A it \in Queued(queue)' : it \in Queued(queue) \/ it.id = lock.msg
    BY <2>3 DEF Queued
  <2>5. NextInLine'
    BY <2>1, <2>2, <2>4 DEF Served, NextInLine, ServesRunner
  <2> QED BY <2>1, <2>5 DEF Served, PendingIsServed
<1>4. CASE AdmitWriteFails
  <2>1. lock.op = "admit" /\ lock'.op = "free" /\ reply' = [reply EXCEPT ![lock.msg] = "refused"]
    BY <1>4, LockFields DEF AdmitWriteFails
  <2>2. \A m \in Messages : reply'[m] # "pending"
    BY <1>0, <2>1 DEF TypeOK, Served, PendingIsServed
  <2> QED BY <2>1, <2>2, ServedUnserved
<1> QED BY <1>1, <1>2, <1>3, <1>4 DEF Admit

LEMMA ServedClaim == Known /\ Served /\ Claim => Served'
<1> SUFFICES ASSUME Known, Served, Claim PROVE Served'
  OBVIOUS
<1>0. TypeOK /\ lock.boundary \in Boundaries
  BY KnownType DEF TypeOK, Locks
<1>1. CASE ClaimReserve
  <2>1. /\ lock.op = "claim" /\ lock'.op = "reserved" /\ lock'.msg = lock.msg
        /\ lock'.boundary = lock.boundary /\ UNCHANGED <<queue, reply>>
    BY <1>0, <1>1 DEF ClaimReserve, TypeOK, Locks
  <2> QED BY <2>1 DEF Served, NextInLine, PendingIsServed, ServesRunner, Queued
<1>2. CASE ~ClaimReserve
  <2>1. /\ lock.op # "free" /\ lock'.op = "free"
        /\ \E answer \in Boundaries : reply' = Told(lock.msg, answer)
    BY <1>0, <1>2, LockFields
    DEF Claim, ClaimRefused, ClaimNothing, ClaimCommit, ClaimWriteFails, Boundaries
  <2> QED BY <1>0, <2>1, AnsweredSender, ServedUnserved
<1> QED BY <1>1, <1>2

LEMMA ServedRequests == Known /\ Served /\ (Input \/ Retry) => Served'
<1> SUFFICES ASSUME Known, Served, Input \/ Retry PROVE Served'
  OBVIOUS
<1>0. TypeOK
  BY KnownType
<1>1. CASE Interrupt \/ Keystroke
  <2>1. turn'.stage = turn.stage /\ turn'.text = turn.text
    BY <1>0, <1>1 DEF Interrupt, Keystroke, TypeOK, Turns
  <2> QED BY <1>1, <2>1, ServedFrame DEF Interrupt, Keystroke
<1>2. ASSUME NEW y \in RawTexts, Enter(y) PROVE Served'
  BY <1>2, TurnFields, ServedFrame DEF Enter
<1>3. CASE RetryRequest \/ RunNow \/ RetryStop \/ TimerFires
  BY <1>3, ServedFrame DEF RetryRequest, RunNow, RetryStop, TimerFires
<1>4. ASSUME NEW c \in {"timer", "user"}, StartRetryTurn(c) PROVE Served'
  BY <1>4, LockFields, NobodyPending, ServedUnserved DEF StartRetryTurn
<1>5. CASE ResumeQueue("user")
  <2>1. lock.op = "free" /\ lock'.msg = NoText /\ reply' = reply
    BY <1>5 DEF ResumeQueue, Claiming, Free
  <2> QED BY <2>1, NobodyPending, ServedUnserved
<1> QED BY <1>1, <1>2, <1>3, <1>4, <1>5 DEF Input, Retry

LEMMA ServedTurn == Known /\ Served /\ Turn => Served'
<1> SUFFICES ASSUME Known, Served, Turn PROVE Served'
  OBVIOUS
<1>0. TypeOK
  BY KnownType
<1>1. CASE TurnBegin \/ TurnLaunch \/ TurnResult
  <2>1. turn.stage # "none" /\ turn'.text = turn.text
    BY <1>0, <1>1 DEF TurnBegin, TurnLaunch, TurnResult, TypeOK, Turns
  <2> QED BY <1>1, <2>1, ServedFrame DEF TurnBegin, TurnLaunch, TurnResult
<1>2. CASE TurnLaunchFails \/ TurnInterrupted \/ TurnEnds
  <2>1. \E outcome \in Outcomes : End(outcome)
    BY <1>2 DEF TurnLaunchFails, TurnInterrupted, TurnEnds, Outcomes
  <2>2. turn.stage # "none" /\ turn'.text = turn.text
    BY <1>0, <1>2, <2>1, EndShape DEF TurnLaunchFails, TurnInterrupted, TurnEnds
  <2> QED BY <1>2, <2>2, ServedFrame DEF TurnLaunchFails, TurnInterrupted, TurnEnds
<1>3. CASE Settle
  <2>1. lock = Free /\ reply' = reply
    BY <1>3 DEF Settle, SettleSaved, SettleWriteFails, Settling
  <2>2. lock' \in {Free, Claiming(NoText, "runner", FALSE)}
    BY <1>3, <2>1 DEF Settle, SettleSaved, SettleWriteFails
  <2>3. Free.op = "free" /\ Claiming(NoText, "runner", FALSE).msg = NoText
    BY DEF Free, Claiming
  <2>4. lock.op = "free" /\ (lock'.op = "free" \/ lock'.msg = NoText)
    BY <2>1, <2>2, <2>3
  <2> QED BY <2>1, <2>4, NobodyPending, ServedUnserved
<1> QED BY <1>1, <1>2, <1>3 DEF Turn

LEMMA ServedHost == Known /\ Served /\ Host => Served'
<1> SUFFICES ASSUME Known, Served, Host PROVE Served'
  OBVIOUS
<1>1. CASE Stop \/ RestartFails
  BY <1>1, ServedFrame DEF Stop, RestartFails, volatile
<1>2. CASE ProcessEnds
  <2>1. lock'.op = "free" /\ \A m \in Messages : reply'[m] # "pending"
    BY <1>2, LockFields DEF ProcessEnds
  <2> QED BY <2>1, ServedUnserved
<1>3. CASE Restart
  <2>1. lock.op = "free" /\ UNCHANGED <<lock, reply>>
    BY <1>3, LockFields DEF Restart, Known, IInv, TurnsOK, DownIsEmpty
  <2> QED BY <2>1, NobodyPending, ServedUnserved
<1> QED BY <1>1, <1>2, <1>3 DEF Host

LEMMA ServedNext == Known /\ Rest /\ Served /\ [Next]_vars => Served'
<1>1. Served /\ UNCHANGED vars => Served'
  BY ServedFrame DEF vars, volatile
<1> QED BY <1>1, ServedAdmit, ServedClaim, ServedRequests, ServedTurn, ServedHost DEF Next

LEMMA ServedAlways == Spec => []Served
<1>1. Init => Served
  BY LockFields DEF Init, Served, NextInLine, PendingIsServed, ServesRunner
<1> QED BY <1>1, ServedNext, Knowledge, Resting, PTL DEF Spec

(* A sender that is told "runner" and whose message was not dispatched is  *)
(* behind a text of the composer, which runs at that moment.               *)
OvertakenByComposer ==
    \A m \in Messages :
        up' = "up" /\ reply[m] = "pending" /\ reply'[m] = "runner"
            => handed'[m] # 0 \/ turn'.text \in RawTexts

(* Only a claim tells a waiting sender "runner".                           *)
LEMMA ClaimTellsRunner ==
    ASSUME Known, Served, [Next]_vars, up' = "up", NEW m \in Messages,
           reply[m] = "pending", reply'[m] = "runner"
    PROVE  Claim
<1>0. TypeOK
  BY KnownType
<1>1. lock.op # "free"
  BY DEF Served, PendingIsServed
<1>2. ASSUME Admit PROVE FALSE
  <2>1. ~AdmitCommit
    BY DEF AdmitCommit
  <2>2. ~AdmitWriteFails
    BY <1>0 DEF AdmitWriteFails, TypeOK
  <2>3. ASSUME NEW x \in Messages
        PROVE  ~(AdmitRefused(x) \/ RepeatRefused(x) \/ AdmitDuplicate(x) \/ AdmitBegin(x))
    BY <1>1, LockFields DEF AdmitRefused, RepeatRefused, AdmitDuplicate, AdmitBegin, MaySubmit
  <2> QED BY <1>2, <2>1, <2>2, <2>3 DEF Admit
<1>3. ~Input
  BY DEF Input, Interrupt, Keystroke, Enter
<1>4. ~Retry
  BY DEF Retry, RetryRequest, RunNow, RetryStop, TimerFires, StartRetryTurn, ResumeQueue
<1>5. ~Turn
  BY DEF Turn, TurnBegin, TurnLaunch, TurnLaunchFails, TurnResult, TurnInterrupted, TurnEnds,
         Settle, SettleSaved, SettleWriteFails
<1>6. ~Host
  BY DEF Host, Stop, ProcessEnds, Restart, RestartFails
<1>7. ~UNCHANGED vars
  BY DEF vars
<1> QED BY <1>2, <1>3, <1>4, <1>5, <1>6, <1>7 DEF Next

LEMMA OvertakenStep == Known /\ Served /\ [Next]_vars => OvertakenByComposer
<1> SUFFICES ASSUME Known, Served, [Next]_vars, up' = "up", NEW m \in Messages,
                    reply[m] = "pending", reply'[m] = "runner"
             PROVE  handed'[m] # 0 \/ turn'.text \in RawTexts
  BY DEF OvertakenByComposer
<1>0. TypeOK /\ m # NoText
  BY KnownType, NoTextAssumption
<1>1. Claim /\ lock.op # "free" /\ lock.msg = m
  BY ClaimTellsRunner DEF Served, PendingIsServed
<1>2. m \in Ids(disk) \cup Claimed \/ lock.op = "admit"
  BY <1>0, <1>1 DEF Known, IInv, SendersOK, LockServesSender, TypeOK, Locks
<1>3. CASE ClaimRefused
  <2>1. /\ lock.op = "claim" /\ lock.boundary = "runner" /\ up = "up" /\ turn' = turn
        /\ active \/ queue.paused
    BY <1>0, <1>1, <1>3 DEF ClaimRefused, Told, TypeOK
  <2>2. ~queue.paused /\ (turn.stage # "none" => turn.text \in RawTexts)
    BY <1>0, <1>1, <2>1 DEF Served, NextInLine, ServesRunner
  <2>3. turn.stage # "none"
    BY <2>1, <2>2 DEF Known, OneOwner
  <2> QED BY <2>1, <2>2, <2>3
<1>4. CASE ClaimReserve
  BY <1>4 DEF ClaimReserve
<1>5. CASE ClaimNothing
  <2>1. lock.op = "reserved" /\ up # "down" /\ Queued(queue) = {} /\ handed' = handed
    BY <1>5 DEF ClaimNothing, ghosts
  <2>2. queue.items = disk.items
    BY <2>1 DEF Known, IInv, StoreOK, MemoryMatchesDisk
  <2>3. \A it \in disk.items : handed[it.id] # 0
    BY <2>1, <2>2 DEF Known, IInv, StoreOK, QueuedIffUnclaimed, Queued
  <2> QED BY <1>2, <2>1, <2>3 DEF Ids, Claimed
<1>6. CASE ClaimCommit
  <2>1. PICK it : it = Oldest(Queued(queue))
    OBVIOUS
  <2>2. /\ lock.op = "reserved" /\ lock.boundary = "runner" /\ up # "down"
        /\ Queued(queue) # {} /\ handed' = [handed EXCEPT ![it.id] = life]
    BY <1>0, <1>1, <1>6, <2>1 DEF ClaimCommit, Told, TypeOK
  <2>3. it \in Queued(queue)
    BY <1>0, <2>1, <2>2, OldestIsOldest DEF TypeOK, Queues, Queued
  <2>4. it.id = m
    BY <1>0, <1>1, <2>2, <2>3 DEF Served, NextInLine, ServesRunner
  <2>5. life # 0 /\ handed \in [Messages -> Nat]
    BY <1>0 DEF Known, IInv, TypeOK
  <2> QED BY <2>2, <2>4, <2>5
<1>7. CASE ClaimWriteFails
  BY <1>0, <1>1, <1>7 DEF ClaimWriteFails, Told, TypeOK
<1> QED BY <1>1, <1>3, <1>4, <1>5, <1>6, <1>7 DEF Claim

(* The boundary "runner" is untrue only behind the raw composer, which     *)
(* takes mu and not queueMu (claude_p.go handleInput): no retry, crash,    *)
(* failed write or other sender makes it so.                               *)
THEOREM OnlyTheComposerOvertakes == Spec => [][OvertakenByComposer]_vars
  BY OvertakenStep, ServedAlways, Knowledge, PTL DEF Spec

(* Without the composer "runner" says that the message has been dispatched *)
(* (CONTRACT/runner-protocol.md).                                          *)
THEOREM RunnerIsATurnWithoutComposer ==
    ASSUME RawTexts = {}
    PROVE  Spec => RunnerBoundaryIsATurn
<1>1. OvertakenByComposer =>
          \A m \in Messages :
              up' = "up" /\ reply[m] = "pending" /\ reply'[m] = "runner" => handed'[m] # 0
  BY DEF OvertakenByComposer
<1>2. Known /\ Served /\ [Next]_vars =>
          [\A m \in Messages :
              up' = "up" /\ reply[m] = "pending" /\ reply'[m] = "runner" => handed'[m] # 0]_vars
  BY <1>1, OvertakenStep
<1> QED BY <1>2, ServedAlways, Knowledge, PTL DEF Spec, RunnerBoundaryIsATurn
-----------------------------------------------------------------------------
(* An answered message, and who may still hold its text.                   *)

(* A goroutine left the retry controller with the text and has not         *)
(* reached queueMu.                                                        *)
InHand(m) == \E c \in {"timer", "user"} : caller[c].text = m

LetGo(m) == m \in answered /\ turn.text # m /\ retry.input # m /\ ~InHand(m)

AnsweredWasClaimed == \A m \in answered : handed[m] # 0
SuccessIsAnswered == turn.result = "success" => {turn.text} \cap Messages \subseteq answered
SuccessKeepsNothing == turn.result = "success" /\ turn.stage = "ended" => retry.input = NoText
SuccessIsATurn == turn.result = "success" => turn.stage \in {"streaming", "ended"}

Answering == AnsweredWasClaimed /\ SuccessIsAnswered /\ SuccessKeepsNothing /\ SuccessIsATurn

LEMMA AnsweringFrame ==
    ASSUME Answering, answered' = answered, \A m \in answered : handed'[m] # 0,
           turn'.result = "success" => /\ turn.result = "success" /\ turn'.text = turn.text
                                       /\ turn'.stage = turn.stage
                                       /\ retry'.input \in {retry.input, NoText}
    PROVE  Answering'
  BY DEF Answering, AnsweredWasClaimed, SuccessIsAnswered, SuccessKeepsNothing, SuccessIsATurn

(* A turn ends, or ends in a success that clears the retry controller.     *)
LEMMA AnsweringEnds ==
    ASSUME Answering, UNCHANGED <<handed, answered>>, turn'.text = turn.text,
           turn'.result = turn.result, turn'.stage = "ended",
           turn.result = "success" => retry'.input = NoText
    PROVE  Answering'
  BY DEF Answering, AnsweredWasClaimed, SuccessIsAnswered, SuccessKeepsNothing, SuccessIsATurn

LEMMA AnsweringRequests == Known /\ Answering /\ (Admit \/ Claim \/ Input \/ Retry) => Answering'
<1> SUFFICES ASSUME Known, Answering, Admit \/ Claim \/ Input \/ Retry PROVE Answering'
  OBVIOUS
<1>0. TypeOK
  BY KnownType
<1>1. CASE Admit
  BY <1>1, AnsweringFrame
  DEF Admit, AdmitRefused, RepeatRefused, AdmitDuplicate, AdmitBegin, AdmitCommit, AdmitWriteFails, volatile, ghosts,
      Answering, AnsweredWasClaimed
<1>2. CASE ClaimCommit
  <2>1. \E it : /\ turn' = Spawned(it.id, it.id, 0)
                /\ handed' = [handed EXCEPT ![it.id] = life]
    BY <1>2 DEF ClaimCommit
  <2>2. life # 0 /\ handed \in [Messages -> Nat] /\ answered \subseteq Messages
    BY <1>0 DEF TypeOK, Known, IInv
  <2>3. \A m \in answered : handed'[m] # 0
    BY <2>1, <2>2 DEF Answering, AnsweredWasClaimed
  <2> QED BY <1>2, <2>1, <2>3, TurnFields, AnsweringFrame DEF ClaimCommit
<1>3. CASE ClaimRefused \/ ClaimReserve \/ ClaimNothing \/ ClaimWriteFails
  BY <1>3, AnsweringFrame
  DEF ClaimRefused, ClaimReserve, ClaimNothing, ClaimWriteFails, ghosts, Answering, AnsweredWasClaimed
<1>4. CASE Interrupt \/ Keystroke
  <2>1. turn'.stage = turn.stage /\ turn'.text = turn.text /\ turn'.result = turn.result
    BY <1>0, <1>4 DEF Interrupt, Keystroke, TypeOK, Turns
  <2>2. retry'.input = retry.input
    BY <1>0, <1>4, RetryInputs DEF Interrupt, Keystroke
  <2> QED BY <1>4, <2>1, <2>2, AnsweringFrame
      DEF Interrupt, Keystroke, ghosts, Answering, AnsweredWasClaimed
<1>5. ASSUME NEW y \in RawTexts, Enter(y) PROVE Answering'
  BY <1>5, TurnFields, AnsweringFrame DEF Enter, ghosts, Answering, AnsweredWasClaimed
<1>6. CASE RetryRequest \/ RunNow \/ RetryStop \/ TimerFires
  <2>1. retry'.input = retry.input
    <3>1. CASE RunNow
      BY <1>0, <3>1 DEF RunNow, TypeOK, Retries
    <3> QED BY <1>0, <1>6, <3>1, RetryInputs DEF RetryRequest, RetryStop, TimerFires, TypeOK, Retries
  <2> QED BY <1>6, <2>1, AnsweringFrame
      DEF RetryRequest, RunNow, RetryStop, TimerFires, ghosts, Answering, AnsweredWasClaimed
<1>7. ASSUME NEW c \in {"timer", "user"}, StartRetryTurn(c) PROVE Answering'
  <2>1. turn' = turn \/ turn'.result = "none"
    BY <1>7, TurnFields DEF StartRetryTurn
  <2> QED BY <1>7, <2>1, AnsweringFrame DEF StartRetryTurn, ghosts, Answering, AnsweredWasClaimed
<1>8. CASE ResumeQueue("user")
  BY <1>8, AnsweringFrame DEF ResumeQueue, ghosts, Answering, AnsweredWasClaimed
<1> QED BY <1>1, <1>2, <1>3, <1>4, <1>5, <1>6, <1>7, <1>8 DEF Claim, Input, Retry

LEMMA AnsweringTurn == Known /\ Answering /\ Turn => Answering'
<1> SUFFICES ASSUME Known, Answering, Turn PROVE Answering'
  OBVIOUS
<1>0. TypeOK
  BY KnownType
<1>1. CASE TurnBegin \/ TurnLaunch
  <2>1. /\ turn.stage \in {"spawned", "ready"} /\ turn'.result = turn.result
        /\ UNCHANGED <<handed, answered>>
    BY <1>0, <1>1 DEF TurnBegin, TurnLaunch, TypeOK, Turns, ghosts
  <2>2. turn'.result # "success"
    BY <2>1 DEF Answering, SuccessIsATurn
  <2> QED BY <2>1, <2>2, AnsweringFrame DEF Answering, AnsweredWasClaimed
<1>2. CASE TurnLaunchFails
  <2>1. PICK outcome \in Outcomes : End(outcome)
    BY <1>2 DEF TurnLaunchFails, Outcomes
  <2>2. turn.stage = "ready" /\ UNCHANGED <<handed, answered>>
    BY <1>2 DEF TurnLaunchFails, ghosts
  <2>3. turn.result # "success"
    BY <2>2 DEF Answering, SuccessIsATurn
  <2> QED BY <1>0, <2>1, <2>2, <2>3, EndShape, AnsweringEnds
<1>3. CASE TurnResult
  <2>1. /\ turn.stage = "streaming" /\ handed' = handed
        /\ \/ /\ turn' = [turn EXCEPT !.result = "success"]
              /\ answered' = answered \cup ({turn.text} \cap Messages)
           \/ turn' = [turn EXCEPT !.result = "error"] /\ answered' = answered
    BY <1>3 DEF TurnResult
  <2>2. CASE turn' = [turn EXCEPT !.result = "error"] /\ answered' = answered
    <3>1. turn'.result # "success"
      BY <1>0, <2>2 DEF TypeOK, Turns
    <3> QED BY <2>1, <2>2, <3>1, AnsweringFrame DEF Answering, AnsweredWasClaimed
  <2>3. CASE /\ turn' = [turn EXCEPT !.result = "success"]
             /\ answered' = answered \cup ({turn.text} \cap Messages)
    <3>1. turn'.text = turn.text /\ turn'.stage = "streaming"
      BY <1>0, <2>1, <2>3 DEF TypeOK, Turns
    <3>2. turn.text \in Messages => handed[turn.text] # 0
      BY DEF Known, IInv, TurnsOK, HeldWasClaimedHere, Held
    <3> QED BY <2>1, <2>3, <3>1, <3>2
        DEF Answering, AnsweredWasClaimed, SuccessIsAnswered, SuccessKeepsNothing, SuccessIsATurn
  <2> QED BY <2>1, <2>2, <2>3
<1>4. CASE TurnInterrupted \/ TurnEnds
  <2>1. \E outcome \in Outcomes : End(outcome)
    BY <1>4 DEF TurnInterrupted, TurnEnds, Outcomes
  <2>2. turn.result = "success" => retry' = RetrySucceeded
    BY <1>4 DEF TurnInterrupted, TurnEnds
  <2>3. RetrySucceeded.input = NoText /\ UNCHANGED <<handed, answered>>
    BY <1>4 DEF RetrySucceeded, Clear, TurnInterrupted, TurnEnds, ghosts
  <2> QED BY <1>0, <2>1, <2>2, <2>3, EndShape, AnsweringEnds
<1>5. CASE Settle
  <2>1. turn' = NoTurn /\ UNCHANGED <<handed, answered>>
    BY <1>5 DEF Settle, SettleSaved, SettleWriteFails, ghosts
  <2> QED BY <2>1, TurnFields, AnsweringFrame DEF Answering, AnsweredWasClaimed
<1> QED BY <1>1, <1>2, <1>3, <1>4, <1>5 DEF Turn

LEMMA AnsweringNext == Known /\ Answering /\ [Next]_vars => Answering'
<1>1. Answering /\ (UNCHANGED vars \/ RestartFails) => Answering'
  BY AnsweringFrame DEF vars, RestartFails, volatile, ghosts, Answering, AnsweredWasClaimed
<1>2. ASSUME Known, Answering, Stop \/ ProcessEnds \/ Restart PROVE Answering'
  <2>1. (turn' = turn /\ retry'.input = retry.input) \/ turn' = NoTurn
    BY <1>2, KnownType, RetryInputs DEF Stop, ProcessEnds, Restart
  <2> QED BY <1>2, <2>1, TurnFields, AnsweringFrame
      DEF Stop, ProcessEnds, Restart, ghosts, Answering, AnsweredWasClaimed
<1> QED BY <1>1, <1>2, AnsweringRequests, AnsweringTurn DEF Next, Host

LEMMA AnsweringAlways == Spec => []Answering
<1>1. Init => Answering
  BY TurnFields DEF Init, Answering, AnsweredWasClaimed, SuccessIsAnswered, SuccessKeepsNothing,
                    SuccessIsATurn
<1> QED BY <1>1, AnsweringNext, Knowledge, PTL DEF Spec

LEMMA LetGoFrame ==
    ASSUME NEW m \in Messages, LetGo(m), answered \subseteq answered', turn'.text # m,
           retry'.input # m, \A c \in {"timer", "user"} : caller'[c].text # m,
           launched'[m] = launched[m]
    PROVE  LetGo(m)' /\ launched'[m] = launched[m]
  BY DEF LetGo, InHand

(* A step that runs nothing and hands nothing on.                          *)
LEMMA LetGoSame ==
    ASSUME NEW m \in Messages, LetGo(m), answered \subseteq answered', turn'.text \in {turn.text, NoText},
           retry'.input \in {retry.input, NoText}, UNCHANGED <<caller, launched>>
    PROVE  LetGo(m)' /\ launched'[m] = launched[m]
  BY NoTextAssumption, LetGoFrame DEF LetGo, InHand

LEMMA LetGoRequests ==
    ASSUME Known, Answering, Admit \/ Claim \/ Input, NEW m \in Messages, LetGo(m)
    PROVE  LetGo(m)' /\ launched'[m] = launched[m]
<1>0. TypeOK
  BY KnownType
<1>1. CASE Admit
  BY <1>1, LetGoSame
  DEF Admit, AdmitRefused, RepeatRefused, AdmitDuplicate, AdmitBegin, AdmitCommit, AdmitWriteFails, volatile, ghosts
<1>2. CASE ClaimCommit
  <2>1. PICK it : it = Oldest(Queued(queue))
    OBVIOUS
  <2>2. /\ Queued(queue) # {} /\ up # "down" /\ turn' = Spawned(it.id, it.id, 0) /\ retry' = Clear
        /\ UNCHANGED <<caller, launched, answered>>
    BY <1>2, <2>1 DEF ClaimCommit, RetryReplaced
  <2>3. it \in Queued(queue)
    BY <1>0, <2>1, <2>2, OldestIsOldest DEF TypeOK, Queues, Queued
  <2>4. handed[it.id] = 0
    BY <2>2, <2>3 DEF Known, IInv, StoreOK, MemoryMatchesDisk, QueuedIffUnclaimed, Queued
  <2>5. it.id # m
    BY <2>4 DEF LetGo, Answering, AnsweredWasClaimed
  <2>6. turn'.text # m /\ retry'.input # m
    BY <1>0, <2>2, <2>5, TurnFields, RetryInputs, NoTextAssumption
  <2> QED BY <2>2, <2>6, LetGoFrame DEF LetGo, InHand
<1>3. CASE ClaimRefused \/ ClaimReserve \/ ClaimNothing \/ ClaimWriteFails
  BY <1>3, LetGoSame DEF ClaimRefused, ClaimReserve, ClaimNothing, ClaimWriteFails, ghosts
<1>4. CASE Interrupt \/ Keystroke
  <2>1. turn'.text = turn.text /\ retry'.input = retry.input
    BY <1>0, <1>4, RetryInputs DEF Interrupt, Keystroke, TypeOK, Turns
  <2> QED BY <1>4, <2>1, LetGoSame DEF Interrupt, Keystroke, ghosts
<1>5. ASSUME NEW y \in RawTexts, Enter(y) PROVE LetGo(m)' /\ launched'[m] = launched[m]
  <2>1. turn'.text = y /\ retry'.input = NoText /\ y # m /\ NoText # m
    BY <1>0, <1>5, TurnFields, RetryInputs, NoTextAssumption, TextsAssumption DEF Enter, RetryReplaced
  <2> QED BY <1>5, <2>1, LetGoFrame DEF Enter, ghosts, LetGo, InHand
<1> QED BY <1>1, <1>2, <1>3, <1>4, <1>5 DEF Claim, Input

(* A goroutine takes the text that the controller keeps, or that it held.  *)
LEMMA LetGoRetry ==
    ASSUME Known, Retry, NEW m \in Messages, LetGo(m)
    PROVE  LetGo(m)' /\ launched'[m] = launched[m]
<1>0. TypeOK /\ \A c \in {"timer", "user"} : caller[c].text # m
  BY KnownType DEF LetGo, InHand
<1>1. retry.input # m /\ NoText # m /\ turn.text # m
  BY NoTextAssumption DEF LetGo
<1>2. ASSUME retry'.input = retry.input, UNCHANGED <<turn, launched, answered>>,
             \A c \in {"timer", "user"} : caller'[c].text \in {caller[c].text, retry.input, NoText}
      PROVE  LetGo(m)' /\ launched'[m] = launched[m]
  BY <1>0, <1>1, <1>2, LetGoFrame
<1>3. CASE RetryRequest
  <2>1. \A c \in {"timer", "user"} : caller'[c].text = caller[c].text
    BY <1>0, <1>3 DEF RetryRequest, TypeOK, Callers
  <2> QED BY <1>2, <1>3, <2>1 DEF RetryRequest, ghosts
<1>4. CASE RunNow
  <2>1. retry'.input = retry.input
    BY <1>0, <1>4 DEF RunNow, TypeOK, Retries
  <2>2. \A c \in {"timer", "user"} : caller'[c].text \in {caller[c].text, retry.input}
    BY <1>0, <1>4 DEF RunNow, Running, TypeOK, Callers
  <2> QED BY <1>2, <1>4, <2>1, <2>2 DEF RunNow, ghosts
<1>5. CASE RetryStop
  BY <1>0, <1>2, <1>5, RetryInputs DEF RetryStop, ghosts
<1>6. CASE TimerFires
  <2>1. retry'.input = retry.input
    BY <1>0, <1>6 DEF TimerFires, TypeOK, Retries
  <2>2. \A c \in {"timer", "user"} : caller'[c].text \in {caller[c].text, retry.input}
    BY <1>0, <1>6 DEF TimerFires, Running, TypeOK, Callers
  <2> QED BY <1>2, <1>6, <2>1, <2>2 DEF TimerFires, ghosts
<1>7. ASSUME NEW c \in {"timer", "user"}, StartRetryTurn(c)
      PROVE  LetGo(m)' /\ launched'[m] = launched[m]
  <2>1. turn'.text \in {turn.text, caller[c].text}
    BY <1>7, TurnFields DEF StartRetryTurn
  <2>2. \A d \in {"timer", "user"} : caller'[d].text \in {caller[d].text, NoText}
    BY <1>0, <1>7 DEF StartRetryTurn, Idle, TypeOK
  <2> QED BY <1>0, <1>1, <1>7, <2>1, <2>2, LetGoFrame DEF StartRetryTurn, ghosts
<1>8. CASE ResumeQueue("user")
  <2>1. \A d \in {"timer", "user"} : caller'[d].text \in {caller[d].text, NoText}
    BY <1>0, <1>8 DEF ResumeQueue, Idle, TypeOK
  <2> QED BY <1>2, <1>8, <2>1 DEF ResumeQueue, ghosts
<1> QED BY <1>3, <1>4, <1>5, <1>6, <1>7, <1>8 DEF Retry

LEMMA LetGoTurn ==
    ASSUME Known, Turn, NEW m \in Messages, LetGo(m)
    PROVE  LetGo(m)' /\ launched'[m] = launched[m]
<1>0. TypeOK /\ turn.text # m /\ retry.input # m /\ NoText # m
  BY KnownType, NoTextAssumption DEF LetGo
<1>1. CASE TurnLaunch
  <2>1. turn'.text = turn.text /\ launched'[m] = launched[m]
    BY <1>0, <1>1 DEF TurnLaunch, TypeOK, Turns
  <2> QED BY <1>0, <1>1, <2>1, LetGoFrame DEF TurnLaunch, LetGo, InHand
<1>2. CASE ~TurnLaunch
  <2>1. answered \subseteq answered' /\ UNCHANGED <<caller, launched>>
    BY <1>2 DEF Turn, TurnBegin, TurnLaunchFails, TurnResult, TurnInterrupted, TurnEnds, Settle,
                SettleSaved, SettleWriteFails, ghosts
  <2>2. turn'.text \in {turn.text, NoText}
    <3>1. CASE TurnBegin \/ TurnResult
      BY <1>0, <3>1 DEF TurnBegin, TurnResult, TypeOK, Turns
    <3>2. CASE TurnLaunchFails \/ TurnInterrupted \/ TurnEnds
      <4>1. \E outcome \in Outcomes : End(outcome)
        BY <3>2 DEF TurnLaunchFails, TurnInterrupted, TurnEnds, Outcomes
      <4> QED BY <1>0, <4>1, EndShape
    <3>3. CASE Settle
      BY <3>3, TurnFields DEF Settle, SettleSaved, SettleWriteFails
    <3> QED BY <1>2, <3>1, <3>2, <3>3 DEF Turn
  <2>3. retry'.input \in {retry.input, turn.text, NoText}
    <3>1. CASE \E kind \in FaultKinds : retry' = RetryFailed(turn.text, turn.attempt, kind)
      BY <1>0, <3>1, FailedInput
    <3>2. CASE retry' \in {retry, RetrySucceeded, RetryInterrupt}
      BY <1>0, <3>2, RetryInputs DEF RetrySucceeded
    <3> QED BY <1>2, <3>1, <3>2
        DEF Turn, TurnBegin, TurnLaunchFails, TurnResult, TurnInterrupted, TurnEnds, Settle,
            SettleSaved, SettleWriteFails
  <2> QED BY <1>0, <2>1, <2>2, <2>3, LetGoFrame DEF LetGo, InHand
<1> QED BY <1>1, <1>2

LEMMA LetGoHost ==
    ASSUME Known, Host \/ UNCHANGED vars, NEW m \in Messages, LetGo(m)
    PROVE  LetGo(m)' /\ launched'[m] = launched[m]
<1>0. TypeOK
  BY KnownType
<1>1. CASE UNCHANGED vars \/ RestartFails \/ Restart
  BY <1>1, LetGoSame DEF vars, RestartFails, Restart, volatile, ghosts
<1>2. CASE Stop
  BY <1>0, <1>2, RetryInputs, LetGoSame DEF Stop, ghosts
<1>3. CASE ProcessEnds
  <2>1. turn'.text = NoText /\ retry'.input = NoText /\ \A c \in {"timer", "user"} : caller'[c].text = NoText
    BY <1>0, <1>3, TurnFields, RetryInputs DEF ProcessEnds, Idle
  <2> QED BY <1>3, <2>1, NoTextAssumption, LetGoFrame DEF ProcessEnds, ghosts, LetGo
<1> QED BY <1>1, <1>2, <1>3 DEF Host

(* A message that Claude has answered and nobody holds is over: nothing    *)
(* runs it again or takes it up again, in this process or a later one,     *)
(* however it is retried, resumed, resent or reloaded                      *)
(* (claude_queue.go:226, "never run again").                               *)
LetGoForGood == [][\A m \in Messages : LetGo(m) => LetGo(m)' /\ launched'[m] = launched[m]]_vars

(* Whatever was answered and let go of is over for good (claude_queue.go   *)
(* settleClaudeTurn, claude_queue_history.go).                             *)
THEOREM AnsweredIsOver == Spec => LetGoForGood
<1>1. Known /\ Answering /\ [Next]_vars
          => \A m \in Messages : LetGo(m) => LetGo(m)' /\ launched'[m] = launched[m]
  BY LetGoRequests, LetGoRetry, LetGoTurn, LetGoHost DEF Next
<1> QED BY <1>1, AnsweringAlways, Knowledge, PTL DEF Spec, LetGoForGood

(* The turn that answered a message lets go of it when it ends, settled,   *)
(* failed to settle or crashed.  Only a goroutine that took the text while *)
(* an earlier attempt had failed can still start it (the window between    *)
(* structured_retry.go RunNow or fire and startRetryTurn).                 *)
AnsweredIsLetGo ==
    [][\A m \in Messages :
          turn.text = m /\ turn'.text # m /\ turn.result = "success" /\ ~InHand(m) => LetGo(m)']_vars

LEMMA LettingGo ==
    ASSUME Known, Answering, [Next]_vars, NEW m \in Messages, turn.text = m, turn'.text # m,
           turn.result = "success", ~InHand(m)
    PROVE  LetGo(m)'
<1>0. TypeOK /\ m # NoText /\ m \in answered /\ \A c \in {"timer", "user"} : caller[c].text # m
  BY KnownType, NoTextAssumption DEF Answering, SuccessIsAnswered, InHand
<1>1. turn.stage \in {"streaming", "ended"} /\ active
  BY DEF Answering, SuccessIsATurn, Known, OneOwner
<1>2. CASE Settle
  <2>1. turn.stage = "ended" /\ UNCHANGED <<retry, caller, answered>>
    BY <1>2 DEF Settle, SettleSaved, SettleWriteFails, Settling, ghosts
  <2>2. retry.input = NoText
    BY <2>1 DEF Answering, SuccessKeepsNothing
  <2> QED BY <1>0, <2>1, <2>2 DEF LetGo, InHand
<1>3. CASE ProcessEnds
  <2>1. retry'.input = NoText /\ answered' = answered /\ \A c \in {"timer", "user"} : caller'[c].text = NoText
    BY <1>0, <1>3, RetryInputs DEF ProcessEnds, Idle, ghosts
  <2> QED BY <1>0, <2>1 DEF LetGo, InHand
<1>4. CASE ~Settle /\ ~ProcessEnds
  <2>1. UNCHANGED vars \/ Admit => turn'.text = turn.text
    BY DEF vars, volatile, Admit, AdmitRefused, RepeatRefused, AdmitDuplicate, AdmitBegin, AdmitCommit, AdmitWriteFails
  <2>2. Claim => turn'.text = turn.text
    <3>1. ~ClaimCommit
      BY <1>1 DEF ClaimCommit, Known, OneOwner
    <3> QED BY <3>1 DEF Claim, ClaimRefused, ClaimReserve, ClaimNothing, ClaimWriteFails
  <2>3. Input => turn'.text = turn.text
    BY <1>0, <1>1 DEF Input, Interrupt, Keystroke, Enter, TypeOK, Turns
  <2>4. Retry => turn'.text = turn.text
    BY <1>1 DEF Retry, RetryRequest, RunNow, RetryStop, TimerFires, StartRetryTurn, ResumeQueue
  <2>5. Turn => turn'.text = turn.text
    <3>1. TurnBegin \/ TurnLaunch \/ TurnResult => turn'.text = turn.text
      BY <1>0 DEF TurnBegin, TurnLaunch, TurnResult, TypeOK, Turns
    <3>2. TurnLaunchFails \/ TurnInterrupted \/ TurnEnds => \E outcome \in Outcomes : End(outcome)
      BY DEF TurnLaunchFails, TurnInterrupted, TurnEnds, Outcomes
    <3> QED BY <1>0, <1>4, <3>1, <3>2, EndShape DEF Turn
  <2>6. Host => turn'.text = turn.text
    BY <1>4 DEF Host, Stop, Restart, RestartFails, volatile
  <2> QED BY <2>1, <2>2, <2>3, <2>4, <2>5, <2>6 DEF Next
<1> QED BY <1>2, <1>3, <1>4

(* A turn that was answered keeps nothing of its message, for any retries, *)
(* faults and crashes (claude_queue.go settleClaudeTurn).                  *)
THEOREM AnsweredIsReleased == Spec => AnsweredIsLetGo
<1>1. Known /\ Answering /\ [Next]_vars
          => \A m \in Messages :
                turn.text = m /\ turn'.text # m /\ turn.result = "success" /\ ~InHand(m) => LetGo(m)'
  BY LettingGo
<1> QED BY <1>1, AnsweringAlways, Knowledge, PTL DEF Spec, AnsweredIsLetGo
=============================================================================
