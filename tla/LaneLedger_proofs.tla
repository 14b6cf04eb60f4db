-------------------------- MODULE LaneLedger_proofs --------------------------
(***************************************************************************)
(* Proofs about the ledger's store, for any number of lanes, workers,      *)
(* rows and dates, any window and any limit of its memory: what recording  *)
(* an activity leaves out was told, what is read is the fold of the rows,  *)
(* and a lane that was killed stays so.  The memory only has to say        *)
(* something true of the table; that it may be behind or empty does not    *)
(* matter.  The fold is a recursive function over the table's prefixes:    *)
(* that there is one, and that a row more is one application more, is      *)
(* proved by induction over the prefixes (NumberSets).                     *)
(***************************************************************************)
EXTENDS LaneLedger, NumberSets, TLAPS, FiniteSetTheorems

-----------------------------------------------------------------------------
(* The table has an activity of this lane with this date.                  *)
Told(lane, at) ==
    \E i \in DOMAIN log : log[i].type = "activity" /\ log[i].lane = lane /\ log[i].at = at

Stages == {"idle", "deciding", "probed", "inserting", "inserted", "recorded"}
Calls == [stage : Stages, fact : Activities \cup {Nothing}, newest : Nat]

(* What the values are; a worker has an activity in hand from Observes on. *)
RecordingType ==
    /\ log \in Seq(Facts \cup Activities)
    /\ memory \in [Lanes -> Nat]
    /\ call \in [Workers -> Calls]
    /\ \A w \in Workers : call[w].stage # "idle" => call[w].fact \in Activities

(* The memory, what a query found, and what was inserted, are in the table.*)
MemoryIsTold == \A l \in Lanes : memory[l] # 0 => Told(l, memory[l])

(* The table has one less than a window before this activity.              *)
Covered(f) ==
    \E i \in DOMAIN log : /\ log[i].type = "activity" /\ log[i].lane = f.lane
                          /\ log[i].at <= f.at /\ f.at - log[i].at < Window

CallIsTold(c) ==
    /\ c.stage = "probed" => c.newest # 0 /\ c.newest <= c.fact.at /\ Told(c.fact.lane, c.newest)
    /\ c.stage = "inserted" => Told(c.fact.lane, c.fact.at)
    /\ c.stage = "recorded" => Covered(c.fact)

CallsAreTold == \A w \in Workers : CallIsTold(call[w])

RecordingInv == RecordingType /\ MemoryIsTold /\ CallsAreTold

-----------------------------------------------------------------------------
(* A row has a date, and a table that grows keeps what it told.            *)
LEMMA Dated ==
    ASSUME RecordingType
    PROVE  /\ \A i \in DOMAIN log : log[i].at \in Nat \ {0}
           /\ \A f \in Activities : f.at \in Nat \ {0} /\ f.lane \in Lanes /\ f.type = "activity"
<1>1. \A f \in Activities : f.at \in Nat \ {0} /\ f.lane \in Lanes /\ f.type = "activity"
  BY LedgerAssumption DEF Activities
<1>2. \A i \in DOMAIN log : log[i] \in Facts \cup Activities
  BY DEF RecordingType
<1> QED BY <1>1, <1>2, LedgerAssumption

Grows == log' = log \/ \E e \in Facts \cup Activities : log' = Append(log, e)

LEMMA Kept ==
    ASSUME RecordingType, Grows
    PROVE  /\ \A l, t : Told(l, t) => Told(l, t)'
           /\ \A f : Covered(f) => Covered(f)'
<1>1. \A i \in DOMAIN log : i \in DOMAIN log' /\ log'[i] = log[i]
  BY DEF Grows, RecordingType
<1> QED BY <1>1 DEF Told, Covered

LEMMA Typed ==
    ASSUME RecordingType, Grows
    PROVE  log' \in Seq(Facts \cup Activities)
  BY DEF Grows, RecordingType

(* What the query finds is the newest of the activities it is asked for.   *)
Ats(f) == {log[i].at : i \in {j \in DOMAIN log : /\ log[j].type = "activity"
                                                /\ log[j].lane = f.lane
                                                /\ log[j].at <= f.at}}

LEMMA NewestOfAts ==
    ASSUME RecordingType, NEW f \in Activities, Ats(f) # {}
    PROVE  Newest(f) \in Ats(f) /\ \A t \in Ats(f) : t <= Newest(f)
<1>1. Ats(f) \subseteq 0..f.at
  BY Dated DEF Ats
<1>2. IsFiniteSet(Ats(f))
  <2>1. f.at \in Int /\ 0 \in Int
    BY Dated
  <2>2. IsFiniteSet(0..f.at)
    BY <2>1, FS_Interval
  <2> QED BY <1>1, <2>2, FS_Subset
<1>3. Ats(f) \subseteq Nat
  BY <1>1, Dated
<1>4. \E m \in Ats(f) : \A k \in Ats(f) : k <= m
  BY <1>2, <1>3, Greatest
<1>5. Newest(f) = CHOOSE t \in Ats(f) : \A u \in Ats(f) : u <= t
  BY DEF Newest, Ats
<1> QED BY <1>4, <1>5

LEMMA NewestIsTold ==
    ASSUME RecordingType, NEW f \in Activities, Newest(f) # 0
    PROVE  Newest(f) \in Nat /\ Newest(f) <= f.at /\ Told(f.lane, Newest(f))
<1>1. Ats(f) # {}
  BY DEF Newest, Ats
<1>2. Newest(f) \in Ats(f)
  BY <1>1, NewestOfAts
<1> QED BY <1>2, Dated DEF Ats, Told

LEMMA NewestCovers ==
    ASSUME RecordingType, NEW f \in Activities, Covered(f)
    PROVE  Newest(f) # 0 /\ f.at - Newest(f) < Window
<1>1. PICK i \in DOMAIN log : /\ log[i].type = "activity" /\ log[i].lane = f.lane
                              /\ log[i].at <= f.at /\ f.at - log[i].at < Window
  BY DEF Covered
<1>2. log[i].at \in Ats(f)
  BY <1>1 DEF Ats
<1>3. Newest(f) \in Ats(f) /\ log[i].at <= Newest(f)
  BY <1>2, NewestOfAts
<1>4. Newest(f) \in Nat
  BY <1>3, Dated DEF Ats
<1>5. f.at \in Nat /\ log[i].at \in Nat \ {0} /\ Window \in Nat
  BY Dated, LedgerAssumption
<1> QED BY <1>1, <1>3, <1>4, <1>5

LEMMA ToldCovers ==
    ASSUME RecordingType, NEW f \in Activities, NEW t \in Nat,
           Told(f.lane, t), t <= f.at, f.at - t < Window
    PROVE  Covered(f)
  BY DEF Told, Covered

-----------------------------------------------------------------------------
(* A step that changes what one worker has in hand.                        *)
LEMMA WorkerStep ==
    ASSUME RecordingInv, Grows, NEW w \in Workers, NEW c \in Calls,
           call' = [call EXCEPT ![w] = c], c.stage # "idle" => c.fact \in Activities,
           memory' \in [Lanes -> Nat], MemoryIsTold', CallIsTold(c)'
    PROVE  RecordingInv'
<1> USE DEF RecordingInv
<1>1. RecordingType'
  BY Typed DEF RecordingType
<1>2. ASSUME NEW v \in Workers PROVE CallIsTold(call[v])'
  <2>1. CASE v = w
    <3>1. call'[v] = c
      BY <2>1 DEF RecordingType
    <3> QED BY <3>1 DEF CallIsTold, Told, Covered
  <2>2. CASE v # w
    <3>1. call'[v] = call[v] /\ CallIsTold(call[v])
      BY <2>2 DEF RecordingType, CallsAreTold
    <3> QED BY <3>1, Kept DEF CallIsTold
  <2> QED BY <2>1, <2>2
<1>3. CallsAreTold'
  BY <1>2 DEF CallsAreTold
<1> QED BY <1>1, <1>3

LEMMA MemoryKept ==
    ASSUME RecordingInv, Grows, memory' = memory
    PROVE  memory' \in [Lanes -> Nat] /\ MemoryIsTold'
  BY Kept DEF RecordingInv, RecordingType, MemoryIsTold

(* What is remembered is a date the table has.                             *)
LEMMA RememberedIsTold ==
    ASSUME RecordingInv, NEW l \in Lanes, NEW t \in Nat, Told(l, t), UNCHANGED log,
           memory' = Remembered(l, t)
    PROVE  memory' \in [Lanes -> Nat] /\ MemoryIsTold'
<1> USE DEF RecordingInv, RecordingType
<1> DEFINE full == Cardinality({k \in Lanes : memory[k] # 0}) >= EntryLimit
           kept == IF full THEN [k \in Lanes |-> 0] ELSE memory
<1>1. memory' = [kept EXCEPT ![l] = Later(kept[l], t)]
  BY DEF Remembered
<1>2. kept \in [Lanes -> Nat]
  OBVIOUS
<1>3. \A k \in Lanes : kept[k] # 0 => Told(k, kept[k])
  BY DEF MemoryIsTold
<1> HIDE DEF kept
<1>4. Later(kept[l], t) \in {kept[l], t} /\ (Later(kept[l], t) = kept[l] => kept[l] >= t)
  BY <1>2 DEF Later
<1>5. memory' \in [Lanes -> Nat]
  BY <1>1, <1>2, <1>4
<1>6. ASSUME NEW k \in Lanes, memory'[k] # 0 PROVE Told(k, memory'[k])
  <2>1. CASE k # l
    BY <1>1, <1>2, <1>3, <1>6, <2>1
  <2>2. CASE k = l
    BY <1>1, <1>2, <1>3, <1>4, <1>6, <2>2
  <2> QED BY <2>1, <2>2
<1>7. \A k, a : Told(k, a) => Told(k, a)'
  BY DEF Told
<1> QED BY <1>5, <1>6, <1>7 DEF MemoryIsTold

(* A step that leaves the workers and the memory alone.                    *)
LEMMA TableStep ==
    ASSUME RecordingInv, Grows, memory' = memory, call' = call
    PROVE  RecordingInv'
<1>1. RecordingType'
  BY Typed DEF RecordingInv, RecordingType
<1>2. CallsAreTold'
  BY Kept DEF RecordingInv, CallsAreTold, CallIsTold
<1> QED BY <1>1, <1>2, MemoryKept DEF RecordingInv

-----------------------------------------------------------------------------
(* A worker that settles records what another activity tells, or inserts.  *)
LEMMA SettlesStep ==
    ASSUME RecordingInv, UNCHANGED log, NEW w \in Workers, NEW t \in Nat,
           call[w].fact \in Activities, Told(call[w].fact.lane, t), t <= call[w].fact.at,
           Settles(w, t), memory' \in [Lanes -> Nat], MemoryIsTold'
    PROVE  RecordingInv'
<1> USE DEF RecordingInv, RecordingType
<1>1. PICK c : c = [call[w] EXCEPT !.newest = 0, !.stage =
                       IF call[w].fact.at - t < Window THEN "recorded" ELSE "inserting"]
  OBVIOUS
<1>2. c \in Calls /\ c.fact = call[w].fact
  BY <1>1 DEF Calls, Stages
<1>3. call' = [call EXCEPT ![w] = c]
  BY <1>1 DEF Settles
<1>4. c.stage = "recorded" => Covered(c.fact)
  BY <1>1, <1>2, ToldCovers DEF Calls
<1>5. c.stage \in {"recorded", "inserting"}
  BY <1>1 DEF Calls
<1>6. CallIsTold(c)'
  BY <1>4, <1>5, Kept DEF CallIsTold, Grows
<1> QED BY <1>2, <1>3, <1>6, WorkerStep DEF Grows

(* Every step of a worker keeps what is remembered and found true.         *)
LEMMA RecordStep ==
    ASSUME RecordingInv, NEW w \in Workers,
           \/ Observes(w) \/ DecidesFromMemory(w) \/ Probes(w) \/ DecidesFromQuery(w)
           \/ Inserts(w) \/ Remembers(w) \/ Returns(w)
    PROVE  RecordingInv'
<1> USE DEF RecordingInv, RecordingType
<1>0. /\ call[w] \in Calls /\ CallIsTold(call[w])
      /\ call[w].stage # "idle" => call[w].fact \in Activities
  BY DEF CallsAreTold
<1>i. Idle \in Calls /\ Idle.stage = "idle" /\ CallIsTold(Idle)'
  BY DEF Idle, Calls, Stages, CallIsTold
<1>1. CASE Observes(w)
  <2>1. PICK f \in Activities :
            call' = [call EXCEPT ![w] = [@ EXCEPT !.stage = "deciding", !.fact = f]]
    BY <1>1 DEF Observes
  <2>2. PICK c : c = [call[w] EXCEPT !.stage = "deciding", !.fact = f]
    OBVIOUS
  <2>3. c \in Calls /\ c.fact \in Activities /\ c.stage = "deciding"
    BY <1>0, <2>2 DEF Calls, Stages
  <2>4. call' = [call EXCEPT ![w] = c]
    BY <2>1, <2>2
  <2>5. CallIsTold(c)'
    BY <2>3 DEF CallIsTold
  <2> QED BY <1>1, <2>3, <2>4, <2>5, MemoryKept, WorkerStep DEF Observes, Grows
<1>2. CASE DecidesFromMemory(w)
  <2>1. call[w].fact \in Activities /\ call[w].fact.lane \in Lanes
    BY <1>0, <1>2, Dated DEF DecidesFromMemory
  <2>2. /\ memory[call[w].fact.lane] \in Nat
        /\ Told(call[w].fact.lane, memory[call[w].fact.lane])
        /\ memory[call[w].fact.lane] <= call[w].fact.at
    BY <1>2, <2>1 DEF DecidesFromMemory, KnownCoalesced, MemoryIsTold
  <2>3. Settles(w, memory[call[w].fact.lane]) /\ UNCHANGED <<log, memory>>
    BY <1>2 DEF DecidesFromMemory
  <2> QED BY <2>1, <2>2, <2>3, MemoryKept, SettlesStep DEF Grows
<1>3. CASE Probes(w)
  <2>0. call[w].fact \in Activities /\ UNCHANGED <<log, memory>>
    BY <1>0, <1>3 DEF Probes
  <2>1. CASE call' = [call EXCEPT ![w] = Idle]
    BY <1>i, <2>0, <2>1, MemoryKept, WorkerStep DEF Grows
  <2>2. CASE call' = [call EXCEPT ![w] = [@ EXCEPT !.stage = "inserting"]]
    <3>1. PICK c : c = [call[w] EXCEPT !.stage = "inserting"]
      OBVIOUS
    <3>2. c \in Calls /\ c.fact \in Activities /\ c.stage = "inserting"
      BY <1>0, <2>0, <3>1 DEF Calls, Stages
    <3>3. CallIsTold(c)'
      BY <3>2 DEF CallIsTold
    <3>4. call' = [call EXCEPT ![w] = c]
      BY <2>2, <3>1
    <3> QED BY <2>0, <3>2, <3>3, <3>4, MemoryKept, WorkerStep DEF Grows
  <2>3. CASE /\ Newest(call[w].fact) # 0
             /\ call' = [call EXCEPT ![w] = [@ EXCEPT !.stage = "probed",
                                                     !.newest = Newest(call[w].fact)]]
    <3>1. PICK c : c = [call[w] EXCEPT !.stage = "probed", !.newest = Newest(call[w].fact)]
      OBVIOUS
    <3>2. /\ Newest(call[w].fact) \in Nat /\ Newest(call[w].fact) <= call[w].fact.at
          /\ Told(call[w].fact.lane, Newest(call[w].fact))
      BY <2>0, <2>3, NewestIsTold
    <3>3. /\ c \in Calls /\ c.fact = call[w].fact /\ c.stage = "probed"
          /\ c.newest = Newest(call[w].fact)
      BY <1>0, <3>1, <3>2 DEF Calls, Stages
    <3>4. CallIsTold(c)
      BY <2>3, <3>2, <3>3 DEF CallIsTold
    <3>5. CallIsTold(c)'
      BY <2>0, <3>4 DEF CallIsTold, Told, Covered
    <3>6. call' = [call EXCEPT ![w] = c]
      BY <2>3, <3>1
    <3> QED BY <2>0, <3>3, <3>5, <3>6, MemoryKept, WorkerStep DEF Grows
  <2> QED BY <1>3, <2>1, <2>2, <2>3 DEF Probes
<1>4. CASE DecidesFromQuery(w)
  <2>1. /\ call[w].fact \in Activities /\ call[w].newest \in Nat
        /\ Told(call[w].fact.lane, call[w].newest) /\ call[w].newest <= call[w].fact.at
        /\ call[w].fact.lane \in Lanes
    BY <1>0, <1>4, Dated DEF DecidesFromQuery, CallIsTold, Calls
  <2>2. /\ memory' = Remembered(call[w].fact.lane, call[w].newest) /\ UNCHANGED log
        /\ Settles(w, call[w].newest)
    BY <1>4 DEF DecidesFromQuery
  <2>3. memory' \in [Lanes -> Nat] /\ MemoryIsTold'
    BY <2>1, <2>2, RememberedIsTold
  <2> QED BY <2>1, <2>2, <2>3, SettlesStep
<1>5. CASE Inserts(w)
  <2>0. call[w].fact \in Activities /\ UNCHANGED memory
    BY <1>0, <1>5 DEF Inserts
  <2>1. Grows
    BY <1>5, <2>0 DEF Inserts, Grows
  <2>2. CASE call' = [call EXCEPT ![w] = Idle]
    BY <1>i, <2>0, <2>1, <2>2, MemoryKept, WorkerStep
  <2>3. CASE /\ log' = Append(log, call[w].fact)
             /\ call' = [call EXCEPT ![w] = [@ EXCEPT !.stage = "inserted"]]
    <3>1. PICK c : c = [call[w] EXCEPT !.stage = "inserted"]
      OBVIOUS
    <3>2. c \in Calls /\ c.fact = call[w].fact /\ c.stage = "inserted"
      BY <1>0, <3>1 DEF Calls, Stages
    <3>3. Len(log) + 1 \in DOMAIN log' /\ log'[Len(log) + 1] = c.fact
      BY <2>0, <2>3, <3>2
    <3>4. CallIsTold(c)'
      BY <2>0, <3>2, <3>3, Dated DEF CallIsTold, Told
    <3>5. call' = [call EXCEPT ![w] = c]
      BY <2>3, <3>1
    <3> QED BY <2>0, <2>1, <3>2, <3>4, <3>5, MemoryKept, WorkerStep
  <2> QED BY <1>5, <2>2, <2>3 DEF Inserts
<1>6. CASE Remembers(w)
  <2>1. /\ call[w].fact \in Activities /\ call[w].fact.lane \in Lanes
        /\ call[w].fact.at \in Nat /\ Told(call[w].fact.lane, call[w].fact.at)
    BY <1>0, <1>6, Dated DEF Remembers, CallIsTold
  <2>2. /\ memory' = Remembered(call[w].fact.lane, call[w].fact.at) /\ UNCHANGED log
        /\ call' = [call EXCEPT ![w] = [@ EXCEPT !.stage = "recorded"]]
    BY <1>6 DEF Remembers
  <2>3. memory' \in [Lanes -> Nat] /\ MemoryIsTold'
    BY <2>1, <2>2, RememberedIsTold
  <2>4. PICK c : c = [call[w] EXCEPT !.stage = "recorded"]
    OBVIOUS
  <2>5. c \in Calls /\ c.fact = call[w].fact /\ c.stage = "recorded"
    BY <1>0, <2>4 DEF Calls, Stages
  <2>6. Covered(c.fact)
    BY <2>1, <2>5, LedgerAssumption, ToldCovers
  <2>7. CallIsTold(c)'
    BY <2>2, <2>5, <2>6 DEF CallIsTold, Covered
  <2>8. call' = [call EXCEPT ![w] = c]
    BY <2>2, <2>4
  <2> QED BY <2>1, <2>2, <2>3, <2>5, <2>7, <2>8, WorkerStep DEF Grows
<1>7. CASE Returns(w)
  BY <1>i, <1>7, MemoryKept, WorkerStep DEF Returns, Grows
<1> QED BY <1>1, <1>2, <1>3, <1>4, <1>5, <1>6, <1>7

(* What the table is told stays true of it in every step.                  *)
LEMMA RecordingStep == RecordingInv /\ [Next]_vars => RecordingInv'
<1> SUFFICES ASSUME RecordingInv, [Next]_vars PROVE RecordingInv'
  OBVIOUS
<1>1. CASE Appends
  <2>1. Grows
    BY <1>1 DEF Appends, Grows
  <2> QED BY <1>1, <2>1, TableStep DEF Appends
<1>2. CASE ReadStarts \/ ReadsRow \/ ReadEnds \/ ReadFails
  BY <1>2, TableStep DEF ReadStarts, ReadsRow, ReadEnds, ReadFails, Grows
<1>3. CASE DaemonRestarts
  <2>1. /\ log' = log /\ memory' = [l \in Lanes |-> 0] /\ call' = [w \in Workers |-> Idle]
    BY <1>3 DEF DaemonRestarts
  <2>2. Idle \in Calls /\ Idle.stage = "idle"
    BY DEF Idle, Calls, Stages
  <2>3. RecordingType'
    BY <2>1, <2>2 DEF RecordingInv, RecordingType
  <2>4. MemoryIsTold' /\ CallsAreTold'
    BY <2>1, <2>2 DEF MemoryIsTold, CallsAreTold, CallIsTold
  <2> QED BY <2>3, <2>4 DEF RecordingInv
<1>4. ASSUME NEW w \in Workers,
             \/ Observes(w) \/ DecidesFromMemory(w) \/ Probes(w) \/ DecidesFromQuery(w)
             \/ Inserts(w) \/ Remembers(w) \/ Returns(w)
      PROVE  RecordingInv'
  BY <1>4, RecordStep
<1>5. CASE UNCHANGED vars
  BY <1>5, TableStep DEF vars, Grows
<1> QED BY <1>1, <1>2, <1>3, <1>4, <1>5 DEF Next

LEMMA RecordingInit == Init => RecordingInv
  BY DEF Init, RecordingInv, RecordingType, MemoryIsTold, CallsAreTold, CallIsTold, Idle,
         Calls, Stages

(* What the store remembers, found or inserted is in its table, whatever   *)
(* failed, was forgotten, was appended by others or raced (store.go        *)
(* rememberCoalesced, coalesced, append).                                  *)
THEOREM MemoryIsTrue == Spec => []RecordingInv
  BY RecordingInit, RecordingStep, PTL DEF Spec

(* An activity that was left out had been told: when its recording returns *)
(* no error, the table holds one less than a window older.                 *)
THEOREM ActivityIsKept == Spec => []ActivityNotLost
<1>1. RecordingInv => ActivityNotLost
  BY NewestCovers DEF RecordingInv, RecordingType, CallsAreTold, CallIsTold, ActivityNotLost
<1> QED BY <1>1, MemoryIsTrue, PTL

-----------------------------------------------------------------------------
(* What the fold can make of a lane, with any values in its payloads.      *)
LaneStates(Values) ==
    [created : BOOLEAN, request : Values, conversation : Values, reboundAs : Values,
     ready : BOOLEAN, attached : BOOLEAN, managed : BOOLEAN, killed : BOOLEAN,
     initiator : Values, exited : BOOLEAN, lost : BOOLEAN, reaped : BOOLEAN,
     reopenedAs : Values, archived : BOOLEAN, closedAt : Nat, lastEvent : Nat,
     lastLifecycle : Nat, lastActivity : Nat, source : Values, lastHuman : Nat,
     lastProvider : Nat]

Ended(s) == s.killed /\ ~s.managed /\ s.closedAt # 0

(* No fact of any kind, date or writer takes a user's end back, changes    *)
(* who asked for it or when it was, or brings the lane into the recovery   *)
(* plan again: the step that TombstoneIsFinal repeats along the table      *)
(* (fold_events.go applyLaneEvent).                                        *)
THEOREM EndIsFinal ==
    ASSUME NEW Values, NEW s \in LaneStates(Values), NEW e, NEW running, Ended(s)
    PROVE  /\ Ended(ApplyLaneEvent(s, e))
           /\ ApplyLaneEvent(s, e).initiator = s.initiator
           /\ ApplyLaneEvent(s, e).closedAt = s.closedAt
           /\ ClassifyLane(ApplyLaneEvent(s, e), running) = "closed"
           /\ ~InRecoveryPlan(ApplyLaneEvent(s, e), running)
<1> DEFINE l == [s EXCEPT !.lastEvent = Later(@, e.at),
                          !.lastLifecycle = IF e.type \in LifecycleTypes
                                            THEN Later(@, e.at) ELSE @]
           Same(r) == /\ Ended(r) /\ r.initiator = s.initiator /\ r.closedAt = s.closedAt
<1>0. Same(l) /\ DOMAIN l = DOMAIN s /\ l.killed
  BY DEF Ended, LaneStates
<1> HIDE DEF l
<1>1. Same(Created(l, e))
  BY <1>0 DEF Created, Ended, LaneStates
<1>2. Same(Rebound(l, e)) /\ Same([l EXCEPT !.conversation = e.arg])
  BY <1>0 DEF Rebound, Ended, LaneStates
<1>3. Same([Present(l) EXCEPT !.ready = TRUE]) /\ Same([Present(l) EXCEPT !.attached = TRUE])
  BY <1>0 DEF Present, MayBecomeManaged, Over, Ended, LaneStates
<1>4. Same(Active(l, e))
  BY <1>0 DEF Active, Ended, LaneStates
<1>5. Same(Killed(l, e))
  BY <1>0 DEF Killed, Ended, LaneStates
<1>6. /\ Same([Closing(l, e.at) EXCEPT !.exited = TRUE])
      /\ Same([Closing(l, e.at) EXCEPT !.lost = TRUE])
      /\ Same([Closing(l, e.at) EXCEPT !.reaped = TRUE])
      /\ Same([Closing(l, e.at) EXCEPT !.reopenedAs = e.arg])
      /\ Same([l EXCEPT !.archived = TRUE, !.managed = FALSE])
  BY <1>0 DEF Closing, Ended, LaneStates
<1>7. ApplyLaneEvent(s, e) \in
          {Created(l, e), [l EXCEPT !.conversation = e.arg], Rebound(l, e),
           [Present(l) EXCEPT !.ready = TRUE], [Present(l) EXCEPT !.attached = TRUE],
           Active(l, e), Killed(l, e), [Closing(l, e.at) EXCEPT !.exited = TRUE],
           [Closing(l, e.at) EXCEPT !.lost = TRUE], [Closing(l, e.at) EXCEPT !.reaped = TRUE],
           [Closing(l, e.at) EXCEPT !.reopenedAs = e.arg],
           [l EXCEPT !.archived = TRUE, !.managed = FALSE], l}
  BY DEF ApplyLaneEvent, l
<1>8. Same(ApplyLaneEvent(s, e))
  BY <1>0, <1>1, <1>2, <1>3, <1>4, <1>5, <1>6, <1>7
<1>9. Over(ApplyLaneEvent(s, e))
  BY <1>8 DEF Ended, Over
<1> QED BY <1>8, <1>9 DEF ClassifyLane, InRecoveryPlan

-----------------------------------------------------------------------------
(* The equation of LaneAfter, up to a place k. *)
Runs(lane, facts, k, f) ==
    f = [n \in 0..k |-> IF n = 0 THEN NewLane
                        ELSE IF facts[n].lane = lane THEN ApplyLaneEvent(f[n - 1], facts[n])
                        ELSE f[n - 1]]

LEMMA RunExists ==
    ASSUME NEW lane, NEW facts, NEW m \in Nat
    PROVE  \E f : Runs(lane, facts, m, f)
<1> DEFINE S == {k \in Nat : \E f : Runs(lane, facts, k, f)}
<1>1. 0 \in S
  <2> DEFINE f == [n \in 0..0 |-> NewLane]
  <2>1. Runs(lane, facts, 0, f)
    BY DEF Runs
  <2> QED BY <2>1
<1>2. ASSUME NEW k \in Nat, k \in S PROVE k + 1 \in S
  <2>1. PICK f : Runs(lane, facts, k, f)
    BY <1>2
  <2> DEFINE last == IF facts[k + 1].lane = lane THEN ApplyLaneEvent(f[k], facts[k + 1]) ELSE f[k]
             g == [n \in 0..(k + 1) |-> IF n = k + 1 THEN last ELSE f[n]]
  <2>2. \A n \in 0..k : f[n] = IF n = 0 THEN NewLane
                        ELSE IF facts[n].lane = lane THEN ApplyLaneEvent(f[n - 1], facts[n])
                        ELSE f[n - 1]
    BY <2>1 DEF Runs
  <2>3. \A n \in 0..(k + 1) : g[n] = IF n = 0 THEN NewLane
                        ELSE IF facts[n].lane = lane THEN ApplyLaneEvent(g[n - 1], facts[n])
                        ELSE g[n - 1]
    BY <2>2
  <2>4. Runs(lane, facts, k + 1, g)
    BY <2>3 DEF Runs
  <2> QED BY <2>4
<1> QED BY <1>1, <1>2, SetInduction

LEMMA RunIsOne ==
    ASSUME NEW lane, NEW facts, NEW other, NEW m \in Nat, NEW k \in Nat, NEW f, NEW g,
           Runs(lane, facts, m, f), Runs(lane, other, k, g), m <= k,
           \A n \in 1..m : facts[n] = other[n]
    PROVE  \A n \in 0..m : f[n] = g[n]
<1> DEFINE S == {n \in Nat : n <= m => f[n] = g[n]}
<1>1. \A n \in 0..m : f[n] = IF n = 0 THEN NewLane
                        ELSE IF facts[n].lane = lane THEN ApplyLaneEvent(f[n - 1], facts[n])
                        ELSE f[n - 1]
  BY DEF Runs
<1>2. \A n \in 0..k : g[n] = IF n = 0 THEN NewLane
                        ELSE IF other[n].lane = lane THEN ApplyLaneEvent(g[n - 1], other[n])
                        ELSE g[n - 1]
  BY DEF Runs
<1>3. 0 \in S
  BY <1>1, <1>2
<1>4. ASSUME NEW n \in Nat, n \in S PROVE n + 1 \in S
  BY <1>1, <1>2, <1>4
<1>5. Nat \subseteq S
  BY <1>3, <1>4, SetInduction
<1> QED BY <1>5

LEMMA LaneAfterRuns ==
    ASSUME NEW lane, NEW Rows, NEW facts \in Seq(Rows)
    PROVE  Runs(lane, facts, Len(facts), LaneAfter(lane, facts))
<1>1. LaneAfter(lane, facts) = CHOOSE f : Runs(lane, facts, Len(facts), f)
  BY DEF LaneAfter, Runs
<1>2. Len(facts) \in Nat
  OBVIOUS
<1> QED BY <1>1, <1>2, RunExists

(* The fold of a table and one more row.                                   *)
LEMMA FoldEmpty == ASSUME NEW lane PROVE FoldLane(lane, <<>>) = NewLane
<1>1. Runs(lane, <<>>, 0, LaneAfter(lane, <<>>))
  <2>1. <<>> \in Seq({}) /\ Len(<<>>) = 0
    OBVIOUS
  <2> QED BY <2>1, LaneAfterRuns
<1> QED BY <1>1 DEF Runs, FoldLane

LEMMA FoldAppend ==
    ASSUME NEW lane, NEW Rows, NEW facts \in Seq(Rows), NEW e \in Rows
    PROVE  FoldLane(lane, Append(facts, e)) =
               IF e.lane = lane THEN ApplyLaneEvent(FoldLane(lane, facts), e)
               ELSE FoldLane(lane, facts)
<1>1. PICK more : more = Append(facts, e)
  OBVIOUS
<1>2. PICK m \in Nat : m = Len(facts)
  OBVIOUS
<1>3. /\ more \in Seq(Rows) /\ Len(more) = m + 1
      /\ more[m + 1] = e /\ \A n \in 1..m : facts[n] = more[n]
  BY <1>1, <1>2
<1>4. PICK f : f = LaneAfter(lane, facts)
  OBVIOUS
<1>5. PICK g : g = LaneAfter(lane, more)
  OBVIOUS
<1>6. Runs(lane, facts, m, f) /\ Runs(lane, more, m + 1, g)
  BY <1>2, <1>3, <1>4, <1>5, LaneAfterRuns
<1>7. m + 1 \in Nat /\ m <= m + 1 /\ m \in 0..m
  OBVIOUS
<1>8. \A n \in 0..m : f[n] = g[n]
  BY <1>3, <1>6, <1>7, RunIsOne
<1>9. g[m + 1] = IF more[m + 1].lane = lane THEN ApplyLaneEvent(g[m], more[m + 1]) ELSE g[m]
  <2>1. m + 1 \in 0..(m + 1) /\ m + 1 # 0 /\ (m + 1) - 1 = m
    OBVIOUS
  <2> QED BY <1>6, <2>1 DEF Runs
<1>10. FoldLane(lane, facts) = f[m] /\ FoldLane(lane, more) = g[m + 1]
  BY <1>2, <1>3, <1>4, <1>5 DEF FoldLane
<1> QED BY <1>1, <1>3, <1>7, <1>8, <1>9, <1>10

(* A lane of which a table says nothing is a new one.                      *)
LEMMA FoldUntouched ==
    ASSUME NEW lane, NEW Rows, NEW facts \in Seq(Rows), \A i \in DOMAIN facts : facts[i].lane # lane
    PROVE  FoldLane(lane, facts) = NewLane
<1>1. PICK f : f = LaneAfter(lane, facts)
  OBVIOUS
<1>2. Runs(lane, facts, Len(facts), f) /\ Len(facts) \in Nat
  BY <1>1, LaneAfterRuns
<1> DEFINE S == {n \in Nat : n <= Len(facts) => f[n] = NewLane}
<1>3. 0 \in S
  BY <1>2 DEF Runs
<1>4. ASSUME NEW n \in Nat, n \in S PROVE n + 1 \in S
  BY <1>2, <1>4 DEF Runs
<1>5. Nat \subseteq S
  BY <1>3, <1>4, SetInduction
<1> QED BY <1>1, <1>2, <1>5 DEF FoldLane

-----------------------------------------------------------------------------
(* Reading.                                                                *)
LEMMA PrefixType ==
    ASSUME NEW Rows, NEW s \in Seq(Rows), NEW n \in 0..Len(s)
    PROVE  SubSeq(s, 1, n) \in Seq(Rows)
  OBVIOUS

LEMMA PrefixNext ==
    ASSUME NEW Rows, NEW s \in Seq(Rows), NEW n \in Nat, n < Len(s)
    PROVE  SubSeq(s, 1, n + 1) = Append(SubSeq(s, 1, n), s[n + 1])
  OBVIOUS

LEMMA PrefixKept ==
    ASSUME NEW Rows, NEW s \in Seq(Rows), NEW n \in 0..Len(s), NEW e \in Rows
    PROVE  SubSeq(Append(s, e), 1, n) = SubSeq(s, 1, n)
  OBVIOUS

LEMMA PrefixEmpty == ASSUME NEW s PROVE SubSeq(s, 1, 0) = <<>>
  OBVIOUS

(* A row of the table.                                                     *)
Row == Facts \cup Activities

(* What a read has put together is the fold of the rows it is through.     *)
Through(n, lanes) == lanes = Fold(SubSeq(log, 1, n))

ReadingInv ==
    /\ log \in Seq(Row)
    /\ DOMAIN projection = {"seq", "lanes"} /\ projection.seq \in 0..Len(log)
    /\ DOMAIN reading = {"open", "upTo", "seq", "changes"}
    /\ ProjectionIsFold
    /\ reading.open =>
          /\ reading.upTo \in 0..Len(log) /\ reading.seq \in projection.seq..reading.upTo
          /\ Through(reading.seq, Overlaid(reading.changes, projection.lanes))

(* A lane in what was folded so far.                                       *)
Known(lanes, l) == IF l \in DOMAIN lanes THEN lanes[l] ELSE NewLane

(* What one more row makes of a fold.                                      *)
OneMore(lanes, e, more) ==
    /\ DOMAIN more = DOMAIN lanes \cup {e.lane}
    /\ \A l \in DOMAIN lanes \ {e.lane} : more[l] = lanes[l]
    /\ more[e.lane] = ApplyLaneEvent(Known(lanes, e.lane), e)

LEMMA FoldAppends ==
    ASSUME NEW Rows, NEW facts \in Seq(Rows), NEW e \in Rows
    PROVE  OneMore(Fold(facts), e, Fold(Append(facts, e)))
<1>1. DOMAIN Fold(Append(facts, e)) = DOMAIN Fold(facts) \cup {e.lane}
  <2>1. DOMAIN Append(facts, e) = DOMAIN facts \cup {Len(facts) + 1}
    OBVIOUS
  <2>2. \A i \in DOMAIN facts : Append(facts, e)[i] = facts[i]
    OBVIOUS
  <2>3. Append(facts, e)[Len(facts) + 1] = e
    OBVIOUS
  <2> QED BY <2>1, <2>2, <2>3 DEF Fold
<1>2. \A l \in DOMAIN Fold(facts) \ {e.lane} : Fold(Append(facts, e))[l] = Fold(facts)[l]
  BY <1>1, FoldAppend DEF Fold
<1>3. e.lane \notin DOMAIN Fold(facts) => FoldLane(e.lane, facts) = NewLane
  BY FoldUntouched DEF Fold
<1>4. Fold(Append(facts, e))[e.lane] = ApplyLaneEvent(FoldLane(e.lane, facts), e)
  BY <1>1, FoldAppend DEF Fold
<1>5. e.lane \in DOMAIN Fold(facts) => Fold(facts)[e.lane] = FoldLane(e.lane, facts)
  BY DEF Fold
<1>6. FoldLane(e.lane, facts) = Known(Fold(facts), e.lane)
  BY <1>3, <1>5 DEF Known
<1> QED BY <1>1, <1>2, <1>4, <1>6 DEF OneMore

LEMMA ReadsRowStep == ASSUME ReadingInv, ReadsRow PROVE ReadingInv'
<1>1. PICK n \in Nat : n = reading.seq
  BY DEF ReadingInv, ReadsRow
<1>2. n < reading.upTo /\ reading.upTo \in 0..Len(log) /\ n \in projection.seq..reading.upTo
  BY <1>1 DEF ReadingInv, ReadsRow
<1>3. PICK e : e = log[n + 1]
  OBVIOUS
<1>4. PICK prefix : prefix = SubSeq(log, 1, n)
  OBVIOUS
<1>5. /\ n < Len(log) /\ n \in 0..Len(log) /\ log \in Seq(Row)
      /\ e \in Row
  BY <1>2, <1>3 DEF ReadingInv
<1>6. prefix \in Seq(Row) /\ SubSeq(log, 1, n + 1) = Append(prefix, e)
  <2>1. SubSeq(log, 1, n) \in Seq(Row)
    BY <1>5, PrefixType
  <2>2. SubSeq(log, 1, n + 1) = Append(SubSeq(log, 1, n), log[n + 1])
    BY <1>5, PrefixNext
  <2> QED BY <1>3, <1>4, <2>1, <2>2
<1>7. PICK before : before = Overlaid(reading.changes, projection.lanes)
  OBVIOUS
<1>8. before = Fold(prefix)
  BY <1>1, <1>4, <1>7 DEF ReadingInv, ReadsRow, Through
<1>9. PICK new : new = [l \in {e.lane} |-> ApplyLaneEvent(Prior(l), e)]
  OBVIOUS
<1>10. PICK after : after = Overlaid(Overlaid(new, reading.changes), projection.lanes)
  OBVIOUS
<1>11. /\ reading'.open /\ reading'.upTo = reading.upTo /\ reading'.seq = n + 1
       /\ reading'.changes = Overlaid(new, reading.changes)
       /\ DOMAIN reading' = {"open", "upTo", "seq", "changes"}
       /\ UNCHANGED <<log, projection>>
  BY <1>1, <1>3, <1>9 DEF ReadingInv, ReadsRow
<1>12. Prior(e.lane) = Known(before, e.lane)
  BY <1>7 DEF Prior, Overlaid, Known
<1>13. /\ DOMAIN after = DOMAIN before \cup {e.lane}
       /\ \A l \in DOMAIN before \ {e.lane} : after[l] = before[l]
       /\ after[e.lane] = ApplyLaneEvent(Prior(e.lane), e)
       /\ after = [l \in DOMAIN after |-> after[l]]
  BY <1>7, <1>9, <1>10 DEF Overlaid
<1>14. after = Fold(Append(prefix, e))
  <2>1. PICK longer : longer = Fold(Append(prefix, e))
    OBVIOUS
  <2>2. longer = [l \in DOMAIN longer |-> longer[l]]
    BY <2>1 DEF Fold
  <2>3. OneMore(before, e, longer)
    BY <1>5, <1>6, <1>8, <2>1, FoldAppends
  <2>4. \A l \in DOMAIN after : after[l] = longer[l]
    BY <1>12, <1>13, <2>3 DEF OneMore
  <2> QED BY <1>13, <2>1, <2>2, <2>3, <2>4 DEF OneMore
<1>15. Through(n + 1, after)'
  BY <1>6, <1>11, <1>14 DEF Through
<1>16. Overlaid(reading'.changes, projection'.lanes) = after
  BY <1>10, <1>11
<1>17. ProjectionIsFold'
  BY <1>11 DEF ReadingInv, ProjectionIsFold
<1>18. n + 1 \in projection'.seq..reading'.upTo /\ reading'.upTo \in 0..Len(log')
  BY <1>1, <1>2, <1>5, <1>11 DEF ReadingInv
<1> QED BY <1>5, <1>11, <1>15, <1>16, <1>17, <1>18 DEF ReadingInv

-----------------------------------------------------------------------------
(* A step that leaves the reader alone, and those of the reader.           *)
LEMMA FoldKept ==
    ASSUME ReadingInv, Grows, NEW n \in 0..Len(log)
    PROVE  SubSeq(log', 1, n) = SubSeq(log, 1, n) /\ n \in 0..Len(log') /\ log' \in Seq(Row)
<1>1. CASE log' = log
  BY <1>1, PrefixType DEF ReadingInv
<1>2. CASE \E e \in Row : log' = Append(log, e)
  <2>1. PICK e \in Row : log' = Append(log, e)
    BY <1>2
  <2>2. log \in Seq(Row)
    BY DEF ReadingInv
  <2>3. Len(log') = Len(log) + 1 /\ log' \in Seq(Row) /\ Len(log) \in Nat
    BY <2>1, <2>2
  <2> QED BY <2>1, <2>2, <2>3, PrefixKept
<1> QED BY <1>1, <1>2 DEF Grows, Row

LEMMA ReaderWaits ==
    ASSUME ReadingInv, Grows, UNCHANGED <<projection, reading>>
    PROVE  ReadingInv'
<1>1. \A n \in 0..Len(log) : /\ SubSeq(log', 1, n) = SubSeq(log, 1, n)
                              /\ n \in 0..Len(log')
  BY FoldKept
<1>2. log' \in Seq(Row) /\ 0 \in 0..Len(log)
  BY FoldKept DEF ReadingInv
<1>3. ProjectionIsFold'
  BY <1>1 DEF ReadingInv, ProjectionIsFold
<1>4. ASSUME reading.open PROVE Through(reading.seq, Overlaid(reading.changes, projection.lanes))'
  <2>1. reading.seq \in 0..Len(log)
    BY <1>4 DEF ReadingInv
  <2> QED BY <1>1, <1>4, <2>1 DEF ReadingInv, Through
<1>5. projection.seq \in 0..Len(log')
  BY <1>1 DEF ReadingInv
<1>6. reading.open => reading.upTo \in 0..Len(log')
  BY <1>1 DEF ReadingInv
<1> QED BY <1>2, <1>3, <1>4, <1>5, <1>6 DEF ReadingInv

LEMMA FoldOfNone == Fold(<<>>) = <<>>
  BY DEF Fold

LEMMA ReadStartsStep == ASSUME ReadingInv, ReadStarts PROVE ReadingInv'
<1>1. /\ reading' = [open |-> TRUE, upTo |-> Len(log), seq |-> projection.seq, changes |-> <<>>]
      /\ UNCHANGED <<log, projection>>
  BY DEF ReadStarts
<1>2. projection.lanes = Fold(SubSeq(log, 1, projection.seq))
  BY DEF ReadingInv, ProjectionIsFold
<1>3. Overlaid(<<>>, projection.lanes) = projection.lanes
  <2>1. projection.lanes = [l \in DOMAIN projection.lanes |-> projection.lanes[l]]
    BY <1>2 DEF Fold
  <2>2. DOMAIN <<>> = {}
    OBVIOUS
  <2> QED BY <2>1, <2>2 DEF Overlaid
<1>4. Through(projection.seq, Overlaid(<<>>, projection.lanes))
  BY <1>2, <1>3 DEF Through
<1>5. Len(log) \in Nat /\ projection.seq \in 0..Len(log)
  BY DEF ReadingInv
<1> QED BY <1>1, <1>4, <1>5 DEF ReadingInv, Through, ProjectionIsFold

LEMMA ReadEndsStep == ASSUME ReadingInv, ReadEnds PROVE ReadingInv'
<1>1. /\ projection' = [seq |-> reading.seq, lanes |-> Overlaid(reading.changes, projection.lanes)]
      /\ reading' = NotReading /\ log' = log
      /\ reading.seq \in 0..Len(log)
  BY DEF ReadEnds, ReadingInv
<1>2. ProjectionIsFold'
  BY <1>1 DEF ReadEnds, ReadingInv, Through, ProjectionIsFold
<1> QED BY <1>1, <1>2 DEF ReadingInv, NotReading

LEMMA ReadingStep == RecordingInv /\ ReadingInv /\ [Next]_vars => ReadingInv'
<1> SUFFICES ASSUME RecordingInv, ReadingInv, [Next]_vars PROVE ReadingInv'
  OBVIOUS
<1>1. CASE Appends
  <2>1. Grows
    BY <1>1 DEF Appends, Grows
  <2> QED BY <1>1, <2>1, ReaderWaits DEF Appends
<1>2. CASE ReadFails
  BY <1>2 DEF ReadFails, ReadingInv, NotReading, ProjectionIsFold
<1>3. CASE DaemonRestarts
  <2>1. projection' = [seq |-> 0, lanes |-> <<>>] /\ reading' = NotReading /\ log' = log
    BY <1>3 DEF DaemonRestarts, Emptied
  <2>2. ProjectionIsFold'
    BY <2>1, PrefixEmpty, FoldOfNone DEF ProjectionIsFold
  <2>3. 0 \in 0..Len(log)
    BY DEF ReadingInv
  <2> QED BY <2>1, <2>2, <2>3 DEF ReadingInv, NotReading
<1>4. ASSUME NEW w \in Workers,
             \/ Observes(w) \/ DecidesFromMemory(w) \/ Probes(w) \/ DecidesFromQuery(w)
             \/ Inserts(w) \/ Remembers(w) \/ Returns(w)
      PROVE  ReadingInv'
  <2>1. call[w].stage = "inserting" => call[w].fact \in Activities
    BY DEF RecordingInv, RecordingType
  <2>2. Grows /\ UNCHANGED <<projection, reading>>
    BY <1>4, <2>1 DEF Observes, DecidesFromMemory, Probes, DecidesFromQuery, Inserts,
                      Remembers, Returns, Grows
  <2> QED BY <2>2, ReaderWaits
<1>5. CASE UNCHANGED vars
  BY <1>5, ReaderWaits DEF vars, Grows
<1> QED BY <1>1, <1>2, <1>3, <1>4, <1>5, ReadStartsStep, ReadsRowStep, ReadEndsStep DEF Next

LEMMA ReadingInit == Init => ReadingInv
<1> SUFFICES ASSUME Init PROVE ReadingInv
  OBVIOUS
<1>1. log = <<>> /\ projection = [seq |-> 0, lanes |-> <<>>] /\ reading = NotReading
  BY DEF Init, Emptied
<1>2. ProjectionIsFold
  BY <1>1, PrefixEmpty, FoldOfNone DEF ProjectionIsFold
<1> QED BY <1>1, <1>2 DEF ReadingInv, NotReading

(* A read publishes the fold of every row up to its cursor, or nothing     *)
(* (current.go CurrentStates, readCurrentChanges).                         *)
THEOREM PublishedIsFold == Spec => []ReadingInv
  BY RecordingInit, ReadingInit, RecordingStep, ReadingStep, PTL DEF Spec

(* What the store publishes of a lane is the fold of the facts in the      *)
(* table, after any reads, failures and restarts (ledger/current.go).      *)
THEOREM ProjectionIsTheFold == Spec => []ProjectionIsFold
<1>1. ReadingInv => ProjectionIsFold
  BY DEF ReadingInv
<1> QED BY <1>1, PublishedIsFold, PTL

-----------------------------------------------------------------------------
(* What any table makes of a lane.                                         *)
Values == {Nothing} \cup {e.arg : e \in Row} \cup {e.with : e \in Row}

(* A user's end has a date and is not managed.                             *)
Sound(s) == s \in LaneStates(Values) /\ (s.killed => Ended(s))

LEMMA NewIsSound == Sound(NewLane)
  BY DEF Sound, NewLane, LaneStates, Values

LEMMA EventKeepsSound ==
    ASSUME NEW s, Sound(s), NEW e, e.at \in Nat \ {0}, e.arg \in Values, e.with \in Values
    PROVE  Sound(ApplyLaneEvent(s, e))
<1> DEFINE l == [s EXCEPT !.lastEvent = Later(@, e.at),
                          !.lastLifecycle = IF e.type \in LifecycleTypes
                                            THEN Later(@, e.at) ELSE @]
<1>0. \A a \in Nat : Later(a, e.at) \in Nat
  BY DEF Later
<1>1. Sound(l)
  BY <1>0 DEF Sound, Ended, LaneStates
<1> HIDE DEF l
<1> USE DEF Sound, Ended, LaneStates
<1>2. Sound(Created(l, e))
  BY <1>1 DEF Created
<1>3. Sound(Rebound(l, e)) /\ Sound([l EXCEPT !.conversation = e.arg])
  BY <1>1 DEF Rebound
<1>4. Sound([Present(l) EXCEPT !.ready = TRUE]) /\ Sound([Present(l) EXCEPT !.attached = TRUE])
  <2>1. l \in LaneStates(Values) /\ MayBecomeManaged(l) \in BOOLEAN
    BY <1>1 DEF MayBecomeManaged, Over
  <2>2. Present(l) \in LaneStates(Values)
    <3>1. PICK m \in BOOLEAN : m = MayBecomeManaged(l)
      BY <2>1
    <3>2. PICK at \in Nat : at = IF l.lost /\ ~Over(l) THEN 0 ELSE l.closedAt
      BY <2>1
    <3>3. Present(l) = [l EXCEPT !.closedAt = at, !.lost = FALSE, !.managed = m]
      BY <3>1, <3>2 DEF Present
    <3>4. [l EXCEPT !.closedAt = at, !.lost = FALSE, !.managed = m] \in LaneStates(Values)
      BY <2>1
    <3> QED BY <3>3, <3>4
  <2>3. PICK p \in LaneStates(Values) : p = Present(l)
    BY <2>2
  <2>4. p.killed => p.closedAt # 0 /\ ~p.managed
    BY <1>1, <2>1, <2>3 DEF Present, MayBecomeManaged, Over
  <2>5. Sound([p EXCEPT !.ready = TRUE])
    BY <2>3, <2>4
  <2>6. Sound([p EXCEPT !.attached = TRUE])
    BY <2>3, <2>4
  <2> HIDE DEF Sound, LaneStates
  <2> QED BY <2>3, <2>5, <2>6
<1>5. Sound(Active(l, e))
  BY <1>0, <1>1 DEF Active
<1>6. Sound(Killed(l, e))
  BY <1>1 DEF Killed, Closing
<1>7. /\ Sound([Closing(l, e.at) EXCEPT !.exited = TRUE])
      /\ Sound([Closing(l, e.at) EXCEPT !.lost = TRUE])
      /\ Sound([Closing(l, e.at) EXCEPT !.reaped = TRUE])
      /\ Sound([Closing(l, e.at) EXCEPT !.reopenedAs = e.arg])
      /\ Sound([l EXCEPT !.archived = TRUE, !.managed = FALSE])
  <2>1. Closing(l, e.at) \in LaneStates(Values)
    BY <1>1 DEF Closing
  <2>2. PICK c \in LaneStates(Values) : c = Closing(l, e.at)
    BY <2>1
  <2>3. c.killed => c.closedAt # 0 /\ ~c.managed
    BY <1>1, <2>2 DEF Closing
  <2>4. Sound([c EXCEPT !.exited = TRUE])
    BY <2>2, <2>3
  <2>5. Sound([c EXCEPT !.lost = TRUE])
    BY <2>2, <2>3
  <2>6. Sound([c EXCEPT !.reaped = TRUE])
    BY <2>2, <2>3
  <2>7. Sound([c EXCEPT !.reopenedAs = e.arg])
    BY <2>2, <2>3
  <2>8. Sound([l EXCEPT !.archived = TRUE, !.managed = FALSE])
    BY <1>1
  <2> HIDE DEF Sound, LaneStates
  <2> QED BY <2>2, <2>4, <2>5, <2>6, <2>7, <2>8
<1>8. ApplyLaneEvent(s, e) \in
          {Created(l, e), [l EXCEPT !.conversation = e.arg], Rebound(l, e),
           [Present(l) EXCEPT !.ready = TRUE], [Present(l) EXCEPT !.attached = TRUE],
           Active(l, e), Killed(l, e), [Closing(l, e.at) EXCEPT !.exited = TRUE],
           [Closing(l, e.at) EXCEPT !.lost = TRUE], [Closing(l, e.at) EXCEPT !.reaped = TRUE],
           [Closing(l, e.at) EXCEPT !.reopenedAs = e.arg],
           [l EXCEPT !.archived = TRUE, !.managed = FALSE], l}
  BY DEF ApplyLaneEvent, l
<1> HIDE DEF Sound
<1> QED BY <1>1, <1>2, <1>3, <1>4, <1>5, <1>6, <1>7, <1>8

LEMMA RowIsDated ==
    ASSUME NEW e \in Row
    PROVE  e.at \in Nat \ {0} /\ e.lane \in Lanes /\ e.arg \in Values /\ e.with \in Values
  BY LedgerAssumption DEF Row, Activities, Values

LEMMA FoldIsSound ==
    ASSUME NEW lane, NEW facts \in Seq(Row)
    PROVE  Sound(FoldLane(lane, facts))
<1>1. PICK f : f = LaneAfter(lane, facts)
  OBVIOUS
<1>2. Runs(lane, facts, Len(facts), f) /\ Len(facts) \in Nat
  BY <1>1, LaneAfterRuns
<1> DEFINE S == {n \in Nat : n <= Len(facts) => Sound(f[n])}
<1>3. 0 \in S
  BY <1>2, NewIsSound DEF Runs
<1>4. ASSUME NEW n \in Nat, n \in S PROVE n + 1 \in S
  <2>1. SUFFICES ASSUME n + 1 <= Len(facts) PROVE Sound(f[n + 1])
    OBVIOUS
  <2>2. facts[n + 1] \in Row /\ Sound(f[n])
    BY <1>2, <1>4, <2>1
  <2>3. f[n + 1] = IF facts[n + 1].lane = lane THEN ApplyLaneEvent(f[n], facts[n + 1]) ELSE f[n]
    BY <1>2, <2>1 DEF Runs
  <2>4. Sound(ApplyLaneEvent(f[n], facts[n + 1]))
    BY <2>2, RowIsDated, EventKeepsSound
  <2> QED BY <2>2, <2>3, <2>4
<1>5. Nat \subseteq S
  BY <1>3, <1>4, SetInduction
<1> QED BY <1>1, <1>2, <1>5 DEF FoldLane

(* Whatever is appended to a table after a user's end, the lane stays      *)
(* closed, with the same initiator and the same date.                      *)
LEMMA EndStays ==
    ASSUME NEW lane, NEW facts \in Seq(Row), NEW e \in Row, FoldLane(lane, facts).killed,
           NEW running
    PROVE  LET before == FoldLane(lane, facts) after == FoldLane(lane, Append(facts, e)) IN
           /\ Ended(before)
           /\ Ended(after)
           /\ after.initiator = before.initiator /\ after.closedAt = before.closedAt
           /\ ClassifyLane(after, running) = "closed" /\ ~InRecoveryPlan(after, running)
<1>1. PICK before : before = FoldLane(lane, facts)
  OBVIOUS
<1>2. PICK after : after = FoldLane(lane, Append(facts, e))
  OBVIOUS
<1>3. before \in LaneStates(Values) /\ Ended(before)
  BY <1>1, FoldIsSound DEF Sound
<1>4. after = IF e.lane = lane THEN ApplyLaneEvent(before, e) ELSE before
  BY <1>1, <1>2, FoldAppend
<1>5. CASE e.lane = lane
  BY <1>1, <1>2, <1>3, <1>4, <1>5, EndIsFinal
<1>6. CASE e.lane # lane
  BY <1>1, <1>2, <1>3, <1>4, <1>6 DEF ClassifyLane, InRecoveryPlan, Over, Ended
<1> QED BY <1>5, <1>6

LEMMA NextGrows == RecordingInv /\ [Next]_vars => Grows
<1> SUFFICES ASSUME RecordingInv, [Next]_vars PROVE Grows
  OBVIOUS
<1>1. \A w \in Workers : call[w].stage = "inserting" => call[w].fact \in Activities
  BY DEF RecordingInv, RecordingType
<1> QED BY <1>1 DEF Next, vars, Appends, ReadStarts, ReadsRow, ReadEnds, ReadFails,
                    DaemonRestarts, Observes, DecidesFromMemory, Probes, DecidesFromQuery,
                    Inserts, Remembers, Returns, Grows

(* A lane that a user killed stays closed, out of the recovery plan and    *)
(* unmanaged, and keeps who ended it and when, along every table that any  *)
(* number of writers may append to (fold_events.go applyClosureEvent).     *)
THEOREM TombstoneIsFinalAlways == Spec => TombstoneIsFinal
<1> DEFINE StaysKilled(l) ==
      FoldLane(l, log).killed =>
          LET before == FoldLane(l, log) after == FoldLane(l, log)' IN
          /\ ~after.managed
          /\ \A running \in BOOLEAN : ClassifyLane(after, running) = "closed"
                                     /\ ~InRecoveryPlan(after, running)
          /\ after.initiator = before.initiator
          /\ after.closedAt = before.closedAt /\ before.closedAt # 0
<1>1. RecordingInv /\ [Next]_vars => [log' # log => \A l \in Lanes : StaysKilled(l)]_log
  <2> SUFFICES ASSUME RecordingInv, [Next]_vars, log' # log, NEW l \in Lanes PROVE StaysKilled(l)
    OBVIOUS
  <2>1. PICK e \in Row : log' = Append(log, e)
    BY NextGrows DEF Grows, Row
  <2>2. log \in Seq(Row)
    BY DEF RecordingInv, RecordingType, Row
  <2>3. SUFFICES ASSUME FoldLane(l, log).killed PROVE StaysKilled(l)
    OBVIOUS
  <2>4. PICK before : before = FoldLane(l, log)
    OBVIOUS
  <2>5. PICK after : after = FoldLane(l, log')
    OBVIOUS
  <2>6. \A running \in BOOLEAN :
           /\ Ended(before) /\ Ended(after)
           /\ after.initiator = before.initiator /\ after.closedAt = before.closedAt
           /\ ClassifyLane(after, running) = "closed" /\ ~InRecoveryPlan(after, running)
    BY <2>1, <2>2, <2>3, <2>4, <2>5, EndStays
  <2>7. FoldLane(l, log)' = after
    BY <2>5
  <2> QED BY <2>4, <2>6, <2>7 DEF Ended
<1> QED BY <1>1, MemoryIsTrue, PTL DEF Spec, TombstoneIsFinal

-----------------------------------------------------------------------------
(* The bounds: what the memory holds is within its limit, also when it is  *)
(* emptied between a decision and an insert; a worker at rest has nothing. *)
Remembrances(mem) == {l \in Lanes : mem[l] # 0}

Few(mem) == IsFiniteSet(Remembrances(mem)) /\ Cardinality(Remembrances(mem)) <= EntryLimit

BoundsInv ==
    /\ Len(log) <= MaxEvents
    /\ Few(memory)
    /\ \A w \in Workers : call[w].stage = "idle" => call[w].fact = Nothing

LEMMA EmptyIsFew == Few([l \in Lanes |-> 0])
<1>1. Remembrances([l \in Lanes |-> 0]) = {}
  BY DEF Remembrances
<1> QED BY <1>1, FS_EmptySet, LedgerAssumption DEF Few

LEMMA RememberedIsFew ==
    ASSUME memory \in [Lanes -> Nat], Few(memory), NEW lane \in Lanes, NEW t \in Nat
    PROVE  Few(Remembered(lane, t))
<1> DEFINE full == Cardinality(Remembrances(memory)) >= EntryLimit
<1>1. PICK kept : kept = IF full THEN [l \in Lanes |-> 0] ELSE memory
  OBVIOUS
<1>2. Remembered(lane, t) = [kept EXCEPT ![lane] = Later(kept[lane], t)]
  BY <1>1 DEF Remembered, Remembrances
<1>3. kept \in [Lanes -> Nat]
  BY <1>1
<1>4. /\ IsFiniteSet(Remembrances(kept)) /\ Cardinality(Remembrances(kept)) \in Nat
      /\ Cardinality(Remembrances(kept)) + 1 <= EntryLimit
  <2>1. CASE full
    <3>1. Remembrances(kept) = {}
      BY <1>1, <2>1 DEF Remembrances
    <3> QED BY <3>1, FS_EmptySet, LedgerAssumption
  <2>2. CASE ~full
    <3>1. kept = memory /\ Cardinality(Remembrances(memory)) \in Nat
      BY <1>1, <2>2, FS_CardinalityType DEF Few
    <3> QED BY <2>2, <3>1, LedgerAssumption DEF Few
  <2> QED BY <2>1, <2>2
<1>5. Remembrances(Remembered(lane, t)) \subseteq Remembrances(kept) \cup {lane}
  BY <1>2, <1>3 DEF Remembrances
<1>6. /\ IsFiniteSet(Remembrances(kept) \cup {lane})
      /\ Cardinality(Remembrances(kept) \cup {lane}) <= Cardinality(Remembrances(kept)) + 1
      /\ Cardinality(Remembrances(kept) \cup {lane}) \in Nat
  <2>1. PICK R : R = Remembrances(kept)
    OBVIOUS
  <2>2. IsFiniteSet(R) /\ Cardinality(R) \in Nat
    BY <1>4, <2>1
  <2>3. /\ IsFiniteSet(R \cup {lane})
        /\ Cardinality(R \cup {lane}) = IF lane \in R THEN Cardinality(R) ELSE Cardinality(R) + 1
    BY <2>2, FS_AddElement
  <2> QED BY <2>1, <2>2, <2>3
<1>7. /\ IsFiniteSet(Remembrances(Remembered(lane, t)))
      /\ Cardinality(Remembrances(Remembered(lane, t))) \in Nat
      /\ Cardinality(Remembrances(Remembered(lane, t)))
            <= Cardinality(Remembrances(kept) \cup {lane})
  BY <1>5, <1>6, FS_Subset, FS_CardinalityType
<1> QED BY <1>4, <1>6, <1>7, LedgerAssumption DEF Few

LEMMA BoundsStep == RecordingInv /\ BoundsInv /\ [Next]_vars => BoundsInv'
<1> SUFFICES ASSUME RecordingInv, BoundsInv, [Next]_vars PROVE BoundsInv'
  OBVIOUS
<1>1. Len(log') <= MaxEvents
  <2>1. log' = log \/ Len(log) < MaxEvents
    BY DEF Next, vars, Appends, ReadStarts, ReadsRow, ReadEnds, ReadFails,
           DaemonRestarts, Observes, DecidesFromMemory, Probes, DecidesFromQuery,
           Inserts, Remembers, Returns
  <2>2. log \in Seq(Row) /\ MaxEvents \in Nat
    BY LedgerAssumption DEF RecordingInv, RecordingType, Row
  <2>3. log' = log \/ Len(log') = Len(log) + 1
    BY <2>2, NextGrows DEF Grows, Row
  <2> QED BY <2>1, <2>2, <2>3 DEF BoundsInv
<1>2. Few(memory')
  <2>1. ASSUME NEW w \in Workers, DecidesFromQuery(w) \/ Remembers(w)
        PROVE  Few(memory')
    <3>1. /\ call[w].fact \in Activities /\ call[w].fact.lane \in Lanes /\ call[w].newest \in Nat
          /\ call[w].fact.at \in Nat
      BY <2>1, Dated DEF RecordingInv, RecordingType, DecidesFromQuery, Remembers, Calls
    <3>2. \E t \in Nat : memory' = Remembered(call[w].fact.lane, t)
      BY <2>1, <3>1 DEF DecidesFromQuery, Remembers
    <3> QED BY <3>1, <3>2, RememberedIsFew DEF BoundsInv, RecordingInv, RecordingType
  <2>2. CASE DaemonRestarts
    BY <2>2, EmptyIsFew DEF DaemonRestarts
  <2>3. CASE memory' = memory
    BY <2>3 DEF BoundsInv
  <2> QED BY <2>1, <2>2, <2>3 DEF Next, vars, Appends, ReadStarts, ReadsRow, ReadEnds, ReadFails,
              Observes, DecidesFromMemory, Probes, Inserts, Returns
<1>3. ASSUME NEW v \in Workers PROVE call'[v].stage = "idle" => call'[v].fact = Nothing
  <2>0. call[v] \in Calls /\ call \in [Workers -> Calls]
    BY DEF RecordingInv, RecordingType
  <2>1. ASSUME NEW w \in Workers,
               \/ Observes(w) \/ DecidesFromMemory(w) \/ Probes(w) \/ DecidesFromQuery(w)
               \/ Inserts(w) \/ Remembers(w) \/ Returns(w)
        PROVE  call'[v].stage = "idle" => call'[v].fact = Nothing
    <3>1. CASE v # w
      <4>1. call'[v] = call[v]
        BY <2>0, <2>1, <3>1 DEF Observes, DecidesFromMemory, Probes, DecidesFromQuery,
                        Inserts, Remembers, Returns, Settles
      <4> QED BY <4>1 DEF BoundsInv
    <3>2. CASE v = w
      <4>2. CASE Observes(w)
        BY <2>0, <3>2, <4>2 DEF Observes
      <4>3. CASE DecidesFromMemory(w) \/ DecidesFromQuery(w)
        BY <2>0, <3>2, <4>3 DEF DecidesFromMemory, DecidesFromQuery, Settles, Calls
      <4>4. CASE Probes(w)
        <5>1. PICK t : \/ call' = [call EXCEPT ![w] = Idle]
                       \/ call' = [call EXCEPT ![w] = [@ EXCEPT !.stage = "inserting"]]
                       \/ call' = [call EXCEPT ![w] = [@ EXCEPT !.stage = "probed", !.newest = t]]
          BY <4>4 DEF Probes
        <5>2. CASE call' = [call EXCEPT ![w] = Idle]
          BY <2>0, <3>2, <5>2 DEF Idle
        <5>3. CASE call' = [call EXCEPT ![w] = [@ EXCEPT !.stage = "inserting"]]
          BY <2>0, <3>2, <5>3 DEF Calls
        <5>4. CASE call' = [call EXCEPT ![w] = [@ EXCEPT !.stage = "probed", !.newest = t]]
          BY <2>0, <3>2, <5>4 DEF Calls
        <5> QED BY <5>1, <5>2, <5>3, <5>4
      <4>5. CASE Inserts(w)
        BY <2>0, <3>2, <4>5 DEF Inserts, Idle, Calls
      <4>6. CASE Remembers(w) \/ Returns(w)
        BY <2>0, <3>2, <4>6 DEF Remembers, Returns, Idle, Calls
      <4> QED BY <2>1, <4>2, <4>3, <4>4, <4>5, <4>6
    <3> QED BY <3>1, <3>2
  <2>2. CASE DaemonRestarts
    BY <2>2 DEF DaemonRestarts, Idle
  <2>3. CASE call' = call
    BY <2>3 DEF BoundsInv
  <2> QED BY <2>1, <2>2, <2>3 DEF Next, vars, Appends, ReadStarts, ReadsRow, ReadEnds, ReadFails
<1> QED BY <1>1, <1>2, <1>3 DEF BoundsInv

LEMMA BoundsInit == Init => BoundsInv
  BY EmptyIsFew, LedgerAssumption DEF Init, BoundsInv, Idle

LEMMA LedgerTypes == RecordingInv /\ ReadingInv /\ BoundsInv => TypeOK
<1> SUFFICES ASSUME RecordingInv, ReadingInv, BoundsInv PROVE TypeOK
  OBVIOUS
<1>1. (\A i \in DOMAIN log : log[i] \in Facts \cup Activities) /\ Len(log) <= MaxEvents
  BY DEF ReadingInv, BoundsInv, Row
<1>2. memory \in [Lanes -> {0} \cup Times \cup {f.at : f \in Facts}]
  <2>1. \A i \in DOMAIN log : log[i].at \in Times \cup {f.at : f \in Facts}
    BY <1>1 DEF Activities
  <2>2. \A l \in Lanes : memory[l] \in {0} \cup Times \cup {f.at : f \in Facts}
    BY <2>1 DEF RecordingInv, MemoryIsTold, Told
  <2> QED BY <2>2 DEF RecordingInv, RecordingType
<1>3. Cardinality({l \in Lanes : memory[l] # 0}) <= EntryLimit
  BY DEF BoundsInv, Few, Remembrances
<1>4. DOMAIN projection.lanes \subseteq Lanes
  <2>1. SubSeq(log, 1, projection.seq) \in Seq(Row)
    BY PrefixType DEF ReadingInv
  <2>2. \A facts \in Seq(Row) : DOMAIN Fold(facts) \subseteq Lanes
    BY RowIsDated DEF Fold
  <2> QED BY <2>1, <2>2 DEF ReadingInv, ProjectionIsFold
<1>5. projection.seq \in 0..Len(log)
  BY DEF ReadingInv
<1>6. reading.open => reading.seq \in projection.seq..reading.upTo /\ reading.upTo <= Len(log)
  BY DEF ReadingInv
<1>7. ASSUME NEW w \in Workers
      PROVE  /\ call[w].fact \in Activities \cup {Nothing}
             /\ call[w].stage = "idle" <=> call[w].fact = Nothing
             /\ call[w].stage \in {"idle", "deciding", "probed", "inserting", "inserted", "recorded"}
  BY NothingAssumption DEF RecordingInv, RecordingType, BoundsInv, Calls, Stages
<1> QED BY <1>1, <1>2, <1>3, <1>4, <1>5, <1>6, <1>7 DEF TypeOK

(* The types; the memory stays within its limit, and the cursor inside the *)
(* table (store.go rememberCoalesced, current.go CurrentStates).           *)
THEOREM LedgerTypeCorrect == Spec => []TypeOK
<1>1. Spec => []BoundsInv
  BY BoundsInit, BoundsStep, MemoryIsTrue, PTL DEF Spec
<1> QED BY <1>1, LedgerTypes, MemoryIsTrue, PublishedIsFold, PTL
=============================================================================
