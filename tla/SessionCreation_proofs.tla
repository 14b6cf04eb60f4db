----------------------- MODULE SessionCreation_proofs -----------------------
(***************************************************************************)
(* Proofs about creation, for any number of callers, operations, sessions  *)
(* and rows.  The inductive invariant says who holds the gate and the fold *)
(* slot, what a snapshot covers, and that a launch in hand is the only one *)
(* of its session; each part is kept by every action.  A second one, on    *)
(* top of it, follows what is recorded, tracked and launched of a request  *)
(* to the answer it gets, and from there on.                               *)
(***************************************************************************)
EXTENDS SessionCreation, TLAPS

Calls == [stage : Stages, op : Operations \cup {Nothing}, work : Works \cup {Nothing},
          marked : BOOLEAN, mark : Nat, upTo : Nat, lane : Lanes \cup {Nothing}]
Kinds == {"none", "refused", "failed", "conflict", "replayed", "created"}
Given == [kind : Kinds, lane : Lanes \cup {Nothing}, op : Operations \cup {Nothing},
          work : Works \cup {Nothing}, reason : Reasons, own : Lanes \cup {Nothing}]

(* The conjuncts of TypeOK, by what disturbs them together.                *)
LogType == log \in Seq(Rows) /\ minted \in 0..MaxLanes
CacheType == cache \in [ready : BOOLEAN, mark : Nat, upTo : Nat]
CallType == call \in [Callers -> Calls]
AnswerType == answer \in [Callers -> Given]
WorldType == /\ registry \in [Lanes -> {"none", "live", "exited"}]
             /\ runner \in [Lanes -> {"none", "up", "ended"}]
             /\ launches \in [Lanes -> Nat]
Holders ==
    /\ gate \in Callers \cup {Nothing} /\ folder \in Callers \cup {Nothing}
    /\ \A c \in Callers : /\ call[c].stage \in Making => gate = c
                          /\ gate = c => call[c].stage \in Looking \cup Checking \cup Making
                          /\ folder = c <=> call[c].stage \in {"folding", "folded"}
Tracking == starting \subseteq 1..minted

LEMMA TypeParts ==
    TypeOK <=> LogType /\ CacheType /\ CallType /\ AnswerType /\ WorldType /\ Holders /\ Tracking
  BY DEF TypeOK, LogType, CacheType, CallType, AnswerType, WorldType, Holders, Tracking,
         Calls, Given, Kinds

(* A request has a session in hand from Tracks on, or the one it was told  *)
(* of; the sessions of the ledger were handed out.                         *)
Own == {"recording", "registered", "managed"} \cup Launching
InHand ==
    /\ \A c \in Callers :
           /\ call[c].stage \in Own \cup Checking => call[c].lane \in 1..minted
           /\ call[c].stage \notin Own \cup Checking => call[c].lane = Nothing
    /\ \A i \in DOMAIN log : log[i].type = "created" => log[i].lane \in 1..minted

(* No two requests have the same session in hand to launch.                *)
OwnAlone ==
    \A c, d \in Callers :
        call[c].stage \in Own /\ call[d].stage \in Own /\ call[c].lane = call[d].lane => c = d

(* A snapshot covers what was there when its mark was read.  While a       *)
(* request holds the gate no creation is recorded after its mark, or after *)
(* its fold.                                                               *)
Snapshots ==
    /\ cache.ready => cache.mark <= cache.upTo /\ cache.upTo <= Len(log)
    /\ \A c \in Callers :
           /\ call[c].stage \in Looking => call[c].mark <= Len(log)
           /\ call[c].stage = "folded" => call[c].mark <= call[c].upTo /\ call[c].upTo <= Len(log)
           /\ call[c].stage \in Looking /\ gate = c /\ call[c].marked =>
                  \A i \in DOMAIN log : log[i].type = "created" => i <= call[c].mark
           /\ call[c].stage = "folded" /\ gate = c =>
                  \A i \in DOMAIN log : log[i].type = "created" => i <= call[c].upTo

Unrepeated ==
    \A i, j \in DOMAIN log :
        /\ log[i].type = "created" /\ log[j].type = "created"
        /\ log[i].op # Nothing /\ log[i].op = log[j].op
        => i = j

Current ==
    \A c \in Callers : call[c].stage \in Making /\ call[c].op # Nothing =>
        \A i \in DOMAIN log : log[i].type = "created" => log[i].op # call[c].op

(* A session is launched once, after its record, by who has it in hand.    *)
LaunchedOnce ==
    /\ \A l \in Lanes :
           /\ launches[l] <= 1
           /\ launches[l] = 1 => \E i \in DOMAIN log : log[i].type = "created" /\ log[i].lane = l
           /\ l > minted => launches[l] = 0
    /\ \A c \in Callers :
           /\ call[c].stage \in {"recording", "launching"} => launches[call[c].lane] = 0
           /\ call[c].stage \in Launching =>
                  \E i \in DOMAIN log : log[i].type = "created" /\ log[i].lane = call[c].lane

CreationInv == TypeOK /\ InHand /\ OwnAlone /\ Snapshots /\ Unrepeated /\ Current /\ LaunchedOnce

-----------------------------------------------------------------------------
(* What one step of a request does to the requests being served.           *)

Only(c) == \A d \in Callers \ {c} : call'[d] = call[d]

Moved(c, stage) ==
    /\ call'[c].stage = stage
    /\ call'[c].op = call[c].op /\ call'[c].work = call[c].work
    /\ call'[c].marked = call[c].marked
    /\ call'[c].mark = call[c].mark /\ call'[c].upTo = call[c].upTo
    /\ call'[c].lane = call[c].lane
    /\ Only(c)

Ended(c) ==
    /\ call'[c] = NoCall
    /\ gate' = IF gate = c THEN Nothing ELSE gate
    /\ Only(c)

Begun(c) ==
    /\ call'[c].stage \in {"gate", "lookup"} /\ call'[c].lane = Nothing
    /\ call'[c].stage = "lookup" => call'[c].mark \in {0, Len(log)}
    /\ Only(c)

(* A snapshot either has no creation for the operation, or has one.        *)
Outcome(c, upTo) ==
    \/ /\ call'[c].stage = (IF gate = c THEN "making" ELSE "gate")
       /\ call'[c].lane = call[c].lane /\ call'[c].op = call[c].op
       /\ \A i \in 1..upTo : log[i].type = "created" => log[i].op # call[c].op
       /\ gate' = gate /\ Only(c)
    \/ /\ call'[c].stage = "checking"
       /\ \E i \in 1..upTo : log[i].type = "created" /\ call'[c].lane = log[i].lane
       /\ gate' = gate /\ Only(c)
    \/ Ended(c)

Folded(c) ==
    /\ call'[c].stage = "folded" /\ call'[c].upTo = Len(log)
    /\ call'[c].marked = call[c].marked /\ call'[c].mark = call[c].mark
    /\ call'[c].lane = call[c].lane /\ call'[c].op = call[c].op
    /\ Only(c)

Gated(c) ==
    /\ call'[c].stage \in {"making", "lookup"}
    /\ call'[c].stage = "making" => call[c].op = Nothing
    /\ call'[c].stage = "lookup" =>
           call'[c].mark = IF call'[c].marked THEN Len(log) ELSE 0
    /\ call'[c].op = call[c].op /\ call'[c].lane = call[c].lane
    /\ Only(c)

Made(c) ==
    /\ call'[c].stage = "recording" /\ call'[c].lane = minted + 1
    /\ call'[c].op = call[c].op /\ Only(c)

(* Replacing one request.                                                  *)
LEMMA CallSet ==
    ASSUME CallType, NEW c \in Callers, NEW C \in Calls, call' = [call EXCEPT ![c] = C]
    PROVE  CallType' /\ call'[c] = C /\ Only(c)
  BY DEF CallType, Only

LEMMA NoCallType == NoCall \in Calls
  BY DEF NoCall, Calls, Stages, Looking, Checking, Making, Launching

LEMMA AtStep ==
    ASSUME CallType, NEW c \in Callers, NEW s \in Stages, call' = At(c, s)
    PROVE  CallType' /\ Moved(c, s)
<1> DEFINE C == [call[c] EXCEPT !.stage = s]
<1>1. call[c] \in Calls
  BY DEF CallType
<1>2. C \in Calls /\ C.stage = s /\ C.op = call[c].op /\ C.work = call[c].work
      /\ C.marked = call[c].marked /\ C.mark = call[c].mark /\ C.upTo = call[c].upTo /\ C.lane = call[c].lane
  BY <1>1 DEF Calls
<1>3. call' = [call EXCEPT ![c] = C]
  BY DEF At
<1> HIDE DEF C
<1> QED BY <1>2, <1>3, CallSet DEF Moved

LEMMA EndStep ==
    ASSUME CallType, NEW c \in Callers, NEW k, NEW l, NEW why, Answers(c, k, l, why)
    PROVE  CallType' /\ Ended(c)
<1>1. call' = [call EXCEPT ![c] = NoCall] /\ gate' = IF gate = c THEN Nothing ELSE gate
  BY DEF Answers
<1> QED BY <1>1, NoCallType, CallSet DEF Ended

(* The rows a snapshot covers are rows of the ledger.                      *)
LEMMA Covered ==
    ASSUME LogType, NEW n \in Nat, n <= Len(log), NEW i \in 1..n
    PROVE  i \in DOMAIN log /\ log[i] \in Rows
  BY DEF LogType

LEMMA DecideStep ==
    ASSUME TypeOK, InHand, NEW c \in Callers, call[c].stage \in Looking,
           NEW n \in Nat, n <= Len(log), Decides(c, n)
    PROVE  CallType' /\ Outcome(c, n)
<1>0. CallType /\ LogType
  BY TypeParts
<1>1. call[c] \in Calls
  BY <1>0 DEF CallType
<1>2. CASE Creations(n, call[c].op) = {} /\ call' = Unrecorded(c) /\ UNCHANGED gate
  <2> DEFINE s == IF gate = c THEN "making" ELSE "gate"
             C == [call[c] EXCEPT !.stage = s, !.marked = FALSE, !.mark = 0, !.upTo = 0]
  <2>1. C \in Calls /\ C.stage = s /\ C.lane = call[c].lane /\ C.op = call[c].op
    BY <1>1 DEF Calls, Stages, Making
  <2>2. call' = [call EXCEPT ![c] = C]
    BY <1>2 DEF Unrecorded
  <2> HIDE DEF C
  <2>3. \A i \in 1..n : log[i].type = "created" => log[i].op # call[c].op
    BY <1>2 DEF Creations
  <2> QED BY <1>0, <1>2, <2>1, <2>2, <2>3, CallSet DEF Outcome
<1>3. ASSUME NEW i \in Creations(n, call[c].op), UNCHANGED gate,
             call' = [call EXCEPT ![c] = [@ EXCEPT !.stage = "checking",
                         !.marked = FALSE, !.mark = 0, !.upTo = n, !.lane = log[i].lane]]
      PROVE  CallType' /\ Outcome(c, n)
  <2> DEFINE C == [call[c] EXCEPT !.stage = "checking", !.marked = FALSE, !.mark = 0,
                                  !.upTo = n, !.lane = log[i].lane]
  <2>1. i \in 1..n /\ log[i].type = "created"
    BY DEF Creations
  <2>2. i \in DOMAIN log
    BY <1>0, <2>1, Covered
  <2>3. log[i].lane \in Lanes
    <3>1. log[i].lane \in 1..minted
      BY <2>1, <2>2 DEF InHand
    <3> QED BY <1>0, <3>1, CreationAssumption DEF LogType, Lanes
  <2>4. C \in Calls /\ C.stage = "checking" /\ C.lane = log[i].lane
    BY <1>1, <2>3 DEF Calls, Stages, Checking
  <2>5. call' = [call EXCEPT ![c] = C]
    BY <1>3
  <2> HIDE DEF C
  <2>6. CallType' /\ call'[c] = C /\ Only(c)
    BY <1>0, <2>4, <2>5, CallSet
  <2>7. call'[c].stage = "checking" /\ call'[c].lane = log[i].lane
    BY <2>4, <2>6
  <2> QED BY <1>3, <2>1, <2>6, <2>7 DEF Outcome
<1>4. ASSUME NEW i \in Creations(n, call[c].op),
             Answers(c, "conflict", log[i].lane, "other work")
      PROVE  CallType' /\ Outcome(c, n)
  BY <1>0, <1>4, EndStep DEF Outcome
<1> QED BY <1>2, <1>3, <1>4 DEF Decides

(* What the cache holds for a mark covers rows of the ledger.              *)
LEMMA CacheCovers ==
    ASSUME TypeOK, Snapshots, NEW c \in Callers, Cached(c)
    PROVE  /\ cache.upTo \in Nat /\ cache.upTo <= Len(log)
           /\ call[c].marked /\ call[c].mark <= cache.upTo
  BY DEF TypeOK, Snapshots, Cached

-----------------------------------------------------------------------------
(* The steps of a request.                                                 *)

LEMMA AsksStep ==
    ASSUME TypeOK, InHand, Snapshots, NEW c \in Callers, Asks(c)
    PROVE  /\ CallType'
           /\ Begun(c)
<1>1. PICK r \in Requests, marked \in MarkReads :
          LET request == [NoCall EXCEPT !.stage = "gate", !.op = r.op, !.work = r.work] IN
          call' = [call EXCEPT ![c] = IF r.op = Nothing THEN request ELSE Marking(request, marked)]
  BY DEF Asks
<1> DEFINE request == [NoCall EXCEPT !.stage = "gate", !.op = r.op, !.work = r.work]
           C == IF r.op = Nothing THEN request ELSE Marking(request, marked)
<1>2. Len(log) \in Nat /\ CallType
  BY TypeParts DEF LogType
<1>3. r.op \in Operations \cup {Nothing} /\ r.work \in Works /\ marked \in BOOLEAN
  BY CreationAssumption
<1>4. /\ C \in Calls /\ C.stage \in {"gate", "lookup"} /\ C.lane = Nothing
      /\ C.stage = "lookup" => C.mark \in {0, Len(log)}
  BY <1>2, <1>3 DEF NoCall, Marking, Calls, Stages, Looking
<1>5. call' = [call EXCEPT ![c] = C]
  BY <1>1
<1> HIDE DEF C
<1> QED BY <1>2, <1>4, <1>5, CallSet DEF Begun

LEMMA LooksUpStep ==
    ASSUME TypeOK, InHand, Snapshots, NEW c \in Callers, LooksUp(c)
    PROVE  /\ CallType'
           /\ (Cached(c) /\ Outcome(c, cache.upTo)) \/ (Moved(c, "missed") /\ gate' = gate)
<1>0. CallType /\ "missed" \in Stages
  BY TypeParts DEF Stages, Looking
<1>1. CASE Cached(c) /\ Decides(c, cache.upTo)
  BY <1>1, CacheCovers, DecideStep DEF LooksUp, Looking
<1>2. CASE call' = At(c, "missed") /\ UNCHANGED gate
  BY <1>0, <1>2, AtStep
<1> QED BY <1>1, <1>2 DEF LooksUp

LEMMA AdmittedStep ==
    ASSUME TypeOK, InHand, Snapshots, NEW c \in Callers, Admitted(c)
    PROVE  /\ CallType'
           /\ \/ Cached(c) /\ Outcome(c, cache.upTo) /\ folder' = folder
              \/ Moved(c, "folding") /\ gate' = gate /\ folder' = c
<1>0. CallType /\ "folding" \in Stages
  BY TypeParts DEF Stages, Looking
<1>1. CASE Cached(c) /\ Decides(c, cache.upTo) /\ UNCHANGED folder
  BY <1>1, CacheCovers, DecideStep DEF Admitted, Looking
<1>2. CASE call' = At(c, "folding") /\ UNCHANGED gate /\ folder' = c
  BY <1>0, <1>2, AtStep
<1> QED BY <1>1, <1>2 DEF Admitted

LEMMA FoldsStep ==
    ASSUME TypeOK, InHand, Snapshots, NEW c \in Callers, Folds(c)
    PROVE  /\ CallType'
           /\ Folded(c)
<1> DEFINE C == [call[c] EXCEPT !.stage = "folded", !.upTo = Len(log)]
<1>1. Len(log) \in Nat /\ CallType /\ call[c] \in Calls
  BY TypeParts DEF LogType, CallType
<1>2. /\ C \in Calls /\ C.stage = "folded" /\ C.upTo = Len(log)
      /\ C.marked = call[c].marked /\ C.mark = call[c].mark
      /\ C.lane = call[c].lane /\ C.op = call[c].op
  BY <1>1 DEF Calls, Stages, Looking
<1>3. call' = [call EXCEPT ![c] = C]
  BY DEF Folds
<1> HIDE DEF C
<1> QED BY <1>1, <1>2, <1>3, CallSet DEF Folded

LEMMA PublishesStep ==
    ASSUME TypeOK, InHand, Snapshots, NEW c \in Callers, Publishes(c)
    PROVE  /\ CallType'
           /\ call[c].upTo \in Nat /\ Outcome(c, call[c].upTo)
<1>1. call[c].stage = "folded" /\ Decides(c, call[c].upTo)
  BY DEF Publishes
<1>2. call[c].upTo \in Nat /\ call[c].upTo <= Len(log)
  BY <1>1, TypeParts DEF CallType, Calls, Snapshots
<1> QED BY <1>1, <1>2, DecideStep DEF Looking

LEMMA LookupFailsStep ==
    ASSUME TypeOK, InHand, Snapshots, NEW c \in Callers, LookupFails(c)
    PROVE  /\ CallType'
           /\ Ended(c)
  BY TypeParts, EndStep DEF LookupFails, Refuses

LEMMA ChecksRegistryStep ==
    ASSUME TypeOK, InHand, Snapshots, NEW c \in Callers, ChecksRegistry(c)
    PROVE  /\ CallType'
           /\ Ended(c) \/ (\E s \in {"absent", "over"} : Moved(c, s) /\ gate' = gate)
<1>0. CallType /\ "absent" \in Stages /\ "over" \in Stages
  BY TypeParts DEF Stages, Checking
<1>1. CASE Answers(c, "replayed", call[c].lane, "none")
  BY <1>0, <1>1, EndStep
<1>2. CASE call' = At(c, "absent") /\ UNCHANGED gate
  BY <1>0, <1>2, AtStep
<1>3. CASE call' = At(c, "over") /\ UNCHANGED gate
  BY <1>0, <1>3, AtStep
<1> QED BY <1>1, <1>2, <1>3 DEF ChecksRegistry

LEMMA ChecksStartingStep ==
    ASSUME TypeOK, InHand, Snapshots, NEW c \in Callers, ChecksStarting(c)
    PROVE  /\ CallType'
           /\ Ended(c)
  BY TypeParts, EndStep DEF ChecksStarting

LEMMA TakesGateStep ==
    ASSUME TypeOK, InHand, Snapshots, NEW c \in Callers, TakesGate(c)
    PROVE  /\ CallType'
           /\ Gated(c)
<1>0. PICK marked \in MarkReads :
          call' = IF call[c].op = Nothing THEN At(c, "making")
                  ELSE [call EXCEPT ![c] = Marking(@, marked)]
  BY DEF TakesGate
<1> DEFINE C == IF call[c].op = Nothing THEN [call[c] EXCEPT !.stage = "making"]
                ELSE Marking(call[c], marked)
<1>1. Len(log) \in Nat /\ CallType /\ call[c] \in Calls
  BY TypeParts DEF LogType, CallType
<1>2. /\ C \in Calls /\ C.stage \in {"making", "lookup"}
      /\ C.stage = "making" => call[c].op = Nothing
      /\ C.stage = "lookup" => C.mark = IF C.marked THEN Len(log) ELSE 0
      /\ C.op = call[c].op /\ C.lane = call[c].lane
  BY <1>1, CreationAssumption DEF Marking, Calls, Stages, Looking, Making
<1>3. call' = [call EXCEPT ![c] = C]
  BY <1>0 DEF At
<1> HIDE DEF C
<1> QED BY <1>1, <1>2, <1>3, CallSet DEF Gated

LEMMA GivesUpStep ==
    ASSUME TypeOK, InHand, Snapshots, NEW c \in Callers, GivesUp(c)
    PROVE  /\ CallType'
           /\ Ended(c)
  BY TypeParts, EndStep DEF GivesUp, Refuses

LEMMA PreparationFailsStep ==
    ASSUME TypeOK, InHand, Snapshots, NEW c \in Callers, PreparationFails(c)
    PROVE  /\ CallType'
           /\ Ended(c)
  BY TypeParts, EndStep DEF PreparationFails, Refuses

LEMMA TracksStep ==
    ASSUME TypeOK, InHand, Snapshots, NEW c \in Callers, Tracks(c)
    PROVE  /\ CallType'
           /\ Made(c)
<1> DEFINE C == [call[c] EXCEPT !.stage = "recording", !.lane = minted + 1]
<1>1. minted + 1 \in Lanes /\ CallType /\ call[c] \in Calls
  BY TypeParts, CreationAssumption DEF LogType, CallType, Tracks, Lanes
<1>2. C \in Calls /\ C.stage = "recording" /\ C.lane = minted + 1 /\ C.op = call[c].op
  BY <1>1 DEF Calls, Stages, Making
<1>3. call' = [call EXCEPT ![c] = C]
  BY DEF Tracks
<1> HIDE DEF C
<1> QED BY <1>1, <1>2, <1>3, CallSet DEF Made

LEMMA RecordsStep ==
    ASSUME TypeOK, InHand, Snapshots, NEW c \in Callers, Records(c)
    PROVE  /\ CallType'
           /\ Moved(c, "launching")
<1>1. CallType /\ call' = At(c, "launching") /\ "launching" \in Stages
  BY TypeParts DEF Records, Stages, Launching
<1> QED BY <1>1, AtStep

LEMMA RecordFailsStep ==
    ASSUME TypeOK, InHand, Snapshots, NEW c \in Callers, RecordFails(c)
    PROVE  /\ CallType'
           /\ Ended(c)
  BY TypeParts, EndStep DEF RecordFails, Refuses

LEMMA LaunchesStep ==
    ASSUME TypeOK, InHand, Snapshots, NEW c \in Callers, Launches(c)
    PROVE  /\ CallType'
           /\ Moved(c, "launched")
<1>1. CallType /\ call' = At(c, "launched") /\ "launched" \in Stages
  BY TypeParts DEF Launches, Stages, Launching
<1> QED BY <1>1, AtStep

LEMMA RunnerAnswersStep ==
    ASSUME TypeOK, InHand, Snapshots, NEW c \in Callers, RunnerAnswers(c)
    PROVE  /\ CallType'
           /\ Moved(c, "ready")
<1>1. CallType /\ call' = At(c, "ready") /\ "ready" \in Stages
  BY TypeParts DEF RunnerAnswers, Stages, Launching
<1> QED BY <1>1, AtStep

LEMMA LaunchFailsStep ==
    ASSUME TypeOK, InHand, Snapshots, NEW c \in Callers, LaunchFails(c)
    PROVE  /\ CallType'
           /\ Ended(c)
  BY TypeParts, EndStep DEF LaunchFails, Failed

LEMMA RegistersStep ==
    ASSUME TypeOK, InHand, Snapshots, NEW c \in Callers, Registers(c)
    PROVE  /\ CallType'
           /\ Moved(c, "registered")
<1>1. CallType /\ call' = At(c, "registered") /\ "registered" \in Stages
  BY TypeParts DEF Registers, Stages, Launching
<1> QED BY <1>1, AtStep

LEMMA UntracksStep ==
    ASSUME TypeOK, InHand, Snapshots, NEW c \in Callers, Untracks(c)
    PROVE  /\ CallType'
           /\ Moved(c, "managed")
<1>1. CallType /\ call' = At(c, "managed") /\ "managed" \in Stages
  BY TypeParts DEF Untracks, Stages, Launching
<1> QED BY <1>1, AtStep

LEMMA FinishesStep ==
    ASSUME TypeOK, InHand, Snapshots, NEW c \in Callers, Finishes(c)
    PROVE  /\ CallType'
           /\ Ended(c)
  BY TypeParts, EndStep DEF Finishes, Failed

-----------------------------------------------------------------------------
(* What a step does to the ledger: nothing, a row that creates no session, *)
(* or the creation of the request that holds the gate.                     *)

Quiet == log' = log \/ \E r \in Rows : r.type # "created" /\ log' = Append(log, r)

Recorded(c) ==
    /\ call[c].stage = "recording" /\ gate' = Nothing
    /\ log' = Append(log, CreatedRow(call[c].lane, call[c]))

LEMMA QuietLog ==
    ASSUME LogType, Quiet
    PROVE  /\ log' \in Seq(Rows) /\ Len(log) <= Len(log')
           /\ Len(log) \in Nat /\ Len(log') \in Nat
           /\ \A i \in DOMAIN log : i \in DOMAIN log' /\ log'[i] = log[i]
           /\ \A i \in DOMAIN log' : log'[i].type = "created" => i \in DOMAIN log
<1>1. CASE log' = log
  BY <1>1 DEF LogType
<1>2. CASE \E r \in Rows : r.type # "created" /\ log' = Append(log, r)
  <2>1. PICK r \in Rows : r.type # "created" /\ log' = Append(log, r)
    BY <1>2
  <2> QED BY <2>1 DEF LogType
<1> QED BY <1>1, <1>2 DEF Quiet

LEMMA RecordLog ==
    ASSUME TypeOK, InHand, NEW c \in Callers, Recorded(c)
    PROVE  /\ log' \in Seq(Rows) /\ Len(log') = Len(log) + 1
           /\ Len(log) \in Nat
           /\ \A i \in DOMAIN log : i \in DOMAIN log' /\ log'[i] = log[i]
           /\ DOMAIN log' = DOMAIN log \cup {Len(log')} /\ Len(log') \notin DOMAIN log
           /\ log'[Len(log')].type = "created"
           /\ log'[Len(log')].lane = call[c].lane
           /\ log'[Len(log')].op = call[c].op
           /\ log'[Len(log')].work = call[c].work
<1> DEFINE r == CreatedRow(call[c].lane, call[c])
<1>1. LogType /\ call[c] \in Calls
  BY TypeParts DEF CallType
<1>2. call[c].lane \in 1..minted
  BY DEF InHand, Recorded, Own
<1>3. /\ r \in Rows /\ r.type = "created" /\ r.lane = call[c].lane /\ r.op = call[c].op
      /\ r.work = call[c].work
  BY <1>1 DEF Calls, Rows, CreatedRow
<1>4. log' = Append(log, r)
  BY DEF Recorded
<1> HIDE DEF r
<1> QED BY <1>1, <1>3, <1>4 DEF LogType

LEMMA RowType ==
    ASSUME NEW t \in {"launch_started", "runner_ready", "attached", "runner_exited", "runner_lost"},
           NEW l \in Lanes \cup {Nothing}
    PROVE  Row(t, l) \in Rows /\ Row(t, l).type # "created"
  BY DEF Row, Rows

(* A session in hand is one that may have a row.                           *)
LEMMA HandLane ==
    ASSUME TypeOK, InHand, NEW c \in Callers, call[c].stage \in Own \cup Checking
    PROVE  call[c].lane \in Lanes /\ call[c].lane \in 1..minted
<1>1. call[c].lane \in 1..minted
  BY DEF InHand
<1> QED BY <1>1, TypeParts, CreationAssumption DEF LogType, Lanes

(* Every step is of one of the three kinds.                                *)
LEMMA NextLog ==
    ASSUME TypeOK, InHand, [Next]_vars
    PROVE  Quiet \/ \E d \in Callers : Recorded(d)
<1>1. ASSUME NEW c \in Callers, Asks(c) PROVE Quiet \/ \E d \in Callers : Recorded(d)
  BY <1>1 DEF Asks, memory, world, Quiet
<1>2. ASSUME NEW c \in Callers, LooksUp(c) PROVE Quiet \/ \E d \in Callers : Recorded(d)
  BY <1>2 DEF LooksUp, memory, world, Quiet
<1>3. ASSUME NEW c \in Callers, Admitted(c) PROVE Quiet \/ \E d \in Callers : Recorded(d)
  BY <1>3 DEF Admitted, memory, world, Quiet
<1>4. ASSUME NEW c \in Callers, Folds(c) PROVE Quiet \/ \E d \in Callers : Recorded(d)
  BY <1>4 DEF Folds, memory, world, Quiet
<1>5. ASSUME NEW c \in Callers, Publishes(c) PROVE Quiet \/ \E d \in Callers : Recorded(d)
  BY <1>5 DEF Publishes, memory, world, Quiet
<1>6. ASSUME NEW c \in Callers, LookupFails(c) PROVE Quiet \/ \E d \in Callers : Recorded(d)
  BY <1>6 DEF LookupFails, memory, world, Quiet
<1>7. ASSUME NEW c \in Callers, ChecksRegistry(c) PROVE Quiet \/ \E d \in Callers : Recorded(d)
  BY <1>7 DEF ChecksRegistry, memory, world, Quiet
<1>8. ASSUME NEW c \in Callers, ChecksStarting(c) PROVE Quiet \/ \E d \in Callers : Recorded(d)
  BY <1>8 DEF ChecksStarting, memory, world, Quiet
<1>9. ASSUME NEW c \in Callers, TakesGate(c) PROVE Quiet \/ \E d \in Callers : Recorded(d)
  BY <1>9 DEF TakesGate, memory, world, Quiet
<1>10. ASSUME NEW c \in Callers, GivesUp(c) PROVE Quiet \/ \E d \in Callers : Recorded(d)
  BY <1>10 DEF GivesUp, memory, world, Quiet
<1>11. ASSUME NEW c \in Callers, PreparationFails(c) PROVE Quiet \/ \E d \in Callers : Recorded(d)
  BY <1>11 DEF PreparationFails, memory, world, Quiet
<1>12. ASSUME NEW c \in Callers, Tracks(c) PROVE Quiet \/ \E d \in Callers : Recorded(d)
  BY <1>12 DEF Tracks, memory, world, Quiet
<1>13. ASSUME NEW c \in Callers, Records(c) PROVE Quiet \/ \E d \in Callers : Recorded(d)
  BY <1>13 DEF Records, Recorded, At
<1>14. ASSUME NEW c \in Callers, RecordFails(c) PROVE Quiet \/ \E d \in Callers : Recorded(d)
  <2>1. gate = c /\ gate' = Nothing
    BY <1>14, TypeParts DEF RecordFails, Refuses, Answers, Holders, Making
  <2> QED BY <1>14, <2>1 DEF RecordFails, Recorded, Quiet
<1>15. ASSUME NEW c \in Callers, Launches(c) PROVE Quiet \/ \E d \in Callers : Recorded(d)
  <2>1. call[c].lane \in Lanes
    BY <1>15, HandLane DEF Launches, Own, Launching
  <2> QED BY <1>15, <2>1, RowType DEF Launches, Observes, Quiet
<1>16. ASSUME NEW c \in Callers, RunnerAnswers(c) PROVE Quiet \/ \E d \in Callers : Recorded(d)
  <2>1. call[c].lane \in Lanes
    BY <1>16, HandLane DEF RunnerAnswers, Own, Launching
  <2> QED BY <1>16, <2>1, RowType DEF RunnerAnswers, Observes, Quiet
<1>17. ASSUME NEW c \in Callers, LaunchFails(c) PROVE Quiet \/ \E d \in Callers : Recorded(d)
  BY <1>17 DEF LaunchFails, memory, world, Quiet
<1>18. ASSUME NEW c \in Callers, Registers(c) PROVE Quiet \/ \E d \in Callers : Recorded(d)
  BY <1>18 DEF Registers, memory, world, Quiet
<1>19. ASSUME NEW c \in Callers, Untracks(c) PROVE Quiet \/ \E d \in Callers : Recorded(d)
  BY <1>19 DEF Untracks, memory, world, Quiet
<1>20. ASSUME NEW c \in Callers, Finishes(c) PROVE Quiet \/ \E d \in Callers : Recorded(d)
  BY <1>20 DEF Finishes, memory, world, Quiet
<1>21. ASSUME NEW l \in Lanes, RunnerEnds(l) PROVE Quiet \/ \E d \in Callers : Recorded(d)
  BY <1>21 DEF RunnerEnds, memory, world, Quiet
<1>22. ASSUME NEW l \in Lanes, HearsExit(l) PROVE Quiet \/ \E d \in Callers : Recorded(d)
  BY <1>22, RowType DEF HearsExit, Observes, Quiet
<1>23. ASSUME NEW l \in Lanes, Forgets(l) PROVE Quiet \/ \E d \in Callers : Recorded(d)
  BY <1>23 DEF Forgets, memory, world, Quiet
<1>24. ASSUME NEW l \in Lanes, Adopts(l) PROVE Quiet \/ \E d \in Callers : Recorded(d)
  BY <1>24, RowType DEF Adopts, Observes, Quiet
<1>25. ASSUME NEW l \in Lanes, RecordsLoss(l) PROVE Quiet \/ \E d \in Callers : Recorded(d)
  BY <1>25, RowType DEF RecordsLoss, Observes, Quiet
<1>26. CASE OthersAppend
  BY <1>26, RowType DEF OthersAppend, Observes, Quiet
<1>27. CASE DaemonRestarts
  BY <1>27 DEF DaemonRestarts, memory, world, Quiet
<1>28. CASE UNCHANGED vars
  BY <1>28 DEF vars, world, Quiet
<1> QED BY <1>1, <1>2, <1>3, <1>4, <1>5, <1>6, <1>7, <1>8, <1>9, <1>10, <1>11, <1>12, <1>13, <1>14, <1>15, <1>16, <1>17, <1>18, <1>19, <1>20, <1>21, <1>22, <1>23, <1>24, <1>25, <1>26, <1>27, <1>28 DEF Next, Lookup, Answering, Creating, Launch, Around

(* Ids are handed out one at a time.                                       *)
LEMMA NextMinted ==
    ASSUME TRUE, [Next]_vars
    PROVE  minted' = minted \/ (\E d \in Callers : Tracks(d))
<1>1. ASSUME NEW c \in Callers, Asks(c) PROVE minted' = minted \/ (\E d \in Callers : Tracks(d))
  BY <1>1 DEF Asks, memory, world
<1>2. ASSUME NEW c \in Callers, LooksUp(c) PROVE minted' = minted \/ (\E d \in Callers : Tracks(d))
  BY <1>2 DEF LooksUp, memory, world
<1>3. ASSUME NEW c \in Callers, Admitted(c) PROVE minted' = minted \/ (\E d \in Callers : Tracks(d))
  BY <1>3 DEF Admitted, memory, world
<1>4. ASSUME NEW c \in Callers, Folds(c) PROVE minted' = minted \/ (\E d \in Callers : Tracks(d))
  BY <1>4 DEF Folds, memory, world
<1>5. ASSUME NEW c \in Callers, Publishes(c) PROVE minted' = minted \/ (\E d \in Callers : Tracks(d))
  BY <1>5 DEF Publishes, memory, world
<1>6. ASSUME NEW c \in Callers, LookupFails(c) PROVE minted' = minted \/ (\E d \in Callers : Tracks(d))
  BY <1>6 DEF LookupFails, memory, world
<1>7. ASSUME NEW c \in Callers, ChecksRegistry(c) PROVE minted' = minted \/ (\E d \in Callers : Tracks(d))
  BY <1>7 DEF ChecksRegistry, memory, world
<1>8. ASSUME NEW c \in Callers, ChecksStarting(c) PROVE minted' = minted \/ (\E d \in Callers : Tracks(d))
  BY <1>8 DEF ChecksStarting, memory, world
<1>9. ASSUME NEW c \in Callers, TakesGate(c) PROVE minted' = minted \/ (\E d \in Callers : Tracks(d))
  BY <1>9 DEF TakesGate, memory, world
<1>10. ASSUME NEW c \in Callers, GivesUp(c) PROVE minted' = minted \/ (\E d \in Callers : Tracks(d))
  BY <1>10 DEF GivesUp, memory, world
<1>11. ASSUME NEW c \in Callers, PreparationFails(c) PROVE minted' = minted \/ (\E d \in Callers : Tracks(d))
  BY <1>11 DEF PreparationFails, memory, world
<1>12. ASSUME NEW c \in Callers, Tracks(c) PROVE minted' = minted \/ (\E d \in Callers : Tracks(d))
  BY <1>12 DEF Tracks
<1>13. ASSUME NEW c \in Callers, Records(c) PROVE minted' = minted \/ (\E d \in Callers : Tracks(d))
  BY <1>13 DEF Records, memory, world
<1>14. ASSUME NEW c \in Callers, RecordFails(c) PROVE minted' = minted \/ (\E d \in Callers : Tracks(d))
  BY <1>14 DEF RecordFails, memory, world
<1>15. ASSUME NEW c \in Callers, Launches(c) PROVE minted' = minted \/ (\E d \in Callers : Tracks(d))
  BY <1>15 DEF Launches, memory, world
<1>16. ASSUME NEW c \in Callers, RunnerAnswers(c) PROVE minted' = minted \/ (\E d \in Callers : Tracks(d))
  BY <1>16 DEF RunnerAnswers, memory, world
<1>17. ASSUME NEW c \in Callers, LaunchFails(c) PROVE minted' = minted \/ (\E d \in Callers : Tracks(d))
  BY <1>17 DEF LaunchFails, memory, world
<1>18. ASSUME NEW c \in Callers, Registers(c) PROVE minted' = minted \/ (\E d \in Callers : Tracks(d))
  BY <1>18 DEF Registers, memory, world
<1>19. ASSUME NEW c \in Callers, Untracks(c) PROVE minted' = minted \/ (\E d \in Callers : Tracks(d))
  BY <1>19 DEF Untracks, memory, world
<1>20. ASSUME NEW c \in Callers, Finishes(c) PROVE minted' = minted \/ (\E d \in Callers : Tracks(d))
  BY <1>20 DEF Finishes, memory, world
<1>21. ASSUME NEW l \in Lanes, RunnerEnds(l) PROVE minted' = minted \/ (\E d \in Callers : Tracks(d))
  BY <1>21 DEF RunnerEnds, memory, world
<1>22. ASSUME NEW l \in Lanes, HearsExit(l) PROVE minted' = minted \/ (\E d \in Callers : Tracks(d))
  BY <1>22 DEF HearsExit, memory, world
<1>23. ASSUME NEW l \in Lanes, Forgets(l) PROVE minted' = minted \/ (\E d \in Callers : Tracks(d))
  BY <1>23 DEF Forgets, memory, world
<1>24. ASSUME NEW l \in Lanes, Adopts(l) PROVE minted' = minted \/ (\E d \in Callers : Tracks(d))
  BY <1>24 DEF Adopts, memory, world
<1>25. ASSUME NEW l \in Lanes, RecordsLoss(l) PROVE minted' = minted \/ (\E d \in Callers : Tracks(d))
  BY <1>25 DEF RecordsLoss, memory, world
<1>26. CASE OthersAppend
  BY <1>26 DEF OthersAppend, memory, world
<1>27. CASE DaemonRestarts
  BY <1>27 DEF DaemonRestarts, memory, world
<1>28. CASE UNCHANGED vars
  BY <1>28 DEF vars, world
<1> QED BY <1>1, <1>2, <1>3, <1>4, <1>5, <1>6, <1>7, <1>8, <1>9, <1>10, <1>11, <1>12, <1>13, <1>14, <1>15, <1>16, <1>17, <1>18, <1>19, <1>20, <1>21, <1>22, <1>23, <1>24, <1>25, <1>26, <1>27, <1>28 DEF Next, Lookup, Answering, Creating, Launch, Around

LEMMA LogTypeStep ==
    ASSUME TypeOK, InHand, [Next]_vars
    PROVE  /\ LogType'
           /\ minted \in Nat /\ minted' \in Nat /\ minted <= minted'
           /\ Len(log) \in Nat /\ Len(log') \in Nat /\ Len(log) <= Len(log')
           /\ \A i \in DOMAIN log : i \in DOMAIN log' /\ log'[i] = log[i]
<1>0. LogType
  BY TypeParts
<1>1. /\ log' \in Seq(Rows)
      /\ Len(log) \in Nat /\ Len(log') \in Nat /\ Len(log) <= Len(log')
      /\ \A i \in DOMAIN log : i \in DOMAIN log' /\ log'[i] = log[i]
  <2>1. CASE Quiet
    BY <1>0, <2>1, QuietLog
  <2>2. ASSUME NEW d \in Callers, Recorded(d)
        PROVE  /\ log' \in Seq(Rows)
               /\ Len(log) \in Nat /\ Len(log') \in Nat /\ Len(log) <= Len(log')
               /\ \A i \in DOMAIN log : i \in DOMAIN log' /\ log'[i] = log[i]
    BY <2>2, RecordLog
  <2> QED BY <2>1, <2>2, NextLog
<1>2. /\ minted' \in 0..MaxLanes
      /\ minted \in Nat /\ minted' \in Nat /\ minted <= minted'
  <2>1. CASE minted' = minted
    BY <1>0, <2>1, CreationAssumption DEF LogType
  <2>2. CASE \E d \in Callers : Tracks(d)
    BY <1>0, <2>2, CreationAssumption DEF LogType, Tracks
  <2> QED BY <2>1, <2>2, NextMinted
<1> QED BY <1>1, <1>2 DEF LogType

(* Requests keep their type.                                               *)
LEMMA CallTypeStep ==
    ASSUME TypeOK, InHand, Snapshots, [Next]_vars
    PROVE  CallType'
<1>1. ASSUME NEW c \in Callers, Asks(c) PROVE CallType'
  BY <1>1, AsksStep
<1>2. ASSUME NEW c \in Callers, LooksUp(c) PROVE CallType'
  BY <1>2, LooksUpStep
<1>3. ASSUME NEW c \in Callers, Admitted(c) PROVE CallType'
  BY <1>3, AdmittedStep
<1>4. ASSUME NEW c \in Callers, Folds(c) PROVE CallType'
  BY <1>4, FoldsStep
<1>5. ASSUME NEW c \in Callers, Publishes(c) PROVE CallType'
  BY <1>5, PublishesStep
<1>6. ASSUME NEW c \in Callers, LookupFails(c) PROVE CallType'
  BY <1>6, LookupFailsStep
<1>7. ASSUME NEW c \in Callers, ChecksRegistry(c) PROVE CallType'
  BY <1>7, ChecksRegistryStep
<1>8. ASSUME NEW c \in Callers, ChecksStarting(c) PROVE CallType'
  BY <1>8, ChecksStartingStep
<1>9. ASSUME NEW c \in Callers, TakesGate(c) PROVE CallType'
  BY <1>9, TakesGateStep
<1>10. ASSUME NEW c \in Callers, GivesUp(c) PROVE CallType'
  BY <1>10, GivesUpStep
<1>11. ASSUME NEW c \in Callers, PreparationFails(c) PROVE CallType'
  BY <1>11, PreparationFailsStep
<1>12. ASSUME NEW c \in Callers, Tracks(c) PROVE CallType'
  BY <1>12, TracksStep
<1>13. ASSUME NEW c \in Callers, Records(c) PROVE CallType'
  BY <1>13, RecordsStep
<1>14. ASSUME NEW c \in Callers, RecordFails(c) PROVE CallType'
  BY <1>14, RecordFailsStep
<1>15. ASSUME NEW c \in Callers, Launches(c) PROVE CallType'
  BY <1>15, LaunchesStep
<1>16. ASSUME NEW c \in Callers, RunnerAnswers(c) PROVE CallType'
  BY <1>16, RunnerAnswersStep
<1>17. ASSUME NEW c \in Callers, LaunchFails(c) PROVE CallType'
  BY <1>17, LaunchFailsStep
<1>18. ASSUME NEW c \in Callers, Registers(c) PROVE CallType'
  BY <1>18, RegistersStep
<1>19. ASSUME NEW c \in Callers, Untracks(c) PROVE CallType'
  BY <1>19, UntracksStep
<1>20. ASSUME NEW c \in Callers, Finishes(c) PROVE CallType'
  BY <1>20, FinishesStep
<1>21. ASSUME NEW l \in Lanes, RunnerEnds(l) PROVE CallType'
  BY <1>21, TypeParts DEF RunnerEnds, memory, CallType
<1>22. ASSUME NEW l \in Lanes, HearsExit(l) PROVE CallType'
  BY <1>22, TypeParts DEF HearsExit, memory, CallType
<1>23. ASSUME NEW l \in Lanes, Forgets(l) PROVE CallType'
  BY <1>23, TypeParts DEF Forgets, memory, CallType
<1>24. ASSUME NEW l \in Lanes, Adopts(l) PROVE CallType'
  BY <1>24, TypeParts DEF Adopts, memory, CallType
<1>25. ASSUME NEW l \in Lanes, RecordsLoss(l) PROVE CallType'
  BY <1>25, TypeParts DEF RecordsLoss, memory, CallType
<1>26. CASE OthersAppend
  BY <1>26, TypeParts DEF OthersAppend, memory, CallType
<1>27. CASE DaemonRestarts
  BY <1>27, NoCallType DEF DaemonRestarts, CallType
<1>28. CASE UNCHANGED vars
  BY <1>28, TypeParts DEF vars, memory, CallType
<1> QED BY <1>1, <1>2, <1>3, <1>4, <1>5, <1>6, <1>7, <1>8, <1>9, <1>10, <1>11, <1>12, <1>13, <1>14, <1>15, <1>16, <1>17, <1>18, <1>19, <1>20, <1>21, <1>22, <1>23, <1>24, <1>25, <1>26, <1>27, <1>28 DEF Next, Lookup, Answering, Creating, Launch, Around

(* So does the cache.                                                      *)
LEMMA CacheTypeStep ==
    ASSUME TypeOK, [Next]_vars
    PROVE  CacheType'
<1>1. ASSUME NEW c \in Callers, Asks(c) PROVE CacheType'
  BY <1>1, TypeParts DEF Asks, memory, CacheType
<1>2. ASSUME NEW c \in Callers, LooksUp(c) PROVE CacheType'
  BY <1>2, TypeParts DEF LooksUp, memory, CacheType
<1>3. ASSUME NEW c \in Callers, Admitted(c) PROVE CacheType'
  BY <1>3, TypeParts DEF Admitted, memory, CacheType
<1>4. ASSUME NEW c \in Callers, Folds(c) PROVE CacheType'
  BY <1>4, TypeParts DEF Folds, memory, CacheType
<1>5. ASSUME NEW c \in Callers, Publishes(c) PROVE CacheType'
  <2>1. call[c] \in Calls
    BY TypeParts DEF CallType
  <2> QED BY <1>5, <2>1 DEF Publishes, Label, CacheType, Calls
<1>6. ASSUME NEW c \in Callers, LookupFails(c) PROVE CacheType'
  BY <1>6, TypeParts DEF LookupFails, memory, CacheType
<1>7. ASSUME NEW c \in Callers, ChecksRegistry(c) PROVE CacheType'
  BY <1>7, TypeParts DEF ChecksRegistry, memory, CacheType
<1>8. ASSUME NEW c \in Callers, ChecksStarting(c) PROVE CacheType'
  BY <1>8, TypeParts DEF ChecksStarting, memory, CacheType
<1>9. ASSUME NEW c \in Callers, TakesGate(c) PROVE CacheType'
  BY <1>9, TypeParts DEF TakesGate, memory, CacheType
<1>10. ASSUME NEW c \in Callers, GivesUp(c) PROVE CacheType'
  BY <1>10, TypeParts DEF GivesUp, memory, CacheType
<1>11. ASSUME NEW c \in Callers, PreparationFails(c) PROVE CacheType'
  BY <1>11, TypeParts DEF PreparationFails, memory, CacheType
<1>12. ASSUME NEW c \in Callers, Tracks(c) PROVE CacheType'
  BY <1>12, TypeParts DEF Tracks, memory, CacheType
<1>13. ASSUME NEW c \in Callers, Records(c) PROVE CacheType'
  BY <1>13, TypeParts DEF Records, memory, CacheType
<1>14. ASSUME NEW c \in Callers, RecordFails(c) PROVE CacheType'
  BY <1>14, TypeParts DEF RecordFails, memory, CacheType
<1>15. ASSUME NEW c \in Callers, Launches(c) PROVE CacheType'
  BY <1>15, TypeParts DEF Launches, memory, CacheType
<1>16. ASSUME NEW c \in Callers, RunnerAnswers(c) PROVE CacheType'
  BY <1>16, TypeParts DEF RunnerAnswers, memory, CacheType
<1>17. ASSUME NEW c \in Callers, LaunchFails(c) PROVE CacheType'
  BY <1>17, TypeParts DEF LaunchFails, memory, CacheType
<1>18. ASSUME NEW c \in Callers, Registers(c) PROVE CacheType'
  BY <1>18, TypeParts DEF Registers, memory, CacheType
<1>19. ASSUME NEW c \in Callers, Untracks(c) PROVE CacheType'
  BY <1>19, TypeParts DEF Untracks, memory, CacheType
<1>20. ASSUME NEW c \in Callers, Finishes(c) PROVE CacheType'
  BY <1>20, TypeParts DEF Finishes, memory, CacheType
<1>21. ASSUME NEW l \in Lanes, RunnerEnds(l) PROVE CacheType'
  BY <1>21, TypeParts DEF RunnerEnds, memory, CacheType
<1>22. ASSUME NEW l \in Lanes, HearsExit(l) PROVE CacheType'
  BY <1>22, TypeParts DEF HearsExit, memory, CacheType
<1>23. ASSUME NEW l \in Lanes, Forgets(l) PROVE CacheType'
  BY <1>23, TypeParts DEF Forgets, memory, CacheType
<1>24. ASSUME NEW l \in Lanes, Adopts(l) PROVE CacheType'
  BY <1>24, TypeParts DEF Adopts, memory, CacheType
<1>25. ASSUME NEW l \in Lanes, RecordsLoss(l) PROVE CacheType'
  BY <1>25, TypeParts DEF RecordsLoss, memory, CacheType
<1>26. CASE OthersAppend
  BY <1>26, TypeParts DEF OthersAppend, memory, CacheType
<1>27. CASE DaemonRestarts
  BY <1>27 DEF DaemonRestarts, CacheType
<1>28. CASE UNCHANGED vars
  BY <1>28, TypeParts DEF vars, memory, CacheType
<1> QED BY <1>1, <1>2, <1>3, <1>4, <1>5, <1>6, <1>7, <1>8, <1>9, <1>10, <1>11, <1>12, <1>13, <1>14, <1>15, <1>16, <1>17, <1>18, <1>19, <1>20, <1>21, <1>22, <1>23, <1>24, <1>25, <1>26, <1>27, <1>28 DEF Next, Lookup, Answering, Creating, Launch, Around

(* What an answer says.                                                    *)
LEMMA AnswerStep ==
    ASSUME TypeOK, NEW c \in Callers, NEW k \in Kinds, NEW l \in Lanes \cup {Nothing},
           NEW why \in Reasons, Answers(c, k, l, why)
    PROVE  AnswerType'
<1> DEFINE A == [kind |-> k, lane |-> l, op |-> call[c].op, work |-> call[c].work,
                 reason |-> why, own |-> IF call[c].stage \in Checking THEN Nothing
                                         ELSE call[c].lane]
<1>1. AnswerType /\ call[c] \in Calls
  BY TypeParts DEF CallType
<1>2. A \in Given
  BY <1>1 DEF Given, Calls
<1>3. answer' = [answer EXCEPT ![c] = A]
  BY DEF Answers
<1> HIDE DEF A
<1> QED BY <1>1, <1>2, <1>3 DEF AnswerType

LEMMA DecideAnswer ==
    ASSUME TypeOK, InHand, NEW c \in Callers, NEW n \in Nat, n <= Len(log), Decides(c, n)
    PROVE  AnswerType'
<1>1. CASE UNCHANGED answer
  BY <1>1, TypeParts DEF AnswerType
<1>2. ASSUME NEW i \in Creations(n, call[c].op),
             Answers(c, "conflict", log[i].lane, "other work")
      PROVE  AnswerType'
  <2>1. i \in DOMAIN log /\ log[i].type = "created"
    BY TypeParts DEF Creations, LogType
  <2>2. log[i].lane \in Lanes
    BY <2>1, TypeParts, CreationAssumption DEF InHand, LogType, Lanes
  <2> QED BY <1>2, <2>2, AnswerStep DEF Kinds, Reasons
<1> QED BY <1>1, <1>2 DEF Decides

(* And the answers.                                                        *)
LEMMA AnswerTypeStep ==
    ASSUME TypeOK, InHand, Snapshots, [Next]_vars
    PROVE  AnswerType'
<1>1. ASSUME NEW c \in Callers, Asks(c) PROVE AnswerType'
  <2>1. NoAnswer \in Given
    BY DEF NoAnswer, Given, Kinds, Reasons
  <2> QED BY <1>1, <2>1, TypeParts DEF Asks, AnswerType
<1>2. ASSUME NEW c \in Callers, LooksUp(c) PROVE AnswerType'
  <2>1. CASE Cached(c) /\ Decides(c, cache.upTo)
    BY <2>1, CacheCovers, DecideAnswer
  <2>2. CASE UNCHANGED answer
    BY <2>2, TypeParts DEF AnswerType
  <2> QED BY <1>2, <2>1, <2>2 DEF LooksUp
<1>3. ASSUME NEW c \in Callers, Admitted(c) PROVE AnswerType'
  <2>1. CASE Cached(c) /\ Decides(c, cache.upTo)
    BY <2>1, CacheCovers, DecideAnswer
  <2>2. CASE UNCHANGED answer
    BY <2>2, TypeParts DEF AnswerType
  <2> QED BY <1>3, <2>1, <2>2 DEF Admitted
<1>4. ASSUME NEW c \in Callers, Folds(c) PROVE AnswerType'
  BY <1>4, TypeParts DEF Folds, world, AnswerType
<1>5. ASSUME NEW c \in Callers, Publishes(c) PROVE AnswerType'
  <2>1. call[c].upTo \in Nat /\ call[c].upTo <= Len(log)
    BY <1>5, TypeParts DEF Publishes, CallType, Calls, Snapshots
  <2> QED BY <1>5, <2>1, DecideAnswer DEF Publishes
<1>6. ASSUME NEW c \in Callers, LookupFails(c) PROVE AnswerType'
  BY <1>6, AnswerStep DEF LookupFails, Refuses, Kinds, Reasons
<1>7. ASSUME NEW c \in Callers, ChecksRegistry(c) PROVE AnswerType'
  <2>1. call[c].lane \in Lanes
    BY <1>7, HandLane DEF ChecksRegistry, Checking
  <2>2. CASE Answers(c, "replayed", call[c].lane, "none")
    BY <2>1, <2>2, AnswerStep DEF Kinds, Reasons
  <2>3. CASE UNCHANGED answer
    BY <2>3, TypeParts DEF AnswerType
  <2> QED BY <1>7, <2>2, <2>3 DEF ChecksRegistry
<1>8. ASSUME NEW c \in Callers, ChecksStarting(c) PROVE AnswerType'
  <2>1. call[c].lane \in Lanes
    BY <1>8, HandLane DEF ChecksStarting, Checking
  <2>2. WhyNot(c) \in Reasons
    BY <1>8 DEF ChecksStarting, WhyNot, Reasons
  <2> QED BY <1>8, <2>1, <2>2, AnswerStep DEF ChecksStarting, Kinds
<1>9. ASSUME NEW c \in Callers, TakesGate(c) PROVE AnswerType'
  BY <1>9, TypeParts DEF TakesGate, world, AnswerType
<1>10. ASSUME NEW c \in Callers, GivesUp(c) PROVE AnswerType'
  BY <1>10, AnswerStep DEF GivesUp, Refuses, Kinds, Reasons
<1>11. ASSUME NEW c \in Callers, PreparationFails(c) PROVE AnswerType'
  BY <1>11, AnswerStep DEF PreparationFails, Refuses, Kinds, Reasons
<1>12. ASSUME NEW c \in Callers, Tracks(c) PROVE AnswerType'
  BY <1>12, TypeParts DEF Tracks, world, AnswerType
<1>13. ASSUME NEW c \in Callers, Records(c) PROVE AnswerType'
  BY <1>13, TypeParts DEF Records, world, AnswerType
<1>14. ASSUME NEW c \in Callers, RecordFails(c) PROVE AnswerType'
  BY <1>14, AnswerStep DEF RecordFails, Refuses, Kinds, Reasons
<1>15. ASSUME NEW c \in Callers, Launches(c) PROVE AnswerType'
  BY <1>15, TypeParts DEF Launches, world, AnswerType
<1>16. ASSUME NEW c \in Callers, RunnerAnswers(c) PROVE AnswerType'
  BY <1>16, TypeParts DEF RunnerAnswers, world, AnswerType
<1>17. ASSUME NEW c \in Callers, LaunchFails(c) PROVE AnswerType'
  <2>1. call[c].lane \in Lanes
    BY <1>17, HandLane DEF LaunchFails, Own, Launching
  <2> QED BY <1>17, <2>1, AnswerStep DEF LaunchFails, Failed, Kinds, Reasons
<1>18. ASSUME NEW c \in Callers, Registers(c) PROVE AnswerType'
  BY <1>18, TypeParts DEF Registers, world, AnswerType
<1>19. ASSUME NEW c \in Callers, Untracks(c) PROVE AnswerType'
  BY <1>19, TypeParts DEF Untracks, world, AnswerType
<1>20. ASSUME NEW c \in Callers, Finishes(c) PROVE AnswerType'
  <2>1. call[c].lane \in Lanes
    BY <1>20, HandLane DEF Finishes, Own
  <2>2. CASE Failed(c)
    BY <2>1, <2>2, AnswerStep DEF Failed, Kinds, Reasons
  <2>3. CASE Answers(c, "created", call[c].lane, "none")
    BY <2>1, <2>3, AnswerStep DEF Kinds, Reasons
  <2> QED BY <1>20, <2>2, <2>3 DEF Finishes
<1>21. ASSUME NEW l \in Lanes, RunnerEnds(l) PROVE AnswerType'
  BY <1>21, TypeParts DEF RunnerEnds, world, AnswerType
<1>22. ASSUME NEW l \in Lanes, HearsExit(l) PROVE AnswerType'
  BY <1>22, TypeParts DEF HearsExit, world, AnswerType
<1>23. ASSUME NEW l \in Lanes, Forgets(l) PROVE AnswerType'
  BY <1>23, TypeParts DEF Forgets, world, AnswerType
<1>24. ASSUME NEW l \in Lanes, Adopts(l) PROVE AnswerType'
  BY <1>24, TypeParts DEF Adopts, world, AnswerType
<1>25. ASSUME NEW l \in Lanes, RecordsLoss(l) PROVE AnswerType'
  BY <1>25, TypeParts DEF RecordsLoss, world, AnswerType
<1>26. CASE OthersAppend
  BY <1>26, TypeParts DEF OthersAppend, world, AnswerType
<1>27. CASE DaemonRestarts
  BY <1>27, TypeParts DEF DaemonRestarts, world, AnswerType
<1>28. CASE UNCHANGED vars
  BY <1>28, TypeParts DEF vars, world, AnswerType
<1> QED BY <1>1, <1>2, <1>3, <1>4, <1>5, <1>6, <1>7, <1>8, <1>9, <1>10, <1>11, <1>12, <1>13, <1>14, <1>15, <1>16, <1>17, <1>18, <1>19, <1>20, <1>21, <1>22, <1>23, <1>24, <1>25, <1>26, <1>27, <1>28 DEF Next, Lookup, Answering, Creating, Launch, Around

(* And the sessions.                                                       *)
LEMMA WorldTypeStep ==
    ASSUME TypeOK, InHand, [Next]_vars
    PROVE  WorldType'
<1>1. ASSUME NEW c \in Callers, Asks(c) PROVE WorldType'
  BY <1>1, TypeParts DEF Asks, memory, world, WorldType
<1>2. ASSUME NEW c \in Callers, LooksUp(c) PROVE WorldType'
  BY <1>2, TypeParts DEF LooksUp, memory, world, WorldType
<1>3. ASSUME NEW c \in Callers, Admitted(c) PROVE WorldType'
  BY <1>3, TypeParts DEF Admitted, memory, world, WorldType
<1>4. ASSUME NEW c \in Callers, Folds(c) PROVE WorldType'
  BY <1>4, TypeParts DEF Folds, memory, world, WorldType
<1>5. ASSUME NEW c \in Callers, Publishes(c) PROVE WorldType'
  BY <1>5, TypeParts DEF Publishes, memory, world, WorldType
<1>6. ASSUME NEW c \in Callers, LookupFails(c) PROVE WorldType'
  BY <1>6, TypeParts DEF LookupFails, memory, world, WorldType
<1>7. ASSUME NEW c \in Callers, ChecksRegistry(c) PROVE WorldType'
  BY <1>7, TypeParts DEF ChecksRegistry, memory, world, WorldType
<1>8. ASSUME NEW c \in Callers, ChecksStarting(c) PROVE WorldType'
  BY <1>8, TypeParts DEF ChecksStarting, memory, world, WorldType
<1>9. ASSUME NEW c \in Callers, TakesGate(c) PROVE WorldType'
  BY <1>9, TypeParts DEF TakesGate, memory, world, WorldType
<1>10. ASSUME NEW c \in Callers, GivesUp(c) PROVE WorldType'
  BY <1>10, TypeParts DEF GivesUp, memory, world, WorldType
<1>11. ASSUME NEW c \in Callers, PreparationFails(c) PROVE WorldType'
  BY <1>11, TypeParts DEF PreparationFails, memory, world, WorldType
<1>12. ASSUME NEW c \in Callers, Tracks(c) PROVE WorldType'
  BY <1>12, TypeParts DEF Tracks, memory, world, WorldType
<1>13. ASSUME NEW c \in Callers, Records(c) PROVE WorldType'
  BY <1>13, TypeParts DEF Records, memory, world, WorldType
<1>14. ASSUME NEW c \in Callers, RecordFails(c) PROVE WorldType'
  BY <1>14, TypeParts DEF RecordFails, memory, world, WorldType
<1>15. ASSUME NEW c \in Callers, Launches(c) PROVE WorldType'
  <2>1. call[c].lane \in Lanes
    BY <1>15, HandLane DEF Launches, Own, Launching
  <2> QED BY <1>15, <2>1, TypeParts DEF Launches, world, WorldType
<1>16. ASSUME NEW c \in Callers, RunnerAnswers(c) PROVE WorldType'
  <2>1. call[c].lane \in Lanes
    BY <1>16, HandLane DEF RunnerAnswers, Own, Launching
  <2> QED BY <1>16, <2>1, TypeParts DEF RunnerAnswers, world, WorldType
<1>17. ASSUME NEW c \in Callers, LaunchFails(c) PROVE WorldType'
  <2>1. call[c].lane \in Lanes
    BY <1>17, HandLane DEF LaunchFails, Own, Launching
  <2> QED BY <1>17, <2>1, TypeParts DEF LaunchFails, world, WorldType
<1>18. ASSUME NEW c \in Callers, Registers(c) PROVE WorldType'
  <2>1. call[c].lane \in Lanes
    BY <1>18, HandLane DEF Registers, Own, Launching
  <2> QED BY <1>18, <2>1, TypeParts DEF Registers, world, WorldType
<1>19. ASSUME NEW c \in Callers, Untracks(c) PROVE WorldType'
  BY <1>19, TypeParts DEF Untracks, memory, world, WorldType
<1>20. ASSUME NEW c \in Callers, Finishes(c) PROVE WorldType'
  BY <1>20, TypeParts DEF Finishes, memory, world, WorldType
<1>21. ASSUME NEW l \in Lanes, RunnerEnds(l) PROVE WorldType'
  BY <1>21, TypeParts DEF RunnerEnds, memory, world, WorldType
<1>22. ASSUME NEW l \in Lanes, HearsExit(l) PROVE WorldType'
  BY <1>22, TypeParts DEF HearsExit, memory, world, WorldType
<1>23. ASSUME NEW l \in Lanes, Forgets(l) PROVE WorldType'
  BY <1>23, TypeParts DEF Forgets, memory, world, WorldType
<1>24. ASSUME NEW l \in Lanes, Adopts(l) PROVE WorldType'
  BY <1>24, TypeParts DEF Adopts, memory, world, WorldType
<1>25. ASSUME NEW l \in Lanes, RecordsLoss(l) PROVE WorldType'
  BY <1>25, TypeParts DEF RecordsLoss, memory, world, WorldType
<1>26. CASE OthersAppend
  BY <1>26, TypeParts DEF OthersAppend, memory, world, WorldType
<1>27. CASE DaemonRestarts
  BY <1>27, TypeParts DEF DaemonRestarts, memory, world, WorldType
<1>28. CASE UNCHANGED vars
  BY <1>28, TypeParts DEF vars, memory, world, WorldType
<1> QED BY <1>1, <1>2, <1>3, <1>4, <1>5, <1>6, <1>7, <1>8, <1>9, <1>10, <1>11, <1>12, <1>13, <1>14, <1>15, <1>16, <1>17, <1>18, <1>19, <1>20, <1>21, <1>22, <1>23, <1>24, <1>25, <1>26, <1>27, <1>28 DEF Next, Lookup, Answering, Creating, Launch, Around

(* A step of one request leaves the others in what they hold.              *)
HoldersAt(c) ==
    /\ call[c].stage \in Making => gate = c
    /\ gate = c => call[c].stage \in Looking \cup Checking \cup Making
    /\ folder = c <=> call[c].stage \in {"folding", "folded"}

LEMMA HoldersRest ==
    ASSUME TypeOK, NEW c \in Callers, Only(c), HoldersAt(c)',
           gate' = gate \/ (gate \in {c, Nothing} /\ gate' \in {c, Nothing}),
           folder' = folder \/ (folder \in {c, Nothing} /\ folder' \in {c, Nothing})
    PROVE  Holders'
<1>1. Holders
  BY TypeParts
<1>2. gate' \in Callers \cup {Nothing} /\ folder' \in Callers \cup {Nothing}
  BY <1>1 DEF Holders
<1>3. ASSUME NEW d \in Callers, d # c PROVE HoldersAt(d)'
  <2>1. call'[d] = call[d]
    BY <1>3 DEF Only
  <2>2. d # Nothing
    BY CreationAssumption
  <2>3. (gate' = d <=> gate = d) /\ (folder' = d <=> folder = d)
    BY <1>3, <2>2
  <2> QED BY <1>1, <2>1, <2>3 DEF Holders, HoldersAt
<1> QED BY <1>2, <1>3 DEF Holders, HoldersAt

(* Who holds the gate and the fold slot.                                   *)
LEMMA HoldersStep ==
    ASSUME TypeOK, InHand, Snapshots, [Next]_vars
    PROVE  Holders'
<1>1. ASSUME NEW c \in Callers, Asks(c) PROVE Holders'
  <2>1. /\ gate \in Callers \cup {Nothing} /\ folder \in Callers \cup {Nothing}
        /\ HoldersAt(c) /\ c # Nothing
    BY TypeParts, CreationAssumption DEF Holders, HoldersAt
  <2>2. Only(c)
    BY <1>1, AsksStep DEF Begun
  <2>3. gate' = gate \/ (gate \in {c, Nothing} /\ gate' \in {c, Nothing})
    BY <1>1, AsksStep, <2>1 DEF Asks, world, Begun, Answers, HoldersAt, Making
  <2>4. folder' = folder \/ (folder \in {c, Nothing} /\ folder' \in {c, Nothing})
    BY <1>1, <2>1 DEF Asks, world, HoldersAt
  <2>5. HoldersAt(c)'
    BY <1>1, AsksStep, <2>1 DEF Asks, world, Begun, HoldersAt, Looking, Checking, Making, Launching
  <2> QED BY <2>2, <2>3, <2>4, <2>5, HoldersRest
<1>2. ASSUME NEW c \in Callers, LooksUp(c) PROVE Holders'
  <2>1. /\ gate \in Callers \cup {Nothing} /\ folder \in Callers \cup {Nothing}
        /\ HoldersAt(c) /\ c # Nothing
    BY TypeParts, CreationAssumption DEF Holders, HoldersAt
  <2>2. Only(c)
    BY <1>2, LooksUpStep DEF Outcome, Moved, Ended
  <2>3. gate' = gate \/ (gate \in {c, Nothing} /\ gate' \in {c, Nothing})
    BY <1>2, LooksUpStep, <2>1 DEF LooksUp, world, Outcome, Moved, Ended, HoldersAt, Making
  <2>4. folder' = folder \/ (folder \in {c, Nothing} /\ folder' \in {c, Nothing})
    BY <1>2, <2>1 DEF LooksUp, world, HoldersAt
  <2>5. HoldersAt(c)'
    BY <1>2, LooksUpStep, <2>1 DEF LooksUp, world, Outcome, Moved, Ended, NoCall, HoldersAt, Looking, Checking, Making, Launching
  <2> QED BY <2>2, <2>3, <2>4, <2>5, HoldersRest
<1>3. ASSUME NEW c \in Callers, Admitted(c) PROVE Holders'
  <2>1. /\ gate \in Callers \cup {Nothing} /\ folder \in Callers \cup {Nothing}
        /\ HoldersAt(c) /\ c # Nothing
    BY TypeParts, CreationAssumption DEF Holders, HoldersAt
  <2>2. Only(c)
    BY <1>3, AdmittedStep DEF Outcome, Moved, Ended
  <2>3. gate' = gate \/ (gate \in {c, Nothing} /\ gate' \in {c, Nothing})
    BY <1>3, AdmittedStep, <2>1 DEF Admitted, world, Outcome, Moved, Ended, HoldersAt, Making
  <2>4. folder' = folder \/ (folder \in {c, Nothing} /\ folder' \in {c, Nothing})
    BY <1>3, <2>1 DEF Admitted, world, HoldersAt
  <2>5. HoldersAt(c)'
    BY <1>3, AdmittedStep, <2>1 DEF Admitted, world, Outcome, Moved, Ended, NoCall, HoldersAt, Looking, Checking, Making, Launching
  <2> QED BY <2>2, <2>3, <2>4, <2>5, HoldersRest
<1>4. ASSUME NEW c \in Callers, Folds(c) PROVE Holders'
  <2>1. /\ gate \in Callers \cup {Nothing} /\ folder \in Callers \cup {Nothing}
        /\ HoldersAt(c) /\ c # Nothing
    BY TypeParts, CreationAssumption DEF Holders, HoldersAt
  <2>2. Only(c)
    BY <1>4, FoldsStep DEF Folded
  <2>3. gate' = gate \/ (gate \in {c, Nothing} /\ gate' \in {c, Nothing})
    BY <1>4, FoldsStep, <2>1 DEF Folds, world, Folded, Answers, HoldersAt, Making
  <2>4. folder' = folder \/ (folder \in {c, Nothing} /\ folder' \in {c, Nothing})
    BY <1>4, <2>1 DEF Folds, world, HoldersAt
  <2>5. HoldersAt(c)'
    BY <1>4, FoldsStep, <2>1 DEF Folds, world, Folded, HoldersAt, Looking, Checking, Making, Launching
  <2> QED BY <2>2, <2>3, <2>4, <2>5, HoldersRest
<1>5. ASSUME NEW c \in Callers, Publishes(c) PROVE Holders'
  <2>1. /\ gate \in Callers \cup {Nothing} /\ folder \in Callers \cup {Nothing}
        /\ HoldersAt(c) /\ c # Nothing
    BY TypeParts, CreationAssumption DEF Holders, HoldersAt
  <2>2. Only(c)
    BY <1>5, PublishesStep DEF Outcome, Ended
  <2>3. gate' = gate \/ (gate \in {c, Nothing} /\ gate' \in {c, Nothing})
    BY <1>5, PublishesStep, <2>1 DEF Publishes, world, Outcome, Ended, HoldersAt, Making
  <2>4. folder' = folder \/ (folder \in {c, Nothing} /\ folder' \in {c, Nothing})
    BY <1>5, <2>1 DEF Publishes, world, HoldersAt
  <2>5. HoldersAt(c)'
    BY <1>5, PublishesStep, <2>1 DEF Publishes, world, Outcome, Ended, NoCall, HoldersAt, Looking, Checking, Making, Launching
  <2> QED BY <2>2, <2>3, <2>4, <2>5, HoldersRest
<1>6. ASSUME NEW c \in Callers, LookupFails(c) PROVE Holders'
  <2>1. /\ gate \in Callers \cup {Nothing} /\ folder \in Callers \cup {Nothing}
        /\ HoldersAt(c) /\ c # Nothing
    BY TypeParts, CreationAssumption DEF Holders, HoldersAt
  <2>2. Only(c)
    BY <1>6, LookupFailsStep DEF Ended
  <2>3. gate' = gate \/ (gate \in {c, Nothing} /\ gate' \in {c, Nothing})
    BY <1>6, LookupFailsStep, <2>1 DEF LookupFails, world, Ended, Refuses, Answers, HoldersAt, Making
  <2>4. folder' = folder \/ (folder \in {c, Nothing} /\ folder' \in {c, Nothing})
    BY <1>6, <2>1 DEF LookupFails, world, HoldersAt
  <2>5. HoldersAt(c)'
    BY <1>6, LookupFailsStep, <2>1 DEF LookupFails, world, Ended, NoCall, HoldersAt, Looking, Checking, Making, Launching
  <2> QED BY <2>2, <2>3, <2>4, <2>5, HoldersRest
<1>7. ASSUME NEW c \in Callers, ChecksRegistry(c) PROVE Holders'
  <2>1. /\ gate \in Callers \cup {Nothing} /\ folder \in Callers \cup {Nothing}
        /\ HoldersAt(c) /\ c # Nothing
    BY TypeParts, CreationAssumption DEF Holders, HoldersAt
  <2>2. Only(c)
    BY <1>7, ChecksRegistryStep DEF Ended, Moved
  <2>3. gate' = gate \/ (gate \in {c, Nothing} /\ gate' \in {c, Nothing})
    BY <1>7, ChecksRegistryStep, <2>1 DEF ChecksRegistry, world, Ended, Moved, Answers, HoldersAt, Making
  <2>4. folder' = folder \/ (folder \in {c, Nothing} /\ folder' \in {c, Nothing})
    BY <1>7, <2>1 DEF ChecksRegistry, world, HoldersAt
  <2>5. HoldersAt(c)'
    BY <1>7, ChecksRegistryStep, <2>1 DEF ChecksRegistry, world, Ended, Moved, NoCall, HoldersAt, Looking, Checking, Making, Launching
  <2> QED BY <2>2, <2>3, <2>4, <2>5, HoldersRest
<1>8. ASSUME NEW c \in Callers, ChecksStarting(c) PROVE Holders'
  <2>1. /\ gate \in Callers \cup {Nothing} /\ folder \in Callers \cup {Nothing}
        /\ HoldersAt(c) /\ c # Nothing
    BY TypeParts, CreationAssumption DEF Holders, HoldersAt
  <2>2. Only(c)
    BY <1>8, ChecksStartingStep DEF Ended
  <2>3. gate' = gate \/ (gate \in {c, Nothing} /\ gate' \in {c, Nothing})
    BY <1>8, ChecksStartingStep, <2>1 DEF ChecksStarting, world, Ended, Answers, HoldersAt, Making
  <2>4. folder' = folder \/ (folder \in {c, Nothing} /\ folder' \in {c, Nothing})
    BY <1>8, <2>1 DEF ChecksStarting, world, HoldersAt
  <2>5. HoldersAt(c)'
    BY <1>8, ChecksStartingStep, <2>1 DEF ChecksStarting, world, Ended, NoCall, HoldersAt, Looking, Checking, Making, Launching
  <2> QED BY <2>2, <2>3, <2>4, <2>5, HoldersRest
<1>9. ASSUME NEW c \in Callers, TakesGate(c) PROVE Holders'
  <2>1. /\ gate \in Callers \cup {Nothing} /\ folder \in Callers \cup {Nothing}
        /\ HoldersAt(c) /\ c # Nothing
    BY TypeParts, CreationAssumption DEF Holders, HoldersAt
  <2>2. Only(c)
    BY <1>9, TakesGateStep DEF Gated
  <2>3. gate' = gate \/ (gate \in {c, Nothing} /\ gate' \in {c, Nothing})
    BY <1>9, TakesGateStep, <2>1 DEF TakesGate, world, Gated, Answers, HoldersAt, Making
  <2>4. folder' = folder \/ (folder \in {c, Nothing} /\ folder' \in {c, Nothing})
    BY <1>9, <2>1 DEF TakesGate, world, HoldersAt
  <2>5. HoldersAt(c)'
    BY <1>9, TakesGateStep, <2>1 DEF TakesGate, world, Gated, HoldersAt, Looking, Checking, Making, Launching
  <2> QED BY <2>2, <2>3, <2>4, <2>5, HoldersRest
<1>10. ASSUME NEW c \in Callers, GivesUp(c) PROVE Holders'
  <2>1. /\ gate \in Callers \cup {Nothing} /\ folder \in Callers \cup {Nothing}
        /\ HoldersAt(c) /\ c # Nothing
    BY TypeParts, CreationAssumption DEF Holders, HoldersAt
  <2>2. Only(c)
    BY <1>10, GivesUpStep DEF Ended
  <2>3. gate' = gate \/ (gate \in {c, Nothing} /\ gate' \in {c, Nothing})
    BY <1>10, GivesUpStep, <2>1 DEF GivesUp, world, Ended, Refuses, Answers, HoldersAt, Making
  <2>4. folder' = folder \/ (folder \in {c, Nothing} /\ folder' \in {c, Nothing})
    BY <1>10, <2>1 DEF GivesUp, world, HoldersAt
  <2>5. HoldersAt(c)'
    BY <1>10, GivesUpStep, <2>1 DEF GivesUp, world, Ended, NoCall, HoldersAt, Looking, Checking, Making, Launching
  <2> QED BY <2>2, <2>3, <2>4, <2>5, HoldersRest
<1>11. ASSUME NEW c \in Callers, PreparationFails(c) PROVE Holders'
  <2>1. /\ gate \in Callers \cup {Nothing} /\ folder \in Callers \cup {Nothing}
        /\ HoldersAt(c) /\ c # Nothing
    BY TypeParts, CreationAssumption DEF Holders, HoldersAt
  <2>2. Only(c)
    BY <1>11, PreparationFailsStep DEF Ended
  <2>3. gate' = gate \/ (gate \in {c, Nothing} /\ gate' \in {c, Nothing})
    BY <1>11, PreparationFailsStep, <2>1 DEF PreparationFails, world, Ended, Refuses, Answers, HoldersAt, Making
  <2>4. folder' = folder \/ (folder \in {c, Nothing} /\ folder' \in {c, Nothing})
    BY <1>11, <2>1 DEF PreparationFails, world, HoldersAt
  <2>5. HoldersAt(c)'
    BY <1>11, PreparationFailsStep, <2>1 DEF PreparationFails, world, Ended, NoCall, HoldersAt, Looking, Checking, Making, Launching
  <2> QED BY <2>2, <2>3, <2>4, <2>5, HoldersRest
<1>12. ASSUME NEW c \in Callers, Tracks(c) PROVE Holders'
  <2>1. /\ gate \in Callers \cup {Nothing} /\ folder \in Callers \cup {Nothing}
        /\ HoldersAt(c) /\ c # Nothing
    BY TypeParts, CreationAssumption DEF Holders, HoldersAt
  <2>2. Only(c)
    BY <1>12, TracksStep DEF Made
  <2>3. gate' = gate \/ (gate \in {c, Nothing} /\ gate' \in {c, Nothing})
    BY <1>12, TracksStep, <2>1 DEF Tracks, world, Made, Answers, HoldersAt, Making
  <2>4. folder' = folder \/ (folder \in {c, Nothing} /\ folder' \in {c, Nothing})
    BY <1>12, <2>1 DEF Tracks, world, HoldersAt
  <2>5. HoldersAt(c)'
    BY <1>12, TracksStep, <2>1 DEF Tracks, world, Made, HoldersAt, Looking, Checking, Making, Launching
  <2> QED BY <2>2, <2>3, <2>4, <2>5, HoldersRest
<1>13. ASSUME NEW c \in Callers, Records(c) PROVE Holders'
  <2>1. /\ gate \in Callers \cup {Nothing} /\ folder \in Callers \cup {Nothing}
        /\ HoldersAt(c) /\ c # Nothing
    BY TypeParts, CreationAssumption DEF Holders, HoldersAt
  <2>2. Only(c)
    BY <1>13, RecordsStep DEF Moved
  <2>3. gate' = gate \/ (gate \in {c, Nothing} /\ gate' \in {c, Nothing})
    BY <1>13, RecordsStep, <2>1 DEF Records, world, Moved, Answers, HoldersAt, Making
  <2>4. folder' = folder \/ (folder \in {c, Nothing} /\ folder' \in {c, Nothing})
    BY <1>13, <2>1 DEF Records, world, HoldersAt
  <2>5. HoldersAt(c)'
    BY <1>13, RecordsStep, <2>1 DEF Records, world, Moved, HoldersAt, Looking, Checking, Making, Launching
  <2> QED BY <2>2, <2>3, <2>4, <2>5, HoldersRest
<1>14. ASSUME NEW c \in Callers, RecordFails(c) PROVE Holders'
  <2>1. /\ gate \in Callers \cup {Nothing} /\ folder \in Callers \cup {Nothing}
        /\ HoldersAt(c) /\ c # Nothing
    BY TypeParts, CreationAssumption DEF Holders, HoldersAt
  <2>2. Only(c)
    BY <1>14, RecordFailsStep DEF Ended
  <2>3. gate' = gate \/ (gate \in {c, Nothing} /\ gate' \in {c, Nothing})
    BY <1>14, RecordFailsStep, <2>1 DEF RecordFails, world, Ended, Refuses, Answers, HoldersAt, Making
  <2>4. folder' = folder \/ (folder \in {c, Nothing} /\ folder' \in {c, Nothing})
    BY <1>14, <2>1 DEF RecordFails, world, HoldersAt
  <2>5. HoldersAt(c)'
    BY <1>14, RecordFailsStep, <2>1 DEF RecordFails, world, Ended, NoCall, HoldersAt, Looking, Checking, Making, Launching
  <2> QED BY <2>2, <2>3, <2>4, <2>5, HoldersRest
<1>15. ASSUME NEW c \in Callers, Launches(c) PROVE Holders'
  <2>1. /\ gate \in Callers \cup {Nothing} /\ folder \in Callers \cup {Nothing}
        /\ HoldersAt(c) /\ c # Nothing
    BY TypeParts, CreationAssumption DEF Holders, HoldersAt
  <2>2. Only(c)
    BY <1>15, LaunchesStep DEF Moved
  <2>3. gate' = gate \/ (gate \in {c, Nothing} /\ gate' \in {c, Nothing})
    BY <1>15, LaunchesStep, <2>1 DEF Launches, world, Moved, Answers, HoldersAt, Making
  <2>4. folder' = folder \/ (folder \in {c, Nothing} /\ folder' \in {c, Nothing})
    BY <1>15, <2>1 DEF Launches, world, HoldersAt
  <2>5. HoldersAt(c)'
    BY <1>15, LaunchesStep, <2>1 DEF Launches, world, Moved, HoldersAt, Looking, Checking, Making, Launching
  <2> QED BY <2>2, <2>3, <2>4, <2>5, HoldersRest
<1>16. ASSUME NEW c \in Callers, RunnerAnswers(c) PROVE Holders'
  <2>1. /\ gate \in Callers \cup {Nothing} /\ folder \in Callers \cup {Nothing}
        /\ HoldersAt(c) /\ c # Nothing
    BY TypeParts, CreationAssumption DEF Holders, HoldersAt
  <2>2. Only(c)
    BY <1>16, RunnerAnswersStep DEF Moved
  <2>3. gate' = gate \/ (gate \in {c, Nothing} /\ gate' \in {c, Nothing})
    BY <1>16, RunnerAnswersStep, <2>1 DEF RunnerAnswers, world, Moved, Answers, HoldersAt, Making
  <2>4. folder' = folder \/ (folder \in {c, Nothing} /\ folder' \in {c, Nothing})
    BY <1>16, <2>1 DEF RunnerAnswers, world, HoldersAt
  <2>5. HoldersAt(c)'
    BY <1>16, RunnerAnswersStep, <2>1 DEF RunnerAnswers, world, Moved, HoldersAt, Looking, Checking, Making, Launching
  <2> QED BY <2>2, <2>3, <2>4, <2>5, HoldersRest
<1>17. ASSUME NEW c \in Callers, LaunchFails(c) PROVE Holders'
  <2>1. /\ gate \in Callers \cup {Nothing} /\ folder \in Callers \cup {Nothing}
        /\ HoldersAt(c) /\ c # Nothing
    BY TypeParts, CreationAssumption DEF Holders, HoldersAt
  <2>2. Only(c)
    BY <1>17, LaunchFailsStep DEF Ended
  <2>3. gate' = gate \/ (gate \in {c, Nothing} /\ gate' \in {c, Nothing})
    BY <1>17, LaunchFailsStep, <2>1 DEF LaunchFails, world, Ended, Failed, Answers, HoldersAt, Making
  <2>4. folder' = folder \/ (folder \in {c, Nothing} /\ folder' \in {c, Nothing})
    BY <1>17, <2>1 DEF LaunchFails, world, HoldersAt
  <2>5. HoldersAt(c)'
    BY <1>17, LaunchFailsStep, <2>1 DEF LaunchFails, world, Ended, NoCall, HoldersAt, Looking, Checking, Making, Launching
  <2> QED BY <2>2, <2>3, <2>4, <2>5, HoldersRest
<1>18. ASSUME NEW c \in Callers, Registers(c) PROVE Holders'
  <2>1. /\ gate \in Callers \cup {Nothing} /\ folder \in Callers \cup {Nothing}
        /\ HoldersAt(c) /\ c # Nothing
    BY TypeParts, CreationAssumption DEF Holders, HoldersAt
  <2>2. Only(c)
    BY <1>18, RegistersStep DEF Moved
  <2>3. gate' = gate \/ (gate \in {c, Nothing} /\ gate' \in {c, Nothing})
    BY <1>18, RegistersStep, <2>1 DEF Registers, world, Moved, Answers, HoldersAt, Making
  <2>4. folder' = folder \/ (folder \in {c, Nothing} /\ folder' \in {c, Nothing})
    BY <1>18, <2>1 DEF Registers, world, HoldersAt
  <2>5. HoldersAt(c)'
    BY <1>18, RegistersStep, <2>1 DEF Registers, world, Moved, HoldersAt, Looking, Checking, Making, Launching
  <2> QED BY <2>2, <2>3, <2>4, <2>5, HoldersRest
<1>19. ASSUME NEW c \in Callers, Untracks(c) PROVE Holders'
  <2>1. /\ gate \in Callers \cup {Nothing} /\ folder \in Callers \cup {Nothing}
        /\ HoldersAt(c) /\ c # Nothing
    BY TypeParts, CreationAssumption DEF Holders, HoldersAt
  <2>2. Only(c)
    BY <1>19, UntracksStep DEF Moved
  <2>3. gate' = gate \/ (gate \in {c, Nothing} /\ gate' \in {c, Nothing})
    BY <1>19, UntracksStep, <2>1 DEF Untracks, world, Moved, Answers, HoldersAt, Making
  <2>4. folder' = folder \/ (folder \in {c, Nothing} /\ folder' \in {c, Nothing})
    BY <1>19, <2>1 DEF Untracks, world, HoldersAt
  <2>5. HoldersAt(c)'
    BY <1>19, UntracksStep, <2>1 DEF Untracks, world, Moved, HoldersAt, Looking, Checking, Making, Launching
  <2> QED BY <2>2, <2>3, <2>4, <2>5, HoldersRest
<1>20. ASSUME NEW c \in Callers, Finishes(c) PROVE Holders'
  <2>1. /\ gate \in Callers \cup {Nothing} /\ folder \in Callers \cup {Nothing}
        /\ HoldersAt(c) /\ c # Nothing
    BY TypeParts, CreationAssumption DEF Holders, HoldersAt
  <2>2. Only(c)
    BY <1>20, FinishesStep DEF Ended
  <2>3. gate' = gate \/ (gate \in {c, Nothing} /\ gate' \in {c, Nothing})
    BY <1>20, FinishesStep, <2>1 DEF Finishes, world, Ended, Failed, Answers, HoldersAt, Making
  <2>4. folder' = folder \/ (folder \in {c, Nothing} /\ folder' \in {c, Nothing})
    BY <1>20, <2>1 DEF Finishes, world, HoldersAt
  <2>5. HoldersAt(c)'
    BY <1>20, FinishesStep, <2>1 DEF Finishes, world, Ended, NoCall, HoldersAt, Looking, Checking, Making, Launching
  <2> QED BY <2>2, <2>3, <2>4, <2>5, HoldersRest
<1>21. ASSUME NEW l \in Lanes, RunnerEnds(l) PROVE Holders'
  BY <1>21, TypeParts DEF RunnerEnds, memory, Holders
<1>22. ASSUME NEW l \in Lanes, HearsExit(l) PROVE Holders'
  BY <1>22, TypeParts DEF HearsExit, memory, Holders
<1>23. ASSUME NEW l \in Lanes, Forgets(l) PROVE Holders'
  BY <1>23, TypeParts DEF Forgets, memory, Holders
<1>24. ASSUME NEW l \in Lanes, Adopts(l) PROVE Holders'
  BY <1>24, TypeParts DEF Adopts, memory, Holders
<1>25. ASSUME NEW l \in Lanes, RecordsLoss(l) PROVE Holders'
  BY <1>25, TypeParts DEF RecordsLoss, memory, Holders
<1>26. CASE OthersAppend
  BY <1>26, TypeParts DEF OthersAppend, memory, Holders
<1>27. CASE DaemonRestarts
  BY <1>27, CreationAssumption DEF DaemonRestarts, NoCall, Holders, Looking, Checking, Making
<1>28. CASE UNCHANGED vars
  BY <1>28, TypeParts DEF vars, memory, Holders
<1> QED BY <1>1, <1>2, <1>3, <1>4, <1>5, <1>6, <1>7, <1>8, <1>9, <1>10, <1>11, <1>12, <1>13, <1>14, <1>15, <1>16, <1>17, <1>18, <1>19, <1>20, <1>21, <1>22, <1>23, <1>24, <1>25, <1>26, <1>27, <1>28 DEF Next, Lookup, Answering, Creating, Launch, Around

(* Only sessions that were handed out are tracked.                         *)
LEMMA TrackingStep ==
    ASSUME TypeOK, InHand, [Next]_vars
    PROVE  Tracking'
<1>1. ASSUME NEW c \in Callers, Asks(c) PROVE Tracking'
  BY <1>1, TypeParts DEF Asks, memory, world, Answers, Tracking
<1>2. ASSUME NEW c \in Callers, LooksUp(c) PROVE Tracking'
  BY <1>2, TypeParts DEF LooksUp, Decides, Answers, Tracking
<1>3. ASSUME NEW c \in Callers, Admitted(c) PROVE Tracking'
  BY <1>3, TypeParts DEF Admitted, Decides, Answers, Tracking
<1>4. ASSUME NEW c \in Callers, Folds(c) PROVE Tracking'
  BY <1>4, TypeParts DEF Folds, memory, world, Answers, Tracking
<1>5. ASSUME NEW c \in Callers, Publishes(c) PROVE Tracking'
  BY <1>5, TypeParts DEF Publishes, Decides, Answers, Tracking
<1>6. ASSUME NEW c \in Callers, LookupFails(c) PROVE Tracking'
  BY <1>6, TypeParts DEF LookupFails, memory, world, Refuses, Answers, Tracking
<1>7. ASSUME NEW c \in Callers, ChecksRegistry(c) PROVE Tracking'
  BY <1>7, TypeParts DEF ChecksRegistry, memory, world, Answers, Tracking
<1>8. ASSUME NEW c \in Callers, ChecksStarting(c) PROVE Tracking'
  BY <1>8, TypeParts DEF ChecksStarting, memory, world, Answers, Tracking
<1>9. ASSUME NEW c \in Callers, TakesGate(c) PROVE Tracking'
  BY <1>9, TypeParts DEF TakesGate, memory, world, Answers, Tracking
<1>10. ASSUME NEW c \in Callers, GivesUp(c) PROVE Tracking'
  BY <1>10, TypeParts DEF GivesUp, memory, world, Refuses, Answers, Tracking
<1>11. ASSUME NEW c \in Callers, PreparationFails(c) PROVE Tracking'
  BY <1>11, TypeParts DEF PreparationFails, memory, world, Refuses, Answers, Tracking
<1>12. ASSUME NEW c \in Callers, Tracks(c) PROVE Tracking'
  BY <1>12, LogTypeStep, TypeParts DEF Tracks, Tracked, Tracking
<1>13. ASSUME NEW c \in Callers, Records(c) PROVE Tracking'
  BY <1>13, TypeParts DEF Records, memory, world, Answers, Tracking
<1>14. ASSUME NEW c \in Callers, RecordFails(c) PROVE Tracking'
  BY <1>14, TypeParts DEF RecordFails, memory, world, Refuses, Answers, Tracking
<1>15. ASSUME NEW c \in Callers, Launches(c) PROVE Tracking'
  BY <1>15, TypeParts DEF Launches, memory, world, Answers, Tracking
<1>16. ASSUME NEW c \in Callers, RunnerAnswers(c) PROVE Tracking'
  BY <1>16, TypeParts DEF RunnerAnswers, memory, world, Answers, Tracking
<1>17. ASSUME NEW c \in Callers, LaunchFails(c) PROVE Tracking'
  BY <1>17, TypeParts DEF LaunchFails, memory, world, Failed, Answers, Tracking
<1>18. ASSUME NEW c \in Callers, Registers(c) PROVE Tracking'
  BY <1>18, TypeParts DEF Registers, memory, world, Answers, Tracking
<1>19. ASSUME NEW c \in Callers, Untracks(c) PROVE Tracking'
  BY <1>19, TypeParts DEF Untracks, memory, world, Answers, Tracking
<1>20. ASSUME NEW c \in Callers, Finishes(c) PROVE Tracking'
  BY <1>20, TypeParts DEF Finishes, memory, world, Failed, Answers, Tracking
<1>21. ASSUME NEW l \in Lanes, RunnerEnds(l) PROVE Tracking'
  BY <1>21, TypeParts DEF RunnerEnds, memory, world, Answers, Tracking
<1>22. ASSUME NEW l \in Lanes, HearsExit(l) PROVE Tracking'
  BY <1>22, TypeParts DEF HearsExit, memory, world, Answers, Tracking
<1>23. ASSUME NEW l \in Lanes, Forgets(l) PROVE Tracking'
  BY <1>23, TypeParts DEF Forgets, memory, world, Answers, Tracking
<1>24. ASSUME NEW l \in Lanes, Adopts(l) PROVE Tracking'
  BY <1>24, TypeParts DEF Adopts, memory, world, Answers, Tracking
<1>25. ASSUME NEW l \in Lanes, RecordsLoss(l) PROVE Tracking'
  BY <1>25, TypeParts DEF RecordsLoss, memory, world, Answers, Tracking
<1>26. CASE OthersAppend
  BY <1>26, TypeParts DEF OthersAppend, memory, world, Answers, Tracking
<1>27. CASE DaemonRestarts
  BY <1>27 DEF DaemonRestarts, Tracking
<1>28. CASE UNCHANGED vars
  BY <1>28, TypeParts DEF vars, memory, world, Tracking
<1> QED BY <1>1, <1>2, <1>3, <1>4, <1>5, <1>6, <1>7, <1>8, <1>9, <1>10, <1>11, <1>12, <1>13, <1>14, <1>15, <1>16, <1>17, <1>18, <1>19, <1>20, <1>21, <1>22, <1>23, <1>24, <1>25, <1>26, <1>27, <1>28 DEF Next, Lookup, Answering, Creating, Launch, Around

LEMMA TypeStep ==
    ASSUME TypeOK, InHand, Snapshots, [Next]_vars
    PROVE  TypeOK'
<1>1. LogType' /\ CallType' /\ CacheType' /\ AnswerType' /\ WorldType' /\ Holders' /\ Tracking'
  BY LogTypeStep, CallTypeStep, CacheTypeStep, AnswerTypeStep, WorldTypeStep, HoldersStep, TrackingStep
<1> QED BY <1>1 DEF TypeOK, LogType, CacheType, CallType, AnswerType, WorldType, Holders,
                    Tracking, Calls, Given, Kinds

-----------------------------------------------------------------------------
(* The other parts of the invariant.                                       *)

(* A creation in the ledger is one that was there, or the one just made.   *)
LEMMA NewCreation ==
    ASSUME TypeOK, InHand, [Next]_vars
    PROVE  \A i \in DOMAIN log' : log'[i].type = "created" =>
               \/ i \in DOMAIN log /\ log'[i] = log[i]
               \/ \E d \in Callers : /\ Recorded(d) /\ i = Len(log') /\ i \notin DOMAIN log
                                    /\ log'[i].lane = call[d].lane /\ log'[i].op = call[d].op
<1>0. LogType
  BY TypeParts
<1>1. CASE Quiet
  BY <1>0, <1>1, QuietLog
<1>2. ASSUME NEW d \in Callers, Recorded(d)
      PROVE  \A i \in DOMAIN log' : log'[i].type = "created" =>
                 \/ i \in DOMAIN log /\ log'[i] = log[i]
                 \/ /\ Recorded(d) /\ i = Len(log') /\ i \notin DOMAIN log
                    /\ log'[i].lane = call[d].lane /\ log'[i].op = call[d].op
  BY <1>2, RecordLog
<1> QED BY <1>1, <1>2, NextLog

InHandCalls ==
    \A c \in Callers :
        /\ call[c].stage \in Own \cup Checking => call[c].lane \in 1..minted
        /\ call[c].stage \notin Own \cup Checking => call[c].lane = Nothing

HandAt(c) ==
    /\ call[c].stage \in Own \cup Checking => call[c].lane \in 1..minted
    /\ call[c].stage \notin Own \cup Checking => call[c].lane = Nothing

LEMMA HandRest ==
    ASSUME TypeOK, InHand, NEW c \in Callers, Only(c), HandAt(c)', [Next]_vars
    PROVE  InHandCalls'
<1>1. ASSUME NEW d \in Callers, d # c PROVE HandAt(d)'
  <2>1. call'[d] = call[d]
    BY <1>1 DEF Only
  <2>2. HandAt(d)
    BY DEF InHand, HandAt
  <2> QED BY <2>1, <2>2, LogTypeStep DEF HandAt
<1> QED BY <1>1 DEF InHandCalls, HandAt

LEMMA OutcomeHand ==
    ASSUME TypeOK, InHand, NEW c \in Callers, NEW n \in Nat, n <= Len(log), Outcome(c, n),
           call[c].stage \in Looking, [Next]_vars
    PROVE  Only(c) /\ HandAt(c)'
<1>1. \A i \in 1..n : log[i].type = "created" => log[i].lane \in 1..minted
  BY TypeParts DEF LogType, InHand
<1>2. call[c].lane = Nothing
  BY DEF InHand, Looking, Own, Checking, Launching
<1>3. CASE /\ call'[c].stage = (IF gate = c THEN "making" ELSE "gate")
           /\ call'[c].lane = call[c].lane /\ Only(c)
  BY <1>2, <1>3 DEF HandAt, Own, Checking, Launching
<1>4. CASE /\ call'[c].stage = "checking" /\ Only(c)
           /\ \E i \in 1..n : log[i].type = "created" /\ call'[c].lane = log[i].lane
  BY <1>1, <1>4, LogTypeStep DEF HandAt, Own, Checking, Launching
<1>5. CASE Ended(c)
  BY <1>5 DEF Ended, NoCall, HandAt, Own, Checking, Launching
<1> QED BY <1>3, <1>4, <1>5 DEF Outcome

(* The sessions in hand.                                                   *)
LEMMA InHandCallsStep ==
    ASSUME TypeOK, InHand, Snapshots, [Next]_vars
    PROVE  InHandCalls'
<1>1. ASSUME NEW c \in Callers, Asks(c) PROVE InHandCalls'
  <2>1. HandAt(c)
    BY DEF InHand, HandAt
  <2>2. Only(c) /\ HandAt(c)'
    BY <1>1, AsksStep, LogTypeStep, <2>1 DEF Asks, Begun, world, HandAt, Own, Checking, Making, Launching
  <2> QED BY <2>2, HandRest
<1>2. ASSUME NEW c \in Callers, LooksUp(c) PROVE InHandCalls'
  <2>1. ASSUME Outcome(c, cache.upTo), Cached(c) PROVE InHandCalls'
    <3>1. cache.upTo \in Nat /\ cache.upTo <= Len(log) /\ call[c].stage \in Looking
      BY <1>2, <2>1, CacheCovers DEF LooksUp, Looking
    <3> QED BY <2>1, <3>1, OutcomeHand, HandRest
  <2>2. CASE Moved(c, "missed")
    <3>1. HandAt(c) /\ call[c].stage \in Looking
      BY <1>2 DEF LooksUp, Looking, InHand, HandAt
    <3>2. Only(c) /\ HandAt(c)'
      BY <2>2, <3>1 DEF Moved, HandAt, Own, Looking, Checking, Launching
    <3> QED BY <3>2, HandRest
  <2> QED BY <1>2, <2>1, <2>2, LooksUpStep
<1>3. ASSUME NEW c \in Callers, Admitted(c) PROVE InHandCalls'
  <2>1. ASSUME Outcome(c, cache.upTo), Cached(c) PROVE InHandCalls'
    <3>1. cache.upTo \in Nat /\ cache.upTo <= Len(log) /\ call[c].stage \in Looking
      BY <1>3, <2>1, CacheCovers DEF Admitted, Looking
    <3> QED BY <2>1, <3>1, OutcomeHand, HandRest
  <2>2. CASE Moved(c, "folding")
    <3>1. HandAt(c) /\ call[c].stage \in Looking
      BY <1>3 DEF Admitted, Looking, InHand, HandAt
    <3>2. Only(c) /\ HandAt(c)'
      BY <2>2, <3>1 DEF Moved, HandAt, Own, Looking, Checking, Launching
    <3> QED BY <3>2, HandRest
  <2> QED BY <1>3, <2>1, <2>2, AdmittedStep
<1>4. ASSUME NEW c \in Callers, Folds(c) PROVE InHandCalls'
  <2>1. HandAt(c)
    BY DEF InHand, HandAt
  <2>2. Only(c) /\ HandAt(c)'
    BY <1>4, FoldsStep, LogTypeStep, <2>1 DEF Folds, Folded, world, HandAt, Own, Checking, Making, Launching
  <2> QED BY <2>2, HandRest
<1>5. ASSUME NEW c \in Callers, Publishes(c) PROVE InHandCalls'
  <2>1. ASSUME Outcome(c, call[c].upTo) PROVE InHandCalls'
    <3>1. call[c].upTo \in Nat /\ call[c].upTo <= Len(log) /\ call[c].stage \in Looking
      BY <1>5, <2>1, TypeParts DEF Publishes, CallType, Calls, Snapshots, Looking
    <3> QED BY <2>1, <3>1, OutcomeHand, HandRest
  <2> QED BY <1>5, <2>1, PublishesStep
<1>6. ASSUME NEW c \in Callers, LookupFails(c) PROVE InHandCalls'
  <2>1. HandAt(c)
    BY DEF InHand, HandAt
  <2>2. Only(c) /\ HandAt(c)'
    BY <1>6, LookupFailsStep, LogTypeStep, <2>1 DEF LookupFails, Ended, NoCall, world, HandAt, Own, Checking, Making, Launching
  <2> QED BY <2>2, HandRest
<1>7. ASSUME NEW c \in Callers, ChecksRegistry(c) PROVE InHandCalls'
  <2>1. HandAt(c)
    BY DEF InHand, HandAt
  <2>2. Only(c) /\ HandAt(c)'
    BY <1>7, ChecksRegistryStep, LogTypeStep, <2>1 DEF ChecksRegistry, Ended, Moved, NoCall, world, HandAt, Own, Checking, Making, Launching
  <2> QED BY <2>2, HandRest
<1>8. ASSUME NEW c \in Callers, ChecksStarting(c) PROVE InHandCalls'
  <2>1. HandAt(c)
    BY DEF InHand, HandAt
  <2>2. Only(c) /\ HandAt(c)'
    BY <1>8, ChecksStartingStep, LogTypeStep, <2>1 DEF ChecksStarting, Ended, NoCall, world, HandAt, Own, Checking, Making, Launching
  <2> QED BY <2>2, HandRest
<1>9. ASSUME NEW c \in Callers, TakesGate(c) PROVE InHandCalls'
  <2>1. HandAt(c)
    BY DEF InHand, HandAt
  <2>2. Only(c) /\ HandAt(c)'
    BY <1>9, TakesGateStep, LogTypeStep, <2>1 DEF TakesGate, Gated, world, HandAt, Own, Checking, Making, Launching
  <2> QED BY <2>2, HandRest
<1>10. ASSUME NEW c \in Callers, GivesUp(c) PROVE InHandCalls'
  <2>1. HandAt(c)
    BY DEF InHand, HandAt
  <2>2. Only(c) /\ HandAt(c)'
    BY <1>10, GivesUpStep, LogTypeStep, <2>1 DEF GivesUp, Ended, NoCall, world, HandAt, Own, Checking, Making, Launching
  <2> QED BY <2>2, HandRest
<1>11. ASSUME NEW c \in Callers, PreparationFails(c) PROVE InHandCalls'
  <2>1. HandAt(c)
    BY DEF InHand, HandAt
  <2>2. Only(c) /\ HandAt(c)'
    BY <1>11, PreparationFailsStep, LogTypeStep, <2>1 DEF PreparationFails, Ended, NoCall, world, HandAt, Own, Checking, Making, Launching
  <2> QED BY <2>2, HandRest
<1>12. ASSUME NEW c \in Callers, Tracks(c) PROVE InHandCalls'
  <2>1. minted + 1 \in 1..minted'
    BY <1>12, LogTypeStep DEF Tracks
  <2>2. Only(c) /\ HandAt(c)'
    BY <1>12, TracksStep, <2>1 DEF Made, HandAt, Own, Checking, Launching
  <2> QED BY <2>2, HandRest
<1>13. ASSUME NEW c \in Callers, Records(c) PROVE InHandCalls'
  <2>1. HandAt(c)
    BY DEF InHand, HandAt
  <2>2. Only(c) /\ HandAt(c)'
    BY <1>13, RecordsStep, LogTypeStep, <2>1 DEF Records, Moved, world, HandAt, Own, Checking, Making, Launching
  <2> QED BY <2>2, HandRest
<1>14. ASSUME NEW c \in Callers, RecordFails(c) PROVE InHandCalls'
  <2>1. HandAt(c)
    BY DEF InHand, HandAt
  <2>2. Only(c) /\ HandAt(c)'
    BY <1>14, RecordFailsStep, LogTypeStep, <2>1 DEF RecordFails, Ended, NoCall, world, HandAt, Own, Checking, Making, Launching
  <2> QED BY <2>2, HandRest
<1>15. ASSUME NEW c \in Callers, Launches(c) PROVE InHandCalls'
  <2>1. HandAt(c)
    BY DEF InHand, HandAt
  <2>2. Only(c) /\ HandAt(c)'
    BY <1>15, LaunchesStep, LogTypeStep, <2>1 DEF Launches, Moved, world, HandAt, Own, Checking, Making, Launching
  <2> QED BY <2>2, HandRest
<1>16. ASSUME NEW c \in Callers, RunnerAnswers(c) PROVE InHandCalls'
  <2>1. HandAt(c)
    BY DEF InHand, HandAt
  <2>2. Only(c) /\ HandAt(c)'
    BY <1>16, RunnerAnswersStep, LogTypeStep, <2>1 DEF RunnerAnswers, Moved, world, HandAt, Own, Checking, Making, Launching
  <2> QED BY <2>2, HandRest
<1>17. ASSUME NEW c \in Callers, LaunchFails(c) PROVE InHandCalls'
  <2>1. HandAt(c)
    BY DEF InHand, HandAt
  <2>2. Only(c) /\ HandAt(c)'
    BY <1>17, LaunchFailsStep, LogTypeStep, <2>1 DEF LaunchFails, Ended, NoCall, world, HandAt, Own, Checking, Making, Launching
  <2> QED BY <2>2, HandRest
<1>18. ASSUME NEW c \in Callers, Registers(c) PROVE InHandCalls'
  <2>1. HandAt(c)
    BY DEF InHand, HandAt
  <2>2. Only(c) /\ HandAt(c)'
    BY <1>18, RegistersStep, LogTypeStep, <2>1 DEF Registers, Moved, world, HandAt, Own, Checking, Making, Launching
  <2> QED BY <2>2, HandRest
<1>19. ASSUME NEW c \in Callers, Untracks(c) PROVE InHandCalls'
  <2>1. HandAt(c)
    BY DEF InHand, HandAt
  <2>2. Only(c) /\ HandAt(c)'
    BY <1>19, UntracksStep, LogTypeStep, <2>1 DEF Untracks, Moved, world, HandAt, Own, Checking, Making, Launching
  <2> QED BY <2>2, HandRest
<1>20. ASSUME NEW c \in Callers, Finishes(c) PROVE InHandCalls'
  <2>1. HandAt(c)
    BY DEF InHand, HandAt
  <2>2. Only(c) /\ HandAt(c)'
    BY <1>20, FinishesStep, LogTypeStep, <2>1 DEF Finishes, Ended, NoCall, world, HandAt, Own, Checking, Making, Launching
  <2> QED BY <2>2, HandRest
<1>21. ASSUME NEW l \in Lanes, RunnerEnds(l) PROVE InHandCalls'
  BY <1>21 DEF RunnerEnds, memory, world, InHand, InHandCalls
<1>22. ASSUME NEW l \in Lanes, HearsExit(l) PROVE InHandCalls'
  BY <1>22 DEF HearsExit, memory, world, InHand, InHandCalls
<1>23. ASSUME NEW l \in Lanes, Forgets(l) PROVE InHandCalls'
  BY <1>23 DEF Forgets, memory, world, InHand, InHandCalls
<1>24. ASSUME NEW l \in Lanes, Adopts(l) PROVE InHandCalls'
  BY <1>24 DEF Adopts, memory, world, InHand, InHandCalls
<1>25. ASSUME NEW l \in Lanes, RecordsLoss(l) PROVE InHandCalls'
  BY <1>25 DEF RecordsLoss, memory, world, InHand, InHandCalls
<1>26. CASE OthersAppend
  BY <1>26 DEF OthersAppend, memory, world, InHand, InHandCalls
<1>27. CASE DaemonRestarts
  BY <1>27 DEF DaemonRestarts, NoCall, InHandCalls, Own, Checking, Launching
<1>28. CASE UNCHANGED vars
  BY <1>28 DEF vars, memory, world, InHand, InHandCalls
<1> QED BY <1>1, <1>2, <1>3, <1>4, <1>5, <1>6, <1>7, <1>8, <1>9, <1>10, <1>11, <1>12, <1>13, <1>14, <1>15, <1>16, <1>17, <1>18, <1>19, <1>20, <1>21, <1>22, <1>23, <1>24, <1>25, <1>26, <1>27, <1>28 DEF Next, Lookup, Answering, Creating, Launch, Around

LEMMA InHandStep ==
    ASSUME TypeOK, InHand, Snapshots, [Next]_vars
    PROVE  InHand'
<1>1. \A i \in DOMAIN log' : log'[i].type = "created" => log'[i].lane \in 1..minted'
  BY NewCreation, LogTypeStep DEF InHand, Recorded, Own
<1> QED BY <1>1, InHandCallsStep DEF InHand, InHandCalls

LEMMA AloneRest ==
    ASSUME TypeOK, InHand, OwnAlone, NEW c \in Callers, Only(c),
           call'[c].stage \in Own =>
               \/ call[c].stage \in Own /\ call'[c].lane = call[c].lane
               \/ call'[c].lane = minted + 1
    PROVE  OwnAlone'
<1>1. ASSUME NEW d \in Callers, d # c, call'[c].stage \in Own, call'[d].stage \in Own,
             call'[c].lane = call'[d].lane
      PROVE  FALSE
  <2>1. call'[d] = call[d]
    BY <1>1 DEF Only
  <2>2. call[d].lane \in 1..minted /\ minted \in Nat
    BY <1>1, <2>1, TypeParts, CreationAssumption DEF InHand, LogType
  <2>3. call[c].stage \in Own /\ call[c].lane = call[d].lane
    BY <1>1, <2>1, <2>2
  <2> QED BY <1>1, <2>1, <2>3 DEF OwnAlone
<1>2. ASSUME NEW d \in Callers, NEW e \in Callers, d # c, e # c,
             call'[d].stage \in Own, call'[e].stage \in Own, call'[d].lane = call'[e].lane
      PROVE  d = e
  BY <1>2 DEF Only, OwnAlone
<1> QED BY <1>1, <1>2 DEF OwnAlone

(* Each in one hand.                                                       *)
LEMMA OwnAloneStep ==
    ASSUME TypeOK, InHand, Snapshots, OwnAlone, [Next]_vars
    PROVE  OwnAlone'
<1>1. ASSUME NEW c \in Callers, Asks(c) PROVE OwnAlone'
  <2>1. /\ Only(c)
        /\ call'[c].stage \in Own =>
               \/ call[c].stage \in Own /\ call'[c].lane = call[c].lane
               \/ call'[c].lane = minted + 1
    BY <1>1, AsksStep DEF Asks, Begun, Own, Launching
  <2> QED BY <2>1, AloneRest
<1>2. ASSUME NEW c \in Callers, LooksUp(c) PROVE OwnAlone'
  <2>1. /\ Only(c)
        /\ call'[c].stage \in Own =>
               \/ call[c].stage \in Own /\ call'[c].lane = call[c].lane
               \/ call'[c].lane = minted + 1
    BY <1>2, LooksUpStep DEF LooksUp, Outcome, Moved, Ended, NoCall, Own, Launching
  <2> QED BY <2>1, AloneRest
<1>3. ASSUME NEW c \in Callers, Admitted(c) PROVE OwnAlone'
  <2>1. /\ Only(c)
        /\ call'[c].stage \in Own =>
               \/ call[c].stage \in Own /\ call'[c].lane = call[c].lane
               \/ call'[c].lane = minted + 1
    BY <1>3, AdmittedStep DEF Admitted, Outcome, Moved, Ended, NoCall, Own, Launching
  <2> QED BY <2>1, AloneRest
<1>4. ASSUME NEW c \in Callers, Folds(c) PROVE OwnAlone'
  <2>1. /\ Only(c)
        /\ call'[c].stage \in Own =>
               \/ call[c].stage \in Own /\ call'[c].lane = call[c].lane
               \/ call'[c].lane = minted + 1
    BY <1>4, FoldsStep DEF Folds, Folded, Own, Launching
  <2> QED BY <2>1, AloneRest
<1>5. ASSUME NEW c \in Callers, Publishes(c) PROVE OwnAlone'
  <2>1. /\ Only(c)
        /\ call'[c].stage \in Own =>
               \/ call[c].stage \in Own /\ call'[c].lane = call[c].lane
               \/ call'[c].lane = minted + 1
    BY <1>5, PublishesStep DEF Publishes, Outcome, Ended, NoCall, Own, Launching
  <2> QED BY <2>1, AloneRest
<1>6. ASSUME NEW c \in Callers, LookupFails(c) PROVE OwnAlone'
  <2>1. /\ Only(c)
        /\ call'[c].stage \in Own =>
               \/ call[c].stage \in Own /\ call'[c].lane = call[c].lane
               \/ call'[c].lane = minted + 1
    BY <1>6, LookupFailsStep DEF LookupFails, Ended, NoCall, Own, Launching
  <2> QED BY <2>1, AloneRest
<1>7. ASSUME NEW c \in Callers, ChecksRegistry(c) PROVE OwnAlone'
  <2>1. /\ Only(c)
        /\ call'[c].stage \in Own =>
               \/ call[c].stage \in Own /\ call'[c].lane = call[c].lane
               \/ call'[c].lane = minted + 1
    BY <1>7, ChecksRegistryStep DEF ChecksRegistry, Ended, Moved, NoCall, Own, Launching
  <2> QED BY <2>1, AloneRest
<1>8. ASSUME NEW c \in Callers, ChecksStarting(c) PROVE OwnAlone'
  <2>1. /\ Only(c)
        /\ call'[c].stage \in Own =>
               \/ call[c].stage \in Own /\ call'[c].lane = call[c].lane
               \/ call'[c].lane = minted + 1
    BY <1>8, ChecksStartingStep DEF ChecksStarting, Ended, NoCall, Own, Launching
  <2> QED BY <2>1, AloneRest
<1>9. ASSUME NEW c \in Callers, TakesGate(c) PROVE OwnAlone'
  <2>1. /\ Only(c)
        /\ call'[c].stage \in Own =>
               \/ call[c].stage \in Own /\ call'[c].lane = call[c].lane
               \/ call'[c].lane = minted + 1
    BY <1>9, TakesGateStep DEF TakesGate, Gated, Own, Launching
  <2> QED BY <2>1, AloneRest
<1>10. ASSUME NEW c \in Callers, GivesUp(c) PROVE OwnAlone'
  <2>1. /\ Only(c)
        /\ call'[c].stage \in Own =>
               \/ call[c].stage \in Own /\ call'[c].lane = call[c].lane
               \/ call'[c].lane = minted + 1
    BY <1>10, GivesUpStep DEF GivesUp, Ended, NoCall, Own, Launching
  <2> QED BY <2>1, AloneRest
<1>11. ASSUME NEW c \in Callers, PreparationFails(c) PROVE OwnAlone'
  <2>1. /\ Only(c)
        /\ call'[c].stage \in Own =>
               \/ call[c].stage \in Own /\ call'[c].lane = call[c].lane
               \/ call'[c].lane = minted + 1
    BY <1>11, PreparationFailsStep DEF PreparationFails, Ended, NoCall, Own, Launching
  <2> QED BY <2>1, AloneRest
<1>12. ASSUME NEW c \in Callers, Tracks(c) PROVE OwnAlone'
  <2>1. /\ Only(c)
        /\ call'[c].stage \in Own =>
               \/ call[c].stage \in Own /\ call'[c].lane = call[c].lane
               \/ call'[c].lane = minted + 1
    BY <1>12, TracksStep DEF Tracks, Made, Own, Launching
  <2> QED BY <2>1, AloneRest
<1>13. ASSUME NEW c \in Callers, Records(c) PROVE OwnAlone'
  <2>1. /\ Only(c)
        /\ call'[c].stage \in Own =>
               \/ call[c].stage \in Own /\ call'[c].lane = call[c].lane
               \/ call'[c].lane = minted + 1
    BY <1>13, RecordsStep DEF Records, Moved, Own, Launching
  <2> QED BY <2>1, AloneRest
<1>14. ASSUME NEW c \in Callers, RecordFails(c) PROVE OwnAlone'
  <2>1. /\ Only(c)
        /\ call'[c].stage \in Own =>
               \/ call[c].stage \in Own /\ call'[c].lane = call[c].lane
               \/ call'[c].lane = minted + 1
    BY <1>14, RecordFailsStep DEF RecordFails, Ended, NoCall, Own, Launching
  <2> QED BY <2>1, AloneRest
<1>15. ASSUME NEW c \in Callers, Launches(c) PROVE OwnAlone'
  <2>1. /\ Only(c)
        /\ call'[c].stage \in Own =>
               \/ call[c].stage \in Own /\ call'[c].lane = call[c].lane
               \/ call'[c].lane = minted + 1
    BY <1>15, LaunchesStep DEF Launches, Moved, Own, Launching
  <2> QED BY <2>1, AloneRest
<1>16. ASSUME NEW c \in Callers, RunnerAnswers(c) PROVE OwnAlone'
  <2>1. /\ Only(c)
        /\ call'[c].stage \in Own =>
               \/ call[c].stage \in Own /\ call'[c].lane = call[c].lane
               \/ call'[c].lane = minted + 1
    BY <1>16, RunnerAnswersStep DEF RunnerAnswers, Moved, Own, Launching
  <2> QED BY <2>1, AloneRest
<1>17. ASSUME NEW c \in Callers, LaunchFails(c) PROVE OwnAlone'
  <2>1. /\ Only(c)
        /\ call'[c].stage \in Own =>
               \/ call[c].stage \in Own /\ call'[c].lane = call[c].lane
               \/ call'[c].lane = minted + 1
    BY <1>17, LaunchFailsStep DEF LaunchFails, Ended, NoCall, Own, Launching
  <2> QED BY <2>1, AloneRest
<1>18. ASSUME NEW c \in Callers, Registers(c) PROVE OwnAlone'
  <2>1. /\ Only(c)
        /\ call'[c].stage \in Own =>
               \/ call[c].stage \in Own /\ call'[c].lane = call[c].lane
               \/ call'[c].lane = minted + 1
    BY <1>18, RegistersStep DEF Registers, Moved, Own, Launching
  <2> QED BY <2>1, AloneRest
<1>19. ASSUME NEW c \in Callers, Untracks(c) PROVE OwnAlone'
  <2>1. /\ Only(c)
        /\ call'[c].stage \in Own =>
               \/ call[c].stage \in Own /\ call'[c].lane = call[c].lane
               \/ call'[c].lane = minted + 1
    BY <1>19, UntracksStep DEF Untracks, Moved, Own, Launching
  <2> QED BY <2>1, AloneRest
<1>20. ASSUME NEW c \in Callers, Finishes(c) PROVE OwnAlone'
  <2>1. /\ Only(c)
        /\ call'[c].stage \in Own =>
               \/ call[c].stage \in Own /\ call'[c].lane = call[c].lane
               \/ call'[c].lane = minted + 1
    BY <1>20, FinishesStep DEF Finishes, Ended, NoCall, Own, Launching
  <2> QED BY <2>1, AloneRest
<1>21. ASSUME NEW l \in Lanes, RunnerEnds(l) PROVE OwnAlone'
  BY <1>21 DEF RunnerEnds, memory, OwnAlone
<1>22. ASSUME NEW l \in Lanes, HearsExit(l) PROVE OwnAlone'
  BY <1>22 DEF HearsExit, memory, OwnAlone
<1>23. ASSUME NEW l \in Lanes, Forgets(l) PROVE OwnAlone'
  BY <1>23 DEF Forgets, memory, OwnAlone
<1>24. ASSUME NEW l \in Lanes, Adopts(l) PROVE OwnAlone'
  BY <1>24 DEF Adopts, memory, OwnAlone
<1>25. ASSUME NEW l \in Lanes, RecordsLoss(l) PROVE OwnAlone'
  BY <1>25 DEF RecordsLoss, memory, OwnAlone
<1>26. CASE OthersAppend
  BY <1>26 DEF OthersAppend, memory, OwnAlone
<1>27. CASE DaemonRestarts
  BY <1>27 DEF DaemonRestarts, NoCall, OwnAlone, Own, Launching
<1>28. CASE UNCHANGED vars
  BY <1>28 DEF vars, memory, OwnAlone
<1> QED BY <1>1, <1>2, <1>3, <1>4, <1>5, <1>6, <1>7, <1>8, <1>9, <1>10, <1>11, <1>12, <1>13, <1>14, <1>15, <1>16, <1>17, <1>18, <1>19, <1>20, <1>21, <1>22, <1>23, <1>24, <1>25, <1>26, <1>27, <1>28 DEF Next, Lookup, Answering, Creating, Launch, Around

LEMMA UnrepeatedStep ==
    ASSUME TypeOK, InHand, Unrepeated, Current, [Next]_vars
    PROVE  Unrepeated'
<1> SUFFICES ASSUME NEW i \in DOMAIN log', NEW j \in DOMAIN log',
                    log'[i].type = "created", log'[j].type = "created",
                    log'[i].op # Nothing, log'[i].op = log'[j].op
             PROVE  i = j
  BY DEF Unrepeated
<1>1. CASE i \in DOMAIN log /\ j \in DOMAIN log
  <2>1. log'[i] = log[i] /\ log'[j] = log[j]
    BY <1>1, LogTypeStep
  <2> QED BY <1>1, <2>1 DEF Unrepeated
<1>2. CASE i \notin DOMAIN log /\ j \notin DOMAIN log
  BY <1>2, NewCreation
<1>3. ASSUME NEW a \in DOMAIN log', NEW b \in DOMAIN log', a \in DOMAIN log, b \notin DOMAIN log,
             log'[a].type = "created", log'[b].type = "created",
             log'[a].op # Nothing, log'[a].op = log'[b].op
      PROVE  FALSE
  <2>1. PICK d \in Callers : Recorded(d) /\ log'[b].op = call[d].op
    BY <1>3, NewCreation
  <2>2. log'[a] = log[a]
    BY <1>3, LogTypeStep
  <2>3. log[a].op # call[d].op
    BY <1>3, <2>1, <2>2 DEF Current, Recorded, Making
  <2> QED BY <1>3, <2>1, <2>2, <2>3
<1> QED BY <1>1, <1>2, <1>3

(* The gate is only taken by TakesGate.                                    *)
LEMMA GateKept ==
    ASSUME TypeOK, [Next]_vars
    PROVE  \A d \in Callers : gate' = d => gate = d \/ TakesGate(d)
<1>1. ASSUME NEW c \in Callers, Asks(c) PROVE \A d \in Callers : gate' = d => gate = d \/ TakesGate(d)
  BY <1>1, CreationAssumption DEF Asks, memory, world, Answers
<1>2. ASSUME NEW c \in Callers, LooksUp(c) PROVE \A d \in Callers : gate' = d => gate = d \/ TakesGate(d)
  BY <1>2, CreationAssumption DEF LooksUp, Decides, Answers
<1>3. ASSUME NEW c \in Callers, Admitted(c) PROVE \A d \in Callers : gate' = d => gate = d \/ TakesGate(d)
  BY <1>3, CreationAssumption DEF Admitted, Decides, Answers
<1>4. ASSUME NEW c \in Callers, Folds(c) PROVE \A d \in Callers : gate' = d => gate = d \/ TakesGate(d)
  BY <1>4, CreationAssumption DEF Folds, memory, world, Answers
<1>5. ASSUME NEW c \in Callers, Publishes(c) PROVE \A d \in Callers : gate' = d => gate = d \/ TakesGate(d)
  BY <1>5, CreationAssumption DEF Publishes, Decides, Answers
<1>6. ASSUME NEW c \in Callers, LookupFails(c) PROVE \A d \in Callers : gate' = d => gate = d \/ TakesGate(d)
  BY <1>6, CreationAssumption DEF LookupFails, memory, world, Refuses, Answers
<1>7. ASSUME NEW c \in Callers, ChecksRegistry(c) PROVE \A d \in Callers : gate' = d => gate = d \/ TakesGate(d)
  BY <1>7, CreationAssumption DEF ChecksRegistry, memory, world, Answers
<1>8. ASSUME NEW c \in Callers, ChecksStarting(c) PROVE \A d \in Callers : gate' = d => gate = d \/ TakesGate(d)
  BY <1>8, CreationAssumption DEF ChecksStarting, memory, world, Answers
<1>9. ASSUME NEW c \in Callers, TakesGate(c) PROVE \A d \in Callers : gate' = d => gate = d \/ TakesGate(d)
  BY <1>9, CreationAssumption DEF TakesGate, memory, world, Answers
<1>10. ASSUME NEW c \in Callers, GivesUp(c) PROVE \A d \in Callers : gate' = d => gate = d \/ TakesGate(d)
  BY <1>10, CreationAssumption DEF GivesUp, memory, world, Refuses, Answers
<1>11. ASSUME NEW c \in Callers, PreparationFails(c) PROVE \A d \in Callers : gate' = d => gate = d \/ TakesGate(d)
  BY <1>11, CreationAssumption DEF PreparationFails, memory, world, Refuses, Answers
<1>12. ASSUME NEW c \in Callers, Tracks(c) PROVE \A d \in Callers : gate' = d => gate = d \/ TakesGate(d)
  BY <1>12, CreationAssumption DEF Tracks, memory, world, Answers
<1>13. ASSUME NEW c \in Callers, Records(c) PROVE \A d \in Callers : gate' = d => gate = d \/ TakesGate(d)
  BY <1>13, CreationAssumption DEF Records, memory, world, Answers
<1>14. ASSUME NEW c \in Callers, RecordFails(c) PROVE \A d \in Callers : gate' = d => gate = d \/ TakesGate(d)
  BY <1>14, CreationAssumption DEF RecordFails, memory, world, Refuses, Answers
<1>15. ASSUME NEW c \in Callers, Launches(c) PROVE \A d \in Callers : gate' = d => gate = d \/ TakesGate(d)
  BY <1>15, CreationAssumption DEF Launches, memory, world, Answers
<1>16. ASSUME NEW c \in Callers, RunnerAnswers(c) PROVE \A d \in Callers : gate' = d => gate = d \/ TakesGate(d)
  BY <1>16, CreationAssumption DEF RunnerAnswers, memory, world, Answers
<1>17. ASSUME NEW c \in Callers, LaunchFails(c) PROVE \A d \in Callers : gate' = d => gate = d \/ TakesGate(d)
  BY <1>17, CreationAssumption DEF LaunchFails, memory, world, Failed, Answers
<1>18. ASSUME NEW c \in Callers, Registers(c) PROVE \A d \in Callers : gate' = d => gate = d \/ TakesGate(d)
  BY <1>18, CreationAssumption DEF Registers, memory, world, Answers
<1>19. ASSUME NEW c \in Callers, Untracks(c) PROVE \A d \in Callers : gate' = d => gate = d \/ TakesGate(d)
  BY <1>19, CreationAssumption DEF Untracks, memory, world, Answers
<1>20. ASSUME NEW c \in Callers, Finishes(c) PROVE \A d \in Callers : gate' = d => gate = d \/ TakesGate(d)
  BY <1>20, CreationAssumption DEF Finishes, memory, world, Failed, Answers
<1>21. ASSUME NEW l \in Lanes, RunnerEnds(l) PROVE \A d \in Callers : gate' = d => gate = d \/ TakesGate(d)
  BY <1>21, CreationAssumption DEF RunnerEnds, memory, world, Answers
<1>22. ASSUME NEW l \in Lanes, HearsExit(l) PROVE \A d \in Callers : gate' = d => gate = d \/ TakesGate(d)
  BY <1>22, CreationAssumption DEF HearsExit, memory, world, Answers
<1>23. ASSUME NEW l \in Lanes, Forgets(l) PROVE \A d \in Callers : gate' = d => gate = d \/ TakesGate(d)
  BY <1>23, CreationAssumption DEF Forgets, memory, world, Answers
<1>24. ASSUME NEW l \in Lanes, Adopts(l) PROVE \A d \in Callers : gate' = d => gate = d \/ TakesGate(d)
  BY <1>24, CreationAssumption DEF Adopts, memory, world, Answers
<1>25. ASSUME NEW l \in Lanes, RecordsLoss(l) PROVE \A d \in Callers : gate' = d => gate = d \/ TakesGate(d)
  BY <1>25, CreationAssumption DEF RecordsLoss, memory, world, Answers
<1>26. CASE OthersAppend
  BY <1>26, CreationAssumption DEF OthersAppend, memory, world, Answers
<1>27. CASE DaemonRestarts
  BY <1>27, CreationAssumption DEF DaemonRestarts, memory, world, Answers
<1>28. CASE UNCHANGED vars
  BY <1>28 DEF vars, memory
<1> QED BY <1>1, <1>2, <1>3, <1>4, <1>5, <1>6, <1>7, <1>8, <1>9, <1>10, <1>11, <1>12, <1>13, <1>14, <1>15, <1>16, <1>17, <1>18, <1>19, <1>20, <1>21, <1>22, <1>23, <1>24, <1>25, <1>26, <1>27, <1>28 DEF Next, Lookup, Answering, Creating, Launch, Around

SnapAt(c) ==
    /\ call[c].stage \in Looking => call[c].mark <= Len(log)
    /\ call[c].stage = "folded" => call[c].mark <= call[c].upTo /\ call[c].upTo <= Len(log)
    /\ call[c].stage \in Looking /\ gate = c /\ call[c].marked =>
           \A i \in DOMAIN log : log[i].type = "created" => i <= call[c].mark
    /\ call[c].stage = "folded" /\ gate = c =>
           \A i \in DOMAIN log : log[i].type = "created" => i <= call[c].upTo

(* A request that does nothing keeps a snapshot that is as good.           *)
LEMMA SnapOther ==
    ASSUME TypeOK, InHand, Snapshots, [Next]_vars, NEW d \in Callers, call'[d] = call[d]
    PROVE  SnapAt(d)'
<1>1. SnapAt(d)
  BY DEF Snapshots, SnapAt
<1>2. call[d] \in Calls
  BY TypeParts DEF CallType
<1>3. /\ call'[d].stage \in Looking => call'[d].mark <= Len(log')
      /\ call'[d].stage = "folded" => call'[d].mark <= call'[d].upTo /\ call'[d].upTo <= Len(log')
  BY <1>1, <1>2, LogTypeStep DEF SnapAt, Calls
<1>4. ASSUME call'[d].stage \in Looking, gate' = d
      PROVE  /\ call'[d].marked =>
                    \A i \in DOMAIN log' : log'[i].type = "created" => i <= call'[d].mark
             /\ call'[d].stage = "folded" =>
                    \A i \in DOMAIN log' : log'[i].type = "created" => i <= call'[d].upTo
  <2>1. ~TakesGate(d)
    <3>1. TakesGate(d) => call[d].stage = "gate"
      BY DEF TakesGate
    <3> QED BY <1>4, <3>1 DEF Looking
  <2>2. gate = d
    BY <1>4, <2>1, GateKept
  <2>3. \A e \in Callers : ~Recorded(e)
    BY <1>4, CreationAssumption DEF Recorded
  <2> QED BY <1>1, <1>4, <2>2, <2>3, NewCreation DEF SnapAt
<1> QED BY <1>3, <1>4 DEF SnapAt, Looking

SnapCache == cache.ready => cache.mark <= cache.upTo /\ cache.upTo <= Len(log)

LEMMA SnapCacheKept ==
    ASSUME TypeOK, InHand, Snapshots, [Next]_vars, cache' = cache
    PROVE  SnapCache'
  BY LogTypeStep, TypeParts DEF SnapCache, Snapshots, CacheType

(* Snapshots stay good.                                                    *)
LEMMA SnapshotsStep ==
    ASSUME TypeOK, InHand, Snapshots, [Next]_vars
    PROVE  Snapshots'
<1>1. ASSUME NEW c \in Callers, Asks(c) PROVE Snapshots'
  <2>1. SnapCache'
    BY <1>1, SnapCacheKept DEF Asks, world
  <2>2. Only(c) /\ SnapAt(c)'
    <3>1. Len(log) \in Nat /\ log' = log /\ gate' = gate /\ gate # c
      BY <1>1, TypeParts, CreationAssumption DEF Asks, LogType, Holders, Looking, Checking, Making
    <3>2. Only(c) /\ call'[c].stage # "folded"
      BY <1>1, AsksStep DEF Begun
    <3> QED BY <1>1, <3>1, <3>2, AsksStep DEF Begun, SnapAt, Looking
  <2> QED BY <2>1, <2>2, SnapOther DEF Snapshots, SnapAt, SnapCache, Only
<1>2. ASSUME NEW c \in Callers, LooksUp(c) PROVE Snapshots'
  <2>1. SnapCache'
    BY <1>2, SnapCacheKept DEF LooksUp, world
  <2>2. Only(c) /\ SnapAt(c)'
    <3>1. CASE Outcome(c, cache.upTo)
      BY <3>1 DEF Outcome, Ended, NoCall, SnapAt, Looking, Only
    <3>2. CASE Moved(c, "missed") /\ gate' = gate
      <4>1. log' = log /\ call[c].stage \in Looking
        BY <1>2 DEF LooksUp, Looking
      <4> QED BY <3>2, <4>1 DEF Moved, Snapshots, SnapAt, Only
    <3> QED BY <1>2, <3>1, <3>2, LooksUpStep
  <2> QED BY <2>1, <2>2, SnapOther DEF Snapshots, SnapAt, SnapCache, Only
<1>3. ASSUME NEW c \in Callers, Admitted(c) PROVE Snapshots'
  <2>1. SnapCache'
    BY <1>3, SnapCacheKept DEF Admitted, world
  <2>2. Only(c) /\ SnapAt(c)'
    <3>1. CASE Outcome(c, cache.upTo)
      BY <3>1 DEF Outcome, Ended, NoCall, SnapAt, Looking, Only
    <3>2. CASE Moved(c, "folding") /\ gate' = gate
      <4>1. log' = log /\ call[c].stage \in Looking
        BY <1>3 DEF Admitted, Looking
      <4> QED BY <3>2, <4>1 DEF Moved, Snapshots, SnapAt, Only
    <3> QED BY <1>3, <3>1, <3>2, AdmittedStep
  <2> QED BY <2>1, <2>2, SnapOther DEF Snapshots, SnapAt, SnapCache, Only
<1>4. ASSUME NEW c \in Callers, Folds(c) PROVE Snapshots'
  <2>1. SnapCache'
    BY <1>4, SnapCacheKept DEF Folds, world
  <2>2. Only(c) /\ SnapAt(c)'
    <3>1. Len(log) \in Nat /\ log' = log /\ gate' = gate /\ call[c].stage = "folding"
      BY <1>4, TypeParts DEF Folds, world, LogType
    <3> QED BY <1>4, <3>1, FoldsStep DEF Folded, Snapshots, SnapAt, Looking
  <2> QED BY <2>1, <2>2, SnapOther DEF Snapshots, SnapAt, SnapCache, Only
<1>5. ASSUME NEW c \in Callers, Publishes(c) PROVE Snapshots'
  <2>0. call[c] \in Calls
    BY TypeParts DEF CallType
  <2>1. SnapCache'
    BY <1>5, <2>0 DEF Publishes, Label, SnapCache, Snapshots, Calls
  <2>2. Only(c) /\ SnapAt(c)'
    BY <1>5, PublishesStep DEF Outcome, Ended, NoCall, SnapAt, Looking
  <2> QED BY <2>1, <2>2, SnapOther DEF Snapshots, SnapAt, SnapCache, Only
<1>6. ASSUME NEW c \in Callers, LookupFails(c) PROVE Snapshots'
  <2>1. SnapCache'
    BY <1>6, SnapCacheKept DEF LookupFails, world
  <2>2. Only(c) /\ SnapAt(c)'
    BY <1>6, LookupFailsStep DEF Ended, NoCall, SnapAt, Looking
  <2> QED BY <2>1, <2>2, SnapOther DEF Snapshots, SnapAt, SnapCache, Only
<1>7. ASSUME NEW c \in Callers, ChecksRegistry(c) PROVE Snapshots'
  <2>1. SnapCache'
    BY <1>7, SnapCacheKept DEF ChecksRegistry, world
  <2>2. Only(c) /\ SnapAt(c)'
    BY <1>7, ChecksRegistryStep DEF Ended, Moved, NoCall, SnapAt, Looking
  <2> QED BY <2>1, <2>2, SnapOther DEF Snapshots, SnapAt, SnapCache, Only
<1>8. ASSUME NEW c \in Callers, ChecksStarting(c) PROVE Snapshots'
  <2>1. SnapCache'
    BY <1>8, SnapCacheKept DEF ChecksStarting, world
  <2>2. Only(c) /\ SnapAt(c)'
    BY <1>8, ChecksStartingStep DEF Ended, NoCall, SnapAt, Looking
  <2> QED BY <2>1, <2>2, SnapOther DEF Snapshots, SnapAt, SnapCache, Only
<1>9. ASSUME NEW c \in Callers, TakesGate(c) PROVE Snapshots'
  <2>1. SnapCache'
    BY <1>9, SnapCacheKept DEF TakesGate, world
  <2>2. Only(c) /\ SnapAt(c)'
    <3>1. Len(log) \in Nat /\ log' = log /\ \A i \in DOMAIN log : i <= Len(log)
      BY <1>9, TypeParts DEF TakesGate, world, LogType
    <3>2. Only(c) /\ call'[c].stage # "folded"
      BY <1>9, TakesGateStep DEF Gated
    <3> QED BY <1>9, <3>1, <3>2, TakesGateStep DEF Gated, SnapAt, Looking
  <2> QED BY <2>1, <2>2, SnapOther DEF Snapshots, SnapAt, SnapCache, Only
<1>10. ASSUME NEW c \in Callers, GivesUp(c) PROVE Snapshots'
  <2>1. SnapCache'
    BY <1>10, SnapCacheKept DEF GivesUp, world
  <2>2. Only(c) /\ SnapAt(c)'
    BY <1>10, GivesUpStep DEF Ended, NoCall, SnapAt, Looking
  <2> QED BY <2>1, <2>2, SnapOther DEF Snapshots, SnapAt, SnapCache, Only
<1>11. ASSUME NEW c \in Callers, PreparationFails(c) PROVE Snapshots'
  <2>1. SnapCache'
    BY <1>11, SnapCacheKept DEF PreparationFails, world
  <2>2. Only(c) /\ SnapAt(c)'
    BY <1>11, PreparationFailsStep DEF Ended, NoCall, SnapAt, Looking
  <2> QED BY <2>1, <2>2, SnapOther DEF Snapshots, SnapAt, SnapCache, Only
<1>12. ASSUME NEW c \in Callers, Tracks(c) PROVE Snapshots'
  <2>1. SnapCache'
    BY <1>12, SnapCacheKept DEF Tracks, world
  <2>2. Only(c) /\ SnapAt(c)'
    BY <1>12, TracksStep DEF Made, SnapAt, Looking
  <2> QED BY <2>1, <2>2, SnapOther DEF Snapshots, SnapAt, SnapCache, Only
<1>13. ASSUME NEW c \in Callers, Records(c) PROVE Snapshots'
  <2>1. SnapCache'
    BY <1>13, SnapCacheKept DEF Records, world
  <2>2. Only(c) /\ SnapAt(c)'
    BY <1>13, RecordsStep DEF Moved, SnapAt, Looking
  <2> QED BY <2>1, <2>2, SnapOther DEF Snapshots, SnapAt, SnapCache, Only
<1>14. ASSUME NEW c \in Callers, RecordFails(c) PROVE Snapshots'
  <2>1. SnapCache'
    BY <1>14, SnapCacheKept DEF RecordFails, world
  <2>2. Only(c) /\ SnapAt(c)'
    BY <1>14, RecordFailsStep DEF Ended, NoCall, SnapAt, Looking
  <2> QED BY <2>1, <2>2, SnapOther DEF Snapshots, SnapAt, SnapCache, Only
<1>15. ASSUME NEW c \in Callers, Launches(c) PROVE Snapshots'
  <2>1. SnapCache'
    BY <1>15, SnapCacheKept DEF Launches, world
  <2>2. Only(c) /\ SnapAt(c)'
    BY <1>15, LaunchesStep DEF Moved, SnapAt, Looking
  <2> QED BY <2>1, <2>2, SnapOther DEF Snapshots, SnapAt, SnapCache, Only
<1>16. ASSUME NEW c \in Callers, RunnerAnswers(c) PROVE Snapshots'
  <2>1. SnapCache'
    BY <1>16, SnapCacheKept DEF RunnerAnswers, world
  <2>2. Only(c) /\ SnapAt(c)'
    BY <1>16, RunnerAnswersStep DEF Moved, SnapAt, Looking
  <2> QED BY <2>1, <2>2, SnapOther DEF Snapshots, SnapAt, SnapCache, Only
<1>17. ASSUME NEW c \in Callers, LaunchFails(c) PROVE Snapshots'
  <2>1. SnapCache'
    BY <1>17, SnapCacheKept DEF LaunchFails, world
  <2>2. Only(c) /\ SnapAt(c)'
    BY <1>17, LaunchFailsStep DEF Ended, NoCall, SnapAt, Looking
  <2> QED BY <2>1, <2>2, SnapOther DEF Snapshots, SnapAt, SnapCache, Only
<1>18. ASSUME NEW c \in Callers, Registers(c) PROVE Snapshots'
  <2>1. SnapCache'
    BY <1>18, SnapCacheKept DEF Registers, world
  <2>2. Only(c) /\ SnapAt(c)'
    BY <1>18, RegistersStep DEF Moved, SnapAt, Looking
  <2> QED BY <2>1, <2>2, SnapOther DEF Snapshots, SnapAt, SnapCache, Only
<1>19. ASSUME NEW c \in Callers, Untracks(c) PROVE Snapshots'
  <2>1. SnapCache'
    BY <1>19, SnapCacheKept DEF Untracks, world
  <2>2. Only(c) /\ SnapAt(c)'
    BY <1>19, UntracksStep DEF Moved, SnapAt, Looking
  <2> QED BY <2>1, <2>2, SnapOther DEF Snapshots, SnapAt, SnapCache, Only
<1>20. ASSUME NEW c \in Callers, Finishes(c) PROVE Snapshots'
  <2>1. SnapCache'
    BY <1>20, SnapCacheKept DEF Finishes, world
  <2>2. Only(c) /\ SnapAt(c)'
    BY <1>20, FinishesStep DEF Ended, NoCall, SnapAt, Looking
  <2> QED BY <2>1, <2>2, SnapOther DEF Snapshots, SnapAt, SnapCache, Only
<1>21. ASSUME NEW l \in Lanes, RunnerEnds(l) PROVE Snapshots'
  <2>1. SnapCache' /\ call' = call
    BY <1>21, SnapCacheKept DEF RunnerEnds, memory, world
  <2> QED BY <2>1, SnapOther DEF Snapshots, SnapAt, SnapCache
<1>22. ASSUME NEW l \in Lanes, HearsExit(l) PROVE Snapshots'
  <2>1. SnapCache' /\ call' = call
    BY <1>22, SnapCacheKept DEF HearsExit, memory, world
  <2> QED BY <2>1, SnapOther DEF Snapshots, SnapAt, SnapCache
<1>23. ASSUME NEW l \in Lanes, Forgets(l) PROVE Snapshots'
  <2>1. SnapCache' /\ call' = call
    BY <1>23, SnapCacheKept DEF Forgets, memory, world
  <2> QED BY <2>1, SnapOther DEF Snapshots, SnapAt, SnapCache
<1>24. ASSUME NEW l \in Lanes, Adopts(l) PROVE Snapshots'
  <2>1. SnapCache' /\ call' = call
    BY <1>24, SnapCacheKept DEF Adopts, memory, world
  <2> QED BY <2>1, SnapOther DEF Snapshots, SnapAt, SnapCache
<1>25. ASSUME NEW l \in Lanes, RecordsLoss(l) PROVE Snapshots'
  <2>1. SnapCache' /\ call' = call
    BY <1>25, SnapCacheKept DEF RecordsLoss, memory, world
  <2> QED BY <2>1, SnapOther DEF Snapshots, SnapAt, SnapCache
<1>26. CASE OthersAppend
  <2>1. SnapCache' /\ call' = call
    BY <1>26, SnapCacheKept DEF OthersAppend, memory, world
  <2> QED BY <2>1, SnapOther DEF Snapshots, SnapAt, SnapCache
<1>27. CASE DaemonRestarts
  BY <1>27 DEF DaemonRestarts, NoCall, Snapshots, Looking
<1>28. CASE UNCHANGED vars
  <2>1. SnapCache' /\ call' = call
    BY <1>28, SnapCacheKept DEF vars, memory
  <2> QED BY <2>1, SnapOther DEF Snapshots, SnapAt, SnapCache
<1> QED BY <1>1, <1>2, <1>3, <1>4, <1>5, <1>6, <1>7, <1>8, <1>9, <1>10, <1>11, <1>12, <1>13, <1>14, <1>15, <1>16, <1>17, <1>18, <1>19, <1>20, <1>21, <1>22, <1>23, <1>24, <1>25, <1>26, <1>27, <1>28 DEF Next, Lookup, Answering, Creating, Launch, Around

CurrentAt(c) ==
    call[c].stage \in Making /\ call[c].op # Nothing =>
        \A i \in DOMAIN log : log[i].type = "created" => log[i].op # call[c].op

(* Who is about to create holds the gate, so nobody else records.          *)
LEMMA CurrentOther ==
    ASSUME TypeOK, InHand, Snapshots, Current, [Next]_vars, NEW d \in Callers, call'[d] = call[d]
    PROVE  CurrentAt(d)'
<1> SUFFICES ASSUME call'[d].stage \in Making, call'[d].op # Nothing
             PROVE  \A i \in DOMAIN log' : log'[i].type = "created" => log'[i].op # call'[d].op
  BY DEF CurrentAt
<1>1. gate' = d
  BY HoldersStep DEF Holders
<1>2. \A e \in Callers : ~Recorded(e)
  BY <1>1, CreationAssumption DEF Recorded
<1> QED BY <1>2, NewCreation DEF Current

LEMMA OutcomeCurrent ==
    ASSUME TypeOK, Snapshots, NEW c \in Callers, NEW n \in Nat, Outcome(c, n), log' = log,
           call[c].stage \in Looking,
           gate = c => \A i \in DOMAIN log : log[i].type = "created" => i <= n
    PROVE  Only(c) /\ CurrentAt(c)'
<1>1. CASE /\ call'[c].stage = (IF gate = c THEN "making" ELSE "gate")
           /\ call'[c].op = call[c].op
           /\ \A i \in 1..n : log[i].type = "created" => log[i].op # call[c].op
           /\ Only(c)
  <2>1. CASE gate # c
    BY <1>1, <2>1 DEF CurrentAt, Making
  <2>2. CASE gate = c
    <3>1. \A i \in DOMAIN log : log[i].type = "created" => i \in 1..n
      <4>1. log \in Seq(Rows)
        BY TypeParts DEF LogType
      <4> QED BY <2>2, <4>1
    <3> QED BY <1>1, <3>1 DEF CurrentAt
  <2> QED BY <2>1, <2>2
<1>2. CASE call'[c].stage = "checking" /\ Only(c)
  BY <1>2 DEF CurrentAt, Making
<1>3. CASE Ended(c)
  BY <1>3 DEF Ended, NoCall, CurrentAt, Making
<1> QED BY <1>1, <1>2, <1>3 DEF Outcome

(* A creation under way is of an operation that is not in the ledger.      *)
LEMMA CurrentStep ==
    ASSUME TypeOK, InHand, Snapshots, Current, [Next]_vars
    PROVE  Current'
<1>1. ASSUME NEW c \in Callers, Asks(c) PROVE Current'
  <2>1. Only(c) /\ CurrentAt(c)'
    BY <1>1, AsksStep DEF Begun, CurrentAt, Making
  <2> QED BY <2>1, CurrentOther DEF Current, CurrentAt, Only
<1>2. ASSUME NEW c \in Callers, LooksUp(c) PROVE Current'
  <2>1. Only(c) /\ CurrentAt(c)'
    <3>1. ASSUME Outcome(c, cache.upTo), Cached(c) PROVE Only(c) /\ CurrentAt(c)'
      <4>1. /\ cache.upTo \in Nat /\ call[c].stage \in Looking
            /\ call[c].mark \in Nat /\ log \in Seq(Rows)
        BY <1>2, <3>1, TypeParts, CacheCovers DEF LooksUp, Looking, CallType, Calls, LogType
      <4>3. ASSUME gate = c PROVE \A i \in DOMAIN log : log[i].type = "created" => i <= cache.upTo
        BY <1>2, <3>1, <4>1, <4>3, CacheCovers DEF LooksUp, Snapshots, Looking
      <4>2. log' = log
        BY <1>2 DEF LooksUp
      <4> QED BY <3>1, <4>1, <4>2, <4>3, OutcomeCurrent
    <3>2. CASE Moved(c, "missed")
      BY <3>2 DEF Moved, CurrentAt, Making
    <3> QED BY <1>2, <3>1, LooksUpStep, <3>2
  <2> QED BY <2>1, CurrentOther DEF Current, CurrentAt, Only
<1>3. ASSUME NEW c \in Callers, Admitted(c) PROVE Current'
  <2>1. Only(c) /\ CurrentAt(c)'
    <3>1. ASSUME Outcome(c, cache.upTo), Cached(c) PROVE Only(c) /\ CurrentAt(c)'
      <4>1. /\ cache.upTo \in Nat /\ call[c].stage \in Looking
            /\ call[c].mark \in Nat /\ log \in Seq(Rows)
        BY <1>3, <3>1, TypeParts, CacheCovers DEF Admitted, Looking, CallType, Calls, LogType
      <4>3. ASSUME gate = c PROVE \A i \in DOMAIN log : log[i].type = "created" => i <= cache.upTo
        BY <1>3, <3>1, <4>1, <4>3, CacheCovers DEF Admitted, Snapshots, Looking
      <4>2. log' = log
        BY <1>3 DEF Admitted
      <4> QED BY <3>1, <4>1, <4>2, <4>3, OutcomeCurrent
    <3>2. CASE Moved(c, "folding")
      BY <3>2 DEF Moved, CurrentAt, Making
    <3> QED BY <1>3, <3>1, AdmittedStep, <3>2
  <2> QED BY <2>1, CurrentOther DEF Current, CurrentAt, Only
<1>4. ASSUME NEW c \in Callers, Folds(c) PROVE Current'
  <2>1. Only(c) /\ CurrentAt(c)'
    BY <1>4, FoldsStep DEF Folded, CurrentAt, Making
  <2> QED BY <2>1, CurrentOther DEF Current, CurrentAt, Only
<1>5. ASSUME NEW c \in Callers, Publishes(c) PROVE Current'
  <2>1. Only(c) /\ CurrentAt(c)'
    <3>1. ASSUME Outcome(c, call[c].upTo) PROVE Only(c) /\ CurrentAt(c)'
      <4>1. /\ call[c].upTo \in Nat /\ call[c].stage \in Looking
            /\ call[c].mark \in Nat /\ log \in Seq(Rows)
        BY <1>5, <3>1, TypeParts, CacheCovers DEF Publishes, Snapshots, Looking, CallType, Calls, LogType
      <4>3. ASSUME gate = c PROVE \A i \in DOMAIN log : log[i].type = "created" => i <= call[c].upTo
        BY <1>5, <3>1, <4>1, <4>3, CacheCovers DEF Publishes, Snapshots
      <4>2. log' = log
        BY <1>5 DEF Publishes
      <4> QED BY <3>1, <4>1, <4>2, <4>3, OutcomeCurrent
    <3> QED BY <1>5, <3>1, PublishesStep
  <2> QED BY <2>1, CurrentOther DEF Current, CurrentAt, Only
<1>6. ASSUME NEW c \in Callers, LookupFails(c) PROVE Current'
  <2>1. Only(c) /\ CurrentAt(c)'
    BY <1>6, LookupFailsStep DEF Ended, NoCall, CurrentAt, Making
  <2> QED BY <2>1, CurrentOther DEF Current, CurrentAt, Only
<1>7. ASSUME NEW c \in Callers, ChecksRegistry(c) PROVE Current'
  <2>1. Only(c) /\ CurrentAt(c)'
    BY <1>7, ChecksRegistryStep DEF Ended, Moved, NoCall, CurrentAt, Making
  <2> QED BY <2>1, CurrentOther DEF Current, CurrentAt, Only
<1>8. ASSUME NEW c \in Callers, ChecksStarting(c) PROVE Current'
  <2>1. Only(c) /\ CurrentAt(c)'
    BY <1>8, ChecksStartingStep DEF Ended, NoCall, CurrentAt, Making
  <2> QED BY <2>1, CurrentOther DEF Current, CurrentAt, Only
<1>9. ASSUME NEW c \in Callers, TakesGate(c) PROVE Current'
  <2>1. Only(c) /\ CurrentAt(c)'
    BY <1>9, TakesGateStep DEF Gated, CurrentAt, Making
  <2> QED BY <2>1, CurrentOther DEF Current, CurrentAt, Only
<1>10. ASSUME NEW c \in Callers, GivesUp(c) PROVE Current'
  <2>1. Only(c) /\ CurrentAt(c)'
    BY <1>10, GivesUpStep DEF Ended, NoCall, CurrentAt, Making
  <2> QED BY <2>1, CurrentOther DEF Current, CurrentAt, Only
<1>11. ASSUME NEW c \in Callers, PreparationFails(c) PROVE Current'
  <2>1. Only(c) /\ CurrentAt(c)'
    BY <1>11, PreparationFailsStep DEF Ended, NoCall, CurrentAt, Making
  <2> QED BY <2>1, CurrentOther DEF Current, CurrentAt, Only
<1>12. ASSUME NEW c \in Callers, Tracks(c) PROVE Current'
  <2>1. Only(c) /\ CurrentAt(c)'
    <3>1. log' = log /\ call[c].stage = "making"
      BY <1>12 DEF Tracks
    <3> QED BY <1>12, <3>1, TracksStep DEF Made, Current, CurrentAt, Making
  <2> QED BY <2>1, CurrentOther DEF Current, CurrentAt, Only
<1>13. ASSUME NEW c \in Callers, Records(c) PROVE Current'
  <2>1. Only(c) /\ CurrentAt(c)'
    BY <1>13, RecordsStep DEF Moved, CurrentAt, Making
  <2> QED BY <2>1, CurrentOther DEF Current, CurrentAt, Only
<1>14. ASSUME NEW c \in Callers, RecordFails(c) PROVE Current'
  <2>1. Only(c) /\ CurrentAt(c)'
    BY <1>14, RecordFailsStep DEF Ended, NoCall, CurrentAt, Making
  <2> QED BY <2>1, CurrentOther DEF Current, CurrentAt, Only
<1>15. ASSUME NEW c \in Callers, Launches(c) PROVE Current'
  <2>1. Only(c) /\ CurrentAt(c)'
    BY <1>15, LaunchesStep DEF Moved, CurrentAt, Making
  <2> QED BY <2>1, CurrentOther DEF Current, CurrentAt, Only
<1>16. ASSUME NEW c \in Callers, RunnerAnswers(c) PROVE Current'
  <2>1. Only(c) /\ CurrentAt(c)'
    BY <1>16, RunnerAnswersStep DEF Moved, CurrentAt, Making
  <2> QED BY <2>1, CurrentOther DEF Current, CurrentAt, Only
<1>17. ASSUME NEW c \in Callers, LaunchFails(c) PROVE Current'
  <2>1. Only(c) /\ CurrentAt(c)'
    BY <1>17, LaunchFailsStep DEF Ended, NoCall, CurrentAt, Making
  <2> QED BY <2>1, CurrentOther DEF Current, CurrentAt, Only
<1>18. ASSUME NEW c \in Callers, Registers(c) PROVE Current'
  <2>1. Only(c) /\ CurrentAt(c)'
    BY <1>18, RegistersStep DEF Moved, CurrentAt, Making
  <2> QED BY <2>1, CurrentOther DEF Current, CurrentAt, Only
<1>19. ASSUME NEW c \in Callers, Untracks(c) PROVE Current'
  <2>1. Only(c) /\ CurrentAt(c)'
    BY <1>19, UntracksStep DEF Moved, CurrentAt, Making
  <2> QED BY <2>1, CurrentOther DEF Current, CurrentAt, Only
<1>20. ASSUME NEW c \in Callers, Finishes(c) PROVE Current'
  <2>1. Only(c) /\ CurrentAt(c)'
    BY <1>20, FinishesStep DEF Ended, NoCall, CurrentAt, Making
  <2> QED BY <2>1, CurrentOther DEF Current, CurrentAt, Only
<1>21. ASSUME NEW l \in Lanes, RunnerEnds(l) PROVE Current'
  <2>1. call' = call
    BY <1>21 DEF RunnerEnds, memory, world
  <2> QED BY <2>1, CurrentOther DEF Current, CurrentAt
<1>22. ASSUME NEW l \in Lanes, HearsExit(l) PROVE Current'
  <2>1. call' = call
    BY <1>22 DEF HearsExit, memory, world
  <2> QED BY <2>1, CurrentOther DEF Current, CurrentAt
<1>23. ASSUME NEW l \in Lanes, Forgets(l) PROVE Current'
  <2>1. call' = call
    BY <1>23 DEF Forgets, memory, world
  <2> QED BY <2>1, CurrentOther DEF Current, CurrentAt
<1>24. ASSUME NEW l \in Lanes, Adopts(l) PROVE Current'
  <2>1. call' = call
    BY <1>24 DEF Adopts, memory, world
  <2> QED BY <2>1, CurrentOther DEF Current, CurrentAt
<1>25. ASSUME NEW l \in Lanes, RecordsLoss(l) PROVE Current'
  <2>1. call' = call
    BY <1>25 DEF RecordsLoss, memory, world
  <2> QED BY <2>1, CurrentOther DEF Current, CurrentAt
<1>26. CASE OthersAppend
  <2>1. call' = call
    BY <1>26 DEF OthersAppend, memory, world
  <2> QED BY <2>1, CurrentOther DEF Current, CurrentAt
<1>27. CASE DaemonRestarts
  BY <1>27 DEF DaemonRestarts, NoCall, Current, Making
<1>28. CASE UNCHANGED vars
  <2>1. call' = call
    BY <1>28 DEF vars, memory
  <2> QED BY <2>1, CurrentOther DEF Current, CurrentAt
<1> QED BY <1>1, <1>2, <1>3, <1>4, <1>5, <1>6, <1>7, <1>8, <1>9, <1>10, <1>11, <1>12, <1>13, <1>14, <1>15, <1>16, <1>17, <1>18, <1>19, <1>20, <1>21, <1>22, <1>23, <1>24, <1>25, <1>26, <1>27, <1>28 DEF Next, Lookup, Answering, Creating, Launch, Around

(* Runners are launched by Launches only.                                  *)
LEMMA NextLaunches ==
    ASSUME TRUE, [Next]_vars
    PROVE  launches' = launches \/ (\E d \in Callers : Launches(d))
<1>1. ASSUME NEW c \in Callers, Asks(c) PROVE launches' = launches \/ (\E d \in Callers : Launches(d))
  BY <1>1 DEF Asks, memory, world
<1>2. ASSUME NEW c \in Callers, LooksUp(c) PROVE launches' = launches \/ (\E d \in Callers : Launches(d))
  BY <1>2 DEF LooksUp, memory, world
<1>3. ASSUME NEW c \in Callers, Admitted(c) PROVE launches' = launches \/ (\E d \in Callers : Launches(d))
  BY <1>3 DEF Admitted, memory, world
<1>4. ASSUME NEW c \in Callers, Folds(c) PROVE launches' = launches \/ (\E d \in Callers : Launches(d))
  BY <1>4 DEF Folds, memory, world
<1>5. ASSUME NEW c \in Callers, Publishes(c) PROVE launches' = launches \/ (\E d \in Callers : Launches(d))
  BY <1>5 DEF Publishes, memory, world
<1>6. ASSUME NEW c \in Callers, LookupFails(c) PROVE launches' = launches \/ (\E d \in Callers : Launches(d))
  BY <1>6 DEF LookupFails, memory, world
<1>7. ASSUME NEW c \in Callers, ChecksRegistry(c) PROVE launches' = launches \/ (\E d \in Callers : Launches(d))
  BY <1>7 DEF ChecksRegistry, memory, world
<1>8. ASSUME NEW c \in Callers, ChecksStarting(c) PROVE launches' = launches \/ (\E d \in Callers : Launches(d))
  BY <1>8 DEF ChecksStarting, memory, world
<1>9. ASSUME NEW c \in Callers, TakesGate(c) PROVE launches' = launches \/ (\E d \in Callers : Launches(d))
  BY <1>9 DEF TakesGate, memory, world
<1>10. ASSUME NEW c \in Callers, GivesUp(c) PROVE launches' = launches \/ (\E d \in Callers : Launches(d))
  BY <1>10 DEF GivesUp, memory, world
<1>11. ASSUME NEW c \in Callers, PreparationFails(c) PROVE launches' = launches \/ (\E d \in Callers : Launches(d))
  BY <1>11 DEF PreparationFails, memory, world
<1>12. ASSUME NEW c \in Callers, Tracks(c) PROVE launches' = launches \/ (\E d \in Callers : Launches(d))
  BY <1>12 DEF Tracks, memory, world
<1>13. ASSUME NEW c \in Callers, Records(c) PROVE launches' = launches \/ (\E d \in Callers : Launches(d))
  BY <1>13 DEF Records, memory, world
<1>14. ASSUME NEW c \in Callers, RecordFails(c) PROVE launches' = launches \/ (\E d \in Callers : Launches(d))
  BY <1>14 DEF RecordFails, memory, world
<1>15. ASSUME NEW c \in Callers, Launches(c) PROVE launches' = launches \/ (\E d \in Callers : Launches(d))
  BY <1>15
<1>16. ASSUME NEW c \in Callers, RunnerAnswers(c) PROVE launches' = launches \/ (\E d \in Callers : Launches(d))
  BY <1>16 DEF RunnerAnswers, memory, world
<1>17. ASSUME NEW c \in Callers, LaunchFails(c) PROVE launches' = launches \/ (\E d \in Callers : Launches(d))
  BY <1>17 DEF LaunchFails, memory, world
<1>18. ASSUME NEW c \in Callers, Registers(c) PROVE launches' = launches \/ (\E d \in Callers : Launches(d))
  BY <1>18 DEF Registers, memory, world
<1>19. ASSUME NEW c \in Callers, Untracks(c) PROVE launches' = launches \/ (\E d \in Callers : Launches(d))
  BY <1>19 DEF Untracks, memory, world
<1>20. ASSUME NEW c \in Callers, Finishes(c) PROVE launches' = launches \/ (\E d \in Callers : Launches(d))
  BY <1>20 DEF Finishes, memory, world
<1>21. ASSUME NEW l \in Lanes, RunnerEnds(l) PROVE launches' = launches \/ (\E d \in Callers : Launches(d))
  BY <1>21 DEF RunnerEnds, memory, world
<1>22. ASSUME NEW l \in Lanes, HearsExit(l) PROVE launches' = launches \/ (\E d \in Callers : Launches(d))
  BY <1>22 DEF HearsExit, memory, world
<1>23. ASSUME NEW l \in Lanes, Forgets(l) PROVE launches' = launches \/ (\E d \in Callers : Launches(d))
  BY <1>23 DEF Forgets, memory, world
<1>24. ASSUME NEW l \in Lanes, Adopts(l) PROVE launches' = launches \/ (\E d \in Callers : Launches(d))
  BY <1>24 DEF Adopts, memory, world
<1>25. ASSUME NEW l \in Lanes, RecordsLoss(l) PROVE launches' = launches \/ (\E d \in Callers : Launches(d))
  BY <1>25 DEF RecordsLoss, memory, world
<1>26. CASE OthersAppend
  BY <1>26 DEF OthersAppend, memory, world
<1>27. CASE DaemonRestarts
  BY <1>27 DEF DaemonRestarts, memory, world
<1>28. CASE UNCHANGED vars
  BY <1>28 DEF vars, world
<1> QED BY <1>1, <1>2, <1>3, <1>4, <1>5, <1>6, <1>7, <1>8, <1>9, <1>10, <1>11, <1>12, <1>13, <1>14, <1>15, <1>16, <1>17, <1>18, <1>19, <1>20, <1>21, <1>22, <1>23, <1>24, <1>25, <1>26, <1>27, <1>28 DEF Next, Lookup, Answering, Creating, Launch, Around

HasRecord(l) == \E i \in DOMAIN log : log[i].type = "created" /\ log[i].lane = l
OnceAt(c) ==
    /\ call[c].stage \in {"recording", "launching"} => launches[call[c].lane] = 0
    /\ call[c].stage \in Launching => HasRecord(call[c].lane)

LEMMA RecordStays ==
    ASSUME TypeOK, InHand, [Next]_vars
    PROVE  \A l \in Lanes : HasRecord(l) => HasRecord(l)'
  BY LogTypeStep DEF HasRecord

LEMMA LanesStep ==
    ASSUME TypeOK, InHand, LaunchedOnce, [Next]_vars
    PROVE  \A l \in Lanes :
               /\ launches'[l] <= 1
               /\ launches'[l] = 1 => HasRecord(l)'
               /\ l > minted' => launches'[l] = 0
<1> SUFFICES ASSUME NEW l \in Lanes
             PROVE  /\ launches'[l] <= 1
                    /\ launches'[l] = 1 => HasRecord(l)'
                    /\ l > minted' => launches'[l] = 0
  OBVIOUS
<1>0. /\ launches[l] <= 1
      /\ launches[l] = 1 => HasRecord(l)
      /\ l > minted => launches[l] = 0
  BY DEF LaunchedOnce, HasRecord
<1>1. CASE launches'[l] = launches[l]
  BY <1>0, <1>1, RecordStays, LogTypeStep, CreationAssumption DEF Lanes
<1>2. ASSUME NEW d \in Callers, Launches(d), call[d].lane = l
      PROVE  /\ launches'[l] = 1
             /\ HasRecord(l)'
             /\ l \in 1..minted
  <2>1. call[d].stage = "launching"
    BY <1>2 DEF Launches
  <2>2. l \in 1..minted
    BY <1>2, <2>1, HandLane DEF Own, Launching
  <2>3. launches[l] = 0 /\ HasRecord(l)
    BY <1>2, <2>1 DEF LaunchedOnce, HasRecord, Launching
  <2> QED BY <1>2, <2>2, <2>3, RecordStays, TypeParts DEF Launches, WorldType
<1>3. ASSUME NEW d \in Callers, Launches(d), call[d].lane # l
      PROVE  launches'[l] = launches[l]
  BY <1>3, TypeParts DEF Launches, WorldType
<1> QED BY <1>1, <1>2, <1>3, NextLaunches, LogTypeStep, CreationAssumption DEF Lanes

LEMMA OnceOther ==
    ASSUME TypeOK, InHand, OwnAlone, LaunchedOnce, Snapshots, [Next]_vars,
           NEW d \in Callers, call'[d] = call[d]
    PROVE  OnceAt(d)'
<1>1. OnceAt(d)
  BY DEF LaunchedOnce, OnceAt, HasRecord
<1>2. ASSUME call'[d].stage \in Launching
      PROVE  \E i \in DOMAIN log' : log'[i].type = "created" /\ log'[i].lane = call'[d].lane
  BY <1>1, <1>2, LogTypeStep DEF OnceAt, HasRecord
<1>3. ASSUME call'[d].stage \in {"recording", "launching"} PROVE launches'[call'[d].lane] = 0
  <2>1. CASE launches' = launches
    BY <1>1, <1>3, <2>1 DEF OnceAt
  <2>2. ASSUME NEW e \in Callers, Launches(e) PROVE launches'[call[d].lane] = 0
    <3>1. e # d
      BY <1>3, <2>2, LaunchesStep DEF Moved
    <3>2. call[e].stage \in Own /\ call[d].stage \in Own
      BY <1>3, <2>2 DEF Launches, Own, Launching
    <3>3. call[e].lane # call[d].lane
      BY <3>1, <3>2 DEF OwnAlone
    <3>4. call[d].lane \in Lanes
      BY <3>2, HandLane
    <3> QED BY <1>1, <1>3, <2>2, <3>3, <3>4, TypeParts DEF OnceAt, Launches, WorldType
  <2> QED BY <2>1, <2>2, NextLaunches
<1> QED BY <1>2, <1>3 DEF OnceAt, HasRecord

(* Nobody launches a session that was launched.                            *)
LEMMA OnceStep ==
    ASSUME TypeOK, InHand, OwnAlone, Snapshots, LaunchedOnce, [Next]_vars
    PROVE  \A d \in Callers : OnceAt(d)'
<1>1. ASSUME NEW c \in Callers, Asks(c) PROVE \A d \in Callers : OnceAt(d)'
  <2>1. Only(c) /\ OnceAt(c)'
    BY <1>1, AsksStep DEF Begun, OnceAt, Launching
  <2> QED BY <2>1, OnceOther DEF Only
<1>2. ASSUME NEW c \in Callers, LooksUp(c) PROVE \A d \in Callers : OnceAt(d)'
  <2>1. Only(c) /\ OnceAt(c)'
    BY <1>2, LooksUpStep DEF Outcome, Moved, Ended, NoCall, OnceAt, Launching
  <2> QED BY <2>1, OnceOther DEF Only
<1>3. ASSUME NEW c \in Callers, Admitted(c) PROVE \A d \in Callers : OnceAt(d)'
  <2>1. Only(c) /\ OnceAt(c)'
    BY <1>3, AdmittedStep DEF Outcome, Moved, Ended, NoCall, OnceAt, Launching
  <2> QED BY <2>1, OnceOther DEF Only
<1>4. ASSUME NEW c \in Callers, Folds(c) PROVE \A d \in Callers : OnceAt(d)'
  <2>1. Only(c) /\ OnceAt(c)'
    BY <1>4, FoldsStep DEF Folded, OnceAt, Launching
  <2> QED BY <2>1, OnceOther DEF Only
<1>5. ASSUME NEW c \in Callers, Publishes(c) PROVE \A d \in Callers : OnceAt(d)'
  <2>1. Only(c) /\ OnceAt(c)'
    BY <1>5, PublishesStep DEF Outcome, Ended, NoCall, OnceAt, Launching
  <2> QED BY <2>1, OnceOther DEF Only
<1>6. ASSUME NEW c \in Callers, LookupFails(c) PROVE \A d \in Callers : OnceAt(d)'
  <2>1. Only(c) /\ OnceAt(c)'
    BY <1>6, LookupFailsStep DEF Ended, NoCall, OnceAt, Launching
  <2> QED BY <2>1, OnceOther DEF Only
<1>7. ASSUME NEW c \in Callers, ChecksRegistry(c) PROVE \A d \in Callers : OnceAt(d)'
  <2>1. Only(c) /\ OnceAt(c)'
    BY <1>7, ChecksRegistryStep DEF Ended, Moved, NoCall, OnceAt, Launching
  <2> QED BY <2>1, OnceOther DEF Only
<1>8. ASSUME NEW c \in Callers, ChecksStarting(c) PROVE \A d \in Callers : OnceAt(d)'
  <2>1. Only(c) /\ OnceAt(c)'
    BY <1>8, ChecksStartingStep DEF Ended, NoCall, OnceAt, Launching
  <2> QED BY <2>1, OnceOther DEF Only
<1>9. ASSUME NEW c \in Callers, TakesGate(c) PROVE \A d \in Callers : OnceAt(d)'
  <2>1. Only(c) /\ OnceAt(c)'
    BY <1>9, TakesGateStep DEF Gated, OnceAt, Launching
  <2> QED BY <2>1, OnceOther DEF Only
<1>10. ASSUME NEW c \in Callers, GivesUp(c) PROVE \A d \in Callers : OnceAt(d)'
  <2>1. Only(c) /\ OnceAt(c)'
    BY <1>10, GivesUpStep DEF Ended, NoCall, OnceAt, Launching
  <2> QED BY <2>1, OnceOther DEF Only
<1>11. ASSUME NEW c \in Callers, PreparationFails(c) PROVE \A d \in Callers : OnceAt(d)'
  <2>1. Only(c) /\ OnceAt(c)'
    BY <1>11, PreparationFailsStep DEF Ended, NoCall, OnceAt, Launching
  <2> QED BY <2>1, OnceOther DEF Only
<1>12. ASSUME NEW c \in Callers, Tracks(c) PROVE \A d \in Callers : OnceAt(d)'
  <2>1. Only(c) /\ OnceAt(c)'
    <3>1. Only(c) /\ call'[c].stage = "recording" /\ call'[c].lane = minted + 1
      BY <1>12, TracksStep DEF Made
    <3>2. minted + 1 \in Lanes /\ minted + 1 > minted /\ launches' = launches
      BY <1>12, TypeParts, CreationAssumption DEF Tracks, LogType, Lanes
    <3>3. launches[minted + 1] = 0
      BY <3>2 DEF LaunchedOnce
    <3> QED BY <3>1, <3>2, <3>3 DEF OnceAt, Launching
  <2> QED BY <2>1, OnceOther DEF Only
<1>13. ASSUME NEW c \in Callers, Records(c) PROVE \A d \in Callers : OnceAt(d)'
  <2>1. Only(c) /\ OnceAt(c)'
    <3>1. call[c].stage = "recording" /\ launches' = launches /\ Recorded(c)
      BY <1>13 DEF Records, Recorded, At
    <3>2. Only(c) /\ call'[c].stage = "launching" /\ call'[c].lane = call[c].lane
      BY <1>13, RecordsStep DEF Moved
    <3>3. \E i \in DOMAIN log' : log'[i].type = "created" /\ log'[i].lane = call[c].lane
      BY <3>1, RecordLog
    <3>4. launches'[call'[c].lane] = 0
      BY <3>1, <3>2 DEF LaunchedOnce
    <3> QED BY <3>2, <3>3, <3>4 DEF OnceAt, HasRecord
  <2> QED BY <2>1, OnceOther DEF Only
<1>14. ASSUME NEW c \in Callers, RecordFails(c) PROVE \A d \in Callers : OnceAt(d)'
  <2>1. Only(c) /\ OnceAt(c)'
    BY <1>14, RecordFailsStep DEF Ended, NoCall, OnceAt, Launching
  <2> QED BY <2>1, OnceOther DEF Only
<1>15. ASSUME NEW c \in Callers, Launches(c) PROVE \A d \in Callers : OnceAt(d)'
  <2>1. Only(c) /\ OnceAt(c)'
    <3>1. HasRecord(call[c].lane)
      BY <1>15 DEF Launches, LaunchedOnce, HasRecord, Launching
    <3>2. \E i \in DOMAIN log' : log'[i].type = "created" /\ log'[i].lane = call[c].lane
      BY <3>1, LogTypeStep DEF HasRecord
    <3> QED BY <1>15, <3>2, LaunchesStep DEF Moved, OnceAt, HasRecord
  <2> QED BY <2>1, OnceOther DEF Only
<1>16. ASSUME NEW c \in Callers, RunnerAnswers(c) PROVE \A d \in Callers : OnceAt(d)'
  <2>1. Only(c) /\ OnceAt(c)'
    <3>1. HasRecord(call[c].lane)
      BY <1>16 DEF RunnerAnswers, LaunchedOnce, HasRecord, Launching
    <3>2. \E i \in DOMAIN log' : log'[i].type = "created" /\ log'[i].lane = call[c].lane
      BY <3>1, LogTypeStep DEF HasRecord
    <3> QED BY <1>16, <3>2, RunnerAnswersStep DEF Moved, OnceAt, HasRecord
  <2> QED BY <2>1, OnceOther DEF Only
<1>17. ASSUME NEW c \in Callers, LaunchFails(c) PROVE \A d \in Callers : OnceAt(d)'
  <2>1. Only(c) /\ OnceAt(c)'
    BY <1>17, LaunchFailsStep DEF Ended, NoCall, OnceAt, Launching
  <2> QED BY <2>1, OnceOther DEF Only
<1>18. ASSUME NEW c \in Callers, Registers(c) PROVE \A d \in Callers : OnceAt(d)'
  <2>1. Only(c) /\ OnceAt(c)'
    BY <1>18, RegistersStep DEF Moved, OnceAt, Launching
  <2> QED BY <2>1, OnceOther DEF Only
<1>19. ASSUME NEW c \in Callers, Untracks(c) PROVE \A d \in Callers : OnceAt(d)'
  <2>1. Only(c) /\ OnceAt(c)'
    BY <1>19, UntracksStep DEF Moved, OnceAt, Launching
  <2> QED BY <2>1, OnceOther DEF Only
<1>20. ASSUME NEW c \in Callers, Finishes(c) PROVE \A d \in Callers : OnceAt(d)'
  <2>1. Only(c) /\ OnceAt(c)'
    BY <1>20, FinishesStep DEF Ended, NoCall, OnceAt, Launching
  <2> QED BY <2>1, OnceOther DEF Only
<1>21. ASSUME NEW l \in Lanes, RunnerEnds(l) PROVE \A d \in Callers : OnceAt(d)'
  <2>1. call' = call
    BY <1>21 DEF RunnerEnds, memory, world
  <2> QED BY <2>1, OnceOther
<1>22. ASSUME NEW l \in Lanes, HearsExit(l) PROVE \A d \in Callers : OnceAt(d)'
  <2>1. call' = call
    BY <1>22 DEF HearsExit, memory, world
  <2> QED BY <2>1, OnceOther
<1>23. ASSUME NEW l \in Lanes, Forgets(l) PROVE \A d \in Callers : OnceAt(d)'
  <2>1. call' = call
    BY <1>23 DEF Forgets, memory, world
  <2> QED BY <2>1, OnceOther
<1>24. ASSUME NEW l \in Lanes, Adopts(l) PROVE \A d \in Callers : OnceAt(d)'
  <2>1. call' = call
    BY <1>24 DEF Adopts, memory, world
  <2> QED BY <2>1, OnceOther
<1>25. ASSUME NEW l \in Lanes, RecordsLoss(l) PROVE \A d \in Callers : OnceAt(d)'
  <2>1. call' = call
    BY <1>25 DEF RecordsLoss, memory, world
  <2> QED BY <2>1, OnceOther
<1>26. CASE OthersAppend
  <2>1. call' = call
    BY <1>26 DEF OthersAppend, memory, world
  <2> QED BY <2>1, OnceOther
<1>27. CASE DaemonRestarts
  BY <1>27 DEF DaemonRestarts, NoCall, OnceAt, Launching
<1>28. CASE UNCHANGED vars
  <2>1. call' = call
    BY <1>28 DEF vars, memory
  <2> QED BY <2>1, OnceOther
<1> QED BY <1>1, <1>2, <1>3, <1>4, <1>5, <1>6, <1>7, <1>8, <1>9, <1>10, <1>11, <1>12, <1>13, <1>14, <1>15, <1>16, <1>17, <1>18, <1>19, <1>20, <1>21, <1>22, <1>23, <1>24, <1>25, <1>26, <1>27, <1>28 DEF Next, Lookup, Answering, Creating, Launch, Around

LEMMA LaunchedOnceStep ==
    ASSUME TypeOK, InHand, OwnAlone, Snapshots, LaunchedOnce, [Next]_vars
    PROVE  LaunchedOnce'
  BY LanesStep, OnceStep DEF LaunchedOnce, OnceAt, HasRecord

-----------------------------------------------------------------------------
(* The theorems.                                                           *)

LEMMA CreationInit ==
    ASSUME Init
    PROVE  CreationInv
<1>1. log \in Seq(Rows) /\ DOMAIN log = {} /\ Len(log) = 0
  BY DEF Init
<1>2. NoAnswer \in Given
  BY DEF NoAnswer, Given, Kinds, Reasons
<1>3. LogType /\ CacheType /\ WorldType /\ Tracking
  BY <1>1, CreationAssumption DEF Init, LogType, CacheType, WorldType, Tracking
<1>4. CallType /\ AnswerType
  BY <1>2, NoCallType DEF Init, CallType, AnswerType
<1>5. Holders
  BY CreationAssumption DEF Init, NoCall, Holders, Looking, Checking, Making
<1>6. InHand /\ OwnAlone /\ Unrepeated /\ Current
  BY <1>1 DEF Init, NoCall, InHand, OwnAlone, Unrepeated, Current, Own, Checking, Making, Launching
<1>7. Snapshots /\ LaunchedOnce
  BY <1>1 DEF Init, NoCall, Snapshots, LaunchedOnce, Looking, Launching
<1> QED BY <1>3, <1>4, <1>5, <1>6, <1>7, TypeParts DEF CreationInv

LEMMA CreationStep ==
    ASSUME CreationInv, [Next]_vars
    PROVE  CreationInv'
  BY TypeStep, InHandStep, OwnAloneStep, SnapshotsStep, UnrepeatedStep, CurrentStep,
     LaunchedOnceStep DEF CreationInv

(* The invariant holds in every behaviour.                                 *)
THEOREM CreationInvariant == Spec => []CreationInv
  BY CreationInit, CreationStep, PTL DEF Spec

(* Every variable has its type, and the gate and the fold slot are held by *)
(* who is between taking and giving them back (acquireCreation, admitFold).*)
THEOREM CreationTypeCorrect == Spec => []TypeOK
  BY CreationInvariant, PTL DEF CreationInv

(* One session and one launch for an operation id, for any number of       *)
(* callers, retries and restarts (manager_provenance.go Create).           *)
THEOREM OneSessionAlways == Spec => []OneSessionPerOperation
<1>1. CreationInv => OneSessionPerOperation
  <2> SUFFICES ASSUME CreationInv PROVE OneSessionPerOperation
    OBVIOUS
  <2>1. ASSUME NEW l \in Lanes, launches[l] = 1 PROVE Says(Len(log), "created", l)
    BY <2>1, TypeParts DEF CreationInv, LaunchedOnce, Says, LogType
  <2> QED BY <2>1 DEF CreationInv, LaunchedOnce, Unrepeated, OneSessionPerOperation
<1> QED BY <1>1, CreationInvariant, PTL

(* Whoever is about to create was told the truth by the cached ledger      *)
(* (ledger_cache.go readLedger).                                           *)
THEOREM LookupIsCurrentAlways == Spec => []LookupIsCurrent
<1>1. CreationInv => LookupIsCurrent
  BY TypeParts DEF CreationInv, Current, LookupIsCurrent, Creations, LogType
<1> QED BY <1>1, CreationInvariant, PTL

-----------------------------------------------------------------------------
(* What an answer says.  A request that was told of a session, or made it, *)
(* has its record; what it launched is tracked until it is managed.        *)
TrackedStages == {"recording", "registered"} \cup Launching
LaunchedStages == {"launched", "ready", "registered", "managed"}

RecordOf(l, op, work) ==
    \E i \in DOMAIN log : /\ log[i].type = "created" /\ log[i].lane = l
                          /\ log[i].op = op /\ log[i].work = work

HeldAt(c) ==
    /\ call[c].stage \in TrackedStages => call[c].lane \in starting
    /\ call[c].stage = "recording" => ~HasRecord(call[c].lane)
    /\ call[c].stage \in Checking \cup Launching \cup {"registered", "managed"} =>
           RecordOf(call[c].lane, call[c].op, call[c].work)
    /\ call[c].stage \in LaunchedStages => launches[call[c].lane] = 1

(* A session whose runner is up, or that is in the registry, was launched. *)
Ran == \A l \in Lanes : registry[l] = "live" \/ runner[l] = "up" => launches[l] = 1

(* What a caller was told is so, and its own session, if it was refused,   *)
(* was never launched.                                                     *)
TrueAt(a) ==
    /\ a.kind \in {"failed", "replayed", "created"} => RecordOf(a.lane, a.op, a.work)
    /\ a.kind = "conflict" => \E work : RecordOf(a.lane, a.op, work)
    /\ a.kind \in {"replayed", "created"} => launches[a.lane] = 1
    /\ a.reason = "never ready" => a.kind = "conflict"
    /\ a.kind = "refused" /\ a.own \in Lanes => launches[a.own] = 0 /\ a.own \in 1..minted

(* Nobody has a session in hand that someone was told is his, was refused  *)
(* or, while it is tracked, never came up.                                 *)
Apart(a, d) ==
    /\ a.kind = "created" /\ call[d].stage \in Own => a.lane # call[d].lane
    /\ a.kind = "refused" /\ call[d].stage \in Own => a.own # call[d].lane
    /\ a.reason = "never ready" /\ call[d].stage \in TrackedStages => a.lane # call[d].lane

CreatedAlone ==
    \A c, d \in Callers : answer[c].kind = "created" /\ answer[d].kind = "created"
                          /\ answer[c].lane = answer[d].lane => c = d

AnswersInv ==
    /\ Ran /\ CreatedAlone
    /\ \A c \in Callers : HeldAt(c) /\ TrueAt(answer[c])
    /\ \A c, d \in Callers : Apart(answer[c], d)

(* What a step does to what a request has in hand.                         *)
Keeps(d) ==
    /\ call'[d].stage \in TrackedStages =>
           \/ call[d].stage \in TrackedStages /\ call'[d].lane = call[d].lane
           \/ call'[d].lane = minted + 1
    /\ call'[d].stage \in Own =>
           \/ call[d].stage \in Own /\ call'[d].lane = call[d].lane
           \/ call'[d].lane = minted + 1

Untracking(c) ==
    /\ starting' = starting \ {call[c].lane}
    /\ \/ call[c].stage \notin Checking /\ call'[c].stage \notin Own
       \/ call[c].stage = "registered" /\ call'[c].stage = "managed"

LEMMA NextKeeps ==
    ASSUME TypeOK, InHand, Snapshots, [Next]_vars
    PROVE  \A d \in Callers : Keeps(d)
<1>1. ASSUME NEW c \in Callers, Asks(c) PROVE \A d \in Callers : Keeps(d)
  <2>1. Only(c) /\ Keeps(c)
    BY <1>1, AsksStep DEF Asks, Begun, Keeps, TrackedStages, Own, Launching
  <2> QED BY <2>1 DEF Only, Keeps, TrackedStages, Own
<1>2. ASSUME NEW c \in Callers, LooksUp(c) PROVE \A d \in Callers : Keeps(d)
  <2>1. Only(c) /\ Keeps(c)
    BY <1>2, LooksUpStep DEF LooksUp, Outcome, Moved, Ended, NoCall, Keeps, TrackedStages, Own, Launching
  <2> QED BY <2>1 DEF Only, Keeps, TrackedStages, Own
<1>3. ASSUME NEW c \in Callers, Admitted(c) PROVE \A d \in Callers : Keeps(d)
  <2>1. Only(c) /\ Keeps(c)
    BY <1>3, AdmittedStep DEF Admitted, Outcome, Moved, Ended, NoCall, Keeps, TrackedStages, Own, Launching
  <2> QED BY <2>1 DEF Only, Keeps, TrackedStages, Own
<1>4. ASSUME NEW c \in Callers, Folds(c) PROVE \A d \in Callers : Keeps(d)
  <2>1. Only(c) /\ Keeps(c)
    BY <1>4, FoldsStep DEF Folds, Folded, Keeps, TrackedStages, Own, Launching
  <2> QED BY <2>1 DEF Only, Keeps, TrackedStages, Own
<1>5. ASSUME NEW c \in Callers, Publishes(c) PROVE \A d \in Callers : Keeps(d)
  <2>1. Only(c) /\ Keeps(c)
    BY <1>5, PublishesStep DEF Publishes, Outcome, Ended, NoCall, Keeps, TrackedStages, Own, Launching
  <2> QED BY <2>1 DEF Only, Keeps, TrackedStages, Own
<1>6. ASSUME NEW c \in Callers, LookupFails(c) PROVE \A d \in Callers : Keeps(d)
  <2>1. Only(c) /\ Keeps(c)
    BY <1>6, LookupFailsStep DEF LookupFails, Ended, NoCall, Keeps, TrackedStages, Own, Launching
  <2> QED BY <2>1 DEF Only, Keeps, TrackedStages, Own
<1>7. ASSUME NEW c \in Callers, ChecksRegistry(c) PROVE \A d \in Callers : Keeps(d)
  <2>1. Only(c) /\ Keeps(c)
    BY <1>7, ChecksRegistryStep DEF ChecksRegistry, Ended, Moved, NoCall, Keeps, TrackedStages, Own, Launching
  <2> QED BY <2>1 DEF Only, Keeps, TrackedStages, Own
<1>8. ASSUME NEW c \in Callers, ChecksStarting(c) PROVE \A d \in Callers : Keeps(d)
  <2>1. Only(c) /\ Keeps(c)
    BY <1>8, ChecksStartingStep DEF ChecksStarting, Ended, NoCall, Keeps, TrackedStages, Own, Launching
  <2> QED BY <2>1 DEF Only, Keeps, TrackedStages, Own
<1>9. ASSUME NEW c \in Callers, TakesGate(c) PROVE \A d \in Callers : Keeps(d)
  <2>1. Only(c) /\ Keeps(c)
    BY <1>9, TakesGateStep DEF TakesGate, Gated, Keeps, TrackedStages, Own, Launching
  <2> QED BY <2>1 DEF Only, Keeps, TrackedStages, Own
<1>10. ASSUME NEW c \in Callers, GivesUp(c) PROVE \A d \in Callers : Keeps(d)
  <2>1. Only(c) /\ Keeps(c)
    BY <1>10, GivesUpStep DEF GivesUp, Ended, NoCall, Keeps, TrackedStages, Own, Launching
  <2> QED BY <2>1 DEF Only, Keeps, TrackedStages, Own
<1>11. ASSUME NEW c \in Callers, PreparationFails(c) PROVE \A d \in Callers : Keeps(d)
  <2>1. Only(c) /\ Keeps(c)
    BY <1>11, PreparationFailsStep DEF PreparationFails, Ended, NoCall, Keeps, TrackedStages, Own, Launching
  <2> QED BY <2>1 DEF Only, Keeps, TrackedStages, Own
<1>12. ASSUME NEW c \in Callers, Tracks(c) PROVE \A d \in Callers : Keeps(d)
  <2>1. Only(c) /\ Keeps(c)
    BY <1>12, TracksStep DEF Tracks, Made, Keeps, TrackedStages, Own, Launching
  <2> QED BY <2>1 DEF Only, Keeps, TrackedStages, Own
<1>13. ASSUME NEW c \in Callers, Records(c) PROVE \A d \in Callers : Keeps(d)
  <2>1. Only(c) /\ Keeps(c)
    BY <1>13, RecordsStep DEF Records, Moved, Keeps, TrackedStages, Own, Launching
  <2> QED BY <2>1 DEF Only, Keeps, TrackedStages, Own
<1>14. ASSUME NEW c \in Callers, RecordFails(c) PROVE \A d \in Callers : Keeps(d)
  <2>1. Only(c) /\ Keeps(c)
    BY <1>14, RecordFailsStep DEF RecordFails, Ended, NoCall, Keeps, TrackedStages, Own, Launching
  <2> QED BY <2>1 DEF Only, Keeps, TrackedStages, Own
<1>15. ASSUME NEW c \in Callers, Launches(c) PROVE \A d \in Callers : Keeps(d)
  <2>1. Only(c) /\ Keeps(c)
    BY <1>15, LaunchesStep DEF Launches, Moved, Keeps, TrackedStages, Own, Launching
  <2> QED BY <2>1 DEF Only, Keeps, TrackedStages, Own
<1>16. ASSUME NEW c \in Callers, RunnerAnswers(c) PROVE \A d \in Callers : Keeps(d)
  <2>1. Only(c) /\ Keeps(c)
    BY <1>16, RunnerAnswersStep DEF RunnerAnswers, Moved, Keeps, TrackedStages, Own, Launching
  <2> QED BY <2>1 DEF Only, Keeps, TrackedStages, Own
<1>17. ASSUME NEW c \in Callers, LaunchFails(c) PROVE \A d \in Callers : Keeps(d)
  <2>1. Only(c) /\ Keeps(c)
    BY <1>17, LaunchFailsStep DEF LaunchFails, Ended, NoCall, Keeps, TrackedStages, Own, Launching
  <2> QED BY <2>1 DEF Only, Keeps, TrackedStages, Own
<1>18. ASSUME NEW c \in Callers, Registers(c) PROVE \A d \in Callers : Keeps(d)
  <2>1. Only(c) /\ Keeps(c)
    BY <1>18, RegistersStep DEF Registers, Moved, Keeps, TrackedStages, Own, Launching
  <2> QED BY <2>1 DEF Only, Keeps, TrackedStages, Own
<1>19. ASSUME NEW c \in Callers, Untracks(c) PROVE \A d \in Callers : Keeps(d)
  <2>1. Only(c) /\ Keeps(c)
    BY <1>19, UntracksStep DEF Untracks, Moved, Keeps, TrackedStages, Own, Launching
  <2> QED BY <2>1 DEF Only, Keeps, TrackedStages, Own
<1>20. ASSUME NEW c \in Callers, Finishes(c) PROVE \A d \in Callers : Keeps(d)
  <2>1. Only(c) /\ Keeps(c)
    BY <1>20, FinishesStep DEF Finishes, Ended, NoCall, Keeps, TrackedStages, Own, Launching
  <2> QED BY <2>1 DEF Only, Keeps, TrackedStages, Own
<1>21. ASSUME NEW l \in Lanes, RunnerEnds(l) PROVE \A d \in Callers : Keeps(d)
  BY <1>21 DEF RunnerEnds, memory, world, Keeps, TrackedStages, Own
<1>22. ASSUME NEW l \in Lanes, HearsExit(l) PROVE \A d \in Callers : Keeps(d)
  BY <1>22 DEF HearsExit, memory, world, Keeps, TrackedStages, Own
<1>23. ASSUME NEW l \in Lanes, Forgets(l) PROVE \A d \in Callers : Keeps(d)
  BY <1>23 DEF Forgets, memory, world, Keeps, TrackedStages, Own
<1>24. ASSUME NEW l \in Lanes, Adopts(l) PROVE \A d \in Callers : Keeps(d)
  BY <1>24 DEF Adopts, memory, world, Keeps, TrackedStages, Own
<1>25. ASSUME NEW l \in Lanes, RecordsLoss(l) PROVE \A d \in Callers : Keeps(d)
  BY <1>25 DEF RecordsLoss, memory, world, Keeps, TrackedStages, Own
<1>26. CASE OthersAppend
  BY <1>26 DEF OthersAppend, memory, world, Keeps, TrackedStages, Own
<1>27. CASE DaemonRestarts
  BY <1>27 DEF DaemonRestarts, NoCall, Keeps, TrackedStages, Own, Launching
<1>28. CASE UNCHANGED vars
  BY <1>28 DEF vars, memory, world, Keeps, TrackedStages, Own
<1> QED BY <1>1, <1>2, <1>3, <1>4, <1>5, <1>6, <1>7, <1>8, <1>9, <1>10, <1>11, <1>12, <1>13, <1>14, <1>15, <1>16, <1>17, <1>18, <1>19, <1>20, <1>21, <1>22, <1>23, <1>24, <1>25, <1>26, <1>27, <1>28 DEF Next, Lookup, Answering, Creating, Launch, Around

(* A launch is untracked by who has it in hand.                            *)
LEMMA NextStarting ==
    ASSUME TypeOK, InHand, Snapshots, [Next]_vars
    PROVE  starting \subseteq starting' \/ DaemonRestarts \/ (\E d \in Callers : Untracking(d))
<1>1. ASSUME NEW c \in Callers, Asks(c) PROVE starting \subseteq starting' \/ DaemonRestarts \/ (\E d \in Callers : Untracking(d))
  BY <1>1 DEF Asks, memory, world
<1>2. ASSUME NEW c \in Callers, LooksUp(c) PROVE starting \subseteq starting' \/ DaemonRestarts \/ (\E d \in Callers : Untracking(d))
  <2>1. call'[c].stage \notin Own
    BY <1>2, LooksUpStep DEF LooksUp, Outcome, Moved, Ended, NoCall, Own, Launching
  <2> QED BY <1>2, <2>1 DEF LooksUp, Decides, Answers, Untracking, Looking, Checking
<1>3. ASSUME NEW c \in Callers, Admitted(c) PROVE starting \subseteq starting' \/ DaemonRestarts \/ (\E d \in Callers : Untracking(d))
  <2>1. call'[c].stage \notin Own
    BY <1>3, AdmittedStep DEF Admitted, Outcome, Moved, Ended, NoCall, Own, Launching
  <2> QED BY <1>3, <2>1 DEF Admitted, Decides, Answers, Untracking, Looking, Checking
<1>4. ASSUME NEW c \in Callers, Folds(c) PROVE starting \subseteq starting' \/ DaemonRestarts \/ (\E d \in Callers : Untracking(d))
  BY <1>4 DEF Folds, memory, world
<1>5. ASSUME NEW c \in Callers, Publishes(c) PROVE starting \subseteq starting' \/ DaemonRestarts \/ (\E d \in Callers : Untracking(d))
  <2>1. call'[c].stage \notin Own
    BY <1>5, PublishesStep DEF Publishes, Outcome, Ended, NoCall, Own, Launching
  <2> QED BY <1>5, <2>1 DEF Publishes, Decides, Answers, Untracking, Looking, Checking
<1>6. ASSUME NEW c \in Callers, LookupFails(c) PROVE starting \subseteq starting' \/ DaemonRestarts \/ (\E d \in Callers : Untracking(d))
  <2>1. UNCHANGED starting \/ call'[c].stage \notin Own
    BY <1>6, LookupFailsStep DEF LookupFails, Moved, Ended, NoCall, Own, Launching
  <2> QED BY <1>6, <2>1 DEF LookupFails, Answers, Refuses, Failed, Untracking, Checking
<1>7. ASSUME NEW c \in Callers, ChecksRegistry(c) PROVE starting \subseteq starting' \/ DaemonRestarts \/ (\E d \in Callers : Untracking(d))
  <2>1. UNCHANGED starting \/ call'[c].stage \notin Own
    BY <1>7, ChecksRegistryStep DEF ChecksRegistry, Moved, Ended, NoCall, Own, Launching
  <2> QED BY <1>7, <2>1 DEF ChecksRegistry, Answers, Refuses, Failed, Untracking, Checking
<1>8. ASSUME NEW c \in Callers, ChecksStarting(c) PROVE starting \subseteq starting' \/ DaemonRestarts \/ (\E d \in Callers : Untracking(d))
  <2>1. UNCHANGED starting \/ call'[c].stage \notin Own
    BY <1>8, ChecksStartingStep DEF ChecksStarting, Moved, Ended, NoCall, Own, Launching
  <2> QED BY <1>8, <2>1 DEF ChecksStarting, Answers, Refuses, Failed, Untracking, Checking
<1>9. ASSUME NEW c \in Callers, TakesGate(c) PROVE starting \subseteq starting' \/ DaemonRestarts \/ (\E d \in Callers : Untracking(d))
  BY <1>9 DEF TakesGate, memory, world
<1>10. ASSUME NEW c \in Callers, GivesUp(c) PROVE starting \subseteq starting' \/ DaemonRestarts \/ (\E d \in Callers : Untracking(d))
  <2>1. UNCHANGED starting \/ call'[c].stage \notin Own
    BY <1>10, GivesUpStep DEF GivesUp, Moved, Ended, NoCall, Own, Launching
  <2> QED BY <1>10, <2>1 DEF GivesUp, Answers, Refuses, Failed, Untracking, Checking
<1>11. ASSUME NEW c \in Callers, PreparationFails(c) PROVE starting \subseteq starting' \/ DaemonRestarts \/ (\E d \in Callers : Untracking(d))
  <2>1. UNCHANGED starting \/ call'[c].stage \notin Own
    BY <1>11, PreparationFailsStep DEF PreparationFails, Moved, Ended, NoCall, Own, Launching
  <2> QED BY <1>11, <2>1 DEF PreparationFails, Answers, Refuses, Failed, Untracking, Checking
<1>12. ASSUME NEW c \in Callers, Tracks(c) PROVE starting \subseteq starting' \/ DaemonRestarts \/ (\E d \in Callers : Untracking(d))
  BY <1>12 DEF Tracks, Tracked
<1>13. ASSUME NEW c \in Callers, Records(c) PROVE starting \subseteq starting' \/ DaemonRestarts \/ (\E d \in Callers : Untracking(d))
  BY <1>13 DEF Records, memory, world
<1>14. ASSUME NEW c \in Callers, RecordFails(c) PROVE starting \subseteq starting' \/ DaemonRestarts \/ (\E d \in Callers : Untracking(d))
  <2>1. UNCHANGED starting \/ call'[c].stage \notin Own
    BY <1>14, RecordFailsStep DEF RecordFails, Moved, Ended, NoCall, Own, Launching
  <2> QED BY <1>14, <2>1 DEF RecordFails, Answers, Refuses, Failed, Untracking, Checking
<1>15. ASSUME NEW c \in Callers, Launches(c) PROVE starting \subseteq starting' \/ DaemonRestarts \/ (\E d \in Callers : Untracking(d))
  BY <1>15 DEF Launches, memory, world
<1>16. ASSUME NEW c \in Callers, RunnerAnswers(c) PROVE starting \subseteq starting' \/ DaemonRestarts \/ (\E d \in Callers : Untracking(d))
  BY <1>16 DEF RunnerAnswers, memory, world
<1>17. ASSUME NEW c \in Callers, LaunchFails(c) PROVE starting \subseteq starting' \/ DaemonRestarts \/ (\E d \in Callers : Untracking(d))
  <2>1. UNCHANGED starting \/ call'[c].stage \notin Own
    BY <1>17, LaunchFailsStep DEF LaunchFails, Moved, Ended, NoCall, Own, Launching
  <2> QED BY <1>17, <2>1 DEF LaunchFails, Answers, Refuses, Failed, Untracking, Checking
<1>18. ASSUME NEW c \in Callers, Registers(c) PROVE starting \subseteq starting' \/ DaemonRestarts \/ (\E d \in Callers : Untracking(d))
  BY <1>18 DEF Registers, memory, world
<1>19. ASSUME NEW c \in Callers, Untracks(c) PROVE starting \subseteq starting' \/ DaemonRestarts \/ (\E d \in Callers : Untracking(d))
  BY <1>19, UntracksStep DEF Untracks, Untracking, Moved
<1>20. ASSUME NEW c \in Callers, Finishes(c) PROVE starting \subseteq starting' \/ DaemonRestarts \/ (\E d \in Callers : Untracking(d))
  <2>1. UNCHANGED starting \/ call'[c].stage \notin Own
    BY <1>20, FinishesStep DEF Finishes, Moved, Ended, NoCall, Own, Launching
  <2> QED BY <1>20, <2>1 DEF Finishes, Answers, Refuses, Failed, Untracking, Checking
<1>21. ASSUME NEW l \in Lanes, RunnerEnds(l) PROVE starting \subseteq starting' \/ DaemonRestarts \/ (\E d \in Callers : Untracking(d))
  BY <1>21 DEF RunnerEnds, memory, world
<1>22. ASSUME NEW l \in Lanes, HearsExit(l) PROVE starting \subseteq starting' \/ DaemonRestarts \/ (\E d \in Callers : Untracking(d))
  BY <1>22 DEF HearsExit, memory, world
<1>23. ASSUME NEW l \in Lanes, Forgets(l) PROVE starting \subseteq starting' \/ DaemonRestarts \/ (\E d \in Callers : Untracking(d))
  BY <1>23 DEF Forgets, memory, world
<1>24. ASSUME NEW l \in Lanes, Adopts(l) PROVE starting \subseteq starting' \/ DaemonRestarts \/ (\E d \in Callers : Untracking(d))
  BY <1>24 DEF Adopts, memory, world
<1>25. ASSUME NEW l \in Lanes, RecordsLoss(l) PROVE starting \subseteq starting' \/ DaemonRestarts \/ (\E d \in Callers : Untracking(d))
  BY <1>25 DEF RecordsLoss, memory, world
<1>26. CASE OthersAppend
  BY <1>26 DEF OthersAppend, memory, world
<1>27. CASE DaemonRestarts
  BY <1>27
<1>28. CASE UNCHANGED vars
  BY <1>28 DEF vars, memory, world
<1> QED BY <1>1, <1>2, <1>3, <1>4, <1>5, <1>6, <1>7, <1>8, <1>9, <1>10, <1>11, <1>12, <1>13, <1>14, <1>15, <1>16, <1>17, <1>18, <1>19, <1>20, <1>21, <1>22, <1>23, <1>24, <1>25, <1>26, <1>27, <1>28 DEF Next, Lookup, Answering, Creating, Launch, Around

LEMMA LaunchesKept ==
    ASSUME TypeOK, InHand, OwnAlone, Snapshots, LaunchedOnce, [Next]_vars
    PROVE  \A l \in Lanes : /\ launches[l] = 1 => launches'[l] = 1
                            /\ launches[l] = 0 => launches'[l] = 0 \/ (\E e \in Callers : Launches(e) /\ call[e].lane = l)
<1>1. ASSUME NEW e \in Callers, Launches(e)
      PROVE  \A l \in Lanes : /\ launches[l] = 1 => launches'[l] = 1
                              /\ launches[l] = 0 => launches'[l] = 0 \/ call[e].lane = l
  <2>1. call[e].lane \in Lanes /\ launches[call[e].lane] = 0
    BY <1>1, HandLane DEF Launches, LaunchedOnce, Own, Launching
  <2> QED BY <1>1, <2>1, TypeParts DEF Launches, WorldType
<1> QED BY <1>1, NextLaunches

LEMMA RecordsKept ==
    ASSUME TypeOK, InHand, [Next]_vars
    PROVE  \A l, op, work : RecordOf(l, op, work) => RecordOf(l, op, work)'
  BY LogTypeStep DEF RecordOf

LEMMA RecordOfHas ==
    ASSUME NEW l, NEW op, NEW work, RecordOf(l, op, work), InHand
    PROVE  HasRecord(l) /\ l \in 1..minted
  BY DEF RecordOf, HasRecord, InHand

(* A request that does not move keeps what it has.                         *)
LEMMA HeldOther ==
    ASSUME TypeOK, InHand, OwnAlone, Snapshots, LaunchedOnce, [Next]_vars,
           NEW d \in Callers, call'[d] = call[d], HeldAt(d)
    PROVE  HeldAt(d)'
<1>1. ASSUME call[d].stage \in TrackedStages PROVE call[d].lane \in starting'
  <2>1. call[d].lane \in starting /\ call[d].stage \in Own
    BY <1>1 DEF HeldAt, TrackedStages, Own
  <2>2. ~DaemonRestarts
    BY <1>1 DEF DaemonRestarts, NoCall, TrackedStages, Launching
  <2>3. ASSUME NEW e \in Callers, Untracking(e) PROVE call[d].lane \in starting'
    <3>1. call[e].stage \in Own \/ call[e].lane = Nothing
      BY <2>3 DEF Untracking, InHand, Own
    <3>2. e # d
      BY <1>1, <2>3 DEF Untracking, TrackedStages, Own, Launching
    <3>3. call[d].lane # call[e].lane
      BY <2>1, <3>1, <3>2, HandLane, CreationAssumption DEF OwnAlone, Lanes
    <3> QED BY <2>1, <2>3, <3>3 DEF Untracking
  <2> QED BY <2>1, <2>2, <2>3, NextStarting
<1>2. ASSUME call[d].stage = "recording" PROVE ~HasRecord(call[d].lane)'
  <2>1. ASSUME NEW i \in DOMAIN log', log'[i].type = "created", log'[i].lane = call[d].lane
        PROVE  FALSE
    <3>1. PICK e \in Callers : Recorded(e) /\ call[e].lane = call[d].lane
      BY <1>2, <2>1, NewCreation DEF HeldAt, HasRecord
    <3>2. e = d
      BY <1>2, <3>1 DEF Recorded, OwnAlone, Own
    <3>3. gate = d /\ gate' = Nothing
      BY <1>2, <3>1, <3>2, TypeParts DEF Recorded, Holders, Making
    <3>4. call'[d].stage \notin Making
      BY <3>3, TypeStep, CreationAssumption DEF TypeOK
    <3> QED BY <1>2, <3>4 DEF Making
  <2> QED BY <2>1 DEF HasRecord
<1>3. ASSUME call[d].stage \in LaunchedStages PROVE launches'[call[d].lane] = 1
  BY <1>3, HandLane, LaunchesKept DEF HeldAt, LaunchedStages, Own, Launching
<1>4. ASSUME call[d].stage \in Checking \cup Launching \cup {"registered", "managed"}
      PROVE  RecordOf(call[d].lane, call[d].op, call[d].work)'
  BY <1>4, RecordsKept DEF HeldAt
<1> QED BY <1>1, <1>2, <1>3, <1>4 DEF HeldAt, HasRecord, RecordOf

(* The record of what a request had in hand is still there.                *)
RecordKept(c) ==
    \E i \in DOMAIN log' : /\ log'[i].type = "created" /\ log'[i].lane = call[c].lane
                            /\ log'[i].op = call[c].op /\ log'[i].work = call[c].work

(* What a snapshot told a request is recorded.                             *)
LEMMA DecideHeld ==
    ASSUME TypeOK, InHand, NEW c \in Callers, call[c].stage \in Looking,
           NEW n \in Nat, n <= Len(log), Decides(c, n), log' = log
    PROVE  HeldAt(c)'
<1>1. CASE Creations(n, call[c].op) = {} /\ call' = Unrecorded(c)
  <2>1. call'[c].stage \in {"making", "gate"}
    BY <1>1, TypeParts DEF Unrecorded, CallType, Calls
  <2> QED BY <2>1 DEF HeldAt, TrackedStages, LaunchedStages, Checking, Launching
<1>2. ASSUME NEW i \in Creations(n, call[c].op), log[i].work = call[c].work,
             call' = [call EXCEPT ![c] = [@ EXCEPT !.stage = "checking",
                         !.marked = FALSE, !.mark = 0, !.upTo = n, !.lane = log[i].lane]]
      PROVE  HeldAt(c)'
  <2>1. /\ call'[c].stage = "checking" /\ call'[c].lane = log[i].lane
        /\ call'[c].op = call[c].op /\ call'[c].work = call[c].work
    BY <1>2, TypeParts DEF CallType, Calls
  <2>2. i \in DOMAIN log /\ log[i].type = "created" /\ log[i].op = call[c].op
    BY TypeParts DEF Creations, LogType
  <2>3. RecordOf(call'[c].lane, call'[c].op, call'[c].work)
    BY <1>2, <2>1, <2>2 DEF RecordOf
  <2> QED BY <2>1, <2>3 DEF HeldAt, TrackedStages, LaunchedStages, Launching, RecordOf
<1>3. ASSUME NEW i \in Creations(n, call[c].op), Answers(c, "conflict", log[i].lane, "other work")
      PROVE  HeldAt(c)'
  <2>0. Ended(c)
    BY <1>3, TypeParts, EndStep
  <2>1. call'[c].stage = "idle"
    BY <2>0 DEF Ended, NoCall
  <2> QED BY <2>1 DEF HeldAt, TrackedStages, LaunchedStages, Checking, Launching
<1> QED BY <1>1, <1>2, <1>3 DEF Decides

(* Every step keeps what requests have in hand.                            *)
LEMMA HeldStep ==
    ASSUME TypeOK, InHand, OwnAlone, Snapshots, LaunchedOnce, [Next]_vars,
           \A d \in Callers : HeldAt(d)
    PROVE  \A d \in Callers : HeldAt(d)'
<1>1. ASSUME NEW c \in Callers, Asks(c) PROVE \A d \in Callers : HeldAt(d)'
  <2>1. Only(c) /\ HeldAt(c)'
    BY <1>1, AsksStep DEF Begun, HeldAt, TrackedStages, LaunchedStages, Checking, Launching
  <2> QED BY <2>1, HeldOther DEF Only
<1>2. ASSUME NEW c \in Callers, LooksUp(c) PROVE \A d \in Callers : HeldAt(d)'
  <2>1. Only(c) /\ HeldAt(c)'
    <3>0. Only(c)
      BY <1>2, LooksUpStep DEF Outcome, Moved, Ended, NoCall
    <3>1. CASE Cached(c) /\ Decides(c, cache.upTo)
      <4>1. call[c].stage \in Looking /\ log' = log
        BY <1>2 DEF LooksUp, Looking
      <4> QED BY <3>0, <3>1, <4>1, CacheCovers, DecideHeld
    <3>2. CASE call' = At(c, "missed")
      <4>1. call'[c].stage = "missed"
        BY <3>2, TypeParts DEF At, CallType, Calls
      <4> QED BY <3>0, <4>1 DEF HeldAt, TrackedStages, LaunchedStages, Checking, Launching
    <3> QED BY <3>0, <1>2, <3>1, <3>2 DEF LooksUp
  <2> QED BY <2>1, HeldOther DEF Only
<1>3. ASSUME NEW c \in Callers, Admitted(c) PROVE \A d \in Callers : HeldAt(d)'
  <2>1. Only(c) /\ HeldAt(c)'
    <3>0. Only(c)
      BY <1>3, AdmittedStep DEF Outcome, Moved, Ended, NoCall
    <3>1. CASE Cached(c) /\ Decides(c, cache.upTo)
      <4>1. call[c].stage \in Looking /\ log' = log
        BY <1>3 DEF Admitted, Looking
      <4> QED BY <3>0, <3>1, <4>1, CacheCovers, DecideHeld
    <3>2. CASE call' = At(c, "folding")
      <4>1. call'[c].stage = "folding"
        BY <3>2, TypeParts DEF At, CallType, Calls
      <4> QED BY <3>0, <4>1 DEF HeldAt, TrackedStages, LaunchedStages, Checking, Launching
    <3> QED BY <3>0, <1>3, <3>1, <3>2 DEF Admitted
  <2> QED BY <2>1, HeldOther DEF Only
<1>4. ASSUME NEW c \in Callers, Folds(c) PROVE \A d \in Callers : HeldAt(d)'
  <2>1. Only(c) /\ HeldAt(c)'
    BY <1>4, FoldsStep DEF Folded, HeldAt, TrackedStages, LaunchedStages, Checking, Launching
  <2> QED BY <2>1, HeldOther DEF Only
<1>5. ASSUME NEW c \in Callers, Publishes(c) PROVE \A d \in Callers : HeldAt(d)'
  <2>1. Only(c) /\ HeldAt(c)'
    <3>0. Only(c)
      BY <1>5, PublishesStep DEF Outcome, Ended, NoCall
    <3>1. call[c].stage \in Looking /\ log' = log /\ call[c].upTo \in Nat /\ call[c].upTo <= Len(log)
      BY <1>5, TypeParts DEF Publishes, Looking, CallType, Calls, Snapshots
    <3> QED BY <3>0, <1>5, <3>1, DecideHeld DEF Publishes
  <2> QED BY <2>1, HeldOther DEF Only
<1>6. ASSUME NEW c \in Callers, LookupFails(c) PROVE \A d \in Callers : HeldAt(d)'
  <2>1. Only(c) /\ HeldAt(c)'
    BY <1>6, LookupFailsStep DEF Ended, NoCall, HeldAt, TrackedStages, LaunchedStages, Checking, Launching
  <2> QED BY <2>1, HeldOther DEF Only
<1>7. ASSUME NEW c \in Callers, ChecksRegistry(c) PROVE \A d \in Callers : HeldAt(d)'
  <2>1. Only(c) /\ HeldAt(c)'
    <3>0. Only(c)
      BY <1>7, ChecksRegistryStep DEF Ended, Moved, NoCall
    <3>1. CASE Ended(c)
      BY <3>1 DEF Ended, NoCall, HeldAt, TrackedStages, LaunchedStages, Checking, Launching
    <3>2. ASSUME NEW s \in {"absent", "over"}, Moved(c, s) PROVE HeldAt(c)'
      <4>1. RecordKept(c)
        BY <1>7, RecordsKept DEF ChecksRegistry, HeldAt, Checking, RecordOf, RecordKept
      <4> QED BY <3>2, <4>1 DEF Moved, RecordOf, RecordKept, HeldAt, TrackedStages, LaunchedStages, Checking, Launching
    <3> QED BY <3>0, <1>7, <3>1, <3>2, ChecksRegistryStep
  <2> QED BY <2>1, HeldOther DEF Only
<1>8. ASSUME NEW c \in Callers, ChecksStarting(c) PROVE \A d \in Callers : HeldAt(d)'
  <2>1. Only(c) /\ HeldAt(c)'
    BY <1>8, ChecksStartingStep DEF Ended, NoCall, HeldAt, TrackedStages, LaunchedStages, Checking, Launching
  <2> QED BY <2>1, HeldOther DEF Only
<1>9. ASSUME NEW c \in Callers, TakesGate(c) PROVE \A d \in Callers : HeldAt(d)'
  <2>1. Only(c) /\ HeldAt(c)'
    BY <1>9, TakesGateStep DEF Gated, HeldAt, TrackedStages, LaunchedStages, Checking, Launching
  <2> QED BY <2>1, HeldOther DEF Only
<1>10. ASSUME NEW c \in Callers, GivesUp(c) PROVE \A d \in Callers : HeldAt(d)'
  <2>1. Only(c) /\ HeldAt(c)'
    BY <1>10, GivesUpStep DEF Ended, NoCall, HeldAt, TrackedStages, LaunchedStages, Checking, Launching
  <2> QED BY <2>1, HeldOther DEF Only
<1>11. ASSUME NEW c \in Callers, PreparationFails(c) PROVE \A d \in Callers : HeldAt(d)'
  <2>1. Only(c) /\ HeldAt(c)'
    BY <1>11, PreparationFailsStep DEF Ended, NoCall, HeldAt, TrackedStages, LaunchedStages, Checking, Launching
  <2> QED BY <2>1, HeldOther DEF Only
<1>12. ASSUME NEW c \in Callers, Tracks(c) PROVE \A d \in Callers : HeldAt(d)'
  <2>1. Only(c) /\ HeldAt(c)'
    <3>0. Only(c)
      BY <1>12, TracksStep DEF Made
    <3>1. call'[c].stage = "recording" /\ call'[c].lane = minted + 1
      BY <1>12, TracksStep DEF Made
    <3>2. minted + 1 \in starting' /\ log' = log /\ minted \in Nat
      BY <1>12, TypeParts DEF Tracks, Tracked, LogType
    <3>3. \A i \in DOMAIN log' : log'[i].type = "created" => log'[i].lane # minted + 1
      BY <3>2 DEF InHand
    <3> QED BY <3>0, <3>1, <3>2, <3>3 DEF HasRecord, HeldAt, TrackedStages, LaunchedStages, Checking, Launching
  <2> QED BY <2>1, HeldOther DEF Only
<1>13. ASSUME NEW c \in Callers, Records(c) PROVE \A d \in Callers : HeldAt(d)'
  <2>1. Only(c) /\ HeldAt(c)'
    <3>0. Only(c)
      BY <1>13, RecordsStep DEF Moved
    <3>1. Moved(c, "launching")
      BY <1>13, RecordsStep
    <3>2. call[c].lane \in starting'
      BY <1>13 DEF Records, HeldAt, TrackedStages
    <3>3. RecordKept(c)
      <4> DEFINE r == CreatedRow(call[c].lane, call[c])
      <4>1. log \in Seq(Rows) /\ log' = Append(log, r)
        BY <1>13, TypeParts DEF Records, LogType
      <4>2. Len(log') \in DOMAIN log' /\ log'[Len(log')] = r
        BY <4>1
      <4>3. r.type = "created" /\ r.lane = call[c].lane /\ r.op = call[c].op /\ r.work = call[c].work
        BY DEF CreatedRow
      <4> HIDE DEF r
      <4>4. \E i \in DOMAIN log' : /\ log'[i].type = "created" /\ log'[i].lane = call[c].lane
                                   /\ log'[i].op = call[c].op /\ log'[i].work = call[c].work
        BY <4>2, <4>3
      <4> QED BY <4>4 DEF RecordKept
    <3> QED BY <3>0, <3>1, <3>2, <3>3 DEF Moved, RecordOf, RecordKept, HeldAt, TrackedStages, LaunchedStages, Checking, Launching
  <2> QED BY <2>1, HeldOther DEF Only
<1>14. ASSUME NEW c \in Callers, RecordFails(c) PROVE \A d \in Callers : HeldAt(d)'
  <2>1. Only(c) /\ HeldAt(c)'
    BY <1>14, RecordFailsStep DEF Ended, NoCall, HeldAt, TrackedStages, LaunchedStages, Checking, Launching
  <2> QED BY <2>1, HeldOther DEF Only
<1>15. ASSUME NEW c \in Callers, Launches(c) PROVE \A d \in Callers : HeldAt(d)'
  <2>1. Only(c) /\ HeldAt(c)'
    <3>0. Only(c)
      BY <1>15, LaunchesStep DEF Moved
    <3>1. Moved(c, "launched")
      BY <1>15, LaunchesStep
    <3>2. RecordKept(c)
      BY <1>15, RecordsKept DEF Launches, HeldAt, Launching, RecordOf, RecordKept
    <3>3. launches'[call[c].lane] = 1
      BY <1>15, HandLane, TypeParts DEF Launches, LaunchedOnce, WorldType, Own, Launching
    <3>4. call[c].lane \in starting'
      BY <1>15 DEF Launches, world, HeldAt, TrackedStages, Launching
    <3> QED BY <3>0, <3>1, <3>2, <3>3, <3>4 DEF Moved, RecordOf, RecordKept, HeldAt, TrackedStages, LaunchedStages, Checking, Launching
  <2> QED BY <2>1, HeldOther DEF Only
<1>16. ASSUME NEW c \in Callers, RunnerAnswers(c) PROVE \A d \in Callers : HeldAt(d)'
  <2>1. Only(c) /\ HeldAt(c)'
    <3>0. Only(c)
      BY <1>16, RunnerAnswersStep DEF Moved
    <3>1. Moved(c, "ready")
      BY <1>16, RunnerAnswersStep
    <3>2. RecordKept(c)
      BY <1>16, RecordsKept DEF RunnerAnswers, HeldAt, Launching, RecordOf, RecordKept
    <3>3. launches'[call[c].lane] = 1
      BY <1>16, HandLane, LaunchesKept DEF RunnerAnswers, HeldAt, LaunchedStages, Own, Launching
    <3>4. call[c].lane \in starting'
      BY <1>16 DEF RunnerAnswers, world, HeldAt, TrackedStages, Launching
    <3> QED BY <3>0, <3>1, <3>2, <3>3, <3>4 DEF Moved, RecordOf, RecordKept, HeldAt, TrackedStages, LaunchedStages, Checking, Launching
  <2> QED BY <2>1, HeldOther DEF Only
<1>17. ASSUME NEW c \in Callers, LaunchFails(c) PROVE \A d \in Callers : HeldAt(d)'
  <2>1. Only(c) /\ HeldAt(c)'
    BY <1>17, LaunchFailsStep DEF Ended, NoCall, HeldAt, TrackedStages, LaunchedStages, Checking, Launching
  <2> QED BY <2>1, HeldOther DEF Only
<1>18. ASSUME NEW c \in Callers, Registers(c) PROVE \A d \in Callers : HeldAt(d)'
  <2>1. Only(c) /\ HeldAt(c)'
    <3>0. Only(c)
      BY <1>18, RegistersStep DEF Moved
    <3>1. Moved(c, "registered")
      BY <1>18, RegistersStep
    <3>2. RecordKept(c)
      BY <1>18, RecordsKept DEF Registers, HeldAt, Launching, RecordOf, RecordKept
    <3>3. launches'[call[c].lane] = 1
      BY <1>18, HandLane, LaunchesKept DEF Registers, HeldAt, LaunchedStages, Own, Launching
    <3>4. call[c].lane \in starting'
      BY <1>18 DEF Registers, world, HeldAt, TrackedStages, Launching
    <3> QED BY <3>0, <3>1, <3>2, <3>3, <3>4 DEF Moved, RecordOf, RecordKept, HeldAt, TrackedStages, LaunchedStages, Checking, Launching
  <2> QED BY <2>1, HeldOther DEF Only
<1>19. ASSUME NEW c \in Callers, Untracks(c) PROVE \A d \in Callers : HeldAt(d)'
  <2>1. Only(c) /\ HeldAt(c)'
    <3>0. Only(c)
      BY <1>19, UntracksStep DEF Moved
    <3>1. Moved(c, "managed")
      BY <1>19, UntracksStep
    <3>2. RecordKept(c)
      BY <1>19, RecordsKept DEF Untracks, HeldAt, Launching, RecordOf, RecordKept
    <3>3. launches'[call[c].lane] = 1
      BY <1>19, HandLane, LaunchesKept DEF Untracks, HeldAt, LaunchedStages, Own, Launching
    <3> QED BY <3>0, <3>1, <3>2, <3>3 DEF Moved, RecordOf, RecordKept, HeldAt, TrackedStages, LaunchedStages, Checking, Launching
  <2> QED BY <2>1, HeldOther DEF Only
<1>20. ASSUME NEW c \in Callers, Finishes(c) PROVE \A d \in Callers : HeldAt(d)'
  <2>1. Only(c) /\ HeldAt(c)'
    BY <1>20, FinishesStep DEF Ended, NoCall, HeldAt, TrackedStages, LaunchedStages, Checking, Launching
  <2> QED BY <2>1, HeldOther DEF Only
<1>21. ASSUME NEW l \in Lanes, RunnerEnds(l) PROVE \A d \in Callers : HeldAt(d)'
  <2>1. call' = call
    BY <1>21 DEF RunnerEnds, memory, world
  <2> QED BY <2>1, HeldOther
<1>22. ASSUME NEW l \in Lanes, HearsExit(l) PROVE \A d \in Callers : HeldAt(d)'
  <2>1. call' = call
    BY <1>22 DEF HearsExit, memory, world
  <2> QED BY <2>1, HeldOther
<1>23. ASSUME NEW l \in Lanes, Forgets(l) PROVE \A d \in Callers : HeldAt(d)'
  <2>1. call' = call
    BY <1>23 DEF Forgets, memory, world
  <2> QED BY <2>1, HeldOther
<1>24. ASSUME NEW l \in Lanes, Adopts(l) PROVE \A d \in Callers : HeldAt(d)'
  <2>1. call' = call
    BY <1>24 DEF Adopts, memory, world
  <2> QED BY <2>1, HeldOther
<1>25. ASSUME NEW l \in Lanes, RecordsLoss(l) PROVE \A d \in Callers : HeldAt(d)'
  <2>1. call' = call
    BY <1>25 DEF RecordsLoss, memory, world
  <2> QED BY <2>1, HeldOther
<1>26. CASE OthersAppend
  <2>1. call' = call
    BY <1>26 DEF OthersAppend, memory, world
  <2> QED BY <2>1, HeldOther
<1>27. CASE DaemonRestarts
  BY <1>27 DEF DaemonRestarts, NoCall, HeldAt, TrackedStages, LaunchedStages, Checking, Launching
<1>28. CASE UNCHANGED vars
  <2>1. call' = call
    BY <1>28 DEF vars, memory, world
  <2> QED BY <2>1, HeldOther
<1> QED BY <1>1, <1>2, <1>3, <1>4, <1>5, <1>6, <1>7, <1>8, <1>9, <1>10, <1>11, <1>12, <1>13, <1>14, <1>15, <1>16, <1>17, <1>18, <1>19, <1>20, <1>21, <1>22, <1>23, <1>24, <1>25, <1>26, <1>27, <1>28 DEF Next, Lookup, Answering, Creating, Launch, Around

(* And only what was launched is up or live.                               *)
LEMMA RanStep ==
    ASSUME TypeOK, InHand, OwnAlone, Snapshots, LaunchedOnce, [Next]_vars,
           Ran, \A d \in Callers : HeldAt(d)
    PROVE  Ran'
<1>1. ASSUME NEW c \in Callers, Asks(c) PROVE Ran'
  BY <1>1, LaunchesKept DEF Asks, memory, world, Ran
<1>2. ASSUME NEW c \in Callers, LooksUp(c) PROVE Ran'
  BY <1>2, LaunchesKept DEF LooksUp, memory, world, Ran
<1>3. ASSUME NEW c \in Callers, Admitted(c) PROVE Ran'
  BY <1>3, LaunchesKept DEF Admitted, memory, world, Ran
<1>4. ASSUME NEW c \in Callers, Folds(c) PROVE Ran'
  BY <1>4, LaunchesKept DEF Folds, memory, world, Ran
<1>5. ASSUME NEW c \in Callers, Publishes(c) PROVE Ran'
  BY <1>5, LaunchesKept DEF Publishes, memory, world, Ran
<1>6. ASSUME NEW c \in Callers, LookupFails(c) PROVE Ran'
  BY <1>6, LaunchesKept DEF LookupFails, memory, world, Ran
<1>7. ASSUME NEW c \in Callers, ChecksRegistry(c) PROVE Ran'
  BY <1>7, LaunchesKept DEF ChecksRegistry, memory, world, Ran
<1>8. ASSUME NEW c \in Callers, ChecksStarting(c) PROVE Ran'
  BY <1>8, LaunchesKept DEF ChecksStarting, memory, world, Ran
<1>9. ASSUME NEW c \in Callers, TakesGate(c) PROVE Ran'
  BY <1>9, LaunchesKept DEF TakesGate, memory, world, Ran
<1>10. ASSUME NEW c \in Callers, GivesUp(c) PROVE Ran'
  BY <1>10, LaunchesKept DEF GivesUp, memory, world, Ran
<1>11. ASSUME NEW c \in Callers, PreparationFails(c) PROVE Ran'
  BY <1>11, LaunchesKept DEF PreparationFails, memory, world, Ran
<1>12. ASSUME NEW c \in Callers, Tracks(c) PROVE Ran'
  BY <1>12, LaunchesKept DEF Tracks, memory, world, Ran
<1>13. ASSUME NEW c \in Callers, Records(c) PROVE Ran'
  BY <1>13, LaunchesKept DEF Records, memory, world, Ran
<1>14. ASSUME NEW c \in Callers, RecordFails(c) PROVE Ran'
  BY <1>14, LaunchesKept DEF RecordFails, memory, world, Ran
<1>15. ASSUME NEW c \in Callers, Launches(c) PROVE Ran'
  <2>1. call[c].lane \in Lanes
    BY <1>15, HandLane DEF Launches, Own, Launching
  <2>2. launches'[call[c].lane] = 1
    BY <1>15, <2>1, TypeParts DEF Launches, LaunchedOnce, WorldType
  <2>3. \A l \in Lanes : l # call[c].lane => runner'[l] = runner[l] /\ registry'[l] = registry[l]
    BY <1>15, TypeParts DEF Launches, WorldType
  <2> QED BY <2>2, <2>3, LaunchesKept DEF Ran
<1>16. ASSUME NEW c \in Callers, RunnerAnswers(c) PROVE Ran'
  BY <1>16, LaunchesKept DEF RunnerAnswers, memory, world, Ran
<1>17. ASSUME NEW c \in Callers, LaunchFails(c) PROVE Ran'
  <2>1. \A l \in Lanes : registry'[l] = registry[l] /\ (runner'[l] = "up" => runner[l] = "up")
    BY <1>17, TypeParts DEF LaunchFails, WorldType
  <2> QED BY <2>1, LaunchesKept DEF Ran
<1>18. ASSUME NEW c \in Callers, Registers(c) PROVE Ran'
  <2>1. launches[call[c].lane] = 1
    BY <1>18 DEF Registers, HeldAt, LaunchedStages
  <2>2. \A l \in Lanes : runner'[l] = runner[l] /\ (l # call[c].lane => registry'[l] = registry[l])
    BY <1>18, TypeParts DEF Registers, world, WorldType
  <2> QED BY <2>1, <2>2, LaunchesKept DEF Ran
<1>19. ASSUME NEW c \in Callers, Untracks(c) PROVE Ran'
  BY <1>19, LaunchesKept DEF Untracks, memory, world, Ran
<1>20. ASSUME NEW c \in Callers, Finishes(c) PROVE Ran'
  BY <1>20, LaunchesKept DEF Finishes, memory, world, Ran
<1>21. ASSUME NEW l \in Lanes, RunnerEnds(l) PROVE Ran'
  <2>1. \A m \in Lanes : /\ runner'[m] = "up" => runner[m] = "up"
                         /\ registry'[m] = "live" => registry[m] = "live" \/ runner[m] = "up"
    BY <1>21, TypeParts DEF RunnerEnds, memory, world, WorldType
  <2> QED BY <2>1, LaunchesKept DEF Ran
<1>22. ASSUME NEW l \in Lanes, HearsExit(l) PROVE Ran'
  <2>1. \A m \in Lanes : /\ runner'[m] = "up" => runner[m] = "up"
                         /\ registry'[m] = "live" => registry[m] = "live" \/ runner[m] = "up"
    BY <1>22, TypeParts DEF HearsExit, memory, world, WorldType
  <2> QED BY <2>1, LaunchesKept DEF Ran
<1>23. ASSUME NEW l \in Lanes, Forgets(l) PROVE Ran'
  <2>1. \A m \in Lanes : /\ runner'[m] = "up" => runner[m] = "up"
                         /\ registry'[m] = "live" => registry[m] = "live" \/ runner[m] = "up"
    BY <1>23, TypeParts DEF Forgets, memory, world, WorldType
  <2> QED BY <2>1, LaunchesKept DEF Ran
<1>24. ASSUME NEW l \in Lanes, Adopts(l) PROVE Ran'
  <2>1. \A m \in Lanes : /\ runner'[m] = "up" => runner[m] = "up"
                         /\ registry'[m] = "live" => registry[m] = "live" \/ runner[m] = "up"
    BY <1>24, TypeParts DEF Adopts, memory, world, WorldType
  <2> QED BY <2>1, LaunchesKept DEF Ran
<1>25. ASSUME NEW l \in Lanes, RecordsLoss(l) PROVE Ran'
  BY <1>25, LaunchesKept DEF RecordsLoss, memory, world, Ran
<1>26. CASE OthersAppend
  BY <1>26, LaunchesKept DEF OthersAppend, memory, world, Ran
<1>27. CASE DaemonRestarts
  <2>1. \A m \in Lanes : /\ runner'[m] = "up" => runner[m] = "up"
                         /\ registry'[m] = "live" => registry[m] = "live" \/ runner[m] = "up"
    BY <1>27, TypeParts DEF DaemonRestarts, memory, world, WorldType
  <2> QED BY <2>1, LaunchesKept DEF Ran
<1>28. CASE UNCHANGED vars
  BY <1>28, LaunchesKept DEF vars, memory, world, Ran
<1> QED BY <1>1, <1>2, <1>3, <1>4, <1>5, <1>6, <1>7, <1>8, <1>9, <1>10, <1>11, <1>12, <1>13, <1>14, <1>15, <1>16, <1>17, <1>18, <1>19, <1>20, <1>21, <1>22, <1>23, <1>24, <1>25, <1>26, <1>27, <1>28 DEF Next, Lookup, Answering, Creating, Launch, Around

(* What entitles a request to the answer it gets.                          *)
Grounds(c, k, l, why) ==
    \/ /\ k = "refused" /\ why = "none"
       /\ call[c].stage \in {"gate", "recording"} \cup Looking \cup Making
    \/ /\ k = "conflict" /\ (why = "never ready" => l \notin starting)
       /\ \E work : RecordOf(l, call[c].op, work)
    \/ /\ k \in {"replayed", "failed", "created"} /\ why = "none" /\ l = call[c].lane
       /\ RecordOf(l, call[c].op, call[c].work)
       /\ k = "replayed" => registry[l] = "live" /\ call[c].stage = "checking"
       /\ k = "created" => call[c].stage = "managed"

Spoken(c) ==
    /\ \E k \in Kinds, l \in Lanes \cup {Nothing}, why \in Reasons :
           Answers(c, k, l, why) /\ Grounds(c, k, l, why)
    /\ launches' = launches

Forgotten(c) == answer' = [answer EXCEPT ![c] = NoAnswer]

LEMMA DecideSpeaks ==
    ASSUME TypeOK, InHand, NEW c \in Callers, NEW n \in Nat, n <= Len(log), Decides(c, n),
           launches' = launches
    PROVE  UNCHANGED answer \/ Spoken(c)
<1>1. ASSUME NEW i \in Creations(n, call[c].op), Answers(c, "conflict", log[i].lane, "other work")
      PROVE  Spoken(c)
  <2>1. i \in DOMAIN log /\ log[i].type = "created" /\ log[i].op = call[c].op
    BY TypeParts DEF Creations, LogType
  <2>2. log[i].lane \in Lanes
    BY <2>1, TypeParts, CreationAssumption DEF InHand, LogType, Lanes
  <2>3. \E work : RecordOf(log[i].lane, call[c].op, work)
    BY <2>1 DEF RecordOf
  <2> QED BY <1>1, <2>2, <2>3 DEF Spoken, Grounds, Kinds, Reasons
<1> QED BY <1>1 DEF Decides

(* Every answer has its grounds.                                           *)
LEMMA NextAnswer ==
    ASSUME TypeOK, InHand, OwnAlone, Snapshots, LaunchedOnce, [Next]_vars,
           \A d \in Callers : HeldAt(d)
    PROVE  UNCHANGED answer \/ \E d \in Callers : Forgotten(d) \/ Spoken(d)
<1>1. ASSUME NEW c \in Callers, Asks(c) PROVE UNCHANGED answer \/ \E d \in Callers : Forgotten(d) \/ Spoken(d)
  BY <1>1 DEF Asks, Forgotten
<1>2. ASSUME NEW c \in Callers, LooksUp(c) PROVE UNCHANGED answer \/ \E d \in Callers : Forgotten(d) \/ Spoken(d)
  <2>1. CASE Cached(c) /\ Decides(c, cache.upTo)
    BY <1>2, <2>1, CacheCovers, DecideSpeaks DEF LooksUp
  <2> QED BY <1>2, <2>1 DEF LooksUp
<1>3. ASSUME NEW c \in Callers, Admitted(c) PROVE UNCHANGED answer \/ \E d \in Callers : Forgotten(d) \/ Spoken(d)
  <2>1. CASE Cached(c) /\ Decides(c, cache.upTo)
    BY <1>3, <2>1, CacheCovers, DecideSpeaks DEF Admitted
  <2> QED BY <1>3, <2>1 DEF Admitted
<1>4. ASSUME NEW c \in Callers, Folds(c) PROVE UNCHANGED answer \/ \E d \in Callers : Forgotten(d) \/ Spoken(d)
  BY <1>4 DEF Folds, memory, world
<1>5. ASSUME NEW c \in Callers, Publishes(c) PROVE UNCHANGED answer \/ \E d \in Callers : Forgotten(d) \/ Spoken(d)
  <2>1. call[c].upTo \in Nat /\ call[c].upTo <= Len(log)
    BY <1>5, TypeParts DEF Publishes, CallType, Calls, Snapshots
  <2> QED BY <1>5, <2>1, DecideSpeaks DEF Publishes
<1>6. ASSUME NEW c \in Callers, LookupFails(c) PROVE UNCHANGED answer \/ \E d \in Callers : Forgotten(d) \/ Spoken(d)
  BY <1>6 DEF LookupFails, Refuses, Spoken, Grounds, Kinds, Reasons, Looking, Making
<1>7. ASSUME NEW c \in Callers, ChecksRegistry(c) PROVE UNCHANGED answer \/ \E d \in Callers : Forgotten(d) \/ Spoken(d)
  <2>1. call[c].lane \in Lanes /\ RecordOf(call[c].lane, call[c].op, call[c].work)
    BY <1>7, HandLane DEF ChecksRegistry, HeldAt, Checking
  <2>2. CASE registry[call[c].lane] = "live" /\ Answers(c, "replayed", call[c].lane, "none")
    BY <1>7, <2>1, <2>2 DEF ChecksRegistry, Spoken, Grounds, Kinds, Reasons
  <2> QED BY <1>7, <2>2 DEF ChecksRegistry
<1>8. ASSUME NEW c \in Callers, ChecksStarting(c) PROVE UNCHANGED answer \/ \E d \in Callers : Forgotten(d) \/ Spoken(d)
  <2>1. call[c].lane \in Lanes /\ RecordOf(call[c].lane, call[c].op, call[c].work)
    BY <1>8, HandLane DEF ChecksStarting, HeldAt, Checking
  <2>2. WhyNot(c) \in Reasons
    BY <1>8 DEF ChecksStarting, WhyNot, Reasons
  <2>3. WhyNot(c) = "never ready" => call[c].lane \notin starting
    BY DEF WhyNot
  <2>4. Grounds(c, "conflict", call[c].lane, WhyNot(c))
    BY <2>1, <2>3 DEF Grounds
  <2> QED BY <1>8, <2>1, <2>2, <2>4 DEF ChecksStarting, Spoken, Kinds
<1>9. ASSUME NEW c \in Callers, TakesGate(c) PROVE UNCHANGED answer \/ \E d \in Callers : Forgotten(d) \/ Spoken(d)
  BY <1>9 DEF TakesGate, memory, world
<1>10. ASSUME NEW c \in Callers, GivesUp(c) PROVE UNCHANGED answer \/ \E d \in Callers : Forgotten(d) \/ Spoken(d)
  BY <1>10 DEF GivesUp, Refuses, Spoken, Grounds, Kinds, Reasons, Looking, Making
<1>11. ASSUME NEW c \in Callers, PreparationFails(c) PROVE UNCHANGED answer \/ \E d \in Callers : Forgotten(d) \/ Spoken(d)
  BY <1>11 DEF PreparationFails, Refuses, Spoken, Grounds, Kinds, Reasons, Looking, Making
<1>12. ASSUME NEW c \in Callers, Tracks(c) PROVE UNCHANGED answer \/ \E d \in Callers : Forgotten(d) \/ Spoken(d)
  BY <1>12 DEF Tracks, memory, world
<1>13. ASSUME NEW c \in Callers, Records(c) PROVE UNCHANGED answer \/ \E d \in Callers : Forgotten(d) \/ Spoken(d)
  BY <1>13 DEF Records, memory, world
<1>14. ASSUME NEW c \in Callers, RecordFails(c) PROVE UNCHANGED answer \/ \E d \in Callers : Forgotten(d) \/ Spoken(d)
  BY <1>14 DEF RecordFails, Refuses, Spoken, Grounds, Kinds, Reasons, Looking, Making
<1>15. ASSUME NEW c \in Callers, Launches(c) PROVE UNCHANGED answer \/ \E d \in Callers : Forgotten(d) \/ Spoken(d)
  BY <1>15 DEF Launches, memory, world
<1>16. ASSUME NEW c \in Callers, RunnerAnswers(c) PROVE UNCHANGED answer \/ \E d \in Callers : Forgotten(d) \/ Spoken(d)
  BY <1>16 DEF RunnerAnswers, memory, world
<1>17. ASSUME NEW c \in Callers, LaunchFails(c) PROVE UNCHANGED answer \/ \E d \in Callers : Forgotten(d) \/ Spoken(d)
  <2>1. call[c].lane \in Lanes /\ RecordOf(call[c].lane, call[c].op, call[c].work)
    BY <1>17, HandLane DEF LaunchFails, HeldAt, Own, Launching
  <2> QED BY <1>17, <2>1 DEF LaunchFails, Failed, Spoken, Grounds, Kinds, Reasons
<1>18. ASSUME NEW c \in Callers, Registers(c) PROVE UNCHANGED answer \/ \E d \in Callers : Forgotten(d) \/ Spoken(d)
  BY <1>18 DEF Registers, memory, world
<1>19. ASSUME NEW c \in Callers, Untracks(c) PROVE UNCHANGED answer \/ \E d \in Callers : Forgotten(d) \/ Spoken(d)
  BY <1>19 DEF Untracks, memory, world
<1>20. ASSUME NEW c \in Callers, Finishes(c) PROVE UNCHANGED answer \/ \E d \in Callers : Forgotten(d) \/ Spoken(d)
  <2>1. call[c].lane \in Lanes /\ RecordOf(call[c].lane, call[c].op, call[c].work)
    BY <1>20, HandLane DEF Finishes, HeldAt, Own, Launching
  <2> QED BY <1>20, <2>1 DEF Finishes, Failed, Spoken, Grounds, Kinds, Reasons
<1>21. ASSUME NEW l \in Lanes, RunnerEnds(l) PROVE UNCHANGED answer \/ \E d \in Callers : Forgotten(d) \/ Spoken(d)
  BY <1>21 DEF RunnerEnds, memory, world
<1>22. ASSUME NEW l \in Lanes, HearsExit(l) PROVE UNCHANGED answer \/ \E d \in Callers : Forgotten(d) \/ Spoken(d)
  BY <1>22 DEF HearsExit, memory, world
<1>23. ASSUME NEW l \in Lanes, Forgets(l) PROVE UNCHANGED answer \/ \E d \in Callers : Forgotten(d) \/ Spoken(d)
  BY <1>23 DEF Forgets, memory, world
<1>24. ASSUME NEW l \in Lanes, Adopts(l) PROVE UNCHANGED answer \/ \E d \in Callers : Forgotten(d) \/ Spoken(d)
  BY <1>24 DEF Adopts, memory, world
<1>25. ASSUME NEW l \in Lanes, RecordsLoss(l) PROVE UNCHANGED answer \/ \E d \in Callers : Forgotten(d) \/ Spoken(d)
  BY <1>25 DEF RecordsLoss, memory, world
<1>26. CASE OthersAppend
  BY <1>26 DEF OthersAppend, memory, world
<1>27. CASE DaemonRestarts
  BY <1>27 DEF DaemonRestarts, memory, world
<1>28. CASE UNCHANGED vars
  BY <1>28 DEF vars, memory, world
<1> QED BY <1>1, <1>2, <1>3, <1>4, <1>5, <1>6, <1>7, <1>8, <1>9, <1>10, <1>11, <1>12, <1>13, <1>14, <1>15, <1>16, <1>17, <1>18, <1>19, <1>20, <1>21, <1>22, <1>23, <1>24, <1>25, <1>26, <1>27, <1>28 DEF Next, Lookup, Answering, Creating, Launch, Around

(* What was said stays true.                                               *)
LEMMA TrueKept ==
    ASSUME TypeOK, InHand, OwnAlone, Snapshots, LaunchedOnce, [Next]_vars, NEW a \in Given, TrueAt(a),
           \A d \in Callers : Apart(a, d)
    PROVE  TrueAt(a)'
<1>1. a.kind \in {"failed", "replayed", "created"} => RecordOf(a.lane, a.op, a.work)'
  BY RecordsKept DEF TrueAt
<1>2. a.kind = "conflict" => \E work : RecordOf(a.lane, a.op, work)'
  BY RecordsKept DEF TrueAt
<1>3. ASSUME a.kind \in {"replayed", "created"} PROVE launches'[a.lane] = 1
  <2>1. a.lane \in Lanes
    <3>1. a.lane \in 1..minted
      BY <1>3, RecordOfHas DEF TrueAt
    <3> QED BY <3>1, TypeParts, CreationAssumption DEF LogType, Lanes
  <2> QED BY <1>3, <2>1, LaunchesKept DEF TrueAt
<1>4. ASSUME a.kind = "refused", a.own \in Lanes
      PROVE  launches'[a.own] = 0 /\ a.own \in 1..minted'
  <2>1. launches[a.own] = 0 /\ a.own \in 1..minted
    BY <1>4 DEF TrueAt
  <2>2. ASSUME NEW e \in Callers, Launches(e) PROVE call[e].lane # a.own
    BY <1>4, <2>2 DEF Apart, Launches, Own, Launching
  <2>3. launches'[a.own] = 0
    BY <1>4, <2>1, <2>2, LaunchesKept
  <2> QED BY <2>1, <2>3, LogTypeStep
<1> QED BY <1>1, <1>2, <1>3, <1>4 DEF TrueAt

(* And nobody takes in hand what it was said of.                           *)
LEMMA ApartKept ==
    ASSUME TypeOK, InHand, OwnAlone, Snapshots, LaunchedOnce, [Next]_vars, NEW a \in Given, TrueAt(a),
           \A d \in Callers : Apart(a, d), NEW d \in Callers, Keeps(d)
    PROVE  Apart(a, d)'
<1>1. a.kind \in {"created", "conflict"} => a.lane \in 1..minted
  BY RecordOfHas DEF TrueAt
<1>2. minted \in Nat
  BY TypeParts DEF LogType
<1>3. ASSUME a.kind = "created", call'[d].stage \in Own PROVE a.lane # call'[d].lane
  <2>1. CASE call[d].stage \in Own /\ call'[d].lane = call[d].lane
    BY <1>3, <2>1 DEF Apart
  <2>2. CASE call'[d].lane = minted + 1
    BY <1>1, <1>2, <1>3, <2>2
  <2> QED BY <1>3, <2>1, <2>2 DEF Keeps
<1>4. ASSUME a.kind = "refused", call'[d].stage \in Own PROVE a.own # call'[d].lane
  <2>1. CASE call[d].stage \in Own /\ call'[d].lane = call[d].lane
    BY <1>4, <2>1 DEF Apart
  <2>2. CASE call'[d].lane = minted + 1
    <3>1. a.own \in Lanes \cup {Nothing}
      BY DEF Given
    <3>2. a.own \in Lanes => a.own \in 1..minted
      BY <1>4 DEF TrueAt
    <3> QED BY <1>2, <2>2, <3>1, <3>2, CreationAssumption
  <2> QED BY <1>4, <2>1, <2>2 DEF Keeps
<1>5. ASSUME a.reason = "never ready", call'[d].stage \in TrackedStages PROVE a.lane # call'[d].lane
  <2>1. a.lane \in 1..minted
    BY <1>1, <1>5 DEF TrueAt
  <2>2. CASE call[d].stage \in TrackedStages /\ call'[d].lane = call[d].lane
    BY <1>5, <2>2 DEF Apart
  <2>3. CASE call'[d].lane = minted + 1
    BY <1>2, <2>1, <2>3
  <2> QED BY <1>5, <2>2, <2>3 DEF Keeps
<1> QED BY <1>3, <1>4, <1>5 DEF Apart

(* An answer with its grounds is true, and stays apart from what others do.*)
LEMMA SpokenIsTrue ==
    ASSUME TypeOK, InHand, OwnAlone, Snapshots, LaunchedOnce, [Next]_vars, AnswersInv, NEW c \in Callers,
           NEW k \in Kinds, NEW l \in Lanes \cup {Nothing}, NEW why \in Reasons,
           Answers(c, k, l, why), Grounds(c, k, l, why), launches' = launches, NEW a \in Given,
           a.kind = k, a.lane = l, a.op = call[c].op, a.work = call[c].work, a.reason = why,
           a.own = IF call[c].stage \in Checking THEN Nothing ELSE call[c].lane
    PROVE  /\ TrueAt(a)' /\ \A d \in Callers : Apart(a, d)'
           /\ k = "created" => call[c].stage \in Own /\ l = call[c].lane
<1>0. call'[c] = NoCall /\ Only(c)
  BY TypeParts, EndStep DEF Ended
<1>1. \A d \in Callers : call'[d].stage \in Own => d # c /\ call'[d] = call[d]
  BY <1>0 DEF Only, NoCall, Own, Launching
<1>2. TrackedStages \subseteq Own
  BY DEF TrackedStages, Own
<1>3. CASE k = "refused"
  <2>1. why = "none" /\ call[c].stage \in {"gate", "recording"} \cup Looking \cup Making
    BY <1>3 DEF Grounds
  <2>2. CASE call[c].stage = "recording"
    <3>1. a.own = call[c].lane /\ a.own \in 1..minted /\ launches[a.own] = 0
      BY <2>2, HandLane DEF LaunchedOnce, Own, Checking
    <3>2. launches'[a.own] = 0 /\ a.own \in 1..minted'
      BY <3>1, LogTypeStep
    <3>3. TrueAt(a)'
      BY <1>3, <2>1, <3>2 DEF TrueAt
    <3>4. ASSUME NEW d \in Callers, call'[d].stage \in Own PROVE a.own # call'[d].lane
      <4>1. d # c /\ call[d].stage \in Own /\ call[c].stage \in Own /\ call'[d] = call[d]
        BY <1>1, <2>2, <3>4 DEF Own
      <4> QED BY <3>1, <4>1 DEF OwnAlone
    <3> QED BY <1>3, <2>1, <3>3, <3>4 DEF Apart
  <2>3. CASE call[c].stage # "recording"
    <3>1. call[c].stage \notin Own \cup Checking
      BY <2>1, <2>3 DEF Own, Checking, Looking, Making, Launching
    <3>2. a.own = Nothing /\ a.own \notin Lanes
      BY <3>1, CreationAssumption DEF InHand, Lanes
    <3>3. TrueAt(a)'
      BY <1>3, <2>1, <3>2 DEF TrueAt
    <3>4. ASSUME NEW d \in Callers, call'[d].stage \in Own PROVE a.own # call'[d].lane
      BY <1>1, <3>2, <3>4, HandLane
    <3> QED BY <1>3, <2>1, <3>3, <3>4 DEF Apart
  <2> QED BY <1>3, <2>2, <2>3
<1>4. CASE k = "conflict"
  <2>1. (why = "never ready" => l \notin starting) /\ \E work : RecordOf(l, call[c].op, work)
    BY <1>4 DEF Grounds
  <2>2. \E work : RecordOf(a.lane, a.op, work)'
    <3>1. \E work : RecordOf(a.lane, a.op, work)
      BY <2>1
    <3> QED BY <3>1, RecordsKept
  <2>3. TrueAt(a)'
    BY <1>4, <2>2 DEF TrueAt
  <2>4. ASSUME NEW d \in Callers, why = "never ready", call'[d].stage \in TrackedStages
        PROVE  a.lane # call'[d].lane
    <3>1. call'[d] = call[d]
      BY <1>1, <1>2, <2>4
    <3> QED BY <2>1, <2>4, <3>1 DEF AnswersInv, HeldAt
  <2> QED BY <1>4, <2>3, <2>4 DEF Apart
<1>5. CASE k \in {"replayed", "failed", "created"}
  <2>1. /\ why = "none" /\ l = call[c].lane /\ RecordOf(l, call[c].op, call[c].work)
        /\ k = "replayed" => registry[l] = "live" /\ call[c].stage = "checking"
        /\ k = "created" => call[c].stage = "managed"
    BY <1>5 DEF Grounds
  <2>2. RecordOf(a.lane, a.op, a.work)'
    <3>1. RecordOf(a.lane, a.op, a.work)
      BY <2>1
    <3> QED BY <3>1, RecordsKept
  <2>3. k = "replayed" => launches[l] = 1
    BY <2>1, HandLane DEF AnswersInv, Ran, Checking
  <2>4. k = "created" => launches[l] = 1 /\ call[c].stage \in Own
    BY <2>1 DEF AnswersInv, HeldAt, LaunchedStages, Own
  <2>5. TrueAt(a)'
    BY <1>5, <2>1, <2>2, <2>3, <2>4 DEF TrueAt
  <2>6. ASSUME NEW d \in Callers, k = "created", call'[d].stage \in Own
        PROVE  a.lane # call'[d].lane
    <3>1. d # c /\ call[d].stage \in Own /\ call'[d] = call[d]
      BY <1>1, <2>6
    <3> QED BY <2>1, <2>4, <2>6, <3>1 DEF OwnAlone
  <2> QED BY <1>5, <2>1, <2>4, <2>5, <2>6 DEF Apart
<1> QED BY <1>3, <1>4, <1>5 DEF Grounds

LEMMA SpokenStep ==
    ASSUME TypeOK, InHand, OwnAlone, Snapshots, LaunchedOnce, [Next]_vars, AnswersInv, NEW c \in Callers, Spoken(c)
    PROVE  /\ \A d \in Callers \ {c} : answer'[d] = answer[d]
           /\ \E a \in Given : /\ answer'[c] = a /\ TrueAt(a)' /\ \A d \in Callers : Apart(a, d)'
                               /\ a.kind = "created" =>
                                      call[c].stage \in Own /\ a.lane = call[c].lane
<1>1. PICK k \in Kinds, l \in Lanes \cup {Nothing}, why \in Reasons :
          Answers(c, k, l, why) /\ Grounds(c, k, l, why)
  BY DEF Spoken
<1>2. PICK a : a = [kind |-> k, lane |-> l, op |-> call[c].op, work |-> call[c].work,
                    reason |-> why,
                    own |-> IF call[c].stage \in Checking THEN Nothing ELSE call[c].lane]
  OBVIOUS
<1>3. answer' = [answer EXCEPT ![c] = a]
  BY <1>1, <1>2 DEF Answers
<1>4. a \in Given
  BY <1>2, TypeParts DEF Given, CallType, Calls
<1>5. answer'[c] = a /\ \A d \in Callers \ {c} : answer'[d] = answer[d]
  BY <1>3, TypeParts DEF AnswerType
<1>6. /\ a.kind = k /\ a.lane = l /\ a.op = call[c].op /\ a.work = call[c].work /\ a.reason = why
      /\ a.own = IF call[c].stage \in Checking THEN Nothing ELSE call[c].lane
  BY <1>2
<1>7. /\ TrueAt(a)' /\ \A d \in Callers : Apart(a, d)'
      /\ k = "created" => call[c].stage \in Own /\ l = call[c].lane
  BY <1>1, <1>4, <1>6, SpokenIsTrue DEF Spoken
<1> QED BY <1>4, <1>5, <1>6, <1>7

LEMMA AnswersStep ==
    ASSUME TypeOK, InHand, OwnAlone, Snapshots, LaunchedOnce, [Next]_vars, AnswersInv
    PROVE  AnswersInv'
<1>1. Ran' /\ \A d \in Callers : HeldAt(d)'
  BY RanStep, HeldStep DEF AnswersInv
<1>2. ASSUME NEW d \in Callers, answer'[d] = answer[d]
      PROVE  TrueAt(answer[d])' /\ \A e \in Callers : Apart(answer[d], e)'
  <2>1. PICK a \in Given : a = answer[d]
    BY TypeParts DEF AnswerType
  <2>2. TrueAt(a) /\ \A e \in Callers : Apart(a, e)
    BY <2>1 DEF AnswersInv
  <2>3. TrueAt(a)' /\ \A e \in Callers : Apart(a, e)'
    BY <2>2, TrueKept, ApartKept, NextKeeps
  <2>4. a = answer'[d]
    BY <1>2, <2>1
  <2> QED BY <2>3, <2>4
<1>3. CASE UNCHANGED answer
  BY <1>1, <1>2, <1>3 DEF AnswersInv, CreatedAlone
<1>4. ASSUME NEW c \in Callers, Forgotten(c) PROVE AnswersInv'
  <2>1. PICK a : a = NoAnswer
    OBVIOUS
  <2>2. answer'[c] = a /\ \A d \in Callers \ {c} : answer'[d] = answer[d]
    BY <1>4, <2>1, TypeParts DEF Forgotten, AnswerType
  <2>3. a.kind = "none" /\ a.reason = "none"
    BY <2>1 DEF NoAnswer
  <2>4. TrueAt(a)' /\ \A e \in Callers : Apart(a, e)'
    BY <2>3 DEF TrueAt, Apart
  <2>5. TrueAt(answer[c])' /\ \A e \in Callers : Apart(answer[c], e)'
    BY <2>2, <2>4
  <2>6. \A d \in Callers : TrueAt(answer[d])' /\ \A e \in Callers : Apart(answer[d], e)'
    BY <1>2, <2>2, <2>5
  <2>7. CreatedAlone'
    BY <2>2, <2>3 DEF AnswersInv, CreatedAlone
  <2> QED BY <1>1, <2>6, <2>7 DEF AnswersInv
<1>5. ASSUME NEW c \in Callers, Spoken(c) PROVE AnswersInv'
  <2>1. PICK a \in Given : /\ answer'[c] = a /\ TrueAt(a)' /\ \A d \in Callers : Apart(a, d)'
                           /\ a.kind = "created" => call[c].stage \in Own /\ a.lane = call[c].lane
    BY <1>5, SpokenStep
  <2>2. \A d \in Callers \ {c} : answer'[d] = answer[d]
    BY <1>5, SpokenStep
  <2>3. TrueAt(answer[c])' /\ \A e \in Callers : Apart(answer[c], e)'
    BY <2>1
  <2>4. \A d \in Callers : TrueAt(answer[d])' /\ \A e \in Callers : Apart(answer[d], e)'
    BY <1>2, <2>2, <2>3
  <2>5. \A d \in Callers \ {c} : a.kind = "created" /\ answer[d].kind = "created" => answer[d].lane # a.lane
    BY <2>1 DEF AnswersInv, Apart
  <2>6. CreatedAlone'
    BY <2>1, <2>2, <2>5 DEF AnswersInv, CreatedAlone
  <2> QED BY <1>1, <2>4, <2>6 DEF AnswersInv
<1> QED BY <1>3, <1>4, <1>5, NextAnswer DEF AnswersInv

LEMMA AnswersInit ==
    ASSUME Init
    PROVE  AnswersInv
<1>1. \A c \in Callers : /\ call[c].stage = "idle"
                        /\ answer[c].kind = "none" /\ answer[c].reason = "none"
  BY DEF Init, NoCall, NoAnswer
<1>2. \A c \in Callers : HeldAt(c)
  BY <1>1 DEF HeldAt, TrackedStages, LaunchedStages, Checking, Launching
<1>3. /\ \A c \in Callers : TrueAt(answer[c])
      /\ \A c, d \in Callers : Apart(answer[c], d)
      /\ CreatedAlone
  BY <1>1 DEF TrueAt, Apart, CreatedAlone
<1>4. Ran
  BY DEF Init, Ran
<1> QED BY <1>2, <1>3, <1>4 DEF AnswersInv

(* The invariant of the answers holds in every behaviour.                  *)
THEOREM AnswersInvariant == Spec => []AnswersInv
<1>1. CreationInv /\ AnswersInv /\ [Next]_vars => AnswersInv'
  BY AnswersStep DEF CreationInv
<1> QED BY <1>1, AnswersInit, CreationInvariant, PTL DEF Spec

(* For any number of callers, requests, launches and restarts an answer    *)
(* names what is recorded, what is returned was launched, no two are told  *)
(* that they created one session, and a refusal left no runner behind      *)
(* (finishCreate, replayStart, StartCreateFailedError).                    *)
THEOREM AnswersAreTrueAlways == Spec => []AnswersAreTrue
<1>1. CreationInv /\ AnswersInv => AnswersAreTrue
  <2> SUFFICES ASSUME CreationInv, AnswersInv, NEW c \in Callers
      PROVE  /\ answer[c].kind \in {"failed", "conflict", "replayed", "created"} =>
                    \E i \in DOMAIN log :
                        /\ log[i].type = "created"
                        /\ log[i].lane = answer[c].lane /\ log[i].op = answer[c].op
                        /\ answer[c].kind # "conflict" => log[i].work = answer[c].work
             /\ answer[c].kind \in {"replayed", "created"} => launches[answer[c].lane] = 1
             /\ \A d \in Callers \ {c} :
                    answer[c].kind = "created" /\ answer[d].kind = "created"
                    => answer[c].lane # answer[d].lane
             /\ answer[c].kind = "refused" => \A l \in {answer[c].own} \cap Lanes : launches[l] = 0
    BY DEF AnswersAreTrue
  <2>1. TrueAt(answer[c])
    BY DEF AnswersInv
  <2> QED BY <2>1 DEF AnswersInv, TrueAt, RecordOf, CreatedAlone
<1> QED BY <1>1, AnswersInvariant, CreationInvariant, PTL

(* Who is told that a launch never reported ready was not told so while    *)
(* that launch was under way, nor is it under way later                    *)
(* (createRegistryTracked).                                                *)
THEOREM LaunchUnderWayIsSaidAlways == Spec => []LaunchUnderWayIsSaid
<1>1. AnswersInv => LaunchUnderWayIsSaid
  BY DEF AnswersInv, Apart, LaunchUnderWayIsSaid, TrackedStages
<1> QED BY <1>1, AnswersInvariant, PTL
-----------------------------------------------------------------------------
(* Creation implements what an operation id promises.  A caller that is    *)
(* being served has no answer, and asks for some work.                     *)
Asked == \A c \in Callers : call[c].stage # "idle" =>
             answer[c].kind = "none" /\ call[c].work \in Works

Goes(d) ==
    call'[d].stage # "idle" =>
        \/ call[d].stage # "idle" /\ call'[d].work = call[d].work
        \/ answer'[d].kind = "none" /\ call'[d].work \in Works

LEMMA DecideGoes ==
    ASSUME TypeOK, InHand, NEW c \in Callers, NEW n, Decides(c, n), call[c].stage \in Looking
    PROVE  \A d \in Callers : Goes(d)
<1>0. CallType /\ call[c] \in Calls /\ call[c].stage # "idle"
  BY TypeParts DEF CallType, Looking
<1>1. CASE call' = Unrecorded(c)
  BY <1>0, <1>1 DEF Unrecorded, Goes, CallType, Calls
<1>2. ASSUME NEW i \in Creations(n, call[c].op),
             call' = [call EXCEPT ![c] = [@ EXCEPT !.stage = "checking",
                         !.marked = FALSE, !.mark = 0, !.upTo = n, !.lane = log[i].lane]]
      PROVE  \A d \in Callers : Goes(d)
  BY <1>0, <1>2 DEF Goes, CallType, Calls
<1>3. ASSUME NEW i \in Creations(n, call[c].op), Answers(c, "conflict", log[i].lane, "other work")
      PROVE  \A d \in Callers : Goes(d)
  <2>1. Ended(c)
    BY <1>0, <1>3, EndStep
  <2> QED BY <2>1 DEF Ended, NoCall, Only, Goes
<1> QED BY <1>1, <1>2, <1>3 DEF Decides

(* A request that is served goes on with its work, or has just begun.      *)
LEMMA NextGoes ==
    ASSUME TypeOK, InHand, Snapshots, [Next]_vars
    PROVE  \A d \in Callers : Goes(d)
<1>1. ASSUME NEW c \in Callers, Asks(c) PROVE \A d \in Callers : Goes(d)
  <2>1. PICK r \in Requests, marked \in MarkReads :
            LET request == [NoCall EXCEPT !.stage = "gate", !.op = r.op, !.work = r.work] IN
            call' = [call EXCEPT ![c] = IF r.op = Nothing THEN request ELSE Marking(request, marked)]
    BY <1>1 DEF Asks
  <2>2. call'[c].work = r.work
    BY <2>1, TypeParts DEF CallType, NoCall, Marking
  <2>3. r.work \in Works
    BY CreationAssumption
  <2>4. answer'[c].kind = "none"
    BY <1>1, TypeParts DEF Asks, AnswerType, NoAnswer
  <2>5. Only(c)
    BY <1>1, AsksStep DEF Begun
  <2> QED BY <2>2, <2>3, <2>4, <2>5 DEF Only, Goes
<1>2. ASSUME NEW c \in Callers, LooksUp(c) PROVE \A d \in Callers : Goes(d)
  <2>1. CASE Decides(c, cache.upTo)
    BY <1>2, <2>1, DecideGoes DEF LooksUp, Looking
  <2>2. CASE call' = At(c, "missed")
    <3>1. Moved(c, "missed") /\ call[c].stage # "idle"
      BY <1>2, <2>2, TypeParts, AtStep DEF LooksUp, Stages, Looking
    <3> QED BY <3>1 DEF Moved, Only, Goes
  <2> QED BY <1>2, <2>1, <2>2 DEF LooksUp
<1>3. ASSUME NEW c \in Callers, Admitted(c) PROVE \A d \in Callers : Goes(d)
  <2>1. CASE Decides(c, cache.upTo)
    BY <1>3, <2>1, DecideGoes DEF Admitted, Looking
  <2>2. CASE call' = At(c, "folding")
    <3>1. Moved(c, "folding") /\ call[c].stage # "idle"
      BY <1>3, <2>2, TypeParts, AtStep DEF Admitted, Stages, Looking
    <3> QED BY <3>1 DEF Moved, Only, Goes
  <2> QED BY <1>3, <2>1, <2>2 DEF Admitted
<1>4. ASSUME NEW c \in Callers, Folds(c) PROVE \A d \in Callers : Goes(d)
  BY <1>4, TypeParts DEF Folds, CallType, Calls, Goes
<1>5. ASSUME NEW c \in Callers, Publishes(c) PROVE \A d \in Callers : Goes(d)
  BY <1>5, DecideGoes DEF Publishes, Looking
<1>6. ASSUME NEW c \in Callers, LookupFails(c) PROVE \A d \in Callers : Goes(d)
  <2>1. Ended(c)
    BY <1>6, LookupFailsStep
  <2> QED BY <2>1 DEF Ended, NoCall, Only, Goes
<1>7. ASSUME NEW c \in Callers, ChecksRegistry(c) PROVE \A d \in Callers : Goes(d)
  <2>1. (Ended(c) \/ Moved(c, "absent") \/ Moved(c, "over")) /\ call[c].stage = "checking"
    BY <1>7, ChecksRegistryStep DEF ChecksRegistry
  <2> QED BY <2>1 DEF Ended, Moved, NoCall, Only, Goes
<1>8. ASSUME NEW c \in Callers, ChecksStarting(c) PROVE \A d \in Callers : Goes(d)
  <2>1. Ended(c)
    BY <1>8, ChecksStartingStep
  <2> QED BY <2>1 DEF Ended, NoCall, Only, Goes
<1>9. ASSUME NEW c \in Callers, TakesGate(c) PROVE \A d \in Callers : Goes(d)
  BY <1>9, TypeParts DEF TakesGate, CallType, Calls, Marking, At, Goes
<1>10. ASSUME NEW c \in Callers, GivesUp(c) PROVE \A d \in Callers : Goes(d)
  <2>1. Ended(c)
    BY <1>10, GivesUpStep
  <2> QED BY <2>1 DEF Ended, NoCall, Only, Goes
<1>11. ASSUME NEW c \in Callers, PreparationFails(c) PROVE \A d \in Callers : Goes(d)
  <2>1. Ended(c)
    BY <1>11, PreparationFailsStep
  <2> QED BY <2>1 DEF Ended, NoCall, Only, Goes
<1>12. ASSUME NEW c \in Callers, Tracks(c) PROVE \A d \in Callers : Goes(d)
  BY <1>12, TypeParts DEF Tracks, CallType, Calls, Goes
<1>13. ASSUME NEW c \in Callers, Records(c) PROVE \A d \in Callers : Goes(d)
  <2>1. Moved(c, "launching") /\ call[c].stage # "idle"
    BY <1>13, RecordsStep DEF Records
  <2> QED BY <2>1 DEF Moved, Only, Goes
<1>14. ASSUME NEW c \in Callers, RecordFails(c) PROVE \A d \in Callers : Goes(d)
  <2>1. Ended(c)
    BY <1>14, RecordFailsStep
  <2> QED BY <2>1 DEF Ended, NoCall, Only, Goes
<1>15. ASSUME NEW c \in Callers, Launches(c) PROVE \A d \in Callers : Goes(d)
  <2>1. Moved(c, "launched") /\ call[c].stage # "idle"
    BY <1>15, LaunchesStep DEF Launches
  <2> QED BY <2>1 DEF Moved, Only, Goes
<1>16. ASSUME NEW c \in Callers, RunnerAnswers(c) PROVE \A d \in Callers : Goes(d)
  <2>1. Moved(c, "ready") /\ call[c].stage # "idle"
    BY <1>16, RunnerAnswersStep DEF RunnerAnswers
  <2> QED BY <2>1 DEF Moved, Only, Goes
<1>17. ASSUME NEW c \in Callers, LaunchFails(c) PROVE \A d \in Callers : Goes(d)
  <2>1. Ended(c)
    BY <1>17, LaunchFailsStep
  <2> QED BY <2>1 DEF Ended, NoCall, Only, Goes
<1>18. ASSUME NEW c \in Callers, Registers(c) PROVE \A d \in Callers : Goes(d)
  <2>1. Moved(c, "registered") /\ call[c].stage # "idle"
    BY <1>18, RegistersStep DEF Registers
  <2> QED BY <2>1 DEF Moved, Only, Goes
<1>19. ASSUME NEW c \in Callers, Untracks(c) PROVE \A d \in Callers : Goes(d)
  <2>1. Moved(c, "managed") /\ call[c].stage # "idle"
    BY <1>19, UntracksStep DEF Untracks
  <2> QED BY <2>1 DEF Moved, Only, Goes
<1>20. ASSUME NEW c \in Callers, Finishes(c) PROVE \A d \in Callers : Goes(d)
  <2>1. Ended(c)
    BY <1>20, FinishesStep
  <2> QED BY <2>1 DEF Ended, NoCall, Only, Goes
<1>21. ASSUME NEW l \in Lanes, RunnerEnds(l) PROVE \A d \in Callers : Goes(d)
  BY <1>21 DEF RunnerEnds, memory, world, Goes
<1>22. ASSUME NEW l \in Lanes, HearsExit(l) PROVE \A d \in Callers : Goes(d)
  BY <1>22 DEF HearsExit, memory, world, Goes
<1>23. ASSUME NEW l \in Lanes, Forgets(l) PROVE \A d \in Callers : Goes(d)
  BY <1>23 DEF Forgets, memory, world, Goes
<1>24. ASSUME NEW l \in Lanes, Adopts(l) PROVE \A d \in Callers : Goes(d)
  BY <1>24 DEF Adopts, memory, world, Goes
<1>25. ASSUME NEW l \in Lanes, RecordsLoss(l) PROVE \A d \in Callers : Goes(d)
  BY <1>25 DEF RecordsLoss, memory, world, Goes
<1>26. CASE OthersAppend
  BY <1>26 DEF OthersAppend, memory, world, Goes
<1>27. CASE DaemonRestarts
  BY <1>27 DEF DaemonRestarts, NoCall, Goes
<1>28. CASE UNCHANGED vars
  BY <1>28 DEF vars, memory, world, Goes
<1> QED BY <1>1, <1>2, <1>3, <1>4, <1>5, <1>6, <1>7, <1>8, <1>9, <1>10, <1>11, <1>12, <1>13, <1>14, <1>15, <1>16, <1>17, <1>18, <1>19, <1>20, <1>21, <1>22, <1>23, <1>24, <1>25, <1>26, <1>27, <1>28 DEF Next, Lookup, Answering, Creating, Launch, Around

LEMMA AskedStep ==
    ASSUME CreationInv, AnswersInv, Asked, [Next]_vars
    PROVE  Asked'
<1> SUFFICES ASSUME NEW d \in Callers, call'[d].stage # "idle"
             PROVE  answer'[d].kind = "none" /\ call'[d].work \in Works
  BY DEF Asked
<1>1. CASE answer'[d].kind = "none" /\ call'[d].work \in Works
  BY <1>1
<1>2. CASE call[d].stage # "idle" /\ call'[d].work = call[d].work
  <2>1. answer[d].kind = "none" /\ call'[d].work \in Works
    BY <1>2 DEF Asked
  <2>2. ASSUME NEW e \in Callers, Forgotten(e) PROVE answer'[d].kind = "none"
    BY <2>1, <2>2, TypeParts DEF CreationInv, Forgotten, AnswerType, NoAnswer
  <2>3. ASSUME NEW e \in Callers, Spoken(e) PROVE answer'[d].kind = "none"
    <3>1. call'[e] = NoCall
      BY <2>3, TypeParts, EndStep DEF CreationInv, Spoken, Ended
    <3>2. d # e
      BY <3>1 DEF NoCall
    <3>3. answer'[d] = answer[d]
      BY <2>3, <3>2, SpokenStep DEF CreationInv
    <3> QED BY <2>1, <3>3
  <2>4. UNCHANGED answer \/ \E e \in Callers : Forgotten(e) \/ Spoken(e)
    BY NextAnswer DEF CreationInv, AnswersInv
  <2> QED BY <2>1, <2>2, <2>3, <2>4
<1> QED BY <1>1, <1>2, NextGoes DEF CreationInv, Goes

(* Who is being served has no answer yet (manager_provenance.go Create).   *)
THEOREM AskedAlways == Spec => []Asked
<1>1. Init => Asked
  BY DEF Init, NoCall, Asked
<1>2. CreationInv /\ AnswersInv /\ Asked /\ [Next]_vars => Asked'
  BY AskedStep
<1> QED BY <1>1, <1>2, CreationInvariant, AnswersInvariant, PTL DEF Spec

(* A step records or launches, or does neither.                            *)
Makes == \E c \in Callers : Launches(c) \/ Records(c) \/ RecordFails(c)
Rests == Quiet /\ launches' = launches

LEMMA NextMakes ==
    ASSUME TypeOK, InHand, [Next]_vars
    PROVE  Makes \/ Rests
<1>1. ASSUME NEW c \in Callers, Asks(c) PROVE Makes \/ Rests
  BY <1>1 DEF Asks, world, Quiet, Rests
<1>2. ASSUME NEW c \in Callers, LooksUp(c) PROVE Makes \/ Rests
  BY <1>2 DEF LooksUp, world, Quiet, Rests
<1>3. ASSUME NEW c \in Callers, Admitted(c) PROVE Makes \/ Rests
  BY <1>3 DEF Admitted, world, Quiet, Rests
<1>4. ASSUME NEW c \in Callers, Folds(c) PROVE Makes \/ Rests
  BY <1>4 DEF Folds, world, Quiet, Rests
<1>5. ASSUME NEW c \in Callers, Publishes(c) PROVE Makes \/ Rests
  BY <1>5 DEF Publishes, world, Quiet, Rests
<1>6. ASSUME NEW c \in Callers, LookupFails(c) PROVE Makes \/ Rests
  BY <1>6 DEF LookupFails, world, Quiet, Rests
<1>7. ASSUME NEW c \in Callers, ChecksRegistry(c) PROVE Makes \/ Rests
  BY <1>7 DEF ChecksRegistry, world, Quiet, Rests
<1>8. ASSUME NEW c \in Callers, ChecksStarting(c) PROVE Makes \/ Rests
  BY <1>8 DEF ChecksStarting, world, Quiet, Rests
<1>9. ASSUME NEW c \in Callers, TakesGate(c) PROVE Makes \/ Rests
  BY <1>9 DEF TakesGate, world, Quiet, Rests
<1>10. ASSUME NEW c \in Callers, GivesUp(c) PROVE Makes \/ Rests
  BY <1>10 DEF GivesUp, world, Quiet, Rests
<1>11. ASSUME NEW c \in Callers, PreparationFails(c) PROVE Makes \/ Rests
  BY <1>11 DEF PreparationFails, world, Quiet, Rests
<1>12. ASSUME NEW c \in Callers, Tracks(c) PROVE Makes \/ Rests
  BY <1>12 DEF Tracks, world, Quiet, Rests
<1>13. ASSUME NEW c \in Callers, Records(c) PROVE Makes \/ Rests
  BY <1>13 DEF Makes
<1>14. ASSUME NEW c \in Callers, RecordFails(c) PROVE Makes \/ Rests
  BY <1>14 DEF Makes
<1>15. ASSUME NEW c \in Callers, Launches(c) PROVE Makes \/ Rests
  BY <1>15 DEF Makes
<1>16. ASSUME NEW c \in Callers, RunnerAnswers(c) PROVE Makes \/ Rests
  <2>1. call[c].lane \in Lanes
    BY <1>16, HandLane DEF RunnerAnswers, Own, Launching
  <2> QED BY <1>16, <2>1, RowType DEF RunnerAnswers, Observes, Quiet, Rests
<1>17. ASSUME NEW c \in Callers, LaunchFails(c) PROVE Makes \/ Rests
  BY <1>17 DEF LaunchFails, world, Quiet, Rests
<1>18. ASSUME NEW c \in Callers, Registers(c) PROVE Makes \/ Rests
  BY <1>18 DEF Registers, world, Quiet, Rests
<1>19. ASSUME NEW c \in Callers, Untracks(c) PROVE Makes \/ Rests
  BY <1>19 DEF Untracks, world, Quiet, Rests
<1>20. ASSUME NEW c \in Callers, Finishes(c) PROVE Makes \/ Rests
  BY <1>20 DEF Finishes, world, Quiet, Rests
<1>21. ASSUME NEW l \in Lanes, RunnerEnds(l) PROVE Makes \/ Rests
  BY <1>21 DEF RunnerEnds, world, Quiet, Rests
<1>22. ASSUME NEW l \in Lanes, HearsExit(l) PROVE Makes \/ Rests
  BY <1>22, RowType DEF HearsExit, Observes, Quiet, Rests
<1>23. ASSUME NEW l \in Lanes, Forgets(l) PROVE Makes \/ Rests
  BY <1>23 DEF Forgets, world, Quiet, Rests
<1>24. ASSUME NEW l \in Lanes, Adopts(l) PROVE Makes \/ Rests
  BY <1>24, RowType DEF Adopts, Observes, Quiet, Rests
<1>25. ASSUME NEW l \in Lanes, RecordsLoss(l) PROVE Makes \/ Rests
  BY <1>25, RowType DEF RecordsLoss, Observes, Quiet, Rests
<1>26. CASE OthersAppend
  BY <1>26, RowType DEF OthersAppend, Observes, Quiet, Rests
<1>27. CASE DaemonRestarts
  BY <1>27 DEF DaemonRestarts, world, Quiet, Rests
<1>28. CASE UNCHANGED vars
  BY <1>28 DEF vars, world, Quiet, Rests
<1> QED BY <1>1, <1>2, <1>3, <1>4, <1>5, <1>6, <1>7, <1>8, <1>9, <1>10, <1>11, <1>12, <1>13, <1>14, <1>15, <1>16, <1>17, <1>18, <1>19, <1>20, <1>21, <1>22, <1>23, <1>24, <1>25, <1>26, <1>27, <1>28 DEF Next, Lookup, Answering, Creating, Launch, Around

-----------------------------------------------------------------------------
(* Where the ledger, the launches and the answers lead in the promise.     *)
PromiseStep == [Promise!Next]_Promise!vars

LEMMA RecordOfSession ==
    ASSUME NEW l, NEW op, NEW work, RecordOf(l, op, work)
    PROVE  [session |-> l, op |-> op, work |-> work] \in RecordedSessions
<1>1. PICK i \in DOMAIN log : /\ log[i].type = "created" /\ log[i].lane = l
                              /\ log[i].op = op /\ log[i].work = work
  BY DEF RecordOf
<1>2. Recording(i) = [session |-> l, op |-> op, work |-> work]
  BY <1>1 DEF Recording
<1> QED BY <1>1, <1>2 DEF RecordedSessions

LEMMA QuietSessions ==
    ASSUME TypeOK, Quiet
    PROVE  RecordedSessions' = RecordedSessions
<1>1. /\ \A i \in DOMAIN log : i \in DOMAIN log' /\ log'[i] = log[i]
      /\ \A i \in DOMAIN log' : log'[i].type = "created" => i \in DOMAIN log
  BY QuietLog, TypeParts
<1>2. ASSUME NEW i \in DOMAIN log PROVE Recording(i)' = Recording(i)
  BY <1>1 DEF Recording
<1> QED BY <1>1, <1>2 DEF RecordedSessions

LEMMA RecordedSession ==
    ASSUME TypeOK, InHand, NEW c \in Callers, Recorded(c)
    PROVE  RecordedSessions' = RecordedSessions \cup
               {[session |-> call[c].lane, op |-> call[c].op, work |-> call[c].work]}
<1> DEFINE m == [session |-> call[c].lane, op |-> call[c].op, work |-> call[c].work]
<1>1. PICK n : n = Len(log')
  OBVIOUS
<1>2. /\ \A i \in DOMAIN log : i \in DOMAIN log' /\ log'[i] = log[i]
      /\ DOMAIN log' = DOMAIN log \cup {n} /\ log'[n].type = "created"
      /\ log'[n].lane = call[c].lane /\ log'[n].op = call[c].op /\ log'[n].work = call[c].work
  BY <1>1, RecordLog
<1>3. Recording(n)' = m
  BY <1>2 DEF Recording
<1> HIDE DEF m
<1>4. ASSUME NEW i \in DOMAIN log PROVE Recording(i)' = Recording(i)
  BY <1>2 DEF Recording
<1>5. RecordedSessions \cup {m} \subseteq RecordedSessions'
  <2>1. ASSUME NEW i \in DOMAIN log, log[i].type = "created" PROVE Recording(i) \in RecordedSessions'
    <3>1. i \in DOMAIN log' /\ log'[i].type = "created" /\ Recording(i)' = Recording(i)
      BY <1>2, <1>4, <2>1
    <3> QED BY <3>1 DEF RecordedSessions
  <2>2. m \in RecordedSessions'
    BY <1>2, <1>3 DEF RecordedSessions
  <2> QED BY <2>1, <2>2 DEF RecordedSessions
<1>6. RecordedSessions' \subseteq RecordedSessions \cup {m}
  <2>1. ASSUME NEW i \in DOMAIN log', log'[i].type = "created"
        PROVE  Recording(i)' \in RecordedSessions \cup {m}
    <3>1. CASE i = n
      BY <1>3, <3>1
    <3>2. CASE i \in DOMAIN log
      BY <1>2, <1>4, <2>1, <3>2 DEF RecordedSessions
    <3> QED BY <1>2, <3>1, <3>2
  <2> QED BY <2>1 DEF RecordedSessions
<1> QED BY <1>5, <1>6 DEF m

LEMMA OneHolds ==
    ASSUME NEW c \in Callers, \A d \in Callers \ {c} : answer'[d] = answer[d],
           NEW H, Handed(c)' = H
    PROVE  Holdings' = [Holdings EXCEPT ![c] = H]
<1>1. ASSUME NEW d \in Callers, d # c PROVE Handed(d)' = Handed(d)
  BY <1>1 DEF Handed
<1> QED BY <1>1 DEF Holdings

LEMMA PromiseInit == Init => Promise!Init
<1> SUFFICES ASSUME Init PROVE Promise!Init
  OBVIOUS
<1>1. RecordedSessions = {}
  BY DEF Init, RecordedSessions
<1>2. Holdings = [c \in Callers |-> {}]
  BY DEF Init, NoAnswer, Holdings, Handed
<1> QED BY <1>1, <1>2 DEF Init, Promise!Init

(* A creation that is recorded, though its caller may be told otherwise.   *)
LEMMA PromiseRecords ==
    ASSUME CreationInv, AnswersInv, Asked, [Next]_vars, NEW c \in Callers,
           Records(c) \/ RecordFails(c)
    PROVE  PromiseStep
<1>0. TypeOK /\ InHand /\ LogType /\ AnswerType
  BY TypeParts DEF CreationInv
<1>1. launches' = launches /\ call[c].stage = "recording"
  BY DEF Records, RecordFails
<1>2. Holdings' = Holdings
  <2>1. CASE Records(c)
    BY <2>1 DEF Records, Holdings, Handed
  <2>2. CASE RecordFails(c)
    <3>1. answer[c].kind = "none" /\ answer'[c].kind = "refused"
      BY <1>0, <1>1, <2>2 DEF Asked, RecordFails, Refuses, Answers, AnswerType
    <3>2. \A d \in Callers \ {c} : answer'[d] = answer[d]
      BY <1>0, <2>2 DEF RecordFails, Refuses, Answers, AnswerType
    <3>3. \A d \in Callers : Handed(d)' = Handed(d)
      BY <3>1, <3>2 DEF Handed
    <3> QED BY <3>3 DEF Holdings
  <2> QED BY <2>1, <2>2
<1>3. CASE log' = log
  <2>1. RecordedSessions' = RecordedSessions
    BY <1>3 DEF RecordedSessions, Recording
  <2> QED BY <1>1, <1>2, <2>1 DEF PromiseStep, Promise!vars
<1>4. CASE Recorded(c)
  <2> DEFINE m == [session |-> call[c].lane, op |-> call[c].op, work |-> call[c].work]
  <2>1. m \in Promise!Makings
    <3>1. call[c].lane \in Lanes
      BY <1>0, <1>1, HandLane DEF Own
    <3>2. call[c].work \in Works /\ call[c].op \in Operations \cup {Nothing}
      BY <1>0, <1>1, TypeParts DEF Asked, CallType, Calls
    <3> QED BY <3>1, <3>2 DEF Promise!Makings
  <2>2. ASSUME NEW n \in RecordedSessions
        PROVE  n.session # m.session /\ (m.op = Nothing \/ n.op # m.op)
    <3>1. PICK i \in DOMAIN log : log[i].type = "created" /\ n = Recording(i)
      BY DEF RecordedSessions
    <3>2. n.session = log[i].lane /\ n.op = log[i].op
      BY <3>1 DEF Recording
    <3>3. log[i].lane # call[c].lane
      BY <1>1, <3>1 DEF AnswersInv, HeldAt, HasRecord
    <3>4. call[c].op = Nothing \/ log[i].op # call[c].op
      BY <1>1, <3>1 DEF CreationInv, Current, Making
    <3> QED BY <3>2, <3>3, <3>4
  <2>3. RecordedSessions' = RecordedSessions \cup {m}
    BY <1>0, <1>4, RecordedSession
  <2>4. Promise!Make(m)
    BY <1>1, <1>2, <2>2, <2>3 DEF Promise!Make
  <2> QED BY <2>1, <2>4 DEF PromiseStep, Promise!Next
<1>5. log' = log \/ Recorded(c)
  <2>1. CASE Records(c)
    BY <2>1 DEF Records, Recorded
  <2>2. CASE RecordFails(c)
    <3>1. gate = c
      BY <1>0, <1>1, TypeParts DEF Holders, Making
    <3> QED BY <2>2, <3>1 DEF RecordFails, Refuses, Answers, Recorded
  <2> QED BY <2>1, <2>2
<1> QED BY <1>3, <1>4, <1>5

(* A launch is the first of a session that is recorded.                    *)
LEMMA PromiseLaunches ==
    ASSUME CreationInv, AnswersInv, [Next]_vars, NEW c \in Callers, Launches(c)
    PROVE  PromiseStep
<1>0. TypeOK /\ InHand
  BY DEF CreationInv
<1>1. call[c].stage = "launching" /\ answer' = answer
  BY DEF Launches
<1>2. call[c].lane \in Lanes /\ launches[call[c].lane] = 0
  BY <1>0, <1>1, HandLane DEF CreationInv, LaunchedOnce, Own, Launching
<1> DEFINE m == [session |-> call[c].lane, op |-> call[c].op, work |-> call[c].work]
<1>3. m \in RecordedSessions
  <2>1. RecordOf(call[c].lane, call[c].op, call[c].work)
    BY <1>1 DEF AnswersInv, HeldAt, Launching
  <2> QED BY <2>1, RecordOfSession
<1>4. RecordedSessions' = RecordedSessions
  <2>1. Quiet
    BY <1>2, RowType DEF Launches, Observes, Quiet
  <2> QED BY <1>0, <2>1, QuietSessions
<1>5. Holdings' = Holdings
  BY <1>1 DEF Holdings, Handed
<1>6. launches' = [launches EXCEPT ![call[c].lane] = 1]
  BY <1>2 DEF Launches
<1>7. Promise!Start(m)
  BY <1>2, <1>4, <1>5, <1>6 DEF Promise!Start
<1> QED BY <1>3, <1>7 DEF PromiseStep, Promise!Next

(* An answer hands over what is recorded and was launched, or nothing.     *)
LEMMA PromiseSpeaks ==
    ASSUME CreationInv, AnswersInv, [Next]_vars, Rests, NEW c \in Callers, Spoken(c)
    PROVE  PromiseStep
<1>0. TypeOK /\ InHand
  BY DEF CreationInv
<1>1. RecordedSessions' = RecordedSessions /\ launches' = launches
  BY <1>0, QuietSessions DEF Rests
<1>2. PICK a \in Given : answer'[c] = a /\ TrueAt(a)'
  BY SpokenStep DEF CreationInv
<1>3. \A d \in Callers \ {c} : answer'[d] = answer[d]
  BY SpokenStep DEF CreationInv
<1>4. CASE a.kind \in {"replayed", "created"}
  <2> DEFINE m == [session |-> a.lane, op |-> a.op, work |-> a.work]
  <2>1. RecordOf(a.lane, a.op, a.work)' /\ launches'[a.lane] = 1
    BY <1>2, <1>4 DEF TrueAt
  <2>2. m \in RecordedSessions
    <3>1. PICK i \in DOMAIN log' : /\ log'[i].type = "created" /\ log'[i].lane = a.lane
                                   /\ log'[i].op = a.op /\ log'[i].work = a.work
      BY <2>1 DEF RecordOf
    <3>2. i \in DOMAIN log /\ log'[i] = log[i]
      BY <1>0, <3>1, QuietLog, TypeParts DEF Rests
    <3>3. RecordOf(a.lane, a.op, a.work)
      BY <3>1, <3>2 DEF RecordOf
    <3> QED BY <3>3, RecordOfSession
  <2>3. Handed(c)' = {m}
    BY <1>2, <1>4 DEF Handed
  <2>4. Holdings' = [Holdings EXCEPT ![c] = {m}]
    BY <1>3, <2>3, OneHolds
  <2>5. Promise!Hand(c, m)
    BY <1>1, <2>1, <2>4 DEF Promise!Hand
  <2> QED BY <2>2, <2>5 DEF PromiseStep, Promise!Next
<1>5. CASE a.kind \notin {"replayed", "created"}
  <2>1. Handed(c)' = {}
    BY <1>2, <1>5 DEF Handed
  <2>2. Holdings' = [Holdings EXCEPT ![c] = {}]
    BY <1>3, <2>1, OneHolds
  <2>3. Promise!Dismiss(c)
    BY <1>1, <2>2 DEF Promise!Dismiss
  <2> QED BY <2>3 DEF PromiseStep, Promise!Next
<1> QED BY <1>4, <1>5

LEMMA PromiseRests ==
    ASSUME CreationInv, AnswersInv, [Next]_vars, Rests
    PROVE  PromiseStep
<1>0. TypeOK /\ InHand
  BY DEF CreationInv
<1>1. RecordedSessions' = RecordedSessions /\ launches' = launches
  BY <1>0, QuietSessions DEF Rests
<1>2. CASE UNCHANGED answer
  <2>1. Holdings' = Holdings
    BY <1>2 DEF Holdings, Handed
  <2> QED BY <1>1, <2>1 DEF PromiseStep, Promise!vars
<1>3. ASSUME NEW c \in Callers, Forgotten(c) PROVE PromiseStep
  <2>1. answer'[c].kind = "none" /\ \A d \in Callers \ {c} : answer'[d] = answer[d]
    BY <1>0, <1>3, TypeParts DEF Forgotten, AnswerType, NoAnswer
  <2>2. Handed(c)' = {}
    BY <2>1 DEF Handed
  <2>3. Holdings' = [Holdings EXCEPT ![c] = {}]
    BY <2>1, <2>2, OneHolds
  <2>4. Promise!Dismiss(c)
    BY <1>1, <2>3 DEF Promise!Dismiss
  <2> QED BY <2>4 DEF PromiseStep, Promise!Next
<1>4. UNCHANGED answer \/ \E c \in Callers : Forgotten(c) \/ Spoken(c)
  BY NextAnswer DEF CreationInv, AnswersInv
<1> QED BY <1>2, <1>3, <1>4, PromiseSpeaks

(* For any number of callers, operations, sessions, failures and restarts, *)
(* creation implements the promise: every step makes a session that is     *)
(* nobody's yet, starts one that was made and not started, hands one over, *)
(* or is not seen (Create, replayStart, createRegistryTracked).            *)
THEOREM CreationKeepsItsPromise == Spec => CreationPromise
<1>1. CreationInv /\ AnswersInv /\ Asked /\ [Next]_vars => PromiseStep
  <2> SUFFICES ASSUME CreationInv, AnswersInv, Asked, [Next]_vars PROVE PromiseStep
    OBVIOUS
  <2>1. Makes \/ Rests
    BY NextMakes DEF CreationInv
  <2> QED BY <2>1, PromiseRecords, PromiseLaunches, PromiseRests DEF Makes
<1>2. CreationInv /\ AnswersInv /\ Asked /\ [Next]_vars => [Promise!Next]_Promise!vars
  BY <1>1 DEF PromiseStep
<1> QED BY <1>2, PromiseInit, CreationInvariant, AnswersInvariant, AskedAlways, PTL
        DEF Spec, CreationPromise, Promise!Spec
=============================================================================
