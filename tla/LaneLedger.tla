----------------------------- MODULE LaneLedger -----------------------------
(***************************************************************************)
(* The lane ledger's store: an append-only table that this daemon and      *)
(* other processes write, the projection of it that the daemon keeps and   *)
(* brings up to date at every read, and the memory with which it leaves    *)
(* out an activity that another one of the last moments already told.      *)
(* A transaction of the database is one step; what the daemon does between *)
(* two of them is not.  The daemon has one connection: a read that is      *)
(* under way keeps its own writers waiting, but not other processes.       *)
(***************************************************************************)
EXTENDS LaneFold, SequencesExt, FiniteSets

CONSTANTS
    Lanes,
    Workers,        \* goroutines of the daemon that record activity
    Facts,          \* what anyone may append
    Times,          \* when a provider or a user may have been active
    Sources,        \* of an activity
    Window,         \* activityWindowMS
    EntryLimit,     \* coalesceEntryLimit
    MaxEvents       \* bounds the table

ASSUME LedgerAssumption ==
    /\ Times \subseteq Nat \ {0}
    /\ Window \in Nat \ {0} /\ EntryLimit \in Nat \ {0} /\ MaxEvents \in Nat
    /\ \A f \in Facts : f.lane \in Lanes /\ f.at \in Nat \ {0}

VARIABLES
    log,            \* lane_events; a row's place is its seq
    memory,         \* the newest activity the daemon knows of each lane, 0 for none
    projection,     \* [seq, lanes] of the last successful read
    reading,        \* a read under way: its snapshot, and the lanes it changed
    call            \* each worker's RecordActivity, until it has returned

vars == <<log, memory, projection, reading, call>>

(* The lane after each prefix of a table, and after the table.             *)
LaneAfter(lane, facts) ==
    LET after[n \in 0..Len(facts)] ==
            IF n = 0 THEN NewLane
            ELSE IF facts[n].lane = lane THEN ApplyLaneEvent(after[n - 1], facts[n])
            ELSE after[n - 1]
    IN  after

FoldLane(lane, facts) == LaneAfter(lane, facts)[Len(facts)]

Fold(facts) == [l \in {facts[i].lane : i \in DOMAIN facts} |-> FoldLane(l, facts)]

-----------------------------------------------------------------------------
(* Recording.                                                              *)

Idle == [stage |-> "idle", fact |-> Nothing, newest |-> 0]

Activities == [type : {"activity"}, lane : Lanes, at : Times, arg : Sources,
               with : {Nothing}]

ASSUME NothingAssumption == Nothing \notin Activities

(* Every writer but RecordActivity appends unconditionally: this daemon's  *)
(* boundaries and observations, and other processes with the same file.    *)
Appends ==
    /\ Len(log) < MaxEvents
    /\ \E f \in Facts : log' = Append(log, f)
    /\ UNCHANGED <<memory, projection, reading, call>>

(* A defect for Remembered: the memory is never emptied.                   *)
RememberedForever(lane, at) == [memory EXCEPT ![lane] = Later(@, at)]

(* rememberCoalesced: a full memory starts over.                           *)
Remembered(lane, at) ==
    LET full == Cardinality({l \in Lanes : memory[l] # 0}) >= EntryLimit
        kept == IF full THEN [l \in Lanes |-> 0] ELSE memory
    IN  [kept EXCEPT ![lane] = Later(@, at)]

(* knownCoalesced: the memory speaks for the table only about an activity  *)
(* that is not older than what it holds.                                   *)
KnownCoalesced(f) == memory[f.lane] # 0 /\ memory[f.lane] <= f.at

(* The query: the lane's newest activity that is not newer than this one.  *)
Newest(f) ==
    LET ats == {log[i].at : i \in {j \in DOMAIN log : /\ log[j].type = "activity"
                                                      /\ log[j].lane = f.lane
                                                      /\ log[j].at <= f.at}}
    IN  IF ats = {} THEN 0 ELSE CHOOSE t \in ats : \A u \in ats : u <= t

Observes(w) ==
    /\ call[w].stage = "idle"
    /\ \E f \in Activities : call' = [call EXCEPT ![w] = [@ EXCEPT !.stage = "deciding", !.fact = f]]
    /\ UNCHANGED <<log, memory, projection, reading>>

(* One activity of the window is enough; otherwise the row is inserted.    *)
Settles(w, newest) ==
    call' = [call EXCEPT ![w] = [@ EXCEPT !.newest = 0, !.stage =
        IF call[w].fact.at - newest < Window THEN "recorded" ELSE "inserting"]]

DecidesFromMemory(w) ==
    /\ call[w].stage = "deciding" /\ KnownCoalesced(call[w].fact)
    /\ Settles(w, memory[call[w].fact.lane])
    /\ UNCHANGED <<log, memory, projection, reading>>

(* The query fails, finds no activity, or finds one.                       *)
Probes(w) ==
    /\ call[w].stage = "deciding" /\ ~KnownCoalesced(call[w].fact)
    /\ ~reading.open
    /\ LET newest == Newest(call[w].fact) IN
       \/ call' = [call EXCEPT ![w] = Idle]
       \/ /\ newest = 0
          /\ call' = [call EXCEPT ![w] = [@ EXCEPT !.stage = "inserting"]]
       \/ /\ newest # 0
          /\ call' = [call EXCEPT ![w] = [@ EXCEPT !.stage = "probed", !.newest = newest]]
    /\ UNCHANGED <<log, memory, projection, reading>>

DecidesFromQuery(w) ==
    /\ call[w].stage = "probed"
    /\ memory' = Remembered(call[w].fact.lane, call[w].newest)
    /\ Settles(w, call[w].newest)
    /\ UNCHANGED <<log, projection, reading>>

(* A defect for Inserts: what did not commit is remembered all the same.   *)
InsertsOrRemembers(w) ==
    /\ call[w].stage = "inserting" /\ ~reading.open
    /\ log' = Append(log, call[w].fact) \/ UNCHANGED log
    /\ Len(log') <= MaxEvents
    /\ call' = [call EXCEPT ![w] = [@ EXCEPT !.stage = "inserted"]]
    /\ UNCHANGED <<memory, projection, reading>>

(* The transaction commits; or it does not, and the caller is told so; or  *)
(* it does, but the file's mode cannot be set afterwards and the caller is *)
(* told of a failure.                                                      *)
Inserts(w) ==
    /\ call[w].stage = "inserting" /\ ~reading.open
    /\ \/ /\ Len(log) < MaxEvents
          /\ log' = Append(log, call[w].fact)
          /\ \/ call' = [call EXCEPT ![w] = [@ EXCEPT !.stage = "inserted"]]
             \/ call' = [call EXCEPT ![w] = Idle]
       \/ UNCHANGED log /\ call' = [call EXCEPT ![w] = Idle]
    /\ UNCHANGED <<memory, projection, reading>>

Remembers(w) ==
    /\ call[w].stage = "inserted"
    /\ memory' = Remembered(call[w].fact.lane, call[w].fact.at)
    /\ call' = [call EXCEPT ![w] = [@ EXCEPT !.stage = "recorded"]]
    /\ UNCHANGED <<log, projection, reading>>

(* RecordActivity returns without an error.                                *)
Returns(w) ==
    /\ call[w].stage = "recorded"
    /\ call' = [call EXCEPT ![w] = Idle]
    /\ UNCHANGED <<log, memory, projection, reading>>

-----------------------------------------------------------------------------
(* Reading.                                                                *)

NotReading == [open |-> FALSE, upTo |-> 0, seq |-> 0, changes |-> <<>>]

Emptied == [seq |-> 0, lanes |-> <<>>]

(* CurrentStates asks for the rows after the last read, under the          *)
(* projection's mutex.                                                     *)
ReadStarts ==
    /\ ~reading.open
    /\ reading' = [open |-> TRUE, upTo |-> Len(log), seq |-> projection.seq, changes |-> <<>>]
    /\ UNCHANGED <<log, memory, projection, call>>

(* The later states take the place of the earlier ones.                    *)
Overlaid(later, earlier) ==
    [l \in DOMAIN later \cup DOMAIN earlier |->
        IF l \in DOMAIN later THEN later[l] ELSE earlier[l]]

(* The lane a row is about: as this read left it, or as the last one did.  *)
Prior(lane) ==
    IF lane \in DOMAIN reading.changes THEN reading.changes[lane]
    ELSE IF lane \in DOMAIN projection.lanes THEN projection.lanes[lane]
    ELSE NewLane

ReadsRow ==
    /\ reading.open /\ reading.seq < reading.upTo
    /\ LET e == log[reading.seq + 1] IN
       reading' = [reading EXCEPT
           !.seq = @ + 1,
           !.changes = Overlaid([l \in {e.lane} |-> ApplyLaneEvent(Prior(l), e)], @)]
    /\ UNCHANGED <<log, memory, projection, call>>

(* The changes and the cursor are published together.                      *)
ReadEnds ==
    /\ reading.open /\ reading.seq = reading.upTo
    /\ projection' = [seq |-> reading.seq, lanes |-> Overlaid(reading.changes, projection.lanes)]
    /\ reading' = NotReading
    /\ UNCHANGED <<log, memory, call>>

(* A defect for ReadFails: the cursor keeps what the read got through.     *)
ReadFailsAhead ==
    /\ reading.open
    /\ projection' = [projection EXCEPT !.seq = reading.seq]
    /\ reading' = NotReading
    /\ UNCHANGED <<log, memory, call>>

(* A row that does not scan, a cursor that breaks, a cancelled caller.     *)
ReadFails ==
    /\ reading.open
    /\ reading' = NotReading
    /\ UNCHANGED <<log, memory, projection, call>>

(* The daemon stops, and another opens the file.                           *)
DaemonRestarts ==
    /\ memory' = [l \in Lanes |-> 0]
    /\ projection' = Emptied
    /\ reading' = NotReading
    /\ call' = [w \in Workers |-> Idle]
    /\ UNCHANGED <<log>>

-----------------------------------------------------------------------------
Init ==
    /\ log = <<>>
    /\ memory = [l \in Lanes |-> 0]
    /\ projection = Emptied
    /\ reading = NotReading
    /\ call = [w \in Workers |-> Idle]

Next ==
    \/ Appends \/ ReadStarts \/ ReadsRow \/ ReadEnds \/ ReadFails \/ DaemonRestarts
    \/ \E w \in Workers : \/ Observes(w) \/ DecidesFromMemory(w) \/ Probes(w)
                          \/ DecidesFromQuery(w) \/ Inserts(w) \/ Remembers(w)
                          \/ Returns(w)

Spec == Init /\ [][Next]_vars

-----------------------------------------------------------------------------
(* Properties.                                                             *)

(* The table holds facts, the cursor stays inside it, and a worker has a   *)
(* fact in hand exactly while it records one.                              *)
TypeOK ==
    /\ \A i \in DOMAIN log : log[i] \in Facts \cup Activities
    /\ Len(log) <= MaxEvents
    /\ memory \in [Lanes -> {0} \cup Times \cup {f.at : f \in Facts}]
    /\ Cardinality({l \in Lanes : memory[l] # 0}) <= EntryLimit
    /\ projection.seq \in 0..Len(log) /\ DOMAIN projection.lanes \subseteq Lanes
    /\ reading.open => reading.seq \in projection.seq..reading.upTo /\ reading.upTo <= Len(log)
    /\ \A w \in Workers : /\ call[w].fact \in Activities \cup {Nothing}
                           /\ call[w].stage = "idle" <=> call[w].fact = Nothing
                           /\ call[w].stage \in {"idle", "deciding", "probed", "inserting",
                                               "inserted", "recorded"}

(* Leaving an activity out never loses it: when its recording returns no   *)
(* error, the table holds one of the same lane, no newer and less than a   *)
(* window older, whatever failed, was forgotten or raced with it (store.go *)
(* coalesced and append).                                                  *)
ActivityNotLost ==
    \A w \in Workers : call[w].stage = "recorded" =>
        LET newest == Newest(call[w].fact) IN newest # 0 /\ call[w].fact.at - newest < Window

(* The projection is the fold of all the rows up to its cursor: a read     *)
(* that failed halfway has published nothing and skipped nothing           *)
(* (current.go CurrentStates and readCurrentChanges).                      *)
ProjectionIsFold ==
    projection.lanes = Fold(SubSeq(log, 1, projection.seq))

(* A lane that a user killed stays closed, out of the recovery plan and    *)
(* unmanaged, and keeps the initiator and the date of its end, whatever is *)
(* appended after it and by whom (fold_events.go applyClosureEvent).       *)
TombstoneIsFinal ==
    [][log' # log => \A l \in Lanes : FoldLane(l, log).killed =>
          LET before == FoldLane(l, log) after == FoldLane(l, log)' IN
          /\ ~after.managed
          /\ \A running \in BOOLEAN : ClassifyLane(after, running) = "closed"
                                     /\ ~InRecoveryPlan(after, running)
          /\ after.initiator = before.initiator
          /\ after.closedAt = before.closedAt /\ before.closedAt # 0]_log

(* What a comment says of the memory: "when the remembered value is not    *)
(* newer than the event being appended, it is that answer: the log only    *)
(* grows, and this process is its writer" (store.go knownCoalesced).       *)
MemoryIsTheQuery ==
    \A w \in Workers : call[w].stage = "deciding" /\ KnownCoalesced(call[w].fact) =>
        memory[call[w].fact.lane] = Newest(call[w].fact)
=============================================================================
