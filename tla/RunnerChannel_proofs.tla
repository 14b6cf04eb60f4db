------------------------ MODULE RunnerChannel_proofs ------------------------
(***************************************************************************)
(* Proofs about the runner's socket, for any number of outputs and dials   *)
(* and any size of outbox and stream: the end of a connection is the last  *)
(* thing its session is told, once, and an exit only if there was one; and *)
(* no output falls between the replay and the live output.                 *)
(***************************************************************************)
EXTENDS RunnerChannel, NumberSets, SequenceTheorems, TLAPS

(* EndIsTold, part by part: a terminal event closes the stream, a stream   *)
(* that was closed still has it, and nobody speaks of an exit that is not. *)
EndsLast == \A i \in DOMAIN stream : stream[i] \in Terminal <=> closed /\ i = Len(stream)
EndInStream == stage \notin {"none", "over"} /\ closed => stream # <<>>
ExitIsTrue == told = "exit" \/ Exit \in Members(stream) \/ Exit \in Members(wire) => ended

LEMMA Parts == EndIsTold <=> EndsLast /\ EndInStream /\ ExitIsTrue
  BY DEF EndIsTold, EndsLast, EndInStream, ExitIsTrue

-----------------------------------------------------------------------------
(* Frames and events.                                                      *)

LEMMA Numbers ==
    /\ Exit \in Nat /\ Done \in Nat /\ Lost \in Nat
    /\ Exit \in 1..Done /\ Done \in 1..Done /\ Exit \in 1..Lost /\ Lost \in 1..Lost
    /\ Exit \notin 1..MaxOutputs /\ Lost \notin 1..MaxOutputs /\ Done \notin 1..MaxOutputs
    /\ Exit # Lost /\ Exit # Done
    /\ 1..MaxOutputs \subseteq 1..Done /\ 1..MaxOutputs \subseteq 1..Lost
  BY LimitAssumption DEF Exit, Done, Lost

Frames == 1..Done
Events == 1..Lost
Numbered == 1..MaxOutputs

LEMMA Empty ==
    <<>> \in Seq(Frames) /\ <<>> \in Seq(Events) /\ <<>> \in Seq(Numbered) /\ Len(<<>>) = 0
  OBVIOUS

LEMMA TailOf ==
    ASSUME NEW S, NEW s \in Seq(S), s # <<>>
    PROVE  /\ Tail(s) \in Seq(S) /\ Head(s) \in S /\ Len(s) \in Nat \ {0}
           /\ Len(Tail(s)) = Len(s) - 1
           /\ \A i \in DOMAIN Tail(s) : i + 1 \in DOMAIN s /\ Tail(s)[i] = s[i + 1]
           /\ 1 \in DOMAIN s /\ Head(s) = s[1]
           /\ Members(Tail(s)) \subseteq Members(s) /\ Head(s) \in Members(s)
<1>1. /\ Tail(s) \in Seq(S) /\ Len(Tail(s)) = Len(s) - 1
      /\ \A i \in 1..Len(s) - 1 : Tail(s)[i] = s[i + 1]
      /\ Len(s) \in Nat /\ Len(s) # 0 /\ DOMAIN s = 1..Len(s)
      /\ DOMAIN Tail(s) = 1..Len(s) - 1
  BY HeadTailProperties, EmptySeq, LenProperties
<1>2. Head(s) = s[1] /\ Head(s) \in S
  BY HeadTailProperties
<1> QED BY <1>1, <1>2 DEF Members

LEMMA AppendTo ==
    ASSUME NEW S, NEW s \in Seq(S), NEW x \in S
    PROVE  /\ Append(s, x) \in Seq(S) /\ Append(s, x) # <<>>
           /\ Len(Append(s, x)) = Len(s) + 1 /\ Len(s) \in Nat
           /\ DOMAIN Append(s, x) = 1..Len(s) + 1 /\ DOMAIN s = 1..Len(s)
           /\ \A i \in 1..Len(s) : Append(s, x)[i] = s[i]
           /\ Append(s, x)[Len(s) + 1] = x
           /\ Members(Append(s, x)) = Members(s) \cup {x}
<1>1. /\ Append(s, x) \in Seq(S) /\ Append(s, x) # <<>>
      /\ Len(Append(s, x)) = Len(s) + 1 /\ Len(s) \in Nat
      /\ DOMAIN Append(s, x) = 1..Len(s) + 1 /\ DOMAIN s = 1..Len(s)
      /\ \A i \in 1..Len(s) : Append(s, x)[i] = s[i]
      /\ Append(s, x)[Len(s) + 1] = x
  BY AppendProperties, LenProperties
<1> QED BY <1>1 DEF Members

LEMMA AppendMembers ==
    ASSUME NEW S, NEW s \in Seq(S), NEW x \in S
    PROVE  Append(s, x) \in Seq(S) /\ Members(Append(s, x)) = Members(s) \cup {x}
  BY AppendTo

(* A broadcast puts its frame at the end of the wire, or closes it with    *)
(* a part of what was there.                                               *)
LEMMA BroadcastSent ==
    ASSUME wire \in Seq(1..Done), cut \in BOOLEAN, NEW frame \in 1..Done, Broadcast(frame)
    PROVE  /\ wire' \in Seq(1..Done) /\ cut' \in BOOLEAN
           /\ Members(wire') \subseteq Members(wire) \cup {frame}
<1>1. CASE wire' = Append(wire, frame) /\ UNCHANGED cut
  <2>1. wire \in Seq(Frames) /\ frame \in Frames
    BY DEF Frames
  <2>2. Append(wire, frame) \in Seq(Frames)
    BY <2>1
  <2>3. Members(Append(wire, frame)) = Members(wire) \cup {frame}
    BY <2>1, AppendMembers
  <2> QED BY <1>1, <2>2, <2>3 DEF Frames
<1>2. CASE \E n \in 0..Len(wire) : wire' = SubSeq(wire, 1, n) /\ cut' = TRUE
  <2>1. PICK n \in 0..Len(wire) : wire' = SubSeq(wire, 1, n) /\ cut' = TRUE
    BY <1>2
  <2>2. Len(wire) \in Nat /\ DOMAIN wire = 1..Len(wire)
    BY LenProperties
  <2>3. \A i \in 1..n : wire[i] \in 1..Done
    <3>1. \A i \in 1..n : i \in 1..Len(wire)
      BY <2>2
    <3> QED BY <3>1, ElementOfSeq, Zenon
  <2>4. /\ wire' \in Seq(1..Done) /\ DOMAIN wire' = 1..n
        /\ \A i \in 1..n : wire'[i] = wire[i]
    BY <2>1, <2>2, <2>3
  <2> QED BY <2>1, <2>2, <2>4 DEF Members
<1>3. CASE UNCHANGED <<wire, cut>>
  BY <1>3
<1> QED BY <1>1, <1>2, <1>3 DEF Broadcast

(* A replay brings outputs and the end of the replay, no exit.             *)
LEMMA ReplaySent ==
    ASSUME wire \in Seq(1..Done), seq \in 0..MaxOutputs, RunnerReplays
    PROVE  wire' \in Seq(1..Done) /\ Members(wire') \subseteq Members(wire) \cup 1..MaxOutputs \cup {Done}
<1> DEFINE retained == [n \in 1..seq |-> n]
           sent == retained \o <<Done>>
<1>1. retained \in Seq(1..Done) /\ Len(retained) = seq /\ \A i \in 1..seq : retained[i] \in 1..MaxOutputs
  BY Numbers, LimitAssumption
<1>2. <<Done>> \in Seq(1..Done) /\ Len(<<Done>>) = 1 /\ <<Done>>[1] = Done
  BY Numbers
<1> HIDE DEF retained
<1>3. CASE wire' = wire \o retained \o <<Done>>
  <2>1. /\ wire \o retained \in Seq(1..Done) /\ Len(wire \o retained) = Len(wire) + seq
        /\ \A i \in 1..Len(wire) + seq : (wire \o retained)[i] =
               IF i <= Len(wire) THEN wire[i] ELSE retained[i - Len(wire)]
        /\ Len(wire) \in Nat /\ DOMAIN wire = 1..Len(wire)
    BY <1>1, ConcatProperties, LenProperties
  <2>2. /\ wire' \in Seq(1..Done) /\ Len(wire') = Len(wire) + seq + 1
        /\ \A i \in 1..Len(wire) + seq + 1 : wire'[i] =
               IF i <= Len(wire) + seq THEN (wire \o retained)[i] ELSE Done
        /\ DOMAIN wire' = 1..Len(wire) + seq + 1
    BY <1>2, <1>3, <2>1, ConcatProperties, LenProperties
  <2>3. \A i \in DOMAIN wire' : wire'[i] \in Members(wire) \cup 1..MaxOutputs \cup {Done}
    <3> SUFFICES ASSUME NEW i \in DOMAIN wire'
                 PROVE  wire'[i] \in Members(wire) \cup 1..MaxOutputs \cup {Done}
      OBVIOUS
    <3>1. CASE i <= Len(wire)
      BY <2>1, <2>2, <3>1 DEF Members
    <3>2. CASE i > Len(wire) /\ i <= Len(wire) + seq
      <4>1. i - Len(wire) \in 1..seq
        BY <2>1, <2>2, <3>2
      <4> QED BY <1>1, <2>1, <2>2, <3>2, <4>1
    <3>3. CASE i > Len(wire) + seq
      BY <2>1, <2>2, <3>3
    <3> QED BY <2>1, <2>2, <3>1, <3>2, <3>3
  <2> QED BY <2>2, <2>3 DEF Members
<1>4. CASE wire' = wire
  BY <1>4
<1> QED BY <1>3, <1>4 DEF RunnerReplays, retained

-----------------------------------------------------------------------------
(* TypeOK, actor by actor.                                                 *)
RunnerType ==
    /\ seq \in 0..MaxOutputs /\ ended \in BOOLEAN /\ gone \in BOOLEAN
    /\ clients \subseteq 1..dial /\ owed \in Nat
    /\ idle \in {"nil", "ticking", "fired"} /\ stray \in Nat
    /\ calls \in Nat /\ leaving \in BOOLEAN

LinkType ==
    /\ dial \in 0..MaxDials /\ wire \in Seq(Frames) /\ cut \in BOOLEAN /\ asked \in BOOLEAN

ReaderType ==
    /\ closed \in BOOLEAN /\ current \in 0..MaxOutputs
    /\ replay \in {"none", "open", "done"} /\ replayed \in Seq(Numbered)
    /\ stream \in Seq(Events) /\ Len(stream) <= Slots
    /\ dropped \in BOOLEAN /\ short \in BOOLEAN

SessionType ==
    /\ stage \in {"none", "subscribed", "replaying", "replayed", "running", "over"}
    /\ outputs \in Seq(Numbered) /\ nextSeq \in 1..MaxOutputs + 1
    /\ told \in {"nothing", "exit", "lost"}

ChannelInv ==
    /\ RunnerType /\ LinkType /\ ReaderType /\ SessionType
    /\ EndsLast /\ EndInStream /\ ExitIsTrue

LEMMA Types == TypeOK <=> RunnerType /\ LinkType /\ ReaderType /\ SessionType
  BY DEF TypeOK, RunnerType, LinkType, ReaderType, SessionType, Frames, Events, Numbered

LEMMA Kept ==
    /\ RunnerType /\ UNCHANGED runnerVars /\ UNCHANGED dial => RunnerType'
    /\ LinkType /\ UNCHANGED linkVars => LinkType'
    /\ ReaderType /\ UNCHANGED readerVars => ReaderType'
    /\ SessionType /\ UNCHANGED sessionVars => SessionType'
    /\ EndsLast /\ UNCHANGED <<stream, closed>> => EndsLast'
    /\ EndInStream /\ UNCHANGED <<stream, closed, stage>> => EndInStream'
    /\ ExitIsTrue /\ UNCHANGED <<told, stream, wire, ended>> => ExitIsTrue'
  BY DEF RunnerType, LinkType, ReaderType, SessionType, EndsLast, EndInStream, ExitIsTrue,
         runnerVars, linkVars, readerVars, sessionVars

(* What the runner sends: outputs, ends of replays, and an exit when there *)
(* is one.                                                                 *)
LEMMA Sends ==
    ASSUME ChannelInv, NEW frame \in Frames, Broadcast(frame), frame = Exit => ended',
           ended => ended', UNCHANGED readerVars, UNCHANGED sessionVars,
           RunnerType', UNCHANGED <<dial, asked>>
    PROVE  ChannelInv'
<1>1. /\ wire' \in Seq(Frames) /\ cut' \in BOOLEAN
      /\ Members(wire') \subseteq Members(wire) \cup {frame}
  BY BroadcastSent DEF ChannelInv, LinkType, Frames
<1>2. LinkType'
  BY <1>1 DEF ChannelInv, LinkType
<1>3. ExitIsTrue'
  BY <1>1 DEF ChannelInv, ExitIsTrue, readerVars, sessionVars
<1> QED BY <1>2, <1>3, Kept DEF ChannelInv, readerVars, sessionVars

LEMMA RunnerStep == ChannelInv /\ Runner => ChannelInv'
<1> SUFFICES ASSUME ChannelInv, Runner PROVE ChannelInv'
  OBVIOUS
<1>1. CASE RunnerOutputs
  <2>1. seq + 1 \in Numbered /\ seq + 1 \in Frames /\ seq + 1 # Exit
    BY <1>1, Numbers, LimitAssumption DEF RunnerOutputs, ChannelInv, RunnerType, Numbered, Frames
  <2>2. RunnerType'
    BY <1>1, LimitAssumption DEF RunnerOutputs, ChannelInv, RunnerType
  <2> QED BY <1>1, <2>1, <2>2, Sends DEF RunnerOutputs
<1>2. CASE RunnerEnds
  <2>1. RunnerType'
    BY <1>2 DEF RunnerEnds, ChannelInv, RunnerType
  <2>2. Exit \in Frames
    BY Numbers DEF Frames
  <2> QED BY <1>2, <2>1, <2>2, Sends DEF RunnerEnds
<1>3. CASE RunnerReplays
  <2>1. /\ wire' \in Seq(Frames)
        /\ Members(wire') \subseteq Members(wire) \cup Numbered \cup {Done}
    BY <1>3, ReplaySent DEF ChannelInv, RunnerType, LinkType, Frames, Numbered
  <2>2. LinkType'
    BY <1>3, <2>1 DEF RunnerReplays, ChannelInv, LinkType
  <2>3. ExitIsTrue'
    BY <1>3, <2>1, Numbers
       DEF RunnerReplays, ChannelInv, ExitIsTrue, readerVars, sessionVars, runnerVars, Numbered
  <2> QED BY <1>3, <2>2, <2>3, Kept DEF RunnerReplays, ChannelInv, readerVars, sessionVars
<1>4. CASE RunnerRemoves
  <2>1. RunnerType' /\ LinkType'
    BY <1>4 DEF RunnerRemoves, ChannelInv, RunnerType, LinkType
  <2> QED BY <1>4, <2>1, Kept DEF RunnerRemoves, ChannelInv, readerVars, sessionVars
<1> QED BY <1>1, <1>2, <1>3, <1>4 DEF Runner

LEMMA GraceStep == ChannelInv /\ Grace => ChannelInv'
<1> SUFFICES ASSUME ChannelInv, Grace PROVE ChannelInv'
  OBVIOUS
<1>1. UNCHANGED readerVars /\ UNCHANGED sessionVars /\ UNCHANGED <<dial, wire, asked, ended>>
  BY DEF Grace, Schedule, TimerFires, TimerDecides, RunnerLeaves, linkVars
<1>2. RunnerType' /\ cut' \in BOOLEAN
  <2>1. CASE Schedule
    BY <2>1 DEF Schedule, ChannelInv, RunnerType, LinkType, linkVars
  <2>2. CASE TimerFires
    BY <2>2 DEF TimerFires, ChannelInv, RunnerType, LinkType, linkVars
  <2>3. CASE TimerDecides
    <3>1. leaving' \in BOOLEAN
      BY <2>3 DEF TimerDecides, ChannelInv, RunnerType
    <3> QED BY <2>3, <3>1 DEF TimerDecides, ChannelInv, RunnerType, LinkType, linkVars
  <2>4. CASE RunnerLeaves
    BY <2>4 DEF RunnerLeaves, ChannelInv, RunnerType, LinkType
  <2> QED BY <2>1, <2>2, <2>3, <2>4 DEF Grace
<1>3. LinkType'
  BY <1>1, <1>2 DEF ChannelInv, LinkType
<1> QED BY <1>1, <1>2, <1>3, Kept DEF ChannelInv, readerVars, sessionVars

LEMMA DialStep == ChannelInv /\ Dials => ChannelInv'
<1> SUFFICES ASSUME ChannelInv, Dials PROVE ChannelInv'
  OBVIOUS
<1>1. dial \in Nat /\ dial' = dial + 1 /\ dial' \in 0..MaxDials
  BY LimitAssumption DEF Dials, ChannelInv, LinkType
<1>2. RunnerType'
  <2>1. clients' \subseteq 1..dial'
    BY <1>1 DEF Dials, ChannelInv, RunnerType
  <2> QED BY <2>1 DEF Dials, CancelIdle, ChannelInv, RunnerType
<1>3. SessionType'
  BY LimitAssumption DEF Dials, SessionType
<1>4. LinkType'
  <2>1. <<Exit>> \in Seq(Frames) /\ <<>> \in Seq(Frames)
    BY Numbers DEF Frames
  <2>2. wire' \in {<<>>, <<Exit>>}
    BY DEF Dials
  <2>3. wire' \in Seq(Frames)
    BY <2>1, <2>2
  <2>4. cut' \in BOOLEAN /\ asked' \in BOOLEAN
    BY DEF Dials
  <2> QED BY <1>1, <2>3, <2>4 DEF LinkType
<1>5. ReaderType'
  <2>1. current' \in 0..MaxOutputs
    BY DEF Dials, ChannelInv, RunnerType
  <2>2. /\ closed' = FALSE /\ replay' = "none" /\ replayed' = <<>> /\ stream' = <<>>
        /\ dropped' = FALSE /\ short' = FALSE
    BY DEF Dials
  <2>3. replayed' \in Seq(Numbered) /\ stream' \in Seq(Events)
    BY <2>2, Empty
  <2>4. Len(stream') <= Slots
    BY <2>2, LimitAssumption
  <2> QED BY <2>1, <2>2, <2>3, <2>4 DEF ReaderType
<1>6. EndsLast' /\ EndInStream'
  BY DEF Dials, EndsLast, EndInStream
<1>7. ExitIsTrue'
  <2>1. wire' = <<>> \/ ended'
    BY DEF Dials
  <2> QED BY <2>1 DEF Dials, ExitIsTrue, Members
<1> QED BY <1>2, <1>3, <1>4, <1>5, <1>6, <1>7 DEF ChannelInv

-----------------------------------------------------------------------------
(* The daemon's side.                                                      *)

(* The highest of what a replay brought and the current number is one of   *)
(* them.                                                                   *)
LEMMA HighestKnown ==
    ASSUME ReaderType
    PROVE  Highest(Members(replayed) \cup {current}) \in 0..MaxOutputs
<1> DEFINE S == Members(replayed) \cup {current}
<1>1. S \subseteq 0..MaxOutputs
  BY LimitAssumption, ElementOfSeq DEF ReaderType, Members, Numbered
<1>2. IsFiniteSet(0..MaxOutputs)
  BY LimitAssumption, FS_Interval
<1>3. IsFiniteSet(S)
  BY <1>1, <1>2, FS_Subset
<1>4. S # {} /\ S \subseteq Nat
  BY <1>1, LimitAssumption
<1> HIDE DEF S
<1>5. \E m \in S : \A k \in S : k <= m
  BY <1>3, <1>4, Greatest
<1>6. Highest(S) \in S
  BY <1>5 DEF Highest
<1> QED BY <1>1, <1>6 DEF S

LEMMA AttachStep == ChannelInv /\ Attach => ChannelInv'
<1> SUFFICES ASSUME ChannelInv, Attach PROVE ChannelInv'
  OBVIOUS
<1>1. UNCHANGED runnerVars /\ UNCHANGED <<dial, wire, cut, closed, current, stream, dropped, told>>
  BY DEF Attach, AsksReplay, GivesUpReplay, TakesReplay, Starts, linkVars, readerVars, sessionVars
<1>2. EndsLast' /\ ExitIsTrue'
  BY <1>1, Kept DEF ChannelInv, runnerVars
<1>3. EndInStream'
  <2>1. stage \notin {"none", "over"}
    BY DEF Attach, AsksReplay, GivesUpReplay, TakesReplay, Starts
  <2> QED BY <1>1, <2>1 DEF ChannelInv, EndInStream
<1>4. RunnerType' /\ LinkType'
  <2>1. asked' \in BOOLEAN
    BY DEF Attach, AsksReplay, GivesUpReplay, TakesReplay, Starts, ChannelInv, LinkType, linkVars
  <2> QED BY <1>1, <2>1, Kept DEF ChannelInv, LinkType
<1>5. ReaderType' /\ SessionType'
  <2>1. CASE AsksReplay
    BY <1>1, <2>1 DEF AsksReplay, ChannelInv, ReaderType, SessionType
  <2>2. CASE GivesUpReplay
    BY <1>1, <2>2 DEF GivesUpReplay, ChannelInv, ReaderType, SessionType, sessionVars
  <2>3. CASE TakesReplay
    <3>1. replayed' \in Seq(Numbered)
      BY <2>3 DEF TakesReplay
    <3>2. nextSeq' \in 1..MaxOutputs + 1
      <4>1. Highest(Members(replayed) \cup {current}) \in 0..MaxOutputs
        BY HighestKnown DEF ChannelInv
      <4> QED BY <2>3, <4>1, LimitAssumption DEF TakesReplay
    <3>3. ReaderType'
      BY <1>1, <2>3, <3>1 DEF TakesReplay, ChannelInv, ReaderType
    <3>4. outputs' \in Seq(Numbered) /\ stage' = "replayed" /\ UNCHANGED told
      BY <2>3 DEF TakesReplay, ChannelInv, ReaderType
    <3> QED BY <3>2, <3>3, <3>4 DEF ChannelInv, SessionType
  <2>4. CASE Starts
    BY <1>1, <2>4 DEF Starts, ChannelInv, ReaderType, SessionType, readerVars
  <2> QED BY <2>1, <2>2, <2>3, <2>4 DEF Attach
<1> QED BY <1>2, <1>3, <1>4, <1>5 DEF ChannelInv

(* The reader's last event is the last one in the stream, however full     *)
(* that was.                                                               *)
LEMMA StopsLast ==
    ASSUME ReaderType, EndsLast, ~closed, NEW event \in Terminal, Stops(event)
    PROVE  /\ closed' /\ stream' \in Seq(Events) /\ Len(stream') <= Slots /\ stream' # <<>>
           /\ EndsLast' /\ Members(stream') \subseteq Members(stream) \cup {event}
<1>0. Slots \in Nat \ {0} /\ stream \in Seq(Events) /\ Len(stream) <= Slots /\ Len(stream) \in Nat
  BY LimitAssumption, LenProperties DEF ReaderType
<1>1. event \in Events
  BY Numbers DEF Terminal, Events
<1>2. PICK rest : /\ rest = IF Len(stream) < Slots THEN stream ELSE Tail(stream)
                  /\ stream' = Append(rest, event)
  BY DEF Stops, WithTerminal
<1>3. closed' = TRUE
  BY DEF Stops
<1>4. \A i \in DOMAIN stream : stream[i] \notin Terminal
  BY DEF EndsLast
<1>5. /\ rest \in Seq(Events) /\ Len(rest) < Slots /\ Members(rest) \subseteq Members(stream)
      /\ \A i \in DOMAIN rest : rest[i] \notin Terminal
  <2>1. CASE Len(stream) < Slots
    BY <1>0, <1>2, <1>4, <2>1
  <2>2. CASE ~(Len(stream) < Slots)
    <3>1. stream # <<>>
      BY <1>0, <2>2
    <3>2. /\ Tail(stream) \in Seq(Events) /\ Len(Tail(stream)) = Len(stream) - 1
          /\ Members(Tail(stream)) \subseteq Members(stream)
          /\ \A i \in DOMAIN Tail(stream) :
                i + 1 \in DOMAIN stream /\ Tail(stream)[i] = stream[i + 1]
      BY <1>0, <3>1, TailOf
    <3> QED BY <1>0, <1>2, <1>4, <2>2, <3>2
  <2> QED BY <2>1, <2>2
<1>6. /\ stream' = Append(rest, event)
      /\ stream' \in Seq(Events) /\ stream' # <<>>
      /\ Len(stream') = Len(rest) + 1 /\ Len(rest) \in Nat
      /\ DOMAIN stream' = 1..Len(rest) + 1 /\ DOMAIN rest = 1..Len(rest)
      /\ \A i \in 1..Len(rest) : stream'[i] = rest[i]
      /\ stream'[Len(rest) + 1] = event
      /\ Members(stream') = Members(rest) \cup {event}
  <2>1. rest \in Seq(Events)
    BY <1>5
  <2>2. /\ Append(rest, event) \in Seq(Events) /\ Append(rest, event) # <<>>
        /\ Len(Append(rest, event)) = Len(rest) + 1 /\ Len(rest) \in Nat
        /\ DOMAIN Append(rest, event) = 1..Len(rest) + 1 /\ DOMAIN rest = 1..Len(rest)
        /\ \A i \in 1..Len(rest) : Append(rest, event)[i] = rest[i]
        /\ Append(rest, event)[Len(rest) + 1] = event
        /\ Members(Append(rest, event)) = Members(rest) \cup {event}
    BY <1>1, <2>1, AppendTo
  <2> QED BY <1>2, <2>2
<1>7. EndsLast'
  BY <1>3, <1>5, <1>6 DEF EndsLast
<1> QED BY <1>0, <1>3, <1>5, <1>6, <1>7

LEMMA StopStep ==
    ASSUME ChannelInv, NEW event \in Terminal, ~closed, Stops(event), event = Exit => ended,
           wire' = <<>>, current' \in 0..MaxOutputs, cut' \in BOOLEAN,
           UNCHANGED <<replayed, dial, asked>>, UNCHANGED runnerVars, UNCHANGED sessionVars
    PROVE  ChannelInv'
<1>1. /\ closed' /\ stream' \in Seq(Events) /\ Len(stream') <= Slots /\ stream' # <<>>
      /\ EndsLast' /\ Members(stream') \subseteq Members(stream) \cup {event}
  BY StopsLast DEF ChannelInv
<1>2. ReaderType'
  <2>1. closed' \in BOOLEAN /\ dropped' \in BOOLEAN /\ short' \in BOOLEAN
        /\ replay' \in {"none", "open", "done"}
    BY DEF Stops, AfterDone, ChannelInv, ReaderType
  <2>2. replayed' \in Seq(Numbered)
    BY DEF ChannelInv, ReaderType
  <2> QED BY <1>1, <2>1, <2>2 DEF ReaderType
<1>3. LinkType'
  <2>1. wire' \in Seq(Frames)
    OBVIOUS
  <2> QED BY <2>1 DEF ChannelInv, LinkType
<1>4. EndInStream'
  BY <1>1 DEF EndInStream
<1>5. ExitIsTrue'
  <2>1. Members(wire') = {}
    BY DEF Members
  <2> QED BY <1>1, <2>1 DEF ChannelInv, ExitIsTrue, runnerVars, sessionVars
<1> QED BY <1>1, <1>2, <1>3, <1>4, <1>5, Kept DEF ChannelInv

LEMMA ReaderStep == ChannelInv /\ (Reader \/ Breaks) => ChannelInv'
<1> SUFFICES ASSUME ChannelInv, Reader \/ Breaks PROVE ChannelInv'
  OBVIOUS
<1>0. ASSUME wire # <<>>
      PROVE  /\ Tail(wire) \in Seq(Frames) /\ Members(Tail(wire)) \subseteq Members(wire)
             /\ Head(wire) \in Members(wire)
  BY <1>0, TailOf DEF ChannelInv, LinkType
<1>1. CASE ReadsOutput
  <2>1. wire' \in Seq(Frames) /\ Members(wire') \subseteq Members(wire)
        /\ Head(wire) \in Numbered
    BY <1>0, <1>1 DEF ReadsOutput, Reading, Numbered
  <2>2. Head(wire) \in Events /\ Head(wire) \notin Terminal
    BY <2>1, Numbers DEF Numbered, Events, Terminal
  <2>3. replayed' \in Seq(Numbered)
    BY <1>1, <2>1 DEF ReadsOutput, ChannelInv, ReaderType
  <2>4. /\ stream' \in Seq(Events) /\ Len(stream') <= Slots
        /\ Members(stream') \subseteq Members(stream) \cup {Head(wire)} /\ EndsLast'
        /\ dropped' \in BOOLEAN
    <3>1. CASE Len(stream) < Slots
      <4>1. stream' = Append(stream, Head(wire)) /\ stream \in Seq(Events) /\ dropped' = dropped
            /\ ~closed /\ ~closed'
        BY <1>1, <3>1 DEF ReadsOutput, Reading, ChannelInv, ReaderType
      <4>2. /\ stream' \in Seq(Events) /\ Len(stream') = Len(stream) + 1 /\ Len(stream) \in Nat
            /\ DOMAIN stream' = 1..Len(stream) + 1 /\ DOMAIN stream = 1..Len(stream)
            /\ \A i \in 1..Len(stream) : stream'[i] = stream[i]
            /\ stream'[Len(stream) + 1] = Head(wire)
            /\ Members(stream') = Members(stream) \cup {Head(wire)}
        BY <2>2, <4>1, AppendTo
      <4>3. EndsLast'
        BY <2>2, <4>1, <4>2 DEF EndsLast, ChannelInv
      <4> QED BY <3>1, <4>1, <4>2, <4>3, LimitAssumption DEF ChannelInv, ReaderType
    <3>2. CASE ~(Len(stream) < Slots)
      BY <1>1, <3>2, Kept DEF ReadsOutput, ChannelInv, ReaderType
    <3> QED BY <3>1, <3>2
  <2>5. ReaderType'
    <3>1. current' \in 0..MaxOutputs
      BY <1>1, <2>1, LimitAssumption DEF ReadsOutput, Numbered
    <3> QED BY <1>1, <2>3, <2>4, <3>1 DEF ReadsOutput, ChannelInv, ReaderType
  <2>6. LinkType'
    BY <1>1, <2>1 DEF ReadsOutput, ChannelInv, LinkType
  <2>7. EndInStream'
    BY <1>1 DEF ReadsOutput, Reading, EndInStream
  <2>8. ExitIsTrue'
    <3>1. Head(wire) # Exit
      BY <2>1, Numbers DEF Numbered
    <3> QED BY <1>1, <2>1, <2>4, <3>1
         DEF ReadsOutput, ChannelInv, ExitIsTrue, runnerVars, sessionVars
  <2>9. RunnerType' /\ SessionType'
    BY <1>1, Kept DEF ReadsOutput, ChannelInv
  <2> QED BY <2>4, <2>5, <2>6, <2>7, <2>8, <2>9 DEF ChannelInv
<1>2. CASE ReadsDone
  <2>1. wire' \in Seq(Frames) /\ Members(wire') \subseteq Members(wire)
    BY <1>0, <1>2 DEF ReadsDone, Reading
  <2>2. LinkType' /\ ReaderType'
    BY <1>2, <2>1 DEF ReadsDone, AfterDone, ChannelInv, LinkType, ReaderType
  <2>3. ExitIsTrue'
    BY <1>2, <2>1 DEF ReadsDone, ChannelInv, ExitIsTrue, runnerVars, sessionVars
  <2> QED BY <1>2, <2>2, <2>3, Kept DEF ReadsDone, ChannelInv, sessionVars
<1>3. CASE ReadsExit
  <2>1. Exit \in Members(wire) /\ ~closed
    BY <1>0, <1>3 DEF ReadsExit, Reading
  <2>2. ended
    BY <2>1 DEF ChannelInv, ExitIsTrue
  <2>3. current' \in 0..MaxOutputs /\ cut' \in BOOLEAN
    BY <1>3 DEF ReadsExit, ChannelInv, RunnerType, LinkType
  <2>4. Exit \in Terminal
    BY DEF Terminal
  <2> QED BY <1>3, <2>1, <2>2, <2>3, <2>4, StopStep DEF ReadsExit
<1>4. CASE Breaks
  <2>1. current' \in 0..MaxOutputs /\ cut' \in BOOLEAN
    BY <1>4 DEF Breaks, ChannelInv, ReaderType
  <2>2. Lost \in Terminal /\ Lost # Exit
    BY Numbers DEF Terminal
  <2> QED BY <1>4, <2>1, <2>2, StopStep DEF Breaks
<1> QED BY <1>1, <1>2, <1>3, <1>4 DEF Reader

LEMMA PumpStep == ChannelInv /\ Pump => ChannelInv'
<1> SUFFICES ASSUME ChannelInv, Pump PROVE ChannelInv'
  OBVIOUS
<1>1. /\ stage = "running" /\ stream # <<>> /\ stream' = Tail(stream)
      /\ UNCHANGED <<closed, current, replay, replayed, dropped, short>>
      /\ UNCHANGED runnerVars /\ UNCHANGED linkVars
  BY DEF Pump, PumpsOutput, PumpsEnd
<1>2. /\ stream' \in Seq(Events) /\ Len(stream) \in Nat \ {0}
      /\ Len(stream') = Len(stream) - 1
      /\ \A i \in DOMAIN stream' : i + 1 \in DOMAIN stream /\ stream'[i] = stream[i + 1]
      /\ 1 \in DOMAIN stream /\ Head(stream) = stream[1]
      /\ Members(stream') \subseteq Members(stream) /\ Head(stream) \in Members(stream)
  BY <1>1, TailOf DEF ChannelInv, ReaderType
<1>3. ReaderType'
  BY <1>1, <1>2, LimitAssumption DEF ChannelInv, ReaderType
<1>4. EndsLast'
  <2> SUFFICES ASSUME NEW i \in DOMAIN stream'
               PROVE  stream'[i] \in Terminal <=> closed /\ i = Len(stream')
    BY <1>1 DEF EndsLast
  <2>1. stream[i + 1] \in Terminal <=> closed /\ i + 1 = Len(stream)
    BY <1>2 DEF ChannelInv, EndsLast
  <2>2. i \in Nat
    BY <1>2, LenProperties
  <2> QED BY <1>2, <2>1, <2>2
<1>5. RunnerType' /\ LinkType'
  BY <1>1, Kept DEF ChannelInv, linkVars
<1>6. CASE PumpsOutput
  <2>1. Head(stream) \in Numbered /\ Head(stream) \notin Terminal
    BY <1>6, Numbers DEF PumpsOutput, Numbered, Terminal
  <2>2. SessionType'
    <3>1. outputs' \in Seq(Numbered)
      <4>1. outputs \in Seq(Numbered)
        BY DEF ChannelInv, SessionType
      <4>2. Append(outputs, Head(stream)) \in Seq(Numbered)
        BY <2>1, <4>1
      <4>3. outputs' = outputs \/ outputs' = Append(outputs, Head(stream))
        BY <1>6 DEF PumpsOutput
      <4> QED BY <4>1, <4>2, <4>3
    <3>2. nextSeq' \in 1..MaxOutputs + 1
      BY <1>6, <2>1, LimitAssumption DEF PumpsOutput, ChannelInv, SessionType, Numbered
    <3> QED BY <1>6, <3>1, <3>2 DEF PumpsOutput, ChannelInv, SessionType
  <2>3. EndInStream'
    <3>1. closed => Len(stream) # 1
      BY <1>2, <2>1 DEF ChannelInv, EndsLast
    <3>2. closed' => Len(stream') # 0
      BY <1>1, <1>2, <3>1
    <3> QED BY <3>2 DEF EndInStream
  <2>4. ExitIsTrue'
    BY <1>1, <1>2, <1>6 DEF PumpsOutput, ChannelInv, ExitIsTrue, runnerVars, linkVars
  <2> QED BY <1>3, <1>4, <1>5, <2>2, <2>3, <2>4 DEF ChannelInv
<1>7. CASE PumpsEnd
  <2>1. SessionType' /\ EndInStream'
    BY <1>7 DEF PumpsEnd, ChannelInv, SessionType, EndInStream
  <2>2. told' = "exit" => ended
    BY <1>2, <1>7 DEF PumpsEnd, ChannelInv, ExitIsTrue
  <2>3. ExitIsTrue'
    BY <1>1, <1>2, <2>2 DEF ChannelInv, ExitIsTrue, runnerVars, linkVars
  <2> QED BY <1>3, <1>4, <1>5, <2>1, <2>3 DEF ChannelInv
<1> QED BY <1>6, <1>7 DEF Pump

LEMMA RestartStep == ChannelInv /\ DaemonRestarts => ChannelInv'
<1> SUFFICES ASSUME ChannelInv, DaemonRestarts PROVE ChannelInv'
  OBVIOUS
<1>1. LinkType' /\ SessionType'
  BY LimitAssumption DEF DaemonRestarts, ChannelInv, LinkType, SessionType
<1>2. ReaderType'
  BY LimitAssumption DEF DaemonRestarts, ChannelInv, ReaderType
<1>3. EndsLast' /\ EndInStream' /\ ExitIsTrue'
  BY DEF DaemonRestarts, EndsLast, EndInStream, ExitIsTrue, Members
<1> QED BY <1>1, <1>2, <1>3, Kept DEF DaemonRestarts, ChannelInv

-----------------------------------------------------------------------------
LEMMA ChannelInit == Init => ChannelInv
<1> SUFFICES ASSUME Init PROVE ChannelInv
  OBVIOUS
<1>1. RunnerType /\ LinkType
  <2>1. wire \in Seq(Frames)
    BY Empty DEF Init
  <2>2. 0 \in 0..MaxOutputs /\ 0 \in 0..MaxDials
    BY LimitAssumption
  <2> QED BY <2>1, <2>2 DEF Init, RunnerType, LinkType
<1>2. ReaderType /\ SessionType
  <2>1. replayed \in Seq(Numbered) /\ stream \in Seq(Events) /\ outputs \in Seq(Numbered)
    BY Empty DEF Init
  <2>2. Len(stream) <= Slots
    BY Empty, LimitAssumption DEF Init
  <2>3. 0 \in 0..MaxOutputs /\ 1 \in 1..MaxOutputs + 1
    BY LimitAssumption
  <2> QED BY <2>1, <2>2, <2>3 DEF Init, ReaderType, SessionType
<1>3. EndsLast /\ EndInStream /\ ExitIsTrue
  BY DEF Init, EndsLast, EndInStream, ExitIsTrue, Members
<1> QED BY <1>1, <1>2, <1>3 DEF ChannelInv

LEMMA ChannelStep == ChannelInv /\ [Next]_vars => ChannelInv'
<1>1. ChannelInv /\ UNCHANGED vars => ChannelInv'
  BY Kept DEF ChannelInv, vars, runnerVars, linkVars, readerVars, sessionVars
<1> QED BY <1>1, RunnerStep, GraceStep, DialStep, AttachStep, ReaderStep, PumpStep, RestartStep
        DEF Next

(* The types, and how the end of a connection reaches its session, hold in *)
(* every behaviour (client.go readLoop, closeWithLoss).                     *)
THEOREM ChannelInvariant == Spec => []ChannelInv
  BY ChannelInit, ChannelStep, PTL DEF Spec

(* Every variable has its type: no stream ever holds more than its slots,  *)
(* the terminal event of a full one included, and no session expects an    *)
(* output beyond the next (client.go stopReader, session.go newSession).   *)
THEOREM ChannelTypeCorrect == Spec => []TypeOK
<1>1. ChannelInv => TypeOK
  BY Types DEF ChannelInv
<1> QED BY <1>1, ChannelInvariant, PTL

(* A session whose connection is over is told so once and last, however    *)
(* full its stream was, and of an exit only if the runner's child has      *)
(* ended (client.go readLoop, runner.go broadcast).                        *)
THEOREM EndIsToldAlways == Spec => []EndIsTold
<1>1. ChannelInv => EndIsTold
  BY Parts DEF ChannelInv
<1> QED BY <1>1, ChannelInvariant, PTL
-----------------------------------------------------------------------------
(* No hole: what the session has, what its stream and the request hold and *)
(* what is on the wire are, put together, everything the runner said.      *)

(* What the wire holds from place d on continues the outputs up to n, and  *)
(* ends with the exit; an uncut wire ends with the last there is.          *)
Latest == IF ended THEN seq + 1 ELSE seq

Live(d, n) ==
    /\ \A i \in d + 1..Len(wire) : /\ n + (i - d) <= Latest
                                   /\ wire[i] = IF n + (i - d) <= seq THEN n + (i - d) ELSE Exit
    /\ ~cut => n + (Len(wire) - d) = Latest

(* What was read so far is not above n.                                    *)
Below(n) ==
    /\ \A i \in DOMAIN stream : stream[i] \in Terminal \/ stream[i] <= n
    /\ \A m \in Members(replayed) : m <= n

(* The runner has not replayed: live output only, unless the wire is cut.  *)
BeforeReplay ==
    /\ Done \notin Members(wire)
    /\ ~cut => /\ asked \/ stage = "subscribed"
               /\ Live(0, current) /\ Below(current)

(* The exit comes before the end of the replay, which will not be read.    *)
ExitComesFirst ==
    \E i \in 1..Len(wire) : wire[i] = Exit /\ \A j \in 1..i : wire[j] # Done

(* The end of the replay of r outputs is at place d; what is ahead of it   *)
(* is the rest of the replay and the live output from before it.           *)
ReplayOnWire(d, r) ==
    /\ wire[d] = Done /\ Live(d, r) /\ Below(r) /\ current <= r
    /\ \A i \in 1..d - 1 : IF i + r >= d THEN wire[i] + d = i + r + 1 ELSE wire[i] \in 1..r
    /\ d <= r => current + d = r + 1
    /\ \A m \in 1..r : m + d <= r + 1 => m \in Members(replayed)

Replaying == \E d \in 1..Len(wire), r \in 0..seq : ReplayOnWire(d, r)

UnderReplay ==
    \/ BeforeReplay
    \/ ExitComesFirst
    \/ ~asked /\ replay = "open" /\ Replaying

(* The replay is complete; live output follows.                            *)
Complete == Members(replayed) = 1..current /\ Below(current)

(* The session has the outputs up to nextSeq, and the stream the others,   *)
(* in their order.                                                         *)
Attached ==
    /\ Members(outputs) = 1..nextSeq - 1 /\ nextSeq - 1 <= current
    /\ nextSeq..current \subseteq Members(stream)
    /\ \A i, j \in DOMAIN stream : i < j /\ stream[i] >= nextSeq => stream[i] < stream[j]
    /\ \A i \in DOMAIN stream : stream[i] \in Terminal \/ stream[i] <= current

(* Nothing was lost of the stream, nor of the replay.                      *)
Whole == ~short /\ ~dropped /\ stage \notin {"none", "over"}

(* Where the daemon is with the replay, and what was asked for.            *)
Phased ==
    /\ stage = "subscribed" => replay = "none" /\ replayed = <<>>
    /\ stage = "replaying" => replay \in {"open", "done"}
    /\ stage \in {"replayed", "running"} => replay = "none"
    /\ asked => replay = "open"
    /\ replay = "open" => ~closed

(* What is there of the outputs in each phase.                             *)
Accounted ==
    /\ (stage = "subscribed" \/ replay = "open") /\ ~closed => UnderReplay
    /\ replay = "done" => Complete
    /\ (replay = "done" \/ stage \in {"replayed", "running"}) /\ ~closed => Live(0, current)
    /\ stage \in {"replayed", "running"} => Attached

(* A connection that stands is served, and nobody hears of an output that  *)
(* the provider has not made.                                              *)
Served == ~cut => dial \in clients
Heard == current <= seq /\ \A i \in DOMAIN wire : wire[i] \in Numbered => wire[i] <= seq

HoleInv == Served /\ Heard /\ (Whole => Phased /\ Accounted)

LEMMA LinkFacts ==
    ASSUME ChannelInv
    PROVE  /\ wire \in Seq(Frames) /\ Len(wire) \in Nat /\ DOMAIN wire = 1..Len(wire)
           /\ \A i \in 1..Len(wire) : wire[i] \in Frames
           /\ seq \in Nat /\ seq <= MaxOutputs /\ current \in Nat /\ current <= MaxOutputs
           /\ ended \in BOOLEAN /\ cut \in BOOLEAN /\ closed \in BOOLEAN /\ asked \in BOOLEAN
           /\ MaxOutputs \in Nat /\ Frames = 1..MaxOutputs + 2 /\ Numbered = 1..MaxOutputs
           /\ Exit = MaxOutputs + 1 /\ Done = MaxOutputs + 2 /\ Lost = MaxOutputs + 3
           /\ Frames \subseteq Nat
<1>1. wire \in Seq(Frames) /\ Len(wire) \in Nat /\ DOMAIN wire = 1..Len(wire)
  BY LenProperties DEF ChannelInv, LinkType
<1>2. \A i \in 1..Len(wire) : wire[i] \in Frames
  BY <1>1, ElementOfSeq
<1> QED BY <1>1, <1>2, LimitAssumption
        DEF ChannelInv, RunnerType, LinkType, ReaderType, Exit, Done, Lost, Frames, Numbered

LEMMA StreamFacts ==
    ASSUME ChannelInv
    PROVE  /\ stream \in Seq(Events) /\ Len(stream) \in Nat /\ DOMAIN stream = 1..Len(stream)
           /\ \A i \in 1..Len(stream) : stream[i] \in Events
           /\ replayed \in Seq(Numbered) /\ Members(replayed) \subseteq Numbered
           /\ nextSeq \in Nat \ {0} /\ Events = 1..MaxOutputs + 3 /\ Events \subseteq Nat
           /\ Terminal = {MaxOutputs + 1, MaxOutputs + 3}
<1>1. stream \in Seq(Events) /\ Len(stream) \in Nat /\ DOMAIN stream = 1..Len(stream)
  BY LenProperties DEF ChannelInv, ReaderType
<1>2. \A i \in 1..Len(stream) : stream[i] \in Events
  BY <1>1, ElementOfSeq
<1>3. replayed \in Seq(Numbered) /\ Members(replayed) \subseteq Numbered
  BY ElementOfSeq DEF ChannelInv, ReaderType, Members
<1> QED BY <1>1, <1>2, <1>3, LimitAssumption
        DEF ChannelInv, SessionType, Terminal, Exit, Lost, Events

-----------------------------------------------------------------------------
(* The wire grows by what the provider does, or is closed with a part of   *)
(* what it had.                                                            *)
Grown ==
    /\ ~cut /\ ~cut' /\ ~ended /\ Len(wire') = Len(wire) + 1
    /\ \A i \in 1..Len(wire) : wire'[i] = wire[i]
    /\ \/ ended' /\ seq' = seq /\ wire'[Len(wire) + 1] = Exit
       \/ ~ended' /\ seq' = seq + 1 /\ wire'[Len(wire) + 1] = seq + 1

Shortened ==
    /\ cut' /\ Len(wire') \in Nat /\ Len(wire') <= Len(wire)
    /\ \A i \in 1..Len(wire') : wire'[i] = wire[i]
    /\ \/ ended' = ended /\ seq' = seq
       \/ ~ended /\ ~ended' /\ seq' = seq + 1
       \/ ~ended /\ ended' /\ seq' = seq

LEMMA BroadcastCases ==
    ASSUME ChannelInv, Served, NEW frame \in Frames, Broadcast(frame), ~ended,
           \/ frame = Exit /\ ended' /\ seq' = seq
           \/ frame = seq + 1 /\ ~ended' /\ seq' = seq + 1
    PROVE  Grown \/ Shortened
<1>1. CASE cut
  <2>1. wire' = wire /\ cut' = cut
    BY <1>1 DEF Broadcast
  <2>2. Len(wire) \in Nat
    BY LinkFacts
  <2> QED BY <1>1, <2>1, <2>2 DEF Shortened
<1>2. CASE ~cut
  <2>1. dial \in clients
    BY <1>2 DEF Served
  <2>2. CASE wire' = Append(wire, frame) /\ cut' = cut
    <3>1. wire \in Seq(Frames)
      BY LinkFacts
    <3>2. /\ Len(Append(wire, frame)) = Len(wire) + 1
          /\ \A i \in 1..Len(wire) : Append(wire, frame)[i] = wire[i]
          /\ Append(wire, frame)[Len(wire) + 1] = frame
      BY <3>1, AppendTo
    <3> QED BY <1>2, <2>2, <3>2 DEF Grown
  <2>3. CASE \E n \in 0..Len(wire) : wire' = SubSeq(wire, 1, n) /\ cut' = TRUE
    <3>1. PICK n \in 0..Len(wire) : wire' = SubSeq(wire, 1, n) /\ cut' = TRUE
      BY <2>3
    <3>2. Len(wire) \in Nat /\ \A i \in 1..Len(wire) : wire[i] \in Frames
      BY LinkFacts
    <3>3. \A i \in 1..n : wire[i] \in Frames
      BY <3>2
    <3>4. Len(wire') = n /\ \A i \in 1..n : wire'[i] = wire[i]
      BY <3>1, <3>2, <3>3
    <3> QED BY <3>1, <3>2, <3>4 DEF Shortened
  <2> QED BY <1>2, <2>1, <2>2, <2>3 DEF Broadcast
<1> QED BY <1>1, <1>2

(* What continued the outputs continues them still.                        *)
LEMMA LiveKept ==
    ASSUME ChannelInv, ChannelInv', Grown \/ Shortened,
           NEW d \in Nat, NEW n \in Nat, d <= Len(wire), Live(d, n)
    PROVE  Live(d, n)'
<1>0. /\ Len(wire) \in Nat /\ seq \in Nat /\ MaxOutputs \in Nat /\ Exit = MaxOutputs + 1
      /\ ended \in BOOLEAN /\ ended' \in BOOLEAN
  BY LinkFacts DEF ChannelInv, RunnerType
<1>1. CASE Grown
  <2>1. n + (Len(wire) - d) = seq
    BY <1>1 DEF Grown, Live, Latest
  <2>2. \A i \in d + 1..Len(wire) : n + (i - d) <= seq /\ wire[i] = n + (i - d)
    BY <1>0, <1>1 DEF Grown, Live, Latest
  <2>3. \A i \in d + 1..Len(wire') : i \in d + 1..Len(wire) \/ i = Len(wire) + 1
    BY <1>0, <1>1 DEF Grown
  <2>4. CASE ended' /\ seq' = seq /\ wire'[Len(wire) + 1] = Exit
    <3>1. ASSUME NEW i \in d + 1..Len(wire')
          PROVE  /\ n + (i - d) <= Latest'
                 /\ wire'[i] = IF n + (i - d) <= seq' THEN n + (i - d) ELSE Exit
      <4>1. CASE i \in d + 1..Len(wire)
        BY <1>0, <1>1, <2>2, <2>4, <4>1 DEF Grown, Latest
      <4>2. CASE i = Len(wire) + 1
        BY <1>0, <2>1, <2>4, <4>2 DEF Latest
      <4> QED BY <2>3, <4>1, <4>2
    <3>2. n + (Len(wire') - d) = Latest'
      BY <1>0, <1>1, <2>1, <2>4 DEF Grown, Latest
    <3> QED BY <3>1, <3>2 DEF Live
  <2>5. CASE ~ended' /\ seq' = seq + 1 /\ wire'[Len(wire) + 1] = seq + 1
    <3>1. ASSUME NEW i \in d + 1..Len(wire')
          PROVE  /\ n + (i - d) <= Latest'
                 /\ wire'[i] = IF n + (i - d) <= seq' THEN n + (i - d) ELSE Exit
      <4>1. CASE i \in d + 1..Len(wire)
        BY <1>0, <1>1, <2>2, <2>5, <4>1 DEF Grown, Latest
      <4>2. CASE i = Len(wire) + 1
        BY <1>0, <2>1, <2>5, <4>2 DEF Latest
      <4> QED BY <2>3, <4>1, <4>2
    <3>2. n + (Len(wire') - d) = Latest'
      BY <1>0, <1>1, <2>1, <2>5 DEF Grown, Latest
    <3> QED BY <3>1, <3>2 DEF Live
  <2> QED BY <1>1, <2>4, <2>5 DEF Grown
<1>2. CASE Shortened
  <2>1. \A i \in d + 1..Len(wire') : i \in d + 1..Len(wire) /\ wire'[i] = wire[i]
    BY <1>0, <1>2 DEF Shortened
  <2>2. ASSUME NEW i \in d + 1..Len(wire')
        PROVE  /\ n + (i - d) <= Latest'
               /\ wire'[i] = IF n + (i - d) <= seq' THEN n + (i - d) ELSE Exit
    <3>1. /\ n + (i - d) <= Latest
          /\ wire'[i] = IF n + (i - d) <= seq THEN n + (i - d) ELSE Exit
      BY <2>1 DEF Live
    <3>2. i \in Nat /\ seq' \in Nat
      BY <1>0, <1>2 DEF Shortened
    <3>3. CASE ended' = ended /\ seq' = seq
      BY <3>1, <3>3 DEF Latest
    <3>4. CASE ~ended /\ ~ended' /\ seq' = seq + 1
      BY <1>0, <3>1, <3>2, <3>4 DEF Latest
    <3>5. CASE ~ended /\ ended' /\ seq' = seq
      BY <1>0, <3>1, <3>2, <3>5 DEF Latest
    <3> QED BY <1>2, <3>3, <3>4, <3>5 DEF Shortened
  <2> QED BY <1>2, <2>2 DEF Live, Shortened
<1> QED BY <1>1, <1>2

(* Where the replay is does not change by what the provider does.          *)
LEMMA BelowKept ==
    ASSUME UNCHANGED readerVars, NEW n
    PROVE  Below(n)' <=> Below(n)
  BY DEF Below, readerVars

LEMMA ExitSeen ==
    ASSUME ChannelInv, ExitComesFirst
    PROVE  ended
<1>1. Exit \in Members(wire)
  BY LinkFacts DEF ExitComesFirst, Members
<1> QED BY <1>1 DEF ChannelInv, ExitIsTrue

LEMMA BeforeReplayKept ==
    ASSUME ChannelInv, ChannelInv', Grown \/ Shortened, BeforeReplay,
           UNCHANGED readerVars, UNCHANGED sessionVars, UNCHANGED asked
    PROVE  BeforeReplay'
<1>0. /\ Len(wire) \in Nat /\ DOMAIN wire = 1..Len(wire) /\ DOMAIN wire' = 1..Len(wire')
      /\ seq \in Nat /\ seq <= MaxOutputs /\ seq' <= MaxOutputs /\ current \in Nat
      /\ Exit = MaxOutputs + 1 /\ Done = MaxOutputs + 2 /\ MaxOutputs \in Nat
  <2>1. DOMAIN wire' = 1..Len(wire') /\ seq' <= MaxOutputs
    BY LimitAssumption, LenProperties DEF ChannelInv, LinkType, RunnerType
  <2> QED BY <2>1, LinkFacts
<1>1. \A i \in 1..Len(wire) : wire[i] # Done
  BY <1>0 DEF BeforeReplay, Members
<1>2. CASE Shortened
  <2>1. Done \notin Members(wire')
    BY <1>0, <1>1, <1>2 DEF Shortened, Members
  <2> QED BY <1>2, <2>1 DEF Shortened, BeforeReplay
<1>3. CASE Grown
  <2>1. \A i \in 1..Len(wire') : i \in 1..Len(wire) \/ i = Len(wire) + 1
    BY <1>0, <1>3 DEF Grown
  <2>2. wire'[Len(wire) + 1] # Done
    BY <1>0, <1>3 DEF Grown
  <2>3. Done \notin Members(wire')
    BY <1>0, <1>1, <1>3, <2>1, <2>2 DEF Grown, Members
  <2>4. Live(0, current) /\ Below(current) /\ (asked \/ stage = "subscribed")
    BY <1>3 DEF Grown, BeforeReplay
  <2>5. PICK c \in Nat : c = current
    BY <1>0
  <2>6. Live(0, c)
    BY <2>4, <2>5
  <2>7. Live(0, c)'
    BY <1>0, <1>3, <2>6, LiveKept
  <2>8. current' = c
    BY <2>5 DEF readerVars
  <2>9. Live(0, current)'
    BY <2>7, <2>8 DEF Live
  <2>10. Below(current)'
    BY <2>4 DEF Below, readerVars
  <2>11. (asked \/ stage = "subscribed")'
    BY <2>4 DEF sessionVars
  <2> QED BY <2>3, <2>9, <2>10, <2>11 DEF BeforeReplay
<1> QED BY <1>2, <1>3

LEMMA SentWire ==
    ASSUME ChannelInv, ChannelInv', Grown \/ Shortened
    PROVE  /\ Len(wire') \in Nat /\ DOMAIN wire' = 1..Len(wire')
           /\ seq' \in Nat /\ seq <= seq'
           /\ \A i \in 1..Len(wire) : i <= Len(wire') => wire'[i] = wire[i]
           /\ Len(wire') < Len(wire) => cut'
           /\ \A i \in 1..Len(wire') : i \in 1..Len(wire) \/ (Grown /\ i = Len(wire) + 1)
<1>0. /\ Len(wire) \in Nat /\ seq \in Nat
      /\ Len(wire') \in Nat /\ DOMAIN wire' = 1..Len(wire') /\ seq' \in Nat
  <2>1. Len(wire') \in Nat /\ DOMAIN wire' = 1..Len(wire') /\ seq' \in Nat
    BY LenProperties DEF ChannelInv, LinkType, RunnerType
  <2> QED BY <2>1, LinkFacts
<1>1. CASE Grown
  <2>1. Len(wire') = Len(wire) + 1 /\ \A i \in 1..Len(wire) : wire'[i] = wire[i]
    BY <1>1 DEF Grown
  <2>2. seq <= seq'
    BY <1>0, <1>1 DEF Grown
  <2> QED BY <1>0, <1>1, <2>1, <2>2
<1>2. CASE Shortened
  <2>1. cut' /\ Len(wire') <= Len(wire) /\ \A i \in 1..Len(wire') : wire'[i] = wire[i]
    BY <1>2 DEF Shortened
  <2>2. seq <= seq'
    BY <1>0, <1>2 DEF Shortened
  <2> QED BY <1>0, <2>1, <2>2
<1> QED BY <1>1, <1>2

LEMMA ReplayingKept ==
    ASSUME ChannelInv, ChannelInv', Grown \/ Shortened, Replaying,
           UNCHANGED readerVars, UNCHANGED sessionVars, UNCHANGED asked
    PROVE  Replaying' \/ BeforeReplay'
<1>0. /\ Len(wire) \in Nat /\ Len(wire') \in Nat /\ DOMAIN wire' = 1..Len(wire')
      /\ seq \in Nat /\ seq <= MaxOutputs /\ seq' \in Nat
      /\ Done = MaxOutputs + 2 /\ MaxOutputs \in Nat
      /\ \A i \in 1..Len(wire) : wire[i] \in Nat
  BY LinkFacts, SentWire
<1>1. PICK d \in 1..Len(wire), r \in 0..seq : ReplayOnWire(d, r)
  BY DEF Replaying
<1>2. d \in Nat /\ r \in Nat /\ d <= Len(wire)
  BY <1>0
<1>3. \A i \in 1..Len(wire) : i <= Len(wire') => wire'[i] = wire[i]
  BY SentWire
<1>4. CASE d <= Len(wire')
  <2>1. Live(d, r)'
    BY <1>1, <1>2, LiveKept DEF ReplayOnWire
  <2>2. Below(r)' /\ current' <= r /\ (d <= r => current' + d = r + 1)
    BY <1>1 DEF ReplayOnWire, Below, readerVars
  <2>3. \A m \in 1..r : m + d <= r + 1 => m \in Members(replayed')
    BY <1>1 DEF ReplayOnWire, readerVars
  <2>4. wire'[d] = Done /\ \A i \in 1..d - 1 : wire'[i] = wire[i]
    BY <1>0, <1>1, <1>2, <1>3, <1>4 DEF ReplayOnWire
  <2>5. \A i \in 1..d - 1 : IF i + r >= d THEN wire'[i] + d = i + r + 1 ELSE wire'[i] \in 1..r
    BY <1>1, <2>4 DEF ReplayOnWire
  <2>6. ReplayOnWire(d, r)'
    BY <2>1, <2>2, <2>3, <2>4, <2>5 DEF ReplayOnWire
  <2>7. d \in 1..Len(wire') /\ r \in 0..seq'
    BY <1>0, <1>2, <1>4, SentWire
  <2> QED BY <2>6, <2>7 DEF Replaying
<1>5. CASE d > Len(wire')
  <2>1. cut'
    BY <1>0, <1>2, <1>5, SentWire
  <2>2. ASSUME NEW i \in 1..Len(wire') PROVE wire'[i] # Done
    <3>1. i \in 1..d - 1 /\ wire'[i] = wire[i] /\ wire[i] \in Nat
      BY <1>0, <1>2, <1>3, <1>5
    <3>2. IF i + r >= d THEN wire[i] + d = i + r + 1 ELSE wire[i] \in 1..r
      BY <1>1, <3>1 DEF ReplayOnWire
    <3>3. wire[i] <= r
      BY <1>2, <3>1, <3>2
    <3> QED BY <1>0, <3>1, <3>3
  <2>3. Done \notin Members(wire')
    BY <1>0, <2>2 DEF Members
  <2> QED BY <2>1, <2>3 DEF BeforeReplay
<1> QED BY <1>0, <1>2, <1>4, <1>5

LEMMA ExitFirstKept ==
    ASSUME ChannelInv, ChannelInv', Shortened, ExitComesFirst
    PROVE  ExitComesFirst' \/ BeforeReplay'
<1>0. Len(wire) \in Nat /\ Len(wire') \in Nat /\ DOMAIN wire' = 1..Len(wire')
  BY LinkFacts, LenProperties DEF ChannelInv, LinkType
<1>1. PICK i \in 1..Len(wire) : wire[i] = Exit /\ \A j \in 1..i : wire[j] # Done
  BY DEF ExitComesFirst
<1>2. CASE i <= Len(wire')
  <2>1. wire'[i] = Exit /\ \A j \in 1..i : wire'[j] # Done
    BY <1>0, <1>1, <1>2 DEF Shortened
  <2> QED BY <1>0, <1>2, <2>1 DEF ExitComesFirst
<1>3. CASE i > Len(wire')
  <2>1. \A j \in 1..Len(wire') : wire'[j] # Done
    BY <1>0, <1>1, <1>3 DEF Shortened
  <2>2. Done \notin Members(wire')
    BY <1>0, <2>1 DEF Members
  <2> QED BY <2>2 DEF BeforeReplay, Shortened
<1> QED BY <1>0, <1>2, <1>3

LEMMA UnderReplayKept ==
    ASSUME ChannelInv, ChannelInv', Grown \/ Shortened, UnderReplay,
           UNCHANGED readerVars, UNCHANGED sessionVars, UNCHANGED asked
    PROVE  UnderReplay'
<1>1. CASE BeforeReplay
  BY <1>1, BeforeReplayKept DEF UnderReplay
<1>2. CASE ExitComesFirst
  <2>1. ended
    BY <1>2, ExitSeen
  <2>2. Shortened
    BY <2>1 DEF Grown
  <2> QED BY <1>2, <2>2, ExitFirstKept DEF UnderReplay
<1>3. CASE ~asked /\ replay = "open" /\ Replaying
  <2>1. Replaying' \/ BeforeReplay'
    BY <1>3, ReplayingKept
  <2>2. ~asked' /\ replay' = "open"
    BY <1>3 DEF readerVars
  <2> QED BY <2>1, <2>2 DEF UnderReplay
<1> QED BY <1>1, <1>2, <1>3 DEF UnderReplay

(* What the provider and the runner's connections do opens no hole.        *)
LEMMA HoleSent ==
    ASSUME ChannelInv, ChannelInv', HoleInv, Grown \/ Shortened, Served',
           UNCHANGED readerVars, UNCHANGED sessionVars, UNCHANGED asked
    PROVE  HoleInv'
<1>0. /\ Len(wire) \in Nat /\ Len(wire') \in Nat /\ DOMAIN wire' = 1..Len(wire')
      /\ DOMAIN wire = 1..Len(wire) /\ \A i \in 1..Len(wire) : wire[i] \in Nat
      /\ seq \in Nat /\ seq' \in Nat /\ seq <= seq' /\ current \in Nat /\ Exit \notin Numbered
  BY LinkFacts, SentWire
<1>1. Heard'
  <2>1. current' <= seq'
    BY <1>0 DEF HoleInv, Heard, readerVars
  <2>2. ASSUME NEW i \in DOMAIN wire', wire'[i] \in Numbered PROVE wire'[i] <= seq'
    <3>1. CASE i \in 1..Len(wire) /\ wire'[i] = wire[i]
      <4>1. wire[i] <= seq
        BY <1>0, <2>2, <3>1 DEF HoleInv, Heard
      <4> QED BY <1>0, <3>1, <4>1
    <3>2. CASE Grown /\ i = Len(wire) + 1
      BY <1>0, <2>2, <3>2 DEF Grown
    <3>3. (i \in 1..Len(wire) /\ wire'[i] = wire[i]) \/ (Grown /\ i = Len(wire) + 1)
      <4>1. i \in 1..Len(wire')
        BY <1>0
      <4>2. i \in 1..Len(wire) => wire'[i] = wire[i]
        BY <1>0, <4>1, SentWire
      <4> QED BY <4>1, <4>2, SentWire
    <3> QED BY <3>1, <3>2, <3>3
  <2> QED BY <2>1, <2>2 DEF Heard
<1>2. ASSUME Whole' PROVE Phased' /\ Accounted'
  <2>1. Whole /\ Phased /\ Accounted
    BY <1>2 DEF HoleInv, Whole, readerVars, sessionVars
  <2>2. Phased'
    BY <2>1 DEF Phased, readerVars, sessionVars
  <2>3. (stage = "subscribed" \/ replay = "open") /\ ~closed => UnderReplay'
    BY <2>1, UnderReplayKept DEF Accounted
  <2>4. replay = "done" => Complete'
    BY <2>1 DEF Accounted, Complete, Below, readerVars
  <2>5. (replay = "done" \/ stage \in {"replayed", "running"}) /\ ~closed => Live(0, current)'
    <3>1. PICK c \in Nat : c = current
      BY <1>0
    <3>2. SUFFICES ASSUME Live(0, current) PROVE Live(0, current)'
      BY <2>1 DEF Accounted
    <3>3. Live(0, c)'
      BY <1>0, <3>1, <3>2, LiveKept
    <3> QED BY <3>1, <3>3 DEF Live, readerVars
  <2>6. stage \in {"replayed", "running"} => Attached'
    BY <2>1 DEF Accounted, Attached, readerVars, sessionVars
  <2>7. UNCHANGED <<stage, replay, closed>>
    BY DEF readerVars, sessionVars
  <2> QED BY <2>2, <2>3, <2>4, <2>5, <2>6, <2>7 DEF Accounted
<1> QED BY <1>1, <1>2 DEF HoleInv

LEMMA HoleKept ==
    ASSUME HoleInv, Served', UNCHANGED <<seq, ended, wire, cut, asked>>,
           UNCHANGED readerVars, UNCHANGED sessionVars
    PROVE  HoleInv'
  BY DEF HoleInv, Heard, Whole, Phased, Accounted, UnderReplay, BeforeReplay, ExitComesFirst,
         Replaying, ReplayOnWire, Complete, Attached, Live, Latest, Below, readerVars, sessionVars

-----------------------------------------------------------------------------
(* The replay is written behind the live output that is on its way: its    *)
(* end has everything up to the newest output ahead of it.                 *)
LEMMA ReplayWritten ==
    ASSUME ChannelInv, ChannelInv', HoleInv, RunnerReplays, dial \in clients, ~cut
    PROVE  /\ Len(wire') = Len(wire) + seq + 1
           /\ \A i \in 1..Len(wire) : wire'[i] = wire[i]
           /\ \A i \in 1..seq : wire'[Len(wire) + i] = i
           /\ wire'[Len(wire) + seq + 1] = Done
<1> DEFINE retained == [n \in 1..seq |-> n]
<1>0. wire \in Seq(Frames) /\ Len(wire) \in Nat /\ seq \in Nat /\ seq <= MaxOutputs
      /\ MaxOutputs \in Nat /\ Frames = 1..MaxOutputs + 2 /\ Done = MaxOutputs + 2
  BY LinkFacts
<1>1. retained \in Seq(Frames) /\ Len(retained) = seq /\ \A i \in 1..seq : retained[i] = i
  BY <1>0
<1>2. <<Done>> \in Seq(Frames) /\ Len(<<Done>>) = 1 /\ <<Done>>[1] = Done
  BY <1>0
<1>3. wire' = (wire \o retained) \o <<Done>>
  BY DEF RunnerReplays
<1> HIDE DEF retained
<1>4. /\ wire \o retained \in Seq(Frames) /\ Len(wire \o retained) = Len(wire) + seq
      /\ \A i \in 1..Len(wire) + seq : (wire \o retained)[i] =
             IF i <= Len(wire) THEN wire[i] ELSE retained[i - Len(wire)]
  BY <1>0, <1>1, ConcatProperties
<1>5. /\ Len(wire') = Len(wire) + seq + 1
      /\ \A i \in 1..Len(wire) + seq + 1 : wire'[i] =
             IF i <= Len(wire) + seq THEN (wire \o retained)[i] ELSE Done
  BY <1>0, <1>2, <1>3, <1>4, ConcatProperties
<1>6. \A i \in 1..Len(wire) : wire'[i] = wire[i]
  BY <1>0, <1>4, <1>5
<1>7. ASSUME NEW i \in 1..seq PROVE wire'[Len(wire) + i] = i
  <2>1. Len(wire) + i \in 1..Len(wire) + seq /\ ~(Len(wire) + i <= Len(wire))
        /\ (Len(wire) + i) - Len(wire) = i
    BY <1>0
  <2>2. (wire \o retained)[Len(wire) + i] = retained[i]
    <3>1. ASSUME NEW k \in 1..Len(wire) + seq, ~(k <= Len(wire))
          PROVE  (wire \o retained)[k] = retained[k - Len(wire)]
      BY <1>4, <3>1
    <3> QED BY <2>1, <3>1
  <2>3. wire'[Len(wire) + i] = (wire \o retained)[Len(wire) + i]
    <3>1. ASSUME NEW k \in 1..Len(wire) + seq
          PROVE  wire'[k] = (wire \o retained)[k]
      <4>1. k \in 1..Len(wire) + seq + 1 /\ k <= Len(wire) + seq
        BY <1>0, <3>1
      <4> QED BY <1>5, <4>1
    <3> QED BY <2>1, <3>1
  <2> QED BY <1>1, <2>2, <2>3
<1>8. wire'[Len(wire) + seq + 1] = Done
  BY <1>0, <1>5
<1> QED BY <1>5, <1>6, <1>7, <1>8

LEMMA ReplayStarts ==
    ASSUME ChannelInv, ChannelInv', HoleInv, RunnerReplays, ~cut, dial \in clients, ~ended,
           Live(0, current), Below(current)
    PROVE  Replaying'
<1>0. /\ Len(wire) \in Nat /\ seq \in Nat /\ current \in Nat /\ current <= seq
      /\ \A m \in Members(replayed) : m \in Nat
      /\ \A i \in DOMAIN stream : stream[i] \in Nat
  <2>1. /\ \A m \in Members(replayed) : m \in Nat
        /\ \A i \in DOMAIN stream : stream[i] \in Nat
    BY StreamFacts, LinkFacts
  <2> QED BY <2>1, LinkFacts DEF HoleInv, Heard
<1>1. PICK d \in Nat, r \in Nat : d = Len(wire) + seq + 1 /\ r = seq
  BY <1>0
<1>2. /\ Len(wire') = d /\ wire'[d] = Done
      /\ \A i \in 1..Len(wire) : wire'[i] = wire[i]
      /\ \A i \in 1..r : wire'[Len(wire) + i] = i
  BY <1>1, ReplayWritten
<1>3. current + Len(wire) = r
  BY <1>0, <1>1 DEF Live, Latest
<1>4. \A i \in 1..Len(wire) : wire[i] = current + i /\ current + i <= r
  BY <1>0, <1>1 DEF Live, Latest
<1>5. UNCHANGED <<seq, ended, cut, current, stream, replayed>>
  BY DEF RunnerReplays, runnerVars, readerVars
<1>6. Live(d, r)'
  <2>1. r + (d - d) = r /\ \A i \in d + 1..d : FALSE
    BY <1>1
  <2> QED BY <1>1, <1>2, <1>5, <2>1 DEF Live, Latest
<1>7. Below(r)'
  <2>1. \A i \in DOMAIN stream : stream[i] \in Terminal \/ stream[i] <= r
    BY <1>0, <1>1 DEF Below
  <2>2. \A m \in Members(replayed) : m <= r
    BY <1>0, <1>1 DEF Below
  <2> QED BY <1>5, <2>1, <2>2 DEF Below
<1>8. ASSUME NEW i \in 1..d - 1
      PROVE  IF i + r >= d THEN wire'[i] + d = i + r + 1 ELSE wire'[i] \in 1..r
  <2>1. CASE i <= Len(wire)
    <3>1. wire'[i] = current + i /\ current + i <= r
      BY <1>0, <1>2, <1>4, <2>1
    <3> QED BY <1>0, <1>1, <2>1, <3>1
  <2>2. CASE i > Len(wire)
    <3>1. i - Len(wire) \in 1..r /\ Len(wire) + (i - Len(wire)) = i
      BY <1>0, <1>1, <2>2
    <3>2. wire'[i] = i - Len(wire)
      BY <1>2, <3>1
    <3> QED BY <1>0, <1>1, <2>2, <3>2
  <2> QED BY <1>0, <2>1, <2>2
<1>9. ~(d <= r) /\ \A m \in 1..r : ~(m + d <= r + 1)
  BY <1>0, <1>1
<1>10. current' <= r
  BY <1>0, <1>1, <1>5
<1>11. ReplayOnWire(d, r)'
  BY <1>2, <1>6, <1>7, <1>8, <1>9, <1>10 DEF ReplayOnWire
<1>12. d \in 1..Len(wire') /\ r \in 0..seq'
  BY <1>0, <1>1, <1>2, <1>5
<1> QED BY <1>11, <1>12 DEF Replaying

LEMMA HoleReplays ==
    ASSUME ChannelInv, ChannelInv', HoleInv, RunnerReplays
    PROVE  HoleInv'
<1>0. UNCHANGED <<seq, ended, clients, dial, cut>> /\ UNCHANGED readerVars /\ UNCHANGED sessionVars
  BY DEF RunnerReplays, runnerVars
<1>1. Served'
  BY <1>0 DEF HoleInv, Served
<1>2. /\ Len(wire) \in Nat /\ DOMAIN wire = 1..Len(wire) /\ seq \in Nat /\ current \in Nat
      /\ Exit = MaxOutputs + 1 /\ Done = MaxOutputs + 2 /\ MaxOutputs \in Nat
      /\ Numbered = 1..MaxOutputs
  BY LinkFacts
<1>3. CASE cut
  <2>1. wire' = wire
    BY <1>3 DEF RunnerReplays
  <2>2. Heard'
    BY <1>0, <2>1 DEF HoleInv, Heard, readerVars
  <2>3. ASSUME Whole' PROVE Phased' /\ Accounted'
    <3>1. Whole /\ Phased /\ Accounted
      BY <1>0, <2>3 DEF HoleInv, Whole, readerVars, sessionVars
    <3>2. asked /\ ~asked' /\ replay = "open" /\ ~closed
      BY <3>1 DEF RunnerReplays, Phased
    <3>3. Phased'
      BY <1>0, <3>1, <3>2 DEF Phased, readerVars, sessionVars
    <3>4. UnderReplay
      BY <3>1, <3>2 DEF Accounted
    <3>5. UnderReplay'
      BY <1>0, <1>3, <2>1, <3>2, <3>4 DEF UnderReplay, BeforeReplay, ExitComesFirst
    <3> QED BY <1>0, <3>1, <3>2, <3>3, <3>5 DEF Accounted, Phased, readerVars, sessionVars
  <2> QED BY <1>1, <2>2, <2>3 DEF HoleInv
<1>4. CASE ~cut
  <2>0. dial \in clients
    BY <1>4 DEF HoleInv, Served
  <2>1. /\ Len(wire') = Len(wire) + seq + 1
        /\ \A i \in 1..Len(wire) : wire'[i] = wire[i]
        /\ \A i \in 1..seq : wire'[Len(wire) + i] = i
        /\ wire'[Len(wire) + seq + 1] = Done
    BY <1>4, <2>0, ReplayWritten
  <2>2. Heard'
    <3>1. DOMAIN wire' = 1..Len(wire')
      BY LenProperties DEF ChannelInv, LinkType
    <3>2. ASSUME NEW i \in DOMAIN wire', wire'[i] \in Numbered PROVE wire'[i] <= seq
      <4>1. CASE i <= Len(wire)
        BY <1>2, <2>1, <3>1, <3>2, <4>1 DEF HoleInv, Heard
      <4>2. CASE i > Len(wire) /\ i <= Len(wire) + seq
        <5>1. i - Len(wire) \in 1..seq /\ Len(wire) + (i - Len(wire)) = i
          BY <1>2, <3>1, <4>2
        <5> QED BY <2>1, <5>1
      <4>3. CASE i > Len(wire) + seq
        BY <1>2, <2>1, <3>1, <3>2, <4>3
      <4> QED BY <1>2, <2>1, <3>1, <4>1, <4>2, <4>3
    <3> QED BY <1>0, <3>2 DEF HoleInv, Heard, readerVars
  <2>3. ASSUME Whole' PROVE Phased' /\ Accounted'
    <3>1. Whole /\ Phased /\ Accounted
      BY <1>0, <2>3 DEF HoleInv, Whole, readerVars, sessionVars
    <3>2. asked /\ ~asked' /\ replay = "open" /\ ~closed
      BY <3>1 DEF RunnerReplays, Phased
    <3>3. Phased'
      BY <1>0, <3>1, <3>2 DEF Phased, readerVars, sessionVars
    <3>4. UnderReplay
      BY <3>1, <3>2 DEF Accounted
    <3>5. UnderReplay'
      <4>0. ExitComesFirst => ExitComesFirst'
        <5> SUFFICES ASSUME ExitComesFirst PROVE ExitComesFirst'
          OBVIOUS
        <5>1. PICK i \in 1..Len(wire) : wire[i] = Exit /\ \A j \in 1..i : wire[j] # Done
          BY DEF ExitComesFirst
        <5>2. i \in 1..Len(wire') /\ wire'[i] = Exit /\ \A j \in 1..i : wire'[j] # Done
          BY <1>2, <2>1, <5>1
        <5> QED BY <5>2 DEF ExitComesFirst
      <4>1. CASE ExitComesFirst
        BY <4>0, <4>1 DEF UnderReplay
      <4>2. CASE BeforeReplay /\ ended
        <5>1. Live(0, current) /\ Done \notin Members(wire)
          BY <1>4, <4>2 DEF BeforeReplay
        <5>2. current + Len(wire) = seq + 1 /\ current <= seq
          BY <1>2, <1>4, <4>2, <5>1 DEF Live, Latest, HoleInv, Heard
        <5>3. Len(wire) \in 0 + 1..Len(wire) /\ ~(current + (Len(wire) - 0) <= seq)
          BY <1>2, <5>2
        <5>4. wire[Len(wire)] = Exit
          BY <5>1, <5>3 DEF Live
        <5>5. ExitComesFirst
          BY <1>2, <5>1, <5>3, <5>4 DEF ExitComesFirst, Members
        <5> QED BY <4>0, <5>5 DEF UnderReplay
      <4>3. CASE BeforeReplay /\ ~ended
        <5>1. Replaying'
          BY <1>4, <2>0, <4>3, ReplayStarts DEF BeforeReplay
        <5> QED BY <1>0, <3>2, <5>1 DEF UnderReplay, readerVars
      <4> QED BY <3>2, <3>4, <4>1, <4>2, <4>3 DEF UnderReplay
    <3> QED BY <1>0, <3>1, <3>2, <3>3, <3>5 DEF Accounted, Phased, readerVars, sessionVars
  <2> QED BY <1>1, <2>2, <2>3 DEF HoleInv
<1> QED BY <1>3, <1>4

LEMMA HoleRunner == ChannelInv /\ ChannelInv' /\ HoleInv /\ Runner => HoleInv'
<1> SUFFICES ASSUME ChannelInv, ChannelInv', HoleInv, Runner PROVE HoleInv'
  OBVIOUS
<1>1. CASE RunnerOutputs
  <2>1. seq + 1 \in Frames
    BY <1>1, LinkFacts DEF RunnerOutputs
  <2>2. Grown \/ Shortened
    BY <1>1, <2>1, BroadcastCases DEF RunnerOutputs, HoleInv
  <2>3. Served'
    BY <1>1, <2>2 DEF RunnerOutputs, HoleInv, Served, Grown, Shortened
  <2> QED BY <1>1, <2>2, <2>3, HoleSent DEF RunnerOutputs
<1>2. CASE RunnerEnds
  <2>1. Exit \in Frames
    BY LinkFacts
  <2>2. Grown \/ Shortened
    BY <1>2, <2>1, BroadcastCases DEF RunnerEnds, HoleInv
  <2>3. Served'
    BY <1>2, <2>2 DEF RunnerEnds, HoleInv, Served, Grown, Shortened
  <2> QED BY <1>2, <2>2, <2>3, HoleSent DEF RunnerEnds
<1>3. CASE RunnerReplays
  BY <1>3, HoleReplays
<1>4. CASE RunnerRemoves
  <2>1. PICK c \in clients : clients' = clients \ {c} /\ cut' = (cut \/ c = dial)
    BY <1>4 DEF RunnerRemoves
  <2>2. UNCHANGED <<seq, ended, wire, dial, asked>> /\ UNCHANGED readerVars /\ UNCHANGED sessionVars
    BY <1>4 DEF RunnerRemoves
  <2>3. Served'
    BY <2>1, <2>2 DEF HoleInv, Served
  <2>4. CASE c = dial
    <3>1. Shortened
      <4>1. cut' /\ wire' = wire /\ ended' = ended /\ seq' = seq
        BY <2>1, <2>2, <2>4
      <4>2. Len(wire) \in Nat
        BY LinkFacts
      <4> QED BY <4>1, <4>2 DEF Shortened
    <3> QED BY <2>2, <2>3, <3>1, HoleSent
  <2>5. CASE c # dial
    <3>1. cut' = cut
      BY <2>1, <2>5, LinkFacts
    <3> QED BY <2>2, <2>3, <3>1, HoleKept
  <2> QED BY <2>4, <2>5
<1> QED BY <1>1, <1>2, <1>3, <1>4 DEF Runner

LEMMA HoleGrace == ChannelInv /\ ChannelInv' /\ HoleInv /\ Grace => HoleInv'
<1> SUFFICES ASSUME ChannelInv, ChannelInv', HoleInv, Grace PROVE HoleInv'
  OBVIOUS
<1>1. /\ UNCHANGED <<seq, ended, clients, wire, dial, asked>>
      /\ UNCHANGED readerVars /\ UNCHANGED sessionVars
  BY DEF Grace, Schedule, TimerFires, TimerDecides, RunnerLeaves, linkVars
<1>2. CASE RunnerLeaves
  <2>1. Shortened
    BY <1>1, <1>2, LinkFacts DEF RunnerLeaves, Shortened
  <2>2. Served'
    BY <1>2 DEF RunnerLeaves, Served
  <2> QED BY <1>1, <2>1, <2>2, HoleSent
<1>3. CASE Schedule \/ TimerFires \/ TimerDecides
  <2>1. cut' = cut
    BY <1>3 DEF Schedule, TimerFires, TimerDecides, linkVars
  <2>2. Served'
    BY <1>1, <2>1 DEF HoleInv, Served
  <2> QED BY <1>1, <2>1, <2>2, HoleKept
<1> QED BY <1>2, <1>3 DEF Grace

(* A new connection has nothing behind it, and an ended runner's exit.     *)
LEMMA HoleDials == ChannelInv /\ ChannelInv' /\ HoleInv /\ Dials => HoleInv'
<1> SUFFICES ASSUME ChannelInv, ChannelInv', HoleInv, Dials PROVE HoleInv'
  OBVIOUS
<1>0. /\ seq \in Nat /\ ended \in BOOLEAN /\ Exit \notin Numbered /\ Exit # Done
  BY LinkFacts
<1>1. /\ dial' \in clients' /\ ~cut' /\ ~asked' /\ ~closed' /\ current' = seq /\ seq' = seq
      /\ ended' = ended /\ replay' = "none" /\ replayed' = <<>> /\ stream' = <<>>
      /\ stage' = "subscribed" /\ wire' = (IF ended THEN <<Exit>> ELSE <<>>)
  BY DEF Dials
<1>2. Len(<<>>) = 0 /\ Len(<<Exit>>) = 1 /\ <<Exit>>[1] = Exit
      /\ DOMAIN <<>> = 1..0 /\ DOMAIN <<Exit>> = 1..1
  OBVIOUS
<1>3. Served' /\ Heard'
  BY <1>0, <1>1, <1>2 DEF Served, Heard
<1>4. Phased'
  BY <1>1 DEF Phased
<1>5. Live(0, current)'
  <2>1. CASE ended
    BY <1>0, <1>1, <1>2, <2>1 DEF Live, Latest
  <2>2. CASE ~ended
    BY <1>0, <1>1, <1>2, <2>2 DEF Live, Latest
  <2> QED BY <2>1, <2>2
<1>6. Below(current)'
  BY <1>1, <1>2 DEF Below, Members
<1>7. Done \notin Members(wire')
  BY <1>0, <1>1, <1>2 DEF Members
<1>8. BeforeReplay'
  BY <1>1, <1>5, <1>6, <1>7 DEF BeforeReplay
<1>9. Accounted'
  BY <1>1, <1>8 DEF Accounted, UnderReplay
<1> QED BY <1>3, <1>4, <1>9 DEF HoleInv

-----------------------------------------------------------------------------
(* The daemon asks, and takes what the request has collected.              *)
LEMMA HighestIsCurrent ==
    ASSUME NEW S, NEW c \in Nat, S = 1..c
    PROVE  Highest(S \cup {c}) = c
<1>1. /\ c \in S \cup {c} /\ \A m \in S \cup {c} : m <= c
      /\ \A k \in S \cup {c} : k \in Nat
  OBVIOUS
<1>2. \E n \in S \cup {c} : \A m \in S \cup {c} : m <= n
  BY <1>1
<1>3. /\ Highest(S \cup {c}) \in S \cup {c}
      /\ \A m \in S \cup {c} : m <= Highest(S \cup {c})
  BY <1>2 DEF Highest
<1>4. c <= Highest(S \cup {c}) /\ Highest(S \cup {c}) <= c /\ Highest(S \cup {c}) \in Nat
  BY <1>1, <1>3
<1> QED BY <1>4

LEMMA HoleTakes ==
    ASSUME ChannelInv, HoleInv, TakesReplay
    PROVE  HoleInv'
<1>0. /\ UNCHANGED <<seq, ended, clients, dial, wire, cut, asked, closed, current, stream,
                     dropped, short>>
      /\ stage = "replaying" /\ stage' = "replayed" /\ replay # "open" /\ replay' = "none"
      /\ replayed' = <<>> /\ outputs' = replayed
      /\ nextSeq' = Highest(Members(replayed) \cup {current}) + 1
  BY DEF TakesReplay, runnerVars, linkVars
<1>1. Served' /\ Heard'
  BY <1>0 DEF HoleInv, Served, Heard
<1>2. ASSUME Whole' PROVE Phased' /\ Accounted'
  <2>1. Whole /\ Phased /\ Accounted /\ replay = "done" /\ ~asked
    BY <1>0, <1>2 DEF HoleInv, Whole, Phased
  <2>2. Complete /\ (~closed => Live(0, current))
    BY <2>1 DEF Accounted
  <2>3. current \in Nat /\ nextSeq' = current + 1
    <3>1. current \in Nat
      BY LinkFacts
    <3> QED BY <1>0, <2>2, <3>1, HighestIsCurrent DEF Complete
  <2>4. Phased'
    BY <1>0, <2>1 DEF Phased
  <2>5. /\ Members(outputs') = 1..nextSeq' - 1 /\ nextSeq' - 1 <= current'
        /\ nextSeq'..current' \subseteq Members(stream')
    <3>1. nextSeq' - 1 = current /\ nextSeq'..current = {}
      BY <2>3
    <3>2. Members(outputs') = 1..nextSeq' - 1
      BY <1>0, <2>2, <3>1 DEF Complete
    <3>3. nextSeq' - 1 <= current
      BY <2>3, <3>1
    <3> QED BY <1>0, <3>1, <3>2, <3>3
  <2>6. \A i \in DOMAIN stream : stream[i] \in Terminal \/ stream[i] <= current
    BY <2>2 DEF Complete, Below
  <2>7. ASSUME NEW i \in DOMAIN stream, NEW j \in DOMAIN stream, i < j, stream[i] >= nextSeq'
        PROVE  stream[i] < stream[j]
    <3>1. DOMAIN stream = 1..Len(stream) /\ Len(stream) \in Nat /\ stream[i] \in Nat
      BY StreamFacts
    <3>2. stream[i] \in Terminal
      BY <2>3, <2>6, <2>7, <3>1
    <3>3. i = Len(stream)
      BY <3>2 DEF ChannelInv, EndsLast
    <3> QED BY <2>7, <3>1, <3>3
  <2>8. Attached'
    BY <1>0, <2>5, <2>6, <2>7 DEF Attached
  <2>9. (~closed => Live(0, current))'
    BY <1>0, <2>2 DEF Live, Latest
  <2> QED BY <1>0, <2>4, <2>8, <2>9 DEF Accounted
<1> QED BY <1>1, <1>2 DEF HoleInv

LEMMA HoleAttach == ChannelInv /\ ChannelInv' /\ HoleInv /\ Attach => HoleInv'
<1> SUFFICES ASSUME ChannelInv, ChannelInv', HoleInv, Attach PROVE HoleInv'
  OBVIOUS
<1>1. CASE AsksReplay
  <2>0. /\ UNCHANGED <<seq, ended, clients, dial, wire, cut, closed, current, replayed, stream,
                       dropped, outputs, nextSeq>>
        /\ stage = "subscribed" /\ stage' = "replaying"
    BY <1>1 DEF AsksReplay, runnerVars
  <2>1. Served' /\ Heard'
    BY <2>0 DEF HoleInv, Served, Heard
  <2>2. ASSUME Whole' PROVE Phased' /\ Accounted'
    <3>1. ~closed /\ replay' = "open" /\ asked' /\ short' = short
      BY <1>1, <2>2 DEF AsksReplay, Whole
    <3>2. Whole /\ Phased /\ Accounted
      BY <2>0, <2>2, <3>1 DEF HoleInv, Whole
    <3>3. BeforeReplay \/ ExitComesFirst
      BY <2>0, <3>1, <3>2 DEF Accounted, UnderReplay, Phased
    <3>4. UnderReplay'
      BY <2>0, <3>1, <3>3
         DEF UnderReplay, BeforeReplay, ExitComesFirst, Live, Latest, Below
    <3>5. Phased'
      BY <2>0, <3>1 DEF Phased
    <3> QED BY <2>0, <3>1, <3>4, <3>5 DEF Accounted
  <2> QED BY <2>1, <2>2 DEF HoleInv
<1>2. CASE GivesUpReplay
  BY <1>2 DEF GivesUpReplay, HoleInv, Served, Heard, Whole, runnerVars, linkVars
<1>3. CASE TakesReplay
  BY <1>3, HoleTakes
<1>4. CASE Starts
  <2>0. /\ UNCHANGED <<seq, ended, clients, dial, wire, cut, asked, closed, current, replay,
                       replayed, stream, dropped, short, outputs, nextSeq>>
        /\ stage = "replayed" /\ stage' = "running"
    BY <1>4 DEF Starts, runnerVars, linkVars, readerVars
  <2>1. Served' /\ Heard'
    BY <2>0 DEF HoleInv, Served, Heard
  <2>2. ASSUME Whole' PROVE Phased' /\ Accounted'
    <3>1. Whole /\ Phased /\ Accounted
      BY <2>0, <2>2 DEF HoleInv, Whole
    <3>2. Phased' /\ replay = "none"
      BY <2>0, <3>1 DEF Phased
    <3>3. Attached' /\ (~closed => Live(0, current))'
      BY <2>0, <3>1 DEF Accounted, Attached, Live, Latest
    <3> QED BY <2>0, <3>2, <3>3 DEF Accounted
  <2> QED BY <2>1, <2>2 DEF HoleInv
<1> QED BY <1>1, <1>2, <1>3, <1>4 DEF Attach

-----------------------------------------------------------------------------
(* The reader takes one frame off the wire.                                *)
TakesFrame == wire # <<>> /\ wire' = Tail(wire) /\ UNCHANGED <<cut, seq, ended>>

LEMMA Taken ==
    ASSUME ChannelInv, TakesFrame
    PROVE  /\ Len(wire) \in Nat \ {0} /\ Len(wire') = Len(wire) - 1 /\ Head(wire) = wire[1]
           /\ DOMAIN wire' = 1..Len(wire') /\ 1 \in 1..Len(wire)
           /\ \A i \in 1..Len(wire') : i + 1 \in 1..Len(wire) /\ wire'[i] = wire[i + 1]
<1>1. wire \in Seq(Frames) /\ wire # <<>> /\ wire' = Tail(wire) /\ DOMAIN wire = 1..Len(wire)
  BY LinkFacts DEF TakesFrame
<1>2. /\ Tail(wire) \in Seq(Frames) /\ Len(wire) \in Nat \ {0}
      /\ Len(Tail(wire)) = Len(wire) - 1
      /\ \A i \in DOMAIN Tail(wire) : i + 1 \in DOMAIN wire /\ Tail(wire)[i] = wire[i + 1]
      /\ 1 \in DOMAIN wire /\ Head(wire) = wire[1]
  BY <1>1, TailOf
<1>3. DOMAIN Tail(wire) = 1..Len(Tail(wire))
  BY <1>2, LenProperties
<1> QED BY <1>1, <1>2, <1>3

LEMMA LiveShifted ==
    ASSUME ChannelInv, TakesFrame, NEW d \in Nat \ {0}, NEW n \in Nat, Live(d, n)
    PROVE  Live(d - 1, n)'
<1>1. /\ Len(wire) \in Nat \ {0} /\ Len(wire') = Len(wire) - 1
      /\ \A i \in 1..Len(wire') : i + 1 \in 1..Len(wire) /\ wire'[i] = wire[i + 1]
  BY Taken
<1>2. UNCHANGED <<cut, seq, ended>>
  BY DEF TakesFrame
<1>3. Latest' = Latest
  BY <1>2 DEF Latest
<1>4. ASSUME NEW i \in (d - 1) + 1..Len(wire')
      PROVE  /\ n + (i - (d - 1)) <= Latest
             /\ wire'[i] = IF n + (i - (d - 1)) <= seq THEN n + (i - (d - 1)) ELSE Exit
  <2>1. i + 1 \in d + 1..Len(wire) /\ i \in 1..Len(wire') /\ (i + 1) - d = i - (d - 1)
    BY <1>1
  <2>2. /\ n + ((i + 1) - d) <= Latest
        /\ wire[i + 1] = IF n + ((i + 1) - d) <= seq THEN n + ((i + 1) - d) ELSE Exit
    BY <2>1 DEF Live
  <2> QED BY <1>1, <2>1, <2>2
<1>5. ~cut => n + (Len(wire') - (d - 1)) = Latest
  <2>1. Len(wire') - (d - 1) = Len(wire) - d
    BY <1>1
  <2> QED BY <2>1 DEF Live
<1> QED BY <1>2, <1>3, <1>4, <1>5 DEF Live

(* Live output comes in its order, and then the exit.                      *)
LEMMA LiveRead ==
    ASSUME ChannelInv, TakesFrame, NEW n \in Nat, Live(0, n)
    PROVE  \/ Head(wire) = n + 1 /\ n + 1 <= seq /\ Live(0, n + 1)'
           \/ Head(wire) = Exit /\ n >= seq /\ n + 1 <= Latest
<1>1. /\ Len(wire) \in Nat \ {0} /\ Len(wire') = Len(wire) - 1 /\ Head(wire) = wire[1]
      /\ \A i \in 1..Len(wire') : i + 1 \in 1..Len(wire) /\ wire'[i] = wire[i + 1]
  BY Taken
<1>2. UNCHANGED <<cut, seq, ended>> /\ seq \in Nat
  BY LinkFacts DEF TakesFrame
<1>3. Latest' = Latest
  BY <1>2 DEF Latest
<1>4. /\ n + (1 - 0) <= Latest
      /\ wire[1] = IF n + (1 - 0) <= seq THEN n + (1 - 0) ELSE Exit
  <2>1. 1 \in 0 + 1..Len(wire)
    BY <1>1
  <2> QED BY <2>1 DEF Live
<1>5. Live(0, n + 1)'
  <2>1. ASSUME NEW i \in 0 + 1..Len(wire')
        PROVE  /\ (n + 1) + (i - 0) <= Latest
               /\ wire'[i] = IF (n + 1) + (i - 0) <= seq THEN (n + 1) + (i - 0) ELSE Exit
    <3>1. i + 1 \in 0 + 1..Len(wire) /\ i \in 1..Len(wire') /\ n + ((i + 1) - 0) = (n + 1) + (i - 0)
      BY <1>1
    <3>2. /\ n + ((i + 1) - 0) <= Latest
          /\ wire[i + 1] = IF n + ((i + 1) - 0) <= seq THEN n + ((i + 1) - 0) ELSE Exit
      BY <3>1 DEF Live
    <3> QED BY <1>1, <3>1, <3>2
  <2>2. ~cut => (n + 1) + (Len(wire') - 0) = Latest
    <3>1. (n + 1) + (Len(wire') - 0) = n + (Len(wire) - 0)
      BY <1>1
    <3> QED BY <3>1 DEF Live
  <2> QED BY <1>2, <1>3, <2>1, <2>2 DEF Live
<1> QED BY <1>1, <1>2, <1>4, <1>5

LEMMA HeardTaken ==
    ASSUME ChannelInv, TakesFrame, HoleInv, current' = current \/ current' = Head(wire),
           Head(wire) \in Numbered \/ current' = current
    PROVE  Heard'
<1>1. /\ Len(wire) \in Nat \ {0} /\ Head(wire) = wire[1] /\ 1 \in 1..Len(wire)
      /\ DOMAIN wire' = 1..Len(wire')
      /\ \A i \in 1..Len(wire') : i + 1 \in 1..Len(wire) /\ wire'[i] = wire[i + 1]
  BY Taken
<1>2. DOMAIN wire = 1..Len(wire) /\ seq' = seq
  BY LinkFacts DEF TakesFrame
<1> QED BY <1>1, <1>2 DEF HoleInv, Heard

(* An output goes to the stream, and to the request that waits.            *)
LEMMA Streamed ==
    ASSUME ChannelInv, NEW f \in Events, stream' = Append(stream, f)
    PROVE  /\ DOMAIN stream' = 1..Len(stream) + 1 /\ DOMAIN stream = 1..Len(stream)
           /\ Len(stream) \in Nat
           /\ \A i \in 1..Len(stream) : stream'[i] = stream[i]
           /\ stream'[Len(stream) + 1] = f
           /\ Members(stream') = Members(stream) \cup {f}
<1>1. stream \in Seq(Events)
  BY StreamFacts
<1>2. /\ DOMAIN Append(stream, f) = 1..Len(stream) + 1 /\ DOMAIN stream = 1..Len(stream)
      /\ Len(stream) \in Nat
      /\ \A i \in 1..Len(stream) : Append(stream, f)[i] = stream[i]
      /\ Append(stream, f)[Len(stream) + 1] = f
      /\ Members(Append(stream, f)) = Members(stream) \cup {f}
  BY <1>1, AppendTo
<1> QED BY <1>2

LEMMA BelowRead ==
    ASSUME ChannelInv, NEW f \in Numbered, stream' = Append(stream, f),
           replayed' = replayed \/ replayed' = Append(replayed, f),
           NEW n \in Nat, NEW k \in Nat, Below(n), n <= k, f <= k
    PROVE  Below(k)'
<1>1. f \in Events /\ Events \subseteq Nat /\ f \in Nat
  BY LinkFacts, StreamFacts
<1>2. /\ DOMAIN stream' = 1..Len(stream) + 1 /\ DOMAIN stream = 1..Len(stream)
      /\ Len(stream) \in Nat
      /\ \A i \in 1..Len(stream) : stream'[i] = stream[i]
      /\ stream'[Len(stream) + 1] = f
  BY <1>1, Streamed
<1>3. \A i \in 1..Len(stream) : stream[i] \in Nat
  BY <1>1, StreamFacts
<1>4. ASSUME NEW i \in DOMAIN stream' PROVE stream'[i] \in Terminal \/ stream'[i] <= k
  <2>1. CASE i \in 1..Len(stream)
    <3>1. stream[i] \in Terminal \/ stream[i] <= n
      BY <1>2, <2>1 DEF Below
    <3>2. stream[i] <= n => stream[i] <= k
      BY <1>3, <2>1
    <3> QED BY <1>2, <2>1, <3>1, <3>2
  <2>2. CASE i = Len(stream) + 1
    BY <1>2, <2>2
  <2> QED BY <1>2, <2>1, <2>2
<1>5. ASSUME NEW m \in Members(replayed') PROVE m <= k
  <2>1. replayed \in Seq(Numbered) /\ Members(replayed) \subseteq Nat
    BY StreamFacts, LinkFacts
  <2>2. m \in Members(replayed) \/ m = f
    <3>1. Members(Append(replayed, f)) = Members(replayed) \cup {f}
      BY <2>1, AppendMembers
    <3> QED BY <1>5, <3>1
  <2>3. m \in Members(replayed) => m <= n /\ m \in Nat
    BY <2>1 DEF Below
  <2> QED BY <2>2, <2>3
<1> QED BY <1>4, <1>5 DEF Below

(* One output is read while the replay is under way: a frame of the replay *)
(* or one of the live output ahead of it.                                  *)
LEMMA ReplayingRead ==
    ASSUME ChannelInv, TakesFrame, Replaying, Head(wire) \in Numbered,
           stream' = Append(stream, Head(wire)), replayed' = Append(replayed, Head(wire)),
           current' = Head(wire)
    PROVE  Replaying'
<1>0. /\ seq \in Nat /\ MaxOutputs \in Nat /\ Done \notin Numbered /\ Numbered \subseteq Nat
      /\ replayed \in Seq(Numbered) /\ seq' = seq
  <2>1. seq \in Nat /\ MaxOutputs \in Nat /\ Numbered = 1..MaxOutputs /\ Done = MaxOutputs + 2
    BY LinkFacts
  <2>2. replayed \in Seq(Numbered)
    BY StreamFacts
  <2>3. seq' = seq
    BY DEF TakesFrame
  <2> QED BY <2>1, <2>2, <2>3
<1>1. /\ Len(wire) \in Nat \ {0} /\ Len(wire') = Len(wire) - 1 /\ Head(wire) = wire[1]
      /\ 1 \in 1..Len(wire)
      /\ \A i \in 1..Len(wire') : i + 1 \in 1..Len(wire) /\ wire'[i] = wire[i + 1]
  BY Taken
<1>2. PICK d \in 1..Len(wire), r \in 0..seq : ReplayOnWire(d, r)
  BY DEF Replaying
<1>3. PICK f \in Numbered : f = Head(wire)
  OBVIOUS
<1>4. d # 1 /\ d \in Nat /\ r \in Nat /\ f \in Nat
  <2>1. d # 1
    BY <1>0, <1>1, <1>2 DEF ReplayOnWire
  <2> QED BY <1>0, <1>1, <1>3, <2>1
<1>5. PICK e \in Nat \ {0} : e + 1 = d /\ e = d - 1
  BY <1>1, <1>4
<1>6. \A i \in 1..d - 1 : IF i + r >= d THEN wire[i] + d = i + r + 1 ELSE wire[i] \in 1..r
  BY <1>2 DEF ReplayOnWire
<1>7. IF 1 + r >= d THEN f + d = r + 2 ELSE f \in 1..r
  <2>1. 1 \in 1..d - 1
    BY <1>4, <1>5
  <2>2. IF 1 + r >= d THEN wire[1] + d = 1 + r + 1 ELSE wire[1] \in 1..r
    BY <1>6, <2>1
  <2>3. wire[1] = f
    BY <1>1, <1>3
  <2> QED BY <1>4, <2>2, <2>3
<1>8. f <= r
  BY <1>4, <1>5, <1>7
<1>9. Live(e, r)'
  <2>1. Live(d, r)
    BY <1>2 DEF ReplayOnWire
  <2>2. Live(d - 1, r)'
    BY <1>1, <1>4, <2>1, LiveShifted
  <2> QED BY <1>5, <2>2
<1>10. Below(r)'
  <2>1. Below(r)
    BY <1>2 DEF ReplayOnWire
  <2> QED BY <1>3, <1>4, <1>8, <2>1, BelowRead
<1>11. wire'[e] = Done
  <2>1. e \in 1..Len(wire')
    BY <1>1, <1>5
  <2>2. wire'[e] = wire[e + 1]
    BY <1>1, <2>1
  <2> QED BY <1>2, <1>5, <2>2 DEF ReplayOnWire
<1>12. ASSUME NEW i \in 1..e - 1
       PROVE  IF i + r >= e THEN wire'[i] + e = i + r + 1 ELSE wire'[i] \in 1..r
  <2>1. i \in 1..Len(wire') /\ i + 1 \in 1..d - 1
    BY <1>1, <1>5
  <2>2. wire'[i] = wire[i + 1]
    BY <1>1, <2>1
  <2>3. IF (i + 1) + r >= d THEN wire[i + 1] + d = (i + 1) + r + 1 ELSE wire[i + 1] \in 1..r
    BY <1>6, <2>1
  <2>4. wire[i + 1] \in Nat
    BY <2>1, <1>1, LinkFacts
  <2>5. PICK x \in Nat : x = wire[i + 1]
    BY <2>4
  <2>6. i \in Nat /\ (i + r >= e <=> (i + 1) + r >= d)
    BY <1>4, <1>5
  <2>7. CASE i + r >= e
    <3>1. x + d = (i + 1) + r + 1
      BY <2>3, <2>5, <2>6, <2>7
    <3>2. x + e = i + r + 1
      BY <1>4, <1>5, <2>6, <3>1
    <3> QED BY <2>2, <2>5, <2>7, <3>2
  <2>8. CASE ~(i + r >= e)
    BY <2>2, <2>3, <2>6, <2>8
  <2> QED BY <2>7, <2>8
<1>13. e <= r => f + e = r + 1
  BY <1>4, <1>5, <1>7
<1>14. ASSUME NEW m \in 1..r, m + e <= r + 1 PROVE m \in Members(replayed')
  <2>1. Members(replayed') = Members(replayed) \cup {f}
    BY <1>0, <1>3, AppendMembers
  <2>2. CASE m + d <= r + 1
    BY <1>2, <2>1, <2>2 DEF ReplayOnWire
  <2>3. CASE ~(m + d <= r + 1)
    <3>1. m = f
      BY <1>4, <1>5, <1>7, <1>14, <2>3
    <3> QED BY <2>1, <3>1
  <2> QED BY <2>2, <2>3
<1>15. current' = f
  BY <1>3
<1>16. ReplayOnWire(e, r)'
  BY <1>8, <1>9, <1>10, <1>11, <1>12, <1>13, <1>14, <1>15 DEF ReplayOnWire
<1>17. e \in 1..Len(wire') /\ r \in 0..seq'
  BY <1>0, <1>1, <1>4, <1>5
<1> QED BY <1>16, <1>17 DEF Replaying

LEMMA UnderReplayRead ==
    ASSUME ChannelInv, TakesFrame, UnderReplay, Head(wire) \in Numbered,
           stream' = Append(stream, Head(wire)), current' = Head(wire),
           replayed' = IF replay # "none" THEN Append(replayed, Head(wire)) ELSE replayed,
           UNCHANGED <<asked, replay, stage>>
    PROVE  UnderReplay'
<1>0. /\ Exit \notin Numbered /\ cut' = cut /\ current \in Nat /\ DOMAIN wire = 1..Len(wire)
      /\ Numbered \subseteq Nat
  BY LinkFacts DEF TakesFrame
<1>1. /\ Len(wire) \in Nat \ {0} /\ Len(wire') = Len(wire) - 1 /\ Head(wire) = wire[1]
      /\ DOMAIN wire' = 1..Len(wire') /\ 1 \in 1..Len(wire)
      /\ \A i \in 1..Len(wire') : i + 1 \in 1..Len(wire) /\ wire'[i] = wire[i + 1]
  BY Taken
<1>2. CASE BeforeReplay
  <2>1. Done \notin Members(wire')
    <3>1. \A i \in 1..Len(wire) : wire[i] # Done
      BY <1>2, LinkFacts DEF BeforeReplay, Members
    <3>2. \A i \in 1..Len(wire') : wire'[i] # Done
      BY <1>1, <3>1
    <3> QED BY <1>1, <3>2 DEF Members
  <2>2. ASSUME ~cut PROVE (asked \/ stage = "subscribed") /\ Live(0, current)' /\ Below(current)'
    <3>1. (asked \/ stage = "subscribed") /\ Live(0, current) /\ Below(current)
      BY <1>2, <2>2 DEF BeforeReplay
    <3>2. PICK c \in Nat : c = current
      BY <1>0
    <3>3. Head(wire) = c + 1 /\ Live(0, c + 1)'
      BY <1>0, <3>1, <3>2, LiveRead
    <3>4. Live(0, current)'
      BY <3>3 DEF Live
    <3>5. Below(c + 1)'
      <4>1. PICK f \in Numbered : f = Head(wire)
        OBVIOUS
      <4>2. f \in Nat /\ f = c + 1 /\ c + 1 \in Nat /\ c <= c + 1 /\ f <= c + 1
        BY <1>0, <3>3, <4>1
      <4>3. replayed' = replayed \/ replayed' = Append(replayed, f)
        BY <4>1
      <4> QED BY <3>1, <3>2, <4>1, <4>2, <4>3, BelowRead
    <3>6. Below(current)'
      BY <3>3, <3>5 DEF Below
    <3> QED BY <3>1, <3>4, <3>6
  <2> QED BY <1>0, <2>1, <2>2 DEF UnderReplay, BeforeReplay
<1>3. CASE ExitComesFirst
  <2>1. PICK i \in 1..Len(wire) : wire[i] = Exit /\ \A j \in 1..i : wire[j] # Done
    BY <1>3 DEF ExitComesFirst
  <2>2. i # 1
    BY <1>0, <1>1, <2>1
  <2>3. PICK k \in 1..Len(wire') : k = i - 1 /\ k + 1 = i
    BY <1>1, <2>2
  <2>4. wire'[k] = Exit
    BY <1>1, <2>1, <2>3
  <2>5. ASSUME NEW j \in 1..k PROVE wire'[j] # Done
    <3>1. j \in 1..Len(wire') /\ j + 1 \in 1..i
      BY <1>1, <2>3
    <3> QED BY <1>1, <2>1, <3>1
  <2>6. ExitComesFirst'
    BY <2>4, <2>5 DEF ExitComesFirst
  <2> QED BY <2>6 DEF UnderReplay
<1>4. CASE ~asked /\ replay = "open" /\ Replaying
  <2>1. Replaying'
    BY <1>4, ReplayingRead
  <2> QED BY <1>4, <2>1 DEF UnderReplay
<1> QED BY <1>2, <1>3, <1>4 DEF UnderReplay

(* What follows the replay continues it.                                   *)
LEMMA CompleteRead ==
    ASSUME ChannelInv, TakesFrame, Complete, Live(0, current), Head(wire) \in Numbered,
           stream' = Append(stream, Head(wire)), replayed' = Append(replayed, Head(wire)),
           current' = Head(wire)
    PROVE  Complete' /\ Live(0, current)'
<1>0. Exit \notin Numbered /\ Numbered \subseteq Nat /\ replayed \in Seq(Numbered)
  BY LinkFacts, StreamFacts
<1>1. PICK c \in Nat : c = current
  BY LinkFacts
<1>2. Head(wire) = c + 1 /\ Live(0, c + 1)'
  BY <1>0, <1>1, LiveRead
<1>3. Live(0, current)'
  BY <1>2 DEF Live
<1>4. PICK f \in Numbered : f = Head(wire)
  OBVIOUS
<1>5. f \in Nat /\ f = c + 1 /\ c + 1 \in Nat /\ c <= c + 1 /\ f <= c + 1
  BY <1>0, <1>2, <1>4
<1>6. Below(c + 1)'
  <2>1. Below(c) /\ replayed' = Append(replayed, f) /\ stream' = Append(stream, f)
    BY <1>1, <1>4 DEF Complete
  <2> QED BY <1>1, <1>4, <1>5, <2>1, BelowRead
<1>7. Below(current)'
  BY <1>2, <1>6 DEF Below
<1>8. Members(replayed') = 1..current'
  <2>1. Members(replayed') = Members(replayed) \cup {f}
    BY <1>0, <1>4, AppendMembers
  <2>2. Members(replayed) = 1..c /\ current' = c + 1
    BY <1>1, <1>2 DEF Complete
  <2>3. 1..c + 1 = 1..c \cup {c + 1}
    BY <1>1
  <2> QED BY <1>5, <2>1, <2>2, <2>3
<1> QED BY <1>3, <1>7, <1>8 DEF Complete

LEMMA AttachedRead ==
    ASSUME ChannelInv, TakesFrame, ~closed, Attached, Live(0, current), Head(wire) \in Numbered,
           stream' = Append(stream, Head(wire)), current' = Head(wire), UNCHANGED sessionVars
    PROVE  Attached' /\ Live(0, current)'
<1>0. Exit \notin Numbered /\ Numbered \subseteq Nat /\ Numbered \subseteq Events
      /\ Events \subseteq Nat /\ nextSeq \in Nat
      /\ \A i \in 1..Len(stream) : stream[i] \in Nat
  <2>1. MaxOutputs \in Nat /\ Numbered = 1..MaxOutputs /\ Exit = MaxOutputs + 1
    BY LinkFacts
  <2>2. /\ Events = 1..MaxOutputs + 3 /\ nextSeq \in Nat /\ Events \subseteq Nat
        /\ \A i \in 1..Len(stream) : stream[i] \in Events
    BY StreamFacts
  <2>3. Exit \notin Numbered /\ Numbered \subseteq Nat /\ Numbered \subseteq Events
    BY <2>1, <2>2
  <2> QED BY <2>2, <2>3
<1>1. PICK c \in Nat : c = current
  BY LinkFacts
<1>2. Head(wire) = c + 1 /\ Live(0, c + 1)'
  BY <1>0, <1>1, LiveRead
<1>3. Live(0, current)'
  BY <1>2 DEF Live
<1>4. /\ DOMAIN stream' = 1..Len(stream) + 1 /\ DOMAIN stream = 1..Len(stream)
      /\ Len(stream) \in Nat
      /\ \A i \in 1..Len(stream) : stream'[i] = stream[i]
      /\ stream'[Len(stream) + 1] = c + 1
      /\ Members(stream') = Members(stream) \cup {c + 1}
  <2>1. PICK f \in Events : f = Head(wire)
    BY <1>0
  <2>2. stream' = Append(stream, f) /\ f = c + 1
    BY <1>2, <2>1
  <2> QED BY <2>2, Streamed
<1>5. \A i \in 1..Len(stream) : stream[i] <= c
  BY <1>1, <1>4 DEF Attached, ChannelInv, EndsLast
<1>6. UNCHANGED <<outputs, nextSeq>> /\ current' = c + 1
  BY <1>2 DEF sessionVars
<1>7. Members(outputs') = 1..nextSeq' - 1 /\ nextSeq' - 1 <= current'
  <2>1. nextSeq - 1 <= c
    BY <1>1 DEF Attached
  <2>2. nextSeq - 1 <= c + 1
    BY <1>0, <2>1
  <2> QED BY <1>6, <2>2 DEF Attached
<1>8. nextSeq'..current' \subseteq Members(stream')
  <2>1. nextSeq..c \subseteq Members(stream)
    BY <1>1 DEF Attached
  <2>2. \A k \in nextSeq..c + 1 : k \in nextSeq..c \/ k = c + 1
    BY <1>0
  <2> QED BY <1>4, <1>6, <2>1, <2>2
<1>9. ASSUME NEW i \in DOMAIN stream', NEW j \in DOMAIN stream', i < j, stream'[i] >= nextSeq'
      PROVE  stream'[i] < stream'[j]
  <2>1. i \in 1..Len(stream) /\ stream'[i] = stream[i] /\ stream[i] <= c /\ stream[i] \in Nat
    BY <1>0, <1>4, <1>5, <1>9
  <2>2. CASE j = Len(stream) + 1
    BY <1>4, <2>1, <2>2
  <2>3. CASE j \in 1..Len(stream)
    BY <1>4, <1>6, <1>9, <2>1, <2>3 DEF Attached
  <2> QED BY <1>4, <2>2, <2>3
<1>10. ASSUME NEW i \in DOMAIN stream' PROVE stream'[i] \in Terminal \/ stream'[i] <= current'
  <2>1. CASE i \in 1..Len(stream)
    BY <1>0, <1>4, <1>5, <1>6, <2>1
  <2>2. CASE i = Len(stream) + 1
    BY <1>4, <1>6, <2>2
  <2> QED BY <1>4, <2>1, <2>2
<1> QED BY <1>3, <1>7, <1>8, <1>9, <1>10 DEF Attached

LEMMA HoleReadsOutput ==
    ASSUME ChannelInv, HoleInv, ReadsOutput
    PROVE  HoleInv'
<1>0. /\ UNCHANGED <<clients, dial, cut, asked, closed, replay, short, seq, ended>>
      /\ UNCHANGED sessionVars /\ ~closed /\ current' = Head(wire)
      /\ replayed' = (IF replay # "none" THEN Append(replayed, Head(wire)) ELSE replayed)
  BY DEF ReadsOutput, Reading, runnerVars
<1>1. TakesFrame /\ Head(wire) \in Numbered
  BY DEF ReadsOutput, Reading, TakesFrame, Numbered, runnerVars
<1>2. Served'
  BY <1>0 DEF HoleInv, Served
<1>3. Heard'
  BY <1>0, <1>1, HeardTaken
<1>4. ASSUME Whole' PROVE Phased' /\ Accounted'
  <2>1. stream' = Append(stream, Head(wire)) /\ ~dropped
    BY <1>4 DEF ReadsOutput, Whole
  <2>2. Whole /\ Phased /\ Accounted
    BY <1>0, <1>4, <2>1 DEF HoleInv, Whole, sessionVars
  <2>3. Phased'
    BY <1>0, <2>2 DEF Phased, sessionVars
  <2>4. stage' = stage
    BY <1>0 DEF sessionVars
  <2>5. stage = "subscribed" \/ replay = "open" => UnderReplay'
    BY <1>0, <1>1, <2>1, <2>2, <2>4, UnderReplayRead DEF Accounted
  <2>6. replay = "done" => Complete' /\ Live(0, current)'
    BY <1>0, <1>1, <2>1, <2>2, CompleteRead DEF Accounted
  <2>7. stage \in {"replayed", "running"} => Attached' /\ Live(0, current)'
    BY <1>0, <1>1, <2>1, <2>2, AttachedRead DEF Accounted
  <2> QED BY <1>0, <2>3, <2>4, <2>5, <2>6, <2>7 DEF Accounted
<1> QED BY <1>2, <1>3, <1>4 DEF HoleInv

(* The end of the replay is read when the request has all of it.           *)
LEMMA NoDoneWhenLive ==
    ASSUME ChannelInv, TakesFrame, Live(0, current)
    PROVE  Head(wire) # Done
<1>1. PICK c \in Nat : c = current
  BY LinkFacts
<1>2. (Head(wire) = c + 1 /\ c + 1 <= seq) \/ Head(wire) = Exit
  BY <1>1, LiveRead
<1> QED BY <1>1, <1>2, LinkFacts

LEMMA DoneMeansReplaying ==
    ASSUME ChannelInv, TakesFrame, UnderReplay, Head(wire) = Done
    PROVE  ~asked /\ replay = "open" /\ Replaying
<1>1. Head(wire) = wire[1] /\ 1 \in 1..Len(wire) /\ DOMAIN wire = 1..Len(wire)
      /\ Len(wire) \in Nat
  BY Taken, LinkFacts
<1>2. ~BeforeReplay
  BY <1>1 DEF BeforeReplay, Members
<1>3. ~ExitComesFirst
  BY <1>1 DEF ExitComesFirst
<1> QED BY <1>2, <1>3 DEF UnderReplay

LEMMA ReplayEnds ==
    ASSUME ChannelInv, TakesFrame, Replaying, Head(wire) = Done,
           UNCHANGED <<current, replayed, stream>>
    PROVE  Complete' /\ Live(0, current)'
<1>0. /\ seq \in Nat /\ seq <= MaxOutputs /\ Done = MaxOutputs + 2 /\ MaxOutputs \in Nat
      /\ current \in Nat /\ Members(replayed) \subseteq Numbered /\ Numbered = 1..MaxOutputs
  BY LinkFacts, StreamFacts
<1>1. Len(wire) \in Nat \ {0} /\ Head(wire) = wire[1]
  BY Taken
<1>2. PICK d \in 1..Len(wire), r \in 0..seq : ReplayOnWire(d, r)
  BY DEF Replaying
<1>3. d = 1
  <2> SUFFICES ASSUME d # 1 PROVE FALSE
    OBVIOUS
  <2>1. 1 \in 1..d - 1 /\ d \in Nat /\ r \in Nat /\ r <= MaxOutputs
    BY <1>0, <1>1
  <2>2. IF 1 + r >= d THEN wire[1] + d = 1 + r + 1 ELSE wire[1] \in 1..r
    BY <1>2, <2>1 DEF ReplayOnWire
  <2>3. IF 1 + r >= d THEN Done + d = 1 + r + 1 ELSE Done \in 1..r
    BY <1>1, <2>2
  <2> QED BY <1>0, <2>1, <2>3
<1>4. r \in Nat /\ Live(1, r) /\ Below(r) /\ current = r
  BY <1>0, <1>2, <1>3 DEF ReplayOnWire
<1>5. Live(0, current)'
  <2>1. Live(1 - 1, r)'
    BY <1>4, LiveShifted
  <2>2. 1 - 1 = 0 /\ current' = r
    BY <1>4
  <2> QED BY <2>1, <2>2 DEF Live
<1>6. Members(replayed) = 1..current
  <2>1. \A m \in 1..r : m \in Members(replayed)
    BY <1>2, <1>3, <1>4 DEF ReplayOnWire
  <2>2. \A m \in Members(replayed) : m \in 1..r
    BY <1>0, <1>4 DEF Below
  <2> QED BY <1>4, <2>1, <2>2
<1>7. Complete'
  BY <1>4, <1>6 DEF Complete, Below
<1> QED BY <1>5, <1>7

LEMMA HoleReadsDone ==
    ASSUME ChannelInv, HoleInv, ReadsDone
    PROVE  HoleInv'
<1>0. /\ UNCHANGED <<clients, dial, cut, asked, closed, current, replayed, stream, dropped,
                     short, seq, ended>>
      /\ UNCHANGED sessionVars /\ ~closed /\ Head(wire) = Done
      /\ replay' = (IF replay = "open" THEN "done" ELSE replay)
  BY DEF ReadsDone, Reading, AfterDone, runnerVars
<1>1. TakesFrame
  BY <1>0 DEF ReadsDone, Reading, TakesFrame
<1>2. Served'
  BY <1>0 DEF HoleInv, Served
<1>3. Heard'
  BY <1>0, <1>1, HeardTaken
<1>4. ASSUME Whole' PROVE Phased' /\ Accounted'
  <2>1. Whole /\ Phased /\ Accounted
    BY <1>0, <1>4 DEF HoleInv, Whole, sessionVars
  <2>2. stage = "subscribed" \/ replay = "open" => ~asked /\ replay = "open" /\ Replaying
    BY <1>0, <1>1, <2>1, DoneMeansReplaying DEF Accounted
  <2>3. ~(replay = "done" \/ stage \in {"replayed", "running"})
    BY <1>0, <1>1, <2>1, NoDoneWhenLive DEF Accounted
  <2>4. replay = "open" /\ stage = "replaying" /\ ~asked /\ Replaying
    BY <2>1, <2>2, <2>3 DEF Whole, Phased, ChannelInv, SessionType
  <2>5. Complete' /\ Live(0, current)'
    BY <1>0, <1>1, <2>4, ReplayEnds
  <2>6. stage' = "replaying" /\ replay' = "done" /\ ~asked'
    BY <1>0, <2>4 DEF sessionVars
  <2>7. Phased'
    BY <2>6 DEF Phased
  <2> QED BY <2>5, <2>6, <2>7 DEF Accounted
<1> QED BY <1>2, <1>3, <1>4 DEF HoleInv

-----------------------------------------------------------------------------
(* The reader stops: what is missing then is what it has reported missing. *)
LEMMA HoleStops ==
    ASSUME ChannelInv, HoleInv, NEW event \in Terminal, ~closed, Stops(event), wire' = <<>>,
           Served',
           Whole /\ (replay = "done" \/ stage \in {"replayed", "running"}) => current' = current,
           current' <= seq, UNCHANGED <<seq, ended, asked, replayed>>, UNCHANGED sessionVars
    PROVE  HoleInv'
<1>0. /\ closed' /\ dropped' = (dropped \/ Len(stream) = Slots)
      /\ replay' = (IF replay = "open" THEN "done" ELSE replay)
      /\ short' = (short \/ replay = "open") /\ stream' = WithTerminal(event)
  BY DEF Stops, AfterDone
<1>1. Heard'
  <2>1. DOMAIN wire' = {}
    OBVIOUS
  <2> QED BY <2>1 DEF Heard
<1>2. ASSUME Whole' PROVE Phased' /\ Accounted'
  <2>1. ~short /\ replay # "open" /\ ~dropped /\ Len(stream) # Slots /\ replay' = replay
    BY <1>0, <1>2 DEF Whole
  <2>2. Whole /\ Phased /\ Accounted
    BY <1>2, <2>1 DEF HoleInv, Whole, sessionVars
  <2>3. event \in Events /\ Slots \in Nat /\ Len(stream) \in Nat /\ Len(stream) <= Slots
    BY StreamFacts, LimitAssumption DEF ChannelInv, ReaderType
  <2>4. stream' = Append(stream, event)
    BY <1>0, <2>1, <2>3 DEF WithTerminal
  <2>5. /\ DOMAIN stream' = 1..Len(stream) + 1 /\ DOMAIN stream = 1..Len(stream)
        /\ \A i \in 1..Len(stream) : stream'[i] = stream[i]
        /\ stream'[Len(stream) + 1] = event
        /\ Members(stream') = Members(stream) \cup {event}
    BY <2>3, <2>4, Streamed
  <2>6. \A i \in DOMAIN stream : stream[i] \notin Terminal /\ stream[i] \in Nat
    BY <2>5, StreamFacts DEF ChannelInv, EndsLast
  <2>7. Phased'
    BY <2>1, <2>2 DEF Phased, sessionVars
  <2>8. ASSUME replay = "done" PROVE Complete'
    <3>1. Complete /\ current' = current
      BY <2>2, <2>8 DEF Accounted
    <3>2. \A i \in DOMAIN stream' : stream'[i] \in Terminal \/ stream'[i] <= current
      BY <2>3, <2>5, <3>1 DEF Complete, Below
    <3> QED BY <3>1, <3>2 DEF Complete, Below
  <2>9. ASSUME stage \in {"replayed", "running"} PROVE Attached'
    <3>1. Attached /\ current' = current /\ UNCHANGED <<outputs, nextSeq>>
      BY <2>2, <2>9 DEF Accounted, sessionVars
    <3>2. \A i \in DOMAIN stream' : stream'[i] \in Terminal \/ stream'[i] <= current
      BY <2>3, <2>5, <3>1 DEF Attached
    <3>3. ASSUME NEW i \in DOMAIN stream', NEW j \in DOMAIN stream', i < j, stream'[i] >= nextSeq
          PROVE  stream'[i] < stream'[j]
      <4>1. i \in 1..Len(stream) /\ stream'[i] = stream[i]
        BY <2>3, <2>5, <3>3
      <4>2. CASE j \in 1..Len(stream)
        BY <2>5, <3>1, <3>3, <4>1, <4>2 DEF Attached
      <4>3. CASE j = Len(stream) + 1
        <5>1. stream[i] \in Nat /\ stream[i] <= current /\ current \in Nat
              /\ current <= MaxOutputs /\ MaxOutputs \in Nat
              /\ Terminal = {MaxOutputs + 1, MaxOutputs + 3}
          BY <2>5, <2>6, <3>1, <4>1, LinkFacts, StreamFacts DEF Attached
        <5>2. stream'[j] = event
          BY <2>5, <4>3
        <5> QED BY <4>1, <5>1, <5>2
      <4> QED BY <2>5, <4>2, <4>3
    <3>4. nextSeq..current \subseteq Members(stream')
      BY <2>5, <3>1 DEF Attached
    <3> QED BY <3>1, <3>2, <3>3, <3>4 DEF Attached
  <2>10. stage' = stage
    BY DEF sessionVars
  <2> QED BY <1>0, <2>1, <2>7, <2>8, <2>9, <2>10 DEF Accounted
<1> QED BY <1>1, <1>2 DEF HoleInv

LEMMA HoleReader == ChannelInv /\ HoleInv /\ (Reader \/ Breaks) => HoleInv'
<1> SUFFICES ASSUME ChannelInv, HoleInv, Reader \/ Breaks PROVE HoleInv'
  OBVIOUS
<1>1. CASE ReadsOutput
  BY <1>1, HoleReadsOutput
<1>2. CASE ReadsDone
  BY <1>2, HoleReadsDone
<1>3. CASE ReadsExit
  <2>0. /\ ~closed /\ wire # <<>> /\ Head(wire) = Exit /\ wire' = <<>> /\ current' = seq
        /\ Stops(Exit) /\ Exit \in Terminal /\ seq \in Nat
        /\ UNCHANGED <<replayed, dial, cut, asked, seq, ended, clients>> /\ UNCHANGED sessionVars
    BY <1>3, LinkFacts DEF ReadsExit, Reading, runnerVars, Terminal
  <2>1. Served'
    BY <2>0 DEF HoleInv, Served
  <2>2. ASSUME Whole, replay = "done" \/ stage \in {"replayed", "running"}
        PROVE  current' = current
    <3>1. Live(0, current)
      BY <2>0, <2>2 DEF HoleInv, Accounted
    <3>2. /\ current \in Nat /\ current <= seq /\ Exit \notin Numbered /\ Len(wire) \in Nat
          /\ wire \in Seq(Frames) /\ seq <= MaxOutputs /\ Exit = MaxOutputs + 1
          /\ MaxOutputs \in Nat
      BY LinkFacts DEF HoleInv, Heard
    <3>3. Len(wire) \in Nat \ {0} /\ Head(wire) = wire[1]
      BY <2>0, <3>2, TailOf
    <3>4. 1 \in 0 + 1..Len(wire)
      BY <3>3
    <3>5. wire[1] = IF current + (1 - 0) <= seq THEN current + (1 - 0) ELSE Exit
      BY <3>1, <3>4 DEF Live
    <3>6. ~(current + (1 - 0) <= seq)
      BY <2>0, <3>2, <3>3, <3>5
    <3> QED BY <2>0, <3>2, <3>6
  <2>3. current' <= seq
    BY <2>0
  <2> QED BY <2>0, <2>1, <2>2, <2>3, HoleStops
<1>4. CASE Breaks
  <2>0. /\ ~closed /\ wire' = <<>> /\ cut' /\ Stops(Lost) /\ Lost \in Terminal
        /\ UNCHANGED <<current, replayed, asked, seq, ended>> /\ UNCHANGED sessionVars
    BY <1>4 DEF Breaks, runnerVars, Terminal
  <2>1. Served' /\ current' <= seq
    BY <2>0 DEF HoleInv, Served, Heard
  <2> QED BY <2>0, <2>1, HoleStops
<1> QED BY <1>1, <1>2, <1>3, <1>4 DEF Reader

-----------------------------------------------------------------------------
(* The pump: the next output the stream has is the next one the session    *)
(* expects.                                                                *)
LEMMA AttachedPumped ==
    ASSUME ChannelInv, Attached, PumpsOutput
    PROVE  Attached'
<1>0. /\ UNCHANGED current /\ stream' = Tail(stream) /\ stream # <<>>
      /\ stream \in Seq(Events) /\ Head(stream) \in Numbered
      /\ nextSeq \in Nat \ {0} /\ current \in Nat
      /\ outputs \in Seq(Numbered)
  BY LinkFacts, StreamFacts DEF PumpsOutput, ChannelInv, SessionType
<1>1. /\ Len(stream) \in Nat \ {0} /\ Len(stream') = Len(stream) - 1
      /\ \A i \in DOMAIN stream' : i + 1 \in DOMAIN stream /\ stream'[i] = stream[i + 1]
      /\ Head(stream) = stream[1] /\ 1 \in DOMAIN stream /\ DOMAIN stream = 1..Len(stream)
      /\ DOMAIN stream' = 1..Len(stream')
  <2>1. /\ Tail(stream) \in Seq(Events) /\ Len(stream) \in Nat \ {0}
        /\ Len(Tail(stream)) = Len(stream) - 1
        /\ \A i \in DOMAIN Tail(stream) : i + 1 \in DOMAIN stream /\ Tail(stream)[i] = stream[i + 1]
        /\ 1 \in DOMAIN stream /\ Head(stream) = stream[1]
    BY <1>0, TailOf
  <2>2. DOMAIN Tail(stream) = 1..Len(Tail(stream)) /\ DOMAIN stream = 1..Len(stream)
    BY <1>0, <2>1, LenProperties
  <2> QED BY <1>0, <2>1, <2>2
<1>2. PICK h \in Numbered : h = Head(stream)
  BY <1>0
<1>3. h \in Nat /\ h \notin Terminal /\ stream[1] = h /\ h <= current
  <2>1. h \in Nat /\ h \notin Terminal
    <3>1. /\ Numbered = 1..MaxOutputs /\ MaxOutputs \in Nat
          /\ Terminal = {MaxOutputs + 1, MaxOutputs + 3}
      BY LinkFacts, StreamFacts
    <3> QED BY <1>2, <3>1
  <2>2. stream[1] = h
    BY <1>1, <1>2
  <2> QED BY <1>1, <2>1, <2>2 DEF Attached
<1>4. \A i \in DOMAIN stream : stream[i] \in Nat
  BY <1>1, StreamFacts
<1>5. \A k \in Members(stream) : k # h => k \in Members(stream')
  <2> SUFFICES ASSUME NEW i \in DOMAIN stream, stream[i] # h PROVE stream[i] \in Members(stream')
    BY DEF Members
  <2>1. PICK j \in DOMAIN stream' : j + 1 = i
    <3>1. i # 1
      BY <1>3
    <3>2. i - 1 \in DOMAIN stream' /\ (i - 1) + 1 = i
      BY <1>1, <3>1
    <3> QED BY <3>2
  <2>2. stream'[j] = stream[i]
    BY <1>1, <2>1
  <2> QED BY <2>2 DEF Members
<1>6. \A i \in DOMAIN stream' : stream'[i] \in Terminal \/ stream'[i] <= current
  BY <1>1 DEF Attached
<1>7. ASSUME NEW i \in DOMAIN stream', NEW j \in DOMAIN stream', i < j, stream'[i] >= nextSeq
      PROVE  stream'[i] < stream'[j]
  <2>1. /\ i + 1 \in DOMAIN stream /\ j + 1 \in DOMAIN stream /\ i + 1 < j + 1
        /\ stream'[i] = stream[i + 1] /\ stream'[j] = stream[j + 1]
    BY <1>1, <1>7
  <2> QED BY <1>7, <2>1 DEF Attached
<1>8. CASE h >= nextSeq
  <2>1. outputs' = Append(outputs, h) /\ nextSeq' = h + 1
    BY <1>2, <1>8 DEF PumpsOutput
  <2>2. h = nextSeq
    <3> SUFFICES ASSUME h # nextSeq PROVE FALSE
      OBVIOUS
    <3>1. nextSeq \in nextSeq..current
      BY <1>0, <1>3, <1>8
    <3>2. PICK p \in DOMAIN stream : stream[p] = nextSeq
      BY <3>1 DEF Attached, Members
    <3>3. 1 < p
      BY <1>1, <1>3, <3>2
    <3>4. stream[1] < stream[p]
      BY <1>1, <1>3, <1>8, <3>3 DEF Attached
    <3> QED BY <1>0, <1>3, <1>8, <3>2, <3>4
  <2>3. Members(outputs') = 1..nextSeq' - 1
    <3>1. Members(outputs') = Members(outputs) \cup {h}
      BY <1>0, <2>1, AppendMembers
    <3>2. Members(outputs) = 1..nextSeq - 1
      BY DEF Attached
    <3>3. 1..nextSeq = (1..nextSeq - 1) \cup {nextSeq} /\ nextSeq' - 1 = nextSeq
      BY <1>0, <2>1, <2>2
    <3> QED BY <2>2, <3>1, <3>2, <3>3
  <2>4. nextSeq' - 1 <= current'
    BY <1>0, <1>3, <2>1
  <2>5. nextSeq'..current' \subseteq Members(stream')
    <3>1. \A k \in nextSeq + 1..current : k \in nextSeq..current /\ k # h
      BY <1>0, <2>2
    <3> QED BY <1>0, <1>5, <2>1, <2>2, <3>1 DEF Attached
  <2>6. ASSUME NEW i \in DOMAIN stream', NEW j \in DOMAIN stream', i < j, stream'[i] >= nextSeq'
        PROVE  stream'[i] < stream'[j]
    <3>1. stream'[i] \in Nat
      BY <1>1, <1>4
    <3>2. stream'[i] >= nextSeq
      BY <1>0, <2>1, <2>2, <2>6, <3>1
    <3> QED BY <1>7, <2>6, <3>2
  <2> QED BY <1>0, <1>6, <2>3, <2>4, <2>5, <2>6 DEF Attached
<1>9. CASE ~(h >= nextSeq)
  <2>1. outputs' = outputs /\ nextSeq' = nextSeq
    BY <1>2, <1>9 DEF PumpsOutput
  <2>2. nextSeq..current \subseteq Members(stream')
    <3>1. \A k \in nextSeq..current : k # h
      BY <1>0, <1>3, <1>9
    <3> QED BY <1>5, <3>1 DEF Attached
  <2> QED BY <1>0, <1>6, <1>7, <2>1, <2>2 DEF Attached
<1> QED BY <1>8, <1>9

LEMMA HolePump == ChannelInv /\ HoleInv /\ Pump => HoleInv'
<1> SUFFICES ASSUME ChannelInv, HoleInv, Pump PROVE HoleInv'
  OBVIOUS
<1>1. CASE PumpsOutput
  <2>0. /\ UNCHANGED <<closed, current, replay, replayed, dropped, short, stage,
                       seq, ended, clients, dial, wire, cut, asked>>
        /\ stage = "running"
    BY <1>1 DEF PumpsOutput, runnerVars, linkVars
  <2>1. Served' /\ Heard'
    BY <2>0 DEF HoleInv, Served, Heard
  <2>2. ASSUME Whole' PROVE Phased' /\ Accounted'
    <3>1. Whole /\ Phased /\ Accounted
      BY <2>0, <2>2 DEF HoleInv, Whole
    <3>2. Phased' /\ replay = "none"
      BY <2>0, <3>1 DEF Phased
    <3>3. Attached'
      BY <1>1, <2>0, <3>1, AttachedPumped DEF Accounted
    <3>4. (~closed => Live(0, current))'
      BY <2>0, <3>1 DEF Accounted, Live, Latest
    <3> QED BY <2>0, <3>2, <3>3, <3>4 DEF Accounted
  <2> QED BY <2>1, <2>2 DEF HoleInv
<1>2. CASE PumpsEnd
  BY <1>2 DEF PumpsEnd, HoleInv, Served, Heard, Whole, runnerVars, linkVars
<1> QED BY <1>1, <1>2 DEF Pump

LEMMA HoleRestarts == ChannelInv /\ HoleInv /\ DaemonRestarts => HoleInv'
<1> SUFFICES ASSUME ChannelInv, HoleInv, DaemonRestarts PROVE HoleInv'
  OBVIOUS
<1>1. cut' /\ stage' = "none" /\ wire' = <<>> /\ UNCHANGED <<current, seq>>
  BY DEF DaemonRestarts, runnerVars
<1>2. DOMAIN wire' = {}
  BY <1>1
<1> QED BY <1>1, <1>2 DEF HoleInv, Served, Heard, Whole

LEMMA HoleInit == Init => HoleInv
  BY DEF Init, HoleInv, Served, Heard, Whole

LEMMA HoleStep == ChannelInv /\ ChannelInv' /\ HoleInv /\ [Next]_vars => HoleInv'
<1>1. ASSUME ChannelInv, HoleInv, UNCHANGED vars PROVE HoleInv'
  <2>1. Served'
    BY <1>1 DEF HoleInv, Served, vars
  <2> QED BY <1>1, <2>1, HoleKept DEF vars, readerVars, sessionVars
<1> QED BY <1>1, HoleRunner, HoleGrace, HoleDials, HoleAttach, HoleReader, HolePump, HoleRestarts
        DEF Next

(* However replay, live output, cuts and restarts interleave, what the     *)
(* session, its stream, the waiting request and the wire hold together is  *)
(* everything the runner has said (main.go handleFrame, client.go          *)
(* handleFrame, session.go newSession).                                    *)
THEOREM HoleInvariant == Spec => []HoleInv
<1>1. Init => HoleInv
  BY HoleInit
<1>2. ChannelInv /\ ChannelInv' /\ HoleInv /\ [Next]_vars => HoleInv'
  BY HoleStep
<1> QED BY <1>1, <1>2, ChannelInvariant, PTL DEF Spec

-----------------------------------------------------------------------------
(* The exit carries no number: the reader takes the runner's last one as   *)
(* current, and who is told of the exit has come that far.                 *)
ExitCounted == Exit \in Members(stream) => current = seq
ToldOnce == told = "exit" => stage = "over"
ExitLast == told = "exit" /\ ~dropped /\ ~short => Members(outputs) = 1..seq

ExitInv == ExitCounted /\ ToldOnce /\ ExitLast

LEMMA ExitKept ==
    ASSUME ChannelInv, ExitInv, ended => seq' = seq,
           UNCHANGED <<stream, current, dropped, short>>, UNCHANGED sessionVars
    PROVE  ExitInv'
<1>1. Exit \in Members(stream) \/ told = "exit" => seq' = seq
  BY DEF ChannelInv, ExitIsTrue
<1> QED BY <1>1 DEF ExitInv, ExitCounted, ToldOnce, ExitLast, sessionVars

LEMMA ExitReader == ChannelInv /\ ExitInv /\ (Reader \/ Breaks) => ExitInv'
<1> SUFFICES ASSUME ChannelInv, ExitInv, Reader \/ Breaks PROVE ExitInv'
  OBVIOUS
<1>1. UNCHANGED <<seq, stage, outputs, told>> /\ ~closed
  BY DEF Reader, ReadsOutput, ReadsDone, ReadsExit, Breaks, Reading, runnerVars, sessionVars
<1>2. Exit \notin Members(stream)
  BY <1>1 DEF ChannelInv, EndsLast, Members, Terminal
<1>3. ExitCounted'
  <2>1. CASE ReadsOutput
    <3>1. Head(wire) \in Events /\ Head(wire) # Exit /\ stream \in Seq(Events)
      BY <2>1, Numbers, StreamFacts DEF ReadsOutput, Events
    <3>2. stream' = stream \/ stream' = Append(stream, Head(wire))
      BY <2>1 DEF ReadsOutput
    <3>3. Members(Append(stream, Head(wire))) = Members(stream) \cup {Head(wire)}
      BY <3>1, AppendMembers
    <3>4. Exit \notin Members(stream')
      BY <1>2, <3>1, <3>2, <3>3
    <3> QED BY <3>4 DEF ExitCounted
  <2>2. CASE ReadsDone
    BY <1>2, <2>2 DEF ReadsDone, ExitCounted
  <2>3. CASE ReadsExit
    BY <1>1, <2>3 DEF ReadsExit, ExitCounted
  <2>4. CASE Breaks
    <3>1. Lost \in Terminal /\ Lost # Exit /\ Stops(Lost)
      BY <2>4, Numbers DEF Breaks, Terminal
    <3>2. Members(stream') \subseteq Members(stream) \cup {Lost}
      BY <1>1, <3>1, StopsLast DEF ChannelInv
    <3> QED BY <1>2, <3>1, <3>2 DEF ExitCounted
  <2> QED BY <2>1, <2>2, <2>3, <2>4 DEF Reader
<1>4. ToldOnce'
  BY <1>1 DEF ExitInv, ToldOnce
<1>5. ExitLast'
  <2>1. ~dropped' /\ ~short' => ~dropped /\ ~short
    BY DEF Reader, ReadsOutput, ReadsDone, ReadsExit, Breaks, Stops
  <2> QED BY <1>1, <2>1 DEF ExitInv, ExitLast
<1> QED BY <1>3, <1>4, <1>5 DEF ExitInv

(* The exit is the last in the stream, so nothing is left to be pumped.    *)
LEMMA ExitPump == ChannelInv /\ HoleInv /\ ExitInv /\ Pump => ExitInv'
<1> SUFFICES ASSUME ChannelInv, HoleInv, ExitInv, Pump PROVE ExitInv'
  OBVIOUS
<1>1. /\ stage = "running" /\ stream # <<>> /\ stream' = Tail(stream)
      /\ UNCHANGED <<current, dropped, short, seq>>
  BY DEF Pump, PumpsOutput, PumpsEnd, runnerVars
<1>2. /\ Members(stream') \subseteq Members(stream) /\ Head(stream) = stream[1]
      /\ 1 \in DOMAIN stream /\ DOMAIN stream = 1..Len(stream)
  BY <1>1, TailOf, StreamFacts
<1>3. ExitCounted'
  BY <1>1, <1>2 DEF ExitInv, ExitCounted
<1>4. told # "exit"
  BY <1>1 DEF ExitInv, ToldOnce
<1>5. CASE PumpsOutput
  <2>1. told' = told
    BY <1>5 DEF PumpsOutput
  <2> QED BY <1>3, <1>4, <2>1 DEF ExitInv, ToldOnce, ExitLast
<1>6. CASE PumpsEnd
  <2>1. stage' = "over" /\ outputs' = outputs /\ Head(stream) \in Terminal
        /\ (told' = "exit" => Head(stream) = Exit)
    BY <1>6 DEF PumpsEnd
  <2>2. ASSUME told' = "exit", ~dropped, ~short PROVE Members(outputs) = 1..seq
    <3>1. current = seq /\ Exit = Head(stream)
      BY <1>2, <2>1, <2>2 DEF ExitInv, ExitCounted, Members
    <3>2. Attached
      BY <1>1, <2>2 DEF HoleInv, Whole, Accounted
    <3>3. 1 = Len(stream)
      BY <1>2, <2>1 DEF ChannelInv, EndsLast
    <3>4. Members(stream) = {Exit}
      <4>1. DOMAIN stream = {1} /\ stream[1] = Exit
        BY <1>2, <3>1, <3>3
      <4> QED BY <4>1 DEF Members
    <3>5. /\ nextSeq \in Nat \ {0} /\ seq \in Nat /\ seq <= MaxOutputs
          /\ Exit = MaxOutputs + 1 /\ MaxOutputs \in Nat
      BY LinkFacts, StreamFacts
    <3>6. seq \notin nextSeq..current
      BY <3>2, <3>4, <3>5 DEF Attached
    <3>7. nextSeq - 1 = seq
      BY <3>1, <3>2, <3>5, <3>6 DEF Attached
    <3> QED BY <3>2, <3>7 DEF Attached
  <2>3. ToldOnce' /\ ExitLast'
    BY <1>1, <2>1, <2>2 DEF ToldOnce, ExitLast
  <2> QED BY <1>3, <2>3 DEF ExitInv
<1> QED BY <1>5, <1>6 DEF Pump

LEMMA ExitStep == ChannelInv /\ HoleInv /\ ExitInv /\ [Next]_vars => ExitInv'
<1> SUFFICES ASSUME ChannelInv, HoleInv, ExitInv, [Next]_vars PROVE ExitInv'
  OBVIOUS
<1>1. CASE Runner
  <2>1. /\ ended => seq' = seq
        /\ UNCHANGED readerVars /\ UNCHANGED sessionVars
    BY <1>1 DEF Runner, RunnerOutputs, RunnerEnds, RunnerReplays, RunnerRemoves, runnerVars
  <2> QED BY <2>1, ExitKept DEF readerVars
<1>2. CASE Grace \/ UNCHANGED vars
  <2>1. seq' = seq /\ UNCHANGED readerVars /\ UNCHANGED sessionVars
    BY <1>2 DEF Grace, Schedule, TimerFires, TimerDecides, RunnerLeaves, vars,
                readerVars, sessionVars
  <2> QED BY <2>1, ExitKept DEF readerVars
<1>3. CASE Dials
  BY <1>3 DEF Dials, ExitInv, ExitCounted, ToldOnce, ExitLast, Members
<1>4. CASE Attach
  <2>1. UNCHANGED <<seq, stream, current, told>> /\ stage # "over"
    BY <1>4 DEF Attach, AsksReplay, GivesUpReplay, TakesReplay, Starts,
                runnerVars, readerVars, sessionVars
  <2>2. told' # "exit"
    BY <2>1 DEF ExitInv, ToldOnce
  <2> QED BY <2>1, <2>2 DEF ExitInv, ExitCounted, ToldOnce, ExitLast
<1>5. CASE Reader \/ Breaks
  BY <1>5, ExitReader
<1>6. CASE Pump
  BY <1>6, ExitPump
<1>7. CASE DaemonRestarts
  BY <1>7 DEF DaemonRestarts, ExitInv, ExitCounted, ToldOnce, ExitLast, Members
<1> QED BY <1>1, <1>2, <1>3, <1>4, <1>5, <1>6, <1>7 DEF Next

(* Unless the replay was cut short or the stream overflowed, a session     *)
(* that has been replayed misses no output at the boundary of replay and   *)
(* live output, and one that is told of the exit has all the outputs of    *)
(* its runner (session.go newSession, applyEvent; client.go Replay).       *)
THEOREM NoSilentHoleAlways == Spec => []NoSilentHole
<1>1. Init => ExitInv
  BY DEF Init, ExitInv, ExitCounted, ToldOnce, ExitLast, Members
<1>2. ChannelInv /\ HoleInv /\ ExitInv /\ [Next]_vars => ExitInv'
  BY ExitStep
<1>3. HoleInv /\ ExitInv => NoSilentHole
  BY DEF HoleInv, Whole, Accounted, Attached, ExitInv, ExitLast, NoSilentHole
<1> QED BY <1>1, <1>2, <1>3, ChannelInvariant, HoleInvariant, PTL DEF Spec

-----------------------------------------------------------------------------
(* Whatever was lost, the session never has an output above the next it    *)
(* expects.                                                                *)
OutputsBelow == \A m \in Members(outputs) : m < nextSeq

LEMMA BelowHighest ==
    ASSUME ReaderType
    PROVE  \A m \in Members(replayed) : m < Highest(Members(replayed) \cup {current}) + 1
<1> DEFINE S == Members(replayed) \cup {current}
<1>1. S \subseteq 0..MaxOutputs
  BY LimitAssumption, ElementOfSeq DEF ReaderType, Members, Numbered
<1>2. IsFiniteSet(S)
  <2>1. IsFiniteSet(0..MaxOutputs)
    BY LimitAssumption, FS_Interval
  <2> QED BY <1>1, <2>1, FS_Subset
<1>3. S # {} /\ S \subseteq Nat
  BY <1>1, LimitAssumption
<1> HIDE DEF S
<1>4. \E n \in S : \A k \in S : k <= n
  BY <1>2, <1>3, Greatest
<1>5. Highest(S) \in S /\ \A m \in S : m <= Highest(S)
  BY <1>4 DEF Highest
<1>6. ASSUME NEW m \in S PROVE m < Highest(S) + 1
  <2>1. m \in Nat /\ Highest(S) \in Nat /\ m <= Highest(S)
    BY <1>3, <1>5
  <2> QED BY <2>1
<1> QED BY <1>6 DEF S

LEMMA PumpedIsNew ==
    ASSUME ChannelInv, OutputsBelow, PumpsOutput
    PROVE  /\ OutputsBelow'
           /\ outputs' # outputs => /\ outputs' = Append(outputs, Head(stream))
                                    /\ \A m \in Members(outputs) : m < Head(stream)
<1>1. /\ Head(stream) \in Numbered /\ Numbered \subseteq Nat /\ nextSeq \in Nat
      /\ outputs \in Seq(Numbered)
  <2>1. Numbered = 1..MaxOutputs /\ MaxOutputs \in Nat /\ nextSeq \in Nat
    BY LinkFacts, StreamFacts
  <2>2. Head(stream) \in Numbered
    BY <2>1 DEF PumpsOutput
  <2>3. outputs \in Seq(Numbered)
    BY DEF ChannelInv, SessionType
  <2> QED BY <2>1, <2>2, <2>3
<1>2. Members(outputs) \subseteq Nat
  <2>1. \A i \in DOMAIN outputs : outputs[i] \in Numbered
    BY <1>1, LenProperties, ElementOfSeq
  <2> QED BY <1>1, <2>1 DEF Members
<1>3. CASE Head(stream) >= nextSeq
  <2>1. outputs' = Append(outputs, Head(stream)) /\ nextSeq' = Head(stream) + 1
    BY <1>3 DEF PumpsOutput
  <2>2. \A m \in Members(outputs) : m < Head(stream)
    <3> SUFFICES ASSUME NEW m \in Members(outputs) PROVE m < Head(stream)
      OBVIOUS
    <3>1. m \in Nat /\ m < nextSeq /\ Head(stream) \in Nat
      BY <1>1, <1>2 DEF OutputsBelow
    <3> QED BY <1>1, <1>3, <3>1
  <2>3. Members(outputs') = Members(outputs) \cup {Head(stream)}
    BY <1>1, <2>1, AppendMembers
  <2>4. \A m \in Members(outputs') : m < Head(stream) + 1
    <3> SUFFICES ASSUME NEW m \in Members(outputs') PROVE m < Head(stream) + 1
      OBVIOUS
    <3>1. CASE m = Head(stream)
      <4>1. Head(stream) \in Nat
        BY <1>1
      <4> QED BY <3>1, <4>1
    <3>2. CASE m \in Members(outputs)
      <4>1. m \in Nat /\ m < Head(stream) /\ Head(stream) \in Nat
        BY <1>1, <1>2, <2>2, <3>2
      <4> QED BY <4>1
    <3> QED BY <2>3, <3>1, <3>2
  <2> QED BY <2>1, <2>2, <2>4 DEF OutputsBelow
<1>4. CASE ~(Head(stream) >= nextSeq)
  BY <1>4 DEF PumpsOutput, OutputsBelow
<1> QED BY <1>3, <1>4

LEMMA OutputsBelowStep == ChannelInv /\ OutputsBelow /\ [Next]_vars => OutputsBelow'
<1> SUFFICES ASSUME ChannelInv, OutputsBelow, [Next]_vars PROVE OutputsBelow'
  OBVIOUS
<1>1. CASE UNCHANGED <<outputs, nextSeq>>
  BY <1>1 DEF OutputsBelow
<1>2. CASE Dials \/ DaemonRestarts
  BY <1>2 DEF Dials, DaemonRestarts, OutputsBelow, Members
<1>3. CASE TakesReplay
  BY <1>3, BelowHighest DEF TakesReplay, OutputsBelow, ChannelInv
<1>4. CASE PumpsOutput
  BY <1>4, PumpedIsNew
<1>5. UNCHANGED <<outputs, nextSeq>> \/ Dials \/ DaemonRestarts \/ TakesReplay \/ PumpsOutput
  <2>1. Runner \/ Grace => UNCHANGED <<outputs, nextSeq>>
    BY DEF Runner, RunnerOutputs, RunnerEnds, RunnerReplays, RunnerRemoves,
           Grace, Schedule, TimerFires, TimerDecides, RunnerLeaves, sessionVars
  <2>2. Attach => TakesReplay \/ UNCHANGED <<outputs, nextSeq>>
    BY DEF Attach, AsksReplay, GivesUpReplay, Starts, sessionVars
  <2>3. Reader \/ Breaks => UNCHANGED <<outputs, nextSeq>>
    BY DEF Reader, ReadsOutput, ReadsDone, ReadsExit, Breaks, sessionVars
  <2>4. Pump => PumpsOutput \/ UNCHANGED <<outputs, nextSeq>>
    BY DEF Pump, PumpsEnd
  <2>5. UNCHANGED vars => UNCHANGED <<outputs, nextSeq>>
    BY DEF vars
  <2> QED BY <2>1, <2>2, <2>3, <2>4, <2>5 DEF Next
<1> QED BY <1>1, <1>2, <1>3, <1>4, <1>5

(* What the pump adds to a session is above everything it has, whatever    *)
(* overflowed and however its replay ended: an output is doubled by the    *)
(* replay only, and never by live traffic (session.go newSession,          *)
(* applyEvent).                                                            *)
LiveOutputIsNew ==
    stage = "running" /\ outputs' # outputs /\ stage' # "none" =>
        \E n \in Numbered : outputs' = Append(outputs, n) /\ \A m \in Members(outputs) : m < n

(* Live traffic never doubles an output, in any behaviour.                 *)
THEOREM LiveOutputIsNewAlways == Spec => [][LiveOutputIsNew]_vars
<1>1. Init => OutputsBelow
  BY DEF Init, OutputsBelow, Members
<1>2. ChannelInv /\ OutputsBelow /\ [Next]_vars => OutputsBelow'
  BY OutputsBelowStep
<1>3. ChannelInv /\ OutputsBelow /\ [Next]_vars => [LiveOutputIsNew]_vars
  <2> SUFFICES ASSUME ChannelInv, OutputsBelow, Next, stage = "running", outputs' # outputs,
                      stage' # "none"
               PROVE  \E n \in Numbered : /\ outputs' = Append(outputs, n)
                                          /\ \A m \in Members(outputs) : m < n
    BY DEF LiveOutputIsNew
  <2>1. PumpsOutput
    BY DEF Next, Runner, RunnerOutputs, RunnerEnds, RunnerReplays, RunnerRemoves,
           Grace, Schedule, TimerFires, TimerDecides, RunnerLeaves, Dials, Attach, AsksReplay,
           GivesUpReplay, TakesReplay, Starts, Reader, ReadsOutput, ReadsDone, ReadsExit,
           Breaks, Pump, PumpsEnd, DaemonRestarts, sessionVars
  <2>2. Head(stream) \in Numbered
    BY <2>1, LinkFacts DEF PumpsOutput
  <2> QED BY <2>1, <2>2, PumpedIsNew
<1> QED BY <1>1, <1>2, <1>3, ChannelInvariant, PTL DEF Spec
=============================================================================
