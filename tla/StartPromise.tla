----------------------------- MODULE StartPromise -----------------------------
(***************************************************************************)
(* What creating a session promises whoever sends an operation id, however *)
(* often and by however many it is sent, and whatever requests, launches   *)
(* and daemons fail in between: a session is made for it once and started  *)
(* at most once, after it was made, and what a caller is handed, for the   *)
(* operation and the work he asked for, was made for them and started.     *)
(***************************************************************************)
EXTENDS Naturals

CONSTANTS Callers, Sessions, Operations, Works,
          Nothing       \* the operation of a request without an id

VARIABLES made,     \* sessions [session, op, work]
          starts,   \* how often each session was started
          handed    \* the session each caller was last handed, for what he asked

vars == <<made, starts, handed>>

Makings == [session : Sessions, op : Operations \cup {Nothing}, work : Works]

Init == /\ made = {}
        /\ starts = [s \in Sessions |-> 0]
        /\ handed = [c \in Callers |-> {}]

Make(m) ==
    /\ \A n \in made : n.session # m.session /\ (m.op = Nothing \/ n.op # m.op)
    /\ made' = made \cup {m}
    /\ UNCHANGED <<starts, handed>>

Start(m) ==
    /\ starts[m.session] = 0
    /\ starts' = [starts EXCEPT ![m.session] = 1]
    /\ UNCHANGED <<made, handed>>

Hand(c, m) ==
    /\ starts[m.session] = 1
    /\ handed' = [handed EXCEPT ![c] = {m}]
    /\ UNCHANGED <<made, starts>>

Dismiss(c) == handed' = [handed EXCEPT ![c] = {}] /\ UNCHANGED <<made, starts>>

Next == \/ \E m \in Makings : Make(m)
        \/ \E m \in made : Start(m) \/ \E c \in Callers : Hand(c, m)
        \/ \E c \in Callers : Dismiss(c)

Spec == Init /\ [][Next]_vars

=============================================================================
