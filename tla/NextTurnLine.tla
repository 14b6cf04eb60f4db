---------------------------- MODULE NextTurnLine ----------------------------
(***************************************************************************)
(* What a structured Claude runner promises the senders of messages,       *)
(* whatever crashes, restarts and storage errors happen in between: an     *)
(* admitted message stands in line exactly once, keeps its place, and is   *)
(* handed to Claude at most once, in the order of admission.  Nothing      *)
(* leaves the line in any other way.                                       *)
(***************************************************************************)
EXTENDS Naturals

CONSTANT Messages

VARIABLES fate,   \* "new", "saved" or "handed"
          place   \* the place in line of a saved message

vars == <<fate, place>>

Waiting == {m \in Messages : fate[m] = "saved"}

Init == /\ fate = [m \in Messages |-> "new"]
        /\ place = [m \in Messages |-> 0]

Save(m) ==
    /\ fate[m] = "new"
    /\ fate' = [fate EXCEPT ![m] = "saved"]
    /\ place'[m] \in Nat
    /\ place' = [place EXCEPT ![m] = place'[m]]
    /\ \A n \in Waiting : place[n] < place'[m]

Hand(m) ==
    /\ m \in Waiting
    /\ \A n \in Waiting : place[m] <= place[n]
    /\ fate' = [fate EXCEPT ![m] = "handed"]
    /\ place' = [place EXCEPT ![m] = 0]

Next == \E m \in Messages : Save(m) \/ Hand(m)

Spec == Init /\ [][Next]_vars

=============================================================================
