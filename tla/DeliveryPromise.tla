--------------------------- MODULE DeliveryPromise ---------------------------
(***************************************************************************)
(* What a delivery receipt promises whoever sent a message under an        *)
(* operation id, whatever requests, answers, connections and daemons are   *)
(* lost: the runner takes the message at most once, only a message it did  *)
(* not and will not take is offered for a retry, and only a message it did *)
(* take is called accepted.  Uncertainty is only ever resolved towards     *)
(* acceptance.                                                             *)
(***************************************************************************)
EXTENDS Naturals

CONSTANT Operations

VARIABLES receipt,  \* "none", "open", "accepted", "unknown" or "retry"
          runs      \* how often the runner took the message

vars == <<receipt, runs>>

Init == /\ receipt = [m \in Operations |-> "none"]
        /\ runs = [m \in Operations |-> 0]

Becomes(m, status) == receipt' = [receipt EXCEPT ![m] = status] /\ UNCHANGED runs

Open(m) == receipt[m] \in {"none", "retry"} /\ Becomes(m, "open")

Run(m) ==
    /\ receipt[m] \in {"open", "unknown"}
    /\ runs[m] = 0
    /\ runs' = [runs EXCEPT ![m] = 1]
    /\ UNCHANGED receipt

Refuse(m) == receipt[m] = "open" /\ runs[m] = 0 /\ Becomes(m, "retry")
Doubt(m)  == receipt[m] = "open" /\ Becomes(m, "unknown")
Accept(m) == receipt[m] \in {"open", "unknown"} /\ runs[m] = 1 /\ Becomes(m, "accepted")

Next == \E m \in Operations : Open(m) \/ Run(m) \/ Refuse(m) \/ Doubt(m) \/ Accept(m)

Spec == Init /\ [][Next]_vars

=============================================================================
