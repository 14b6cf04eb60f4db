------------------------------ MODULE LaneFold ------------------------------
(***************************************************************************)
(* How one fact of the ledger changes what the daemon believes of a lane,  *)
(* and what recovery makes of the result.  A fact is a record [type, lane, *)
(* at, arg, with]; arg and with are what its payload says: the             *)
(* conversation a creation, a binding or a rebinding names, and the        *)
(* request that created it or the lane that takes it over; who asked for a *)
(* kill; where an activity came from; which lane continues this one.       *)
(***************************************************************************)
EXTENDS Naturals

CONSTANT Nothing        \* the empty string of the code

(* The facts that say something of the process or of the conversation; the *)
(* rest are administrative.                                                *)
LifecycleTypes == {"created", "launch_started", "runner_ready", "provider_bound", "attached",
                   "activity", "user_kill_requested", "runner_exited", "runner_lost",
                   "reaped", "reopened"}

NewLane == [created |-> FALSE, request |-> Nothing, conversation |-> Nothing,
            reboundAs |-> Nothing, ready |-> FALSE, attached |-> FALSE, managed |-> FALSE,
            killed |-> FALSE, initiator |-> Nothing, exited |-> FALSE, lost |-> FALSE,
            reaped |-> FALSE, reopenedAs |-> Nothing, archived |-> FALSE, closedAt |-> 0,
            lastEvent |-> 0, lastLifecycle |-> 0,
            lastActivity |-> 0, source |-> Nothing, lastHuman |-> 0, lastProvider |-> 0]

Later(a, b) == IF a > b THEN a ELSE b

(* Ended in a way no later fact of the runner takes back.                  *)
Over(s) == s.killed \/ s.exited \/ s.reaped \/ s.reopenedAs # Nothing

MayBecomeManaged(s) == ~Over(s)

(* A closing fact dates the end unless an earlier one did.                 *)
Closing(s, at) == [s EXCEPT !.managed = FALSE, !.closedAt = IF @ = 0 THEN at ELSE @]

(* The runner is there after all: a loss, and only a loss, is forgotten.   *)
Present(s) == [s EXCEPT !.closedAt = IF s.lost /\ ~Over(s) THEN 0 ELSE @,
                        !.lost = FALSE, !.managed = MayBecomeManaged(s)]

Created(s, e) ==
    IF s.created THEN s
    ELSE [s EXCEPT !.created = TRUE, !.request = e.with, !.conversation = e.arg]

Rebound(s, e) ==
    IF e.arg = s.conversation THEN [s EXCEPT !.reboundAs = e.with] ELSE s

Active(s, e) ==
    LET seen == CASE e.arg = "human" -> [s EXCEPT !.lastHuman = Later(@, e.at)]
                  [] e.arg = "provider" -> [s EXCEPT !.lastProvider = Later(@, e.at)]
                  [] OTHER -> s
    IN  IF e.at > s.lastActivity \/ (e.at = s.lastActivity /\ e.arg = "human")
        THEN [seen EXCEPT !.lastActivity = e.at, !.source = e.arg]
        ELSE seen

(* A defect for Killed: a later request takes the end over.                *)
KilledAgain(s, e) == [Closing(s, e.at) EXCEPT !.killed = TRUE, !.initiator = e.arg]

(* The first request decides who ended the lane.                           *)
Killed(s, e) ==
    IF s.killed THEN [s EXCEPT !.managed = FALSE]
    ELSE [Closing(s, e.at) EXCEPT !.killed = TRUE, !.initiator = e.arg]

ApplyLaneEvent(lane, e) ==
    LET s == [lane EXCEPT !.lastEvent = Later(@, e.at),
                          !.lastLifecycle = IF e.type \in LifecycleTypes
                                            THEN Later(@, e.at) ELSE @]
    IN CASE e.type = "created" -> Created(s, e)
         [] e.type = "provider_bound" -> [s EXCEPT !.conversation = e.arg]
         [] e.type = "provider_rebound" -> Rebound(s, e)
         [] e.type = "runner_ready" -> [Present(s) EXCEPT !.ready = TRUE]
         [] e.type = "attached" -> [Present(s) EXCEPT !.attached = TRUE]
         [] e.type = "activity" -> Active(s, e)
         [] e.type = "user_kill_requested" -> Killed(s, e)
         [] e.type = "runner_exited" -> [Closing(s, e.at) EXCEPT !.exited = TRUE]
         [] e.type = "runner_lost" -> [Closing(s, e.at) EXCEPT !.lost = TRUE]
         [] e.type = "reaped" -> [Closing(s, e.at) EXCEPT !.reaped = TRUE]
         [] e.type = "reopened" -> [Closing(s, e.at) EXCEPT !.reopenedAs = e.arg]
         [] e.type = "archived" -> [s EXCEPT !.archived = TRUE, !.managed = FALSE]
         [] OTHER -> s

-----------------------------------------------------------------------------
(* What recovery makes of a lane, given whether its process runs.          *)
ClassifyLane(s, running) ==
    IF Over(s) \/ s.archived THEN "closed"
    ELSE IF ~s.created THEN (IF running THEN "external" ELSE "closed")
    ELSE IF running THEN "live-managed" ELSE "unexpectedly-lost"

(* A lost lane with a conversation to resume is a recipe of the plan.      *)
InRecoveryPlan(s, running) ==
    ClassifyLane(s, running) = "unexpectedly-lost" /\ s.conversation # Nothing
=============================================================================
