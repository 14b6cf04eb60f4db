---------------------------- MODULE SessionEntry ----------------------------
(***************************************************************************)
(* What the registry promises about the entry of one session, whoever      *)
(* races to attach, lose, end or forget it: losing the socket neither ends *)
(* the session nor removes it, a recovered connection replaces only an     *)
(* unreachable one, and the entry of a running daemon disappears only      *)
(* after an end.                                                           *)
(***************************************************************************)

CONSTANTS
    Conns,      \* connections to a runner
    NoConn      \* no connection

VARIABLES
    running,    \* the daemon runs
    owner,      \* the connection that is the session's entry
    contact,    \* "live", "unreachable" or "exited"; "none" without an entry
    ending      \* the user's end of the session is recorded

entryVars == <<running, owner, contact, ending>>

Init == running = TRUE /\ owner = NoConn /\ contact = "none" /\ ending = FALSE

(* A runner answered and nothing reachable held the entry.                 *)
Attach == /\ running /\ contact \in {"none", "unreachable"}
          /\ owner' \in Conns \ {owner}
          /\ contact' = "live"
          /\ UNCHANGED <<running, ending>>

Lose == /\ contact = "live" /\ contact' = "unreachable"
        /\ UNCHANGED <<running, owner, ending>>

End == /\ contact = "live" /\ contact' = "exited"
       /\ UNCHANGED <<running, owner, ending>>

(* The user's end is recorded before anything is done about it.            *)
AskEnd == ending' = TRUE /\ UNCHANGED <<running, owner, contact>>

Forget == /\ contact = "exited" \/ (contact = "unreachable" /\ ending)
          /\ owner' = NoConn /\ contact' = "none"
          /\ UNCHANGED <<running, ending>>

(* The daemon stops, its memory is gone, and it starts again with none.    *)
Stop == /\ running /\ running' = FALSE
        /\ owner' = NoConn /\ contact' = "none"
        /\ UNCHANGED ending

Start == ~running /\ running' = TRUE /\ UNCHANGED <<owner, contact, ending>>

Next == Attach \/ Lose \/ End \/ AskEnd \/ Forget \/ Stop \/ Start

EntrySpec == Init /\ [][Next]_entryVars

=============================================================================
