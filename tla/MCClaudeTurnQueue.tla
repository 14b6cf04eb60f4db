------------------------- MODULE MCClaudeTurnQueue -------------------------
(***************************************************************************)
(* The structured Claude runner with the values TLC checks it for.  The    *)
(* configurations choose the actors and faults a run has.                  *)
(***************************************************************************)
EXTENDS ClaudeTurnQueue, TLC

(* Messages are only compared with each other, and the order of the queue  *)
(* is the order of places: any renaming of the messages is a behaviour too.*)
Symmetry == Permutations(Messages)

=============================================================================
