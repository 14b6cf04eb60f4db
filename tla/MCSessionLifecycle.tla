------------------------ MODULE MCSessionLifecycle -------------------------
(***************************************************************************)
(* One session's life with the values TLC checks it for.                   *)
(***************************************************************************)
EXTENDS SessionLifecycle, TLC

(* Connections are only compared with each other.                          *)
Symmetry == Permutations(Conns)

=============================================================================
