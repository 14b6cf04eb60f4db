-------------------------- MODULE MCRunnerChannel --------------------------
(* The instance TLC checks: RunnerChannel with its bounds given in the cfg. *)
EXTENDS RunnerChannel
=============================================================================
