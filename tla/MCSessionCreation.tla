-------------------------- MODULE MCSessionCreation --------------------------
(* The instance TLC checks: a request, and one that is sent under the same *)
(* operation id but asks for other work.                                   *)
EXTENDS SessionCreation

CONSTANTS c1, c2, opA, w1, w2

SentRequests == {[op |-> opA, work |-> w1], [op |-> opA, work |-> w2]}
=============================================================================
