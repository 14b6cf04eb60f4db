------------------------- MODULE MCDeliveryReceipts -------------------------
(***************************************************************************)
(* The receipts of one session with the values TLC checks them for.        *)
(***************************************************************************)
EXTENDS DeliveryReceipts, TLC

(* Operations are only compared with each other.                           *)
Symmetry == Permutations(Operations)

=============================================================================
