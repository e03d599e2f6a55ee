---------------------------- MODULE MCRequestBatch ----------------------------
(***************************************************************************)
(* A small instance of RequestBatch: b1 is a store () to a node, sent      *)
(* again when no response came; b2 is a check_peers () of two peers, which *)
(* takes what comes and runs at the same time.                             *)
(***************************************************************************)
EXTENDS RequestBatch, TLC

CONSTANTS b1, b2, c1, c2, c3, n1, n2

MCPackets == [b \in Batches |-> IF b = b1 THEN {c1} ELSE {c2, c3}]
MCNode == c1 :> n1 @@ c2 :> n2 @@ c3 :> n1
MCNeed == [b \in Batches |-> IF b = b1 THEN 1 ELSE 0]
MCResends == [b \in Batches |-> IF b = b1 THEN 1 ELSE 0]

=============================================================================
