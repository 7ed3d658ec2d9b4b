------------------------------ MODULE MCPushes ------------------------------
(***************************************************************************)
(* An instance of Pushes for TLC: two payments, of 85 and of 30 per cent   *)
(* of the budget, so that one of them crosses 80 and both of them 100.     *)
(***************************************************************************)
EXTENDS Pushes, TLC

CONSTANTS p1, p2

TwoPayments == p1 :> 85 @@ p2 :> 30
=============================================================================
