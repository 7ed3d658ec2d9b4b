------------------------------ MODULE MCOutbox -------------------------------
(***************************************************************************)
(* Instances of Outbox for TLC.                                            *)
(***************************************************************************)
EXTENDS Outbox, TLC

CONSTANTS w1, w2
Symmetry == Permutations(Workers)
=============================================================================
