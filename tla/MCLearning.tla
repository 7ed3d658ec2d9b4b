----------------------------- MODULE MCLearning ------------------------------
(***************************************************************************)
(* Instances of Learning for TLC; datasets and users are interchangeable.  *)
(***************************************************************************)
EXTENDS Learning, TLC

CONSTANTS d1, d2, e1, e2, u1, u2, l1, l2

Interchangeable == Permutations({u1, u2}) \cup Permutations({d1, d2}) \cup Permutations({e1, e2}) \cup Permutations({l1, l2})
=============================================================================
