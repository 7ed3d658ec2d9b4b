------------------------------ MODULE MCCardSms ------------------------------
(***************************************************************************)
(* Instances of CardSms for TLC.                                           *)
(***************************************************************************)
EXTENDS CardSms, TLC

CONSTANTS e1, e2, s1, s2, sched

Symmetry == Permutations({s1, s2})
PairOfTwins == {<<e1, e2>>, <<e2, e1>>}
NoTwins == {}
\* releases that read the two messages differently, and some that read worse
Readable(a, b) == [e \in Events |-> IF e = e1 THEN a ELSE b]
Releases == <<Readable("unclear", "suspicious"), Readable("approval", "unsure"),
              Readable("cancellation", "declined"), Readable("notice", "approval")>>
Sure == <<Readable("approval", "unsure")>>
=============================================================================
