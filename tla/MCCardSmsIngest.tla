-------------------------- MODULE MCCardSmsIngest ---------------------------
(***************************************************************************)
(* An instance of CardSmsIngest for TLC; the posts are interchangeable.    *)
(***************************************************************************)
EXTENDS CardSmsIngest, TLC

CONSTANTS r1, r2, r3, dated, plain

Says(text, kind, value) == [text |-> text, hint |-> [kind |-> kind, value |-> value]]
MCMessages == {Says(plain, "none", 0), Says(dated, "none", 0), Says(dated, "iso", 1),
               Says(dated, "key", 1)}
Interchangeable == Permutations(Posts)
=============================================================================
