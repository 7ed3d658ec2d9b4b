---------------------------- MODULE MCKnowledge -----------------------------
(***************************************************************************)
(* Instances of Knowledge for TLC.                                         *)
(***************************************************************************)
EXTENDS Knowledge, TLC

CONSTANTS m1, m2, t1, t2, s1, s2, v1

First == [source |-> s1, snapshot |-> FALSE,
          rows |-> (m1 :> [text |-> t1, edited |-> 0])]
Rival == [source |-> s2, snapshot |-> FALSE,
          rows |-> (m1 :> [text |-> t2, edited |-> 0])]
Both == [source |-> s1, snapshot |-> FALSE,
         rows |-> (m1 :> [text |-> t1, edited |-> 0]) @@ (m2 :> [text |-> t1, edited |-> 0])]
Again == [source |-> s2, snapshot |-> TRUE,
          rows |-> (m2 :> [text |-> t1, edited |-> 1])]

(* Imported in turn, two exports that differ have an effect each time: the  *)
(* second time their event is dropped.                                      *)
Differing == {First, Rival}
Shrinking == {Both, Again}
OneExport == {First}
=============================================================================
