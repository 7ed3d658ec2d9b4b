----------------------------- MODULE MoneyLedger -----------------------------
(***************************************************************************)
(* What the v2 money commands promise their callers: each accepted command *)
(* takes effect at one instant on the rows as they are at that instant.    *)
(* No locks, no sessions, no stale reads.  MoneyChain is shown to          *)
(* implement this module.                                                  *)
(***************************************************************************)
EXTENDS MoneyPlan

VARIABLE db   \* row of every id

Init == db = [i \in Ids |-> Absent]

CreateApproval(k) ==
  /\ k.op = "createApproval" /\ ~Present(db, k.id)
  /\ ApprovalOk(db, k.id, k.units, k.cur, k.at)
  /\ db' = WithApproval(db, k.id, k.units, k.cur, k.at, k.flag)

(* Stored, and linked to at most one approval: the named one, or one whose *)
(* identity evidence matches.                                              *)
CreateCancellation(k) ==
  LET d == WithCancellation(db, k.id, k.units, k.cur, k.at)
  IN /\ k.op = "createCancellation" /\ ~Present(db, k.id)
     /\ Convertible(k.units, k.cur, k.at)
     /\ \/ db' = d
        \/ \E a \in Approvals :
             /\ a = k.to \/ (k.to = None /\ <<k.id, a>> \in Identity)
             /\ LinkOk(d, k.id, None, a)
             /\ db' = Linked(d, k.id, None, a)

Link(k) ==
  /\ k.op = "link" /\ Present(db, k.id)
  /\ LinkOk(db, k.id, db[k.id].parent, k.to)
  /\ db' = Linked(db, k.id, db[k.id].parent, k.to)

Unlink(k) ==
  /\ k.op = "unlink" /\ Present(db, k.id) /\ db[k.id].parent # None
  /\ RestoreOk(db, Detached(db, k.id), k.id)
  /\ db' = Restored(db, Detached(db, k.id), k.id)

RemoveCancellation(k) ==
  /\ k.op \in {"removeCancellation", "removeTransaction"}
  /\ k.id \in Cancellations /\ Present(db, k.id)
  /\ RestoreOk(db, Erased(db, k.id), k.id)
  /\ db' = Restored(db, Erased(db, k.id), k.id)

RemoveApproval(k) ==
  /\ k.op = "removeTransaction" /\ k.id \in Approvals /\ Present(db, k.id)
  /\ Children(db, k.id) = {}
  /\ db' = Erased(db, k.id)

SetReviewFlag(k) ==
  /\ k.op = "setReviewFlag" /\ Present(db, k.id)
  /\ k.flag = NoFlag => db[k.id].status \in Flags
  /\ IF k.id \in Approvals
     THEN /\ RecalcOk(db, k.id)
          /\ db' = Recalculate(db, k.id, k.flag, FALSE)
     ELSE db' = Flagged(db, k.id, k.flag)

Amend(k) ==
  /\ k.op = "amend" /\ k.id \in Approvals /\ Present(db, k.id)
  /\ AmendOk(db, k)
  /\ db' = Amended(db, k)

RecalculateChain(k) ==
  /\ k.op = "recalculate" /\ k.id \in Approvals /\ Present(db, k.id)
  /\ RecalcOk(db, k.id)
  /\ db' = Recalculated(db, k.id)

Next == \E k \in Commands :
  \/ CreateApproval(k) \/ CreateCancellation(k) \/ Link(k) \/ Unlink(k)
  \/ RemoveCancellation(k) \/ RemoveApproval(k) \/ SetReviewFlag(k)
  \/ Amend(k) \/ RecalculateChain(k)

Spec == Init /\ [][Next]_db
=============================================================================
