------------------------------ MODULE MoneyPlan ------------------------------
(***************************************************************************)
(* The pure planning half of the v2 money contract: an approval and every  *)
(* cancellation linked to it form a chain, and the stored money columns of *)
(* the whole chain are recomputed from the original-currency amounts of    *)
(* its rows (packages/transaction-domain/src/plan.ts, money-math.ts).      *)
(*                                                                         *)
(* A database is a function from row ids to rows.  The id sets tell the    *)
(* transaction type apart, because the code never changes it.              *)
(***************************************************************************)
EXTENDS Naturals, FiniteSets, Functions

CONSTANTS
  Approvals,      \* ids of approval rows, ordered like the uuids of the code
  Cancellations,  \* ids of cancellation rows
  Absent,         \* what a query returns for an id that has no row
  Keep,           \* marks a row that a command does not write
  Rate,           \* Rate[d]: exchange rate on day d, 0 when no snapshot exists
  Div,            \* minor units of the foreign currency per rate unit
  MaxSafe,        \* Number.MAX_SAFE_INTEGER
  Identity,       \* pairs <<cancellation, approval>> with the same card or
                  \* member and the same authorization code or merchant
  House,          \* House[id]: the household that owns the row
  Commands        \* the commands callers may issue

Ids == Approvals \cup Cancellations
None == 0
Days == DOMAIN Rate
Currencies == {"KRW", "USD"}
Flags == {"pending_review", "duplicate_suspected"}
NoFlag == "none"
Statuses == Flags \cup {"approved", "partially_cancelled", "cancelled"}
Units == 0 .. MaxSafe

Row == [units: Units, cur: Currencies, at: Days, day: Days, amount: Units,
        cancelled: Int, origCancelled: Units, net: Units,
        parent: Approvals \cup {None}, status: Statuses]

(* The arguments of a command; a field an operation ignores has a default.  *)
(* An amendment carries the fields it changes; api tells a command that     *)
(* comes through the API's TransactionService from a direct domain call.    *)
Ops == {"createApproval", "createCancellation", "link", "unlink",
        "removeCancellation", "removeTransaction", "setReviewFlag", "amend",
        "recalculate"}
Command == [op: Ops, id: Ids, to: Ids \cup {None}, units: Units,
            cur: Currencies, at: Days, flag: Flags \cup {NoFlag},
            changes: SUBSET {"units", "cur", "at"}, api: BOOLEAN]

ASSUME CommandAssumption ==
  /\ Commands \subseteq Command /\ Commands # {}
  /\ \A k \in Commands :
       /\ k.op = "createApproval" => k.id \in Approvals
       /\ k.op = "createCancellation" => k.id \in Cancellations
       /\ k.op = "setReviewFlag" => k.flag \in {"duplicate_suspected", NoFlag}

ASSUME IdsAssumption ==
  /\ Approvals \subseteq Nat \ {None}
  /\ Cancellations \subseteq Nat \ {None}
  /\ Approvals \cap Cancellations = {}
  /\ IsFiniteSet(Ids)

ASSUME RowAssumption ==
  /\ Absent \notin Row
  /\ Keep \notin Row \cup {Absent}

ASSUME RateAssumption ==
  /\ Rate \in [Days -> Nat]
  /\ Div \in Nat \ {0}
  /\ MaxSafe \in Nat

ASSUME EvidenceAssumption ==
  /\ Identity \subseteq Cancellations \X Approvals
  /\ DOMAIN House = Ids

-----------------------------------------------------------------------------
(* money-math.ts: conversion rounds half up in integer arithmetic. *)
Krw(units, cur, day) ==
  IF cur = "KRW" THEN units ELSE (units * Rate[day] + (Div \div 2)) \div Div

HasSnapshot(cur, day) == cur = "KRW" \/ Rate[day] > 0

Convertible(units, cur, day) ==
  HasSnapshot(cur, day) /\ Krw(units, cur, day) \in Units

(* plan.ts deriveStatus: amounts outrank the review flag once a child exists. *)
DerivedStatus(flag, children, cancelled, remaining) ==
  IF children = {} THEN (IF flag = NoFlag THEN "approved" ELSE flag)
  ELSE IF remaining = 0 THEN "cancelled"
  ELSE IF cancelled > 0 THEN "partially_cancelled" ELSE "approved"

(* reviewFlagOf: the part of a status that does not follow from amounts. *)
FlagOf(status) == IF status \in Flags THEN status ELSE NoFlag

-----------------------------------------------------------------------------
Present(db, i) == db[i] # Absent
Children(db, a) == {c \in Cancellations : Present(db, c) /\ db[c].parent = a}
CancelledUnits(db, a) == SumFunction([c \in Children(db, a) |-> db[c].units])

PlanOkUnbounded(db, a, units, cur, day) ==   \* mutant: no sum check
  /\ \A c \in Children(db, a) : db[c].cur = cur
  /\ Convertible(units, cur, day)

(* planChain and planForeignChain refuse a chain for these reasons only. *)
PlanOk(db, a, units, cur, day) ==
  /\ \A c \in Children(db, a) : db[c].cur = cur
  /\ CancelledUnits(db, a) \in 0 .. units
  /\ Convertible(units, cur, day)
  /\ Convertible(units - CancelledUnits(db, a), cur, day)
  /\ \A c \in Children(db, a) : Convertible(db[c].units, cur, day)

(* Mutant of PlannedApproval: each cancellation is converted by itself and *)
(* its rounded KRW subtracted, as the legacy contract did.                 *)
SubtractRoundedKrw(db, a, units, cur, day, at, flag) ==
  LET cancelled == CancelledUnits(db, a)
      gross     == Krw(units, cur, day)
      off       == SumFunction([c \in Children(db, a) |->
                                 Krw(db[c].units, cur, day)])
  IN [units |-> units, cur |-> cur, at |-> at, day |-> day,
      amount |-> gross, cancelled |-> off,
      origCancelled |-> IF cur = "KRW" THEN 0 ELSE cancelled,
      net |-> gross - off, parent |-> None,
      status |-> DerivedStatus(flag, Children(db, a), cancelled,
                               units - cancelled)]

(* The columns planned for the approval. The remaining units are converted  *)
(* again at the approval's snapshot and the cancelled KRW is the difference,*)
(* so that the order and number of partial cancellations cannot matter.     *)
PlannedApproval(db, a, units, cur, day, at, flag) ==
  LET cancelled == CancelledUnits(db, a)
      gross     == Krw(units, cur, day)
      net       == IF units = cancelled THEN 0
                   ELSE Krw(units - cancelled, cur, day)
  IN [units |-> units, cur |-> cur, at |-> at, day |-> day,
      amount |-> gross, cancelled |-> gross - net,
      origCancelled |-> IF cur = "KRW" THEN 0 ELSE cancelled,
      net |-> net, parent |-> None,
      status |-> DerivedStatus(flag, Children(db, a), cancelled,
                               units - cancelled)]

(* The columns planned for a linked cancellation: shown at the approval's   *)
(* snapshot, no net of its own, and a duplicate suspicion is kept.          *)
PlannedChild(db, c, cur, day) ==
  [db[c] EXCEPT !.amount = Krw(db[c].units, cur, day), !.day = day,
                !.cancelled = 0, !.origCancelled = 0, !.net = 0,
                !.status = IF @ = "duplicate_suspected" THEN @ ELSE "approved"]

(* writeChain: the database after the chain of a has been written. *)
WriteChain(db, a, units, cur, day, at, flag, writeChildren) ==
  [i \in Ids |->
     IF i = a THEN PlannedApproval(db, a, units, cur, day, at, flag)
     ELSE IF writeChildren /\ i \in Children(db, a)
          THEN PlannedChild(db, i, cur, day)
          ELSE db[i]]

(* recalculateLocked: the same from the stored facts of the approval. *)
RecalcOk(db, a) == PlanOk(db, a, db[a].units, db[a].cur, db[a].day)
Recalculate(db, a, flag, writeChildren) ==
  WriteChain(db, a, db[a].units, db[a].cur, db[a].day, db[a].at, flag,
             writeChildren)
Recalculated(db, a) == Recalculate(db, a, FlagOf(db[a].status), TRUE)

-----------------------------------------------------------------------------
(* A new cancellation is stored for display at the rate of its own day and  *)
(* waits for review; it carries no net until it is linked.                  *)
NewCancellation(units, cur, at) ==
  [units |-> units, cur |-> cur, at |-> at, day |-> at,
   amount |-> Krw(units, cur, at), cancelled |-> 0, origCancelled |-> 0,
   net |-> 0, parent |-> None, status |-> "pending_review"]

(* candidateRemaining compares in the original currency. *)
Remaining(row) == IF row.cur = "KRW" THEN row.amount - row.cancelled
                  ELSE row.units - row.origCancelled

(* loadCandidates and selectCancellationParent. *)
Candidates(db, c, row) ==
  {a \in Approvals :
     /\ Present(db, a)
     /\ House[a] = House[c]
     /\ db[a].status \in {"approved", "partially_cancelled"}
     /\ <<c, a>> \in Identity
     /\ db[a].cur = row.cur
     /\ db[a].at <= row.at
     /\ Remaining(db[a]) >= row.units}

-----------------------------------------------------------------------------
(* What a committed command makes of the database, and when it is accepted. *)

(* insert of an approval: a chain without children *)
ApprovalOk(db, a, units, cur, at) == PlanOk(db, a, units, cur, at)
WithApproval(db, a, units, cur, at, flag) ==
  WriteChain(db, a, units, cur, at, at, flag, TRUE)

WithCancellation(db, c, units, cur, at) ==
  [db EXCEPT ![c] = NewCancellation(units, cur, at)]

(* claim, then the previous parent, then the new parent *)
Claimed(db, c, a) == [db EXCEPT ![c].parent = a]
Abandoned(previous, a) == {previous} \ {None, a}

Linked(db, c, previous, a) ==
  LET d == Claimed(db, c, a)
  IN [i \in Ids |->
        IF i \in {a} \cup Children(d, a) THEN Recalculated(d, a)[i]
        ELSE IF \E p \in Abandoned(previous, a) : i \in {p} \cup Children(d, p)
             THEN Recalculated(d, previous)[i]
             ELSE d[i]]

LinkOk(db, c, previous, a) ==
  /\ a \in Approvals /\ Present(db, a)
  /\ House[a] = House[c]
  /\ \A p \in Abandoned(previous, a) :
        Present(db, p) /\ RecalcOk(Claimed(db, c, a), p)
  /\ RecalcOk(Claimed(db, c, a), a)

LinkTouched(db, c, previous, a) ==
  LET d == Claimed(db, c, a)
  IN {c, a} \cup Children(d, a) \cup Abandoned(previous, a)
       \cup UNION {Children(d, p) : p \in Abandoned(previous, a)}

(* detach or delete a cancellation, then restore its parent if it had one *)
Detached(db, c) ==
  [db EXCEPT ![c].parent = None, ![c].status = "pending_review"]
Erased(db, i) == [db EXCEPT ![i] = Absent]

Restored(db, d, c) ==
  IF db[c].parent = None THEN d ELSE Recalculated(d, db[c].parent)
RestoreOk(db, d, c) ==
  db[c].parent # None => Present(d, db[c].parent) /\ RecalcOk(d, db[c].parent)
RestoreTouched(db, d, c) ==
  {c} \cup IF db[c].parent = None THEN {}
           ELSE {db[c].parent} \cup Children(d, db[c].parent)

(* amendApproval: unchanged facts come from the row, and the snapshot is     *)
(* chosen again for the day the approval now has.                           *)
Fact(db, k, field) ==
  CASE field = "units" -> IF field \in k.changes THEN k.units ELSE db[k.id].units
    [] field = "cur" -> IF field \in k.changes THEN k.cur ELSE db[k.id].cur
    [] field = "at" -> IF field \in k.changes THEN k.at ELSE db[k.id].at
AmendOk(db, k) ==
  PlanOk(db, k.id, Fact(db, k, "units"), Fact(db, k, "cur"), Fact(db, k, "at"))
Amended(db, k) ==
  WriteChain(db, k.id, Fact(db, k, "units"), Fact(db, k, "cur"),
             Fact(db, k, "at"), Fact(db, k, "at"), k.flag, TRUE)

(* review flag of a cancellation: clearing it depends on the link alone *)
FlaggedSettled(db, c, flag) ==   \* mutant: a cleared flag settles the row
  [db EXCEPT ![c].net = 0,
             ![c].status = IF flag # NoFlag THEN flag ELSE "approved"]
Flagged(db, c, flag) ==
  [db EXCEPT ![c].net = 0,
             ![c].status = IF flag # NoFlag THEN flag
                           ELSE IF db[c].parent # None
                                THEN "approved" ELSE "pending_review"]
=============================================================================
