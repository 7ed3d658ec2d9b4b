-------------------------- MODULE MoneyChainProofs ---------------------------
(***************************************************************************)
(* Proofs about MoneyChain, for every set of rows, sessions and commands:  *)
(* its types, that a cancellation waits for review, and that a command that*)
(* takes effect on the committed rows is a step of MoneyLedger.            *)
(***************************************************************************)
EXTENDS MoneyChain, FiniteSetTheorems, TLAPS

Database == [Ids -> Row \cup {Absent}]

-----------------------------------------------------------------------------
(* The types of what the plan computes.                                    *)

(* What planChain returns for an approval is a storable row. *)
LEMMA PlannedApprovalType ==
  ASSUME NEW d \in Database, NEW a, NEW units \in Units,
         NEW cur \in Currencies, NEW day \in Days, NEW at \in Days,
         NEW flag \in Flags \cup {NoFlag},
         PlanOk(d, a, units, cur, day)
  PROVE  PlannedApproval(d, a, units, cur, day, at, flag) \in Row
<1> DEFINE x == CancelledUnits(d, a)
<1> DEFINE gross == Krw(units, cur, day)
<1> DEFINE net == IF units = x THEN 0 ELSE Krw(units - x, cur, day)
<1>1. x \in 0 .. units /\ units \in Nat /\ MaxSafe \in Nat
  BY RateAssumption DEF PlanOk, Units
<1>2. x \in Units /\ 0 \in Units
  BY <1>1 DEF Units
<1>3. gross \in Units /\ net \in Units
  BY <1>2 DEF PlanOk, Convertible
<1>4. gross - net \in Int
  BY <1>3, RateAssumption DEF Units
<1>5. DerivedStatus(flag, Children(d, a), x, units - x) \in Statuses
  BY DEF DerivedStatus, Statuses, NoFlag
<1> HIDE DEF x, gross, net
<1>6. [units |-> units, cur |-> cur, at |-> at, day |-> day, amount |-> gross,
       cancelled |-> gross - net,
       origCancelled |-> IF cur = "KRW" THEN 0 ELSE x,
       net |-> net, parent |-> None,
       status |-> DerivedStatus(flag, Children(d, a), x, units - x)] \in Row
  BY <1>2, <1>3, <1>4, <1>5 DEF Row
<1> QED
  BY <1>6 DEF PlannedApproval, x, gross, net

(* So is what it returns for a linked cancellation. *)
LEMMA PlannedChildType ==
  ASSUME NEW d \in Database, NEW c \in Ids, d[c] \in Row,
         NEW cur \in Currencies, NEW day \in Days,
         Convertible(d[c].units, cur, day)
  PROVE  PlannedChild(d, c, cur, day) \in Row
<1>1. Krw(d[c].units, cur, day) \in Units /\ 0 \in Units
  BY RateAssumption DEF Convertible, Units
<1>2. 0 \in Int
  OBVIOUS
<1> QED
  BY <1>1, <1>2 DEF PlannedChild, Row, Statuses

(* writeChain and recalculateLocked turn a database into a database. *)
LEMMA WriteChainType ==
  ASSUME NEW d \in Database, NEW a \in Ids, NEW units \in Units,
         NEW cur \in Currencies, NEW day \in Days, NEW at \in Days,
         NEW flag \in Flags \cup {NoFlag}, NEW w \in BOOLEAN,
         PlanOk(d, a, units, cur, day)
  PROVE  WriteChain(d, a, units, cur, day, at, flag, w) \in Database
<1>1. PlannedApproval(d, a, units, cur, day, at, flag) \in Row
  BY PlannedApprovalType
<1>2. ASSUME NEW i \in Children(d, a)
      PROVE  PlannedChild(d, i, cur, day) \in Row
  <2>1. i \in Ids /\ d[i] \in Row
    BY DEF Children, Present, Database, Ids
  <2>2. Convertible(d[i].units, cur, day)
    BY DEF PlanOk
  <2> QED
    BY <2>1, <2>2, PlannedChildType
<1> QED
  BY <1>1, <1>2 DEF WriteChain, Database

LEMMA FlagOfType ==
  ASSUME NEW status PROVE FlagOf(status) \in Flags \cup {NoFlag}
BY DEF FlagOf

LEMMA RecalculateType ==
  ASSUME NEW d \in Database, NEW a \in Ids, Present(d, a), RecalcOk(d, a),
         NEW flag \in Flags \cup {NoFlag}, NEW w \in BOOLEAN
  PROVE  Recalculate(d, a, flag, w) \in Database
<1>1. d[a] \in Row
  BY DEF Present, Database
<1>2. /\ d[a].units \in Units /\ d[a].cur \in Currencies
      /\ d[a].day \in Days /\ d[a].at \in Days
  BY <1>1 DEF Row
<1> QED
  BY <1>2, WriteChainType DEF RecalcOk, Recalculate

LEMMA RecalculatedType ==
  ASSUME NEW d \in Database, NEW a \in Ids, Present(d, a), RecalcOk(d, a)
  PROVE  Recalculated(d, a) \in Database
BY RecalculateType, FlagOfType DEF Recalculated

LEMMA ClaimedType ==
  ASSUME NEW d \in Database, NEW c \in Ids, d[c] \in Row,
         NEW a \in Approvals
  PROVE  Claimed(d, c, a) \in Database /\ Claimed(d, c, a)[c] \in Row
<1>1. [d[c] EXCEPT !.parent = a] \in Row
  BY DEF Row
<1> QED
  BY <1>1 DEF Claimed, Database

LEMMA LinkedType ==
  ASSUME NEW d \in Database, NEW c \in Ids, d[c] \in Row,
         NEW previous \in Approvals \cup {None}, NEW a,
         LinkOk(d, c, previous, a)
  PROVE  Linked(d, c, previous, a) \in Database
<1> DEFINE e == Claimed(d, c, a)
<1>1. a \in Approvals /\ a \in Ids
  BY DEF LinkOk, Ids
<1>2. e \in Database /\ e[c] \in Row
  BY <1>1, ClaimedType
<1>3. \A i \in Ids \ {c} : e[i] = d[i]
  BY DEF Claimed, Database
<1>4. \A i \in Ids : Present(d, i) => Present(e, i)
  BY <1>2, <1>3, RowAssumption DEF Present
<1>5. Recalculated(e, a) \in Database
  BY <1>1, <1>2, <1>4, RecalculatedType DEF LinkOk
<1>6. ASSUME NEW p \in Abandoned(previous, a)
      PROVE  p = previous /\ Recalculated(e, p) \in Database
  <2>1. p = previous /\ p # None
    BY DEF Abandoned
  <2>2. p \in Approvals /\ p \in Ids
    BY <2>1 DEF Ids
  <2>3. Present(e, p) /\ RecalcOk(e, p)
    BY <2>2, <1>4 DEF LinkOk
  <2> QED
    BY <2>1, <2>2, <2>3, <1>2, RecalculatedType
<1> HIDE DEF e
<1>7. ASSUME NEW i \in Ids
      PROVE  (IF i \in {a} \cup Children(e, a) THEN Recalculated(e, a)[i]
              ELSE IF \E p \in Abandoned(previous, a) : i \in {p} \cup Children(e, p)
                   THEN Recalculated(e, previous)[i]
                   ELSE e[i]) \in Row \cup {Absent}
  BY <1>2, <1>5, <1>6 DEF Database
<1> QED
  BY <1>7 DEF Linked, Database, e

LEMMA RestoredType ==
  ASSUME NEW d \in Database, NEW c \in Ids, d[c] \in Row,
         NEW e \in Database, RestoreOk(d, e, c)
  PROVE  Restored(d, e, c) \in Database
<1>1. CASE d[c].parent = None
  BY <1>1 DEF Restored
<1>2. CASE d[c].parent # None
  <2>1. d[c].parent \in Ids
    BY <1>2 DEF Row, Ids
  <2> QED
    BY <1>2, <2>1, RecalculatedType DEF Restored, RestoreOk
<1> QED
  BY <1>1, <1>2

LEMMA DetachedType ==
  ASSUME NEW d \in Database, NEW c \in Ids, d[c] \in Row
  PROVE  Detached(d, c) \in Database
<1>1. [d[c] EXCEPT !.parent = None] \in Row
  BY DEF Row
<1> DEFINE e == [d EXCEPT ![c].parent = None]
<1>2. e \in Database /\ e[c] \in Row
  BY <1>1 DEF Database
<1> HIDE DEF e
<1>3. [e[c] EXCEPT !.status = "pending_review"] \in Row
  BY <1>2 DEF Row, Statuses, Flags
<1>4. [e EXCEPT ![c].status = "pending_review"] \in Database
  BY <1>2, <1>3 DEF Database
<1> QED
  BY <1>4 DEF Detached, e

LEMMA ErasedType ==
  ASSUME NEW d \in Database, NEW i \in Ids
  PROVE  Erased(d, i) \in Database
BY DEF Erased, Database

LEMMA FlaggedType ==
  ASSUME NEW d \in Database, NEW c \in Ids, d[c] \in Row,
         NEW flag \in Flags \cup {NoFlag}
  PROVE  Flagged(d, c, flag) \in Database
<1> DEFINE status == IF flag # NoFlag THEN flag
                     ELSE IF d[c].parent # None
                          THEN "approved" ELSE "pending_review"
<1>1. 0 \in Units /\ status \in Statuses
  BY RateAssumption DEF Units, Statuses, Flags
<1>2. [d[c] EXCEPT !.net = 0] \in Row
  BY <1>1 DEF Row
<1> DEFINE e == [d EXCEPT ![c].net = 0]
<1>3. e \in Database /\ e[c] \in Row
  BY <1>2 DEF Database
<1> HIDE DEF e, status
<1>4. [e[c] EXCEPT !.status = status] \in Row
  BY <1>1, <1>3 DEF Row
<1>5. [e EXCEPT ![c].status = status] \in Database
  BY <1>3, <1>4 DEF Database
<1> QED
  BY <1>5 DEF Flagged, e, status

LEMMA AmendedType ==
  ASSUME NEW d \in Database, NEW k \in Commands, d[k.id] \in Row,
         AmendOk(d, k)
  PROVE  Amended(d, k) \in Database
<1>1. /\ k \in Command /\ k.id \in Ids /\ k.flag \in Flags \cup {NoFlag}
      /\ k.units \in Units /\ k.cur \in Currencies /\ k.at \in Days
  BY CommandAssumption DEF Command
<1>2. /\ Fact(d, k, "units") \in Units
      /\ Fact(d, k, "cur") \in Currencies
      /\ Fact(d, k, "at") \in Days
  BY <1>1 DEF Fact, Row
<1> QED
  BY <1>1, <1>2, WriteChainType DEF Amended, AmendOk

LEMMA NewCancellationType ==
  ASSUME NEW units \in Units, NEW cur \in Currencies, NEW at \in Days,
         Convertible(units, cur, at)
  PROVE  NewCancellation(units, cur, at) \in Row
<1>1. Krw(units, cur, at) \in Units /\ 0 \in Units /\ 0 \in Int
  BY RateAssumption DEF Convertible, Units
<1> QED
  BY <1>1 DEF NewCancellation, Row, Statuses, Flags

-----------------------------------------------------------------------------
(* The type invariant.  A cancellation being created never starts from a   *)
(* committed row, and has its own new row from the insert until the plan.  *)
InsertKept ==
  \A s \in Sessions : cmd[s].op = "createCancellation" =>
    /\ pc[s] # "observe"
    /\ pc[s] \in {"match", "parents", "child", "body"}
         => write[s][cmd[s].id] \in Row

TypeInv == TypeOK /\ InsertKept

LEMMA CommandType ==
  ASSUME NEW k \in Commands
  PROVE  /\ k \in Command /\ k.id \in Ids /\ k.to \in Ids \cup {None}
         /\ k.flag \in Flags \cup {NoFlag}
         /\ k.units \in Units /\ k.cur \in Currencies /\ k.at \in Days
         /\ k.op \in Ops
         /\ k.op = "createApproval" => k.id \in Approvals
         /\ k.op = "createCancellation" => k.id \in Cancellations
BY CommandAssumption DEF Command

LEMMA DefaultCommand == (CHOOSE k \in Commands : TRUE) \in Commands
BY CommandAssumption

(* Before the first command no session holds or plans anything. *)
THEOREM InitTypeInv == Init => TypeInv
<1> SUFFICES ASSUME Init PROVE TypeInv
  OBVIOUS
<1>1. NoWrites \in [Ids -> Row \cup {Absent, Keep}]
  BY DEF NoWrites
<1>2. TypeOK
  BY <1>1, DefaultCommand, SessionAssumption DEF Init, TypeOK, Labels
<1>3. InsertKept
  BY DEF Init, InsertKept
<1> QED
  BY <1>2, <1>3 DEF TypeInv

(* Closing a transaction keeps the types. *)
LEMMA CloseType ==
  ASSUME TypeInv, NEW s \in Sessions, Close(s),
         db' \in Database, deleted' \subseteq Ids, started' \in 0 .. MaxCommands
  PROVE  TypeInv'
<1>1. NoWrites \in [Ids -> Row \cup {Absent, Keep}]
  BY DEF NoWrites
<1>2. TypeOK'
  BY <1>1, DefaultCommand DEF TypeInv, TypeOK, Close, Labels, Database
<1>3. InsertKept'
  BY DEF TypeInv, TypeOK, InsertKept, Close
<1> QED
  BY <1>2, <1>3 DEF TypeInv

LEMMA RollbackType ==
  ASSUME TypeInv, NEW s \in Sessions, Rollback(s)
  PROVE  TypeInv'
BY CloseType DEF Rollback, TypeInv, TypeOK, Database

(* So does preparing the writes of a well-typed plan. *)
LEMMA PrepareType ==
  ASSUME TypeInv, NEW s \in Sessions, NEW image \in Database,
         NEW touched \in SUBSET Ids, Prepare(s, image, touched)
  PROVE  TypeInv'
<1>1. [i \in Ids |-> IF i \in touched THEN image[i] ELSE Keep]
        \in [Ids -> Row \cup {Absent, Keep}]
  BY DEF Database
<1>2. {i \in touched : lock[i] # s} \in SUBSET Ids
  OBVIOUS
<1>3. TypeOK'
  BY <1>1, <1>2 DEF TypeInv, TypeOK, Prepare, Labels
<1>4. InsertKept'
  BY DEF TypeInv, TypeOK, InsertKept, Prepare
<1> QED
  BY <1>3, <1>4 DEF TypeInv

LEMMA PrepareIfType ==
  ASSUME TypeInv, NEW s \in Sessions, NEW ok, NEW image, NEW touched,
         PrepareIf(s, ok, image, touched),
         ok => image \in Database /\ touched \in SUBSET Ids
  PROVE  TypeInv'
<1>1. CASE ok
  BY <1>1, PrepareType DEF PrepareIf
<1>2. CASE ~ok
  BY <1>2, RollbackType DEF PrepareIf
<1> QED
  BY <1>1, <1>2

LEMMA AcquireType ==
  ASSUME TypeOK, NEW s \in Sessions, NEW i, Acquire(s, i)
  PROVE  lock' \in [Ids -> Sessions \cup {Free}]
BY DEF TypeOK, Acquire

LEMMA ChildrenType ==
  ASSUME NEW d, NEW a PROVE Children(d, a) \in SUBSET Ids
BY DEF Children, Ids

LEMMA LinkTouchedType ==
  ASSUME NEW d \in Database, NEW c \in Ids, NEW a \in Approvals,
         NEW previous \in Approvals \cup {None}
  PROVE  LinkTouched(d, c, previous, a) \in SUBSET Ids
<1>1. Abandoned(previous, a) \in SUBSET Ids
  BY DEF Abandoned, Ids
<1>2. UNION {Children(Claimed(d, c, a), p) : p \in Abandoned(previous, a)}
        \in SUBSET Ids
  BY ChildrenType
<1> QED
  BY <1>1, <1>2, ChildrenType DEF LinkTouched, Ids

LEMMA RestoreTouchedType ==
  ASSUME NEW d \in Database, NEW c \in Ids, d[c] \in Row, NEW e
  PROVE  RestoreTouched(d, e, c) \in SUBSET Ids
<1>1. d[c].parent # None => d[c].parent \in Ids
  BY DEF Row, Ids
<1> QED
  BY <1>1, ChildrenType DEF RestoreTouched

(* Every action keeps the types, one step of the proof per action. *)
LEMMA NextTypeInv ==
  ASSUME TypeInv, [Next]_vars
  PROVE  TypeInv'
<1> USE SessionAssumption
<1>t. TypeOK /\ InsertKept /\ db \in Database
  BY DEF TypeInv, TypeOK, Database
<1>r. \A i \in Ids : Present(db, i) => db[i] \in Row
  BY <1>t DEF Database, Present
<1>1. ASSUME NEW s \in Sessions, NEW k \in Commands, Begin(s, k)
      PROVE  TypeInv'
  <2>1. TypeOK'
    BY <1>t, <1>1 DEF TypeOK, Begin, Goto, Labels
  <2>2. InsertKept'
    BY <1>t, <1>1 DEF TypeOK, InsertKept, Begin, Goto, Creates
  <2> QED
    BY <2>1, <2>2 DEF TypeInv
<1>2. ASSUME NEW s \in Sessions, Abort(s)
      PROVE  TypeInv'
  BY <1>2, RollbackType DEF Abort
<1>3. ASSUME NEW s \in Sessions, Step(s)
      PROVE  TypeInv'
  <2> DEFINE k == cmd[s]
  <2>k. k \in Commands /\ k.id \in Ids /\ k.to \in Ids \cup {None}
    BY <1>t, CommandType DEF TypeOK
  <2>1. CASE Observe(s)
    <3>1. CASE Present(db, k.id) /\ RightType(k)
      <4>1. db[k.id].parent \in Approvals \cup {None}
        BY <3>1, <2>k, <1>r DEF Row
      <4>2. ParentsToLock(k) \in SUBSET Ids
        BY <4>1, <2>k DEF ParentsToLock, Ids
      <4>3. TypeOK'
        BY <1>t, <2>1, <3>1, <4>1, <4>2 DEF TypeOK, Observe, Goto, Labels, Ids
      <4>4. InsertKept'
        BY <1>t, <2>1, <3>1 DEF TypeOK, InsertKept, Observe, Goto
      <4> QED
        BY <4>3, <4>4 DEF TypeInv
    <3>2. CASE ~(Present(db, k.id) /\ RightType(k))
      <4>1. Rollback(s)
        BY <2>1, <3>2, Zenon DEF Observe
      <4> QED
        BY <4>1, RollbackType
    <3> QED
      BY <3>1, <3>2
  <2>2. CASE LockParent(s) \/ LockUpdated(s)
    <3> DEFINE i == Lowest(todo[s])
    <3>0. Acquire(s, i) /\ todo' = [todo EXCEPT ![s] = todo[s] \ {i}]
            /\ UNCHANGED <<db, deleted, pc, cmd, seen, write, started>>
      BY <2>2 DEF LockParent, LockUpdated, LockNext
    <3> HIDE DEF i
    <3>1. TypeOK'
      BY <1>t, <3>0, AcquireType DEF TypeOK
    <3>2. InsertKept'
      BY <1>t, <2>2 DEF TypeOK, InsertKept, LockParent, LockUpdated, LockNext
    <3> QED
      BY <3>1, <3>2 DEF TypeInv
  <2>3. CASE ParentsLocked(s)
    <3>1. TypeOK'
      BY <1>t, <2>3 DEF TypeOK, ParentsLocked, Goto, Labels
    <3>2. InsertKept'
      BY <1>t, <2>3 DEF TypeOK, InsertKept, ParentsLocked, Goto
    <3> QED
      BY <3>1, <3>2 DEF TypeInv
  <2>4. CASE LockChild(s)
    <3>1. TypeOK'
      BY <1>t, <2>4, AcquireType DEF TypeOK, LockChild, Goto, Labels
    <3>2. InsertKept'
      BY <1>t, <2>4 DEF TypeOK, InsertKept, LockChild, Goto
    <3> QED
      BY <3>1, <3>2 DEF TypeInv
  <2>5. CASE InsertApproval(s)
    <3>1. CASE ~Present(db, k.id) /\ k.id \notin deleted
                 /\ ApprovalOk(db, k.id, k.units, k.cur, k.at)
      <4> DEFINE row == WithApproval(db, k.id, k.units, k.cur, k.at, k.flag)[k.id]
      <4>0. WithApproval(db, k.id, k.units, k.cur, k.at, k.flag) \in Database
        <5>1. /\ k.units \in Units /\ k.cur \in Currencies /\ k.at \in Days
              /\ k.flag \in Flags \cup {NoFlag}
          BY <2>k, CommandType
        <5> HIDE DEF k
        <5> QED
          BY <1>t, <2>k, <3>1, <5>1, WriteChainType DEF WithApproval, ApprovalOk
      <4>1. row \in Row \cup {Absent}
        BY <2>k, <4>0 DEF Database
      <4>2. [write[s] EXCEPT ![k.id] = row] \in [Ids -> Row \cup {Absent, Keep}]
        BY <1>t, <4>1 DEF TypeOK
      <4>s. /\ lock' = [lock EXCEPT ![k.id] = s]
            /\ write' = [write EXCEPT ![s] = [write[s] EXCEPT ![k.id] = row]]
            /\ pc' = [pc EXCEPT ![s] = "update"]
            /\ UNCHANGED <<db, deleted, cmd, seen, todo, started>>
            /\ cmd[s].op = "createApproval"
        BY <2>5, <3>1 DEF InsertApproval, Goto, At
      <4> HIDE DEF row
      <4>3. TypeOK'
        BY <1>t, <4>s, <4>2 DEF TypeOK, Labels
      <4>4. InsertKept'
        BY <1>t, <4>s DEF TypeOK, InsertKept
      <4> QED
        BY <4>3, <4>4 DEF TypeInv
    <3> QED
      BY <2>5, <3>1, RollbackType DEF InsertApproval
  <2>6. CASE InsertCancellation(s)
    <3>1. CASE ~Present(db, k.id) /\ k.id \notin deleted
                 /\ Convertible(k.units, k.cur, k.at)
      <4> DEFINE row == NewCancellation(k.units, k.cur, k.at)
      <4>1. row \in Row
        BY <2>k, <3>1, CommandType, NewCancellationType
      <4>2. [write[s] EXCEPT ![k.id] = row] \in [Ids -> Row \cup {Absent, Keep}]
        BY <1>t, <4>1 DEF TypeOK
      <4>s. /\ lock' = [lock EXCEPT ![k.id] = s]
            /\ write' = [write EXCEPT ![s] = [write[s] EXCEPT ![k.id] = row]]
            /\ pc' = [pc EXCEPT ![s] = "match"]
            /\ UNCHANGED <<db, deleted, cmd, seen, todo, started>>
        BY <2>6, <3>1 DEF InsertCancellation, Goto
      <4> HIDE DEF row
      <4>3. TypeOK'
        BY <1>t, <4>s, <4>2 DEF TypeOK, Labels
      <4>4. InsertKept'
        BY <1>t, <2>k, <4>s, <4>1 DEF TypeOK, InsertKept
      <4> QED
        BY <4>3, <4>4 DEF TypeInv
    <3> QED
      BY <2>6, <3>1, RollbackType DEF InsertCancellation
  <2>7. CASE MatchApproval(s)
    <3>1. Matches(s) \in SUBSET Ids
      BY <2>k DEF Matches, Candidates, Ids
    <3>2. Cardinality(Matches(s)) = 1 => Matches(s) # {}
      BY FS_EmptySet
    <3>3. Cardinality(Matches(s)) = 1
            => (CHOOSE a \in Matches(s) : TRUE) \in Ids
      BY <3>1, <3>2
    <3>4. /\ pc' \in [Sessions -> Labels]
          /\ seen' \in [Sessions -> Ids \cup {None}]
          /\ todo' \in [Sessions -> SUBSET Ids]
          /\ UNCHANGED <<db, deleted, lock, cmd, write, started>>
      <4>1. CASE Cardinality(Matches(s)) = 1
        <5>1. /\ pc' = [pc EXCEPT ![s] = "parents"]
              /\ seen' = [seen EXCEPT ![s] = CHOOSE a \in Matches(s) : TRUE]
              /\ todo' = [todo EXCEPT ![s] = Matches(s)]
              /\ UNCHANGED <<db, deleted, lock, cmd, write, started>>
          BY <2>7, <4>1 DEF MatchApproval, Goto
        <5>2. (CHOOSE a \in Matches(s) : TRUE) \in Ids
          BY <3>3, <4>1
        <5> DEFINE chosen == CHOOSE a \in Matches(s) : TRUE
        <5> HIDE DEF chosen
        <5>3. seen' = [seen EXCEPT ![s] = chosen] /\ chosen \in Ids
          BY <5>1, <5>2 DEF chosen
        <5> QED
          BY <1>t, <3>1, <5>1, <5>3 DEF TypeOK, Labels
      <4>2. CASE Cardinality(Matches(s)) # 1
        BY <1>t, <2>7, <4>2 DEF TypeOK, MatchApproval, Goto, Labels
      <4> QED
        BY <4>1, <4>2
    <3>5. TypeOK'
      BY <1>t, <3>4 DEF TypeOK
    <3>6. InsertKept'
      BY <1>t, <2>7 DEF TypeOK, InsertKept, MatchApproval, Goto
    <3> QED
      BY <3>5, <3>6 DEF TypeInv
  <2>8. CASE LinkInserted(s)
    <3> DEFINE d == OwnView(s)
    <3>1. write[s][k.id] \in Row
      BY <1>t, <2>8 DEF InsertKept, LinkInserted, At
    <3>2. d \in Database /\ d[k.id] \in Row
      BY <1>t, <2>k, <3>1, RowAssumption DEF OwnView, TypeOK, Database
    <3> HIDE DEF d
    <3>3. LinkOk(d, k.id, None, seen[s]) =>
            /\ Linked(d, k.id, None, seen[s]) \in Database
            /\ LinkTouched(d, k.id, None, seen[s]) \in SUBSET Ids
      BY <2>k, <3>2, LinkedType, LinkTouchedType DEF LinkOk
    <3> QED
      BY <2>8, <3>3, PrepareIfType DEF LinkInserted, d
  <2>9. CASE LinkCancellation(s)
    <3>1. Unchanged(s) => db[k.id] \in Row /\ seen[s] \in Approvals \cup {None}
      BY <1>r, <2>k DEF Unchanged, Row
    <3>2. Unchanged(s) /\ LinkOk(db, k.id, seen[s], k.to) =>
            /\ Linked(db, k.id, seen[s], k.to) \in Database
            /\ LinkTouched(db, k.id, seen[s], k.to) \in SUBSET Ids
      BY <1>t, <2>k, <3>1, LinkedType, LinkTouchedType DEF LinkOk
    <3> QED
      BY <2>9, <3>2, PrepareIfType DEF LinkCancellation
  <2>10. CASE UnlinkCancellation(s)
    <3>1. Unchanged(s) /\ RestoreOk(db, Detached(db, k.id), k.id) =>
            /\ Restored(db, Detached(db, k.id), k.id) \in Database
            /\ RestoreTouched(db, Detached(db, k.id), k.id) \in SUBSET Ids
      BY <1>t, <1>r, <2>k, DetachedType, RestoredType, RestoreTouchedType
         DEF Unchanged
    <3> QED
      BY <2>10, <3>1, PrepareIfType DEF UnlinkCancellation
  <2>11. CASE RemoveCancellation(s)
    <3>1. Unchanged(s) /\ RestoreOk(db, Erased(db, k.id), k.id) =>
            /\ Restored(db, Erased(db, k.id), k.id) \in Database
            /\ RestoreTouched(db, Erased(db, k.id), k.id) \in SUBSET Ids
      BY <1>t, <1>r, <2>k, ErasedType, RestoredType, RestoreTouchedType
         DEF Unchanged
    <3> QED
      BY <2>11, <3>1, PrepareIfType DEF RemoveCancellation
  <2>12. CASE RemoveApproval(s)
    <3>1. Erased(db, k.id) \in Database /\ {k.id} \in SUBSET Ids
      BY <1>t, <2>k, ErasedType
    <3> QED
      BY <2>12, <3>1, PrepareIfType DEF RemoveApproval
  <2>13. CASE FlagApproval(s)
    <3>1. Present(db, k.id) /\ RecalcOk(db, k.id) =>
            Recalculate(db, k.id, k.flag, FALSE) \in Database
      BY <1>t, <2>k, CommandType, RecalculateType
    <3> QED
      BY <2>13, <2>k, <3>1, PrepareIfType DEF FlagApproval
  <2>14. CASE FlagCancellation(s)
    <3>1. Unchanged(s) => Flagged(db, k.id, k.flag) \in Database
      BY <1>t, <1>r, <2>k, CommandType, FlaggedType DEF Unchanged
    <3> QED
      BY <2>14, <2>k, <3>1, PrepareIfType DEF FlagCancellation
  <2>15. CASE AmendApproval(s)
    <3>1. Present(db, k.id) /\ AmendOk(db, k) => Amended(db, k) \in Database
      BY <1>t, <1>r, <2>k, AmendedType
    <3>2. {k.id} \cup Children(db, k.id) \in SUBSET Ids
      BY <2>k, ChildrenType
    <3> QED
      BY <2>15, <3>1, <3>2, PrepareIfType DEF AmendApproval
  <2>16. CASE RecalculateChain(s)
    <3>1. Present(db, k.id) /\ RecalcOk(db, k.id)
            => Recalculated(db, k.id) \in Database
      BY <1>t, <2>k, RecalculatedType
    <3>2. {k.id} \cup Children(db, k.id) \in SUBSET Ids
      BY <2>k, ChildrenType
    <3> QED
      BY <2>16, <3>1, <3>2, PrepareIfType DEF RecalculateChain
  <2>17. CASE Commit(s)
    <3>1. \A i \in Ids : (IF Effective(s, i) THEN write[s][i] ELSE db[i])
                            \in Row \cup {Absent}
      BY <1>t DEF Effective, TypeOK, Database
    <3>2. db' \in Database /\ deleted' \subseteq Ids
      BY <1>t, <2>17, <3>1 DEF Commit, Database, TypeOK
    <3> QED
      BY <1>t, <2>17, <3>2, CloseType DEF Commit, TypeOK
  <2> QED
    BY <1>3, <2>1, <2>2, <2>3, <2>4, <2>5, <2>6, <2>7, <2>8, <2>9, <2>10,
       <2>11, <2>12, <2>13, <2>14, <2>15, <2>16, <2>17 DEF Step
<1>4. CASE UNCHANGED vars
  BY <1>t, <1>4 DEF vars, TypeInv, TypeOK, InsertKept
<1> QED
  BY <1>1, <1>2, <1>3, <1>4 DEF Next

(* In every state of every behaviour the rows, locks, sessions and planned *)
(* writes have their types: what the plan writes into the money columns    *)
(* (writeChain, planChain) is always a storable row.                       *)
THEOREM TypeCorrect == Spec => []TypeOK
<1>1. TypeInv => TypeOK
  BY DEF TypeInv
<1> QED
  BY <1>1, InitTypeInv, NextTypeInv, PTL DEF Spec

-----------------------------------------------------------------------------
(* A cancellation never settles by itself.  This is true of every version  *)
(* of its row, committed or not, because each operator that makes one sets *)
(* the status with the link; no lock is needed for it.                     *)
Waiting(r) ==
  /\ r.net = 0 /\ r.cancelled = 0
  /\ r.parent = None => r.status \in Flags
  /\ r.parent # None => r.status \in {"approved", "duplicate_suspected"}
AllWait(d) == \A c \in Cancellations : d[c] \in Row => Waiting(d[c])

WaitInv == AllWait(db) /\ \A s \in Sessions : AllWait(write[s])

LEMMA ApprovalIsNone ==
  ASSUME NEW a \in Approvals PROVE a # None /\ a \notin Cancellations /\ a \in Ids
BY IdsAssumption DEF Ids

(* writeChain settles what is linked to its approval and nothing else. *)
LEMMA WriteChainWaits ==
  ASSUME NEW d \in Database, NEW a \in Approvals, NEW units, NEW cur, NEW day, NEW at,
         NEW flag, NEW w, NEW c \in Cancellations,
         c \in Children(d, a) \/ (d[c] \in Row => Waiting(d[c])), w = TRUE
  PROVE  LET e == WriteChain(d, a, units, cur, day, at, flag, w)
         IN e[c] \in Row => Waiting(e[c])
<1>1. c # a /\ c \in Ids /\ a # None
  BY ApprovalIsNone DEF Ids
<1>2. CASE c \in Children(d, a)
  <2>1. d[c] \in Row /\ d[c].parent = a
    BY <1>1, <1>2 DEF Children, Present, Database
  <2>2. Waiting(PlannedChild(d, c, cur, day))
    BY <1>1, <2>1 DEF PlannedChild, Waiting, Row
  <2> QED
    BY <1>1, <1>2, <2>2 DEF WriteChain
<1>3. CASE c \notin Children(d, a)
  BY <1>1, <1>3 DEF WriteChain
<1> QED
  BY <1>2, <1>3

LEMMA RecalculatedWaits ==
  ASSUME NEW d \in Database, NEW a \in Approvals, NEW c \in Cancellations,
         c \in Children(d, a) \/ (d[c] \in Row => Waiting(d[c]))
  PROVE  Recalculated(d, a)[c] \in Row => Waiting(Recalculated(d, a)[c])
BY WriteChainWaits DEF Recalculated, Recalculate

LEMMA AmendedWaits ==
  ASSUME NEW d \in Database, NEW k, k.id \in Approvals, AllWait(d)
  PROVE  AllWait(Amended(d, k))
BY WriteChainWaits DEF Amended, AllWait

(* linkCancellation: the claimed cancellation is a child of its approval.  *)
LEMMA LinkedWaits ==
  ASSUME NEW d \in Database, NEW c \in Cancellations, d[c] \in Row,
         NEW previous \in Approvals \cup {None}, NEW a \in Approvals, AllWait(d)
  PROVE  AllWait(Linked(d, c, previous, a))
<1> DEFINE e == Claimed(d, c, a)
<1>1. e \in Database /\ e[c] \in Row
  BY ClaimedType DEF Ids
<1>2. e[c].parent = a
  BY DEF Claimed, Database, Row, Ids
<1>3. c \in Children(e, a)
  BY <1>1, <1>2, RowAssumption DEF Children, Present
<1>4. \A i \in Cancellations \ {c} : e[i] = d[i]
  BY DEF Claimed, Database, Ids
<1>5. ASSUME NEW i \in Cancellations
      PROVE  Recalculated(e, a)[i] \in Row => Waiting(Recalculated(e, a)[i])
  BY <1>1, <1>3, <1>4, RecalculatedWaits DEF AllWait
<1>6. ASSUME NEW i \in Cancellations, i # c, previous # None
      PROVE  Recalculated(e, previous)[i] \in Row => Waiting(Recalculated(e, previous)[i])
  BY <1>1, <1>4, <1>6, RecalculatedWaits DEF AllWait
<1>7. ASSUME NEW i \in Cancellations, i # c PROVE e[i] \in Row => Waiting(e[i])
  BY <1>4, <1>7 DEF AllWait
<1>8. ASSUME NEW p \in Abandoned(previous, a) PROVE previous # None
  BY DEF Abandoned
<1> HIDE DEF e
<1>9. ASSUME NEW i \in Cancellations
      PROVE  LET v == IF i \in {a} \cup Children(e, a) THEN Recalculated(e, a)[i]
                      ELSE IF \E p \in Abandoned(previous, a) : i \in {p} \cup Children(e, p)
                           THEN Recalculated(e, previous)[i]
                           ELSE e[i]
             IN v \in Row => Waiting(v)
  BY <1>3, <1>5, <1>6, <1>7, <1>8
<1> QED
  BY <1>9 DEF Linked, AllWait, Ids, e

LEMMA DetachedWaits ==
  ASSUME NEW d \in Database, NEW c \in Cancellations, d[c] \in Row, AllWait(d)
  PROVE  AllWait(Detached(d, c))
<1>1. Detached(d, c)[c] = [d[c] EXCEPT !.parent = None, !.status = "pending_review"]
  BY DEF Detached, Database, Ids
<1>2. Waiting(Detached(d, c)[c])
  BY <1>1 DEF AllWait, Waiting, Row, Flags
<1>3. \A i \in Cancellations \ {c} : Detached(d, c)[i] = d[i]
  BY DEF Detached, Database, Ids
<1> QED
  BY <1>2, <1>3 DEF AllWait

LEMMA ErasedWaits ==
  ASSUME NEW d \in Database, NEW i \in Ids, AllWait(d)
  PROVE  AllWait(Erased(d, i))
BY RowAssumption DEF Erased, Database, AllWait, Ids

LEMMA RestoredWaits ==
  ASSUME NEW d \in Database, NEW c \in Ids, d[c] \in Row, NEW e \in Database, AllWait(e)
  PROVE  AllWait(Restored(d, e, c))
<1>1. d[c].parent # None => d[c].parent \in Approvals
  BY DEF Row
<1> QED
  BY <1>1, RecalculatedWaits DEF Restored, AllWait

LEMMA FlaggedWaits ==
  ASSUME NEW d \in Database, NEW c \in Cancellations, d[c] \in Row, AllWait(d),
         NEW flag \in {"duplicate_suspected", NoFlag}
  PROVE  AllWait(Flagged(d, c, flag))
<1> DEFINE status == IF flag # NoFlag THEN flag
                     ELSE IF d[c].parent # None THEN "approved" ELSE "pending_review"
<1>1. Flagged(d, c, flag)[c] = [d[c] EXCEPT !.net = 0, !.status = status]
  BY DEF Flagged, Database, Ids
<1>2. d[c].parent = None => status \in Flags
  BY DEF Flags
<1>3. d[c].parent # None => status \in {"approved", "duplicate_suspected"}
  OBVIOUS
<1> HIDE DEF status
<1>4. Waiting(Flagged(d, c, flag)[c])
  BY <1>1, <1>2, <1>3 DEF AllWait, Waiting, Row
<1>5. \A i \in Cancellations \ {c} : Flagged(d, c, flag)[i] = d[i]
  BY DEF Flagged, Database, Ids
<1> QED
  BY <1>4, <1>5 DEF AllWait

-----------------------------------------------------------------------------
(* A session's planned rows come from a plan that keeps cancellations      *)
(* waiting, or are dropped.                                                *)
LEMMA NoRowsWait == AllWait(NoWrites)
BY RowAssumption DEF NoWrites, AllWait, Ids

LEMMA RollbackWaits ==
  ASSUME TypeInv, WaitInv, NEW s \in Sessions, Rollback(s)
  PROVE  WaitInv'
<1>1. db' = db /\ write' = [write EXCEPT ![s] = NoWrites]
  BY DEF Rollback, Close
<1>2. write \in [Sessions -> [Ids -> Row \cup {Absent, Keep}]]
  BY DEF TypeInv, TypeOK
<1> QED
  BY <1>1, <1>2, NoRowsWait DEF WaitInv, AllWait

LEMMA PrepareIfWaits ==
  ASSUME TypeInv, WaitInv, NEW s \in Sessions, NEW ok, NEW image, NEW touched,
         PrepareIf(s, ok, image, touched), ok => AllWait(image)
  PROVE  WaitInv'
<1>1. CASE ok
  <2> DEFINE planned == [i \in Ids |-> IF i \in touched THEN image[i] ELSE Keep]
  <2>1. AllWait(planned)
    BY <1>1, RowAssumption DEF AllWait, Ids
  <2>2. db' = db /\ write' = [write EXCEPT ![s] = planned]
    BY <1>1 DEF PrepareIf, Prepare
  <2> HIDE DEF planned
  <2>3. write \in [Sessions -> [Ids -> Row \cup {Absent, Keep}]]
    BY DEF TypeInv, TypeOK
  <2> QED
    BY <2>1, <2>2, <2>3 DEF WaitInv, AllWait
<1>2. CASE ~ok
  BY <1>2, RollbackWaits DEF PrepareIf
<1> QED
  BY <1>1, <1>2

LEMMA NextWaits ==
  ASSUME TypeInv, WaitInv, [Next]_vars
  PROVE  WaitInv'
<1>t. /\ db \in Database /\ AllWait(db) /\ cmd \in [Sessions -> Commands]
      /\ write \in [Sessions -> [Ids -> Row \cup {Absent, Keep}]]
  BY DEF TypeInv, TypeOK, Database, WaitInv
<1>r. \A i \in Ids : Present(db, i) => db[i] \in Row
  BY <1>t DEF Database, Present
<1>1. CASE UNCHANGED <<db, write>>
  BY <1>1 DEF WaitInv, AllWait
<1>2. ASSUME NEW s \in Sessions, Rollback(s) PROVE WaitInv'
  BY <1>2, RollbackWaits
<1>3. ASSUME NEW s \in Sessions, Step(s) PROVE WaitInv'
  <2> DEFINE k == cmd[s]
  <2>k. k \in Commands /\ k.id \in Ids
    BY <1>t, CommandType
  <2>1. CASE Observe(s) \/ LockParent(s) \/ ParentsLocked(s) \/ LockChild(s)
             \/ MatchApproval(s) \/ LockUpdated(s)
    <3>1. UNCHANGED <<db, write>> \/ Rollback(s)
      BY <2>1, Zenon DEF Observe, LockParent, ParentsLocked, LockChild, MatchApproval,
         LockUpdated, LockNext
    <3> QED
      BY <3>1, <1>1, <1>2
  <2>2. CASE InsertApproval(s)
    <3>1. k.id \notin Cancellations
      BY <2>2, <2>k, CommandAssumption, ApprovalIsNone DEF InsertApproval, At
    <3>2. CASE ~Rollback(s)
      <4> DEFINE row == WithApproval(db, k.id, k.units, k.cur, k.at, k.flag)[k.id]
      <4>1. db' = db /\ write' = [write EXCEPT ![s] = [write[s] EXCEPT ![k.id] = row]]
        BY <2>2, <3>2 DEF InsertApproval
      <4> HIDE DEF row
      <4>2. \A u \in Sessions, c \in Cancellations : write'[u][c] = write[u][c]
        BY <1>t, <3>1, <4>1 DEF Ids
      <4> QED
        BY <4>1, <4>2 DEF WaitInv, AllWait
    <3> QED
      BY <3>2, <1>2
  <2>3. CASE InsertCancellation(s)
    <3>1. CASE ~Rollback(s)
      <4> DEFINE row == NewCancellation(k.units, k.cur, k.at)
      <4>1. db' = db /\ write' = [write EXCEPT ![s] = [write[s] EXCEPT ![k.id] = row]]
        BY <2>3, <3>1 DEF InsertCancellation
      <4>2. Waiting(row)
        BY DEF NewCancellation, Waiting, Flags
      <4> HIDE DEF row
      <4>3. ASSUME NEW u \in Sessions, NEW c \in Cancellations
            PROVE  write'[u][c] = write[u][c] \/ write'[u][c] = row
        BY <1>t, <2>k, <4>1 DEF Ids
      <4> QED
        BY <4>1, <4>2, <4>3 DEF WaitInv, AllWait
    <3> QED
      BY <3>1, <1>2
  <2>4. CASE LinkInserted(s)
    <3> DEFINE d == OwnView(s)
    <3>1. write[s][k.id] \in Row /\ k.id \in Cancellations
      BY <2>4, <2>k, CommandAssumption DEF TypeInv, InsertKept, LinkInserted, At
    <3>2. d \in Database /\ d[k.id] \in Row /\ AllWait(d)
      <4>1. \A i \in Ids : d[i] = db[i] \/ (d[i] = write[s][i] /\ d[i] # Keep)
        BY DEF OwnView
      <4>2. d \in Database
        BY <1>t, <4>1 DEF OwnView, Database
      <4>3. d[k.id] \in Row
        BY <2>k, <3>1, RowAssumption DEF OwnView
      <4>4. AllWait(d)
        BY <1>t, <4>1 DEF AllWait, WaitInv, Ids
      <4> QED
        BY <4>2, <4>3, <4>4
    <3> HIDE DEF d
    <3>3. LinkOk(d, k.id, None, seen[s]) => AllWait(Linked(d, k.id, None, seen[s]))
      BY <3>1, <3>2, LinkedWaits DEF LinkOk
    <3>4. PrepareIf(s, LinkOk(d, k.id, None, seen[s]), Linked(d, k.id, None, seen[s]),
                    LinkTouched(d, k.id, None, seen[s]))
      BY <2>4, Zenon DEF LinkInserted, d
    <3> DEFINE ok == LinkOk(d, k.id, None, seen[s])
               image == Linked(d, k.id, None, seen[s])
               touched == LinkTouched(d, k.id, None, seen[s])
    <3>5. (ok => AllWait(image)) /\ PrepareIf(s, ok, image, touched)
      BY <3>3, <3>4, Zenon
    <3> HIDE DEF ok, image, touched
    <3> QED
      BY <3>5, PrepareIfWaits
  <2>5. CASE LinkCancellation(s)
    <3>2. Unchanged(s) => /\ k.id \in Cancellations /\ db[k.id] \in Row
                          /\ seen[s] \in Approvals \cup {None}
      BY <1>r, <2>k DEF Unchanged, Row
    <3>3. Unchanged(s) /\ LinkOk(db, k.id, seen[s], k.to)
            => AllWait(Linked(db, k.id, seen[s], k.to))
      BY <1>t, <3>2, LinkedWaits DEF LinkOk
    <3>4. PrepareIf(s, Unchanged(s) /\ LinkOk(db, k.id, seen[s], k.to),
                    Linked(db, k.id, seen[s], k.to),
                    LinkTouched(db, k.id, seen[s], k.to))
      BY <2>5, Zenon DEF LinkCancellation
    <3> DEFINE ok == Unchanged(s) /\ LinkOk(db, k.id, seen[s], k.to)
               image == Linked(db, k.id, seen[s], k.to)
               touched == LinkTouched(db, k.id, seen[s], k.to)
    <3>5. (ok => AllWait(image)) /\ PrepareIf(s, ok, image, touched)
      BY <3>3, <3>4, Zenon
    <3> HIDE DEF ok, image, touched
    <3> QED
      BY <3>5, PrepareIfWaits
  <2>6. CASE UnlinkCancellation(s)
    <3>1. Unchanged(s) => AllWait(Restored(db, Detached(db, k.id), k.id))
      BY <1>t, <1>r, <2>k, DetachedType, DetachedWaits, RestoredWaits DEF Unchanged
    <3> QED
      BY <2>6, <3>1, PrepareIfWaits DEF UnlinkCancellation
  <2>7. CASE RemoveCancellation(s)
    <3>1. Unchanged(s) => AllWait(Restored(db, Erased(db, k.id), k.id))
      BY <1>t, <1>r, <2>k, ErasedType, ErasedWaits, RestoredWaits DEF Unchanged
    <3> QED
      BY <2>7, <3>1, PrepareIfWaits DEF RemoveCancellation
  <2>8. CASE RemoveApproval(s)
    <3>1. AllWait(Erased(db, k.id))
      BY <1>t, <2>k, ErasedWaits
    <3> QED
      BY <2>8, <3>1, PrepareIfWaits DEF RemoveApproval
  <2>9. CASE FlagApproval(s)
    <3>1. ASSUME NEW c \in Cancellations
          PROVE  Recalculate(db, k.id, k.flag, FALSE)[c] = db[c]
      BY <2>9, <2>k, <3>1, ApprovalIsNone DEF FlagApproval, Recalculate, WriteChain, Ids
    <3>2. AllWait(Recalculate(db, k.id, k.flag, FALSE))
      BY <1>t, <3>1 DEF AllWait
    <3> QED
      BY <2>9, <3>2, PrepareIfWaits DEF FlagApproval
  <2>10. CASE FlagCancellation(s)
    <3>1. k.id \in Cancellations /\ k.flag \in {"duplicate_suspected", NoFlag}
      BY <2>10, <2>k, CommandAssumption DEF FlagCancellation, At
    <3>2. Unchanged(s) => AllWait(Flagged(db, k.id, k.flag))
      BY <1>t, <1>r, <2>k, <3>1, FlaggedWaits DEF Unchanged
    <3> QED
      BY <2>10, <3>2, PrepareIfWaits DEF FlagCancellation
  <2>11. CASE AmendApproval(s)
    <3>1. k.id \in Approvals => AllWait(Amended(db, k))
      BY <1>t, AmendedWaits
    <3> QED
      BY <2>11, <3>1, PrepareIfWaits DEF AmendApproval
  <2>12. CASE RecalculateChain(s)
    <3>1. k.id \in Approvals => AllWait(Recalculated(db, k.id))
      BY <1>t, RecalculatedWaits DEF AllWait
    <3> QED
      BY <2>12, <3>1, PrepareIfWaits DEF RecalculateChain
  <2>13. CASE Commit(s)
    <3>1. \A i \in Ids : db'[i] = db[i] \/ db'[i] = write[s][i]
      BY <2>13 DEF Commit
    <3>2. write' = [write EXCEPT ![s] = NoWrites]
      BY <2>13 DEF Commit, Close
    <3>3. AllWait(db')
      BY <1>t, <3>1 DEF AllWait, WaitInv, Ids
    <3>4. \A u \in Sessions : AllWait(write'[u])
      BY <1>t, <3>2, NoRowsWait DEF WaitInv
    <3> QED
      BY <3>3, <3>4 DEF WaitInv, AllWait
  <2> QED
    BY <1>3, <2>1, <2>2, <2>3, <2>4, <2>5, <2>6, <2>7, <2>8, <2>9, <2>10, <2>11, <2>12,
       <2>13 DEF Step
<1>4. ASSUME NEW s \in Sessions, NEW k \in Commands, Begin(s, k) PROVE WaitInv'
  BY <1>4, <1>1 DEF Begin
<1>5. ASSUME NEW s \in Sessions, Abort(s) PROVE WaitInv'
  BY <1>5, <1>2 DEF Abort
<1> QED
  BY <1>1, <1>3, <1>4, <1>5 DEF Next, vars

(* createCancellation, unlinkCancellation, setReviewFlag: in every state a *)
(* committed cancellation counts nothing by itself, and while it has no    *)
(* approval it waits for a person.                                         *)
THEOREM UnlinkedAwaitsReviewAlways == Spec => []UnlinkedAwaitsReview
<1>1. Init => WaitInv
  <2> SUFFICES ASSUME Init PROVE WaitInv
    OBVIOUS
  <2>1. \A c \in Cancellations : db[c] \notin Row
    BY RowAssumption DEF Init, Ids
  <2>2. \A s \in Sessions : write[s] = NoWrites
    BY DEF Init
  <2> QED
    BY <2>1, <2>2, NoRowsWait DEF WaitInv, AllWait
<1>2. TypeInv /\ WaitInv => UnlinkedAwaitsReview
  <2> SUFFICES ASSUME TypeInv, WaitInv, NEW c \in Cancellations, Present(db, c)
               PROVE  Waiting(db[c])
    BY DEF UnlinkedAwaitsReview, Waiting
  <2>1. db[c] \in Row
    BY DEF TypeInv, TypeOK, Present, Ids
  <2> QED
    BY <2>1 DEF WaitInv, AllWait
<1> QED
  BY <1>1, <1>2, InitTypeInv, NextTypeInv, NextWaits, PTL DEF Spec

-----------------------------------------------------------------------------
(* The ledger's operators are those of this module: one plan, two uses. *)
LEMMA LedgerChain ==
  ASSUME NEW d, NEW a
  PROVE  /\ \A i : Ledger!Present(d, i) = Present(d, i)
         /\ Ledger!Children(d, a) = Children(d, a)
         /\ Ledger!CancelledUnits(d, a) = CancelledUnits(d, a)
<1>1. ASSUME NEW f PROVE Ledger!SumFunction(f) = SumFunction(f)
  BY DEF SumFunction, Ledger!SumFunction, SumFunctionOnSet, Ledger!SumFunctionOnSet,
         FoldFunctionOnSet, Ledger!FoldFunctionOnSet, MapThenFoldSet, Ledger!MapThenFoldSet
<1>2. Ledger!Children(d, a) = Children(d, a)
  BY Zenon DEF Ledger!Children, Children, Ledger!Present, Present
<1>3. Ledger!CancelledUnits(d, a) = CancelledUnits(d, a)
  BY <1>1, <1>2, Zenon DEF Ledger!CancelledUnits, CancelledUnits
<1>4. \A i : Ledger!Present(d, i) = Present(d, i)
  BY Zenon DEF Ledger!Present, Present
<1> QED
  BY <1>2, <1>3, <1>4

LEMMA LedgerMoney ==
  ASSUME NEW units, NEW cur, NEW day
  PROVE  /\ Ledger!Krw(units, cur, day) = Krw(units, cur, day)
         /\ Ledger!Convertible(units, cur, day) = Convertible(units, cur, day)
<1>1. Ledger!Krw(units, cur, day) = Krw(units, cur, day)
  BY Zenon DEF Ledger!Krw, Krw
<1>2. Ledger!Convertible(units, cur, day) = Convertible(units, cur, day)
  BY <1>1, Zenon DEF Ledger!Convertible, Convertible, Ledger!HasSnapshot, HasSnapshot,
                     Ledger!Units, Units
<1> QED
  BY <1>1, <1>2

LEMMA LedgerPlan ==
  ASSUME NEW d, NEW a, NEW units, NEW cur, NEW day, NEW at, NEW flag, NEW all
  PROVE  /\ Ledger!PlanOk(d, a, units, cur, day) = PlanOk(d, a, units, cur, day)
         /\ Ledger!WriteChain(d, a, units, cur, day, at, flag, all)
              = WriteChain(d, a, units, cur, day, at, flag, all)
<1>1. Ledger!PlanOk(d, a, units, cur, day) = PlanOk(d, a, units, cur, day)
  BY LedgerChain, LedgerMoney DEF Ledger!PlanOk, PlanOk
<1>2. Ledger!PlannedApproval(d, a, units, cur, day, at, flag)
        = PlannedApproval(d, a, units, cur, day, at, flag)
  BY LedgerChain, LedgerMoney, Zenon
     DEF Ledger!PlannedApproval, PlannedApproval, Ledger!DerivedStatus, DerivedStatus,
         Ledger!NoFlag, NoFlag, Ledger!None, None
<1>3. ASSUME NEW c PROVE Ledger!PlannedChild(d, c, cur, day) = PlannedChild(d, c, cur, day)
  BY LedgerMoney, Zenon DEF Ledger!PlannedChild, PlannedChild
<1> QED
  BY <1>1, <1>2, <1>3, LedgerChain, Zenon DEF Ledger!WriteChain, WriteChain, Ledger!Ids, Ids

LEMMA LedgerRecalculation ==
  ASSUME NEW d, NEW a, NEW flag, NEW all
  PROVE  /\ Ledger!RecalcOk(d, a) = RecalcOk(d, a)
         /\ Ledger!Recalculate(d, a, flag, all) = Recalculate(d, a, flag, all)
         /\ Ledger!Recalculated(d, a) = Recalculated(d, a)
<1>1. Ledger!FlagOf(d[a].status) = FlagOf(d[a].status)
  BY Zenon DEF Ledger!FlagOf, FlagOf, Ledger!Flags, Flags, Ledger!NoFlag, NoFlag
<1> QED
  BY <1>1, LedgerPlan, Zenon
     DEF Ledger!RecalcOk, RecalcOk, Ledger!Recalculate, Recalculate,
         Ledger!Recalculated, Recalculated

LEMMA LedgerLink ==
  ASSUME NEW d, NEW c, NEW previous, NEW a
  PROVE  /\ Ledger!LinkOk(d, c, previous, a) = LinkOk(d, c, previous, a)
         /\ Ledger!Linked(d, c, previous, a) = Linked(d, c, previous, a)
<1>1. Ledger!Claimed(d, c, a) = Claimed(d, c, a)
  BY Zenon DEF Ledger!Claimed, Claimed
<1>2. Ledger!Abandoned(previous, a) = Abandoned(previous, a)
  BY Zenon DEF Ledger!Abandoned, Abandoned, Ledger!None, None
<1>3. Ledger!LinkOk(d, c, previous, a) = LinkOk(d, c, previous, a)
  BY <1>1, <1>2, LedgerChain, LedgerRecalculation, Zenon DEF Ledger!LinkOk, LinkOk
<1>4. Ledger!Linked(d, c, previous, a) = Linked(d, c, previous, a)
  BY <1>1, <1>2, LedgerChain, LedgerRecalculation, Zenon
     DEF Ledger!Linked, Linked, Ledger!Ids, Ids
<1> QED
  BY <1>3, <1>4

LEMMA LedgerRestore ==
  ASSUME NEW d, NEW e, NEW c, NEW flag
  PROVE  /\ Ledger!RestoreOk(d, e, c) = RestoreOk(d, e, c)
         /\ Ledger!Restored(d, e, c) = Restored(d, e, c)
         /\ Ledger!Detached(d, c) = Detached(d, c)
         /\ Ledger!Erased(d, c) = Erased(d, c)
         /\ Ledger!Flagged(d, c, flag) = Flagged(d, c, flag)
<1>1. Ledger!RestoreOk(d, e, c) = RestoreOk(d, e, c)
  BY LedgerChain, LedgerRecalculation, Zenon DEF Ledger!RestoreOk, RestoreOk, Ledger!None, None
<1>2. Ledger!Restored(d, e, c) = Restored(d, e, c)
  BY LedgerRecalculation, Zenon DEF Ledger!Restored, Restored, Ledger!None, None
<1>3. /\ Ledger!Detached(d, c) = Detached(d, c)
      /\ Ledger!Erased(d, c) = Erased(d, c)
  BY Zenon DEF Ledger!Detached, Detached, Ledger!Erased, Erased, Ledger!None, None
<1>4. Ledger!Flagged(d, c, flag) = Flagged(d, c, flag)
  BY Zenon DEF Ledger!Flagged, Flagged, Ledger!NoFlag, NoFlag, Ledger!None, None
<1> QED
  BY <1>1, <1>2, <1>3, <1>4

LEMMA LedgerCommands ==
  ASSUME NEW d, NEW k
  PROVE  /\ \A a, units, cur, at : Ledger!ApprovalOk(d, a, units, cur, at) = ApprovalOk(d, a, units, cur, at)
         /\ \A a, units, cur, at, flag : Ledger!WithApproval(d, a, units, cur, at, flag)
              = WithApproval(d, a, units, cur, at, flag)
         /\ \A c, units, cur, at : Ledger!WithCancellation(d, c, units, cur, at)
              = WithCancellation(d, c, units, cur, at)
         /\ Ledger!AmendOk(d, k) = AmendOk(d, k)
         /\ Ledger!Amended(d, k) = Amended(d, k)
<1>1. \A field : Ledger!Fact(d, k, field) = Fact(d, k, field)
  BY Zenon DEF Ledger!Fact, Fact
<1>2. \A units, cur, at : Ledger!NewCancellation(units, cur, at) = NewCancellation(units, cur, at)
  BY LedgerMoney, Zenon DEF Ledger!NewCancellation, NewCancellation, Ledger!None, None
<1>3. /\ Ledger!AmendOk(d, k) = AmendOk(d, k)
      /\ Ledger!Amended(d, k) = Amended(d, k)
  <2>1. Ledger!AmendOk(d, k) = AmendOk(d, k)
    BY <1>1, LedgerPlan, Zenon DEF Ledger!AmendOk, AmendOk
  <2>2. Ledger!Amended(d, k) = Amended(d, k)
    <3>1. \A units, cur, at : Ledger!WriteChain(d, k.id, units, cur, at, at, k.flag, TRUE)
                                 = WriteChain(d, k.id, units, cur, at, at, k.flag, TRUE)
      BY LedgerPlan, Zenon
    <3> QED
      BY <1>1, <3>1, Zenon DEF Ledger!Amended, Amended
  <2> QED
    BY <2>1, <2>2
<1>4. \A c, units, cur, at : Ledger!WithCancellation(d, c, units, cur, at)
              = WithCancellation(d, c, units, cur, at)
  BY <1>2, Zenon DEF Ledger!WithCancellation, WithCancellation
<1>5. /\ \A a, units, cur, at : Ledger!ApprovalOk(d, a, units, cur, at) = ApprovalOk(d, a, units, cur, at)
      /\ \A a, units, cur, at, flag : Ledger!WithApproval(d, a, units, cur, at, flag)
              = WithApproval(d, a, units, cur, at, flag)
  BY LedgerPlan, Zenon DEF Ledger!ApprovalOk, ApprovalOk, Ledger!WithApproval, WithApproval
<1> QED
  BY <1>3, <1>4, <1>5

-----------------------------------------------------------------------------
(* One accepted command takes the rows d to the rows e, as the ledger has  *)
(* it; a new cancellation is linked, if at all, to an approval in held.    *)
Approves(d, e, k) ==
  /\ k.op = "createApproval" /\ k.id \in Approvals /\ ~Present(d, k.id)
  /\ ApprovalOk(d, k.id, k.units, k.cur, k.at)
  /\ e = WithApproval(d, k.id, k.units, k.cur, k.at, k.flag)

Cancels(d, e, k, held) ==
  LET x == WithCancellation(d, k.id, k.units, k.cur, k.at)
  IN /\ k.op = "createCancellation" /\ k.id \in Cancellations /\ ~Present(d, k.id)
     /\ Convertible(k.units, k.cur, k.at)
     /\ \/ e = x
        \/ \E a \in held :
             /\ a = k.to \/ (k.to = None /\ <<k.id, a>> \in Identity)
             /\ LinkOk(x, k.id, None, a)
             /\ e = Linked(x, k.id, None, a)

Links(d, e, k) ==
  /\ k.op = "link" /\ k.id \in Cancellations /\ Present(d, k.id)
  /\ LinkOk(d, k.id, d[k.id].parent, k.to)
  /\ e = Linked(d, k.id, d[k.id].parent, k.to)

Unlinks(d, e, k) ==
  /\ k.op = "unlink" /\ k.id \in Cancellations /\ Present(d, k.id)
  /\ d[k.id].parent # None
  /\ RestoreOk(d, Detached(d, k.id), k.id)
  /\ e = Restored(d, Detached(d, k.id), k.id)

Removes(d, e, k) ==
  /\ k.op \in {"removeCancellation", "removeTransaction"}
  /\ k.id \in Cancellations /\ Present(d, k.id)
  /\ RestoreOk(d, Erased(d, k.id), k.id)
  /\ e = Restored(d, Erased(d, k.id), k.id)

RemovesApproval(d, e, k) ==
  /\ k.op = "removeTransaction" /\ k.id \in Approvals /\ Present(d, k.id)
  /\ Children(d, k.id) = {}
  /\ e = Erased(d, k.id)

ReviewsApproval(d, e, k) ==
  /\ k.op = "setReviewFlag" /\ k.id \in Approvals /\ Present(d, k.id)
  /\ k.flag = NoFlag => d[k.id].status \in Flags
  /\ RecalcOk(d, k.id)
  /\ e = Recalculate(d, k.id, k.flag, FALSE)

ReviewsCancellation(d, e, k) ==
  /\ k.op = "setReviewFlag" /\ k.id \in Cancellations /\ Present(d, k.id)
  /\ k.flag = NoFlag => d[k.id].status \in Flags
  /\ e = Flagged(d, k.id, k.flag)

Amends(d, e, k) ==
  /\ k.op = "amend" /\ k.id \in Approvals /\ Present(d, k.id)
  /\ AmendOk(d, k)
  /\ e = Amended(d, k)

Recalculates(d, e, k) ==
  /\ k.op = "recalculate" /\ k.id \in Approvals /\ Present(d, k.id)
  /\ RecalcOk(d, k.id)
  /\ e = Recalculated(d, k.id)

Effect(d, e, k, held) ==
  \/ Approves(d, e, k) \/ Cancels(d, e, k, held) \/ Links(d, e, k)
  \/ Unlinks(d, e, k) \/ Removes(d, e, k) \/ RemovesApproval(d, e, k)
  \/ ReviewsApproval(d, e, k) \/ ReviewsCancellation(d, e, k)
  \/ Amends(d, e, k) \/ Recalculates(d, e, k)

LEMMA EffectIsLedgerStep ==
  ASSUME NEW k \in Commands, NEW held \in SUBSET Approvals, Effect(db, db', k, held)
  PROVE  Ledger!Next
<1>n. Ledger!NoFlag = NoFlag /\ Ledger!Flags = Flags /\ Ledger!None = None
  BY Zenon DEF Ledger!NoFlag, NoFlag, Ledger!Flags, Flags, Ledger!None, None
<1>1. CASE Approves(db, db', k)
  <2>1. ~Ledger!Present(db, k.id) /\ Ledger!ApprovalOk(db, k.id, k.units, k.cur, k.at)
    BY <1>1, LedgerCommands, LedgerChain, Zenon DEF Approves
  <2>2. db' = Ledger!WithApproval(db, k.id, k.units, k.cur, k.at, k.flag)
    BY <1>1, LedgerCommands DEF Approves
  <2>3. Ledger!CreateApproval(k)
    BY <1>1, <2>1, <2>2, Zenon DEF Approves, Ledger!CreateApproval
  <2> QED
    BY <2>3 DEF Ledger!Next
<1>2. CASE Cancels(db, db', k, held)
  <2>1. Ledger!WithCancellation(db, k.id, k.units, k.cur, k.at)
          = WithCancellation(db, k.id, k.units, k.cur, k.at)
    BY LedgerCommands
  <2>2. Ledger!Convertible(k.units, k.cur, k.at) /\ ~Ledger!Present(db, k.id)
    BY <1>2, LedgerMoney, LedgerChain, Zenon DEF Cancels
  <2> DEFINE x == WithCancellation(db, k.id, k.units, k.cur, k.at)
  <2>3. CASE db' = x
    <3>1. Ledger!CreateCancellation(k)
      BY <1>2, <2>1, <2>2, <2>3, Zenon DEF Cancels, Ledger!CreateCancellation
    <3> QED
      BY <3>1 DEF Ledger!Next
  <2>4. CASE \E a \in held :
             /\ a = k.to \/ (k.to = None /\ <<k.id, a>> \in Identity)
             /\ LinkOk(x, k.id, None, a)
             /\ db' = Linked(x, k.id, None, a)
    <3>1. PICK a \in held :
             /\ a = k.to \/ (k.to = None /\ <<k.id, a>> \in Identity)
             /\ LinkOk(x, k.id, None, a)
             /\ db' = Linked(x, k.id, None, a)
      BY <2>4, Zenon
    <3>2. /\ Ledger!LinkOk(x, k.id, None, a)
          /\ db' = Ledger!Linked(x, k.id, None, a)
      BY <3>1, LedgerLink, Zenon
    <3>3. a \in Approvals
      OBVIOUS
    <3>4. Ledger!CreateCancellation(k)
      BY <1>2, <1>n, <2>1, <2>2, <3>1, <3>2, <3>3, Zenon DEF Cancels, Ledger!CreateCancellation
    <3> QED
      BY <3>4 DEF Ledger!Next
  <2> QED
    BY <1>2, <2>3, <2>4 DEF Cancels
<1>3. CASE Links(db, db', k)
  <2>1. Ledger!Link(k)
    BY <1>3, LedgerLink, LedgerChain, Zenon DEF Links, Ledger!Link
  <2> QED
    BY <2>1 DEF Ledger!Next
<1>4. CASE Unlinks(db, db', k)
  <2>1. Ledger!Unlink(k)
    BY <1>4, <1>n, LedgerRestore, LedgerChain, Zenon DEF Unlinks, Ledger!Unlink
  <2> QED
    BY <2>1 DEF Ledger!Next
<1>5. CASE Removes(db, db', k)
  <2>1. Ledger!RemoveCancellation(k)
    BY <1>5, LedgerRestore, LedgerChain, Zenon DEF Removes, Ledger!RemoveCancellation
  <2> QED
    BY <2>1 DEF Ledger!Next
<1>6. CASE RemovesApproval(db, db', k)
  <2>1. Ledger!RemoveApproval(k)
    BY <1>6, LedgerRestore, LedgerChain, Zenon DEF RemovesApproval, Ledger!RemoveApproval
  <2> QED
    BY <2>1 DEF Ledger!Next
<1>7. CASE ReviewsApproval(db, db', k)
  <2>w. PICK w \in BOOLEAN : w = FALSE
    OBVIOUS
  <2>1. Ledger!Recalculate(db, k.id, k.flag, w) = Recalculate(db, k.id, k.flag, w)
    BY LedgerRecalculation
  <2>2. Ledger!SetReviewFlag(k)
    BY <1>7, <1>n, <2>w, <2>1, LedgerRecalculation, LedgerChain, Zenon
       DEF ReviewsApproval, Ledger!SetReviewFlag
  <2> QED
    BY <2>2 DEF Ledger!Next
<1>8. CASE ReviewsCancellation(db, db', k)
  <2>1. k.id \notin Approvals
    BY <1>8, ApprovalIsNone DEF ReviewsCancellation
  <2>2. Ledger!SetReviewFlag(k)
    BY <1>8, <1>n, <2>1, LedgerRestore, LedgerChain, Zenon
       DEF ReviewsCancellation, Ledger!SetReviewFlag
  <2> QED
    BY <2>2 DEF Ledger!Next
<1>9. CASE Amends(db, db', k)
  <2>1. Ledger!Amend(k)
    BY <1>9, LedgerCommands, LedgerChain, Zenon DEF Amends, Ledger!Amend
  <2> QED
    BY <2>1 DEF Ledger!Next
<1>10. CASE Recalculates(db, db', k)
  <2>1. Ledger!RecalculateChain(k)
    BY <1>10, LedgerRecalculation, LedgerChain, Zenon DEF Recalculates, Ledger!RecalculateChain
  <2> QED
    BY <2>1 DEF Ledger!Next
<1> QED
  BY <1>1, <1>2, <1>3, <1>4, <1>5, <1>6, <1>7, <1>8, <1>9, <1>10 DEF Effect
=============================================================================
